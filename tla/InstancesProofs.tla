--------------------------- MODULE InstancesProofs ---------------------------
(***************************************************************************)
(* Proofs about Instances, for any number of instances, requests, slugs    *)
(* and layers, and any way names lead to tables.                           *)
(***************************************************************************)
EXTENDS Instances, TLAPS

\* The steps of a worker that is on one layer, and those that make its table
OnLayer == {"dropping", "creating", "adding", "saving", "registering", "erasing",
            "clearing", "unlisting", "rewriting"}
MakesIt == {"dropping", "creating", "adding", "saving", "registering", "next"}

\* A layer's table bears the layer's label, and one about to be made its slug too.
Labelled(r) == r.table[2] = LabelOf[r.layer]

InstanceLinked ==
  \A i \in Instance :
    /\ status[i] # "absent" <=> slug[i] \in Slug
    /\ pc[i] # "idle" => status[i] # "absent"
    /\ pc[i] \in {"idle", "recording", "grouping", "next", "describing"} \cup OnLayer
    /\ pc[i] \notin {"registering", "erasing", "clearing", "unlisting", "rewriting"}
    /\ pc[i] \in OnLayer => on[i] # None
    /\ on[i] # None => /\ pc[i] \in MakesIt
                       /\ on[i].inst = i /\ on[i].layer \in Default
                       /\ on[i].table = TableFor(i, on[i].layer)

RequestLinked ==
  \A h \in Request :
    /\ pc[h] = "idle" => subject[h] = None /\ doomed[h] = {} /\ copying[h] = {}
    /\ pc[h] # "idle" => subject[h] \in Instance /\ status[subject[h]] # "absent"
    /\ pc[h] \in {"idle", "deleting", "purging", "cloning", "copying"} \cup OnLayer
    /\ on[h] # None <=> pc[h] \in OnLayer
    /\ on[h] # None => on[h].inst = subject[h] /\ Labelled(on[h])
    /\ pc[h] \in MakesIt => on[h].table = TableFor(on[h].inst, on[h].layer)
    /\ pc[h] \in {"adding", "saving", "registering"} => on[h].layer \in Extra
    /\ \A r \in copying[h] : Labelled(r)

RowsLinked == \A r \in rows : Live(r.inst) /\ Labelled(r)

LinkInv == TypeOK /\ InstanceLinked /\ RequestLinked /\ RowsLinked

\* A worker writes a table that it makes, rebuilds, deletes or drops with an instance.
Writes(w, t) ==
  \/ on[w] # None /\ on[w].table = t
  \/ w \in Request /\ t \in doomed[w] /\ pc[w] = "purging"

\* A table that is not contested has one row and one writer at most, for that row.
Watched ==
  \A t \in Table \ contested :
    /\ \A q, r \in rows : q.table = t /\ r.table = t => q = r
    /\ \A v, w \in Worker : Writes(v, t) /\ Writes(w, t) => v = w
    /\ \A w \in Worker, r \in rows : Writes(w, t) /\ r.table = t => on[w] = r

Excused(t) == t \in contested \cup left

-----------------------------------------------------------------------------
\* A table is there once its worker has made it.
Made ==
  \A w \in Worker : on[w] # None /\ pc[w] \in {"adding", "saving", "registering", "next"} =>
    on[w].table \in tables \/ Excused(on[w].table)
\* A row is gone once it is erased.
Erased ==
  \A h \in Request : pc[h] \in {"clearing", "unlisting", "rewriting"} =>
    on[h] \notin rows \/ Excused(on[h].table)
\* A row without its table has a worker at it.
Backed ==
  \A r \in rows : \/ r.table \in tables \/ Excused(r.table)
                  \/ \E w \in Worker : Writes(w, r.table)
TableInv == Made /\ Erased /\ Backed

\* The table's schema has no hyphen, which the deletion of its instance would lose.
Plain(t) == Bare[t[1]] = t[1]

\* The deletion of an instance knows of every table of its rows, or is yet to see it made.
Collected ==
  \A h \in Request : pc[h] = "deleting" =>
    \A r \in rows : r.inst = subject[h] =>
      \/ Dropped(r.table) \in doomed[h] \/ Excused(r.table)
      \/ on[r.inst] = r /\ pc[r.inst] \in {"dropping", "creating"}
\* A default layer has its row before its table is made, and after.
Rowed ==
  /\ \A w \in Worker : pc[w] \in {"dropping", "creating"} /\ on[w].layer \in Default =>
       on[w] \in rows \/ Excused(on[w].table) \/ ~Live(on[w].inst)
  /\ \A i \in Instance : on[i] # None /\ pc[i] \in {"adding", "saving", "next"} =>
       on[i] \in rows \/ Excused(on[i].table) \/ ~Plain(on[i].table)
\* A row about to be erased is there, or its instance went before.
Erasing ==
  \A h \in Request : pc[h] = "erasing" =>
    on[h] \in rows \/ Excused(on[h].table) \/ (~Live(on[h].inst) /\ ~Plain(on[h].table))
\* The table of an erased row is gone.
Cleared ==
  \A h \in Request : pc[h] \in {"unlisting", "rewriting"} =>
    on[h].table \notin tables \/ Excused(on[h].table)
\* A table no row names has a worker at it.
Owned ==
  \A t \in tables : \/ \E r \in rows : r.table = t
                    \/ Excused(t) \/ ~Plain(t)
                    \/ \E w \in Worker : Writes(w, t)
OrphanInv == Collected /\ Rowed /\ Erasing /\ Cleared /\ Owned

\* What a worker holds of a project file is the file with its own change, unless
\* two scripts held it at once.
ViewInv ==
  \A w \in Worker : pc[w] \in {"saving", "describing", "rewriting"} /\ File(w) \notin clashed =>
    /\ pc[w] = "saving" => view[w] = project[File(w)] \cup {on[w].table}
    /\ pc[w] = "describing" => view[w] = project[File(w)]
    /\ pc[w] = "rewriting" => view[w] = project[File(w)] \ {on[w].table}

\* A request about to add its row has its table in the project.
Registered ==
  \A h \in Request : pc[h] = "registering" =>
    \/ on[h].table \in project[File(h)] \/ File(h) \in clashed \/ Excused(on[h].table)
\* A row at which no worker is has its table in the project.
Listing ==
  \A r \in rows :
    /\ r.layer \in Extra /\ r.table[1] = slug[r.inst] /\ slug[r.inst] \notin clashed
    /\ ~Excused(r.table) /\ \A w \in Worker : ~Writes(w, r.table)
    => r.table \in project[slug[r.inst]]
ListInv == Registered /\ Listing

\* A row that names the table of another instance was copied from there.
OwnSchema(r) == r.table[1] = slug[r.inst] \/ Excused(r.table)
Schemas ==
  /\ \A r \in rows : OwnSchema(r)
  /\ \A h \in Request : on[h] # None => OwnSchema(on[h])
\* A project file is of an instance there is or was.
Served == \A s \in Slug : project[s] # {} => \E i \in Instance : slug[i] = s
\* No other instance has or had the slug, and no default layer the label.
Alone(i) == \A j \in Instance : slug[j] = slug[i] => j = i
Distinct(l) == \A d \in Default : LabelOf[d] # LabelOf[l]
\* A table of an OSM layer the project lists has its row, or a worker at it.
Unlisting ==
  \A i \in Instance, l \in Extra :
    /\ Live(i) /\ Alone(i) /\ Distinct(l) /\ slug[i] \notin clashed
    /\ TableFor(i, l) \in project[slug[i]] /\ ~Excused(TableFor(i, l))
    => \/ \E r \in rows : r.table = TableFor(i, l)
       \/ \E w \in Worker : on[w] # None /\ on[w].table = TableFor(i, l)
UnlistInv == Schemas /\ Served /\ Unlisting
-----------------------------------------------------------------------------
(* What is contested *)

\* The history of contested tables only grows, and misses none.
Kept == contested \subseteq contested' /\ contested' \subseteq Table

\* After a step a table that is not contested has one row and one writer at most.
LEMMA WatchKeeps ==
  ASSUME LinkInv, Watch
  PROVE  Kept /\ Watched'
BY DEF LinkInv, TypeOK, Watch, Kept, Watched, Contested, Naming, Writers, Writes

-----------------------------------------------------------------------------
(* Types, and what workers refer to *)

\* A worker on a layer, or describing a project, edits the project of an instance.
LEMMA Files ==
  ASSUME LinkInv, NEW w \in Worker,
         on[w] # None \/ (w \in Instance /\ pc[w] # "idle")
  PROVE  InstOf(w) \in Instance /\ File(w) \in Slug /\ (w \in Request => InstOf(w) = subject[w])
<1> USE SlugAssumption DEF LinkInv, TypeOK, Worker, Layer, InstOf, File, OnLayer, MakesIt
<1>1. CASE w \in Instance
  BY <1>1 DEF InstanceLinked
<1>2. CASE w \in Request
  BY <1>2 DEF RequestLinked, InstanceLinked
<1>3. QED
  BY <1>1, <1>2

\* The table of a layer is a table.
LEMMA TableOf ==
  ASSUME LinkInv, NEW i \in Instance, status[i] # "absent", NEW l \in Default \cup Extra
  PROVE  TableFor(i, l) \in Table
BY SlugAssumption DEF LinkInv, InstanceLinked, TableFor, Table

\* So is the one the deletion of its instance drops for it.
LEMMA DroppedIsTable ==
  ASSUME NEW t \in Table
  PROVE  Dropped(t) \in Table
BY SlugAssumption DEF Dropped, Table

\* The row of a layer to be made
LEMMA NewRow ==
  ASSUME LinkInv, NEW i \in Instance, status[i] # "absent", NEW l \in Default \cup Extra,
         NEW r, r = [inst |-> i, layer |-> l, table |-> TableFor(i, l)]
  PROVE  /\ r \in Layer /\ r # None /\ r.inst = i /\ r.layer = l /\ r.table = TableFor(i, l)
         /\ r.table \in Table /\ r.table[2] = LabelOf[r.layer] /\ r.table[1] = slug[i]
<1>1. TableFor(i, l) \in Table /\ TableFor(i, l)[2] = LabelOf[l] /\ TableFor(i, l)[1] = slug[i]
  BY TableOf DEF TableFor
<1>2. r \in Layer
  BY <1>1 DEF Layer
<1>3. QED
  BY <1>1, <1>2, SlugAssumption

\* A worker as typed
WorkerTyped ==
  /\ pc \in [Worker -> Steps] /\ on \in [Worker -> Layer \cup {None}]
  /\ subject \in [Request -> Instance \cup {None}]
  /\ doomed \in [Request -> SUBSET Table] /\ copying \in [Request -> SUBSET Layer]

\* A worker whose table is made or not, and a request that ends, stay typed.
LEMMA EndTyped ==
  ASSUME TypeOK
  PROVE  /\ \A h \in Request : Done(h) => WorkerTyped'
         /\ \A w \in Worker : NoTable(w) \/ MadeTable(w) => WorkerTyped'
<1>1. ASSUME NEW h \in Request, Done(h) PROVE WorkerTyped'
  BY <1>1 DEF TypeOK, WorkerTyped, Done, Goto, Steps, Worker
<1>2. ASSUME NEW w \in Worker, NoTable(w) \/ MadeTable(w) PROVE WorkerTyped'
  <2>1. CASE w \in Request /\ Done(w)
    BY <1>1, <2>1
  <2>2. CASE Goto(w, "adding") /\ UNCHANGED <<on, request>>
    BY <2>2 DEF TypeOK, WorkerTyped, Goto, Steps, Worker, request
  <2>3. QED
    BY <1>2, <2>1, <2>2 DEF NoTable, MadeTable, Worker
<1>3. QED
  BY <1>1, <1>2

\* Every step keeps the types.
LEMMA TypeStep ==
  ASSUME LinkInv, Kept, Step
  PROVE  TypeOK'
<1> USE SlugAssumption DEF TypeOK, Worker, Steps, catalogue, worker, request, Kept, LinkInv,
     InstanceLinked, RequestLinked, OnLayer, MakesIt, Live
<1>a. \A w \in Worker : on[w] # None => on[w] \in Layer /\ on[w].table \in Table
  BY DEF Layer
<1>b. \A w \in Worker : on[w] # None \/ (w \in Instance /\ pc[w] # "idle") => File(w) \in Slug
  BY Files
<1>c. \A r \in Layer : r.table \in Table /\ r.inst \in Instance /\ r.layer \in Default \cup Extra
  BY DEF Layer
<1>d. \A i \in Instance, l \in Default \cup Extra : status[i] # "absent" =>
        TableFor(i, l) \in Table /\ [inst |-> i, layer |-> l, table |-> TableFor(i, l)] \in Layer
  BY TableOf DEF Layer
<1>e. \A r \in Layer, i \in Instance : [r EXCEPT !.inst = i] \in Layer
  BY DEF Layer
<1>1. ASSUME NEW i \in Instance, NEW s \in Slug, CreateInstance(i, s) PROVE TypeOK'
  BY <1>1, <1>a, <1>b, <1>c, <1>d, <1>e, DroppedIsTable DEF CreateInstance, Goto
<1>2. ASSUME NEW i \in Instance, RecordProject(i) PROVE TypeOK'
  BY <1>2, <1>a, <1>b, <1>c, <1>d, <1>e, DroppedIsTable DEF RecordProject, Goto, Stop
<1>3. ASSUME NEW i \in Instance, CreateGroups(i) PROVE TypeOK'
  BY <1>3, <1>a, <1>b, <1>c, <1>d, <1>e, DroppedIsTable DEF CreateGroups, Goto, Stop
<1>4. ASSUME NEW i \in Instance, NEW l \in Default, LoadLayer(i, l) PROVE TypeOK'
  <2>1. CASE Creatable(i, l)
    <3> DEFINE r == [inst |-> i, layer |-> l, table |-> TableFor(i, l)]
    <3>1. r \in Layer
      BY <2>1, <1>d DEF Creatable
    <3>2. /\ rows' = rows \cup {r} /\ on' = [on EXCEPT ![i] = r]
          /\ loading' = [loading EXCEPT ![i] = @ \ {l}] /\ Goto(i, "dropping")
          /\ UNCHANGED <<status, slug, group, tables, project, view, request, left, clashed>>
      BY <1>4, <2>1 DEF LoadLayer
    <3> HIDE DEF r
    <3>3. QED
      BY <3>1, <3>2 DEF Goto
  <2>2. CASE ~Creatable(i, l)
    BY SMTT(30), <1>4, <2>2 DEF LoadLayer, Goto, Stop
  <2>3. QED
    BY <2>1, <2>2
<1>5. ASSUME NEW i \in Instance, DescribeProject(i) PROVE TypeOK'
  BY <1>5, <1>a, <1>b, <1>c, <1>d, <1>e, DroppedIsTable DEF DescribeProject, Goto
<1>6. ASSUME NEW i \in Instance, SaveDescribed(i) PROVE TypeOK'
  BY <1>6, <1>a, <1>b, <1>c, <1>d, <1>e, DroppedIsTable DEF SaveDescribed, SaveFile, Goto
<1>7. ASSUME NEW i \in Instance, Crash(i) PROVE TypeOK'
  BY <1>7, <1>a, <1>b, <1>c, <1>d, <1>e, DroppedIsTable DEF Crash, Stop, Goto, Leave, Unfinished
<1>8. ASSUME NEW i \in Instance, DeleteGroup(i) PROVE TypeOK'
  BY <1>8, <1>a, <1>b, <1>c, <1>d, <1>e, DroppedIsTable DEF DeleteGroup, Leave, RowsOf
<1>9. ASSUME NEW w \in Worker, DropOld(w) PROVE TypeOK'
  BY <1>9, <1>a, <1>b, <1>c, <1>d, <1>e, DroppedIsTable DEF DropOld, Goto
<1>10. ASSUME NEW w \in Worker, CreateTable(w) PROVE TypeOK'
  <2>1. on[w].table \in Table
    BY <1>a, <1>10 DEF CreateTable
  <2>2. WorkerTyped'
    BY <1>10, EndTyped DEF CreateTable
  <2>3. QED
    BY <1>10, <2>1, <2>2 DEF CreateTable, Leave, WorkerTyped
<1>11. ASSUME NEW w \in Worker, TableFails(w) PROVE TypeOK'
  <2>1. on[w].table \in Table
    BY <1>a, <1>11 DEF TableFails
  <2>2. WorkerTyped'
    BY <1>11, EndTyped DEF TableFails
  <2>3. QED
    BY <1>11, <2>1, <2>2 DEF TableFails, Leave, WorkerTyped
<1>12. ASSUME NEW w \in Worker, ReadProject(w) PROVE TypeOK'
  BY SMTT(30), <1>12, <1>a, <1>b, <1>c, <1>d, <1>e, DroppedIsTable DEF ReadProject, Listed, Goto
<1>13. ASSUME NEW w \in Worker, AddFails(w) PROVE TypeOK'
  BY <1>13, <1>a, <1>b, <1>c, <1>d, <1>e, DroppedIsTable DEF AddFails, Listed, Goto
<1>14. ASSUME NEW w \in Worker, SaveAdded(w) PROVE TypeOK'
  BY <1>14, <1>a, <1>b, <1>c, <1>d, <1>e, DroppedIsTable DEF SaveAdded, SaveFile, Listed, Goto
<1>15. ASSUME NEW h \in Request, NEW i \in Instance, NEW l \in Extra, AskOsmLayer(h, i, l) PROVE TypeOK'
  BY <1>15, <1>a, <1>b, <1>c, <1>d, <1>e, DroppedIsTable DEF AskOsmLayer, Begin, Goto
<1>16. ASSUME NEW h \in Request, RegisterLayer(h) PROVE TypeOK'
  BY <1>16, <1>a, <1>b, <1>c, <1>d, <1>e, DroppedIsTable DEF RegisterLayer, Creatable, Done, Goto, Leave
<1>17. ASSUME NEW h \in Request, NEW r \in rows, AskResync(h, r) PROVE TypeOK'
  BY <1>17, <1>a, <1>b, <1>c, <1>d, <1>e, DroppedIsTable DEF AskResync, Begin, Goto
<1>18. ASSUME NEW h \in Request, NEW r \in rows, AskDeleteLayer(h, r) PROVE TypeOK'
  BY <1>18, <1>a, <1>b, <1>c, <1>d, <1>e, DroppedIsTable DEF AskDeleteLayer, Begin, Goto
<1>19. ASSUME NEW h \in Request, EraseRow(h) PROVE TypeOK'
  <2>1. CASE on[h] \in rows
    BY <1>19, <2>1, <1>a DEF EraseRow, Done, Goto
  <2>2. CASE ~(on[h] \in rows)
    BY <1>19, <2>2, EndTyped DEF EraseRow, Goto, WorkerTyped
  <2>3. QED
    BY <2>1, <2>2
<1>20. ASSUME NEW h \in Request, DropTable(h) PROVE TypeOK'
  BY <1>20, <1>a, <1>b, <1>c, <1>d, <1>e, DroppedIsTable DEF DropTable, Goto
<1>21. ASSUME NEW h \in Request, DropTableFails(h) PROVE TypeOK'
  BY <1>21, <1>a, <1>b, <1>c, <1>d, <1>e, DroppedIsTable DEF DropTableFails, Goto, Leave
<1>22. ASSUME NEW h \in Request, Unlist(h) PROVE TypeOK'
  <2>1. CASE Live(subject[h]) /\ Findable(h)
    BY <1>22, <2>1, <1>b DEF Unlist, Goto
  <2>2. CASE ~(Live(subject[h]) /\ Findable(h))
    BY <1>22, <2>2, EndTyped DEF Unlist, Goto, WorkerTyped
  <2>3. QED
    BY <2>1, <2>2
<1>23. ASSUME NEW h \in Request, SaveRemoved(h) PROVE TypeOK'
  BY <1>23, <1>a, <1>b, <1>c, <1>d, <1>e, DroppedIsTable DEF SaveRemoved, SaveFile, Done, Goto
<1>24. ASSUME NEW h \in Request, Abort(h) PROVE TypeOK'
  BY <1>24, <1>a, <1>b, <1>c, <1>d, <1>e, DroppedIsTable DEF Abort, Done, Goto, Leave, Unfinished
<1>25. ASSUME NEW h \in Request, NEW i \in Instance, CollectTables(h, i) PROVE TypeOK'
  BY <1>25, <1>a, <1>b, <1>c, <1>d, <1>e, DroppedIsTable DEF CollectTables, RowsOf, Begin, Goto
<1>26. ASSUME NEW h \in Request, Cascade(h) PROVE TypeOK'
  <2>1. CASE Live(subject[h])
    <3>1. subject[h] \in Instance
      BY <1>26, <1>a, <1>b, <1>c, <1>d, <1>e, DroppedIsTable DEF Cascade
    <3>2. /\ status' = [status EXCEPT ![subject[h]] = "deleted"]
          /\ group' = group \ {subject[h]} /\ rows' \subseteq rows
          /\ Goto(h, "purging") /\ UNCHANGED <<on, request>>
          /\ UNCHANGED <<slug, tables, project, view, loading, left, clashed>>
      BY <1>26, <2>1 DEF Cascade, RowsOf
    <3>3. QED
      BY <3>1, <3>2 DEF Goto
  <2>2. CASE ~(Live(subject[h]))
    BY <1>26, <2>2, EndTyped DEF Cascade, RowsOf, Goto, WorkerTyped
  <2>3. QED
    BY <2>1, <2>2
<1>27. ASSUME NEW h \in Request, Purged(h) PROVE TypeOK'
  BY <1>27, <1>a, <1>b, <1>c, <1>d, <1>e, DroppedIsTable DEF Purged, Done, Goto
<1>28. ASSUME NEW h \in Request, NEW t \in Table, DropNext(h, t) PROVE TypeOK'
  BY <1>28, <1>a, <1>b, <1>c, <1>d, <1>e, DroppedIsTable DEF DropNext, Dropping
<1>29. ASSUME NEW h \in Request, NEW t \in Table, DropNextFails(h, t) PROVE TypeOK'
  BY <1>29, <1>a, <1>b, <1>c, <1>d, <1>e, DroppedIsTable DEF DropNextFails, Dropping, Leave
<1>30. ASSUME NEW h \in Request, NEW i \in Instance, NEW src \in Instance, NEW s \in Slug, CreateTemplate(h, i, s, src)
       PROVE TypeOK'
  BY <1>30, <1>a, <1>b, <1>c, <1>d, <1>e, DroppedIsTable DEF CreateTemplate, RowsOf, Begin, Goto
<1>31. ASSUME NEW h \in Request, CloneGroups(h) PROVE TypeOK'
  <2>1. CASE Live(subject[h])
    BY <1>31, <2>1, <1>a DEF CloneGroups, Done, Goto
  <2>2. CASE ~(Live(subject[h]))
    BY <1>31, <2>2, EndTyped DEF CloneGroups, Goto, WorkerTyped
  <2>3. QED
    BY <2>1, <2>2
<1>32. ASSUME NEW h \in Request, Cloned(h) PROVE TypeOK'
  BY <1>32, <1>a, <1>b, <1>c, <1>d, <1>e, DroppedIsTable DEF Cloned, Done, Goto
<1>33. ASSUME NEW h \in Request, NEW r \in copying[h], CloneLayer(h, r) PROVE TypeOK'
  <2>1. CASE Creatable(subject[h], r.layer)
    <3> DEFINE c == [r EXCEPT !.inst = subject[h]]
    <3>1. c \in Layer /\ r.table \in Table
      BY <1>33, <2>1, <1>c, <1>e DEF CloneLayer
    <3>2. /\ rows' = rows \cup {c} /\ copying' = [copying EXCEPT ![h] = @ \ {r}]
          /\ left' \subseteq left \cup {r.table} /\ UNCHANGED <<pc, on, subject, doomed>>
          /\ UNCHANGED <<status, slug, group, tables, project, view, loading, clashed>>
      BY <1>33, <2>1 DEF CloneLayer, Leave
    <3> HIDE DEF c
    <3>3. QED
      BY <3>1, <3>2
  <2>2. CASE ~(Creatable(subject[h], r.layer))
    BY <1>33, <2>2, EndTyped DEF CloneLayer, Creatable, Goto, Leave, WorkerTyped
  <2>3. QED
    BY <2>1, <2>2
<1>34. QED
  BY <1>1, <1>2, <1>3, <1>4, <1>5, <1>6, <1>7, <1>8, <1>9, <1>10, <1>11, <1>12, <1>13, <1>14, <1>15,
     <1>16, <1>17, <1>18, <1>19, <1>20, <1>21, <1>22, <1>23, <1>24, <1>25, <1>26, <1>27, <1>28,
     <1>29, <1>30, <1>31, <1>32, <1>33
     DEF Step, Initialising, Making, Requesting, Deleting, Cloning

\* Every step keeps what an initialisation refers to.
LEMMA InstanceStep ==
  ASSUME LinkInv, TypeOK', Step
  PROVE  InstanceLinked'
<1> USE SlugAssumption DEF TypeOK, Worker, Steps, catalogue, worker, request, LinkInv,
     InstanceLinked, OnLayer, MakesIt, TableFor
<1>1. ASSUME NEW i \in Instance, NEW s \in Slug, CreateInstance(i, s) PROVE InstanceLinked'
  BY <1>1 DEF CreateInstance, Goto
<1>2. ASSUME NEW i \in Instance, RecordProject(i) PROVE InstanceLinked'
  BY <1>2 DEF RecordProject, Goto, Stop
<1>3. ASSUME NEW i \in Instance, CreateGroups(i) PROVE InstanceLinked'
  BY <1>3 DEF CreateGroups, Goto, Stop
<1>4. ASSUME NEW i \in Instance, NEW l \in Default, LoadLayer(i, l) PROVE InstanceLinked'
  BY <1>4 DEF LoadLayer, Creatable, Goto, Stop, Layer, Live
<1>5. ASSUME NEW i \in Instance, DescribeProject(i) PROVE InstanceLinked'
  BY <1>5 DEF DescribeProject, Goto
<1>6. ASSUME NEW i \in Instance, SaveDescribed(i) PROVE InstanceLinked'
  BY <1>6 DEF SaveDescribed, SaveFile, Goto
<1>7. ASSUME NEW i \in Instance, Crash(i) PROVE InstanceLinked'
  BY <1>7 DEF Crash, Stop, Goto, Leave, Unfinished
<1>8. ASSUME NEW i \in Instance, DeleteGroup(i) PROVE InstanceLinked'
  BY <1>8 DEF DeleteGroup, Leave, RowsOf
<1>9. ASSUME NEW w \in Worker, DropOld(w) PROVE InstanceLinked'
  BY <1>9 DEF DropOld, Goto
<1>10. ASSUME NEW w \in Worker, CreateTable(w) PROVE InstanceLinked'
  BY <1>10 DEF CreateTable, NoTable, MadeTable, Done, Goto, Leave
<1>11. ASSUME NEW w \in Worker, TableFails(w) PROVE InstanceLinked'
  BY <1>11 DEF TableFails, NoTable, Done, Goto, Leave
<1>12. ASSUME NEW w \in Worker, ReadProject(w) PROVE InstanceLinked'
  BY <1>12 DEF ReadProject, Listed, Goto
<1>13. ASSUME NEW w \in Worker, AddFails(w) PROVE InstanceLinked'
  BY <1>13 DEF AddFails, Listed, Goto
<1>14. ASSUME NEW w \in Worker, SaveAdded(w) PROVE InstanceLinked'
  BY <1>14 DEF SaveAdded, SaveFile, Listed, Goto
<1>15. ASSUME NEW h \in Request, NEW i \in Instance, NEW l \in Extra, AskOsmLayer(h, i, l) PROVE InstanceLinked'
  BY <1>15 DEF AskOsmLayer, Begin, Goto
<1>16. ASSUME NEW h \in Request, RegisterLayer(h) PROVE InstanceLinked'
  BY <1>16 DEF RegisterLayer, Creatable, Done, Goto, Leave
<1>17. ASSUME NEW h \in Request, NEW r \in rows, AskResync(h, r) PROVE InstanceLinked'
  BY <1>17 DEF AskResync, Begin, Goto
<1>18. ASSUME NEW h \in Request, NEW r \in rows, AskDeleteLayer(h, r) PROVE InstanceLinked'
  BY <1>18 DEF AskDeleteLayer, Begin, Goto
<1>19. ASSUME NEW h \in Request, EraseRow(h) PROVE InstanceLinked'
  BY <1>19 DEF EraseRow, Done, Goto
<1>20. ASSUME NEW h \in Request, DropTable(h) PROVE InstanceLinked'
  BY <1>20 DEF DropTable, Goto
<1>21. ASSUME NEW h \in Request, DropTableFails(h) PROVE InstanceLinked'
  BY <1>21 DEF DropTableFails, Goto, Leave
<1>22. ASSUME NEW h \in Request, Unlist(h) PROVE InstanceLinked'
  BY <1>22 DEF Unlist, Done, Goto
<1>23. ASSUME NEW h \in Request, SaveRemoved(h) PROVE InstanceLinked'
  BY <1>23 DEF SaveRemoved, SaveFile, Done, Goto
<1>24. ASSUME NEW h \in Request, Abort(h) PROVE InstanceLinked'
  BY <1>24 DEF Abort, Done, Goto, Leave, Unfinished
<1>25. ASSUME NEW h \in Request, NEW i \in Instance, CollectTables(h, i) PROVE InstanceLinked'
  BY <1>25 DEF CollectTables, RowsOf, Begin, Goto
<1>26. ASSUME NEW h \in Request, Cascade(h) PROVE InstanceLinked'
  BY <1>26 DEF Cascade, RowsOf, Done, Goto, RequestLinked
<1>27. ASSUME NEW h \in Request, Purged(h) PROVE InstanceLinked'
  BY <1>27 DEF Purged, Done, Goto
<1>28. ASSUME NEW h \in Request, NEW t \in Table, DropNext(h, t) PROVE InstanceLinked'
  BY <1>28 DEF DropNext, Dropping
<1>29. ASSUME NEW h \in Request, NEW t \in Table, DropNextFails(h, t) PROVE InstanceLinked'
  BY <1>29 DEF DropNextFails, Dropping, Leave
<1>30. ASSUME NEW h \in Request, NEW i \in Instance, NEW src \in Instance, NEW s \in Slug, CreateTemplate(h, i, s, src)
       PROVE InstanceLinked'
  BY <1>30 DEF CreateTemplate, RowsOf, Begin, Goto
<1>31. ASSUME NEW h \in Request, CloneGroups(h) PROVE InstanceLinked'
  BY <1>31 DEF CloneGroups, Done, Goto
<1>32. ASSUME NEW h \in Request, Cloned(h) PROVE InstanceLinked'
  BY <1>32 DEF Cloned, Done, Goto
<1>33. ASSUME NEW h \in Request, NEW r \in copying[h], CloneLayer(h, r) PROVE InstanceLinked'
  BY <1>33 DEF CloneLayer, Creatable, Done, Goto, Leave
<1>34. QED
  BY <1>1, <1>2, <1>3, <1>4, <1>5, <1>6, <1>7, <1>8, <1>9, <1>10, <1>11, <1>12, <1>13, <1>14, <1>15,
     <1>16, <1>17, <1>18, <1>19, <1>20, <1>21, <1>22, <1>23, <1>24, <1>25, <1>26, <1>27, <1>28,
     <1>29, <1>30, <1>31, <1>32, <1>33
     DEF Step, Initialising, Making, Requesting, Deleting, Cloning

\* Every step keeps what a request refers to.
LEMMA RequestStep ==
  ASSUME LinkInv, TypeOK', Step
  PROVE  RequestLinked'
<1> USE SlugAssumption DEF TypeOK, Worker, Steps, catalogue, worker, request, LinkInv,
     RequestLinked, RowsLinked, OnLayer, MakesIt, TableFor, Labelled, Live
<1>a. /\ \A w \in Worker : on[w] # None => on[w].layer \in Default \cup Extra
      /\ \A r \in rows : /\ r \in Layer /\ r # None /\ r.inst \in Instance
                        /\ r.table \in Table /\ r.layer \in Default \cup Extra
  BY DEF Layer
<1>1. ASSUME NEW i \in Instance, NEW s \in Slug, CreateInstance(i, s) PROVE RequestLinked'
  BY <1>1 DEF CreateInstance, Goto
<1>2. ASSUME NEW i \in Instance, RecordProject(i) PROVE RequestLinked'
  BY <1>2 DEF RecordProject, Goto, Stop
<1>3. ASSUME NEW i \in Instance, CreateGroups(i) PROVE RequestLinked'
  BY <1>3 DEF CreateGroups, Goto, Stop
<1>4. ASSUME NEW i \in Instance, NEW l \in Default, LoadLayer(i, l) PROVE RequestLinked'
  BY <1>4 DEF LoadLayer, Creatable, Goto, Stop
<1>5. ASSUME NEW i \in Instance, DescribeProject(i) PROVE RequestLinked'
  BY <1>5 DEF DescribeProject, Goto
<1>6. ASSUME NEW i \in Instance, SaveDescribed(i) PROVE RequestLinked'
  BY <1>6 DEF SaveDescribed, SaveFile, Goto
<1>7. ASSUME NEW i \in Instance, Crash(i) PROVE RequestLinked'
  BY <1>7 DEF Crash, Stop, Goto, Leave, Unfinished
<1>8. ASSUME NEW i \in Instance, DeleteGroup(i) PROVE RequestLinked'
  BY <1>8 DEF DeleteGroup, Leave, RowsOf
<1>9. ASSUME NEW w \in Worker, DropOld(w) PROVE RequestLinked'
  BY <1>9 DEF DropOld, Goto
<1>10. ASSUME NEW w \in Worker, CreateTable(w) PROVE RequestLinked'
  <2>1. CASE w \in Request /\ Done(w)
    BY <1>10, <2>1 DEF CreateTable, Done, Goto
  <2>2. CASE w \in Request /\ Goto(w, "adding") /\ on[w].layer \notin Default /\ UNCHANGED <<on, request>>
    BY <1>10, <2>2, <1>a DEF CreateTable, Goto
  <2>3. CASE w \in Instance
    BY <1>10, <2>3 DEF CreateTable, NoTable, MadeTable, Goto
  <2>4. QED
    BY <1>10, <2>1, <2>2, <2>3 DEF CreateTable, NoTable, MadeTable
<1>11. ASSUME NEW w \in Worker, TableFails(w) PROVE RequestLinked'
  BY <1>11 DEF TableFails, NoTable, Done, Goto, Leave
<1>12. ASSUME NEW w \in Worker, ReadProject(w) PROVE RequestLinked'
  BY <1>12 DEF ReadProject, Listed, Goto
<1>13. ASSUME NEW w \in Worker, AddFails(w) PROVE RequestLinked'
  BY <1>13 DEF AddFails, Listed, Goto
<1>14. ASSUME NEW w \in Worker, SaveAdded(w) PROVE RequestLinked'
  BY <1>14 DEF SaveAdded, SaveFile, Listed, Goto
<1>15. ASSUME NEW h \in Request, NEW i \in Instance, NEW l \in Extra, AskOsmLayer(h, i, l) PROVE RequestLinked'
  <2>1. PICK r : r = [inst |-> i, layer |-> l, table |-> TableFor(i, l)]
    OBVIOUS
  <2>2. /\ r \in Layer /\ r # None /\ r.inst = i /\ r.layer = l /\ r.table = TableFor(i, l)
        /\ r.table[2] = LabelOf[l] /\ status[i] # "absent"
    BY <1>15, <2>1, NewRow DEF AskOsmLayer
  <2>3. /\ pc[h] = "idle" /\ Goto(h, "dropping") /\ subject' = [subject EXCEPT ![h] = i]
        /\ on' = [on EXCEPT ![h] = r] /\ UNCHANGED <<catalogue, doomed, copying>>
    BY <1>15, <2>1 DEF AskOsmLayer, Begin
  <2>4. QED
    BY <2>1, <2>2, <2>3 DEF Goto
<1>16. ASSUME NEW h \in Request, RegisterLayer(h) PROVE RequestLinked'
  BY <1>16 DEF RegisterLayer, Creatable, Done, Goto, Leave
<1>17. ASSUME NEW h \in Request, NEW r \in rows, AskResync(h, r) PROVE RequestLinked'
  <2>1. /\ r \in Layer /\ r # None /\ r.inst \in Instance /\ status[r.inst] # "absent"
        /\ r.table[2] = LabelOf[r.layer] /\ r.table \in Table
    BY <1>17, <1>a
  <2>2. r.table = TableFor(r.inst, r.layer)
    BY <1>17, <2>1 DEF AskResync, Table
  <2>3. QED
    BY <1>17, <2>1, <2>2 DEF AskResync, Begin, Goto
<1>18. ASSUME NEW h \in Request, NEW r \in rows, AskDeleteLayer(h, r) PROVE RequestLinked'
  BY <1>18 DEF AskDeleteLayer, Begin, Goto, Layer
<1>19. ASSUME NEW h \in Request, EraseRow(h) PROVE RequestLinked'
  BY <1>19 DEF EraseRow, Done, Goto
<1>20. ASSUME NEW h \in Request, DropTable(h) PROVE RequestLinked'
  BY <1>20 DEF DropTable, Goto
<1>21. ASSUME NEW h \in Request, DropTableFails(h) PROVE RequestLinked'
  BY <1>21 DEF DropTableFails, Goto, Leave
<1>22. ASSUME NEW h \in Request, Unlist(h) PROVE RequestLinked'
  BY <1>22 DEF Unlist, Done, Goto
<1>23. ASSUME NEW h \in Request, SaveRemoved(h) PROVE RequestLinked'
  BY <1>23 DEF SaveRemoved, SaveFile, Done, Goto
<1>24. ASSUME NEW h \in Request, Abort(h) PROVE RequestLinked'
  BY <1>24 DEF Abort, Done, Goto, Leave, Unfinished
<1>25. ASSUME NEW h \in Request, NEW i \in Instance, CollectTables(h, i) PROVE RequestLinked'
  BY <1>25 DEF CollectTables, RowsOf, Begin, Goto
<1>26. ASSUME NEW h \in Request, Cascade(h) PROVE RequestLinked'
  BY <1>26 DEF Cascade, RowsOf, Done, Goto
<1>27. ASSUME NEW h \in Request, Purged(h) PROVE RequestLinked'
  BY <1>27 DEF Purged, Done, Goto
<1>28. ASSUME NEW h \in Request, NEW t \in Table, DropNext(h, t) PROVE RequestLinked'
  BY <1>28 DEF DropNext, Dropping
<1>29. ASSUME NEW h \in Request, NEW t \in Table, DropNextFails(h, t) PROVE RequestLinked'
  BY <1>29 DEF DropNextFails, Dropping, Leave
<1>30. ASSUME NEW h \in Request, NEW i \in Instance, NEW src \in Instance, NEW s \in Slug, CreateTemplate(h, i, s, src)
       PROVE RequestLinked'
  BY <1>30 DEF CreateTemplate, RowsOf, Begin, Goto
<1>31. ASSUME NEW h \in Request, CloneGroups(h) PROVE RequestLinked'
  BY <1>31 DEF CloneGroups, Done, Goto
<1>32. ASSUME NEW h \in Request, Cloned(h) PROVE RequestLinked'
  BY <1>32 DEF Cloned, Done, Goto
<1>33. ASSUME NEW h \in Request, NEW r \in copying[h], CloneLayer(h, r) PROVE RequestLinked'
  BY <1>33 DEF CloneLayer, Creatable, Done, Goto, Leave
<1>34. QED
  BY SMTT(30), <1>1, <1>2, <1>3, <1>4, <1>5, <1>6, <1>7, <1>8, <1>9, <1>10, <1>11, <1>12, <1>13, <1>14, <1>15,
     <1>16, <1>17, <1>18, <1>19, <1>20, <1>21, <1>22, <1>23, <1>24, <1>25, <1>26, <1>27, <1>28,
     <1>29, <1>30, <1>31, <1>32, <1>33
     DEF Step, Initialising, Making, Requesting, Deleting, Cloning

\* Every row keeps to a live instance.
LEMMA RowsStep ==
  ASSUME LinkInv, TypeOK', Step
  PROVE  RowsLinked'
<1> USE SlugAssumption DEF TypeOK, Worker, Steps, catalogue, worker, request, LinkInv,
     InstanceLinked, RequestLinked, OnLayer, MakesIt, RowsLinked, TableFor, Labelled, Live
<1>1. ASSUME NEW i \in Instance, NEW s \in Slug, CreateInstance(i, s) PROVE RowsLinked'
  BY <1>1 DEF CreateInstance, Goto
<1>2. ASSUME NEW i \in Instance, RecordProject(i) PROVE RowsLinked'
  BY <1>2 DEF RecordProject, Goto, Stop
<1>3. ASSUME NEW i \in Instance, CreateGroups(i) PROVE RowsLinked'
  BY <1>3 DEF CreateGroups, Goto, Stop
<1>4. ASSUME NEW i \in Instance, NEW l \in Default, LoadLayer(i, l) PROVE RowsLinked'
  BY <1>4 DEF LoadLayer, Creatable, Goto, Stop
<1>5. ASSUME NEW i \in Instance, DescribeProject(i) PROVE RowsLinked'
  BY <1>5 DEF DescribeProject, Goto
<1>6. ASSUME NEW i \in Instance, SaveDescribed(i) PROVE RowsLinked'
  BY <1>6 DEF SaveDescribed, SaveFile, Goto
<1>7. ASSUME NEW i \in Instance, Crash(i) PROVE RowsLinked'
  BY <1>7 DEF Crash, Stop, Goto, Leave, Unfinished
<1>8. ASSUME NEW i \in Instance, DeleteGroup(i) PROVE RowsLinked'
  BY <1>8 DEF DeleteGroup, Leave, RowsOf
<1>9. ASSUME NEW w \in Worker, DropOld(w) PROVE RowsLinked'
  BY <1>9 DEF DropOld, Goto
<1>10. ASSUME NEW w \in Worker, CreateTable(w) PROVE RowsLinked'
  BY <1>10 DEF CreateTable, NoTable, MadeTable, Done, Goto, Leave
<1>11. ASSUME NEW w \in Worker, TableFails(w) PROVE RowsLinked'
  BY <1>11 DEF TableFails, NoTable, Done, Goto, Leave
<1>12. ASSUME NEW w \in Worker, ReadProject(w) PROVE RowsLinked'
  BY <1>12 DEF ReadProject, Listed, Goto
<1>13. ASSUME NEW w \in Worker, AddFails(w) PROVE RowsLinked'
  BY <1>13 DEF AddFails, Listed, Goto
<1>14. ASSUME NEW w \in Worker, SaveAdded(w) PROVE RowsLinked'
  BY <1>14 DEF SaveAdded, SaveFile, Listed, Goto
<1>15. ASSUME NEW h \in Request, NEW i \in Instance, NEW l \in Extra, AskOsmLayer(h, i, l) PROVE RowsLinked'
  BY <1>15 DEF AskOsmLayer, Begin, Goto
<1>16. ASSUME NEW h \in Request, RegisterLayer(h) PROVE RowsLinked'
  BY <1>16 DEF RegisterLayer, Creatable, Done, Goto, Leave
<1>17. ASSUME NEW h \in Request, NEW r \in rows, AskResync(h, r) PROVE RowsLinked'
  BY <1>17 DEF AskResync, Begin, Goto
<1>18. ASSUME NEW h \in Request, NEW r \in rows, AskDeleteLayer(h, r) PROVE RowsLinked'
  BY <1>18 DEF AskDeleteLayer, Begin, Goto
<1>19. ASSUME NEW h \in Request, EraseRow(h) PROVE RowsLinked'
  BY <1>19 DEF EraseRow, Done, Goto
<1>20. ASSUME NEW h \in Request, DropTable(h) PROVE RowsLinked'
  BY <1>20 DEF DropTable, Goto
<1>21. ASSUME NEW h \in Request, DropTableFails(h) PROVE RowsLinked'
  BY <1>21 DEF DropTableFails, Goto, Leave
<1>22. ASSUME NEW h \in Request, Unlist(h) PROVE RowsLinked'
  BY <1>22 DEF Unlist, Done, Goto
<1>23. ASSUME NEW h \in Request, SaveRemoved(h) PROVE RowsLinked'
  BY <1>23 DEF SaveRemoved, SaveFile, Done, Goto
<1>24. ASSUME NEW h \in Request, Abort(h) PROVE RowsLinked'
  BY <1>24 DEF Abort, Done, Goto, Leave, Unfinished
<1>25. ASSUME NEW h \in Request, NEW i \in Instance, CollectTables(h, i) PROVE RowsLinked'
  BY <1>25 DEF CollectTables, RowsOf, Begin, Goto
<1>26. ASSUME NEW h \in Request, Cascade(h) PROVE RowsLinked'
  BY <1>26 DEF Cascade, RowsOf, Done, Goto, Layer
<1>27. ASSUME NEW h \in Request, Purged(h) PROVE RowsLinked'
  BY <1>27 DEF Purged, Done, Goto
<1>28. ASSUME NEW h \in Request, NEW t \in Table, DropNext(h, t) PROVE RowsLinked'
  BY <1>28 DEF DropNext, Dropping
<1>29. ASSUME NEW h \in Request, NEW t \in Table, DropNextFails(h, t) PROVE RowsLinked'
  BY <1>29 DEF DropNextFails, Dropping, Leave
<1>30. ASSUME NEW h \in Request, NEW i \in Instance, NEW src \in Instance, NEW s \in Slug, CreateTemplate(h, i, s, src)
       PROVE RowsLinked'
  BY <1>30 DEF CreateTemplate, RowsOf, Begin, Goto
<1>31. ASSUME NEW h \in Request, CloneGroups(h) PROVE RowsLinked'
  BY <1>31 DEF CloneGroups, Done, Goto
<1>32. ASSUME NEW h \in Request, Cloned(h) PROVE RowsLinked'
  BY <1>32 DEF Cloned, Done, Goto
<1>33. ASSUME NEW h \in Request, NEW r \in copying[h], CloneLayer(h, r) PROVE RowsLinked'
  <2>1. CASE Creatable(subject[h], r.layer)
    <3> DEFINE c == [r EXCEPT !.inst = subject[h]]
    <3>1. c.inst = subject[h] /\ c.table = r.table /\ c.layer = r.layer
      BY <1>33 DEF CloneLayer, Layer
    <3>2. rows' = rows \cup {c} /\ UNCHANGED status
      BY <1>33, <2>1 DEF CloneLayer
    <3>3. Live(subject[h]) /\ Labelled(r)
      BY <1>33, <2>1 DEF CloneLayer, Creatable
    <3> HIDE DEF c
    <3>4. QED
      BY <3>1, <3>2, <3>3
  <2>2. CASE ~Creatable(subject[h], r.layer)
    BY <1>33, <2>2 DEF CloneLayer
  <2>3. QED
    BY <2>1, <2>2
<1>34. QED
  BY <1>1, <1>2, <1>3, <1>4, <1>5, <1>6, <1>7, <1>8, <1>9, <1>10, <1>11, <1>12, <1>13, <1>14, <1>15,
     <1>16, <1>17, <1>18, <1>19, <1>20, <1>21, <1>22, <1>23, <1>24, <1>25, <1>26, <1>27, <1>28,
     <1>29, <1>30, <1>31, <1>32, <1>33
     DEF Step, Initialising, Making, Requesting, Deleting, Cloning

\* Every step keeps what workers refer to, and the catalogue's rows.
LEMMA LinkStep ==
  ASSUME LinkInv, Kept, Step
  PROVE  LinkInv'
BY TypeStep, InstanceStep, RequestStep, RowsStep DEF LinkInv
-----------------------------------------------------------------------------
(* A row has its table *)

\* The row a request adds as the copy of another
Clone(h, r, c) ==
  /\ rows' = rows \cup {c} /\ c \notin rows /\ Excused(r.table)'
  /\ c.table = r.table /\ c.inst = subject[h] /\ c.layer = r.layer

\* A clone's table is excused: another row names it, or none is known to.
LEMMA CloneExcused ==
  ASSUME LinkInv, LinkInv', Watched', Kept, NEW h \in Request, NEW r \in copying[h], CloneLayer(h, r),
         Creatable(subject[h], r.layer)
  PROVE  \E c \in Layer : Clone(h, r, c)
<1> DEFINE c == [r EXCEPT !.inst = subject[h]]
<1>1. r \in Layer /\ r.table \in Table /\ subject[h] \in Instance
  BY DEF LinkInv, TypeOK, Layer, RequestLinked, CloneLayer
<1>2. c.table = r.table /\ c.inst = subject[h] /\ c.layer = r.layer /\ c \in Layer
  BY <1>1 DEF Layer
<1>3. rows' = rows \cup {c} /\ Leave({r.table} \ {q.table : q \in rows})
  BY DEF CloneLayer
<1>4. c \notin rows
  BY <1>2 DEF Creatable, LayerFree
<1>5. ASSUME \E q \in rows : q.table = r.table PROVE Excused(r.table)'
  <2>1. PICK q \in rows : q.table = r.table
    BY <1>5
  <2>2. q \in rows' /\ c \in rows' /\ q # c
    BY <1>3, <1>4
  <2>3. r.table \in contested'
    BY <1>1, <1>2, <2>1, <2>2 DEF Watched
  <2>4. QED
    BY <2>3 DEF Excused
<1>6. ASSUME ~\E q \in rows : q.table = r.table PROVE Excused(r.table)'
  <2>1. r.table \notin {q.table : q \in rows}
    BY <1>6
  <2>2. QED
    BY <1>3, <2>1 DEF Excused, Leave
<1>7. QED
  BY <1>2, <1>3, <1>4, <1>5, <1>6 DEF Clone

\* A worker that made a table finds it.
LEMMA MadeStep ==
  ASSUME LinkInv, LinkInv', Watched, Watched', Kept, Made, Step
  PROVE  Made'
<1> USE SlugAssumption DEF TypeOK, Worker, Steps, catalogue, worker, request, Kept, LinkInv, Writes,
     Excused, OnLayer, MakesIt, InstanceLinked, RequestLinked, Watched, Made
<1>1. ASSUME NEW i \in Instance, NEW s \in Slug, CreateInstance(i, s) PROVE Made'
  BY <1>1 DEF CreateInstance, Goto
<1>2. ASSUME NEW i \in Instance, RecordProject(i) PROVE Made'
  BY <1>2 DEF RecordProject, Goto, Stop
<1>3. ASSUME NEW i \in Instance, CreateGroups(i) PROVE Made'
  BY <1>3 DEF CreateGroups, Goto, Stop
<1>4. ASSUME NEW i \in Instance, NEW l \in Default, LoadLayer(i, l) PROVE Made'
  BY SMTT(30), <1>4 DEF LoadLayer, Creatable, Goto, Stop
<1>5. ASSUME NEW i \in Instance, DescribeProject(i) PROVE Made'
  BY <1>5 DEF DescribeProject, Goto
<1>6. ASSUME NEW i \in Instance, SaveDescribed(i) PROVE Made'
  BY <1>6 DEF SaveDescribed, SaveFile, Goto
<1>7. ASSUME NEW i \in Instance, Crash(i) PROVE Made'
  BY <1>7 DEF Crash, Stop, Goto, Leave, Unfinished
<1>8. ASSUME NEW i \in Instance, DeleteGroup(i) PROVE Made'
  BY <1>8 DEF DeleteGroup, Leave, RowsOf
<1>9. ASSUME NEW w \in Worker, DropOld(w) PROVE Made'
  BY <1>9 DEF DropOld, Goto
<1>10. ASSUME NEW w \in Worker, CreateTable(w) PROVE Made'
  BY <1>10 DEF CreateTable, NoTable, MadeTable, Done, Goto, Leave
<1>11. ASSUME NEW w \in Worker, TableFails(w) PROVE Made'
  BY <1>11 DEF TableFails, NoTable, Done, Goto, Leave
<1>12. ASSUME NEW w \in Worker, ReadProject(w) PROVE Made'
  BY <1>12 DEF ReadProject, Listed, Goto
<1>13. ASSUME NEW w \in Worker, AddFails(w) PROVE Made'
  BY <1>13 DEF AddFails, Listed, Goto
<1>14. ASSUME NEW w \in Worker, SaveAdded(w) PROVE Made'
  BY <1>14 DEF SaveAdded, SaveFile, Listed, Goto
<1>15. ASSUME NEW h \in Request, NEW i \in Instance, NEW l \in Extra, AskOsmLayer(h, i, l) PROVE Made'
  BY <1>15 DEF AskOsmLayer, Begin, Goto
<1>16. ASSUME NEW h \in Request, RegisterLayer(h) PROVE Made'
  BY <1>16 DEF RegisterLayer, Creatable, Done, Goto, Leave
<1>17. ASSUME NEW h \in Request, NEW r \in rows, AskResync(h, r) PROVE Made'
  BY <1>17 DEF AskResync, Begin, Goto
<1>18. ASSUME NEW h \in Request, NEW r \in rows, AskDeleteLayer(h, r) PROVE Made'
  BY <1>18 DEF AskDeleteLayer, Begin, Goto
<1>19. ASSUME NEW h \in Request, EraseRow(h) PROVE Made'
  BY <1>19 DEF EraseRow, Done, Goto
<1>20. ASSUME NEW h \in Request, DropTable(h) PROVE Made'
  BY <1>20 DEF DropTable, Goto
<1>21. ASSUME NEW h \in Request, DropTableFails(h) PROVE Made'
  BY <1>21 DEF DropTableFails, Goto, Leave
<1>22. ASSUME NEW h \in Request, Unlist(h) PROVE Made'
  BY <1>22 DEF Unlist, Done, Goto
<1>23. ASSUME NEW h \in Request, SaveRemoved(h) PROVE Made'
  BY <1>23 DEF SaveRemoved, SaveFile, Done, Goto
<1>24. ASSUME NEW h \in Request, Abort(h) PROVE Made'
  BY <1>24 DEF Abort, Done, Goto, Leave, Unfinished
<1>25. ASSUME NEW h \in Request, NEW i \in Instance, CollectTables(h, i) PROVE Made'
  BY <1>25 DEF CollectTables, RowsOf, Begin, Goto
<1>26. ASSUME NEW h \in Request, Cascade(h) PROVE Made'
  BY <1>26 DEF Cascade, RowsOf, Done, Goto
<1>27. ASSUME NEW h \in Request, Purged(h) PROVE Made'
  BY <1>27 DEF Purged, Done, Goto
<1>28. ASSUME NEW h \in Request, NEW t \in Table, DropNext(h, t) PROVE Made'
  BY <1>28 DEF DropNext, Dropping
<1>29. ASSUME NEW h \in Request, NEW t \in Table, DropNextFails(h, t) PROVE Made'
  BY <1>29 DEF DropNextFails, Dropping, Leave
<1>30. ASSUME NEW h \in Request, NEW i \in Instance, NEW src \in Instance, NEW s \in Slug, CreateTemplate(h, i, s, src)
       PROVE Made'
  BY <1>30 DEF CreateTemplate, RowsOf, Begin, Goto
<1>31. ASSUME NEW h \in Request, CloneGroups(h) PROVE Made'
  BY <1>31 DEF CloneGroups, Done, Goto
<1>32. ASSUME NEW h \in Request, Cloned(h) PROVE Made'
  BY <1>32 DEF Cloned, Done, Goto
<1>33. ASSUME NEW h \in Request, NEW r \in copying[h], CloneLayer(h, r) PROVE Made'
  BY <1>33 DEF CloneLayer, Creatable, Done, Goto, Leave
<1>34. QED
  BY <1>1, <1>2, <1>3, <1>4, <1>5, <1>6, <1>7, <1>8, <1>9, <1>10, <1>11, <1>12, <1>13, <1>14, <1>15,
     <1>16, <1>17, <1>18, <1>19, <1>20, <1>21, <1>22, <1>23, <1>24, <1>25, <1>26, <1>27, <1>28,
     <1>29, <1>30, <1>31, <1>32, <1>33
     DEF Step, Initialising, Making, Requesting, Deleting, Cloning

\* An erased row stays erased.
LEMMA ErasedStep ==
  ASSUME LinkInv, LinkInv', Watched, Watched', Kept, Erased, Step
  PROVE  Erased'
<1>a. \A h \in Request : \A r \in copying[h] : CloneLayer(h, r) /\ Creatable(subject[h], r.layer) =>
        \E c \in Layer : Clone(h, r, c)
  BY CloneExcused
<1> USE SlugAssumption DEF TypeOK, Worker, Steps, catalogue, worker, request, Kept, LinkInv, Writes,
     Excused, OnLayer, MakesIt, InstanceLinked, RequestLinked, Watched, Erased, RowsLinked
<1>1. ASSUME NEW i \in Instance, NEW s \in Slug, CreateInstance(i, s) PROVE Erased'
  BY <1>1 DEF CreateInstance, Goto
<1>2. ASSUME NEW i \in Instance, RecordProject(i) PROVE Erased'
  BY <1>2 DEF RecordProject, Goto, Stop
<1>3. ASSUME NEW i \in Instance, CreateGroups(i) PROVE Erased'
  BY <1>3 DEF CreateGroups, Goto, Stop
<1>4. ASSUME NEW i \in Instance, NEW l \in Default, LoadLayer(i, l) PROVE Erased'
  <2>1. CASE Creatable(i, l)
    <3>0. PICK r : r = [inst |-> i, layer |-> l, table |-> TableFor(i, l)]
      OBVIOUS
    <3>1. /\ rows' = rows \cup {r} /\ on' = [on EXCEPT ![i] = r] /\ Goto(i, "dropping")
          /\ left' = left
      BY <1>4, <2>1, <3>0 DEF LoadLayer
    <3>2. r.table \in Table /\ r # None
      BY <1>4, TableOf, SlugAssumption, <3>0 DEF LoadLayer, InstanceLinked, Layer
    <3>3. ASSUME NEW h \in Request, on[h] = r PROVE h \in Worker /\ i \in Worker /\ h # i /\ on'[h] = r /\ on'[i] = r
      BY <3>1, <3>3
    <3>4. ASSUME NEW h \in Request, on[h] = r PROVE Excused(r.table)'
      BY <3>2, <3>3, <3>4
    <3>5. QED
      BY <3>1, <3>2, <3>4 DEF Goto
  <2>2. CASE ~Creatable(i, l)
    BY <1>4, <2>2 DEF LoadLayer, Goto, Stop
  <2>3. QED
    BY <2>1, <2>2
<1>5. ASSUME NEW i \in Instance, DescribeProject(i) PROVE Erased'
  BY <1>5 DEF DescribeProject, Goto
<1>6. ASSUME NEW i \in Instance, SaveDescribed(i) PROVE Erased'
  BY <1>6 DEF SaveDescribed, SaveFile, Goto
<1>7. ASSUME NEW i \in Instance, Crash(i) PROVE Erased'
  BY <1>7 DEF Crash, Stop, Goto, Leave, Unfinished
<1>8. ASSUME NEW i \in Instance, DeleteGroup(i) PROVE Erased'
  BY <1>8 DEF DeleteGroup, Leave, RowsOf
<1>9. ASSUME NEW w \in Worker, DropOld(w) PROVE Erased'
  BY <1>9 DEF DropOld, Goto
<1>10. ASSUME NEW w \in Worker, CreateTable(w) PROVE Erased'
  BY <1>10 DEF CreateTable, NoTable, MadeTable, Done, Goto, Leave
<1>11. ASSUME NEW w \in Worker, TableFails(w) PROVE Erased'
  BY <1>11 DEF TableFails, NoTable, Done, Goto, Leave
<1>12. ASSUME NEW w \in Worker, ReadProject(w) PROVE Erased'
  BY <1>12 DEF ReadProject, Listed, Goto
<1>13. ASSUME NEW w \in Worker, AddFails(w) PROVE Erased'
  BY <1>13 DEF AddFails, Listed, Goto
<1>14. ASSUME NEW w \in Worker, SaveAdded(w) PROVE Erased'
  BY <1>14 DEF SaveAdded, SaveFile, Listed, Goto
<1>15. ASSUME NEW h \in Request, NEW i \in Instance, NEW l \in Extra, AskOsmLayer(h, i, l) PROVE Erased'
  BY <1>15 DEF AskOsmLayer, Begin, Goto
<1>16. ASSUME NEW h \in Request, RegisterLayer(h) PROVE Erased'
  <2>1. rows' \subseteq rows \cup {on[h]} /\ Done(h) /\ on[h] # None /\ on[h].table \in Table
    BY <1>16 DEF RegisterLayer, Layer
  <2>2. left \subseteq left'
    BY <1>16 DEF RegisterLayer, Leave
  <2>3. QED
    BY <2>1, <2>2 DEF Done, Goto
<1>17. ASSUME NEW h \in Request, NEW r \in rows, AskResync(h, r) PROVE Erased'
  BY <1>17 DEF AskResync, Begin, Goto
<1>18. ASSUME NEW h \in Request, NEW r \in rows, AskDeleteLayer(h, r) PROVE Erased'
  BY <1>18 DEF AskDeleteLayer, Begin, Goto
<1>19. ASSUME NEW h \in Request, EraseRow(h) PROVE Erased'
  BY <1>19 DEF EraseRow, Done, Goto
<1>20. ASSUME NEW h \in Request, DropTable(h) PROVE Erased'
  BY <1>20 DEF DropTable, Goto
<1>21. ASSUME NEW h \in Request, DropTableFails(h) PROVE Erased'
  BY <1>21 DEF DropTableFails, Goto, Leave
<1>22. ASSUME NEW h \in Request, Unlist(h) PROVE Erased'
  BY <1>22 DEF Unlist, Done, Goto
<1>23. ASSUME NEW h \in Request, SaveRemoved(h) PROVE Erased'
  BY <1>23 DEF SaveRemoved, SaveFile, Done, Goto
<1>24. ASSUME NEW h \in Request, Abort(h) PROVE Erased'
  BY <1>24 DEF Abort, Done, Goto, Leave, Unfinished
<1>25. ASSUME NEW h \in Request, NEW i \in Instance, CollectTables(h, i) PROVE Erased'
  BY <1>25 DEF CollectTables, RowsOf, Begin, Goto
<1>26. ASSUME NEW h \in Request, Cascade(h) PROVE Erased'
  BY <1>26 DEF Cascade, RowsOf, Done, Goto
<1>27. ASSUME NEW h \in Request, Purged(h) PROVE Erased'
  BY <1>27 DEF Purged, Done, Goto
<1>28. ASSUME NEW h \in Request, NEW t \in Table, DropNext(h, t) PROVE Erased'
  BY <1>28 DEF DropNext, Dropping
<1>29. ASSUME NEW h \in Request, NEW t \in Table, DropNextFails(h, t) PROVE Erased'
  BY <1>29 DEF DropNextFails, Dropping, Leave
<1>30. ASSUME NEW h \in Request, NEW i \in Instance, NEW src \in Instance, NEW s \in Slug, CreateTemplate(h, i, s, src)
       PROVE Erased'
  BY <1>30 DEF CreateTemplate, RowsOf, Begin, Goto
<1>31. ASSUME NEW h \in Request, CloneGroups(h) PROVE Erased'
  BY <1>31 DEF CloneGroups, Done, Goto
<1>32. ASSUME NEW h \in Request, Cloned(h) PROVE Erased'
  BY <1>32 DEF Cloned, Done, Goto
<1>33. ASSUME NEW h \in Request, NEW r \in copying[h], CloneLayer(h, r) PROVE Erased'
  <2>1. CASE Creatable(subject[h], r.layer)
    <3>1. PICK c \in Layer : Clone(h, r, c)
      BY <1>33, <2>1, <1>a
    <3>2. /\ rows' = rows \cup {c} /\ c.table = r.table /\ Excused(r.table)'
          /\ UNCHANGED <<pc, on, subject, doomed, tables>> /\ left \subseteq left'
      BY <1>33, <2>1, <3>1 DEF CloneLayer, Leave, Clone
    <3>3. QED
      BY <3>2
  <2>2. CASE ~Creatable(subject[h], r.layer)
    BY <1>33, <2>2 DEF CloneLayer, Done, Goto
  <2>3. QED
    BY <2>1, <2>2
<1>34. QED
  BY <1>1, <1>2, <1>3, <1>4, <1>5, <1>6, <1>7, <1>8, <1>9, <1>10, <1>11, <1>12, <1>13, <1>14, <1>15,
     <1>16, <1>17, <1>18, <1>19, <1>20, <1>21, <1>22, <1>23, <1>24, <1>25, <1>26, <1>27, <1>28,
     <1>29, <1>30, <1>31, <1>32, <1>33
     DEF Step, Initialising, Making, Requesting, Deleting, Cloning

\* A row without its table has a worker at it.
LEMMA BackedStep ==
  ASSUME LinkInv, LinkInv', Watched, Watched', Kept, Made, Erased, Backed, Step
  PROVE  Backed'
<1>a. \A h \in Request : \A r \in copying[h] : CloneLayer(h, r) /\ Creatable(subject[h], r.layer) =>
        \E c \in Layer : Clone(h, r, c)
  BY CloneExcused
<1> USE SlugAssumption DEF TypeOK, Worker, Steps, catalogue, worker, request, Kept, LinkInv,
     OnLayer, MakesIt, InstanceLinked, RequestLinked, RowsLinked, Watched, Made, Erased, Backed
<1>1. ASSUME NEW i \in Instance, NEW s \in Slug, CreateInstance(i, s) PROVE Backed'
  BY <1>1 DEF CreateInstance, Goto, Writes, Excused
<1>2. ASSUME NEW i \in Instance, RecordProject(i) PROVE Backed'
  BY <1>2 DEF RecordProject, Goto, Stop, Writes, Excused
<1>3. ASSUME NEW i \in Instance, CreateGroups(i) PROVE Backed'
  BY <1>3 DEF CreateGroups, Goto, Stop, Writes, Excused
<1>4. ASSUME NEW i \in Instance, NEW l \in Default, LoadLayer(i, l) PROVE Backed'
  <2>1. CASE Creatable(i, l)
    <3>0. PICK r : r = [inst |-> i, layer |-> l, table |-> TableFor(i, l)]
      OBVIOUS
    <3>1. /\ rows' = rows \cup {r} /\ on' = [on EXCEPT ![i] = r] /\ Goto(i, "dropping")
          /\ UNCHANGED <<tables, left, request>>
      BY <1>4, <2>1, <3>0 DEF LoadLayer
    <3>2. r.table \in Table /\ r # None
      BY <1>4, TableOf, SlugAssumption, <3>0 DEF LoadLayer, InstanceLinked, Layer
    <3>3. pc[i] = "next"
      BY <1>4 DEF LoadLayer
    <3>4. QED
      BY <3>1, <3>2, <3>3 DEF Goto, Writes, Excused
  <2>2. CASE ~Creatable(i, l)
    <3> SUFFICES ASSUME NEW q \in rows, q.table \notin tables, ~Excused(q.table)'
                 PROVE  \E v \in Worker : Writes(v, q.table)'
      BY <1>4, <2>2 DEF LoadLayer, Backed
    <3>1. \A v \in Worker : v # i /\ Writes(v, q.table) => Writes(v, q.table)'
      BY <1>4, <2>2 DEF LoadLayer, Goto, Stop, Writes
    <3>2. ~Excused(q.table) /\ pc[i] = "next"
      BY <1>4, <2>2 DEF LoadLayer, Excused
    <3>3. ~Writes(i, q.table)
      BY <3>2 DEF Writes
    <3>4. PICK v \in Worker : Writes(v, q.table)
      BY <3>2
    <3>5. QED
      BY <3>1, <3>3, <3>4
  <2>3. QED
    BY <2>1, <2>2
<1>5. ASSUME NEW i \in Instance, DescribeProject(i) PROVE Backed'
  BY <1>5 DEF DescribeProject, Goto, Writes, Excused
<1>6. ASSUME NEW i \in Instance, SaveDescribed(i) PROVE Backed'
  BY <1>6 DEF SaveDescribed, SaveFile, Goto, Writes, Excused
<1>7. ASSUME NEW i \in Instance, Crash(i) PROVE Backed'
  <2> SUFFICES ASSUME NEW q \in rows', q.table \notin tables', ~Excused(q.table)'
               PROVE  \E v \in Worker : Writes(v, q.table)'
    BY DEF Backed
  <2>1. \A v \in Worker : v # i /\ Writes(v, q.table) => Writes(v, q.table)'
    BY <1>7 DEF Crash, Stop, Goto, Leave, Unfinished, Writes
  <2>2. q \in rows /\ q.table \notin tables /\ ~Excused(q.table) /\ q.table \in Table
    BY <1>7 DEF Crash, Stop, Goto, Leave, Unfinished, Layer, Excused
  <2>3. ~Writes(i, q.table)
    BY <1>7, <2>2 DEF Crash, Stop, Goto, Leave, Unfinished, Writes, Excused
  <2>4. PICK v \in Worker : Writes(v, q.table)
    BY <2>2
  <2>5. QED
    BY <2>1, <2>3, <2>4
<1>8. ASSUME NEW i \in Instance, DeleteGroup(i) PROVE Backed'
  BY <1>8 DEF DeleteGroup, Leave, RowsOf, Writes, Excused
<1>9. ASSUME NEW w \in Worker, DropOld(w) PROVE Backed'
  BY <1>9 DEF DropOld, Goto, Writes, Excused
<1>10. ASSUME NEW w \in Worker, CreateTable(w) PROVE Backed'
  <2> SUFFICES ASSUME NEW q \in rows', q.table \notin tables', ~Excused(q.table)'
               PROVE  \E v \in Worker : Writes(v, q.table)'
    BY DEF Backed
  <2>1. \A v \in Worker : v # w /\ Writes(v, q.table) => Writes(v, q.table)'
    BY <1>10 DEF CreateTable, NoTable, MadeTable, Done, Goto, Leave, Writes
  <2>2. q \in rows /\ q.table \notin tables /\ ~Excused(q.table) /\ q.table \in Table
    BY <1>10 DEF CreateTable, NoTable, MadeTable, Done, Goto, Leave, Layer, Excused
  <2>3. ~Writes(w, q.table)
    BY <1>10, <2>2 DEF CreateTable, Leave, Writes, Excused
  <2>4. PICK v \in Worker : Writes(v, q.table)
    BY <2>2
  <2>5. QED
    BY <2>1, <2>3, <2>4
<1>11. ASSUME NEW w \in Worker, TableFails(w) PROVE Backed'
  <2> SUFFICES ASSUME NEW q \in rows', q.table \notin tables', ~Excused(q.table)'
               PROVE  \E v \in Worker : Writes(v, q.table)'
    BY DEF Backed
  <2>1. \A v \in Worker : v # w /\ Writes(v, q.table) => Writes(v, q.table)'
    BY <1>11 DEF TableFails, NoTable, Done, Goto, Leave, Writes
  <2>2. q \in rows /\ q.table \notin tables /\ ~Excused(q.table) /\ q.table \in Table
    BY <1>11 DEF TableFails, NoTable, Done, Goto, Leave, Layer, Excused
  <2>3. ~Writes(w, q.table)
    BY <1>11, <2>2 DEF TableFails, Leave, Writes, Excused
  <2>4. PICK v \in Worker : Writes(v, q.table)
    BY <2>2
  <2>5. QED
    BY <2>1, <2>3, <2>4
<1>12. ASSUME NEW w \in Worker, ReadProject(w) PROVE Backed'
  BY <1>12 DEF ReadProject, Listed, Goto, Writes, Excused
<1>13. ASSUME NEW w \in Worker, AddFails(w) PROVE Backed'
  BY <1>13 DEF AddFails, Listed, Goto, Writes, Excused
<1>14. ASSUME NEW w \in Worker, SaveAdded(w) PROVE Backed'
  BY <1>14 DEF SaveAdded, SaveFile, Listed, Goto, Writes, Excused
<1>15. ASSUME NEW h \in Request, NEW i \in Instance, NEW l \in Extra, AskOsmLayer(h, i, l) PROVE Backed'
  <2> SUFFICES ASSUME NEW q \in rows', q.table \notin tables', ~Excused(q.table)'
               PROVE  \E v \in Worker : Writes(v, q.table)'
    BY DEF Backed
  <2>1. \A v \in Worker : v # h /\ Writes(v, q.table) => Writes(v, q.table)'
    BY <1>15 DEF AskOsmLayer, Begin, Goto, Writes
  <2>2. q \in rows /\ q.table \notin tables /\ ~Excused(q.table) /\ q.table \in Table
    BY <1>15 DEF AskOsmLayer, Begin, Goto, Layer, Excused
  <2>3. ~Writes(h, q.table)
    BY <1>15, <2>2 DEF AskOsmLayer, Begin, Writes, Excused
  <2>4. PICK v \in Worker : Writes(v, q.table)
    BY <2>2
  <2>5. QED
    BY <2>1, <2>3, <2>4
<1>16. ASSUME NEW h \in Request, RegisterLayer(h) PROVE Backed'
  <2> SUFFICES ASSUME NEW q \in rows', q.table \notin tables', ~Excused(q.table)'
               PROVE  \E v \in Worker : Writes(v, q.table)'
    BY DEF Backed
  <2>1. \A v \in Worker : v # h /\ Writes(v, q.table) => Writes(v, q.table)'
    BY <1>16 DEF RegisterLayer, Goto, Done, Writes
  <2>2. /\ ~Excused(q.table) /\ q.table \notin tables /\ pc[h] = "registering" /\ on[h] # None
        /\ q.table \in Table
    BY <1>16 DEF RegisterLayer, Leave, Excused, Layer
  <2>3. ~Writes(h, q.table)
    BY <2>2 DEF Writes
  <2>4. q \in rows
    BY <1>16, <2>2, <2>3 DEF RegisterLayer, Writes
  <2>5. PICK v \in Worker : Writes(v, q.table)
    BY <2>2, <2>4
  <2>6. QED
    BY <2>1, <2>3, <2>5
<1>17. ASSUME NEW h \in Request, NEW r \in rows, AskResync(h, r) PROVE Backed'
  BY SMTT(30), <1>17 DEF AskResync, Begin, Goto, Writes, Excused
<1>18. ASSUME NEW h \in Request, NEW r \in rows, AskDeleteLayer(h, r) PROVE Backed'
  BY SMTT(30), <1>18 DEF AskDeleteLayer, Begin, Goto, Writes, Excused
<1>19. ASSUME NEW h \in Request, EraseRow(h) PROVE Backed'
  <2>1. CASE on[h] \in rows
    BY <1>19, <2>1 DEF EraseRow, Goto, Writes, Excused
  <2>2. CASE on[h] \notin rows
    <3> SUFFICES ASSUME NEW q \in rows, q.table \notin tables, ~Excused(q.table)'
                 PROVE  \E v \in Worker : Writes(v, q.table)'
      BY <1>19, <2>2 DEF EraseRow, Backed
    <3>1. \A v \in Worker : v # h /\ Writes(v, q.table) => Writes(v, q.table)'
      BY <1>19, <2>2 DEF EraseRow, Goto, Done, Writes
    <3>2. ~Excused(q.table) /\ q # on[h] /\ pc[h] = "erasing" /\ q.table \in Table
      BY <1>19, <2>2 DEF EraseRow, Excused, Layer
    <3>3. ~Writes(h, q.table)
      BY <3>2 DEF Writes, Excused
    <3>4. PICK v \in Worker : Writes(v, q.table)
      BY <3>2
    <3>5. QED
      BY <3>1, <3>3, <3>4
  <2>3. QED
    BY <2>1, <2>2
<1>20. ASSUME NEW h \in Request, DropTable(h) PROVE Backed'
  BY <1>20 DEF DropTable, Goto, Writes, Excused
<1>21. ASSUME NEW h \in Request, DropTableFails(h) PROVE Backed'
  BY <1>21 DEF DropTableFails, Goto, Leave, Writes, Excused
<1>22. ASSUME NEW h \in Request, Unlist(h) PROVE Backed'
  <2> SUFFICES ASSUME NEW q \in rows', q.table \notin tables', ~Excused(q.table)'
               PROVE  \E v \in Worker : Writes(v, q.table)'
    BY DEF Backed
  <2>1. \A v \in Worker : v # h /\ Writes(v, q.table) => Writes(v, q.table)'
    BY <1>22 DEF Unlist, Done, Goto, Writes
  <2>2. q \in rows /\ q.table \notin tables /\ ~Excused(q.table) /\ q.table \in Table
    BY <1>22 DEF Unlist, Done, Goto, Layer, Excused
  <2>3. ~Writes(h, q.table)
    BY <1>22, <2>2 DEF Unlist, Writes, Excused
  <2>4. PICK v \in Worker : Writes(v, q.table)
    BY <2>2
  <2>5. QED
    BY <2>1, <2>3, <2>4
<1>23. ASSUME NEW h \in Request, SaveRemoved(h) PROVE Backed'
  <2> SUFFICES ASSUME NEW q \in rows', q.table \notin tables', ~Excused(q.table)'
               PROVE  \E v \in Worker : Writes(v, q.table)'
    BY DEF Backed
  <2>1. \A v \in Worker : v # h /\ Writes(v, q.table) => Writes(v, q.table)'
    BY <1>23 DEF SaveRemoved, SaveFile, Done, Goto, Writes
  <2>2. q \in rows /\ q.table \notin tables /\ ~Excused(q.table) /\ q.table \in Table
    BY <1>23 DEF SaveRemoved, SaveFile, Done, Goto, Layer, Excused
  <2>3. ~Writes(h, q.table)
    BY <1>23, <2>2 DEF SaveRemoved, Writes, Excused
  <2>4. PICK v \in Worker : Writes(v, q.table)
    BY <2>2
  <2>5. QED
    BY <2>1, <2>3, <2>4
<1>24. ASSUME NEW h \in Request, Abort(h) PROVE Backed'
  <2> SUFFICES ASSUME NEW q \in rows', q.table \notin tables', ~Excused(q.table)'
               PROVE  \E v \in Worker : Writes(v, q.table)'
    BY DEF Backed
  <2>1. \A v \in Worker : v # h /\ Writes(v, q.table) => Writes(v, q.table)'
    BY <1>24 DEF Abort, Done, Goto, Leave, Unfinished, Writes
  <2>2. q \in rows /\ q.table \notin tables /\ ~Excused(q.table) /\ q.table \in Table
    BY <1>24 DEF Abort, Done, Goto, Leave, Unfinished, Layer, Excused
  <2>3. ~Writes(h, q.table)
    BY <1>24, <2>2 DEF Abort, Done, Goto, Leave, Unfinished, Writes, Excused
  <2>4. PICK v \in Worker : Writes(v, q.table)
    BY <2>2
  <2>5. QED
    BY <2>1, <2>3, <2>4
<1>25. ASSUME NEW h \in Request, NEW i \in Instance, CollectTables(h, i) PROVE Backed'
  <2> SUFFICES ASSUME NEW q \in rows', q.table \notin tables', ~Excused(q.table)'
               PROVE  \E v \in Worker : Writes(v, q.table)'
    BY DEF Backed
  <2>1. \A v \in Worker : v # h /\ Writes(v, q.table) => Writes(v, q.table)'
    BY <1>25 DEF CollectTables, RowsOf, Begin, Goto, Writes
  <2>2. q \in rows /\ q.table \notin tables /\ ~Excused(q.table) /\ q.table \in Table
    BY <1>25 DEF CollectTables, RowsOf, Begin, Goto, Layer, Excused
  <2>3. ~Writes(h, q.table)
    BY <1>25, <2>2 DEF CollectTables, Begin, Writes, Excused
  <2>4. PICK v \in Worker : Writes(v, q.table)
    BY <2>2
  <2>5. QED
    BY <2>1, <2>3, <2>4
<1>26. ASSUME NEW h \in Request, Cascade(h) PROVE Backed'
  <2> SUFFICES ASSUME NEW q \in rows', q.table \notin tables', ~Excused(q.table)'
               PROVE  \E v \in Worker : Writes(v, q.table)'
    BY DEF Backed
  <2>1. \A v \in Worker : v # h /\ Writes(v, q.table) => Writes(v, q.table)'
    BY <1>26 DEF Cascade, RowsOf, Done, Goto, Writes
  <2>2. q \in rows /\ q.table \notin tables /\ ~Excused(q.table) /\ q.table \in Table
    BY <1>26 DEF Cascade, RowsOf, Done, Goto, Layer, Excused
  <2>3. ~Writes(h, q.table)
    BY <1>26, <2>2 DEF Cascade, Writes, Excused
  <2>4. PICK v \in Worker : Writes(v, q.table)
    BY <2>2
  <2>5. QED
    BY <2>1, <2>3, <2>4
<1>27. ASSUME NEW h \in Request, Purged(h) PROVE Backed'
  BY SMTT(30), <1>27 DEF Purged, Done, Goto, Writes, Excused
<1>28. ASSUME NEW h \in Request, NEW t \in Table, DropNext(h, t) PROVE Backed'
  BY <1>28 DEF DropNext, Dropping, Writes, Excused
<1>29. ASSUME NEW h \in Request, NEW t \in Table, DropNextFails(h, t) PROVE Backed'
  BY <1>29 DEF DropNextFails, Dropping, Leave, Writes, Excused
<1>30. ASSUME NEW h \in Request, NEW i \in Instance, NEW src \in Instance, NEW s \in Slug, CreateTemplate(h, i, s, src)
       PROVE Backed'
  <2> SUFFICES ASSUME NEW q \in rows', q.table \notin tables', ~Excused(q.table)'
               PROVE  \E v \in Worker : Writes(v, q.table)'
    BY DEF Backed
  <2>1. \A v \in Worker : v # h /\ Writes(v, q.table) => Writes(v, q.table)'
    BY <1>30 DEF CreateTemplate, RowsOf, Begin, Goto, Writes
  <2>2. q \in rows /\ q.table \notin tables /\ ~Excused(q.table) /\ q.table \in Table
    BY <1>30 DEF CreateTemplate, RowsOf, Begin, Goto, Layer, Excused
  <2>3. ~Writes(h, q.table)
    BY <1>30, <2>2 DEF CreateTemplate, Begin, Writes, Excused
  <2>4. PICK v \in Worker : Writes(v, q.table)
    BY <2>2
  <2>5. QED
    BY <2>1, <2>3, <2>4
<1>31. ASSUME NEW h \in Request, CloneGroups(h) PROVE Backed'
  <2> SUFFICES ASSUME NEW q \in rows', q.table \notin tables', ~Excused(q.table)'
               PROVE  \E v \in Worker : Writes(v, q.table)'
    BY DEF Backed
  <2>1. \A v \in Worker : v # h /\ Writes(v, q.table) => Writes(v, q.table)'
    BY <1>31 DEF CloneGroups, Done, Goto, Writes
  <2>2. q \in rows /\ q.table \notin tables /\ ~Excused(q.table) /\ q.table \in Table
    BY <1>31 DEF CloneGroups, Done, Goto, Layer, Excused
  <2>3. ~Writes(h, q.table)
    BY <1>31, <2>2 DEF CloneGroups, Writes, Excused
  <2>4. PICK v \in Worker : Writes(v, q.table)
    BY <2>2
  <2>5. QED
    BY <2>1, <2>3, <2>4
<1>32. ASSUME NEW h \in Request, Cloned(h) PROVE Backed'
  BY SMTT(30), <1>32 DEF Cloned, Done, Goto, Writes, Excused
<1>33. ASSUME NEW h \in Request, NEW r \in copying[h], CloneLayer(h, r) PROVE Backed'
  <2>1. CASE Creatable(subject[h], r.layer)
    <3>1. PICK c \in Layer : Clone(h, r, c)
      BY <1>33, <2>1, <1>a
    <3>2. /\ rows' = rows \cup {c} /\ c.table = r.table /\ Excused(r.table)'
          /\ UNCHANGED <<pc, on, subject, doomed, tables>> /\ left \subseteq left'
      BY <1>33, <2>1, <3>1 DEF CloneLayer, Leave, Clone
    <3>3. QED
      BY <3>2 DEF Writes, Excused
  <2>2. CASE ~Creatable(subject[h], r.layer)
    BY SMTT(30), <1>33, <2>2 DEF CloneLayer, Done, Goto, Writes, Excused
  <2>3. QED
    BY <2>1, <2>2
<1>34. QED
  BY <1>1, <1>2, <1>3, <1>4, <1>5, <1>6, <1>7, <1>8, <1>9, <1>10, <1>11, <1>12, <1>13, <1>14, <1>15,
     <1>16, <1>17, <1>18, <1>19, <1>20, <1>21, <1>22, <1>23, <1>24, <1>25, <1>26, <1>27, <1>28,
     <1>29, <1>30, <1>31, <1>32, <1>33
     DEF Step, Initialising, Making, Requesting, Deleting, Cloning

\* Every step keeps a row its table, or a worker at it.
LEMMA TableStep ==
  ASSUME LinkInv, LinkInv', Watched, Watched', Kept, TableInv, Step
  PROVE  TableInv'
BY MadeStep, ErasedStep, BackedStep DEF TableInv
-----------------------------------------------------------------------------
(* A table has its row *)

\* A row an instance's deletion takes has its table dropped, or still made.
LEMMA Condemned ==
  ASSUME Collected, NEW h \in Request, pc[h] = "deleting", NEW r \in rows, r.inst = subject[h],
         Plain(r.table), r.table \in Table
  PROVE  \/ r.table \in doomed[h] \/ Excused(r.table)
         \/ on[r.inst] = r /\ pc[r.inst] \in {"dropping", "creating"}
<1>1. Dropped(r.table) = r.table
  BY DEF Dropped, Plain, Table
<1>2. QED
  BY <1>1 DEF Collected

\* The deletion of an instance knows of every table of its rows.
LEMMA CollectedStep ==
  ASSUME LinkInv, LinkInv', Watched, Watched', Kept, Collected, Step
  PROVE  Collected'
<1>a. \A h \in Request : \A r \in copying[h] : CloneLayer(h, r) /\ Creatable(subject[h], r.layer) =>
        \E c \in Layer : Clone(h, r, c)
  BY CloneExcused
<1>b. /\ \A w \in Worker : on[w] # None => on[w].table \in Table
      /\ \A r \in rows : r.table \in Table /\ r # None
  BY SlugAssumption DEF LinkInv, TypeOK, Layer, Worker
<1>c. \A h \in Request, r \in rows : pc[h] = "deleting" /\ r.inst = subject[h] /\ Plain(r.table) =>
        \/ r.table \in doomed[h] \/ Excused(r.table)
        \/ on[r.inst] = r /\ pc[r.inst] \in {"dropping", "creating"}
  BY <1>b, Condemned
<1> USE SlugAssumption DEF TypeOK, Worker, Steps, catalogue, worker, request, Kept, LinkInv, Writes,
     Excused, OnLayer, MakesIt, InstanceLinked, RequestLinked, RowsLinked, Watched, Collected
<1>1. ASSUME NEW i \in Instance, NEW s \in Slug, CreateInstance(i, s) PROVE Collected'
  BY <1>1 DEF CreateInstance, Goto
<1>2. ASSUME NEW i \in Instance, RecordProject(i) PROVE Collected'
  BY <1>2 DEF RecordProject, Goto, Stop
<1>3. ASSUME NEW i \in Instance, CreateGroups(i) PROVE Collected'
  BY <1>3 DEF CreateGroups, Goto, Stop
<1>4. ASSUME NEW i \in Instance, NEW l \in Default, LoadLayer(i, l) PROVE Collected'
  BY <1>4 DEF LoadLayer, Creatable, Goto, Stop
<1>5. ASSUME NEW i \in Instance, DescribeProject(i) PROVE Collected'
  BY <1>5 DEF DescribeProject, Goto
<1>6. ASSUME NEW i \in Instance, SaveDescribed(i) PROVE Collected'
  BY <1>6 DEF SaveDescribed, SaveFile, Goto
<1>7. ASSUME NEW i \in Instance, Crash(i) PROVE Collected'
  BY <1>7 DEF Crash, Stop, Goto, Leave, Unfinished
<1>8. ASSUME NEW i \in Instance, DeleteGroup(i) PROVE Collected'
  BY <1>8 DEF DeleteGroup, Leave, RowsOf
<1>9. ASSUME NEW w \in Worker, DropOld(w) PROVE Collected'
  BY <1>9 DEF DropOld, Goto
<1>10. ASSUME NEW w \in Worker, CreateTable(w) PROVE Collected'
  BY <1>10 DEF CreateTable, NoTable, MadeTable, Done, Goto, Leave, TooLate, InstOf
<1>11. ASSUME NEW w \in Worker, TableFails(w) PROVE Collected'
  BY <1>11 DEF TableFails, NoTable, Done, Goto, Leave
<1>12. ASSUME NEW w \in Worker, ReadProject(w) PROVE Collected'
  BY <1>12 DEF ReadProject, Listed, Goto
<1>13. ASSUME NEW w \in Worker, AddFails(w) PROVE Collected'
  BY <1>13 DEF AddFails, Listed, Goto
<1>14. ASSUME NEW w \in Worker, SaveAdded(w) PROVE Collected'
  BY <1>14 DEF SaveAdded, SaveFile, Listed, Goto
<1>15. ASSUME NEW h \in Request, NEW i \in Instance, NEW l \in Extra, AskOsmLayer(h, i, l) PROVE Collected'
  BY <1>15 DEF AskOsmLayer, Begin, Goto
<1>16. ASSUME NEW h \in Request, RegisterLayer(h) PROVE Collected'
  BY <1>16 DEF RegisterLayer, Creatable, Done, Goto, Leave, TooLate, InstOf
<1>17. ASSUME NEW h \in Request, NEW r \in rows, AskResync(h, r) PROVE Collected'
  BY <1>17 DEF AskResync, Begin, Goto
<1>18. ASSUME NEW h \in Request, NEW r \in rows, AskDeleteLayer(h, r) PROVE Collected'
  BY <1>18 DEF AskDeleteLayer, Begin, Goto
<1>19. ASSUME NEW h \in Request, EraseRow(h) PROVE Collected'
  BY <1>19 DEF EraseRow, Done, Goto
<1>20. ASSUME NEW h \in Request, DropTable(h) PROVE Collected'
  BY <1>20 DEF DropTable, Goto
<1>21. ASSUME NEW h \in Request, DropTableFails(h) PROVE Collected'
  BY <1>21 DEF DropTableFails, Goto, Leave
<1>22. ASSUME NEW h \in Request, Unlist(h) PROVE Collected'
  BY SMTT(30), <1>22 DEF Unlist, Done, Goto
<1>23. ASSUME NEW h \in Request, SaveRemoved(h) PROVE Collected'
  BY <1>23 DEF SaveRemoved, SaveFile, Done, Goto
<1>24. ASSUME NEW h \in Request, Abort(h) PROVE Collected'
  BY <1>24 DEF Abort, Done, Goto, Leave, Unfinished
<1>25. ASSUME NEW h \in Request, NEW i \in Instance, CollectTables(h, i) PROVE Collected'
  BY <1>25 DEF CollectTables, RowsOf, Begin, Goto
<1>26. ASSUME NEW h \in Request, Cascade(h) PROVE Collected'
  BY <1>26 DEF Cascade, RowsOf, Done, Goto
<1>27. ASSUME NEW h \in Request, Purged(h) PROVE Collected'
  BY <1>27 DEF Purged, Done, Goto
<1>28. ASSUME NEW h \in Request, NEW t \in Table, DropNext(h, t) PROVE Collected'
  BY <1>28 DEF DropNext, Dropping
<1>29. ASSUME NEW h \in Request, NEW t \in Table, DropNextFails(h, t) PROVE Collected'
  BY <1>29 DEF DropNextFails, Dropping, Leave
<1>30. ASSUME NEW h \in Request, NEW i \in Instance, NEW src \in Instance, NEW s \in Slug, CreateTemplate(h, i, s, src)
       PROVE Collected'
  BY <1>30 DEF CreateTemplate, RowsOf, Begin, Goto
<1>31. ASSUME NEW h \in Request, CloneGroups(h) PROVE Collected'
  BY <1>31 DEF CloneGroups, Done, Goto
<1>32. ASSUME NEW h \in Request, Cloned(h) PROVE Collected'
  BY <1>32 DEF Cloned, Done, Goto
<1>33. ASSUME NEW h \in Request, NEW r \in copying[h], CloneLayer(h, r) PROVE Collected'
  <2>1. CASE Creatable(subject[h], r.layer)
    <3>1. PICK c \in Layer : Clone(h, r, c)
      BY <1>33, <2>1, <1>a
    <3>2. /\ rows' = rows \cup {c} /\ c.table = r.table /\ Excused(r.table)'
          /\ UNCHANGED <<pc, on, subject, doomed, tables>> /\ left \subseteq left'
      BY <1>33, <2>1, <3>1 DEF CloneLayer, Leave, Clone
    <3>3. QED
      BY <3>2
  <2>2. CASE ~Creatable(subject[h], r.layer)
    BY <1>33, <2>2 DEF CloneLayer, Done, Goto
  <2>3. QED
    BY <2>1, <2>2
<1>34. QED
  BY <1>1, <1>2, <1>3, <1>4, <1>5, <1>6, <1>7, <1>8, <1>9, <1>10, <1>11, <1>12, <1>13, <1>14, <1>15,
     <1>16, <1>17, <1>18, <1>19, <1>20, <1>21, <1>22, <1>23, <1>24, <1>25, <1>26, <1>27, <1>28,
     <1>29, <1>30, <1>31, <1>32, <1>33
     DEF Step, Initialising, Making, Requesting, Deleting, Cloning

\* A default layer keeps its row while its table is made.
LEMMA RowedStep ==
  ASSUME LinkInv, LinkInv', Watched, Watched', Kept, Collected, Rowed, Step
  PROVE  Rowed'
<1>a. \A h \in Request : \A r \in copying[h] : CloneLayer(h, r) /\ Creatable(subject[h], r.layer) =>
        \E c \in Layer : Clone(h, r, c)
  BY CloneExcused
<1>b. /\ \A w \in Worker : on[w] # None => on[w].table \in Table
      /\ \A r \in rows : r.table \in Table /\ r # None
  BY SlugAssumption DEF LinkInv, TypeOK, Layer, Worker
<1>c. \A h \in Request, r \in rows : pc[h] = "deleting" /\ r.inst = subject[h] /\ Plain(r.table) =>
        \/ r.table \in doomed[h] \/ Excused(r.table)
        \/ on[r.inst] = r /\ pc[r.inst] \in {"dropping", "creating"}
  BY <1>b, Condemned
<1> USE SlugAssumption DEF TypeOK, Worker, Steps, catalogue, worker, request, Kept, LinkInv, Writes,
     Excused, OnLayer, MakesIt, InstanceLinked, RequestLinked, RowsLinked, Watched, Rowed, Live
<1>1. ASSUME NEW i \in Instance, NEW s \in Slug, CreateInstance(i, s) PROVE Rowed'
  BY <1>1 DEF CreateInstance, Goto
<1>2. ASSUME NEW i \in Instance, RecordProject(i) PROVE Rowed'
  BY <1>2 DEF RecordProject, Goto, Stop
<1>3. ASSUME NEW i \in Instance, CreateGroups(i) PROVE Rowed'
  BY <1>3 DEF CreateGroups, Goto, Stop
<1>4. ASSUME NEW i \in Instance, NEW l \in Default, LoadLayer(i, l) PROVE Rowed'
  BY SMTT(30), <1>4 DEF LoadLayer, Creatable, Goto, Stop
<1>5. ASSUME NEW i \in Instance, DescribeProject(i) PROVE Rowed'
  BY <1>5 DEF DescribeProject, Goto
<1>6. ASSUME NEW i \in Instance, SaveDescribed(i) PROVE Rowed'
  BY <1>6 DEF SaveDescribed, SaveFile, Goto
<1>7. ASSUME NEW i \in Instance, Crash(i) PROVE Rowed'
  BY <1>7 DEF Crash, Stop, Goto, Leave, Unfinished
<1>8. ASSUME NEW i \in Instance, DeleteGroup(i) PROVE Rowed'
  BY <1>8 DEF DeleteGroup, Leave, RowsOf
<1>9. ASSUME NEW w \in Worker, DropOld(w) PROVE Rowed'
  BY <1>9 DEF DropOld, Goto
<1>10. ASSUME NEW w \in Worker, CreateTable(w) PROVE Rowed'
  <2>1. /\ UNCHANGED <<rows, status>> /\ left \subseteq left' /\ pc[w] = "creating"
        /\ \A v \in Worker : v # w => on'[v] = on[v] /\ pc'[v] = pc[v]
        /\ pc'[w] \in {"adding", "idle"} /\ (w \in Instance => on'[w] = on[w])
    BY <1>10 DEF CreateTable, NoTable, MadeTable, Done, Goto, Leave
  <2>2. ASSUME w \in Instance PROVE on[w] \in rows \/ Excused(on[w].table)'
    <3>1. on[w].inst = w /\ on[w].layer \in Default /\ on[w] # None
      BY <2>1, <2>2
    <3>2. on[w] \in rows \/ Excused(on[w].table) \/ ~Live(w)
      BY <2>1, <3>1
    <3>3. ~Live(w) => on[w].table \in left'
      BY <1>10, <2>2 DEF CreateTable, TooLate, InstOf, Leave
    <3>4. QED
      BY <2>1, <2>2, <3>2, <3>3
  <2>3. ASSUME NEW v \in Worker, pc'[v] \in {"dropping", "creating"}, on'[v].layer \in Default
        PROVE  on'[v] \in rows' \/ Excused(on[v].table)' \/ ~Live(on[v].inst)'
    BY <2>1, <2>3
  <2>4. ASSUME NEW i \in Instance, on'[i] # None, pc'[i] \in {"adding", "saving", "next"}
        PROVE  on'[i] \in rows' \/ Excused(on[i].table)' \/ ~Plain(on[i].table)'
    <3>1. CASE i # w
      BY <2>1, <2>4, <3>1 DEF Plain
    <3>2. CASE i = w
      BY <2>1, <2>2, <3>2
    <3>3. QED
      BY <3>1, <3>2
  <2>5. QED
    BY <2>3, <2>4
<1>11. ASSUME NEW w \in Worker, TableFails(w) PROVE Rowed'
  BY <1>11 DEF TableFails, NoTable, Done, Goto, Leave
<1>12. ASSUME NEW w \in Worker, ReadProject(w) PROVE Rowed'
  BY <1>12 DEF ReadProject, Listed, Goto
<1>13. ASSUME NEW w \in Worker, AddFails(w) PROVE Rowed'
  BY <1>13 DEF AddFails, Listed, Goto
<1>14. ASSUME NEW w \in Worker, SaveAdded(w) PROVE Rowed'
  BY <1>14 DEF SaveAdded, SaveFile, Listed, Goto
<1>15. ASSUME NEW h \in Request, NEW i \in Instance, NEW l \in Extra, AskOsmLayer(h, i, l) PROVE Rowed'
  BY <1>15 DEF AskOsmLayer, Begin, Goto
<1>16. ASSUME NEW h \in Request, RegisterLayer(h) PROVE Rowed'
  BY <1>16 DEF RegisterLayer, Creatable, Done, Goto, Leave, TooLate, InstOf
<1>17. ASSUME NEW h \in Request, NEW r \in rows, AskResync(h, r) PROVE Rowed'
  BY <1>17 DEF AskResync, Begin, Goto
<1>18. ASSUME NEW h \in Request, NEW r \in rows, AskDeleteLayer(h, r) PROVE Rowed'
  BY <1>18 DEF AskDeleteLayer, Begin, Goto
<1>19. ASSUME NEW h \in Request, EraseRow(h) PROVE Rowed'
  <2>1. CASE on[h] \in rows
    <3>1. /\ rows' = rows \ {on[h]} /\ UNCHANGED <<status, on, left, request>> /\ Goto(h, "clearing")
          /\ on[h] # None
      BY <1>19, <2>1 DEF EraseRow
    <3>2. \A v \in Worker : v # h /\ on[v] = on[h] => Excused(on[h].table)
      BY <3>1, <1>b
    <3>3. QED
      BY <3>1, <3>2 DEF Goto
  <2>2. CASE on[h] \notin rows
    BY SMTT(30), <1>19, <2>2 DEF EraseRow, Done, Goto
  <2>3. QED
    BY <2>1, <2>2
<1>20. ASSUME NEW h \in Request, DropTable(h) PROVE Rowed'
  BY <1>20 DEF DropTable, Goto
<1>21. ASSUME NEW h \in Request, DropTableFails(h) PROVE Rowed'
  BY <1>21 DEF DropTableFails, Goto, Leave
<1>22. ASSUME NEW h \in Request, Unlist(h) PROVE Rowed'
  BY <1>22 DEF Unlist, Done, Goto
<1>23. ASSUME NEW h \in Request, SaveRemoved(h) PROVE Rowed'
  BY <1>23 DEF SaveRemoved, SaveFile, Done, Goto
<1>24. ASSUME NEW h \in Request, Abort(h) PROVE Rowed'
  BY <1>24 DEF Abort, Done, Goto, Leave, Unfinished
<1>25. ASSUME NEW h \in Request, NEW i \in Instance, CollectTables(h, i) PROVE Rowed'
  BY <1>25 DEF CollectTables, RowsOf, Begin, Goto
<1>26. ASSUME NEW h \in Request, Cascade(h) PROVE Rowed'
  <2>1. CASE Live(subject[h])
    <3>1. /\ status' = [status EXCEPT ![subject[h]] = "deleted"] /\ rows' = rows \ RowsOf(subject[h])
          /\ pc[h] = "deleting" /\ Goto(h, "purging") /\ UNCHANGED <<on, left, request>>
          /\ subject[h] \in Instance
      BY <1>26, <2>1 DEF Cascade
    <3>2. \A v \in Worker : on[v] # None => on[v].inst \in Instance
      BY DEF Layer
    <3>3. \A v \in Worker : on[v] # None /\ on[v] \in rows \ rows' => ~(status'[on[v].inst] = "live")
      BY <3>1, <3>2 DEF RowsOf
    <3>4. \A i \in Instance : pc'[i] = pc[i]
      BY <3>1 DEF Goto
    <3>5. ASSUME NEW i \in Instance, on[i] # None, pc[i] \in {"adding", "saving", "next"},
                 on[i] \in rows \ rows', Plain(on[i].table)
          PROVE  Excused(on[i].table)'
      <4>1. PICK r \in rows : r = on[i]
        BY <3>5
      <4>2. r.inst = subject[h] /\ r.inst = i /\ r.table \in Table /\ Plain(r.table)
        BY <3>1, <3>5, <4>1, <1>b DEF RowsOf
      <4>3. r.table \in doomed[h] \/ Excused(r.table)
        <5>1. pc[r.inst] \notin {"dropping", "creating"}
          BY <3>5, <4>2
        <5>2. QED
          BY <3>1, <4>2, <5>1, <1>c
      <4>4. ASSUME r.table \in doomed[h] PROVE r.table \in contested'
        <5>1. Writes(h, r.table)' /\ Writes(i, r.table)' /\ h # i
          BY <3>1, <3>5, <4>1, <4>4 DEF Goto
        <5>2. QED
          BY <5>1, <4>2
      <4>5. QED
        BY <4>1, <4>3, <4>4, <3>1
    <3>6. QED
      BY <3>1, <3>2, <3>3, <3>4, <3>5 DEF Goto, Plain
  <2>2. CASE ~Live(subject[h])
    BY SMTT(30), <1>26, <2>2 DEF Cascade, Done, Goto
  <2>3. QED
    BY <2>1, <2>2
<1>27. ASSUME NEW h \in Request, Purged(h) PROVE Rowed'
  BY <1>27 DEF Purged, Done, Goto
<1>28. ASSUME NEW h \in Request, NEW t \in Table, DropNext(h, t) PROVE Rowed'
  BY <1>28 DEF DropNext, Dropping
<1>29. ASSUME NEW h \in Request, NEW t \in Table, DropNextFails(h, t) PROVE Rowed'
  BY <1>29 DEF DropNextFails, Dropping, Leave
<1>30. ASSUME NEW h \in Request, NEW i \in Instance, NEW src \in Instance, NEW s \in Slug, CreateTemplate(h, i, s, src)
       PROVE Rowed'
  BY <1>30 DEF CreateTemplate, RowsOf, Begin, Goto
<1>31. ASSUME NEW h \in Request, CloneGroups(h) PROVE Rowed'
  BY <1>31 DEF CloneGroups, Done, Goto
<1>32. ASSUME NEW h \in Request, Cloned(h) PROVE Rowed'
  BY <1>32 DEF Cloned, Done, Goto
<1>33. ASSUME NEW h \in Request, NEW r \in copying[h], CloneLayer(h, r) PROVE Rowed'
  BY <1>33 DEF CloneLayer, Creatable, Done, Goto, Leave
<1>34. QED
  BY <1>1, <1>2, <1>3, <1>4, <1>5, <1>6, <1>7, <1>8, <1>9, <1>10, <1>11, <1>12, <1>13, <1>14, <1>15,
     <1>16, <1>17, <1>18, <1>19, <1>20, <1>21, <1>22, <1>23, <1>24, <1>25, <1>26, <1>27, <1>28,
     <1>29, <1>30, <1>31, <1>32, <1>33
     DEF Step, Initialising, Making, Requesting, Deleting, Cloning

\* A row about to be erased stays, or its instance goes first.
LEMMA ErasingStep ==
  ASSUME LinkInv, LinkInv', Watched, Watched', Kept, Collected, Erasing, Step
  PROVE  Erasing'
<1>a. \A h \in Request : \A r \in copying[h] : CloneLayer(h, r) /\ Creatable(subject[h], r.layer) =>
        \E c \in Layer : Clone(h, r, c)
  BY CloneExcused
<1>b. /\ \A w \in Worker : on[w] # None => on[w].table \in Table
      /\ \A r \in rows : r.table \in Table /\ r # None
  BY SlugAssumption DEF LinkInv, TypeOK, Layer, Worker
<1>c. \A h \in Request, r \in rows : pc[h] = "deleting" /\ r.inst = subject[h] /\ Plain(r.table) =>
        \/ r.table \in doomed[h] \/ Excused(r.table)
        \/ on[r.inst] = r /\ pc[r.inst] \in {"dropping", "creating"}
  BY <1>b, Condemned
<1> USE SlugAssumption DEF TypeOK, Worker, Steps, catalogue, worker, request, Kept, LinkInv, Writes,
     Excused, OnLayer, MakesIt, InstanceLinked, RequestLinked, RowsLinked, Watched, Erasing, Live
<1>1. ASSUME NEW i \in Instance, NEW s \in Slug, CreateInstance(i, s) PROVE Erasing'
  BY <1>1 DEF CreateInstance, Goto
<1>2. ASSUME NEW i \in Instance, RecordProject(i) PROVE Erasing'
  BY <1>2 DEF RecordProject, Goto, Stop
<1>3. ASSUME NEW i \in Instance, CreateGroups(i) PROVE Erasing'
  BY <1>3 DEF CreateGroups, Goto, Stop
<1>4. ASSUME NEW i \in Instance, NEW l \in Default, LoadLayer(i, l) PROVE Erasing'
  BY <1>4 DEF LoadLayer, Creatable, Goto, Stop
<1>5. ASSUME NEW i \in Instance, DescribeProject(i) PROVE Erasing'
  BY <1>5 DEF DescribeProject, Goto
<1>6. ASSUME NEW i \in Instance, SaveDescribed(i) PROVE Erasing'
  BY <1>6 DEF SaveDescribed, SaveFile, Goto
<1>7. ASSUME NEW i \in Instance, Crash(i) PROVE Erasing'
  BY <1>7 DEF Crash, Stop, Goto, Leave, Unfinished
<1>8. ASSUME NEW i \in Instance, DeleteGroup(i) PROVE Erasing'
  BY <1>8 DEF DeleteGroup, Leave, RowsOf
<1>9. ASSUME NEW w \in Worker, DropOld(w) PROVE Erasing'
  BY <1>9 DEF DropOld, Goto
<1>10. ASSUME NEW w \in Worker, CreateTable(w) PROVE Erasing'
  BY <1>10 DEF CreateTable, NoTable, MadeTable, Done, Goto, Leave
<1>11. ASSUME NEW w \in Worker, TableFails(w) PROVE Erasing'
  BY <1>11 DEF TableFails, NoTable, Done, Goto, Leave
<1>12. ASSUME NEW w \in Worker, ReadProject(w) PROVE Erasing'
  BY <1>12 DEF ReadProject, Listed, Goto
<1>13. ASSUME NEW w \in Worker, AddFails(w) PROVE Erasing'
  BY <1>13 DEF AddFails, Listed, Goto
<1>14. ASSUME NEW w \in Worker, SaveAdded(w) PROVE Erasing'
  BY <1>14 DEF SaveAdded, SaveFile, Listed, Goto
<1>15. ASSUME NEW h \in Request, NEW i \in Instance, NEW l \in Extra, AskOsmLayer(h, i, l) PROVE Erasing'
  BY <1>15 DEF AskOsmLayer, Begin, Goto
<1>16. ASSUME NEW h \in Request, RegisterLayer(h) PROVE Erasing'
  BY <1>16 DEF RegisterLayer, Creatable, Done, Goto, Leave
<1>17. ASSUME NEW h \in Request, NEW r \in rows, AskResync(h, r) PROVE Erasing'
  BY <1>17 DEF AskResync, Begin, Goto
<1>18. ASSUME NEW h \in Request, NEW r \in rows, AskDeleteLayer(h, r) PROVE Erasing'
  <2>1. r # None /\ UNCHANGED <<rows, status, left>> /\ Begin(h, "erasing", r.inst, r)
    BY <1>18, <1>b DEF AskDeleteLayer
  <2>2. on' = [on EXCEPT ![h] = r] /\ pc' = [pc EXCEPT ![h] = "erasing"]
    BY <2>1 DEF Begin, Goto
  <2>3. \A k \in Request : k # h => on'[k] = on[k] /\ pc'[k] = pc[k]
    BY <2>2
  <2>4. on'[h] \in rows'
    BY <2>1, <2>2
  <2>5. QED
    BY <2>1, <2>3, <2>4
<1>19. ASSUME NEW h \in Request, EraseRow(h) PROVE Erasing'
  <2>1. CASE on[h] \in rows
    <3>1. /\ rows' = rows \ {on[h]} /\ UNCHANGED <<status, on, left, request>> /\ Goto(h, "clearing")
          /\ on[h] # None
      BY <1>19, <2>1 DEF EraseRow
    <3>2. \A v \in Worker : v # h /\ on[v] = on[h] => Excused(on[h].table)
      BY <3>1, <1>b
    <3>3. QED
      BY <3>1, <3>2 DEF Goto
  <2>2. CASE on[h] \notin rows
    BY <1>19, <2>2 DEF EraseRow, Done, Goto
  <2>3. QED
    BY <2>1, <2>2
<1>20. ASSUME NEW h \in Request, DropTable(h) PROVE Erasing'
  BY <1>20 DEF DropTable, Goto
<1>21. ASSUME NEW h \in Request, DropTableFails(h) PROVE Erasing'
  BY <1>21 DEF DropTableFails, Goto, Leave
<1>22. ASSUME NEW h \in Request, Unlist(h) PROVE Erasing'
  BY <1>22 DEF Unlist, Done, Goto
<1>23. ASSUME NEW h \in Request, SaveRemoved(h) PROVE Erasing'
  BY <1>23 DEF SaveRemoved, SaveFile, Done, Goto
<1>24. ASSUME NEW h \in Request, Abort(h) PROVE Erasing'
  BY <1>24 DEF Abort, Done, Goto, Leave, Unfinished
<1>25. ASSUME NEW h \in Request, NEW i \in Instance, CollectTables(h, i) PROVE Erasing'
  BY <1>25 DEF CollectTables, RowsOf, Begin, Goto
<1>26. ASSUME NEW h \in Request, Cascade(h) PROVE Erasing'
  <2>1. CASE Live(subject[h])
    <3>1. /\ status' = [status EXCEPT ![subject[h]] = "deleted"] /\ rows' = rows \ RowsOf(subject[h])
          /\ pc[h] = "deleting" /\ Goto(h, "purging") /\ UNCHANGED <<on, left, request>>
          /\ subject[h] \in Instance
      BY <1>26, <2>1 DEF Cascade
    <3>2. SUFFICES ASSUME NEW k \in Request, pc[k] = "erasing", k # h, ~Excused(on[k].table)'
                   PROVE  (on[k] \in rows' \/ (~Live(on[k].inst)' /\ ~Plain(on[k].table)))
      BY <3>1 DEF Erasing, Goto, Plain
    <3>3. PICK r : r = on[k]
      OBVIOUS
    <3>4. r # None /\ r.table \in Table /\ r.inst \in Instance /\ ~Excused(r.table)
      BY <3>1, <3>2, <3>3, <1>b DEF Layer
    <3>5. CASE r \notin rows
      BY <3>1, <3>2, <3>3, <3>4, <3>5
    <3>6. CASE r \in rows /\ r.inst # subject[h]
      BY <3>1, <3>3, <3>6 DEF RowsOf
    <3>7. CASE r \in rows /\ r.inst = subject[h]
      <4>1. ~Live(on[k].inst)'
        BY <3>1, <3>3, <3>4, <3>7
      <4>2. ASSUME Plain(r.table) PROVE FALSE
        <5>1. r.table \in doomed[h] \/ on[r.inst] = r
          BY <3>1, <3>4, <3>7, <4>2, <1>c
        <5>2. CASE r.table \in doomed[h]
          <6>1. Writes(h, r.table)' /\ Writes(k, r.table)'
            BY <3>1, <3>2, <3>3, <3>4, <5>2 DEF Goto
          <6>2. QED
            BY <3>1, <3>2, <3>3, <3>4, <6>1
        <5>3. CASE on[r.inst] = r
          <6>1. Writes(r.inst, r.table) /\ Writes(k, r.table) /\ r.inst # k
            BY <3>3, <3>4, <5>3
          <6>2. QED
            BY <3>4, <6>1
        <5>4. QED
          BY <5>1, <5>2, <5>3
      <4>3. QED
        BY <3>3, <4>1, <4>2
    <3>8. QED
      BY <3>5, <3>6, <3>7
  <2>2. CASE ~Live(subject[h])
    BY <1>26, <2>2 DEF Cascade, Done, Goto
  <2>3. QED
    BY <2>1, <2>2
<1>27. ASSUME NEW h \in Request, Purged(h) PROVE Erasing'
  BY <1>27 DEF Purged, Done, Goto
<1>28. ASSUME NEW h \in Request, NEW t \in Table, DropNext(h, t) PROVE Erasing'
  BY <1>28 DEF DropNext, Dropping
<1>29. ASSUME NEW h \in Request, NEW t \in Table, DropNextFails(h, t) PROVE Erasing'
  BY <1>29 DEF DropNextFails, Dropping, Leave
<1>30. ASSUME NEW h \in Request, NEW i \in Instance, NEW src \in Instance, NEW s \in Slug, CreateTemplate(h, i, s, src)
       PROVE Erasing'
  BY <1>30 DEF CreateTemplate, RowsOf, Begin, Goto
<1>31. ASSUME NEW h \in Request, CloneGroups(h) PROVE Erasing'
  BY <1>31 DEF CloneGroups, Done, Goto
<1>32. ASSUME NEW h \in Request, Cloned(h) PROVE Erasing'
  BY <1>32 DEF Cloned, Done, Goto
<1>33. ASSUME NEW h \in Request, NEW r \in copying[h], CloneLayer(h, r) PROVE Erasing'
  BY <1>33 DEF CloneLayer, Creatable, Done, Goto, Leave
<1>34. QED
  BY <1>1, <1>2, <1>3, <1>4, <1>5, <1>6, <1>7, <1>8, <1>9, <1>10, <1>11, <1>12, <1>13, <1>14, <1>15,
     <1>16, <1>17, <1>18, <1>19, <1>20, <1>21, <1>22, <1>23, <1>24, <1>25, <1>26, <1>27, <1>28,
     <1>29, <1>30, <1>31, <1>32, <1>33
     DEF Step, Initialising, Making, Requesting, Deleting, Cloning

\* A table dropped after its row stays dropped.
LEMMA ClearedStep ==
  ASSUME LinkInv, LinkInv', Watched, Watched', Kept, Cleared, Step
  PROVE  Cleared'
<1> USE SlugAssumption DEF TypeOK, Worker, Steps, catalogue, worker, request, Kept, LinkInv, Writes,
     Excused, OnLayer, MakesIt, InstanceLinked, RequestLinked, RowsLinked, Watched, Cleared
<1>1. ASSUME NEW i \in Instance, NEW s \in Slug, CreateInstance(i, s) PROVE Cleared'
  BY <1>1 DEF CreateInstance, Goto
<1>2. ASSUME NEW i \in Instance, RecordProject(i) PROVE Cleared'
  BY <1>2 DEF RecordProject, Goto, Stop
<1>3. ASSUME NEW i \in Instance, CreateGroups(i) PROVE Cleared'
  BY <1>3 DEF CreateGroups, Goto, Stop
<1>4. ASSUME NEW i \in Instance, NEW l \in Default, LoadLayer(i, l) PROVE Cleared'
  BY <1>4 DEF LoadLayer, Creatable, Goto, Stop
<1>5. ASSUME NEW i \in Instance, DescribeProject(i) PROVE Cleared'
  BY <1>5 DEF DescribeProject, Goto
<1>6. ASSUME NEW i \in Instance, SaveDescribed(i) PROVE Cleared'
  BY <1>6 DEF SaveDescribed, SaveFile, Goto
<1>7. ASSUME NEW i \in Instance, Crash(i) PROVE Cleared'
  BY <1>7 DEF Crash, Stop, Goto, Leave, Unfinished
<1>8. ASSUME NEW i \in Instance, DeleteGroup(i) PROVE Cleared'
  BY <1>8 DEF DeleteGroup, Leave, RowsOf
<1>9. ASSUME NEW w \in Worker, DropOld(w) PROVE Cleared'
  BY <1>9 DEF DropOld, Goto
<1>10. ASSUME NEW w \in Worker, CreateTable(w) PROVE Cleared'
  BY <1>10 DEF CreateTable, NoTable, MadeTable, Done, Goto, Leave
<1>11. ASSUME NEW w \in Worker, TableFails(w) PROVE Cleared'
  BY <1>11 DEF TableFails, NoTable, Done, Goto, Leave
<1>12. ASSUME NEW w \in Worker, ReadProject(w) PROVE Cleared'
  BY <1>12 DEF ReadProject, Listed, Goto
<1>13. ASSUME NEW w \in Worker, AddFails(w) PROVE Cleared'
  BY <1>13 DEF AddFails, Listed, Goto
<1>14. ASSUME NEW w \in Worker, SaveAdded(w) PROVE Cleared'
  BY <1>14 DEF SaveAdded, SaveFile, Listed, Goto
<1>15. ASSUME NEW h \in Request, NEW i \in Instance, NEW l \in Extra, AskOsmLayer(h, i, l) PROVE Cleared'
  BY <1>15 DEF AskOsmLayer, Begin, Goto
<1>16. ASSUME NEW h \in Request, RegisterLayer(h) PROVE Cleared'
  BY <1>16 DEF RegisterLayer, Creatable, Done, Goto, Leave
<1>17. ASSUME NEW h \in Request, NEW r \in rows, AskResync(h, r) PROVE Cleared'
  BY <1>17 DEF AskResync, Begin, Goto
<1>18. ASSUME NEW h \in Request, NEW r \in rows, AskDeleteLayer(h, r) PROVE Cleared'
  BY <1>18 DEF AskDeleteLayer, Begin, Goto
<1>19. ASSUME NEW h \in Request, EraseRow(h) PROVE Cleared'
  BY <1>19 DEF EraseRow, Done, Goto
<1>20. ASSUME NEW h \in Request, DropTable(h) PROVE Cleared'
  BY <1>20 DEF DropTable, Goto
<1>21. ASSUME NEW h \in Request, DropTableFails(h) PROVE Cleared'
  BY <1>21 DEF DropTableFails, Goto, Leave
<1>22. ASSUME NEW h \in Request, Unlist(h) PROVE Cleared'
  BY <1>22 DEF Unlist, Done, Goto
<1>23. ASSUME NEW h \in Request, SaveRemoved(h) PROVE Cleared'
  BY <1>23 DEF SaveRemoved, SaveFile, Done, Goto
<1>24. ASSUME NEW h \in Request, Abort(h) PROVE Cleared'
  BY <1>24 DEF Abort, Done, Goto, Leave, Unfinished
<1>25. ASSUME NEW h \in Request, NEW i \in Instance, CollectTables(h, i) PROVE Cleared'
  BY <1>25 DEF CollectTables, RowsOf, Begin, Goto
<1>26. ASSUME NEW h \in Request, Cascade(h) PROVE Cleared'
  BY <1>26 DEF Cascade, RowsOf, Done, Goto
<1>27. ASSUME NEW h \in Request, Purged(h) PROVE Cleared'
  BY <1>27 DEF Purged, Done, Goto
<1>28. ASSUME NEW h \in Request, NEW t \in Table, DropNext(h, t) PROVE Cleared'
  BY <1>28 DEF DropNext, Dropping
<1>29. ASSUME NEW h \in Request, NEW t \in Table, DropNextFails(h, t) PROVE Cleared'
  BY <1>29 DEF DropNextFails, Dropping, Leave
<1>30. ASSUME NEW h \in Request, NEW i \in Instance, NEW src \in Instance, NEW s \in Slug, CreateTemplate(h, i, s, src)
       PROVE Cleared'
  BY <1>30 DEF CreateTemplate, RowsOf, Begin, Goto
<1>31. ASSUME NEW h \in Request, CloneGroups(h) PROVE Cleared'
  BY <1>31 DEF CloneGroups, Done, Goto
<1>32. ASSUME NEW h \in Request, Cloned(h) PROVE Cleared'
  BY <1>32 DEF Cloned, Done, Goto
<1>33. ASSUME NEW h \in Request, NEW r \in copying[h], CloneLayer(h, r) PROVE Cleared'
  BY <1>33 DEF CloneLayer, Creatable, Done, Goto, Leave
<1>34. QED
  BY <1>1, <1>2, <1>3, <1>4, <1>5, <1>6, <1>7, <1>8, <1>9, <1>10, <1>11, <1>12, <1>13, <1>14, <1>15,
     <1>16, <1>17, <1>18, <1>19, <1>20, <1>21, <1>22, <1>23, <1>24, <1>25, <1>26, <1>27, <1>28,
     <1>29, <1>30, <1>31, <1>32, <1>33
     DEF Step, Initialising, Making, Requesting, Deleting, Cloning

\* A table no row names has a worker at it.
LEMMA OwnedStep ==
  ASSUME LinkInv, LinkInv', Watched, Watched', Kept, OrphanInv, Step
  PROVE  Owned'
<1>a. \A h \in Request : \A r \in copying[h] : CloneLayer(h, r) /\ Creatable(subject[h], r.layer) =>
        \E c \in Layer : Clone(h, r, c)
  BY CloneExcused
<1>b. /\ \A w \in Worker : on[w] # None => on[w].table \in Table
      /\ \A r \in rows : r.table \in Table /\ r # None
  BY SlugAssumption DEF LinkInv, TypeOK, Layer, Worker
<1>c. \A h \in Request, r \in rows : pc[h] = "deleting" /\ r.inst = subject[h] /\ Plain(r.table) =>
        \/ r.table \in doomed[h] \/ Excused(r.table)
        \/ on[r.inst] = r /\ pc[r.inst] \in {"dropping", "creating"}
  BY <1>b, Condemned DEF OrphanInv
<1> USE SlugAssumption DEF TypeOK, Worker, Steps, catalogue, worker, request, Kept, LinkInv,
     OnLayer, MakesIt, InstanceLinked, RequestLinked, RowsLinked, Watched, OrphanInv, Rowed,
     Erasing, Cleared, Owned
<1>1. ASSUME NEW i \in Instance, NEW s \in Slug, CreateInstance(i, s) PROVE Owned'
  BY <1>1 DEF CreateInstance, Goto, Writes, Excused
<1>2. ASSUME NEW i \in Instance, RecordProject(i) PROVE Owned'
  BY <1>2 DEF RecordProject, Goto, Stop, Writes, Excused
<1>3. ASSUME NEW i \in Instance, CreateGroups(i) PROVE Owned'
  BY <1>3 DEF CreateGroups, Goto, Stop, Writes, Excused
<1>4. ASSUME NEW i \in Instance, NEW l \in Default, LoadLayer(i, l) PROVE Owned'
  <2> SUFFICES ASSUME NEW t \in tables', ~Excused(t)', Plain(t)
               PROVE  (\E q \in rows' : q.table = t) \/ \E v \in Worker : Writes(v, t)'
    BY DEF Owned, Plain
  <2>1. \A v \in Worker : v # i /\ Writes(v, t) => Writes(v, t)'
    BY <1>4 DEF LoadLayer, Goto, Stop, Writes
  <2>2. t \in tables /\ ~Excused(t) /\ rows \subseteq rows'
    BY <1>4 DEF LoadLayer, Excused
  <2>3. Writes(i, t) => on[i] \in rows /\ on[i].table = t
    BY <1>4, <2>2 DEF LoadLayer, Writes
  <2>4. (\E q \in rows : q.table = t) \/ \E v \in Worker : Writes(v, t)
    BY <2>2
  <2>5. QED
    BY <2>1, <2>2, <2>3, <2>4
<1>5. ASSUME NEW i \in Instance, DescribeProject(i) PROVE Owned'
  BY <1>5 DEF DescribeProject, Goto, Writes, Excused
<1>6. ASSUME NEW i \in Instance, SaveDescribed(i) PROVE Owned'
  BY <1>6 DEF SaveDescribed, SaveFile, Goto, Writes, Excused
<1>7. ASSUME NEW i \in Instance, Crash(i) PROVE Owned'
  BY <1>7 DEF Crash, Stop, Goto, Leave, Unfinished, Writes, Excused
<1>8. ASSUME NEW i \in Instance, DeleteGroup(i) PROVE Owned'
  BY <1>8 DEF DeleteGroup, Leave, RowsOf, Writes, Excused
<1>9. ASSUME NEW w \in Worker, DropOld(w) PROVE Owned'
  BY <1>9 DEF DropOld, Goto, Writes, Excused
<1>10. ASSUME NEW w \in Worker, CreateTable(w) PROVE Owned'
  <2>0. PICK o : o = on[w]
    OBVIOUS
  <2>1. /\ UNCHANGED <<rows, status>> /\ left \subseteq left' /\ pc[w] = "creating"
        /\ tables' \subseteq tables \cup {o.table} /\ o # None /\ o.table \in Table
    BY <1>10, <1>b, <2>0 DEF CreateTable, Leave
  <2>2. \A v \in Worker, t \in Table : v # w /\ Writes(v, t) => Writes(v, t)'
    BY <1>10 DEF CreateTable, NoTable, MadeTable, Done, Goto, Writes
  <2>3. \A t \in Table : Writes(w, t) => t = o.table
    BY <2>0, <2>1 DEF Writes
  <2>4. \/ o \in rows' \/ Excused(o.table)' \/ Writes(w, o.table)'
    <3>1. CASE o.table \in left'
      BY <3>1 DEF Excused
    <3>2. CASE Goto(w, "adding") /\ UNCHANGED <<on, request>>
      BY <2>0, <2>1, <3>2 DEF Writes
    <3>3. CASE w \in Request /\ o.layer \in Default /\ o.table \notin left'
      <4>1. ~TooLate(InstOf(w)) /\ InstOf(w) = o.inst
        BY <1>10, <2>0, <3>3 DEF CreateTable, Leave, InstOf
      <4>2. o \in rows \/ Excused(o.table)
        BY SMTT(30), <2>0, <2>1, <3>3, <4>1 DEF TooLate
      <4>3. QED
        BY <2>1, <4>2 DEF Excused
    <3>4. QED
      BY <1>10, <2>0, <3>1, <3>2, <3>3 DEF CreateTable, NoTable, MadeTable, Leave
  <2>5. SUFFICES ASSUME NEW t \in tables', ~Excused(t)', Plain(t), t # o.table
                 PROVE  (\E q \in rows' : q.table = t) \/ \E v \in Worker : Writes(v, t)'
    BY <2>4 DEF Owned, Plain
  <2>6. t \in tables /\ ~Excused(t) /\ t \in Table
    BY <2>1, <2>5 DEF Excused
  <2>7. (\E q \in rows : q.table = t) \/ \E v \in Worker : Writes(v, t)
    BY <2>5, <2>6
  <2>8. QED
    BY <2>1, <2>2, <2>3, <2>5, <2>6, <2>7
<1>11. ASSUME NEW w \in Worker, TableFails(w) PROVE Owned'
  <2> SUFFICES ASSUME NEW t \in tables', ~Excused(t)', Plain(t)
               PROVE  (\E q \in rows' : q.table = t) \/ \E v \in Worker : Writes(v, t)'
    BY DEF Owned, Plain
  <2>1. \A v \in Worker : v # w /\ Writes(v, t) => Writes(v, t)'
    BY <1>11 DEF TableFails, NoTable, Done, Goto, Leave, Writes
  <2>2. t \in tables /\ ~Excused(t) /\ rows \subseteq rows'
    BY <1>11 DEF TableFails, NoTable, Done, Goto, Leave, Excused
  <2>3. ~Writes(w, t)
    BY <1>11, <2>2 DEF TableFails, Leave, Writes, Excused
  <2>4. (\E q \in rows : q.table = t) \/ \E v \in Worker : Writes(v, t)
    BY <2>2
  <2>5. QED
    BY <2>1, <2>2, <2>3, <2>4
<1>12. ASSUME NEW w \in Worker, ReadProject(w) PROVE Owned'
  BY <1>12 DEF ReadProject, Listed, Goto, Writes, Excused
<1>13. ASSUME NEW w \in Worker, AddFails(w) PROVE Owned'
  BY <1>13 DEF AddFails, Listed, Goto, Writes, Excused
<1>14. ASSUME NEW w \in Worker, SaveAdded(w) PROVE Owned'
  BY <1>14 DEF SaveAdded, SaveFile, Listed, Goto, Writes, Excused
<1>15. ASSUME NEW h \in Request, NEW i \in Instance, NEW l \in Extra, AskOsmLayer(h, i, l) PROVE Owned'
  BY SMTT(30), <1>15 DEF AskOsmLayer, Begin, Goto, Writes, Excused
<1>16. ASSUME NEW h \in Request, RegisterLayer(h) PROVE Owned'
  <2> SUFFICES ASSUME NEW t \in tables', ~Excused(t)', Plain(t)
               PROVE  (\E q \in rows' : q.table = t) \/ \E v \in Worker : Writes(v, t)'
    BY DEF Owned, Plain
  <2>1. \A v \in Worker : v # h /\ Writes(v, t) => Writes(v, t)'
    BY <1>16 DEF RegisterLayer, Done, Goto, Writes
  <2>2. t \in tables /\ ~Excused(t) /\ rows \subseteq rows' /\ pc[h] = "registering"
    BY <1>16 DEF RegisterLayer, Leave, Excused
  <2>3. Writes(h, t) => on[h] \in rows' /\ on[h].table = t
    BY <1>16, <2>2 DEF RegisterLayer, Leave, Excused, Writes
  <2>4. (\E q \in rows : q.table = t) \/ \E v \in Worker : Writes(v, t)
    BY <2>2
  <2>5. QED
    BY <2>1, <2>2, <2>3, <2>4
<1>17. ASSUME NEW h \in Request, NEW r \in rows, AskResync(h, r) PROVE Owned'
  <2> SUFFICES ASSUME NEW t \in tables', ~Excused(t)', Plain(t)
               PROVE  (\E q \in rows' : q.table = t) \/ \E v \in Worker : Writes(v, t)'
    BY DEF Owned, Plain
  <2>1. \A v \in Worker : v # h /\ Writes(v, t) => Writes(v, t)'
    BY <1>17 DEF AskResync, Begin, Goto, Writes
  <2>2. t \in tables /\ ~Excused(t) /\ rows \subseteq rows'
    BY <1>17 DEF AskResync, Begin, Goto, Excused
  <2>3. ~Writes(h, t)
    BY <1>17, <2>2 DEF AskResync, Begin, Writes, Excused
  <2>4. (\E q \in rows : q.table = t) \/ \E v \in Worker : Writes(v, t)
    BY <2>2
  <2>5. QED
    BY <2>1, <2>2, <2>3, <2>4
<1>18. ASSUME NEW h \in Request, NEW r \in rows, AskDeleteLayer(h, r) PROVE Owned'
  BY <1>18 DEF AskDeleteLayer, Begin, Goto, Writes, Excused
<1>19. ASSUME NEW h \in Request, EraseRow(h) PROVE Owned'
  <2>1. CASE on[h] \in rows
    <3>1. /\ rows' = rows \ {on[h]} /\ UNCHANGED <<tables, on, left, request>> /\ Goto(h, "clearing")
          /\ on[h] # None
      BY <1>19, <2>1 DEF EraseRow
    <3>2. \A v \in Worker, t \in Table : v # h /\ Writes(v, t) => Writes(v, t)'
      BY <3>1 DEF Writes, Goto
    <3>3. Writes(h, on[h].table)'
      BY <3>1 DEF Writes
    <3>4. \A t \in Table : Writes(h, t) => t = on[h].table
      BY <1>19 DEF EraseRow, Writes
    <3>5. SUFFICES ASSUME NEW t \in tables', ~Excused(t)', Plain(t)
                   PROVE  (\E q \in rows' : q.table = t) \/ \E v \in Worker : Writes(v, t)'
      BY DEF Owned, Plain
    <3>6. t \in tables /\ ~Excused(t) /\ t \in Table
      BY <3>1, <3>5 DEF Excused
    <3>7. (\E q \in rows : q.table = t) \/ \E v \in Worker : Writes(v, t)
      BY <3>5, <3>6
    <3>8. Writes(h, t) => Writes(h, t)'
      BY <3>1, <3>3, <3>4, <3>6
    <3>9. QED
      BY <3>1, <3>2, <3>3, <3>6, <3>7, <3>8
  <2>2. CASE on[h] \notin rows
    <3> SUFFICES ASSUME NEW t \in tables', ~Excused(t)', Plain(t)
                 PROVE  (\E q \in rows' : q.table = t) \/ \E v \in Worker : Writes(v, t)'
      BY DEF Owned, Plain
    <3>1. \A v \in Worker : v # h /\ Writes(v, t) => Writes(v, t)'
      BY <1>19 DEF EraseRow, Done, Goto, Writes
    <3>2. t \in tables /\ ~Excused(t) /\ rows \subseteq rows'
      BY <1>19, <2>2 DEF EraseRow, Done, Goto, Excused
    <3>3. ~Writes(h, t)
      BY <1>19, <2>2, <3>2 DEF EraseRow, Writes, Excused
    <3>4. (\E q \in rows : q.table = t) \/ \E v \in Worker : Writes(v, t)
      BY <3>2
    <3>5. QED
      BY <3>1, <3>2, <3>3, <3>4
  <2>3. QED
    BY <2>1, <2>2
<1>20. ASSUME NEW h \in Request, DropTable(h) PROVE Owned'
  BY <1>20 DEF DropTable, Goto, Writes, Excused
<1>21. ASSUME NEW h \in Request, DropTableFails(h) PROVE Owned'
  BY <1>21 DEF DropTableFails, Goto, Leave, Writes, Excused
<1>22. ASSUME NEW h \in Request, Unlist(h) PROVE Owned'
  <2> SUFFICES ASSUME NEW t \in tables', ~Excused(t)', Plain(t)
               PROVE  (\E q \in rows' : q.table = t) \/ \E v \in Worker : Writes(v, t)'
    BY DEF Owned, Plain
  <2>1. \A v \in Worker : v # h /\ Writes(v, t) => Writes(v, t)'
    BY <1>22 DEF Unlist, Done, Goto, Writes
  <2>2. t \in tables /\ ~Excused(t) /\ rows \subseteq rows'
    BY <1>22 DEF Unlist, Done, Goto, Excused
  <2>3. ~Writes(h, t)
    BY <1>22, <2>2 DEF Unlist, Writes, Excused
  <2>4. (\E q \in rows : q.table = t) \/ \E v \in Worker : Writes(v, t)
    BY <2>2
  <2>5. QED
    BY <2>1, <2>2, <2>3, <2>4
<1>23. ASSUME NEW h \in Request, SaveRemoved(h) PROVE Owned'
  BY <1>23 DEF SaveRemoved, SaveFile, Done, Goto, Writes, Excused
<1>24. ASSUME NEW h \in Request, Abort(h) PROVE Owned'
  <2> SUFFICES ASSUME NEW t \in tables', ~Excused(t)', Plain(t)
               PROVE  (\E q \in rows' : q.table = t) \/ \E v \in Worker : Writes(v, t)'
    BY DEF Owned, Plain
  <2>1. \A v \in Worker : v # h /\ Writes(v, t) => Writes(v, t)'
    BY <1>24 DEF Abort, Done, Goto, Leave, Unfinished, Writes
  <2>2. t \in tables /\ ~Excused(t) /\ rows \subseteq rows'
    BY <1>24 DEF Abort, Done, Goto, Leave, Unfinished, Excused
  <2>3. ~Writes(h, t)
    BY <1>24, <2>2 DEF Abort, Done, Goto, Leave, Unfinished, Writes, Excused
  <2>4. (\E q \in rows : q.table = t) \/ \E v \in Worker : Writes(v, t)
    BY <2>2
  <2>5. QED
    BY <2>1, <2>2, <2>3, <2>4
<1>25. ASSUME NEW h \in Request, NEW i \in Instance, CollectTables(h, i) PROVE Owned'
  BY <1>25 DEF CollectTables, RowsOf, Begin, Goto, Writes, Excused
<1>26. ASSUME NEW h \in Request, Cascade(h) PROVE Owned'
  <2>1. CASE Live(subject[h])
    <3>1. /\ rows' = rows \ RowsOf(subject[h]) /\ UNCHANGED <<tables, on, left, request>>
          /\ pc[h] = "deleting" /\ Goto(h, "purging")
      BY <1>26, <2>1 DEF Cascade
    <3>2. SUFFICES ASSUME NEW t \in tables, ~Excused(t), Plain(t)
                   PROVE  (\E q \in rows' : q.table = t) \/ \E v \in Worker : Writes(v, t)'
      BY <3>1 DEF Owned, Plain, Excused
    <3>3. \A v \in Worker : Writes(v, t) => Writes(v, t)'
      BY <3>1 DEF Writes, Goto
    <3>4. ASSUME NEW r \in RowsOf(subject[h]), r.table = t
          PROVE  \E v \in Worker : Writes(v, t)'
      <4>1. r \in rows /\ r.inst = subject[h] /\ r.inst \in Instance /\ r # None
        BY <3>4, <1>b DEF RowsOf, Layer
      <4>2. t \in doomed[h] \/ on[r.inst] = r
        BY <3>1, <3>2, <3>4, <4>1, <1>c
      <4>3. CASE t \in doomed[h]
        BY <3>1, <4>3 DEF Writes, Goto
      <4>4. CASE on[r.inst] = r
        BY <3>1, <3>3, <3>4, <4>1, <4>4 DEF Writes
      <4>5. QED
        BY <4>2, <4>3, <4>4
    <3>5. (\E q \in rows : q.table = t) \/ \E v \in Worker : Writes(v, t)
      BY <3>2
    <3>6. QED
      BY <3>1, <3>3, <3>4, <3>5
  <2>2. CASE ~Live(subject[h])
    <3> SUFFICES ASSUME NEW t \in tables', ~Excused(t)', Plain(t)
                 PROVE  (\E q \in rows' : q.table = t) \/ \E v \in Worker : Writes(v, t)'
      BY DEF Owned, Plain
    <3>1. \A v \in Worker : v # h /\ Writes(v, t) => Writes(v, t)'
      BY <1>26, <2>2 DEF Cascade, RowsOf, Done, Goto, Writes
    <3>2. t \in tables /\ ~Excused(t) /\ rows \subseteq rows'
      BY <1>26, <2>2 DEF Cascade, RowsOf, Done, Goto, Excused
    <3>3. ~Writes(h, t)
      BY <1>26, <3>2 DEF Cascade, Writes, Excused
    <3>4. (\E q \in rows : q.table = t) \/ \E v \in Worker : Writes(v, t)
      BY <3>2
    <3>5. QED
      BY <3>1, <3>2, <3>3, <3>4
  <2>3. QED
    BY <2>1, <2>2
<1>27. ASSUME NEW h \in Request, Purged(h) PROVE Owned'
  BY SMTT(30), <1>27 DEF Purged, Done, Goto, Writes, Excused
<1>28. ASSUME NEW h \in Request, NEW t \in Table, DropNext(h, t) PROVE Owned'
  BY <1>28 DEF DropNext, Dropping, Writes, Excused
<1>29. ASSUME NEW h \in Request, NEW t \in Table, DropNextFails(h, t) PROVE Owned'
  BY <1>29 DEF DropNextFails, Dropping, Leave, Writes, Excused
<1>30. ASSUME NEW h \in Request, NEW i \in Instance, NEW src \in Instance, NEW s \in Slug, CreateTemplate(h, i, s, src)
       PROVE Owned'
  BY SMTT(30), <1>30 DEF CreateTemplate, RowsOf, Begin, Goto, Writes, Excused
<1>31. ASSUME NEW h \in Request, CloneGroups(h) PROVE Owned'
  <2> SUFFICES ASSUME NEW t \in tables', ~Excused(t)', Plain(t)
               PROVE  (\E q \in rows' : q.table = t) \/ \E v \in Worker : Writes(v, t)'
    BY DEF Owned, Plain
  <2>1. \A v \in Worker : v # h /\ Writes(v, t) => Writes(v, t)'
    BY <1>31 DEF CloneGroups, Done, Goto, Writes
  <2>2. t \in tables /\ ~Excused(t) /\ rows \subseteq rows'
    BY <1>31 DEF CloneGroups, Done, Goto, Excused
  <2>3. ~Writes(h, t)
    BY <1>31, <2>2 DEF CloneGroups, Writes, Excused
  <2>4. (\E q \in rows : q.table = t) \/ \E v \in Worker : Writes(v, t)
    BY <2>2
  <2>5. QED
    BY <2>1, <2>2, <2>3, <2>4
<1>32. ASSUME NEW h \in Request, Cloned(h) PROVE Owned'
  <2> SUFFICES ASSUME NEW t \in tables', ~Excused(t)', Plain(t)
               PROVE  (\E q \in rows' : q.table = t) \/ \E v \in Worker : Writes(v, t)'
    BY DEF Owned, Plain
  <2>1. \A v \in Worker : v # h /\ Writes(v, t) => Writes(v, t)'
    BY <1>32 DEF Cloned, Done, Goto, Writes
  <2>2. t \in tables /\ ~Excused(t) /\ rows \subseteq rows'
    BY <1>32 DEF Cloned, Done, Goto, Excused
  <2>3. ~Writes(h, t)
    BY <1>32, <2>2 DEF Cloned, Writes, Excused
  <2>4. (\E q \in rows : q.table = t) \/ \E v \in Worker : Writes(v, t)
    BY <2>2
  <2>5. QED
    BY <2>1, <2>2, <2>3, <2>4
<1>33. ASSUME NEW h \in Request, NEW r \in copying[h], CloneLayer(h, r) PROVE Owned'
  <2> SUFFICES ASSUME NEW t \in tables', ~Excused(t)', Plain(t)
               PROVE  (\E q \in rows' : q.table = t) \/ \E v \in Worker : Writes(v, t)'
    BY DEF Owned, Plain
  <2>1. \A v \in Worker : v # h /\ Writes(v, t) => Writes(v, t)'
    BY <1>33 DEF CloneLayer, Creatable, Done, Goto, Leave, Writes
  <2>2. t \in tables /\ ~Excused(t) /\ rows \subseteq rows'
    BY <1>33 DEF CloneLayer, Creatable, Done, Goto, Leave, Excused
  <2>3. ~Writes(h, t)
    BY <1>33, <2>2 DEF CloneLayer, Writes, Excused
  <2>4. (\E q \in rows : q.table = t) \/ \E v \in Worker : Writes(v, t)
    BY <2>2
  <2>5. QED
    BY <2>1, <2>2, <2>3, <2>4
<1>34. QED
  BY <1>1, <1>2, <1>3, <1>4, <1>5, <1>6, <1>7, <1>8, <1>9, <1>10, <1>11, <1>12, <1>13, <1>14, <1>15,
     <1>16, <1>17, <1>18, <1>19, <1>20, <1>21, <1>22, <1>23, <1>24, <1>25, <1>26, <1>27, <1>28,
     <1>29, <1>30, <1>31, <1>32, <1>33
     DEF Step, Initialising, Making, Requesting, Deleting, Cloning

\* Every step keeps what accounts for a table.
LEMMA OrphanStep ==
  ASSUME LinkInv, LinkInv', Watched, Watched', Kept, OrphanInv, Step
  PROVE  OrphanInv'
BY CollectedStep, RowedStep, ErasingStep, ClearedStep, OwnedStep DEF OrphanInv
-----------------------------------------------------------------------------
(* The project lists what is there *)

\* An instance keeps its slug, and history grows.
Steady ==
  /\ left \subseteq left' /\ clashed \subseteq clashed'
  /\ \A i \in Instance : status[i] # "absent" => slug'[i] = slug[i] /\ status'[i] # "absent"

\* Every step is steady.
LEMMA SteadyStep ==
  ASSUME LinkInv, Step
  PROVE  Steady
<1> USE SlugAssumption DEF TypeOK, Worker, Steps, catalogue, worker, request, LinkInv,
     RequestLinked, OnLayer, Steady
<1>1. ASSUME NEW i \in Instance, NEW s \in Slug, CreateInstance(i, s) PROVE Steady
  BY <1>1 DEF CreateInstance, Goto
<1>2. ASSUME NEW i \in Instance, RecordProject(i) PROVE Steady
  BY <1>2 DEF RecordProject, Goto, Stop
<1>3. ASSUME NEW i \in Instance, CreateGroups(i) PROVE Steady
  BY <1>3 DEF CreateGroups, Goto, Stop
<1>4. ASSUME NEW i \in Instance, NEW l \in Default, LoadLayer(i, l) PROVE Steady
  BY <1>4 DEF LoadLayer, Creatable, Goto, Stop
<1>5. ASSUME NEW i \in Instance, DescribeProject(i) PROVE Steady
  BY <1>5 DEF DescribeProject, Goto
<1>6. ASSUME NEW i \in Instance, SaveDescribed(i) PROVE Steady
  BY <1>6 DEF SaveDescribed, SaveFile, Goto
<1>7. ASSUME NEW i \in Instance, Crash(i) PROVE Steady
  BY <1>7 DEF Crash, Stop, Goto, Leave, Unfinished
<1>8. ASSUME NEW i \in Instance, DeleteGroup(i) PROVE Steady
  BY <1>8 DEF DeleteGroup, Leave, RowsOf
<1>9. ASSUME NEW w \in Worker, DropOld(w) PROVE Steady
  BY <1>9 DEF DropOld, Goto
<1>10. ASSUME NEW w \in Worker, CreateTable(w) PROVE Steady
  BY <1>10 DEF CreateTable, NoTable, MadeTable, Done, Goto, Leave
<1>11. ASSUME NEW w \in Worker, TableFails(w) PROVE Steady
  BY <1>11 DEF TableFails, NoTable, Done, Goto, Leave
<1>12. ASSUME NEW w \in Worker, ReadProject(w) PROVE Steady
  BY <1>12 DEF ReadProject, Listed, Goto
<1>13. ASSUME NEW w \in Worker, AddFails(w) PROVE Steady
  BY <1>13 DEF AddFails, Listed, Goto
<1>14. ASSUME NEW w \in Worker, SaveAdded(w) PROVE Steady
  BY <1>14 DEF SaveAdded, SaveFile, Listed, Goto
<1>15. ASSUME NEW h \in Request, NEW i \in Instance, NEW l \in Extra, AskOsmLayer(h, i, l) PROVE Steady
  BY <1>15 DEF AskOsmLayer, Begin, Goto
<1>16. ASSUME NEW h \in Request, RegisterLayer(h) PROVE Steady
  BY <1>16 DEF RegisterLayer, Creatable, Done, Goto, Leave
<1>17. ASSUME NEW h \in Request, NEW r \in rows, AskResync(h, r) PROVE Steady
  BY <1>17 DEF AskResync, Begin, Goto
<1>18. ASSUME NEW h \in Request, NEW r \in rows, AskDeleteLayer(h, r) PROVE Steady
  BY <1>18 DEF AskDeleteLayer, Begin, Goto
<1>19. ASSUME NEW h \in Request, EraseRow(h) PROVE Steady
  BY <1>19 DEF EraseRow, Done, Goto
<1>20. ASSUME NEW h \in Request, DropTable(h) PROVE Steady
  BY <1>20 DEF DropTable, Goto
<1>21. ASSUME NEW h \in Request, DropTableFails(h) PROVE Steady
  BY <1>21 DEF DropTableFails, Goto, Leave
<1>22. ASSUME NEW h \in Request, Unlist(h) PROVE Steady
  BY <1>22 DEF Unlist, Done, Goto
<1>23. ASSUME NEW h \in Request, SaveRemoved(h) PROVE Steady
  BY <1>23 DEF SaveRemoved, SaveFile, Done, Goto
<1>24. ASSUME NEW h \in Request, Abort(h) PROVE Steady
  BY <1>24 DEF Abort, Done, Goto, Leave, Unfinished
<1>25. ASSUME NEW h \in Request, NEW i \in Instance, CollectTables(h, i) PROVE Steady
  BY <1>25 DEF CollectTables, RowsOf, Begin, Goto
<1>26. ASSUME NEW h \in Request, Cascade(h) PROVE Steady
  BY <1>26 DEF Cascade, RowsOf, Done, Goto
<1>27. ASSUME NEW h \in Request, Purged(h) PROVE Steady
  BY <1>27 DEF Purged, Done, Goto
<1>28. ASSUME NEW h \in Request, NEW t \in Table, DropNext(h, t) PROVE Steady
  BY <1>28 DEF DropNext, Dropping
<1>29. ASSUME NEW h \in Request, NEW t \in Table, DropNextFails(h, t) PROVE Steady
  BY <1>29 DEF DropNextFails, Dropping, Leave
<1>30. ASSUME NEW h \in Request, NEW i \in Instance, NEW src \in Instance, NEW s \in Slug, CreateTemplate(h, i, s, src)
       PROVE Steady
  BY <1>30 DEF CreateTemplate, RowsOf, Begin, Goto
<1>31. ASSUME NEW h \in Request, CloneGroups(h) PROVE Steady
  BY <1>31 DEF CloneGroups, Done, Goto
<1>32. ASSUME NEW h \in Request, Cloned(h) PROVE Steady
  BY <1>32 DEF Cloned, Done, Goto
<1>33. ASSUME NEW h \in Request, NEW r \in copying[h], CloneLayer(h, r) PROVE Steady
  BY <1>33 DEF CloneLayer, Creatable, Done, Goto, Leave
<1>34. QED
  BY <1>1, <1>2, <1>3, <1>4, <1>5, <1>6, <1>7, <1>8, <1>9, <1>10, <1>11, <1>12, <1>13, <1>14, <1>15,
     <1>16, <1>17, <1>18, <1>19, <1>20, <1>21, <1>22, <1>23, <1>24, <1>25, <1>26, <1>27, <1>28,
     <1>29, <1>30, <1>31, <1>32, <1>33
     DEF Step, Initialising, Making, Requesting, Deleting, Cloning

\* A worker that holds a project file goes on with the same file.
LEMMA FileKept ==
  ASSUME LinkInv, Steady, NEW w \in Worker,
         pc[w] \in {"saving", "describing", "rewriting", "registering"}
  PROVE  File(w) \in Slug /\ (on'[w] = on[w] => File(w)' = File(w))
<1>1. InstOf(w) \in Instance /\ status[InstOf(w)] # "absent" /\ File(w) \in Slug
  <2>1. CASE w \in Instance
    BY <2>1, Files DEF LinkInv, InstanceLinked, InstOf
  <2>2. CASE w \in Request
    BY <2>2, Files DEF LinkInv, RequestLinked, OnLayer
  <2>3. QED
    BY <2>1, <2>2 DEF Worker
<1>2. on'[w] = on[w] => InstOf(w)' = InstOf(w)
  BY DEF InstOf
<1>3. QED
  BY <1>1, <1>2 DEF Steady, File

\* A worker holds the file as it is, with its own change.
LEMMA ViewStep ==
  ASSUME LinkInv, LinkInv', Kept, Steady, ViewInv, Step
  PROVE  ViewInv'
<1>d. \A w \in Worker : pc[w] \in {"saving", "describing", "rewriting", "registering"} =>
        File(w) \in Slug /\ (on'[w] = on[w] => File(w)' = File(w))
  BY FileKept
<1> USE SlugAssumption DEF TypeOK, Worker, Steps, catalogue, worker, request, Kept, LinkInv,
     OnLayer, MakesIt, InstanceLinked, RequestLinked, ViewInv, Holding
<1>1. ASSUME NEW i \in Instance, NEW s \in Slug, CreateInstance(i, s) PROVE ViewInv'
  <2>1. UNCHANGED <<on, project, view, clashed>> /\ \A w \in Worker : w # i => pc'[w] = pc[w]
    BY <1>1 DEF CreateInstance, Goto
  <2>2. pc'[i] = "recording"
    BY <1>1 DEF CreateInstance, Goto
  <2>3. QED
    BY <2>1, <2>2, <1>d
<1>2. ASSUME NEW i \in Instance, RecordProject(i) PROVE ViewInv'
  BY <1>2 DEF RecordProject, Goto, Stop, File, InstOf
<1>3. ASSUME NEW i \in Instance, CreateGroups(i) PROVE ViewInv'
  BY <1>3 DEF CreateGroups, Goto, Stop, File, InstOf
<1>4. ASSUME NEW i \in Instance, NEW l \in Default, LoadLayer(i, l) PROVE ViewInv'
  BY <1>4 DEF LoadLayer, Creatable, Goto, Stop, File, InstOf
<1>5. ASSUME NEW i \in Instance, DescribeProject(i) PROVE ViewInv'
  BY <1>5 DEF DescribeProject, Goto, File, InstOf
<1>6. ASSUME NEW i \in Instance, SaveDescribed(i) PROVE ViewInv'
  BY <1>6 DEF SaveDescribed, SaveFile, Goto, File, InstOf
<1>7. ASSUME NEW i \in Instance, Crash(i) PROVE ViewInv'
  <2>1. /\ UNCHANGED <<project, clashed>> /\ pc'[i] = "idle"
        /\ \A w \in Worker : w # i => pc'[w] = pc[w] /\ on'[w] = on[w] /\ view'[w] = view[w]
    BY <1>7 DEF Crash, Stop, Goto, Leave, Unfinished
  <2>2. QED
    BY <2>1, <1>d
<1>8. ASSUME NEW i \in Instance, DeleteGroup(i) PROVE ViewInv'
  BY <1>8 DEF DeleteGroup, Leave, RowsOf, File, InstOf
<1>9. ASSUME NEW w \in Worker, DropOld(w) PROVE ViewInv'
  BY <1>9 DEF DropOld, Goto, File, InstOf
<1>10. ASSUME NEW w \in Worker, CreateTable(w) PROVE ViewInv'
  BY <1>10 DEF CreateTable, NoTable, MadeTable, Done, Goto, Leave, File, InstOf
<1>11. ASSUME NEW w \in Worker, TableFails(w) PROVE ViewInv'
  BY <1>11 DEF TableFails, NoTable, Done, Goto, Leave, File, InstOf
<1>12. ASSUME NEW w \in Worker, ReadProject(w) PROVE ViewInv'
  BY <1>12 DEF ReadProject, Listed, Goto, File, InstOf
<1>13. ASSUME NEW w \in Worker, AddFails(w) PROVE ViewInv'
  BY <1>13 DEF AddFails, Listed, Goto, File, InstOf
<1>14. ASSUME NEW w \in Worker, SaveAdded(w) PROVE ViewInv'
  BY <1>14 DEF SaveAdded, SaveFile, Listed, Goto, File, InstOf
<1>15. ASSUME NEW h \in Request, NEW i \in Instance, NEW l \in Extra, AskOsmLayer(h, i, l) PROVE ViewInv'
  <2>1. UNCHANGED <<project, view, clashed>> /\ \A w \in Worker : w # h => pc'[w] = pc[w] /\ on'[w] = on[w]
    BY <1>15 DEF AskOsmLayer, Begin, Goto
  <2>2. pc'[h] = "dropping"
    BY <1>15 DEF AskOsmLayer, Begin, Goto
  <2>3. QED
    BY <2>1, <2>2, <1>d
<1>16. ASSUME NEW h \in Request, RegisterLayer(h) PROVE ViewInv'
  BY <1>16 DEF RegisterLayer, Creatable, Done, Goto, Leave, File, InstOf
<1>17. ASSUME NEW h \in Request, NEW r \in rows, AskResync(h, r) PROVE ViewInv'
  BY <1>17 DEF AskResync, Begin, Goto, File, InstOf
<1>18. ASSUME NEW h \in Request, NEW r \in rows, AskDeleteLayer(h, r) PROVE ViewInv'
  BY <1>18 DEF AskDeleteLayer, Begin, Goto, File, InstOf
<1>19. ASSUME NEW h \in Request, EraseRow(h) PROVE ViewInv'
  BY <1>19 DEF EraseRow, Done, Goto, File, InstOf
<1>20. ASSUME NEW h \in Request, DropTable(h) PROVE ViewInv'
  BY <1>20 DEF DropTable, Goto, File, InstOf
<1>21. ASSUME NEW h \in Request, DropTableFails(h) PROVE ViewInv'
  BY <1>21 DEF DropTableFails, Goto, Leave, File, InstOf
<1>22. ASSUME NEW h \in Request, Unlist(h) PROVE ViewInv'
  BY SMTT(30), <1>22 DEF Unlist, Done, Goto, File, InstOf
<1>23. ASSUME NEW h \in Request, SaveRemoved(h) PROVE ViewInv'
  BY SMTT(30), <1>23 DEF SaveRemoved, SaveFile, Done, Goto, File, InstOf
<1>24. ASSUME NEW h \in Request, Abort(h) PROVE ViewInv'
  <2>1. /\ UNCHANGED <<project, clashed>> /\ pc'[h] = "idle"
        /\ \A w \in Worker : w # h => pc'[w] = pc[w] /\ on'[w] = on[w] /\ view'[w] = view[w]
    BY <1>24 DEF Abort, Done, Goto, Leave, Unfinished
  <2>2. QED
    BY <2>1, <1>d
<1>25. ASSUME NEW h \in Request, NEW i \in Instance, CollectTables(h, i) PROVE ViewInv'
  BY <1>25 DEF CollectTables, RowsOf, Begin, Goto, File, InstOf
<1>26. ASSUME NEW h \in Request, Cascade(h) PROVE ViewInv'
  BY <1>26 DEF Cascade, RowsOf, Done, Goto, File, InstOf
<1>27. ASSUME NEW h \in Request, Purged(h) PROVE ViewInv'
  BY <1>27 DEF Purged, Done, Goto, File, InstOf
<1>28. ASSUME NEW h \in Request, NEW t \in Table, DropNext(h, t) PROVE ViewInv'
  BY <1>28 DEF DropNext, Dropping, File, InstOf
<1>29. ASSUME NEW h \in Request, NEW t \in Table, DropNextFails(h, t) PROVE ViewInv'
  BY <1>29 DEF DropNextFails, Dropping, Leave, File, InstOf
<1>30. ASSUME NEW h \in Request, NEW i \in Instance, NEW src \in Instance, NEW s \in Slug, CreateTemplate(h, i, s, src)
       PROVE ViewInv'
  <2>1. UNCHANGED <<project, view, clashed>> /\ \A w \in Worker : w # h => pc'[w] = pc[w] /\ on'[w] = on[w]
    BY <1>30 DEF CreateTemplate, Begin, Goto
  <2>2. pc'[h] = "cloning"
    BY <1>30 DEF CreateTemplate, Begin, Goto
  <2>3. QED
    BY <2>1, <2>2, <1>d
<1>31. ASSUME NEW h \in Request, CloneGroups(h) PROVE ViewInv'
  BY SMTT(30), <1>31 DEF CloneGroups, Done, Goto, File, InstOf
<1>32. ASSUME NEW h \in Request, Cloned(h) PROVE ViewInv'
  BY <1>32 DEF Cloned, Done, Goto, File, InstOf
<1>33. ASSUME NEW h \in Request, NEW r \in copying[h], CloneLayer(h, r) PROVE ViewInv'
  BY SMTT(30), <1>33 DEF CloneLayer, Creatable, Done, Goto, Leave, File, InstOf
<1>34. QED
  BY <1>1, <1>2, <1>3, <1>4, <1>5, <1>6, <1>7, <1>8, <1>9, <1>10, <1>11, <1>12, <1>13, <1>14, <1>15,
     <1>16, <1>17, <1>18, <1>19, <1>20, <1>21, <1>22, <1>23, <1>24, <1>25, <1>26, <1>27, <1>28,
     <1>29, <1>30, <1>31, <1>32, <1>33
     DEF Step, Initialising, Making, Requesting, Deleting, Cloning

\* A request about to add its row has its table in the project.
LEMMA RegisteredStep ==
  ASSUME LinkInv, LinkInv', Watched, Watched', Kept, Steady, Made, ViewInv, Registered, Step
  PROVE  Registered'
<1>b. /\ \A w \in Worker : on[w] # None => on[w].table \in Table /\ on[w].inst \in Instance
      /\ \A r \in rows : r.table \in Table /\ r.inst \in Instance /\ r # None /\ status[r.inst] # "absent"
  BY SlugAssumption DEF LinkInv, TypeOK, Layer, Worker, RowsLinked, Live
<1>d. \A w \in Worker : pc[w] \in {"saving", "describing", "rewriting", "registering"} =>
        File(w) \in Slug /\ (on'[w] = on[w] => File(w)' = File(w))
  BY FileKept
<1> USE SlugAssumption DEF TypeOK, Worker, Steps, catalogue, worker, request, Kept, LinkInv,
     OnLayer, MakesIt, InstanceLinked, RequestLinked, RowsLinked, Watched, Writes, Excused, Made,
     ViewInv, Registered
<1>1. ASSUME NEW i \in Instance, NEW s \in Slug, CreateInstance(i, s) PROVE Registered'
  BY <1>1 DEF CreateInstance, Goto, File, InstOf
<1>2. ASSUME NEW i \in Instance, RecordProject(i) PROVE Registered'
  BY <1>2 DEF RecordProject, Goto, Stop, File, InstOf
<1>3. ASSUME NEW i \in Instance, CreateGroups(i) PROVE Registered'
  BY <1>3 DEF CreateGroups, Goto, Stop, File, InstOf
<1>4. ASSUME NEW i \in Instance, NEW l \in Default, LoadLayer(i, l) PROVE Registered'
  BY <1>4 DEF LoadLayer, Creatable, Goto, Stop, File, InstOf
<1>5. ASSUME NEW i \in Instance, DescribeProject(i) PROVE Registered'
  BY <1>5 DEF DescribeProject, Goto, File, InstOf
<1>6. ASSUME NEW i \in Instance, SaveDescribed(i) PROVE Registered'
  BY <1>6 DEF SaveDescribed, SaveFile, Goto, File, InstOf
<1>7. ASSUME NEW i \in Instance, Crash(i) PROVE Registered'
  BY <1>7 DEF Crash, Stop, Goto, Leave, Unfinished, File, InstOf
<1>8. ASSUME NEW i \in Instance, DeleteGroup(i) PROVE Registered'
  BY <1>8 DEF DeleteGroup, Leave, RowsOf, File, InstOf
<1>9. ASSUME NEW w \in Worker, DropOld(w) PROVE Registered'
  BY <1>9 DEF DropOld, Goto, File, InstOf
<1>10. ASSUME NEW w \in Worker, CreateTable(w) PROVE Registered'
  BY <1>10 DEF CreateTable, NoTable, MadeTable, Done, Goto, Leave, File, InstOf
<1>11. ASSUME NEW w \in Worker, TableFails(w) PROVE Registered'
  BY <1>11 DEF TableFails, NoTable, Done, Goto, Leave, File, InstOf
<1>12. ASSUME NEW w \in Worker, ReadProject(w) PROVE Registered'
  BY <1>12 DEF ReadProject, Listed, Goto, File, InstOf
<1>13. ASSUME NEW w \in Worker, AddFails(w) PROVE Registered'
  BY <1>13 DEF AddFails, Listed, Goto, File, InstOf
<1>14. ASSUME NEW w \in Worker, SaveAdded(w) PROVE Registered'
  BY <1>14 DEF SaveAdded, SaveFile, Listed, Goto, File, InstOf
<1>15. ASSUME NEW h \in Request, NEW i \in Instance, NEW l \in Extra, AskOsmLayer(h, i, l) PROVE Registered'
  BY <1>15 DEF AskOsmLayer, Begin, Goto, File, InstOf
<1>16. ASSUME NEW h \in Request, RegisterLayer(h) PROVE Registered'
  BY <1>16 DEF RegisterLayer, Creatable, Done, Goto, Leave, File, InstOf
<1>17. ASSUME NEW h \in Request, NEW r \in rows, AskResync(h, r) PROVE Registered'
  BY <1>17 DEF AskResync, Begin, Goto, File, InstOf
<1>18. ASSUME NEW h \in Request, NEW r \in rows, AskDeleteLayer(h, r) PROVE Registered'
  BY <1>18 DEF AskDeleteLayer, Begin, Goto, File, InstOf
<1>19. ASSUME NEW h \in Request, EraseRow(h) PROVE Registered'
  BY <1>19 DEF EraseRow, Done, Goto, File, InstOf
<1>20. ASSUME NEW h \in Request, DropTable(h) PROVE Registered'
  BY <1>20 DEF DropTable, Goto, File, InstOf
<1>21. ASSUME NEW h \in Request, DropTableFails(h) PROVE Registered'
  BY <1>21 DEF DropTableFails, Goto, Leave, File, InstOf
<1>22. ASSUME NEW h \in Request, Unlist(h) PROVE Registered'
  BY <1>22 DEF Unlist, Done, Goto, File, InstOf
<1>23. ASSUME NEW h \in Request, SaveRemoved(h) PROVE Registered'
  <2>1. /\ project' = [project EXCEPT ![File(h)] = view[h]] /\ pc[h] = "rewriting" /\ Done(h)
        /\ left' = left
    BY <1>23 DEF SaveRemoved, SaveFile
  <2>2. SUFFICES ASSUME NEW k \in Request, pc'[k] = "registering", NEW t, t = on[k].table, File(k) \notin clashed',
                        ~Excused(t)'
                 PROVE  t \in project'[File(k)]
    <3>1. ASSUME NEW k \in Request, pc'[k] = "registering"
          PROVE  k # h /\ pc[k] = "registering" /\ on'[k] = on[k] /\ File(k)' = File(k)
      BY <2>1, <3>1, <1>d DEF Done, Goto
    <3>2. QED
      BY <3>1 DEF Registered
  <2>3. k # h /\ pc[k] = "registering" /\ File(k) \in Slug /\ on[k] # None /\ t \in Table /\ ~Excused(t)
    BY <2>1, <2>2, <1>b, <1>d DEF Done, Goto
  <2>4. t \in project[File(k)] /\ File(k) \notin clashed
    BY <2>2, <2>3 DEF Registered, Steady
  <2>5. CASE File(k) # File(h)
    BY <2>1, <2>4, <2>5
  <2>6. CASE File(k) = File(h)
    <3>1. view[h] = project[File(h)] \ {on[h].table}
      BY <2>1, <2>4, <2>6
    <3>2. on[h].table # t
      <4>1. Writes(k, t) /\ (on[h].table = t => Writes(h, t))
        BY <2>1, <2>2, <2>3
      <4>2. QED
        BY <2>3, <4>1
    <3>3. QED
      BY <2>1, <2>3, <2>4, <2>6, <3>1, <3>2
  <2>7. QED
    BY <2>5, <2>6
<1>24. ASSUME NEW h \in Request, Abort(h) PROVE Registered'
  BY <1>24 DEF Abort, Done, Goto, Leave, Unfinished, File, InstOf
<1>25. ASSUME NEW h \in Request, NEW i \in Instance, CollectTables(h, i) PROVE Registered'
  BY <1>25 DEF CollectTables, RowsOf, Begin, Goto, File, InstOf
<1>26. ASSUME NEW h \in Request, Cascade(h) PROVE Registered'
  BY SMTT(30), <1>26 DEF Cascade, RowsOf, Done, Goto, File, InstOf
<1>27. ASSUME NEW h \in Request, Purged(h) PROVE Registered'
  BY <1>27 DEF Purged, Done, Goto, File, InstOf
<1>28. ASSUME NEW h \in Request, NEW t \in Table, DropNext(h, t) PROVE Registered'
  BY <1>28 DEF DropNext, Dropping, File, InstOf
<1>29. ASSUME NEW h \in Request, NEW t \in Table, DropNextFails(h, t) PROVE Registered'
  BY <1>29 DEF DropNextFails, Dropping, Leave, File, InstOf
<1>30. ASSUME NEW h \in Request, NEW i \in Instance, NEW src \in Instance, NEW s \in Slug, CreateTemplate(h, i, s, src)
       PROVE Registered'
  <2>1. UNCHANGED <<project, left, clashed>> /\ \A w \in Worker : w # h => pc'[w] = pc[w] /\ on'[w] = on[w]
    BY <1>30 DEF CreateTemplate, Begin, Goto
  <2>2. pc'[h] = "cloning"
    BY <1>30 DEF CreateTemplate, Begin, Goto
  <2>3. QED
    BY <2>1, <2>2, <1>d
<1>31. ASSUME NEW h \in Request, CloneGroups(h) PROVE Registered'
  BY <1>31 DEF CloneGroups, Done, Goto, File, InstOf
<1>32. ASSUME NEW h \in Request, Cloned(h) PROVE Registered'
  BY <1>32 DEF Cloned, Done, Goto, File, InstOf
<1>33. ASSUME NEW h \in Request, NEW r \in copying[h], CloneLayer(h, r) PROVE Registered'
  BY <1>33 DEF CloneLayer, Creatable, Done, Goto, Leave, File, InstOf
<1>34. QED
  BY <1>1, <1>2, <1>3, <1>4, <1>5, <1>6, <1>7, <1>8, <1>9, <1>10, <1>11, <1>12, <1>13, <1>14, <1>15,
     <1>16, <1>17, <1>18, <1>19, <1>20, <1>21, <1>22, <1>23, <1>24, <1>25, <1>26, <1>27, <1>28,
     <1>29, <1>30, <1>31, <1>32, <1>33
     DEF Step, Initialising, Making, Requesting, Deleting, Cloning

\* A row keeps to its schema.
LEMMA SchemasStep ==
  ASSUME LinkInv, LinkInv', Watched, Watched', Kept, Steady, Schemas, Step
  PROVE  Schemas'
<1>a. \A h \in Request : \A r \in copying[h] : CloneLayer(h, r) /\ Creatable(subject[h], r.layer) =>
        \E c \in Layer : Clone(h, r, c)
  BY CloneExcused
<1>c. \A r \in Layer : status[r.inst] # "absent" /\ OwnSchema(r) => OwnSchema(r)'
  BY DEF OwnSchema, Layer, Excused, Kept, Steady
<1>e. /\ \A r \in rows : r \in Layer /\ status[r.inst] # "absent"
      /\ \A w \in Request : on[w] # None => on[w] \in Layer /\ status[on[w].inst] # "absent"
  BY SlugAssumption DEF LinkInv, TypeOK, Layer, Worker, RowsLinked, RequestLinked, Live, OnLayer
<1> USE SlugAssumption DEF TypeOK, Worker, Steps, catalogue, worker, request, Kept, LinkInv,
     OnLayer, MakesIt, InstanceLinked, RequestLinked, RowsLinked, Schemas, Live
<1>1. ASSUME NEW i \in Instance, NEW s \in Slug, CreateInstance(i, s) PROVE Schemas'
  <2>1. rows' \subseteq rows /\ \A k \in Request : on'[k] = on[k] \/ on'[k] = None
    BY <1>1, SlugAssumption DEF CreateInstance, Goto
  <2>2. QED
    BY <2>1, <1>c, <1>e
<1>2. ASSUME NEW i \in Instance, RecordProject(i) PROVE Schemas'
  <2>1. rows' \subseteq rows /\ \A k \in Request : on'[k] = on[k] \/ on'[k] = None
    BY <1>2, SlugAssumption DEF RecordProject, Goto, Stop
  <2>2. QED
    BY <2>1, <1>c, <1>e
<1>3. ASSUME NEW i \in Instance, CreateGroups(i) PROVE Schemas'
  <2>1. rows' \subseteq rows /\ \A k \in Request : on'[k] = on[k] \/ on'[k] = None
    BY <1>3, SlugAssumption DEF CreateGroups, Goto, Stop
  <2>2. QED
    BY <2>1, <1>c, <1>e
<1>4. ASSUME NEW i \in Instance, NEW l \in Default, LoadLayer(i, l) PROVE Schemas'
  <2>1. CASE Creatable(i, l)
    <3>0. PICK r : r = [inst |-> i, layer |-> l, table |-> TableFor(i, l)]
      OBVIOUS
    <3>1. rows' = rows \cup {r} /\ \A k \in Request : on'[k] = on[k]
      BY <1>4, <2>1, <3>0, SlugAssumption DEF LoadLayer
    <3>2. r.table[1] = slug[i] /\ r.inst = i /\ slug' = slug
      BY <1>4, NewRow, <3>0 DEF LoadLayer
    <3>3. OwnSchema(r)'
      BY <3>2 DEF OwnSchema
    <3>4. QED
      BY <3>1, <3>3, <1>c, <1>e
  <2>2. CASE ~Creatable(i, l)
    BY <1>4, <2>2, <1>c, <1>e, SlugAssumption DEF LoadLayer, Goto, Stop
  <2>3. QED
    BY <2>1, <2>2
<1>5. ASSUME NEW i \in Instance, DescribeProject(i) PROVE Schemas'
  <2>1. rows' \subseteq rows /\ \A k \in Request : on'[k] = on[k] \/ on'[k] = None
    BY <1>5, SlugAssumption DEF DescribeProject, Goto
  <2>2. QED
    BY <2>1, <1>c, <1>e
<1>6. ASSUME NEW i \in Instance, SaveDescribed(i) PROVE Schemas'
  <2>1. rows' \subseteq rows /\ \A k \in Request : on'[k] = on[k] \/ on'[k] = None
    BY <1>6, SlugAssumption DEF SaveDescribed, SaveFile, Goto
  <2>2. QED
    BY <2>1, <1>c, <1>e
<1>7. ASSUME NEW i \in Instance, Crash(i) PROVE Schemas'
  <2>1. rows' \subseteq rows /\ \A k \in Request : on'[k] = on[k] \/ on'[k] = None
    BY <1>7, SlugAssumption DEF Crash, Stop, Goto, Leave, Unfinished
  <2>2. QED
    BY <2>1, <1>c, <1>e
<1>8. ASSUME NEW i \in Instance, DeleteGroup(i) PROVE Schemas'
  <2>1. rows' \subseteq rows /\ \A k \in Request : on'[k] = on[k] \/ on'[k] = None
    BY <1>8, SlugAssumption DEF DeleteGroup, Leave, RowsOf
  <2>2. QED
    BY <2>1, <1>c, <1>e
<1>9. ASSUME NEW w \in Worker, DropOld(w) PROVE Schemas'
  <2>1. rows' \subseteq rows /\ \A k \in Request : on'[k] = on[k] \/ on'[k] = None
    BY <1>9 DEF DropOld, Goto
  <2>2. QED
    BY <2>1, <1>c, <1>e
<1>10. ASSUME NEW w \in Worker, CreateTable(w) PROVE Schemas'
  <2>1. rows' \subseteq rows /\ \A k \in Request : on'[k] = on[k] \/ on'[k] = None
    BY <1>10 DEF CreateTable, NoTable, MadeTable, Done, Goto, Leave
  <2>2. QED
    BY <2>1, <1>c, <1>e
<1>11. ASSUME NEW w \in Worker, TableFails(w) PROVE Schemas'
  <2>1. rows' \subseteq rows /\ \A k \in Request : on'[k] = on[k] \/ on'[k] = None
    BY <1>11 DEF TableFails, NoTable, Done, Goto, Leave
  <2>2. QED
    BY <2>1, <1>c, <1>e
<1>12. ASSUME NEW w \in Worker, ReadProject(w) PROVE Schemas'
  <2>1. rows' \subseteq rows /\ \A k \in Request : on'[k] = on[k] \/ on'[k] = None
    BY <1>12 DEF ReadProject, Listed, Goto
  <2>2. QED
    BY <2>1, <1>c, <1>e
<1>13. ASSUME NEW w \in Worker, AddFails(w) PROVE Schemas'
  <2>1. rows' \subseteq rows /\ \A k \in Request : on'[k] = on[k] \/ on'[k] = None
    BY <1>13 DEF AddFails, Listed, Goto
  <2>2. QED
    BY <2>1, <1>c, <1>e
<1>14. ASSUME NEW w \in Worker, SaveAdded(w) PROVE Schemas'
  <2>1. rows' \subseteq rows /\ \A k \in Request : on'[k] = on[k] \/ on'[k] = None
    BY <1>14 DEF SaveAdded, SaveFile, Listed, Goto
  <2>2. QED
    BY <2>1, <1>c, <1>e
<1>15. ASSUME NEW h \in Request, NEW i \in Instance, NEW l \in Extra, AskOsmLayer(h, i, l) PROVE Schemas'
  <2>1. PICK r : r = [inst |-> i, layer |-> l, table |-> TableFor(i, l)]
    OBVIOUS
  <2>2. r.table[1] = slug[i] /\ r.inst = i /\ slug' = slug /\ rows' = rows
    BY <1>15, <2>1, NewRow DEF AskOsmLayer
  <2>3. on' = [on EXCEPT ![h] = r]
    BY <1>15, <2>1 DEF AskOsmLayer, Begin
  <2>4. OwnSchema(r)'
    BY <2>2 DEF OwnSchema
  <2>5. \A k \in Request : on'[k] = on[k] \/ on'[k] = r
    BY <2>3
  <2>6. QED
    BY <2>2, <2>4, <2>5, <1>c, <1>e
<1>16. ASSUME NEW h \in Request, RegisterLayer(h) PROVE Schemas'
  <2>1. rows' \subseteq rows \cup {on[h]} /\ on' = [on EXCEPT ![h] = None] /\ on[h] # None
    BY <1>16 DEF RegisterLayer, Done
  <2>2. \A k \in Request : on'[k] = on[k] \/ on'[k] = None
    BY <2>1
  <2>3. \A r \in rows' : r \in Layer /\ status[r.inst] # "absent" /\ OwnSchema(r)
    BY <2>1, <1>e
  <2>4. QED
    BY <2>2, <2>3, <1>c, <1>e
<1>17. ASSUME NEW h \in Request, NEW r \in rows, AskResync(h, r) PROVE Schemas'
  <2>1. on' = [on EXCEPT ![h] = r] /\ rows' = rows
    BY <1>17 DEF AskResync, Begin
  <2>2. \A k \in Request : on'[k] = on[k] \/ on'[k] = r
    BY <2>1
  <2>3. OwnSchema(r)'
    BY <1>c, <1>e
  <2>4. ASSUME NEW k \in Request, on'[k] # None PROVE OwnSchema(on[k])'
    <3>1. CASE on'[k] = on[k]
      BY <2>4, <3>1, <1>c, <1>e
    <3>2. CASE on'[k] = r
      BY <2>3, <3>2 DEF OwnSchema, Excused
    <3>3. QED
      BY <2>2, <3>1, <3>2
  <2>5. QED
    BY <2>1, <2>4, <1>c, <1>e
<1>18. ASSUME NEW h \in Request, NEW r \in rows, AskDeleteLayer(h, r) PROVE Schemas'
  <2>1. on' = [on EXCEPT ![h] = r] /\ rows' = rows
    BY <1>18 DEF AskDeleteLayer, Begin
  <2>2. \A k \in Request : on'[k] = on[k] \/ on'[k] = r
    BY <2>1
  <2>3. OwnSchema(r)'
    BY <1>c, <1>e
  <2>4. ASSUME NEW k \in Request, on'[k] # None PROVE OwnSchema(on[k])'
    <3>1. CASE on'[k] = on[k]
      BY <2>4, <3>1, <1>c, <1>e
    <3>2. CASE on'[k] = r
      BY <2>3, <3>2 DEF OwnSchema, Excused
    <3>3. QED
      BY <2>2, <3>1, <3>2
  <2>5. QED
    BY <2>1, <2>4, <1>c, <1>e
<1>19. ASSUME NEW h \in Request, EraseRow(h) PROVE Schemas'
  <2>1. rows' \subseteq rows /\ \A k \in Request : on'[k] = on[k] \/ on'[k] = None
    BY <1>19 DEF EraseRow, Done, Goto
  <2>2. QED
    BY <2>1, <1>c, <1>e
<1>20. ASSUME NEW h \in Request, DropTable(h) PROVE Schemas'
  <2>1. rows' \subseteq rows /\ \A k \in Request : on'[k] = on[k] \/ on'[k] = None
    BY <1>20 DEF DropTable, Goto
  <2>2. QED
    BY <2>1, <1>c, <1>e
<1>21. ASSUME NEW h \in Request, DropTableFails(h) PROVE Schemas'
  <2>1. rows' \subseteq rows /\ \A k \in Request : on'[k] = on[k] \/ on'[k] = None
    BY <1>21 DEF DropTableFails, Goto, Leave
  <2>2. QED
    BY <2>1, <1>c, <1>e
<1>22. ASSUME NEW h \in Request, Unlist(h) PROVE Schemas'
  <2>1. rows' \subseteq rows /\ \A k \in Request : on'[k] = on[k] \/ on'[k] = None
    BY <1>22 DEF Unlist, Done, Goto
  <2>2. QED
    BY <2>1, <1>c, <1>e
<1>23. ASSUME NEW h \in Request, SaveRemoved(h) PROVE Schemas'
  <2>1. rows' \subseteq rows /\ \A k \in Request : on'[k] = on[k] \/ on'[k] = None
    BY <1>23 DEF SaveRemoved, SaveFile, Done, Goto
  <2>2. QED
    BY <2>1, <1>c, <1>e
<1>24. ASSUME NEW h \in Request, Abort(h) PROVE Schemas'
  <2>1. rows' \subseteq rows /\ \A k \in Request : on'[k] = on[k] \/ on'[k] = None
    BY <1>24 DEF Abort, Done, Goto, Leave, Unfinished
  <2>2. QED
    BY <2>1, <1>c, <1>e
<1>25. ASSUME NEW h \in Request, NEW i \in Instance, CollectTables(h, i) PROVE Schemas'
  <2>1. rows' \subseteq rows /\ \A k \in Request : on'[k] = on[k] \/ on'[k] = None
    BY <1>25 DEF CollectTables, RowsOf, Begin, Goto
  <2>2. QED
    BY <2>1, <1>c, <1>e
<1>26. ASSUME NEW h \in Request, Cascade(h) PROVE Schemas'
  <2>1. rows' \subseteq rows /\ \A k \in Request : on'[k] = on[k] \/ on'[k] = None
    BY <1>26 DEF Cascade, RowsOf, Done, Goto
  <2>2. QED
    BY <2>1, <1>c, <1>e
<1>27. ASSUME NEW h \in Request, Purged(h) PROVE Schemas'
  <2>1. rows' \subseteq rows /\ \A k \in Request : on'[k] = on[k] \/ on'[k] = None
    BY <1>27 DEF Purged, Done, Goto
  <2>2. QED
    BY <2>1, <1>c, <1>e
<1>28. ASSUME NEW h \in Request, NEW t \in Table, DropNext(h, t) PROVE Schemas'
  <2>1. rows' \subseteq rows /\ \A k \in Request : on'[k] = on[k] \/ on'[k] = None
    BY <1>28 DEF DropNext, Dropping
  <2>2. QED
    BY <2>1, <1>c, <1>e
<1>29. ASSUME NEW h \in Request, NEW t \in Table, DropNextFails(h, t) PROVE Schemas'
  <2>1. rows' \subseteq rows /\ \A k \in Request : on'[k] = on[k] \/ on'[k] = None
    BY <1>29 DEF DropNextFails, Dropping, Leave
  <2>2. QED
    BY <2>1, <1>c, <1>e
<1>30. ASSUME NEW h \in Request, NEW i \in Instance, NEW src \in Instance, NEW s \in Slug, CreateTemplate(h, i, s, src)
       PROVE Schemas'
  <2>1. rows' \subseteq rows /\ \A k \in Request : on'[k] = on[k] \/ on'[k] = None
    BY <1>30 DEF CreateTemplate, RowsOf, Begin, Goto
  <2>2. QED
    BY <2>1, <1>c, <1>e
<1>31. ASSUME NEW h \in Request, CloneGroups(h) PROVE Schemas'
  <2>1. rows' \subseteq rows /\ \A k \in Request : on'[k] = on[k] \/ on'[k] = None
    BY <1>31 DEF CloneGroups, Done, Goto
  <2>2. QED
    BY <2>1, <1>c, <1>e
<1>32. ASSUME NEW h \in Request, Cloned(h) PROVE Schemas'
  <2>1. rows' \subseteq rows /\ \A k \in Request : on'[k] = on[k] \/ on'[k] = None
    BY <1>32 DEF Cloned, Done, Goto
  <2>2. QED
    BY <2>1, <1>c, <1>e
<1>33. ASSUME NEW h \in Request, NEW r \in copying[h], CloneLayer(h, r) PROVE Schemas'
  <2>1. CASE Creatable(subject[h], r.layer)
    <3>1. PICK c \in Layer : Clone(h, r, c)
      BY <1>33, <2>1, <1>a
    <3>2. /\ rows' = rows \cup {c} /\ c.table = r.table /\ Excused(r.table)'
          /\ UNCHANGED <<pc, on, subject>>
      BY <1>33, <2>1, <3>1 DEF CloneLayer, Clone
    <3>3. OwnSchema(c)'
      BY <3>2 DEF OwnSchema
    <3>4. QED
      BY <3>2, <3>3, <1>c, <1>e
  <2>2. CASE ~Creatable(subject[h], r.layer)
    BY <1>33, <2>2, <1>c, <1>e DEF CloneLayer, Done, Goto
  <2>3. QED
    BY <2>1, <2>2
<1>34. QED
  BY <1>1, <1>2, <1>3, <1>4, <1>5, <1>6, <1>7, <1>8, <1>9, <1>10, <1>11, <1>12, <1>13, <1>14, <1>15,
     <1>16, <1>17, <1>18, <1>19, <1>20, <1>21, <1>22, <1>23, <1>24, <1>25, <1>26, <1>27, <1>28,
     <1>29, <1>30, <1>31, <1>32, <1>33
     DEF Step, Initialising, Making, Requesting, Deleting, Cloning

\* A project file is an instance's.
LEMMA ServedStep ==
  ASSUME LinkInv, LinkInv', Steady, Served, Step
  PROVE  Served'
<1>c. ASSUME NEW j \in Instance, slug[j] \in Slug PROVE slug'[j] = slug[j]
  BY <1>c DEF LinkInv, InstanceLinked, Steady
<1>d. \A w \in Worker : pc[w] \in {"saving", "describing", "rewriting"} =>
        \E j \in Instance : slug[j] = File(w) /\ status[j] # "absent"
  BY Files DEF LinkInv, InstanceLinked, RequestLinked, OnLayer, Worker, File, InstOf
<1> USE SlugAssumption DEF catalogue, worker, request, LinkInv, TypeOK, Served
<1>1. ASSUME NEW i \in Instance, NEW s \in Slug, CreateInstance(i, s) PROVE Served'
  <2>1. project' = project
    BY <1>1 DEF CreateInstance, Goto
  <2>2. QED
    BY <2>1, <1>c
<1>2. ASSUME NEW i \in Instance, RecordProject(i) PROVE Served'
  <2>1. project' = project
    BY <1>2 DEF RecordProject, Goto, Stop
  <2>2. QED
    BY <2>1, <1>c
<1>3. ASSUME NEW i \in Instance, CreateGroups(i) PROVE Served'
  <2>1. project' = project
    BY <1>3 DEF CreateGroups, Goto, Stop
  <2>2. QED
    BY <2>1, <1>c
<1>4. ASSUME NEW i \in Instance, NEW l \in Default, LoadLayer(i, l) PROVE Served'
  <2>1. project' = project
    BY <1>4 DEF LoadLayer, Creatable, Goto, Stop
  <2>2. QED
    BY <2>1, <1>c
<1>5. ASSUME NEW i \in Instance, DescribeProject(i) PROVE Served'
  <2>1. project' = project
    BY <1>5 DEF DescribeProject, Goto
  <2>2. QED
    BY <2>1, <1>c
<1>6. ASSUME NEW i \in Instance, SaveDescribed(i) PROVE Served'
  <2>1. project' = [project EXCEPT ![File(i)] = view[i]]
    BY <1>6 DEF SaveDescribed, SaveFile
  <2>2. \E j \in Instance : slug[j] = File(i) /\ status[j] # "absent"
    BY <1>6, <1>d DEF SaveDescribed, Worker
  <2>3. QED
    BY <2>1, <2>2, <1>c
<1>7. ASSUME NEW i \in Instance, Crash(i) PROVE Served'
  <2>1. project' = project
    BY <1>7 DEF Crash, Stop, Goto, Leave, Unfinished
  <2>2. QED
    BY <2>1, <1>c
<1>8. ASSUME NEW i \in Instance, DeleteGroup(i) PROVE Served'
  <2>1. project' = project
    BY <1>8 DEF DeleteGroup, Leave, RowsOf
  <2>2. QED
    BY <2>1, <1>c
<1>9. ASSUME NEW w \in Worker, DropOld(w) PROVE Served'
  <2>1. project' = project
    BY <1>9 DEF DropOld, Goto
  <2>2. QED
    BY <2>1, <1>c
<1>10. ASSUME NEW w \in Worker, CreateTable(w) PROVE Served'
  <2>1. project' = project
    BY <1>10 DEF CreateTable, NoTable, MadeTable, Done, Goto, Leave
  <2>2. QED
    BY <2>1, <1>c
<1>11. ASSUME NEW w \in Worker, TableFails(w) PROVE Served'
  <2>1. project' = project
    BY <1>11 DEF TableFails, NoTable, Done, Goto, Leave
  <2>2. QED
    BY <2>1, <1>c
<1>12. ASSUME NEW w \in Worker, ReadProject(w) PROVE Served'
  <2>1. project' = project
    BY <1>12 DEF ReadProject, Listed, Goto
  <2>2. QED
    BY <2>1, <1>c
<1>13. ASSUME NEW w \in Worker, AddFails(w) PROVE Served'
  <2>1. project' = project
    BY <1>13 DEF AddFails, Listed, Goto
  <2>2. QED
    BY <2>1, <1>c
<1>14. ASSUME NEW w \in Worker, SaveAdded(w) PROVE Served'
  <2>1. project' = [project EXCEPT ![File(w)] = view[w]]
    BY <1>14 DEF SaveAdded, SaveFile
  <2>2. \E j \in Instance : slug[j] = File(w) /\ status[j] # "absent"
    BY <1>14, <1>d DEF SaveAdded, Worker
  <2>3. QED
    BY <2>1, <2>2, <1>c
<1>15. ASSUME NEW h \in Request, NEW i \in Instance, NEW l \in Extra, AskOsmLayer(h, i, l) PROVE Served'
  <2>1. project' = project
    BY <1>15 DEF AskOsmLayer, Begin, Goto
  <2>2. QED
    BY <2>1, <1>c
<1>16. ASSUME NEW h \in Request, RegisterLayer(h) PROVE Served'
  <2>1. project' = project
    BY <1>16 DEF RegisterLayer, Creatable, Done, Goto, Leave
  <2>2. QED
    BY <2>1, <1>c
<1>17. ASSUME NEW h \in Request, NEW r \in rows, AskResync(h, r) PROVE Served'
  <2>1. project' = project
    BY <1>17 DEF AskResync, Begin, Goto
  <2>2. QED
    BY <2>1, <1>c
<1>18. ASSUME NEW h \in Request, NEW r \in rows, AskDeleteLayer(h, r) PROVE Served'
  <2>1. project' = project
    BY <1>18 DEF AskDeleteLayer, Begin, Goto
  <2>2. QED
    BY <2>1, <1>c
<1>19. ASSUME NEW h \in Request, EraseRow(h) PROVE Served'
  <2>1. project' = project
    BY <1>19 DEF EraseRow, Done, Goto
  <2>2. QED
    BY <2>1, <1>c
<1>20. ASSUME NEW h \in Request, DropTable(h) PROVE Served'
  <2>1. project' = project
    BY <1>20 DEF DropTable, Goto
  <2>2. QED
    BY <2>1, <1>c
<1>21. ASSUME NEW h \in Request, DropTableFails(h) PROVE Served'
  <2>1. project' = project
    BY <1>21 DEF DropTableFails, Goto, Leave
  <2>2. QED
    BY <2>1, <1>c
<1>22. ASSUME NEW h \in Request, Unlist(h) PROVE Served'
  <2>1. project' = project
    BY <1>22 DEF Unlist, Done, Goto
  <2>2. QED
    BY <2>1, <1>c
<1>23. ASSUME NEW h \in Request, SaveRemoved(h) PROVE Served'
  <2>1. project' = [project EXCEPT ![File(h)] = view[h]]
    BY <1>23 DEF SaveRemoved, SaveFile
  <2>2. \E j \in Instance : slug[j] = File(h) /\ status[j] # "absent"
    BY <1>23, <1>d DEF SaveRemoved, Worker
  <2>3. QED
    BY <2>1, <2>2, <1>c
<1>24. ASSUME NEW h \in Request, Abort(h) PROVE Served'
  <2>1. project' = project
    BY <1>24 DEF Abort, Done, Goto, Leave, Unfinished
  <2>2. QED
    BY <2>1, <1>c
<1>25. ASSUME NEW h \in Request, NEW i \in Instance, CollectTables(h, i) PROVE Served'
  <2>1. project' = project
    BY <1>25 DEF CollectTables, RowsOf, Begin, Goto
  <2>2. QED
    BY <2>1, <1>c
<1>26. ASSUME NEW h \in Request, Cascade(h) PROVE Served'
  <2>1. project' = project
    BY <1>26 DEF Cascade, RowsOf, Done, Goto
  <2>2. QED
    BY <2>1, <1>c
<1>27. ASSUME NEW h \in Request, Purged(h) PROVE Served'
  <2>1. project' = project
    BY <1>27 DEF Purged, Done, Goto
  <2>2. QED
    BY <2>1, <1>c
<1>28. ASSUME NEW h \in Request, NEW t \in Table, DropNext(h, t) PROVE Served'
  <2>1. project' = project
    BY <1>28 DEF DropNext, Dropping
  <2>2. QED
    BY <2>1, <1>c
<1>29. ASSUME NEW h \in Request, NEW t \in Table, DropNextFails(h, t) PROVE Served'
  <2>1. project' = project
    BY <1>29 DEF DropNextFails, Dropping, Leave
  <2>2. QED
    BY <2>1, <1>c
<1>30. ASSUME NEW h \in Request, NEW i \in Instance, NEW src \in Instance, NEW s \in Slug, CreateTemplate(h, i, s, src)
       PROVE Served'
  <2>1. project' = project
    BY <1>30 DEF CreateTemplate, RowsOf, Begin, Goto
  <2>2. QED
    BY <2>1, <1>c
<1>31. ASSUME NEW h \in Request, CloneGroups(h) PROVE Served'
  <2>1. project' = project
    BY <1>31 DEF CloneGroups, Done, Goto
  <2>2. QED
    BY <2>1, <1>c
<1>32. ASSUME NEW h \in Request, Cloned(h) PROVE Served'
  <2>1. project' = project
    BY <1>32 DEF Cloned, Done, Goto
  <2>2. QED
    BY <2>1, <1>c
<1>33. ASSUME NEW h \in Request, NEW r \in copying[h], CloneLayer(h, r) PROVE Served'
  <2>1. project' = project
    BY <1>33 DEF CloneLayer, Creatable, Done, Goto, Leave
  <2>2. QED
    BY <2>1, <1>c
<1>34. QED
  BY <1>1, <1>2, <1>3, <1>4, <1>5, <1>6, <1>7, <1>8, <1>9, <1>10, <1>11, <1>12, <1>13, <1>14, <1>15,
     <1>16, <1>17, <1>18, <1>19, <1>20, <1>21, <1>22, <1>23, <1>24, <1>25, <1>26, <1>27, <1>28,
     <1>29, <1>30, <1>31, <1>32, <1>33
     DEF Step, Initialising, Making, Requesting, Deleting, Cloning
\* What a step that leaves the projects alone may do to the writers of a row
Bystanders(w) ==
  \A v \in Worker, t \in Table : v # w /\ Writes(v, t) => Writes(v, t)'
Keeps(w) ==
  \A r \in rows : r.layer \in Extra /\ Writes(w, r.table) =>
    r \notin rows' \/ Writes(w, r.table)' \/ Excused(r.table)'
Adds ==
  \A r \in rows' \ rows : r.layer \in Extra =>
    Excused(r.table)' \/ slug'[r.inst] \in clashed' \/ r.table \in project[slug'[r.inst]]

\* A row comes to be without a worker only with its table listed.
LEMMA ListingFrame ==
  ASSUME LinkInv, Kept, Steady, Listing, project' = project, NEW w \in Worker,
         Bystanders(w), Keeps(w), Adds
  PROVE  Listing'
<1> SUFFICES ASSUME NEW r \in rows', r.layer \in Extra, (r.table[1] = slug[r.inst])', slug'[r.inst] \notin clashed',
                    ~Excused(r.table)', \A v \in Worker : ~Writes(v, r.table)'
             PROVE  r.table \in project'[slug'[r.inst]]
  BY DEF Listing
<1>1. CASE r \in rows
  <2>1. r.table \in Table /\ r.inst \in Instance /\ status[r.inst] # "absent"
    BY <1>1 DEF LinkInv, TypeOK, Layer, RowsLinked, Live
  <2>2. ~Excused(r.table) /\ slug'[r.inst] = slug[r.inst] /\ slug[r.inst] \notin clashed
    BY <2>1 DEF Excused, Kept, Steady
  <2>3. \A v \in Worker : ~Writes(v, r.table)
    BY <1>1, <2>1 DEF Bystanders, Keeps
  <2>4. QED
    BY <1>1, <2>2, <2>3 DEF Listing
<1>2. CASE r \notin rows
  BY <1>2 DEF Adds
<1>3. QED
  BY <1>1, <1>2

\* A script that writes a project, with the change it made to what it read
Saving(v) ==
  /\ pc[v] \in {"saving", "describing", "rewriting"}
  /\ project' = [project EXCEPT ![File(v)] = view[v]]
  /\ pc[v] = "saving" => on'[v] = on[v]

\* It adds or removes the table it is about, and nothing else.
LEMMA Saved ==
  ASSUME LinkInv, Steady, ViewInv, NEW v \in Worker, Saving(v), NEW s \in Slug, s \notin clashed', NEW t
  PROVE  /\ t \in project[s] /\ ~(pc[v] = "rewriting" /\ on[v].table = t) => t \in project'[s]
         /\ t \in project'[s] => t \in project[s] \/ (pc[v] = "saving" /\ on[v].table = t)
         /\ pc[v] = "rewriting" /\ on[v].table = t /\ s = File(v) => t \notin project'[s]
<1>1. File(v) \in Slug /\ project \in [Slug -> SUBSET Table] /\ s \notin clashed
  BY FileKept DEF Saving, LinkInv, TypeOK, Steady
<1>2. CASE s # File(v)
  BY <1>1, <1>2 DEF Saving
<1>3. CASE s = File(v)
  BY <1>1, <1>3 DEF Saving, ViewInv
<1>4. QED
  BY <1>2, <1>3

\* A row at which no worker is has its table in the project.
LEMMA ListingStep ==
  ASSUME LinkInv, LinkInv', Watched, Watched', Kept, Steady, Erased, ViewInv, ListInv, Step
  PROVE  Listing'
<1>a. \A h \in Request : \A r \in copying[h] : CloneLayer(h, r) /\ Creatable(subject[h], r.layer) =>
        \E c \in Layer : Clone(h, r, c)
  BY CloneExcused
<1>b. /\ \A w \in Worker : on[w] # None => on[w].table \in Table /\ on[w].inst \in Instance
      /\ \A r \in rows : r.table \in Table /\ r.inst \in Instance /\ r # None
                      /\ status[r.inst] # "absent" /\ slug[r.inst] \in Slug
  BY SlugAssumption DEF LinkInv, TypeOK, Layer, Worker, RowsLinked, InstanceLinked, Live
<1>d. \A w \in Worker : pc[w] \in {"saving", "describing", "rewriting", "registering"} =>
        File(w) \in Slug /\ (on'[w] = on[w] => File(w)' = File(w))
  BY FileKept
<1>f. \A w \in Worker : project' = project /\ Bystanders(w) /\ Keeps(w) /\ Adds => Listing'
  BY ListingFrame DEF ListInv
<1>s. \A v \in Worker, s \in Slug : Saving(v) /\ s \notin clashed' =>
        \A t : /\ t \in project[s] /\ ~(pc[v] = "rewriting" /\ on[v].table = t) => t \in project'[s]
               /\ t \in project'[s] => t \in project[s] \/ (pc[v] = "saving" /\ on[v].table = t)
               /\ pc[v] = "rewriting" /\ on[v].table = t /\ s = File(v) => t \notin project'[s]
  BY Saved
<1> USE SlugAssumption DEF TypeOK, Worker, Steps, catalogue, worker, request, Kept, LinkInv,
     OnLayer, MakesIt, InstanceLinked, RequestLinked, ListInv
<1>1. ASSUME NEW i \in Instance, NEW s \in Slug, CreateInstance(i, s) PROVE Listing'
  <2>1. project' = project /\ Bystanders(i)
    BY <1>1 DEF CreateInstance, Goto, Bystanders, Writes
  <2>2. Keeps(i)
    BY <1>1, <1>b DEF CreateInstance, Goto, Keeps, Writes, Excused, Watched, Erased
  <2>3. Adds
    BY <1>1 DEF CreateInstance, Goto, Adds
  <2>4. QED
    BY <2>1, <2>2, <2>3, <1>f
<1>2. ASSUME NEW i \in Instance, RecordProject(i) PROVE Listing'
  <2>1. project' = project /\ Bystanders(i)
    BY <1>2 DEF RecordProject, Goto, Stop, Bystanders, Writes
  <2>2. Keeps(i)
    BY <1>2, <1>b DEF RecordProject, Goto, Stop, Keeps, Writes, Excused, Watched, Erased
  <2>3. Adds
    BY <1>2 DEF RecordProject, Goto, Stop, Adds
  <2>4. QED
    BY <2>1, <2>2, <2>3, <1>f
<1>3. ASSUME NEW i \in Instance, CreateGroups(i) PROVE Listing'
  <2>1. project' = project /\ Bystanders(i)
    BY <1>3 DEF CreateGroups, Goto, Stop, Bystanders, Writes
  <2>2. Keeps(i)
    BY <1>3, <1>b DEF CreateGroups, Goto, Stop, Keeps, Writes, Excused, Watched, Erased
  <2>3. Adds
    BY <1>3 DEF CreateGroups, Goto, Stop, Adds
  <2>4. QED
    BY <2>1, <2>2, <2>3, <1>f
<1>4. ASSUME NEW i \in Instance, NEW l \in Default, LoadLayer(i, l) PROVE Listing'
  <2>1. project' = project /\ Bystanders(i)
    BY <1>4 DEF LoadLayer, Creatable, Goto, Stop, Bystanders, Writes
  <2>2. Keeps(i)
    BY <1>4, <1>b DEF LoadLayer, Creatable, Goto, Stop, Keeps, Writes, Excused, Watched, Erased
  <2>3. Adds
    BY <1>4, NewRow DEF LoadLayer, Adds
  <2>4. QED
    BY <2>1, <2>2, <2>3, <1>f
<1>5. ASSUME NEW i \in Instance, DescribeProject(i) PROVE Listing'
  <2>1. project' = project /\ Bystanders(i)
    BY <1>5 DEF DescribeProject, Goto, Bystanders, Writes
  <2>2. Keeps(i)
    BY <1>5, <1>b DEF DescribeProject, Goto, Keeps, Writes, Excused, Watched, Erased
  <2>3. Adds
    BY <1>5 DEF DescribeProject, Goto, Adds
  <2>4. QED
    BY <2>1, <2>2, <2>3, <1>f
<1>6. ASSUME NEW i \in Instance, SaveDescribed(i) PROVE Listing'
  <2>1. Saving(i) /\ rows' = rows /\ slug' = slug /\ left' = left
    BY <1>6 DEF SaveDescribed, SaveFile, Saving
  <2>2. Bystanders(i)
    BY <1>6 DEF SaveDescribed, SaveFile, Goto, Bystanders, Writes
  <2>3. SUFFICES ASSUME NEW r \in rows, r.layer \in Extra, r.table[1] = slug[r.inst], slug[r.inst] \notin clashed',
                        ~Excused(r.table), \A v \in Worker : ~Writes(v, r.table)'
                 PROVE  r.table \in project'[slug[r.inst]]
    BY <2>1 DEF Listing, Excused
  <2>4. r.table \in Table /\ slug[r.inst] \in Slug /\ slug[r.inst] \notin clashed
    BY <2>3, <1>b DEF Steady
  <2>5. ~Writes(i, r.table)
    BY <1>6, <2>3, <2>4 DEF SaveDescribed, SaveFile, Goto, Writes, Excused, Watched, Erased
  <2>6. r.table \in project[slug[r.inst]]
    <3>1. \A v \in Worker : ~Writes(v, r.table)
      BY <2>2, <2>3, <2>4, <2>5 DEF Bystanders
    <3>2. QED
      BY <2>3, <2>4, <3>1 DEF Listing
  <2>7. ~(pc[i] = "rewriting" /\ on[i].table = r.table)
    BY <2>5 DEF Writes
  <2>8. QED
    BY <2>1, <2>3, <2>4, <2>6, <2>7, <1>s
<1>7. ASSUME NEW i \in Instance, Crash(i) PROVE Listing'
  <2>1. project' = project /\ Bystanders(i)
    BY <1>7 DEF Crash, Stop, Goto, Leave, Unfinished, Bystanders, Writes
  <2>2. Keeps(i)
    BY <1>7, <1>b DEF Crash, Stop, Goto, Leave, Unfinished, Keeps, Writes, Excused, Watched, Erased
  <2>3. Adds
    BY <1>7 DEF Crash, Stop, Goto, Leave, Unfinished, Adds
  <2>4. QED
    BY <2>1, <2>2, <2>3, <1>f
<1>8. ASSUME NEW i \in Instance, DeleteGroup(i) PROVE Listing'
  <2>1. project' = project /\ rows' \subseteq rows
    BY <1>8 DEF DeleteGroup
  <2>2. \A w \in Worker, t \in Table : Writes(w, t)' <=> Writes(w, t)
    BY <1>8 DEF DeleteGroup, Writes
  <2>3. i \in Worker /\ Bystanders(i) /\ Keeps(i) /\ Adds
    BY <2>1, <2>2, <1>b DEF Bystanders, Keeps, Adds
  <2>4. QED
    BY <2>1, <2>3, <1>f
<1>9. ASSUME NEW w \in Worker, DropOld(w) PROVE Listing'
  <2>1. project' = project /\ Bystanders(w)
    BY <1>9 DEF DropOld, Goto, Bystanders, Writes
  <2>2. Keeps(w)
    BY <1>9, <1>b DEF DropOld, Goto, Keeps, Writes, Excused, Watched, Erased
  <2>3. Adds
    BY <1>9 DEF DropOld, Goto, Adds
  <2>4. QED
    BY <2>1, <2>2, <2>3, <1>f
<1>10. ASSUME NEW w \in Worker, CreateTable(w) PROVE Listing'
  <2>1. project' = project /\ Bystanders(w)
    BY <1>10 DEF CreateTable, NoTable, MadeTable, Done, Goto, Leave, Bystanders, Writes
  <2>2. Keeps(w)
    BY <1>10, <1>b DEF CreateTable, NoTable, MadeTable, Done, Goto, Leave, Keeps, Writes, Excused, Watched, Erased
  <2>3. Adds
    BY <1>10 DEF CreateTable, NoTable, MadeTable, Done, Goto, Leave, Adds
  <2>4. QED
    BY <2>1, <2>2, <2>3, <1>f
<1>11. ASSUME NEW w \in Worker, TableFails(w) PROVE Listing'
  <2>1. project' = project /\ Bystanders(w)
    BY <1>11 DEF TableFails, NoTable, Done, Goto, Leave, Bystanders, Writes
  <2>2. Keeps(w)
    BY <1>11, <1>b DEF TableFails, NoTable, Done, Goto, Leave, Keeps, Writes, Excused, Watched, Erased
  <2>3. Adds
    BY <1>11 DEF TableFails, NoTable, Done, Goto, Leave, Adds
  <2>4. QED
    BY <2>1, <2>2, <2>3, <1>f
<1>12. ASSUME NEW w \in Worker, ReadProject(w) PROVE Listing'
  <2>1. project' = project /\ Bystanders(w)
    BY <1>12 DEF ReadProject, Listed, Goto, Bystanders, Writes
  <2>2. Keeps(w)
    BY <1>12, <1>b DEF ReadProject, Listed, Goto, Keeps, Writes, Excused, Watched, Erased
  <2>3. Adds
    BY <1>12 DEF ReadProject, Listed, Goto, Adds
  <2>4. QED
    BY <2>1, <2>2, <2>3, <1>f
<1>13. ASSUME NEW w \in Worker, AddFails(w) PROVE Listing'
  <2>1. project' = project /\ Bystanders(w)
    BY <1>13 DEF AddFails, Listed, Goto, Bystanders, Writes
  <2>2. Keeps(w)
    BY <1>13, <1>b DEF AddFails, Listed, Goto, Keeps, Writes, Excused, Watched, Erased
  <2>3. Adds
    BY <1>13 DEF AddFails, Listed, Goto, Adds
  <2>4. QED
    BY <2>1, <2>2, <2>3, <1>f
<1>14. ASSUME NEW w \in Worker, SaveAdded(w) PROVE Listing'
  <2>1. Saving(w) /\ rows' = rows /\ slug' = slug /\ left' = left
    BY <1>14 DEF SaveAdded, SaveFile, Saving
  <2>2. Bystanders(w)
    BY <1>14 DEF SaveAdded, SaveFile, Listed, Goto, Bystanders, Writes
  <2>3. SUFFICES ASSUME NEW r \in rows, r.layer \in Extra, r.table[1] = slug[r.inst], slug[r.inst] \notin clashed',
                        ~Excused(r.table), \A v \in Worker : ~Writes(v, r.table)'
                 PROVE  r.table \in project'[slug[r.inst]]
    BY <2>1 DEF Listing, Excused
  <2>4. r.table \in Table /\ slug[r.inst] \in Slug /\ slug[r.inst] \notin clashed
    BY <2>3, <1>b DEF Steady
  <2>5. ~Writes(w, r.table)
    BY <1>14, <2>3, <2>4 DEF SaveAdded, SaveFile, Listed, Goto, Writes, Excused, Watched, Erased
  <2>6. r.table \in project[slug[r.inst]]
    <3>1. \A v \in Worker : ~Writes(v, r.table)
      BY <2>2, <2>3, <2>4, <2>5 DEF Bystanders
    <3>2. QED
      BY <2>3, <2>4, <3>1 DEF Listing
  <2>7. ~(pc[w] = "rewriting" /\ on[w].table = r.table)
    BY <2>5 DEF Writes
  <2>8. QED
    BY <2>1, <2>3, <2>4, <2>6, <2>7, <1>s
<1>15. ASSUME NEW h \in Request, NEW i \in Instance, NEW l \in Extra, AskOsmLayer(h, i, l) PROVE Listing'
  <2>1. project' = project /\ Bystanders(h)
    BY <1>15 DEF AskOsmLayer, Begin, Goto, Bystanders, Writes
  <2>2. Keeps(h)
    BY <1>15, <1>b DEF AskOsmLayer, Begin, Goto, Keeps, Writes, Excused, Watched, Erased
  <2>3. Adds
    BY <1>15 DEF AskOsmLayer, Begin, Goto, Adds
  <2>4. QED
    BY <2>1, <2>2, <2>3, <1>f
<1>16. ASSUME NEW h \in Request, RegisterLayer(h) PROVE Listing'
  <2>1. project' = project /\ Bystanders(h)
    BY <1>16 DEF RegisterLayer, Creatable, Done, Goto, Leave, Bystanders, Writes
  <2>2. Keeps(h)
    BY <1>16, <1>b DEF RegisterLayer, Creatable, Done, Goto, Leave, Keeps, Writes, Excused, Watched, Erased, LayerFree
  <2>3. Adds
    BY <1>16, <1>b, <1>d DEF RegisterLayer, Adds, Registered, Excused, Leave, File, InstOf
  <2>4. QED
    BY <2>1, <2>2, <2>3, <1>f
<1>17. ASSUME NEW h \in Request, NEW r \in rows, AskResync(h, r) PROVE Listing'
  <2>1. project' = project /\ Bystanders(h)
    BY <1>17 DEF AskResync, Begin, Goto, Bystanders, Writes
  <2>2. Keeps(h)
    BY <1>17, <1>b DEF AskResync, Begin, Goto, Keeps, Writes, Excused, Watched, Erased
  <2>3. Adds
    BY <1>17 DEF AskResync, Begin, Goto, Adds
  <2>4. QED
    BY <2>1, <2>2, <2>3, <1>f
<1>18. ASSUME NEW h \in Request, NEW r \in rows, AskDeleteLayer(h, r) PROVE Listing'
  <2>1. project' = project /\ Bystanders(h)
    BY <1>18 DEF AskDeleteLayer, Begin, Goto, Bystanders, Writes
  <2>2. Keeps(h)
    BY <1>18, <1>b DEF AskDeleteLayer, Begin, Goto, Keeps, Writes, Excused, Watched, Erased
  <2>3. Adds
    BY <1>18 DEF AskDeleteLayer, Begin, Goto, Adds
  <2>4. QED
    BY <2>1, <2>2, <2>3, <1>f
<1>19. ASSUME NEW h \in Request, EraseRow(h) PROVE Listing'
  <2>1. project' = project /\ Bystanders(h)
    BY <1>19 DEF EraseRow, Done, Goto, Bystanders, Writes
  <2>2. Keeps(h)
    BY <1>19, <1>b DEF EraseRow, Done, Goto, Keeps, Writes, Excused, Watched, Erased
  <2>3. Adds
    BY <1>19 DEF EraseRow, Done, Goto, Adds
  <2>4. QED
    BY <2>1, <2>2, <2>3, <1>f
<1>20. ASSUME NEW h \in Request, DropTable(h) PROVE Listing'
  <2>1. project' = project /\ Bystanders(h)
    BY <1>20 DEF DropTable, Goto, Bystanders, Writes
  <2>2. Keeps(h)
    BY <1>20, <1>b DEF DropTable, Goto, Keeps, Writes, Excused, Watched, Erased
  <2>3. Adds
    BY <1>20 DEF DropTable, Goto, Adds
  <2>4. QED
    BY <2>1, <2>2, <2>3, <1>f
<1>21. ASSUME NEW h \in Request, DropTableFails(h) PROVE Listing'
  <2>1. project' = project /\ Bystanders(h)
    BY <1>21 DEF DropTableFails, Goto, Leave, Bystanders, Writes
  <2>2. Keeps(h)
    BY <1>21, <1>b DEF DropTableFails, Goto, Leave, Keeps, Writes, Excused, Watched, Erased
  <2>3. Adds
    BY <1>21 DEF DropTableFails, Goto, Leave, Adds
  <2>4. QED
    BY <2>1, <2>2, <2>3, <1>f
<1>22. ASSUME NEW h \in Request, Unlist(h) PROVE Listing'
  <2>1. project' = project /\ Bystanders(h)
    BY <1>22 DEF Unlist, Done, Goto, Bystanders, Writes
  <2>2. Keeps(h)
    BY <1>22, <1>b DEF Unlist, Done, Goto, Keeps, Writes, Excused, Watched, Erased
  <2>3. Adds
    BY <1>22 DEF Unlist, Done, Goto, Adds
  <2>4. QED
    BY <2>1, <2>2, <2>3, <1>f
<1>23. ASSUME NEW h \in Request, SaveRemoved(h) PROVE Listing'
  <2>1. Saving(h) /\ rows' = rows /\ slug' = slug /\ left' = left
    BY <1>23 DEF SaveRemoved, SaveFile, Saving
  <2>2. Bystanders(h)
    BY <1>23 DEF SaveRemoved, SaveFile, Done, Goto, Bystanders, Writes
  <2>3. SUFFICES ASSUME NEW r \in rows, r.layer \in Extra, r.table[1] = slug[r.inst], slug[r.inst] \notin clashed',
                        ~Excused(r.table), \A v \in Worker : ~Writes(v, r.table)'
                 PROVE  r.table \in project'[slug[r.inst]]
    BY <2>1 DEF Listing, Excused
  <2>4. r.table \in Table /\ slug[r.inst] \in Slug /\ slug[r.inst] \notin clashed
    BY <2>3, <1>b DEF Steady
  <2>5. ~Writes(h, r.table)
    BY <1>23, <2>3, <2>4 DEF SaveRemoved, SaveFile, Done, Goto, Writes, Excused, Watched, Erased
  <2>6. r.table \in project[slug[r.inst]]
    <3>1. \A v \in Worker : ~Writes(v, r.table)
      BY <2>2, <2>3, <2>4, <2>5 DEF Bystanders
    <3>2. QED
      BY <2>3, <2>4, <3>1 DEF Listing
  <2>7. ~(pc[h] = "rewriting" /\ on[h].table = r.table)
    BY <2>5 DEF Writes
  <2>8. QED
    BY <2>1, <2>3, <2>4, <2>6, <2>7, <1>s
<1>24. ASSUME NEW h \in Request, Abort(h) PROVE Listing'
  <2>1. project' = project /\ Bystanders(h)
    BY <1>24 DEF Abort, Done, Goto, Leave, Unfinished, Bystanders, Writes
  <2>2. Keeps(h)
    BY <1>24, <1>b DEF Abort, Done, Goto, Leave, Unfinished, Keeps, Writes, Excused, Watched, Erased
  <2>3. Adds
    BY <1>24 DEF Abort, Done, Goto, Leave, Unfinished, Adds
  <2>4. QED
    BY <2>1, <2>2, <2>3, <1>f
<1>25. ASSUME NEW h \in Request, NEW i \in Instance, CollectTables(h, i) PROVE Listing'
  <2>1. project' = project /\ Bystanders(h)
    BY <1>25 DEF CollectTables, RowsOf, Begin, Goto, Bystanders, Writes
  <2>2. Keeps(h)
    BY <1>25, <1>b DEF CollectTables, RowsOf, Begin, Goto, Keeps, Writes, Excused, Watched, Erased
  <2>3. Adds
    BY <1>25 DEF CollectTables, RowsOf, Begin, Goto, Adds
  <2>4. QED
    BY <2>1, <2>2, <2>3, <1>f
<1>26. ASSUME NEW h \in Request, Cascade(h) PROVE Listing'
  <2>1. project' = project /\ Bystanders(h)
    BY <1>26 DEF Cascade, RowsOf, Done, Goto, Bystanders, Writes
  <2>2. Keeps(h)
    BY <1>26, <1>b DEF Cascade, RowsOf, Done, Goto, Keeps, Writes, Excused, Watched, Erased
  <2>3. Adds
    BY <1>26 DEF Cascade, RowsOf, Done, Goto, Adds
  <2>4. QED
    BY <2>1, <2>2, <2>3, <1>f
<1>27. ASSUME NEW h \in Request, Purged(h) PROVE Listing'
  <2>1. project' = project /\ Bystanders(h)
    BY <1>27 DEF Purged, Done, Goto, Bystanders, Writes
  <2>2. Keeps(h)
    BY <1>27, <1>b DEF Purged, Done, Goto, Keeps, Writes, Excused, Watched, Erased
  <2>3. Adds
    BY <1>27 DEF Purged, Done, Goto, Adds
  <2>4. QED
    BY <2>1, <2>2, <2>3, <1>f
<1>28. ASSUME NEW h \in Request, NEW t \in Table, DropNext(h, t) PROVE Listing'
  <2>1. project' = project /\ Bystanders(h)
    BY <1>28 DEF DropNext, Dropping, Bystanders, Writes
  <2>2. Keeps(h)
    BY <1>28, <1>b DEF DropNext, Dropping, Keeps, Writes, Excused, Watched, Erased
  <2>3. Adds
    BY <1>28 DEF DropNext, Dropping, Adds
  <2>4. QED
    BY <2>1, <2>2, <2>3, <1>f
<1>29. ASSUME NEW h \in Request, NEW t \in Table, DropNextFails(h, t) PROVE Listing'
  <2>1. project' = project /\ Bystanders(h)
    BY <1>29 DEF DropNextFails, Dropping, Leave, Bystanders, Writes
  <2>2. Keeps(h)
    BY <1>29, <1>b DEF DropNextFails, Dropping, Leave, Keeps, Writes, Excused, Watched, Erased
  <2>3. Adds
    BY <1>29 DEF DropNextFails, Dropping, Leave, Adds
  <2>4. QED
    BY <2>1, <2>2, <2>3, <1>f
<1>30. ASSUME NEW h \in Request, NEW i \in Instance, NEW src \in Instance, NEW s \in Slug, CreateTemplate(h, i, s, src)
       PROVE Listing'
  <2>1. project' = project /\ Bystanders(h)
    BY <1>30 DEF CreateTemplate, RowsOf, Begin, Goto, Bystanders, Writes
  <2>2. Keeps(h)
    BY <1>30, <1>b DEF CreateTemplate, RowsOf, Begin, Goto, Keeps, Writes, Excused, Watched, Erased
  <2>3. Adds
    BY <1>30 DEF CreateTemplate, RowsOf, Begin, Goto, Adds
  <2>4. QED
    BY <2>1, <2>2, <2>3, <1>f
<1>31. ASSUME NEW h \in Request, CloneGroups(h) PROVE Listing'
  <2>1. project' = project /\ Bystanders(h)
    BY <1>31 DEF CloneGroups, Done, Goto, Bystanders, Writes
  <2>2. Keeps(h)
    BY <1>31, <1>b DEF CloneGroups, Done, Goto, Keeps, Writes, Excused, Watched, Erased
  <2>3. Adds
    BY <1>31 DEF CloneGroups, Done, Goto, Adds
  <2>4. QED
    BY <2>1, <2>2, <2>3, <1>f
<1>32. ASSUME NEW h \in Request, Cloned(h) PROVE Listing'
  <2>1. project' = project /\ Bystanders(h)
    BY <1>32 DEF Cloned, Done, Goto, Bystanders, Writes
  <2>2. Keeps(h)
    BY <1>32, <1>b DEF Cloned, Done, Goto, Keeps, Writes, Excused, Watched, Erased
  <2>3. Adds
    BY <1>32 DEF Cloned, Done, Goto, Adds
  <2>4. QED
    BY <2>1, <2>2, <2>3, <1>f
<1>33. ASSUME NEW h \in Request, NEW r \in copying[h], CloneLayer(h, r) PROVE Listing'
  <2>1. CASE Creatable(subject[h], r.layer)
    <3>1. PICK c \in Layer : Clone(h, r, c)
      BY <1>33, <2>1, <1>a
    <3>2. /\ rows' = rows \cup {c} /\ Excused(c.table)' /\ UNCHANGED <<pc, on, subject, doomed, project>>
      BY <1>33, <2>1, <3>1 DEF CloneLayer, Clone
    <3>3. Bystanders(h) /\ Keeps(h) /\ Adds
      BY <3>2 DEF Bystanders, Keeps, Adds, Writes
    <3>4. QED
      BY <3>2, <3>3, <1>f
  <2>2. CASE ~Creatable(subject[h], r.layer)
    <3>1. /\ UNCHANGED <<rows, project>> /\ Done(h) /\ pc[h] = "copying" /\ on[h] = None
      BY <1>33, <2>2 DEF CloneLayer
    <3>2. Bystanders(h) /\ Keeps(h) /\ Adds
      BY <3>1 DEF Bystanders, Keeps, Adds, Writes, Done, Goto
    <3>3. QED
      BY <3>1, <3>2, <1>f
  <2>3. QED
    BY <2>1, <2>2
<1>34. QED
  BY <1>1, <1>2, <1>3, <1>4, <1>5, <1>6, <1>7, <1>8, <1>9, <1>10, <1>11, <1>12, <1>13, <1>14, <1>15,
     <1>16, <1>17, <1>18, <1>19, <1>20, <1>21, <1>22, <1>23, <1>24, <1>25, <1>26, <1>27, <1>28,
     <1>29, <1>30, <1>31, <1>32, <1>33
     DEF Step, Initialising, Making, Requesting, Deleting, Cloning
\* A table some row or worker is about
Known(t) == \/ \E r \in rows : r.table = t
            \/ \E w \in Worker : on[w] # None /\ on[w].table = t

\* What else a worker may do is leave it.
Leaves(w, t) ==
  /\ \A v \in Worker : v # w => on'[v] = on[v]
  /\ \A r \in rows : r.table = t => r \in rows' \/ (r # None /\ on'[w] = r)
  /\ on[w] # None /\ on[w].table = t => on'[w] = on[w] \/ on[w] \in rows'

\* A step that leaves every other worker, and no row without one, keeps it so.
LEMMA KnownFrame ==
  ASSUME NEW w \in Worker, NEW t, Known(t), Leaves(w, t)
  PROVE  Known(t)'
<1>1. CASE \E r \in rows : r.table = t
  <2>1. PICK r \in rows : r.table = t
    BY <1>1
  <2>2. CASE r \in rows'
    BY <2>1, <2>2 DEF Known
  <2>3. CASE r # None /\ on'[w] = r
    BY <2>1, <2>3 DEF Known
  <2>4. QED
    BY <2>1, <2>2, <2>3 DEF Leaves
<1>2. CASE \E v \in Worker : on[v] # None /\ on[v].table = t
  <2>1. PICK v \in Worker : on[v] # None /\ on[v].table = t
    BY <1>2
  <2>2. CASE on'[v] = on[v]
    BY <2>1, <2>2 DEF Known
  <2>3. CASE v = w /\ on[w] \in rows'
    BY <2>1, <2>3 DEF Known
  <2>4. QED
    BY <2>1, <2>2, <2>3 DEF Leaves
<1>3. QED
  BY <1>1, <1>2 DEF Known

\* What a step does to project files and instances: a script writes one file, or an
\* instance is created, or one goes.
Effect ==
  /\ project' = project \/ (UNCHANGED <<status, slug>> /\ \E v \in Worker : Saving(v))
  /\ \A i \in Instance : status'[i] = "live" => status[i] \in {"absent", "live"}

\* Every step does so.
LEMMA EffectStep ==
  ASSUME LinkInv, Step
  PROVE  Effect
<1> USE SlugAssumption DEF TypeOK, catalogue, worker, request, LinkInv, RequestLinked
<1>1. ASSUME NEW i \in Instance, NEW s \in Slug, CreateInstance(i, s) PROVE Effect
  BY <1>1 DEF Effect, CreateInstance, Goto
<1>2. ASSUME NEW i \in Instance, RecordProject(i) PROVE Effect
  BY <1>2 DEF Effect, RecordProject, Goto, Stop
<1>3. ASSUME NEW i \in Instance, CreateGroups(i) PROVE Effect
  BY <1>3 DEF Effect, CreateGroups, Goto, Stop
<1>4. ASSUME NEW i \in Instance, NEW l \in Default, LoadLayer(i, l) PROVE Effect
  BY <1>4 DEF Effect, LoadLayer, Creatable, Goto, Stop
<1>5. ASSUME NEW i \in Instance, DescribeProject(i) PROVE Effect
  BY <1>5 DEF Effect, DescribeProject, Goto
<1>6. ASSUME NEW i \in Instance, SaveDescribed(i) PROVE Effect
  <2>1. Saving(i) /\ UNCHANGED <<status, slug>>
    BY <1>6 DEF SaveDescribed, SaveFile, Goto, Saving
  <2>2. QED
    BY <2>1 DEF Effect, Worker
<1>7. ASSUME NEW i \in Instance, Crash(i) PROVE Effect
  BY <1>7 DEF Effect, Crash, Stop, Goto, Leave, Unfinished
<1>8. ASSUME NEW i \in Instance, DeleteGroup(i) PROVE Effect
  BY <1>8 DEF Effect, DeleteGroup, Leave, RowsOf
<1>9. ASSUME NEW w \in Worker, DropOld(w) PROVE Effect
  BY <1>9 DEF Effect, DropOld, Goto
<1>10. ASSUME NEW w \in Worker, CreateTable(w) PROVE Effect
  BY <1>10 DEF Effect, CreateTable, NoTable, MadeTable, Done, Goto, Leave
<1>11. ASSUME NEW w \in Worker, TableFails(w) PROVE Effect
  BY <1>11 DEF Effect, TableFails, NoTable, Done, Goto, Leave
<1>12. ASSUME NEW w \in Worker, ReadProject(w) PROVE Effect
  BY <1>12 DEF Effect, ReadProject, Listed, Goto
<1>13. ASSUME NEW w \in Worker, AddFails(w) PROVE Effect
  BY <1>13 DEF Effect, AddFails, Listed, Goto
<1>14. ASSUME NEW w \in Worker, SaveAdded(w) PROVE Effect
  <2>1. Saving(w) /\ UNCHANGED <<status, slug>>
    BY <1>14 DEF SaveAdded, SaveFile, Listed, Goto, Saving
  <2>2. QED
    BY <2>1 DEF Effect, Worker
<1>15. ASSUME NEW h \in Request, NEW i \in Instance, NEW l \in Extra, AskOsmLayer(h, i, l) PROVE Effect
  BY <1>15 DEF Effect, AskOsmLayer, Begin, Goto
<1>16. ASSUME NEW h \in Request, RegisterLayer(h) PROVE Effect
  BY <1>16 DEF Effect, RegisterLayer, Creatable, Done, Goto, Leave
<1>17. ASSUME NEW h \in Request, NEW r \in rows, AskResync(h, r) PROVE Effect
  BY <1>17 DEF Effect, AskResync, Begin, Goto
<1>18. ASSUME NEW h \in Request, NEW r \in rows, AskDeleteLayer(h, r) PROVE Effect
  BY <1>18 DEF Effect, AskDeleteLayer, Begin, Goto
<1>19. ASSUME NEW h \in Request, EraseRow(h) PROVE Effect
  BY <1>19 DEF Effect, EraseRow, Done, Goto
<1>20. ASSUME NEW h \in Request, DropTable(h) PROVE Effect
  BY <1>20 DEF Effect, DropTable, Goto
<1>21. ASSUME NEW h \in Request, DropTableFails(h) PROVE Effect
  BY <1>21 DEF Effect, DropTableFails, Goto, Leave
<1>22. ASSUME NEW h \in Request, Unlist(h) PROVE Effect
  BY <1>22 DEF Effect, Unlist, Done, Goto
<1>23. ASSUME NEW h \in Request, SaveRemoved(h) PROVE Effect
  <2>1. Saving(h) /\ UNCHANGED <<status, slug>>
    BY <1>23 DEF SaveRemoved, SaveFile, Done, Goto, Saving
  <2>2. QED
    BY <2>1 DEF Effect, Worker
<1>24. ASSUME NEW h \in Request, Abort(h) PROVE Effect
  BY <1>24 DEF Effect, Abort, Done, Goto, Leave, Unfinished
<1>25. ASSUME NEW h \in Request, NEW i \in Instance, CollectTables(h, i) PROVE Effect
  BY <1>25 DEF Effect, CollectTables, RowsOf, Begin, Goto
<1>26. ASSUME NEW h \in Request, Cascade(h) PROVE Effect
  BY <1>26 DEF Effect, Cascade, RowsOf, Done, Goto
<1>27. ASSUME NEW h \in Request, Purged(h) PROVE Effect
  BY <1>27 DEF Effect, Purged, Done, Goto
<1>28. ASSUME NEW h \in Request, NEW t \in Table, DropNext(h, t) PROVE Effect
  BY <1>28 DEF Effect, DropNext, Dropping
<1>29. ASSUME NEW h \in Request, NEW t \in Table, DropNextFails(h, t) PROVE Effect
  BY <1>29 DEF Effect, DropNextFails, Dropping, Leave
<1>30. ASSUME NEW h \in Request, NEW i \in Instance, NEW src \in Instance, NEW s \in Slug, CreateTemplate(h, i, s, src)
       PROVE Effect
  BY <1>30 DEF Effect, CreateTemplate, RowsOf, Begin, Goto
<1>31. ASSUME NEW h \in Request, CloneGroups(h) PROVE Effect
  BY <1>31 DEF Effect, CloneGroups, Done, Goto
<1>32. ASSUME NEW h \in Request, Cloned(h) PROVE Effect
  BY <1>32 DEF Effect, Cloned, Done, Goto
<1>33. ASSUME NEW h \in Request, NEW r \in copying[h], CloneLayer(h, r) PROVE Effect
  BY <1>33 DEF Effect, CloneLayer, Creatable, Done, Goto, Leave
<1>34. QED
  BY <1>1, <1>2, <1>3, <1>4, <1>5, <1>6, <1>7, <1>8, <1>9, <1>10, <1>11, <1>12, <1>13, <1>14, <1>15,
     <1>16, <1>17, <1>18, <1>19, <1>20, <1>21, <1>22, <1>23, <1>24, <1>25, <1>26, <1>27, <1>28,
     <1>29, <1>30, <1>31, <1>32, <1>33
     DEF Step, Initialising, Making, Requesting, Deleting, Cloning

\* A layer of an OSM tag whose table, and whose project, nothing else may have
Sole(i, l) == Live(i) /\ Alone(i) /\ Distinct(l) /\ slug[i] \notin clashed

\* Only rows of the instance have its table, and only requests on its layers.
LEMMA SoleOwner ==
  ASSUME LinkInv, Schemas, NEW i \in Instance, NEW l \in Extra, Sole(i, l),
         NEW t, t = TableFor(i, l), ~Excused(t)
  PROVE  /\ t \in Table /\ slug[i] \in Slug
         /\ \A r \in rows : r.table = t => r.inst = i
         /\ \A w \in Worker : on[w] # None /\ on[w].table = t =>
              w \in Request /\ on[w].layer \in Extra /\ on[w].inst = i /\ subject[w] = i /\ File(w) = slug[i]
<1>1. t \in Table /\ slug[i] \in Slug /\ t[1] = slug[i] /\ t[2] = LabelOf[l]
  BY TableOf DEF Sole, Live, LinkInv, InstanceLinked, TableFor
<1>2. ASSUME NEW r \in Layer, r.table = t, OwnSchema(r) PROVE r.inst = i
  BY <1>1, <1>2 DEF OwnSchema, Sole, Alone, Layer
<1>3. \A r \in rows : r.table = t => r.inst = i
  BY <1>2 DEF Schemas, LinkInv, TypeOK
<1>4. ASSUME NEW w \in Worker, on[w] # None, on[w].table = t
      PROVE  w \in Request /\ on[w].layer \in Extra /\ on[w].inst = i /\ subject[w] = i /\ File(w) = slug[i]
  <2>1. on[w] \in Layer /\ on[w].layer \in Default \cup Extra
    BY <1>4 DEF LinkInv, TypeOK, Layer
  <2>2. on[w].layer \notin Default
    <3>1. on[w].table[2] = LabelOf[on[w].layer]
      <4>1. CASE w \in Instance
        BY <1>4, <4>1 DEF LinkInv, InstanceLinked, TableFor
      <4>2. CASE w \in Request
        BY <1>4, <4>2 DEF LinkInv, RequestLinked, Labelled
      <4>3. QED
        BY <4>1, <4>2 DEF Worker
    <3>2. QED
      BY <1>1, <1>4, <3>1 DEF Sole, Distinct
  <2>3. w \in Request
    BY <1>4, <2>2 DEF LinkInv, InstanceLinked, Worker
  <2>4. on[w].inst = i
    BY <1>2, <1>4, <2>1, <2>3 DEF Schemas
  <2>5. w \notin Instance
    BY <2>3, SlugAssumption
  <2>6. QED
    BY <1>4, <2>1, <2>2, <2>3, <2>4, <2>5 DEF LinkInv, RequestLinked, File, InstOf
<1>5. QED
  BY <1>1, <1>3, <1>4

\* A listed table some row or worker is about stays so.
LEMMA KnownStep ==
  ASSUME LinkInv, LinkInv', Kept, Steady, Watched', Erasing, ViewInv, Schemas, Step,
         NEW i \in Instance, NEW l \in Extra, Sole(i, l), slug[i] \notin clashed', Live(i)',
         NEW t, t = TableFor(i, l), t \in project[slug[i]], t \in project'[slug[i]], ~Excused(t)', Known(t)
  PROVE  Known(t)'
<1>k. \A w \in Worker : Leaves(w, t) => Known(t)'
  BY KnownFrame
<1>b. ~Excused(t)
  BY DEF Excused, Kept, Steady
<1>a. /\ t \in Table /\ slug[i] \in Slug /\ Live(i) /\ Live(i)' /\ t \in project[slug[i]]
      /\ \A r \in rows : r.table = t => r.inst = i
      /\ \A w \in Worker : on[w] # None /\ on[w].table = t =>
           w \in Request /\ on[w].layer \in Extra /\ on[w].inst = i /\ subject[w] = i /\ File(w) = slug[i]
  BY <1>b, SoleOwner DEF Sole
<1>s. \A v \in Worker, s \in Slug : Saving(v) /\ s \notin clashed' =>
        \A u : /\ u \in project[s] /\ ~(pc[v] = "rewriting" /\ on[v].table = u) => u \in project'[s]
               /\ u \in project'[s] => u \in project[s] \/ (pc[v] = "saving" /\ on[v].table = u)
               /\ pc[v] = "rewriting" /\ on[v].table = u /\ s = File(v) => u \notin project'[s]
  BY Saved
<1> USE SlugAssumption DEF TypeOK, Worker, catalogue, worker, request, LinkInv, OnLayer, MakesIt,
     RequestLinked, InstanceLinked
<1>1. ASSUME NEW j \in Instance, NEW s \in Slug, CreateInstance(j, s) PROVE Known(t)'
  <2>1. \A v \in Worker : v # j => on'[v] = on[v]
    BY <1>1 DEF CreateInstance, Goto
  <2>2. rows \subseteq rows'
    BY <1>1 DEF CreateInstance, Goto
  <2>3. on[j] # None /\ on[j].table = t => on'[j] = on[j]
    BY <1>1, <1>a, <1>b DEF CreateInstance, Goto, Excused
  <2>4. QED
    BY <2>1, <2>2, <2>3, <1>k DEF Leaves
<1>2. ASSUME NEW j \in Instance, RecordProject(j) PROVE Known(t)'
  <2>1. \A v \in Worker : v # j => on'[v] = on[v]
    BY <1>2 DEF RecordProject, Goto, Stop
  <2>2. rows \subseteq rows'
    BY <1>2 DEF RecordProject, Goto, Stop
  <2>3. on[j] # None /\ on[j].table = t => on'[j] = on[j]
    BY <1>2, <1>a, <1>b DEF RecordProject, Goto, Stop, Excused
  <2>4. QED
    BY <2>1, <2>2, <2>3, <1>k DEF Leaves
<1>3. ASSUME NEW j \in Instance, CreateGroups(j) PROVE Known(t)'
  <2>1. \A v \in Worker : v # j => on'[v] = on[v]
    BY <1>3 DEF CreateGroups, Goto, Stop
  <2>2. rows \subseteq rows'
    BY <1>3 DEF CreateGroups, Goto, Stop
  <2>3. on[j] # None /\ on[j].table = t => on'[j] = on[j]
    BY <1>3, <1>a, <1>b DEF CreateGroups, Goto, Stop, Excused
  <2>4. QED
    BY <2>1, <2>2, <2>3, <1>k DEF Leaves
<1>4. ASSUME NEW j \in Instance, NEW k \in Default, LoadLayer(j, k) PROVE Known(t)'
  <2>1. \A v \in Worker : v # j => on'[v] = on[v]
    BY <1>4 DEF LoadLayer, Creatable, Goto, Stop
  <2>2. rows \subseteq rows'
    BY <1>4 DEF LoadLayer, Creatable, Goto, Stop
  <2>3. on[j] # None /\ on[j].table = t => on'[j] = on[j]
    BY <1>4, <1>a, <1>b DEF LoadLayer, Creatable, Goto, Stop, Excused
  <2>4. QED
    BY <2>1, <2>2, <2>3, <1>k DEF Leaves
<1>5. ASSUME NEW j \in Instance, DescribeProject(j) PROVE Known(t)'
  <2>1. \A v \in Worker : v # j => on'[v] = on[v]
    BY <1>5 DEF DescribeProject, Goto
  <2>2. rows \subseteq rows'
    BY <1>5 DEF DescribeProject, Goto
  <2>3. on[j] # None /\ on[j].table = t => on'[j] = on[j]
    BY <1>5, <1>a, <1>b DEF DescribeProject, Goto, Excused
  <2>4. QED
    BY <2>1, <2>2, <2>3, <1>k DEF Leaves
<1>6. ASSUME NEW j \in Instance, SaveDescribed(j) PROVE Known(t)'
  <2>1. \A v \in Worker : v # j => on'[v] = on[v]
    BY <1>6 DEF SaveDescribed, SaveFile, Goto
  <2>2. rows \subseteq rows'
    BY <1>6 DEF SaveDescribed, SaveFile, Goto
  <2>3. on[j] # None /\ on[j].table = t => on'[j] = on[j]
    BY <1>6, <1>a, <1>b DEF SaveDescribed, SaveFile, Goto, Excused
  <2>4. QED
    BY <2>1, <2>2, <2>3, <1>k DEF Leaves
<1>7. ASSUME NEW j \in Instance, Crash(j) PROVE Known(t)'
  <2>1. \A v \in Worker : v # j => on'[v] = on[v]
    BY <1>7 DEF Crash, Stop, Goto, Leave, Unfinished
  <2>2. rows \subseteq rows'
    BY <1>7 DEF Crash, Stop, Goto, Leave, Unfinished
  <2>3. on[j] # None /\ on[j].table = t => on'[j] = on[j]
    BY <1>7, <1>a, <1>b DEF Crash, Stop, Goto, Leave, Unfinished, Excused
  <2>4. QED
    BY <2>1, <2>2, <2>3, <1>k DEF Leaves
<1>8. ASSUME NEW j \in Instance, DeleteGroup(j) PROVE Known(t)'
  <2>1. on' = on /\ \A r \in rows : r.table = t => r \in rows'
    BY <1>8 DEF DeleteGroup, RowsOf, Leave, Excused
  <2>2. QED
    BY <2>1, <1>b DEF Known
<1>9. ASSUME NEW w \in Worker, DropOld(w) PROVE Known(t)'
  <2>1. \A v \in Worker : v # w => on'[v] = on[v]
    BY <1>9 DEF DropOld, Goto
  <2>2. rows \subseteq rows'
    BY <1>9 DEF DropOld, Goto
  <2>3. on[w] # None /\ on[w].table = t => on'[w] = on[w]
    BY <1>9, <1>a, <1>b DEF DropOld, Goto, Excused
  <2>4. QED
    BY <2>1, <2>2, <2>3, <1>k DEF Leaves
<1>10. ASSUME NEW w \in Worker, CreateTable(w) PROVE Known(t)'
  <2>1. \A v \in Worker : v # w => on'[v] = on[v]
    BY <1>10 DEF CreateTable, NoTable, MadeTable, Done, Goto, Leave
  <2>2. rows \subseteq rows'
    BY <1>10 DEF CreateTable, NoTable, MadeTable, Done, Goto, Leave
  <2>3. on[w] # None /\ on[w].table = t => on'[w] = on[w]
    BY <1>10, <1>a, <1>b DEF CreateTable, NoTable, MadeTable, Done, Goto, Leave, Excused
  <2>4. QED
    BY <2>1, <2>2, <2>3, <1>k DEF Leaves
<1>11. ASSUME NEW w \in Worker, TableFails(w) PROVE Known(t)'
  <2>1. \A v \in Worker : v # w => on'[v] = on[v]
    BY <1>11 DEF TableFails, NoTable, Done, Goto, Leave
  <2>2. rows \subseteq rows'
    BY <1>11 DEF TableFails, NoTable, Done, Goto, Leave
  <2>3. on[w] # None /\ on[w].table = t => on'[w] = on[w]
    BY <1>11, <1>a, <1>b DEF TableFails, NoTable, Done, Goto, Leave, Excused
  <2>4. QED
    BY <2>1, <2>2, <2>3, <1>k DEF Leaves
<1>12. ASSUME NEW w \in Worker, ReadProject(w) PROVE Known(t)'
  <2>1. \A v \in Worker : v # w => on'[v] = on[v]
    BY <1>12 DEF ReadProject, Listed, Goto
  <2>2. rows \subseteq rows'
    BY <1>12 DEF ReadProject, Listed, Goto
  <2>3. on[w] # None /\ on[w].table = t => on'[w] = on[w]
    BY <1>12, <1>a, <1>b DEF ReadProject, Listed, Goto, Excused
  <2>4. QED
    BY <2>1, <2>2, <2>3, <1>k DEF Leaves
<1>13. ASSUME NEW w \in Worker, AddFails(w) PROVE Known(t)'
  <2>1. \A v \in Worker : v # w => on'[v] = on[v]
    BY <1>13 DEF AddFails, Listed, Goto
  <2>2. rows \subseteq rows'
    BY <1>13 DEF AddFails, Listed, Goto
  <2>3. on[w] # None /\ on[w].table = t => on'[w] = on[w]
    BY <1>13, <1>a, <1>b DEF AddFails, Listed, Goto, Excused
  <2>4. QED
    BY <2>1, <2>2, <2>3, <1>k DEF Leaves
<1>14. ASSUME NEW w \in Worker, SaveAdded(w) PROVE Known(t)'
  <2>1. \A v \in Worker : v # w => on'[v] = on[v]
    BY <1>14 DEF SaveAdded, SaveFile, Listed, Goto
  <2>2. rows \subseteq rows'
    BY <1>14 DEF SaveAdded, SaveFile, Listed, Goto
  <2>3. on[w] # None /\ on[w].table = t => on'[w] = on[w]
    BY <1>14, <1>a, <1>b DEF SaveAdded, SaveFile, Listed, Goto, Excused
  <2>4. QED
    BY <2>1, <2>2, <2>3, <1>k DEF Leaves
<1>15. ASSUME NEW h \in Request, NEW j \in Instance, NEW k \in Extra, AskOsmLayer(h, j, k) PROVE Known(t)'
  <2>1. \A v \in Worker : v # h => on'[v] = on[v]
    BY <1>15 DEF AskOsmLayer, Begin, Goto
  <2>2. rows \subseteq rows'
    BY <1>15 DEF AskOsmLayer, Begin, Goto
  <2>3. on[h] # None /\ on[h].table = t => on'[h] = on[h]
    BY <1>15, <1>a, <1>b DEF AskOsmLayer, Begin, Goto, Excused
  <2>4. QED
    BY <2>1, <2>2, <2>3, <1>k DEF Leaves
<1>16. ASSUME NEW h \in Request, RegisterLayer(h) PROVE Known(t)'
  <2>1. \A v \in Worker : v # h => on'[v] = on[v]
    BY <1>16 DEF RegisterLayer, Done
  <2>2. rows \subseteq rows'
    BY <1>16 DEF RegisterLayer
  <2>3. on[h] # None /\ on[h].table = t => on[h] \in rows'
    BY <1>16 DEF RegisterLayer, Leave, Excused
  <2>4. QED
    BY <2>1, <2>2, <2>3, <1>k DEF Leaves
<1>17. ASSUME NEW h \in Request, NEW r \in rows, AskResync(h, r) PROVE Known(t)'
  <2>1. \A v \in Worker : v # h => on'[v] = on[v]
    BY <1>17 DEF AskResync, Begin, Goto
  <2>2. rows \subseteq rows'
    BY <1>17 DEF AskResync, Begin, Goto
  <2>3. on[h] # None /\ on[h].table = t => on'[h] = on[h]
    BY <1>17, <1>a, <1>b DEF AskResync, Begin, Goto, Excused
  <2>4. QED
    BY <2>1, <2>2, <2>3, <1>k DEF Leaves
<1>18. ASSUME NEW h \in Request, NEW r \in rows, AskDeleteLayer(h, r) PROVE Known(t)'
  <2>1. \A v \in Worker : v # h => on'[v] = on[v]
    BY <1>18 DEF AskDeleteLayer, Begin, Goto
  <2>2. rows \subseteq rows'
    BY <1>18 DEF AskDeleteLayer, Begin, Goto
  <2>3. on[h] # None /\ on[h].table = t => on'[h] = on[h]
    BY <1>18, <1>a, <1>b DEF AskDeleteLayer, Begin, Goto, Excused
  <2>4. QED
    BY <2>1, <2>2, <2>3, <1>k DEF Leaves
<1>19. ASSUME NEW h \in Request, EraseRow(h) PROVE Known(t)'
  <2>1. \A v \in Worker : v # h => on'[v] = on[v]
    BY <1>19 DEF EraseRow, Done
  <2>2. on[h] # None /\ pc[h] = "erasing"
    BY <1>19 DEF EraseRow
  <2>3. CASE on[h] \in rows
    BY <1>19, <2>1, <2>2, <2>3, <1>k DEF EraseRow, Leaves
  <2>4. CASE on[h] \notin rows
    <3>1. on[h].table # t
      <4>1. on[h].table = t => on[h].inst = i
        BY <2>2, <1>a
      <4>2. QED
        BY SMTT(30), <2>2, <2>4, <4>1, <1>a, <1>b DEF Erasing
    <3>2. QED
      BY <1>19, <2>1, <2>4, <3>1, <1>k DEF EraseRow, Leaves
  <2>5. QED
    BY <2>3, <2>4
<1>20. ASSUME NEW h \in Request, DropTable(h) PROVE Known(t)'
  <2>1. \A v \in Worker : v # h => on'[v] = on[v]
    BY <1>20 DEF DropTable, Goto
  <2>2. rows \subseteq rows'
    BY <1>20 DEF DropTable, Goto
  <2>3. on[h] # None /\ on[h].table = t => on'[h] = on[h]
    BY <1>20, <1>a, <1>b DEF DropTable, Goto, Excused
  <2>4. QED
    BY <2>1, <2>2, <2>3, <1>k DEF Leaves
<1>21. ASSUME NEW h \in Request, DropTableFails(h) PROVE Known(t)'
  <2>1. \A v \in Worker : v # h => on'[v] = on[v]
    BY <1>21 DEF DropTableFails, Goto, Leave
  <2>2. rows \subseteq rows'
    BY <1>21 DEF DropTableFails, Goto, Leave
  <2>3. on[h] # None /\ on[h].table = t => on'[h] = on[h]
    BY <1>21, <1>a, <1>b DEF DropTableFails, Goto, Leave, Excused
  <2>4. QED
    BY <2>1, <2>2, <2>3, <1>k DEF Leaves
<1>22. ASSUME NEW h \in Request, Unlist(h) PROVE Known(t)'
  <2>1. \A v \in Worker : v # h => on'[v] = on[v]
    BY <1>22 DEF Unlist, Done, Goto
  <2>2. rows \subseteq rows'
    BY <1>22 DEF Unlist, Done, Goto
  <2>3. on[h] # None /\ on[h].table = t => on'[h] = on[h]
    BY <1>22, <1>a, <1>b DEF Unlist, Findable, Done, Goto
  <2>4. QED
    BY <2>1, <2>2, <2>3, <1>k DEF Leaves
<1>23. ASSUME NEW h \in Request, SaveRemoved(h) PROVE Known(t)'
  <2>1. \A v \in Worker : v # h => on'[v] = on[v]
    BY <1>23 DEF SaveRemoved, SaveFile, Done, Goto
  <2>2. rows \subseteq rows'
    BY <1>23 DEF SaveRemoved, SaveFile, Done, Goto
  <2>3. on[h] # None /\ on[h].table = t => on'[h] = on[h]
    <3>1. Saving(h) /\ pc[h] = "rewriting"
      BY <1>23 DEF SaveRemoved, SaveFile, Saving
    <3>2. QED
      BY <3>1, <1>a, <1>s
  <2>4. QED
    BY <2>1, <2>2, <2>3, <1>k DEF Leaves
<1>24. ASSUME NEW h \in Request, Abort(h) PROVE Known(t)'
  <2>1. \A v \in Worker : v # h => on'[v] = on[v]
    BY <1>24 DEF Abort, Done, Goto, Leave, Unfinished
  <2>2. rows \subseteq rows'
    BY <1>24 DEF Abort, Done, Goto, Leave, Unfinished
  <2>3. on[h] # None /\ on[h].table = t => on'[h] = on[h]
    BY <1>24, <1>a, <1>b DEF Abort, Done, Goto, Leave, Unfinished, Excused
  <2>4. QED
    BY <2>1, <2>2, <2>3, <1>k DEF Leaves
<1>25. ASSUME NEW h \in Request, NEW j \in Instance, CollectTables(h, j) PROVE Known(t)'
  <2>1. \A v \in Worker : v # h => on'[v] = on[v]
    BY <1>25 DEF CollectTables, RowsOf, Begin, Goto
  <2>2. rows \subseteq rows'
    BY <1>25 DEF CollectTables, RowsOf, Begin, Goto
  <2>3. on[h] # None /\ on[h].table = t => on'[h] = on[h]
    BY <1>25, <1>a, <1>b DEF CollectTables, RowsOf, Begin, Goto, Excused
  <2>4. QED
    BY <2>1, <2>2, <2>3, <1>k DEF Leaves
<1>26. ASSUME NEW h \in Request, Cascade(h) PROVE Known(t)'
  <2>1. \A v \in Worker : v # h => on'[v] = on[v]
    BY <1>26 DEF Cascade, Done
  <2>2. \A r \in rows : r.table = t => r \in rows'
    <3>1. CASE Live(subject[h])
      <4>1. subject[h] # i /\ subject[h] \in Instance
        BY <1>26, <3>1, <1>a DEF Cascade, Live
      <4>2. QED
        BY <1>26, <4>1, <1>a DEF Cascade, RowsOf
    <3>2. CASE ~Live(subject[h])
      BY <1>26, <3>2 DEF Cascade
    <3>3. QED
      BY <3>1, <3>2
  <2>3. on[h] = None
    BY <1>26 DEF Cascade
  <2>4. QED
    BY <2>1, <2>2, <2>3, <1>k DEF Leaves
<1>27. ASSUME NEW h \in Request, Purged(h) PROVE Known(t)'
  <2>1. \A v \in Worker : v # h => on'[v] = on[v]
    BY <1>27 DEF Purged, Done, Goto
  <2>2. rows \subseteq rows'
    BY <1>27 DEF Purged, Done, Goto
  <2>3. on[h] # None /\ on[h].table = t => on'[h] = on[h]
    BY <1>27, <1>a, <1>b DEF Purged, Done, Goto, Excused
  <2>4. QED
    BY <2>1, <2>2, <2>3, <1>k DEF Leaves
<1>28. ASSUME NEW h \in Request, NEW d \in Table, DropNext(h, d) PROVE Known(t)'
  <2>1. \A v \in Worker : v # h => on'[v] = on[v]
    BY <1>28 DEF DropNext, Dropping
  <2>2. rows \subseteq rows'
    BY <1>28 DEF DropNext, Dropping
  <2>3. on[h] # None /\ on[h].table = t => on'[h] = on[h]
    BY <1>28, <1>a, <1>b DEF DropNext, Dropping, Excused
  <2>4. QED
    BY <2>1, <2>2, <2>3, <1>k DEF Leaves
<1>29. ASSUME NEW h \in Request, NEW d \in Table, DropNextFails(h, d) PROVE Known(t)'
  <2>1. \A v \in Worker : v # h => on'[v] = on[v]
    BY <1>29 DEF DropNextFails, Dropping, Leave
  <2>2. rows \subseteq rows'
    BY <1>29 DEF DropNextFails, Dropping, Leave
  <2>3. on[h] # None /\ on[h].table = t => on'[h] = on[h]
    BY <1>29, <1>a, <1>b DEF DropNextFails, Dropping, Leave, Excused
  <2>4. QED
    BY <2>1, <2>2, <2>3, <1>k DEF Leaves
<1>30. ASSUME NEW h \in Request, NEW j \in Instance, NEW src \in Instance, NEW s \in Slug, CreateTemplate(h, j, s, src)
       PROVE Known(t)'
  <2>1. \A v \in Worker : v # h => on'[v] = on[v]
    BY <1>30 DEF CreateTemplate, RowsOf, Begin, Goto
  <2>2. rows \subseteq rows'
    BY <1>30 DEF CreateTemplate, RowsOf, Begin, Goto
  <2>3. on[h] # None /\ on[h].table = t => on'[h] = on[h]
    BY <1>30, <1>a, <1>b DEF CreateTemplate, RowsOf, Begin, Goto, Excused
  <2>4. QED
    BY <2>1, <2>2, <2>3, <1>k DEF Leaves
<1>31. ASSUME NEW h \in Request, CloneGroups(h) PROVE Known(t)'
  <2>1. \A v \in Worker : v # h => on'[v] = on[v]
    BY <1>31 DEF CloneGroups, Done, Goto
  <2>2. rows \subseteq rows'
    BY <1>31 DEF CloneGroups, Done, Goto
  <2>3. on[h] # None /\ on[h].table = t => on'[h] = on[h]
    BY <1>31, <1>a, <1>b DEF CloneGroups, Done, Goto, Excused
  <2>4. QED
    BY <2>1, <2>2, <2>3, <1>k DEF Leaves
<1>32. ASSUME NEW h \in Request, Cloned(h) PROVE Known(t)'
  <2>1. \A v \in Worker : v # h => on'[v] = on[v]
    BY <1>32 DEF Cloned, Done, Goto
  <2>2. rows \subseteq rows'
    BY <1>32 DEF Cloned, Done, Goto
  <2>3. on[h] # None /\ on[h].table = t => on'[h] = on[h]
    BY <1>32, <1>a, <1>b DEF Cloned, Done, Goto, Excused
  <2>4. QED
    BY <2>1, <2>2, <2>3, <1>k DEF Leaves
<1>33. ASSUME NEW h \in Request, NEW r \in copying[h], CloneLayer(h, r) PROVE Known(t)'
  <2>1. \A v \in Worker : v # h => on'[v] = on[v]
    BY <1>33 DEF CloneLayer, Creatable, Done, Goto, Leave
  <2>2. rows \subseteq rows'
    BY <1>33 DEF CloneLayer, Creatable, Done, Goto, Leave
  <2>3. on[h] # None /\ on[h].table = t => on'[h] = on[h]
    BY <1>33, <1>a, <1>b DEF CloneLayer, Creatable, Done, Goto, Leave, Excused
  <2>4. QED
    BY <2>1, <2>2, <2>3, <1>k DEF Leaves
<1>34. QED
  BY <1>1, <1>2, <1>3, <1>4, <1>5, <1>6, <1>7, <1>8, <1>9, <1>10, <1>11, <1>12, <1>13, <1>14, <1>15,
     <1>16, <1>17, <1>18, <1>19, <1>20, <1>21, <1>22, <1>23, <1>24, <1>25, <1>26, <1>27, <1>28,
     <1>29, <1>30, <1>31, <1>32, <1>33
     DEF Step, Initialising, Making, Requesting, Deleting, Cloning

\* A table of an OSM layer its project lists has its row, or a worker at it.
LEMMA UnlistingStep ==
  ASSUME LinkInv, LinkInv', Kept, Steady, Effect, Watched', Erasing, ViewInv, UnlistInv, Step
  PROVE  Unlisting'
<1> SUFFICES ASSUME NEW i \in Instance, NEW l \in Extra, Sole(i, l)', NEW t, t = TableFor(i, l)',
                    t \in project'[slug'[i]], ~Excused(t)'
             PROVE  Known(t)'
  BY DEF Unlisting, Sole, Known
<1>1. slug'[i] \in Slug
  BY DEF Sole, Live, LinkInv, InstanceLinked
<1>2. status[i] # "absent"
  <2>1. SUFFICES ASSUME status[i] = "absent" PROVE FALSE
    OBVIOUS
  <2>2. status'[i] = "live" /\ project' = project
    BY <2>1 DEF Effect, Sole, Live
  <2>3. PICK j \in Instance : slug[j] = slug'[i]
    BY <1>1, <2>2 DEF UnlistInv, Served
  <2>4. status[j] # "absent" /\ slug'[j] = slug'[i]
    BY <1>1, <2>3 DEF LinkInv, InstanceLinked, Steady
  <2>5. QED
    BY <2>1, <2>4 DEF Sole, Alone
<1>3. slug'[i] = slug[i] /\ t = TableFor(i, l) /\ ~Excused(t)
  BY <1>2 DEF Steady, TableFor, Excused, Kept
<1>4. Sole(i, l)
  <2>1. Live(i) /\ slug[i] \notin clashed
    BY <1>2, <1>3 DEF Effect, Sole, Live, Steady
  <2>2. ASSUME NEW j \in Instance, slug[j] = slug[i] PROVE j = i
    BY <1>1, <1>3, <2>2 DEF LinkInv, InstanceLinked, Steady, Sole, Alone
  <2>3. QED
    BY <2>1, <2>2 DEF Sole, Alone, Distinct
<1>5. CASE t \in project[slug[i]]
  <2>1. Known(t)
    BY <1>3, <1>4, <1>5 DEF UnlistInv, Unlisting, Sole, Known
  <2>2. QED
    BY <1>3, <1>4, <1>5, <2>1, KnownStep DEF Sole, UnlistInv
<1>6. CASE t \notin project[slug[i]]
  <2>1. PICK v \in Worker : Saving(v)
    BY <1>3, <1>6 DEF Effect
  <2>2. pc[v] = "saving" /\ on[v].table = t
    BY <1>1, <1>3, <1>6, <2>1, Saved DEF Sole
  <2>3. on[v] # None /\ on'[v] = on[v]
    BY <2>1, <2>2 DEF Saving, LinkInv, InstanceLinked, RequestLinked, OnLayer, Worker
  <2>4. QED
    BY <2>2, <2>3 DEF Known
<1>7. QED
  BY <1>5, <1>6
-----------------------------------------------------------------------------
(* The theorems *)

IInv == LinkInv /\ Watched /\ TableInv /\ OrphanInv /\ ViewInv /\ ListInv /\ UnlistInv

\* The initial state satisfies the invariant.
LEMMA Initially ==
  ASSUME Init
  PROVE  IInv
<1> USE SlugAssumption DEF Init, Worker
<1>1. LinkInv
  BY DEF LinkInv, TypeOK, InstanceLinked, RequestLinked, RowsLinked, Steps, OnLayer, MakesIt, Layer
<1>2. Watched /\ TableInv
  BY DEF Watched, Writes, TableInv, Made, Erased, Backed
<1>3. OrphanInv
  BY DEF OrphanInv, Collected, Rowed, Erasing, Cleared, Owned
<1>4. ViewInv /\ ListInv
  BY DEF ViewInv, ListInv, Registered, Listing
<1>5. UnlistInv
  <2>1. Schemas /\ Served
    BY DEF Schemas, Served
  <2>2. \A i \in Instance : ~Live(i)
    BY DEF Live
  <2>3. QED
    BY <2>1, <2>2 DEF UnlistInv, Unlisting
<1>6. QED
  BY <1>1, <1>2, <1>3, <1>4, <1>5 DEF IInv

\* Every step keeps it.
LEMMA Inductive ==
  ASSUME IInv, [Next]_vars
  PROVE  IInv'
<1>1. CASE Next
  <2>1. Kept /\ Watched' /\ LinkInv' /\ Steady /\ Effect
    BY <1>1, WatchKeeps, LinkStep, SteadyStep, EffectStep DEF Next, IInv
  <2>2. TableInv' /\ OrphanInv' /\ ViewInv'
    BY <1>1, <2>1, TableStep, OrphanStep, ViewStep DEF Next, IInv
  <2>3. ListInv'
    BY <1>1, <2>1, RegisteredStep, ListingStep DEF Next, IInv, TableInv, ListInv
  <2>4. UnlistInv'
    BY <1>1, <2>1, SchemasStep, ServedStep, UnlistingStep DEF Next, IInv, OrphanInv, UnlistInv
  <2>5. QED
    BY <2>1, <2>2, <2>3, <2>4 DEF IInv
<1>2. CASE UNCHANGED vars
  <2> USE <1>2 DEF vars, catalogue, worker, request
  <2>1. LinkInv'
    BY DEF IInv, LinkInv, TypeOK, InstanceLinked, RequestLinked, RowsLinked, Labelled, Live, TableFor
  <2>2. Watched' /\ TableInv'
    BY DEF IInv, Watched, Writes, TableInv, Made, Erased, Backed, Excused
  <2>3. OrphanInv'
    BY DEF IInv, OrphanInv, Collected, Rowed, Erasing, Cleared, Owned, Excused, Writes, Live
  <2>4. ViewInv' /\ ListInv'
    BY DEF IInv, ViewInv, ListInv, Registered, Listing, Excused, Writes, File, InstOf
  <2>5. UnlistInv'
    BY DEF IInv, UnlistInv, Schemas, Served, Unlisting, OwnSchema, Excused, Live, Alone, Distinct, TableFor
  <2>6. QED
    BY <2>1, <2>2, <2>3, <2>4, <2>5 DEF IInv
<1>3. QED
  BY <1>1, <1>2

\* It holds in every state.
LEMMA Invariant == Spec => []IInv
<1>1. QED
  BY Initially, Inductive, PTL DEF Spec

\* Every variable keeps its type.
THEOREM TypeCorrect == Spec => []TypeOK
<1>1. IInv => TypeOK
  BY DEF IInv, LinkInv
<1>2. QED
  BY Invariant, <1>1, PTL

\* A layer of the catalogue has its table, whatever initialisations, rebuilds,
\* deletions and crashes come between a statement and the next.
THEOREM TableThere == Spec => []RowHasItsTable
<1>1. IInv => RowHasItsTable
  BY DEF IInv, TableInv, Backed, RowHasItsTable, Excused, Idle, Writers, Writes
<1>2. QED
  BY Invariant, <1>1, PTL

\* A table no layer names was left by a failure, or bears a hyphen its instance's
\* deletion does not write.
THEOREM RowThere == Spec => []NoTableWithoutRow
<1>1. IInv => NoTableWithoutRow
  BY DEF IInv, OrphanInv, Owned, NoTableWithoutRow, Excused, Idle, Naming, Writers, Writes, Plain
<1>2. QED
  BY Invariant, <1>1, PTL

\* The project of an instance lists its OSM layers, unless two scripts wrote it at once.
THEOREM ProjectLists == Spec => []ProjectListsLayers
<1>1. IInv => ProjectListsLayers
  BY DEF IInv, ListInv, Listing, ProjectListsLayers, Excused, Idle, Writers, Writes
<1>2. QED
  BY Invariant, <1>1, PTL

\* A deleted layer of an OSM tag is gone from its project.
THEOREM ProjectForgets == Spec => []DeletedIsUnlisted
<1>1. ASSUME IInv PROVE DeletedIsUnlisted
  <2>1. SUFFICES ASSUME NEW i \in Instance, NEW l \in Extra, Live(i), Naming(TableFor(i, l)) = {},
                        Idle(TableFor(i, l)), ~Excused(TableFor(i, l)), slug[i] \notin clashed,
                        Alone(i), Distinct(l), TableFor(i, l) \in project[slug[i]]
                 PROVE  FALSE
    BY DEF DeletedIsUnlisted, Excused, Alone, Distinct
  <2>2. \/ \E r \in rows : r.table = TableFor(i, l)
        \/ \E w \in Worker : on[w] # None /\ on[w].table = TableFor(i, l)
    BY <1>1, <2>1 DEF IInv, UnlistInv, Unlisting
  <2>3. QED
    BY <2>1, <2>2 DEF Naming, Idle, Writers
<1>2. QED
  BY Invariant, <1>1, PTL
=============================================================================
