------------------------------ MODULE Instances ------------------------------
(***************************************************************************)
(* An instance of the portal, the layers of its catalogue derived from OSM *)
(* data, their PostGIS tables and the QGIS project file that serves them.  *)
(*                                                                         *)
(* Creating an instance replies at once and goes on loading its default    *)
(* layers in the background; requests create further layers, rebuild the   *)
(* table of one, delete a layer, a group or the instance, or clone the     *)
(* catalogue into a new instance.  No handler locks anything: one action   *)
(* is one statement, with the checks up to the next await.  A table is     *)
(* dropped and created by two statements; the project file is read,        *)
(* changed and rewritten whole by a script of its own process.             *)
(*                                                                         *)
(* Left out: base maps and icons (their failures are caught), metadata and *)
(* styles, and the several groups of an instance, which are one here.      *)
(***************************************************************************)
EXTENDS Naturals, FiniteSets

CONSTANTS Instance,      \* the instances that may ever be created
          Slug, Bare,    \* their slugs, and each without its hyphens
          Default,       \* the layers every instance begins with
          Extra,         \* the names of layers made of an OSM tag
          Label, LabelOf,\* what is left of a layer's name in its table's
          Request, None

\* A schema and a name: the table of the label under the slug of an instance.
Table == Slug \X Label
\* A row of the table layers.
Layer == [inst : Instance, layer : Default \cup Extra, table : Table]
\* What works on a table: the background initialisation of an instance, a request.
Worker == Instance \cup Request

ASSUME SlugAssumption ==
  /\ Bare \in [Slug -> Slug] /\ \A s \in Slug : Bare[Bare[s]] = Bare[s]
  /\ LabelOf \in [Default \cup Extra -> Label]
  /\ Default \cap Extra = {} /\ Instance \cap Request = {}
  /\ None \notin Instance \cup Slug \cup Default \cup Extra \cup Layer

VARIABLES
  status, slug,  \* per instance: absent, live or deleted; its slug
  group,         \* the instances whose groups exist
  rows,          \* the catalogue: a set of Layer
  tables,        \* the tables there are
  project,       \* per slug: the tables its QGIS project file lists
  pc, on, view,  \* per worker: its next statement, the layer it is about,
                 \* and the project file as it read and changed it
  loading,       \* per instance: default layers its initialisation has yet to load
  subject, doomed, copying \* per request: the instance it is about, tables to
                           \* drop, rows to copy
(***************************************************************************)
(* History, read by no action: tables two rows named, or a worker wrote    *)
(* for one row while another row or worker had it; tables whose writing    *)
(* failed, whose row went by a cascade or was copied once gone, or made    *)
(* for an instance that was being deleted; project files                   *)
(* rewritten by one worker while another held what it had read, or whose   *)
(* script failed.                                                          *)
(***************************************************************************)
VARIABLES contested, left, clashed

catalogue == <<status, slug, group, rows>>
worker == <<pc, on, view>>
request == <<subject, doomed, copying>>
vars == <<catalogue, tables, project, worker, loading, request,
          contested, left, clashed>>

Steps == {"idle", "recording", "grouping", "next", "dropping", "creating", "adding",
          "saving", "describing", "rewriting", "registering", "erasing", "clearing", "unlisting",
          "deleting", "purging", "cloning", "copying"}

TypeOK ==
  /\ status \in [Instance -> {"absent", "live", "deleted"}]
  /\ slug \in [Instance -> Slug \cup {None}] /\ group \subseteq Instance
  /\ rows \subseteq Layer /\ tables \subseteq Table
  /\ project \in [Slug -> SUBSET Table]
  /\ pc \in [Worker -> Steps] /\ on \in [Worker -> Layer \cup {None}]
  /\ view \in [Worker -> SUBSET Table] /\ loading \in [Instance -> SUBSET Default]
  /\ subject \in [Request -> Instance \cup {None}]
  /\ doomed \in [Request -> SUBSET Table] /\ copying \in [Request -> SUBSET Layer]
  /\ contested \subseteq Table /\ left \subseteq Table /\ clashed \subseteq Slug

Init ==
  /\ status = [i \in Instance |-> "absent"] /\ slug = [i \in Instance |-> None]
  /\ group = {} /\ rows = {} /\ tables = {} /\ project = [s \in Slug |-> {}]
  /\ pc = [w \in Worker |-> "idle"] /\ on = [w \in Worker |-> None]
  /\ view = [w \in Worker |-> {}] /\ loading = [i \in Instance |-> {}]
  /\ subject = [h \in Request |-> None] /\ doomed = [h \in Request |-> {}]
  /\ copying = [h \in Request |-> {}]
  /\ contested = {} /\ left = {} /\ clashed = {}
-----------------------------------------------------------------------------
Live(i) == status[i] = "live"
SlugFree(s) == \A i \in Instance : Live(i) => slug[i] # s
LayerFree(i, l) == \A r \in rows : ~(r.inst = i /\ r.layer = l)
RowsOf(i) == {r \in rows : r.inst = i}

\* Schema and name of a layer's table, from the two slugs.
TableFor(i, l) == <<slug[i], LabelOf[l]>>

\* A version that swaps schema and name
DroppedSwapped(t) == <<t[2], t[1]>>
\* The table delete-instance drops for one a row names: the schema loses its hyphens.
Dropped(t) == <<Bare[t[1]], t[2]>>

\* The instance a worker's layer is of, and the project file it edits.
InstOf(w) == IF w \in Instance THEN w ELSE on[w].inst
File(w) == slug[InstOf(w)]

Goto(w, s) == pc' = [pc EXCEPT ![w] = s]

Done(h) ==
  /\ Goto(h, "idle") /\ on' = [on EXCEPT ![h] = None]
  /\ subject' = [subject EXCEPT ![h] = None] /\ doomed' = [doomed EXCEPT ![h] = {}]
  /\ copying' = [copying EXCEPT ![h] = {}]

\* The initialisation of an instance stops where an error or a crash finds it.
Stop(i) == Goto(i, "idle") /\ on' = [on EXCEPT ![i] = None]
           /\ loading' = [loading EXCEPT ![i] = {}]

Leave(x) == left' = left \cup x

-----------------------------------------------------------------------------
(***************************************************************************)
(* CreateInstanceUseCase: the row and the reply; then, in the background,  *)
(* the project row, the groups, and each default layer in turn.            *)
(***************************************************************************)
CreateInstance(i, s) ==
  /\ status[i] = "absent" /\ SlugFree(s)
  /\ status' = [status EXCEPT ![i] = "live"] /\ slug' = [slug EXCEPT ![i] = s]
  /\ Goto(i, "recording") /\ loading' = [loading EXCEPT ![i] = Default]
  /\ UNCHANGED <<group, rows, tables, project, on, view, request, left, clashed>>

RecordProject(i) ==
  /\ pc[i] = "recording"
  /\ IF Live(i) THEN Goto(i, "grouping") /\ UNCHANGED <<on, loading>> ELSE Stop(i)
  /\ UNCHANGED <<catalogue, tables, project, view, request, left, clashed>>

CreateGroups(i) ==
  /\ pc[i] = "grouping"
  /\ IF Live(i)
     THEN group' = group \cup {i} /\ Goto(i, "next") /\ UNCHANGED <<on, loading>>
     ELSE Stop(i) /\ UNCHANGED group
  /\ UNCHANGED <<status, slug, rows, tables, project, view, request, left, clashed>>

\* layerRepository.create: the instance and its group must exist, and the slug be
\* free in the instance.
Creatable(i, l) == Live(i) /\ i \in group /\ LayerFree(i, l)

LoadLayer(i, l) ==
  /\ pc[i] = "next" /\ l \in loading[i]
  /\ IF Creatable(i, l)
     THEN LET r == [inst |-> i, layer |-> l, table |-> TableFor(i, l)] IN
          /\ rows' = rows \cup {r} /\ on' = [on EXCEPT ![i] = r]
          /\ loading' = [loading EXCEPT ![i] = @ \ {l}] /\ Goto(i, "dropping")
     ELSE Stop(i) /\ UNCHANGED rows
  /\ UNCHANGED <<status, slug, group, tables, project, view, request, left, clashed>>

\* Every layer is loaded: the WMS capabilities are written into the project.
DescribeProject(i) ==
  /\ pc[i] = "next" /\ loading[i] = {}
  /\ on' = [on EXCEPT ![i] = None] /\ view' = [view EXCEPT ![i] = project[slug[i]]]
  /\ Goto(i, "describing")
  /\ UNCHANGED <<catalogue, tables, project, loading, request, left, clashed>>

-----------------------------------------------------------------------------
(***************************************************************************)
(* OsmQueryService.createTable, on behalf of an initialisation, a new      *)
(* layer or a resynchronisation: DROP IF EXISTS, then CREATE TABLE AS, an  *)
(* error when a table of that name is there again.  An initialisation      *)
(* catches it and goes on, a request ends.                                 *)
(***************************************************************************)
\* A version that drops the name without its hyphens
DropSanitised(w) ==
  /\ pc[w] = "dropping" /\ Goto(w, "creating")
  /\ tables' = tables \ {Dropped(on[w].table)}
  /\ UNCHANGED <<catalogue, project, on, view, loading, request, left, clashed>>

DropOld(w) ==
  /\ pc[w] = "dropping" /\ Goto(w, "creating")
  /\ tables' = tables \ {on[w].table}
  /\ UNCHANGED <<catalogue, project, on, view, loading, request, left, clashed>>

\* The instance a worker makes a table or a row for is being deleted, or is gone.
TooLate(i) == ~Live(i) \/ \E h \in Request : pc[h] = "deleting" /\ subject[h] = i

\* A resynchronisation is over with its table, the others list it in the project.
MadeTable(w) ==
  IF w \in Request /\ on[w].layer \in Default
  THEN Done(w) ELSE Goto(w, "adding") /\ UNCHANGED <<on, request>>

NoTable(w) == IF w \in Instance THEN Goto(w, "adding") /\ UNCHANGED <<on, request>>
              ELSE Done(w)

CreateTable(w) ==
  /\ pc[w] = "creating"
  /\ IF on[w].table \in tables
     THEN NoTable(w) /\ Leave({on[w].table}) /\ UNCHANGED tables
     ELSE /\ tables' = tables \cup {on[w].table} /\ MadeTable(w)
          /\ Leave(IF TooLate(InstOf(w)) THEN {on[w].table} ELSE {})
  /\ UNCHANGED <<catalogue, project, view, loading, clashed>>

\* Either statement fails for another reason.
TableFails(w) ==
  /\ pc[w] \in {"dropping", "creating"} /\ NoTable(w) /\ Leave({on[w].table})
  /\ UNCHANGED <<catalogue, tables, project, view, loading, clashed>>

(***************************************************************************)
(* addVectorLayer: the script reads the project, adds the layer if its     *)
(* table can be read, and writes the project.  Its failure is logged.      *)
(***************************************************************************)
Listed(w) == IF w \in Instance THEN "next" ELSE "registering"

\* A version that begins with an empty project
ReadNothing(w) ==
  /\ pc[w] = "adding"
  /\ IF on[w].table \in tables
     THEN view' = [view EXCEPT ![w] = {on[w].table}] /\ Goto(w, "saving")
     ELSE Goto(w, Listed(w)) /\ UNCHANGED view
  /\ UNCHANGED <<catalogue, tables, project, on, loading, request, left, clashed>>

ReadProject(w) ==
  /\ pc[w] = "adding"
  /\ IF on[w].table \in tables
     THEN /\ view' = [view EXCEPT ![w] = project[File(w)] \cup {on[w].table}]
          /\ Goto(w, "saving")
     ELSE Goto(w, Listed(w)) /\ UNCHANGED view
  /\ UNCHANGED <<catalogue, tables, project, on, loading, request, left, clashed>>

AddFails(w) ==
  /\ pc[w] = "adding" /\ Goto(w, Listed(w)) /\ clashed' = clashed \cup {File(w)}
  /\ UNCHANGED <<catalogue, tables, project, on, view, loading, request, left>>

\* Others hold what they read of the file this worker writes.
Holding(w) == {v \in Worker \ {w} : pc[v] \in {"saving", "describing", "rewriting"}
                                     /\ File(v) = File(w)}

SaveFile(w) ==
  /\ project' = [project EXCEPT ![File(w)] = view[w]]
  /\ view' = [view EXCEPT ![w] = {}]
  /\ clashed' = clashed \cup IF Holding(w) = {} THEN {} ELSE {File(w)}

SaveAdded(w) ==
  /\ pc[w] = "saving" /\ SaveFile(w) /\ Goto(w, Listed(w))
  /\ UNCHANGED <<catalogue, tables, on, loading, request, left>>

SaveDescribed(i) ==
  /\ pc[i] = "describing" /\ SaveFile(i) /\ Goto(i, "idle")
  /\ UNCHANGED <<catalogue, tables, on, loading, request, left>>

-----------------------------------------------------------------------------
(***************************************************************************)
(* CreateLayerFromOsmUseCase: the table, the project, and last the row.    *)
(***************************************************************************)
Begin(h, s, i, r) ==
  /\ pc[h] = "idle" /\ Goto(h, s)
  /\ subject' = [subject EXCEPT ![h] = i] /\ on' = [on EXCEPT ![h] = r]

AskOsmLayer(h, i, l) ==
  /\ Live(i) /\ LayerFree(i, l)
  /\ Begin(h, "dropping", i, [inst |-> i, layer |-> l, table |-> TableFor(i, l)])
  /\ UNCHANGED <<catalogue, tables, project, view, loading, doomed, copying,
                 left, clashed>>

RegisterLayer(h) ==
  /\ pc[h] = "registering" /\ Done(h)
  /\ IF Creatable(subject[h], on[h].layer)
     THEN /\ rows' = rows \cup {on[h]}
          /\ Leave(IF TooLate(subject[h]) THEN {on[h].table} ELSE {})
     ELSE UNCHANGED rows /\ Leave({on[h].table})
  /\ UNCHANGED <<status, slug, group, tables, project, view, loading, clashed>>

\* ResyncLayerUseCase: a default layer of its instance, not the clone of another's.
AskResync(h, r) ==
  /\ r \in rows /\ r.layer \in Default /\ r.table[1] = slug[r.inst]
  /\ Begin(h, "dropping", r.inst, r)
  /\ UNCHANGED <<catalogue, tables, project, view, loading, doomed, copying,
                 left, clashed>>

-----------------------------------------------------------------------------
(***************************************************************************)
(* DeleteLayerUseCase: the row, its table, its entry in the project, each  *)
(* failure caught but the first.                                           *)
(***************************************************************************)
AskDeleteLayer(h, r) ==
  /\ r \in rows /\ Begin(h, "erasing", r.inst, r)
  /\ UNCHANGED <<catalogue, tables, project, view, loading, doomed, copying,
                 left, clashed>>

EraseRow(h) ==
  /\ pc[h] = "erasing"
  /\ IF on[h] \in rows
     THEN rows' = rows \ {on[h]} /\ Goto(h, "clearing") /\ UNCHANGED <<on, request>>
     ELSE Done(h) /\ UNCHANGED rows
  /\ UNCHANGED <<status, slug, group, tables, project, view, loading, left, clashed>>

DropTable(h) ==
  /\ pc[h] = "clearing" /\ Goto(h, "unlisting") /\ tables' = tables \ {on[h].table}
  /\ UNCHANGED <<catalogue, project, on, view, loading, request, left, clashed>>

DropTableFails(h) ==
  /\ pc[h] = "clearing" /\ Goto(h, "unlisting") /\ Leave({on[h].table})
  /\ UNCHANGED <<catalogue, tables, project, on, view, loading, request, clashed>>

\* A version that finds none
NeverFound(w) == FALSE
\* remove_layer.py finds the layer by the row's sourceLayer: the name of its table,
\* but for a default layer, whose sourceLayer has a prefix no project layer has.
Findable(w) == on[w].layer \in Extra /\ on[w].table \in project[File(w)]

Unlist(h) ==
  /\ pc[h] = "unlisting"
  /\ IF Live(subject[h]) /\ Findable(h)
     THEN /\ view' = [view EXCEPT ![h] = project[File(h)] \ {on[h].table}]
          /\ Goto(h, "rewriting") /\ UNCHANGED <<on, request>>
     ELSE Done(h) /\ UNCHANGED view
  /\ UNCHANGED <<catalogue, tables, project, loading, left, clashed>>

SaveRemoved(h) ==
  /\ pc[h] = "rewriting" /\ SaveFile(h) /\ Done(h)
  /\ UNCHANGED <<catalogue, tables, loading, left>>

\* DeleteGroupUseCase: the row; the layers under it go by cascade, their tables stay.
DeleteGroup(i) ==
  /\ i \in group /\ group' = group \ {i} /\ rows' = rows \ RowsOf(i)
  /\ Leave({r.table : r \in RowsOf(i)})
  /\ UNCHANGED <<status, slug, tables, project, worker, loading, request, clashed>>

-----------------------------------------------------------------------------
\* A version that collects the tables after the cascade
CollectLate(h, i) ==
  /\ Live(i) /\ Begin(h, "deleting", i, None) /\ UNCHANGED doomed
  /\ UNCHANGED <<catalogue, tables, project, view, loading, copying, left, clashed>>

(***************************************************************************)
(* DeleteInstanceUseCase: the tables its rows name, the row with all that  *)
(* hangs on it, then the tables one by one.  The project file stays.       *)
(***************************************************************************)
CollectTables(h, i) ==
  /\ Live(i) /\ Begin(h, "deleting", i, None)
  /\ doomed' = [doomed EXCEPT ![h] = {Dropped(r.table) : r \in RowsOf(i)}]
  /\ UNCHANGED <<catalogue, tables, project, view, loading, copying, left, clashed>>

Cascade(h) ==
  /\ pc[h] = "deleting"
  /\ IF Live(subject[h])
     THEN /\ status' = [status EXCEPT ![subject[h]] = "deleted"]
          /\ group' = group \ {subject[h]} /\ rows' = rows \ RowsOf(subject[h])
          /\ Goto(h, "purging") /\ UNCHANGED <<on, request>>
     ELSE Done(h) /\ UNCHANGED <<status, group, rows>>
  /\ UNCHANGED <<slug, tables, project, view, loading, left, clashed>>

Dropping(h, t, gone) ==
  /\ pc[h] = "purging" /\ t \in doomed[h] /\ tables' = tables \ gone
  /\ doomed' = [doomed EXCEPT ![h] = @ \ {t}]
  /\ UNCHANGED <<catalogue, project, worker, loading, subject, copying, clashed>>

DropNext(h, t) == Dropping(h, t, {t}) /\ UNCHANGED left
DropNextFails(h, t) == Dropping(h, t, {}) /\ Leave({t})

Purged(h) ==
  /\ pc[h] = "purging" /\ doomed[h] = {} /\ Done(h)
  /\ UNCHANGED <<catalogue, tables, project, view, loading, left, clashed>>

-----------------------------------------------------------------------------
(***************************************************************************)
(* CreateInstanceTemplateUseCase: the new instance, then what its source   *)
(* has at that moment, row by row; each copy names the table of its source.*)
(***************************************************************************)
CreateTemplate(h, i, s, src) ==
  /\ i # src /\ status[i] = "absent" /\ SlugFree(s) /\ Live(src)
  /\ status' = [status EXCEPT ![i] = "live"] /\ slug' = [slug EXCEPT ![i] = s]
  /\ Begin(h, "cloning", i, None)
  /\ copying' = [copying EXCEPT ![h] = RowsOf(src)]
  /\ UNCHANGED <<group, rows, tables, project, view, loading, doomed, left, clashed>>

CloneGroups(h) ==
  /\ pc[h] = "cloning"
  /\ IF Live(subject[h])
     THEN group' = group \cup {subject[h]} /\ Goto(h, "copying")
          /\ UNCHANGED <<on, request>>
     ELSE Done(h) /\ UNCHANGED group
  /\ UNCHANGED <<status, slug, rows, tables, project, view, loading, left, clashed>>

CloneLayer(h, r) ==
  /\ pc[h] = "copying" /\ r \in copying[h]
  /\ IF Creatable(subject[h], r.layer)
     THEN /\ rows' = rows \cup {[r EXCEPT !.inst = subject[h]]}
          /\ copying' = [copying EXCEPT ![h] = @ \ {r}]
          /\ Leave({r.table} \ {q.table : q \in rows})
          /\ UNCHANGED <<pc, on, subject, doomed>>
     ELSE Done(h) /\ UNCHANGED <<rows, left>>
  /\ UNCHANGED <<status, slug, group, tables, project, view, loading, clashed>>

Cloned(h) ==
  /\ pc[h] = "copying" /\ copying[h] = {} /\ Done(h)
  /\ UNCHANGED <<catalogue, tables, project, view, loading, left, clashed>>

-----------------------------------------------------------------------------
\* What a worker was to write, when it dies.
Unfinished(w) == (IF on[w] = None THEN {} ELSE {on[w].table})
                   \cup IF w \in Request THEN doomed[w] ELSE {}

Crash(i) ==
  /\ i \in Instance /\ pc[i] # "idle" /\ Stop(i) /\ Leave(Unfinished(i))
  /\ view' = [view EXCEPT ![i] = {}]
  /\ UNCHANGED <<catalogue, tables, project, request, clashed>>

Abort(h) ==
  /\ h \in Request /\ pc[h] # "idle" /\ Done(h) /\ Leave(Unfinished(h))
  /\ view' = [view EXCEPT ![h] = {}]
  /\ UNCHANGED <<catalogue, tables, project, loading, clashed>>

-----------------------------------------------------------------------------
(***************************************************************************)
(* A table is contested once two rows name it, two workers write it, or    *)
(* one writes it for another row than the one that names it.               *)
(***************************************************************************)
Naming(t) == {r \in rows : r.table = t}
Writers(t) ==
  {w \in Worker : \/ on[w] # None /\ on[w].table = t
                  \/ w \in Request /\ t \in doomed[w] /\ pc[w] = "purging"}
Contested(t) ==
  \/ \E q, r \in Naming(t) : q # r
  \/ \E v, w \in Writers(t) : v # w
  \/ \E w \in Writers(t), r \in Naming(t) : on[w] # r
Watch == contested' = contested \cup {t \in Table : Contested(t)'}

Initialising(i) ==
  \/ \E s \in Slug : CreateInstance(i, s)
  \/ RecordProject(i) \/ CreateGroups(i) \/ DescribeProject(i) \/ SaveDescribed(i)
  \/ \E l \in Default : LoadLayer(i, l)
  \/ Crash(i)

Making(w) ==
  DropOld(w) \/ CreateTable(w) \/ TableFails(w) \/ ReadProject(w) \/ AddFails(w)
  \/ SaveAdded(w)

Requesting(h) ==
  \/ \E i \in Instance, l \in Extra : AskOsmLayer(h, i, l)
  \/ RegisterLayer(h)
  \/ \E r \in rows : AskResync(h, r) \/ AskDeleteLayer(h, r)
  \/ EraseRow(h) \/ DropTable(h) \/ DropTableFails(h) \/ Unlist(h) \/ SaveRemoved(h)
  \/ Abort(h)

Deleting(h) ==
  \/ \E i \in Instance : CollectTables(h, i)
  \/ Cascade(h) \/ Purged(h)
  \/ \E t \in Table : DropNext(h, t) \/ DropNextFails(h, t)

Cloning(h) ==
  \/ \E i, src \in Instance, s \in Slug : CreateTemplate(h, i, s, src)
  \/ CloneGroups(h) \/ Cloned(h)
  \/ \E r \in copying[h] : CloneLayer(h, r)

Step ==
  \/ \E i \in Instance : Initialising(i) \/ DeleteGroup(i)
  \/ \E w \in Worker : Making(w)
  \/ \E h \in Request : Requesting(h) \/ Deleting(h) \/ Cloning(h)
Next == Step /\ Watch
Spec == Init /\ [][Next]_vars
-----------------------------------------------------------------------------
Idle(t) == Writers(t) = {}

\* A layer of the catalogue has its table, however initialisations, rebuilds and
\* deletions interleave, unless its creation failed or another layer's name led to
\* the same table.
RowHasItsTable ==
  \A r \in rows : r.table \in tables \cup contested \cup left \/ ~Idle(r.table)

\* A table no row names was left by a failure, a cascade, a worker that made it for
\* an instance on its way out, or bears a hyphen delete-instance does not write.
NoTableWithoutRow ==
  \A t \in tables :
    \/ Naming(t) # {} \/ ~Idle(t) \/ t \in contested \cup left \/ Bare[t[1]] # t[1]

\* The project of an instance lists the table of each of its OSM layers, unless two
\* scripts rewrote the file at once or a script on it failed.
ProjectListsLayers ==
  \A r \in rows :
    /\ r.layer \in Extra /\ r.table[1] = slug[r.inst] /\ Idle(r.table)
    /\ r.table \notin contested \cup left /\ slug[r.inst] \notin clashed
    => r.table \in project[slug[r.inst]]

\* A layer of an OSM tag that was deleted is listed by no project: a stale entry
\* makes QGIS Server refuse every layer of the project.
DeletedIsUnlisted ==
  \A i \in Instance, l \in Extra :
    LET t == TableFor(i, l) IN
    /\ Live(i) /\ Naming(t) = {} /\ Idle(t) /\ t \notin contested \cup left
    /\ slug[i] \notin clashed /\ \A j \in Instance : slug[j] = slug[i] => j = i
    /\ \A d \in Default : LabelOf[d] # LabelOf[l]
    => t \notin project[slug[i]]

(***************************************************************************)
(* What the documentation says, and the code does not do.                  *)
(***************************************************************************)
\* "les tables d'autres instances ne sont jamais touchees": what delete-instance
\* is about to drop, no row of another instance names.  It takes the hyphens out of
\* the schema it read, and may so meet the schema of an instance with a bare slug.
DeletionSparesOthers ==
  \A h \in Request : pc[h] = "purging" => \A t \in doomed[h] : Naming(t) = {}

\* "nettoie aussi ... son entree dans le projet QGIS de l'instance": the same of a
\* default layer.
DeletedLayerLeavesProject ==
  \A i \in Instance, l \in Default :
    LET t == TableFor(i, l) IN
    /\ Live(i) /\ Naming(t) = {} /\ Idle(t) /\ t \notin contested \cup left
    /\ slug[i] \notin clashed /\ pc[i] = "idle"
    /\ \A j \in Instance : slug[j] = slug[i] => j = i
    => t \notin project[slug[i]]
=============================================================================
