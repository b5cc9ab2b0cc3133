-------------------------- MODULE LayerTablesProofs --------------------------
(***************************************************************************)
(* Proofs about LayerTables, for any number of files, project layers,      *)
(* names, rows and requests, and any way names share tables.               *)
(***************************************************************************)
EXTENDS LayerTables, TLAPS

\* Statements of requests about a file; those that name a catalogue slug; those
\* that were reached through a personal layer's record, and before it has one
OnFile == {"importing", "renaming", "recording", "adopting", "shifting", "naming",
           "registering", "probing", "locating", "moving", "clearing"}
Named == {"adopting", "shifting", "naming", "registering", "approving", "probing",
          "locating", "moving", "cataloguing", "publishing"}
Recorded == {"requesting", "rejecting", "approving", "probing", "locating", "moving",
             "cataloguing", "publishing", "dropping", "erasing"}
Unrecorded == {"renaming", "recording", "naming", "registering"}

\* What a request still refers to is there, where it awaits.
RequestsLinked ==
  \A h \in Request :
    /\ pc[h] # "idle" => subject[h] \in Personal
    /\ pc[h] = "idle" => subject[h] = None
    /\ pc[h] \in OnFile => subject[h] \in Dataset
    /\ pc[h] \in Named => name[h] \in Name
    /\ pc[h] \in {"removing", "clearing"} =>
         target[h] \in Row /\ of[target[h]] = subject[h]
    /\ pc[h] \in Recorded => status[subject[h]] # "absent"
    /\ pc[h] \in Unrecorded => status[subject[h]] = "absent"

RowsLinked ==
  \A r \in Row : IF of[r] = None THEN r \notin live ELSE slug[r] \in Name

\* What is about to be dropped for a personal layer was recorded once.
DoomedRecorded == \A d \in Dataset : d \in doomed => status[d] # "absent"

LinkInv == TypeOK /\ RequestsLinked /\ RowsLinked /\ DoomedRecorded

-----------------------------------------------------------------------------
\* A request that has taken a file's table and not written of it yet
Moves(h, d) ==
  /\ subject[h] = d
  /\ pc[h] \in {"renaming", "recording", "naming", "registering", "cataloguing"}

\* One request at a time has a file's table in hand, before any row speaks of it,
\* and the table is where its last statement put it, or dropped by name.
MoveInv ==
  /\ \A h \in Request, d \in Dataset : Moves(h, d) =>
       /\ \A r \in Row : of[r] # d
       /\ pc[h] \in {"renaming", "naming"} => at[d] = "halfway"
       /\ pc[h] = "recording" => at[d] = "personal"
       /\ pc[h] \in {"registering", "cataloguing"} => at[d] \in {TableOf[name[h]], "none"}
  /\ \A g, h \in Request, d \in Dataset : Moves(g, d) /\ Moves(h, d) => g = h
  /\ \A d \in Dataset : at[d] = "staging" =>
       status[d] = "absent" /\ \A r \in Row : of[r] # d
  /\ \A d \in Dataset, r \in Row : of[r] = d => at[d] \in {RowTable(r), "none"}
  /\ FilePublishedOnce

\* A table has one file's data at most; and whoever may drop a table by name, or
\* is about to write its row, is the one whose file is there.
Holds(d, t) == at[d] = t \/ t \in purged
HoldInv ==
  /\ \A d, e \in Dataset : at[d] \in Table /\ at[d] = at[e] => d = e
  /\ \A h \in Request : pc[h] \in {"registering", "cataloguing"} /\ subject[h] \in Dataset
       => Holds(subject[h], TableOf[name[h]])
  /\ \A h \in Request : pc[h] = "clearing" =>
       target[h] \notin live /\ Holds(subject[h], RowTable(target[h]))
  /\ \A g, h \in Request : pc[g] = "clearing" /\ pc[h] = "clearing" /\ target[g] = target[h] => g = h
  /\ RowHasItsTable

\* A personal table goes with its record, and the row outlives its publication.
PersonalInv ==
  /\ PersonalHasItsTable
  /\ \A h \in Request : pc[h] = "publishing" /\ subject[h] \in Dataset =>
       \E r \in Row : of[r] = subject[h]

\* Where a table is, something speaks of it, or the request that has it in hand.
InHand(d, S) == \E h \in Request : subject[h] = d /\ pc[h] \in S
Accounted(d) ==
  \/ at[d] \in {"none", "staging"} \/ d \in failed
  \/ at[d] = "halfway" /\ InHand(d, {"renaming", "naming"})
  \/ at[d] = "personal" /\ (status[d] \in Existing \/ InHand(d, {"recording"}))
  \/ /\ at[d] \in Table
     /\ \/ \E r \in live : of[r] = d
        \/ InHand(d, {"registering", "cataloguing", "clearing"})
OrphanInv ==
  /\ \A d \in Dataset : Accounted(d)
  /\ \A h \in Request : pc[h] = "erasing" /\ subject[h] \in Dataset =>
       at[subject[h]] # "personal" \/ subject[h] \in failed

\* What the purge has read, what was written since, and what it will drop
PurgeInv ==
  /\ purging \in {"layers", "both"} =>
       \A r \in live : of[r] \in Dataset => RowTable(r) \in refs \/ r \in late
  /\ purging = "both" => \A d \in Dataset : status[d] \in Existing => d \in refs \cup late
  /\ purging # "dropping" => doomed = {}
  /\ PurgeSparesWhatItFound
-----------------------------------------------------------------------------
(* What requests refer to, and which of them has a file in hand *)

\* Every step keeps the types, and what a request refers to.
LEMMA LinkStep == LinkInv /\ MoveInv /\ [Next]_vars => LinkInv'
<1> SUFFICES ASSUME LinkInv, MoveInv, [Next]_vars PROVE LinkInv'
  OBVIOUS
<1> USE NamingAssumption DEF TypeOK, AtPlaces, Existing, Working, Personal, catalogue, request,
     purge, history, LinkInv, RequestsLinked, RowsLinked, DoomedRecorded, OnFile, Named, Recorded,
     Unrecorded, RowTable
<1>1. ASSUME NEW d \in Dataset, Stage(d) PROVE LinkInv'
  BY <1>1 DEF Stage
<1>2. ASSUME NEW d \in Dataset, CleanupOrphanedTables(d) PROVE LinkInv'
  BY <1>2 DEF CleanupOrphanedTables
<1>3. ASSUME NEW h \in Request, NEW d \in Dataset, SeeStaging(h, d) PROVE LinkInv'
  BY <1>3 DEF SeeStaging, Begin
<1>4. ASSUME NEW h \in Request, SetPersonalSchema(h) PROVE LinkInv'
  <2>1. at[subject[h]] = "staging" => status[subject[h]] = "absent"
    BY <1>4 DEF SetPersonalSchema, MoveInv
  <2>2. CASE at[subject[h]] = "staging"
    BY <1>4, <2>1, <2>2 DEF SetPersonalSchema, TakeFromStaging, Await
  <2>3. CASE at[subject[h]] # "staging"
    BY <1>4, <2>3 DEF SetPersonalSchema, TakeFromStaging, Fail, Reply, Touched
  <2>4. QED
    BY <2>2, <2>3
<1>5. ASSUME NEW h \in Request, RenamePersonal(h) PROVE LinkInv'
  BY <1>5 DEF RenamePersonal, Await
<1>6. ASSUME NEW h \in Request, RecordPersonal(h) PROVE LinkInv'
  BY <1>6 DEF RecordPersonal, Reply, NewlySeen, MoveInv, Moves
<1>7. ASSUME NEW h \in Request, NEW d \in Dataset, NEW n \in Name, AskCatalogue(h, d, n) PROVE LinkInv'
  BY <1>7 DEF AskCatalogue, Begin
<1>8. ASSUME NEW h \in Request, CheckSlug(h) PROVE LinkInv'
  BY <1>8 DEF CheckSlug, Await, Fail, Reply, Touched
<1>9. ASSUME NEW h \in Request, SetFinalSchema(h) PROVE LinkInv'
  <2>1. at[subject[h]] = "staging" => status[subject[h]] = "absent"
    BY <1>9 DEF SetFinalSchema, MoveInv
  <2>2. CASE at[subject[h]] = "staging"
    BY <1>9, <2>1, <2>2 DEF SetFinalSchema, TakeFromStaging, Await
  <2>3. CASE at[subject[h]] # "staging"
    BY <1>9, <2>3 DEF SetFinalSchema, TakeFromStaging, Fail, Reply, Touched
  <2>4. QED
    BY <2>2, <2>3
<1>10. ASSUME NEW h \in Request, RenameFinal(h) PROVE LinkInv'
  BY <1>10 DEF RenameFinal, Exists, Await, Fail, Reply, Touched
<1>11. ASSUME NEW h \in Request, RegisterLayer(h) PROVE LinkInv'
  BY <1>11 DEF RegisterLayer, CreateRow, Unused, NewlySeen, Fail, Reply, Touched
<1>12. ASSUME NEW h \in Request, NEW p \in Personal, ReadForRequest(h, p) PROVE LinkInv'
  BY <1>12 DEF ReadForRequest, Begin
<1>13. ASSUME NEW h \in Request, NEW p \in Personal, ReadForReject(h, p) PROVE LinkInv'
  BY <1>13 DEF ReadForReject, Begin
<1>14. ASSUME NEW h \in Request, RequestPublication(h) PROVE LinkInv'
  BY <1>14 DEF RequestPublication, WriteStatus, Fail, Reply, Touched
<1>15. ASSUME NEW h \in Request, Reject(h) PROVE LinkInv'
  BY <1>15 DEF Reject, WriteStatus, Fail, Reply, Touched
<1>16. ASSUME NEW h \in Request, NEW p \in Personal, NEW n \in Name, ReadForApprove(h, p, n) PROVE LinkInv'
  BY <1>16 DEF ReadForApprove, Begin
<1>17. ASSUME NEW h \in Request, FindBySlug(h) PROVE LinkInv'
  BY <1>17 DEF FindBySlug, Await, Fail, Reply, Touched
<1>18. ASSUME NEW h \in Request, ProbeFinal(h) PROVE LinkInv'
  BY <1>18 DEF ProbeFinal, Await, Fail, Reply, Touched
<1>19. ASSUME NEW h \in Request, LocateOriginal(h) PROVE LinkInv'
  BY <1>19 DEF LocateOriginal, Await, Fail, Reply, Touched
<1>20. ASSUME NEW h \in Request, MoveTable(h) PROVE LinkInv'
  BY <1>20 DEF MoveTable, Exists, Await, Fail, Reply, Touched
<1>21. ASSUME NEW h \in Request, CatalogueLayer(h) PROVE LinkInv'
  BY <1>21 DEF CatalogueLayer, CreateRow, Unused, NewlySeen, Await, Fail, Reply, Touched
<1>22. ASSUME NEW h \in Request, Publish(h) PROVE LinkInv'
  BY <1>22 DEF Publish, WriteStatus, Fail, Reply, Touched
<1>23. ASSUME NEW h \in Request, NEW p \in Personal, ReadForDelete(h, p) PROVE LinkInv'
  BY <1>23 DEF ReadForDelete, Begin
<1>24. ASSUME NEW h \in Request, DropPersonal(h) PROVE LinkInv'
  BY <1>24 DEF DropPersonal, WithoutTable, Located, Await
<1>25. ASSUME NEW h \in Request, DropPersonalFails(h) PROVE LinkInv'
  BY <1>25 DEF DropPersonalFails, Await
<1>26. ASSUME NEW h \in Request, ErasePersonal(h) PROVE LinkInv'
  BY <1>26 DEF ErasePersonal, WriteStatus, Fail, Reply, Touched
<1>27. ASSUME NEW h \in Request, NEW r \in Row, ReadLayer(h, r) PROVE LinkInv'
  BY <1>27 DEF ReadLayer, Begin
<1>28. ASSUME NEW h \in Request, DeleteRow(h) PROVE LinkInv'
  BY <1>28 DEF DeleteRow, Await, Fail, Reply, Touched
<1>29. ASSUME NEW h \in Request, DropTable(h) PROVE LinkInv'
  BY <1>29 DEF DropTable, WithoutTable, Located, Reply
<1>30. ASSUME NEW h \in Request, Abort(h) PROVE LinkInv'
  BY <1>30 DEF Abort, Fail, Reply, Touched
<1>31. ASSUME NEW j \in Project, StageProject(j) PROVE LinkInv'
  BY <1>31 DEF StageProject
<1>32. ASSUME NEW p \in Linked, RecordLeaf(p) PROVE LinkInv'
  BY <1>32 DEF RecordLeaf
<1>33. ASSUME ReadLayerRefs PROVE LinkInv'
  BY <1>33 DEF ReadLayerRefs, LayerRefs
<1>34. ASSUME ReadPersonalRefs PROVE LinkInv'
  BY <1>34 DEF ReadPersonalRefs, PersonalRefs
<1>35. ASSUME ListTables PROVE LinkInv'
  BY <1>35 DEF ListTables, Orphans, Candidates, Physical, Located, LayerRefs, PersonalRefs, Forget
<1>36. ASSUME NEW l \in Dataset \cup Table, DropOrphan(l) PROVE LinkInv'
  BY <1>36 DEF DropOrphan, WithoutTable, Located, Physical, Forget
<1>37. ASSUME PurgeDies PROVE LinkInv'
  BY <1>37 DEF PurgeDies, Forget
<1>38. CASE UNCHANGED vars
  BY <1>38 DEF vars
<1>39. QED
  BY <1>1, <1>2, <1>3, <1>4, <1>5, <1>6, <1>7, <1>8, <1>9, <1>10, <1>11, <1>12, <1>13, <1>14, <1>15,
     <1>16, <1>17, <1>18, <1>19, <1>20, <1>21, <1>22, <1>23, <1>24, <1>25, <1>26, <1>27, <1>28,
     <1>29, <1>30, <1>31, <1>32, <1>33, <1>34, <1>35, <1>36, <1>37, <1>38
     DEF Next, Files, Projects, Leaves, Purge, Importing, FromStaging, Asking, Approving, Deleting

\* One request at a time has a file in hand, and a file has one row at most.
LEMMA MoveStep == LinkInv /\ MoveInv /\ [Next]_vars => MoveInv'
<1> SUFFICES ASSUME LinkInv, MoveInv, [Next]_vars PROVE MoveInv'
  OBVIOUS
<1> USE NamingAssumption DEF TypeOK, AtPlaces, Existing, Working, Personal, catalogue, request,
     purge, history, LinkInv, RequestsLinked, RowsLinked, DoomedRecorded, OnFile, Named, Recorded,
     Unrecorded, RowTable, MoveInv, Moves, FilePublishedOnce
<1>1. ASSUME NEW d \in Dataset, Stage(d) PROVE MoveInv'
  BY <1>1 DEF Stage
<1>2. ASSUME NEW d \in Dataset, CleanupOrphanedTables(d) PROVE MoveInv'
  BY <1>2 DEF CleanupOrphanedTables
<1>3. ASSUME NEW h \in Request, NEW d \in Dataset, SeeStaging(h, d) PROVE MoveInv'
  BY <1>3 DEF SeeStaging, Begin
<1>4. ASSUME NEW h \in Request, SetPersonalSchema(h) PROVE MoveInv'
  BY <1>4 DEF SetPersonalSchema, TakeFromStaging, Await, Fail, Reply, Touched
<1>5. ASSUME NEW h \in Request, RenamePersonal(h) PROVE MoveInv'
  BY <1>5 DEF RenamePersonal, Await
<1>6. ASSUME NEW h \in Request, RecordPersonal(h) PROVE MoveInv'
  BY <1>6 DEF RecordPersonal, Reply, NewlySeen
<1>7. ASSUME NEW h \in Request, NEW d \in Dataset, NEW n \in Name, AskCatalogue(h, d, n) PROVE MoveInv'
  BY <1>7 DEF AskCatalogue, Begin
<1>8. ASSUME NEW h \in Request, CheckSlug(h) PROVE MoveInv'
  BY <1>8 DEF CheckSlug, Await, Fail, Reply, Touched
<1>9. ASSUME NEW h \in Request, SetFinalSchema(h) PROVE MoveInv'
  BY <1>9 DEF SetFinalSchema, TakeFromStaging, Await, Fail, Reply, Touched
<1>10. ASSUME NEW h \in Request, RenameFinal(h) PROVE MoveInv'
  BY <1>10 DEF RenameFinal, Exists, Await, Fail, Reply, Touched
<1>11. ASSUME NEW h \in Request, RegisterLayer(h) PROVE MoveInv'
  BY SMTT(30), <1>11 DEF RegisterLayer, CreateRow, Unused, NewlySeen, Fail, Reply, Touched
<1>12. ASSUME NEW h \in Request, NEW p \in Personal, ReadForRequest(h, p) PROVE MoveInv'
  BY <1>12 DEF ReadForRequest, Begin
<1>13. ASSUME NEW h \in Request, NEW p \in Personal, ReadForReject(h, p) PROVE MoveInv'
  BY <1>13 DEF ReadForReject, Begin
<1>14. ASSUME NEW h \in Request, RequestPublication(h) PROVE MoveInv'
  BY <1>14 DEF RequestPublication, WriteStatus, Fail, Reply, Touched
<1>15. ASSUME NEW h \in Request, Reject(h) PROVE MoveInv'
  BY <1>15 DEF Reject, WriteStatus, Fail, Reply, Touched
<1>16. ASSUME NEW h \in Request, NEW p \in Personal, NEW n \in Name, ReadForApprove(h, p, n) PROVE MoveInv'
  BY <1>16 DEF ReadForApprove, Begin
<1>17. ASSUME NEW h \in Request, FindBySlug(h) PROVE MoveInv'
  BY <1>17 DEF FindBySlug, Await, Fail, Reply, Touched
<1>18. ASSUME NEW h \in Request, ProbeFinal(h) PROVE MoveInv'
  BY <1>18 DEF ProbeFinal, Await, Fail, Reply, Touched
<1>19. ASSUME NEW h \in Request, LocateOriginal(h) PROVE MoveInv'
  BY <1>19 DEF LocateOriginal, Await, Fail, Reply, Touched
<1>20. ASSUME NEW h \in Request, MoveTable(h) PROVE MoveInv'
  BY <1>20 DEF MoveTable, Exists, Await, Fail, Reply, Touched
<1>21. ASSUME NEW h \in Request, CatalogueLayer(h) PROVE MoveInv'
  BY <1>21 DEF CatalogueLayer, CreateRow, Unused, NewlySeen, Await, Fail, Reply, Touched
<1>22. ASSUME NEW h \in Request, Publish(h) PROVE MoveInv'
  BY <1>22 DEF Publish, WriteStatus, Fail, Reply, Touched
<1>23. ASSUME NEW h \in Request, NEW p \in Personal, ReadForDelete(h, p) PROVE MoveInv'
  BY <1>23 DEF ReadForDelete, Begin
<1>24. ASSUME NEW h \in Request, DropPersonal(h) PROVE MoveInv'
  BY <1>24 DEF DropPersonal, WithoutTable, Located, Await
<1>25. ASSUME NEW h \in Request, DropPersonalFails(h) PROVE MoveInv'
  BY <1>25 DEF DropPersonalFails, Await
<1>26. ASSUME NEW h \in Request, ErasePersonal(h) PROVE MoveInv'
  BY <1>26 DEF ErasePersonal, WriteStatus, Fail, Reply, Touched
<1>27. ASSUME NEW h \in Request, NEW r \in Row, ReadLayer(h, r) PROVE MoveInv'
  BY <1>27 DEF ReadLayer, Begin
<1>28. ASSUME NEW h \in Request, DeleteRow(h) PROVE MoveInv'
  BY <1>28 DEF DeleteRow, Await, Fail, Reply, Touched
<1>29. ASSUME NEW h \in Request, DropTable(h) PROVE MoveInv'
  BY <1>29 DEF DropTable, WithoutTable, Located, Reply
<1>30. ASSUME NEW h \in Request, Abort(h) PROVE MoveInv'
  BY <1>30 DEF Abort, Fail, Reply, Touched
<1>31. ASSUME NEW j \in Project, StageProject(j) PROVE MoveInv'
  BY <1>31 DEF StageProject
<1>32. ASSUME NEW p \in Linked, RecordLeaf(p) PROVE MoveInv'
  BY <1>32 DEF RecordLeaf
<1>33. ASSUME ReadLayerRefs PROVE MoveInv'
  BY <1>33 DEF ReadLayerRefs, LayerRefs
<1>34. ASSUME ReadPersonalRefs PROVE MoveInv'
  BY <1>34 DEF ReadPersonalRefs, PersonalRefs
<1>35. ASSUME ListTables PROVE MoveInv'
  BY <1>35 DEF ListTables, Orphans, Candidates, Physical, Located, LayerRefs, PersonalRefs, Forget
<1>36. ASSUME NEW l \in Dataset \cup Table, DropOrphan(l) PROVE MoveInv'
  BY <1>36 DEF DropOrphan, WithoutTable, Located, Physical, Forget
<1>37. ASSUME PurgeDies PROVE MoveInv'
  BY <1>37 DEF PurgeDies, Forget
<1>38. CASE UNCHANGED vars
  BY <1>38 DEF vars
<1>39. QED
  BY <1>1, <1>2, <1>3, <1>4, <1>5, <1>6, <1>7, <1>8, <1>9, <1>10, <1>11, <1>12, <1>13, <1>14, <1>15,
     <1>16, <1>17, <1>18, <1>19, <1>20, <1>21, <1>22, <1>23, <1>24, <1>25, <1>26, <1>27, <1>28,
     <1>29, <1>30, <1>31, <1>32, <1>33, <1>34, <1>35, <1>36, <1>37, <1>38
     DEF Next, Files, Projects, Leaves, Purge, Importing, FromStaging, Asking, Approving, Deleting
\* Types and links, and one request at a time with a file in hand.
LEMMA Links == Spec => [](LinkInv /\ MoveInv)
<1>1. Init => LinkInv /\ MoveInv
  BY NamingAssumption DEF Init, LinkInv, TypeOK, RequestsLinked, RowsLinked, DoomedRecorded, OnFile,
     Named, Recorded, Unrecorded, AtPlaces, Working, Existing, Personal, MoveInv, Moves, FilePublishedOnce
<1>2. QED
  BY <1>1, LinkStep, MoveStep, PTL DEF Spec

\* Places, rows, requests and the purge are well typed.
THEOREM TypeCorrect == Spec => []TypeOK
<1>1. LinkInv => TypeOK
  BY DEF LinkInv
<1>2. QED
  BY <1>1, Links, PTL

\* A file reaches the catalogue once, however many requests promote or approve it.
THEOREM PublishedOnce == Spec => []FilePublishedOnce
<1>1. MoveInv => FilePublishedOnce
  BY DEF MoveInv
<1>2. QED
  BY <1>1, Links, PTL

-----------------------------------------------------------------------------
(* The table of a row, and of a personal layer *)

\* Who drops a table by name, or writes its row, is the one whose data it holds.
LEMMA HoldStep == LinkInv /\ MoveInv /\ HoldInv /\ [Next]_vars => HoldInv'
<1> SUFFICES ASSUME LinkInv, MoveInv, HoldInv, [Next]_vars PROVE HoldInv'
  OBVIOUS
<1> USE NamingAssumption DEF TypeOK, AtPlaces, Existing, Working, Personal, catalogue, request,
     purge, history, LinkInv, RequestsLinked, RowsLinked, DoomedRecorded, OnFile, Named, Recorded,
     Unrecorded, RowTable, MoveInv, Moves, FilePublishedOnce, HoldInv, Holds, RowHasItsTable
<1>1. ASSUME NEW d \in Dataset, Stage(d) PROVE HoldInv'
  BY <1>1 DEF Stage
<1>2. ASSUME NEW d \in Dataset, CleanupOrphanedTables(d) PROVE HoldInv'
  BY <1>2 DEF CleanupOrphanedTables
<1>3. ASSUME NEW h \in Request, NEW d \in Dataset, SeeStaging(h, d) PROVE HoldInv'
  BY <1>3 DEF SeeStaging, Begin
<1>4. ASSUME NEW h \in Request, SetPersonalSchema(h) PROVE HoldInv'
  BY SMTT(30), <1>4 DEF SetPersonalSchema, TakeFromStaging, Await, Fail, Reply, Touched
<1>5. ASSUME NEW h \in Request, RenamePersonal(h) PROVE HoldInv'
  BY <1>5 DEF RenamePersonal, Await
<1>6. ASSUME NEW h \in Request, RecordPersonal(h) PROVE HoldInv'
  BY <1>6 DEF RecordPersonal, Reply, NewlySeen
<1>7. ASSUME NEW h \in Request, NEW d \in Dataset, NEW n \in Name, AskCatalogue(h, d, n) PROVE HoldInv'
  BY <1>7 DEF AskCatalogue, Begin
<1>8. ASSUME NEW h \in Request, CheckSlug(h) PROVE HoldInv'
  BY <1>8 DEF CheckSlug, Await, Fail, Reply, Touched
<1>9. ASSUME NEW h \in Request, SetFinalSchema(h) PROVE HoldInv'
  BY <1>9 DEF SetFinalSchema, TakeFromStaging, Await, Fail, Reply, Touched
<1>10. ASSUME NEW h \in Request, RenameFinal(h) PROVE HoldInv'
  BY SMTT(30), <1>10 DEF RenameFinal, Exists, Await, Fail, Reply, Touched
<1>11. ASSUME NEW h \in Request, RegisterLayer(h) PROVE HoldInv'
  BY SMTT(30), <1>11 DEF RegisterLayer, CreateRow, Unused, NewlySeen, Fail, Reply, Touched
<1>12. ASSUME NEW h \in Request, NEW p \in Personal, ReadForRequest(h, p) PROVE HoldInv'
  BY <1>12 DEF ReadForRequest, Begin
<1>13. ASSUME NEW h \in Request, NEW p \in Personal, ReadForReject(h, p) PROVE HoldInv'
  BY <1>13 DEF ReadForReject, Begin
<1>14. ASSUME NEW h \in Request, RequestPublication(h) PROVE HoldInv'
  BY SMTT(30), <1>14 DEF RequestPublication, WriteStatus, Fail, Reply, Touched
<1>15. ASSUME NEW h \in Request, Reject(h) PROVE HoldInv'
  BY SMTT(30), <1>15 DEF Reject, WriteStatus, Fail, Reply, Touched
<1>16. ASSUME NEW h \in Request, NEW p \in Personal, NEW n \in Name, ReadForApprove(h, p, n) PROVE HoldInv'
  BY <1>16 DEF ReadForApprove, Begin
<1>17. ASSUME NEW h \in Request, FindBySlug(h) PROVE HoldInv'
  BY <1>17 DEF FindBySlug, Await, Fail, Reply, Touched
<1>18. ASSUME NEW h \in Request, ProbeFinal(h) PROVE HoldInv'
  BY <1>18 DEF ProbeFinal, Await, Fail, Reply, Touched
<1>19. ASSUME NEW h \in Request, LocateOriginal(h) PROVE HoldInv'
  BY <1>19 DEF LocateOriginal, Await, Fail, Reply, Touched
<1>20. ASSUME NEW h \in Request, MoveTable(h) PROVE HoldInv'
  BY SMTT(30), <1>20 DEF MoveTable, Exists, Await, Fail, Reply, Touched
<1>21. ASSUME NEW h \in Request, CatalogueLayer(h) PROVE HoldInv'
  BY SMTT(30), <1>21 DEF CatalogueLayer, CreateRow, Unused, NewlySeen, Await, Fail, Reply, Touched
<1>22. ASSUME NEW h \in Request, Publish(h) PROVE HoldInv'
  BY SMTT(30), <1>22 DEF Publish, WriteStatus, Fail, Reply, Touched
<1>23. ASSUME NEW h \in Request, NEW p \in Personal, ReadForDelete(h, p) PROVE HoldInv'
  BY <1>23 DEF ReadForDelete, Begin
<1>24. ASSUME NEW h \in Request, DropPersonal(h) PROVE HoldInv'
  BY <1>24 DEF DropPersonal, WithoutTable, Located, Await
<1>25. ASSUME NEW h \in Request, DropPersonalFails(h) PROVE HoldInv'
  BY <1>25 DEF DropPersonalFails, Await
<1>26. ASSUME NEW h \in Request, ErasePersonal(h) PROVE HoldInv'
  BY SMTT(30), <1>26 DEF ErasePersonal, WriteStatus, Fail, Reply, Touched
<1>27. ASSUME NEW h \in Request, NEW r \in Row, ReadLayer(h, r) PROVE HoldInv'
  BY <1>27 DEF ReadLayer, Begin
<1>28. ASSUME NEW h \in Request, DeleteRow(h) PROVE HoldInv'
  BY SMTT(30), <1>28 DEF DeleteRow, Await, Fail, Reply, Touched
<1>29. ASSUME NEW h \in Request, DropTable(h) PROVE HoldInv'
  BY <1>29 DEF DropTable, WithoutTable, Located, Reply
<1>30. ASSUME NEW h \in Request, Abort(h) PROVE HoldInv'
  BY <1>30 DEF Abort, Fail, Reply, Touched
<1>31. ASSUME NEW j \in Project, StageProject(j) PROVE HoldInv'
  BY <1>31 DEF StageProject
<1>32. ASSUME NEW p \in Linked, RecordLeaf(p) PROVE HoldInv'
  BY <1>32 DEF RecordLeaf
<1>33. ASSUME ReadLayerRefs PROVE HoldInv'
  BY <1>33 DEF ReadLayerRefs, LayerRefs
<1>34. ASSUME ReadPersonalRefs PROVE HoldInv'
  BY <1>34 DEF ReadPersonalRefs, PersonalRefs
<1>35. ASSUME ListTables PROVE HoldInv'
  BY <1>35 DEF ListTables, Orphans, Candidates, Physical, Located, LayerRefs, PersonalRefs, Forget
<1>36. ASSUME NEW l \in Dataset \cup Table, DropOrphan(l) PROVE HoldInv'
  BY <1>36 DEF DropOrphan, WithoutTable, Located, Physical, Forget, Located
<1>37. ASSUME PurgeDies PROVE HoldInv'
  BY <1>37 DEF PurgeDies, Forget
<1>38. CASE UNCHANGED vars
  BY <1>38 DEF vars
<1>39. QED
  BY <1>1, <1>2, <1>3, <1>4, <1>5, <1>6, <1>7, <1>8, <1>9, <1>10, <1>11, <1>12, <1>13, <1>14, <1>15,
     <1>16, <1>17, <1>18, <1>19, <1>20, <1>21, <1>22, <1>23, <1>24, <1>25, <1>26, <1>27, <1>28,
     <1>29, <1>30, <1>31, <1>32, <1>33, <1>34, <1>35, <1>36, <1>37, <1>38
     DEF Next, Files, Projects, Leaves, Purge, Importing, FromStaging, Asking, Approving, Deleting

\* A personal table goes with its record, or with the request that takes it.
LEMMA PersonalStep == LinkInv /\ MoveInv /\ PersonalInv /\ [Next]_vars => PersonalInv'
<1> SUFFICES ASSUME LinkInv, MoveInv, PersonalInv, [Next]_vars PROVE PersonalInv'
  OBVIOUS
<1> USE NamingAssumption DEF TypeOK, AtPlaces, Existing, Working, Personal, catalogue, request,
     purge, history, LinkInv, RequestsLinked, RowsLinked, DoomedRecorded, OnFile, Named, Recorded,
     Unrecorded, RowTable, PersonalInv, PersonalHasItsTable, Touched
<1>1. ASSUME NEW d \in Dataset, Stage(d) PROVE PersonalInv'
  BY <1>1 DEF Stage
<1>2. ASSUME NEW d \in Dataset, CleanupOrphanedTables(d) PROVE PersonalInv'
  BY <1>2 DEF CleanupOrphanedTables
<1>3. ASSUME NEW h \in Request, NEW d \in Dataset, SeeStaging(h, d) PROVE PersonalInv'
  BY <1>3 DEF SeeStaging, Begin
<1>4. ASSUME NEW h \in Request, SetPersonalSchema(h) PROVE PersonalInv'
  BY <1>4 DEF SetPersonalSchema, TakeFromStaging, Await, Fail, Reply, Touched
<1>5. ASSUME NEW h \in Request, RenamePersonal(h) PROVE PersonalInv'
  BY <1>5 DEF RenamePersonal, Await
<1>6. ASSUME NEW h \in Request, RecordPersonal(h) PROVE PersonalInv'
  BY <1>6 DEF RecordPersonal, Reply, NewlySeen, MoveInv, Moves
<1>7. ASSUME NEW h \in Request, NEW d \in Dataset, NEW n \in Name, AskCatalogue(h, d, n) PROVE PersonalInv'
  BY <1>7 DEF AskCatalogue, Begin
<1>8. ASSUME NEW h \in Request, CheckSlug(h) PROVE PersonalInv'
  BY <1>8 DEF CheckSlug, Await, Fail, Reply, Touched
<1>9. ASSUME NEW h \in Request, SetFinalSchema(h) PROVE PersonalInv'
  BY <1>9 DEF SetFinalSchema, TakeFromStaging, Await, Fail, Reply, Touched
<1>10. ASSUME NEW h \in Request, RenameFinal(h) PROVE PersonalInv'
  BY <1>10 DEF RenameFinal, Exists, Await, Fail, Reply, Touched
<1>11. ASSUME NEW h \in Request, RegisterLayer(h) PROVE PersonalInv'
  BY <1>11 DEF RegisterLayer, CreateRow, Unused, NewlySeen, Fail, Reply, Touched
<1>12. ASSUME NEW h \in Request, NEW p \in Personal, ReadForRequest(h, p) PROVE PersonalInv'
  BY <1>12 DEF ReadForRequest, Begin
<1>13. ASSUME NEW h \in Request, NEW p \in Personal, ReadForReject(h, p) PROVE PersonalInv'
  BY <1>13 DEF ReadForReject, Begin
<1>14. ASSUME NEW h \in Request, RequestPublication(h) PROVE PersonalInv'
  BY <1>14 DEF RequestPublication, WriteStatus, Fail, Reply, Touched
<1>15. ASSUME NEW h \in Request, Reject(h) PROVE PersonalInv'
  BY <1>15 DEF Reject, WriteStatus, Fail, Reply, Touched
<1>16. ASSUME NEW h \in Request, NEW p \in Personal, NEW n \in Name, ReadForApprove(h, p, n) PROVE PersonalInv'
  BY <1>16 DEF ReadForApprove, Begin
<1>17. ASSUME NEW h \in Request, FindBySlug(h) PROVE PersonalInv'
  BY <1>17 DEF FindBySlug, Await, Fail, Reply, Touched
<1>18. ASSUME NEW h \in Request, ProbeFinal(h) PROVE PersonalInv'
  BY <1>18 DEF ProbeFinal, Await, Fail, Reply, Touched
<1>19. ASSUME NEW h \in Request, LocateOriginal(h) PROVE PersonalInv'
  BY <1>19 DEF LocateOriginal, Await, Fail, Reply, Touched
<1>20. ASSUME NEW h \in Request, MoveTable(h) PROVE PersonalInv'
  BY <1>20 DEF MoveTable, Exists, Await, Fail, Reply, Touched
<1>21. ASSUME NEW h \in Request, CatalogueLayer(h) PROVE PersonalInv'
  BY <1>21 DEF CatalogueLayer, CreateRow, Unused, NewlySeen, Await, Fail, Reply, Touched
<1>22. ASSUME NEW h \in Request, Publish(h) PROVE PersonalInv'
  BY <1>22 DEF Publish, WriteStatus, Fail, Reply, Touched
<1>23. ASSUME NEW h \in Request, NEW p \in Personal, ReadForDelete(h, p) PROVE PersonalInv'
  BY <1>23 DEF ReadForDelete, Begin
<1>24. ASSUME NEW h \in Request, DropPersonal(h) PROVE PersonalInv'
  BY <1>24 DEF DropPersonal, WithoutTable, Located, Await
<1>25. ASSUME NEW h \in Request, DropPersonalFails(h) PROVE PersonalInv'
  BY <1>25 DEF DropPersonalFails, Await
<1>26. ASSUME NEW h \in Request, ErasePersonal(h) PROVE PersonalInv'
  BY <1>26 DEF ErasePersonal, WriteStatus, Fail, Reply, Touched
<1>27. ASSUME NEW h \in Request, NEW r \in Row, ReadLayer(h, r) PROVE PersonalInv'
  BY <1>27 DEF ReadLayer, Begin
<1>28. ASSUME NEW h \in Request, DeleteRow(h) PROVE PersonalInv'
  BY <1>28 DEF DeleteRow, Await, Fail, Reply, Touched
<1>29. ASSUME NEW h \in Request, DropTable(h) PROVE PersonalInv'
  BY <1>29 DEF DropTable, WithoutTable, Located, Reply
<1>30. ASSUME NEW h \in Request, Abort(h) PROVE PersonalInv'
  BY <1>30 DEF Abort, Fail, Reply, Touched
<1>31. ASSUME NEW j \in Project, StageProject(j) PROVE PersonalInv'
  BY <1>31 DEF StageProject
<1>32. ASSUME NEW p \in Linked, RecordLeaf(p) PROVE PersonalInv'
  BY <1>32 DEF RecordLeaf
<1>33. ASSUME ReadLayerRefs PROVE PersonalInv'
  BY <1>33 DEF ReadLayerRefs, LayerRefs
<1>34. ASSUME ReadPersonalRefs PROVE PersonalInv'
  BY <1>34 DEF ReadPersonalRefs, PersonalRefs
<1>35. ASSUME ListTables PROVE PersonalInv'
  BY <1>35 DEF ListTables, Orphans, Candidates, Physical, Located, LayerRefs, PersonalRefs, Forget
<1>36. ASSUME NEW l \in Dataset \cup Table, DropOrphan(l) PROVE PersonalInv'
  BY <1>36 DEF DropOrphan, WithoutTable, Located, Physical, Forget
<1>37. ASSUME PurgeDies PROVE PersonalInv'
  BY <1>37 DEF PurgeDies, Forget
<1>38. CASE UNCHANGED vars
  BY <1>38 DEF vars
<1>39. QED
  BY <1>1, <1>2, <1>3, <1>4, <1>5, <1>6, <1>7, <1>8, <1>9, <1>10, <1>11, <1>12, <1>13, <1>14, <1>15,
     <1>16, <1>17, <1>18, <1>19, <1>20, <1>21, <1>22, <1>23, <1>24, <1>25, <1>26, <1>27, <1>28,
     <1>29, <1>30, <1>31, <1>32, <1>33, <1>34, <1>35, <1>36, <1>37, <1>38
     DEF Next, Files, Projects, Leaves, Purge, Importing, FromStaging, Asking, Approving, Deleting
\* A catalogue row's table is there, unless the purge dropped one of that name.
LEMMA TableHeld == Spec => []HoldInv
<1>1. Init => HoldInv
  BY NamingAssumption DEF Init, HoldInv, RowHasItsTable
<1>2. QED
  BY <1>1, Links, HoldStep, PTL DEF Spec

\* A personal layer's table is there, unless purged, published, or a request failed.
LEMMA PersonalHeld == Spec => []PersonalInv
<1>1. Init => PersonalInv
  BY DEF Init, PersonalInv, PersonalHasItsTable, Existing, Personal
<1>2. QED
  BY <1>1, Links, PersonalStep, PTL DEF Spec

\* Whatever is listed has the table it reads.
THEOREM ListedHasTable == Spec => []EveryRowHasItsTable
<1>1. HoldInv /\ PersonalInv => EveryRowHasItsTable
  BY DEF HoldInv, PersonalInv, EveryRowHasItsTable
<1>2. QED
  BY <1>1, TableHeld, PersonalHeld, PTL

-----------------------------------------------------------------------------
(* Tables nothing speaks of, and the purge *)

\* A table outside staging stays accounted for, until a request on it fails.
LEMMA OrphanStep == LinkInv /\ MoveInv /\ OrphanInv /\ [Next]_vars => OrphanInv'
<1> SUFFICES ASSUME LinkInv, MoveInv, OrphanInv, [Next]_vars PROVE OrphanInv'
  OBVIOUS
<1> USE NamingAssumption DEF TypeOK, AtPlaces, Existing, Working, Personal, catalogue, request,
     purge, history, LinkInv, RequestsLinked, RowsLinked, DoomedRecorded, OnFile, Named, Recorded,
     Unrecorded, RowTable, OrphanInv, Accounted, InHand
<1>1. ASSUME NEW d \in Dataset, Stage(d) PROVE OrphanInv'
  BY <1>1 DEF Stage
<1>2. ASSUME NEW d \in Dataset, CleanupOrphanedTables(d) PROVE OrphanInv'
  BY <1>2 DEF CleanupOrphanedTables
<1>3. ASSUME NEW h \in Request, NEW d \in Dataset, SeeStaging(h, d) PROVE OrphanInv'
  BY <1>3 DEF SeeStaging, Begin
<1>4. ASSUME NEW h \in Request, SetPersonalSchema(h) PROVE OrphanInv'
  BY <1>4 DEF SetPersonalSchema, TakeFromStaging, Await, Fail, Reply, Touched
<1>5. ASSUME NEW h \in Request, RenamePersonal(h) PROVE OrphanInv'
  BY <1>5 DEF RenamePersonal, Await
<1>6. ASSUME NEW h \in Request, RecordPersonal(h) PROVE OrphanInv'
  BY <1>6 DEF RecordPersonal, Reply, NewlySeen
<1>7. ASSUME NEW h \in Request, NEW d \in Dataset, NEW n \in Name, AskCatalogue(h, d, n) PROVE OrphanInv'
  BY <1>7 DEF AskCatalogue, Begin
<1>8. ASSUME NEW h \in Request, CheckSlug(h) PROVE OrphanInv'
  BY <1>8 DEF CheckSlug, Await, Fail, Reply, Touched
<1>9. ASSUME NEW h \in Request, SetFinalSchema(h) PROVE OrphanInv'
  BY <1>9 DEF SetFinalSchema, TakeFromStaging, Await, Fail, Reply, Touched
<1>10. ASSUME NEW h \in Request, RenameFinal(h) PROVE OrphanInv'
  BY <1>10 DEF RenameFinal, Exists, Await, Fail, Reply, Touched
<1>11. ASSUME NEW h \in Request, RegisterLayer(h) PROVE OrphanInv'
  BY <1>11 DEF RegisterLayer, CreateRow, Unused, NewlySeen, Fail, Reply, Touched
<1>12. ASSUME NEW h \in Request, NEW p \in Personal, ReadForRequest(h, p) PROVE OrphanInv'
  BY <1>12 DEF ReadForRequest, Begin
<1>13. ASSUME NEW h \in Request, NEW p \in Personal, ReadForReject(h, p) PROVE OrphanInv'
  BY <1>13 DEF ReadForReject, Begin
<1>14. ASSUME NEW h \in Request, RequestPublication(h) PROVE OrphanInv'
  BY <1>14 DEF RequestPublication, WriteStatus, Fail, Reply, Touched
<1>15. ASSUME NEW h \in Request, Reject(h) PROVE OrphanInv'
  BY <1>15 DEF Reject, WriteStatus, Fail, Reply, Touched
<1>16. ASSUME NEW h \in Request, NEW p \in Personal, NEW n \in Name, ReadForApprove(h, p, n) PROVE OrphanInv'
  BY <1>16 DEF ReadForApprove, Begin
<1>17. ASSUME NEW h \in Request, FindBySlug(h) PROVE OrphanInv'
  BY <1>17 DEF FindBySlug, Await, Fail, Reply, Touched
<1>18. ASSUME NEW h \in Request, ProbeFinal(h) PROVE OrphanInv'
  BY <1>18 DEF ProbeFinal, Await, Fail, Reply, Touched
<1>19. ASSUME NEW h \in Request, LocateOriginal(h) PROVE OrphanInv'
  BY <1>19 DEF LocateOriginal, Await, Fail, Reply, Touched
<1>20. ASSUME NEW h \in Request, MoveTable(h) PROVE OrphanInv'
  BY <1>20 DEF MoveTable, Exists, Await, Fail, Reply, Touched
<1>21. ASSUME NEW h \in Request, CatalogueLayer(h) PROVE OrphanInv'
  BY <1>21 DEF CatalogueLayer, CreateRow, Unused, NewlySeen, Await, Fail, Reply, Touched
<1>22. ASSUME NEW h \in Request, Publish(h) PROVE OrphanInv'
  BY <1>22 DEF Publish, WriteStatus, Fail, Reply, Touched
<1>23. ASSUME NEW h \in Request, NEW p \in Personal, ReadForDelete(h, p) PROVE OrphanInv'
  BY <1>23 DEF ReadForDelete, Begin
<1>24. ASSUME NEW h \in Request, DropPersonal(h) PROVE OrphanInv'
  BY <1>24 DEF DropPersonal, WithoutTable, Located, Await
<1>25. ASSUME NEW h \in Request, DropPersonalFails(h) PROVE OrphanInv'
  BY <1>25 DEF DropPersonalFails, Await
<1>26. ASSUME NEW h \in Request, ErasePersonal(h) PROVE OrphanInv'
  BY <1>26 DEF ErasePersonal, WriteStatus, Fail, Reply, Touched
<1>27. ASSUME NEW h \in Request, NEW r \in Row, ReadLayer(h, r) PROVE OrphanInv'
  BY <1>27 DEF ReadLayer, Begin
<1>28. ASSUME NEW h \in Request, DeleteRow(h) PROVE OrphanInv'
  BY <1>28 DEF DeleteRow, Await, Fail, Reply, Touched
<1>29. ASSUME NEW h \in Request, DropTable(h) PROVE OrphanInv'
  <2>1. subject[h] \in Dataset /\ at[subject[h]] \in {RowTable(target[h]), "none"}
    BY <1>29 DEF DropTable, MoveInv
  <2>2. QED
    BY <1>29, <2>1 DEF DropTable, WithoutTable, Located, Reply
<1>30. ASSUME NEW h \in Request, Abort(h) PROVE OrphanInv'
  BY <1>30 DEF Abort, Fail, Reply, Touched
<1>31. ASSUME NEW j \in Project, StageProject(j) PROVE OrphanInv'
  BY <1>31 DEF StageProject
<1>32. ASSUME NEW p \in Linked, RecordLeaf(p) PROVE OrphanInv'
  BY <1>32 DEF RecordLeaf
<1>33. ASSUME ReadLayerRefs PROVE OrphanInv'
  BY <1>33 DEF ReadLayerRefs, LayerRefs
<1>34. ASSUME ReadPersonalRefs PROVE OrphanInv'
  BY <1>34 DEF ReadPersonalRefs, PersonalRefs
<1>35. ASSUME ListTables PROVE OrphanInv'
  BY <1>35 DEF ListTables, Orphans, Candidates, Physical, Located, LayerRefs, PersonalRefs, Forget
<1>36. ASSUME NEW l \in Dataset \cup Table, DropOrphan(l) PROVE OrphanInv'
  BY <1>36 DEF DropOrphan, WithoutTable, Located, Physical, Forget
<1>37. ASSUME PurgeDies PROVE OrphanInv'
  BY <1>37 DEF PurgeDies, Forget
<1>38. CASE UNCHANGED vars
  BY <1>38 DEF vars
<1>39. QED
  BY <1>1, <1>2, <1>3, <1>4, <1>5, <1>6, <1>7, <1>8, <1>9, <1>10, <1>11, <1>12, <1>13, <1>14, <1>15,
     <1>16, <1>17, <1>18, <1>19, <1>20, <1>21, <1>22, <1>23, <1>24, <1>25, <1>26, <1>27, <1>28,
     <1>29, <1>30, <1>31, <1>32, <1>33, <1>34, <1>35, <1>36, <1>37, <1>38
     DEF Next, Files, Projects, Leaves, Purge, Importing, FromStaging, Asking, Approving, Deleting

\* A table nothing speaks of was left by a request that failed half-way.
THEOREM OrphanExplained == Spec => []NoOrphanWithoutFailure
<1>1. Init => OrphanInv
  BY DEF Init, OrphanInv, Accounted
<1>2. LinkInv /\ OrphanInv => NoOrphanWithoutFailure
  BY DEF LinkInv, RequestsLinked, OrphanInv, Accounted, InHand, NoOrphanWithoutFailure, Touched
<1>3. QED
  BY <1>1, <1>2, Links, OrphanStep, PTL DEF Spec

\* The purge knows every row, by what it read or because it came later.
LEMMA PurgeStep == LinkInv /\ PurgeInv /\ [Next]_vars => PurgeInv'
<1> SUFFICES ASSUME LinkInv, PurgeInv, [Next]_vars PROVE PurgeInv'
  OBVIOUS
<1> USE NamingAssumption DEF TypeOK, AtPlaces, Existing, Working, Personal, catalogue, request,
     purge, history, LinkInv, RequestsLinked, RowsLinked, DoomedRecorded, OnFile, Named, Recorded,
     Unrecorded, RowTable, PurgeInv, PurgeSparesWhatItFound
<1>1. ASSUME NEW d \in Dataset, Stage(d) PROVE PurgeInv'
  BY <1>1 DEF Stage
<1>2. ASSUME NEW d \in Dataset, CleanupOrphanedTables(d) PROVE PurgeInv'
  BY <1>2 DEF CleanupOrphanedTables
<1>3. ASSUME NEW h \in Request, NEW d \in Dataset, SeeStaging(h, d) PROVE PurgeInv'
  BY <1>3 DEF SeeStaging, Begin
<1>4. ASSUME NEW h \in Request, SetPersonalSchema(h) PROVE PurgeInv'
  BY <1>4 DEF SetPersonalSchema, TakeFromStaging, Await, Fail, Reply, Touched
<1>5. ASSUME NEW h \in Request, RenamePersonal(h) PROVE PurgeInv'
  BY <1>5 DEF RenamePersonal, Await
<1>6. ASSUME NEW h \in Request, RecordPersonal(h) PROVE PurgeInv'
  BY <1>6 DEF RecordPersonal, Reply, NewlySeen
<1>7. ASSUME NEW h \in Request, NEW d \in Dataset, NEW n \in Name, AskCatalogue(h, d, n) PROVE PurgeInv'
  BY <1>7 DEF AskCatalogue, Begin
<1>8. ASSUME NEW h \in Request, CheckSlug(h) PROVE PurgeInv'
  BY <1>8 DEF CheckSlug, Await, Fail, Reply, Touched
<1>9. ASSUME NEW h \in Request, SetFinalSchema(h) PROVE PurgeInv'
  BY <1>9 DEF SetFinalSchema, TakeFromStaging, Await, Fail, Reply, Touched
<1>10. ASSUME NEW h \in Request, RenameFinal(h) PROVE PurgeInv'
  BY <1>10 DEF RenameFinal, Exists, Await, Fail, Reply, Touched
<1>11. ASSUME NEW h \in Request, RegisterLayer(h) PROVE PurgeInv'
  BY <1>11 DEF RegisterLayer, CreateRow, Unused, NewlySeen, Fail, Reply, Touched
<1>12. ASSUME NEW h \in Request, NEW p \in Personal, ReadForRequest(h, p) PROVE PurgeInv'
  BY <1>12 DEF ReadForRequest, Begin
<1>13. ASSUME NEW h \in Request, NEW p \in Personal, ReadForReject(h, p) PROVE PurgeInv'
  BY <1>13 DEF ReadForReject, Begin
<1>14. ASSUME NEW h \in Request, RequestPublication(h) PROVE PurgeInv'
  BY <1>14 DEF RequestPublication, WriteStatus, Fail, Reply, Touched
<1>15. ASSUME NEW h \in Request, Reject(h) PROVE PurgeInv'
  BY <1>15 DEF Reject, WriteStatus, Fail, Reply, Touched
<1>16. ASSUME NEW h \in Request, NEW p \in Personal, NEW n \in Name, ReadForApprove(h, p, n) PROVE PurgeInv'
  BY <1>16 DEF ReadForApprove, Begin
<1>17. ASSUME NEW h \in Request, FindBySlug(h) PROVE PurgeInv'
  BY <1>17 DEF FindBySlug, Await, Fail, Reply, Touched
<1>18. ASSUME NEW h \in Request, ProbeFinal(h) PROVE PurgeInv'
  BY <1>18 DEF ProbeFinal, Await, Fail, Reply, Touched
<1>19. ASSUME NEW h \in Request, LocateOriginal(h) PROVE PurgeInv'
  BY <1>19 DEF LocateOriginal, Await, Fail, Reply, Touched
<1>20. ASSUME NEW h \in Request, MoveTable(h) PROVE PurgeInv'
  BY <1>20 DEF MoveTable, Exists, Await, Fail, Reply, Touched
<1>21. ASSUME NEW h \in Request, CatalogueLayer(h) PROVE PurgeInv'
  BY <1>21 DEF CatalogueLayer, CreateRow, Unused, NewlySeen, Await, Fail, Reply, Touched
<1>22. ASSUME NEW h \in Request, Publish(h) PROVE PurgeInv'
  BY <1>22 DEF Publish, WriteStatus, Fail, Reply, Touched
<1>23. ASSUME NEW h \in Request, NEW p \in Personal, ReadForDelete(h, p) PROVE PurgeInv'
  BY <1>23 DEF ReadForDelete, Begin
<1>24. ASSUME NEW h \in Request, DropPersonal(h) PROVE PurgeInv'
  BY <1>24 DEF DropPersonal, WithoutTable, Located, Await
<1>25. ASSUME NEW h \in Request, DropPersonalFails(h) PROVE PurgeInv'
  BY <1>25 DEF DropPersonalFails, Await
<1>26. ASSUME NEW h \in Request, ErasePersonal(h) PROVE PurgeInv'
  BY <1>26 DEF ErasePersonal, WriteStatus, Fail, Reply, Touched
<1>27. ASSUME NEW h \in Request, NEW r \in Row, ReadLayer(h, r) PROVE PurgeInv'
  BY <1>27 DEF ReadLayer, Begin
<1>28. ASSUME NEW h \in Request, DeleteRow(h) PROVE PurgeInv'
  BY <1>28 DEF DeleteRow, Await, Fail, Reply, Touched
<1>29. ASSUME NEW h \in Request, DropTable(h) PROVE PurgeInv'
  BY <1>29 DEF DropTable, WithoutTable, Located, Reply
<1>30. ASSUME NEW h \in Request, Abort(h) PROVE PurgeInv'
  BY <1>30 DEF Abort, Fail, Reply, Touched
<1>31. ASSUME NEW j \in Project, StageProject(j) PROVE PurgeInv'
  BY <1>31 DEF StageProject
<1>32. ASSUME NEW p \in Linked, RecordLeaf(p) PROVE PurgeInv'
  BY <1>32 DEF RecordLeaf
<1>33. ASSUME ReadLayerRefs PROVE PurgeInv'
  BY <1>33 DEF ReadLayerRefs, LayerRefs
<1>34. ASSUME ReadPersonalRefs PROVE PurgeInv'
  BY <1>34 DEF ReadPersonalRefs, PersonalRefs
<1>35. ASSUME ListTables PROVE PurgeInv'
  BY <1>35 DEF ListTables, Orphans, Candidates, Physical, Located, LayerRefs, PersonalRefs, Forget
<1>36. ASSUME NEW l \in Dataset \cup Table, DropOrphan(l) PROVE PurgeInv'
  BY <1>36 DEF DropOrphan, WithoutTable, Located, Physical, Forget
<1>37. ASSUME PurgeDies PROVE PurgeInv'
  BY <1>37 DEF PurgeDies, Forget
<1>38. CASE UNCHANGED vars
  BY <1>38 DEF vars
<1>39. QED
  BY <1>1, <1>2, <1>3, <1>4, <1>5, <1>6, <1>7, <1>8, <1>9, <1>10, <1>11, <1>12, <1>13, <1>14, <1>15,
     <1>16, <1>17, <1>18, <1>19, <1>20, <1>21, <1>22, <1>23, <1>24, <1>25, <1>26, <1>27, <1>28,
     <1>29, <1>30, <1>31, <1>32, <1>33, <1>34, <1>35, <1>36, <1>37, <1>38
     DEF Next, Files, Projects, Leaves, Purge, Importing, FromStaging, Asking, Approving, Deleting

\* The purge drops no table of a row that was there when it began.
THEOREM PurgeSpares == Spec => []PurgeSparesWhatItFound
<1>1. Init => PurgeInv
  BY DEF Init, PurgeInv, PurgeSparesWhatItFound
<1>2. PurgeInv => PurgeSparesWhatItFound
  BY DEF PurgeInv
<1>3. QED
  BY <1>1, <1>2, Links, PurgeStep, PTL DEF Spec
=============================================================================
