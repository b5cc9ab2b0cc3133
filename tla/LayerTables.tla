----------------------------- MODULE LayerTables -----------------------------
(***************************************************************************)
(* Where the PostGIS table of an uploaded file is, and which database row  *)
(* speaks of it: personal layers and their publication on the catalogue    *)
(* (src/application/use-cases/personal-layers), catalogue layers made from *)
(* a staged file and their deletion (use-cases/layers), and the purge of   *)
(* orphan tables (use-cases/admin).  One instance, so one target schema.   *)
(*                                                                         *)
(* Only the move of a published table is a transaction; every other await  *)
(* lets any request run, and a request goes on with what it read before.   *)
(* One action is one statement of a handler, with the checks up to the     *)
(* next await.  Left out: groups, styles, search index, the QGIS project   *)
(* of the instance (its failures are caught), ownership and roles, and a   *)
(* read that only ends its request.                                        *)
(***************************************************************************)
EXTENDS Naturals, FiniteSets

CONSTANTS Dataset,   \* uploaded files; also the personal layers made of them
          Linked,    \* personal layers of kind QGIS_PROJECT
          Project, ProjectOf,  \* the project directory each of them reads
          Name, Table, TableOf, \* catalogue slugs, and the final table of each
          Row,       \* bound: the catalogue rows that may ever be created
          MaxPurged, \* bound: no purge starts once so many tables were purged
          Request, None

Personal == Dataset \cup Linked

ASSUME NamingAssumption ==
  /\ TableOf \in [Name -> Table] /\ ProjectOf \in [Linked -> Project]
  /\ Dataset \cap Linked = {} /\ Dataset \cap Table = {}
  /\ Row \cap (Dataset \cup Linked) = {} /\ MaxPurged \in Nat
  /\ None \notin Personal \cup Name \cup Row
  /\ (Dataset \cup Table) \cap {"none", "staging", "halfway", "personal"} = {}

VARIABLES
  at,       \* per file: the schema and name of its table (AtPlaces below)
  project,  \* per project directory: absent, present, removed
  status,   \* per personal layer: PersonalLayer.status; absent, deleted
  live, slug, of, \* table Layer: the rows, their slug, what each publishes
  pc, subject, name, target, \* per request: the statement it awaits next, the
            \* personal layer or file, the slug and the row it is about
  purging, refs, doomed      \* the purge: its step, what it read, its drops
(***************************************************************************)
(* History, read by no action: tables the purge dropped; files some        *)
(* request on which failed or died after its first write; rows and files   *)
(* first referenced while the purge ran.                                   *)
(***************************************************************************)
VARIABLES purged, failed, late

catalogue == <<live, slug, of>>
request == <<pc, subject, name, target>>
purge == <<purging, refs, doomed>>
history == <<purged, failed, late>>
vars == <<at, project, status, catalogue, request, purge, history>>

\* "halfway": moved to its new schema, still under its staging name.
AtPlaces == {"none", "staging", "halfway", "personal"} \cup Table
Existing == {"PRIVATE", "PENDING_PUBLICATION", "REJECTED", "PUBLISHED"}
Working == {"importing", "renaming", "recording", "adopting", "shifting",
            "naming", "registering", "requesting", "rejecting", "approving",
            "probing", "locating", "moving", "cataloguing", "publishing",
            "dropping", "erasing", "removing", "clearing"}

TypeOK ==
  /\ at \in [Dataset -> AtPlaces]
  /\ project \in [Project -> {"absent", "present", "removed"}]
  /\ status \in [Personal -> Existing \cup {"absent", "deleted"}]
  /\ live \subseteq Row /\ slug \in [Row -> Name \cup {None}]
  /\ of \in [Row -> Personal \cup {None}]
  /\ pc \in [Request -> Working \cup {"idle"}]
  /\ subject \in [Request -> Personal \cup {None}]
  /\ name \in [Request -> Name \cup {None}]
  /\ target \in [Request -> Row \cup {None}]
  /\ purging \in {"idle", "layers", "both", "dropping"}
  /\ refs \subseteq Dataset \cup Table /\ doomed \subseteq Dataset \cup Table
  /\ purged \subseteq Dataset \cup Table /\ failed \subseteq Dataset
  /\ late \subseteq Row \cup Dataset

Init ==
  /\ at = [d \in Dataset |-> "none"]
  /\ project = [j \in Project |-> "absent"]
  /\ status = [p \in Personal |-> "absent"]
  /\ live = {} /\ slug = [r \in Row |-> None] /\ of = [r \in Row |-> None]
  /\ pc = [h \in Request |-> "idle"] /\ subject = [h \in Request |-> None]
  /\ name = [h \in Request |-> None] /\ target = [h \in Request |-> None]
  /\ purging = "idle" /\ refs = {} /\ doomed = {}
  /\ purged = {} /\ failed = {} /\ late = {}
-----------------------------------------------------------------------------
(***************************************************************************)
(* Tables.  A file's personal table bears a name of its own (pl_<uuid>),   *)
(* here the file; a catalogue table the name TableOf gives it.             *)
(***************************************************************************)
Located(d) == IF at[d] = "personal" THEN d ELSE at[d]
Physical == {Located(d) : d \in {e \in Dataset : at[e] \in Table \cup {"personal"}}}
Exists(t) == \E d \in Dataset : at[d] = t

\* DROP TABLE IF EXISTS, of a table at one of the locations Located gives.
WithoutTable(l) == [d \in Dataset |-> IF Located(d) = l THEN "none" ELSE at[d]]

RowTable(r) == TableOf[slug[r]]
LayerRefs == {RowTable(r) : r \in {q \in live : of[q] \in Dataset}}
PersonalRefs == {d \in Dataset : status[d] \in Existing}

-----------------------------------------------------------------------------
(***************************************************************************)
(* A request.  Await(h, s) waits for its next statement; EndOf(h, ok)      *)
(* replies, or fails: what it already wrote stays.                         *)
(***************************************************************************)
Begin(h, s, p, n, r) ==
  /\ pc[h] = "idle"
  /\ pc' = [pc EXCEPT ![h] = s] /\ subject' = [subject EXCEPT ![h] = p]
  /\ name' = [name EXCEPT ![h] = n] /\ target' = [target EXCEPT ![h] = r]

Await(h, s) == pc' = [pc EXCEPT ![h] = s] /\ UNCHANGED <<subject, name, target>>

Reply(h) ==
  /\ pc' = [pc EXCEPT ![h] = "idle"] /\ subject' = [subject EXCEPT ![h] = None]
  /\ name' = [name EXCEPT ![h] = None] /\ target' = [target EXCEPT ![h] = None]

\* The file a request has begun to change, when it is one.
Touched(h) ==
  IF pc[h] \in {"renaming", "recording", "naming", "registering", "cataloguing",
                "publishing", "erasing", "clearing"}
  THEN {subject[h]} \cap Dataset ELSE {}

\* An error reply, or the death of the request: what it wrote stays.
Fail(h) == Reply(h) /\ failed' = failed \cup Touched(h)

NewlySeen(x) == late' = IF purging = "idle" THEN late ELSE late \cup x
Forget == late' = IF purging' = "idle" THEN {} ELSE late
-----------------------------------------------------------------------------
(* StageFileImportUseCase: a file is loaded into "staging" under a fresh    *)
(* name; the next import drops the staging tables older than 24 hours.      *)
Stage(d) ==
  /\ at[d] = "none" /\ status[d] = "absent"
  /\ d \notin purged \cup failed /\ \A r \in Row : of[r] # d
  /\ \A h \in Request : subject[h] # d
  /\ at' = [at EXCEPT ![d] = "staging"]
  /\ UNCHANGED <<project, status, catalogue, request, purge, history>>

CleanupOrphanedTables(d) ==
  /\ at[d] = "staging" /\ at' = [at EXCEPT ![d] = "none"]
  /\ UNCHANGED <<project, status, catalogue, request, purge, history>>

(***************************************************************************)
(* ALTER TABLE ... SET SCHEMA of a staging table: an error when another    *)
(* request, or the cleanup, took it since it was seen.                     *)
(***************************************************************************)
TakeFromStaging(h, then) ==
  IF at[subject[h]] = "staging"
  THEN /\ at' = [at EXCEPT ![subject[h]] = "halfway"]
       /\ Await(h, then) /\ UNCHANGED failed
  ELSE Fail(h) /\ UNCHANGED at

-----------------------------------------------------------------------------
\* ImportPersonalFileUseCase.
SeeStaging(h, d) ==
  /\ at[d] = "staging" /\ Begin(h, "importing", d, None, None)
  /\ UNCHANGED <<at, project, status, catalogue, purge, history>>

SetPersonalSchema(h) ==
  /\ pc[h] = "importing" /\ TakeFromStaging(h, "renaming")
  /\ UNCHANGED <<project, status, catalogue, purge, purged, late>>

RenamePersonal(h) ==
  /\ pc[h] = "renaming" /\ Await(h, "recording")
  /\ at' = [at EXCEPT ![subject[h]] = "personal"]
  /\ UNCHANGED <<project, status, catalogue, purge, history>>

RecordPersonal(h) ==
  /\ pc[h] = "recording" /\ Reply(h)
  /\ status' = [status EXCEPT ![subject[h]] = "PRIVATE"]
  /\ NewlySeen({subject[h]})
  /\ UNCHANGED <<at, project, catalogue, purge, purged, failed>>

\* ImportPersonalQgisProjectUseCase: the project directory, then one record per
\* layer of the project; an import that dies leaves the rest unrecorded.
StageProject(j) ==
  /\ project[j] = "absent" /\ project' = [project EXCEPT ![j] = "present"]
  /\ UNCHANGED <<at, status, catalogue, request, purge, history>>

RecordLeaf(p) ==
  /\ status[p] = "absent" /\ project[ProjectOf[p]] # "absent"
  /\ status' = [status EXCEPT ![p] = "PRIVATE"]
  /\ UNCHANGED <<at, project, catalogue, request, purge, history>>

-----------------------------------------------------------------------------
(***************************************************************************)
(* layerRepository.create: the slug is unique in the instance (a P2002     *)
(* error otherwise).  The bound is Row: no request starts on a catalogue   *)
(* row when none is left, so that running out is never an error.           *)
(***************************************************************************)
SlugFree(n) == \A r \in live : slug[r] # n
Unused == {r \in Row : of[r] = None}
RowsLeft == Cardinality(Unused)
              > Cardinality({h \in Request : name[h] # None})

CreateRow(h, then) ==
  IF SlugFree(name[h])
  THEN \E r \in Unused :
         /\ live' = live \cup {r} /\ slug' = [slug EXCEPT ![r] = name[h]]
         /\ of' = [of EXCEPT ![r] = subject[h]] /\ NewlySeen({r})
         /\ then /\ UNCHANGED failed
  ELSE Fail(h) /\ UNCHANGED <<catalogue, late>>

\* CreateLayerFromStagingUseCase: no transaction around its two ALTER TABLE, and
\* no look at the final table before them.
AskCatalogue(h, d, n) ==
  /\ RowsLeft /\ at[d] = "staging" /\ Begin(h, "adopting", d, n, None)
  /\ UNCHANGED <<at, project, status, catalogue, purge, history>>

CheckSlug(h) ==
  /\ pc[h] = "adopting"
  /\ IF SlugFree(name[h]) THEN Await(h, "shifting") /\ UNCHANGED failed ELSE Fail(h)
  /\ UNCHANGED <<at, project, status, catalogue, purge, purged, late>>

SetFinalSchema(h) ==
  /\ pc[h] = "shifting" /\ TakeFromStaging(h, "naming")
  /\ UNCHANGED <<project, status, catalogue, purge, purged, late>>

RenameFinal(h) ==
  /\ pc[h] = "naming"
  /\ IF Exists(TableOf[name[h]])
     THEN Fail(h) /\ UNCHANGED at
     ELSE /\ at' = [at EXCEPT ![subject[h]] = TableOf[name[h]]]
          /\ Await(h, "registering") /\ UNCHANGED failed
  /\ UNCHANGED <<project, status, catalogue, purge, purged, late>>

RegisterLayer(h) ==
  /\ pc[h] = "registering" /\ CreateRow(h, Reply(h))
  /\ UNCHANGED <<at, project, status, purge, purged>>

-----------------------------------------------------------------------------
(***************************************************************************)
(* RequestPersonalLayerPublicationUseCase and the repository's writes of   *)
(* status: by id alone, whatever the status has become; an error when the  *)
(* row is gone.                                                            *)
(***************************************************************************)
WriteStatus(h, s) ==
  IF status[subject[h]] \in Existing
  THEN /\ status' = [status EXCEPT ![subject[h]] = s] /\ Reply(h) /\ UNCHANGED failed
  ELSE Fail(h) /\ UNCHANGED status

ReadForRequest(h, p) ==
  /\ status[p] \in {"PRIVATE", "REJECTED"} /\ Begin(h, "requesting", p, None, None)
  /\ UNCHANGED <<at, project, status, catalogue, purge, history>>

RequestPublication(h) ==
  /\ pc[h] = "requesting" /\ WriteStatus(h, "PENDING_PUBLICATION")
  /\ UNCHANGED <<at, project, catalogue, purge, purged, late>>

\* ReviewPersonalLayerPublicationUseCase, decision REJECT.
ReadForReject(h, p) ==
  /\ status[p] = "PENDING_PUBLICATION" /\ Begin(h, "rejecting", p, None, None)
  /\ UNCHANGED <<at, project, status, catalogue, purge, history>>

Reject(h) ==
  /\ pc[h] = "rejecting" /\ WriteStatus(h, "REJECTED")
  /\ UNCHANGED <<at, project, catalogue, purge, purged, late>>

(***************************************************************************)
(* Decision APPROVE, under a name the reviewer may override.  For a file:  *)
(* the final table must not exist, the personal one must; both ALTER TABLE *)
(* are one transaction.  The look for the table under its personal name in *)
(* the target schema never finds it: no committed state has it there.      *)
(***************************************************************************)
ReadForApprove(h, p, n) ==
  /\ RowsLeft /\ status[p] = "PENDING_PUBLICATION" /\ Begin(h, "approving", p, n, None)
  /\ UNCHANGED <<at, project, status, catalogue, purge, history>>

FindBySlug(h) ==
  /\ pc[h] = "approving"
  /\ IF SlugFree(name[h])
     THEN /\ Await(h, IF subject[h] \in Dataset THEN "probing" ELSE "cataloguing")
          /\ UNCHANGED failed
     ELSE Fail(h)
  /\ UNCHANGED <<at, project, status, catalogue, purge, purged, late>>

ProbeFinal(h) ==
  /\ pc[h] = "probing"
  /\ IF Exists(TableOf[name[h]]) THEN Fail(h) ELSE Await(h, "locating") /\ UNCHANGED failed
  /\ UNCHANGED <<at, project, status, catalogue, purge, purged, late>>

LocateOriginal(h) ==
  /\ pc[h] = "locating"
  /\ IF at[subject[h]] = "personal" THEN Await(h, "moving") /\ UNCHANGED failed ELSE Fail(h)
  /\ UNCHANGED <<at, project, status, catalogue, purge, purged, late>>

\* A version that leaves the table where it is
MoveLater(h) ==
  /\ pc[h] = "moving"
  /\ IF at[subject[h]] = "personal" /\ ~Exists(TableOf[name[h]])
     THEN Await(h, "cataloguing") /\ UNCHANGED failed
     ELSE Fail(h)
  /\ UNCHANGED <<at, project, status, catalogue, purge, purged, late>>

MoveTable(h) ==
  /\ pc[h] = "moving"
  /\ IF at[subject[h]] = "personal" /\ ~Exists(TableOf[name[h]])
     THEN /\ at' = [at EXCEPT ![subject[h]] = TableOf[name[h]]]
          /\ Await(h, "cataloguing") /\ UNCHANGED failed
     ELSE Fail(h) /\ UNCHANGED at
  /\ UNCHANGED <<project, status, catalogue, purge, purged, late>>

CatalogueLayer(h) ==
  /\ pc[h] = "cataloguing" /\ CreateRow(h, Await(h, "publishing"))
  /\ UNCHANGED <<at, project, status, purge, purged>>

Publish(h) ==
  /\ pc[h] = "publishing" /\ WriteStatus(h, "PUBLISHED")
  /\ UNCHANGED <<at, project, catalogue, purge, purged, late>>
-----------------------------------------------------------------------------
(***************************************************************************)
(* DeletePersonalLayerUseCase: whatever the status, the table under its    *)
(* personal name, or the project directory (shared by all the layers made  *)
(* of that project), then the record.                                      *)
(***************************************************************************)
\* A version that deletes the record alone
EraseWithoutDrop(h) ==
  /\ pc[h] = "dropping" /\ Await(h, "erasing")
  /\ UNCHANGED <<at, project, status, catalogue, purge, history>>

ReadForDelete(h, p) ==
  /\ status[p] \in Existing /\ Begin(h, "dropping", p, None, None)
  /\ UNCHANGED <<at, project, status, catalogue, purge, history>>

DropPersonal(h) ==
  /\ pc[h] = "dropping" /\ Await(h, "erasing")
  /\ IF subject[h] \in Dataset
     THEN at' = WithoutTable(subject[h]) /\ UNCHANGED project
     ELSE /\ project' = [project EXCEPT ![ProjectOf[subject[h]]] = "removed"]
          /\ UNCHANGED at
  /\ UNCHANGED <<status, catalogue, purge, history>>

\* A failing drop is logged and the record goes all the same.
DropPersonalFails(h) ==
  /\ pc[h] = "dropping" /\ Await(h, "erasing")
  /\ failed' = failed \cup ({subject[h]} \cap Dataset)
  /\ UNCHANGED <<at, project, status, catalogue, purge, purged, late>>

ErasePersonal(h) ==
  /\ pc[h] = "erasing" /\ WriteStatus(h, "deleted")
  /\ UNCHANGED <<at, project, catalogue, purge, purged, late>>

-----------------------------------------------------------------------------
(***************************************************************************)
(* DeleteLayerUseCase: the row first, by id (an error when another request *)
(* deleted it), then the table the row named when it was read.             *)
(***************************************************************************)
ReadLayer(h, r) ==
  /\ r \in live /\ Begin(h, "removing", of[r], None, r)
  /\ UNCHANGED <<at, project, status, catalogue, purge, history>>

\* A version that drops the table before the row
DeleteRowLast(h) ==
  /\ pc[h] = "removing" /\ at' = WithoutTable(RowTable(target[h]))
  /\ Await(h, "clearing") /\ UNCHANGED failed
  /\ UNCHANGED <<live, project, status, slug, of, purge, purged, late>>

DeleteRow(h) ==
  /\ pc[h] = "removing"
  /\ IF target[h] \in live
     THEN /\ live' = live \ {target[h]} /\ UNCHANGED failed
          /\ IF of[target[h]] \in Dataset THEN Await(h, "clearing") ELSE Reply(h)
     ELSE Fail(h) /\ UNCHANGED live
  /\ UNCHANGED <<at, project, status, slug, of, purge, purged, late>>

DropTable(h) ==
  /\ pc[h] = "clearing" /\ at' = WithoutTable(RowTable(target[h])) /\ Reply(h)
  /\ UNCHANGED <<project, status, catalogue, purge, history>>

\* A request that dies, or whose next statement fails, at any await.
Abort(h) ==
  /\ pc[h] # "idle" /\ Fail(h)
  /\ UNCHANGED <<at, project, status, catalogue, purge, purged, late>>

-----------------------------------------------------------------------------
(***************************************************************************)
(* PurgeOrphanTablesUseCase: the tables the catalogue rows name, those the *)
(* personal layers name, then the physical tables whose name some row has  *)
(* by then; drops, one by one, what is in the third list and not in the    *)
(* first two.                                                              *)
(***************************************************************************)
ReadLayerRefs ==
  /\ purging = "idle" /\ Cardinality(purged) < MaxPurged
  /\ purging' = "layers" /\ refs' = LayerRefs /\ late' = {}
  /\ UNCHANGED <<at, project, status, catalogue, request, doomed, purged, failed>>

\* A version that forgets the personal layers
SkipPersonalRefs ==
  /\ purging = "layers" /\ purging' = "both" /\ UNCHANGED refs
  /\ UNCHANGED <<at, project, status, catalogue, request, doomed, history>>

ReadPersonalRefs ==
  /\ purging = "layers" /\ purging' = "both" /\ refs' = refs \cup PersonalRefs
  /\ UNCHANGED <<at, project, status, catalogue, request, doomed, history>>

\* The physical tables some row names; a version that does not ask for a name
EveryTable == {IF at[d] = "personal" THEN d ELSE at[d] : d \in Dataset}
Candidates == Physical \cap (LayerRefs \cup PersonalRefs)
\* ... and that the references read before did not name.
Orphans == Candidates \ refs

ListTables ==
  /\ purging = "both" /\ doomed' = Orphans /\ refs' = {}
  /\ purging' = IF doomed' = {} THEN "idle" ELSE "dropping"
  /\ Forget /\ UNCHANGED <<at, project, status, catalogue, request, purged, failed>>

DropOrphan(l) ==
  /\ purging = "dropping" /\ l \in doomed /\ at' = WithoutTable(l)
  /\ doomed' = doomed \ {l} /\ purged' = purged \cup (Physical \cap {l})
  /\ purging' = IF doomed' = {} THEN "idle" ELSE "dropping"
  /\ Forget /\ UNCHANGED <<project, status, catalogue, request, refs, failed>>

PurgeDies ==
  /\ purging # "idle" /\ purging' = "idle" /\ refs' = {} /\ doomed' = {}
  /\ Forget /\ UNCHANGED <<at, project, status, catalogue, request, purged, failed>>

-----------------------------------------------------------------------------
Files == \E d \in Dataset : Stage(d) \/ CleanupOrphanedTables(d)

Importing(h) ==
  \/ \E d \in Dataset : SeeStaging(h, d)
  \/ SetPersonalSchema(h) \/ RenamePersonal(h) \/ RecordPersonal(h)

FromStaging(h) ==
  \/ \E d \in Dataset, n \in Name : AskCatalogue(h, d, n)
  \/ CheckSlug(h) \/ SetFinalSchema(h) \/ RenameFinal(h) \/ RegisterLayer(h)

Asking(h) ==
  \/ \E p \in Personal : ReadForRequest(h, p) \/ ReadForReject(h, p)
  \/ RequestPublication(h) \/ Reject(h)

Approving(h) ==
  \/ \E p \in Personal, n \in Name : ReadForApprove(h, p, n)
  \/ FindBySlug(h) \/ ProbeFinal(h) \/ LocateOriginal(h) \/ MoveTable(h)
  \/ CatalogueLayer(h) \/ Publish(h)

Deleting(h) ==
  \/ \E p \in Personal : ReadForDelete(h, p)
  \/ DropPersonal(h) \/ DropPersonalFails(h) \/ ErasePersonal(h)
  \/ \E r \in Row : ReadLayer(h, r)
  \/ DeleteRow(h) \/ DropTable(h)

Projects == \E j \in Project : StageProject(j)
Leaves == \E p \in Linked : RecordLeaf(p)

Purge ==
  \/ ReadLayerRefs \/ ReadPersonalRefs \/ ListTables
  \/ \E l \in Dataset \cup Table : DropOrphan(l)
  \/ PurgeDies

Next ==
  \/ Files \/ Projects \/ Leaves \/ Purge
  \/ \E h \in Request : \/ Importing(h) \/ FromStaging(h) \/ Asking(h)
                        \/ Approving(h) \/ Deleting(h) \/ Abort(h)

Spec == Init /\ [][Next]_vars
-----------------------------------------------------------------------------
(***************************************************************************)
(* Properties.                                                             *)
(***************************************************************************)
\* A catalogue layer made of a file has its table, whatever interleaving of
\* approvals, imports, personal deletions and layer deletions led there, unless
\* the purge dropped a table of that name (delete-layer drops by name, after the
\* row; names of different slugs may coincide).
RowHasItsTable ==
  \A r \in live : of[r] \in Dataset =>
    at[of[r]] = RowTable(r) \/ RowTable(r) \in purged

\* However many reviewers approve it, under whatever names, and whoever promotes
\* its staging table at the same time, a file reaches the catalogue once.
FilePublishedOnce ==
  \A q, r \in Row : of[q] \in Dataset /\ of[q] = of[r] => q = r

\* A personal file layer that never reached the catalogue has its personal table,
\* unless the purge dropped it, a request failed half-way, or an approval or a
\* deletion of it is at work.
PersonalHasItsTable ==
  \A d \in Dataset : status[d] \in Existing =>
    \/ at[d] = "personal" \/ d \in purged \cup failed
    \/ \E r \in Row : of[r] = d
    \/ \E h \in Request : Touched(h) = {d}

\* Whatever is listed, in the catalogue or as personal data, has the table it reads:
\* both of the above.
EveryRowHasItsTable == RowHasItsTable /\ PersonalHasItsTable

\* A table outside staging that no row of its own speaks of was left by a request
\* that failed or died after its first write, or one is still at work on it.
NoOrphanWithoutFailure ==
  \A d \in Dataset :
    \/ at[d] \in {"none", "staging"}
    \/ at[d] = "personal" /\ status[d] \in Existing
    \/ at[d] \in Table /\ \E r \in live : of[r] = d
    \/ d \in failed \/ \E h \in Request : Touched(h) = {d}

\* The purge drops no table of a row that was there when it began: only of one
\* that a request wrote while it ran (the table is listed after the references).
PurgeSparesWhatItFound ==
  \A l \in doomed :
    /\ \A r \in live : of[r] \in Dataset /\ RowTable(r) = l => r \in late
    /\ l \in Dataset /\ status[l] \in Existing => l \in late

(***************************************************************************)
(* What the documentation says, and the code does not do.                  *)
(***************************************************************************)
\* "pour gerer de maniere transparente les reprises sur echec": a pending layer
\* whose approval broke off has its table where the next approval looks for it.
ApprovalCanResume ==
  \A d \in Dataset :
    /\ status[d] = "PENDING_PUBLICATION" /\ at[d] \in Table
    /\ \A r \in Row : of[r] # d
    => \E h \in Request : subject[h] = d
=============================================================================
