------------------------------ MODULE OsmImports ------------------------------
(***************************************************************************)
(* The OpenStreetMap data all instances share, and the tables of the       *)
(* default layers built from it.  The scheduled job appends the configured *)
(* file and rebuilds the layers; a manual import loads a file in the       *)
(* request AND queues the same job.  Several loads may run at once.        *)
(*                                                                         *)
(* A load is known by its number, in order of completion.  Layer is the    *)
(* default layers of active instances; geometry, tags and statistics, the  *)
(* download, the post-import script and the report are left out.           *)
(***************************************************************************)
EXTENDS Naturals, FiniteSets

CONSTANTS Layer, Job, Request, None,
          Attempts, \* of a job queued by a manual import; a scheduled one has 1
          MaxLoads  \* bound: loads that complete

Runner == Job \cup Request

VARIABLES
  planet, \* the last load in osm.planet_osm_*, 0 when the tables are not there
  slim,   \* whether those tables can be appended to
  copies, \* times the administrative boundaries were inserted
  row,    \* the layers that have their row
  table,  \* per layer: the load its table was built from, 0 without table
  queue,  \* per job: none, waiting, active, completed or failed
  left,   \* per job: attempts it has left
  run     \* per runner: what it is doing, or None
(***************************************************************************)
(* History, read by no action: loads completed; the load of each job's     *)
(* last attempt; layers it counted as failed.                              *)
(***************************************************************************)
VARIABLES loads, mine, failed

data == <<planet, slim, copies>>
layers == <<row, table>>
jobs == <<queue, left, mine, failed>>
vars == <<data, layers, jobs, run, loads>>

\* A runner: its step, how it loads, the layers it still has to rebuild and the one
\* whose table it has dropped.
Run == [at : {"load", "loading", "boundaries", "list", "rebuild", "create"},
        mode : {"append", "create", "slimless", "none"},
        todo : SUBSET Layer, layer : Layer \cup {None}]

TypeOK ==
  /\ planet \in 0..MaxLoads /\ slim \in BOOLEAN /\ copies \in 0..MaxLoads
  /\ row \subseteq Layer /\ table \in [Layer -> 0..MaxLoads]
  /\ queue \in [Job -> {"none", "waiting", "active", "completed", "failed"}]
  /\ left \in [Job -> 0..Attempts] /\ run \in [Runner -> Run \cup {None}]
  /\ loads \in 0..MaxLoads /\ mine \in [Job -> 0..MaxLoads]
  /\ failed \in [Job -> SUBSET Layer]

Init ==
  /\ planet = 0 /\ slim = FALSE /\ copies = 0
  /\ row = {} /\ table = [l \in Layer |-> 0]
  /\ queue = [j \in Job |-> "none"] /\ left = [j \in Job |-> 0]
  /\ mine = [j \in Job |-> 0] /\ failed = [j \in Job |-> {}]
  /\ run = [r \in Runner |-> None] /\ loads = 0

Put(r, s, mode, todo, l) ==
  run' = [run EXCEPT ![r] = [at |-> s, mode |-> mode, todo |-> todo, layer |-> l]]
Goto(r, s) == run' = [run EXCEPT ![r].at = s]
At(r, s) == run[r] # None /\ run[r].at = s
-----------------------------------------------------------------------------
Enqueue(js, n) ==
  /\ \A j \in js : queue[j] = "none"
  /\ queue' = [j \in Job |-> IF j \in js THEN "waiting" ELSE queue[j]]
  /\ left' = [j \in Job |-> IF j \in js THEN n ELSE left[j]]
  /\ UNCHANGED <<mine, failed>>

\* The calendar's job.
Schedule(j) == Enqueue({j}, 1) /\ UNCHANGED <<data, layers, run, loads>>

\* POST /osm/import: a job is queued unless that fails, and the import starts in the
\* request, after the reply.  The job reads nothing of the request's body.
ManualImport(r, mode, js) ==
  /\ run[r] = None /\ Enqueue(js, Attempts) /\ Put(r, "load", mode, {}, None)
  /\ UNCHANGED <<data, layers, loads>>

Take(j) ==
  /\ queue[j] = "waiting" /\ queue' = [queue EXCEPT ![j] = "active"]
  /\ left' = [left EXCEPT ![j] = @ - 1] /\ mine' = [mine EXCEPT ![j] = 0]
  /\ failed' = [failed EXCEPT ![j] = {}] /\ Put(j, "load", "append", {}, None)
  /\ UNCHANGED <<data, layers, loads>>

\* OSM_IMPORT_PBF_PATH is not set, in this process: the job completes and loads nothing.
NoPath(j) ==
  /\ queue[j] = "waiting" /\ queue' = [queue EXCEPT ![j] = "completed"]
  /\ left' = [left EXCEPT ![j] = @ - 1] /\ mine' = [mine EXCEPT ![j] = 0]
  /\ failed' = [failed EXCEPT ![j] = {}]
  /\ UNCHANGED <<data, layers, run, loads>>

\* osm2pgsql starts: --create drops what is there.
StartLoad(r) ==
  /\ At(r, "load") /\ Goto(r, "loading")
  /\ planet' = IF run[r].mode = "append" THEN planet ELSE 0
  /\ UNCHANGED <<slim, copies, layers, jobs, loads>>

\* It ends: --append needs the tables of a slim import.
EndLoad(r) ==
  /\ At(r, "loading") /\ loads < MaxLoads /\ Goto(r, "boundaries")
  /\ run[r].mode = "append" => planet # 0 /\ slim
  /\ loads' = loads + 1 /\ planet' = loads + 1 /\ slim' = (run[r].mode # "slimless")
  /\ mine' = [j \in Job |-> IF j = r THEN loads + 1 ELSE mine[j]]
  /\ UNCHANGED <<copies, layers, queue, left, failed>>

\* The boundaries are inserted again at each import, an error there is logged; a manual
\* import ends here.
Boundaries(r) ==
  /\ At(r, "boundaries")
  /\ copies' \in {copies} \cup (IF copies < MaxLoads THEN {copies + 1} ELSE {})
  /\ IF r \in Job THEN Goto(r, "list") ELSE run' = [run EXCEPT ![r] = None]
  /\ UNCHANGED <<planet, slim, layers, jobs, loads>>

\* findAll, then findByInstance.
List(j) ==
  /\ At(j, "list") /\ Put(j, "rebuild", "append", row, None)
  /\ UNCHANGED <<data, layers, jobs, loads>>

-----------------------------------------------------------------------------
\* CreateInstanceUseCase inserts the row of a default layer, then builds its table;
\* POST /layers/:id/resync rebuilds the table of an existing one.
Register(r, l) ==
  /\ run[r] = None /\ l \notin row /\ row' = row \cup {l}
  /\ Put(r, "rebuild", "none", {l}, None)
  /\ UNCHANGED <<data, table, jobs, loads>>
Resync(r, l) ==
  /\ run[r] = None /\ l \in row /\ Put(r, "rebuild", "none", {l}, None)
  /\ UNCHANGED <<data, layers, jobs, loads>>

\* createTable: DROP TABLE, then CREATE TABLE AS, in two statements.
Drop(r, l) ==
  /\ At(r, "rebuild") /\ l \in run[r].todo
  /\ table' = [table EXCEPT ![l] = 0]
  /\ Put(r, "create", run[r].mode, run[r].todo \ {l}, l)
  /\ UNCHANGED <<data, row, jobs, loads>>

\* The table is built from the data there is, if there is some and no other runner
\* built the table meanwhile.
Build(r) ==
  LET l == run[r].layer IN
  /\ At(r, "create") /\ planet # 0 /\ table[l] = 0
  /\ table' = [table EXCEPT ![l] = planet]
  /\ Put(r, "rebuild", run[r].mode, run[r].todo, None)
  /\ UNCHANGED <<data, row, jobs, loads>>

\* A version whose loop stops at the first layer that fails
GiveUp(r, l) == {}
\* The job counts the failure and goes on with the others.
Others(r, l) == run[r].todo \ {l}

Skip(r, l) ==
  /\ Put(r, "rebuild", run[r].mode, Others(r, l), None)
  /\ failed' = [j \in Job |-> IF j = r THEN failed[j] \cup {l} ELSE failed[j]]
  /\ UNCHANGED <<data, layers, queue, left, mine, loads>>
\* A layer fails before its table is dropped (a row or a column that cannot be read), or after.
ReadFails(r, l) == At(r, "rebuild") /\ l \in run[r].todo /\ Skip(r, l)
BuildFails(r) == At(r, "create") /\ Skip(r, run[r].layer)

\* The processor returns; a request ends.
Finish(r) ==
  /\ At(r, "rebuild") /\ run[r].todo = {} /\ run' = [run EXCEPT ![r] = None]
  /\ queue' = [j \in Job |-> IF j = r THEN "completed" ELSE queue[j]]
  /\ UNCHANGED <<data, layers, left, mine, failed, loads>>

-----------------------------------------------------------------------------
AfterFailure(j) == IF left[j] > 0 THEN "waiting" ELSE "failed"

\* The load fails (a file that is not there, tables that cannot be appended to, an hour
\* gone) or any other statement outside the loop throws.
Fail(r) ==
  /\ run[r] # None /\ run[r].at \in {"load", "loading", "list"}
  /\ run' = [run EXCEPT ![r] = None]
  /\ queue' = [j \in Job |-> IF j = r THEN AfterFailure(j) ELSE queue[j]]
  /\ UNCHANGED <<data, layers, left, mine, failed, loads>>

\* The process stops: the jobs it ran are taken again, its requests are lost.
Crash ==
  /\ \E r \in Runner : run[r] # None
  /\ run' = [r \in Runner |-> None]
  /\ queue' = [j \in Job |-> IF queue[j] = "active" THEN "waiting" ELSE queue[j]]
  /\ left' = [j \in Job |-> IF queue[j] = "active" THEN left[j] + 1 ELSE left[j]]
  /\ UNCHANGED <<data, layers, mine, failed, loads>>

Next ==
  \/ \E j \in Job : Schedule(j) \/ Take(j) \/ NoPath(j) \/ List(j)
  \/ \E r \in Request, mode \in {"append", "create", "slimless"} :
       ManualImport(r, mode, {}) \/ \E j \in Job : ManualImport(r, mode, {j})
  \/ \E r \in Runner : \/ StartLoad(r) \/ EndLoad(r) \/ Boundaries(r) \/ Build(r)
                       \/ BuildFails(r) \/ Finish(r) \/ Fail(r)
  \/ \E r \in Request, l \in Layer : Register(r, l) \/ Resync(r, l)
  \/ \E r \in Runner, l \in Layer : Drop(r, l) \/ ReadFails(r, l)
  \/ Crash

Spec == Init /\ [][Next]_vars
-----------------------------------------------------------------------------
\* Once a job reports completed, no default layer shows data older than the load of that
\* job (there is none without a path), whoever else rebuilt it or created it meanwhile, but
\* for the layers it counted as failed.  (One that has lost its table shows none.)
LayersFollowImport ==
  \A j \in Job, l \in row :
    queue[j] = "completed" => table[l] \in {0} \cup mine[j]..loads \/ l \in failed[j]
=============================================================================
