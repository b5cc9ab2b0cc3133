--------------------------- MODULE BackgroundJobs ---------------------------
(***************************************************************************)
(* Asynchronous work of the API: a use case creates a tracking row in      *)
(* status PENDING and queues a job for it; a worker of some API process    *)
(* takes the job, writes PROCESSING, does the work, writes COMPLETED, or   *)
(* on any error writes FAILED and throws, so that BullMQ tries again.      *)
(* Five processors share that skeleton (src/infrastructure/queue/workers): *)
(* export and bulk export, layer import, location plan, raster analysis    *)
(* and analysis report.                                                    *)
(*                                                                         *)
(* Rows, objects and locks live in three systems that share no             *)
(* transaction.  One action below is one awaited call; between two of them *)
(* a row may be deleted, a process may die, a lock may lapse and another   *)
(* worker may start on the same job.                                       *)
(*                                                                         *)
(* Progress percentages, file formats, sizes and temporary files are left  *)
(* out; so is the text an AI writes for a report.  A layer names its table *)
(* or none: which of several tables it names is left out.                  *)
(***************************************************************************)
EXTENDS JobQueue, FiniteSets

CONSTANTS Layer,
          Kind,       \* [Job -> Kinds]
          Wants,      \* [Job -> SUBSET Layer]: layerId or layerIds of the row
          MaxRetries, \* bound: retries an administrator asks for
          MaxRows     \* bound: rows created

Kinds == {"export", "bulk", "append", "replace", "plan", "raster", "report"}
Imports == {"append", "replace"}  \* GeoJSON is inserted, the rest overwrites
\* Rows with a layerId: onDelete: Cascade, and a processor that needs the layer
OneLayer == {"export", "raster"} \cup Imports
Uploads == {"export", "bulk", "plan", "report"}

ASSUME JobAssumption ==
  /\ Kind \in [Job -> Kinds]
  /\ Wants \in [Job -> SUBSET Layer]
  /\ \A j \in Job : Kind[j] \in OneLayer => \E l \in Layer : Wants[j] = {l}
  /\ MaxRetries \in Nat /\ MaxRows \in Nat

VARIABLES
  status,     \* the tracking row's status; "absent", and "deleted" when gone
  asking,     \* rows created by a request that has not queued the job yet
  layers,     \* layers that exist
  tabled,     \* those of them with a schemaName and a tableName
  stored,     \* jobs whose file is in MinIO (deleting a row leaves the file)
  content,    \* the layers that file holds
  rows,       \* how often an import's features are in its layer's table
  told,       \* statuses a notification was issued for
  at, has,    \* per worker: the call it awaits, the job it is on
  left, part, \* the layers it has still to read, those it has exported
  retries,    \* retries asked for so far
  unmarked,   \* history: jobs whose row could not be marked FAILED,
  bare        \* and the layers asked for that have named no table since

tables == <<status, layers, tabled, rows, told>>
minio == <<stored, content>>
worker == <<at, has, left, part>>
other == <<asking, retries, unmarked, bare>>
vars == <<queue, tables, minio, worker, other>>

Status == {"absent", "PENDING", "PROCESSING", "COMPLETED", "FAILED", "deleted"}
Present == {"PENDING", "PROCESSING", "COMPLETED", "FAILED"}
Working == {"begin", "load", "produce", "register", "upload", "finish"}
Await == Working \cup {"idle", "fail", "ack", "nack"}

TypeOK ==
  /\ QueueTypeOK
  /\ status \in [Job -> Status] /\ asking \in SUBSET Job
  /\ layers \in SUBSET Layer /\ tabled \in SUBSET layers
  /\ stored \in SUBSET Job /\ content \in [Job -> SUBSET Layer]
  /\ rows \in [Job -> Nat]
  /\ told \in [Job -> SUBSET {"PROCESSING", "COMPLETED", "FAILED"}]
  /\ at \in [Worker -> Await] /\ has \in [Worker -> Job \cup {None}]
  /\ left \in [Worker -> SUBSET Layer] /\ part \in [Worker -> SUBSET Layer]
  /\ retries \in Nat /\ unmarked \in SUBSET Job
  /\ bare \in [Job -> SUBSET Layer]

Init ==
  /\ QueueInit
  /\ status = [j \in Job |-> "absent"] /\ asking = {}
  /\ layers = Layer /\ tabled \in SUBSET Layer
  /\ stored = {} /\ content = [j \in Job |-> {}]
  /\ rows = [j \in Job |-> 0]
  /\ told = [j \in Job |-> {}]
  /\ at = [w \in Worker |-> "idle"] /\ has = [w \in Worker |-> None]
  /\ left = [w \in Worker |-> {}] /\ part = [w \in Worker |-> {}]
  /\ retries = 0 /\ unmarked = {} /\ bare = [j \in Job |-> {}]

-----------------------------------------------------------------------------
(* The request: create the row, then queue the job. *)

CreateRow(j) ==
  /\ status[j] = "absent"
  /\ Cardinality({i \in Job : status[i] # "absent"}) < MaxRows
  /\ status' = [status EXCEPT ![j] = "PENDING"]
  /\ asking' = asking \cup {j}
  /\ bare' = [bare EXCEPT ![j] = (Wants[j] \cap layers) \ tabled]
  /\ UNCHANGED <<queue, layers, tabled, rows, told, minio, worker, retries, unmarked>>

\* The layer of an export is looked for by its foreign key alone, those of a bulk
\* export not at all; an import and a raster analysis find theirs first. The file to
\* import is stored under a key of its own, which only this row has.
CreateExport(j) == Kind[j] = "export" /\ Wants[j] \subseteq layers /\ CreateRow(j)
CreateBulkExport(j) == Kind[j] = "bulk" /\ CreateRow(j)
ImportLayer(j) == Kind[j] \in Imports /\ Wants[j] \subseteq layers /\ CreateRow(j)
RunRasterAnalysis(j) == Kind[j] = "raster" /\ Wants[j] \subseteq layers /\ CreateRow(j)
GenerateAnalysisReport(j) == Kind[j] = "report" /\ Wants[j] # {} /\ CreateRow(j)
\* The text an AI drafts and the way there are computed before, and no failure of theirs
\* stops the plan.
CreateLocationPlan(j) == Kind[j] = "plan" /\ CreateRow(j)

Ask(j) ==
  \/ CreateExport(j) \/ CreateBulkExport(j) \/ ImportLayer(j)
  \/ RunRasterAnalysis(j) \/ GenerateAnalysisReport(j) \/ CreateLocationPlan(j)

Enqueue(j) ==
  /\ j \in asking
  /\ AddJob(j)
  /\ asking' = asking \ {j}
  /\ UNCHANGED <<tables, minio, worker, retries, unmarked, bare>>

\* The process stops, or Redis refuses: the row stays, no job is ever queued.
AskFails(j) ==
  /\ j \in asking
  /\ asking' = asking \ {j}
  /\ UNCHANGED <<queue, tables, minio, worker, retries, unmarked, bare>>

-----------------------------------------------------------------------------
(* The processors. *)

On(w, p) == at[w] = p
GoTo(w, p) == at' = [at EXCEPT ![w] = p] /\ UNCHANGED <<has, left, part>>

Take(w, j) ==
  /\ On(w, "idle")
  /\ TakeJob(w, j)
  /\ at' = [at EXCEPT ![w] = "begin"]
  /\ has' = [has EXCEPT ![w] = j]
  /\ left' = [left EXCEPT ![w] = Wants[j]]
  /\ part' = [part EXCEPT ![w] = {}]
  /\ UNCHANGED <<tables, minio, other>>

\* A version of the update by id that inserts the row when it is gone
Upsert(j, s) == status' = [status EXCEPT ![j] = s]
Update(j, s) == status[j] \in Present /\ status' = [status EXCEPT ![j] = s]

Notify(j, s) ==
  told' = [told EXCEPT ![j] = IF Kind[j] = "raster" THEN told[j] ELSE told[j] \cup {s}]

Begin(w) ==
  LET j == has[w] IN
  /\ On(w, "begin")
  /\ Update(j, "PROCESSING")
  /\ Notify(j, "PROCESSING")
  /\ GoTo(w, IF Kind[j] = "plan" THEN "produce" ELSE "load")
  /\ UNCHANGED <<queue, layers, tabled, rows, minio, other>>

\* findById of the layer, then ogr2ogr, the insert or the statistics on its table; an
\* import into a layer that names none takes a name made of the layer's id.
LoadLayer(w) ==
  LET j == has[w] IN
  /\ On(w, "load") /\ Kind[j] \in OneLayer
  /\ Wants[j] \subseteq (IF Kind[j] \in Imports THEN layers ELSE tabled)
  /\ Kind[j] = "export" => status[j] \in Present
  /\ GoTo(w, "produce")
  /\ UNCHANGED <<queue, tables, minio, other>>

ExportLayer(w) ==
  LET j == has[w] IN
  /\ On(w, "produce") /\ Kind[j] = "export"
  /\ at' = [at EXCEPT ![w] = "upload"]
  /\ part' = [part EXCEPT ![w] = Wants[j]]
  /\ UNCHANGED <<queue, tables, minio, has, left, other>>

\* One layer of a bulk export, skipped with a warning in the log when it does not
\* exist or names no table; a version that keeps the null it was found to be
NullPart(w, l) == part[w] \cup {IF l \in tabled THEN l ELSE None}
BulkPart(w, l) == IF l \in tabled THEN part[w] \cup {l} ELSE part[w]

BulkLayer(w) ==
  /\ On(w, "load") /\ Kind[has[w]] = "bulk"
  /\ \E l \in left[w] :
       /\ left' = [left EXCEPT ![w] = left[w] \ {l}]
       /\ part' = [part EXCEPT ![w] = BulkPart(w, l)]
  /\ UNCHANGED <<queue, tables, minio, at, has, other>>

\* The archive is written after the loop over the layers; a version inside it
SomePart(w) == part[w] # {}
AllParts(w) == left[w] = {} /\ part[w] # {}

BulkZip(w) ==
  /\ On(w, "load") /\ Kind[has[w]] = "bulk"
  /\ AllParts(w)
  /\ GoTo(w, "upload")
  /\ UNCHANGED <<queue, tables, minio, other>>

\* A layer without a table, or whose statistic cannot be computed, is not reported on.
ReportSummarize(w) ==
  LET j == has[w] IN
  /\ On(w, "load") /\ Kind[j] = "report"
  /\ \E S \in SUBSET (Wants[j] \cap tabled) :
       /\ S # {}
       /\ part' = [part EXCEPT ![w] = S]
  /\ at' = [at EXCEPT ![w] = "upload"]
  /\ UNCHANGED <<queue, tables, minio, has, left, other>>

PlanGenerate(w) ==
  /\ On(w, "produce") /\ Kind[has[w]] = "plan"
  /\ GoTo(w, "upload")
  /\ UNCHANGED <<queue, tables, minio, other>>

RasterCompute(w) ==
  /\ On(w, "produce") /\ Kind[has[w]] = "raster"
  /\ GoTo(w, "finish")
  /\ UNCHANGED <<queue, tables, minio, other>>

\* A version of the overwrite that clears the table last
InsertedThenCleared(j) ==
  [i \in Job |-> IF Kind[i] \in Imports /\ Wants[i] = Wants[j] THEN 0 ELSE rows[i]]

\* insertFeatures commits its rows beside those already there; ogr2ogr
\* -overwrite replaces the table, rows of other imports included.
Inserted(j) ==
  IF Kind[j] = "append"
    THEN [rows EXCEPT ![j] = rows[j] + 1]
    ELSE [i \in Job |-> IF i = j THEN 1
                        ELSE IF Kind[i] \in Imports /\ Wants[i] = Wants[j]
                               THEN 0 ELSE rows[i]]

ImportInsert(w) ==
  LET j == has[w] IN
  /\ On(w, "produce") /\ Kind[j] \in Imports
  /\ rows' = Inserted(j)
  /\ GoTo(w, "register")
  /\ UNCHANGED <<queue, status, layers, tabled, told, minio, other>>

\* The layer's table name, statistics and metadata are written, the uploaded
\* file is looked up.
ImportRegister(w) ==
  LET j == has[w] IN
  /\ On(w, "register")
  /\ Wants[j] \subseteq layers
  /\ tabled' = tabled \cup Wants[j]
  /\ GoTo(w, "finish")
  /\ UNCHANGED <<queue, status, layers, rows, told, minio, other>>

Upload(w) ==
  LET j == has[w] IN
  /\ On(w, "upload")
  /\ stored' = stored \cup {j}
  /\ content' = [content EXCEPT ![j] = part[w]]
  /\ GoTo(w, "finish")
  /\ UNCHANGED <<queue, tables, other>>

Complete(w) ==
  LET j == has[w] IN
  /\ On(w, "finish")
  /\ Update(j, "COMPLETED")
  /\ Notify(j, "COMPLETED")
  /\ GoTo(w, "ack")
  /\ UNCHANGED <<queue, layers, tabled, rows, minio, other>>

\* Any error ends the attempt; a version that tries the work again on the spot
WorkAgain(w) == IF at[w] \in {"register", "finish"} THEN "produce" ELSE "fail"
Caught(w) == "fail"

\* Whatever the processor awaits rejects: row or layer gone, no layer left to
\* export, a tool or a connection that fails.
Throw(w) ==
  /\ at[w] \in Working
  /\ GoTo(w, Caught(w))
  /\ UNCHANGED <<queue, tables, minio, other>>

\* The status the catch block writes; a version that only logs
KeptStatus(j) == status[j]
FailedStatus(j) == "FAILED"

\* The error goes on to BullMQ; a version that swallows it
Swallow == "ack"
Throws == "nack"

\* The catch block: FAILED, the notification, and the error again.
MarkFailed(w) ==
  LET j == has[w] IN
  /\ On(w, "fail")
  /\ Update(j, FailedStatus(j))
  /\ Notify(j, "FAILED")
  /\ GoTo(w, Throws)
  /\ UNCHANGED <<queue, layers, tabled, rows, minio, other>>

\* The row is gone or the update rejects. Reports and raster analyses ignore
\* that, the others throw the new error before they notify.
MarkFailedRejected(w) ==
  LET j == has[w] IN
  /\ On(w, "fail")
  /\ unmarked' = IF status[j] \in Present THEN unmarked \cup {j} ELSE unmarked
  /\ IF Kind[j] = "report" THEN Notify(j, "FAILED") ELSE UNCHANGED told
  /\ GoTo(w, "nack")
  /\ UNCHANGED <<queue, status, layers, tabled, rows, minio, asking, retries, bare>>

Leave(w) ==
  /\ at' = [at EXCEPT ![w] = "idle"] /\ has' = [has EXCEPT ![w] = None]
  /\ left' = [left EXCEPT ![w] = {}] /\ part' = [part EXCEPT ![w] = {}]

Return(w) ==
  /\ On(w, "ack") /\ MoveToCompleted(w, has[w])
  /\ Leave(w)
  /\ UNCHANGED <<tables, minio, other>>

Rethrow(w) ==
  /\ On(w, "nack") /\ MoveToFailed(w, has[w])
  /\ Leave(w)
  /\ UNCHANGED <<tables, minio, other>>

-----------------------------------------------------------------------------
(* The rest of the world. *)

\* The process dies, or is stopped by a signal (QueueService.close is called
\* nowhere): the lock is no longer renewed.
Crash(w) ==
  /\ at[w] # "idle"
  /\ Leave(w)
  /\ lock' = [lock EXCEPT ![has[w]] = IF lock[has[w]] = w THEN None ELSE lock[has[w]]]
  /\ UNCHANGED <<place, tries, stalls, tables, minio, other>>

\* DeleteExportUseCase, or the row's user is deleted: no job is cancelled and
\* no file removed.
DeleteRow(j) ==
  /\ status[j] \in Present
  /\ status' = [status EXCEPT ![j] = "deleted"]
  /\ UNCHANGED <<queue, layers, tabled, rows, told, minio, worker, other>>

DeleteLayer(l) ==
  /\ l \in layers
  /\ layers' = layers \ {l}
  /\ tabled' = tabled \ {l}
  /\ status' = [j \in Job |-> IF /\ Kind[j] \in OneLayer /\ Wants[j] = {l}
                                 /\ status[j] \in Present
                                THEN "deleted" ELSE status[j]]
  /\ rows' = [j \in Job |-> IF Kind[j] \in Imports /\ Wants[j] = {l} THEN 0 ELSE rows[j]]
  /\ UNCHANGED <<queue, told, minio, worker, other>>

\* PATCH of a layer: its table name is cleared, or given.
UpdateLayer(l) ==
  /\ l \in layers
  /\ tabled' = IF l \in tabled THEN tabled \ {l} ELSE tabled \cup {l}
  /\ bare' = [j \in Job |-> bare[j] \cup {m \in Wants[j] : m = l /\ status[j] # "absent"}]
  /\ UNCHANGED <<queue, status, layers, rows, told, minio, worker, asking, retries, unmarked>>

AdminRetry(j) ==
  /\ retries < MaxRetries
  /\ RetryJob(j)
  /\ retries' = retries + 1
  /\ UNCHANGED <<tables, minio, worker, asking, unmarked, bare>>

Queueing(j) ==
  /\ Promote(j) \/ Lapse(j) \/ MoveStalled(j)
  /\ UNCHANGED <<tables, minio, worker, other>>

Process(w) ==
  \/ \E j \in Job : Take(w, j)
  \/ Begin(w) \/ LoadLayer(w) \/ ExportLayer(w) \/ BulkLayer(w) \/ BulkZip(w)
  \/ ReportSummarize(w) \/ PlanGenerate(w) \/ RasterCompute(w)
  \/ ImportInsert(w) \/ ImportRegister(w) \/ Upload(w) \/ Complete(w)
  \/ Throw(w) \/ MarkFailed(w) \/ MarkFailedRejected(w) \/ Return(w) \/ Rethrow(w)

Next ==
  \/ \E w \in Worker : Process(w) \/ Crash(w)
  \/ \E j \in Job : \/ Ask(j) \/ Enqueue(j) \/ AskFails(j)
                    \/ Queueing(j) \/ DeleteRow(j) \/ AdminRetry(j)
  \/ \E l \in Layer : DeleteLayer(l) \/ UpdateLayer(l)

Spec == Init /\ [][Next]_vars

\* BullMQ hands waiting jobs to idle workers, promotes delayed ones, looks for
\* stalled ones; a processor's next await settles (tools run under timeouts).
Fairness ==
  /\ \A w \in Worker : WF_vars(Process(w))
  /\ \A j \in Job : WF_vars(Promote(j) /\ UNCHANGED <<tables, minio, worker, other>>)
  /\ \A j \in Job : WF_vars(MoveStalled(j) /\ UNCHANGED <<tables, minio, worker, other>>)

LiveSpec == Spec /\ Fairness

-----------------------------------------------------------------------------
(* Properties *)

\* Two workers are on one job only after BullMQ found it stalled: its lock lapsed
\* while the first was still running.
OneProcessorUnlessStalled ==
  \A v, w \in Worker :
    has[v] # None /\ has[v] = has[w] /\ v # w => stalls[has[v]] > 0

\* The layers that COMPLETED speaks for: all that still exist, except that a bulk
\* export leaves out, without a word to the client, those that named no table when
\* it was asked for or at some moment since.
Exportable(j) == (Wants[j] \cap layers) \ (IF Kind[j] = "bulk" THEN bare[j] ELSE {})

\* A COMPLETED row has its file in MinIO, and the file of an export holds every layer
\* that was there to be exported, whatever failed, was retried or ran twice.
CompletedIsWhole ==
  \A j \in Job : status[j] = "COMPLETED" /\ Kind[j] \in Uploads =>
    /\ j \in stored
    /\ Kind[j] \in {"export", "bulk"} => Exportable(j) \subseteq content[j]

Quiet(j) == j \notin asking /\ place[j] \notin Live /\ \A w \in Worker : has[w] # j

\* When nobody works on a job any more, its row says what the queue says, unless
\* the job was stalled, never queued, or its row could not be marked FAILED.
RowAgreesUnlessLost ==
  \A j \in Job :
    /\ Quiet(j) /\ place[j] # "none" /\ status[j] # "deleted"
    /\ stalls[j] = 0 /\ j \notin unmarked
    => status[j] = IF place[j] = "completed" THEN "COMPLETED" ELSE "FAILED"

\* The features of a GeoJSON import are in the table once more than it failed or
\* stalled, at most: an attempt that fails after its insert leaves its rows.
InsertedOncePerAttempt ==
  \A j \in Job : rows[j] <= 1 + tries[j] + stalls[j]

\* The features of a COMPLETED import are in its layer's table, unless the layer is
\* gone or an import that overwrites the table ran there too.
ImportedUnlessOverwritten ==
  \A j \in Job :
    /\ Kind[j] \in Imports /\ status[j] = "COMPLETED" /\ Wants[j] \subseteq layers
    => \/ rows[j] >= 1
       \/ \E i \in Job \ {j} : Kind[i] = "replace" /\ Wants[i] = Wants[j] /\ place[i] # "none"

\* A queued row ends, unless its job stalled or the FAILED update was rejected.
QueuedRowEnds ==
  \A j \in Job :
    place[j] = "waiting" ~> \/ status[j] \in {"COMPLETED", "FAILED", "deleted"}
                            \/ stalls[j] > 0 \/ j \in unmarked

\* A job leaves the queue in the end, however often its workers die.
JobEnds == \A j \in Job : place[j] = "waiting" ~> place[j] \in {"completed", "failed"}

\* The rows behave as TrackedRow says.
View == INSTANCE TrackedRow WITH
          Row <- Job, twice <- {j \in Job : stalls[j] > 0}
ViewSpec == View!Spec
=============================================================================
