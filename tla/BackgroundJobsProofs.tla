------------------------ MODULE BackgroundJobsProofs ------------------------
(***************************************************************************)
(* Proofs about BackgroundJobs, for any number of jobs, layers and API     *)
(* processes and any number of attempts, stalls and retries.               *)
(***************************************************************************)
EXTENDS BackgroundJobs, FiniteSetTheorems, TLAPS

\* A worker is on a job exactly while it awaits something.
Busy == \A w \in Worker : IF at[w] = "idle" THEN has[w] = None ELSE has[w] \in Job

TypeInv == TypeOK /\ Busy

\* Until a job is found stalled, the one worker on it is where the queue says it
\* is active, under this worker's lock or, when that lapsed, under none.
LockInv ==
  /\ \A w \in Worker : has[w] # None =>
       /\ place[has[w]] # "none"
       /\ stalls[has[w]] = 0 => place[has[w]] = "active" /\ lock[has[w]] \in {w, None}
  /\ \A j \in Job : lock[j] # None => place[j] = "active" /\ has[lock[j]] = j
  /\ OneProcessorUnlessStalled

\* Every layer asked for that is there to be exported
Whole(j, S) == Kind[j] \in {"export", "bulk"} => Exportable(j) \subseteq S

\* Work is done for rows that were created, and a layer of theirs that names no table
\* is known to be bare.
BareKnown ==
  /\ \A j \in Job : j \in asking \/ place[j] # "none" => status[j] # "absent"
  /\ \A w \in Worker : has[w] # None => status[has[w]] # "absent"
  /\ \A j \in Job : IF status[j] = "absent" THEN bare[j] = {}
                     ELSE (Wants[j] \cap layers) \ tabled \subseteq bare[j]

\* The layers a worker has exported and those it has still to read are all there
\* are, so what it uploads is whole, whichever of two workers uploads last.
FileInv ==
  /\ BareKnown
  /\ \A w \in Worker :
       LET j == has[w] IN
       /\ at[w] \in {"begin", "load"} => Whole(j, part[w] \cup left[w])
       /\ at[w] = "upload" => Whole(j, part[w])
       /\ at[w] = "register" => Kind[j] \in Imports
       /\ at[w] = "finish" /\ Kind[j] \in Uploads => j \in stored /\ Whole(j, content[j])
  /\ CompletedIsWhole

\* Workers that have taken a job and not inserted its features yet
Inserting(j) == {w \in Worker : has[w] = j /\ at[w] \in {"begin", "load", "produce"}}

\* The attempt that a job still has while a worker is on it, or had when it ended well
Current(j) == IF place[j] \in {"active", "completed"} THEN 1 ELSE 0

\* Inserts made and to be made, counted together
InsertInv ==
  \A j \in Job :
    /\ IsFiniteSet(Inserting(j))
    /\ rows[j] + Cardinality(Inserting(j)) <= Current(j) + tries[j] + stalls[j]

\* The table of j was, or is about to be, replaced by another import
Overwritten(j) ==
  \E i \in Job \ {j} : Kind[i] = "replace" /\ Wants[i] = Wants[j] /\ place[i] # "none"

\* ImportedUnlessOverwritten, from the moment of the insert on
ImportInv ==
  /\ \A w \in Worker :
       LET j == has[w] IN
       /\ at[w] \in {"register", "finish"} /\ Kind[j] \in Imports /\ Wants[j] \subseteq layers
          => rows[j] >= 1 \/ Overwritten(j)
       /\ at[w] = "upload" => Kind[j] \in Uploads
  /\ ImportedUnlessOverwritten

\* What a row may say while a worker is at a call and its job was never stalled
RowAt(p) == CASE p \in {"begin", "fail", "nack"} -> {"PENDING", "PROCESSING", "FAILED"}
              [] p = "ack" -> {"COMPLETED"}
              [] OTHER -> {"PROCESSING"}

\* The same, when no update to FAILED was lost
MarkedAt(p) == CASE p = "begin" -> {"PENDING", "FAILED"}
                 [] p = "nack" -> {"FAILED"}
                 [] OTHER -> RowAt(p)

\* What a row may say while nobody works on a job that was never stalled
RowIn(l) == CASE l \in {"waiting", "delayed", "failed"} -> {"PENDING", "PROCESSING", "FAILED"}
              [] l = "completed" -> {"COMPLETED"}
              [] OTHER -> Status
MarkedIn(l) == CASE l = "waiting" -> {"PENDING", "FAILED"}
                 [] l \in {"delayed", "failed"} -> {"FAILED"}
                 [] OTHER -> RowIn(l)

RowInv ==
  /\ \A j \in Job :
       /\ j \in asking => place[j] = "none" /\ status[j] # "absent"
       /\ place[j] = "none" => status[j] \in {"absent", "PENDING", "deleted"}
       /\ status[j] = "absent" => place[j] = "none"
       /\ stalls[j] = 0 /\ status[j] # "deleted" =>
            /\ status[j] \in RowIn(place[j])
            /\ j \notin unmarked => status[j] \in MarkedIn(place[j])
  /\ \A w \in Worker : at[w] # "idle" =>
       LET j == has[w] IN
       /\ at[w] \in (Working \ {"begin"}) \cup {"ack"} => status[j] # "PENDING"
       /\ stalls[j] = 0 /\ status[j] # "deleted" =>
            /\ status[j] \in RowAt(at[w])
            /\ j \notin unmarked => status[j] \in MarkedAt(at[w])

-----------------------------------------------------------------------------
(* Types *)

\* The jobs, the tables, the objects and the workers keep their types, and a
\* worker keeps a job until it leaves it.
LEMMA TypeStep == TypeInv /\ [Next]_vars => TypeInv'
<1> SUFFICES ASSUME TypeInv, [Next]_vars PROVE TypeInv'
  OBVIOUS
<1> USE QueueAssumption, JobAssumption
    DEF TypeInv, TypeOK, QueueTypeOK, Busy, Place, Status, Present, Await, Working, Imports, OneLayer, Kinds,
        queue, tables, minio, worker, other
<1>1. ASSUME NEW j \in Job, Ask(j) PROVE TypeInv'
  BY <1>1 DEF Ask, CreateExport, CreateBulkExport, ImportLayer, RunRasterAnalysis, GenerateAnalysisReport, CreateLocationPlan, CreateRow
<1>2. ASSUME NEW j \in Job, Enqueue(j) PROVE TypeInv'
  BY <1>2 DEF Enqueue, AddJob
<1>3. ASSUME NEW j \in Job, AskFails(j) PROVE TypeInv'
  BY <1>3 DEF AskFails
<1>4. ASSUME NEW w \in Worker, NEW j \in Job, Take(w, j) PROVE TypeInv'
  BY <1>4 DEF Take, TakeJob, On
<1>5. ASSUME NEW w \in Worker, Begin(w) PROVE TypeInv'
  BY <1>5 DEF Begin, Update, Notify, On, GoTo
<1>6. ASSUME NEW w \in Worker, LoadLayer(w) PROVE TypeInv'
  BY <1>6 DEF LoadLayer, On, GoTo
<1>7. ASSUME NEW w \in Worker, ExportLayer(w) PROVE TypeInv'
  BY <1>7 DEF ExportLayer, On
<1>8. ASSUME NEW w \in Worker, BulkLayer(w) PROVE TypeInv'
  BY <1>8 DEF BulkLayer, On, BulkPart
<1>9. ASSUME NEW w \in Worker, BulkZip(w) PROVE TypeInv'
  BY <1>9 DEF BulkZip, AllParts, On, GoTo
<1>10. ASSUME NEW w \in Worker, ReportSummarize(w) PROVE TypeInv'
  BY <1>10 DEF ReportSummarize, On
<1>11. ASSUME NEW w \in Worker, PlanGenerate(w) PROVE TypeInv'
  BY <1>11 DEF PlanGenerate, On, GoTo
<1>12. ASSUME NEW w \in Worker, RasterCompute(w) PROVE TypeInv'
  BY <1>12 DEF RasterCompute, On, GoTo
<1>13. ASSUME NEW w \in Worker, ImportInsert(w) PROVE TypeInv'
  BY <1>13 DEF ImportInsert, Inserted, On, GoTo
<1>14. ASSUME NEW w \in Worker, ImportRegister(w) PROVE TypeInv'
  BY <1>14 DEF ImportRegister, On, GoTo
<1>15. ASSUME NEW w \in Worker, Upload(w) PROVE TypeInv'
  BY <1>15 DEF Upload, On, GoTo
<1>16. ASSUME NEW w \in Worker, Complete(w) PROVE TypeInv'
  BY <1>16 DEF Complete, Update, Notify, On, GoTo
<1>17. ASSUME NEW w \in Worker, Throw(w) PROVE TypeInv'
  BY <1>17 DEF Throw, Caught, GoTo
<1>18. ASSUME NEW w \in Worker, MarkFailed(w) PROVE TypeInv'
  BY <1>18 DEF MarkFailed, Update, Notify, FailedStatus, Throws, On, GoTo
<1>19. ASSUME NEW w \in Worker, MarkFailedRejected(w) PROVE TypeInv'
  BY <1>19 DEF MarkFailedRejected, Notify, On, GoTo
<1>20. ASSUME NEW w \in Worker, Return(w) PROVE TypeInv'
  BY <1>20 DEF Return, MoveToCompleted, HoldsLock, Leave, On
<1>21. ASSUME NEW w \in Worker, Rethrow(w) PROVE TypeInv'
  BY <1>21 DEF Rethrow, MoveToFailed, HoldsLock, Leave, On
<1>22. ASSUME NEW w \in Worker, Crash(w) PROVE TypeInv'
  BY <1>22 DEF Crash, Leave
<1>23. ASSUME NEW j \in Job, DeleteRow(j) PROVE TypeInv'
  BY <1>23 DEF DeleteRow
<1>24. ASSUME NEW l \in Layer, DeleteLayer(l) \/ UpdateLayer(l) PROVE TypeInv'
  BY <1>24 DEF DeleteLayer, UpdateLayer
<1>25. ASSUME NEW j \in Job, AdminRetry(j) PROVE TypeInv'
  BY <1>25 DEF AdminRetry, RetryJob
<1>26. ASSUME NEW j \in Job, Queueing(j) PROVE TypeInv'
  BY <1>26 DEF Queueing, Promote, Lapse, MoveStalled, Stalled
<1>27. CASE UNCHANGED vars
  BY <1>27 DEF vars
<1>28. QED
  BY <1>1, <1>2, <1>3, <1>4, <1>5, <1>6, <1>7, <1>8, <1>9, <1>10, <1>11, <1>12, <1>13, <1>14, <1>15, <1>16, <1>17, <1>18, <1>19, <1>20, <1>21, <1>22, <1>23, <1>24, <1>25, <1>26, <1>27 DEF Next, Process
\* The calls of a processor that awaits one, from the first to its return
Work(w) ==
  \/ Begin(w) \/ LoadLayer(w) \/ ExportLayer(w) \/ BulkLayer(w) \/ BulkZip(w)
  \/ ReportSummarize(w) \/ PlanGenerate(w) \/ RasterCompute(w)
  \/ ImportInsert(w) \/ ImportRegister(w) \/ Upload(w) \/ Complete(w)
  \/ Throw(w) \/ MarkFailed(w) \/ MarkFailedRejected(w)

\* While it works a worker touches no part of the queue, and stays on its job.
LEMMA WorkStays ==
  ASSUME TypeInv, NEW w \in Worker, Work(w)
  PROVE  /\ UNCHANGED <<place, tries, stalls, lock, has, layers, asking, retries>>
         /\ at[w] # "idle" /\ has[w] \in Job
         /\ \E p \in Await \ {"idle"} : at' = [at EXCEPT ![w] = p]
<1> USE DEF TypeInv, TypeOK, QueueTypeOK, Busy, Await, Working,
            On, GoTo, Caught, Throws, queue, tables, minio, worker, other
<1>1. CASE Begin(w)
  BY <1>1 DEF Begin
<1>2. CASE LoadLayer(w) \/ ExportLayer(w) \/ ReportSummarize(w) \/ PlanGenerate(w) \/ RasterCompute(w)
  BY <1>2 DEF LoadLayer, ExportLayer, ReportSummarize, PlanGenerate, RasterCompute
<1>3. CASE BulkLayer(w) \/ BulkZip(w)
  BY <1>3 DEF BulkLayer, BulkZip
<1>4. CASE ImportInsert(w) \/ ImportRegister(w) \/ Upload(w)
  BY <1>4 DEF ImportInsert, ImportRegister, Upload
<1>5. CASE Complete(w)
  BY <1>5 DEF Complete
<1>6. CASE Throw(w) \/ MarkFailed(w) \/ MarkFailedRejected(w)
  BY <1>6 DEF Throw, MarkFailed, MarkFailedRejected
<1>7. QED
  BY <1>1, <1>2, <1>3, <1>4, <1>5, <1>6 DEF Work

\* Whatever is asked for, its row is created and nothing else happens.
LEMMA AskCreates == ASSUME NEW j \in Job, Ask(j) PROVE CreateRow(j)
  BY DEF Ask, CreateExport, CreateBulkExport, ImportLayer, RunRasterAnalysis,
         GenerateAnalysisReport, CreateLocationPlan

\* A worker is on a job whenever it awaits a call, in every state.
LEMMA Typed == Spec => []TypeInv
<1> USE QueueAssumption, JobAssumption
<1>1. Init => TypeInv
  BY DEF Init, QueueInit, TypeInv, TypeOK, QueueTypeOK, Busy, Place, Status, Await, Working
<1>2. TypeInv /\ [Next]_vars => TypeInv'
  BY TypeStep
<1>3. QED
  BY <1>1, <1>2, PTL DEF Spec

\* Rows, jobs, objects and workers are well typed.
THEOREM TypeCorrect == Spec => []TypeOK
<1>1. TypeInv => TypeOK
  BY DEF TypeInv
<1>2. QED
  BY <1>1, Typed, PTL

-----------------------------------------------------------------------------
(* Two workers on one job *)

\* Only a job that is found stalled is handed to a second worker.
LEMMA LockStep == TypeInv /\ LockInv /\ [Next]_vars => LockInv'
<1> SUFFICES ASSUME TypeInv, LockInv, [Next]_vars PROVE LockInv'
  OBVIOUS
<1> USE QueueAssumption
    DEF TypeInv, TypeOK, QueueTypeOK, Busy, LockInv, OneProcessorUnlessStalled,
        queue, tables, minio, worker, other
<1>1. ASSUME NEW j \in Job, Ask(j) PROVE LockInv'
  <2>1. CreateRow(j)
    BY <1>1, AskCreates
  <2>2. QED
    BY <2>1 DEF CreateRow
<1>2. ASSUME NEW j \in Job, Enqueue(j) PROVE LockInv'
  BY <1>2 DEF Enqueue, AddJob
<1>3. ASSUME NEW w \in Worker, NEW j \in Job, Take(w, j) PROVE LockInv'
  BY <1>3 DEF Take, TakeJob, On
<1>4. ASSUME NEW w \in Worker, Work(w) PROVE LockInv'
  BY <1>4, WorkStays
<1>5. ASSUME NEW w \in Worker, Return(w) PROVE LockInv'
  BY <1>5 DEF Return, MoveToCompleted, HoldsLock, Leave, On
<1>6. ASSUME NEW w \in Worker, Rethrow(w) PROVE LockInv'
  BY <1>6 DEF Rethrow, MoveToFailed, HoldsLock, Leave, On
<1>7. ASSUME NEW w \in Worker, Crash(w) PROVE LockInv'
  BY <1>7 DEF Crash, Leave
<1>8. ASSUME NEW j \in Job, AdminRetry(j) PROVE LockInv'
  BY <1>8 DEF AdminRetry, RetryJob
<1>9. ASSUME NEW j \in Job, Queueing(j) PROVE LockInv'
  <2>1. CASE Promote(j) \/ Lapse(j)
    BY <1>9, <2>1 DEF Queueing, Promote, Lapse
  <2>2. CASE MoveStalled(j)
    BY <1>9, <2>2 DEF Queueing, MoveStalled, Stalled
  <2>3. QED
    BY <1>9, <2>1, <2>2 DEF Queueing
<1>10. ASSUME NEW j \in Job, AskFails(j) \/ DeleteRow(j) PROVE LockInv'
  BY <1>10 DEF AskFails, DeleteRow
<1>11. ASSUME NEW l \in Layer, DeleteLayer(l) \/ UpdateLayer(l) PROVE LockInv'
  BY <1>11 DEF DeleteLayer, UpdateLayer
<1>12. CASE UNCHANGED vars
  BY <1>12 DEF vars
<1>13. QED
  BY <1>1, <1>2, <1>3, <1>4, <1>5, <1>6, <1>7, <1>8, <1>9, <1>10, <1>11, <1>12
     DEF Next, Process, Work

\* Where the workers are and where the queue says they are.
THEOREM Locked == Spec => []LockInv
<1>1. Init => LockInv
  BY QueueAssumption DEF Init, QueueInit, LockInv, OneProcessorUnlessStalled
<1>2. QED
  BY <1>1, Typed, LockStep, PTL DEF Spec

\* Two workers are on one job only after BullMQ found it stalled.
THEOREM OneProcessor == Spec => []OneProcessorUnlessStalled
<1>1. LockInv => OneProcessorUnlessStalled
  BY DEF LockInv
<1>2. QED
  BY <1>1, Locked, PTL
-----------------------------------------------------------------------------
(* The file of a finished row *)

\* A worker's uploads are whole, and so is what a row that is COMPLETED refers to.
LEMMA FileStep == TypeInv /\ FileInv /\ [Next]_vars => FileInv'
<1> SUFFICES ASSUME TypeInv, FileInv, [Next]_vars PROVE FileInv'
  OBVIOUS
<1> USE QueueAssumption, JobAssumption
    DEF TypeInv, TypeOK, Busy, FileInv, Whole, CompletedIsWhole, Exportable, BareKnown, Status, Present, Await, Working, Imports, Uploads,
        OneLayer, Kinds, queue, tables, minio, worker, other
<1>1. ASSUME NEW j \in Job, Ask(j) PROVE FileInv'
  <2>1. CreateRow(j)
    BY <1>1, AskCreates
  <2>2. QED
    BY <2>1 DEF CreateRow
<1>2. ASSUME NEW w \in Worker, NEW j \in Job, Take(w, j) PROVE FileInv'
  BY <1>2 DEF Take, TakeJob, On
<1>3. ASSUME NEW w \in Worker, Begin(w) PROVE FileInv'
  BY <1>3 DEF Begin, Update, On, GoTo
<1>4. ASSUME NEW w \in Worker, LoadLayer(w) PROVE FileInv'
  BY <1>4 DEF LoadLayer, On, GoTo
<1>5. ASSUME NEW w \in Worker, ExportLayer(w) PROVE FileInv'
  BY <1>5 DEF ExportLayer, On
<1>6. ASSUME NEW w \in Worker, BulkLayer(w) PROVE FileInv'
  BY <1>6 DEF BulkLayer, BulkPart, On
<1>7. ASSUME NEW w \in Worker, BulkZip(w) PROVE FileInv'
  BY <1>7 DEF BulkZip, AllParts, On, GoTo
<1>8. ASSUME NEW w \in Worker, ReportSummarize(w) PROVE FileInv'
  BY <1>8 DEF ReportSummarize, On
<1>9. ASSUME NEW w \in Worker, PlanGenerate(w) \/ RasterCompute(w) PROVE FileInv'
  BY <1>9 DEF PlanGenerate, RasterCompute, On, GoTo
<1>10. ASSUME NEW w \in Worker, ImportInsert(w) \/ ImportRegister(w) PROVE FileInv'
  BY <1>10 DEF ImportInsert, ImportRegister, On, GoTo
<1>11. ASSUME NEW w \in Worker, Upload(w) PROVE FileInv'
  BY <1>11 DEF Upload, On, GoTo
<1>12. ASSUME NEW w \in Worker, Complete(w) PROVE FileInv'
  BY <1>12 DEF Complete, Update, On, GoTo
<1>13. ASSUME NEW w \in Worker, Throw(w) PROVE FileInv'
  BY <1>13 DEF Throw, Caught, GoTo
<1>14. ASSUME NEW w \in Worker, MarkFailed(w) PROVE FileInv'
  BY <1>14 DEF MarkFailed, Update, FailedStatus, Throws, On, GoTo
<1>15. ASSUME NEW w \in Worker, MarkFailedRejected(w) PROVE FileInv'
  BY <1>15 DEF MarkFailedRejected, On, GoTo
<1>16. ASSUME NEW w \in Worker, Return(w) \/ Rethrow(w) \/ Crash(w) PROVE FileInv'
  <2>1. UNCHANGED <<tables, minio, other>>
    BY <1>16 DEF Return, Rethrow, Crash
  <2>2. \A v \in Worker : \/ at'[v] = "idle" /\ has'[v] = None
                          \/ UNCHANGED <<at[v], has[v], left[v], part[v]>>
    BY <1>16 DEF Return, Rethrow, Crash, Leave
  <2>3. \A j \in Job : place'[j] # "none" => place[j] # "none" \/ status[j] # "absent"
    <3>1. CASE Crash(w)
      BY <3>1 DEF Crash
    <3>2. CASE Return(w)
      BY <3>2 DEF Return, MoveToCompleted, HoldsLock, QueueTypeOK
    <3>3. CASE Rethrow(w)
      BY <3>3 DEF Rethrow, MoveToFailed, HoldsLock, QueueTypeOK
    <3>4. QED
      BY <1>16, <3>1, <3>2, <3>3
  <2>4. BareKnown'
    BY <2>1, <2>2, <2>3
  <2>5. QED
    BY <2>1, <2>2, <2>4
<1>17. ASSUME NEW j \in Job, DeleteRow(j) PROVE FileInv'
  BY <1>17 DEF DeleteRow
<1>18. ASSUME NEW l \in Layer, DeleteLayer(l) \/ UpdateLayer(l) PROVE FileInv'
  BY <1>18 DEF DeleteLayer, UpdateLayer
<1>19. ASSUME NEW j \in Job, Enqueue(j) \/ AskFails(j) \/ AdminRetry(j) \/ Queueing(j) PROVE FileInv'
  <2>1. UNCHANGED <<tables, minio, worker, bare>> /\ asking' \subseteq asking
    BY <1>19 DEF Enqueue, AskFails, AdminRetry, Queueing
  <2>2. \A i \in Job : place'[i] # "none" => place[i] # "none" \/ i \in asking
    <3>1. CASE Enqueue(j)
      BY <3>1 DEF Enqueue, AddJob, QueueTypeOK
    <3>2. CASE AskFails(j) \/ AdminRetry(j)
      BY <3>2 DEF AskFails, AdminRetry, RetryJob, QueueTypeOK
    <3>3. CASE Queueing(j)
      BY <3>3 DEF Queueing, Promote, Lapse, MoveStalled, Stalled, QueueTypeOK
    <3>4. QED
      BY <1>19, <3>1, <3>2, <3>3
  <2>3. BareKnown'
    BY <2>1, <2>2
  <2>4. QED
    BY <2>1, <2>3
<1>20. CASE UNCHANGED vars
  BY <1>20 DEF vars
<1>21. QED
  BY <1>1, <1>2, <1>3, <1>4, <1>5, <1>6, <1>7, <1>8, <1>9, <1>10, <1>11, <1>12, <1>13, <1>14,
     <1>15, <1>16, <1>17, <1>18, <1>19, <1>20 DEF Next, Process

\* The file of a COMPLETED row is there and holds every layer it could be given.
THEOREM Completed == Spec => []CompletedIsWhole
<1>1. Init => FileInv
  BY DEF Init, FileInv, CompletedIsWhole, BareKnown, QueueInit
<1>2. FileInv => CompletedIsWhole
  BY DEF FileInv
<1>3. QED
  BY <1>1, <1>2, Typed, FileStep, PTL DEF Spec

-----------------------------------------------------------------------------
(* The features of an import *)

\* Features are in the table from their insert on, until another import replaces it.
LEMMA ImportStep == TypeInv /\ LockInv /\ ImportInv /\ [Next]_vars => ImportInv'
<1> SUFFICES ASSUME TypeInv, LockInv, ImportInv, [Next]_vars PROVE ImportInv'
  OBVIOUS
<1> USE QueueAssumption, JobAssumption
    DEF TypeInv, TypeOK, QueueTypeOK, Busy, ImportInv, ImportedUnlessOverwritten, Overwritten,
        Await, Working, Imports, Uploads, OneLayer, Kinds, queue, tables, minio, worker, other
<1>1. ASSUME NEW j \in Job, Ask(j) PROVE ImportInv'
  <2>1. CreateRow(j)
    BY <1>1, AskCreates
  <2>2. QED
    BY <2>1 DEF CreateRow
<1>2. ASSUME NEW j \in Job, Enqueue(j) PROVE ImportInv'
  BY <1>2 DEF Enqueue, AddJob
<1>3. ASSUME NEW w \in Worker, NEW j \in Job, Take(w, j) PROVE ImportInv'
  BY <1>3 DEF Take, TakeJob, On
<1>4. ASSUME NEW w \in Worker, Begin(w) PROVE ImportInv'
  BY <1>4 DEF Begin, Update, On, GoTo
<1>5. ASSUME NEW w \in Worker, LoadLayer(w) \/ ExportLayer(w) \/ BulkLayer(w) \/ BulkZip(w) PROVE ImportInv'
  BY <1>5 DEF LoadLayer, ExportLayer, BulkLayer, BulkZip, On, GoTo
<1>6. ASSUME NEW w \in Worker, ReportSummarize(w) \/ PlanGenerate(w) \/ RasterCompute(w) PROVE ImportInv'
  BY <1>6 DEF ReportSummarize, PlanGenerate, RasterCompute, On, GoTo
<1>7. ASSUME NEW w \in Worker, ImportInsert(w) PROVE ImportInv'
  <2>1. CASE Kind[has[w]] = "append"
    BY <1>7, <2>1 DEF ImportInsert, Inserted, On, GoTo
  <2>2. CASE Kind[has[w]] # "append"
    <3>1. has[w] \in Job /\ Kind[has[w]] = "replace" /\ place[has[w]] # "none"
      BY <1>7, <2>2 DEF ImportInsert, On, LockInv
    <3>2. QED
      BY <1>7, <2>2, <3>1 DEF ImportInsert, Inserted, On, GoTo
  <2>3. QED
    BY <2>1, <2>2
<1>8. ASSUME NEW w \in Worker, ImportRegister(w) PROVE ImportInv'
  BY <1>8 DEF ImportRegister, On, GoTo
<1>9. ASSUME NEW w \in Worker, Upload(w) PROVE ImportInv'
  BY <1>9 DEF Upload, On, GoTo
<1>10. ASSUME NEW w \in Worker, Complete(w) PROVE ImportInv'
  BY <1>10 DEF Complete, Update, On, GoTo
<1>11. ASSUME NEW w \in Worker, Throw(w) PROVE ImportInv'
  BY <1>11 DEF Throw, Caught, GoTo
<1>12. ASSUME NEW w \in Worker, MarkFailed(w) \/ MarkFailedRejected(w) PROVE ImportInv'
  BY <1>12 DEF MarkFailed, MarkFailedRejected, Update, FailedStatus, Throws, On, GoTo
<1>13. ASSUME NEW w \in Worker, Return(w) PROVE ImportInv'
  BY <1>13 DEF Return, MoveToCompleted, Leave
<1>14. ASSUME NEW w \in Worker, Rethrow(w) PROVE ImportInv'
  BY <1>14 DEF Rethrow, MoveToFailed, Leave
<1>15. ASSUME NEW w \in Worker, Crash(w) PROVE ImportInv'
  BY <1>15 DEF Crash, Leave
<1>16. ASSUME NEW j \in Job, DeleteRow(j) \/ AskFails(j) PROVE ImportInv'
  BY <1>16 DEF DeleteRow, AskFails
<1>17. ASSUME NEW l \in Layer, DeleteLayer(l) \/ UpdateLayer(l) PROVE ImportInv'
  BY <1>17 DEF DeleteLayer, UpdateLayer
<1>18. ASSUME NEW j \in Job, AdminRetry(j) \/ Queueing(j) PROVE ImportInv'
  BY <1>18 DEF AdminRetry, RetryJob, Queueing, Promote, Lapse, MoveStalled
<1>19. CASE UNCHANGED vars
  BY <1>19 DEF vars
<1>20. QED
  BY <1>1, <1>2, <1>3, <1>4, <1>5, <1>6, <1>7, <1>8, <1>9, <1>10, <1>11, <1>12, <1>13, <1>14,
     <1>15, <1>16, <1>17, <1>18, <1>19 DEF Next, Process

\* The features of a COMPLETED import are in its table, unless another import replaced it.
THEOREM Imported == Spec => []ImportedUnlessOverwritten
<1>1. Init => ImportInv
  BY DEF Init, ImportInv, ImportedUnlessOverwritten
<1>2. ImportInv => ImportedUnlessOverwritten
  BY DEF ImportInv
<1>3. QED
  BY <1>1, <1>2, Typed, Locked, ImportStep, PTL DEF Spec
-----------------------------------------------------------------------------
(* How often the features of an import are inserted *)

\* A worker that goes on, or leaves, inserts for no job it did not insert for before.
LEMMA FewerInserting ==
  ASSUME NEW j, IsFiniteSet(Inserting(j)), Inserting(j)' \subseteq Inserting(j)
  PROVE  /\ IsFiniteSet(Inserting(j)')
         /\ Cardinality(Inserting(j)) \in Nat /\ Cardinality(Inserting(j)') \in Nat
         /\ Cardinality(Inserting(j)') <= Cardinality(Inserting(j))
  BY FS_Subset, FS_CardinalityType

\* The step that starts or ends one attempt counts for one.
LEMMA InsertStep == TypeInv /\ LockInv /\ InsertInv /\ [Next]_vars => InsertInv'
<1> SUFFICES ASSUME TypeInv, LockInv, InsertInv, [Next]_vars,
                    NEW i \in Job
             PROVE  /\ IsFiniteSet(Inserting(i))'
                    /\ rows'[i] + Cardinality(Inserting(i)') <= Current(i)' + tries'[i] + stalls'[i]
  BY DEF InsertInv
<1> DEFINE Goal == /\ IsFiniteSet(Inserting(i))'
                   /\ rows'[i] + Cardinality(Inserting(i)') <= Current(i)' + tries'[i] + stalls'[i]
<1> USE QueueAssumption, JobAssumption DEF TypeInv, TypeOK, QueueTypeOK, Busy
<1>a. /\ IsFiniteSet(Inserting(i)) /\ Cardinality(Inserting(i)) \in Nat
      /\ rows[i] + Cardinality(Inserting(i)) <= Current(i) + tries[i] + stalls[i]
  BY FS_CardinalityType DEF InsertInv
\* Steps that insert nothing, take no job, and leave the count on the right as it is or larger
<1>b. ASSUME Inserting(i)' \subseteq Inserting(i), rows'[i] \in Nat, rows'[i] <= rows[i],
             Current(i)' + tries'[i] + stalls'[i] >= Current(i) + tries[i] + stalls[i],
             Current(i)' \in Nat, tries'[i] \in Nat, stalls'[i] \in Nat
      PROVE  Goal
  BY <1>a, <1>b, FewerInserting DEF Current
<1>1. ASSUME NEW j \in Job, Ask(j) PROVE Goal
  <2>1. CreateRow(j)
    BY <1>1, AskCreates
  <2>2. UNCHANGED <<at, has, rows, place, tries, stalls>>
    BY <2>1 DEF CreateRow, queue, worker
  <2>3. QED
    BY <1>b, <2>2 DEF Inserting, Current
<1>2. ASSUME NEW j \in Job, Enqueue(j) \/ AskFails(j) PROVE Goal
  <2>1. UNCHANGED <<at, has, rows, tries, stalls>>
    BY <1>2 DEF Enqueue, AddJob, AskFails, tables, worker, queue
  <2>2. Current(i)' = Current(i)
    BY <1>2 DEF Enqueue, AddJob, AskFails, queue, Current
  <2>3. QED
    BY <1>b, <2>1, <2>2 DEF Inserting, Current
<1>3. ASSUME NEW w \in Worker, NEW j \in Job, Take(w, j) PROVE Goal
  <2>1. UNCHANGED <<rows, tries, stalls>> /\ place[j] = "waiting" /\ has[w] = None
        /\ place' = [place EXCEPT ![j] = "active"]
        /\ at' = [at EXCEPT ![w] = "begin"] /\ has' = [has EXCEPT ![w] = j]
    BY <1>3 DEF Take, TakeJob, On, tables
  <2>2. CASE i = j
    <3>1. Inserting(i)' = Inserting(i) \cup {w} /\ w \notin Inserting(i)
      BY <2>1, <2>2 DEF Inserting
    <3>2. /\ IsFiniteSet(Inserting(i)')
          /\ Cardinality(Inserting(i)') = Cardinality(Inserting(i)) + 1
      BY <1>a, <3>1, FS_AddElement
    <3>3. Current(i) = 0 /\ Current(i)' = 1
      BY <2>1, <2>2 DEF Current
    <3>4. QED
      BY <1>a, <2>1, <3>2, <3>3
  <2>3. CASE i # j
    <3>1. Inserting(i)' = Inserting(i) /\ Current(i)' = Current(i)
      BY <2>1, <2>3 DEF Inserting, Current
    <3>2. QED
      BY <1>b, <2>1, <3>1 DEF Current
  <2>4. QED
    BY <2>2, <2>3
<1>4. ASSUME NEW w \in Worker, Work(w), rows' = rows PROVE Goal
  <2>1. UNCHANGED <<place, tries, stalls, has>>
    BY <1>4, WorkStays
  <2>2. at'[w] \in {"begin", "load", "produce"} => at[w] \in {"begin", "load", "produce"}
    BY <1>4 DEF Work, Begin, LoadLayer, ExportLayer, BulkLayer, BulkZip, ReportSummarize, PlanGenerate,
                RasterCompute, ImportInsert, ImportRegister, Upload, Complete, Throw, MarkFailed,
                MarkFailedRejected, Caught, Throws, On, GoTo, worker
  <2>3. \A v \in Worker : v # w => at'[v] = at[v]
    BY <1>4, WorkStays
  <2>4. Inserting(i)' \subseteq Inserting(i)
    BY <2>1, <2>2, <2>3 DEF Inserting
  <2>5. QED
    BY <1>4, <1>b, <2>1, <2>4 DEF Current
<1>5. ASSUME NEW w \in Worker, ImportInsert(w) PROVE Goal
  <2>1. /\ UNCHANGED <<place, tries, stalls, has>> /\ has[w] \in Job
        /\ at[w] = "produce" /\ at' = [at EXCEPT ![w] = "register"] /\ rows' = Inserted(has[w])
    BY <1>5 DEF ImportInsert, On, GoTo, queue
  <2>2. CASE i = has[w]
    <3>1. Inserting(i)' = Inserting(i) \ {w} /\ w \in Inserting(i)
      BY <2>1, <2>2 DEF Inserting
    <3>2. /\ IsFiniteSet(Inserting(i)') /\ Cardinality(Inserting(i)') \in Nat
          /\ Cardinality(Inserting(i)') = Cardinality(Inserting(i)) - 1
      BY <1>a, <3>1, FS_RemoveElement, FS_CardinalityType
    <3>3. rows'[i] \in Nat /\ rows'[i] <= rows[i] + 1
      BY <2>1, <2>2 DEF Inserted
    <3>4. Current(i)' = Current(i) /\ Current(i) \in Nat
      BY <2>1 DEF Current
    <3>5. QED
      BY <1>a, <2>1, <3>2, <3>3, <3>4
  <2>3. CASE i # has[w]
    <3>1. Inserting(i)' = Inserting(i) /\ Current(i)' = Current(i)
      BY <2>1, <2>3 DEF Inserting, Current
    <3>2. rows'[i] \in {0, rows[i]}
      BY <2>1, <2>3 DEF Inserted
    <3>3. QED
      BY <1>b, <2>1, <3>1, <3>2 DEF Current
  <2>4. QED
    BY <2>2, <2>3
<1>6. ASSUME NEW w \in Worker, Return(w) PROVE Goal
  <2>1. /\ at' = [at EXCEPT ![w] = "idle"] /\ has' = [has EXCEPT ![w] = None]
        /\ UNCHANGED <<rows, tries, stalls>>
    BY <1>6 DEF Return, MoveToCompleted, Leave, queue, tables
  <2>2. Inserting(i)' \subseteq Inserting(i)
    BY <2>1 DEF Inserting
  <2>3. Current(i)' = Current(i)
    BY <1>6 DEF Return, MoveToCompleted, HoldsLock, queue, Current
  <2>4. QED
    BY <1>b, <2>1, <2>2, <2>3 DEF Current
<1>7. ASSUME NEW w \in Worker, Rethrow(w) PROVE Goal
  <2>1. /\ at' = [at EXCEPT ![w] = "idle"] /\ has' = [has EXCEPT ![w] = None]
        /\ UNCHANGED <<rows, stalls>> /\ has[w] \in Job
    BY <1>7 DEF Rethrow, MoveToFailed, Leave, On, queue, tables
  <2>2. Inserting(i)' \subseteq Inserting(i)
    BY <2>1 DEF Inserting
  <2>3. tries'[i] \in Nat /\ Current(i)' + tries'[i] >= Current(i) + tries[i]
    BY <1>7, <2>1 DEF Rethrow, MoveToFailed, HoldsLock, queue, Current
  <2>4. QED
    BY <1>b, <2>1, <2>2, <2>3 DEF Current
<1>8. ASSUME NEW w \in Worker, Crash(w) PROVE Goal
  <2>1. /\ at' = [at EXCEPT ![w] = "idle"] /\ has' = [has EXCEPT ![w] = None]
        /\ UNCHANGED <<rows, place, tries, stalls>>
    BY <1>8 DEF Crash, Leave, tables
  <2>2. Inserting(i)' \subseteq Inserting(i)
    BY <2>1 DEF Inserting
  <2>3. QED
    BY <1>b, <2>1, <2>2 DEF Current
<1>9. ASSUME NEW j \in Job, DeleteRow(j) PROVE Goal
  <2>1. UNCHANGED <<at, has, rows, place, tries, stalls>>
    BY <1>9 DEF DeleteRow, queue, worker
  <2>2. QED
    BY <1>b, <2>1 DEF Inserting, Current
<1>10. ASSUME NEW l \in Layer, DeleteLayer(l) \/ UpdateLayer(l) PROVE Goal
  <2>1. UNCHANGED <<at, has, place, tries, stalls>> /\ rows'[i] \in {0, rows[i]}
    BY <1>10 DEF DeleteLayer, UpdateLayer, queue, worker
  <2>2. QED
    BY <1>b, <2>1 DEF Inserting, Current
<1>11. ASSUME NEW j \in Job, AdminRetry(j) \/ Queueing(j) PROVE Goal
  <2>1. UNCHANGED <<at, has, rows, tries>>
    BY <1>11 DEF AdminRetry, RetryJob, Queueing, Promote, Lapse, MoveStalled, tables, worker
  <2>2. stalls'[i] \in Nat /\ Current(i)' + stalls'[i] >= Current(i) + stalls[i]
    BY <1>11 DEF AdminRetry, RetryJob, Queueing, Promote, Lapse, MoveStalled, Stalled, Current
  <2>3. QED
    BY <1>b, <2>1, <2>2 DEF Inserting, Current
<1>12. CASE UNCHANGED vars
  <2>1. UNCHANGED <<at, has, rows, place, tries, stalls>>
    BY <1>12 DEF vars, queue, worker, tables
  <2>2. QED
    BY <1>b, <2>1 DEF Inserting, Current
<1>13. ASSUME NEW w \in Worker, Work(w) PROVE Goal
  <2>1. rows' = rows \/ ImportInsert(w)
    BY <1>13 DEF Work, Begin, LoadLayer, ExportLayer, BulkLayer, BulkZip, ReportSummarize, PlanGenerate,
                 RasterCompute, ImportRegister, Upload, Complete, Throw, MarkFailed,
                 MarkFailedRejected, tables
  <2>2. QED
    BY <1>4, <1>5, <1>13, <2>1
<1>14. QED
  BY <1>1, <1>2, <1>3, <1>6, <1>7, <1>8, <1>9, <1>10, <1>11, <1>12, <1>13 DEF Next, Process, Work

\* An import's features are inserted once per attempt at most.
THEOREM Inserts == Spec => []InsertedOncePerAttempt
<1>1. Init => InsertInv
  <2> SUFFICES ASSUME Init, NEW j \in Job
               PROVE  /\ IsFiniteSet(Inserting(j))
                      /\ rows[j] + Cardinality(Inserting(j)) <= Current(j) + tries[j] + stalls[j]
    BY DEF InsertInv
  <2>1. Inserting(j) = {}
    BY DEF Init, Inserting
  <2>2. rows[j] = 0 /\ tries[j] = 0 /\ stalls[j] = 0 /\ Current(j) = 0
    BY DEF Init, QueueInit, Current
  <2>3. QED
    BY <2>1, <2>2, FS_EmptySet
<1>2. TypeInv /\ InsertInv => InsertedOncePerAttempt
  <2> SUFFICES ASSUME TypeInv, InsertInv, NEW j \in Job
               PROVE  rows[j] <= 1 + tries[j] + stalls[j]
    BY DEF InsertedOncePerAttempt
  <2>1. /\ Cardinality(Inserting(j)) \in Nat
        /\ rows[j] + Cardinality(Inserting(j)) <= Current(j) + tries[j] + stalls[j]
    BY FS_CardinalityType DEF InsertInv
  <2>2. rows[j] \in Nat /\ tries[j] \in Nat /\ stalls[j] \in Nat /\ Current(j) \in {0, 1}
    BY DEF TypeInv, TypeOK, QueueTypeOK, Current
  <2>3. QED
    BY <2>1, <2>2
<1>3. QED
  BY <1>1, <1>2, Typed, Locked, InsertStep, PTL DEF Spec
-----------------------------------------------------------------------------
(* What the row says *)

\* The row of a job that was never stalled says where its one worker is, or where
\* the queue has put it.
LEMMA RowStep == TypeInv /\ LockInv /\ RowInv /\ [Next]_vars => RowInv'
<1> SUFFICES ASSUME TypeInv, LockInv, RowInv, [Next]_vars PROVE RowInv'
  OBVIOUS
<1> USE QueueAssumption
    DEF TypeInv, TypeOK, QueueTypeOK, Busy, LockInv, OneProcessorUnlessStalled, RowInv,
        RowAt, MarkedAt, RowIn, MarkedIn, Status, Present, Await, Working, Place,
        queue, tables, minio, worker, other
<1>1. ASSUME NEW j \in Job, Ask(j) PROVE RowInv'
  <2>1. CreateRow(j)
    BY <1>1, AskCreates
  <2>2. QED
    BY <2>1 DEF CreateRow
<1>2. ASSUME NEW j \in Job, Enqueue(j) PROVE RowInv'
  BY <1>2 DEF Enqueue, AddJob
<1>3. ASSUME NEW j \in Job, AskFails(j) PROVE RowInv'
  BY <1>3 DEF AskFails
<1>4. ASSUME NEW w \in Worker, NEW j \in Job, Take(w, j) PROVE RowInv'
  BY <1>4 DEF Take, TakeJob, On
<1>5. ASSUME NEW w \in Worker, Begin(w) PROVE RowInv'
  BY <1>5 DEF Begin, Update, On, GoTo
<1>6. ASSUME NEW w \in Worker, LoadLayer(w) \/ ExportLayer(w) PROVE RowInv'
  BY <1>6 DEF LoadLayer, ExportLayer, On, GoTo
<1>7. ASSUME NEW w \in Worker, BulkLayer(w) \/ BulkZip(w) \/ ReportSummarize(w) PROVE RowInv'
  BY <1>7 DEF BulkLayer, BulkZip, ReportSummarize, On, GoTo
<1>8. ASSUME NEW w \in Worker, PlanGenerate(w) \/ RasterCompute(w) PROVE RowInv'
  BY <1>8 DEF PlanGenerate, RasterCompute, On, GoTo
<1>9. ASSUME NEW w \in Worker, ImportInsert(w) \/ ImportRegister(w) \/ Upload(w) PROVE RowInv'
  BY <1>9 DEF ImportInsert, ImportRegister, Upload, On, GoTo
<1>10. ASSUME NEW w \in Worker, Complete(w) PROVE RowInv'
  BY <1>10 DEF Complete, Update, On, GoTo
<1>11. ASSUME NEW w \in Worker, Throw(w) PROVE RowInv'
  BY <1>11 DEF Throw, Caught, GoTo
<1>12. ASSUME NEW w \in Worker, MarkFailed(w) PROVE RowInv'
  BY <1>12 DEF MarkFailed, Update, FailedStatus, Throws, On, GoTo
<1>13. ASSUME NEW w \in Worker, MarkFailedRejected(w) PROVE RowInv'
  BY <1>13 DEF MarkFailedRejected, On, GoTo
<1>14. ASSUME NEW w \in Worker, Return(w) PROVE RowInv'
  BY <1>14 DEF Return, MoveToCompleted, HoldsLock, Leave, On
<1>15. ASSUME NEW w \in Worker, Rethrow(w) PROVE RowInv'
  BY <1>15 DEF Rethrow, MoveToFailed, HoldsLock, Leave, On
<1>16. ASSUME NEW w \in Worker, Crash(w) PROVE RowInv'
  BY <1>16 DEF Crash, Leave
<1>17. ASSUME NEW j \in Job, DeleteRow(j) PROVE RowInv'
  BY <1>17 DEF DeleteRow
<1>18. ASSUME NEW l \in Layer, DeleteLayer(l) \/ UpdateLayer(l) PROVE RowInv'
  BY <1>18 DEF DeleteLayer, UpdateLayer
<1>19. ASSUME NEW j \in Job, AdminRetry(j) PROVE RowInv'
  BY <1>19 DEF AdminRetry, RetryJob
<1>20. ASSUME NEW j \in Job, Queueing(j) PROVE RowInv'
  <2>1. CASE Promote(j) \/ Lapse(j)
    BY <1>20, <2>1 DEF Queueing, Promote, Lapse
  <2>2. CASE MoveStalled(j)
    BY <1>20, <2>2 DEF Queueing, MoveStalled, Stalled
  <2>3. QED
    BY <1>20, <2>1, <2>2 DEF Queueing
<1>21. CASE UNCHANGED vars
  BY <1>21 DEF vars
<1>22. QED
  BY <1>1, <1>2, <1>3, <1>4, <1>5, <1>6, <1>7, <1>8, <1>9, <1>10, <1>11, <1>12, <1>13, <1>14,
     <1>15, <1>16, <1>17, <1>18, <1>19, <1>20, <1>21 DEF Next, Process

\* Rows, the queue and the workers agree.
THEOREM Told == Spec => []RowInv
<1>1. Init => RowInv
  BY QueueAssumption DEF Init, QueueInit, RowInv, RowIn, MarkedIn, Status
<1>2. QED
  BY <1>1, Typed, Locked, RowStep, PTL DEF Spec

\* The row of a job nobody works on says what the queue says.
THEOREM RowAgrees == Spec => []RowAgreesUnlessLost
<1>1. RowInv /\ TypeInv => RowAgreesUnlessLost
  BY DEF RowInv, TypeInv, TypeOK, QueueTypeOK, RowAgreesUnlessLost, Quiet, Place, Live, RowIn, MarkedIn
<1>2. QED
  BY <1>1, Typed, Told, PTL

-----------------------------------------------------------------------------
(* The row a client polls *)

\* One step of the jobs is one step of TrackedRow, or none.
LEMMA ViewStep == TypeInv /\ LockInv /\ RowInv /\ [Next]_vars => [View!Next]_(View!vars)
<1> SUFFICES ASSUME TypeInv, LockInv, RowInv, [Next]_vars PROVE [View!Next]_(View!vars)
  OBVIOUS
<1> DEFINE Twice == {j \in Job : stalls[j] > 0}
<1> USE QueueAssumption DEF TypeInv, TypeOK, QueueTypeOK, Busy
<1>a. ASSUME UNCHANGED <<status, stalls>> PROVE UNCHANGED View!vars
  BY <1>a DEF View!vars
<1>b. ASSUME UNCHANGED stalls PROVE Twice' = Twice
  BY <1>b
<1>1. ASSUME NEW j \in Job, Ask(j) PROVE View!Next
  <2>1. CreateRow(j)
    BY <1>1, AskCreates
  <2>2. View!Create(j)
    BY <1>b, <2>1 DEF CreateRow, queue, View!Create, View!Move
  <2>3. QED
    BY <2>2 DEF View!Next
<1>2. ASSUME NEW j \in Job, Enqueue(j) \/ AskFails(j) \/ AdminRetry(j) PROVE UNCHANGED View!vars
  BY <1>a, <1>2 DEF Enqueue, AddJob, AskFails, AdminRetry, RetryJob, queue, tables
<1>3. ASSUME NEW w \in Worker, NEW j \in Job, Take(w, j) PROVE UNCHANGED View!vars
  BY <1>a, <1>3 DEF Take, TakeJob, tables
<1>4. ASSUME NEW w \in Worker, Begin(w) PROVE [View!Next]_(View!vars)
  <2>1. /\ status[has[w]] \in Present /\ status' = [status EXCEPT ![has[w]] = "PROCESSING"]
        /\ UNCHANGED stalls /\ has[w] \in Job
    BY <1>4 DEF Begin, Update, On, queue
  <2>2. stalls[has[w]] = 0 => status[has[w]] # "COMPLETED"
    BY <1>4 DEF Begin, On, RowInv, RowAt
  <2>3. CASE status[has[w]] = "PROCESSING"
    BY <1>a, <2>1, <2>3
  <2>4. CASE status[has[w]] # "PROCESSING"
    <3>1. View!Start(has[w])
      BY <1>b, <2>1, <2>2, <2>4 DEF View!Start, View!Move, Present
    <3>2. QED
      BY <2>1, <3>1 DEF View!Next
  <2>5. QED
    BY <2>3, <2>4
<1>5. ASSUME NEW w \in Worker, Complete(w) PROVE [View!Next]_(View!vars)
  <2>1. /\ status[has[w]] \in Present /\ status' = [status EXCEPT ![has[w]] = "COMPLETED"]
        /\ UNCHANGED stalls /\ has[w] \in Job
    BY <1>5 DEF Complete, Update, On, queue
  <2>2. /\ status[has[w]] # "PENDING"
        /\ stalls[has[w]] = 0 => status[has[w]] = "PROCESSING"
    BY <1>5, <2>1 DEF Complete, On, RowInv, RowAt, Working, Present
  <2>3. CASE status[has[w]] = "COMPLETED"
    BY <1>a, <2>1, <2>3
  <2>4. CASE status[has[w]] # "COMPLETED"
    <3>1. View!Complete(has[w])
      BY <1>b, <2>1, <2>2, <2>4 DEF View!Complete, View!Move, Present
    <3>2. QED
      BY <2>1, <3>1 DEF View!Next
  <2>5. QED
    BY <2>3, <2>4
<1>6. ASSUME NEW w \in Worker, MarkFailed(w) PROVE [View!Next]_(View!vars)
  <2>1. /\ status[has[w]] \in Present /\ status' = [status EXCEPT ![has[w]] = "FAILED"]
        /\ UNCHANGED stalls /\ has[w] \in Job
    BY <1>6 DEF MarkFailed, FailedStatus, Update, On, queue
  <2>2. stalls[has[w]] = 0 => status[has[w]] # "COMPLETED"
    BY <1>6 DEF MarkFailed, On, RowInv, RowAt
  <2>3. CASE status[has[w]] = "FAILED"
    BY <1>a, <2>1, <2>3
  <2>4. CASE status[has[w]] # "FAILED"
    <3>1. View!Fail(has[w])
      BY <1>b, <2>1, <2>2, <2>4 DEF View!Fail, View!Move, Present
    <3>2. QED
      BY <2>1, <3>1 DEF View!Next
  <2>5. QED
    BY <2>3, <2>4
<1>7. ASSUME NEW w \in Worker, Work(w), ~Begin(w), ~Complete(w), ~MarkFailed(w)
      PROVE  UNCHANGED View!vars
  <2>1. UNCHANGED status
    BY <1>7 DEF Work, LoadLayer, ExportLayer, BulkLayer, BulkZip, ReportSummarize, PlanGenerate,
                RasterCompute, ImportInsert, ImportRegister, Upload, Throw, MarkFailedRejected, tables
  <2>2. QED
    BY <1>7, <1>a, <2>1, WorkStays
<1>8. ASSUME NEW w \in Worker, Return(w) \/ Rethrow(w) \/ Crash(w) PROVE UNCHANGED View!vars
  BY <1>a, <1>8 DEF Return, MoveToCompleted, Rethrow, MoveToFailed, Crash, queue, tables
<1>9. ASSUME NEW j \in Job, DeleteRow(j) PROVE View!Next
  <2>1. View!Delete({j})
    BY <1>b, <1>9 DEF DeleteRow, Present, Status, queue, View!Delete
  <2>2. QED
    BY <2>1 DEF View!Next
<1>10. ASSUME NEW l \in Layer, DeleteLayer(l) PROVE View!Next
  <2> DEFINE D == {j \in Job : Kind[j] \in OneLayer /\ Wants[j] = {l} /\ status[j] \in Present}
  <2>1. View!Delete(D)
    BY <1>b, <1>10 DEF DeleteLayer, Present, queue, View!Delete
  <2>2. QED
    BY <2>1 DEF View!Next
<1>11. ASSUME NEW j \in Job, Queueing(j) PROVE [View!Next]_(View!vars)
  <2>1. CASE Promote(j) \/ Lapse(j)
    BY <1>a, <1>11, <2>1 DEF Queueing, Promote, Lapse, tables
  <2>2. CASE MoveStalled(j)
    <3>1. stalls' = [stalls EXCEPT ![j] = stalls[j] + 1] /\ UNCHANGED status
      BY <1>11, <2>2 DEF Queueing, MoveStalled, tables
    <3>2. Twice' = Twice \cup {j}
      BY <3>1
    <3>3. View!HandOutTwice(j)
      BY <3>1, <3>2 DEF View!HandOutTwice
    <3>4. QED
      BY <3>3 DEF View!Next
  <2>3. QED
    BY <1>11, <2>1, <2>2 DEF Queueing
<1>12. ASSUME NEW l \in Layer, UpdateLayer(l) PROVE UNCHANGED View!vars
  BY <1>a, <1>12 DEF UpdateLayer, queue
<1>13. CASE UNCHANGED vars
  BY <1>a, <1>13 DEF vars, queue, tables
<1>14. QED
  BY <1>1, <1>2, <1>3, <1>4, <1>5, <1>6, <1>7, <1>8, <1>9, <1>10, <1>11, <1>12, <1>13 DEF Next, Process, Work

\* The rows behave as a client that polls them may count on.
THEOREM Tracked == Spec => ViewSpec
<1>1. Init => View!Init
  BY DEF Init, QueueInit, View!Init
<1>2. TypeInv /\ LockInv /\ RowInv /\ [Next]_vars => [View!Next]_(View!vars)
  BY ViewStep
<1>3. QED
  BY <1>1, <1>2, Typed, Locked, Told, PTL DEF Spec, ViewSpec, View!Spec
=============================================================================
