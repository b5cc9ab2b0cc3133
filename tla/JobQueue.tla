------------------------------ MODULE JobQueue ------------------------------
(***************************************************************************)
(* One BullMQ queue of the API as QueueService uses it (queue.service.ts): *)
(* a job is added with a number of attempts, taken by a worker under a     *)
(* lock, and finished or failed by the worker that holds the lock.         *)
(*                                                                         *)
(* BullMQ is a library: what it does with a job is modelled from how       *)
(* QueueService configures it (attempts 3, exponential backoff, default    *)
(* lock and stall settings).  A lock that is not renewed in time -- the    *)
(* process died, or its event loop was blocked -- lapses; a job that is    *)
(* active without a lock is stalled and goes back to waiting, at most      *)
(* MaxStalled times, then it fails without its processor being called.     *)
(***************************************************************************)
EXTENDS Integers

CONSTANTS Job, Worker,
          None,        \* "no worker", "no job"
          Attempts,    \* opts.attempts
          MaxStalled   \* BullMQ's maxStalledCount

ASSUME QueueAssumption ==
  /\ Attempts \in Nat \ {0} /\ MaxStalled \in Nat
  /\ None \notin Job \cup Worker

VARIABLES place,  \* per job: the list of the queue it is in
          tries,  \* attemptsMade: failures counted so far
          stalls, \* stalledCounter
          lock    \* the worker whose lock on the job is still valid

queue == <<place, tries, stalls, lock>>

Place == {"none", "waiting", "delayed", "active", "completed", "failed"}
Live == {"waiting", "delayed", "active"}

QueueTypeOK ==
  /\ place \in [Job -> Place]
  /\ tries \in [Job -> Nat] /\ stalls \in [Job -> Nat]
  /\ lock \in [Job -> Worker \cup {None}]

QueueInit ==
  /\ place = [j \in Job |-> "none"]
  /\ tries = [j \in Job |-> 0] /\ stalls = [j \in Job |-> 0]
  /\ lock = [j \in Job |-> None]

\* QueueService.addJob
AddJob(j) ==
  /\ place[j] = "none"
  /\ place' = [place EXCEPT ![j] = "waiting"]
  /\ UNCHANGED <<tries, stalls, lock>>

\* The backoff delay is over.
Promote(j) ==
  /\ place[j] = "delayed"
  /\ place' = [place EXCEPT ![j] = "waiting"]
  /\ UNCHANGED <<tries, stalls, lock>>

\* An idle worker is handed the job, and locks it.
TakeJob(w, j) ==
  /\ place[j] = "waiting"
  /\ place' = [place EXCEPT ![j] = "active"]
  /\ lock' = [lock EXCEPT ![j] = w]
  /\ UNCHANGED <<tries, stalls>>

\* moveToCompleted and moveToFailed are refused to a worker without the lock.
HoldsLock(w, j) == place[j] = "active" /\ lock[j] = w

\* A processor that returned; the job is not taken again.
MoveToCompleted(w, j) ==
  IF HoldsLock(w, j)
    THEN /\ place' = [place EXCEPT ![j] = "completed"]
         /\ lock' = [lock EXCEPT ![j] = None]
         /\ UNCHANGED <<tries, stalls>>
    ELSE UNCHANGED queue

\* A processor that threw; the job is delayed while attempts are left.
MoveToFailed(w, j) ==
  IF HoldsLock(w, j)
    THEN /\ tries' = [tries EXCEPT ![j] = tries[j] + 1]
         /\ place' = [place EXCEPT ![j] = IF tries[j] + 1 < Attempts
                                            THEN "delayed" ELSE "failed"]
         /\ lock' = [lock EXCEPT ![j] = None]
         /\ UNCHANGED stalls
    ELSE UNCHANGED queue

\* The lock is not renewed in time; a version that hands the job out at once
LapseToWaiting(j) ==
  /\ place[j] = "active" /\ lock[j] # None
  /\ lock' = [lock EXCEPT ![j] = None]
  /\ place' = [place EXCEPT ![j] = "waiting"]
  /\ UNCHANGED <<tries, stalls>>
Lapse(j) ==
  /\ place[j] = "active" /\ lock[j] # None
  /\ lock' = [lock EXCEPT ![j] = None]
  /\ UNCHANGED <<place, tries, stalls>>

\* The stalled check finds an active job without a lock; a version without it
NeverStalled(j) == FALSE
Stalled(j) == place[j] = "active" /\ lock[j] = None

MoveStalled(j) ==
  /\ Stalled(j)
  /\ stalls' = [stalls EXCEPT ![j] = stalls[j] + 1]
  /\ place' = [place EXCEPT ![j] = IF stalls[j] < MaxStalled
                                     THEN "waiting" ELSE "failed"]
  /\ UNCHANGED <<tries, lock>>

\* RetryJobUseCase: job.retry of a job whose state is "failed"
RetryJob(j) ==
  /\ place[j] = "failed"
  /\ place' = [place EXCEPT ![j] = "waiting"]
  /\ UNCHANGED <<tries, stalls, lock>>
=============================================================================
