----------------------------- MODULE TrackedRow -----------------------------
(***************************************************************************)
(* What a client that polls GET /exports/:id (or a plan, an analysis, a    *)
(* report) may see of the row that tracks its work, and what it may count  *)
(* on: the status goes from PENDING to PROCESSING to COMPLETED or FAILED,  *)
(* a failed row may be taken up again, and COMPLETED is the last word --   *)
(* unless the work was handed out twice, which a client cannot tell.       *)
(***************************************************************************)
CONSTANT Row

VARIABLES status,   \* of each row, as read by id
          twice     \* rows whose work may have been handed out twice

vars == <<status, twice>>

Ended == {"COMPLETED", "FAILED", "deleted"}

Init == status = [r \in Row |-> "absent"] /\ twice = {}

Move(r, S, s) ==
  /\ status[r] \in S
  /\ status' = [status EXCEPT ![r] = s]

Create(r) == Move(r, {"absent"}, "PENDING") /\ UNCHANGED twice

Start(r) ==
  /\ \/ Move(r, {"PENDING", "FAILED"}, "PROCESSING")
     \/ r \in twice /\ Move(r, {"COMPLETED"}, "PROCESSING")
  /\ UNCHANGED twice

Complete(r) ==
  /\ \/ Move(r, {"PROCESSING"}, "COMPLETED")
     \/ r \in twice /\ Move(r, {"FAILED"}, "COMPLETED")
  /\ UNCHANGED twice

\* The first update may be what fails: a row can fail without ever processing.
Fail(r) ==
  /\ \/ Move(r, {"PENDING", "PROCESSING"}, "FAILED")
     \/ r \in twice /\ Move(r, {"COMPLETED"}, "FAILED")
  /\ UNCHANGED twice

\* One row, or those of a layer that is deleted
Delete(D) ==
  /\ \A r \in D : status[r] \notin {"absent", "deleted"}
  /\ status' = [r \in Row |-> IF r \in D THEN "deleted" ELSE status[r]]
  /\ UNCHANGED twice

HandOutTwice(r) == twice' = twice \cup {r} /\ UNCHANGED status

Next ==
  \/ \E r \in Row : \/ Create(r) \/ Start(r) \/ Complete(r) \/ Fail(r)
                    \/ HandOutTwice(r)
  \/ \E D \in SUBSET Row : Delete(D)

Spec == Init /\ [][Next]_vars
=============================================================================
