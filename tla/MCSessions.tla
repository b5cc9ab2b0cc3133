----------------------------- MODULE MCSessions -----------------------------
(* Instances of Sessions for TLC. *)
EXTENDS Sessions, FiniteSets, TLC

\* Families of up to three tokens under one password change and no reset, or
\* one session under the resets and two password changes, its account left
\* enabled and its token neither expired nor refreshed.
Bounds == \/ /\ \A p \in ResetToken : rstatus[p] = "unused"
             /\ \A u \in User : pwd[u] <= 1
             /\ \A r \in Request : pc[r] \notin {"forgot_invalidate", "forgot_create"}
          \/ /\ Cardinality({t \in Token : status[t] # "unused"}) <= 1
             /\ enabled = User /\ expired = {} /\ Cardinality(rexpired) <= 1
             /\ \A r \in Request : pc[r] \notin Rotating \cup {"refresh_reuse"}

Symmetry == Permutations(Token) \cup Permutations(ResetToken)
              \cup Permutations(Request) \cup Permutations(User)
=============================================================================
