-------------------------- MODULE MCBackgroundJobs --------------------------
(* Instances of BackgroundJobs for TLC: a job of each kind. *)
EXTENDS BackgroundJobs, TLC

CONSTANTS l1, l2

AllKinds == [j \in Job |-> j]
AllWants == [j \in Job |-> CASE j = "plan" -> {}
                             [] j \in {"bulk", "report"} -> {l1, l2}
                             [] OTHER -> {l1}]

\* One row of any kind, with its attempts and retries, or the two imports into
\* one layer, one of them stalled, up to the first failure or deletion.  The layer l1
\* is without a table beside a bulk export or an import that gives it one, up to the
\* first failure or deletion of a layer.  No layer is deleted that no row asks for, and
\* of two none once a job is retried.
Asked == {j \in Job : status[j] # "absent"}
Bare == l1 \notin tabled \cup (Layer \ layers) \/ \E j \in Job : bare[j] # {}
Counted == \/ Cardinality(Asked) <= 1
           \/ /\ Asked = Imports /\ layers = Layer /\ retries = 0
              /\ \A j \in Asked : tries[j] = 0 /\ status[j] # "deleted"
              /\ Cardinality({j \in Asked : stalls[j] > 0}) <= 1
Bounds == /\ l2 \in tabled \cup (Layer \ layers)
          /\ Bare => /\ Asked \in {{}, {"bulk"}, {"append"}} /\ layers = Layer
                      /\ \A j \in Asked : tries[j] = 0
          /\ Asked = {} \/ Layer \ layers \subseteq UNION {Wants[j] : j \in Asked}
          /\ retries > 0 /\ Asked \in {{"bulk"}, {"report"}} => layers = Layer
          /\ Counted

Workers == Permutations(Worker)
=============================================================================
