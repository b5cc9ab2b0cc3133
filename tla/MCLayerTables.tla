---------------------------- MODULE MCLayerTables ----------------------------
(***************************************************************************)
(* LayerTables on small instances: two files, or one file and a layer of a *)
(* QGIS project or the purge; slugs that share a table name ("a-b" and     *)
(* "ab"); two requests.                                                    *)
(***************************************************************************)
EXTENDS LayerTables, TLC

CONSTANTS t

OneProject == [p \in Linked |-> CHOOSE j \in Project : TRUE]
SameTable == [n \in Name |-> t]

\* Two files; or one file and two rows, with a layer of a project or the purge.
Untouched(p) ==
  /\ status[p] = "absent" /\ \A h \in Request : subject[h] # p
  /\ p \in Dataset => /\ at[p] = "none" /\ p \notin purged \cup failed
                       /\ \A r \in Row : of[r] # p
NoPurge == purging = "idle" /\ purged = {}
NoLinked == \A p \in Linked : Untouched(p)
Bounds == /\ NoPurge \/ NoLinked
          /\ \/ NoPurge /\ NoLinked
             \/ /\ Cardinality({d \in Dataset : ~Untouched(d)}) <= 1
                /\ Cardinality({r \in Row : slug[r] # None}) <= 2
                /\ Cardinality(purged) <= 1

Symmetric == Permutations(Dataset) \cup Permutations(Request)
             \cup Permutations(Name) \cup Permutations(Row)
=============================================================================
