---------------------------- MODULE MCInstances ----------------------------
(***************************************************************************)
(* Instances on small instances: two slugs that differ by a hyphen, one    *)
(* default layer, and an OSM layer whose name may lead to its table.       *)
(***************************************************************************)
EXTENDS Instances, TLC

CONSTANTS sh, sb, d1, x, y

ToBare == [s \in Slug |-> sb]
OneLabel == [l \in Default \cup Extra |-> x]
TwoLabels == [l \in Default \cup Extra |-> IF l = d1 THEN x ELSE y]
\* Any two workers at once.
Pairs == Cardinality({w \in Worker : pc[w] # "idle"}) <= 2
\* Layers of an OSM tag in one instance, or several instances with their default layers.
Seen == tables \cup left \cup contested \cup UNION {project[s] : s \in Slug}
          \cup {r.table : r \in rows} \cup {on[w].table : w \in {v \in Worker : on[v] # None}}
OneKind == IF Cardinality({i \in Instance : status[i] # "absent"}) <= 1
           THEN \A i \in Instance : slug[i] = sh => \A t \in Seen : t[2] = x
           ELSE clashed = {} /\ \A t \in Seen : t[2] = x
Bounds == Pairs /\ OneKind
Symmetric == Permutations(Instance) \cup Permutations(Request)
=============================================================================
