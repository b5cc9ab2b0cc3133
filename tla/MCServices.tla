------------------------------ MODULE MCServices ------------------------------
(* The instances on which TLC explores each service, and their bounds. *)
EXTENDS Services, FiniteSets, Sequences, TLC

OwnEmail == [o \in Osm |-> o]
Symmetry == Permutations(User) \cup Permutations(Request)

Few(S) == Cardinality(S) <= 1
\* Numbers are used in order.
InOrder(S) == \A n \in S : n = 1 \/ n - 1 \in S

\* Either OSM identities or mails; at most one account or identity in a rare state.
NoOsm == /\ \A h \in Request : from[h] = None
         /\ \A u \in User : osm[u] = None /\ born[u] = None
         /\ unlinked = {} /\ \A o \in Osm : lastIn[o] = None
NoMail == mailed = {} /\ \A h \in Request : pc[h] \notin {"tokening", "mailing"}
Deleted == {u \in past : email[u] = None}
AccountBounds ==
  /\ NoOsm \/ NoMail
  /\ Cardinality(broken) + Cardinality(unlinked) + Cardinality(mixed)
       + Cardinality(contested) + Cardinality(Deleted) <= 1

\* Two tokens; one account changed role or asleep, within a token's life.
Changed == {u \in Holder : ~Few(UNION {held[u][k] : k \in 0..TTL})}
Asleep == {u \in Holder : role[u] \notin {None, "gone"} /\ u \notin active}
AccessBounds ==
  /\ Cardinality(tokens) <= 2 /\ Cardinality(Changed) + Cardinality(Asleep) <= 1
  /\ \A u \in Holder : Cardinality(UNION {held[u][k] : k \in 0..TTL}) <= 2

\* Comments or a feedback; two notifications a user; one thing lost, deleted or raced.
DiscussionBounds ==
  /\ InOrder(posted) /\ (posted # {} => \A f \in Feedback : status[f] = None)
  /\ Cardinality(lost) + Cardinality(gone) + Cardinality(raced) <= 1
  /\ Few(flagged \cup resolved)
  /\ (flagged \cup resolved # {} => owed = {} /\ notices = {})
  /\ \A u \in User : Len(inbox[u]) <= 2

\* Geometries or FAQ entries.
Drawing == \/ \E c \in opened : cache[c] # {}
           \/ \E h \in Request : chat[h] # None /\ chat[h].fresh # <<>>
AssistantBounds == InOrder(sent) /\ (Drawing => \A e \in Entry : faq[e] = None)

\* Two loads without the boundaries or one with them; one request and the job at once.
ImportBounds == /\ copies = 0 \/ loads <= 1
                /\ Few({r \in Request : run[r] # None})

\* Documents or themes.
ContentBounds == \/ listed \cup file \cup halved = {} /\ \A i \in Item : item[i] = None
                 \/ theme = {}

\* No layer in two requests' hands; one of them missed by the index or torn.
CatalogBounds == /\ InOrder(layers) /\ overlapped = {}
                 /\ Cardinality(missed) + Cardinality(torn) <= 1

\* No step is about two files: one is enough; after a dispute nothing is promised of it.
StyleBounds == Few(imported) /\ disputed = {}

\* Three layers: in no folder, in a folder at depth three, and one with the same slug.
SomeTree == [p \in Project |-> <<[slug |-> 1, folders |-> <<>>],
              [slug |-> 2, folders |-> <<31, 32, 31>>], [slug |-> 2, folders |-> <<>>]>>]
Places == UNION {{Qgs!PlaceOf(Tree[p][i]) : i \in DOMAIN Tree[p]} : p \in Project}
\* Only groups and sub-groups that an import may need; a selection at a time; one slug
\* deleted or with a layer that does not show what it is named for; one import while there
\* is such a layer, or once a file loses layers; and no such layer after that.
Odd == {s \in Slug : placed[s] # None /\ placed[s].name # s}
Lost == UNION {DOMAIN Tree[p] \ inFile[p] : p \in Project}
Selecting == {h \in Request : importing[h] # None /\ importing[h].seen = {}}
ProjectBounds ==
  /\ folder \subseteq {q[1] : q \in Places} /\ drawer \subseteq Places
  /\ Few(Selecting)
  /\ Few(scripts) /\ Few(erased \cup Odd)
  /\ Few({h \in Request : importing[h] # None}) \/ (scripts = {} /\ Lost \cup Odd = {})
  /\ Lost = {} \/ Odd = {}

Bounds == /\ AccountBounds /\ AccessBounds /\ DiscussionBounds /\ AssistantBounds
          /\ ImportBounds /\ ContentBounds /\ CatalogBounds
          /\ StyleBounds /\ ProjectBounds
===============================================================================
