----------------------------- MODULE QgisProjects -----------------------------
(***************************************************************************)
(* A QGIS project that an administrator uploads, and the layers of the     *)
(* catalogue made of its own: all at once, under groups and sub-groups     *)
(* that follow the folders of the project, or a selection under one        *)
(* sub-group.  Every find and every create is a statement; only the unique *)
(* keys (slug in its instance, in its group) and the foreign keys stop a   *)
(* request that is overtaken.                                              *)
(*                                                                         *)
(* One instance.  A folder is known by its slug, and so is a layer of the  *)
(* file: two of one slug have one name.  What a layer of the catalogue     *)
(* shows of the file leaves the file when that layer is deleted; scripts   *)
(* that overlap on one file are in Instances.  Drawings, types and other   *)
(* attributes of the layers are not here.                                  *)
(***************************************************************************)
EXTENDS Naturals, FiniteSets, Sequences, SequencesExt

CONSTANTS Project,
          Tree,       \* per project: the layers uploaded, in order, each with slug and folders
          Folder, Slug,
          DefaultGroup, DefaultSubGroup, \* "Import QGIS" and "Général", for what is in no folder
          MaxChosen, \* bound: the layers of a selection
          Request, None

\* A sub-group: the slug of its group and its own.
Place == (Folder \cup {DefaultGroup}) \X (Folder \cup {DefaultSubGroup})

VARIABLES
  hosted, \* the projects uploaded
  inFile, \* per project: the places of Tree whose layer its file still has
  group,  \* the groups there are
  sub,    \* the sub-groups there are
  layer,  \* per slug: the layer that has it, or None
  doing,  \* per request: its step, what it has resolved and what is left, or None
  scripts \* runs of remove_layer.py that follow a deletion: the project and the name
VARIABLES \* history: slugs whose layer was deleted since it was last created, and
          \* slugs that an import read from a file and left in the catalogue at its end
  erased, complete

files == <<hosted, inFile, scripts>>
history == <<erased, complete>>
vars == <<files, group, sub, layer, doing, history>>

\* project, name: whose layer it shows, and which; whole: whether a whole import made it.
Made == [under : Place, project : Project \cup {None}, name : Slug \cup {None},
         whole : BOOLEAN]
\* A layer to be made; n: its place in the tree.
Leaf == [slug : Slug, name : Slug, under : Place, n : Nat]
\* places, layers: what is left to do, next: the layer just looked for.  held, known: the
\* ids at hand, of the group just found and of sub-groups: no longer there once their row
\* is deleted, whatever comes after under the same slug.  seen: the places of Tree that a
\* whole import read; a selection reads none.
Doing == [at : {"group", "makeGroup", "sub", "makeSub", "find", "insert"},
          from : Project, seen : SUBSET Nat, places : SUBSET Place,
          held : Folder \cup {DefaultGroup, None}, known : SUBSET Place,
          layers : SUBSET Leaf, next : Leaf \cup {None}]

TypeOK ==
  /\ hosted \subseteq Project /\ group \subseteq Folder \cup {DefaultGroup} /\ sub \subseteq Place
  /\ \A p \in sub : p[1] \in group
  /\ layer \in [Slug -> Made \cup {None}]
  /\ doing \in [Request -> Doing \cup {None}] /\ scripts \subseteq Project \X Slug
  /\ inFile \in [Project -> SUBSET Nat] /\ \A p \in Project : inFile[p] \subseteq DOMAIN Tree[p]
  /\ erased \subseteq Slug /\ complete \subseteq Slug

Init == /\ hosted = {} /\ inFile = [p \in Project |-> DOMAIN Tree[p]] /\ scripts = {}
        /\ group = {} /\ sub = {} /\ layer = [s \in Slug |-> None]
        /\ doing = [h \in Request |-> None] /\ erased = {} /\ complete = {}

At(h, s) == doing[h] # None /\ doing[h].at = s
Put(h, x) == doing' = [doing EXCEPT ![h] = x]
Step(h, s) == Put(h, [doing[h] EXCEPT !.at = s])
-----------------------------------------------------------------------------
(* Folders of any depth, two levels in the catalogue. *)

\* The outermost folder gives the group, the innermost of the others the sub-group.
PlaceOf(leaf) ==
  LET f == leaf.folders IN
  <<IF f = <<>> THEN DefaultGroup ELSE Head(f), IF Len(f) < 2 THEN DefaultSubGroup ELSE Last(f)>>

\* Where the layers go, and what they are to be.
Places(p) == {PlaceOf(Tree[p][i]) : i \in inFile[p]}
Leaves(p) == {[slug |-> Tree[p][i].slug, name |-> Tree[p][i].slug,
               under |-> PlaceOf(Tree[p][i]), n |-> i] : i \in inFile[p]}

\* The tree that was read leads to q before it leads to r.
Before(x, q, r) ==
  \E i \in x.seen : /\ PlaceOf(Tree[x.from][i]) = q
                    /\ \A j \in x.seen : j <= i => PlaceOf(Tree[x.from][j]) # r

FirstPlace(h, q) ==
  q \in doing[h].places /\ \A r \in doing[h].places \ {q} : Before(doing[h], q, r)

\* One bucket per sub-group, in that order, and the tree's order in each; a selection comes
\* in any order.
FirstLeaf(h, x) ==
  x \in doing[h].layers /\ \A y \in doing[h].layers \ {x} :
    IF y.under = x.under THEN x.n <= y.n ELSE Before(doing[h], x.under, y.under)
-----------------------------------------------------------------------------
(* Upload, and the import of all. *)

Upload(p) == /\ hosted' = hosted \cup {p} /\ p \notin hosted
             /\ UNCHANGED <<inFile, scripts, group, sub, layer, doing, history>>

\* The whole tree is read first; a file without layers is refused.
AutoImport(h, p) ==
  /\ doing[h] = None /\ p \in hosted /\ inFile[p] # {}
  /\ Put(h, [at |-> "group", from |-> p, seen |-> inFile[p], places |-> Places(p), held |-> None,
             known |-> {}, layers |-> Leaves(p), next |-> None])
  /\ UNCHANGED <<files, group, sub, layer, history>>

FindGroup(h, q) ==
  /\ At(h, "group") /\ FirstPlace(h, q)
  /\ IF q[1] \in group THEN Put(h, [doing[h] EXCEPT !.at = "sub", !.held = q[1]])
                        ELSE Step(h, "makeGroup")
  /\ UNCHANGED <<files, group, sub, layer, history>>

MakeGroup(h, q) ==
  /\ At(h, "makeGroup") /\ FirstPlace(h, q) /\ q[1] \notin group
  /\ group' = group \cup {q[1]}
  /\ Put(h, [doing[h] EXCEPT !.at = "sub", !.held = q[1]])
  /\ UNCHANGED <<files, sub, layer, history>>

\* The id of this sub-group is kept; the next folder, or the layers.
Resolved(h, q) ==
  Put(h, [doing[h] EXCEPT !.known = @ \cup {q}, !.places = @ \ {q}, !.held = None,
                          !.at = IF doing[h].places = {q} THEN "find" ELSE "group"])

FindSub(h, q) ==
  /\ At(h, "sub") /\ FirstPlace(h, q)
  /\ IF doing[h].held = q[1] /\ q \in sub THEN Resolved(h, q) ELSE Step(h, "makeSub")
  /\ UNCHANGED <<files, group, sub, layer, history>>

MakeSub(h, q) ==
  /\ At(h, "makeSub") /\ FirstPlace(h, q) /\ doing[h].held = q[1] /\ q \notin sub
  /\ sub' = sub \cup {q} /\ Resolved(h, q)
  /\ UNCHANGED <<files, group, layer, history>>
-----------------------------------------------------------------------------
(* The layers: of a whole project, or those an administrator selected. *)

\* Layers of the file, by their names, under names of the administrator's choice.
Confirm(h, p, q, S) ==
  /\ doing[h] = None /\ p \in hosted /\ q \in sub /\ Cardinality(S) \in 1..MaxChosen
  /\ Put(h, [at |-> "find", from |-> p, seen |-> {}, places |-> {}, held |-> None,
             known |-> {q}, next |-> None,
             layers |-> {[slug |-> x[1], name |-> x[2], under |-> q, n |-> 0] : x \in S}])
  /\ UNCHANGED <<files, group, sub, layer, history>>

\* On to the next layer; the reply after the last one.
Advance(h, rest) ==
  IF rest = {}
    THEN /\ Put(h, None)
         /\ complete' = complete \cup {Tree[doing[h].from][i].slug : i \in doing[h].seen}
    ELSE /\ Put(h, [doing[h] EXCEPT !.at = "find", !.layers = rest, !.next = None])
         /\ UNCHANGED complete

\* A version that ends at a slug that is taken
StopThere(layers, x) == {}
\* A layer whose slug is taken is left out.
PassOver(layers, x) == layers \ {x}

Find(h, x) ==
  /\ At(h, "find") /\ FirstLeaf(h, x)
  /\ IF layer[x.slug] # None
       THEN Advance(h, PassOver(doing[h].layers, x))
       ELSE Put(h, [doing[h] EXCEPT !.at = "insert", !.next = x]) /\ UNCHANGED complete
  /\ UNCHANGED <<files, group, sub, layer, erased>>

Insert(h) ==
  LET x == doing[h].next IN
  /\ At(h, "insert") /\ layer[x.slug] = None /\ x.under \in doing[h].known
  /\ layer' = [layer EXCEPT ![x.slug] =
                 [under |-> x.under, project |-> doing[h].from, name |-> x.name,
                  whole |-> doing[h].seen # {}]]
  /\ erased' = erased \ {x.slug}
  /\ Advance(h, doing[h].layers \ {x})
  /\ UNCHANGED <<files, group, sub>>

\* A key refuses a row, a statement fails, the process stops: what was made stays.
Abort(h) == /\ doing[h] # None /\ Put(h, None)
            /\ UNCHANGED <<files, group, sub, layer, history>>
-----------------------------------------------------------------------------
(* The administrators' other requests. *)

CreateGroup(g) == /\ g \notin group /\ group' = group \cup {g}
                  /\ UNCHANGED <<files, sub, layer, doing, history>>
CreateSubGroup(q) == /\ q[1] \in group /\ q \notin sub /\ sub' = sub \cup {q}
                     /\ UNCHANGED <<files, group, layer, doing, history>>
CreateLayer(s, q) ==
  /\ layer[s] = None /\ q \in sub
  /\ layer' = [layer EXCEPT ![s] =
                 [under |-> q, project |-> None, name |-> None, whole |-> FALSE]]
  /\ erased' = erased \ {s}
  /\ UNCHANGED <<files, group, sub, doing, complete>>

EraseLayers(S) ==
  /\ layer' = [s \in Slug |-> IF s \in S THEN None ELSE layer[s]]
  /\ erased' = erased \cup S

\* The row goes, then a script takes what the layer showed out of the file of its project.
DeleteLayer(s) ==
  /\ layer[s] # None /\ EraseLayers({s})
  /\ scripts' = scripts \cup ({<<layer[s].project, layer[s].name>>} \cap (Project \X Slug))
  /\ UNCHANGED <<hosted, inFile, group, sub, doing, complete>>

RemoveLayer(x) ==
  /\ x \in scripts /\ scripts' = scripts \ {x}
  /\ inFile' = [inFile EXCEPT ![x[1]] = {i \in @ : Tree[x[1]][i].slug # x[2]}]
  /\ UNCHANGED <<hosted, group, sub, layer, doing, history>>

\* The script fails, or the process stops: the file keeps what nothing shows any more.
RemoveFails(x) == /\ x \in scripts /\ scripts' = scripts \ {x}
                  /\ UNCHANGED <<hosted, inFile, group, sub, layer, doing, history>>

\* PATCH sourceLayer: the layer shows another of its project, or none.
UpdateLayer(s, n) ==
  /\ layer[s] # None /\ layer[s].project # None /\ layer' = [layer EXCEPT ![s].name = n]
  /\ UNCHANGED <<files, group, sub, doing, history>>

\* Sub-groups go with their layers, and the ids requests hold name nothing any more.
EraseSubGroups(Q) ==
  /\ sub' = sub \ Q
  /\ EraseLayers({s \in Slug : layer[s] # None /\ layer[s].under \in Q})

DeleteSubGroup(q) ==
  /\ q \in sub /\ EraseSubGroups({q})
  /\ doing' = [h \in Request |-> IF doing[h] = None THEN None
                                 ELSE [doing[h] EXCEPT !.known = @ \ {q}]]
  /\ UNCHANGED <<files, group, complete>>

DeleteGroup(g) ==
  LET Q == {q \in Place : q[1] = g} IN
  /\ g \in group /\ group' = group \ {g} /\ EraseSubGroups(Q \cap sub)
  /\ doing' = [h \in Request |-> IF doing[h] = None THEN None
       ELSE [doing[h] EXCEPT !.known = @ \ Q, !.held = IF @ = g THEN None ELSE @]]
  /\ UNCHANGED <<files, complete>>

Next ==
  \/ \E p \in Project : Upload(p)
  \/ \E h \in Request :
       \/ \E p \in Project : AutoImport(h, p)
       \/ \E q \in Place : FindGroup(h, q) \/ MakeGroup(h, q) \/ FindSub(h, q) \/ MakeSub(h, q)
       \/ \E p \in Project, q \in sub, S \in SUBSET (Slug \X Slug) : Confirm(h, p, q, S)
       \/ (doing[h] # None /\ \E x \in doing[h].layers : Find(h, x)) \/ Insert(h) \/ Abort(h)
  \/ \E g \in Folder \cup {DefaultGroup} : CreateGroup(g) \/ DeleteGroup(g)
  \/ \E q \in Place : CreateSubGroup(q) \/ DeleteSubGroup(q)
  \/ \E s \in Slug : DeleteLayer(s) \/ \E q \in sub : CreateLayer(s, q)
  \/ \E s \in Slug, n \in Slug \cup {None} : UpdateLayer(s, n)
  \/ \E x \in scripts : RemoveLayer(x) \/ RemoveFails(x)

Spec == Init /\ [][Next]_vars
-----------------------------------------------------------------------------
(***************************************************************************)
(* After an import that came to its end every layer it found in the file   *)
(* has a layer of its slug in the catalogue, its own or one that was       *)
(* there, until somebody deletes that; and what a whole import made stands *)
(* where the project's folders say, in a sub-group that exists, whatever   *)
(* was deleted, taken out of the file, created again or imported twice     *)
(* meanwhile.                                                              *)
(***************************************************************************)
ImportedAsDrawn ==
  /\ \A s \in complete : layer[s] # None \/ s \in erased
  /\ \A s \in Slug : layer[s] # None =>
       /\ layer[s].under \in sub
       /\ layer[s].whole =>
            \E i \in DOMAIN Tree[layer[s].project] :
              LET leaf == Tree[layer[s].project][i] IN
              leaf.slug = s /\ layer[s].under = PlaceOf(leaf)
===============================================================================
