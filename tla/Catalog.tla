------------------------------- MODULE Catalog -------------------------------
(***************************************************************************)
(* What is kept three times about a layer of the catalogue: its row, its   *)
(* document in the search index, and the style the QGIS project draws it   *)
(* with, which the row's metadata names too.  No handler writes two of     *)
(* them together, and the project is one file that each script loads and   *)
(* saves whole.                                                            *)
(*                                                                         *)
(* A name stands for the names, description and place the index holds of a *)
(* row.  It also holds a copy of the metadata, which the handlers that     *)
(* style a layer rewrite without indexing it: that copy is not here.  A    *)
(* style stands for the colour, icon or style file.  Tables and the        *)
(* project's list of layers are in Instances and LayerTables.              *)
(***************************************************************************)
EXTENDS Naturals, FiniteSets

CONSTANTS Layer, Group, SubGroup,
          Style, Plain, \* styles, and the one a layer is created with
          MaxName,      \* bound: names a layer takes
          Request, None

VARIABLES
  group, sub, \* the groups; per sub-group, its group or None
  row,        \* per layer: its sub-group, name and style, or None
  index,      \* per layer: the name in the search index, or None
  drawn,      \* per layer: the style in the QGIS project
  doing       \* per request: what it is about to do and what it read, or None
(***************************************************************************)
(* History, read by no action: layers ever created; layers made by a       *)
(* handler that does not index, whose indexing failed or that went by      *)
(* cascade; layers with two requests about them, or whose project two      *)
(* scripts had open; layers whose styling failed halfway, or whose         *)
(* metadata an update replaced.                                            *)
(***************************************************************************)
VARIABLES past, missed, overlapped, torn

tree == <<group, sub>>
history == <<past, missed, overlapped, torn>>
vars == <<tree, row, index, drawn, doing, history>>

Row == [sub : SubGroup, name : 1..MaxName, style : Style]
Doing == [at : {"index", "unindex"}, layer : Layer, name : 0..MaxName]
           \cup [at : {"style", "script", "write", "resync"}, layer : Layer, style : Style,
                 file : [Layer -> Style]]
           \cup [at : {"reindex"}, todo : SUBSET Layer, read : [Layer -> 0..MaxName]]

TypeOK ==
  /\ group \subseteq Group /\ sub \in [SubGroup -> group \cup {None}]
  /\ row \in [Layer -> Row \cup {None}] /\ index \in [Layer -> 1..MaxName \cup {None}]
  /\ \A l \in Layer : row[l] # None => sub[row[l].sub] # None
  /\ drawn \in [Layer -> Style] /\ doing \in [Request -> Doing \cup {None}]
  /\ past \subseteq Layer

Init ==
  /\ group = {} /\ sub = [s \in SubGroup |-> None] /\ row = [l \in Layer |-> None]
  /\ index = [l \in Layer |-> None] /\ drawn = [l \in Layer |-> Plain]
  /\ doing = [h \in Request |-> None]
  /\ past = {} /\ missed = {} /\ overlapped = {} /\ torn = {}

At(h, s) == doing[h] # None /\ doing[h].at = s
Put(h, x) == doing' = [doing EXCEPT ![h] = x]
Layers == {l \in Layer : row[l] # None}

\* The layers a request works on, and those a request about l may disturb.
Touches(g) == IF doing[g] = None THEN {}
              ELSE IF doing[g].at = "reindex" THEN doing[g].todo ELSE {doing[g].layer}
Overlap(ls) == overlapped' = overlapped \cup (ls \cap UNION {Touches(g) : g \in Request})
-----------------------------------------------------------------------------
CreateGroup(g) == /\ g \notin group /\ group' = group \cup {g}
                  /\ UNCHANGED <<sub, row, index, drawn, doing, history>>
CreateSubGroup(s, g) ==
  /\ g \in group /\ sub[s] = None /\ sub' = [sub EXCEPT ![s] = g]
  /\ UNCHANGED <<group, row, index, drawn, doing, history>>

\* The rows below go by cascade; the index is not told.
Cascade(subs) ==
  LET gone == {l \in Layers : row[l].sub \in subs} IN
  /\ sub' = [s \in SubGroup |-> IF s \in subs THEN None ELSE sub[s]]
  /\ row' = [l \in Layer |-> IF l \in gone THEN None ELSE row[l]]
  /\ missed' = missed \cup gone
  /\ UNCHANGED <<index, drawn, doing, past, overlapped, torn>>

DeleteSubGroup(s) == sub[s] # None /\ Cascade({s}) /\ UNCHANGED group
DeleteGroup(g) == /\ g \in group /\ group' = group \ {g}
                  /\ Cascade({s \in SubGroup : sub[s] = g})

-----------------------------------------------------------------------------
Insert(l, s) ==
  /\ l \notin past /\ past' = past \cup {l} /\ sub[s] # None
  /\ row' = [row EXCEPT ![l] = [sub |-> s, name |-> 1, style |-> Plain]]

\* CreateLayerUseCase inserts the row, then indexes it.
Create(h, l, s) ==
  /\ doing[h] = None /\ Insert(l, s)
  /\ Put(h, [at |-> "index", layer |-> l, name |-> 1])
  /\ UNCHANGED <<tree, index, drawn, missed, overlapped, torn>>

\* A new instance, a staged file, a QGIS project or OSM tags: nothing is indexed.
CreateUnindexed(l, s) ==
  /\ Insert(l, s) /\ missed' = missed \cup {l}
  /\ UNCHANGED <<tree, index, drawn, doing, overlapped, torn>>

\* A version that indexes the row it checked for
AsChecked(before, after) == before
\* UpdateLayerUseCase indexes the row the update returned.
Indexed(before, after) == after

\* PATCH may replace the metadata, and with it the style they name.
Update(h, l, st) ==
  /\ doing[h] = None /\ l \in Layers /\ row[l].name < MaxName
  /\ row' = [row EXCEPT ![l].name = @ + 1, ![l].style = st] /\ Overlap({l})
  /\ torn' = IF st = row[l].style THEN torn ELSE torn \cup {l}
  /\ Put(h, [at |-> "index", layer |-> l, name |-> Indexed(row[l].name, row[l].name + 1)])
  /\ UNCHANGED <<tree, index, drawn, past, missed>>

Index(h) ==
  /\ At(h, "index") /\ Put(h, None)
  /\ index' = [index EXCEPT ![doing[h].layer] = doing[h].name]
  /\ UNCHANGED <<tree, row, drawn, history>>

\* DeleteLayerUseCase: the row, the table and the project, the index last.
Delete(h, l) ==
  /\ doing[h] = None /\ l \in Layers /\ row' = [row EXCEPT ![l] = None]
  /\ Put(h, [at |-> "unindex", layer |-> l, name |-> 0]) /\ Overlap({l})
  /\ UNCHANGED <<tree, index, drawn, past, missed, torn>>
Unindex(h) ==
  /\ At(h, "unindex") /\ Put(h, None) /\ index' = [index EXCEPT ![doing[h].layer] = None]
  /\ UNCHANGED <<tree, row, drawn, history>>

\* POST /admin/search/reindex reads every row, then indexes them one by one; documents
\* of rows that are gone stay.
Reindex(h) ==
  /\ doing[h] = None /\ Layers # {} /\ Overlap(Layers)
  /\ Put(h, [at |-> "reindex", todo |-> Layers,
             read |-> [l \in Layer |-> IF l \in Layers THEN row[l].name ELSE 0]])
  /\ UNCHANGED <<tree, row, index, drawn, past, missed, torn>>
ReindexOne(h, l) ==
  /\ At(h, "reindex") /\ l \in doing[h].todo
  /\ Put(h, IF doing[h].todo = {l} THEN None ELSE [doing[h] EXCEPT !.todo = @ \ {l}])
  /\ index' = [index EXCEPT ![l] = doing[h].read[l]]
  /\ UNCHANGED <<tree, row, drawn, history>>

-----------------------------------------------------------------------------
Scripts == {g \in Request : At(g, "script")}

\* ApplyLayerStyleUseCase reads the row, has a script style the layer in the project,
\* then writes the metadata it read with the new style.
StyleRead(h, l, st) ==
  /\ doing[h] = None /\ l \in Layers /\ Overlap({l})
  /\ Put(h, [at |-> "style", layer |-> l, style |-> st, file |-> drawn])
  /\ UNCHANGED <<tree, row, index, drawn, past, missed, torn>>
ScriptLoad(h) ==
  /\ At(h, "style") /\ Put(h, [doing[h] EXCEPT !.at = "script", !.file = drawn])
  /\ overlapped' = IF Scripts = {} THEN overlapped ELSE Layer
  /\ UNCHANGED <<tree, row, index, drawn, past, missed, torn>>
ScriptSave(h) ==
  LET x == doing[h] IN
  /\ At(h, "script") /\ drawn' = [x.file EXCEPT ![x.layer] = x.style]
  /\ Put(h, [x EXCEPT !.at = "write"])
  /\ UNCHANGED <<tree, row, index, history>>
\* The script fails: for an icon the metadata is written all the same, else that is all.
ScriptFails(h) ==
  /\ At(h, "script")
  /\ \/ /\ Put(h, [doing[h] EXCEPT !.at = "write"]) /\ torn' = torn \cup {doing[h].layer}
     \/ Put(h, None) /\ UNCHANGED torn
  /\ UNCHANGED <<tree, row, index, drawn, past, missed, overlapped>>

\* A version in which a resynchronisation writes the metadata of a new layer
Reset(x) == IF x.at = "resync" THEN Plain ELSE x.style
\* The style a metadata update writes: the request's, or the one it read.
Written(x) == x.style

\* ResyncLayerUseCase rebuilds the table, then writes the metadata it read with the
\* new counts.
ResyncRead(h, l) ==
  /\ doing[h] = None /\ l \in Layers /\ Overlap({l})
  /\ Put(h, [at |-> "resync", layer |-> l, style |-> row[l].style, file |-> drawn])
  /\ UNCHANGED <<tree, row, index, drawn, past, missed, torn>>
WriteMetadata(h) ==
  LET x == doing[h] IN
  /\ At(h, "write") \/ At(h, "resync")
  /\ Put(h, None)
  /\ row' = IF x.layer \in Layers THEN [row EXCEPT ![x.layer].style = Written(x)] ELSE row
  /\ UNCHANGED <<tree, index, drawn, history>>

\* A request fails or dies: before the index was told, or between project and row.
Abort(h) ==
  /\ doing[h] # None /\ Put(h, None)
  /\ missed' = missed \cup IF At(h, "index") \/ At(h, "unindex") THEN {doing[h].layer} ELSE {}
  /\ torn' = torn \cup IF At(h, "write") THEN {doing[h].layer} ELSE {}
  /\ UNCHANGED <<tree, row, index, drawn, past, overlapped>>

Next ==
  \/ \E g \in Group : CreateGroup(g) \/ DeleteGroup(g)
  \/ \E s \in SubGroup, g \in Group : CreateSubGroup(s, g)
  \/ \E s \in SubGroup : DeleteSubGroup(s) \/ \E l \in Layer : CreateUnindexed(l, s)
  \/ \E h \in Request, l \in Layer, s \in SubGroup : Create(h, l, s)
  \/ \E h \in Request, l \in Layer, st \in Style : Update(h, l, st) \/ StyleRead(h, l, st)
  \/ \E h \in Request, l \in Layer : Delete(h, l) \/ ReindexOne(h, l) \/ ResyncRead(h, l)
  \/ \E h \in Request : \/ Index(h) \/ Unindex(h) \/ Reindex(h) \/ ScriptLoad(h)
                        \/ ScriptSave(h) \/ ScriptFails(h) \/ WriteMetadata(h) \/ Abort(h)

Spec == Init /\ [][Next]_vars
-----------------------------------------------------------------------------
About(l) == \E h \in Request : l \in Touches(h)

\* The search finds a layer under its current name, and no layer that is gone: unless its
\* indexing failed, it was made or removed by a handler that does not index, or two
\* requests about it overlapped.
IndexFollowsRow ==
  \A l \in past \ (missed \cup overlapped) :
    About(l) \/ index[l] = IF l \in Layers THEN row[l].name ELSE None

\* The style a row names is the one its QGIS project draws, whatever wrote the metadata
\* or the project since: unless two requests about the layer, or two scripts on the
\* project, overlapped, a styling failed halfway, or a PATCH replaced the metadata, and
\* with them the style the row named.
StyleAgrees ==
  \A l \in Layers \ (overlapped \cup torn) : About(l) \/ row[l].style = drawn[l]
=============================================================================
