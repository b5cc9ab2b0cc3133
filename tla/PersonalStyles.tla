---------------------------- MODULE PersonalStyles ----------------------------
(***************************************************************************)
(* How the owner of an imported file styles it before it is published: a   *)
(* colour, or a style file of QGIS Desktop, both kept in one JSON column   *)
(* that each request reads, merges and writes back; and what an approval   *)
(* then makes the instance's project draw.                                 *)
(*                                                                         *)
(* A colour stands for colour, icon and shape.  The table of the file and  *)
(* the status of its publication are in LayerTables.                       *)
(***************************************************************************)
EXTENDS Naturals

CONSTANTS Layer, Colour, Qml, \* files, what a request may ask for
          Plain,              \* the drawing QGIS picks by itself
          Request, None

VARIABLES
  style, \* per layer: the column [colour, qml], qml whether a path is recorded; None: no row
  file,  \* per layer: the style file under its path, or None
  shown, \* per layer: how the project draws the published layer, None before
  doing  \* per request: its step and what it read, or None
VARIABLES \* history: layers ever imported; per layer, what its owner's requests
          \* recorded so far and what stood when it was approved; layers two
          \* requests were about at once, or whose file or drawing failed
  past, recorded, approved, raced, torn

vars == <<style, file, shown, doing, past, recorded, approved, raced, torn>>
history == <<past, recorded, approved, raced, torn>>

Column == [colour : Colour \cup {None}, qml : BOOLEAN]
Wish == [colour : Colour \cup {None}, file : Qml \cup {None}]
Doing == [at : {"copy", "write", "draw", "unstyle", "erase"}, layer : Layer,
          read : Column, new : Wish]

TypeOK ==
  /\ style \in [Layer -> Column \cup {None}] /\ file \in [Layer -> Qml \cup {None}]
  /\ shown \in [Layer -> Colour \cup Qml \cup {None, Plain}]
  /\ doing \in [Request -> Doing \cup {None}]
  /\ past \subseteq Layer /\ recorded \in [Layer -> Wish]
  /\ approved \in [Layer -> Wish]
  /\ raced \subseteq Layer /\ torn \subseteq Layer

Unstyled == [colour |-> None, file |-> None]
Init ==
  /\ style = [l \in Layer |-> None] /\ file = [l \in Layer |-> None]
  /\ shown = [l \in Layer |-> None] /\ doing = [h \in Request |-> None]
  /\ past = {} /\ raced = {} /\ torn = {}
  /\ recorded = [l \in Layer |-> Unstyled] /\ approved = [l \in Layer |-> Unstyled]

At(h, s) == doing[h] # None /\ doing[h].at = s
Put(h, x) == doing' = [doing EXCEPT ![h] = x]
About(l) == \E g \in Request : doing[g] # None /\ doing[g].layer = l
-----------------------------------------------------------------------------
\* ImportPersonalFileUseCase may be given a colour.
Import(l, c) ==
  /\ l \notin past /\ past' = past \cup {l}
  /\ style' = [style EXCEPT ![l] = [colour |-> c, qml |-> FALSE]]
  /\ recorded' = [recorded EXCEPT ![l].colour = c]
  /\ UNCHANGED <<file, shown, doing, approved, raced, torn>>

\* Each request begins by reading the row.
Begin(h, l, s, new) ==
  /\ doing[h] = None /\ style[l] # None
  /\ Put(h, [at |-> s, layer |-> l, read |-> style[l], new |-> new])
  /\ raced' = IF About(l) THEN raced \cup {l} ELSE raced
  /\ UNCHANGED <<style, file, shown, past, recorded, torn>>

ApplyColour(h, l, c) == /\ Begin(h, l, "write", [Unstyled EXCEPT !.colour = c])
                        /\ UNCHANGED approved
UploadQml(h, l, q) == /\ Begin(h, l, "copy", [Unstyled EXCEPT !.file = q])
                      /\ UNCHANGED approved
\* One path per layer: an upload replaces the file of the one before.
Copy(h) ==
  /\ At(h, "copy") /\ Put(h, [doing[h] EXCEPT !.at = "write"])
  /\ file' = [file EXCEPT ![doing[h].layer] = doing[h].new.file]
  /\ UNCHANGED <<style, shown, history>>

\* A version that writes what was asked for without what was there
Replaced(read, new) == [colour |-> new.colour, qml |-> new.file # None]
\* The column a request writes: what it read, with what it was asked for.
Merged(read, new) == [colour |-> IF new.colour = None THEN read.colour ELSE new.colour,
                      qml |-> read.qml \/ new.file # None]

\* updateStyle; on a row that is gone it fails.
WriteStyle(h) ==
  LET x == doing[h]  l == x.layer IN
  /\ At(h, "write") /\ Put(h, None)
  /\ IF style[l] = None THEN UNCHANGED <<style, recorded>>
     ELSE /\ style' = [style EXCEPT ![l] = Merged(x.read, x.new)]
          /\ recorded' = [recorded EXCEPT ![l] =
               [colour |-> IF x.new.colour = None THEN @.colour ELSE x.new.colour,
                file |-> IF x.new.file = None THEN @.file ELSE x.new.file]]
  /\ UNCHANGED <<file, shown, past, approved, raced, torn>>

-----------------------------------------------------------------------------
\* ReviewPersonalLayerPublicationUseCase reads the row long before it adds the layer to
\* the project and styles it there: the file before the colour, and neither failure is
\* fatal.
Approve(h, l) ==
  /\ shown[l] = None /\ Begin(h, l, "draw", Unstyled)
  /\ approved' = [approved EXCEPT ![l] = recorded[l]]
Drawn(read, l) == IF read.qml /\ file[l] # None THEN file[l]
                  ELSE IF ~read.qml /\ read.colour # None THEN read.colour ELSE Plain
Draw(h) ==
  LET l == doing[h].layer IN
  /\ At(h, "draw") /\ Put(h, None)
  /\ \/ shown' = [shown EXCEPT ![l] = Drawn(doing[h].read, l)] /\ UNCHANGED torn
     \/ shown' = [shown EXCEPT ![l] = Plain] /\ torn' = torn \cup {l}
  /\ UNCHANGED <<style, file, past, recorded, approved, raced>>

\* DeletePersonalLayerUseCase: the directory of the style file, then the row; a failed rm
\* is logged.
Delete(h, l) == Begin(h, l, "unstyle", Unstyled) /\ UNCHANGED approved
RemoveStyle(h) ==
  /\ At(h, "unstyle") /\ Put(h, [doing[h] EXCEPT !.at = "erase"])
  /\ \/ file' = [file EXCEPT ![doing[h].layer] = None]
     \/ UNCHANGED file
  /\ UNCHANGED <<style, shown, history>>
Erase(h) ==
  /\ At(h, "erase") /\ Put(h, None) /\ style' = [style EXCEPT ![doing[h].layer] = None]
  /\ UNCHANGED <<file, shown, history>>

\* A request fails or dies between two of its steps.
Abort(h) ==
  /\ doing[h] # None /\ Put(h, None) /\ torn' = torn \cup {doing[h].layer}
  /\ UNCHANGED <<style, file, shown, past, recorded, approved, raced>>

Next ==
  \/ \E l \in Layer, c \in Colour \cup {None} : Import(l, c)
  \/ \E h \in Request, l \in Layer, c \in Colour : ApplyColour(h, l, c)
  \/ \E h \in Request, l \in Layer, q \in Qml : UploadQml(h, l, q)
  \/ \E h \in Request, l \in Layer : Approve(h, l) \/ Delete(h, l)
  \/ \E h \in Request : \/ Copy(h) \/ WriteStyle(h) \/ Draw(h)
                        \/ RemoveStyle(h) \/ Erase(h) \/ Abort(h)

Spec == Init /\ [][Next]_vars
-----------------------------------------------------------------------------
\* The catalogue draws a published layer as its owner had styled it when it was approved,
\* however many requests made that style: the last file, or without one the last colour;
\* unless two requests about the layer overlapped, or one of them failed halfway.
PublishedAsStyled ==
  \A l \in Layer \ (raced \cup torn) :
    LET w == approved[l] IN
    shown[l] \in {None, IF w.file # None THEN w.file
                        ELSE IF w.colour # None THEN w.colour ELSE Plain}
===============================================================================
