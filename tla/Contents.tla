------------------------------- MODULE Contents -------------------------------
(***************************************************************************)
(* What users and administrators keep besides layers: documents, whose     *)
(* file and row are written one after the other; links to a shared map,    *)
(* which expire; drawings and bookmarks; the default themes, seeded on     *)
(* demand.                                                                 *)
(*                                                                         *)
(* Names, positions and colours are left out.  Nothing here falls with an  *)
(* instance or a layer: these rows have no foreign key to them.            *)
(***************************************************************************)
EXTENDS Naturals, FiniteSets

CONSTANTS Document, Item, \* documents; drawings and bookmarks
          Owner, Theme,   \* the themes of DEFAULT_THEMES
          Request, None

VARIABLES
  file, row,  \* the documents whose file is stored, whose row is there
  item, link, \* per item: its owner, or None; the state of a link to a shared map
  theme, tag, \* the themes there are, and those with tags
  doing       \* per request: its step and what it works on, or None
VARIABLE torn  \* history: documents whose deletion stopped between its two writes

vars == <<file, row, item, link, theme, tag, doing, torn>>
documents == <<file, row, torn>>
items == <<item, link>>
themes == <<theme, tag>>

Doing == [at : {"upload", "create", "unstore", "delete"}, document : Document]
           \cup [at : {"seed", "insert"}, done : SUBSET Theme, next : Theme \cup {None}]

TypeOK ==
  /\ file \subseteq Document /\ row \subseteq Document /\ torn \subseteq Document
  /\ item \in [Item -> Owner \cup {None}] /\ link \in {"none", "open", "expired"}
  /\ theme \subseteq Theme /\ tag \subseteq theme
  /\ doing \in [Request -> Doing \cup {None}]

Init ==
  /\ file = {} /\ row = {} /\ item = [i \in Item |-> None] /\ link = "none"
  /\ theme = {} /\ tag = {} /\ doing = [h \in Request |-> None]
  /\ torn = {}

At(h, s) == doing[h] # None /\ doing[h].at = s
Put(h, x) == doing' = [doing EXCEPT ![h] = x]
Known(d) == d \in file \cup row \cup torn
              \/ \E h \in Request : doing[h] # None /\ "document" \in DOMAIN doing[h]
                                     /\ doing[h].document = d
-----------------------------------------------------------------------------
\* A version that inserts the row before it stores the file
RowFirst == [upload |-> "create", create |-> "upload"]
FileFirst == [upload |-> "upload", create |-> "create"]
\* Which of its two writes an upload makes at each step: the file, then the row.
WriteOrder == FileFirst

Upload(h, d) ==
  /\ doing[h] = None /\ ~Known(d) /\ Put(h, [at |-> "upload", document |-> d])
  /\ UNCHANGED <<documents, items, themes>>

UploadStep(h) ==
  \E s \in {"upload", "create"} :
    LET d == doing[h].document IN
    /\ At(h, s)
    /\ IF WriteOrder[s] = "upload" THEN file' = file \cup {d} /\ UNCHANGED row
                                   ELSE row' = row \cup {d} /\ UNCHANGED file
    /\ Put(h, IF s = "upload" THEN [at |-> "create", document |-> d] ELSE None)
    /\ UNCHANGED <<torn, items, themes>>

\* DeleteDocumentUseCase: the row is read, the file goes, then the row.  A second
\* deletion finds the file gone, which is no error, and fails on the row.
Delete(h, d) ==
  /\ doing[h] = None /\ d \in row /\ Put(h, [at |-> "unstore", document |-> d])
  /\ UNCHANGED <<documents, items, themes>>
Unstore(h) ==
  /\ At(h, "unstore") /\ file' = file \ {doing[h].document}
  /\ Put(h, [at |-> "delete", document |-> doing[h].document])
  /\ UNCHANGED <<row, torn, items, themes>>
DeleteRow(h) ==
  /\ At(h, "delete") /\ row' = row \ {doing[h].document} /\ Put(h, None)
  /\ UNCHANGED <<file, torn, items, themes>>

\* A request fails or its process stops.
Abort(h) ==
  /\ doing[h] # None /\ Put(h, None)
  /\ torn' = torn \cup (IF doing[h].at = "delete" THEN {doing[h].document} ELSE {})
  /\ UNCHANGED <<file, row, items, themes>>

-----------------------------------------------------------------------------
Save(i, u) ==
  /\ item[i] = None /\ item' = [item EXCEPT ![i] = u]
  /\ UNCHANGED <<link, documents, themes, doing>>
\* A drawing or a bookmark, by its owner.
Remove(i, u) ==
  /\ item[i] = u /\ item' = [item EXCEPT ![i] = None]
  /\ UNCHANGED <<link, documents, themes, doing>>

Share == /\ link = "none" /\ link' = "open" /\ UNCHANGED <<item, documents, themes, doing>>
Expire == /\ link = "open" /\ link' = "expired"
          /\ UNCHANGED <<item, documents, themes, doing>>

-----------------------------------------------------------------------------
\* SeedDefaultThemesUseCase takes each theme in turn: looked up by slug, created if it
\* is missing.
Seed(h) ==
  /\ doing[h] = None /\ Put(h, [at |-> "seed", done |-> {}, next |-> None])
  /\ UNCHANGED <<documents, items, themes>>

SeedLook(h, t) ==
  LET x == doing[h] IN
  /\ At(h, "seed") /\ t \in Theme \ x.done
  /\ Put(h, IF t \in theme THEN [x EXCEPT !.done = @ \cup {t}]
                           ELSE [x EXCEPT !.at = "insert", !.next = t])
  /\ UNCHANGED <<documents, items, themes>>

\* The slug is unique: an insertion that comes second ends its whole request.
SeedInsert(h) ==
  LET x == doing[h] IN
  /\ At(h, "insert") /\ theme' = theme \cup {x.next}
  /\ Put(h, IF x.next \in theme THEN None
            ELSE [at |-> "seed", done |-> x.done \cup {x.next}, next |-> None])
  /\ UNCHANGED <<tag, documents, items>>

SeedDone(h) ==
  /\ At(h, "seed") /\ doing[h].done = Theme /\ Put(h, None)
  /\ UNCHANGED <<documents, items, themes>>

CreateTheme(t) ==
  /\ t \notin theme /\ theme' = theme \cup {t}
  /\ UNCHANGED <<tag, documents, items, doing>>
CreateTag(t) ==
  /\ t \in theme \ tag /\ tag' = tag \cup {t}
  /\ UNCHANGED <<theme, documents, items, doing>>
\* Its tags fall with it.
DeleteTheme(t) ==
  /\ t \in theme /\ theme' = theme \ {t} /\ tag' = tag \ {t}
  /\ UNCHANGED <<documents, items, doing>>

Next ==
  \/ \E h \in Request, d \in Document : Upload(h, d) \/ Delete(h, d)
  \/ \E h \in Request : \/ UploadStep(h) \/ Unstore(h) \/ DeleteRow(h) \/ Abort(h)
                        \/ Seed(h) \/ SeedInsert(h) \/ SeedDone(h)
  \/ \E h \in Request, t \in Theme : SeedLook(h, t)
  \/ \E i \in Item, u \in Owner : Save(i, u) \/ Remove(i, u)
  \/ Share \/ Expire
  \/ \E t \in Theme : CreateTheme(t) \/ CreateTag(t) \/ DeleteTheme(t)

Spec == Init /\ [][Next]_vars
-----------------------------------------------------------------------------
\* A document that is listed can be downloaded, unless it is being deleted or its
\* deletion stopped after the file went.
DocumentHasItsFile ==
  \A d \in row : d \in file \/ d \in torn
                 \/ \E h \in Request : At(h, "delete") /\ doing[h].document = d
=============================================================================
