------------------------------- MODULE Services -------------------------------
(***************************************************************************)
(* The services of one API process side by side: accounts and the access   *)
(* their tokens give, discussions, the assistant, OSM imports, backups,    *)
(* documents and themes, the catalogue, personal styles, uploaded QGIS     *)
(* projects.  Each keeps its own view of what they share (an account is a  *)
(* row in Accounts, in Access and in Discussions, a layer in OsmImports,   *)
(* in Catalog and in QgisProjects) and no step of one reads a variable of  *)
(* another, so a behaviour of all of them is, seen from one, a behaviour   *)
(* of that one alone: it is enough to let one of them move in each         *)
(* behaviour, and to let it be any.                                        *)
(***************************************************************************)
EXTENDS Naturals, Sequences

CONSTANTS
  User, Osm, EmailOf, Email, Holder, First, TTL,            \* Accounts, Access
  Comment, Feedback, Process, Status, New,                  \* Discussions
  Conversation, Message, Label, MaxCached, Entry,           \* Assistant
  Layer, Job, Attempts, MaxLoads,                           \* OsmImports
  RetentionDays, MaxDay, MaxKey,                            \* Backups
  Document, Item, Owner, Theme,                             \* Contents
  Group, SubGroup, Style, Plain, MaxName,                   \* Catalog
  Colour, Qml,                                              \* PersonalStyles
  Project, Tree, Folder, Slug, DefaultGroup, DefaultSubGroup, MaxChosen,  \* QgisProjects
  Request, Login, None

ASSUME ServicesAssumption ==
  /\ EmailOf \in [Osm -> Email] /\ First \in Holder /\ Plain \in Style /\ New \in Status
  /\ \A S \in {User, Osm, Email, Comment, Layer, Label, Style, Colour, Qml} : None \notin S
  /\ None \notin Status /\ None \notin Project /\ None \notin Folder \cup {DefaultGroup}
  /\ Label \subseteq Nat
  /\ Tree \in [Project -> Seq([slug : Slug, folders : Seq(Folder)])]
  /\ "reply" \notin Status /\ Comment \cap Feedback = {} /\ Job \cap Request = {}
  /\ {TTL, MaxLoads, RetentionDays, MaxDay, MaxKey, MaxChosen} \subseteq Nat
  /\ {Attempts, MaxCached, MaxName} \subseteq Nat \ {0}

VARIABLES
  part,  \* the service that moves in this behaviour
  email, verified, token, mailed, osm, pc, addr, who, from,
  past, born, unlinked, mixed, contested, broken, lastIn,
  role, active, tokens, signing, held,
  gone, by, parent, flagged, resolved, owner, status, inbox, unread, answering, notices,
  posted, owed, lost, raced,
  turns, cache, chat, faq, gathered, review, sent, opened, crossed, drew,
  planet, slim, copies, defaults, table, queue, left, run, loads, mine, failed,
  day, keys, stored, tmp, backing, latest,
  file, listed, item, link, theme, tag, keeping, halved,
  group, sub, rows, index, drawn, editing, layers, missed, overlapped, torn,
  style, qml, shown, styling, imported, recorded, approved, disputed, undone,
  hosted, inFile, folder, drawer, placed, importing, scripts, erased, complete

accounts == <<email, verified, token, mailed, osm, pc, addr, who, from,
              past, born, unlinked, mixed, contested, broken, lastIn>>
access == <<role, active, tokens, signing, held>>
discussions == <<gone, by, parent, flagged, resolved, owner, status, inbox, unread,
                 answering, notices, posted, owed, lost, raced>>
assistant == <<turns, cache, chat, faq, gathered, review, sent, opened, crossed, drew>>
imports == <<planet, slim, copies, defaults, table, queue, left, run, loads, mine, failed>>
backups == <<day, keys, stored, tmp, backing, latest>>
contents == <<file, listed, item, link, theme, tag, keeping, halved>>
catalog == <<group, sub, rows, index, drawn, editing, layers, missed, overlapped, torn>>
styles == <<style, qml, shown, styling, imported, recorded, approved, disputed, undone>>
projects == <<hosted, inFile, folder, drawer, placed, importing, scripts, erased, complete>>
vars == <<part, accounts, access, discussions, assistant, imports, backups, contents,
          catalog, styles, projects>>

Acc == INSTANCE Accounts
Sec == INSTANCE Access WITH User <- Holder, Request <- Login, doing <- signing
Dis == INSTANCE Discussions WITH doing <- answering, past <- posted
Ass == INSTANCE Assistant WITH past <- opened, newest <- drew
Imp == INSTANCE OsmImports WITH row <- defaults
Bak == INSTANCE Backups WITH Runner <- Request, run <- backing, newest <- latest
Con == INSTANCE Contents WITH row <- listed, doing <- keeping, torn <- halved
Cat == INSTANCE Catalog WITH row <- rows, doing <- editing, past <- layers
Sty == INSTANCE PersonalStyles WITH file <- qml, doing <- styling, past <- imported,
         raced <- disputed, torn <- undone
Qgs == INSTANCE QgisProjects WITH group <- folder, sub <- drawer, layer <- placed,
         doing <- importing

\* None is no role, no row, no message or layer, and no record a request holds.
ASSUME NoneAssumption ==
  None \notin Sec!Role \cup Con!Doing \cup Dis!Doing \cup Sty!Column \cup Sty!Doing
    \cup Cat!Row \cup Cat!Doing \cup Imp!Run \cup Seq(Message) \cup Ass!Chat
    \cup Ass!Review \cup Ass!Drawn \cup Qgs!Made \cup Qgs!Leaf \cup Qgs!Doing

Parts == {"accounts", "access", "discussions", "assistant", "imports", "backups",
          "contents", "catalog", "styles", "projects"}

Init ==
  /\ part \in Parts
  /\ Acc!Init /\ Sec!Init /\ Dis!Init /\ Ass!Init
  /\ Imp!Init /\ Bak!Init /\ Con!Init /\ Cat!Init /\ Sty!Init /\ Qgs!Init

\* The others wait.
Only(p) ==
  /\ part = p /\ UNCHANGED part
  /\ IF p = "accounts" THEN TRUE ELSE UNCHANGED accounts
  /\ IF p = "access" THEN TRUE ELSE UNCHANGED access
  /\ IF p = "discussions" THEN TRUE ELSE UNCHANGED discussions
  /\ IF p = "assistant" THEN TRUE ELSE UNCHANGED assistant
  /\ IF p = "imports" THEN TRUE ELSE UNCHANGED imports
  /\ IF p = "backups" THEN TRUE ELSE UNCHANGED backups
  /\ IF p = "contents" THEN TRUE ELSE UNCHANGED contents
  /\ IF p = "catalog" THEN TRUE ELSE UNCHANGED catalog
  /\ IF p = "styles" THEN TRUE ELSE UNCHANGED styles
  /\ IF p = "projects" THEN TRUE ELSE UNCHANGED projects

Next ==
  \/ Only("accounts") /\ Acc!Next
  \/ Only("access") /\ Sec!Next
  \/ Only("discussions") /\ Dis!Next
  \/ Only("assistant") /\ Ass!Next
  \/ Only("imports") /\ Imp!Next
  \/ Only("backups") /\ Bak!Next
  \/ Only("contents") /\ Con!Next
  \/ Only("catalog") /\ Cat!Next
  \/ Only("styles") /\ Sty!Next
  \/ Only("projects") /\ Qgs!Next

Spec == Init /\ [][Next]_vars
-----------------------------------------------------------------------------
TypeOK ==
  /\ part \in Parts
  /\ CASE part = "accounts" -> Acc!TypeOK [] part = "access" -> Sec!TypeOK
       [] part = "discussions" -> Dis!TypeOK [] part = "assistant" -> Ass!TypeOK
       [] part = "imports" -> Imp!TypeOK [] part = "backups" -> Bak!TypeOK
       [] part = "contents" -> Con!TypeOK [] part = "catalog" -> Cat!TypeOK
       [] part = "styles" -> Sty!TypeOK [] part = "projects" -> Qgs!TypeOK

\* OSM logins come back to the account they came to before (Accounts).
SameAccountEachLogin == part = "accounts" => Acc!SameAccountEachLogin
\* An account made by a first OSM login has its OSM profile (Accounts).
OsmAccountHasItsProfile == part = "accounts" => Acc!OsmAccountHasItsProfile
\* A call is served under a role the account had a token's life ago at most (Access).
EntitledInTime == part = "access" => Sec!EntitledInTime
\* Comments are roots or replies to roots (Discussions).
EveryCommentIsShown == part = "discussions" => Dis!EveryCommentIsShown
\* The author of an answered comment gets a notice (Discussions).
AuthorIsTold == part = "discussions" => Dis!AuthorIsTold
\* The last notice of a feedback tells its status (Discussions).
NewestIsCurrent == part = "discussions" => Dis!NewestIsCurrent
\* The geometry drawn last is there for the turns that follow (Assistant).
NewGeometryKept == part = "assistant" => Ass!NewGeometryKept
\* After a completed import no layer shows older data (OsmImports).
LayersFollowImport == part = "imports" => Imp!LayersFollowImport
\* The last backup stored is still there (Backups).
LastBackupRemains == part = "backups" => Bak!LastBackupRemains
\* A document that is listed has its file (Contents).
DocumentHasItsFile == part = "contents" => Con!DocumentHasItsFile
\* The search index has each layer under its name, and no other (Catalog).
IndexFollowsRow == part = "catalog" => Cat!IndexFollowsRow
\* The style of a row is the one the project draws (Catalog).
StyleAgrees == part = "catalog" => Cat!StyleAgrees
\* A published file is drawn the way its owner had styled it (PersonalStyles).
PublishedAsStyled == part = "styles" => Sty!PublishedAsStyled
\* Every layer of an imported project is in the catalogue, in its folder (QgisProjects).
ImportedAsDrawn == part = "projects" => Qgs!ImportedAsDrawn
===============================================================================
