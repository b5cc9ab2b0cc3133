----------------------------- MODULE Discussions -----------------------------
(***************************************************************************)
(* Comments on the map and their threads, feedback and its handling, and   *)
(* the notifications both send: a row of the notification centre, then a   *)
(* message to the sockets the user has open, which nothing waits for.      *)
(*                                                                         *)
(* Handlers do not await notifyUser: a notice goes on after the reply, and *)
(* its two steps interleave with everything else.  Text, position, notes,  *)
(* sockets and the alert of a new feedback (it never fails) are left out.  *)
(***************************************************************************)
EXTENDS Sequences, FiniteSets, Naturals

CONSTANTS User, Comment, Feedback, Process,
          Status, New,  \* the states of a feedback and its first one
          Request, None

VARIABLES
  gone,             \* the users that were deleted
  by, parent,       \* per comment: its author, None without row; the root it answers
  flagged, resolved,\* the comments under moderation, and those dealt with
  owner, status,    \* per feedback: who sent it, None if nobody known; its status, if any
  inbox, unread,    \* per user: notification rows in order of creation, those not read
  doing,            \* per request: what its next statement will write, or None
  notices           \* what notifyUser has under way
(***************************************************************************)
(* History, read by no action: comments that ever existed; pairs of a      *)
(* reply and the author it answered; notices lost with their process or    *)
(* not persisted; feedback updated by two at once.                         *)
(***************************************************************************)
VARIABLES past, owed, lost, raced

thread == <<by, parent, flagged, resolved>>
centre == <<inbox, unread>>
history == <<past, owed, lost, raced>>
vars == <<gone, thread, owner, status, centre, doing, notices, history>>

\* A row of notifications, and notifyUser on its way to write one.
Note == [about : Comment \cup Feedback, what : Status \cup {"reply"}]
Notice == [to : User, note : Note, at : Process, pc : {"persist", "push"}]
Doing == [by : User, author : User, root : Comment, at : Process]
           \cup [feedback : Feedback, from : Status, status : Status, to : User \cup {None},
                 at : Process]

TypeOK ==
  /\ gone \subseteq User /\ by \in [Comment -> User \cup {None}]
  /\ parent \in [Comment -> Comment \cup {None}]
  /\ flagged \subseteq Comment /\ resolved \subseteq Comment
  /\ owner \in [Feedback -> User \cup {None}] /\ status \in [Feedback -> Status \cup {None}]
  /\ inbox \in [User -> Seq(Note)] /\ unread \in [User -> SUBSET Nat]
  /\ \A u \in User : unread[u] \subseteq DOMAIN inbox[u]
  /\ notices \subseteq Notice
  /\ doing \in [Request -> Doing \cup {None}]

Init ==
  /\ gone = {} /\ by = [c \in Comment |-> None] /\ parent = [c \in Comment |-> None]
  /\ flagged = {} /\ resolved = {}
  /\ owner = [f \in Feedback |-> None] /\ status = [f \in Feedback |-> None]
  /\ inbox = [u \in User |-> <<>>] /\ unread = [u \in User |-> {}]
  /\ doing = [h \in Request |-> None] /\ notices = {}
  /\ past = {} /\ owed = {} /\ lost = {} /\ raced = {}

Posted(c) == by[c] # None
Thread(c) == {c} \cup {d \in Comment : parent[d] = c}
-----------------------------------------------------------------------------
Insert(c, u, root) ==
  /\ c \notin past /\ past' = past \cup {c} /\ by' = [by EXCEPT ![c] = u]
  /\ parent' = [parent EXCEPT ![c] = root]

SaveComment(c, u) ==
  /\ u \notin gone /\ Insert(c, u, None)
  /\ UNCHANGED <<gone, flagged, resolved, owner, status, centre, doing, notices,
                 owed, lost, raced>>

\* A version that hangs a reply on the comment it answers, whatever that is
HangOnComment(c) == c
\* What a reply to a comment hangs on: parent.parentId ?? parent.id.
RootOf(c) == IF parent[c] = None THEN c ELSE parent[c]

\* ReplyToCommentUseCase reads the comment, then creates the reply.
ReplyRead(h, u, c, p) ==
  /\ doing[h] = None /\ u \notin gone /\ Posted(c)
  /\ doing' = [doing EXCEPT ![h] = [by |-> u, author |-> by[c], root |-> RootOf(c),
                                        at |-> p]]
  /\ UNCHANGED <<gone, thread, owner, status, centre, notices, history>>

Notify(u, note, p) ==
  notices' = notices \cup {[to |-> u, note |-> note, at |-> p, pc |-> "persist"]}

\* A version that tells the author of the root
ToRootAuthor(d) == by[d.root]
\* Whom a reply is announced to: the author of the comment it answers, as it was read.
Addressee(d) == d.author

\* The row fails on its foreign keys if the root or the replier is gone.
ReplyCreate(h, c) ==
  LET d == doing[h] IN
  /\ d # None /\ "root" \in DOMAIN d /\ c \notin past
  /\ doing' = [doing EXCEPT ![h] = None]
  /\ IF Posted(d.root) /\ d.by \notin gone
     THEN /\ Insert(c, d.by, d.root)
          /\ owed' = IF d.author = d.by THEN owed ELSE owed \cup {<<c, d.author>>}
          /\ IF Addressee(d) = d.by THEN UNCHANGED notices
             ELSE Notify(Addressee(d), [about |-> c, what |-> "reply"], d.at)
     ELSE UNCHANGED <<past, by, parent, notices, owed>>
  /\ UNCHANGED <<gone, flagged, resolved, owner, status, centre, lost, raced>>

Moderate(f, r) ==
  /\ flagged' = f /\ resolved' = r
  /\ UNCHANGED <<gone, by, parent, owner, status, centre, doing, notices, history>>

SetFlagged(c, on) ==
  Posted(c) /\ Moderate(IF on THEN flagged \cup {c} ELSE flagged \ {c}, resolved)
SetResolved(c, on) ==
  Posted(c) /\ Moderate(flagged, IF on THEN resolved \cup {c} ELSE resolved \ {c})
\* Either decision closes the report.
ReviewReport(c) == Posted(c) /\ Moderate(flagged \ {c}, resolved \cup {c})

Erase(cs) ==
  /\ by' = [c \in Comment |-> IF c \in cs THEN None ELSE by[c]]
  /\ parent' = [c \in Comment |-> IF c \in cs THEN None ELSE parent[c]]
  /\ flagged' = flagged \ cs /\ resolved' = resolved \ cs

\* By its author or a moderator: the replies of a root go with it.
DeleteComment(c) ==
  /\ Posted(c) /\ Erase(Thread(c))
  /\ UNCHANGED <<gone, owner, status, centre, doing, notices, history>>

-----------------------------------------------------------------------------
SubmitFeedback(f, u) ==
  /\ status[f] = None /\ (u = None \/ u \notin gone)
  /\ status' = [status EXCEPT ![f] = New] /\ owner' = [owner EXCEPT ![f] = u]
  /\ UNCHANGED <<gone, thread, centre, doing, notices, history>>

\* UpdateFeedbackStatusUseCase reads the row, writes it, and announces what it wrote
\* to the owner it read.
StatusRead(h, f, s, p) ==
  /\ doing[h] = None /\ status[f] # None
  /\ doing' = [doing EXCEPT ![h] =
                 [feedback |-> f, from |-> status[f], status |-> s, to |-> owner[f], at |-> p]]
  /\ raced' = raced \cup
       IF \/ \E n \in notices : n.note.about = f
          \/ \E g \in Request : doing[g] # None /\ "feedback" \in DOMAIN doing[g]
                                 /\ doing[g].feedback = f
       THEN {f} ELSE {}
  /\ UNCHANGED <<gone, thread, owner, status, centre, notices, past, owed, lost>>

\* A version that announces the status as it was read
AnnounceOld(d) == [about |-> d.feedback, what |-> d.from]
Announced(d) == [about |-> d.feedback, what |-> d.status]

StatusWrite(h) ==
  LET d == doing[h] IN
  /\ d # None /\ "feedback" \in DOMAIN d /\ doing' = [doing EXCEPT ![h] = None]
  /\ status' = [status EXCEPT ![d.feedback] = d.status]
  /\ IF d.to = None THEN UNCHANGED notices ELSE Notify(d.to, Announced(d), d.at)
  /\ UNCHANGED <<gone, thread, owner, centre, history>>

-----------------------------------------------------------------------------
Advance(n) == notices' = (notices \ {n}) \cup {[n EXCEPT !.pc = "push"]}

\* The row is written, or the error is logged and the push goes on.
Persist(n) ==
  /\ n \in notices /\ n.pc = "persist" /\ n.to \notin gone /\ Advance(n)
  /\ inbox' = [inbox EXCEPT ![n.to] = Append(@, n.note)]
  /\ unread' = [unread EXCEPT ![n.to] = @ \cup {Len(inbox[n.to]) + 1}]
  /\ UNCHANGED <<gone, thread, owner, status, doing, history>>

PersistFails(n) ==
  /\ n \in notices /\ n.pc = "persist" /\ Advance(n) /\ lost' = lost \cup {n.note.about}
  /\ UNCHANGED <<gone, thread, owner, status, centre, doing, past, owed, raced>>

\* To the user's sockets, if there are any.
Push(n) ==
  /\ n \in notices /\ n.pc = "push" /\ notices' = notices \ {n}
  /\ UNCHANGED <<gone, thread, owner, status, centre, doing, history>>

MarkRead(u, i) ==
  /\ i \in unread[u] /\ unread' = [unread EXCEPT ![u] = @ \ {i}]
  /\ UNCHANGED <<gone, thread, owner, status, inbox, doing, notices, history>>
MarkAllRead(u) ==
  /\ unread[u] # {} /\ unread' = [unread EXCEPT ![u] = {}]
  /\ UNCHANGED <<gone, thread, owner, status, inbox, doing, notices, history>>

\* A process stops: its requests and its notices are lost.
Crash(p) ==
  /\ doing' = [h \in Request |-> IF doing[h] # None /\ doing[h].at = p THEN None ELSE doing[h]]
  /\ notices' = {n \in notices : n.at # p}
  /\ lost' = lost \cup {n.note.about : n \in notices \ notices'}
  /\ <<doing, notices>>' # <<doing, notices>>
  /\ UNCHANGED <<gone, thread, owner, status, centre, past, owed, raced>>

\* The account's comments (with the replies to them) and notifications go by cascade,
\* its feedback stays without owner.
DeleteUser(u) ==
  /\ u \notin gone /\ gone' = gone \cup {u}
  /\ Erase(UNION {Thread(c) : c \in {d \in Comment : by[d] = u}})
  /\ inbox' = [inbox EXCEPT ![u] = <<>>] /\ unread' = [unread EXCEPT ![u] = {}]
  /\ owner' = [f \in Feedback |-> IF owner[f] = u THEN None ELSE owner[f]]
  /\ UNCHANGED <<status, doing, notices, history>>

Next ==
  \/ \E c \in Comment, u \in User : SaveComment(c, u)
  \/ \E c \in Comment, on \in BOOLEAN : SetFlagged(c, on) \/ SetResolved(c, on)
  \/ \E c \in Comment : ReviewReport(c) \/ DeleteComment(c)
  \/ \E h \in Request, u \in User, c \in Comment, p \in Process : ReplyRead(h, u, c, p)
  \/ \E h \in Request, c \in Comment : ReplyCreate(h, c)
  \/ \E f \in Feedback, u \in User \cup {None} : SubmitFeedback(f, u)
  \/ \E h \in Request, f \in Feedback, s \in Status, p \in Process : StatusRead(h, f, s, p)
  \/ \E h \in Request : StatusWrite(h)
  \/ \E n \in notices : Persist(n) \/ PersistFails(n) \/ Push(n)
  \/ \E u \in User : \E i \in unread[u] : MarkRead(u, i)
  \/ \E u \in User : MarkAllRead(u) \/ DeleteUser(u)
  \/ \E p \in Process : Crash(p)

Spec == Init /\ [][Next]_vars
-----------------------------------------------------------------------------
InCentre(u, note) == \E i \in DOMAIN inbox[u] : inbox[u][i] = note
UnderWay(u, x) == \E n \in notices : n.to = u /\ n.note.about = x

\* The map lists roots with the replies to them: every comment is one or the other,
\* whatever a reply answered and whatever was deleted meanwhile.
EveryCommentIsShown ==
  \A c \in Comment : Posted(c) /\ parent[c] # None
                     => Posted(parent[c]) /\ parent[parent[c]] = None

\* Whoever's comment somebody else answered finds the notice, unless its process
\* stopped or its row could not be written.
AuthorIsTold ==
  \A o \in owed : \/ o[2] \in gone \/ o[1] \in lost \/ UnderWay(o[2], o[1])
                  \/ InCentre(o[2], [about |-> o[1], what |-> "reply"])

\* The last notice of a feedback tells its status, unless two updates overlapped (the
\* notices are not awaited, and the older one may be written last).
NewestIsCurrent ==
  \A f \in Feedback : LET u == owner[f] IN
    u # None /\ ~UnderWay(u, f) /\ f \notin raced \cup lost
    => \A i \in DOMAIN inbox[u] :
         inbox[u][i].about = f
         => \/ inbox[u][i].what = status[f]
            \/ \E j \in DOMAIN inbox[u] : j > i /\ inbox[u][j].about = f
=============================================================================
