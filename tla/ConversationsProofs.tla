------------------------- MODULE ConversationsProofs --------------------------
(***************************************************************************)
(* Proofs about comments, feedback and their notices, and about the        *)
(* conversations with the assistant, for any number of users and requests. *)
(***************************************************************************)
EXTENDS Services, FiniteSetTheorems, SequenceTheorems, WellFoundedInduction, TLAPS

-----------------------------------------------------------------------------
(* Discussions *)

Reply == [by : User, author : User, root : Comment, at : Process]
Change == [feedback : Feedback, from : Status, status : Status, to : User \cup {None},
           at : Process]

\* A reply, or a change of status, is told by its fields.
Replies(h) == answering[h] # None /\ "root" \in DOMAIN answering[h]
Changes(h) == answering[h] # None /\ "feedback" \in DOMAIN answering[h]

\* What a request is doing to a comment, or to a feedback
LEMMA Answering ==
  ASSUME Dis!TypeOK, NEW h \in Request
  PROVE  /\ Replies(h) => answering[h] \in Reply
         /\ Changes(h) => answering[h] \in Change
<1>1. CASE answering[h] \in Reply
  BY <1>1 DEF Reply, Replies, Changes
<1>2. CASE answering[h] \in Change
  BY <1>2 DEF Change, Replies, Changes
<1> QED
  BY <1>1, <1>2 DEF Dis!TypeOK, Dis!Doing, Reply, Change, Replies, Changes

\* None is no user, comment, status or answer.
LEMMA Unknown ==
  /\ None \notin User /\ None \notin Comment /\ None \notin Status /\ New \in Status
  /\ "reply" \notin Status /\ Comment \cap Feedback = {} /\ None \notin Dis!Doing
BY ServicesAssumption, NoneAssumption

\* What a step writes is typed.
LEMMA NoticeTyped ==
  ASSUME Dis!TypeOK, NEW u \in User, NEW x \in Dis!Note, NEW p \in Process
  PROVE  [to |-> u, note |-> x, at |-> p, pc |-> "persist"] \in Dis!Notice
BY DEF Dis!Notice
\* A request takes up its next step, the others' stay.
LEMMA AnswerTyped ==
  ASSUME Dis!TypeOK, NEW h \in Request, NEW x \in Dis!Doing \cup {None},
         answering' = [answering EXCEPT ![h] = x]
  PROVE  /\ answering' \in [Request -> Dis!Doing \cup {None}] /\ answering'[h] = x
         /\ \A g \in Request \ {h} : answering'[g] = answering[g]
BY DEF Dis!TypeOK
\* The row of a notice comes last.
LEMMA Arrived ==
  ASSUME Dis!TypeOK, NEW n \in notices, n \in Dis!Notice,
         inbox' = [inbox EXCEPT ![n.to] = Append(@, n.note)]
  PROVE  /\ inbox' \in [User -> Seq(Dis!Note)]
         /\ \A u \in User \ {n.to} : inbox'[u] = inbox[u]
         /\ DOMAIN inbox[n.to] = 1..Len(inbox[n.to]) /\ Len(inbox[n.to]) \in Nat
         /\ DOMAIN inbox'[n.to] = 1..(Len(inbox[n.to]) + 1)
         /\ inbox'[n.to][Len(inbox[n.to]) + 1] = n.note
         /\ \A i \in DOMAIN inbox[n.to] : inbox'[n.to][i] = inbox[n.to][i]
<1>1. n.to \in User /\ n.note \in Dis!Note /\ inbox[n.to] \in Seq(Dis!Note)
  BY DEF Dis!TypeOK, Dis!Notice
<1>2. inbox'[n.to] = Append(inbox[n.to], n.note) /\ \A u \in User \ {n.to} : inbox'[u] = inbox[u]
  BY <1>1 DEF Dis!TypeOK
<1>3. inbox' \in [User -> Seq(Dis!Note)]
  BY <1>1 DEF Dis!TypeOK
<1> QED
  BY <1>1, <1>2, <1>3

\* What hangs on a comment hangs on a root; what a request answers is a root, if it is there.
Rooted ==
  /\ Dis!EveryCommentIsShown
  /\ \A c \in Comment : IF Dis!Posted(c) THEN c \in posted ELSE parent[c] = None
  /\ \A h \in Request : Replies(h) =>
       answering[h].root \in posted /\ parent[answering[h].root] = None

\* A notice that reached the socket has its row, and an answered author his notice.
Told ==
  /\ owed \subseteq Comment \X User
  /\ \A n \in notices : n.note.about \in Comment => n.note.what = "reply"
  /\ \A n \in notices : n.pc = "push" =>
       n.to \in gone \/ n.note.about \in lost \/ Dis!InCentre(n.to, n.note)
  /\ Dis!AuthorIsTold

\* A request is changing the status of a feedback.
Changing(h, f) == Changes(h) /\ answering[h].feedback = f

\* A feedback that was never raced has one change, or one notice, under way.
OneChange ==
  \A f \in Feedback \ raced :
    /\ \A n \in notices, m \in notices : n.note.about = f /\ m.note.about = f => n = m
    /\ \A h \in Request : Changing(h, f) =>
         /\ \A n \in notices : n.note.about # f
         /\ \A g \in Request \ {h} : ~Changing(g, f)

\* Notices go to the owner of a feedback, once it has been sent.
Toward ==
  \A f \in Feedback :
    /\ \A n \in notices : n.note.about = f => owner[f] \in {None, n.to} /\ status[f] # None
    /\ \A h \in Request : Changing(h, f) => owner[f] \in {None, answering[h].to} /\ status[f] # None
    /\ \A u \in User : \A i \in DOMAIN inbox[u] : inbox[u][i].about = f => status[f] # None

\* The last row about a feedback tells its status.
LastTells(u, f) ==
  \A i \in DOMAIN inbox[u] :
    inbox[u][i].about = f
    => inbox[u][i].what = status[f] \/ \E j \in DOMAIN inbox[u] : j > i /\ inbox[u][j].about = f

Latest ==
  \A f \in Feedback \ raced :
    /\ \A n \in notices : n.note.about = f => n.note.what = status[f]
    /\ \A u \in User :
         /\ owner[f] = u /\ f \notin lost /\ \A n \in notices : n.note.about = f => n.pc = "push"
         => LastTells(u, f)

\* Every step keeps the types.
LEMMA DiscussionTypes ==
  ASSUME Dis!TypeOK, Dis!Next
  PROVE  Dis!TypeOK'
<1>1. ASSUME NEW c \in Comment, NEW u \in User, Dis!SaveComment(c, u) PROVE Dis!TypeOK'
  BY <1>1, Unknown, Answering
     DEF Dis!SaveComment, Dis!Insert, Dis!TypeOK, Dis!Doing, Dis!Note, Dis!Notice, Replies,
         Changes, Reply, Change, Dis!Posted, Dis!thread, Dis!centre, Dis!history
<1>2. ASSUME NEW c \in Comment, NEW on \in BOOLEAN, Dis!SetFlagged(c, on) PROVE Dis!TypeOK'
  BY <1>2, Unknown, Answering
     DEF Dis!SetFlagged, Dis!Moderate, Dis!TypeOK, Dis!Doing, Dis!Note, Dis!Notice, Replies,
         Changes, Reply, Change, Dis!Posted, Dis!thread, Dis!centre, Dis!history
<1>3. ASSUME NEW c \in Comment, NEW on \in BOOLEAN, Dis!SetResolved(c, on) PROVE Dis!TypeOK'
  BY <1>3, Unknown, Answering
     DEF Dis!SetResolved, Dis!Moderate, Dis!TypeOK, Dis!Doing, Dis!Note, Dis!Notice, Replies,
         Changes, Reply, Change, Dis!Posted, Dis!thread, Dis!centre, Dis!history
<1>4. ASSUME NEW c \in Comment, Dis!ReviewReport(c) PROVE Dis!TypeOK'
  BY <1>4, Unknown, Answering
     DEF Dis!ReviewReport, Dis!Moderate, Dis!TypeOK, Dis!Doing, Dis!Note, Dis!Notice, Replies,
         Changes, Reply, Change, Dis!Posted, Dis!thread, Dis!centre, Dis!history
<1>5. ASSUME NEW c \in Comment, Dis!DeleteComment(c) PROVE Dis!TypeOK'
  BY <1>5, Unknown, Answering
     DEF Dis!DeleteComment, Dis!Erase, Dis!Thread, Dis!TypeOK, Dis!Doing, Dis!Note, Dis!Notice,
         Replies, Changes, Reply, Change, Dis!Posted, Dis!thread, Dis!centre, Dis!history
<1>6. ASSUME NEW h \in Request, NEW u \in User, NEW c \in Comment, NEW p \in Process,
             Dis!ReplyRead(h, u, c, p)
      PROVE Dis!TypeOK'
  <2> DEFINE x == [by |-> u, author |-> by[c], root |-> Dis!RootOf(c), at |-> p]
  <2>1. x \in Dis!Doing
    BY <1>6 DEF Dis!ReplyRead, Dis!RootOf, Dis!Posted, Dis!TypeOK, Dis!Doing
  <2>2. answering' = [answering EXCEPT ![h] = x]
    BY <1>6 DEF Dis!ReplyRead
  <2> HIDE DEF x
  <2> QED
    BY <1>6, <2>1, <2>2, AnswerTyped DEF Dis!ReplyRead, Dis!TypeOK, Dis!thread, Dis!centre
<1>7. ASSUME NEW h \in Request, NEW c \in Comment, Dis!ReplyCreate(h, c) PROVE Dis!TypeOK'
  <2> DEFINE d == answering[h]
             n == [to |-> d.author, note |-> [about |-> c, what |-> "reply"], at |-> d.at,
                   pc |-> "persist"]
  <2>1. d \in Reply
    BY <1>7, Answering DEF Dis!ReplyCreate, Replies
  <2>2. n \in Dis!Notice
    BY <2>1 DEF Reply, Dis!Notice, Dis!Note
  <2>3. notices' \in {notices, notices \cup {n}}
    BY <1>7 DEF Dis!ReplyCreate, Dis!Addressee, Dis!Notify
  <2>4. by' \in [Comment -> User \cup {None}] /\ parent' \in [Comment -> Comment \cup {None}]
    BY <1>7, <2>1 DEF Dis!ReplyCreate, Dis!Insert, Dis!TypeOK, Reply
  <2> HIDE DEF n
  <2> QED
    BY <1>7, <2>2, <2>3, <2>4, AnswerTyped DEF Dis!ReplyCreate, Dis!TypeOK, Dis!centre
<1>8. ASSUME NEW f \in Feedback, NEW u \in User \cup {None}, Dis!SubmitFeedback(f, u)
      PROVE Dis!TypeOK'
  BY <1>8, Unknown, Answering
     DEF Dis!SubmitFeedback, Dis!TypeOK, Dis!Doing, Dis!Note, Dis!Notice, Replies, Changes,
         Reply, Change, Dis!Posted, Dis!thread, Dis!centre, Dis!history
<1>9. ASSUME NEW h \in Request, NEW f \in Feedback, NEW s \in Status, NEW p \in Process,
             Dis!StatusRead(h, f, s, p)
      PROVE Dis!TypeOK'
  BY ZenonT(30), <1>9, Unknown, Answering
     DEF Dis!StatusRead, Dis!TypeOK, Dis!Doing, Dis!Note, Dis!Notice, Replies, Changes, Reply,
         Change, Dis!Posted, Dis!thread, Dis!centre, Dis!history
<1>10. ASSUME NEW h \in Request, Dis!StatusWrite(h) PROVE Dis!TypeOK'
  <2> DEFINE d == answering[h]
             n == [to |-> d.to, note |-> [about |-> d.feedback, what |-> d.status],
                   at |-> d.at, pc |-> "persist"]
  <2>1. d \in Change
    BY <1>10, Answering DEF Dis!StatusWrite, Changes
  <2>2. notices' = notices \/ (notices' = notices \cup {n} /\ d.to # None)
    BY <1>10 DEF Dis!StatusWrite, Dis!Announced, Dis!Notify
  <2>3. d.to # None => n \in Dis!Notice
    BY <2>1 DEF Change, Dis!Notice, Dis!Note
  <2>4. status' \in [Feedback -> Status \cup {None}]
    BY <1>10, <2>1 DEF Dis!StatusWrite, Dis!TypeOK, Change
  <2> HIDE DEF n
  <2> QED
    BY <1>10, <2>2, <2>3, <2>4, AnswerTyped DEF Dis!StatusWrite, Dis!TypeOK, Dis!thread, Dis!centre
<1>11. ASSUME NEW n \in notices, Dis!Persist(n) PROVE Dis!TypeOK'
  <2>1. n \in Dis!Notice
    BY DEF Dis!TypeOK
  <2>2. [n EXCEPT !.pc = "push"] \in Dis!Notice
    BY <2>1 DEF Dis!Notice
  <2>3. notices' \subseteq Dis!Notice
    BY <1>11, <2>2 DEF Dis!Persist, Dis!Advance, Dis!TypeOK
  <2>4. inbox' = [inbox EXCEPT ![n.to] = Append(@, n.note)]
    BY <1>11 DEF Dis!Persist
  <2>5. /\ unread' \in [User -> SUBSET Nat]
        /\ \A u \in User : unread'[u] \subseteq DOMAIN inbox'[u]
    BY <1>11, <2>1, <2>4, Arrived DEF Dis!Persist, Dis!TypeOK, Dis!Notice
  <2> QED
    BY <1>11, <2>1, <2>3, <2>4, <2>5, Arrived DEF Dis!Persist, Dis!TypeOK, Dis!thread
<1>12. ASSUME NEW n \in notices, Dis!PersistFails(n) PROVE Dis!TypeOK'
  BY <1>12, Unknown, Answering
     DEF Dis!PersistFails, Dis!Advance, Dis!TypeOK, Dis!Doing, Dis!Note, Dis!Notice, Replies,
         Changes, Reply, Change, Dis!Posted, Dis!thread, Dis!centre, Dis!history
<1>13. ASSUME NEW n \in notices, Dis!Push(n) PROVE Dis!TypeOK'
  BY <1>13, Unknown, Answering
     DEF Dis!Push, Dis!TypeOK, Dis!Doing, Dis!Note, Dis!Notice, Replies, Changes, Reply, Change,
         Dis!Posted, Dis!thread, Dis!centre, Dis!history
<1>14. ASSUME NEW u \in User, NEW i \in unread[u], Dis!MarkRead(u, i) PROVE Dis!TypeOK'
  BY <1>14, Unknown, Answering
     DEF Dis!MarkRead, Dis!TypeOK, Dis!Doing, Dis!Note, Dis!Notice, Replies, Changes, Reply,
         Change, Dis!Posted, Dis!thread, Dis!centre, Dis!history
<1>15. ASSUME NEW u \in User, Dis!MarkAllRead(u) PROVE Dis!TypeOK'
  BY <1>15, Unknown, Answering
     DEF Dis!MarkAllRead, Dis!TypeOK, Dis!Doing, Dis!Note, Dis!Notice, Replies, Changes, Reply,
         Change, Dis!Posted, Dis!thread, Dis!centre, Dis!history
<1>16. ASSUME NEW u \in User, Dis!DeleteUser(u) PROVE Dis!TypeOK'
  <2>1. /\ by' \in [Comment -> User \cup {None}] /\ parent' \in [Comment -> Comment \cup {None}]
        /\ flagged' \subseteq Comment /\ resolved' \subseteq Comment
        /\ owner' \in [Feedback -> User \cup {None}] /\ gone' \subseteq User
    BY <1>16 DEF Dis!DeleteUser, Dis!Erase, Dis!TypeOK
  <2>2. /\ inbox' \in [User -> Seq(Dis!Note)] /\ unread' \in [User -> SUBSET Nat]
        /\ \A v \in User : unread'[v] \subseteq DOMAIN inbox'[v]
    BY <1>16 DEF Dis!DeleteUser, Dis!TypeOK
  <2> QED
    BY <1>16, <2>1, <2>2 DEF Dis!DeleteUser, Dis!TypeOK
<1>17. ASSUME NEW p \in Process, Dis!Crash(p) PROVE Dis!TypeOK'
  BY <1>17, Unknown, Answering
     DEF Dis!Crash, Dis!TypeOK, Dis!Doing, Dis!Note, Dis!Notice, Replies, Changes, Reply,
         Change, Dis!Posted, Dis!thread, Dis!centre, Dis!history
<1> QED
  BY <1>1, <1>2, <1>3, <1>4, <1>5, <1>6, <1>7, <1>8, <1>9, <1>10, <1>11, <1>12, <1>13, <1>14,
     <1>15, <1>16, <1>17
     DEF Dis!Next

\* Every step keeps replies on roots.
LEMMA RootStep ==
  ASSUME Dis!TypeOK, Rooted, Dis!Next
  PROVE  Rooted'
<1>1. ASSUME NEW c \in Comment, NEW u \in User, Dis!SaveComment(c, u) PROVE Rooted'
  BY <1>1, Unknown, Answering
     DEF Dis!SaveComment, Dis!Insert, Rooted, Dis!EveryCommentIsShown, Dis!TypeOK, Replies,
         Reply, Dis!Posted, Dis!thread, Dis!centre, Dis!history
<1>2. ASSUME NEW c \in Comment, NEW on \in BOOLEAN, Dis!SetFlagged(c, on) PROVE Rooted'
  BY <1>2, Unknown, Answering
     DEF Dis!SetFlagged, Dis!Moderate, Rooted, Dis!EveryCommentIsShown, Dis!TypeOK, Replies,
         Reply, Dis!Posted, Dis!thread, Dis!centre, Dis!history
<1>3. ASSUME NEW c \in Comment, NEW on \in BOOLEAN, Dis!SetResolved(c, on) PROVE Rooted'
  BY <1>3, Unknown, Answering
     DEF Dis!SetResolved, Dis!Moderate, Rooted, Dis!EveryCommentIsShown, Dis!TypeOK, Replies,
         Reply, Dis!Posted, Dis!thread, Dis!centre, Dis!history
<1>4. ASSUME NEW c \in Comment, Dis!ReviewReport(c) PROVE Rooted'
  BY <1>4, Unknown, Answering
     DEF Dis!ReviewReport, Dis!Moderate, Rooted, Dis!EveryCommentIsShown, Dis!TypeOK, Replies,
         Reply, Dis!Posted, Dis!thread, Dis!centre, Dis!history
<1>5. ASSUME NEW c \in Comment, Dis!DeleteComment(c) PROVE Rooted'
  BY <1>5, Unknown, Answering
     DEF Dis!DeleteComment, Dis!Erase, Dis!Thread, Rooted, Dis!EveryCommentIsShown, Dis!TypeOK,
         Replies, Reply, Dis!Posted, Dis!thread, Dis!centre, Dis!history
<1>6. ASSUME NEW h \in Request, NEW u \in User, NEW c \in Comment, NEW p \in Process,
             Dis!ReplyRead(h, u, c, p)
      PROVE Rooted'
  BY <1>6, Unknown, Answering
     DEF Dis!ReplyRead, Dis!RootOf, Rooted, Dis!EveryCommentIsShown, Dis!TypeOK, Replies, Reply,
         Dis!Posted, Dis!thread, Dis!centre, Dis!history
<1>7. ASSUME NEW h \in Request, NEW c \in Comment, Dis!ReplyCreate(h, c) PROVE Rooted'
  <2> DEFINE d == answering[h]
  <2>1. Replies(h) /\ d \in Reply /\ answering' = [answering EXCEPT ![h] = None] /\ c \notin posted
    BY <1>7, Answering DEF Dis!ReplyCreate, Replies
  <2>2. CASE Dis!Posted(d.root) /\ d.by \notin gone
    <3>1. /\ by' = [by EXCEPT ![c] = d.by] /\ parent' = [parent EXCEPT ![c] = d.root]
          /\ posted' = posted \cup {c}
      BY <1>7, <2>2 DEF Dis!ReplyCreate, Dis!Insert
    <3>2. d.root \in Comment /\ d.by \in User /\ d.root # c /\ parent[d.root] = None
      BY <2>1 DEF Reply, Rooted
    <3>3. Dis!EveryCommentIsShown'
      BY <2>2, <3>1, <3>2, Unknown, <2>1 DEF Rooted, Dis!EveryCommentIsShown, Dis!Posted, Dis!TypeOK
    <3>4. \A b \in Comment : IF Dis!Posted(b)' THEN b \in posted' ELSE parent'[b] = None
      BY <3>1, <3>2, Unknown DEF Rooted, Dis!Posted, Dis!TypeOK
    <3>5. \A g \in Request : Replies(g)' => answering'[g].root \in posted'
            /\ parent'[answering'[g].root] = None
      BY <2>1, <3>1, Answering DEF Rooted, Replies, Dis!TypeOK, Reply
    <3> QED
      BY <3>3, <3>4, <3>5 DEF Rooted
  <2>3. CASE ~(Dis!Posted(d.root) /\ d.by \notin gone)
    <3>1. UNCHANGED <<by, parent, posted>>
      BY <1>7, <2>3 DEF Dis!ReplyCreate
    <3> QED
      BY <2>1, <3>1 DEF Rooted, Dis!EveryCommentIsShown, Dis!Posted, Replies, Dis!TypeOK
  <2> QED
    BY <2>2, <2>3
<1>8. ASSUME NEW f \in Feedback, NEW u \in User \cup {None}, Dis!SubmitFeedback(f, u) PROVE Rooted'
  BY <1>8, Unknown, Answering
     DEF Dis!SubmitFeedback, Rooted, Dis!EveryCommentIsShown, Dis!TypeOK, Replies, Reply,
         Dis!Posted, Dis!thread, Dis!centre, Dis!history
<1>9. ASSUME NEW h \in Request, NEW f \in Feedback, NEW s \in Status, NEW p \in Process,
             Dis!StatusRead(h, f, s, p)
      PROVE Rooted'
  BY <1>9, Unknown, Answering
     DEF Dis!StatusRead, Rooted, Dis!EveryCommentIsShown, Dis!TypeOK, Replies, Reply,
         Dis!Posted, Dis!thread, Dis!centre, Dis!history
<1>10. ASSUME NEW h \in Request, Dis!StatusWrite(h) PROVE Rooted'
  BY <1>10, Unknown, Answering
     DEF Dis!StatusWrite, Dis!Announced, Dis!Notify, Rooted, Dis!EveryCommentIsShown,
         Dis!TypeOK, Replies, Reply, Dis!Posted, Dis!thread, Dis!centre, Dis!history
<1>11. ASSUME NEW n \in notices, Dis!Persist(n) PROVE Rooted'
  BY <1>11, Unknown, Answering
     DEF Dis!Persist, Dis!Advance, Rooted, Dis!EveryCommentIsShown, Dis!TypeOK, Replies, Reply,
         Dis!Posted, Dis!thread, Dis!centre, Dis!history
<1>12. ASSUME NEW n \in notices, Dis!PersistFails(n) PROVE Rooted'
  BY <1>12, Unknown, Answering
     DEF Dis!PersistFails, Dis!Advance, Rooted, Dis!EveryCommentIsShown, Dis!TypeOK, Replies,
         Reply, Dis!Posted, Dis!thread, Dis!centre, Dis!history
<1>13. ASSUME NEW n \in notices, Dis!Push(n) PROVE Rooted'
  BY <1>13, Unknown, Answering
     DEF Dis!Push, Rooted, Dis!EveryCommentIsShown, Dis!TypeOK, Replies, Reply, Dis!Posted,
         Dis!thread, Dis!centre, Dis!history
<1>14. ASSUME NEW u \in User, NEW i \in unread[u], Dis!MarkRead(u, i) PROVE Rooted'
  BY <1>14, Unknown, Answering
     DEF Dis!MarkRead, Rooted, Dis!EveryCommentIsShown, Dis!TypeOK, Replies, Reply, Dis!Posted,
         Dis!thread, Dis!centre, Dis!history
<1>15. ASSUME NEW u \in User, Dis!MarkAllRead(u) PROVE Rooted'
  BY <1>15, Unknown, Answering
     DEF Dis!MarkAllRead, Rooted, Dis!EveryCommentIsShown, Dis!TypeOK, Replies, Reply,
         Dis!Posted, Dis!thread, Dis!centre, Dis!history
<1>16. ASSUME NEW u \in User, Dis!DeleteUser(u) PROVE Rooted'
  BY <1>16, Unknown, Answering
     DEF Dis!DeleteUser, Dis!Erase, Dis!Thread, Rooted, Dis!EveryCommentIsShown, Dis!TypeOK,
         Replies, Reply, Dis!Posted, Dis!thread, Dis!centre, Dis!history
<1>17. ASSUME NEW p \in Process, Dis!Crash(p) PROVE Rooted'
  BY <1>17, Unknown, Answering
     DEF Dis!Crash, Rooted, Dis!EveryCommentIsShown, Dis!TypeOK, Replies, Reply, Dis!Posted,
         Dis!thread, Dis!centre, Dis!history
<1> QED
  BY <1>1, <1>2, <1>3, <1>4, <1>5, <1>6, <1>7, <1>8, <1>9, <1>10, <1>11, <1>12, <1>13, <1>14,
     <1>15, <1>16, <1>17
     DEF Dis!Next


-----------------------------------------------------------------------------
(* Discussions: notices *)

\* The steps that touch no notice, no row of one and no feedback
Aside ==
  \/ \E c \in Comment, u \in User : Dis!SaveComment(c, u)
  \/ \E c \in Comment, on \in BOOLEAN : Dis!SetFlagged(c, on) \/ Dis!SetResolved(c, on)
  \/ \E c \in Comment : Dis!ReviewReport(c) \/ Dis!DeleteComment(c)
  \/ \E h \in Request, u \in User, c \in Comment, p \in Process : Dis!ReplyRead(h, u, c, p)
  \/ \E u \in User : Dis!MarkAllRead(u) \/ \E i \in unread[u] : Dis!MarkRead(u, i)

\* A step aside keeps the threads, the inboxes and the feedbacks as they are.
LEMMA AsideFrame ==
  ASSUME Dis!TypeOK, Aside
  PROVE  /\ UNCHANGED <<inbox, status, owner, notices, lost, raced, gone, owed>>
         /\ \A h \in Request : \A f : Changing(h, f)'
              => Changing(h, f) /\ answering'[h] = answering[h]
<1>1. UNCHANGED <<inbox, status, owner, notices, lost, raced, gone, owed>>
  BY DEF Aside, Dis!SaveComment, Dis!SetFlagged, Dis!SetResolved, Dis!ReviewReport, Dis!Moderate,
         Dis!DeleteComment, Dis!ReplyRead, Dis!MarkAllRead, Dis!MarkRead, Dis!centre, Dis!history
<1>2. CASE \E h \in Request, u \in User, c \in Comment, p \in Process : Dis!ReplyRead(h, u, c, p)
  BY <1>1, <1>2 DEF Dis!ReplyRead, Changing, Changes, Dis!TypeOK
<1>3. CASE UNCHANGED answering
  BY <1>1, <1>3 DEF Changing, Changes
<1> QED
  BY <1>1, <1>2, <1>3
     DEF Aside, Dis!SaveComment, Dis!SetFlagged, Dis!SetResolved, Dis!ReviewReport, Dis!Moderate,
         Dis!DeleteComment, Dis!MarkAllRead, Dis!MarkRead

\* A notice whose row was tried goes on with the same text.
LEMMA Tried ==
  ASSUME Dis!TypeOK, NEW n \in notices, Dis!Advance(n)
  PROVE  \E m \in Dis!Notice :
           /\ m.to = n.to /\ m.note = n.note /\ m.at = n.at /\ m.pc = "push" /\ n \in Dis!Notice
           /\ notices' = (notices \ {n}) \cup {m}
<1>1. n \in Dis!Notice
  BY DEF Dis!TypeOK
<1> DEFINE m == [n EXCEPT !.pc = "push"]
<1>2. m \in Dis!Notice /\ m.to = n.to /\ m.note = n.note /\ m.at = n.at /\ m.pc = "push"
  BY <1>1 DEF Dis!Notice
<1> QED
  BY <1>1, <1>2 DEF Dis!Advance

\* A reply that is created, and its notice
LEMMA Replied ==
  ASSUME Dis!TypeOK, NEW h \in Request, NEW c \in Comment, Dis!ReplyCreate(h, c)
  PROVE  /\ ~Changes(h) /\ answering' = [answering EXCEPT ![h] = None]
         /\ UNCHANGED <<inbox, status, owner, lost, raced, gone>>
         /\ \/ UNCHANGED <<notices, owed>>
            \/ \E n \in Dis!Notice :
                 /\ n.note = [about |-> c, what |-> "reply"] /\ n.pc = "persist"
                 /\ notices' = notices \cup {n} /\ owed' = owed \cup {<<c, n.to>>}
<1> DEFINE d == answering[h]
           n == [to |-> d.author, note |-> [about |-> c, what |-> "reply"], at |-> d.at,
                 pc |-> "persist"]
<1>1. d \in Reply /\ ~Changes(h)
  BY Answering DEF Dis!ReplyCreate, Replies, Changes, Reply
<1>2. n \in Dis!Notice /\ n.to = d.author
  BY <1>1 DEF Reply, Dis!Notice, Dis!Note
<1>3. \/ UNCHANGED <<notices, owed>>
      \/ notices' = notices \cup {n} /\ owed' = owed \cup {<<c, d.author>>}
  BY DEF Dis!ReplyCreate, Dis!Addressee, Dis!Notify
<1>4. answering' = [answering EXCEPT ![h] = None]
        /\ UNCHANGED <<inbox, status, owner, lost, raced, gone>>
  BY DEF Dis!ReplyCreate, Dis!centre
<1> HIDE DEF d
<1> QED
  BY <1>1, <1>2, <1>3, <1>4

\* A status that is written, and its notice
LEMMA Changed ==
  ASSUME Dis!TypeOK, NEW h \in Request, Dis!StatusWrite(h)
  PROVE  LET d == answering[h] IN
         /\ Changing(h, d.feedback) /\ d \in Change /\ answering' = [answering EXCEPT ![h] = None]
         /\ status' = [status EXCEPT ![d.feedback] = d.status]
         /\ UNCHANGED <<inbox, owner, lost, raced, gone, owed>>
         /\ \/ d.to = None /\ UNCHANGED notices
            \/ \E n \in Dis!Notice :
                 /\ n.note = [about |-> d.feedback, what |-> d.status] /\ n.pc = "persist"
                 /\ n.to = d.to /\ notices' = notices \cup {n}
<1> DEFINE d == answering[h]
           n == [to |-> d.to, note |-> [about |-> d.feedback, what |-> d.status],
                 at |-> d.at, pc |-> "persist"]
<1>1. Changing(h, d.feedback) /\ d \in Change
  BY Answering DEF Dis!StatusWrite, Changes, Changing
<1>2. d.to # None => n \in Dis!Notice
  BY <1>1 DEF Change, Dis!Notice, Dis!Note
<1>3. (d.to = None /\ UNCHANGED notices) \/ (d.to # None /\ notices' = notices \cup {n})
  BY DEF Dis!StatusWrite, Dis!Announced, Dis!Notify
<1>4. /\ answering' = [answering EXCEPT ![h] = None]
      /\ status' = [status EXCEPT ![d.feedback] = d.status]
      /\ UNCHANGED <<inbox, owner, lost, raced, gone, owed>>
  BY DEF Dis!StatusWrite, Dis!centre, Dis!history
<1> QED
  BY <1>1, <1>2, <1>3, <1>4

\* A status that is read, and whether it races
LEMMA Begun ==
  ASSUME Dis!TypeOK, NEW h \in Request, NEW f \in Feedback, NEW s \in Status, NEW p \in Process,
         Dis!StatusRead(h, f, s, p)
  PROVE  /\ UNCHANGED <<inbox, status, owner, notices, lost, gone, owed>> /\ raced \subseteq raced'
         /\ Changing(h, f)' /\ answering'[h].to = owner[f] /\ status[f] # None
         /\ \A e : e # f => ~Changing(h, e)'
         /\ \A g \in Request \ {h} : answering'[g] = answering[g]
               /\ \A e : Changing(g, e)' = Changing(g, e)
         /\ f \notin raced' => /\ \A n \in notices : n.note.about # f
                               /\ \A g \in Request : ~Changing(g, f)
<1> DEFINE d == [feedback |-> f, from |-> status[f], status |-> s, to |-> owner[f], at |-> p]
<1>1. d \in Dis!Doing /\ answering' = [answering EXCEPT ![h] = d]
  BY DEF Dis!StatusRead, Dis!TypeOK, Dis!Doing
<1>2. d # None
  BY <1>1, Unknown
<1>3. answering'[h] = d /\ \A g \in Request \ {h} : answering'[g] = answering[g]
  BY <1>1 DEF Dis!TypeOK
<1>4. Changing(h, f)' /\ (\A e : e # f => ~Changing(h, e)') /\ answering'[h].to = owner[f]
  BY <1>2, <1>3 DEF Changing, Changes
<1>5. \A g \in Request \ {h} : \A e : Changing(g, e)' = Changing(g, e)
  BY <1>3 DEF Changing, Changes
<1>6. f \notin raced' => /\ \A n \in notices : n.note.about # f
                         /\ \A g \in Request : ~Changing(g, f)
  BY DEF Dis!StatusRead, Changing, Changes
<1> QED
  BY <1>3, <1>4, <1>5, <1>6 DEF Dis!StatusRead, Dis!centre

\* A reply brings no notice of a feedback.
LEMMA NoticeOfReply ==
  ASSUME Dis!TypeOK, NEW h \in Request, NEW c \in Comment, Dis!ReplyCreate(h, c)
  PROVE  /\ \A n \in notices' : n.note.about \in Feedback => n \in notices
         /\ notices \subseteq notices'
<1>1. CASE UNCHANGED notices
  BY <1>1
<1>2. ASSUME NEW n \in Dis!Notice, n.note = [about |-> c, what |-> "reply"],
             notices' = notices \cup {n}
      PROVE  /\ \A m \in notices' : m.note.about \in Feedback => m \in notices
             /\ notices \subseteq notices'
  <2>1. n.note.about \notin Feedback
    BY <1>2, Unknown
  <2> QED
    BY <1>2, <2>1
<1> QED
  BY <1>1, <1>2, Replied

\* A change brings one notice at most, of its feedback, to the owner as he was read.
LEMMA NoticeOfChange ==
  ASSUME Dis!TypeOK, NEW h \in Request, Dis!StatusWrite(h)
  PROVE  /\ notices \subseteq notices'
         /\ \A n \in notices' : n \in notices \/ /\ n.note.about = answering[h].feedback
                                                 /\ n.note.what = answering[h].status
                                                 /\ n.to = answering[h].to
         /\ \/ answering[h].to = None
            \/ \E n \in notices' : n.note.about = answering[h].feedback /\ n.pc = "persist"
<1> DEFINE d == answering[h]
           Goal == /\ notices \subseteq notices'
                   /\ \A n \in notices' : n \in notices \/ /\ n.note.about = d.feedback
                                                           /\ n.note.what = d.status
                                                           /\ n.to = d.to
                   /\ \/ d.to = None
                      \/ \E n \in notices' : n.note.about = d.feedback /\ n.pc = "persist"
<1>1. CASE d.to = None /\ UNCHANGED notices
  BY <1>1
<1>2. ASSUME NEW n \in Dis!Notice, n.note = [about |-> d.feedback, what |-> d.status],
             n.pc = "persist", n.to = d.to, notices' = notices \cup {n}
      PROVE  Goal
  <2> HIDE DEF d
  <2>1. n.note.about = d.feedback /\ n.note.what = d.status
    BY <1>2
  <2> QED
    BY <1>2, <2>1
<1> QED
  BY <1>1, <1>2, Changed

\* Every step keeps an answered author his notice.
LEMMA ToldStep ==
  ASSUME Dis!TypeOK, Told, Dis!Next
  PROVE  Told'
<1>1. ASSUME Aside PROVE Told'
  BY <1>1, AsideFrame DEF Told, Dis!AuthorIsTold, Dis!InCentre, Dis!UnderWay, Dis!TypeOK
<1>2. ASSUME NEW h \in Request, NEW c \in Comment, Dis!ReplyCreate(h, c) PROVE Told'
  <2>1. CASE UNCHANGED <<notices, owed>>
    <3>1. UNCHANGED <<inbox, lost, gone>>
      BY <1>2, Replied
    <3> QED
      BY <2>1, <3>1 DEF Told, Dis!AuthorIsTold, Dis!InCentre, Dis!UnderWay
  <2>2. ASSUME NEW n \in Dis!Notice, n.note = [about |-> c, what |-> "reply"], n.pc = "persist",
               notices' = notices \cup {n}, owed' = owed \cup {<<c, n.to>>}
        PROVE  Told'
    <3>1. UNCHANGED <<inbox, lost, gone>>
      BY <1>2, Replied
    <3>2. n.to \in User /\ n.note.about = c /\ n.note.what = "reply"
      BY <2>2 DEF Dis!Notice
    <3> QED
      BY <2>2, <3>1, <3>2 DEF Told, Dis!AuthorIsTold, Dis!InCentre, Dis!UnderWay
  <2> QED
    BY <1>2, <2>1, <2>2, Replied
<1>3. ASSUME NEW f \in Feedback, NEW u \in User \cup {None}, Dis!SubmitFeedback(f, u) PROVE Told'
  BY <1>3 DEF Told, Dis!AuthorIsTold, Dis!InCentre, Dis!UnderWay, Dis!TypeOK, Dis!SubmitFeedback,
     Dis!centre, Dis!history
<1>4. ASSUME NEW h \in Request, NEW f \in Feedback, NEW s \in Status, NEW p \in Process,
             Dis!StatusRead(h, f, s, p)
      PROVE Told'
  <2>1. UNCHANGED <<inbox, notices, lost, gone, owed>>
    BY <1>4, Begun
  <2> QED
    BY <2>1 DEF Told, Dis!AuthorIsTold, Dis!InCentre, Dis!UnderWay
<1>5. ASSUME NEW h \in Request, Dis!StatusWrite(h) PROVE Told'
  <2> DEFINE d == answering[h]
  <2>1. UNCHANGED <<inbox, lost, gone, owed>> /\ d.feedback \in Feedback
    BY <1>5, Changed DEF Change
  <2>2. CASE UNCHANGED notices
    BY <2>1, <2>2 DEF Told, Dis!AuthorIsTold, Dis!InCentre, Dis!UnderWay
  <2>3. ASSUME NEW n \in Dis!Notice, n.note = [about |-> d.feedback, what |-> d.status],
               n.pc = "persist", notices' = notices \cup {n}
        PROVE  Told'
    <3>1. n.note.about \notin Comment
      BY <2>1, <2>3, Unknown
    <3> QED
      BY <2>1, <2>3, <3>1 DEF Told, Dis!AuthorIsTold, Dis!InCentre, Dis!UnderWay
  <2> QED
    BY <1>5, <2>2, <2>3, Changed
<1>6. ASSUME NEW n \in notices, Dis!Persist(n) PROVE Told'
  <2>1. PICK m \in Dis!Notice : /\ m.to = n.to /\ m.note = n.note /\ m.pc = "push"
                                /\ n \in Dis!Notice
                                /\ notices' = (notices \ {n}) \cup {m}
    BY <1>6, Tried DEF Dis!Persist
  <2>2. inbox' = [inbox EXCEPT ![n.to] = Append(@, n.note)] /\ UNCHANGED <<gone, lost, owed>>
    BY <1>6 DEF Dis!Persist, Dis!history
  <2>3. \A u \in User : \A x : Dis!InCentre(u, x) => Dis!InCentre(u, x)'
    BY <2>1, <2>2, Arrived DEF Dis!InCentre
  <2>4. Dis!InCentre(m.to, m.note)'
    <3>1. /\ DOMAIN inbox'[n.to] = 1..(Len(inbox[n.to]) + 1) /\ Len(inbox[n.to]) \in Nat
          /\ inbox'[n.to][Len(inbox[n.to]) + 1] = n.note
      BY <2>1, <2>2, Arrived
    <3>2. Len(inbox[n.to]) + 1 \in DOMAIN inbox'[n.to]
      BY <3>1
    <3> QED
      BY <2>1, <3>1, <3>2 DEF Dis!InCentre
  <2>5. \A k \in notices : k.to \in User
    BY DEF Dis!TypeOK, Dis!Notice
  <2>6. \A u, x : Dis!UnderWay(u, x) => Dis!UnderWay(u, x)'
    BY <2>1 DEF Dis!UnderWay
  <2> QED
    BY <2>1, <2>2, <2>3, <2>4, <2>5, <2>6 DEF Told, Dis!AuthorIsTold
<1>7. ASSUME NEW n \in notices, Dis!PersistFails(n) PROVE Told'
  <2>1. PICK m \in Dis!Notice : /\ m.to = n.to /\ m.note = n.note /\ m.pc = "push"
                                /\ notices' = (notices \ {n}) \cup {m}
    BY <1>7, Tried DEF Dis!PersistFails
  <2>2. lost' = lost \cup {m.note.about} /\ UNCHANGED <<inbox, gone, owed>>
    BY <1>7, <2>1 DEF Dis!PersistFails, Dis!centre
  <2>3. \A u, x : Dis!UnderWay(u, x) => Dis!UnderWay(u, x)'
    BY <2>1 DEF Dis!UnderWay
  <2> QED
    BY <2>1, <2>2, <2>3 DEF Told, Dis!AuthorIsTold, Dis!InCentre
<1>8. ASSUME NEW n \in notices, Dis!Push(n) PROVE Told'
  <2>1. n \in Dis!Notice /\ n.pc = "push" /\ notices' = notices \ {n}
          /\ UNCHANGED <<inbox, gone, lost, owed>>
    BY <1>8 DEF Dis!Push, Dis!TypeOK, Dis!centre, Dis!history
  <2>2. ASSUME NEW o \in owed, n.to = o[2], n.note.about = o[1], o[2] \notin gone, o[1] \notin lost
        PROVE  Dis!InCentre(o[2], [about |-> o[1], what |-> "reply"])
    <3>1. Dis!InCentre(n.to, n.note) /\ n.note.what = "reply" /\ n.note \in Dis!Note
      BY <2>1, <2>2 DEF Told, Dis!Notice
    <3>2. n.note = [about |-> o[1], what |-> "reply"]
      BY <2>2, <3>1 DEF Dis!Note
    <3> QED
      BY <2>2, <3>1, <3>2
  <2> QED
    BY <2>1, <2>2 DEF Told, Dis!AuthorIsTold, Dis!InCentre, Dis!UnderWay
<1>9. ASSUME NEW u \in User, Dis!DeleteUser(u) PROVE Told'
  <2>1. /\ gone' = gone \cup {u} /\ \A v \in User \ {u} : inbox'[v] = inbox[v]
        /\ UNCHANGED <<notices, lost, owed>>
    BY <1>9 DEF Dis!DeleteUser, Dis!TypeOK, Dis!history
  <2>2. \A k \in notices : k.to \in User
    BY DEF Dis!TypeOK, Dis!Notice
  <2> QED
    BY <2>1, <2>2 DEF Told, Dis!AuthorIsTold, Dis!InCentre, Dis!UnderWay
<1>10. ASSUME NEW p \in Process, Dis!Crash(p) PROVE Told'
  <2>1. /\ notices' \subseteq notices /\ lost \subseteq lost' /\ UNCHANGED <<inbox, gone, owed>>
        /\ \A k \in notices \ notices' : k.note.about \in lost'
    BY <1>10 DEF Dis!Crash, Dis!centre
  <2> QED
    BY <2>1 DEF Told, Dis!AuthorIsTold, Dis!InCentre, Dis!UnderWay
<1> QED
  BY <1>1, <1>2, <1>3, <1>4, <1>5, <1>6, <1>7, <1>8, <1>9, <1>10
     DEF Dis!Next, Aside

\* Every step keeps to one change, or marks a race.
LEMMA OneChangeStep ==
  ASSUME Dis!TypeOK, OneChange, Dis!Next
  PROVE  OneChange'
<1>1. ASSUME Aside PROVE OneChange'
  <2>1. /\ UNCHANGED <<notices, raced>>
        /\ \A h \in Request : \A f : Changing(h, f)' => Changing(h, f)
    BY <1>1, AsideFrame
  <2> QED
    BY <2>1 DEF OneChange
<1>2. ASSUME NEW h \in Request, NEW c \in Comment, Dis!ReplyCreate(h, c) PROVE OneChange'
  <2>1. UNCHANGED raced /\ \A g \in Request : \A f : Changing(g, f)' => Changing(g, f)
    BY <1>2, Replied DEF Changing, Changes, Dis!TypeOK
  <2>2. \A n \in notices' : n.note.about \in Feedback => n \in notices
    BY <1>2, NoticeOfReply
  <2> QED
    BY <2>1, <2>2 DEF OneChange
<1>3. ASSUME NEW f \in Feedback, NEW u \in User \cup {None}, Dis!SubmitFeedback(f, u)
      PROVE OneChange'
  BY <1>3 DEF OneChange, Changing, Changes, Dis!SubmitFeedback, Dis!history
<1>4. ASSUME NEW h \in Request, NEW f \in Feedback, NEW s \in Status, NEW p \in Process,
             Dis!StatusRead(h, f, s, p)
      PROVE OneChange'
  <2>1. UNCHANGED notices /\ raced \subseteq raced' /\ \A e : e # f => ~Changing(h, e)'
    BY <1>4, Begun
  <2>2. \A g \in Request \ {h} : \A e : Changing(g, e)' = Changing(g, e)
    BY <1>4, Begun
  <2>3. f \notin raced' => (\A n \in notices : n.note.about # f)
          /\ \A g \in Request : ~Changing(g, f)
    BY <1>4, Begun
  <2> QED
    BY <2>1, <2>2, <2>3 DEF OneChange
<1>5. ASSUME NEW h \in Request, Dis!StatusWrite(h) PROVE OneChange'
  <2> DEFINE d == answering[h]
  <2>1. /\ Changing(h, d.feedback) /\ d.feedback \in Feedback /\ UNCHANGED raced
        /\ answering' = [answering EXCEPT ![h] = None]
    BY <1>5, Changed DEF Change
  <2>2. \A g \in Request : \A f : Changing(g, f)' => g # h /\ Changing(g, f)
    BY <2>1 DEF Changing, Changes, Dis!TypeOK
  <2>3. CASE UNCHANGED notices
    BY <2>1, <2>2, <2>3 DEF OneChange
  <2>4. ASSUME NEW n \in Dis!Notice, n.note = [about |-> d.feedback, what |-> d.status],
               notices' = notices \cup {n}
        PROVE  OneChange'
    <3>0. n.note.about = d.feedback
      BY <2>4
    <3>1. \A f \in Feedback : Changing(h, f) => f = d.feedback
      BY DEF Changing
    <3> HIDE DEF d
    <3> QED
      BY <2>1, <2>2, <2>4, <3>0, <3>1 DEF OneChange
  <2> QED
    BY <1>5, <2>3, <2>4, Changed
<1>6. ASSUME NEW n \in notices, Dis!Persist(n) PROVE OneChange'
  <2>1. PICK m \in Dis!Notice : m.note = n.note /\ notices' = (notices \ {n}) \cup {m}
    BY <1>6, Tried DEF Dis!Persist
  <2>2. UNCHANGED <<answering, raced>>
    BY <1>6 DEF Dis!Persist, Dis!history
  <2> QED
    BY <2>1, <2>2 DEF OneChange, Changing, Changes
<1>7. ASSUME NEW n \in notices, Dis!PersistFails(n) PROVE OneChange'
  <2>1. PICK m \in Dis!Notice : m.note = n.note /\ notices' = (notices \ {n}) \cup {m}
    BY <1>7, Tried DEF Dis!PersistFails
  <2>2. UNCHANGED <<answering, raced>>
    BY <1>7 DEF Dis!PersistFails
  <2> QED
    BY <2>1, <2>2 DEF OneChange, Changing, Changes
<1>8. ASSUME NEW n \in notices, Dis!Push(n) PROVE OneChange'
  BY <1>8 DEF OneChange, Changing, Changes, Dis!Push, Dis!history
<1>9. ASSUME NEW u \in User, Dis!DeleteUser(u) PROVE OneChange'
  BY <1>9 DEF OneChange, Changing, Changes, Dis!DeleteUser, Dis!history
<1>10. ASSUME NEW p \in Process, Dis!Crash(p) PROVE OneChange'
  <2>1. notices' \subseteq notices /\ UNCHANGED raced
    BY <1>10 DEF Dis!Crash
  <2>2. \A g \in Request : \A f : Changing(g, f)' => Changing(g, f)
    BY <1>10 DEF Dis!Crash, Changing, Changes
  <2> QED
    BY <2>1, <2>2 DEF OneChange
<1> QED
  BY <1>1, <1>2, <1>3, <1>4, <1>5, <1>6, <1>7, <1>8, <1>9, <1>10
     DEF Dis!Next, Aside

\* Every step keeps notices to the owner.
LEMMA TowardStep ==
  ASSUME Dis!TypeOK, Toward, Dis!Next
  PROVE  Toward'
<1>1. ASSUME Aside PROVE Toward'
  <2>1. /\ UNCHANGED <<inbox, status, owner, notices>>
        /\ \A h \in Request : \A f : Changing(h, f)'
             => Changing(h, f) /\ answering'[h] = answering[h]
    BY <1>1, AsideFrame
  <2> QED
    BY <2>1 DEF Toward
<1>2. ASSUME NEW h \in Request, NEW c \in Comment, Dis!ReplyCreate(h, c) PROVE Toward'
  <2>1. /\ UNCHANGED <<inbox, status, owner>> /\ ~Changes(h)
        /\ answering' = [answering EXCEPT ![h] = None]
    BY <1>2, Replied
  <2>2. \A g \in Request : \A f : Changing(g, f)' => Changing(g, f) /\ answering'[g] = answering[g]
    BY <2>1 DEF Changing, Changes, Dis!TypeOK
  <2>3. \A n \in notices' : n.note.about \in Feedback => n \in notices
    BY <1>2, NoticeOfReply
  <2> QED
    BY <2>1, <2>2, <2>3 DEF Toward
<1>3. ASSUME NEW f \in Feedback, NEW u \in User \cup {None}, Dis!SubmitFeedback(f, u) PROVE Toward'
  <2>1. /\ UNCHANGED <<inbox, notices, answering>> /\ status[f] = None
        /\ \A e \in Feedback \ {f} : status'[e] = status[e] /\ owner'[e] = owner[e]
    BY <1>3 DEF Dis!SubmitFeedback, Dis!TypeOK, Dis!centre
  <2> QED
    BY <2>1 DEF Toward, Changing, Changes
<1>4. ASSUME NEW h \in Request, NEW f \in Feedback, NEW s \in Status, NEW p \in Process,
             Dis!StatusRead(h, f, s, p)
      PROVE Toward'
  <2>1. UNCHANGED <<inbox, status, owner, notices>> /\ answering'[h].to = owner[f]
          /\ status[f] # None
    BY <1>4, Begun
  <2>2. \A e : e # f => ~Changing(h, e)'
    BY <1>4, Begun
  <2>3. \A g \in Request \ {h} : answering'[g] = answering[g]
          /\ \A e : Changing(g, e)' = Changing(g, e)
    BY <1>4, Begun
  <2> QED
    BY <2>1, <2>2, <2>3 DEF Toward
<1>5. ASSUME NEW h \in Request, Dis!StatusWrite(h) PROVE Toward'
  <2> DEFINE d == answering[h]
  <2>1. /\ Changing(h, d.feedback) /\ d \in Change /\ UNCHANGED <<inbox, owner>>
        /\ answering' = [answering EXCEPT ![h] = None]
        /\ status' = [status EXCEPT ![d.feedback] = d.status]
    BY <1>5, Changed
  <2>2. \A e \in Feedback : status[e] # None => status'[e] # None
    BY <2>1, Unknown DEF Change, Dis!TypeOK
  <2>3. owner[d.feedback] \in {None, d.to} /\ status'[d.feedback] # None
    BY <2>1, <2>2 DEF Toward, Change
  <2>4. \A g \in Request : \A f : Changing(g, f)' => Changing(g, f) /\ answering'[g] = answering[g]
    BY <2>1 DEF Changing, Changes, Dis!TypeOK
  <2>5. \A n \in notices' : n \in notices \/ (n.note.about = d.feedback /\ n.to = d.to)
    BY <1>5, NoticeOfChange
  <2> HIDE DEF d
  <2> QED
    BY <2>1, <2>2, <2>3, <2>4, <2>5 DEF Toward
<1>6. ASSUME NEW n \in notices, Dis!Persist(n) PROVE Toward'
  <2>1. PICK m \in Dis!Notice : /\ m.note = n.note /\ m.to = n.to /\ n \in Dis!Notice
                                /\ notices' = (notices \ {n}) \cup {m}
    BY <1>6, Tried DEF Dis!Persist
  <2>2. UNCHANGED <<answering, status, owner>>
          /\ inbox' = [inbox EXCEPT ![n.to] = Append(@, n.note)]
    BY <1>6 DEF Dis!Persist
  <2>3. ASSUME NEW f \in Feedback, NEW u \in User, NEW i \in DOMAIN inbox'[u],
               inbox'[u][i].about = f
        PROVE  status[f] # None
    <3>1. CASE u = n.to /\ i = Len(inbox[n.to]) + 1
      BY <2>1, <2>2, <2>3, <3>1, Arrived DEF Toward
    <3>2. CASE ~(u = n.to /\ i = Len(inbox[n.to]) + 1)
      <4>1. i \in DOMAIN inbox[u] /\ inbox'[u][i] = inbox[u][i]
        BY <2>1, <2>2, <2>3, <3>2, Arrived
      <4> QED
        BY <2>3, <4>1 DEF Toward
    <3> QED
      BY <3>1, <3>2
  <2>4. \A f \in Feedback : \A k \in notices' : k.note.about = f
          => owner[f] \in {None, k.to} /\ status[f] # None
    BY <2>1 DEF Toward
  <2> QED
    BY <2>2, <2>3, <2>4 DEF Toward, Changing, Changes
<1>7. ASSUME NEW n \in notices, Dis!PersistFails(n) PROVE Toward'
  <2>1. PICK m \in Dis!Notice : m.note = n.note /\ m.to = n.to
          /\ notices' = (notices \ {n}) \cup {m}
    BY <1>7, Tried DEF Dis!PersistFails
  <2>2. UNCHANGED <<answering, status, owner, inbox>>
    BY <1>7 DEF Dis!PersistFails, Dis!centre
  <2> QED
    BY <2>1, <2>2 DEF Toward, Changing, Changes
<1>8. ASSUME NEW n \in notices, Dis!Push(n) PROVE Toward'
  BY <1>8 DEF Toward, Changing, Changes, Dis!Push, Dis!centre
<1>9. ASSUME NEW u \in User, Dis!DeleteUser(u) PROVE Toward'
  <2>1. UNCHANGED <<answering, status, notices>>
          /\ \A f \in Feedback : owner'[f] \in {owner[f], None}
    BY <1>9 DEF Dis!DeleteUser
  <2>2. \A v \in User : inbox'[v] = inbox[v] \/ DOMAIN inbox'[v] = {}
    BY <1>9 DEF Dis!DeleteUser, Dis!TypeOK
  <2> QED
    BY <2>1, <2>2 DEF Toward, Changing, Changes
<1>10. ASSUME NEW p \in Process, Dis!Crash(p) PROVE Toward'
  <2>1. notices' \subseteq notices /\ UNCHANGED <<status, owner, inbox>>
    BY <1>10 DEF Dis!Crash, Dis!centre
  <2>2. \A g \in Request : \A f : Changing(g, f)' => Changing(g, f) /\ answering'[g] = answering[g]
    BY <1>10 DEF Dis!Crash, Changing, Changes
  <2> QED
    BY <2>1, <2>2 DEF Toward
<1> QED
  BY <1>1, <1>2, <1>3, <1>4, <1>5, <1>6, <1>7, <1>8, <1>9, <1>10
     DEF Dis!Next, Aside

\* What Latest says of a feedback.
Told1(f) == \A n \in notices : n.note.about = f => n.note.what = status[f]
Pushing(f) == \A n \in notices : n.note.about = f => n.pc = "push"
Up(f) == \A u \in User : owner[f] = u /\ f \notin lost /\ Pushing(f) => LastTells(u, f)

\* What the newest notice says of each feedback is enough.
LEMMA LatestParts ==
  /\ Latest <=> \A f \in Feedback \ raced : Told1(f) /\ Up(f)
  /\ Latest' <=> \A f \in Feedback \ raced' : Told1(f)' /\ Up(f)'
BY DEF Latest, Told1, Up, Pushing

\* A feedback none of whose notices, rows and changes a step touches stays told.
LEMMA Untouched ==
  ASSUME NEW f, Told1(f), Up(f), status'[f] = status[f], UNCHANGED <<owner, inbox>>,
         lost \subseteq lost', \A n : n.note.about = f => (n \in notices' <=> n \in notices)
  PROVE  Told1(f)' /\ Up(f)'
BY DEF Told1, Up, Pushing, LastTells

\* Every step keeps the last row of a feedback telling its status.
LEMMA LatestStep ==
  ASSUME Dis!TypeOK, OneChange, Toward, Latest, Dis!Next
  PROVE  Latest'
<1> SUFFICES ASSUME NEW f \in Feedback, f \notin raced' PROVE Told1(f)' /\ Up(f)'
  BY LatestParts
<1>a. raced \subseteq raced'
  BY DEF Dis!Next, Dis!SaveComment, Dis!SetFlagged, Dis!SetResolved, Dis!ReviewReport,
         Dis!Moderate, Dis!DeleteComment, Dis!ReplyRead, Dis!ReplyCreate, Dis!SubmitFeedback,
         Dis!StatusRead, Dis!StatusWrite, Dis!Persist, Dis!PersistFails, Dis!Push,
         Dis!MarkRead, Dis!MarkAllRead, Dis!DeleteUser, Dis!Crash, Dis!history
<1>b. f \notin raced /\ Told1(f) /\ Up(f)
  BY <1>a, LatestParts
<1>1. ASSUME Aside PROVE Told1(f)' /\ Up(f)'
  <2>1. UNCHANGED <<inbox, status, owner, notices, lost>>
    BY <1>1, AsideFrame
  <2> QED
    BY <1>b, <2>1, Untouched
<1>2. ASSUME NEW h \in Request, NEW c \in Comment, Dis!ReplyCreate(h, c) PROVE Told1(f)' /\ Up(f)'
  <2>1. UNCHANGED <<inbox, status, owner, lost>>
    BY <1>2, Replied
  <2>2. \A n : n.note.about = f => (n \in notices' <=> n \in notices)
    BY <1>2, NoticeOfReply
  <2> QED
    BY <1>b, <2>1, <2>2, Untouched
<1>3. ASSUME NEW e \in Feedback, NEW u \in User \cup {None}, Dis!SubmitFeedback(e, u)
      PROVE Told1(f)' /\ Up(f)'
  <2>1. /\ UNCHANGED <<inbox, notices, lost>> /\ status[e] = None
        /\ \A g \in Feedback \ {e} : status'[g] = status[g] /\ owner'[g] = owner[g]
    BY <1>3 DEF Dis!SubmitFeedback, Dis!TypeOK, Dis!centre, Dis!history
  <2>2. CASE f = e
    BY <2>1, <2>2 DEF Toward, Told1, Up, LastTells
  <2>3. CASE f # e
    BY <1>b, <2>1, <2>3 DEF Told1, Up, Pushing, LastTells
  <2> QED
    BY <2>2, <2>3
<1>4. ASSUME NEW h \in Request, NEW e \in Feedback, NEW s \in Status, NEW p \in Process,
             Dis!StatusRead(h, e, s, p)
      PROVE Told1(f)' /\ Up(f)'
  <2>1. UNCHANGED <<inbox, status, owner, notices, lost>>
    BY <1>4, Begun
  <2> QED
    BY <1>b, <2>1, Untouched
<1>5. ASSUME NEW h \in Request, Dis!StatusWrite(h) PROVE Told1(f)' /\ Up(f)'
  <2> DEFINE d == answering[h]
  <2>1. /\ Changing(h, d.feedback) /\ d \in Change /\ UNCHANGED <<inbox, owner, lost>>
        /\ status' = [status EXCEPT ![d.feedback] = d.status]
    BY <1>5, Changed
  <2>2. /\ notices \subseteq notices'
        /\ \A n \in notices' :
             n \in notices \/ (n.note.about = d.feedback /\ n.note.what = d.status)
        /\ d.to = None \/ \E n \in notices' : n.note.about = d.feedback /\ n.pc = "persist"
    BY <1>5, NoticeOfChange
  <2>3. d.feedback \in Feedback /\ owner[d.feedback] \in {None, d.to}
    BY <2>1 DEF Change, Toward
  <2>4. d.feedback \notin raced => \A n \in notices : n.note.about # d.feedback
    BY <2>1, <2>3 DEF OneChange
  <2> HIDE DEF d
  <2>5. CASE f # d.feedback
    <3>1. \A n : n.note.about = f => (n \in notices' <=> n \in notices)
      BY <2>2, <2>5
    <3>2. status'[f] = status[f]
      BY <2>1, <2>5 DEF Dis!TypeOK
    <3> QED
      BY <1>b, <2>1, <3>1, <3>2, Untouched
  <2>6. CASE f = d.feedback
    <3>1. status'[f] = d.status
      BY <2>1, <2>6 DEF Dis!TypeOK
    <3>2. Told1(f)'
      BY <1>b, <2>2, <2>4, <2>6, <3>1 DEF Told1
    <3>3. ASSUME NEW u \in User, owner[f] = u PROVE ~Pushing(f)'
      BY <2>2, <2>3, <2>6, <3>3, Unknown DEF Pushing
    <3> QED
      BY <2>1, <3>2, <3>3 DEF Up
  <2> QED
    BY <2>5, <2>6
<1>6. ASSUME NEW n \in notices, Dis!Persist(n) PROVE Told1(f)' /\ Up(f)'
  <2>1. PICK m \in Dis!Notice : /\ m.to = n.to /\ m.note = n.note /\ n \in Dis!Notice
                                /\ notices' = (notices \ {n}) \cup {m}
    BY <1>6, Tried DEF Dis!Persist
  <2>2. /\ UNCHANGED <<status, owner, lost>> /\ n.pc = "persist"
        /\ inbox' = [inbox EXCEPT ![n.to] = Append(@, n.note)]
    BY <1>6 DEF Dis!Persist, Dis!history
  <2>3. Told1(f)'
    BY <1>b, <2>1, <2>2 DEF Told1
  <2>4. ASSUME NEW u \in User, owner[f] = u, f \notin lost, Pushing(f)' PROVE LastTells(u, f)'
    <3>1. CASE u # n.to
      <4>1. inbox'[u] = inbox[u]
        BY <2>1, <2>2, <3>1, Arrived
      <4>2. n.note.about # f
        BY <2>4, <3>1, Unknown DEF Toward
      <4>3. Pushing(f)
        BY <2>1, <2>4, <4>2 DEF Pushing
      <4>4. LastTells(u, f)
        BY <1>b, <2>4, <4>3 DEF Up
      <4> QED
        BY <2>2, <4>1, <4>4 DEF LastTells
    <3>2. CASE u = n.to
      <4> DEFINE k == Len(inbox[u]) + 1
      <4>1. /\ DOMAIN inbox[u] = 1..Len(inbox[u]) /\ Len(inbox[u]) \in Nat
            /\ DOMAIN inbox'[u] = 1..k /\ inbox'[u][k] = n.note
            /\ \A i \in DOMAIN inbox[u] : inbox'[u][i] = inbox[u][i]
        BY <2>1, <2>2, <3>2, Arrived
      <4>2. /\ k \in DOMAIN inbox'[u]
            /\ \A i \in DOMAIN inbox'[u] : i = k \/ (i \in DOMAIN inbox[u] /\ k > i)
        BY <4>1
      <4> HIDE DEF k
      <4>3. CASE n.note.about = f
        <5>1. n.note.what = status[f]
          BY <1>b, <4>3 DEF Told1
        <5> QED
          BY <2>2, <4>1, <4>2, <4>3, <5>1 DEF LastTells
      <4>4. CASE n.note.about # f
        <5>1. Pushing(f)
          BY <2>1, <2>4, <4>4 DEF Pushing
        <5>2. LastTells(u, f)
          BY <1>b, <2>4, <5>1 DEF Up
        <5>3. \A i \in DOMAIN inbox[u] : i \in DOMAIN inbox'[u]
          BY <4>1 DEF k
        <5> QED
          BY <2>2, <4>1, <4>2, <4>4, <5>2, <5>3 DEF LastTells
      <4> QED
        BY <4>3, <4>4
    <3> QED
      BY <3>1, <3>2
  <2> QED
    BY <2>2, <2>3, <2>4 DEF Up
<1>7. ASSUME NEW n \in notices, Dis!PersistFails(n) PROVE Told1(f)' /\ Up(f)'
  <2>1. PICK m \in Dis!Notice : m.note = n.note /\ notices' = (notices \ {n}) \cup {m}
    BY <1>7, Tried DEF Dis!PersistFails
  <2>2. UNCHANGED <<status, owner, inbox>> /\ lost' = lost \cup {n.note.about}
    BY <1>7 DEF Dis!PersistFails, Dis!centre
  <2>3. Told1(f)'
    BY <1>b, <2>1, <2>2 DEF Told1
  <2>4. CASE n.note.about = f
    BY <2>2, <2>3, <2>4 DEF Up
  <2>5. CASE n.note.about # f
    <3>1. \A k : k.note.about = f => (k \in notices' <=> k \in notices)
      BY <2>1, <2>5
    <3> QED
      BY <1>b, <2>2, <3>1, Untouched
  <2> QED
    BY <2>4, <2>5
<1>8. ASSUME NEW n \in notices, Dis!Push(n) PROVE Told1(f)' /\ Up(f)'
  <2>1. n.pc = "push" /\ notices' = notices \ {n} /\ UNCHANGED <<status, owner, inbox, lost>>
    BY <1>8 DEF Dis!Push, Dis!centre, Dis!history
  <2>2. CASE n.note.about = f
    <3>1. Pushing(f)
      BY <1>b, <2>1, <2>2 DEF OneChange, Pushing
    <3> QED
      BY <1>b, <2>1, <3>1 DEF Told1, Up, LastTells
  <2>3. CASE n.note.about # f
    BY <1>b, <2>1, <2>3, Untouched
  <2> QED
    BY <2>2, <2>3
<1>9. ASSUME NEW v \in User, Dis!DeleteUser(v) PROVE Told1(f)' /\ Up(f)'
  <2>1. /\ UNCHANGED <<status, notices, lost>>
        /\ owner'[f] = IF owner[f] = v THEN None ELSE owner[f]
        /\ \A u \in User \ {v} : inbox'[u] = inbox[u]
    BY <1>9 DEF Dis!DeleteUser, Dis!TypeOK, Dis!history
  <2> QED
    BY <1>b, <2>1, Unknown DEF Told1, Up, Pushing, LastTells
<1>10. ASSUME NEW p \in Process, Dis!Crash(p) PROVE Told1(f)' /\ Up(f)'
  <2>1. /\ notices' \subseteq notices /\ lost \subseteq lost' /\ UNCHANGED <<status, owner, inbox>>
        /\ \A k \in notices \ notices' : k.note.about \in lost'
    BY <1>10 DEF Dis!Crash, Dis!centre
  <2> QED
    BY <1>b, <2>1 DEF Told1, Up, Pushing, LastTells
<1> QED
  BY <1>1, <1>2, <1>3, <1>4, <1>5, <1>6, <1>7, <1>8, <1>9, <1>10
     DEF Dis!Next, Aside

-----------------------------------------------------------------------------
DiscussionInv == Dis!TypeOK /\ Rooted /\ Told /\ OneChange /\ Toward /\ Latest

\* There is nothing to discuss at first.
LEMMA DiscussionsStart ==
  ASSUME Dis!Init
  PROVE  DiscussionInv
<1>1. Dis!TypeOK
  BY DEF Dis!Init, Dis!TypeOK
<1>2. \A h \in Request : ~Changes(h) /\ ~Replies(h)
  BY DEF Dis!Init, Changes, Replies
<1>3. Rooted /\ Told
  BY <1>2 DEF Dis!Init, Rooted, Told, Dis!EveryCommentIsShown, Dis!Posted, Dis!AuthorIsTold
<1>4. \A u \in User : DOMAIN inbox[u] = {}
  <2>1. \A u \in User : inbox[u] = <<>>
    BY DEF Dis!Init
  <2>2. \A u \in User : inbox[u] \in Seq(Dis!Note) /\ Len(inbox[u]) = 0
    BY <2>1, EmptySeq
  <2>3. \A u \in User : DOMAIN inbox[u] = 1..Len(inbox[u])
    BY <2>2, LenProperties
  <2>4. 1..0 = {}
    OBVIOUS
  <2> QED
    BY <2>2, <2>3, <2>4
<1>5. OneChange /\ Toward /\ Latest
  BY <1>2, <1>4 DEF Dis!Init, OneChange, Toward, Latest, LastTells, Changing
<1> QED
  BY <1>1, <1>3, <1>5 DEF DiscussionInv

\* Until a change is under way, the last row of a feedback tells its status.
LEMMA NewestFollows ==
  ASSUME DiscussionInv
  PROVE  Dis!NewestIsCurrent
<1> SUFFICES ASSUME NEW f \in Feedback, owner[f] # None, ~Dis!UnderWay(owner[f], f),
                    f \notin raced \cup lost
             PROVE  LastTells(owner[f], f)
  BY DEF Dis!NewestIsCurrent, LastTells
<1>1. owner[f] \in User
  BY DEF DiscussionInv, Dis!TypeOK
<1>2. \A n \in notices : n.note.about # f
  BY DEF DiscussionInv, Toward, Dis!UnderWay
<1> QED
  BY <1>1, <1>2 DEF DiscussionInv, Latest

\* While another service moves, nothing of the discussions changes.
LEMMA DiscussionsStutter ==
  ASSUME DiscussionInv, UNCHANGED discussions
  PROVE  DiscussionInv'
<1>1. Dis!TypeOK'
  BY DEF DiscussionInv, discussions, Dis!TypeOK
<1>2. Rooted'
  BY DEF DiscussionInv, discussions, Rooted, Replies, Dis!EveryCommentIsShown, Dis!Posted
<1>3. Told'
  BY DEF DiscussionInv, discussions, Told, Dis!AuthorIsTold, Dis!InCentre, Dis!UnderWay
<1>4. OneChange' /\ Toward'
  BY DEF DiscussionInv, discussions, OneChange, Toward, Changing, Changes
<1>5. Latest'
  BY DEF DiscussionInv, discussions, Latest, LastTells
<1> QED
  BY <1>1, <1>2, <1>3, <1>4, <1>5 DEF DiscussionInv

\* While the discussions move, their invariant holds.
LEMMA DiscussionsAlways == Spec => [](part = "discussions" => DiscussionInv)
<1> DEFINE I == part = "discussions" => DiscussionInv
<1>1. Init => I
  BY DiscussionsStart DEF Init
<1>2. I /\ [Next]_vars => I'
  <2> SUFFICES ASSUME part = "discussions", DiscussionInv, [Next]_vars PROVE DiscussionInv'
    BY DEF Next, Only, vars
  <2>1. CASE Dis!Next
    BY <2>1, DiscussionTypes, RootStep, ToldStep, OneChangeStep, TowardStep, LatestStep
       DEF DiscussionInv
  <2>2. CASE UNCHANGED discussions
    BY <2>2, DiscussionsStutter
  <2> QED
    BY <2>1, <2>2 DEF Next, Only, vars
<1> QED
  BY <1>1, <1>2, PTL DEF Spec

\* What GET /comments shows: every comment is a root, or a reply to a root that is there.
THEOREM CommentsShown == Spec => []EveryCommentIsShown
<1>1. (part = "discussions" => DiscussionInv) => EveryCommentIsShown
  BY DEF EveryCommentIsShown, DiscussionInv, Rooted
<1> QED
  BY <1>1, DiscussionsAlways, PTL

\* The author of an answered comment is told, unless the process stopped before the notice.
THEOREM AuthorTold == Spec => []AuthorIsTold
<1>1. (part = "discussions" => DiscussionInv) => AuthorIsTold
  BY DEF AuthorIsTold, DiscussionInv, Told
<1> QED
  BY <1>1, DiscussionsAlways, PTL

\* The last notice of a feedback tells its status, unless two changes or a crash crossed it.
THEOREM NewestTold == Spec => []NewestIsCurrent
<1>1. (part = "discussions" => DiscussionInv) => NewestIsCurrent
  BY NewestFollows DEF NewestIsCurrent
<1> QED
  BY <1>1, DiscussionsAlways, PTL

-----------------------------------------------------------------------------
(* The assistant *)

\* A chat has read what there is, unless another overlaps it.
Reads(h, c) == chat[h] # None /\ chat[h].of = c
Alone ==
  \A c \in Conversation \ crossed, h \in Request : Reads(h, c) =>
    /\ turns[c] # None => chat[h].old = cache[c]
    /\ \A g \in Request : Reads(g, c) => g = h

\* Messages are sent once, and the last drawing is of one that is answered.
Asked ==
  /\ \A h \in Request : chat[h] # None =>
       /\ chat[h].of \in opened /\ chat[h].message \in sent
       /\ \A g \in Request : chat[g] # None /\ chat[g].message = chat[h].message => g = h
  /\ \A c \in Conversation : turns[c] # None => c \in opened
  /\ \A c \in Conversation : drew[c] # None =>
       /\ c \in opened /\ drew[c].message \in sent
       /\ \A h \in Request : chat[h] # None => chat[h].message # drew[c].message

\* What is kept is finite.
Finite ==
  /\ \A c \in Conversation : IsFiniteSet(cache[c])
  /\ \A h \in Request : chat[h] # None =>
       IsFiniteSet(chat[h].old) /\ Cardinality(chat[h].old) <= MaxCached

\* A chat that drew nothing new drew again what it had read.
Redrawn ==
  \A h \in Request : chat[h] # None =>
    /\ chat[h].last = None => chat[h].fresh = <<>>
    /\ chat[h].last # None /\ chat[h].fresh = <<>> => chat[h].last \in chat[h].old

AssistantInv == Ass!TypeOK /\ Alone /\ Asked /\ Finite /\ Redrawn /\ Ass!NewGeometryKept

\* None is no message, no chat and no drawing.
LEMMA Unsaid ==
  /\ None \notin Seq(Message) /\ None \notin Ass!Chat /\ None \notin Ass!Review
  /\ None \notin Ass!Drawn /\ MaxCached \in Nat \ {0} /\ Label \subseteq Nat
BY ServicesAssumption, NoneAssumption

\* The model counts as the library does.
LEMMA Counted == \A S : Ass!Cardinality(S) = Cardinality(S)
BY Zenon DEF Ass!Cardinality, Cardinality, Ass!ExistsBijection, ExistsBijection,
   Ass!Bijection, Bijection, Ass!Injection, Injection, Ass!Surjection, Surjection

\* A set of numbers has a least one.
LEMMA SmallestOf ==
  ASSUME NEW S \in SUBSET Nat, S # {}
  PROVE  \E n \in S : \A m \in S : n <= m
<1>1. PICK n \in S : \A m \in S : ~(<<m, n>> \in OpToRel(<, Nat))
  BY WFMin, NatLessThanWellFounded
<1>2. ASSUME NEW m \in S, m < n PROVE FALSE
  <2>1. <<m, n>> \in Nat \X Nat /\ <<m, n>>[1] < <<m, n>>[2]
    BY <1>2
  <2>2. <<m, n>> \in {ss \in Nat \X Nat : ss[1] < ss[2]}
    BY <2>1
  <2> QED
    BY <1>1, <2>2, Zenon DEF OpToRel
<1> QED
  BY <1>2

\* Fewer than m + 1 numbers of a set have fewer than m of it above them.
LEMMA Above ==
  ASSUME NEW S \in SUBSET Nat, IsFiniteSet(S), NEW m \in Nat, NEW n \in Nat
  PROVE  LET K == {l \in S : Cardinality({k \in S : k > l}) + n < m}
         IN  /\ IsFiniteSet(K) /\ Cardinality(K) \in Nat
             /\ Cardinality(K) + n <= m \/ K = {}
<1> DEFINE K == {l \in S : Cardinality({k \in S : k > l}) + n < m}
<1>1. IsFiniteSet(K) /\ Cardinality(K) \in Nat
  BY FS_Subset, FS_CardinalityType
<1>2. ASSUME K # {} PROVE Cardinality(K) + n <= m
  <2>1. PICK l \in K : \A k \in K : l <= k
    BY <1>2, SmallestOf
  <2> DEFINE U == {k \in S : k > l}
  <2>2. K \ {l} \subseteq U
    <3>1. K \subseteq S
      OBVIOUS
    <3> HIDE DEF K
    <3> QED
      BY <2>1, <3>1
  <2>3. IsFiniteSet(U) /\ Cardinality(U) \in Nat
    BY FS_Subset, FS_CardinalityType
  <2>4. Cardinality(K \ {l}) <= Cardinality(U) /\ Cardinality(K \ {l}) = Cardinality(K) - 1
    <3> HIDE DEF K, U
    <3> QED
      BY <1>1, <2>1, <2>2, <2>3, FS_Subset, FS_RemoveElement
  <2>5. Cardinality(U) + n < m
    BY <2>1
  <2> QED
    <3> HIDE DEF K, U
    <3> QED
      BY <1>1, <2>3, <2>4, <2>5
<1> QED
  BY <1>1, <1>2

\* The last m of a sequence are no more than m.
LEMMA Latter ==
  ASSUME NEW s \in Seq(Label), NEW m \in Nat
  PROVE  LET T == {s[i] : i \in {i \in 1..Len(s) : Len(s) - i < m}}
         IN  /\ IsFiniteSet(T) /\ T \subseteq Label /\ Cardinality(T) \in Nat
             /\ Cardinality(T) <= m /\ Cardinality(T) <= Len(s)
<1> DEFINE I == {i \in 1..Len(s) : Len(s) - i < m}
           T == {s[i] : i \in I}
           f == [i \in I |-> s[i]]
<1>0. Len(s) \in Nat
  OBVIOUS
<1>1. I \subseteq 1..Len(s) /\ I \subseteq (Len(s) - m + 1)..Len(s)
  BY <1>0
<1>2. IsFiniteSet(1..Len(s)) /\ Cardinality(1..Len(s)) = Len(s)
  BY <1>0, FS_Interval
<1>3. IsFiniteSet((Len(s) - m + 1)..Len(s)) /\ Cardinality((Len(s) - m + 1)..Len(s)) = m
  <2>1. Len(s) - m + 1 \in Int /\ Len(s) \in Int
    BY <1>0
  <2>2. /\ IsFiniteSet((Len(s) - m + 1)..Len(s))
        /\ Cardinality((Len(s) - m + 1)..Len(s)) =
             IF Len(s) - m + 1 > Len(s) THEN 0 ELSE Len(s) - (Len(s) - m + 1) + 1
    BY ONLY <2>1, FS_Interval
  <2> QED
    BY <1>0, <2>2
<1>4. IsFiniteSet(I) /\ Cardinality(I) <= Len(s) /\ Cardinality(I) <= m
  <2> HIDE DEF I
  <2> QED
    BY <1>1, <1>2, <1>3, FS_Subset
<1>5. f \in Surjection(I, T)
  BY DEF Surjection
<1>6. IsFiniteSet(T) /\ Cardinality(T) <= Cardinality(I)
  <2> HIDE DEF I, T, f
  <2> QED
    BY <1>4, <1>5, FS_Surjection
<1>7. Cardinality(T) \in Nat /\ Cardinality(I) \in Nat
  <2> HIDE DEF I, T
  <2> QED
    BY <1>4, <1>6, FS_CardinalityType
<1>8. T \subseteq Label
  OBVIOUS
<1> HIDE DEF I
<1> QED
  BY <1>0, <1>4, <1>6, <1>7, <1>8 DEF I

\* What is kept: no more than the bound, all of what was there if nothing is new, and the
\* last of what is new.
LEMMA KeptIs ==
  ASSUME NEW x \in Ass!Chat, IsFiniteSet(x.old), Cardinality(x.old) <= MaxCached
  PROVE  /\ Ass!Kept(x) \subseteq Label /\ IsFiniteSet(Ass!Kept(x))
         /\ Cardinality(Ass!Kept(x)) <= MaxCached
         /\ x.fresh = <<>> => Ass!Kept(x) = x.old
         /\ x.fresh # <<>> => Ass!Last(x.fresh) \in Ass!Kept(x)
<1> DEFINE n == Len(x.fresh)
           K == {l \in x.old : Cardinality({k \in x.old : k > l}) + n < MaxCached}
           T == {x.fresh[i] : i \in {i \in 1..n : n - i < MaxCached}}
<1>1. x.old \subseteq Label /\ x.fresh \in Seq(Label) /\ n \in Nat /\ x.old \in SUBSET Nat
  <2>1. x.old \subseteq Label /\ x.fresh \in Seq(Label)
    BY DEF Ass!Chat
  <2>2. Len(x.fresh) \in Nat
    BY <2>1, LenProperties
  <2>3. x.old \in SUBSET Nat
    BY <2>1, Unsaid
  <2> QED
    BY <2>1, <2>2, <2>3
<1>2. Ass!Kept(x) = K \cup T
  BY Counted DEF Ass!Kept
<1>3. IsFiniteSet(K) /\ Cardinality(K) \in Nat /\ (Cardinality(K) + n <= MaxCached \/ K = {})
  BY <1>1, Unsaid, Above
<1>4. /\ IsFiniteSet(T) /\ T \subseteq Label /\ Cardinality(T) \in Nat
      /\ Cardinality(T) <= MaxCached /\ Cardinality(T) <= n
  BY <1>1, Unsaid, Latter
<1>5. K \subseteq Label
  BY <1>1
<1>6. /\ IsFiniteSet(K \cup T) /\ Cardinality(K \cap T) \in Nat
      /\ Cardinality(K \cup T) = Cardinality(K) + Cardinality(T) - Cardinality(K \cap T)
  <2> HIDE DEF K, T
  <2> QED
    BY <1>3, <1>4, FS_Union, FS_Intersection, FS_CardinalityType
<1>7. Cardinality(K \cup T) <= MaxCached
  <2>1. Cardinality({}) = 0
    BY FS_EmptySet
  <2> HIDE DEF K, T, n
  <2>2. MaxCached \in Nat /\ n \in Nat
    BY <1>1, Unsaid
  <2>3. CASE K = {}
    BY <1>4, <1>6, <2>1, <2>2, <2>3
  <2>4. CASE Cardinality(K) + n <= MaxCached
    BY <1>3, <1>4, <1>6, <2>2, <2>4
  <2> QED
    BY <1>3, <2>3, <2>4
<1>8. ASSUME x.fresh = <<>> PROVE K \cup T = x.old
  <2>1. n = 0 /\ T = {}
    BY <1>8
  <2>2. ASSUME NEW l \in x.old PROVE Cardinality({k \in x.old : k > l}) + n < MaxCached
    <3> DEFINE U == {k \in x.old : k > l}
    <3>1. U \subseteq x.old \ {l}
      BY <1>1
    <3>2. /\ IsFiniteSet(x.old \ {l}) /\ Cardinality(x.old \ {l}) = Cardinality(x.old) - 1
          /\ Cardinality(x.old) \in Nat
      BY FS_RemoveElement, FS_CardinalityType
    <3>3. Cardinality(U) <= Cardinality(x.old \ {l}) /\ Cardinality(U) \in Nat
      <4> HIDE DEF U
      <4> QED
        BY <3>1, <3>2, FS_Subset, FS_CardinalityType
    <3> HIDE DEF U
    <3>4. Cardinality(U) + n < MaxCached
      BY <2>1, <3>2, <3>3, Unsaid
    <3> QED
      BY <3>4 DEF U
  <2> QED
    BY <2>1, <2>2
<1>9. ASSUME x.fresh # <<>> PROVE Ass!Last(x.fresh) \in T
  <2>1. n \in 1..n /\ n - n < MaxCached
    BY <1>1, <1>9, Unsaid
  <2> QED
    BY <2>1 DEF Ass!Last
<1> HIDE DEF K, T
<1> QED
  BY <1>2, <1>4, <1>5, <1>6, <1>7, <1>8, <1>9

\* Chats only end or go on, and nothing is written back.
Going ==
  /\ UNCHANGED <<turns, cache, sent, opened, crossed, drew>>
  /\ \A h \in Request : chat'[h] # None =>
       /\ chat[h] # None /\ chat'[h].of = chat[h].of /\ chat'[h].message = chat[h].message
       /\ chat'[h].old = chat[h].old

\* Chats that end or go on keep the invariant.
LEMMA GoingOn ==
  ASSUME AssistantInv, Ass!TypeOK', Redrawn', Going
  PROVE  AssistantInv'
<1> USE DEF AssistantInv, Going
<1>1. Alone'
  BY DEF Alone, Reads
<1>2. Asked'
  BY DEF Asked
<1>3. Finite'
  BY DEF Finite
<1>4. Ass!NewGeometryKept'
  BY DEF Ass!NewGeometryKept
<1> QED
  BY <1>1, <1>2, <1>3, <1>4

\* A request's chat changes, the others' stay.
LEMMA ChatTyped ==
  ASSUME Ass!TypeOK, NEW h \in Request, NEW x \in Ass!Chat \cup {None},
         chat' = [chat EXCEPT ![h] = x]
  PROVE  /\ chat' \in [Request -> Ass!Chat \cup {None}] /\ chat'[h] = x
         /\ \A g \in Request \ {h} : chat'[g] = chat[g]
BY DEF Ass!TypeOK

\* A tool draws a geometry: only the chat knows it yet.
LEMMA ComputeStep ==
  ASSUME AssistantInv, NEW h \in Request, NEW l \in Label, NEW ref, Ass!Compute(h, l, ref)
  PROVE  AssistantInv'
<1> USE DEF AssistantInv
<1>0. PICK x \in Ass!Chat : chat[h] = x
  BY DEF Ass!Compute, Ass!TypeOK
<1> DEFINE y == Ass!Set(x, l)
<1>1. /\ chat' = [chat EXCEPT ![h] = y]
      /\ UNCHANGED <<turns, cache, sent, faq, gathered, review, opened, crossed, drew>>
  BY <1>0 DEF Ass!Compute, Ass!faqs, Ass!history
<1>2. /\ y \in Ass!Chat /\ y.of = x.of /\ y.message = x.message
      /\ y.old = x.old /\ y.last = l
  <2>1. Append(x.fresh, l) \in Seq(Label) /\ x.fresh \in Seq(Label)
    BY DEF Ass!Chat
  <2> QED
    BY <2>1 DEF Ass!Chat, Ass!Set
<1>3. y.fresh = <<>> => l \in x.old
  <2>1. x.fresh \in Seq(Label) /\ Append(x.fresh, l) # <<>>
    BY DEF Ass!Chat
  <2>2. y.fresh = <<>> => l \in Ass!Known(x) /\ x.fresh = <<>>
    BY <2>1 DEF Ass!Set, Ass!Chat
  <2>3. x.fresh = <<>> => Ass!ToSet(x.fresh) = {}
    BY DEF Ass!ToSet
  <2> QED
    BY <2>2, <2>3 DEF Ass!Known
<1> HIDE DEF y
<1>4. /\ chat' \in [Request -> Ass!Chat \cup {None}] /\ chat'[h] = y
      /\ \A g \in Request \ {h} : chat'[g] = chat[g]
  BY <1>1, <1>2, ChatTyped
<1>5. Ass!TypeOK'
  BY <1>1, <1>4 DEF Ass!TypeOK
<1>6. Going
  BY <1>0, <1>1, <1>2, <1>4, Unsaid DEF Going
<1>7. Redrawn'
  <2>1. l # None
    BY ServicesAssumption
  <2> QED
    BY <1>2, <1>3, <1>4, <2>1 DEF Redrawn
<1> QED
  BY <1>5, <1>6, <1>7, GoingOn

\* A chat that fails writes nothing.
LEMMA FailStep ==
  ASSUME AssistantInv, NEW h \in Request, Ass!ChatFails(h)
  PROVE  AssistantInv'
<1> USE DEF AssistantInv
<1>1. /\ chat' \in [Request -> Ass!Chat \cup {None}] /\ chat'[h] = None
      /\ \A g \in Request \ {h} : chat'[g] = chat[g]
      /\ UNCHANGED <<turns, cache, sent, faq, gathered, review, opened, crossed, drew>>
  BY ChatTyped DEF Ass!ChatFails, Ass!faqs, Ass!history
<1>2. Ass!TypeOK'
  BY <1>1 DEF Ass!TypeOK
<1>3. Going
  BY <1>1 DEF Going
<1>4. Redrawn'
  BY <1>1 DEF Redrawn
<1> QED
  BY <1>2, <1>3, <1>4, GoingOn

\* Questions, drafts and reviews change no conversation.
LEMMA FaqStep ==
  ASSUME AssistantInv,
         \/ Ass!Gather
         \/ \E es \in SUBSET Entry : Ass!Generate(es)
         \/ \E h \in Request, e \in Entry, d \in Ass!Decision : Ass!ReviewRead(h, e, d)
         \/ \E h \in Request : Ass!ReviewWrite(h)
  PROVE  AssistantInv'
<1> USE DEF AssistantInv
<1>1. UNCHANGED <<turns, cache, chat, sent, opened, crossed, drew>>
  BY DEF Ass!Gather, Ass!Generate, Ass!ReviewRead, Ass!ReviewWrite, Ass!conversations,
         Ass!history
<1>2. Going
  BY <1>1 DEF Going
<1>3. gathered' \in BOOLEAN /\ faq' \in [Entry -> {"DRAFT", None} \cup Ass!Decision]
      /\ review' \in [Request -> Ass!Review \cup {None}]
  <2>1. CASE Ass!Gather
    BY <2>1 DEF Ass!Gather, Ass!TypeOK
  <2>2. ASSUME NEW es \in SUBSET Entry, Ass!Generate(es) PROVE <1>3
    BY <2>2 DEF Ass!Generate, Ass!TypeOK
  <2>3. ASSUME NEW h \in Request, NEW e \in Entry, NEW d \in Ass!Decision,
               Ass!ReviewRead(h, e, d)
        PROVE  <1>3
    BY <2>3 DEF Ass!ReviewRead, Ass!TypeOK, Ass!Review
  <2>4. ASSUME NEW h \in Request, Ass!ReviewWrite(h) PROVE <1>3
    <3>1. review[h] \in Ass!Review
      BY <2>4 DEF Ass!ReviewWrite, Ass!TypeOK
    <3> QED
      BY <2>4, <3>1 DEF Ass!ReviewWrite, Ass!TypeOK, Ass!Review
  <2> QED
    BY <2>1, <2>2, <2>3, <2>4
<1>4. Ass!TypeOK'
  BY <1>1, <1>3 DEF Ass!TypeOK
<1>5. Redrawn'
  BY <1>1 DEF Redrawn
<1> QED
  BY <1>2, <1>4, <1>5, GoingOn

\* A conversation begins with nothing said, and its geometries go with it.
LEMMA OpenStep ==
  ASSUME AssistantInv, NEW c \in Conversation,
         Ass!CreateConversation(c) \/ Ass!DeleteConversation(c)
  PROVE  AssistantInv'
<1> USE DEF AssistantInv
<1>1. /\ UNCHANGED <<chat, sent, faq, gathered, review, crossed, drew>>
      /\ turns' \in [Conversation -> Seq(Message) \cup {None}]
      /\ cache' \in [Conversation -> SUBSET Label]
      /\ opened' \in {opened, opened \cup {c}}
      /\ \A k \in Conversation \ {c} : turns'[k] = turns[k] /\ cache'[k] = cache[k]
      /\ c \in opened => turns'[c] = None
      /\ turns'[c] # None => c \in opened'
      /\ cache'[c] \in {cache[c], {}}
  <2>1. CASE Ass!CreateConversation(c)
    <3>1. <<>> \in Seq(Message)
      BY EmptySeq
    <3> QED
      BY <2>1, <3>1 DEF Ass!CreateConversation, Ass!TypeOK, Ass!faqs
  <2>2. CASE Ass!DeleteConversation(c)
    BY <2>2 DEF Ass!DeleteConversation, Ass!TypeOK, Ass!faqs, Ass!history
  <2> QED
    BY <2>1, <2>2
<1>2. Ass!TypeOK'
  <2>1. Ass!Cardinality({}) <= MaxCached
    BY FS_EmptySet, Counted, Unsaid
  <2>2. \A k \in Conversation : Ass!Cardinality(cache'[k]) <= MaxCached
    BY <1>1, <2>1 DEF Ass!TypeOK
  <2> QED
    BY <1>1, <2>2 DEF Ass!TypeOK
<1>3. Alone'
  BY <1>1 DEF Alone, Reads, Asked
<1>4. Asked'
  BY <1>1 DEF Asked
<1>5. Finite'
  BY <1>1, FS_EmptySet DEF Finite
<1>6. Ass!NewGeometryKept'
  <2> SUFFICES ASSUME NEW k \in opened', drew[k] # None, turns'[k] # None
               PROVE  \/ drew[k].label \in cache'[k] \/ drew[k].again
                      \/ k \in crossed /\ Ass!Last(turns'[k]) # drew[k].message
    BY <1>1 DEF Ass!NewGeometryKept
  <2>1. k \in Conversation /\ k \in opened
    BY <1>2 DEF Asked, Ass!TypeOK
  <2>2. k # c
    BY <1>1, <2>1
  <2>3. turns'[k] = turns[k] /\ cache'[k] = cache[k]
    BY <1>1, <2>1, <2>2
  <2> QED
    BY <2>1, <2>3 DEF Ass!NewGeometryKept
<1>7. Redrawn'
  BY <1>1 DEF Redrawn
<1> QED
  BY <1>2, <1>3, <1>4, <1>5, <1>6, <1>7

\* A chat reads what its conversation has; two at once are remembered.
LEMMA SendStep ==
  ASSUME AssistantInv, NEW h \in Request, NEW c \in Conversation, NEW m \in Message,
         Ass!Send(h, c, m)
  PROVE  AssistantInv'
<1> USE DEF AssistantInv
<1> DEFINE x == [of |-> c, message |-> m, prior |-> turns[c], old |-> cache[c],
                 fresh |-> <<>>, last |-> None]
<1>1. /\ chat[h] = None /\ turns[c] # None /\ m \notin sent /\ sent' = sent \cup {m}
      /\ chat' = [chat EXCEPT ![h] = x]
      /\ crossed \subseteq crossed' /\ (c \notin crossed' => \A g \in Request : ~Reads(g, c))
      /\ UNCHANGED <<turns, cache, faq, gathered, review, opened, drew>>
  BY DEF Ass!Send, Ass!Idle, Ass!faqs, Reads
<1>2. x \in Ass!Chat
  BY <1>1, EmptySeq DEF Ass!TypeOK, Ass!Chat
<1>3. x.of = c /\ x.message = m /\ x.old = cache[c] /\ x.fresh = <<>> /\ x.last = None
  OBVIOUS
<1> HIDE DEF x
<1>4. /\ chat' \in [Request -> Ass!Chat \cup {None}] /\ chat'[h] = x
      /\ \A g \in Request \ {h} : chat'[g] = chat[g]
  BY <1>1, <1>2, ChatTyped
<1>5. Ass!TypeOK'
  BY <1>1, <1>4 DEF Ass!TypeOK
<1>6. Alone'
  BY <1>1, <1>3, <1>4 DEF Alone, Reads
<1>7. Asked'
  BY <1>1, <1>3, <1>4 DEF Asked
<1>8. Finite'
  <2>1. Cardinality(cache[c]) <= MaxCached /\ IsFiniteSet(cache[c])
    BY Counted DEF Ass!TypeOK, Finite
  <2> QED
    BY <1>1, <1>3, <1>4, <2>1 DEF Finite
<1>9. Ass!NewGeometryKept'
  BY <1>1 DEF Ass!NewGeometryKept
<1>10. Redrawn'
  BY <1>3, <1>4 DEF Redrawn
<1> QED
  BY <1>5, <1>6, <1>7, <1>8, <1>9, <1>10

\* A chat writes its turns and its geometries back.
LEMMA ReplyStep ==
  ASSUME AssistantInv, NEW h \in Request, Ass!Reply(h)
  PROVE  AssistantInv'
<1> USE DEF AssistantInv
<1>1. PICK x \in Ass!Chat : chat[h] = x
  BY DEF Ass!Reply, Ass!TypeOK
<1>2. /\ chat[h] # None /\ chat' = [chat EXCEPT ![h] = None]
      /\ UNCHANGED <<sent, faq, gathered, review, opened, crossed>>
  BY DEF Ass!Reply, Ass!faqs
<1>3. /\ chat' \in [Request -> Ass!Chat \cup {None}] /\ chat'[h] = None
      /\ \A g \in Request \ {h} : chat'[g] = chat[g]
  BY <1>2, ChatTyped
<1>4. CASE turns[x.of] = None
  <2>1. UNCHANGED <<turns, cache, drew>>
    BY <1>1, <1>4 DEF Ass!Reply
  <2>2. Ass!TypeOK'
    BY <1>2, <1>3, <2>1 DEF Ass!TypeOK
  <2>3. Going
    BY <1>2, <1>3, <2>1 DEF Going
  <2>4. Redrawn'
    BY <1>3 DEF Redrawn
  <2> QED
    BY <2>2, <2>3, <2>4, GoingOn
<1>5. CASE turns[x.of] # None
  <2> DEFINE c == x.of
             y == Append(x.prior, x.message)
  <2>1. /\ c \in Conversation /\ x.message \in Message /\ x.prior \in Seq(Message)
        /\ x.fresh \in Seq(Label)
    BY DEF Ass!Chat
  <2>2. /\ turns' = [turns EXCEPT ![c] = y] /\ cache' = [cache EXCEPT ![c] = Ass!Kept(x)]
        /\ drew' = IF x.last = None THEN drew
                   ELSE [drew EXCEPT ![c] =
                          [label |-> x.last, message |-> x.message,
                           again |-> x.fresh # <<>> /\ Ass!Last(x.fresh) # x.last]]
    BY <1>1, <1>5 DEF Ass!Reply
  <2>3. y \in Seq(Message) /\ y # <<>> /\ Ass!Last(y) = x.message
    <3> HIDE DEF c
    <3> QED
      BY <2>1, AppendProperties DEF Ass!Last
  <2>4. /\ Ass!Kept(x) \subseteq Label /\ IsFiniteSet(Ass!Kept(x))
        /\ Ass!Cardinality(Ass!Kept(x)) <= MaxCached
        /\ x.fresh = <<>> => Ass!Kept(x) = x.old
        /\ x.fresh # <<>> => Ass!Last(x.fresh) \in Ass!Kept(x)
    BY <1>1, <1>2, KeptIs, Counted DEF Finite
  <2> HIDE DEF y, c
  <2>5. /\ turns' \in [Conversation -> Seq(Message) \cup {None}] /\ turns'[c] = y
        /\ cache' \in [Conversation -> SUBSET Label] /\ cache'[c] = Ass!Kept(x)
        /\ \A k \in Conversation \ {c} : turns'[k] = turns[k] /\ cache'[k] = cache[k]
    BY <2>1, <2>2, <2>3, <2>4 DEF Ass!TypeOK
  <2>0. /\ x.last = None => Ass!Kept(x) = x.old
        /\ x.last # None =>
             x.last \in Ass!Kept(x) \/ (x.fresh # <<>> /\ Ass!Last(x.fresh) # x.last)
    BY <1>1, <1>2, <2>4 DEF Redrawn
  <2>6. /\ drew' \in [Conversation -> Ass!Drawn \cup {None}]
        /\ \A k \in Conversation \ {c} : drew'[k] = drew[k]
        /\ x.last = None => drew'[c] = drew[c]
        /\ x.last # None => /\ drew'[c] # None /\ drew'[c].message = x.message
                            /\ drew'[c].label \in Ass!Kept(x) \/ drew'[c].again
    <3>1. CASE x.last = None
      BY <2>2, <3>1 DEF Ass!TypeOK
    <3>2. CASE x.last # None
      <4> DEFINE b == x.fresh # <<>> /\ Ass!Last(x.fresh) # x.last
                 d == [label |-> x.last, message |-> x.message, again |-> b]
      <4>0. x.last \in Label /\ b \in BOOLEAN /\ (x.last \in Ass!Kept(x) \/ b)
        BY <2>0, <3>2 DEF Ass!Chat
      <4>2. drew' = [drew EXCEPT ![c] = d]
        BY <2>2, <3>2
      <4>3. d.label = x.last /\ d.message = x.message /\ d.again = b
        OBVIOUS
      <4> HIDE DEF b
      <4>1. d \in Ass!Drawn /\ d # None
        BY <2>1, <4>0, Unsaid DEF Ass!Drawn
      <4> HIDE DEF d
      <4>4. drew' \in [Conversation -> Ass!Drawn \cup {None}] /\ drew'[c] = d
            /\ \A k \in Conversation \ {c} : drew'[k] = drew[k]
        BY <2>1, <4>1, <4>2 DEF Ass!TypeOK
      <4> QED
        BY <3>2, <4>0, <4>1, <4>3, <4>4
    <3> QED
      BY <3>1, <3>2
  <2>7. Ass!TypeOK'
    BY <1>2, <1>3, <2>4, <2>5, <2>6 DEF Ass!TypeOK
  <2>8. c \notin crossed => \A g \in Request \ {h} : ~Reads(g, c)
    BY <1>1, <1>2, <2>1 DEF Alone, Reads, c
  <2>9. Alone'
    BY <1>2, <1>3, <2>5, <2>8 DEF Alone, Reads
  <2>10. Asked'
    BY <1>1, <1>2, <1>3, <1>5, <2>5, <2>6 DEF Asked, c
  <2>11. Finite'
    BY <1>3, <2>4, <2>5 DEF Finite
  <2>12. Ass!NewGeometryKept'
    <3> SUFFICES ASSUME NEW k \in opened, drew'[k] # None, turns'[k] # None
                 PROVE  \/ drew'[k].label \in cache'[k] \/ drew'[k].again
                        \/ k \in crossed /\ Ass!Last(turns'[k]) # drew'[k].message
      BY <1>2 DEF Ass!NewGeometryKept
    <3>0. k \in Conversation
      BY DEF Ass!TypeOK
    <3>1. CASE k # c
      BY <2>5, <2>6, <3>0, <3>1 DEF Ass!NewGeometryKept
    <3>2. CASE k = c /\ x.last # None
      BY <2>5, <2>6, <3>2
    <3>3. CASE k = c /\ x.last = None
      <4>1. drew[k] # None /\ drew[k] = drew'[k] /\ drew[k].message # x.message
        BY <1>1, <1>2, <2>6, <3>0, <3>3 DEF Asked
      <4>2. CASE k \in crossed
        BY <2>3, <2>5, <3>3, <4>1, <4>2
      <4>3. CASE k \notin crossed
        <5>1. x.old = cache[k]
          BY <1>1, <1>2, <1>5, <3>0, <3>3, <4>3 DEF Alone, Reads, c
        <5>2. drew[k].label \in cache[k] \/ drew[k].again
          BY <1>5, <3>3, <4>1, <4>3 DEF Ass!NewGeometryKept, c
        <5> QED
          BY <2>0, <2>5, <3>3, <4>1, <5>1, <5>2
      <4> QED
        BY <4>2, <4>3
    <3> QED
      BY <3>1, <3>2, <3>3
  <2>13. Redrawn'
    BY <1>3 DEF Redrawn
  <2> QED
    BY <2>7, <2>9, <2>10, <2>11, <2>12, <2>13
<1> QED
  BY <1>4, <1>5

\* Nothing is said at first.
LEMMA AssistantStart ==
  Ass!Init => AssistantInv
<1> SUFFICES ASSUME Ass!Init PROVE AssistantInv
  OBVIOUS
<1>1. IsFiniteSet({}) /\ Ass!Cardinality({}) <= MaxCached
  BY FS_EmptySet, Counted, Unsaid
<1>2. Ass!TypeOK
  BY <1>1 DEF Ass!Init, Ass!TypeOK
<1>3. Alone /\ Asked /\ Finite /\ Redrawn
  BY <1>1 DEF Ass!Init, Alone, Reads, Asked, Finite, Redrawn
<1>4. Ass!NewGeometryKept
  BY DEF Ass!Init, Ass!NewGeometryKept
<1> QED
  BY <1>2, <1>3, <1>4 DEF AssistantInv

\* Every step of the assistant keeps the invariant.
LEMMA AssistantStep ==
  ASSUME AssistantInv, Ass!Next
  PROVE  AssistantInv'
BY ComputeStep, FailStep, FaqStep, OpenStep, SendStep, ReplyStep DEF Ass!Next

\* While another service moves, nothing of the assistant changes.
LEMMA AssistantWaits ==
  AssistantInv /\ UNCHANGED assistant => AssistantInv'
<1> SUFFICES ASSUME AssistantInv, UNCHANGED assistant PROVE AssistantInv'
  OBVIOUS
<1>1. Going /\ UNCHANGED <<chat, faq, gathered, review>>
  BY DEF assistant, Going
<1>2. Ass!TypeOK'
  BY <1>1 DEF AssistantInv, Ass!TypeOK, Going
<1>3. Redrawn'
  BY <1>1 DEF AssistantInv, Redrawn
<1> QED
  BY <1>1, <1>2, <1>3, GoingOn

\* While the assistant moves, its invariant holds.
LEMMA AssistantAlways == Spec => [](part = "assistant" => AssistantInv)
<1> DEFINE I == part = "assistant" => AssistantInv
<1>1. Init => I
  BY AssistantStart DEF Init
<1>2. I /\ [Next]_vars => I'
  BY AssistantStep, AssistantWaits DEF Next, Only, vars
<1> QED
  BY <1>1, <1>2, PTL DEF Spec

\* The geometry drawn last is there for the turns that follow, whatever MAX_CACHED_GEOMETRIES
\* cuts off, unless an overlapping chat wrote an older copy of the map back, or its label was
\* in the map before others the same turn drew.
THEOREM GeometryKept == Spec => []NewGeometryKept
<1>1. (part = "assistant" => AssistantInv) => NewGeometryKept
  BY DEF AssistantInv, NewGeometryKept
<1> QED
  BY <1>1, AssistantAlways, PTL
===============================================================================
