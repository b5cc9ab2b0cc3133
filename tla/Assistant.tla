------------------------------ MODULE Assistant ------------------------------
(***************************************************************************)
(* Conversations with the assistant and the FAQ drawn from their           *)
(* questions.  A chat reads the conversation, lets the model call tools    *)
(* for as long as it likes, and writes turns and geometries back WHOLE:    *)
(* what another chat of the same conversation wrote meanwhile is lost.     *)
(*                                                                         *)
(* Rows of plans and reports a tool orders are those of BackgroundJobs;    *)
(* the tools that only read, the texts, the sources cited and the title    *)
(* are left out.  A label stands for the geometry computed under it.       *)
(***************************************************************************)
EXTENDS Naturals, FiniteSets, Sequences, SequencesExt

CONSTANTS Conversation, Message,
          Label,        \* numbers: their order is that of the keys of a jsonb object
          MaxCached,    \* MAX_CACHED_GEOMETRIES
          Entry, Request, None

VARIABLES
  turns,    \* per conversation: the messages answered, in order, or None without row
  cache,    \* per conversation: the labels of the geometries kept
  chat,     \* per request: what it read, the labels it added and drew last since, or None
  faq,      \* per entry: its status, or None
  gathered, \* whether a generation has read questions and waits for the model
  review,   \* per request: the entry it found in DRAFT and its decision, or None
  sent      \* the messages sent so far: each is sent once
(***************************************************************************)
(* History, read by no action: conversations created; those with two chats *)
(* at once; the label drawn last in the last answered turn that drew, and  *)
(* whether that was again, with labels of the same turn after it.          *)
(***************************************************************************)
VARIABLES past, crossed, newest

conversations == <<turns, cache, chat, sent>>
faqs == <<faq, gathered, review>>
history == <<past, crossed, newest>>
vars == <<conversations, faqs, history>>

Chat == [of : Conversation, message : Message, prior : Seq(Message), old : SUBSET Label,
         fresh : Seq(Label), last : Label \cup {None}]
Decision == {"PUBLISHED", "REJECTED"}
Review == [of : Entry, decision : Decision]
Drawn == [label : Label, again : BOOLEAN, message : Message]

TypeOK ==
  /\ turns \in [Conversation -> Seq(Message) \cup {None}]
  /\ cache \in [Conversation -> SUBSET Label]
  /\ \A c \in Conversation : Cardinality(cache[c]) <= MaxCached
  /\ chat \in [Request -> Chat \cup {None}]
  /\ faq \in [Entry -> {"DRAFT", None} \cup Decision] /\ gathered \in BOOLEAN
  /\ review \in [Request -> Review \cup {None}] /\ sent \subseteq Message
  /\ past \subseteq Conversation /\ newest \in [Conversation -> Drawn \cup {None}]

Init ==
  /\ turns = [c \in Conversation |-> None] /\ cache = [c \in Conversation |-> {}]
  /\ chat = [h \in Request |-> None] /\ faq = [e \in Entry |-> None]
  /\ gathered = FALSE /\ review = [h \in Request |-> None]
  /\ sent = {} /\ past = {} /\ crossed = {} /\ newest = [c \in Conversation |-> None]

Idle(h) == chat[h] = None /\ review[h] = None
-----------------------------------------------------------------------------
CreateConversation(c) ==
  /\ c \notin past /\ past' = past \cup {c} /\ turns' = [turns EXCEPT ![c] = <<>>]
  /\ UNCHANGED <<cache, chat, sent, faqs, crossed, newest>>

DeleteConversation(c) ==
  /\ turns[c] # None /\ turns' = [turns EXCEPT ![c] = None]
  /\ cache' = [cache EXCEPT ![c] = {}]
  /\ UNCHANGED <<chat, sent, faqs, history>>

\* AssistantChatUseCase reads the conversation.
Send(h, c, m) ==
  /\ Idle(h) /\ turns[c] # None /\ m \notin sent /\ sent' = sent \cup {m}
  /\ chat' = [chat EXCEPT ![h] = [of |-> c, message |-> m, prior |-> turns[c],
                                  old |-> cache[c], fresh |-> <<>>, last |-> None]]
  /\ crossed' = crossed \cup
       IF \E g \in Request : chat[g] # None /\ chat[g].of = c THEN {c} ELSE {}
  /\ UNCHANGED <<turns, cache, faqs, past, newest>>

Known(x) == x.old \cup ToSet(x.fresh)

\* geometryCache.set: a label the map has keeps its place, a new one comes last.
Set(x, l) ==
  [x EXCEPT !.fresh = IF l \in Known(x) THEN @ ELSE Append(@, l), !.last = l]

\* compute_geometry: from a geometry given or one cached under the label "ref".
Compute(h, l, ref) ==
  /\ chat[h] # None /\ ref \in Known(chat[h]) \cup {None}
  /\ chat' = [chat EXCEPT ![h] = Set(@, l)]
  /\ UNCHANGED <<turns, cache, sent, faqs, history>>

\* A version that keeps the first entries of the map
KeepFirst(x) ==
  {l \in x.old : Cardinality({k \in x.old : k < l}) < MaxCached}
    \cup {x.fresh[i] : i \in {i \in 1..Len(x.fresh) : Cardinality(x.old) + i <= MaxCached}}
\* A version that keeps them all
KeepAll(x) == Known(x)
\* The last MAX_CACHED_GEOMETRIES entries of the map, those with fewer than that many after
\* them: what was loaded comes in key order, then what this turn added.
Kept(x) ==
  LET n == Len(x.fresh) IN
  {l \in x.old : Cardinality({k \in x.old : k > l}) + n < MaxCached}
    \cup {x.fresh[i] : i \in {i \in 1..n : n - i < MaxCached}}

\* The turns and the geometries are written back; the update fails without the row.
Reply(h) ==
  LET x == chat[h] IN
  /\ x # None /\ chat' = [chat EXCEPT ![h] = None]
  /\ IF turns[x.of] = None THEN UNCHANGED <<turns, cache, newest>>
     ELSE /\ turns' = [turns EXCEPT ![x.of] = Append(x.prior, x.message)]
          /\ cache' = [cache EXCEPT ![x.of] = Kept(x)]
          /\ newest' = IF x.last = None THEN newest
                       ELSE [newest EXCEPT ![x.of] =
                              [label |-> x.last, message |-> x.message,
                               again |-> x.fresh # <<>> /\ Last(x.fresh) # x.last]]
  /\ UNCHANGED <<sent, faqs, past, crossed>>

\* The model's service answers with an error, or the process stops: nothing is written.
ChatFails(h) ==
  /\ chat[h] # None /\ chat' = [chat EXCEPT ![h] = None]
  /\ UNCHANGED <<turns, cache, sent, faqs, history>>

-----------------------------------------------------------------------------
\* The scheduled generation reads every conversation's questions.
Gather ==
  /\ ~gathered /\ \E c \in Conversation : turns[c] \notin {None, <<>>}
  /\ gathered' = TRUE /\ UNCHANGED <<conversations, faq, review, history>>

\* The groups the model makes of them become drafts; an error makes none.
Generate(es) ==
  /\ gathered /\ gathered' = FALSE /\ \A e \in es : faq[e] = None
  /\ faq' = [e \in Entry |-> IF e \in es THEN "DRAFT" ELSE faq[e]]
  /\ UNCHANGED <<conversations, review, history>>

\* ReviewInstanceFaqUseCase checks the status, then writes the decision by id.
ReviewRead(h, e, d) ==
  /\ Idle(h) /\ faq[e] = "DRAFT"
  /\ review' = [review EXCEPT ![h] = [of |-> e, decision |-> d]]
  /\ UNCHANGED <<conversations, faq, gathered, history>>

ReviewWrite(h) ==
  /\ review[h] # None /\ review' = [review EXCEPT ![h] = None]
  /\ faq' = [faq EXCEPT ![review[h].of] = review[h].decision]
  /\ UNCHANGED <<conversations, gathered, history>>

Next ==
  \/ \E c \in Conversation : CreateConversation(c) \/ DeleteConversation(c)
  \/ \E h \in Request, c \in Conversation, m \in Message : Send(h, c, m)
  \/ \E h \in Request, l \in Label, ref \in Label \cup {None} : Compute(h, l, ref)
  \/ \E h \in Request : Reply(h) \/ ChatFails(h) \/ ReviewWrite(h)
  \/ Gather
  \/ \E es \in SUBSET Entry : Generate(es)
  \/ \E h \in Request, e \in Entry, d \in Decision : ReviewRead(h, e, d)

Spec == Init /\ [][Next]_vars
-----------------------------------------------------------------------------
\* "Draw a circle", then "analyse this area": the geometry drawn last is there for the
\* turns that follow, however many the conversation has kept.  A chat that overlaps another
\* may write it away, but for the turn that drew it; and so may the cut, if the turn drew it
\* under a label the map had and adds other labels, which come after it in the map.
NewGeometryKept ==
  \A c \in past : newest[c] # None /\ turns[c] # None =>
    \/ newest[c].label \in cache[c]
    \/ newest[c].again
    \/ c \in crossed /\ Last(turns[c]) # newest[c].message
=============================================================================
