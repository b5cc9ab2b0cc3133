------------------------------- MODULE Accounts -------------------------------
(***************************************************************************)
(* Accounts and the OpenStreetMap identities linked to them: registration, *)
(* e-mail verification, login through OpenStreetMap, link and unlink, and  *)
(* the administrator's creations, changes and deletions.                   *)
(*                                                                         *)
(* A handler is several statements with no transaction around them; only   *)
(* the unique keys (e-mail, user and OSM identity of a profile) and the    *)
(* foreign keys stop it.  Roles, names and avatars are left out here.      *)
(***************************************************************************)
EXTENDS Naturals, FiniteSets

CONSTANTS User,          \* the accounts that may ever be created
          Osm, EmailOf,  \* OSM identities, and the e-mail each gives to its account
          Email, Request, None

VARIABLES
  email,    \* per account: its e-mail, None before it exists and once deleted
  verified, \* the accounts whose e-mail is verified
  token,    \* per account: its verification token
  mailed,   \* the accounts whose token reached their address
  osm,      \* per account: the OSM identity its profile is of, None without profile
  pc, addr, who, from \* per request: its next statement, e-mail, account, OSM identity
(***************************************************************************)
(* History, read by no action: accounts ever created; the identity whose   *)
(* first login created one; accounts whose profile was unlinked, or linked *)
(* while another request about it ran; identities with two requests at     *)
(* once; accounts whose creation died halfway; the account an identity     *)
(* last logged into.                                                       *)
(***************************************************************************)
VARIABLES past, born, unlinked, mixed, contested, broken, lastIn

rowsOf == <<email, verified, token, mailed, osm>>
requests == <<pc, addr, who, from>>
history == <<past, born, unlinked, mixed, contested, broken, lastIn>>
vars == <<rowsOf, requests, history>>

TypeOK ==
  /\ email \in [User -> Email \cup {None}] /\ verified \subseteq User
  /\ token \in [User -> {"none", "pending", "used"}]
  /\ mailed \subseteq User /\ osm \in [User -> Osm \cup {None}]
  /\ pc \in [Request -> {"idle", "creating", "tokening", "mailing", "signing",
                         "verifying", "using", "upserting", "linking"}]
  /\ addr \in [Request -> Email \cup {None}] /\ who \in [Request -> User \cup {None}]
  /\ from \in [Request -> Osm \cup {None}]
  /\ lastIn \in [Osm -> User \cup {None}] /\ born \in [User -> Osm \cup {None}]

Init ==
  /\ email = [u \in User |-> None] /\ verified = {} /\ token = [u \in User |-> "none"]
  /\ mailed = {} /\ osm = [u \in User |-> None]
  /\ pc = [h \in Request |-> "idle"] /\ addr = [h \in Request |-> None]
  /\ who = [h \in Request |-> None] /\ from = [h \in Request |-> None]
  /\ past = {} /\ born = [u \in User |-> None] /\ unlinked = {} /\ mixed = {}
  /\ contested = {} /\ broken = {} /\ lastIn = [o \in Osm |-> None]

Exists(u) == email[u] # None
EmailFree(e) == \A u \in User : email[u] # e
OwnersOf(o) == {u \in User : osm[u] = o}

Goto(h, s) == pc' = [pc EXCEPT ![h] = s]
Done(h) == /\ Goto(h, "idle") /\ addr' = [addr EXCEPT ![h] = None]
           /\ who' = [who EXCEPT ![h] = None] /\ from' = [from EXCEPT ![h] = None]
Break(u) == broken' = broken \cup {u}
-----------------------------------------------------------------------------
\* RegisterUseCase: existsByEmail, then the hash of the password.
RegisterCheck(h, e) ==
  /\ pc[h] = "idle" /\ EmailFree(e)
  /\ Goto(h, "creating") /\ addr' = [addr EXCEPT ![h] = e]
  /\ UNCHANGED <<rowsOf, who, from, history>>

\* A version that logs the new account in before anything else
SignAtOnce(h) == IF from[h] = None THEN "tokening" ELSE "signing"
\* The step after the account's row: a token, or the profile it was created for.
AfterCreate(h) == IF from[h] = None THEN "tokening" ELSE "upserting"

Insert(u, e) == /\ u \notin past /\ past' = past \cup {u}
                /\ email' = [email EXCEPT ![u] = e]

\* userRepository.create, for a registration or a first OSM login: fails on an e-mail
\* that was taken meanwhile.
Create(h, u) ==
  /\ pc[h] = "creating"
  /\ IF EmailFree(addr[h])
     THEN /\ Insert(u, addr[h]) /\ who' = [who EXCEPT ![h] = u]
          /\ born' = [born EXCEPT ![u] = from[h]]
          /\ Goto(h, AfterCreate(h)) /\ UNCHANGED <<addr, from>>
     ELSE u \notin past /\ Done(h) /\ UNCHANGED <<email, past, born>>
  /\ UNCHANGED <<verified, token, mailed, osm, unlinked, mixed, contested, broken, lastIn>>

CreateToken(h) ==
  /\ pc[h] = "tokening"
  /\ IF Exists(who[h])
     THEN token' = [token EXCEPT ![who[h]] = "pending"] /\ Goto(h, "mailing")
          /\ UNCHANGED <<addr, who, from>>
     ELSE Done(h) /\ UNCHANGED token
  /\ UNCHANGED <<email, verified, mailed, osm, history>>

\* sendVerificationEmail: an SMTP error is logged and the registration goes on.
Mail(h) ==
  /\ pc[h] = "mailing" /\ Goto(h, "signing")
  /\ mailed' \in {mailed, mailed \cup {who[h]}}
  /\ UNCHANGED <<email, verified, token, osm, addr, who, from, history>>

\* The refresh token of the new session: its foreign key needs the account.
Session(h) ==
  /\ pc[h] = "signing" /\ Done(h)
  /\ lastIn' = IF from[h] # None /\ Exists(who[h])
               THEN [lastIn EXCEPT ![from[h]] = who[h]] ELSE lastIn
  /\ UNCHANGED <<rowsOf, past, born, unlinked, mixed, contested, broken>>

-----------------------------------------------------------------------------
\* VerifyEmailUseCase: an unused token that reached its address, of an account that is
\* not yet verified.
VerifyRead(h, u) ==
  /\ pc[h] = "idle" /\ u \in mailed /\ token[u] = "pending"
  /\ Exists(u) /\ u \notin verified
  /\ Goto(h, "verifying") /\ who' = [who EXCEPT ![h] = u]
  /\ UNCHANGED <<rowsOf, addr, from, history>>

VerifyWrite(h) ==
  /\ pc[h] = "verifying"
  /\ IF Exists(who[h])
     THEN verified' = verified \cup {who[h]} /\ Goto(h, "using")
          /\ UNCHANGED <<addr, who, from>>
     ELSE Done(h) /\ UNCHANGED verified
  /\ UNCHANGED <<email, token, mailed, osm, history>>

\* invalidateAllForUser: a row that is gone is no error.
UseTokens(h) ==
  /\ pc[h] = "using" /\ Done(h)
  /\ token' = [token EXCEPT ![who[h]] = IF Exists(who[h]) THEN "used" ELSE @]
  /\ UNCHANGED <<email, verified, mailed, osm, history>>

-----------------------------------------------------------------------------
\* Two requests about one identity at once.
Contest(h, o) ==
  contested' = contested \cup IF \E g \in Request \ {h} : from[g] = o THEN {o} ELSE {}

\* OsmLoginUseCase: the account linked to the identity, or a new one under its e-mail.
OsmRead(h, o) ==
  /\ pc[h] = "idle" /\ from' = [from EXCEPT ![h] = o] /\ Contest(h, o)
  /\ \/ \E u \in OwnersOf(o) :
          Goto(h, "upserting") /\ who' = [who EXCEPT ![h] = u] /\ UNCHANGED addr
     \/ /\ OwnersOf(o) = {} /\ Goto(h, "creating")
        /\ addr' = [addr EXCEPT ![h] = EmailOf[o]] /\ UNCHANGED who
  /\ UNCHANGED <<rowsOf, past, born, unlinked, mixed, broken, lastIn>>

\* A version whose update branch moves the profile to the new identity
MoveProfile(u, o) ==
  /\ osm[u] # None \/ OwnersOf(o) = {}
  /\ osm' = [osm EXCEPT ![u] = o]
(***************************************************************************)
(* osmProfileRepository.upsert, keyed by the account: the update branch    *)
(* writes the name and the access token, not the identity.                 *)
(***************************************************************************)
WriteProfile(u, o) ==
  /\ osm[u] # None \/ OwnersOf(o) = {}
  /\ osm' = [osm EXCEPT ![u] = IF @ = None THEN o ELSE @]

\* The row that would be created breaks a foreign or a unique key.
ProfileRefused(u, o) == ~Exists(u) \/ (osm[u] = None /\ OwnersOf(o) # {})

Upsert(h) ==
  /\ pc[h] \in {"upserting", "linking"}
  /\ IF ProfileRefused(who[h], from[h])
     THEN Done(h) /\ UNCHANGED osm
     ELSE /\ WriteProfile(who[h], from[h])
          /\ IF pc[h] = "linking" THEN Done(h)
             ELSE Goto(h, "signing") /\ UNCHANGED <<addr, who, from>>
  /\ UNCHANGED <<email, verified, token, mailed, history>>

\* LinkOsmAccountUseCase: the identity must not be another account's.
LinkRead(h, u, o) ==
  /\ pc[h] = "idle" /\ Exists(u) /\ OwnersOf(o) \subseteq {u}
  /\ Goto(h, "linking") /\ who' = [who EXCEPT ![h] = u]
  /\ from' = [from EXCEPT ![h] = o] /\ Contest(h, o)
  /\ mixed' = mixed \cup
       IF \E g \in Request : who[g] = u /\ from[g] # None THEN {u} ELSE {}
  /\ UNCHANGED <<rowsOf, addr, past, born, unlinked, broken, lastIn>>

Unlink(u) ==
  /\ osm[u] # None /\ osm' = [osm EXCEPT ![u] = None] /\ unlinked' = unlinked \cup {u}
  /\ UNCHANGED <<email, verified, token, mailed, requests, past, born, mixed, contested,
                 broken, lastIn>>

-----------------------------------------------------------------------------
\* The administrator's account, verified from the start.
CreateUser(u, e) ==
  /\ EmailFree(e) /\ Insert(u, e) /\ verified' = verified \cup {u}
  /\ UNCHANGED <<token, mailed, osm, requests, born, unlinked, mixed, contested, broken,
                 lastIn>>

\* UpdateUserUseCase may change the e-mail, to one no account has.
UpdateUser(u, e) ==
  /\ Exists(u) /\ EmailFree(e) /\ email' = [email EXCEPT ![u] = e]
  /\ UNCHANGED <<verified, token, mailed, osm, requests, history>>

\* The row, and by cascade its tokens and its profile.
DeleteUser(u) ==
  /\ Exists(u) /\ email' = [email EXCEPT ![u] = None] /\ verified' = verified \ {u}
  /\ token' = [token EXCEPT ![u] = "none"]
  /\ osm' = [osm EXCEPT ![u] = None] /\ UNCHANGED <<mailed, requests, history>>

\* A request dies between two statements.
Abort(h) ==
  /\ pc[h] # "idle" /\ Done(h)
  /\ IF who[h] = None THEN UNCHANGED broken ELSE Break(who[h])
  /\ UNCHANGED <<rowsOf, past, born, unlinked, mixed, contested, lastIn>>

Next ==
  \/ \E h \in Request, e \in Email : RegisterCheck(h, e)
  \/ \E h \in Request, u \in User : Create(h, u) \/ VerifyRead(h, u)
  \/ \E h \in Request : \/ CreateToken(h) \/ Mail(h) \/ Session(h) \/ VerifyWrite(h)
                        \/ UseTokens(h) \/ Upsert(h) \/ Abort(h)
  \/ \E h \in Request, o \in Osm : OsmRead(h, o)
  \/ \E h \in Request, u \in User, o \in Osm : LinkRead(h, u, o)
  \/ \E u \in User, e \in Email : CreateUser(u, e) \/ UpdateUser(u, e)
  \/ \E u \in User : Unlink(u) \/ DeleteUser(u)

Spec == Init /\ [][Next]_vars
-----------------------------------------------------------------------------
Working(u) == \E h \in Request : who[h] = u

\* Whoever logs in through OpenStreetMap comes back to the same account, for as long as
\* it exists and was not unlinked: a later link of the account to another identity does
\* not take the first one away (one made while that login was at work may).
SameAccountEachLogin ==
  \A o \in Osm : LET u == lastIn[o] IN
    u # None => ~Exists(u) \/ u \in unlinked \cup mixed \/ osm[u] = o

\* An account a first OSM login created (its password is random) has its profile, unless
\* that login died, the identity was in two requests at once, or the user unlinked it.
OsmAccountHasItsProfile ==
  \A u \in User :
    born[u] # None /\ Exists(u) /\ ~Working(u)
    => osm[u] # None \/ u \in unlinked \cup broken \/ born[u] \in contested
=============================================================================
