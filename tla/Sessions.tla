------------------------------ MODULE Sessions ------------------------------
(***************************************************************************)
(* Login sessions and password resets of the GeOSM API                     *)
(* (src/application/use-cases/auth, and the two token repositories).       *)
(*                                                                         *)
(* A session is a FAMILY of refresh tokens: login creates the first row of *)
(* a new family, each refresh revokes the presented row and creates the    *)
(* next one.  No use case runs in a database transaction: between two      *)
(* awaits of one request any step of another request may happen, and the   *)
(* request goes on with what it read before.  One action below is one      *)
(* database statement of a handler, with the checks up to the next await.  *)
(*                                                                         *)
(* A read that decides nothing but a 401 and leaves every row as it was is *)
(* not a step: the request stays idle.  The email, the access token (JWT), *)
(* lastLoginAt and the wording of errors are left out.  A request that has *)
(* replied and a client that never uses the reply are the same thing here. *)
(***************************************************************************)
EXTENDS Integers

CONSTANTS User, Token, ResetToken, Request,
          None,          \* "no user", "no token"
          MaxGen         \* bound: how often the password of one user is set

ASSUME NoneAssumption == None \notin User \cup Token \cup ResetToken
ASSUME DisjointAssumption ==
  /\ Token \cap ResetToken = {} /\ Token \cap Request = {}
  /\ ResetToken \cap Request = {}
ASSUME BoundAssumption == MaxGen \in Nat

VARIABLES
  users, enabled,  \* table User: the rows that exist, those with isActive
  pwd,             \* and how often the password of each was set
  status,          \* table RefreshToken, by token value: state of the row,
  owner, family,   \* userId, family (named by its first token),
  next, expired,   \* replacedByToken, and the tokens past expiresAt
  rstatus, rowner, \* table PasswordResetToken: state of the row, userId,
  rexpired,        \* and the tokens past expiresAt
  pc,              \* per request: the statement it awaits next,
  who, tok, fresh, \* the user and refresh token it read, the value it minted,
  rtok             \* the reset token it read
(***************************************************************************)
(* History, read by no action: the password generation revokeAllByUserId   *)
(* last ran for; the families revokeAllByFamily ran on; the password       *)
(* generation a session was opened (or a request authenticated) under;     *)
(* requests that were in flight when a bulk revocation covering them ran,  *)
(* and the rows issued by them or their descendants; requests that rotated *)
(* a token another one had revoked since, and their rows and descendants;  *)
(* how many passwords were set under a reset token, up to two; and the     *)
(* reset tokens that two resets held at once, or whose reset broke off     *)
(* after it had set the password.                                          *)
(***************************************************************************)
VARIABLES cut, closed, era, overtaken, forked, spent, loose

account == <<users, enabled, pwd>>
refreshTable == <<status, owner, family, next, expired>>
resetTable == <<rstatus, rowner, rexpired>>
request == <<pc, who, tok, fresh, rtok>>
history == <<cut, closed, era, overtaken, forked, spent, loose>>
spending == <<spent, loose>>
vars == <<account, refreshTable, resetTable, request, history>>

\* "unused": the random value was never generated; "minted": generated by a
\* rotation, no row yet; "deleted": gone with its user (onDelete: Cascade).
RowStatus == {"unused", "minted", "active", "revoked", "deleted"}
ResetStatus == {"unused", "usable", "used", "deleted"}

Rotating == {"refresh_user", "refresh_rotate", "refresh_create"}
Issuing == {"login_issue"} \cup Rotating
Await == Issuing \cup
  {"idle", "refresh_reuse", "logout_revoke", "change_write", "change_revoke",
   "reset_write", "reset_revoke", "reset_invalidate",
   "forgot_invalidate", "forgot_create"}

TypeOK ==
  /\ users \in SUBSET User /\ enabled \in SUBSET User /\ pwd \in [User -> 0..MaxGen]
  /\ status \in [Token -> RowStatus] /\ owner \in [Token -> User \cup {None}]
  /\ family \in [Token -> Token \cup {None}] /\ next \in [Token -> Token \cup {None}]
  /\ expired \in SUBSET Token
  /\ rstatus \in [ResetToken -> ResetStatus] /\ rowner \in [ResetToken -> User \cup {None}]
  /\ rexpired \in SUBSET ResetToken
  /\ pc \in [Request -> Await] /\ who \in [Request -> User \cup {None}]
  /\ tok \in [Request -> Token \cup {None}] /\ fresh \in [Request -> Token \cup {None}]
  /\ rtok \in [Request -> ResetToken \cup {None}]
  /\ cut \in [User -> 0..MaxGen] /\ closed \in SUBSET Token
  /\ era \in [Token \cup Request -> 0..MaxGen]
  /\ overtaken \in SUBSET (Token \cup ResetToken \cup Request)
  /\ forked \in SUBSET (Token \cup Request)
  /\ spent \in [ResetToken -> 0..2] /\ loose \in SUBSET ResetToken

Init ==
  /\ users = User /\ enabled = User /\ pwd = [u \in User |-> 0]
  /\ status = [t \in Token |-> "unused"] /\ owner = [t \in Token |-> None]
  /\ family = [t \in Token |-> None] /\ next = [t \in Token |-> None]
  /\ expired = {}
  /\ rstatus = [p \in ResetToken |-> "unused"] /\ rowner = [p \in ResetToken |-> None]
  /\ rexpired = {}
  /\ pc = [r \in Request |-> "idle"] /\ who = [r \in Request |-> None]
  /\ tok = [r \in Request |-> None] /\ fresh = [r \in Request |-> None]
  /\ rtok = [r \in Request |-> None]
  /\ cut = [u \in User |-> 0] /\ closed = {}
  /\ era = [x \in Token \cup Request |-> 0] /\ overtaken = {} /\ forked = {}
  /\ spent = [p \in ResetToken |-> 0] /\ loose = {}

-----------------------------------------------------------------------------
(* Requests: what a handler keeps across an await, and its end. *)

Hold(r, p, u, t, x) ==
  /\ pc' = [pc EXCEPT ![r] = p]
  /\ who' = [who EXCEPT ![r] = u]
  /\ tok' = [tok EXCEPT ![r] = t]
  /\ fresh' = [fresh EXCEPT ![r] = None]
  /\ rtok' = [rtok EXCEPT ![r] = x]

\* A request that opens with a read, authenticated under generation g.
Begin(r, p, u, t, x, g) ==
  /\ pc[r] = "idle"
  /\ Hold(r, p, u, t, x)
  /\ era' = [era EXCEPT ![r] = g]

\* The request ends; its history goes on with the row y it issued, if any.
Finish(r) == Hold(r, "idle", None, None, None) /\ era' = [era EXCEPT ![r] = 0]
Bequeath(S, r, y) == (S \ {r}) \cup (IF r \in S THEN {y} ELSE {})

-----------------------------------------------------------------------------
(* The tables, as the repositories read and write them. *)

Present(t) == status[t] \in {"active", "revoked"}

\* RefreshToken.isRevoked; a version that forgets revokedAt
NeverRevoked(t) == FALSE
IsRevoked(t) == status[t] = "revoked"

\* revokeByToken sets revokedAt; a version that only records the replacement
StillActive(t) == status[t]
RevokedStatus(t) == "revoked"

\* replacedByToken as revokeByToken sets it; a version given the owner instead
ReplacedByOwner(t, n) == owner[t]
ReplacedBy(t, n) == n

\* The rows invalidateAllForUser updates; a version that only takes expired ones
PendingExpired(p, u) == rowner[p] = u /\ rstatus[p] = "usable" /\ p \in rexpired
PendingFor(p, u) == rowner[p] = u /\ rstatus[p] = "usable"

\* The check of ResetPassword on the row it found; a version without usedAt
UnexpiredReset(p) == rstatus[p] \in {"usable", "used"} /\ p \notin rexpired
ValidReset(p) == rstatus[p] = "usable" /\ p \notin rexpired

\* PrismaRefreshTokenRepository.create, for request r
CreateRow(r, t, f) ==
  /\ who[r] \in users
  /\ status' = [status EXCEPT ![t] = "active"]
  /\ owner' = [owner EXCEPT ![t] = who[r]]
  /\ family' = [family EXCEPT ![t] = f]
  /\ Hold(r, "idle", None, None, None)
  /\ era' = [era EXCEPT ![t] = era[r], ![r] = 0]
  /\ overtaken' = Bequeath(overtaken, r, t)
  /\ forked' = Bequeath(forked, r, t)
  /\ UNCHANGED <<account, next, expired, resetTable, cut, closed, spending>>

\* PrismaRefreshTokenRepository.revokeAllByFamily, the last statement of r
RevokeAllByFamily(r, f) ==
  /\ status' = [t \in Token |-> IF family[t] = f /\ status[t] = "active"
                                  THEN "revoked" ELSE status[t]]
  /\ closed' = closed \cup {f}
  /\ Finish(r)
  /\ overtaken' = (overtaken \cup {q \in Request : /\ pc[q] \in Rotating
                                                   /\ family[tok[q]] = f}) \ {r}
  /\ UNCHANGED <<account, owner, family, next, expired, resetTable, cut, forked, spending>>

\* PrismaRefreshTokenRepository.revokeAllByUserId, r going on to await p
RevokeAllByUserId(r, p) ==
  LET u == who[r] IN
  /\ status' = [t \in Token |-> IF owner[t] = u /\ status[t] = "active"
                                  THEN "revoked" ELSE status[t]]
  /\ cut' = [cut EXCEPT ![u] = IF era[r] > cut[u] THEN era[r] ELSE cut[u]]
  /\ overtaken' = (overtaken \cup {q \in Request : /\ pc[q] \in Issuing
                                                   /\ who[q] = u}) \ {r}
  /\ IF p = "idle" THEN Hold(r, p, None, None, None) ELSE Hold(r, p, u, None, rtok[r])
  /\ era' = [era EXCEPT ![r] = 0]
  /\ UNCHANGED <<account, owner, family, next, expired, resetTable, closed, forked, spending>>

\* PrismaPasswordResetTokenRepository.invalidateAllForUser, r going on to await p
InvalidateAllForUser(r, p) ==
  LET u == who[r] IN
  /\ rstatus' = [x \in ResetToken |-> IF PendingFor(x, u) THEN "used" ELSE rstatus[x]]
  /\ overtaken' = (overtaken \cup {q \in Request :
                     /\ pc[q] \in {"forgot_create", "reset_write"}
                     /\ who[q] = u}) \ {r}
  /\ Hold(r, p, IF p = "idle" THEN None ELSE u, None, None)
  /\ UNCHANGED <<account, refreshTable, rowner, rexpired, cut, closed, era, forked, spending>>

\* userRepository.update(id, { passwordHash }), r going on to await p
WritePassword(r, p) ==
  LET u == who[r] IN
  /\ u \in users
  /\ pwd[u] < MaxGen
  /\ pwd' = [pwd EXCEPT ![u] = pwd[u] + 1]
  /\ Hold(r, p, u, None, rtok[r])
  /\ era' = [era EXCEPT ![r] = pwd[u] + 1]
  /\ overtaken' = overtaken \ {r}
  /\ UNCHANGED <<users, enabled, refreshTable, resetTable, cut, closed, forked, loose>>

-----------------------------------------------------------------------------
(* Login and OSM login: read the account, then create the first row. *)

\* The password presented is the one of the row read here.
LoginRead(r, u) ==
  /\ u \in users /\ u \in enabled
  /\ Begin(r, "login_issue", u, None, None, pwd[u])
  /\ UNCHANGED <<account, refreshTable, resetTable, cut, closed, overtaken, forked, spending>>

\* An account linked to an OSM profile; isActive is not looked at.
OsmLoginRead(r, u) ==
  /\ u \in users
  /\ Begin(r, "login_issue", u, None, None, pwd[u])
  /\ UNCHANGED <<account, refreshTable, resetTable, cut, closed, overtaken, forked, spending>>

LoginIssue(r) ==
  /\ pc[r] = "login_issue"
  /\ \E t \in Token : status[t] = "unused" /\ CreateRow(r, t, t)

(* Refresh: find the token, find the user, revoke the token, create the next. *)

RefreshRead(r, t) ==
  /\ Present(t)
  /\ IsRevoked(t) \/ t \notin expired
  /\ Begin(r, IF IsRevoked(t) THEN "refresh_reuse" ELSE "refresh_user",
           owner[t], t, None, era[t])
  /\ overtaken' = IF t \in overtaken THEN overtaken \cup {r} ELSE overtaken
  /\ UNCHANGED <<account, refreshTable, resetTable, cut, closed, forked, spending>>

\* Reuse of a revoked token: the whole family is revoked, the request fails.
RefreshReuse(r) ==
  /\ pc[r] = "refresh_reuse"
  /\ RevokeAllByFamily(r, family[tok[r]])

RefreshUser(r) ==
  /\ pc[r] = "refresh_user"
  /\ IF who[r] \in users \cap enabled
       THEN pc' = [pc EXCEPT ![r] = "refresh_rotate"]
              /\ UNCHANGED <<who, tok, fresh, rtok, era, overtaken>>
       ELSE Finish(r) /\ overtaken' = overtaken \ {r}
  /\ UNCHANGED <<account, refreshTable, resetTable, cut, closed, forked, spending>>

\* revokeByToken(old, new) asks nothing of the row but that it exists.
RefreshRotate(r) ==
  LET t == tok[r] IN
  /\ pc[r] = "refresh_rotate"
  /\ Present(t)
  /\ \E n \in Token :
       /\ status[n] = "unused"
       /\ status' = [status EXCEPT ![t] = RevokedStatus(t), ![n] = "minted"]
       /\ next' = [next EXCEPT ![t] = ReplacedBy(t, n)]
       /\ fresh' = [fresh EXCEPT ![r] = n]
  /\ pc' = [pc EXCEPT ![r] = "refresh_create"]
  /\ forked' = IF t \in forked \/ IsRevoked(t) THEN forked \cup {r} ELSE forked
  /\ UNCHANGED <<account, owner, family, expired, resetTable, who, tok, rtok,
                 cut, closed, era, overtaken, spending>>

RefreshCreate(r) ==
  /\ pc[r] = "refresh_create"
  /\ CreateRow(r, fresh[r], family[tok[r]])

(* Logout: find the token, revoke its family. *)

LogoutRead(r, t) ==
  /\ Present(t)
  /\ Begin(r, "logout_revoke", owner[t], t, None, 0)
  /\ UNCHANGED <<account, refreshTable, resetTable, cut, closed, overtaken, forked, spending>>

LogoutRevoke(r) ==
  /\ pc[r] = "logout_revoke"
  /\ RevokeAllByFamily(r, family[tok[r]])

(* Change password: verify the current one, write the new one, revoke all. *)

ChangeRead(r, u) ==
  /\ u \in users
  /\ Begin(r, "change_write", u, None, None, 0)
  /\ UNCHANGED <<account, refreshTable, resetTable, cut, closed, overtaken, forked, spending>>

ChangeWrite(r) ==
  /\ pc[r] = "change_write"
  /\ WritePassword(r, "change_revoke")
  /\ UNCHANGED spent

ChangeRevoke(r) == pc[r] = "change_revoke" /\ RevokeAllByUserId(r, "idle")

(* Forgot password: invalidate the older reset tokens, create a new one. *)

ForgotRead(r, u) ==
  /\ u \in users
  /\ Begin(r, "forgot_invalidate", u, None, None, 0)
  /\ UNCHANGED <<account, refreshTable, resetTable, cut, closed, overtaken, forked, spending>>

ForgotInvalidate(r) ==
  pc[r] = "forgot_invalidate" /\ InvalidateAllForUser(r, "forgot_create")

ForgotCreate(r) ==
  /\ pc[r] = "forgot_create"
  /\ who[r] \in users
  /\ \E p \in ResetToken :
       /\ rstatus[p] = "unused"
       /\ rstatus' = [rstatus EXCEPT ![p] = "usable"]
       /\ rowner' = [rowner EXCEPT ![p] = who[r]]
       /\ overtaken' = Bequeath(overtaken, r, p)
  /\ Finish(r)
  /\ UNCHANGED <<account, refreshTable, rexpired, cut, closed, forked, spending>>

(* Reset password: check the token, write the password, revoke, invalidate. *)

ResetRead(r, p) ==
  /\ ValidReset(p)
  /\ rowner[p] \in users
  /\ Begin(r, "reset_write", rowner[p], None, p, 0)
  /\ loose' = IF \E q \in Request : rtok[q] = p THEN loose \cup {p} ELSE loose
  /\ UNCHANGED <<account, refreshTable, resetTable, cut, closed, overtaken, forked, spent>>

\* Nothing is asked of the token again.
ResetWrite(r) ==
  /\ pc[r] = "reset_write"
  /\ WritePassword(r, "reset_revoke")
  /\ spent' = [spent EXCEPT ![rtok[r]] = IF @ = 0 THEN 1 ELSE 2]

ResetRevoke(r) == pc[r] = "reset_revoke" /\ RevokeAllByUserId(r, "reset_invalidate")

ResetInvalidate(r) == pc[r] = "reset_invalidate" /\ InvalidateAllForUser(r, "idle")

-----------------------------------------------------------------------------
(* Administration, time and failure. *)

\* ToggleUserActiveUseCase writes the flag it is given; no session is revoked.
SetActive(u) ==
  /\ u \in users
  /\ enabled' = IF u \in enabled THEN enabled \ {u} ELSE enabled \cup {u}
  /\ UNCHANGED <<users, pwd, refreshTable, resetTable, request, history>>

\* DeleteUserUseCase: refresh and reset tokens go with the row.
DeleteUser(u) ==
  /\ u \in users
  /\ users' = users \ {u}
  /\ status' = [t \in Token |-> IF owner[t] = u THEN "deleted" ELSE status[t]]
  /\ rstatus' = [p \in ResetToken |-> IF rowner[p] = u THEN "deleted" ELSE rstatus[p]]
  /\ UNCHANGED <<enabled, pwd, owner, family, next, expired, rowner, rexpired,
                 request, history>>

\* Seven days pass; of a revoked row the code never asks whether it is expired.
Expire(t) ==
  /\ status[t] = "active" /\ t \notin expired
  /\ expired' = expired \cup {t}
  /\ UNCHANGED <<account, status, owner, family, next, resetTable, request, history>>

\* One hour passes.
ExpireReset(p) ==
  /\ rstatus[p] = "usable" /\ p \notin rexpired
  /\ rexpired' = rexpired \cup {p}
  /\ UNCHANGED <<account, refreshTable, rstatus, rowner, request, history>>

\* An await rejects (row gone, foreign key, connection lost) or the process
\* stops: what the request has written stays, the rest is never done.
Abort(r) ==
  /\ pc[r] # "idle"
  /\ Finish(r)
  /\ overtaken' = overtaken \ {r}
  /\ forked' = forked \ {r}
  /\ loose' = loose \cup {p \in ResetToken : /\ rtok[r] = p
                                             /\ pc[r] \in {"reset_revoke", "reset_invalidate"}}
  /\ UNCHANGED <<account, refreshTable, resetTable, cut, closed, spent>>

Handler(r) ==
  \/ \E u \in User : \/ LoginRead(r, u) \/ OsmLoginRead(r, u)
                     \/ ChangeRead(r, u) \/ ForgotRead(r, u)
  \/ \E t \in Token : RefreshRead(r, t) \/ LogoutRead(r, t)
  \/ \E p \in ResetToken : ResetRead(r, p)
  \/ LoginIssue(r)
  \/ RefreshReuse(r) \/ RefreshUser(r) \/ RefreshRotate(r) \/ RefreshCreate(r)
  \/ LogoutRevoke(r)
  \/ ChangeWrite(r) \/ ChangeRevoke(r)
  \/ ForgotInvalidate(r) \/ ForgotCreate(r)
  \/ ResetWrite(r) \/ ResetRevoke(r) \/ ResetInvalidate(r)
  \/ Abort(r)

Environment ==
  \/ \E u \in User : SetActive(u) \/ DeleteUser(u)
  \/ \E t \in Token : Expire(t)
  \/ \E p \in ResetToken : ExpireReset(p)

Next == (\E r \in Request : Handler(r)) \/ Environment

Spec == Init /\ [][Next]_vars

-----------------------------------------------------------------------------
(* Properties *)

\* A usable session is neither in a family that logout or reuse detection has
\* revoked, nor opened under a password older than the last one whose change
\* reported "all sessions revoked" -- unless the request that issued it (or an
\* ancestor of the token) was already in flight when that revocation ran.
NoSurvivorUnlessOvertaken ==
  \A t \in Token :
    status[t] = "active" /\ t \notin overtaken =>
      family[t] \notin closed /\ era[t] >= cut[owner[t]]

\* Rotation keeps one active token per family, except in branches that start
\* with a refresh whose revokeByToken hit a token another refresh had already
\* revoked since it was read (revokeByToken has no "revokedAt: null" condition).
OneActiveUnlessForked ==
  \A s, t \in Token :
    /\ status[s] = "active" /\ s \notin forked
    /\ status[t] = "active" /\ t \notin forked
    /\ family[s] = family[t]
    => s = t

\* A token that names its replacement is no longer active, whatever ran since,
\* and the replacement, once created, belongs to the same user and family: the
\* family that reuse detection revokes holds every descendant of the token.
RotationLineage ==
  \A t \in Token : next[t] # None =>
    /\ status[t] \in {"revoked", "deleted"}
    /\ Present(next[t]) => family[next[t]] = family[t] /\ owner[next[t]] = owner[t]

\* One unused reset token per user, except those whose ForgotPassword was
\* overtaken by another invalidation between its own and its create.
OneUsableResetUnlessOvertaken ==
  \A p, q \in ResetToken :
    /\ rstatus[p] = "usable" /\ p \notin overtaken
    /\ rstatus[q] = "usable" /\ q \notin overtaken
    /\ rowner[p] = rowner[q]
    => p = q

\* A reset token sets a second password only if two ResetPassword held it at once,
\* each past the check before the other's invalidation, or if one broke off between
\* its password and its invalidation: whoever comes later finds the token used.
OnePasswordPerResetToken ==
  \A p \in ResetToken : spent[p] = 2 => p \in loose

-----------------------------------------------------------------------------
(* What the code's messages and comments claim; runs refute these. *)

\* change-password.use-case.ts:36 "Password changed, all sessions revoked":
\* once that revocation ran, no session opened under an older password is left.
PasswordChangeRevokesAllSessions ==
  \A t \in Token : status[t] = "active" => era[t] >= cut[owner[t]]

\* forgot-password.use-case.ts:32-33 "un seul token valide a la fois par
\* utilisateur": never two unused, unexpired reset tokens of one user.
OneValidResetTokenPerUser ==
  \A p, q \in ResetToken :
    /\ rstatus[p] = "usable" /\ p \notin rexpired
    /\ rstatus[q] = "usable" /\ q \notin rexpired
    /\ rowner[p] = rowner[q]
    => p = q

\* reset-password.use-case.ts:46 "Usage unique": a reset token, checked first and
\* invalidated by the last of four statements, never sets two passwords.
ResetTokenSingleUse == \A p \in ResetToken : spent[p] <= 1
=============================================================================
