-------------------------------- MODULE Access --------------------------------
(***************************************************************************)
(* Which routes a call is served on.  A route's guard reads the role in    *)
(* the access token, not the account's row: what an administrator changes  *)
(* on an account reaches its calls when the account next logs in or        *)
(* refreshes, and the token it holds until then goes on as it was signed.  *)
(*                                                                         *)
(* Time passes in ticks; an access token lives TTL of them, and a request  *)
(* ends within one.  Refresh tokens, passwords and e-mails are in Sessions *)
(* and Accounts.  The role of a member in an instance guards no route.     *)
(***************************************************************************)
EXTENDS Routes, Naturals

CONSTANTS User, Request, None,
          First,  \* the super administrator the seed creates
          TTL     \* bound: the ticks an access token lives

VARIABLES
  role,   \* per account: the role of its row, None before it exists, "gone" after
  active, \* the accounts with isActive
  tokens, \* the access tokens: whose, with which role, how old
  doing,  \* per request that logs an account in: the account and role it read, or None
  held    \* history: the roles an account had in this tick and the TTL before it

vars == <<role, active, tokens, doing, held>>

Token == [user : User, role : Role, age : 0..TTL]

TypeOK ==
  /\ role \in [User -> Role \cup {None, "gone"}] /\ active \subseteq User
  /\ tokens \subseteq Token /\ held \in [User -> [0..TTL -> SUBSET Role]]
  /\ doing \in [Request -> [user : User, role : Role] \cup {None}]

Init ==
  /\ role = [u \in User |-> IF u = First THEN "SUPER_ADMIN" ELSE None]
  /\ active = {First} /\ tokens = {} /\ doing = [h \in Request |-> None]
  /\ held = [u \in User |-> [k \in 0..TTL |-> IF u = First THEN {"SUPER_ADMIN"} ELSE {}]]

Exists(u) == role[u] \in Role

\* The row is written, and the account has the role from now on.
SetRole(u, r) == /\ role' = [role EXCEPT ![u] = r]
                 /\ held' = [held EXCEPT ![u][0] = @ \cup {r}]
-----------------------------------------------------------------------------
\* LoginUseCase and RefreshTokenUseCase read the row, which must be active.
Read(h, u) ==
  /\ doing[h] = None /\ Exists(u) /\ u \in active
  /\ doing' = [doing EXCEPT ![h] = [user |-> u, role |-> role[u]]]
  /\ UNCHANGED <<role, active, tokens, held>>

\* OsmLoginUseCase keeps the role of the linked account, active or not.
OsmRead(h, u) ==
  /\ doing[h] = None /\ Exists(u)
  /\ doing' = [doing EXCEPT ![h] = [user |-> u, role |-> role[u]]]
  /\ UNCHANGED <<role, active, tokens, held>>

\* A registration, or the first login of an OSM identity.
Register(h, u) ==
  /\ doing[h] = None /\ role[u] = None /\ SetRole(u, "VIEWER") /\ active' = active \cup {u}
  /\ doing' = [doing EXCEPT ![h] = [user |-> u, role |-> "VIEWER"]]
  /\ UNCHANGED tokens

\* The reply, once the refresh token is stored: its foreign key needs the account.
Issue(h) ==
  /\ doing[h] # None /\ doing' = [doing EXCEPT ![h] = None]
  /\ tokens' = IF Exists(doing[h].user)
               THEN tokens \cup {[user |-> doing[h].user, role |-> doing[h].role, age |-> 0]}
               ELSE tokens
  /\ UNCHANGED <<role, active, held>>
-----------------------------------------------------------------------------
\* jwtVerify, then requireRole: neither reads the account.
ServedIn(table, t) == {e.route : e \in {x \in table : t.role \in x.claims}}
Served(t, name) == name \in ServedIn(UserRoutes, t)

CreateUser(t, u, r) ==
  /\ role[u] = None /\ Served(t, "POST user") /\ SetRole(u, r)
  /\ active' = active \cup {u} /\ UNCHANGED <<tokens, doing>>

ChangeUserRole(t, u, r) ==
  /\ Exists(u) /\ r # role[u] /\ Served(t, "PATCH user/:id/role") /\ SetRole(u, r)
  /\ UNCHANGED <<active, tokens, doing>>

ToggleUserActive(t, u) ==
  /\ Served(t, "PATCH user/:id/activate") /\ Exists(u)
  /\ active' = IF u \in active THEN active \ {u} ELSE active \cup {u}
  /\ UNCHANGED <<role, tokens, doing, held>>

DeleteUser(t, u) ==
  /\ Served(t, "DELETE user/:id") /\ Exists(u)
  /\ role' = [role EXCEPT ![u] = "gone"] /\ active' = active \ {u}
  /\ UNCHANGED <<tokens, doing, held>>
-----------------------------------------------------------------------------
\* A version that signs the access token with the lifetime of the refresh token
LastsAsSession(t) == TRUE
Lasts(t) == t.age < TTL

Tick ==
  /\ \A h \in Request : doing[h] = None
  /\ tokens' = {[t EXCEPT !.age = @ + 1] : t \in {s \in tokens : Lasts(s)}}
  /\ held' = [u \in User |-> [k \in 0..TTL |->
                IF k = 0 THEN Role \cap {role[u]} ELSE held[u][k - 1]]]
  /\ UNCHANGED <<role, active, doing>>

Next ==
  \/ \E h \in Request, u \in User : Read(h, u) \/ OsmRead(h, u) \/ Register(h, u)
  \/ \E h \in Request : Issue(h)
  \/ \E t \in tokens, u \in User, r \in Role : CreateUser(t, u, r) \/ ChangeUserRole(t, u, r)
  \/ \E t \in tokens, u \in User : ToggleUserActive(t, u) \/ DeleteUser(t, u)
  \/ Tick

Spec == Init /\ [][Next]_vars
-----------------------------------------------------------------------------
\* The roles an account had no longer ago than an access token lives; a deleted one has none.
Recent(u) == UNION {held[u][k] : k \in 0..TTL}

\* The role lists of the routes that are not open to a call without a token.
Guards == {e.claims : e \in {r \in Routes : Visitor \notin r.claims}}

\* A guarded route serves a token only if the account had, no longer than the life of an
\* access token ago, a role that the route's own preHandlers admit: whoever demoted, disabled
\* or deleted it meanwhile, and however its logins and refreshes overlapped with that, an
\* account goes on no longer than that under a role it lost.
EntitledInTime ==
  \A t \in tokens, claims \in Guards : t.role \in claims => claims \cap Recent(t.user) # {}
===============================================================================
