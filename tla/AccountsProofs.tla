--------------------------- MODULE AccountsProofs -----------------------------
(***************************************************************************)
(* Proofs about the accounts and about the access their tokens give, for any*)
(* number of accounts, OpenStreetMap identities, requests and tokens.      *)
(***************************************************************************)
EXTENDS Services, TLAPS

-----------------------------------------------------------------------------
(* Accounts *)

\* What a request at each of its statements knows
Refers ==
  /\ \A h \in Request :
       /\ pc[h] = "idle" => who[h] = None /\ from[h] = None
       /\ pc[h] = "creating" => who[h] = None /\ addr[h] \in Email
       /\ pc[h] \notin {"idle", "creating"} => who[h] \in User \cap past
       /\ pc[h] \in {"upserting", "linking"} => from[h] \in Osm
       /\ pc[h] \in {"tokening", "mailing", "verifying", "using"} => from[h] = None
  /\ \A u \in User : Acc!Exists(u) \/ osm[u] # None \/ born[u] # None => u \in past
  /\ \A o \in Osm : lastIn[o] # None => lastIn[o] \in past

\* Nobody else is at work on the profile of an account.
Sole(h) == \A g \in Request \ {h} : from[g] # None => who[g] # who[h]

\* A login about to end has its account linked to its identity, or will link it.
SignsIn ==
  \A h \in Request :
    LET u == who[h] IN
    pc[h] \in {"upserting", "signing"} /\ from[h] # None
    => \/ ~Acc!Exists(u) \/ u \in unlinked \cup mixed \/ osm[u] = from[h]
       \/ pc[h] = "upserting" /\ osm[u] = None /\ Sole(h)

\* An identity is of one account, and two requests about it contest it.
Identities ==
  /\ \A u \in User, v \in User : osm[u] # None /\ osm[u] = osm[v] => u = v
  /\ \A h \in Request : \A g \in Request \ {h} :
       from[h] # None /\ from[h] = from[g] => from[h] \in contested
  /\ \A h \in Request :
       /\ pc[h] \in {"creating", "upserting"} /\ from[h] # None /\ from[h] \notin contested
       => Acc!OwnersOf(from[h]) \subseteq {who[h]}

\* An account made by a first login has its profile, or that login is about to write it.
Profiled ==
  \A u \in User :
    born[u] # None /\ Acc!Exists(u)
    => \/ osm[u] # None \/ u \in unlinked \cup broken \/ born[u] \in contested
       \/ \E h \in Request : pc[h] = "upserting" /\ who[h] = u /\ from[h] = born[u]

AccountTyped == Acc!TypeOK /\ Refers
AccountInv == AccountTyped /\ SignsIn /\ Acc!SameAccountEachLogin /\ Identities /\ Profiled

\* None is no account, identity or address.
LEMMA NoAccount ==
  /\ None \notin User /\ None \notin Osm /\ None \notin Email
  /\ \A o \in Osm : EmailOf[o] \in Email
BY ServicesAssumption

\* Every step keeps the types, and what requests know.
LEMMA AccountTypes ==
  ASSUME AccountTyped, Acc!Next
  PROVE  AccountTyped'
<1>1. ASSUME NEW h \in Request, NEW e \in Email, Acc!RegisterCheck(h, e) PROVE AccountTyped'
  BY <1>1, NoAccount
     DEF Acc!RegisterCheck, AccountTyped, Refers, Acc!TypeOK, Acc!Goto, Acc!Done, Acc!Break,
         Acc!Exists, Acc!OwnersOf, Acc!rowsOf, Acc!requests, Acc!history
<1>2. ASSUME NEW h \in Request, NEW u \in User, Acc!Create(h, u) PROVE AccountTyped'
  BY <1>2, NoAccount
     DEF Acc!Create, Acc!Insert, Acc!AfterCreate, Acc!EmailFree, AccountTyped, Refers,
         Acc!TypeOK, Acc!Goto, Acc!Done, Acc!Break, Acc!Exists, Acc!OwnersOf, Acc!rowsOf,
         Acc!requests, Acc!history
<1>3. ASSUME NEW h \in Request, NEW u \in User, Acc!VerifyRead(h, u) PROVE AccountTyped'
  BY <1>3, NoAccount
     DEF Acc!VerifyRead, AccountTyped, Refers, Acc!TypeOK, Acc!Goto, Acc!Done, Acc!Break,
         Acc!Exists, Acc!OwnersOf, Acc!rowsOf, Acc!requests, Acc!history
<1>4. ASSUME NEW h \in Request, Acc!CreateToken(h) PROVE AccountTyped'
  BY <1>4, NoAccount
     DEF Acc!CreateToken, AccountTyped, Refers, Acc!TypeOK, Acc!Goto, Acc!Done, Acc!Break,
         Acc!Exists, Acc!OwnersOf, Acc!rowsOf, Acc!requests, Acc!history
<1>5. ASSUME NEW h \in Request, Acc!Mail(h) PROVE AccountTyped'
  BY <1>5, NoAccount
     DEF Acc!Mail, AccountTyped, Refers, Acc!TypeOK, Acc!Goto, Acc!Done, Acc!Break, Acc!Exists,
         Acc!OwnersOf, Acc!rowsOf, Acc!requests, Acc!history
<1>6. ASSUME NEW h \in Request, Acc!Session(h) PROVE AccountTyped'
  BY <1>6, NoAccount
     DEF Acc!Session, AccountTyped, Refers, Acc!TypeOK, Acc!Goto, Acc!Done, Acc!Break,
         Acc!Exists, Acc!OwnersOf, Acc!rowsOf, Acc!requests, Acc!history
<1>7. ASSUME NEW h \in Request, Acc!VerifyWrite(h) PROVE AccountTyped'
  BY <1>7, NoAccount
     DEF Acc!VerifyWrite, AccountTyped, Refers, Acc!TypeOK, Acc!Goto, Acc!Done, Acc!Break,
         Acc!Exists, Acc!OwnersOf, Acc!rowsOf, Acc!requests, Acc!history
<1>8. ASSUME NEW h \in Request, Acc!UseTokens(h) PROVE AccountTyped'
  BY <1>8, NoAccount
     DEF Acc!UseTokens, AccountTyped, Refers, Acc!TypeOK, Acc!Goto, Acc!Done, Acc!Break,
         Acc!Exists, Acc!OwnersOf, Acc!rowsOf, Acc!requests, Acc!history
<1>9. ASSUME NEW h \in Request, Acc!Upsert(h) PROVE AccountTyped'
  BY <1>9, NoAccount
     DEF Acc!Upsert, Acc!ProfileRefused, Acc!WriteProfile, AccountTyped, Refers, Acc!TypeOK,
         Acc!Goto, Acc!Done, Acc!Break, Acc!Exists, Acc!OwnersOf, Acc!rowsOf, Acc!requests,
         Acc!history
<1>10. ASSUME NEW h \in Request, Acc!Abort(h) PROVE AccountTyped'
  BY <1>10, NoAccount
     DEF Acc!Abort, AccountTyped, Refers, Acc!TypeOK, Acc!Goto, Acc!Done, Acc!Break, Acc!Exists,
         Acc!OwnersOf, Acc!rowsOf, Acc!requests, Acc!history
<1>11. ASSUME NEW h \in Request, NEW o \in Osm, Acc!OsmRead(h, o) PROVE AccountTyped'
  BY <1>11, NoAccount
     DEF Acc!OsmRead, Acc!Contest, AccountTyped, Refers, Acc!TypeOK, Acc!Goto, Acc!Done,
         Acc!Break, Acc!Exists, Acc!OwnersOf, Acc!rowsOf, Acc!requests, Acc!history
<1>12. ASSUME NEW h \in Request, NEW u \in User, NEW o \in Osm, Acc!LinkRead(h, u, o)
       PROVE AccountTyped'
  BY <1>12, NoAccount
     DEF Acc!LinkRead, Acc!Contest, AccountTyped, Refers, Acc!TypeOK, Acc!Goto, Acc!Done,
         Acc!Break, Acc!Exists, Acc!OwnersOf, Acc!rowsOf, Acc!requests, Acc!history
<1>13. ASSUME NEW u \in User, NEW e \in Email, Acc!CreateUser(u, e) PROVE AccountTyped'
  BY <1>13, NoAccount
     DEF Acc!CreateUser, Acc!Insert, AccountTyped, Refers, Acc!TypeOK, Acc!Goto, Acc!Done,
         Acc!Break, Acc!Exists, Acc!OwnersOf, Acc!rowsOf, Acc!requests, Acc!history
<1>14. ASSUME NEW u \in User, NEW e \in Email, Acc!UpdateUser(u, e) PROVE AccountTyped'
  BY <1>14, NoAccount
     DEF Acc!UpdateUser, AccountTyped, Refers, Acc!TypeOK, Acc!Goto, Acc!Done, Acc!Break,
         Acc!Exists, Acc!OwnersOf, Acc!rowsOf, Acc!requests, Acc!history
<1>15. ASSUME NEW u \in User, Acc!Unlink(u) PROVE AccountTyped'
  BY <1>15, NoAccount
     DEF Acc!Unlink, AccountTyped, Refers, Acc!TypeOK, Acc!Goto, Acc!Done, Acc!Break,
         Acc!Exists, Acc!OwnersOf, Acc!rowsOf, Acc!requests, Acc!history
<1>16. ASSUME NEW u \in User, Acc!DeleteUser(u) PROVE AccountTyped'
  BY <1>16, NoAccount
     DEF Acc!DeleteUser, AccountTyped, Refers, Acc!TypeOK, Acc!Goto, Acc!Done, Acc!Break,
         Acc!Exists, Acc!OwnersOf, Acc!rowsOf, Acc!requests, Acc!history
<1> QED
  BY <1>1, <1>2, <1>3, <1>4, <1>5, <1>6, <1>7, <1>8, <1>9, <1>10, <1>11, <1>12, <1>13, <1>14,
     <1>15, <1>16
     DEF Acc!Next

\* Every step keeps the account of a login linked to its identity.
LEMMA SignInStep ==
  ASSUME AccountTyped, SignsIn, Acc!Next
  PROVE  SignsIn'
<1>1. ASSUME NEW h \in Request, NEW e \in Email, Acc!RegisterCheck(h, e) PROVE SignsIn'
  BY <1>1, NoAccount
     DEF Acc!RegisterCheck, SignsIn, Sole, AccountTyped, Refers, Acc!TypeOK, Acc!Goto, Acc!Done,
         Acc!Break, Acc!Exists, Acc!OwnersOf, Acc!rowsOf, Acc!requests, Acc!history
<1>2. ASSUME NEW h \in Request, NEW u \in User, Acc!Create(h, u) PROVE SignsIn'
  BY <1>2, NoAccount
     DEF Acc!Create, Acc!Insert, Acc!AfterCreate, Acc!EmailFree, SignsIn, Sole, AccountTyped,
         Refers, Acc!TypeOK, Acc!Goto, Acc!Done, Acc!Break, Acc!Exists, Acc!OwnersOf,
         Acc!rowsOf, Acc!requests, Acc!history
<1>3. ASSUME NEW h \in Request, NEW u \in User, Acc!VerifyRead(h, u) PROVE SignsIn'
  BY <1>3, NoAccount
     DEF Acc!VerifyRead, SignsIn, Sole, AccountTyped, Refers, Acc!TypeOK, Acc!Goto, Acc!Done,
         Acc!Break, Acc!Exists, Acc!OwnersOf, Acc!rowsOf, Acc!requests, Acc!history
<1>4. ASSUME NEW h \in Request, Acc!CreateToken(h) PROVE SignsIn'
  BY <1>4, NoAccount
     DEF Acc!CreateToken, SignsIn, Sole, AccountTyped, Refers, Acc!TypeOK, Acc!Goto, Acc!Done,
         Acc!Break, Acc!Exists, Acc!OwnersOf, Acc!rowsOf, Acc!requests, Acc!history
<1>5. ASSUME NEW h \in Request, Acc!Mail(h) PROVE SignsIn'
  BY <1>5, NoAccount
     DEF Acc!Mail, SignsIn, Sole, AccountTyped, Refers, Acc!TypeOK, Acc!Goto, Acc!Done,
         Acc!Break, Acc!Exists, Acc!OwnersOf, Acc!rowsOf, Acc!requests, Acc!history
<1>6. ASSUME NEW h \in Request, Acc!Session(h) PROVE SignsIn'
  BY <1>6, NoAccount
     DEF Acc!Session, SignsIn, Sole, AccountTyped, Refers, Acc!TypeOK, Acc!Goto, Acc!Done,
         Acc!Break, Acc!Exists, Acc!OwnersOf, Acc!rowsOf, Acc!requests, Acc!history
<1>7. ASSUME NEW h \in Request, Acc!VerifyWrite(h) PROVE SignsIn'
  BY <1>7, NoAccount
     DEF Acc!VerifyWrite, SignsIn, Sole, AccountTyped, Refers, Acc!TypeOK, Acc!Goto, Acc!Done,
         Acc!Break, Acc!Exists, Acc!OwnersOf, Acc!rowsOf, Acc!requests, Acc!history
<1>8. ASSUME NEW h \in Request, Acc!UseTokens(h) PROVE SignsIn'
  BY <1>8, NoAccount
     DEF Acc!UseTokens, SignsIn, Sole, AccountTyped, Refers, Acc!TypeOK, Acc!Goto, Acc!Done,
         Acc!Break, Acc!Exists, Acc!OwnersOf, Acc!rowsOf, Acc!requests, Acc!history
<1>9. ASSUME NEW h \in Request, Acc!Upsert(h) PROVE SignsIn'
  BY <1>9, NoAccount
     DEF Acc!Upsert, Acc!ProfileRefused, Acc!WriteProfile, SignsIn, Sole, AccountTyped, Refers,
         Acc!TypeOK, Acc!Goto, Acc!Done, Acc!Break, Acc!Exists, Acc!OwnersOf, Acc!rowsOf,
         Acc!requests, Acc!history
<1>10. ASSUME NEW h \in Request, Acc!Abort(h) PROVE SignsIn'
  BY <1>10, NoAccount
     DEF Acc!Abort, SignsIn, Sole, AccountTyped, Refers, Acc!TypeOK, Acc!Goto, Acc!Done,
         Acc!Break, Acc!Exists, Acc!OwnersOf, Acc!rowsOf, Acc!requests, Acc!history
<1>11. ASSUME NEW h \in Request, NEW o \in Osm, Acc!OsmRead(h, o) PROVE SignsIn'
  BY <1>11, NoAccount
     DEF Acc!OsmRead, Acc!Contest, SignsIn, Sole, AccountTyped, Refers, Acc!TypeOK, Acc!Goto,
         Acc!Done, Acc!Break, Acc!Exists, Acc!OwnersOf, Acc!rowsOf, Acc!requests, Acc!history
<1>12. ASSUME NEW h \in Request, NEW u \in User, NEW o \in Osm, Acc!LinkRead(h, u, o) PROVE SignsIn'
  BY <1>12, NoAccount
     DEF Acc!LinkRead, Acc!Contest, SignsIn, Sole, AccountTyped, Refers, Acc!TypeOK, Acc!Goto,
         Acc!Done, Acc!Break, Acc!Exists, Acc!OwnersOf, Acc!rowsOf, Acc!requests, Acc!history
<1>13. ASSUME NEW u \in User, NEW e \in Email, Acc!CreateUser(u, e) PROVE SignsIn'
  BY <1>13, NoAccount
     DEF Acc!CreateUser, Acc!Insert, SignsIn, Sole, AccountTyped, Refers, Acc!TypeOK, Acc!Goto,
         Acc!Done, Acc!Break, Acc!Exists, Acc!OwnersOf, Acc!rowsOf, Acc!requests, Acc!history
<1>14. ASSUME NEW u \in User, NEW e \in Email, Acc!UpdateUser(u, e) PROVE SignsIn'
  BY <1>14, NoAccount
     DEF Acc!UpdateUser, SignsIn, Sole, AccountTyped, Refers, Acc!TypeOK, Acc!Goto, Acc!Done,
         Acc!Break, Acc!Exists, Acc!OwnersOf, Acc!rowsOf, Acc!requests, Acc!history
<1>15. ASSUME NEW u \in User, Acc!Unlink(u) PROVE SignsIn'
  BY <1>15, NoAccount
     DEF Acc!Unlink, SignsIn, Sole, AccountTyped, Refers, Acc!TypeOK, Acc!Goto, Acc!Done,
         Acc!Break, Acc!Exists, Acc!OwnersOf, Acc!rowsOf, Acc!requests, Acc!history
<1>16. ASSUME NEW u \in User, Acc!DeleteUser(u) PROVE SignsIn'
  BY <1>16, NoAccount
     DEF Acc!DeleteUser, SignsIn, Sole, AccountTyped, Refers, Acc!TypeOK, Acc!Goto, Acc!Done,
         Acc!Break, Acc!Exists, Acc!OwnersOf, Acc!rowsOf, Acc!requests, Acc!history
<1> QED
  BY <1>1, <1>2, <1>3, <1>4, <1>5, <1>6, <1>7, <1>8, <1>9, <1>10, <1>11, <1>12, <1>13, <1>14,
     <1>15, <1>16
     DEF Acc!Next

\* A linked account stays so, unless it is unlinked.
LEMMA SameAccountStep ==
  ASSUME AccountTyped, SignsIn, Acc!SameAccountEachLogin, Acc!Next
  PROVE  Acc!SameAccountEachLogin'
<1>1. ASSUME NEW h \in Request, NEW e \in Email, Acc!RegisterCheck(h, e)
      PROVE Acc!SameAccountEachLogin'
  BY <1>1, NoAccount
     DEF Acc!RegisterCheck, Acc!SameAccountEachLogin, SignsIn, AccountTyped, Refers, Acc!TypeOK,
         Acc!Goto, Acc!Done, Acc!Break, Acc!Exists, Acc!OwnersOf, Acc!rowsOf, Acc!requests,
         Acc!history
<1>2. ASSUME NEW h \in Request, NEW u \in User, Acc!Create(h, u) PROVE Acc!SameAccountEachLogin'
  BY <1>2, NoAccount
     DEF Acc!Create, Acc!Insert, Acc!AfterCreate, Acc!EmailFree, Acc!SameAccountEachLogin,
         SignsIn, AccountTyped, Refers, Acc!TypeOK, Acc!Goto, Acc!Done, Acc!Break, Acc!Exists,
         Acc!OwnersOf, Acc!rowsOf, Acc!requests, Acc!history
<1>3. ASSUME NEW h \in Request, NEW u \in User, Acc!VerifyRead(h, u) PROVE Acc!SameAccountEachLogin'
  BY <1>3, NoAccount
     DEF Acc!VerifyRead, Acc!SameAccountEachLogin, SignsIn, AccountTyped, Refers, Acc!TypeOK,
         Acc!Goto, Acc!Done, Acc!Break, Acc!Exists, Acc!OwnersOf, Acc!rowsOf, Acc!requests,
         Acc!history
<1>4. ASSUME NEW h \in Request, Acc!CreateToken(h) PROVE Acc!SameAccountEachLogin'
  BY <1>4, NoAccount
     DEF Acc!CreateToken, Acc!SameAccountEachLogin, SignsIn, AccountTyped, Refers, Acc!TypeOK,
         Acc!Goto, Acc!Done, Acc!Break, Acc!Exists, Acc!OwnersOf, Acc!rowsOf, Acc!requests,
         Acc!history
<1>5. ASSUME NEW h \in Request, Acc!Mail(h) PROVE Acc!SameAccountEachLogin'
  BY <1>5, NoAccount
     DEF Acc!Mail, Acc!SameAccountEachLogin, SignsIn, AccountTyped, Refers, Acc!TypeOK,
         Acc!Goto, Acc!Done, Acc!Break, Acc!Exists, Acc!OwnersOf, Acc!rowsOf, Acc!requests,
         Acc!history
<1>6. ASSUME NEW h \in Request, Acc!Session(h) PROVE Acc!SameAccountEachLogin'
  BY <1>6, NoAccount
     DEF Acc!Session, Acc!SameAccountEachLogin, SignsIn, AccountTyped, Refers, Acc!TypeOK,
         Acc!Goto, Acc!Done, Acc!Break, Acc!Exists, Acc!OwnersOf, Acc!rowsOf, Acc!requests,
         Acc!history
<1>7. ASSUME NEW h \in Request, Acc!VerifyWrite(h) PROVE Acc!SameAccountEachLogin'
  BY <1>7, NoAccount
     DEF Acc!VerifyWrite, Acc!SameAccountEachLogin, SignsIn, AccountTyped, Refers, Acc!TypeOK,
         Acc!Goto, Acc!Done, Acc!Break, Acc!Exists, Acc!OwnersOf, Acc!rowsOf, Acc!requests,
         Acc!history
<1>8. ASSUME NEW h \in Request, Acc!UseTokens(h) PROVE Acc!SameAccountEachLogin'
  BY <1>8, NoAccount
     DEF Acc!UseTokens, Acc!SameAccountEachLogin, SignsIn, AccountTyped, Refers, Acc!TypeOK,
         Acc!Goto, Acc!Done, Acc!Break, Acc!Exists, Acc!OwnersOf, Acc!rowsOf, Acc!requests,
         Acc!history
<1>9. ASSUME NEW h \in Request, Acc!Upsert(h) PROVE Acc!SameAccountEachLogin'
  BY <1>9, NoAccount
     DEF Acc!Upsert, Acc!ProfileRefused, Acc!WriteProfile, Acc!SameAccountEachLogin, SignsIn,
         AccountTyped, Refers, Acc!TypeOK, Acc!Goto, Acc!Done, Acc!Break, Acc!Exists,
         Acc!OwnersOf, Acc!rowsOf, Acc!requests, Acc!history
<1>10. ASSUME NEW h \in Request, Acc!Abort(h) PROVE Acc!SameAccountEachLogin'
  BY <1>10, NoAccount
     DEF Acc!Abort, Acc!SameAccountEachLogin, SignsIn, AccountTyped, Refers, Acc!TypeOK,
         Acc!Goto, Acc!Done, Acc!Break, Acc!Exists, Acc!OwnersOf, Acc!rowsOf, Acc!requests,
         Acc!history
<1>11. ASSUME NEW h \in Request, NEW o \in Osm, Acc!OsmRead(h, o) PROVE Acc!SameAccountEachLogin'
  BY <1>11, NoAccount
     DEF Acc!OsmRead, Acc!Contest, Acc!SameAccountEachLogin, SignsIn, AccountTyped, Refers,
         Acc!TypeOK, Acc!Goto, Acc!Done, Acc!Break, Acc!Exists, Acc!OwnersOf, Acc!rowsOf,
         Acc!requests, Acc!history
<1>12. ASSUME NEW h \in Request, NEW u \in User, NEW o \in Osm, Acc!LinkRead(h, u, o)
       PROVE Acc!SameAccountEachLogin'
  BY <1>12, NoAccount
     DEF Acc!LinkRead, Acc!Contest, Acc!SameAccountEachLogin, SignsIn, AccountTyped, Refers,
         Acc!TypeOK, Acc!Goto, Acc!Done, Acc!Break, Acc!Exists, Acc!OwnersOf, Acc!rowsOf,
         Acc!requests, Acc!history
<1>13. ASSUME NEW u \in User, NEW e \in Email, Acc!CreateUser(u, e) PROVE Acc!SameAccountEachLogin'
  BY <1>13, NoAccount
     DEF Acc!CreateUser, Acc!Insert, Acc!SameAccountEachLogin, SignsIn, AccountTyped, Refers,
         Acc!TypeOK, Acc!Goto, Acc!Done, Acc!Break, Acc!Exists, Acc!OwnersOf, Acc!rowsOf,
         Acc!requests, Acc!history
<1>14. ASSUME NEW u \in User, NEW e \in Email, Acc!UpdateUser(u, e) PROVE Acc!SameAccountEachLogin'
  BY <1>14, NoAccount
     DEF Acc!UpdateUser, Acc!SameAccountEachLogin, SignsIn, AccountTyped, Refers, Acc!TypeOK,
         Acc!Goto, Acc!Done, Acc!Break, Acc!Exists, Acc!OwnersOf, Acc!rowsOf, Acc!requests,
         Acc!history
<1>15. ASSUME NEW u \in User, Acc!Unlink(u) PROVE Acc!SameAccountEachLogin'
  BY <1>15, NoAccount
     DEF Acc!Unlink, Acc!SameAccountEachLogin, SignsIn, AccountTyped, Refers, Acc!TypeOK,
         Acc!Goto, Acc!Done, Acc!Break, Acc!Exists, Acc!OwnersOf, Acc!rowsOf, Acc!requests,
         Acc!history
<1>16. ASSUME NEW u \in User, Acc!DeleteUser(u) PROVE Acc!SameAccountEachLogin'
  BY <1>16, NoAccount
     DEF Acc!DeleteUser, Acc!SameAccountEachLogin, SignsIn, AccountTyped, Refers, Acc!TypeOK,
         Acc!Goto, Acc!Done, Acc!Break, Acc!Exists, Acc!OwnersOf, Acc!rowsOf, Acc!requests,
         Acc!history
<1> QED
  BY <1>1, <1>2, <1>3, <1>4, <1>5, <1>6, <1>7, <1>8, <1>9, <1>10, <1>11, <1>12, <1>13, <1>14,
     <1>15, <1>16
     DEF Acc!Next

\* Every step keeps identities apart.
LEMMA IdentityStep ==
  ASSUME AccountTyped, Identities, Acc!Next
  PROVE  Identities'
<1>1. ASSUME NEW h \in Request, NEW e \in Email, Acc!RegisterCheck(h, e) PROVE Identities'
  BY <1>1, NoAccount
     DEF Acc!RegisterCheck, Identities, AccountTyped, Refers, Acc!TypeOK, Acc!Goto, Acc!Done,
         Acc!Break, Acc!Exists, Acc!OwnersOf, Acc!rowsOf, Acc!requests, Acc!history
<1>2. ASSUME NEW h \in Request, NEW u \in User, Acc!Create(h, u) PROVE Identities'
  BY <1>2, NoAccount
     DEF Acc!Create, Acc!Insert, Acc!AfterCreate, Acc!EmailFree, Identities, AccountTyped,
         Refers, Acc!TypeOK, Acc!Goto, Acc!Done, Acc!Break, Acc!Exists, Acc!OwnersOf,
         Acc!rowsOf, Acc!requests, Acc!history
<1>3. ASSUME NEW h \in Request, NEW u \in User, Acc!VerifyRead(h, u) PROVE Identities'
  BY <1>3, NoAccount
     DEF Acc!VerifyRead, Identities, AccountTyped, Refers, Acc!TypeOK, Acc!Goto, Acc!Done,
         Acc!Break, Acc!Exists, Acc!OwnersOf, Acc!rowsOf, Acc!requests, Acc!history
<1>4. ASSUME NEW h \in Request, Acc!CreateToken(h) PROVE Identities'
  BY <1>4, NoAccount
     DEF Acc!CreateToken, Identities, AccountTyped, Refers, Acc!TypeOK, Acc!Goto, Acc!Done,
         Acc!Break, Acc!Exists, Acc!OwnersOf, Acc!rowsOf, Acc!requests, Acc!history
<1>5. ASSUME NEW h \in Request, Acc!Mail(h) PROVE Identities'
  BY <1>5, NoAccount
     DEF Acc!Mail, Identities, AccountTyped, Refers, Acc!TypeOK, Acc!Goto, Acc!Done, Acc!Break,
         Acc!Exists, Acc!OwnersOf, Acc!rowsOf, Acc!requests, Acc!history
<1>6. ASSUME NEW h \in Request, Acc!Session(h) PROVE Identities'
  BY <1>6, NoAccount
     DEF Acc!Session, Identities, AccountTyped, Refers, Acc!TypeOK, Acc!Goto, Acc!Done,
         Acc!Break, Acc!Exists, Acc!OwnersOf, Acc!rowsOf, Acc!requests, Acc!history
<1>7. ASSUME NEW h \in Request, Acc!VerifyWrite(h) PROVE Identities'
  BY <1>7, NoAccount
     DEF Acc!VerifyWrite, Identities, AccountTyped, Refers, Acc!TypeOK, Acc!Goto, Acc!Done,
         Acc!Break, Acc!Exists, Acc!OwnersOf, Acc!rowsOf, Acc!requests, Acc!history
<1>8. ASSUME NEW h \in Request, Acc!UseTokens(h) PROVE Identities'
  BY <1>8, NoAccount
     DEF Acc!UseTokens, Identities, AccountTyped, Refers, Acc!TypeOK, Acc!Goto, Acc!Done,
         Acc!Break, Acc!Exists, Acc!OwnersOf, Acc!rowsOf, Acc!requests, Acc!history
<1>9. ASSUME NEW h \in Request, Acc!Upsert(h) PROVE Identities'
  BY <1>9, NoAccount
     DEF Acc!Upsert, Acc!ProfileRefused, Acc!WriteProfile, Identities, AccountTyped, Refers,
         Acc!TypeOK, Acc!Goto, Acc!Done, Acc!Break, Acc!Exists, Acc!OwnersOf, Acc!rowsOf,
         Acc!requests, Acc!history
<1>10. ASSUME NEW h \in Request, Acc!Abort(h) PROVE Identities'
  BY <1>10, NoAccount
     DEF Acc!Abort, Identities, AccountTyped, Refers, Acc!TypeOK, Acc!Goto, Acc!Done, Acc!Break,
         Acc!Exists, Acc!OwnersOf, Acc!rowsOf, Acc!requests, Acc!history
<1>11. ASSUME NEW h \in Request, NEW o \in Osm, Acc!OsmRead(h, o) PROVE Identities'
  BY <1>11, NoAccount
     DEF Acc!OsmRead, Acc!Contest, Identities, AccountTyped, Refers, Acc!TypeOK, Acc!Goto,
         Acc!Done, Acc!Break, Acc!Exists, Acc!OwnersOf, Acc!rowsOf, Acc!requests, Acc!history
<1>12. ASSUME NEW h \in Request, NEW u \in User, NEW o \in Osm, Acc!LinkRead(h, u, o)
       PROVE Identities'
  BY <1>12, NoAccount
     DEF Acc!LinkRead, Acc!Contest, Identities, AccountTyped, Refers, Acc!TypeOK, Acc!Goto,
         Acc!Done, Acc!Break, Acc!Exists, Acc!OwnersOf, Acc!rowsOf, Acc!requests, Acc!history
<1>13. ASSUME NEW u \in User, NEW e \in Email, Acc!CreateUser(u, e) PROVE Identities'
  BY <1>13, NoAccount
     DEF Acc!CreateUser, Acc!Insert, Identities, AccountTyped, Refers, Acc!TypeOK, Acc!Goto,
         Acc!Done, Acc!Break, Acc!Exists, Acc!OwnersOf, Acc!rowsOf, Acc!requests, Acc!history
<1>14. ASSUME NEW u \in User, NEW e \in Email, Acc!UpdateUser(u, e) PROVE Identities'
  BY <1>14, NoAccount
     DEF Acc!UpdateUser, Identities, AccountTyped, Refers, Acc!TypeOK, Acc!Goto, Acc!Done,
         Acc!Break, Acc!Exists, Acc!OwnersOf, Acc!rowsOf, Acc!requests, Acc!history
<1>15. ASSUME NEW u \in User, Acc!Unlink(u) PROVE Identities'
  BY <1>15, NoAccount
     DEF Acc!Unlink, Identities, AccountTyped, Refers, Acc!TypeOK, Acc!Goto, Acc!Done,
         Acc!Break, Acc!Exists, Acc!OwnersOf, Acc!rowsOf, Acc!requests, Acc!history
<1>16. ASSUME NEW u \in User, Acc!DeleteUser(u) PROVE Identities'
  BY <1>16, NoAccount
     DEF Acc!DeleteUser, Identities, AccountTyped, Refers, Acc!TypeOK, Acc!Goto, Acc!Done,
         Acc!Break, Acc!Exists, Acc!OwnersOf, Acc!rowsOf, Acc!requests, Acc!history
<1> QED
  BY <1>1, <1>2, <1>3, <1>4, <1>5, <1>6, <1>7, <1>8, <1>9, <1>10, <1>11, <1>12, <1>13, <1>14,
     <1>15, <1>16
     DEF Acc!Next

\* Every step keeps an account its profile, or the login that writes it.
LEMMA ProfileStep ==
  ASSUME AccountTyped, Identities, Profiled, Acc!Next
  PROVE  Profiled'
<1>1. ASSUME NEW h \in Request, NEW e \in Email, Acc!RegisterCheck(h, e) PROVE Profiled'
  BY <1>1, NoAccount
     DEF Acc!RegisterCheck, Profiled, Identities, AccountTyped, Refers, Acc!TypeOK, Acc!Goto,
         Acc!Done, Acc!Break, Acc!Exists, Acc!OwnersOf, Acc!rowsOf, Acc!requests, Acc!history
<1>2. ASSUME NEW h \in Request, NEW u \in User, Acc!Create(h, u) PROVE Profiled'
  BY <1>2, NoAccount
     DEF Acc!Create, Acc!Insert, Acc!AfterCreate, Acc!EmailFree, Profiled, Identities,
         AccountTyped, Refers, Acc!TypeOK, Acc!Goto, Acc!Done, Acc!Break, Acc!Exists,
         Acc!OwnersOf, Acc!rowsOf, Acc!requests, Acc!history
<1>3. ASSUME NEW h \in Request, NEW u \in User, Acc!VerifyRead(h, u) PROVE Profiled'
  BY <1>3, NoAccount
     DEF Acc!VerifyRead, Profiled, Identities, AccountTyped, Refers, Acc!TypeOK, Acc!Goto,
         Acc!Done, Acc!Break, Acc!Exists, Acc!OwnersOf, Acc!rowsOf, Acc!requests, Acc!history
<1>4. ASSUME NEW h \in Request, Acc!CreateToken(h) PROVE Profiled'
  BY <1>4, NoAccount
     DEF Acc!CreateToken, Profiled, Identities, AccountTyped, Refers, Acc!TypeOK, Acc!Goto,
         Acc!Done, Acc!Break, Acc!Exists, Acc!OwnersOf, Acc!rowsOf, Acc!requests, Acc!history
<1>5. ASSUME NEW h \in Request, Acc!Mail(h) PROVE Profiled'
  BY <1>5, NoAccount
     DEF Acc!Mail, Profiled, Identities, AccountTyped, Refers, Acc!TypeOK, Acc!Goto, Acc!Done,
         Acc!Break, Acc!Exists, Acc!OwnersOf, Acc!rowsOf, Acc!requests, Acc!history
<1>6. ASSUME NEW h \in Request, Acc!Session(h) PROVE Profiled'
  BY <1>6, NoAccount
     DEF Acc!Session, Profiled, Identities, AccountTyped, Refers, Acc!TypeOK, Acc!Goto,
         Acc!Done, Acc!Break, Acc!Exists, Acc!OwnersOf, Acc!rowsOf, Acc!requests, Acc!history
<1>7. ASSUME NEW h \in Request, Acc!VerifyWrite(h) PROVE Profiled'
  BY <1>7, NoAccount
     DEF Acc!VerifyWrite, Profiled, Identities, AccountTyped, Refers, Acc!TypeOK, Acc!Goto,
         Acc!Done, Acc!Break, Acc!Exists, Acc!OwnersOf, Acc!rowsOf, Acc!requests, Acc!history
<1>8. ASSUME NEW h \in Request, Acc!UseTokens(h) PROVE Profiled'
  BY <1>8, NoAccount
     DEF Acc!UseTokens, Profiled, Identities, AccountTyped, Refers, Acc!TypeOK, Acc!Goto,
         Acc!Done, Acc!Break, Acc!Exists, Acc!OwnersOf, Acc!rowsOf, Acc!requests, Acc!history
<1>9. ASSUME NEW h \in Request, Acc!Upsert(h) PROVE Profiled'
  BY <1>9, NoAccount
     DEF Acc!Upsert, Acc!ProfileRefused, Acc!WriteProfile, Profiled, Identities, AccountTyped,
         Refers, Acc!TypeOK, Acc!Goto, Acc!Done, Acc!Break, Acc!Exists, Acc!OwnersOf,
         Acc!rowsOf, Acc!requests, Acc!history
<1>10. ASSUME NEW h \in Request, Acc!Abort(h) PROVE Profiled'
  BY <1>10, NoAccount
     DEF Acc!Abort, Profiled, Identities, AccountTyped, Refers, Acc!TypeOK, Acc!Goto, Acc!Done,
         Acc!Break, Acc!Exists, Acc!OwnersOf, Acc!rowsOf, Acc!requests, Acc!history
<1>11. ASSUME NEW h \in Request, NEW o \in Osm, Acc!OsmRead(h, o) PROVE Profiled'
  BY <1>11, NoAccount
     DEF Acc!OsmRead, Acc!Contest, Profiled, Identities, AccountTyped, Refers, Acc!TypeOK,
         Acc!Goto, Acc!Done, Acc!Break, Acc!Exists, Acc!OwnersOf, Acc!rowsOf, Acc!requests,
         Acc!history
<1>12. ASSUME NEW h \in Request, NEW u \in User, NEW o \in Osm, Acc!LinkRead(h, u, o)
       PROVE Profiled'
  BY <1>12, NoAccount
     DEF Acc!LinkRead, Acc!Contest, Profiled, Identities, AccountTyped, Refers, Acc!TypeOK,
         Acc!Goto, Acc!Done, Acc!Break, Acc!Exists, Acc!OwnersOf, Acc!rowsOf, Acc!requests,
         Acc!history
<1>13. ASSUME NEW u \in User, NEW e \in Email, Acc!CreateUser(u, e) PROVE Profiled'
  BY <1>13, NoAccount
     DEF Acc!CreateUser, Acc!Insert, Profiled, Identities, AccountTyped, Refers, Acc!TypeOK,
         Acc!Goto, Acc!Done, Acc!Break, Acc!Exists, Acc!OwnersOf, Acc!rowsOf, Acc!requests,
         Acc!history
<1>14. ASSUME NEW u \in User, NEW e \in Email, Acc!UpdateUser(u, e) PROVE Profiled'
  BY <1>14, NoAccount
     DEF Acc!UpdateUser, Profiled, Identities, AccountTyped, Refers, Acc!TypeOK, Acc!Goto,
         Acc!Done, Acc!Break, Acc!Exists, Acc!OwnersOf, Acc!rowsOf, Acc!requests, Acc!history
<1>15. ASSUME NEW u \in User, Acc!Unlink(u) PROVE Profiled'
  BY <1>15, NoAccount
     DEF Acc!Unlink, Profiled, Identities, AccountTyped, Refers, Acc!TypeOK, Acc!Goto, Acc!Done,
         Acc!Break, Acc!Exists, Acc!OwnersOf, Acc!rowsOf, Acc!requests, Acc!history
<1>16. ASSUME NEW u \in User, Acc!DeleteUser(u) PROVE Profiled'
  BY <1>16, NoAccount
     DEF Acc!DeleteUser, Profiled, Identities, AccountTyped, Refers, Acc!TypeOK, Acc!Goto,
         Acc!Done, Acc!Break, Acc!Exists, Acc!OwnersOf, Acc!rowsOf, Acc!requests, Acc!history
<1> QED
  BY <1>1, <1>2, <1>3, <1>4, <1>5, <1>6, <1>7, <1>8, <1>9, <1>10, <1>11, <1>12, <1>13, <1>14,
     <1>15, <1>16
     DEF Acc!Next

\* The invariant of the accounts
LEMMA AccountsAlways == Spec => [](part = "accounts" => AccountInv)
<1> DEFINE I == part = "accounts" => AccountInv
<1>1. Init => I
  BY NoAccount, SMT DEF Init, Acc!Init, AccountInv, AccountTyped, Refers, Acc!TypeOK, SignsIn,
     Identities, Profiled,
     Acc!SameAccountEachLogin, Acc!Exists, Acc!OwnersOf
<1>2. I /\ [Next]_vars => I'
  <2>1. AccountInv /\ UNCHANGED accounts => AccountInv'
    BY DEF AccountInv, AccountTyped, accounts, Refers, Acc!TypeOK, SignsIn, Sole, Identities,
       Profiled,
       Acc!SameAccountEachLogin, Acc!Exists, Acc!OwnersOf
  <2>2. AccountInv /\ Acc!Next => AccountInv'
    BY AccountTypes, SignInStep, SameAccountStep, IdentityStep, ProfileStep DEF AccountInv
  <2> QED
    BY <2>1, <2>2 DEF Next, Only, vars
<1> QED
  BY <1>1, <1>2, PTL DEF Spec

\* Whoever logs in through OpenStreetMap comes back to the same account.
THEOREM SameAccount == Spec => []SameAccountEachLogin
<1>1. (part = "accounts" => AccountInv) => SameAccountEachLogin
  BY DEF SameAccountEachLogin, AccountInv
<1> QED
  BY AccountsAlways, <1>1, PTL

\* An account that a first login made has its profile, or was left without by a failure.
THEOREM ProfileThere == Spec => []OsmAccountHasItsProfile
<1>1. (part = "accounts" => AccountInv) => OsmAccountHasItsProfile
  BY DEF OsmAccountHasItsProfile, Acc!OsmAccountHasItsProfile, AccountInv, Profiled, Acc!Working
<1> QED
  BY AccountsAlways, <1>1, PTL

-----------------------------------------------------------------------------
(* Access: the tokens *)

\* An account had a role no longer ago than a number of ticks.
Lately(u, r, n) == \E k \in 0..n : r \in held[u][k]

\* A role that is held, or about to be signed, is one of now; that of a token is no older
\* than the token.
RoleKept ==
  /\ \A u \in Holder : Sec!Exists(u) => role[u] \in held[u][0]
  /\ \A h \in Login : signing[h] # None => signing[h].role \in held[signing[h].user][0]
  /\ \A t \in tokens : Lately(t.user, t.role, t.age)

AccessInv == Sec!TypeOK /\ RoleKept

\* Every step of the accounts, the tokens and the calls keeps roles and tokens together.
LEMMA AccessStep ==
  ASSUME AccessInv, Sec!Next
  PROVE  AccessInv'
<1>a. Sec!TypeOK /\ RoleKept /\ TTL \in Nat
  BY ServicesAssumption DEF AccessInv
<1>h. ASSUME NEW u \in Holder, NEW r \in Sec!Role, Sec!SetRole(u, r)
      PROVE  /\ role' \in [Holder -> Sec!Role \cup {None, "gone"}]
             /\ held' \in [Holder -> [0..TTL -> SUBSET Sec!Role]]
             /\ role'[u] = r /\ \A v \in Holder \ {u} : role'[v] = role[v]
             /\ \A v \in Holder, k \in 0..TTL : held[v][k] \subseteq held'[v][k]
             /\ r \in held'[u][0]
             /\ \A v \in Holder, q \in Sec!Role, n \in 0..TTL : Lately(v, q, n) => Lately(v, q, n)'
  <2>1. /\ role' \in [Holder -> Sec!Role \cup {None, "gone"}]
        /\ held' \in [Holder -> [0..TTL -> SUBSET Sec!Role]]
        /\ role'[u] = r /\ \A v \in Holder \ {u} : role'[v] = role[v]
        /\ \A v \in Holder, k \in 0..TTL : held[v][k] \subseteq held'[v][k]
        /\ r \in held'[u][0]
    BY <1>h, <1>a DEF Sec!SetRole, Sec!TypeOK
  <2> QED
    BY <1>a, <2>1 DEF Lately
<1>1. ASSUME NEW h \in Login, NEW u \in Holder, Sec!Read(h, u) \/ Sec!OsmRead(h, u) PROVE AccessInv'
  <2> DEFINE d == [user |-> u, role |-> role[u]]
  <2>1. d \in [user : Holder, role : Sec!Role] /\ d.role \in held[d.user][0]
    BY <1>1, <1>a DEF Sec!Read, Sec!OsmRead, RoleKept, Sec!Exists
  <2>2. signing' = [signing EXCEPT ![h] = d] /\ UNCHANGED <<role, active, tokens, held>>
    BY <1>1 DEF Sec!Read, Sec!OsmRead
  <2> HIDE DEF d
  <2>3. Sec!TypeOK'
    BY <1>a, <2>1, <2>2 DEF Sec!TypeOK
  <2>4. RoleKept'
    BY <1>a, <2>1, <2>2 DEF Sec!TypeOK, RoleKept, Sec!Exists, Lately
  <2> QED
    BY <2>3, <2>4 DEF AccessInv
<1>2. ASSUME NEW h \in Login, NEW u \in Holder, Sec!Register(h, u) PROVE AccessInv'
  <2>1. "VIEWER" \in Sec!Role
    BY DEF Sec!Role
  <2>2. Sec!TypeOK'
    BY <1>2, <1>a, <1>h, <2>1 DEF Sec!Register, Sec!TypeOK
  <2>3. RoleKept'
    BY <1>2, <1>a, <1>h, <2>1 DEF Sec!Register, Sec!TypeOK, RoleKept, Sec!Exists, Sec!Token
  <2> QED
    BY <2>2, <2>3 DEF AccessInv
<1>3. ASSUME NEW h \in Login, Sec!Issue(h) PROVE AccessInv'
  <2> DEFINE d == signing[h]
  <2>1. d \in [user : Holder, role : Sec!Role] /\ d.role \in held[d.user][0]
    BY <1>3, <1>a DEF Sec!Issue, Sec!TypeOK, RoleKept
  <2>2. Lately(d.user, d.role, 0)
    BY <2>1 DEF Lately
  <2>3. Sec!TypeOK'
    BY <1>3, <1>a, <2>1 DEF Sec!Issue, Sec!TypeOK, Sec!Token
  <2>4. RoleKept'
    BY <1>3, <1>a, <2>1, <2>2 DEF Sec!Issue, Sec!TypeOK, RoleKept, Sec!Exists, Lately
  <2> QED
    BY <2>3, <2>4 DEF AccessInv
<1>4. ASSUME NEW t \in tokens, NEW u \in Holder, NEW r \in Sec!Role,
             Sec!CreateUser(t, u, r) \/ Sec!ChangeUserRole(t, u, r)
      PROVE  AccessInv'
  <2>1. /\ Sec!SetRole(u, r) /\ active' \in {active, active \cup {u}}
        /\ UNCHANGED <<tokens, signing>>
    BY <1>4 DEF Sec!CreateUser, Sec!ChangeUserRole
  <2>2. Sec!TypeOK'
    BY <1>a, <1>h, <2>1 DEF Sec!TypeOK
  <2>3. RoleKept'
    BY SMTT(30), <1>a, <1>h, <2>1 DEF Sec!TypeOK, RoleKept, Sec!Exists, Sec!Token
  <2> QED
    BY <2>2, <2>3 DEF AccessInv
<1>5. ASSUME NEW t \in tokens, NEW u \in Holder, Sec!ToggleUserActive(t, u) \/ Sec!DeleteUser(t, u)
      PROVE  AccessInv'
  <2>1. "gone" \notin Sec!Role
    BY DEF Sec!Role
  <2> QED
    BY <1>5, <1>a, <2>1 DEF AccessInv, Sec!ToggleUserActive, Sec!DeleteUser, Sec!TypeOK,
       RoleKept, Sec!Exists, Lately
<1>6. ASSUME Sec!Tick PROVE AccessInv'
  <2>1. /\ held' \in [Holder -> [0..TTL -> SUBSET Sec!Role]]
        /\ \A u \in Holder : Sec!Exists(u) => role[u] \in held'[u][0]
        /\ \A u \in Holder, k \in 0..TTL : k > 0 => held'[u][k] = held[u][k - 1]
    BY <1>6, <1>a DEF Sec!Tick, Sec!TypeOK, Sec!Exists
  <2>2. ASSUME NEW t \in tokens'
        PROVE  t \in Sec!Token /\ Lately(t.user, t.role, t.age)'
    <3>1. PICK s \in tokens : Sec!Lasts(s) /\ t = [s EXCEPT !.age = @ + 1]
      BY <1>6 DEF Sec!Tick
    <3>2. s \in Sec!Token /\ s.age < TTL
      BY <1>a, <3>1 DEF Sec!TypeOK, Sec!Lasts
    <3>3. t \in Sec!Token /\ t.role = s.role /\ t.user = s.user /\ t.age = s.age + 1
      BY <1>a, <3>1, <3>2 DEF Sec!Token
    <3>4. PICK k \in 0..s.age : s.role \in held[s.user][k]
      BY <1>a, <3>1 DEF RoleKept, Lately
    <3>5. k + 1 \in 0..TTL /\ k + 1 \in 0..t.age /\ held'[s.user][k + 1] = held[s.user][k]
      BY <1>a, <2>1, <3>2, <3>3 DEF Sec!Token
    <3> QED
      BY <3>3, <3>4, <3>5 DEF Lately
  <2>3. Sec!TypeOK'
    BY <1>6, <1>a, <2>1, <2>2 DEF Sec!Tick, Sec!TypeOK
  <2>4. RoleKept'
    BY <1>6, <1>a, <2>1, <2>2 DEF Sec!Tick, RoleKept, Sec!Exists
  <2> QED
    BY <2>3, <2>4 DEF AccessInv
<1> QED
  BY <1>1, <1>2, <1>3, <1>4, <1>5, <1>6 DEF Sec!Next

\* While accounts and tokens move, roles and tokens stay together.
LEMMA AccessAlways == Spec => [](part = "access" => AccessInv)
<1> DEFINE I == part = "access" => AccessInv
<1>1. Init => I
  <2> SUFFICES ASSUME Sec!Init PROVE AccessInv
    BY DEF Init
  <2>1. First \in Holder /\ TTL \in Nat /\ 0 \in 0..TTL /\ "SUPER_ADMIN" \in Sec!Role
    BY ServicesAssumption DEF Sec!Role
  <2>2. Sec!TypeOK
    BY <2>1 DEF Sec!Init, Sec!TypeOK
  <2>3. \A u \in Holder : Sec!Exists(u) => role[u] \in held[u][0]
    BY <2>1, NoneAssumption DEF Sec!Init, Sec!Exists
  <2> QED
    BY <2>2, <2>3 DEF Sec!Init, AccessInv, RoleKept
<1>2. I /\ [Next]_vars => I'
  <2>1. AccessInv /\ UNCHANGED access => AccessInv'
    BY DEF AccessInv, access, Sec!TypeOK, RoleKept, Sec!Exists, Lately
  <2> QED
    BY <2>1, AccessStep DEF Next, Only, vars
<1> QED
  BY <1>1, <1>2, PTL DEF Spec

\* A guarded route serves no token whose role its account lost longer ago than a token lives.
THEOREM Entitled == Spec => []EntitledInTime
<1>1. AccessInv => Sec!EntitledInTime
  <2> SUFFICES ASSUME AccessInv, NEW t \in tokens, NEW claims \in Sec!Guards, t.role \in claims
               PROVE  claims \cap Sec!Recent(t.user) # {}
    BY DEF Sec!EntitledInTime
  <2>1. t.age \in 0..TTL /\ TTL \in Nat /\ Lately(t.user, t.role, t.age)
    BY ServicesAssumption DEF AccessInv, Sec!TypeOK, Sec!Token, RoleKept
  <2>2. PICK k \in 0..t.age : t.role \in held[t.user][k]
    BY <2>1 DEF Lately
  <2>3. k \in 0..TTL
    BY <2>1, <2>2
  <2>4. t.role \in Sec!Recent(t.user)
    BY <2>2, <2>3 DEF Sec!Recent
  <2> QED
    BY <2>4
<1>2. (part = "access" => AccessInv) => EntitledInTime
  BY <1>1 DEF EntitledInTime
<1> QED
  BY <1>2, AccessAlways, PTL
===============================================================================
