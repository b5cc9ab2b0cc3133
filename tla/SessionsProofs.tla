--------------------------- MODULE SessionsProofs ---------------------------
(***************************************************************************)
(* Proofs about Sessions, for any number of users, tokens and requests in  *)
(* flight and any bound on password changes.                               *)
(***************************************************************************)
EXTENDS Sessions, TLAPS

\* A row that was once inserted (a row is never inserted twice)
Created(t) == status[t] \in {"active", "revoked", "deleted"}

\* Rows that were inserted have an owner and a family whose first row was
\* inserted too; values that were not have neither.
RowsLinked ==
  \A t \in Token :
    /\ Created(t) => owner[t] \in User /\ family[t] \in Token /\ Created(family[t])
    /\ ~Created(t) => owner[t] = None /\ family[t] = None /\ next[t] = None

\* What a request still refers to, where it awaits
RequestsLinked ==
  \A r \in Request :
    /\ pc[r] # "idle" => who[r] \in User
    /\ pc[r] \in Rotating \cup {"refresh_reuse", "logout_revoke"} =>
         tok[r] \in Token /\ Created(tok[r]) /\ owner[tok[r]] = who[r]
    /\ pc[r] = "refresh_create" => fresh[r] \in Token /\ status[fresh[r]] = "minted"
    /\ r \in forked => pc[r] = "refresh_create"
    /\ r \in overtaken => pc[r] # "idle"

MintedOnce ==
  \A q, r \in Request : pc[q] = "refresh_create" /\ pc[r] = "refresh_create"
                          /\ fresh[q] = fresh[r] => q = r

ClosedCreated == \A f \in closed : Created(f)

\* A password generation is revoked for only after it was written
CutWritten ==
  /\ \A u \in User : cut[u] <= pwd[u]
  /\ \A r \in Request : pc[r] \in {"change_revoke", "reset_revoke"} => era[r] <= pwd[who[r]]

\* NoSurvivorUnlessOvertaken, for the rows that requests in flight will create
IssuersSound ==
  \A r \in Request : r \notin overtaken =>
    /\ pc[r] \in Issuing => era[r] >= cut[who[r]]
    /\ pc[r] \in Rotating => family[tok[r]] \notin closed

LinkInv == TypeOK /\ RowsLinked /\ RequestsLinked /\ MintedOnce

SurvivorInv == ClosedCreated /\ CutWritten /\ IssuersSound /\ NoSurvivorUnlessOvertaken

\* The request that is about to create the next row of a family holds the place
\* of the family's one active row.
ForkInv ==
  /\ OneActiveUnlessForked
  /\ \A r \in Request, t \in Token :
       /\ pc[r] = "refresh_create" /\ r \notin forked
       /\ status[t] = "active" /\ t \notin forked
       => family[t] # family[tok[r]]
  /\ \A q, r \in Request :
       /\ pc[q] = "refresh_create" /\ q \notin forked
       /\ pc[r] = "refresh_create" /\ r \notin forked
       /\ family[tok[q]] = family[tok[r]]
       => q = r

\* A minted replacement is named by no token but the one being rotated
LineageInv ==
  /\ RotationLineage
  /\ \A t \in Token : next[t] # None => next[t] \in Token /\ status[next[t]] # "unused"
  /\ \A r \in Request, t \in Token :
       pc[r] = "refresh_create" /\ next[t] = fresh[r] => t = tok[r]

\* The request that is about to create a reset token holds the place of the
\* user's one usable token.
ResetInv ==
  /\ \A p \in ResetToken : IF rstatus[p] = "unused" THEN rowner[p] = None
                                                    ELSE rowner[p] \in User
  /\ OneUsableResetUnlessOvertaken
  /\ \A r \in Request, p \in ResetToken :
       /\ pc[r] = "forgot_create" /\ r \notin overtaken
       /\ rstatus[p] = "usable" /\ p \notin overtaken
       => rowner[p] # who[r]
  /\ \A q, r \in Request :
       /\ pc[q] = "forgot_create" /\ q \notin overtaken
       /\ pc[r] = "forgot_create" /\ r \notin overtaken
       /\ who[q] = who[r]
       => q = r

\* A request holds a token of the user whose password it resets, from its check to
\* its invalidation, and no other request holds one.
Resetting == {"reset_write", "reset_revoke", "reset_invalidate"}
HoldsLinked ==
  \A r \in Request :
    IF pc[r] \in Resetting
      THEN rtok[r] \in ResetToken /\ rowner[rtok[r]] = who[r] /\ rstatus[rtok[r]] # "unused"
      ELSE rtok[r] = None

\* A token that is not loose has one holder, who sets its first password; from then
\* on the holder is still to invalidate it, or it can be checked no more.
SpentInv ==
  /\ HoldsLinked
  /\ \A p \in ResetToken : rstatus[p] = "unused" => spent[p] = 0
  /\ \A q, r \in Request : rtok[q] = rtok[r] /\ rtok[q] \in ResetToken \ loose => q = r
  /\ \A r \in Request : pc[r] = "reset_write" /\ rtok[r] \notin loose => spent[rtok[r]] = 0
  /\ \A p \in ResetToken \ loose : spent[p] # 0 =>
       \/ rstatus[p] # "usable"
       \/ \E r \in Request : pc[r] \in {"reset_revoke", "reset_invalidate"} /\ rtok[r] = p
  /\ OnePasswordPerResetToken

-----------------------------------------------------------------------------
(* The tables, the requests and the links between them *)

\* Every step keeps the tables, the requests and the history well typed.
LEMMA TypeStep == LinkInv /\ [Next]_vars => TypeOK'
<1> SUFFICES ASSUME LinkInv, [Next]_vars PROVE TypeOK'
  OBVIOUS
<1> USE NoneAssumption, BoundAssumption, DisjointAssumption
    DEF LinkInv, TypeOK, RowStatus, ResetStatus, Await, Issuing, Rotating,
        account, refreshTable, resetTable, request, history, spending
<1>1. ASSUME NEW r \in Request, NEW u \in User, LoginRead(r, u) PROVE TypeOK'
  BY <1>1 DEF LoginRead, Begin, Hold
<1>2. ASSUME NEW r \in Request, NEW u \in User, OsmLoginRead(r, u) PROVE TypeOK'
  BY <1>2 DEF OsmLoginRead, Begin, Hold
<1>3. ASSUME NEW r \in Request, NEW u \in User, ChangeRead(r, u) PROVE TypeOK'
  BY <1>3 DEF ChangeRead, Begin, Hold
<1>4. ASSUME NEW r \in Request, NEW u \in User, ForgotRead(r, u) PROVE TypeOK'
  BY <1>4 DEF ForgotRead, Begin, Hold
<1>5. ASSUME NEW r \in Request, NEW t \in Token, RefreshRead(r, t) PROVE TypeOK'
  BY <1>5 DEF RefreshRead, Begin, Hold, Present, IsRevoked
<1>6. ASSUME NEW r \in Request, NEW t \in Token, LogoutRead(r, t) PROVE TypeOK'
  BY <1>6 DEF LogoutRead, Begin, Hold, Present
<1>7. ASSUME NEW r \in Request, NEW p \in ResetToken, ResetRead(r, p) PROVE TypeOK'
  BY <1>7 DEF ResetRead, Begin, Hold, ValidReset
<1>8. ASSUME NEW r \in Request, LoginIssue(r) PROVE TypeOK'
  BY <1>8 DEF LoginIssue, CreateRow, Bequeath, Hold
<1>9. ASSUME NEW r \in Request, RefreshReuse(r) PROVE TypeOK'
  <2>1. family[tok[r]] \in Token
    BY <1>9 DEF RefreshReuse, RowsLinked, RequestsLinked
  <2>2. overtaken' \in SUBSET (Token \cup ResetToken \cup Request)
    BY <1>9 DEF RefreshReuse, RevokeAllByFamily
  <2>3. status' \in [Token -> RowStatus]
    BY <1>9 DEF RefreshReuse, RevokeAllByFamily
  <2>4. QED
    BY <1>9, <2>1, <2>2, <2>3 DEF RefreshReuse, RevokeAllByFamily, Finish, Hold
<1>10. ASSUME NEW r \in Request, RefreshUser(r) PROVE TypeOK'
  <2>1. CASE who[r] \in users \cap enabled
    BY <1>10, <2>1 DEF RefreshUser
  <2>2. CASE who[r] \notin users \cap enabled
    BY <1>10, <2>2 DEF RefreshUser, Finish, Hold
  <2>3. QED
    BY <2>1, <2>2
<1>11. ASSUME NEW r \in Request, RefreshRotate(r) PROVE TypeOK'
  <2>1. PICK n \in Token : /\ status' = [status EXCEPT ![tok[r]] = "revoked", ![n] = "minted"]
                           /\ next' = [next EXCEPT ![tok[r]] = n]
                           /\ fresh' = [fresh EXCEPT ![r] = n]
    BY <1>11 DEF RefreshRotate, RevokedStatus, ReplacedBy
  <2>2. pc' \in [Request -> Await] /\ forked' \in SUBSET (Token \cup Request)
    BY <1>11 DEF RefreshRotate
  <2>3. status' \in [Token -> RowStatus] /\ next' \in [Token -> Token \cup {None}]
        /\ fresh' \in [Request -> Token \cup {None}]
    BY <2>1
  <2>4. QED
    BY <1>11, <2>2, <2>3 DEF RefreshRotate
<1>12. ASSUME NEW r \in Request, RefreshCreate(r) PROVE TypeOK'
  <2>1. fresh[r] \in Token /\ family[tok[r]] \in Token /\ who[r] \in User
    BY <1>12 DEF RefreshCreate, RowsLinked, RequestsLinked
  <2>2. QED
    BY <1>12, <2>1 DEF RefreshCreate, CreateRow, Bequeath, Hold
<1>13. ASSUME NEW r \in Request, LogoutRevoke(r) PROVE TypeOK'
  <2>1. family[tok[r]] \in Token
    BY <1>13 DEF LogoutRevoke, RowsLinked, RequestsLinked
  <2>2. overtaken' \in SUBSET (Token \cup ResetToken \cup Request)
    BY <1>13 DEF LogoutRevoke, RevokeAllByFamily
  <2>3. status' \in [Token -> RowStatus]
    BY <1>13 DEF LogoutRevoke, RevokeAllByFamily
  <2>4. QED
    BY <1>13, <2>1, <2>2, <2>3 DEF LogoutRevoke, RevokeAllByFamily, Finish, Hold
<1>14. ASSUME NEW r \in Request, ChangeWrite(r) PROVE TypeOK'
  BY <1>14 DEF ChangeWrite, WritePassword, Hold
<1>15. ASSUME NEW r \in Request, ChangeRevoke(r) PROVE TypeOK'
  <2>1. who[r] \in User
    BY <1>15 DEF ChangeRevoke, RequestsLinked
  <2>2. era[r] \in 0..MaxGen /\ cut[who[r]] \in 0..MaxGen
    BY <2>1
  <2>3. cut' \in [User -> 0..MaxGen]
    BY <1>15, <2>2 DEF ChangeRevoke, RevokeAllByUserId
  <2>4. overtaken' \in SUBSET (Token \cup ResetToken \cup Request)
    BY <1>15 DEF ChangeRevoke, RevokeAllByUserId
  <2>5. status' \in [Token -> RowStatus]
    BY <1>15 DEF ChangeRevoke, RevokeAllByUserId
  <2>6. QED
    BY SMTT(30), <1>15, <2>3, <2>4, <2>5 DEF ChangeRevoke, RevokeAllByUserId, Hold
<1>16. ASSUME NEW r \in Request, ForgotInvalidate(r) PROVE TypeOK'
  BY <1>16 DEF ForgotInvalidate, InvalidateAllForUser, PendingFor, Hold
<1>17. ASSUME NEW r \in Request, ForgotCreate(r) PROVE TypeOK'
  BY <1>17 DEF ForgotCreate, Bequeath, Finish, Hold
<1>18. ASSUME NEW r \in Request, ResetWrite(r) PROVE TypeOK'
  <2>1. spent' \in [ResetToken -> 0..2]
    <3>1. PICK x \in {1, 2} : spent' = [spent EXCEPT ![rtok[r]] = x]
      BY <1>18 DEF ResetWrite
    <3>2. x \in 0..2
      OBVIOUS
    <3>3. QED
      BY <3>1, <3>2
  <2>2. who[r] \in User /\ pwd[who[r]] + 1 \in 0..MaxGen
    <3>1. who[r] \in User /\ pwd[who[r]] < MaxGen
      BY <1>18 DEF ResetWrite, WritePassword
    <3>2. QED
      BY <3>1
  <2>3. pwd' \in [User -> 0..MaxGen] /\ era' \in [Token \cup Request -> 0..MaxGen]
    BY <1>18, <2>2 DEF ResetWrite, WritePassword
  <2>4. QED
    BY <1>18, <2>1, <2>3 DEF ResetWrite, WritePassword, Hold
<1>19. ASSUME NEW r \in Request, ResetRevoke(r) PROVE TypeOK'
  <2>1. who[r] \in User
    BY <1>19 DEF ResetRevoke, RequestsLinked
  <2>2. era[r] \in 0..MaxGen /\ cut[who[r]] \in 0..MaxGen
    BY <2>1
  <2>3. cut' \in [User -> 0..MaxGen]
    BY <1>19, <2>2 DEF ResetRevoke, RevokeAllByUserId
  <2>4. overtaken' \in SUBSET (Token \cup ResetToken \cup Request)
    BY <1>19 DEF ResetRevoke, RevokeAllByUserId
  <2>5. status' \in [Token -> RowStatus]
    BY <1>19 DEF ResetRevoke, RevokeAllByUserId
  <2>6. QED
    BY <1>19, <2>3, <2>4, <2>5 DEF ResetRevoke, RevokeAllByUserId, Hold
<1>20. ASSUME NEW r \in Request, ResetInvalidate(r) PROVE TypeOK'
  BY <1>20 DEF ResetInvalidate, InvalidateAllForUser, PendingFor, Hold
<1>21. ASSUME NEW r \in Request, Abort(r) PROVE TypeOK'
  BY <1>21 DEF Abort, Finish, Hold
<1>22. ASSUME NEW u \in User, SetActive(u) PROVE TypeOK'
  BY <1>22 DEF SetActive
<1>23. ASSUME NEW u \in User, DeleteUser(u) PROVE TypeOK'
  BY <1>23 DEF DeleteUser
<1>24. ASSUME NEW t \in Token, Expire(t) PROVE TypeOK'
  BY <1>24 DEF Expire
<1>25. ASSUME NEW p \in ResetToken, ExpireReset(p) PROVE TypeOK'
  BY <1>25 DEF ExpireReset
<1>26. CASE UNCHANGED vars
  BY <1>26 DEF vars
<1>27. QED
  BY <1>1, <1>2, <1>3, <1>4, <1>5, <1>6, <1>7, <1>8, <1>9, <1>10, <1>11, <1>12, <1>13, <1>14, <1>15, <1>16, <1>17, <1>18, <1>19, <1>20, <1>21, <1>22, <1>23, <1>24, <1>25, <1>26
     DEF Next, Handler, Environment

\* A row keeps its owner and family, and a value without a row has neither.
LEMMA RowsStep == LinkInv /\ [Next]_vars => RowsLinked'
<1> SUFFICES ASSUME LinkInv, [Next]_vars PROVE RowsLinked'
  OBVIOUS
<1> USE NoneAssumption, BoundAssumption, DisjointAssumption
    DEF LinkInv, TypeOK, Created, Issuing, Rotating, RowsLinked,
        account, refreshTable, resetTable, request, history, spending
<1>1. ASSUME NEW r \in Request, NEW u \in User, LoginRead(r, u) PROVE RowsLinked'
  BY <1>1 DEF LoginRead, Begin, Hold
<1>2. ASSUME NEW r \in Request, NEW u \in User, OsmLoginRead(r, u) PROVE RowsLinked'
  BY <1>2 DEF OsmLoginRead, Begin, Hold
<1>3. ASSUME NEW r \in Request, NEW u \in User, ChangeRead(r, u) PROVE RowsLinked'
  BY <1>3 DEF ChangeRead, Begin, Hold
<1>4. ASSUME NEW r \in Request, NEW u \in User, ForgotRead(r, u) PROVE RowsLinked'
  BY <1>4 DEF ForgotRead, Begin, Hold
<1>5. ASSUME NEW r \in Request, NEW t \in Token, RefreshRead(r, t) PROVE RowsLinked'
  BY <1>5 DEF RefreshRead, Begin, Hold, Present, IsRevoked
<1>6. ASSUME NEW r \in Request, NEW t \in Token, LogoutRead(r, t) PROVE RowsLinked'
  BY <1>6 DEF LogoutRead, Begin, Hold, Present
<1>7. ASSUME NEW r \in Request, NEW p \in ResetToken, ResetRead(r, p) PROVE RowsLinked'
  BY <1>7 DEF ResetRead, Begin, Hold, ValidReset
<1>8. ASSUME NEW r \in Request, LoginIssue(r) PROVE RowsLinked'
  BY <1>8 DEF LoginIssue, CreateRow, Bequeath, Hold
<1>9. ASSUME NEW r \in Request, RefreshReuse(r) PROVE RowsLinked'
  BY <1>9 DEF RefreshReuse, RevokeAllByFamily, Finish, Hold
<1>10. ASSUME NEW r \in Request, RefreshUser(r) PROVE RowsLinked'
  BY <1>10 DEF RefreshUser, Finish, Hold
<1>11. ASSUME NEW r \in Request, RefreshRotate(r) PROVE RowsLinked'
  BY <1>11 DEF RefreshRotate, Present, IsRevoked, RevokedStatus, ReplacedBy
<1>12. ASSUME NEW r \in Request, RefreshCreate(r) PROVE RowsLinked'
  <2> DEFINE n == fresh[r]
             f == family[tok[r]]
  <2>1. n \in Token /\ status[n] = "minted" /\ f \in Token /\ Created(f) /\ who[r] \in User
    BY <1>12 DEF RefreshCreate, RequestsLinked
  <2>2. /\ status' = [status EXCEPT ![n] = "active"]
        /\ owner' = [owner EXCEPT ![n] = who[r]]
        /\ family' = [family EXCEPT ![n] = f]
        /\ next' = next
    BY <1>12 DEF RefreshCreate, CreateRow
  <2>3. QED
    BY <2>1, <2>2
<1>13. ASSUME NEW r \in Request, LogoutRevoke(r) PROVE RowsLinked'
  BY <1>13 DEF LogoutRevoke, RevokeAllByFamily, Finish, Hold
<1>14. ASSUME NEW r \in Request, ChangeWrite(r) PROVE RowsLinked'
  BY <1>14 DEF ChangeWrite, WritePassword, Hold
<1>15. ASSUME NEW r \in Request, ChangeRevoke(r) PROVE RowsLinked'
  BY <1>15 DEF ChangeRevoke, RevokeAllByUserId, Hold
<1>16. ASSUME NEW r \in Request, ForgotInvalidate(r) PROVE RowsLinked'
  BY <1>16 DEF ForgotInvalidate, InvalidateAllForUser, PendingFor, Hold
<1>17. ASSUME NEW r \in Request, ForgotCreate(r) PROVE RowsLinked'
  BY <1>17 DEF ForgotCreate, Bequeath, Finish, Hold
<1>18. ASSUME NEW r \in Request, ResetWrite(r) PROVE RowsLinked'
  BY <1>18 DEF ResetWrite, WritePassword, Hold
<1>19. ASSUME NEW r \in Request, ResetRevoke(r) PROVE RowsLinked'
  BY <1>19 DEF ResetRevoke, RevokeAllByUserId, Hold
<1>20. ASSUME NEW r \in Request, ResetInvalidate(r) PROVE RowsLinked'
  BY <1>20 DEF ResetInvalidate, InvalidateAllForUser, PendingFor, Hold
<1>21. ASSUME NEW r \in Request, Abort(r) PROVE RowsLinked'
  BY <1>21 DEF Abort, Finish, Hold
<1>22. ASSUME NEW u \in User, SetActive(u) PROVE RowsLinked'
  BY <1>22 DEF SetActive
<1>23. ASSUME NEW u \in User, DeleteUser(u) PROVE RowsLinked'
  BY <1>23 DEF DeleteUser
<1>24. ASSUME NEW t \in Token, Expire(t) PROVE RowsLinked'
  BY <1>24 DEF Expire
<1>25. ASSUME NEW p \in ResetToken, ExpireReset(p) PROVE RowsLinked'
  BY <1>25 DEF ExpireReset
<1>26. CASE UNCHANGED vars
  BY <1>26 DEF vars
<1>27. QED
  BY <1>1, <1>2, <1>3, <1>4, <1>5, <1>6, <1>7, <1>8, <1>9, <1>10, <1>11, <1>12, <1>13, <1>14, <1>15, <1>16, <1>17, <1>18, <1>19, <1>20, <1>21, <1>22, <1>23, <1>24, <1>25, <1>26
     DEF Next, Handler, Environment

\* What a request refers to stays there while it awaits.
LEMMA RequestsStep == LinkInv /\ [Next]_vars => RequestsLinked'
<1> SUFFICES ASSUME LinkInv, [Next]_vars PROVE RequestsLinked'
  OBVIOUS
<1> USE NoneAssumption, BoundAssumption, DisjointAssumption
    DEF LinkInv, TypeOK, Created, Issuing, Rotating, RowsLinked, RequestsLinked,
        account, refreshTable, resetTable, request, history, spending
<1>1. ASSUME NEW r \in Request, NEW u \in User, LoginRead(r, u) PROVE RequestsLinked'
  BY <1>1 DEF LoginRead, Begin, Hold
<1>2. ASSUME NEW r \in Request, NEW u \in User, OsmLoginRead(r, u) PROVE RequestsLinked'
  BY <1>2 DEF OsmLoginRead, Begin, Hold
<1>3. ASSUME NEW r \in Request, NEW u \in User, ChangeRead(r, u) PROVE RequestsLinked'
  BY <1>3 DEF ChangeRead, Begin, Hold
<1>4. ASSUME NEW r \in Request, NEW u \in User, ForgotRead(r, u) PROVE RequestsLinked'
  BY <1>4 DEF ForgotRead, Begin, Hold
<1>5. ASSUME NEW r \in Request, NEW t \in Token, RefreshRead(r, t) PROVE RequestsLinked'
  BY <1>5 DEF RefreshRead, Begin, Hold, Present, IsRevoked
<1>6. ASSUME NEW r \in Request, NEW t \in Token, LogoutRead(r, t) PROVE RequestsLinked'
  BY <1>6 DEF LogoutRead, Begin, Hold, Present
<1>7. ASSUME NEW r \in Request, NEW p \in ResetToken, ResetRead(r, p) PROVE RequestsLinked'
  BY <1>7 DEF ResetRead, Begin, Hold, ValidReset
<1>8. ASSUME NEW r \in Request, LoginIssue(r) PROVE RequestsLinked'
  BY <1>8 DEF LoginIssue, CreateRow, Bequeath, Hold
<1>9. ASSUME NEW r \in Request, RefreshReuse(r) PROVE RequestsLinked'
  BY <1>9 DEF RefreshReuse, RevokeAllByFamily, Finish, Hold
<1>10. ASSUME NEW r \in Request, RefreshUser(r) PROVE RequestsLinked'
  BY <1>10 DEF RefreshUser, Finish, Hold
<1>11. ASSUME NEW r \in Request, RefreshRotate(r) PROVE RequestsLinked'
  BY <1>11 DEF RefreshRotate, Present, IsRevoked, RevokedStatus, ReplacedBy
<1>12. ASSUME NEW r \in Request, RefreshCreate(r) PROVE RequestsLinked'
  <2> DEFINE n == fresh[r]
  <2>1. n \in Token /\ status[n] = "minted"
    BY <1>12 DEF RefreshCreate
  <2>2. /\ status' = [status EXCEPT ![n] = "active"]
        /\ owner' = [owner EXCEPT ![n] = who[r]]
        /\ overtaken' \in SUBSET (Token \cup ResetToken \cup Request)
        /\ \A q \in Request : q \in overtaken' => q \in overtaken /\ q # r
        /\ \A q \in Request : q \in forked' => q \in forked /\ q # r
    BY <1>12, <2>1 DEF RefreshCreate, CreateRow, Bequeath
  <2>3. pc'[r] = "idle"
    BY <1>12 DEF RefreshCreate, CreateRow, Hold
  <2>4. ASSUME NEW q \in Request, q # r
        PROVE /\ pc'[q] = pc[q] /\ who'[q] = who[q] /\ tok'[q] = tok[q]
              /\ fresh'[q] = fresh[q]
              /\ pc[q] = "refresh_create" => fresh[q] # n
    BY <1>12, <2>4 DEF RefreshCreate, CreateRow, Hold, MintedOnce
  <2>5. QED
    BY <2>1, <2>2, <2>3, <2>4
<1>13. ASSUME NEW r \in Request, LogoutRevoke(r) PROVE RequestsLinked'
  BY <1>13 DEF LogoutRevoke, RevokeAllByFamily, Finish, Hold
<1>14. ASSUME NEW r \in Request, ChangeWrite(r) PROVE RequestsLinked'
  BY <1>14 DEF ChangeWrite, WritePassword, Hold
<1>15. ASSUME NEW r \in Request, ChangeRevoke(r) PROVE RequestsLinked'
  BY <1>15 DEF ChangeRevoke, RevokeAllByUserId, Hold
<1>16. ASSUME NEW r \in Request, ForgotInvalidate(r) PROVE RequestsLinked'
  BY <1>16 DEF ForgotInvalidate, InvalidateAllForUser, PendingFor, Hold
<1>17. ASSUME NEW r \in Request, ForgotCreate(r) PROVE RequestsLinked'
  BY <1>17 DEF ForgotCreate, Bequeath, Finish, Hold
<1>18. ASSUME NEW r \in Request, ResetWrite(r) PROVE RequestsLinked'
  BY <1>18 DEF ResetWrite, WritePassword, Hold
<1>19. ASSUME NEW r \in Request, ResetRevoke(r) PROVE RequestsLinked'
  BY <1>19 DEF ResetRevoke, RevokeAllByUserId, Hold
<1>20. ASSUME NEW r \in Request, ResetInvalidate(r) PROVE RequestsLinked'
  BY <1>20 DEF ResetInvalidate, InvalidateAllForUser, PendingFor, Hold
<1>21. ASSUME NEW r \in Request, Abort(r) PROVE RequestsLinked'
  BY <1>21 DEF Abort, Finish, Hold
<1>22. ASSUME NEW u \in User, SetActive(u) PROVE RequestsLinked'
  BY <1>22 DEF SetActive
<1>23. ASSUME NEW u \in User, DeleteUser(u) PROVE RequestsLinked'
  BY <1>23 DEF DeleteUser
<1>24. ASSUME NEW t \in Token, Expire(t) PROVE RequestsLinked'
  BY <1>24 DEF Expire
<1>25. ASSUME NEW p \in ResetToken, ExpireReset(p) PROVE RequestsLinked'
  BY <1>25 DEF ExpireReset
<1>26. CASE UNCHANGED vars
  BY <1>26 DEF vars
<1>27. QED
  BY <1>1, <1>2, <1>3, <1>4, <1>5, <1>6, <1>7, <1>8, <1>9, <1>10, <1>11, <1>12, <1>13, <1>14, <1>15, <1>16, <1>17, <1>18, <1>19, <1>20, <1>21, <1>22, <1>23, <1>24, <1>25, <1>26
     DEF Next, Handler, Environment

\* Two rotations never mint the same value.
LEMMA MintedStep == LinkInv /\ [Next]_vars => MintedOnce'
<1> SUFFICES ASSUME LinkInv, [Next]_vars PROVE MintedOnce'
  OBVIOUS
<1> USE NoneAssumption, BoundAssumption, DisjointAssumption
    DEF LinkInv, TypeOK, Created, Issuing, Rotating, RequestsLinked, MintedOnce,
        account, refreshTable, resetTable, request, history, spending
<1>1. ASSUME NEW r \in Request, NEW u \in User, LoginRead(r, u) PROVE MintedOnce'
  BY <1>1 DEF LoginRead, Begin, Hold
<1>2. ASSUME NEW r \in Request, NEW u \in User, OsmLoginRead(r, u) PROVE MintedOnce'
  BY <1>2 DEF OsmLoginRead, Begin, Hold
<1>3. ASSUME NEW r \in Request, NEW u \in User, ChangeRead(r, u) PROVE MintedOnce'
  BY <1>3 DEF ChangeRead, Begin, Hold
<1>4. ASSUME NEW r \in Request, NEW u \in User, ForgotRead(r, u) PROVE MintedOnce'
  BY <1>4 DEF ForgotRead, Begin, Hold
<1>5. ASSUME NEW r \in Request, NEW t \in Token, RefreshRead(r, t) PROVE MintedOnce'
  BY <1>5 DEF RefreshRead, Begin, Hold, Present, IsRevoked
<1>6. ASSUME NEW r \in Request, NEW t \in Token, LogoutRead(r, t) PROVE MintedOnce'
  BY <1>6 DEF LogoutRead, Begin, Hold, Present
<1>7. ASSUME NEW r \in Request, NEW p \in ResetToken, ResetRead(r, p) PROVE MintedOnce'
  BY <1>7 DEF ResetRead, Begin, Hold, ValidReset
<1>8. ASSUME NEW r \in Request, LoginIssue(r) PROVE MintedOnce'
  BY <1>8 DEF LoginIssue, CreateRow, Bequeath, Hold
<1>9. ASSUME NEW r \in Request, RefreshReuse(r) PROVE MintedOnce'
  BY <1>9 DEF RefreshReuse, RevokeAllByFamily, Finish, Hold
<1>10. ASSUME NEW r \in Request, RefreshUser(r) PROVE MintedOnce'
  BY <1>10 DEF RefreshUser, Finish, Hold
<1>11. ASSUME NEW r \in Request, RefreshRotate(r) PROVE MintedOnce'
  BY <1>11 DEF RefreshRotate, Present, IsRevoked, RevokedStatus, ReplacedBy
<1>12. ASSUME NEW r \in Request, RefreshCreate(r) PROVE MintedOnce'
  BY <1>12 DEF RefreshCreate, CreateRow, Bequeath, Hold
<1>13. ASSUME NEW r \in Request, LogoutRevoke(r) PROVE MintedOnce'
  BY <1>13 DEF LogoutRevoke, RevokeAllByFamily, Finish, Hold
<1>14. ASSUME NEW r \in Request, ChangeWrite(r) PROVE MintedOnce'
  BY <1>14 DEF ChangeWrite, WritePassword, Hold
<1>15. ASSUME NEW r \in Request, ChangeRevoke(r) PROVE MintedOnce'
  BY <1>15 DEF ChangeRevoke, RevokeAllByUserId, Hold
<1>16. ASSUME NEW r \in Request, ForgotInvalidate(r) PROVE MintedOnce'
  BY <1>16 DEF ForgotInvalidate, InvalidateAllForUser, PendingFor, Hold
<1>17. ASSUME NEW r \in Request, ForgotCreate(r) PROVE MintedOnce'
  BY <1>17 DEF ForgotCreate, Bequeath, Finish, Hold
<1>18. ASSUME NEW r \in Request, ResetWrite(r) PROVE MintedOnce'
  BY <1>18 DEF ResetWrite, WritePassword, Hold
<1>19. ASSUME NEW r \in Request, ResetRevoke(r) PROVE MintedOnce'
  BY <1>19 DEF ResetRevoke, RevokeAllByUserId, Hold
<1>20. ASSUME NEW r \in Request, ResetInvalidate(r) PROVE MintedOnce'
  BY <1>20 DEF ResetInvalidate, InvalidateAllForUser, PendingFor, Hold
<1>21. ASSUME NEW r \in Request, Abort(r) PROVE MintedOnce'
  BY <1>21 DEF Abort, Finish, Hold
<1>22. ASSUME NEW u \in User, SetActive(u) PROVE MintedOnce'
  BY <1>22 DEF SetActive
<1>23. ASSUME NEW u \in User, DeleteUser(u) PROVE MintedOnce'
  BY <1>23 DEF DeleteUser
<1>24. ASSUME NEW t \in Token, Expire(t) PROVE MintedOnce'
  BY <1>24 DEF Expire
<1>25. ASSUME NEW p \in ResetToken, ExpireReset(p) PROVE MintedOnce'
  BY <1>25 DEF ExpireReset
<1>26. CASE UNCHANGED vars
  BY <1>26 DEF vars
<1>27. QED
  BY <1>1, <1>2, <1>3, <1>4, <1>5, <1>6, <1>7, <1>8, <1>9, <1>10, <1>11, <1>12, <1>13, <1>14, <1>15, <1>16, <1>17, <1>18, <1>19, <1>20, <1>21, <1>22, <1>23, <1>24, <1>25, <1>26
     DEF Next, Handler, Environment

\* Requests and rows stay linked, whatever runs between two statements.
THEOREM Linked == Spec => []LinkInv
<1> USE NoneAssumption, BoundAssumption, DisjointAssumption
<1>1. Init => LinkInv
  BY DEF Init, LinkInv, TypeOK, RowStatus, ResetStatus, Await, RowsLinked, Created,
         RequestsLinked, MintedOnce, Rotating, Issuing
<1>2. LinkInv /\ [Next]_vars => LinkInv'
  BY TypeStep, RowsStep, RequestsStep, MintedStep DEF LinkInv
<1>3. QED
  BY <1>1, <1>2, PTL DEF Spec

\* The tables, the requests and the history are well typed in every state.
THEOREM TypeCorrect == Spec => []TypeOK
<1>1. LinkInv => TypeOK
  BY DEF LinkInv
<1>2. QED
  BY <1>1, Linked, PTL

-----------------------------------------------------------------------------
(* No session survives its revocation, unless a request was in flight *)

\* Only families with a row are ever revoked.
LEMMA ClosedStep == LinkInv /\ SurvivorInv /\ [Next]_vars => ClosedCreated'
<1> SUFFICES ASSUME LinkInv, SurvivorInv, [Next]_vars PROVE ClosedCreated'
  OBVIOUS
<1> USE NoneAssumption, BoundAssumption, DisjointAssumption
    DEF LinkInv, SurvivorInv, TypeOK, Created, Issuing, Rotating, RowsLinked, RequestsLinked, ClosedCreated,
        account, refreshTable, resetTable, request, history, spending
<1>1. ASSUME NEW r \in Request, NEW u \in User, LoginRead(r, u) PROVE ClosedCreated'
  BY <1>1 DEF LoginRead, Begin, Hold
<1>2. ASSUME NEW r \in Request, NEW u \in User, OsmLoginRead(r, u) PROVE ClosedCreated'
  BY <1>2 DEF OsmLoginRead, Begin, Hold
<1>3. ASSUME NEW r \in Request, NEW u \in User, ChangeRead(r, u) PROVE ClosedCreated'
  BY <1>3 DEF ChangeRead, Begin, Hold
<1>4. ASSUME NEW r \in Request, NEW u \in User, ForgotRead(r, u) PROVE ClosedCreated'
  BY <1>4 DEF ForgotRead, Begin, Hold
<1>5. ASSUME NEW r \in Request, NEW t \in Token, RefreshRead(r, t) PROVE ClosedCreated'
  BY <1>5 DEF RefreshRead, Begin, Hold, Present, IsRevoked
<1>6. ASSUME NEW r \in Request, NEW t \in Token, LogoutRead(r, t) PROVE ClosedCreated'
  BY <1>6 DEF LogoutRead, Begin, Hold, Present
<1>7. ASSUME NEW r \in Request, NEW p \in ResetToken, ResetRead(r, p) PROVE ClosedCreated'
  BY <1>7 DEF ResetRead, Begin, Hold, ValidReset
<1>8. ASSUME NEW r \in Request, LoginIssue(r) PROVE ClosedCreated'
  BY <1>8 DEF LoginIssue, CreateRow, Bequeath, Hold
<1>9. ASSUME NEW r \in Request, RefreshReuse(r) PROVE ClosedCreated'
  BY <1>9 DEF RefreshReuse, RevokeAllByFamily, Finish, Hold
<1>10. ASSUME NEW r \in Request, RefreshUser(r) PROVE ClosedCreated'
  BY <1>10 DEF RefreshUser, Finish, Hold
<1>11. ASSUME NEW r \in Request, RefreshRotate(r) PROVE ClosedCreated'
  BY <1>11 DEF RefreshRotate, Present, IsRevoked, RevokedStatus, ReplacedBy
<1>12. ASSUME NEW r \in Request, RefreshCreate(r) PROVE ClosedCreated'
  BY <1>12 DEF RefreshCreate, CreateRow, Bequeath, Hold
<1>13. ASSUME NEW r \in Request, LogoutRevoke(r) PROVE ClosedCreated'
  BY <1>13 DEF LogoutRevoke, RevokeAllByFamily, Finish, Hold
<1>14. ASSUME NEW r \in Request, ChangeWrite(r) PROVE ClosedCreated'
  BY <1>14 DEF ChangeWrite, WritePassword, Hold
<1>15. ASSUME NEW r \in Request, ChangeRevoke(r) PROVE ClosedCreated'
  BY <1>15 DEF ChangeRevoke, RevokeAllByUserId, Hold
<1>16. ASSUME NEW r \in Request, ForgotInvalidate(r) PROVE ClosedCreated'
  BY <1>16 DEF ForgotInvalidate, InvalidateAllForUser, PendingFor, Hold
<1>17. ASSUME NEW r \in Request, ForgotCreate(r) PROVE ClosedCreated'
  BY <1>17 DEF ForgotCreate, Bequeath, Finish, Hold
<1>18. ASSUME NEW r \in Request, ResetWrite(r) PROVE ClosedCreated'
  BY <1>18 DEF ResetWrite, WritePassword, Hold
<1>19. ASSUME NEW r \in Request, ResetRevoke(r) PROVE ClosedCreated'
  BY <1>19 DEF ResetRevoke, RevokeAllByUserId, Hold
<1>20. ASSUME NEW r \in Request, ResetInvalidate(r) PROVE ClosedCreated'
  BY <1>20 DEF ResetInvalidate, InvalidateAllForUser, PendingFor, Hold
<1>21. ASSUME NEW r \in Request, Abort(r) PROVE ClosedCreated'
  BY <1>21 DEF Abort, Finish, Hold
<1>22. ASSUME NEW u \in User, SetActive(u) PROVE ClosedCreated'
  BY <1>22 DEF SetActive
<1>23. ASSUME NEW u \in User, DeleteUser(u) PROVE ClosedCreated'
  BY <1>23 DEF DeleteUser
<1>24. ASSUME NEW t \in Token, Expire(t) PROVE ClosedCreated'
  BY <1>24 DEF Expire
<1>25. ASSUME NEW p \in ResetToken, ExpireReset(p) PROVE ClosedCreated'
  BY <1>25 DEF ExpireReset
<1>26. CASE UNCHANGED vars
  BY <1>26 DEF vars
<1>27. QED
  BY <1>1, <1>2, <1>3, <1>4, <1>5, <1>6, <1>7, <1>8, <1>9, <1>10, <1>11, <1>12, <1>13, <1>14, <1>15, <1>16, <1>17, <1>18, <1>19, <1>20, <1>21, <1>22, <1>23, <1>24, <1>25, <1>26
     DEF Next, Handler, Environment

\* A bulk revocation runs for a password that was written.
LEMMA CutStep == LinkInv /\ SurvivorInv /\ [Next]_vars => CutWritten'
<1> SUFFICES ASSUME LinkInv, SurvivorInv, [Next]_vars PROVE CutWritten'
  OBVIOUS
<1> USE NoneAssumption, BoundAssumption, DisjointAssumption
    DEF LinkInv, SurvivorInv, TypeOK, Created, Issuing, Rotating, RequestsLinked, CutWritten,
        account, refreshTable, resetTable, request, history, spending
<1>1. ASSUME NEW r \in Request, NEW u \in User, LoginRead(r, u) PROVE CutWritten'
  BY <1>1 DEF LoginRead, Begin, Hold
<1>2. ASSUME NEW r \in Request, NEW u \in User, OsmLoginRead(r, u) PROVE CutWritten'
  BY <1>2 DEF OsmLoginRead, Begin, Hold
<1>3. ASSUME NEW r \in Request, NEW u \in User, ChangeRead(r, u) PROVE CutWritten'
  BY <1>3 DEF ChangeRead, Begin, Hold
<1>4. ASSUME NEW r \in Request, NEW u \in User, ForgotRead(r, u) PROVE CutWritten'
  BY <1>4 DEF ForgotRead, Begin, Hold
<1>5. ASSUME NEW r \in Request, NEW t \in Token, RefreshRead(r, t) PROVE CutWritten'
  BY <1>5 DEF RefreshRead, Begin, Hold, Present, IsRevoked
<1>6. ASSUME NEW r \in Request, NEW t \in Token, LogoutRead(r, t) PROVE CutWritten'
  BY <1>6 DEF LogoutRead, Begin, Hold, Present
<1>7. ASSUME NEW r \in Request, NEW p \in ResetToken, ResetRead(r, p) PROVE CutWritten'
  BY <1>7 DEF ResetRead, Begin, Hold, ValidReset
<1>8. ASSUME NEW r \in Request, LoginIssue(r) PROVE CutWritten'
  BY <1>8 DEF LoginIssue, CreateRow, Bequeath, Hold
<1>9. ASSUME NEW r \in Request, RefreshReuse(r) PROVE CutWritten'
  BY <1>9 DEF RefreshReuse, RevokeAllByFamily, Finish, Hold
<1>10. ASSUME NEW r \in Request, RefreshUser(r) PROVE CutWritten'
  BY <1>10 DEF RefreshUser, Finish, Hold
<1>11. ASSUME NEW r \in Request, RefreshRotate(r) PROVE CutWritten'
  BY <1>11 DEF RefreshRotate, Present, IsRevoked, RevokedStatus, ReplacedBy
<1>12. ASSUME NEW r \in Request, RefreshCreate(r) PROVE CutWritten'
  BY <1>12 DEF RefreshCreate, CreateRow, Bequeath, Hold
<1>13. ASSUME NEW r \in Request, LogoutRevoke(r) PROVE CutWritten'
  BY <1>13 DEF LogoutRevoke, RevokeAllByFamily, Finish, Hold
<1>14. ASSUME NEW r \in Request, ChangeWrite(r) PROVE CutWritten'
  BY <1>14 DEF ChangeWrite, WritePassword, Hold
<1>15. ASSUME NEW r \in Request, ChangeRevoke(r) PROVE CutWritten'
  BY <1>15 DEF ChangeRevoke, RevokeAllByUserId, Hold
<1>16. ASSUME NEW r \in Request, ForgotInvalidate(r) PROVE CutWritten'
  BY <1>16 DEF ForgotInvalidate, InvalidateAllForUser, PendingFor, Hold
<1>17. ASSUME NEW r \in Request, ForgotCreate(r) PROVE CutWritten'
  BY <1>17 DEF ForgotCreate, Bequeath, Finish, Hold
<1>18. ASSUME NEW r \in Request, ResetWrite(r) PROVE CutWritten'
  BY <1>18 DEF ResetWrite, WritePassword, Hold
<1>19. ASSUME NEW r \in Request, ResetRevoke(r) PROVE CutWritten'
  BY <1>19 DEF ResetRevoke, RevokeAllByUserId, Hold
<1>20. ASSUME NEW r \in Request, ResetInvalidate(r) PROVE CutWritten'
  BY <1>20 DEF ResetInvalidate, InvalidateAllForUser, PendingFor, Hold
<1>21. ASSUME NEW r \in Request, Abort(r) PROVE CutWritten'
  BY <1>21 DEF Abort, Finish, Hold
<1>22. ASSUME NEW u \in User, SetActive(u) PROVE CutWritten'
  BY <1>22 DEF SetActive
<1>23. ASSUME NEW u \in User, DeleteUser(u) PROVE CutWritten'
  BY <1>23 DEF DeleteUser
<1>24. ASSUME NEW t \in Token, Expire(t) PROVE CutWritten'
  BY <1>24 DEF Expire
<1>25. ASSUME NEW p \in ResetToken, ExpireReset(p) PROVE CutWritten'
  BY <1>25 DEF ExpireReset
<1>26. CASE UNCHANGED vars
  BY <1>26 DEF vars
<1>27. QED
  BY <1>1, <1>2, <1>3, <1>4, <1>5, <1>6, <1>7, <1>8, <1>9, <1>10, <1>11, <1>12, <1>13, <1>14, <1>15, <1>16, <1>17, <1>18, <1>19, <1>20, <1>21, <1>22, <1>23, <1>24, <1>25, <1>26
     DEF Next, Handler, Environment

\* A request that goes on to issue a row, and no bulk revocation overtook, is
\* not in a revoked family and not authenticated under a revoked password.
LEMMA IssuersStep == LinkInv /\ SurvivorInv /\ [Next]_vars => IssuersSound'
<1> SUFFICES ASSUME LinkInv, SurvivorInv, [Next]_vars PROVE IssuersSound'
  OBVIOUS
<1> USE NoneAssumption, BoundAssumption, DisjointAssumption
    DEF LinkInv, SurvivorInv, TypeOK, Created, Issuing, Rotating, RowsLinked, RequestsLinked, ClosedCreated, CutWritten, IssuersSound,
        NoSurvivorUnlessOvertaken,
        account, refreshTable, resetTable, request, history, spending
<1>1. ASSUME NEW r \in Request, NEW u \in User, LoginRead(r, u) PROVE IssuersSound'
  BY <1>1 DEF LoginRead, Begin, Hold
<1>2. ASSUME NEW r \in Request, NEW u \in User, OsmLoginRead(r, u) PROVE IssuersSound'
  BY <1>2 DEF OsmLoginRead, Begin, Hold
<1>3. ASSUME NEW r \in Request, NEW u \in User, ChangeRead(r, u) PROVE IssuersSound'
  BY <1>3 DEF ChangeRead, Begin, Hold
<1>4. ASSUME NEW r \in Request, NEW u \in User, ForgotRead(r, u) PROVE IssuersSound'
  BY <1>4 DEF ForgotRead, Begin, Hold
<1>5. ASSUME NEW r \in Request, NEW t \in Token, RefreshRead(r, t) PROVE IssuersSound'
  BY <1>5 DEF RefreshRead, Begin, Hold, Present, IsRevoked
<1>6. ASSUME NEW r \in Request, NEW t \in Token, LogoutRead(r, t) PROVE IssuersSound'
  BY <1>6 DEF LogoutRead, Begin, Hold, Present
<1>7. ASSUME NEW r \in Request, NEW p \in ResetToken, ResetRead(r, p) PROVE IssuersSound'
  BY <1>7 DEF ResetRead, Begin, Hold, ValidReset
<1>8. ASSUME NEW r \in Request, LoginIssue(r) PROVE IssuersSound'
  BY <1>8 DEF LoginIssue, CreateRow, Bequeath, Hold
<1>9. ASSUME NEW r \in Request, RefreshReuse(r) PROVE IssuersSound'
  BY <1>9 DEF RefreshReuse, RevokeAllByFamily, Finish, Hold
<1>10. ASSUME NEW r \in Request, RefreshUser(r) PROVE IssuersSound'
  BY <1>10 DEF RefreshUser, Finish, Hold
<1>11. ASSUME NEW r \in Request, RefreshRotate(r) PROVE IssuersSound'
  BY <1>11 DEF RefreshRotate, Present, IsRevoked, RevokedStatus, ReplacedBy
<1>12. ASSUME NEW r \in Request, RefreshCreate(r) PROVE IssuersSound'
  BY <1>12 DEF RefreshCreate, CreateRow, Bequeath, Hold
<1>13. ASSUME NEW r \in Request, LogoutRevoke(r) PROVE IssuersSound'
  BY <1>13 DEF LogoutRevoke, RevokeAllByFamily, Finish, Hold
<1>14. ASSUME NEW r \in Request, ChangeWrite(r) PROVE IssuersSound'
  BY <1>14 DEF ChangeWrite, WritePassword, Hold
<1>15. ASSUME NEW r \in Request, ChangeRevoke(r) PROVE IssuersSound'
  BY <1>15 DEF ChangeRevoke, RevokeAllByUserId, Hold
<1>16. ASSUME NEW r \in Request, ForgotInvalidate(r) PROVE IssuersSound'
  BY <1>16 DEF ForgotInvalidate, InvalidateAllForUser, PendingFor, Hold
<1>17. ASSUME NEW r \in Request, ForgotCreate(r) PROVE IssuersSound'
  BY <1>17 DEF ForgotCreate, Bequeath, Finish, Hold
<1>18. ASSUME NEW r \in Request, ResetWrite(r) PROVE IssuersSound'
  BY <1>18 DEF ResetWrite, WritePassword, Hold
<1>19. ASSUME NEW r \in Request, ResetRevoke(r) PROVE IssuersSound'
  BY <1>19 DEF ResetRevoke, RevokeAllByUserId, Hold
<1>20. ASSUME NEW r \in Request, ResetInvalidate(r) PROVE IssuersSound'
  BY <1>20 DEF ResetInvalidate, InvalidateAllForUser, PendingFor, Hold
<1>21. ASSUME NEW r \in Request, Abort(r) PROVE IssuersSound'
  BY <1>21 DEF Abort, Finish, Hold
<1>22. ASSUME NEW u \in User, SetActive(u) PROVE IssuersSound'
  BY <1>22 DEF SetActive
<1>23. ASSUME NEW u \in User, DeleteUser(u) PROVE IssuersSound'
  BY <1>23 DEF DeleteUser
<1>24. ASSUME NEW t \in Token, Expire(t) PROVE IssuersSound'
  BY <1>24 DEF Expire
<1>25. ASSUME NEW p \in ResetToken, ExpireReset(p) PROVE IssuersSound'
  BY <1>25 DEF ExpireReset
<1>26. CASE UNCHANGED vars
  BY <1>26 DEF vars
<1>27. QED
  BY <1>1, <1>2, <1>3, <1>4, <1>5, <1>6, <1>7, <1>8, <1>9, <1>10, <1>11, <1>12, <1>13, <1>14, <1>15, <1>16, <1>17, <1>18, <1>19, <1>20, <1>21, <1>22, <1>23, <1>24, <1>25, <1>26
     DEF Next, Handler, Environment

\* A revocation takes every active row, and later rows are issued by requests it
\* did not overtake only in other families and under the new password.
LEMMA SurvivorStep == LinkInv /\ SurvivorInv /\ [Next]_vars => NoSurvivorUnlessOvertaken'
<1> SUFFICES ASSUME LinkInv, SurvivorInv, [Next]_vars PROVE NoSurvivorUnlessOvertaken'
  OBVIOUS
<1> USE NoneAssumption, BoundAssumption, DisjointAssumption
    DEF LinkInv, SurvivorInv, TypeOK, Created, Issuing, Rotating, RowsLinked, RequestsLinked, ClosedCreated, CutWritten, IssuersSound,
        NoSurvivorUnlessOvertaken,
        account, refreshTable, resetTable, request, history, spending
<1>1. ASSUME NEW r \in Request, NEW u \in User, LoginRead(r, u) PROVE NoSurvivorUnlessOvertaken'
  BY <1>1 DEF LoginRead, Begin, Hold
<1>2. ASSUME NEW r \in Request, NEW u \in User, OsmLoginRead(r, u) PROVE NoSurvivorUnlessOvertaken'
  BY <1>2 DEF OsmLoginRead, Begin, Hold
<1>3. ASSUME NEW r \in Request, NEW u \in User, ChangeRead(r, u) PROVE NoSurvivorUnlessOvertaken'
  BY <1>3 DEF ChangeRead, Begin, Hold
<1>4. ASSUME NEW r \in Request, NEW u \in User, ForgotRead(r, u) PROVE NoSurvivorUnlessOvertaken'
  BY <1>4 DEF ForgotRead, Begin, Hold
<1>5. ASSUME NEW r \in Request, NEW t \in Token, RefreshRead(r, t) PROVE NoSurvivorUnlessOvertaken'
  BY <1>5 DEF RefreshRead, Begin, Hold, Present, IsRevoked
<1>6. ASSUME NEW r \in Request, NEW t \in Token, LogoutRead(r, t) PROVE NoSurvivorUnlessOvertaken'
  BY <1>6 DEF LogoutRead, Begin, Hold, Present
<1>7. ASSUME NEW r \in Request, NEW p \in ResetToken, ResetRead(r, p) PROVE NoSurvivorUnlessOvertaken'
  BY <1>7 DEF ResetRead, Begin, Hold, ValidReset
<1>8. ASSUME NEW r \in Request, LoginIssue(r) PROVE NoSurvivorUnlessOvertaken'
  BY <1>8 DEF LoginIssue, CreateRow, Bequeath, Hold
<1>9. ASSUME NEW r \in Request, RefreshReuse(r) PROVE NoSurvivorUnlessOvertaken'
  BY <1>9 DEF RefreshReuse, RevokeAllByFamily, Finish, Hold
<1>10. ASSUME NEW r \in Request, RefreshUser(r) PROVE NoSurvivorUnlessOvertaken'
  BY <1>10 DEF RefreshUser, Finish, Hold
<1>11. ASSUME NEW r \in Request, RefreshRotate(r) PROVE NoSurvivorUnlessOvertaken'
  BY <1>11 DEF RefreshRotate, Present, IsRevoked, RevokedStatus, ReplacedBy
<1>12. ASSUME NEW r \in Request, RefreshCreate(r) PROVE NoSurvivorUnlessOvertaken'
  BY <1>12 DEF RefreshCreate, CreateRow, Bequeath, Hold
<1>13. ASSUME NEW r \in Request, LogoutRevoke(r) PROVE NoSurvivorUnlessOvertaken'
  BY <1>13 DEF LogoutRevoke, RevokeAllByFamily, Finish, Hold
<1>14. ASSUME NEW r \in Request, ChangeWrite(r) PROVE NoSurvivorUnlessOvertaken'
  BY <1>14 DEF ChangeWrite, WritePassword, Hold
<1>15. ASSUME NEW r \in Request, ChangeRevoke(r) PROVE NoSurvivorUnlessOvertaken'
  BY <1>15 DEF ChangeRevoke, RevokeAllByUserId, Hold
<1>16. ASSUME NEW r \in Request, ForgotInvalidate(r) PROVE NoSurvivorUnlessOvertaken'
  BY <1>16 DEF ForgotInvalidate, InvalidateAllForUser, PendingFor, Hold
<1>17. ASSUME NEW r \in Request, ForgotCreate(r) PROVE NoSurvivorUnlessOvertaken'
  BY <1>17 DEF ForgotCreate, Bequeath, Finish, Hold
<1>18. ASSUME NEW r \in Request, ResetWrite(r) PROVE NoSurvivorUnlessOvertaken'
  BY <1>18 DEF ResetWrite, WritePassword, Hold
<1>19. ASSUME NEW r \in Request, ResetRevoke(r) PROVE NoSurvivorUnlessOvertaken'
  BY <1>19 DEF ResetRevoke, RevokeAllByUserId, Hold
<1>20. ASSUME NEW r \in Request, ResetInvalidate(r) PROVE NoSurvivorUnlessOvertaken'
  BY <1>20 DEF ResetInvalidate, InvalidateAllForUser, PendingFor, Hold
<1>21. ASSUME NEW r \in Request, Abort(r) PROVE NoSurvivorUnlessOvertaken'
  BY <1>21 DEF Abort, Finish, Hold
<1>22. ASSUME NEW u \in User, SetActive(u) PROVE NoSurvivorUnlessOvertaken'
  BY <1>22 DEF SetActive
<1>23. ASSUME NEW u \in User, DeleteUser(u) PROVE NoSurvivorUnlessOvertaken'
  BY <1>23 DEF DeleteUser
<1>24. ASSUME NEW t \in Token, Expire(t) PROVE NoSurvivorUnlessOvertaken'
  BY <1>24 DEF Expire
<1>25. ASSUME NEW p \in ResetToken, ExpireReset(p) PROVE NoSurvivorUnlessOvertaken'
  BY <1>25 DEF ExpireReset
<1>26. CASE UNCHANGED vars
  BY <1>26 DEF vars
<1>27. QED
  BY <1>1, <1>2, <1>3, <1>4, <1>5, <1>6, <1>7, <1>8, <1>9, <1>10, <1>11, <1>12, <1>13, <1>14, <1>15, <1>16, <1>17, <1>18, <1>19, <1>20, <1>21, <1>22, <1>23, <1>24, <1>25, <1>26
     DEF Next, Handler, Environment

\* Whatever the interleaving, a session usable after the revocation of its family
\* or of its password comes from a request that revocation overtook.
THEOREM SurvivorsOvertaken == Spec => []NoSurvivorUnlessOvertaken
<1> USE NoneAssumption, BoundAssumption, DisjointAssumption
<1>1. Init => SurvivorInv
  BY DEF Init, SurvivorInv, ClosedCreated, CutWritten, IssuersSound, Issuing, Rotating,
         NoSurvivorUnlessOvertaken
<1>2. LinkInv /\ SurvivorInv /\ [Next]_vars => SurvivorInv'
  BY ClosedStep, CutStep, IssuersStep, SurvivorStep DEF SurvivorInv
<1>3. SurvivorInv => NoSurvivorUnlessOvertaken
  BY DEF SurvivorInv
<1>4. QED
  BY <1>1, <1>2, <1>3, Linked, PTL DEF Spec

-----------------------------------------------------------------------------
(* One active token per family, outside forked branches *)

\* Rotation hands the family's one place from the revoked row to the request, and
\* from the request to the row it creates.
LEMMA ForkStep == LinkInv /\ ForkInv /\ [Next]_vars => ForkInv'
<1> SUFFICES ASSUME LinkInv, ForkInv, [Next]_vars PROVE ForkInv'
  OBVIOUS
<1> USE NoneAssumption, BoundAssumption, DisjointAssumption
    DEF LinkInv, TypeOK, RowsLinked, RequestsLinked, MintedOnce, Created, Issuing, Rotating, ForkInv, OneActiveUnlessForked,
        account, refreshTable, resetTable, request, history, spending
<1>1. ASSUME NEW r \in Request, NEW u \in User, LoginRead(r, u) PROVE ForkInv'
  BY <1>1 DEF LoginRead, Begin, Hold
<1>2. ASSUME NEW r \in Request, NEW u \in User, OsmLoginRead(r, u) PROVE ForkInv'
  BY <1>2 DEF OsmLoginRead, Begin, Hold
<1>3. ASSUME NEW r \in Request, NEW u \in User, ChangeRead(r, u) PROVE ForkInv'
  BY <1>3 DEF ChangeRead, Begin, Hold
<1>4. ASSUME NEW r \in Request, NEW u \in User, ForgotRead(r, u) PROVE ForkInv'
  BY <1>4 DEF ForgotRead, Begin, Hold
<1>5. ASSUME NEW r \in Request, NEW t \in Token, RefreshRead(r, t) PROVE ForkInv'
  BY <1>5 DEF RefreshRead, Begin, Hold, Present, IsRevoked
<1>6. ASSUME NEW r \in Request, NEW t \in Token, LogoutRead(r, t) PROVE ForkInv'
  BY <1>6 DEF LogoutRead, Begin, Hold, Present
<1>7. ASSUME NEW r \in Request, NEW p \in ResetToken, ResetRead(r, p) PROVE ForkInv'
  BY <1>7 DEF ResetRead, Begin, Hold, ValidReset
<1>8. ASSUME NEW r \in Request, LoginIssue(r) PROVE ForkInv'
  <2>1. PICK t \in Token :
          /\ status[t] = "unused"
          /\ status' = [status EXCEPT ![t] = "active"]
          /\ family' = [family EXCEPT ![t] = t]
          /\ forked' = Bequeath(forked, r, t)
    BY <1>8 DEF LoginIssue, CreateRow
  <2>2. \A s \in Token : s # t /\ status'[s] = "active" =>
          status[s] = "active" /\ family'[s] = family[s] /\ family[s] # t
    BY <2>1
  <2>3. forked' = forked
    BY <1>8, <2>1 DEF LoginIssue, Bequeath
  <2>4. \A q \in Request : pc'[q] = "refresh_create" =>
          /\ pc[q] = "refresh_create" /\ tok'[q] = tok[q]
          /\ family'[tok[q]] = family[tok[q]] /\ family[tok[q]] # t
    <3>1. \A q \in Request : pc'[q] = "refresh_create" =>
            q # r /\ pc[q] = "refresh_create" /\ tok'[q] = tok[q]
      BY <1>8 DEF LoginIssue, CreateRow, Hold
    <3>2. \A q \in Request : pc[q] = "refresh_create" =>
            /\ tok[q] \in Token /\ tok[q] # t /\ family[tok[q]] \in Token
            /\ family[tok[q]] # t
      BY <2>1
    <3>3. QED
      BY <2>1, <3>1, <3>2
  <2>5. QED
    BY <2>1, <2>2, <2>3, <2>4
<1>9. ASSUME NEW r \in Request, RefreshReuse(r) PROVE ForkInv'
  BY <1>9 DEF RefreshReuse, RevokeAllByFamily, Finish, Hold
<1>10. ASSUME NEW r \in Request, RefreshUser(r) PROVE ForkInv'
  BY SMTT(30), <1>10 DEF RefreshUser, Finish, Hold
<1>11. ASSUME NEW r \in Request, RefreshRotate(r) PROVE ForkInv'
  <2> DEFINE t == tok[r]
  <2>1. PICK n \in Token : status[n] = "unused"
                         /\ status' = [status EXCEPT ![t] = "revoked", ![n] = "minted"]
    BY <1>11 DEF RefreshRotate, RevokedStatus
  <2>2. t \in Token /\ t # n
    BY <1>11, <2>1 DEF RefreshRotate, Present
  <2>3. \A s \in Token : status'[s] = "active" => status[s] = "active" /\ s # t
    BY <2>1, <2>2
  <2>4. /\ \A q \in Request : q # r => pc'[q] = pc[q] /\ (q \in forked' <=> q \in forked)
        /\ \A s \in Token : s \in forked' <=> s \in forked
        /\ UNCHANGED <<tok, family>>
    BY <1>11 DEF RefreshRotate
  <2>5. r \notin forked' => status[t] = "active" /\ t \notin forked
    BY <1>11 DEF RefreshRotate, IsRevoked, Present
  <2>6. QED
    BY SMTT(30), <2>2, <2>3, <2>4, <2>5
<1>12. ASSUME NEW r \in Request, RefreshCreate(r) PROVE ForkInv'
  BY <1>12 DEF RefreshCreate, CreateRow, Bequeath, Hold
<1>13. ASSUME NEW r \in Request, LogoutRevoke(r) PROVE ForkInv'
  BY <1>13 DEF LogoutRevoke, RevokeAllByFamily, Finish, Hold
<1>14. ASSUME NEW r \in Request, ChangeWrite(r) PROVE ForkInv'
  BY <1>14 DEF ChangeWrite, WritePassword, Hold
<1>15. ASSUME NEW r \in Request, ChangeRevoke(r) PROVE ForkInv'
  <2>1. \A q \in Request : pc'[q] = "refresh_create" =>
          pc[q] = "refresh_create" /\ tok'[q] = tok[q]
    BY <1>15 DEF ChangeRevoke, RevokeAllByUserId, Hold
  <2>2. /\ \A t \in Token : status'[t] = "active" => status[t] = "active"
        /\ UNCHANGED <<family, forked>>
    BY <1>15 DEF ChangeRevoke, RevokeAllByUserId
  <2>3. QED
    BY <2>1, <2>2
<1>16. ASSUME NEW r \in Request, ForgotInvalidate(r) PROVE ForkInv'
  BY <1>16 DEF ForgotInvalidate, InvalidateAllForUser, PendingFor, Hold
<1>17. ASSUME NEW r \in Request, ForgotCreate(r) PROVE ForkInv'
  BY <1>17 DEF ForgotCreate, Bequeath, Finish, Hold
<1>18. ASSUME NEW r \in Request, ResetWrite(r) PROVE ForkInv'
  BY <1>18 DEF ResetWrite, WritePassword, Hold
<1>19. ASSUME NEW r \in Request, ResetRevoke(r) PROVE ForkInv'
  <2>1. \A q \in Request : pc'[q] = "refresh_create" =>
          pc[q] = "refresh_create" /\ tok'[q] = tok[q]
    BY <1>19 DEF ResetRevoke, RevokeAllByUserId, Hold
  <2>2. /\ \A t \in Token : status'[t] = "active" => status[t] = "active"
        /\ UNCHANGED <<family, forked>>
    BY <1>19 DEF ResetRevoke, RevokeAllByUserId
  <2>3. QED
    BY <2>1, <2>2
<1>20. ASSUME NEW r \in Request, ResetInvalidate(r) PROVE ForkInv'
  BY <1>20 DEF ResetInvalidate, InvalidateAllForUser, PendingFor, Hold
<1>21. ASSUME NEW r \in Request, Abort(r) PROVE ForkInv'
  BY <1>21 DEF Abort, Finish, Hold
<1>22. ASSUME NEW u \in User, SetActive(u) PROVE ForkInv'
  BY <1>22 DEF SetActive
<1>23. ASSUME NEW u \in User, DeleteUser(u) PROVE ForkInv'
  BY <1>23 DEF DeleteUser
<1>24. ASSUME NEW t \in Token, Expire(t) PROVE ForkInv'
  BY <1>24 DEF Expire
<1>25. ASSUME NEW p \in ResetToken, ExpireReset(p) PROVE ForkInv'
  BY <1>25 DEF ExpireReset
<1>26. CASE UNCHANGED vars
  BY <1>26 DEF vars
<1>27. QED
  BY <1>1, <1>2, <1>3, <1>4, <1>5, <1>6, <1>7, <1>8, <1>9, <1>10, <1>11, <1>12, <1>13, <1>14, <1>15, <1>16, <1>17, <1>18, <1>19, <1>20, <1>21, <1>22, <1>23, <1>24, <1>25, <1>26
     DEF Next, Handler, Environment

\* At most one active token per family descends from no concurrent rotation.
THEOREM OneActive == Spec => []OneActiveUnlessForked
<1> USE NoneAssumption, BoundAssumption, DisjointAssumption
<1>1. Init => ForkInv
  BY DEF Init, ForkInv, OneActiveUnlessForked
<1>2. LinkInv /\ ForkInv /\ [Next]_vars => ForkInv'
  BY ForkStep DEF ForkInv
<1>3. ForkInv => OneActiveUnlessForked
  BY DEF ForkInv
<1>4. QED
  BY <1>1, <1>2, <1>3, Linked, PTL DEF Spec

-----------------------------------------------------------------------------
(* Every descendant of a token is in the token's family *)

\* A rotation names a value no row names, and its row joins the family.
LEMMA LineageStep == LinkInv /\ LineageInv /\ [Next]_vars => LineageInv'
<1> SUFFICES ASSUME LinkInv, LineageInv, [Next]_vars PROVE LineageInv'
  OBVIOUS
<1> USE NoneAssumption, BoundAssumption, DisjointAssumption
    DEF LinkInv, TypeOK, RowsLinked, RequestsLinked, MintedOnce, Created, Issuing, Rotating, LineageInv, RotationLineage, Present,
        account, refreshTable, resetTable, request, history, spending
<1>1. ASSUME NEW r \in Request, NEW u \in User, LoginRead(r, u) PROVE LineageInv'
  BY <1>1 DEF LoginRead, Begin, Hold
<1>2. ASSUME NEW r \in Request, NEW u \in User, OsmLoginRead(r, u) PROVE LineageInv'
  BY <1>2 DEF OsmLoginRead, Begin, Hold
<1>3. ASSUME NEW r \in Request, NEW u \in User, ChangeRead(r, u) PROVE LineageInv'
  BY <1>3 DEF ChangeRead, Begin, Hold
<1>4. ASSUME NEW r \in Request, NEW u \in User, ForgotRead(r, u) PROVE LineageInv'
  BY <1>4 DEF ForgotRead, Begin, Hold
<1>5. ASSUME NEW r \in Request, NEW t \in Token, RefreshRead(r, t) PROVE LineageInv'
  BY <1>5 DEF RefreshRead, Begin, Hold, Present, IsRevoked
<1>6. ASSUME NEW r \in Request, NEW t \in Token, LogoutRead(r, t) PROVE LineageInv'
  BY <1>6 DEF LogoutRead, Begin, Hold, Present
<1>7. ASSUME NEW r \in Request, NEW p \in ResetToken, ResetRead(r, p) PROVE LineageInv'
  BY <1>7 DEF ResetRead, Begin, Hold, ValidReset
<1>8. ASSUME NEW r \in Request, LoginIssue(r) PROVE LineageInv'
  BY <1>8 DEF LoginIssue, CreateRow, Bequeath, Hold
<1>9. ASSUME NEW r \in Request, RefreshReuse(r) PROVE LineageInv'
  BY <1>9 DEF RefreshReuse, RevokeAllByFamily, Finish, Hold
<1>10. ASSUME NEW r \in Request, RefreshUser(r) PROVE LineageInv'
  BY <1>10 DEF RefreshUser, Finish, Hold
<1>11. ASSUME NEW r \in Request, RefreshRotate(r) PROVE LineageInv'
  BY <1>11 DEF RefreshRotate, Present, IsRevoked, RevokedStatus, ReplacedBy
<1>12. ASSUME NEW r \in Request, RefreshCreate(r) PROVE LineageInv'
  BY <1>12 DEF RefreshCreate, CreateRow, Bequeath, Hold
<1>13. ASSUME NEW r \in Request, LogoutRevoke(r) PROVE LineageInv'
  BY <1>13 DEF LogoutRevoke, RevokeAllByFamily, Finish, Hold
<1>14. ASSUME NEW r \in Request, ChangeWrite(r) PROVE LineageInv'
  BY <1>14 DEF ChangeWrite, WritePassword, Hold
<1>15. ASSUME NEW r \in Request, ChangeRevoke(r) PROVE LineageInv'
  BY <1>15 DEF ChangeRevoke, RevokeAllByUserId, Hold
<1>16. ASSUME NEW r \in Request, ForgotInvalidate(r) PROVE LineageInv'
  BY <1>16 DEF ForgotInvalidate, InvalidateAllForUser, PendingFor, Hold
<1>17. ASSUME NEW r \in Request, ForgotCreate(r) PROVE LineageInv'
  BY <1>17 DEF ForgotCreate, Bequeath, Finish, Hold
<1>18. ASSUME NEW r \in Request, ResetWrite(r) PROVE LineageInv'
  BY <1>18 DEF ResetWrite, WritePassword, Hold
<1>19. ASSUME NEW r \in Request, ResetRevoke(r) PROVE LineageInv'
  BY <1>19 DEF ResetRevoke, RevokeAllByUserId, Hold
<1>20. ASSUME NEW r \in Request, ResetInvalidate(r) PROVE LineageInv'
  BY <1>20 DEF ResetInvalidate, InvalidateAllForUser, PendingFor, Hold
<1>21. ASSUME NEW r \in Request, Abort(r) PROVE LineageInv'
  BY <1>21 DEF Abort, Finish, Hold
<1>22. ASSUME NEW u \in User, SetActive(u) PROVE LineageInv'
  BY <1>22 DEF SetActive
<1>23. ASSUME NEW u \in User, DeleteUser(u) PROVE LineageInv'
  BY <1>23 DEF DeleteUser
<1>24. ASSUME NEW t \in Token, Expire(t) PROVE LineageInv'
  BY <1>24 DEF Expire
<1>25. ASSUME NEW p \in ResetToken, ExpireReset(p) PROVE LineageInv'
  BY <1>25 DEF ExpireReset
<1>26. CASE UNCHANGED vars
  BY <1>26 DEF vars
<1>27. QED
  BY <1>1, <1>2, <1>3, <1>4, <1>5, <1>6, <1>7, <1>8, <1>9, <1>10, <1>11, <1>12, <1>13, <1>14, <1>15, <1>16, <1>17, <1>18, <1>19, <1>20, <1>21, <1>22, <1>23, <1>24, <1>25, <1>26
     DEF Next, Handler, Environment

\* Reuse detection on a token finds the whole line of its replacements.
THEOREM Lineage == Spec => []RotationLineage
<1> USE NoneAssumption, BoundAssumption, DisjointAssumption
<1>1. Init => LineageInv
  BY DEF Init, LineageInv, RotationLineage
<1>2. LinkInv /\ LineageInv /\ [Next]_vars => LineageInv'
  BY LineageStep DEF LineageInv
<1>3. LineageInv => RotationLineage
  BY DEF LineageInv
<1>4. QED
  BY <1>1, <1>2, <1>3, Linked, PTL DEF Spec

-----------------------------------------------------------------------------
(* Reset tokens *)

\* A ForgotPassword no other invalidation overtook creates the only usable token.
LEMMA ResetStep == LinkInv /\ ResetInv /\ [Next]_vars => ResetInv'
<1> SUFFICES ASSUME LinkInv, ResetInv, [Next]_vars PROVE ResetInv'
  OBVIOUS
<1> USE NoneAssumption, BoundAssumption, DisjointAssumption
    DEF LinkInv, TypeOK, RowsLinked, RequestsLinked, MintedOnce, Created, Issuing, Rotating, ResetInv, ResetStatus, OneUsableResetUnlessOvertaken,
        account, refreshTable, resetTable, request, history, spending
<1>1. ASSUME NEW r \in Request, NEW u \in User, LoginRead(r, u) PROVE ResetInv'
  BY <1>1 DEF LoginRead, Begin, Hold
<1>2. ASSUME NEW r \in Request, NEW u \in User, OsmLoginRead(r, u) PROVE ResetInv'
  BY <1>2 DEF OsmLoginRead, Begin, Hold
<1>3. ASSUME NEW r \in Request, NEW u \in User, ChangeRead(r, u) PROVE ResetInv'
  BY <1>3 DEF ChangeRead, Begin, Hold
<1>4. ASSUME NEW r \in Request, NEW u \in User, ForgotRead(r, u) PROVE ResetInv'
  BY <1>4 DEF ForgotRead, Begin, Hold
<1>5. ASSUME NEW r \in Request, NEW t \in Token, RefreshRead(r, t) PROVE ResetInv'
  BY <1>5 DEF RefreshRead, Begin, Hold, Present, IsRevoked
<1>6. ASSUME NEW r \in Request, NEW t \in Token, LogoutRead(r, t) PROVE ResetInv'
  BY <1>6 DEF LogoutRead, Begin, Hold, Present
<1>7. ASSUME NEW r \in Request, NEW p \in ResetToken, ResetRead(r, p) PROVE ResetInv'
  BY <1>7 DEF ResetRead, Begin, Hold, ValidReset
<1>8. ASSUME NEW r \in Request, LoginIssue(r) PROVE ResetInv'
  BY <1>8 DEF LoginIssue, CreateRow, Bequeath, Hold
<1>9. ASSUME NEW r \in Request, RefreshReuse(r) PROVE ResetInv'
  BY <1>9 DEF RefreshReuse, RevokeAllByFamily, Finish, Hold
<1>10. ASSUME NEW r \in Request, RefreshUser(r) PROVE ResetInv'
  <2>1. UNCHANGED <<rstatus, rowner>>
    BY <1>10 DEF RefreshUser
  <2>2. pc'[r] \in {"idle", "refresh_rotate"} /\ overtaken' \in {overtaken, overtaken \ {r}}
    BY <1>10 DEF RefreshUser, Finish, Hold
  <2>3. \A q \in Request : q # r =>
          pc'[q] = pc[q] /\ who'[q] = who[q] /\ rtok'[q] = rtok[q]
    BY <1>10 DEF RefreshUser, Finish, Hold
  <2>4. QED
    BY SMTT(30), <2>1, <2>2, <2>3
<1>11. ASSUME NEW r \in Request, RefreshRotate(r) PROVE ResetInv'
  BY <1>11 DEF RefreshRotate, Present, IsRevoked, RevokedStatus, ReplacedBy
<1>12. ASSUME NEW r \in Request, RefreshCreate(r) PROVE ResetInv'
  BY <1>12 DEF RefreshCreate, CreateRow, Bequeath, Hold
<1>13. ASSUME NEW r \in Request, LogoutRevoke(r) PROVE ResetInv'
  BY <1>13 DEF LogoutRevoke, RevokeAllByFamily, Finish, Hold
<1>14. ASSUME NEW r \in Request, ChangeWrite(r) PROVE ResetInv'
  BY <1>14 DEF ChangeWrite, WritePassword, Hold
<1>15. ASSUME NEW r \in Request, ChangeRevoke(r) PROVE ResetInv'
  BY <1>15 DEF ChangeRevoke, RevokeAllByUserId, Hold
<1>16. ASSUME NEW r \in Request, ForgotInvalidate(r) PROVE ResetInv'
  BY <1>16 DEF ForgotInvalidate, InvalidateAllForUser, PendingFor, Hold
<1>17. ASSUME NEW r \in Request, ForgotCreate(r) PROVE ResetInv'
  BY <1>17 DEF ForgotCreate, Bequeath, Finish, Hold
<1>18. ASSUME NEW r \in Request, ResetWrite(r) PROVE ResetInv'
  BY <1>18 DEF ResetWrite, WritePassword, Hold
<1>19. ASSUME NEW r \in Request, ResetRevoke(r) PROVE ResetInv'
  BY <1>19 DEF ResetRevoke, RevokeAllByUserId, Hold
<1>20. ASSUME NEW r \in Request, ResetInvalidate(r) PROVE ResetInv'
  BY <1>20 DEF ResetInvalidate, InvalidateAllForUser, PendingFor, Hold
<1>21. ASSUME NEW r \in Request, Abort(r) PROVE ResetInv'
  BY <1>21 DEF Abort, Finish, Hold
<1>22. ASSUME NEW u \in User, SetActive(u) PROVE ResetInv'
  BY <1>22 DEF SetActive
<1>23. ASSUME NEW u \in User, DeleteUser(u) PROVE ResetInv'
  BY <1>23 DEF DeleteUser
<1>24. ASSUME NEW t \in Token, Expire(t) PROVE ResetInv'
  BY <1>24 DEF Expire
<1>25. ASSUME NEW p \in ResetToken, ExpireReset(p) PROVE ResetInv'
  BY <1>25 DEF ExpireReset
<1>26. CASE UNCHANGED vars
  BY <1>26 DEF vars
<1>27. QED
  BY <1>1, <1>2, <1>3, <1>4, <1>5, <1>6, <1>7, <1>8, <1>9, <1>10, <1>11, <1>12, <1>13, <1>14, <1>15, <1>16, <1>17, <1>18, <1>19, <1>20, <1>21, <1>22, <1>23, <1>24, <1>25, <1>26
     DEF Next, Handler, Environment

\* One usable reset token per user, unless ForgotPassword was overtaken.
THEOREM ResetTokens == Spec => []OneUsableResetUnlessOvertaken
<1> USE NoneAssumption, BoundAssumption, DisjointAssumption
<1>1. Init => ResetInv
  BY DEF Init, ResetInv, OneUsableResetUnlessOvertaken
<1>2. LinkInv /\ ResetInv /\ [Next]_vars => ResetInv'
  BY ResetStep DEF ResetInv
<1>3. ResetInv => OneUsableResetUnlessOvertaken
  BY DEF ResetInv
<1>4. QED
  BY <1>1, <1>2, <1>3, Linked, PTL DEF Spec

-----------------------------------------------------------------------------
(* What a reset token sets *)

\* A token is checked, held and invalidated by one request, or it is loose.
LEMMA SpentStep == LinkInv /\ SpentInv /\ [Next]_vars => SpentInv'
<1> SUFFICES ASSUME LinkInv, SpentInv, [Next]_vars PROVE SpentInv'
  OBVIOUS
<1> USE NoneAssumption, BoundAssumption, DisjointAssumption
    DEF LinkInv, TypeOK, RowsLinked, RequestsLinked, MintedOnce, Created, Issuing, Rotating, SpentInv, ResetStatus, HoldsLinked, Resetting, OnePasswordPerResetToken,
        account, refreshTable, resetTable, request, history, spending
<1>1. ASSUME NEW r \in Request, NEW u \in User, LoginRead(r, u) PROVE SpentInv'
  BY <1>1 DEF LoginRead, Begin, Hold
<1>2. ASSUME NEW r \in Request, NEW u \in User, OsmLoginRead(r, u) PROVE SpentInv'
  BY <1>2 DEF OsmLoginRead, Begin, Hold
<1>3. ASSUME NEW r \in Request, NEW u \in User, ChangeRead(r, u) PROVE SpentInv'
  BY <1>3 DEF ChangeRead, Begin, Hold
<1>4. ASSUME NEW r \in Request, NEW u \in User, ForgotRead(r, u) PROVE SpentInv'
  BY <1>4 DEF ForgotRead, Begin, Hold
<1>5. ASSUME NEW r \in Request, NEW t \in Token, RefreshRead(r, t) PROVE SpentInv'
  BY <1>5 DEF RefreshRead, Begin, Hold, Present, IsRevoked
<1>6. ASSUME NEW r \in Request, NEW t \in Token, LogoutRead(r, t) PROVE SpentInv'
  BY <1>6 DEF LogoutRead, Begin, Hold, Present
<1>7. ASSUME NEW r \in Request, NEW p \in ResetToken, ResetRead(r, p) PROVE SpentInv'
  BY <1>7 DEF ResetRead, Begin, Hold, ValidReset
<1>8. ASSUME NEW r \in Request, LoginIssue(r) PROVE SpentInv'
  BY <1>8 DEF LoginIssue, CreateRow, Bequeath, Hold
<1>9. ASSUME NEW r \in Request, RefreshReuse(r) PROVE SpentInv'
  BY SMTT(30), <1>9 DEF RefreshReuse, RevokeAllByFamily, Finish, Hold
<1>10. ASSUME NEW r \in Request, RefreshUser(r) PROVE SpentInv'
  <2>1. UNCHANGED <<rstatus, rowner, spent, loose>>
    BY <1>10 DEF RefreshUser
  <2>2. pc'[r] \in {"idle", "refresh_rotate"} /\ rtok[r] = None /\ rtok'[r] = None
    BY <1>10 DEF RefreshUser, Finish, Hold
  <2>3. \A q \in Request : q # r =>
          pc'[q] = pc[q] /\ who'[q] = who[q] /\ rtok'[q] = rtok[q]
    BY <1>10 DEF RefreshUser, Finish, Hold
  <2>4. QED
    BY SMTT(30), <2>1, <2>2, <2>3
<1>11. ASSUME NEW r \in Request, RefreshRotate(r) PROVE SpentInv'
  BY <1>11 DEF RefreshRotate, Present, IsRevoked, RevokedStatus, ReplacedBy
<1>12. ASSUME NEW r \in Request, RefreshCreate(r) PROVE SpentInv'
  BY SMTT(30), <1>12 DEF RefreshCreate, CreateRow, Bequeath, Hold
<1>13. ASSUME NEW r \in Request, LogoutRevoke(r) PROVE SpentInv'
  BY SMTT(30), <1>13 DEF LogoutRevoke, RevokeAllByFamily, Finish, Hold
<1>14. ASSUME NEW r \in Request, ChangeWrite(r) PROVE SpentInv'
  BY SMTT(30), <1>14 DEF ChangeWrite, WritePassword, Hold
<1>15. ASSUME NEW r \in Request, ChangeRevoke(r) PROVE SpentInv'
  BY <1>15 DEF ChangeRevoke, RevokeAllByUserId, Hold
<1>16. ASSUME NEW r \in Request, ForgotInvalidate(r) PROVE SpentInv'
  BY <1>16 DEF ForgotInvalidate, InvalidateAllForUser, PendingFor, Hold
<1>17. ASSUME NEW r \in Request, ForgotCreate(r) PROVE SpentInv'
  BY <1>17 DEF ForgotCreate, Bequeath, Finish, Hold
<1>18. ASSUME NEW r \in Request, ResetWrite(r) PROVE SpentInv'
  BY <1>18 DEF ResetWrite, WritePassword, Hold
<1>19. ASSUME NEW r \in Request, ResetRevoke(r) PROVE SpentInv'
  BY <1>19 DEF ResetRevoke, RevokeAllByUserId, Hold
<1>20. ASSUME NEW r \in Request, ResetInvalidate(r) PROVE SpentInv'
  BY <1>20 DEF ResetInvalidate, InvalidateAllForUser, PendingFor, Hold
<1>21. ASSUME NEW r \in Request, Abort(r) PROVE SpentInv'
  BY <1>21 DEF Abort, Finish, Hold
<1>22. ASSUME NEW u \in User, SetActive(u) PROVE SpentInv'
  BY <1>22 DEF SetActive
<1>23. ASSUME NEW u \in User, DeleteUser(u) PROVE SpentInv'
  BY <1>23 DEF DeleteUser
<1>24. ASSUME NEW t \in Token, Expire(t) PROVE SpentInv'
  BY <1>24 DEF Expire
<1>25. ASSUME NEW p \in ResetToken, ExpireReset(p) PROVE SpentInv'
  BY <1>25 DEF ExpireReset
<1>26. CASE UNCHANGED vars
  BY <1>26 DEF vars
<1>27. QED
  BY <1>1, <1>2, <1>3, <1>4, <1>5, <1>6, <1>7, <1>8, <1>9, <1>10, <1>11, <1>12, <1>13, <1>14, <1>15, <1>16, <1>17, <1>18, <1>19, <1>20, <1>21, <1>22, <1>23, <1>24, <1>25, <1>26
     DEF Next, Handler, Environment

\* One password per reset token, unless it was held twice or broken off.
THEOREM OnePassword == Spec => []OnePasswordPerResetToken
<1> USE NoneAssumption, BoundAssumption, DisjointAssumption
<1>1. Init => SpentInv
  BY DEF Init, SpentInv, HoldsLinked, Resetting, OnePasswordPerResetToken
<1>2. LinkInv /\ SpentInv /\ [Next]_vars => SpentInv'
  BY SpentStep
<1>3. SpentInv => OnePasswordPerResetToken
  BY DEF SpentInv
<1>4. QED
  BY <1>1, <1>2, <1>3, Linked, PTL DEF Spec
=============================================================================
