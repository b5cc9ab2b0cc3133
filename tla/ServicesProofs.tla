--------------------------- MODULE ServicesProofs -----------------------------
(***************************************************************************)
(* Proofs about the backups, the contents and the OpenStreetMap imports, and*)
(* the type correctness of all ten services, for every value of the constants.*)
(***************************************************************************)
EXTENDS AccountsProofs, ConversationsProofs, CatalogProofs

-----------------------------------------------------------------------------
(* Backups *)

\* Whoever is past its upload is so on the day of the last one: what it deletes is older.
LastKept ==
  /\ latest # None => latest \in stored
  /\ \A r \in Request :
       /\ Bak!At(r, "retain") \/ Bak!At(r, "delete") => latest = None \/ latest.day = day
       /\ backing[r] # None => \A o \in backing[r].doomed : o.day < day

BackupInv == Bak!TypeOK /\ LastKept

\* The steps of a backup, in their order
LEMMA Following ==
  /\ Bak!Following["dump"] = "upload" /\ Bak!Following["upload"] = "retain"
  /\ Bak!Following["delete"] = "end"
BY DEF Bak!Following

\* What a step makes of its runner's backup
LEMMA BackupTyped ==
  ASSUME NEW r \in Request, NEW b \in Bak!Run \cup {None}, Bak!TypeOK,
         backing' = [backing EXCEPT ![r] = b]
  PROVE  /\ backing' \in [Request -> Bak!Run \cup {None}]
         /\ backing'[r] = b /\ \A q \in Request \ {r} : backing'[q] = backing[q]
BY DEF Bak!TypeOK

\* Every step keeps the last backup from being outdated.
LEMMA BackupsStep ==
  ASSUME BackupInv, Bak!Next
  PROVE  BackupInv'
<1>a. /\ RetentionDays \in Nat /\ MaxDay \in Nat /\ MaxKey \in Nat
      /\ Bak!TypeOK /\ LastKept
  BY ServicesAssumption DEF BackupInv
<1>1. ASSUME NEW r \in Request, Bak!Start(r) PROVE BackupInv'
  <2> DEFINE b == [at |-> "dump", key |-> keys + 1, doomed |-> {}]
  <2>1. b \in Bak!Run
    BY <1>1, <1>a DEF Bak!Start, Bak!Run, Bak!Object, Bak!TypeOK
  <2>2. backing' = [backing EXCEPT ![r] = b]
    BY <1>1 DEF Bak!Start
  <2>3. Bak!TypeOK'
    BY <1>1, <1>a, <2>1, <2>2 DEF Bak!Start, Bak!TypeOK
  <2>4. LastKept'
    BY <1>1, <1>a, <2>1, <2>2, BackupTyped DEF Bak!Start, LastKept, Bak!At
  <2> QED
    BY <2>3, <2>4 DEF BackupInv
<1>2. ASSUME NEW r \in Request, Bak!Dump(r) PROVE BackupInv'
  <2> DEFINE b == [backing[r] EXCEPT !.at = "upload"]
  <2>1. b \in Bak!Run /\ b.at = "upload" /\ b.doomed = backing[r].doomed
    BY <1>2, <1>a DEF Bak!Dump, Bak!At, Bak!Run, Bak!TypeOK
  <2>2. backing' = [backing EXCEPT ![r] = b]
    BY <1>2, Following DEF Bak!Dump
  <2>3. Bak!TypeOK'
    BY <1>2, <1>a, <2>1, <2>2 DEF Bak!Dump, Bak!TypeOK, Bak!At, Bak!Run
  <2>4. LastKept'
    BY <1>2, <1>a, <2>1, <2>2, BackupTyped DEF Bak!Dump, LastKept, Bak!At
  <2> QED
    BY <2>3, <2>4 DEF BackupInv
<1>3. ASSUME NEW r \in Request, Bak!Upload(r) PROVE BackupInv'
  <2> DEFINE b == [backing[r] EXCEPT !.at = "retain"]
  <2>1. b \in Bak!Run /\ b.doomed = backing[r].doomed
    BY <1>3, <1>a DEF Bak!Upload, Bak!At, Bak!Run, Bak!TypeOK
  <2>2. backing' = [backing EXCEPT ![r] = b] /\ tmp' = tmp
    BY <1>3, Following DEF Bak!Upload, Bak!Advance
  <2>3. latest' \in Bak!Object /\ latest'.day = day /\ latest' \in stored'
    BY <1>3, <1>a DEF Bak!Upload, Bak!At, Bak!Run, Bak!TypeOK, Bak!Object
  <2>4. Bak!TypeOK'
    BY <1>3, <1>a, <2>1, <2>2, <2>3 DEF Bak!Upload, Bak!TypeOK
  <2>5. LastKept'
    BY <1>3, <1>a, <2>1, <2>2, <2>3, BackupTyped DEF Bak!Upload, LastKept, Bak!At
  <2> QED
    BY <2>4, <2>5 DEF BackupInv
<1>4. ASSUME NEW r \in Request, Bak!Retain(r) PROVE BackupInv'
  <2> DEFINE old == {o \in stored : Bak!Outdated(o)}
  <2> DEFINE b == [backing[r] EXCEPT !.at = "delete", !.doomed = old]
  <2>0. old \in SUBSET Bak!Object /\ \A o \in old : o.day < day
    BY <1>a DEF Bak!TypeOK, Bak!Outdated, Bak!Object
  <2>1. b \in Bak!Run /\ \A o \in b.doomed : o.day < day
    <3> HIDE DEF old
    <3> QED
      BY <1>4, <1>a, <2>0 DEF Bak!Retain, Bak!At, Bak!Run, Bak!TypeOK
  <2>2. backing' = [backing EXCEPT ![r] = b]
    BY <1>4 DEF Bak!Retain
  <2>3. Bak!TypeOK'
    BY <1>4, <1>a, <2>1, <2>2 DEF Bak!Retain, Bak!TypeOK
  <2>4. LastKept'
    BY <1>4, <1>a, <2>1, <2>2, BackupTyped DEF Bak!Retain, LastKept, Bak!At
  <2> QED
    BY <2>3, <2>4 DEF BackupInv
<1>5. ASSUME NEW r \in Request, NEW o \in Bak!Object, Bak!DeleteOld(r, o) PROVE BackupInv'
  <2> DEFINE b == [backing[r] EXCEPT !.doomed = @ \ {o}]
  <2>1. b \in Bak!Run /\ b.at = "delete" /\ b.doomed \subseteq backing[r].doomed
    BY <1>5, <1>a DEF Bak!DeleteOld, Bak!At, Bak!Run, Bak!TypeOK
  <2>2. backing' = [backing EXCEPT ![r] = b]
    BY <1>5 DEF Bak!DeleteOld
  <2>3. Bak!TypeOK'
    BY <1>5, <1>a, <2>1, <2>2 DEF Bak!DeleteOld, Bak!TypeOK
  <2>4. latest # None => latest \in stored'
    BY <1>5, <1>a DEF Bak!DeleteOld, LastKept, Bak!At, Bak!TypeOK, Bak!Object
  <2>5. LastKept'
    BY <1>5, <1>a, <2>1, <2>2, <2>4, BackupTyped DEF Bak!DeleteOld, LastKept, Bak!At
  <2> QED
    BY <2>3, <2>5 DEF BackupInv
<1>6. ASSUME NEW r \in Request, Bak!Finish(r) \/ Bak!Fail(r) \/ Bak!Crash(r) PROVE BackupInv'
  <2>1. /\ backing' = [backing EXCEPT ![r] = None] /\ tmp' \subseteq tmp
        /\ UNCHANGED <<day, keys, stored, latest>>
    BY <1>6, Following DEF Bak!Finish, Bak!Fail, Bak!Crash, Bak!Advance
  <2>2. Bak!TypeOK'
    BY <1>a, <2>1 DEF Bak!TypeOK
  <2>3. LastKept'
    BY <1>a, <2>1, BackupTyped DEF LastKept, Bak!At
  <2> QED
    BY <2>2, <2>3 DEF BackupInv
<1>7. ASSUME Bak!NextDay PROVE BackupInv'
  BY <1>7, <1>a DEF BackupInv, Bak!NextDay, Bak!TypeOK, LastKept, Bak!At
<1> QED
  BY <1>1, <1>2, <1>3, <1>4, <1>5, <1>6, <1>7 DEF Bak!Next

\* While the backups move, their invariant holds.
LEMMA BackupsAlways == Spec => [](part = "backups" => BackupInv)
<1> DEFINE I == part = "backups" => BackupInv
<1>1. Init => I
  BY ServicesAssumption, SMT
     DEF Init, Bak!Init, BackupInv, LastKept, Bak!At, Bak!TypeOK
<1>2. I /\ [Next]_vars => I'
  <2>1. BackupInv /\ UNCHANGED backups => BackupInv'
    BY DEF BackupInv, backups, LastKept, Bak!At, Bak!TypeOK
  <2> QED
    BY <2>1, BackupsStep DEF Next, Only, vars
<1> QED
  BY <1>1, <1>2, PTL DEF Spec

\* However many backups fail, the last one that was stored is there.
THEOREM BackupRemains == Spec => []LastBackupRemains
<1>1. (part = "backups" => BackupInv) => LastBackupRemains
  BY DEF LastBackupRemains, Bak!LastBackupRemains, BackupInv, LastKept
<1> QED
  BY <1>1, BackupsAlways, PTL

-----------------------------------------------------------------------------
(* Documents *)

Uploads(h) == Con!At(h, "upload") \/ Con!At(h, "create")
\* The document a request is about
Has(h, d) == /\ Uploads(h) \/ Con!At(h, "unstore") \/ Con!At(h, "delete")
             /\ keeping[h].document = d

\* A document being uploaded is nobody else's, has no row yet, and its file before its row.
Uploaded ==
  \A h \in Request : Uploads(h) =>
    LET d == keeping[h].document IN
    /\ d \notin listed /\ \A g \in Request \ {h} : ~Has(g, d)
    /\ Con!At(h, "create") => d \in file

\* A theme about to be inserted is one.
Seeding == \A h \in Request : Con!At(h, "insert") => keeping[h].next \in Theme

ContentInv == Con!TypeOK /\ Seeding /\ Uploaded /\ Con!DocumentHasItsFile

\* A request about a document is known by its step.
LEMMA Documents ==
  ASSUME Con!TypeOK, NEW h \in Request, keeping[h] # None
  PROVE  /\ "document" \in DOMAIN keeping[h]
            <=> keeping[h].at \in {"upload", "create", "unstore", "delete"}
         /\ "document" \in DOMAIN keeping[h]
            => keeping[h] \in [at : {"upload", "create", "unstore", "delete"}, document : Document]
         /\ "document" \notin DOMAIN keeping[h]
            => keeping[h] \in
                  [at : {"seed", "insert"}, done : SUBSET Theme, next : Theme \cup {None}]
<1>1. CASE keeping[h] \in [at : {"upload", "create", "unstore", "delete"}, document : Document]
  BY <1>1
<1>2. CASE keeping[h] \in [at : {"seed", "insert"}, done : SUBSET Theme, next : Theme \cup {None}]
  BY <1>2
<1> QED
  BY <1>1, <1>2 DEF Con!TypeOK, Con!Doing

\* What a step makes of its request
LEMMA KeepingTyped ==
  ASSUME NEW h \in Request, NEW x \in Con!Doing \cup {None}, Con!TypeOK, Con!Put(h, x)
  PROVE  /\ keeping' \in [Request -> Con!Doing \cup {None}]
         /\ keeping'[h] = x /\ \A g \in Request \ {h} : keeping'[g] = keeping[g]
BY DEF Con!TypeOK, Con!Put

\* Every step of a document, an item or a theme keeps the invariant.
LEMMA DocumentStep ==
  ASSUME ContentInv, Con!Next
  PROVE  ContentInv'
<1>a. Con!TypeOK /\ Seeding /\ Uploaded /\ Con!DocumentHasItsFile
  BY DEF ContentInv
<1>n. None \notin Con!Doing
  BY NoneAssumption
<1>1. ASSUME NEW h \in Request, NEW d \in Document, Con!Upload(h, d) PROVE ContentInv'
  <2> DEFINE x == [at |-> "upload", document |-> d]
  <2>1. x \in Con!Doing
    BY DEF Con!Doing
  <2>2. /\ Con!Put(h, x) /\ d \notin listed /\ \A g \in Request : ~Has(g, d)
        /\ UNCHANGED <<file, listed, halved, item, link, theme, tag>>
    BY <1>1, <1>a, Documents
       DEF Con!Upload, Con!Known, Has, Uploads, Con!At, Con!documents, Con!items, Con!themes
  <2>3. Con!TypeOK' /\ Seeding'
    BY <1>a, <2>1, <2>2, KeepingTyped DEF Con!TypeOK, Seeding, Con!At
  <2>4. Uploaded'
    BY <1>a, <2>1, <2>2, KeepingTyped DEF Uploaded, Has, Uploads, Con!At
  <2>5. Con!DocumentHasItsFile'
    BY <1>1, <1>a, <2>1, <2>2, KeepingTyped DEF Con!DocumentHasItsFile, Con!At, Con!Upload
  <2> QED
    BY <2>3, <2>4, <2>5 DEF ContentInv
<1>2. ASSUME NEW h \in Request, Con!UploadStep(h) PROVE ContentInv'
  <2>1. PICK d \in Document : keeping[h].document = d
    BY <1>2, <1>a, Documents DEF Con!UploadStep, Con!At
  <2>2. CASE Con!At(h, "upload")
    <3> DEFINE x == [at |-> "create", document |-> d]
    <3>1. x \in Con!Doing
      BY DEF Con!Doing
    <3>2. /\ Con!Put(h, x) /\ file' = file \cup {d}
          /\ UNCHANGED <<listed, halved, item, link, theme, tag>>
      BY <1>2, <2>1, <2>2
         DEF Con!UploadStep, Con!At, Con!WriteOrder, Con!FileFirst, Con!items, Con!themes
    <3>3. Con!TypeOK' /\ Seeding'
      BY <1>a, <3>1, <3>2, KeepingTyped DEF Con!TypeOK, Seeding, Con!At
    <3>4. Uploaded'
      BY <1>a, <2>1, <2>2, <3>1, <3>2, KeepingTyped DEF Uploaded, Has, Uploads, Con!At
    <3>5. Con!DocumentHasItsFile'
      BY <1>a, <1>n, <2>2, <3>1, <3>2, KeepingTyped DEF Con!DocumentHasItsFile, Con!At
    <3> QED
      BY <3>3, <3>4, <3>5 DEF ContentInv
  <2>3. CASE Con!At(h, "create")
    <3>1. /\ Con!Put(h, None) /\ listed' = listed \cup {d}
          /\ UNCHANGED <<file, halved, item, link, theme, tag>>
      BY <1>2, <2>1, <2>3
         DEF Con!UploadStep, Con!At, Con!WriteOrder, Con!FileFirst, Con!items, Con!themes
    <3>2. Con!TypeOK' /\ Seeding'
      BY <1>a, <3>1, KeepingTyped DEF Con!TypeOK, Seeding, Con!At
    <3>3. Uploaded'
      BY <1>a, <2>1, <2>3, <3>1, KeepingTyped DEF Uploaded, Has, Uploads, Con!At
    <3>4. Con!DocumentHasItsFile'
      BY <1>a, <1>n, <2>1, <2>3, <3>1, KeepingTyped
         DEF Uploaded, Uploads, Con!DocumentHasItsFile, Con!At
    <3> QED
      BY <3>2, <3>3, <3>4 DEF ContentInv
  <2> QED
    BY <1>2, <2>2, <2>3 DEF Con!UploadStep
<1>3. ASSUME NEW h \in Request, NEW d \in Document, Con!Delete(h, d) PROVE ContentInv'
  <2> DEFINE x == [at |-> "unstore", document |-> d]
  <2>1. x \in Con!Doing
    BY DEF Con!Doing
  <2>2. /\ Con!Put(h, x) /\ d \in listed /\ keeping[h] = None
        /\ UNCHANGED <<file, listed, halved, item, link, theme, tag>>
    BY <1>3 DEF Con!Delete, Con!documents, Con!items, Con!themes
  <2>3. Con!TypeOK' /\ Seeding'
    BY <1>a, <2>1, <2>2, KeepingTyped DEF Con!TypeOK, Seeding, Con!At
  <2>4. Uploaded'
    BY <1>a, <2>1, <2>2, KeepingTyped DEF Uploaded, Has, Uploads, Con!At
  <2>5. Con!DocumentHasItsFile'
    BY <1>a, <1>n, <2>1, <2>2, KeepingTyped DEF Con!DocumentHasItsFile, Con!At
  <2> QED
    BY <2>3, <2>4, <2>5 DEF ContentInv
<1>4. ASSUME NEW h \in Request, Con!Unstore(h) PROVE ContentInv'
  <2>1. PICK d \in Document : keeping[h].document = d
    BY <1>4, <1>a, Documents DEF Con!Unstore, Con!At
  <2> DEFINE x == [at |-> "delete", document |-> d]
  <2>2. x \in Con!Doing
    BY DEF Con!Doing
  <2>3. /\ Con!Put(h, x) /\ Con!At(h, "unstore") /\ file' = file \ {d}
        /\ UNCHANGED <<listed, halved, item, link, theme, tag>>
    BY <1>4, <2>1 DEF Con!Unstore, Con!items, Con!themes
  <2>4. Con!TypeOK' /\ Seeding'
    BY <1>a, <2>2, <2>3, KeepingTyped DEF Con!TypeOK, Seeding, Con!At
  <2>5. Uploaded'
    BY <1>a, <2>1, <2>2, <2>3, KeepingTyped DEF Uploaded, Has, Uploads, Con!At
  <2>6. Con!DocumentHasItsFile'
    BY <1>a, <1>n, <2>1, <2>2, <2>3, KeepingTyped DEF Con!DocumentHasItsFile, Con!At
  <2> QED
    BY <2>4, <2>5, <2>6 DEF ContentInv
<1>5. ASSUME NEW h \in Request, Con!DeleteRow(h) PROVE ContentInv'
  <2>1. PICK d \in Document : keeping[h].document = d
    BY <1>5, <1>a, Documents DEF Con!DeleteRow, Con!At
  <2>2. /\ Con!Put(h, None) /\ Con!At(h, "delete") /\ listed' = listed \ {d}
        /\ UNCHANGED <<file, halved, item, link, theme, tag>>
    BY <1>5, <2>1 DEF Con!DeleteRow, Con!items, Con!themes
  <2>3. Con!TypeOK' /\ Seeding'
    BY <1>a, <2>2, KeepingTyped DEF Con!TypeOK, Seeding, Con!At
  <2>4. Uploaded'
    BY <1>a, <2>2, KeepingTyped DEF Uploaded, Has, Uploads, Con!At
  <2>5. Con!DocumentHasItsFile'
    BY <1>a, <1>n, <2>1, <2>2, KeepingTyped DEF Con!DocumentHasItsFile, Con!At
  <2> QED
    BY <2>3, <2>4, <2>5 DEF ContentInv
<1>6. ASSUME NEW h \in Request, Con!Abort(h) PROVE ContentInv'
  <2>1. /\ Con!Put(h, None) /\ keeping[h] # None /\ halved \subseteq halved'
        /\ keeping[h].at = "delete" => keeping[h].document \in halved'
        /\ UNCHANGED <<file, listed, item, link, theme, tag>>
    BY <1>6 DEF Con!Abort, Con!items, Con!themes
  <2>2. halved' \subseteq Document
    BY <1>6, <1>a, Documents DEF Con!Abort, Con!TypeOK
  <2>3. Con!TypeOK' /\ Seeding'
    BY <1>a, <2>1, <2>2, KeepingTyped DEF Con!TypeOK, Seeding, Con!At
  <2>4. Uploaded'
    BY <1>a, <2>1, KeepingTyped DEF Uploaded, Has, Uploads, Con!At
  <2>5. Con!DocumentHasItsFile'
    BY <1>a, <1>n, <2>1, KeepingTyped DEF Con!DocumentHasItsFile, Con!At
  <2> QED
    BY <2>3, <2>4, <2>5 DEF ContentInv
<1>b. ASSUME UNCHANGED <<file, listed, halved>>, Con!TypeOK', Seeding',
             \A g \in Request : keeping'[g] = keeping[g] \/ \A d : ~Has(g, d) /\ ~Has(g, d)'
      PROVE  ContentInv'
  <2>1. \A g \in Request : \A d : Has(g, d)' = Has(g, d)
    BY <1>b, <1>a DEF Has, Uploads, Con!At
  <2>2. Uploaded'
    <3> SUFFICES ASSUME NEW g \in Request, NEW d, Uploads(g)', d = keeping'[g].document
                 PROVE  /\ d \notin listed /\ \A k \in Request \ {g} : ~Has(k, d)
                        /\ Con!At(g, "create")' => d \in file
      BY <1>b, <2>1 DEF Uploaded
    <3>1. Has(g, d) /\ keeping'[g] = keeping[g]
      BY <1>b, <2>1 DEF Has
    <3> QED
      BY <1>a, <3>1 DEF Uploaded, Uploads, Con!At
  <2>3. Con!DocumentHasItsFile'
    <3> SUFFICES ASSUME NEW d \in listed, d \notin file, d \notin halved
                 PROVE  \E g \in Request : Con!At(g, "delete")' /\ keeping'[g].document = d
      BY <1>b DEF Con!DocumentHasItsFile
    <3>1. PICK g \in Request : Con!At(g, "delete") /\ keeping[g].document = d
      BY <1>a DEF Con!DocumentHasItsFile
    <3> QED
      BY <1>b, <3>1 DEF Has, Con!At
  <2> QED
    BY <1>b, <2>2, <2>3 DEF ContentInv
<1>7. ASSUME NEW h \in Request, Con!Seed(h) PROVE ContentInv'
  <2> DEFINE x == [at |-> "seed", done |-> {}, next |-> None]
  <2>1. x \in Con!Doing
    BY DEF Con!Doing
  <2>2. Con!Put(h, x) /\ keeping[h] = None
          /\ UNCHANGED <<file, listed, halved, item, link, theme, tag>>
    BY <1>7 DEF Con!Seed, Con!documents, Con!items, Con!themes
  <2>3. Con!TypeOK' /\ Seeding'
    BY <1>a, <2>1, <2>2, KeepingTyped DEF Con!TypeOK, Seeding, Con!At
  <2> QED
    BY <1>a, <1>b, <2>1, <2>2, <2>3, KeepingTyped DEF Has, Uploads, Con!At
<1>8. ASSUME NEW h \in Request, NEW t \in Theme, Con!SeedLook(h, t) PROVE ContentInv'
  <2> DEFINE x == IF t \in theme THEN [keeping[h] EXCEPT !.done = @ \cup {t}]
                                 ELSE [keeping[h] EXCEPT !.at = "insert", !.next = t]
  <2>1. x \in Con!Doing /\ x.at \in {"seed", "insert"} /\ (x.at = "insert" => x.next \in Theme)
    BY <1>8, <1>a, Documents DEF Con!Doing, Con!SeedLook, Con!At
  <2>2. /\ Con!Put(h, x) /\ Con!At(h, "seed")
        /\ UNCHANGED <<file, listed, halved, item, link, theme, tag>>
    BY <1>8 DEF Con!SeedLook, Con!documents, Con!items, Con!themes
  <2> HIDE DEF x
  <2>3. Con!TypeOK' /\ Seeding'
    BY <1>a, <2>1, <2>2, KeepingTyped DEF Con!TypeOK, Seeding, Con!At
  <2> QED
    BY <1>a, <1>b, <2>1, <2>2, <2>3, KeepingTyped DEF Has, Uploads, Con!At
<1>9. ASSUME NEW h \in Request, Con!SeedInsert(h) PROVE ContentInv'
  <2> DEFINE t == keeping[h].next
             x == IF t \in theme THEN None
                  ELSE [at |-> "seed", done |-> keeping[h].done \cup {t}, next |-> None]
  <2>0. t \in Theme
    BY <1>9, <1>a DEF Con!SeedInsert, Seeding
  <2>1. x \in Con!Doing \cup {None} /\ (x # None => x.at = "seed")
    BY <1>9, <1>a, <2>0, Documents DEF Con!Doing, Con!SeedInsert, Con!At
  <2>2. /\ Con!Put(h, x) /\ Con!At(h, "insert") /\ theme' = theme \cup {t}
        /\ UNCHANGED <<file, listed, halved, item, link, tag>>
    BY <1>9 DEF Con!SeedInsert, Con!documents, Con!items
  <2> HIDE DEF x, t
  <2>3. Con!TypeOK' /\ Seeding'
    BY <1>a, <2>0, <2>1, <2>2, KeepingTyped DEF Con!TypeOK, Seeding, Con!At
  <2> QED
    BY <1>a, <1>b, <2>1, <2>2, <2>3, KeepingTyped DEF Has, Uploads, Con!At
<1>10. ASSUME NEW h \in Request, Con!SeedDone(h) PROVE ContentInv'
  <2>2. /\ Con!Put(h, None) /\ Con!At(h, "seed")
        /\ UNCHANGED <<file, listed, halved, item, link, theme, tag>>
    BY <1>10 DEF Con!SeedDone, Con!documents, Con!items, Con!themes
  <2>3. Con!TypeOK' /\ Seeding'
    BY <1>a, <2>2, KeepingTyped DEF Con!TypeOK, Seeding, Con!At
  <2> QED
    BY <1>a, <1>b, <2>2, <2>3, KeepingTyped DEF Has, Uploads, Con!At
<1>11. ASSUME \/ \E i \in Item, u \in Owner : Con!Save(i, u) \/ Con!Remove(i, u)
              \/ Con!Share \/ Con!Expire
              \/ \E t \in Theme : Con!CreateTheme(t) \/ Con!CreateTag(t) \/ Con!DeleteTheme(t)
       PROVE  ContentInv'
  <2>1. UNCHANGED <<file, listed, halved, keeping>>
    BY <1>11 DEF Con!Save, Con!Remove, Con!Share, Con!Expire, Con!CreateTheme, Con!CreateTag,
                 Con!DeleteTheme, Con!documents
  <2>2. /\ item' \in [Item -> Owner \cup {None}] /\ link' \in {"none", "open", "expired"}
        /\ theme' \subseteq Theme /\ tag' \subseteq theme'
    BY <1>11, <1>a DEF Con!Save, Con!Remove, Con!Share, Con!Expire, Con!CreateTheme, Con!CreateTag,
                 Con!DeleteTheme, Con!items, Con!themes, Con!TypeOK
  <2>3. Con!TypeOK' /\ Seeding'
    BY <1>a, <2>1, <2>2 DEF Con!TypeOK, Seeding, Con!At
  <2> QED
    BY <1>b, <2>1, <2>3
<1> QED
  BY <1>1, <1>2, <1>3, <1>4, <1>5, <1>6, <1>7, <1>8, <1>9, <1>10, <1>11 DEF Con!Next

\* While the contents move, their invariant holds.
LEMMA ContentsAlways == Spec => [](part = "contents" => ContentInv)
<1> DEFINE I == part = "contents" => ContentInv
<1>1. Init => I
  BY SMT DEF Init, Con!Init, ContentInv, Seeding, Uploaded, Uploads, Has, Con!At, Con!TypeOK,
     Con!DocumentHasItsFile
<1>2. I /\ [Next]_vars => I'
  <2>1. ContentInv /\ UNCHANGED contents => ContentInv'
    BY DEF ContentInv, contents, Seeding, Uploaded, Uploads, Has, Con!At, Con!TypeOK,
       Con!DocumentHasItsFile
  <2> QED
    BY <2>1, DocumentStep DEF Next, Only, vars
<1> QED
  BY <1>1, <1>2, PTL DEF Spec

\* A document that is listed has its file, or is being deleted, or was left so.
THEOREM DocumentThere == Spec => []DocumentHasItsFile
<1>1. (part = "contents" => ContentInv) => DocumentHasItsFile
  BY DEF DocumentHasItsFile, ContentInv
<1> QED
  BY <1>1, ContentsAlways, PTL

-----------------------------------------------------------------------------
(* OSM imports *)

\* The table of a layer is not older than the load of a job, or is not there.
Fresh(j, l) == table[l] = 0 \/ table[l] >= mine[j]

\* What is built is built from the last load, and no row is without its layer.
Numbers ==
  /\ planet \in {0, loads} /\ \A l \in Layer : table[l] <= loads
  /\ \A j \in Job : mine[j] <= loads /\ \A l \in Layer \ defaults : table[l] = 0

\* A runner rebuilds layers that have their row, and a job runs while it is active.
Runs ==
  \A r \in Imp!Runner : run[r] # None =>
    /\ run[r].todo \subseteq defaults /\ (run[r].at = "create" => run[r].layer \in defaults)
    /\ r \in Job => queue[r] = "active"

\* An attempt is left to a job that waits, and one was taken from a job that runs.
Attempted ==
  \A j \in Job : /\ queue[j] = "waiting" => left[j] > 0
                 /\ queue[j] = "active" => left[j] < Attempts

\* What a job has been through, or finished, is fresh or was counted as failed.
Rebuilt ==
  \A j \in Job :
    /\ run[j] # None /\ run[j].at \in {"rebuild", "create"} =>
         \A l \in defaults \ (run[j].todo \cup failed[j]) : Fresh(j, l)
    /\ queue[j] = "completed" => \A l \in defaults \ failed[j] : Fresh(j, l)

ImportInv == Imp!TypeOK /\ Numbers /\ Runs /\ Attempted /\ Rebuilt

\* None is no runner's state and no layer, and a job is no request.
LEMMA Nobody ==
  /\ None \notin Imp!Run /\ None \notin Layer /\ Job \cap Request = {}
  /\ Attempts \in Nat \ {0} /\ MaxLoads \in Nat
BY ServicesAssumption, NoneAssumption

\* A runner goes from one step to another.
LEMMA Moved ==
  ASSUME Imp!TypeOK, NEW r \in Imp!Runner, NEW x \in Imp!Run \cup {None},
         run' = [run EXCEPT ![r] = x]
  PROVE  /\ run' \in [Imp!Runner -> Imp!Run \cup {None}] /\ run'[r] = x
         /\ \A q \in Imp!Runner \ {r} : run'[q] = run[q]
         /\ \A j \in Job : j \in Imp!Runner
BY DEF Imp!TypeOK, Imp!Runner

\* What a runner is doing
LEMMA RunTyped ==
  ASSUME Imp!TypeOK, NEW r \in Imp!Runner, run[r] # None
  PROVE  /\ run[r] \in Imp!Run /\ run[r].todo \subseteq Layer /\ run[r].layer \in Layer \cup {None}
         /\ run[r].at \in {"load", "loading", "boundaries", "list", "rebuild", "create"}
         /\ run[r].mode \in {"append", "create", "slimless", "none"}
BY DEF Imp!TypeOK, Imp!Run

\* Loads are numbered from 1.
LEMMA NumberTyped ==
  ASSUME Imp!TypeOK
  PROVE  /\ loads \in Nat /\ planet \in Nat /\ loads \in 0..MaxLoads
         /\ \A l \in Layer : table[l] \in Nat /\ \A j \in Job : mine[j] \in Nat
BY Nobody DEF Imp!TypeOK

\* Goto keeps what the runner is about.
LEMMA Gone ==
  ASSUME Imp!TypeOK, NEW r \in Imp!Runner, run[r] # None, NEW s, Imp!Goto(r, s),
         s \in {"load", "loading", "boundaries", "list", "rebuild", "create"}
  PROVE  \E x \in Imp!Run : /\ x.at = s /\ x.todo = run[r].todo /\ x.layer = run[r].layer
                            /\ x.mode = run[r].mode /\ run' = [run EXCEPT ![r] = x]
<1> DEFINE x == [run[r] EXCEPT !.at = s]
<1>1. x \in Imp!Run /\ x.at = s /\ x.todo = run[r].todo /\ x.layer = run[r].layer
        /\ x.mode = run[r].mode
  BY RunTyped DEF Imp!Run
<1> QED
  BY <1>1 DEF Imp!Goto

\* Rows, tables and loads stay: only the runner moves, and perhaps its job's state.
LEMMA RunnerStep ==
  ASSUME ImportInv, NEW r \in Imp!Runner, NEW x \in Imp!Run \cup {None},
         run' = [run EXCEPT ![r] = x], UNCHANGED <<loads, mine, left, failed, planet, slim>>,
         copies' \in 0..MaxLoads,
         defaults \subseteq defaults', defaults' \subseteq Layer, UNCHANGED table,
         queue' = queue \/ (x = None /\ \E q \in {"completed", "waiting", "failed"} :
                              /\ queue' = [j \in Job |-> IF j = r THEN q ELSE queue[j]]
                              /\ q = "waiting" /\ r \in Job => left[r] > 0
                              /\ q = "completed"
                                   => run[r] # None /\ run[r].at = "rebuild" /\ run[r].todo = {}),
         x # None => /\ x.todo \subseteq defaults' /\ (x.at = "create" => x.layer \in defaults')
                     /\ r \in Job => queue[r] = "active"
                     /\ (r \in Job /\ x.at \in {"rebuild", "create"} =>
                           \A l \in defaults' \ (x.todo \cup failed[r]) : Fresh(r, l))
  PROVE  ImportInv'
<1> USE DEF ImportInv
<1>1. /\ run' \in [Imp!Runner -> Imp!Run \cup {None}] /\ run'[r] = x
      /\ \A q \in Imp!Runner \ {r} : run'[q] = run[q]
      /\ \A j \in Job : j \in Imp!Runner
  BY Moved
<1>2. /\ queue' \in [Job -> {"none", "waiting", "active", "completed", "failed"}]
      /\ \A j \in Job \ {r} : queue'[j] = queue[j]
      /\ x # None => queue' = queue
      /\ r \in Job /\ queue'[r] # queue[r] => queue'[r] \in {"completed", "waiting", "failed"}
      /\ r \in Job /\ queue'[r] = "waiting" => left[r] > 0
      /\ r \in Job /\ queue'[r] = "completed" /\ queue[r] # "completed" =>
           run[r] # None /\ run[r].at = "rebuild" /\ run[r].todo = {}
  BY DEF Imp!TypeOK, Attempted
<1>3. Imp!TypeOK'
  BY <1>1, <1>2 DEF Imp!TypeOK
<1>4. Numbers'
  BY DEF Numbers
<1>5. Runs'
  BY <1>1, <1>2 DEF Runs
<1>6. Attempted'
  BY <1>2 DEF Attempted
<1>7. \A j \in Job, l \in Layer : Fresh(j, l)' <=> Fresh(j, l)
  BY DEF Fresh
<1>8. \A l \in defaults' \ defaults, j \in Job : Fresh(j, l)
  BY DEF Numbers, Fresh
<1>9. Rebuilt'
  <2> SUFFICES ASSUME NEW j \in Job
               PROVE  /\ run'[j] # None /\ run'[j].at \in {"rebuild", "create"} =>
                           \A l \in defaults' \ (run'[j].todo \cup failed[j]) : Fresh(j, l)
                      /\ queue'[j] = "completed" => \A l \in defaults' \ failed[j] : Fresh(j, l)
    BY <1>7 DEF Rebuilt, Imp!TypeOK
  <2>1. CASE j = r
    BY <1>1, <1>2, <1>8, <2>1 DEF Rebuilt
  <2>2. CASE j # r
    BY <1>1, <1>2, <1>8, <2>2 DEF Rebuilt
  <2> QED
    BY <2>1, <2>2
<1> QED
  BY <1>3, <1>4, <1>5, <1>6, <1>9

\* A request or the calendar queues jobs, or none.
LEMMA Enqueued ==
  ASSUME ImportInv, NEW js \in SUBSET Job, NEW n \in 1..Attempts, Imp!Enqueue(js, n)
  PROVE  /\ queue' \in [Job -> {"none", "waiting", "active", "completed", "failed"}]
         /\ left' \in [Job -> 0..Attempts] /\ UNCHANGED <<mine, failed>>
         /\ \A j \in Job : \/ queue'[j] = queue[j] /\ left'[j] = left[j]
                           \/ queue[j] = "none" /\ queue'[j] = "waiting" /\ left'[j] > 0
BY Nobody DEF Imp!Enqueue, ImportInv, Imp!TypeOK

\* Queueing keeps the invariant; a request may start its load at the same time.
LEMMA EnqueueStep ==
  ASSUME ImportInv, NEW js \in SUBSET Job, NEW n \in 1..Attempts, Imp!Enqueue(js, n),
         \/ run' = run
         \/ \E r \in Request, mode \in {"append", "create", "slimless"} :
              Imp!Put(r, "load", mode, {}, None),
         UNCHANGED <<planet, slim, copies, defaults, table, loads>>
  PROVE  ImportInv'
<1> USE DEF ImportInv
<1>1. /\ queue' \in [Job -> {"none", "waiting", "active", "completed", "failed"}]
      /\ left' \in [Job -> 0..Attempts] /\ UNCHANGED <<mine, failed>>
      /\ \A j \in Job : \/ queue'[j] = queue[j] /\ left'[j] = left[j]
                        \/ queue[j] = "none" /\ queue'[j] = "waiting" /\ left'[j] > 0
  BY Enqueued
<1>2. /\ run' \in [Imp!Runner -> Imp!Run \cup {None}] /\ \A j \in Job : run'[j] = run[j]
      /\ \A r \in Request : run'[r] = run[r] \/ (run'[r].todo = {} /\ run'[r].at = "load")
  <2>1. CASE run' = run
    BY <2>1 DEF Imp!TypeOK
  <2>2. ASSUME NEW q \in Request, NEW mode \in {"append", "create", "slimless"},
               Imp!Put(q, "load", mode, {}, None)
        PROVE  /\ run' \in [Imp!Runner -> Imp!Run \cup {None}] /\ \A j \in Job : run'[j] = run[j]
               /\ \A r \in Request : run'[r] = run[r] \/ (run'[r].todo = {} /\ run'[r].at = "load")
    BY <2>2, Nobody DEF Imp!Put, Imp!TypeOK, Imp!Run, Imp!Runner
  <2> QED
    BY <2>1, <2>2
<1>3. Imp!TypeOK'
  BY <1>1, <1>2 DEF Imp!TypeOK
<1>4. Numbers' /\ Attempted'
  BY <1>1 DEF Numbers, Attempted
<1>5. Runs'
  BY <1>1, <1>2 DEF Runs, Imp!Runner
<1>6. Rebuilt'
  BY <1>1, <1>2 DEF Rebuilt, Fresh, Imp!TypeOK
<1> QED
  BY <1>3, <1>4, <1>5, <1>6

\* A worker takes a job: it has loaded nothing yet, and failed no layer.
LEMMA TakeStep ==
  ASSUME ImportInv, NEW j \in Job, Imp!Take(j)
  PROVE  ImportInv'
<1> USE DEF ImportInv
<1> DEFINE x == [at |-> "load", mode |-> "append", todo |-> {}, layer |-> None]
<1>1. x \in Imp!Run /\ run' = [run EXCEPT ![j] = x] /\ j \in Imp!Runner
  BY DEF Imp!Take, Imp!Put, Imp!Run, Imp!Runner
<1>2. /\ run' \in [Imp!Runner -> Imp!Run \cup {None}] /\ run'[j] = x
      /\ \A q \in Imp!Runner \ {j} : run'[q] = run[q]
      /\ \A q \in Job : q \in Imp!Runner
  BY <1>1, Moved
<1>3. /\ queue[j] = "waiting" /\ left[j] > 0 /\ queue'[j] = "active" /\ left'[j] = left[j] - 1
      /\ \A q \in Job \ {j} : /\ queue'[q] = queue[q] /\ left'[q] = left[q]
                              /\ mine'[q] = mine[q] /\ failed'[q] = failed[q]
      /\ mine'[j] = 0 /\ UNCHANGED <<planet, slim, copies, defaults, table, loads>>
  BY DEF Imp!Take, Imp!TypeOK, Attempted, Imp!data, Imp!layers
<1>4. Imp!TypeOK'
  BY <1>2, <1>3, Nobody DEF Imp!Take, Imp!TypeOK
<1>5. Numbers' /\ Attempted'
  BY <1>3, NumberTyped, Nobody DEF Numbers, Attempted, Imp!TypeOK
<1>6. Runs'
  BY <1>2, <1>3 DEF Runs
<1>7. Rebuilt'
  <2> SUFFICES ASSUME NEW q \in Job, q # j PROVE Rebuilt!(q)'
    BY <1>2, <1>3 DEF Rebuilt
  <2> QED
    BY <1>2, <1>3 DEF Rebuilt, Fresh
<1> QED
  BY <1>4, <1>5, <1>6, <1>7

\* A job without a path has no load to fall behind.
LEMMA NoPathStep ==
  ASSUME ImportInv, NEW j \in Job, Imp!NoPath(j)
  PROVE  ImportInv'
<1> USE DEF ImportInv
<1>1. /\ queue[j] = "waiting" /\ left[j] > 0 /\ queue'[j] = "completed"
      /\ left'[j] = left[j] - 1 /\ mine'[j] = 0
      /\ \A q \in Job \ {j} : /\ queue'[q] = queue[q] /\ left'[q] = left[q]
                              /\ mine'[q] = mine[q] /\ failed'[q] = failed[q]
      /\ UNCHANGED <<planet, slim, copies, defaults, table, run, loads>>
  BY DEF Imp!NoPath, Imp!TypeOK, Attempted, Imp!data, Imp!layers
<1>2. /\ queue' \in [Job -> {"none", "waiting", "active", "completed", "failed"}]
      /\ left' \in [Job -> 0..Attempts] /\ mine' \in [Job -> 0..MaxLoads]
      /\ failed' \in [Job -> SUBSET Layer]
  BY <1>1, Nobody DEF Imp!NoPath, Imp!TypeOK
<1>3. Imp!TypeOK'
  BY <1>1, <1>2 DEF Imp!TypeOK
<1>4. Numbers' /\ Attempted'
  BY <1>1, NumberTyped, Nobody DEF Numbers, Attempted, Imp!TypeOK
<1>5. run[j] = None /\ Runs'
  BY <1>1 DEF Runs, Imp!Runner
<1>6. Rebuilt'
  <2>1. \A l \in defaults : Fresh(j, l)'
    BY <1>1, NumberTyped DEF Fresh, Imp!TypeOK
  <2>2. ASSUME NEW q \in Job, q # j PROVE Rebuilt!(q)'
    BY <1>1, <2>2 DEF Rebuilt, Fresh
  <2> QED
    BY <1>1, <1>5, <2>1, <2>2 DEF Rebuilt
<1> QED
  BY <1>3, <1>4, <1>5, <1>6

\* A load starts, and may take the tables away, or ends, and is the newest.
LEMMA NewLoadStep ==
  ASSUME ImportInv, NEW r \in Imp!Runner, Imp!StartLoad(r) \/ Imp!EndLoad(r)
  PROVE  ImportInv'
<1> USE DEF ImportInv
<1>1. PICK s \in {"loading", "boundaries"} :
        Imp!Goto(r, s) /\ run[r] # None /\ run[r].at \in {"load", "loading"}
  BY DEF Imp!StartLoad, Imp!EndLoad, Imp!At
<1>2. PICK x \in Imp!Run : /\ x.at = s /\ x.todo = run[r].todo /\ x.layer = run[r].layer
                           /\ run' = [run EXCEPT ![r] = x]
  BY <1>1, Gone
<1>3. /\ run' \in [Imp!Runner -> Imp!Run \cup {None}] /\ run'[r] = x
      /\ \A q \in Imp!Runner \ {r} : run'[q] = run[q]
      /\ \A q \in Job : q \in Imp!Runner
  BY <1>2, Moved
<1>4. UNCHANGED <<copies, defaults, table, queue, left, failed>>
  BY DEF Imp!StartLoad, Imp!EndLoad, Imp!layers, Imp!jobs
<1>5. /\ loads' \in {loads, loads + 1} /\ loads' \in 0..MaxLoads /\ planet' \in {0, loads'}
      /\ slim' \in BOOLEAN /\ mine' \in [Job -> 0..MaxLoads]
      /\ \A j \in Job : mine'[j] = mine[j] \/ (j = r /\ mine'[j] = loads')
  <2>1. CASE Imp!StartLoad(r)
    BY <2>1, NumberTyped DEF Imp!StartLoad, Imp!jobs, Imp!TypeOK, Numbers
  <2>2. CASE Imp!EndLoad(r)
    BY <2>2, NumberTyped, Nobody DEF Imp!EndLoad, Imp!TypeOK
  <2> QED
    BY <2>1, <2>2
<1>6. Imp!TypeOK'
  BY <1>3, <1>4, <1>5, Nobody DEF Imp!TypeOK
<1>7. Numbers'
  BY <1>4, <1>5, NumberTyped, Nobody DEF Numbers
<1>8. Runs' /\ Attempted'
  BY <1>1, <1>2, <1>3, <1>4 DEF Runs, Attempted
<1>9. Rebuilt'
  <2> SUFFICES ASSUME NEW j \in Job PROVE Rebuilt!(j)'
    BY DEF Rebuilt
  <2>1. CASE j = r
    BY <1>1, <1>2, <1>3, <1>4, <2>1 DEF Rebuilt, Runs
  <2>2. CASE j # r
    BY <1>3, <1>4, <1>5, <2>2 DEF Rebuilt, Fresh
  <2> QED
    BY <2>1, <2>2
<1> QED
  BY <1>6, <1>7, <1>8, <1>9

\* A table is dropped, or built from the last load: it is fresh for every job.
LEMMA TableStep ==
  ASSUME ImportInv, NEW r \in Imp!Runner,
         (\E l \in Layer : Imp!Drop(r, l)) \/ Imp!Build(r)
  PROVE  ImportInv'
<1> USE DEF ImportInv
<1> DEFINE Done(l, x) ==
      /\ run[r] # None /\ run[r].at \in {"rebuild", "create"}
      /\ run' = [run EXCEPT ![r] = x] /\ x.at \in {"rebuild", "create"}
      /\ (x.at = "create" => x.layer \in defaults)
      /\ x.todo \subseteq run[r].todo /\ run[r].todo \ {l} \subseteq x.todo
      /\ \E p \in {0, loads} : table' = [table EXCEPT ![l] = p]
<1>1. PICK l \in defaults, x \in Imp!Run : Done(l, x)
  <2>1. ASSUME NEW l \in Layer, Imp!Drop(r, l) PROVE \E k \in defaults, x \in Imp!Run : Done(k, x)
    <3> DEFINE x == [at |-> "create", mode |-> run[r].mode, todo |-> run[r].todo \ {l}, layer |-> l]
    <3>1. run[r] # None /\ run[r].at = "rebuild" /\ l \in run[r].todo
      BY <2>1 DEF Imp!Drop, Imp!At
    <3>2. x \in Imp!Run /\ l \in defaults
      BY <3>1, RunTyped DEF Imp!Run, Runs
    <3>3. Done(l, x)
      BY <2>1, <3>1, <3>2 DEF Imp!Drop, Imp!Put
    <3> QED
      BY <3>2, <3>3
  <2>2. CASE Imp!Build(r)
    <3> DEFINE l == run[r].layer
    <3> DEFINE x == [at |-> "rebuild", mode |-> run[r].mode, todo |-> run[r].todo, layer |-> None]
    <3>1. run[r] # None /\ run[r].at = "create" /\ planet = loads
      BY <2>2 DEF Imp!Build, Imp!At, Numbers
    <3>2. x \in Imp!Run /\ l \in defaults
      BY <3>1, RunTyped DEF Imp!Run, Runs
    <3>3. Done(l, x)
      BY <2>2, <3>1, <3>2 DEF Imp!Build, Imp!Put
    <3> QED
      BY <3>2, <3>3
  <2> QED
    BY <2>1, <2>2
<1>2. PICK p \in {0, loads} : table' = [table EXCEPT ![l] = p]
  BY <1>1
<1>3. /\ run' \in [Imp!Runner -> Imp!Run \cup {None}] /\ run'[r] = x
      /\ \A q \in Imp!Runner \ {r} : run'[q] = run[q]
      /\ \A q \in Job : q \in Imp!Runner
  BY <1>1, Moved
<1>4. UNCHANGED <<planet, slim, copies, defaults, queue, left, mine, failed, loads>>
  BY DEF Imp!Drop, Imp!Build, Imp!data, Imp!jobs
<1>5. /\ table' \in [Layer -> 0..MaxLoads] /\ table'[l] \in {0, loads}
      /\ \A k \in Layer \ {l} : table'[k] = table[k] /\ l \in Layer
  BY <1>2, NumberTyped, Nobody DEF Imp!TypeOK
<1>6. Imp!TypeOK'
  BY <1>3, <1>4, <1>5 DEF Imp!TypeOK
<1>7. Numbers'
  BY <1>4, <1>5, NumberTyped DEF Numbers
<1>8. Runs' /\ Attempted'
  BY <1>1, <1>3, <1>4 DEF Runs, Attempted
<1>9. \A j \in Job : Fresh(j, l)' /\ \A k \in Layer \ {l} : Fresh(j, k)' <=> Fresh(j, k)
  BY <1>4, <1>5, NumberTyped DEF Fresh, Numbers
<1>10. Rebuilt'
  <2> SUFFICES ASSUME NEW j \in Job PROVE Rebuilt!(j)'
    BY DEF Rebuilt
  <2>1. CASE j = r
    <3>1. ASSUME NEW k \in defaults \ (x.todo \cup failed[j]) PROVE Fresh(j, k)'
      <4>1. CASE k = l
        BY <1>9, <4>1
      <4>2. CASE k # l
        BY <1>1, <1>9, <2>1, <3>1, <4>2 DEF Rebuilt, Imp!TypeOK
      <4> QED
        BY <4>1, <4>2
    <3>2. queue[j] = "active"
      BY <1>1, <2>1 DEF Runs
    <3> QED
      BY <1>3, <1>4, <2>1, <3>1, <3>2
  <2>2. CASE j # r
    BY <1>3, <1>4, <1>9, <2>2 DEF Rebuilt, Imp!TypeOK
  <2> QED
    BY <2>1, <2>2
<1> QED
  BY <1>6, <1>7, <1>8, <1>10

\* A layer that fails is counted.
LEMMA SkipStep ==
  ASSUME ImportInv, NEW r \in Imp!Runner,
         (\E l \in Layer : Imp!ReadFails(r, l)) \/ Imp!BuildFails(r)
  PROVE  ImportInv'
<1> USE DEF ImportInv
<1>1. PICK l \in defaults : /\ run[r] # None /\ run[r].at \in {"rebuild", "create"}
                            /\ Imp!Skip(r, l)
  BY DEF Imp!ReadFails, Imp!BuildFails, Imp!At, Runs
<1> DEFINE x == [at |-> "rebuild", mode |-> run[r].mode, todo |-> run[r].todo \ {l},
                 layer |-> None]
<1>2. x \in Imp!Run /\ run' = [run EXCEPT ![r] = x]
  BY <1>1, RunTyped DEF Imp!Skip, Imp!Others, Imp!Put, Imp!Run
<1>3. /\ run' \in [Imp!Runner -> Imp!Run \cup {None}] /\ run'[r] = x
      /\ \A q \in Imp!Runner \ {r} : run'[q] = run[q]
      /\ \A q \in Job : q \in Imp!Runner
  BY <1>2, Moved
<1>4. UNCHANGED <<planet, slim, copies, defaults, table, queue, left, mine, loads>>
  BY <1>1 DEF Imp!Skip, Imp!data, Imp!layers
<1>5. /\ failed' \in [Job -> SUBSET Layer]
      /\ \A j \in Job : failed'[j] = IF j = r THEN failed[j] \cup {l} ELSE failed[j]
  BY <1>1 DEF Imp!Skip, Imp!TypeOK
<1>6. Imp!TypeOK'
  BY <1>3, <1>4, <1>5 DEF Imp!TypeOK
<1>7. Numbers' /\ Attempted'
  BY <1>4 DEF Numbers, Attempted
<1>8. Runs'
  BY <1>1, <1>3, <1>4 DEF Runs
<1>9. Rebuilt'
  BY <1>1, <1>3, <1>4, <1>5 DEF Rebuilt, Fresh
<1> QED
  BY <1>6, <1>7, <1>8, <1>9

\* The process stops: its jobs wait again.
LEMMA CrashStep ==
  ASSUME ImportInv, Imp!Crash
  PROVE  ImportInv'
<1> USE DEF ImportInv
<1>1. /\ run' = [r \in Imp!Runner |-> None] /\ \A j \in Job : j \in Imp!Runner
      /\ UNCHANGED <<planet, slim, copies, defaults, table, mine, failed, loads>>
  BY DEF Imp!Crash, Imp!data, Imp!layers, Imp!Runner
<1>2. /\ queue' \in [Job -> {"none", "waiting", "active", "completed", "failed"}]
      /\ \A j \in Job : \/ queue'[j] = queue[j] /\ left'[j] = left[j] /\ queue[j] # "active"
                        \/ queue[j] = "active" /\ queue'[j] = "waiting" /\ left'[j] = left[j] + 1
      /\ left' \in [Job -> 0..Attempts]
  BY Nobody DEF Imp!Crash, Imp!TypeOK, Attempted
<1>3. Imp!TypeOK'
  BY <1>1, <1>2 DEF Imp!TypeOK
<1>4. Numbers' /\ Runs'
  BY <1>1 DEF Numbers, Runs
<1>5. Attempted'
  BY <1>2 DEF Attempted, Imp!TypeOK
<1>6. Rebuilt'
  BY <1>1, <1>2 DEF Rebuilt, Fresh
<1> QED
  BY <1>3, <1>4, <1>5, <1>6

\* The steps that leave tables and loads alone
LEMMA WaitingStep ==
  ASSUME ImportInv, NEW r \in Imp!Runner,
         \/ Imp!Boundaries(r) \/ Imp!Finish(r) \/ Imp!Fail(r)
         \/ r \in Job /\ Imp!List(r)
         \/ r \in Request /\ \E l \in Layer : Imp!Register(r, l) \/ Imp!Resync(r, l)
  PROVE  ImportInv'
<1> USE DEF ImportInv
<1>1. CASE Imp!Boundaries(r)
  <2>1. /\ run[r] # None /\ run[r].at = "boundaries" /\ copies' \in 0..MaxLoads
        /\ UNCHANGED <<planet, slim, defaults, table, queue, left, mine, failed, loads>>
    BY <1>1, Nobody DEF Imp!Boundaries, Imp!At, Imp!layers, Imp!jobs, Imp!TypeOK
  <2>2. CASE r \in Job
    <3>1. PICK x \in Imp!Run : /\ x.at = "list" /\ x.todo = run[r].todo
                               /\ run' = [run EXCEPT ![r] = x]
      BY <1>1, <2>1, <2>2, Gone DEF Imp!Boundaries
    <3> QED
      BY <2>1, <3>1, RunnerStep DEF Runs, Imp!TypeOK
  <2>3. CASE r \notin Job
    BY <1>1, <2>1, <2>3, RunnerStep DEF Imp!Boundaries, Imp!TypeOK
  <2> QED
    BY <2>2, <2>3
<1>2. CASE Imp!Finish(r)
  <2>1. /\ run[r] # None /\ run[r].at = "rebuild" /\ run[r].todo = {}
        /\ run' = [run EXCEPT ![r] = None]
        /\ queue' = [j \in Job |-> IF j = r THEN "completed" ELSE queue[j]]
        /\ UNCHANGED <<planet, slim, copies, defaults, table, left, mine, failed, loads>>
    BY <1>2 DEF Imp!Finish, Imp!At, Imp!data, Imp!layers
  <2> QED
    BY <2>1, RunnerStep DEF Imp!TypeOK
<1>3. CASE Imp!Fail(r)
  <2>1. /\ run' = [run EXCEPT ![r] = None]
        /\ UNCHANGED <<planet, slim, copies, defaults, table, left, mine, failed, loads>>
    BY <1>3 DEF Imp!Fail, Imp!data, Imp!layers
  <2>2. PICK q \in {"waiting", "failed"} :
          /\ queue' = [j \in Job |-> IF j = r THEN q ELSE queue[j]]
          /\ q = "waiting" /\ r \in Job => left[r] > 0
    <3>1. CASE r \in Job
      BY <1>3, <3>1 DEF Imp!Fail, Imp!AfterFailure
    <3>2. CASE r \notin Job
      BY <1>3, <3>2 DEF Imp!Fail
    <3> QED
      BY <3>1, <3>2
  <2> QED
    BY <2>1, <2>2, RunnerStep DEF Imp!TypeOK
<1>4. CASE r \in Job /\ Imp!List(r)
  <2> DEFINE x == [at |-> "rebuild", mode |-> "append", todo |-> defaults, layer |-> None]
  <2>1. /\ run[r] # None /\ run' = [run EXCEPT ![r] = x]
        /\ UNCHANGED <<planet, slim, copies, defaults, table, queue, left, mine, failed, loads>>
    BY <1>4 DEF Imp!List, Imp!At, Imp!Put, Imp!data, Imp!layers, Imp!jobs
  <2>2. x \in Imp!Run /\ queue[r] = "active"
    BY <1>4, <2>1 DEF Imp!Run, Imp!TypeOK, Runs
  <2> QED
    BY <2>1, <2>2, RunnerStep DEF Imp!TypeOK
<1>5. ASSUME r \in Request, NEW l \in Layer, Imp!Register(r, l) \/ Imp!Resync(r, l)
      PROVE  ImportInv'
  <2> DEFINE x == [at |-> "rebuild", mode |-> "none", todo |-> {l}, layer |-> None]
  <2>1. /\ run' = [run EXCEPT ![r] = x] /\ defaults' = defaults \cup {l}
        /\ UNCHANGED <<planet, slim, copies, table, queue, left, mine, failed, loads>>
    BY <1>5 DEF Imp!Register, Imp!Resync, Imp!Put, Imp!data, Imp!layers, Imp!jobs
  <2>2. x \in Imp!Run /\ r \notin Job
    BY <1>5, Nobody DEF Imp!Run
  <2> QED
    BY <2>1, <2>2, RunnerStep DEF Imp!TypeOK
<1> QED
  BY <1>1, <1>2, <1>3, <1>4, <1>5

\* Every step of an import or of a rebuilt layer keeps the invariant.
LEMMA ImportsStep ==
  ASSUME ImportInv, Imp!Next
  PROVE  ImportInv'
<1>1. ASSUME NEW j \in Job, Imp!Schedule(j) PROVE ImportInv'
  <2>1. /\ Imp!Enqueue({j}, 1) /\ 1 \in 1..Attempts /\ run' = run
        /\ UNCHANGED <<planet, slim, copies, defaults, table, loads>>
    BY <1>1, Nobody DEF Imp!Schedule, Imp!data, Imp!layers
  <2> QED
    BY <2>1, EnqueueStep
<1>2. ASSUME NEW r \in Request, NEW mode \in {"append", "create", "slimless"},
             NEW js \in SUBSET Job, Imp!ManualImport(r, mode, js)
      PROVE  ImportInv'
  <2>1. /\ Imp!Enqueue(js, Attempts) /\ Attempts \in 1..Attempts
        /\ Imp!Put(r, "load", mode, {}, None)
        /\ UNCHANGED <<planet, slim, copies, defaults, table, loads>>
    BY <1>2, Nobody DEF Imp!ManualImport, Imp!data, Imp!layers
  <2> QED
    BY <2>1, EnqueueStep
<1>3. /\ \A j \in Job : j \in Imp!Runner /\ {j} \in SUBSET Job
      /\ \A r \in Request : r \in Imp!Runner
      /\ {} \in SUBSET Job
  BY DEF Imp!Runner
<1>4. ASSUME NEW j \in Job, Imp!Schedule(j) \/ Imp!Take(j) \/ Imp!NoPath(j) \/ Imp!List(j)
      PROVE  ImportInv'
  BY <1>1, <1>3, <1>4, TakeStep, NoPathStep, WaitingStep
<1>5. ASSUME NEW r \in Imp!Runner,
             \/ Imp!StartLoad(r) \/ Imp!EndLoad(r) \/ Imp!Boundaries(r) \/ Imp!Build(r)
             \/ Imp!BuildFails(r) \/ Imp!Finish(r) \/ Imp!Fail(r)
      PROVE  ImportInv'
  BY <1>5, NewLoadStep, WaitingStep, TableStep, SkipStep
<1>6. ASSUME NEW r \in Request, NEW l \in Layer, Imp!Register(r, l) \/ Imp!Resync(r, l)
      PROVE  ImportInv'
  BY <1>3, <1>6, WaitingStep
<1>7. ASSUME NEW r \in Imp!Runner, NEW l \in Layer, Imp!Drop(r, l) \/ Imp!ReadFails(r, l)
      PROVE  ImportInv'
  BY <1>7, TableStep, SkipStep
<1> QED
  BY <1>2, <1>3, <1>4, <1>5, <1>6, <1>7, CrashStep DEF Imp!Next

\* Nothing is loaded at first.
LEMMA ImportsStart ==
  Imp!Init => ImportInv
<1> SUFFICES ASSUME Imp!Init PROVE ImportInv
  OBVIOUS
<1>0. 0 \in 0..MaxLoads /\ 0 \in 0..Attempts
  BY Nobody
<1>1. Imp!TypeOK
  <2>1. /\ queue \in [Job -> {"none", "waiting", "active", "completed", "failed"}]
        /\ failed \in [Job -> SUBSET Layer] /\ run \in [Imp!Runner -> Imp!Run \cup {None}]
    BY DEF Imp!Init
  <2>2. /\ left \in [Job -> 0..Attempts] /\ mine \in [Job -> 0..MaxLoads]
        /\ table \in [Layer -> 0..MaxLoads]
    BY <1>0 DEF Imp!Init
  <2> QED
    BY <1>0, <2>1, <2>2 DEF Imp!Init, Imp!TypeOK
<1>2. \A j \in Job : j \in Imp!Runner
  BY DEF Imp!Runner
<1>3. Numbers /\ Runs /\ Attempted /\ Rebuilt
  BY <1>2 DEF Imp!Init, Numbers, Runs, Attempted, Rebuilt
<1> QED
  BY <1>1, <1>3 DEF ImportInv

\* While another service moves, nothing of the imports changes.
LEMMA ImportsWait ==
  ImportInv /\ UNCHANGED imports => ImportInv'
BY DEF ImportInv, imports, Imp!TypeOK, Numbers, Runs, Attempted, Rebuilt, Fresh

\* While the imports move, their invariant holds.
LEMMA ImportsAlways == Spec => [](part = "imports" => ImportInv)
<1> DEFINE I == part = "imports" => ImportInv
<1>1. Init => I
  BY ImportsStart DEF Init
<1>2. I /\ [Next]_vars => I'
  BY ImportsStep, ImportsWait DEF Next, Only, vars
<1> QED
  BY <1>1, <1>2, PTL DEF Spec

\* A layer the job reports as rebuilt shows no data older than what the job loaded.
THEOREM LayersFollow == Spec => []LayersFollowImport
<1>1. (part = "imports" => ImportInv) => LayersFollowImport
  <2> SUFFICES ASSUME ImportInv, NEW j \in Job, NEW l \in defaults, queue[j] = "completed",
                      l \notin failed[j]
               PROVE  table[l] \in {0} \cup mine[j]..loads
    BY DEF LayersFollowImport, Imp!LayersFollowImport
  <2>1. Imp!TypeOK /\ l \in Layer
    BY DEF ImportInv, Imp!TypeOK
  <2> QED
    BY <2>1, NumberTyped DEF ImportInv, Rebuilt, Fresh, Numbers
<1> QED
  BY <1>1, ImportsAlways, PTL

-----------------------------------------------------------------------------
(* The process *)

\* Whatever service moves, its state is well typed.
THEOREM TypeCorrect == Spec => []TypeOK
<1>1. Spec => [](part \in Parts)
  <2>1. Init => part \in Parts
    BY DEF Init
  <2>2. part \in Parts /\ [Next]_vars => (part \in Parts)'
    BY DEF Next, Only, vars
  <2> QED
    BY <2>1, <2>2, PTL DEF Spec
<1>2. /\ part \in Parts
      /\ part = "accounts" => AccountInv
      /\ part = "access" => AccessInv
      /\ part = "discussions" => DiscussionInv
      /\ part = "assistant" => AssistantInv
      /\ part = "imports" => ImportInv
      /\ part = "backups" => BackupInv
      /\ part = "contents" => ContentInv
      /\ part = "catalog" => CatalogInv
      /\ part = "styles" => StylesInv
      /\ part = "projects" => ProjectInv
      => TypeOK
  BY DEF TypeOK, Parts, AccountInv, AccountTyped, AccessInv, DiscussionInv, AssistantInv,
         ImportInv, BackupInv, ContentInv, CatalogInv, StylesInv, ProjectInv
<1> QED
  BY <1>1, <1>2, AccountsAlways, AccessAlways, DiscussionsAlways, AssistantAlways,
     ImportsAlways, BackupsAlways, ContentsAlways, CatalogAlways, StylesAlways,
     ProjectsAlways, PTL
===============================================================================
