--------------------------- MODULE CheckoutProofs ---------------------------
(* Proofs about Checkout, for every set of requests, products and bodies.  *)
EXTENDS Checkout, FiniteSetTheorems, WellFoundedInduction, TLAPS

USE DEF Phases, InTransaction, InProgress, Errors, Undecided

LEMMA LineFacts ==
  ASSUME TypeOK, NEW r \in Requests
  PROVE  /\ Len(Lines(r)) \in Nat
         /\ DOMAIN Lines(r) = 1 .. Len(Lines(r))
         /\ \A i \in DOMAIN Lines(r) : Lines(r)[i].quantity \in Int
  BY BodiesAssumption DEF TypeOK, Lines

(* Numbers have a least one among them, if there are any. *)
LEMMA LeastNumber ==
  ASSUME NEW N \in SUBSET Nat, N # {}
  PROVE  \E k \in N : \A m \in N : k =< m
<1> DEFINE Less == {ss \in Nat \X Nat : ss[1] < ss[2]}
<1>1. IsWellFoundedOn(Less, Nat)
  BY NatLessThanWellFounded DEF OpToRel
<1>2. \A m, q \in Nat : m < q => <<m, q>> \in Less
  OBVIOUS
<1>3. PICK k \in N : \A m \in N : <<m, k>> \notin Less
  <2> HIDE DEF Less
  <2> QED
    BY <1>1, WFMin
<1>4. \A m \in N : ~ (m < k)
  <2> HIDE DEF Less
  <2> QED
    BY <1>2, <1>3
<1>5. \A m \in N : k =< m
  BY <1>4
<1> QED
  BY <1>5

(* A body has a last line for every product it names. *)
LEMMA LastLineExists ==
  ASSUME TypeOK, NEW r \in Requests, NEW p,
         \E i \in DOMAIN Lines(r) : ProductAt(r, i) = p
  PROVE  /\ LastLineOf(r, p) \in DOMAIN Lines(r)
         /\ ProductAt(r, LastLineOf(r, p)) = p
<1> DEFINE n == Len(Lines(r))
           Here == {i \in 1 .. n : ProductAt(r, i) = p}
           FromEnd == {n - i : i \in Here}
<1>1. n \in Nat /\ DOMAIN Lines(r) = 1 .. n
  BY LineFacts
<1>2. FromEnd \subseteq Nat /\ FromEnd # {}
  BY <1>1
<1>3. PICK k \in FromEnd : \A m \in FromEnd : k =< m
  <2> HIDE DEF FromEnd
  <2> QED
    BY <1>2, LeastNumber
<1>4. PICK i \in Here : k = n - i
  OBVIOUS
<1>5. \A j \in Here : j =< i
  <2> SUFFICES ASSUME NEW j \in Here PROVE j =< i
    OBVIOUS
  <2>1. n - i =< n - j
    BY <1>3, <1>4
  <2> QED
    BY <1>1, <2>1
<1> QED
  BY <1>1, <1>5 DEF LastLineOf

LEMMA StockAfterType ==
  ASSUME TypeOK, NEW r \in Requests
  PROVE  StockAfter(r) \in [Catalog -> Int]
<1> SUFFICES ASSUME NEW p \in Catalog,
                    \E i \in DOMAIN Lines(r) : ProductAt(r, i) = p
             PROVE  read[r][p] - Lines(r)[LastLineOf(r, p)].quantity \in Int
  BY DEF StockAfter, TypeOK
<1> QED
  BY LastLineExists, LineFacts DEF TypeOK

LEMMA TypeInit == Init => TypeOK
  BY StockAssumption DEF Init, TypeOK

-----------------------------------------------------------------------------
(* The steps of Next, with the alternatives that do the same grouped. *)

Aborts(r) == InsertRefused(r) \/ StatementFails(r) \/ DeadlockVictim(r)
Commits(r) == Commit(r) \/ CommitUnacknowledged(r)

LEMMA AbortsFacts ==
  ASSUME NEW r \in Requests, Aborts(r)
  PROVE  /\ pc[r] \in InTransaction \union {"reread"}
         /\ AbortWithServerError(r)
  BY DEF Aborts, InsertRefused, StatementFails, DeadlockVictim, InCycle, WaitsFor

LEMMA CommitsFacts ==
  ASSUME NEW r \in Requests, Commits(r)
  PROVE  /\ ApplyAndCommit(r)
         /\ \/ Answer(r, r) /\ GoTo(r, "publish")
            \/ Answer(r, "ServerError") /\ GoTo(r, "answered")
         /\ UNCHANGED <<body, line, read, published>>
  BY DEF Commits, Commit, CommitUnacknowledged

LEMMA NextSteps ==
  ASSUME [Next]_vars
  PROVE  \/ \E r \in Requests :
              \/ FindUser(r) \/ UserNotFound(r)
              \/ FindExisting(r) \/ FindNoExisting(r)
              \/ InsertOrder(r) \/ Aborts(r) \/ InsertDuplicate(r) \/ Reread(r)
              \/ LockLine(r) \/ Refuse(r) \/ Rollback(r) \/ Commits(r)
              \/ PublishAndAnswer(r) \/ PublishThrows(r) \/ DeleteOrder(r)
         \/ Crash
         \/ UNCHANGED vars
  BY DEF Next, Step, Aborts, Commits, Quiescent

LEMMA TypeStep == TypeOK /\ [Next]_vars => TypeOK'
<1> SUFFICES ASSUME TypeOK,
                    [Next]_vars
             PROVE  TypeOK'
  OBVIOUS
<1> USE DEF TypeOK, GoTo, Answer, tables, held
<1>1. ASSUME NEW r \in Requests, FindUser(r) PROVE TypeOK'
  BY <1>1 DEF FindUser
<1>2. ASSUME NEW r \in Requests, UserNotFound(r) PROVE TypeOK'
  BY <1>2 DEF UserNotFound
<1>3. ASSUME NEW r \in Requests, FindExisting(r) PROVE TypeOK'
  BY <1>3 DEF FindExisting
<1>4. ASSUME NEW r \in Requests, FindNoExisting(r) PROVE TypeOK'
  BY <1>4 DEF FindNoExisting
<1>5. ASSUME NEW r \in Requests, InsertOrder(r) PROVE TypeOK'
  BY <1>5 DEF InsertOrder
<1>6. ASSUME NEW r \in Requests, Aborts(r) PROVE TypeOK'
  <2>1. AbortWithServerError(r) /\ pc[r] \in InTransaction \union {"reread"}
    BY <1>6, AbortsFacts
  <2> QED
    BY <2>1 DEF AbortWithServerError, Release
<1>7. ASSUME NEW r \in Requests, InsertDuplicate(r) PROVE TypeOK'
  BY <1>7 DEF InsertDuplicate
<1>8. ASSUME NEW r \in Requests, Reread(r) PROVE TypeOK'
  BY <1>8 DEF Reread
<1>9. ASSUME NEW r \in Requests, LockLine(r) PROVE TypeOK'
  <2> DEFINE p == ProductAt(r, line[r])
  <2>1. body' = body /\ pc' = pc /\ result' = result /\ stock' = stock
        /\ live' = live /\ placed' = placed /\ audit' = audit
        /\ pending' = pending /\ draft' = draft /\ published' = published
    BY <1>9 DEF LockLine
  <2>2. line' \in [Requests -> Nat \ {0}]
    BY <1>9 DEF LockLine
  <2>3. CASE p \notin Catalog
    BY <1>9, <2>1, <2>2, <2>3 DEF LockLine
  <2>4. CASE p \in Catalog
    <3>1. lockedBy' = [lockedBy EXCEPT ![p] = r]
          /\ read' = [read EXCEPT ![r][p] = stock[p]]
      BY <1>9, <2>4 DEF LockLine
    <3>2. [read[r] EXCEPT ![p] = stock[p]] \in [Catalog -> Int]
      BY <2>4
    <3>3. read' \in [Requests -> [Catalog -> Int]]
      BY <3>1, <3>2
    <3> QED
      BY <2>1, <2>2, <2>4, <3>1, <3>3
  <2> QED
    BY <2>3, <2>4
<1>10. ASSUME NEW r \in Requests, Refuse(r) PROVE TypeOK'
  BY <1>10 DEF Refuse
<1>11. ASSUME NEW r \in Requests, Rollback(r) PROVE TypeOK'
  BY <1>11 DEF Rollback, Release
<1>12. ASSUME NEW r \in Requests, Commits(r) PROVE TypeOK'
  <2>1. ApplyAndCommit(r) /\ UNCHANGED <<body, line, read, published>>
    BY <1>12, CommitsFacts
  <2>2. stock' = StockAfter(r) /\ audit' = audit \union {<<r, "success">>}
    BY <2>1 DEF ApplyAndCommit
  <2>3. stock' \in [Catalog -> Int]
    BY <2>2, StockAfterType
  <2>4. /\ live' \in SUBSET Requests /\ placed' \in SUBSET Requests
        /\ pending' \in SUBSET Requests /\ draft' \in SUBSET Requests
        /\ lockedBy' \in [Catalog -> Requests \union {NoOne}]
    BY <2>1 DEF ApplyAndCommit, Release
  <2>5. CASE Answer(r, r) /\ GoTo(r, "publish")
    BY <2>1, <2>2, <2>3, <2>4, <2>5
  <2>6. CASE Answer(r, "ServerError") /\ GoTo(r, "answered")
    BY <2>1, <2>2, <2>3, <2>4, <2>6
  <2> QED
    BY <1>12, <2>5, <2>6, CommitsFacts
<1>13. ASSUME NEW r \in Requests, PublishAndAnswer(r) PROVE TypeOK'
  BY <1>13 DEF PublishAndAnswer
<1>14. ASSUME NEW r \in Requests, PublishThrows(r) PROVE TypeOK'
  BY <1>14 DEF PublishThrows
<1>15. ASSUME Crash PROVE TypeOK'
  BY <1>15 DEF Crash, Release
<1>16. ASSUME NEW r \in Requests, DeleteOrder(r) PROVE TypeOK'
  BY <1>16 DEF DeleteOrder
<1>17. ASSUME UNCHANGED vars PROVE TypeOK'
  BY <1>17 DEF vars
<1> QED
  BY <1>1, <1>2, <1>3, <1>4, <1>5, <1>6, <1>7, <1>8, <1>9, <1>10, <1>11, <1>12,
     <1>13, <1>14, <1>15, <1>16, <1>17, NextSteps

-----------------------------------------------------------------------------
(* The other conjuncts of SafetyInv, each from those it depends on. *)

LEMMA PendingStep == TypeOK /\ PendingIsOpen /\ [Next]_vars => PendingIsOpen'
<1> SUFFICES ASSUME TypeOK, PendingIsOpen,
                    [Next]_vars
             PROVE  PendingIsOpen'
  OBVIOUS
<1> USE DEF TypeOK, GoTo, Answer, tables, held, PendingIsOpen
<1>1. ASSUME NEW r \in Requests, FindUser(r) PROVE PendingIsOpen'
  BY <1>1 DEF FindUser
<1>2. ASSUME NEW r \in Requests, UserNotFound(r) PROVE PendingIsOpen'
  BY <1>2 DEF UserNotFound
<1>3. ASSUME NEW r \in Requests, FindExisting(r) PROVE PendingIsOpen'
  BY <1>3 DEF FindExisting
<1>4. ASSUME NEW r \in Requests, FindNoExisting(r) PROVE PendingIsOpen'
  BY <1>4 DEF FindNoExisting
<1>5. ASSUME NEW r \in Requests, InsertOrder(r) PROVE PendingIsOpen'
  BY <1>5 DEF InsertOrder
<1>6. ASSUME NEW r \in Requests, Aborts(r) PROVE PendingIsOpen'
  <2>1. AbortWithServerError(r) /\ pc[r] \in InTransaction \union {"reread"}
    BY <1>6, AbortsFacts
  <2> QED
    BY <2>1 DEF AbortWithServerError, Release
<1>7. ASSUME NEW r \in Requests, InsertDuplicate(r) PROVE PendingIsOpen'
  BY <1>7 DEF InsertDuplicate
<1>8. ASSUME NEW r \in Requests, Reread(r) PROVE PendingIsOpen'
  BY <1>8 DEF Reread
<1>9. ASSUME NEW r \in Requests, LockLine(r) PROVE PendingIsOpen'
  BY <1>9 DEF LockLine
<1>10. ASSUME NEW r \in Requests, Refuse(r) PROVE PendingIsOpen'
  BY <1>10 DEF Refuse
<1>11. ASSUME NEW r \in Requests, Rollback(r) PROVE PendingIsOpen'
  BY <1>11 DEF Rollback, Release
<1>12. ASSUME NEW r \in Requests, Commits(r) PROVE PendingIsOpen'
  <2>1. ApplyAndCommit(r) /\ UNCHANGED <<body, line, read, published>>
    BY <1>12, CommitsFacts
  <2>2. CASE Answer(r, r) /\ GoTo(r, "publish")
    BY <2>1, <2>2 DEF ApplyAndCommit, Release
  <2>3. CASE Answer(r, "ServerError") /\ GoTo(r, "answered")
    BY <2>1, <2>3 DEF ApplyAndCommit, Release
  <2> QED
    BY <1>12, <2>2, <2>3, CommitsFacts
<1>13. ASSUME NEW r \in Requests, PublishAndAnswer(r) PROVE PendingIsOpen'
  BY <1>13 DEF PublishAndAnswer
<1>14. ASSUME NEW r \in Requests, PublishThrows(r) PROVE PendingIsOpen'
  BY <1>14 DEF PublishThrows
<1>15. ASSUME Crash PROVE PendingIsOpen'
  BY <1>15 DEF Crash, Release
<1>16. ASSUME NEW r \in Requests, DeleteOrder(r) PROVE PendingIsOpen'
  BY <1>16 DEF DeleteOrder
<1>17. ASSUME UNCHANGED vars PROVE PendingIsOpen'
  BY <1>17 DEF vars
<1> QED
  BY <1>1, <1>2, <1>3, <1>4, <1>5, <1>6, <1>7, <1>8, <1>9, <1>10, <1>11, <1>12,
     <1>13, <1>14, <1>15, <1>16, <1>17, NextSteps

LEMMA LinesStartStep ==
  TypeOK /\ LinesStartAtFirst /\ [Next]_vars
    => LinesStartAtFirst'
<1> SUFFICES ASSUME TypeOK, LinesStartAtFirst,
                    [Next]_vars
             PROVE  LinesStartAtFirst'
  OBVIOUS
<1> USE DEF TypeOK, GoTo, Answer, tables, held, LinesStartAtFirst
<1>1. ASSUME NEW r \in Requests, FindUser(r) PROVE LinesStartAtFirst'
  BY <1>1 DEF FindUser
<1>2. ASSUME NEW r \in Requests, UserNotFound(r) PROVE LinesStartAtFirst'
  BY <1>2 DEF UserNotFound
<1>3. ASSUME NEW r \in Requests, FindExisting(r) PROVE LinesStartAtFirst'
  BY <1>3 DEF FindExisting
<1>4. ASSUME NEW r \in Requests, FindNoExisting(r) PROVE LinesStartAtFirst'
  BY <1>4 DEF FindNoExisting
<1>5. ASSUME NEW r \in Requests, InsertOrder(r) PROVE LinesStartAtFirst'
  BY <1>5 DEF InsertOrder
<1>6. ASSUME NEW r \in Requests, Aborts(r) PROVE LinesStartAtFirst'
  <2>1. AbortWithServerError(r) /\ pc[r] \in InTransaction \union {"reread"}
    BY <1>6, AbortsFacts
  <2> QED
    BY <2>1 DEF AbortWithServerError, Release
<1>7. ASSUME NEW r \in Requests, InsertDuplicate(r) PROVE LinesStartAtFirst'
  BY <1>7 DEF InsertDuplicate
<1>8. ASSUME NEW r \in Requests, Reread(r) PROVE LinesStartAtFirst'
  BY <1>8 DEF Reread
<1>9. ASSUME NEW r \in Requests, LockLine(r) PROVE LinesStartAtFirst'
  BY <1>9 DEF LockLine
<1>10. ASSUME NEW r \in Requests, Refuse(r) PROVE LinesStartAtFirst'
  BY <1>10 DEF Refuse
<1>11. ASSUME NEW r \in Requests, Rollback(r) PROVE LinesStartAtFirst'
  BY <1>11 DEF Rollback, Release
<1>12. ASSUME NEW r \in Requests, Commits(r) PROVE LinesStartAtFirst'
  <2>1. ApplyAndCommit(r) /\ UNCHANGED <<body, line, read, published>>
    BY <1>12, CommitsFacts
  <2>2. CASE Answer(r, r) /\ GoTo(r, "publish")
    BY <2>1, <2>2 DEF ApplyAndCommit, Release
  <2>3. CASE Answer(r, "ServerError") /\ GoTo(r, "answered")
    BY <2>1, <2>3 DEF ApplyAndCommit, Release
  <2> QED
    BY <1>12, <2>2, <2>3, CommitsFacts
<1>13. ASSUME NEW r \in Requests, PublishAndAnswer(r) PROVE LinesStartAtFirst'
  BY <1>13 DEF PublishAndAnswer
<1>14. ASSUME NEW r \in Requests, PublishThrows(r) PROVE LinesStartAtFirst'
  BY <1>14 DEF PublishThrows
<1>15. ASSUME Crash PROVE LinesStartAtFirst'
  BY <1>15 DEF Crash, Release
<1>16. ASSUME NEW r \in Requests, DeleteOrder(r) PROVE LinesStartAtFirst'
  BY <1>16 DEF DeleteOrder
<1>17. ASSUME UNCHANGED vars PROVE LinesStartAtFirst'
  BY <1>17 DEF vars
<1> QED
  BY <1>1, <1>2, <1>3, <1>4, <1>5, <1>6, <1>7, <1>8, <1>9, <1>10, <1>11, <1>12,
     <1>13, <1>14, <1>15, <1>16, <1>17, NextSteps

LEMMA VerdictStep ==
  TypeOK /\ VerdictMatchesPhase /\ [Next]_vars
    => VerdictMatchesPhase'
<1> SUFFICES ASSUME TypeOK, VerdictMatchesPhase,
                    [Next]_vars
             PROVE  VerdictMatchesPhase'
  OBVIOUS
<1> USE RequestsAssumption DEF TypeOK, GoTo, Answer, tables, held, VerdictMatchesPhase
<1>1. ASSUME NEW r \in Requests, FindUser(r) PROVE VerdictMatchesPhase'
  BY <1>1 DEF FindUser
<1>2. ASSUME NEW r \in Requests, UserNotFound(r) PROVE VerdictMatchesPhase'
  BY <1>2 DEF UserNotFound
<1>3. ASSUME NEW r \in Requests, FindExisting(r) PROVE VerdictMatchesPhase'
  BY <1>3 DEF FindExisting
<1>4. ASSUME NEW r \in Requests, FindNoExisting(r) PROVE VerdictMatchesPhase'
  BY <1>4 DEF FindNoExisting
<1>5. ASSUME NEW r \in Requests, InsertOrder(r) PROVE VerdictMatchesPhase'
  BY <1>5 DEF InsertOrder
<1>6. ASSUME NEW r \in Requests, Aborts(r) PROVE VerdictMatchesPhase'
  <2>1. AbortWithServerError(r) /\ pc[r] \in InTransaction \union {"reread"}
    BY <1>6, AbortsFacts
  <2> QED
    BY <2>1 DEF AbortWithServerError, Release
<1>7. ASSUME NEW r \in Requests, InsertDuplicate(r) PROVE VerdictMatchesPhase'
  BY <1>7 DEF InsertDuplicate
<1>8. ASSUME NEW r \in Requests, Reread(r) PROVE VerdictMatchesPhase'
  BY <1>8 DEF Reread
<1>9. ASSUME NEW r \in Requests, LockLine(r) PROVE VerdictMatchesPhase'
  BY <1>9 DEF LockLine
<1>10. ASSUME NEW r \in Requests, Refuse(r) PROVE VerdictMatchesPhase'
  BY <1>10 DEF Refuse
<1>11. ASSUME NEW r \in Requests, Rollback(r) PROVE VerdictMatchesPhase'
  BY <1>11 DEF Rollback, Release
<1>12. ASSUME NEW r \in Requests, Commits(r) PROVE VerdictMatchesPhase'
  <2>1. ApplyAndCommit(r) /\ UNCHANGED <<body, line, read, published>>
    BY <1>12, CommitsFacts
  <2>2. CASE Answer(r, r) /\ GoTo(r, "publish")
    BY <2>1, <2>2 DEF ApplyAndCommit, Release
  <2>3. CASE Answer(r, "ServerError") /\ GoTo(r, "answered")
    BY <2>1, <2>3 DEF ApplyAndCommit, Release
  <2> QED
    BY <1>12, <2>2, <2>3, CommitsFacts
<1>13. ASSUME NEW r \in Requests, PublishAndAnswer(r)
  PROVE  VerdictMatchesPhase'
  BY <1>13 DEF PublishAndAnswer
<1>14. ASSUME NEW r \in Requests, PublishThrows(r) PROVE VerdictMatchesPhase'
  BY <1>14 DEF PublishThrows
<1>15. ASSUME Crash PROVE VerdictMatchesPhase'
  BY <1>15 DEF Crash, Release
<1>16. ASSUME NEW r \in Requests, DeleteOrder(r) PROVE VerdictMatchesPhase'
  BY <1>16 DEF DeleteOrder
<1>17. ASSUME UNCHANGED vars PROVE VerdictMatchesPhase'
  BY <1>17 DEF vars
<1> QED
  BY <1>1, <1>2, <1>3, <1>4, <1>5, <1>6, <1>7, <1>8, <1>9, <1>10, <1>11, <1>12,
     <1>13, <1>14, <1>15, <1>16, <1>17, NextSteps

LEMMA RowsStep ==
  TypeOK /\ PendingIsOpen /\ RowsAreInsertable /\ [Next]_vars
    => RowsAreInsertable'
<1> SUFFICES ASSUME TypeOK, PendingIsOpen, RowsAreInsertable,
                    [Next]_vars
             PROVE  RowsAreInsertable'
  OBVIOUS
<1> USE DEF TypeOK, GoTo, Answer, tables, held, PendingIsOpen, RowsAreInsertable, UserFound, Insertable
<1>1. ASSUME NEW r \in Requests, FindUser(r) PROVE RowsAreInsertable'
  BY <1>1 DEF FindUser
<1>2. ASSUME NEW r \in Requests, UserNotFound(r) PROVE RowsAreInsertable'
  BY <1>2 DEF UserNotFound
<1>3. ASSUME NEW r \in Requests, FindExisting(r) PROVE RowsAreInsertable'
  BY <1>3 DEF FindExisting
<1>4. ASSUME NEW r \in Requests, FindNoExisting(r) PROVE RowsAreInsertable'
  BY <1>4 DEF FindNoExisting
<1>5. ASSUME NEW r \in Requests, InsertOrder(r) PROVE RowsAreInsertable'
  BY <1>5 DEF InsertOrder
<1>6. ASSUME NEW r \in Requests, Aborts(r) PROVE RowsAreInsertable'
  <2>1. AbortWithServerError(r) /\ pc[r] \in InTransaction \union {"reread"}
    BY <1>6, AbortsFacts
  <2> QED
    BY <2>1 DEF AbortWithServerError, Release
<1>7. ASSUME NEW r \in Requests, InsertDuplicate(r) PROVE RowsAreInsertable'
  BY <1>7 DEF InsertDuplicate
<1>8. ASSUME NEW r \in Requests, Reread(r) PROVE RowsAreInsertable'
  BY <1>8 DEF Reread
<1>9. ASSUME NEW r \in Requests, LockLine(r) PROVE RowsAreInsertable'
  BY <1>9 DEF LockLine
<1>10. ASSUME NEW r \in Requests, Refuse(r) PROVE RowsAreInsertable'
  BY <1>10 DEF Refuse
<1>11. ASSUME NEW r \in Requests, Rollback(r) PROVE RowsAreInsertable'
  BY <1>11 DEF Rollback, Release
<1>12. ASSUME NEW r \in Requests, Commits(r) PROVE RowsAreInsertable'
  <2>1. ApplyAndCommit(r) /\ UNCHANGED <<body, line, read, published>>
    BY <1>12, CommitsFacts
  <2>2. CASE Answer(r, r) /\ GoTo(r, "publish")
    BY <2>1, <2>2 DEF ApplyAndCommit, Release
  <2>3. CASE Answer(r, "ServerError") /\ GoTo(r, "answered")
    BY <2>1, <2>3 DEF ApplyAndCommit, Release
  <2> QED
    BY <1>12, <2>2, <2>3, CommitsFacts
<1>13. ASSUME NEW r \in Requests, PublishAndAnswer(r) PROVE RowsAreInsertable'
  BY <1>13 DEF PublishAndAnswer
<1>14. ASSUME NEW r \in Requests, PublishThrows(r) PROVE RowsAreInsertable'
  BY <1>14 DEF PublishThrows
<1>15. ASSUME Crash PROVE RowsAreInsertable'
  BY <1>15 DEF Crash, Release
<1>16. ASSUME NEW r \in Requests, DeleteOrder(r) PROVE RowsAreInsertable'
  BY <1>16 DEF DeleteOrder
<1>17. ASSUME UNCHANGED vars PROVE RowsAreInsertable'
  BY <1>17 DEF vars
<1> QED
  BY <1>1, <1>2, <1>3, <1>4, <1>5, <1>6, <1>7, <1>8, <1>9, <1>10, <1>11, <1>12,
     <1>13, <1>14, <1>15, <1>16, <1>17, NextSteps

LEMMA LocksStep ==
  TypeOK /\ PendingIsOpen /\ LocksHaveOpenTransaction /\ [Next]_vars
    => LocksHaveOpenTransaction'
<1> SUFFICES ASSUME TypeOK, PendingIsOpen, LocksHaveOpenTransaction,
                    [Next]_vars
             PROVE  LocksHaveOpenTransaction'
  OBVIOUS
<1> USE DEF TypeOK, GoTo, Answer, tables, held, PendingIsOpen, LocksHaveOpenTransaction
<1>1. ASSUME NEW r \in Requests, FindUser(r) PROVE LocksHaveOpenTransaction'
  BY <1>1 DEF FindUser
<1>2. ASSUME NEW r \in Requests, UserNotFound(r)
  PROVE  LocksHaveOpenTransaction'
  BY <1>2 DEF UserNotFound
<1>3. ASSUME NEW r \in Requests, FindExisting(r)
  PROVE  LocksHaveOpenTransaction'
  BY <1>3 DEF FindExisting
<1>4. ASSUME NEW r \in Requests, FindNoExisting(r)
  PROVE  LocksHaveOpenTransaction'
  BY <1>4 DEF FindNoExisting
<1>5. ASSUME NEW r \in Requests, InsertOrder(r)
  PROVE  LocksHaveOpenTransaction'
  BY <1>5 DEF InsertOrder
<1>6. ASSUME NEW r \in Requests, Aborts(r) PROVE LocksHaveOpenTransaction'
  <2>1. AbortWithServerError(r) /\ pc[r] \in InTransaction \union {"reread"}
    BY <1>6, AbortsFacts
  <2> QED
    BY <2>1 DEF AbortWithServerError, Release
<1>7. ASSUME NEW r \in Requests, InsertDuplicate(r)
  PROVE  LocksHaveOpenTransaction'
  BY <1>7 DEF InsertDuplicate
<1>8. ASSUME NEW r \in Requests, Reread(r) PROVE LocksHaveOpenTransaction'
  BY <1>8 DEF Reread
<1>9. ASSUME NEW r \in Requests, LockLine(r) PROVE LocksHaveOpenTransaction'
  BY <1>9 DEF LockLine
<1>10. ASSUME NEW r \in Requests, Refuse(r) PROVE LocksHaveOpenTransaction'
  BY <1>10 DEF Refuse
<1>11. ASSUME NEW r \in Requests, Rollback(r) PROVE LocksHaveOpenTransaction'
  BY <1>11 DEF Rollback, Release
<1>12. ASSUME NEW r \in Requests, Commits(r) PROVE LocksHaveOpenTransaction'
  <2>1. ApplyAndCommit(r) /\ UNCHANGED <<body, line, read, published>>
    BY <1>12, CommitsFacts
  <2>2. CASE Answer(r, r) /\ GoTo(r, "publish")
    BY <2>1, <2>2 DEF ApplyAndCommit, Release
  <2>3. CASE Answer(r, "ServerError") /\ GoTo(r, "answered")
    BY <2>1, <2>3 DEF ApplyAndCommit, Release
  <2> QED
    BY <1>12, <2>2, <2>3, CommitsFacts
<1>13. ASSUME NEW r \in Requests, PublishAndAnswer(r)
  PROVE  LocksHaveOpenTransaction'
  BY <1>13 DEF PublishAndAnswer
<1>14. ASSUME NEW r \in Requests, PublishThrows(r)
  PROVE  LocksHaveOpenTransaction'
  BY <1>14 DEF PublishThrows
<1>15. ASSUME Crash PROVE LocksHaveOpenTransaction'
  BY <1>15 DEF Crash, Release
<1>16. ASSUME NEW r \in Requests, DeleteOrder(r)
  PROVE  LocksHaveOpenTransaction'
  BY <1>16 DEF DeleteOrder
<1>17. ASSUME UNCHANGED vars PROVE LocksHaveOpenTransaction'
  BY <1>17 DEF vars
<1> QED
  BY <1>1, <1>2, <1>3, <1>4, <1>5, <1>6, <1>7, <1>8, <1>9, <1>10, <1>11, <1>12,
     <1>13, <1>14, <1>15, <1>16, <1>17, NextSteps

LEMMA OneLiveStep ==
  TypeOK /\ PendingIsOpen /\ OneLiveOrderPerKey /\ [Next]_vars
    => OneLiveOrderPerKey'
<1> SUFFICES ASSUME TypeOK, PendingIsOpen, OneLiveOrderPerKey,
                    [Next]_vars
             PROVE  OneLiveOrderPerKey'
  OBVIOUS
<1> USE DEF TypeOK, GoTo, Answer, tables, held, PendingIsOpen, OneLiveOrderPerKey, SameKey, KeyHolders
<1>1. ASSUME NEW r \in Requests, FindUser(r) PROVE OneLiveOrderPerKey'
  BY <1>1 DEF FindUser
<1>2. ASSUME NEW r \in Requests, UserNotFound(r) PROVE OneLiveOrderPerKey'
  BY <1>2 DEF UserNotFound
<1>3. ASSUME NEW r \in Requests, FindExisting(r) PROVE OneLiveOrderPerKey'
  BY <1>3 DEF FindExisting
<1>4. ASSUME NEW r \in Requests, FindNoExisting(r) PROVE OneLiveOrderPerKey'
  BY <1>4 DEF FindNoExisting
<1>5. ASSUME NEW r \in Requests, InsertOrder(r) PROVE OneLiveOrderPerKey'
  BY <1>5 DEF InsertOrder
<1>6. ASSUME NEW r \in Requests, Aborts(r) PROVE OneLiveOrderPerKey'
  <2>1. AbortWithServerError(r) /\ pc[r] \in InTransaction \union {"reread"}
    BY <1>6, AbortsFacts
  <2> QED
    BY <2>1 DEF AbortWithServerError, Release
<1>7. ASSUME NEW r \in Requests, InsertDuplicate(r) PROVE OneLiveOrderPerKey'
  BY <1>7 DEF InsertDuplicate
<1>8. ASSUME NEW r \in Requests, Reread(r) PROVE OneLiveOrderPerKey'
  BY <1>8 DEF Reread
<1>9. ASSUME NEW r \in Requests, LockLine(r) PROVE OneLiveOrderPerKey'
  BY <1>9 DEF LockLine
<1>10. ASSUME NEW r \in Requests, Refuse(r) PROVE OneLiveOrderPerKey'
  BY <1>10 DEF Refuse
<1>11. ASSUME NEW r \in Requests, Rollback(r) PROVE OneLiveOrderPerKey'
  BY <1>11 DEF Rollback, Release
<1>12. ASSUME NEW r \in Requests, Commits(r) PROVE OneLiveOrderPerKey'
  <2>1. ApplyAndCommit(r) /\ UNCHANGED <<body, line, read, published>>
    BY <1>12, CommitsFacts
  <2>2. CASE Answer(r, r) /\ GoTo(r, "publish")
    BY <2>1, <2>2 DEF ApplyAndCommit, Release
  <2>3. CASE Answer(r, "ServerError") /\ GoTo(r, "answered")
    BY <2>1, <2>3 DEF ApplyAndCommit, Release
  <2> QED
    BY <1>12, <2>2, <2>3, CommitsFacts
<1>13. ASSUME NEW r \in Requests, PublishAndAnswer(r)
  PROVE  OneLiveOrderPerKey'
  BY <1>13 DEF PublishAndAnswer
<1>14. ASSUME NEW r \in Requests, PublishThrows(r) PROVE OneLiveOrderPerKey'
  BY <1>14 DEF PublishThrows
<1>15. ASSUME Crash PROVE OneLiveOrderPerKey'
  BY <1>15 DEF Crash, Release
<1>16. ASSUME NEW r \in Requests, DeleteOrder(r) PROVE OneLiveOrderPerKey'
  BY <1>16 DEF DeleteOrder
<1>17. ASSUME UNCHANGED vars PROVE OneLiveOrderPerKey'
  BY <1>17 DEF vars
<1> QED
  BY <1>1, <1>2, <1>3, <1>4, <1>5, <1>6, <1>7, <1>8, <1>9, <1>10, <1>11, <1>12,
     <1>13, <1>14, <1>15, <1>16, <1>17, NextSteps

LEMMA PlacedStep ==
  TypeOK /\ PendingIsOpen /\ PlacedIsDecided /\ [Next]_vars
    => PlacedIsDecided'
<1> SUFFICES ASSUME TypeOK, PendingIsOpen, PlacedIsDecided,
                    [Next]_vars
             PROVE  PlacedIsDecided'
  OBVIOUS
<1> USE DEF TypeOK, GoTo, Answer, tables, held, PendingIsOpen, PlacedIsDecided
<1>1. ASSUME NEW r \in Requests, FindUser(r) PROVE PlacedIsDecided'
  BY <1>1 DEF FindUser
<1>2. ASSUME NEW r \in Requests, UserNotFound(r) PROVE PlacedIsDecided'
  BY <1>2 DEF UserNotFound
<1>3. ASSUME NEW r \in Requests, FindExisting(r) PROVE PlacedIsDecided'
  BY <1>3 DEF FindExisting
<1>4. ASSUME NEW r \in Requests, FindNoExisting(r) PROVE PlacedIsDecided'
  BY <1>4 DEF FindNoExisting
<1>5. ASSUME NEW r \in Requests, InsertOrder(r) PROVE PlacedIsDecided'
  BY <1>5 DEF InsertOrder
<1>6. ASSUME NEW r \in Requests, Aborts(r) PROVE PlacedIsDecided'
  <2>1. AbortWithServerError(r) /\ pc[r] \in InTransaction \union {"reread"}
    BY <1>6, AbortsFacts
  <2> QED
    BY <2>1 DEF AbortWithServerError, Release
<1>7. ASSUME NEW r \in Requests, InsertDuplicate(r) PROVE PlacedIsDecided'
  BY <1>7 DEF InsertDuplicate
<1>8. ASSUME NEW r \in Requests, Reread(r) PROVE PlacedIsDecided'
  BY <1>8 DEF Reread
<1>9. ASSUME NEW r \in Requests, LockLine(r) PROVE PlacedIsDecided'
  BY <1>9 DEF LockLine
<1>10. ASSUME NEW r \in Requests, Refuse(r) PROVE PlacedIsDecided'
  BY <1>10 DEF Refuse
<1>11. ASSUME NEW r \in Requests, Rollback(r) PROVE PlacedIsDecided'
  BY <1>11 DEF Rollback, Release
<1>12. ASSUME NEW r \in Requests, Commits(r) PROVE PlacedIsDecided'
  <2>1. ApplyAndCommit(r) /\ UNCHANGED <<body, line, read, published>>
    BY <1>12, CommitsFacts
  <2>2. CASE Answer(r, r) /\ GoTo(r, "publish")
    BY <2>1, <2>2 DEF ApplyAndCommit, Release
  <2>3. CASE Answer(r, "ServerError") /\ GoTo(r, "answered")
    BY <2>1, <2>3 DEF ApplyAndCommit, Release
  <2> QED
    BY <1>12, <2>2, <2>3, CommitsFacts
<1>13. ASSUME NEW r \in Requests, PublishAndAnswer(r) PROVE PlacedIsDecided'
  BY <1>13 DEF PublishAndAnswer
<1>14. ASSUME NEW r \in Requests, PublishThrows(r) PROVE PlacedIsDecided'
  BY <1>14 DEF PublishThrows
<1>15. ASSUME Crash PROVE PlacedIsDecided'
  BY <1>15 DEF Crash, Release
<1>16. ASSUME NEW r \in Requests, DeleteOrder(r) PROVE PlacedIsDecided'
  BY <1>16 DEF DeleteOrder
<1>17. ASSUME UNCHANGED vars PROVE PlacedIsDecided'
  BY <1>17 DEF vars
<1> QED
  BY <1>1, <1>2, <1>3, <1>4, <1>5, <1>6, <1>7, <1>8, <1>9, <1>10, <1>11, <1>12,
     <1>13, <1>14, <1>15, <1>16, <1>17, NextSteps

LEMMA AnswersStep ==
  TypeOK /\ PlacedIsDecided /\ AnswersArePlaced /\ [Next]_vars
    => AnswersArePlaced'
<1> SUFFICES ASSUME TypeOK, PlacedIsDecided, AnswersArePlaced,
                    [Next]_vars
             PROVE  AnswersArePlaced'
  OBVIOUS
<1> USE RequestsAssumption DEF TypeOK, GoTo, Answer, tables, held, PlacedIsDecided, AnswersArePlaced, Matches, SameKey
<1>1. ASSUME NEW r \in Requests, FindUser(r) PROVE AnswersArePlaced'
  BY <1>1 DEF FindUser
<1>2. ASSUME NEW r \in Requests, UserNotFound(r) PROVE AnswersArePlaced'
  BY <1>2 DEF UserNotFound
<1>3. ASSUME NEW r \in Requests, FindExisting(r) PROVE AnswersArePlaced'
  BY <1>3 DEF FindExisting
<1>4. ASSUME NEW r \in Requests, FindNoExisting(r) PROVE AnswersArePlaced'
  BY <1>4 DEF FindNoExisting
<1>5. ASSUME NEW r \in Requests, InsertOrder(r) PROVE AnswersArePlaced'
  BY <1>5 DEF InsertOrder
<1>6. ASSUME NEW r \in Requests, Aborts(r) PROVE AnswersArePlaced'
  <2>1. AbortWithServerError(r) /\ pc[r] \in InTransaction \union {"reread"}
    BY <1>6, AbortsFacts
  <2> QED
    BY <2>1 DEF AbortWithServerError, Release
<1>7. ASSUME NEW r \in Requests, InsertDuplicate(r) PROVE AnswersArePlaced'
  BY <1>7 DEF InsertDuplicate
<1>8. ASSUME NEW r \in Requests, Reread(r) PROVE AnswersArePlaced'
  BY <1>8 DEF Reread
<1>9. ASSUME NEW r \in Requests, LockLine(r) PROVE AnswersArePlaced'
  BY <1>9 DEF LockLine
<1>10. ASSUME NEW r \in Requests, Refuse(r) PROVE AnswersArePlaced'
  BY <1>10 DEF Refuse
<1>11. ASSUME NEW r \in Requests, Rollback(r) PROVE AnswersArePlaced'
  BY <1>11 DEF Rollback, Release
<1>12. ASSUME NEW r \in Requests, Commits(r) PROVE AnswersArePlaced'
  <2>1. ApplyAndCommit(r) /\ UNCHANGED <<body, line, read, published>>
    BY <1>12, CommitsFacts
  <2>2. CASE Answer(r, r) /\ GoTo(r, "publish")
    BY <2>1, <2>2 DEF ApplyAndCommit, Release
  <2>3. CASE Answer(r, "ServerError") /\ GoTo(r, "answered")
    BY <2>1, <2>3 DEF ApplyAndCommit, Release
  <2> QED
    BY <1>12, <2>2, <2>3, CommitsFacts
<1>13. ASSUME NEW r \in Requests, PublishAndAnswer(r) PROVE AnswersArePlaced'
  BY <1>13 DEF PublishAndAnswer
<1>14. ASSUME NEW r \in Requests, PublishThrows(r) PROVE AnswersArePlaced'
  BY <1>14 DEF PublishThrows
<1>15. ASSUME Crash PROVE AnswersArePlaced'
  BY <1>15 DEF Crash, Release
<1>16. ASSUME NEW r \in Requests, DeleteOrder(r) PROVE AnswersArePlaced'
  BY <1>16 DEF DeleteOrder
<1>17. ASSUME UNCHANGED vars PROVE AnswersArePlaced'
  BY <1>17 DEF vars
<1> QED
  BY <1>1, <1>2, <1>3, <1>4, <1>5, <1>6, <1>7, <1>8, <1>9, <1>10, <1>11, <1>12,
     <1>13, <1>14, <1>15, <1>16, <1>17, NextSteps

LEMMA PublishedStep ==
  TypeOK /\ AnswersArePlaced /\ AnsweredOrderIsPublished /\ [Next]_vars
    => AnsweredOrderIsPublished'
<1> SUFFICES ASSUME TypeOK, AnswersArePlaced, AnsweredOrderIsPublished,
                    [Next]_vars
             PROVE  AnsweredOrderIsPublished'
  OBVIOUS
<1> USE RequestsAssumption DEF TypeOK, GoTo, Answer, tables, held, AnswersArePlaced, AnsweredOrderIsPublished, Matches, SameKey
<1>1. ASSUME NEW r \in Requests, FindUser(r) PROVE AnsweredOrderIsPublished'
  BY <1>1 DEF FindUser
<1>2. ASSUME NEW r \in Requests, UserNotFound(r)
  PROVE  AnsweredOrderIsPublished'
  BY <1>2 DEF UserNotFound
<1>3. ASSUME NEW r \in Requests, FindExisting(r)
  PROVE  AnsweredOrderIsPublished'
  BY <1>3 DEF FindExisting
<1>4. ASSUME NEW r \in Requests, FindNoExisting(r)
  PROVE  AnsweredOrderIsPublished'
  BY <1>4 DEF FindNoExisting
<1>5. ASSUME NEW r \in Requests, InsertOrder(r)
  PROVE  AnsweredOrderIsPublished'
  BY <1>5 DEF InsertOrder
<1>6. ASSUME NEW r \in Requests, Aborts(r) PROVE AnsweredOrderIsPublished'
  <2>1. AbortWithServerError(r) /\ pc[r] \in InTransaction \union {"reread"}
    BY <1>6, AbortsFacts
  <2> QED
    BY <2>1 DEF AbortWithServerError, Release
<1>7. ASSUME NEW r \in Requests, InsertDuplicate(r)
  PROVE  AnsweredOrderIsPublished'
  BY <1>7 DEF InsertDuplicate
<1>8. ASSUME NEW r \in Requests, Reread(r) PROVE AnsweredOrderIsPublished'
  BY <1>8 DEF Reread
<1>9. ASSUME NEW r \in Requests, LockLine(r) PROVE AnsweredOrderIsPublished'
  BY <1>9 DEF LockLine
<1>10. ASSUME NEW r \in Requests, Refuse(r) PROVE AnsweredOrderIsPublished'
  BY <1>10 DEF Refuse
<1>11. ASSUME NEW r \in Requests, Rollback(r) PROVE AnsweredOrderIsPublished'
  BY <1>11 DEF Rollback, Release
<1>12. ASSUME NEW r \in Requests, Commits(r) PROVE AnsweredOrderIsPublished'
  <2>1. ApplyAndCommit(r) /\ UNCHANGED <<body, line, read, published>>
    BY <1>12, CommitsFacts
  <2>2. CASE Answer(r, r) /\ GoTo(r, "publish")
    BY <2>1, <2>2 DEF ApplyAndCommit, Release
  <2>3. CASE Answer(r, "ServerError") /\ GoTo(r, "answered")
    BY <2>1, <2>3 DEF ApplyAndCommit, Release
  <2> QED
    BY <1>12, <2>2, <2>3, CommitsFacts
<1>13. ASSUME NEW r \in Requests, PublishAndAnswer(r)
  PROVE  AnsweredOrderIsPublished'
  BY <1>13 DEF PublishAndAnswer
<1>14. ASSUME NEW r \in Requests, PublishThrows(r)
  PROVE  AnsweredOrderIsPublished'
  BY <1>14 DEF PublishThrows
<1>15. ASSUME Crash PROVE AnsweredOrderIsPublished'
  BY <1>15 DEF Crash, Release
<1>16. ASSUME NEW r \in Requests, DeleteOrder(r)
  PROVE  AnsweredOrderIsPublished'
  BY <1>16 DEF DeleteOrder
<1>17. ASSUME UNCHANGED vars PROVE AnsweredOrderIsPublished'
  BY <1>17 DEF vars
<1> QED
  BY <1>1, <1>2, <1>3, <1>4, <1>5, <1>6, <1>7, <1>8, <1>9, <1>10, <1>11, <1>12,
     <1>13, <1>14, <1>15, <1>16, <1>17, NextSteps

(* What a commit does to a product: it subtracts the last line's quantity  *)
(* from the committed stock, under the transaction's own lock.             *)
LEMMA CommitMoves ==
  ASSUME TypeOK, ReadsAreCurrent, NEW r \in Requests, ApplyAndCommit(r),
         NEW p \in Catalog
  PROVE  \/ /\ ~ \E i \in DOMAIN Lines(r) : ProductAt(r, i) = p
            /\ stock'[p] = stock[p]
         \/ /\ LastLineOf(r, p) \in DOMAIN Lines(r)
            /\ ProductAt(r, LastLineOf(r, p)) = p
            /\ lockedBy[p] = r
            /\ stock'[p] = stock[p] - Lines(r)[LastLineOf(r, p)].quantity
            /\ stock'[p] >= 0
<1>1. stock' = StockAfter(r) /\ pc[r] = "locking" /\ line[r] > Len(Lines(r))
  BY DEF ApplyAndCommit, AllLocked
<1>2. CASE ~ \E i \in DOMAIN Lines(r) : ProductAt(r, i) = p
  BY <1>1, <1>2 DEF StockAfter
<1>3. CASE \E i \in DOMAIN Lines(r) : ProductAt(r, i) = p
  <2> DEFINE k == LastLineOf(r, p)
  <2>1. k \in DOMAIN Lines(r) /\ ProductAt(r, k) = p
    BY <1>3, LastLineExists
  <2>2. lockedBy[p] = r /\ read[r][p] = stock[p]
    <3>1. k < line[r]
      BY <1>1, <2>1, LineFacts DEF TypeOK
    <3> QED
      BY <1>1, <2>1, <3>1 DEF ReadsAreCurrent
  <2>3. stock'[p] = read[r][p] - Lines(r)[k].quantity
    BY <1>1, <1>3 DEF StockAfter
  <2>4. ~ (read[r][p] - Lines(r)[k].quantity < 0)
    BY <2>1 DEF ApplyAndCommit, Bad, Short, Missing
  <2>5. read[r][p] \in Int /\ Lines(r)[k].quantity \in Int
    BY <2>1, LineFacts DEF TypeOK
  <2> QED
    BY <2>1, <2>2, <2>3, <2>4, <2>5
<1> QED
  BY <1>2, <1>3

LEMMA ReadsStep ==
  TypeOK /\ PendingIsOpen /\ LinesStartAtFirst /\ ReadsAreCurrent /\ [Next]_vars
    => ReadsAreCurrent'
<1> SUFFICES ASSUME TypeOK, PendingIsOpen, LinesStartAtFirst, ReadsAreCurrent,
                    [Next]_vars
             PROVE  ReadsAreCurrent'
  OBVIOUS
<1> USE LineFacts DEF TypeOK, GoTo, Answer, tables, held, PendingIsOpen, LinesStartAtFirst, ReadsAreCurrent, Lines, ProductAt
<1>1. ASSUME NEW r \in Requests, FindUser(r) PROVE ReadsAreCurrent'
  BY <1>1 DEF FindUser
<1>2. ASSUME NEW r \in Requests, UserNotFound(r) PROVE ReadsAreCurrent'
  BY <1>2 DEF UserNotFound
<1>3. ASSUME NEW r \in Requests, FindExisting(r) PROVE ReadsAreCurrent'
  BY <1>3 DEF FindExisting
<1>4. ASSUME NEW r \in Requests, FindNoExisting(r) PROVE ReadsAreCurrent'
  BY <1>4 DEF FindNoExisting
<1>5. ASSUME NEW r \in Requests, InsertOrder(r) PROVE ReadsAreCurrent'
  BY <1>5 DEF InsertOrder
<1>6. ASSUME NEW r \in Requests, Aborts(r) PROVE ReadsAreCurrent'
  <2>1. AbortWithServerError(r) /\ pc[r] \in InTransaction \union {"reread"}
    BY <1>6, AbortsFacts
  <2> QED
    BY <2>1 DEF AbortWithServerError, Release
<1>7. ASSUME NEW r \in Requests, InsertDuplicate(r) PROVE ReadsAreCurrent'
  BY <1>7 DEF InsertDuplicate
<1>8. ASSUME NEW r \in Requests, Reread(r) PROVE ReadsAreCurrent'
  BY <1>8 DEF Reread
<1>9. ASSUME NEW r \in Requests, LockLine(r) PROVE ReadsAreCurrent'
  <2> DEFINE mine == ProductAt(r, line[r])
  <2> SUFFICES ASSUME NEW q \in Requests, pc[q] = "locking",
                      NEW i \in DOMAIN Lines(q), i < line'[q],
                      ProductAt(q, i) \in Catalog
               PROVE  /\ lockedBy'[ProductAt(q, i)] = q
                      /\ read'[q][ProductAt(q, i)] = stock[ProductAt(q, i)]
    BY <1>9 DEF LockLine
  <2>1. i \in Nat /\ line[q] \in Nat /\ line[r] \in Nat
    BY LineFacts
  <2>2. \/ mine \in Catalog /\ lockedBy[mine] \in {NoOne, r}
           /\ lockedBy' = [lockedBy EXCEPT ![mine] = r]
           /\ read' = [read EXCEPT ![r][mine] = stock[mine]]
        \/ mine \notin Catalog /\ lockedBy' = lockedBy /\ read' = read
    BY <1>9 DEF LockLine
  <2>3. line' = [line EXCEPT ![r] = line[r] + 1]
    BY <1>9 DEF LockLine
  <2>4. CASE i < line[q]
    <3>1. /\ lockedBy[ProductAt(q, i)] = q
          /\ read[q][ProductAt(q, i)] = stock[ProductAt(q, i)]
      BY <2>4
    <3>2. CASE mine \in Catalog /\ ProductAt(q, i) = mine
      <4>1. q = r
        BY <2>2, <3>1, <3>2, RequestsAssumption
      <4> QED
        BY <2>2, <3>2, <4>1
    <3>3. CASE mine \in Catalog /\ ProductAt(q, i) # mine
      <4>1. lockedBy'[ProductAt(q, i)] = lockedBy[ProductAt(q, i)]
        BY <2>2, <3>3
      <4>2. read'[q][ProductAt(q, i)] = read[q][ProductAt(q, i)]
        <5>1. read' = [read EXCEPT ![r] = [read[r] EXCEPT ![mine] = stock[mine]]]
          BY <2>2, <3>3
        <5>2. CASE q = r
          BY <3>3, <5>1, <5>2
        <5>3. CASE q # r
          BY <5>1, <5>3
        <5> QED
          BY <5>2, <5>3
      <4> QED
        BY <3>1, <4>1, <4>2
    <3>4. CASE mine \notin Catalog
      BY <2>2, <3>1, <3>4
    <3> QED
      BY <3>2, <3>3, <3>4
  <2>5. CASE ~ (i < line[q])
    <3>1. q = r /\ i = line[r]
      BY <2>1, <2>3, <2>5
    <3> QED
      BY <2>2, <3>1
  <2> QED
    BY <2>4, <2>5
<1>10. ASSUME NEW r \in Requests, Refuse(r) PROVE ReadsAreCurrent'
  BY <1>10 DEF Refuse
<1>11. ASSUME NEW r \in Requests, Rollback(r) PROVE ReadsAreCurrent'
  BY <1>11 DEF Rollback, Release
<1>12. ASSUME NEW r \in Requests, Commits(r) PROVE ReadsAreCurrent'
  <2>1. ApplyAndCommit(r) /\ body' = body /\ line' = line /\ read' = read
    BY <1>12, CommitsFacts
  <2>2. \E phase \in {"publish", "answered"} : pc' = [pc EXCEPT ![r] = phase]
    BY <1>12, CommitsFacts
  <2> SUFFICES ASSUME NEW q \in Requests, q # r, pc[q] = "locking",
                      NEW i \in DOMAIN Lines(q), i < line[q],
                      ProductAt(q, i) \in Catalog
               PROVE  /\ lockedBy'[ProductAt(q, i)] = q
                      /\ read[q][ProductAt(q, i)] = stock'[ProductAt(q, i)]
    BY <2>1, <2>2
  <2>3. /\ lockedBy[ProductAt(q, i)] = q
        /\ read[q][ProductAt(q, i)] = stock[ProductAt(q, i)]
    OBVIOUS
  <2>4. lockedBy'[ProductAt(q, i)] = q
    BY <2>1, <2>3 DEF ApplyAndCommit, Release
  <2>5. stock'[ProductAt(q, i)] = stock[ProductAt(q, i)]
    BY <2>1, <2>3, CommitMoves
  <2> QED
    BY <2>3, <2>4, <2>5
<1>13. ASSUME NEW r \in Requests, PublishAndAnswer(r) PROVE ReadsAreCurrent'
  BY <1>13 DEF PublishAndAnswer
<1>14. ASSUME NEW r \in Requests, PublishThrows(r) PROVE ReadsAreCurrent'
  BY <1>14 DEF PublishThrows
<1>15. ASSUME Crash PROVE ReadsAreCurrent'
  BY <1>15 DEF Crash, Release
<1>16. ASSUME NEW r \in Requests, DeleteOrder(r) PROVE ReadsAreCurrent'
  BY <1>16 DEF DeleteOrder
<1>17. ASSUME UNCHANGED vars PROVE ReadsAreCurrent'
  BY <1>17 DEF vars
<1> QED
  BY <1>1, <1>2, <1>3, <1>4, <1>5, <1>6, <1>7, <1>8, <1>9, <1>10, <1>11, <1>12,
     <1>13, <1>14, <1>15, <1>16, <1>17, NextSteps

LEMMA StockStep ==
  TypeOK /\ ReadsAreCurrent /\ NonNegativeStock /\ [Next]_vars
    => NonNegativeStock'
<1> SUFFICES ASSUME TypeOK, ReadsAreCurrent, NonNegativeStock,
                    [Next]_vars
             PROVE  NonNegativeStock'
  OBVIOUS
<1> USE DEF TypeOK, GoTo, Answer, tables, held, NonNegativeStock
<1>1. ASSUME NEW r \in Requests, FindUser(r) PROVE NonNegativeStock'
  BY <1>1 DEF FindUser
<1>2. ASSUME NEW r \in Requests, UserNotFound(r) PROVE NonNegativeStock'
  BY <1>2 DEF UserNotFound
<1>3. ASSUME NEW r \in Requests, FindExisting(r) PROVE NonNegativeStock'
  BY <1>3 DEF FindExisting
<1>4. ASSUME NEW r \in Requests, FindNoExisting(r) PROVE NonNegativeStock'
  BY <1>4 DEF FindNoExisting
<1>5. ASSUME NEW r \in Requests, InsertOrder(r) PROVE NonNegativeStock'
  BY <1>5 DEF InsertOrder
<1>6. ASSUME NEW r \in Requests, Aborts(r) PROVE NonNegativeStock'
  <2>1. AbortWithServerError(r) /\ pc[r] \in InTransaction \union {"reread"}
    BY <1>6, AbortsFacts
  <2> QED
    BY <2>1 DEF AbortWithServerError, Release
<1>7. ASSUME NEW r \in Requests, InsertDuplicate(r) PROVE NonNegativeStock'
  BY <1>7 DEF InsertDuplicate
<1>8. ASSUME NEW r \in Requests, Reread(r) PROVE NonNegativeStock'
  BY <1>8 DEF Reread
<1>9. ASSUME NEW r \in Requests, LockLine(r) PROVE NonNegativeStock'
  BY <1>9 DEF LockLine
<1>10. ASSUME NEW r \in Requests, Refuse(r) PROVE NonNegativeStock'
  BY <1>10 DEF Refuse
<1>11. ASSUME NEW r \in Requests, Rollback(r) PROVE NonNegativeStock'
  BY <1>11 DEF Rollback, Release
<1>12. ASSUME NEW r \in Requests, Commits(r) PROVE NonNegativeStock'
  <2>1. ApplyAndCommit(r)
    BY <1>12, CommitsFacts
  <2> SUFFICES ASSUME NEW p \in Catalog PROVE stock'[p] >= 0
    OBVIOUS
  <2> QED
    BY <2>1, CommitMoves
<1>13. ASSUME NEW r \in Requests, PublishAndAnswer(r) PROVE NonNegativeStock'
  BY <1>13 DEF PublishAndAnswer
<1>14. ASSUME NEW r \in Requests, PublishThrows(r) PROVE NonNegativeStock'
  BY <1>14 DEF PublishThrows
<1>15. ASSUME Crash PROVE NonNegativeStock'
  BY <1>15 DEF Crash, Release
<1>16. ASSUME NEW r \in Requests, DeleteOrder(r) PROVE NonNegativeStock'
  BY <1>16 DEF DeleteOrder
<1>17. ASSUME UNCHANGED vars PROVE NonNegativeStock'
  BY <1>17 DEF vars
<1> QED
  BY <1>1, <1>2, <1>3, <1>4, <1>5, <1>6, <1>7, <1>8, <1>9, <1>10, <1>11, <1>12,
     <1>13, <1>14, <1>15, <1>16, <1>17, NextSteps

-----------------------------------------------------------------------------
(* The theorems. *)

LEMMA SafetyInit == Init => SafetyInv
<1> SUFFICES ASSUME Init PROVE SafetyInv
  OBVIOUS
<1>1. TypeOK
  BY TypeInit
<1>2. PendingIsOpen /\ LinesStartAtFirst /\ LocksHaveOpenTransaction
  BY DEF Init, PendingIsOpen, LinesStartAtFirst, LocksHaveOpenTransaction
<1>6. VerdictMatchesPhase /\ RowsAreInsertable
  BY DEF Init, VerdictMatchesPhase, RowsAreInsertable
<1>3. ReadsAreCurrent /\ OneLiveOrderPerKey
  BY DEF Init, ReadsAreCurrent, OneLiveOrderPerKey
<1>4. NonNegativeStock
  BY StockAssumption DEF Init, NonNegativeStock
<1>5. PlacedIsDecided /\ AnswersArePlaced /\ AnsweredOrderIsPublished
  BY RequestsAssumption DEF Init, PlacedIsDecided, AnswersArePlaced,
     AnsweredOrderIsPublished
<1> QED
  BY <1>1, <1>2, <1>3, <1>4, <1>5, <1>6 DEF SafetyInv

LEMMA SafetyStep == SafetyInv /\ [Next]_vars => SafetyInv'
  BY TypeStep, PendingStep, LinesStartStep, VerdictStep, RowsStep,
     LocksStep, ReadsStep, OneLiveStep,
     StockStep, PlacedStep, AnswersStep, PublishedStep DEF SafetyInv

(* SafetyInv holds in every reachable state of POST /orders: in particular *)
(* row locks protect what orders.repo.ts:158-216 read, no key has two live *)
(* orders, no product is sold below zero, and an order that was answered   *)
(* has been published.                                                     *)
THEOREM Safety == Spec => []SafetyInv
  BY SafetyInit, SafetyStep, PTL DEF Spec

(* A request refused with 404 or 400, or answered with nothing, never      *)
(* leaves an order behind (the rollback of orders.repo.ts:89).             *)
THEOREM Refusals == Spec => []RefusedLeavesNoTrace
<1>1. SafetyInv => RefusedLeavesNoTrace
  BY RequestsAssumption
  DEF SafetyInv, TypeOK, PlacedIsDecided, PendingIsOpen, RefusedLeavesNoTrace
<1> QED
  BY <1>1, Safety, PTL

(* The stock of a product moves only when an order with a line for it is   *)
(* placed, and by that line's quantity, counted from the committed value:  *)
(* no update is lost, whatever the interleaving (orders.repo.ts:181-217).  *)
THEOREM StockMoves == Spec => StockMovesWithOrders
<1>1. SafetyInv /\ [Next]_vars =>
        [\A p \in Catalog :
           stock'[p] # stock[p] =>
             \E r \in Requests :
               /\ r \notin placed /\ placed' = placed \union {r}
               /\ \E i \in DOMAIN Lines(r) :
                    /\ ProductAt(r, i) = p
                    /\ stock'[p] = stock[p] - Lines(r)[i].quantity]_vars
  <2> SUFFICES ASSUME SafetyInv, [Next]_vars, NEW p \in Catalog,
                      stock'[p] # stock[p]
               PROVE  \E r \in Requests :
                        /\ r \notin placed /\ placed' = placed \union {r}
                        /\ \E i \in DOMAIN Lines(r) :
                             /\ ProductAt(r, i) = p
                             /\ stock'[p] = stock[p] - Lines(r)[i].quantity
    OBVIOUS
  <2>1. PICK r \in Requests : Commits(r)
    BY NextSteps
    DEF FindUser, UserNotFound, FindExisting, FindNoExisting, InsertOrder,
        AbortWithServerError, InsertDuplicate, Reread, LockLine,
        Refuse, Rollback, PublishAndAnswer, PublishThrows, DeleteOrder, Crash,
        vars, tables, Aborts, InsertRefused, StatementFails, DeadlockVictim
  <2>2. ApplyAndCommit(r)
    BY <2>1, CommitsFacts
  <2>3. r \notin placed /\ placed' = placed \union {r}
    BY <2>2 DEF ApplyAndCommit, SafetyInv, PlacedIsDecided
  <2> QED
    BY <2>2, <2>3, CommitMoves DEF SafetyInv
<1> QED
  BY <1>1, Safety, PTL DEF Spec, StockMovesWithOrders

-----------------------------------------------------------------------------
(* Refinement. *)

LEMMA DemandIsTheLine ==
  ASSUME TypeOK, OneLinePerProduct, NEW r \in Requests, NEW p
  PROVE  /\ (~ \E i \in DOMAIN Lines(r) : ProductAt(r, i) = p)
              => Store!Demand(body[r], p) = 0
         /\ \A i \in DOMAIN Lines(r) :
              ProductAt(r, i) = p
                => Store!Demand(body[r], p) = Lines(r)[i].quantity
<1>1. \A i, j \in DOMAIN Lines(r) : ProductAt(r, i) = ProductAt(r, j) => i = j
  BY DEF TypeOK, OneLinePerProduct, Lines, ProductAt
<1>2. Store!LinesFor(body[r], p) = {i \in DOMAIN Lines(r) : ProductAt(r, i) = p}
  BY DEF Store!LinesFor, Lines, ProductAt
<1>3. ASSUME NEW i \in DOMAIN Lines(r), ProductAt(r, i) = p
      PROVE  Store!Demand(body[r], p) = Lines(r)[i].quantity
  <2>1. Store!LinesFor(body[r], p) = {i}
    BY <1>1, <1>2, <1>3
  <2> QED
    BY <2>1 DEF Store!Demand, Lines
<1> QED
  BY <1>2, <1>3 DEF Store!Demand

(* A commit is the abstract placing of the order. *)
LEMMA CommitPlaces ==
  ASSUME SafetyInv, OneLinePerProduct, NEW r \in Requests, Commits(r)
  PROVE  Store!Place(r)
<1>1. /\ ApplyAndCommit(r) /\ body' = body
      /\ \/ result' = [result EXCEPT ![r] = r]
         \/ result' = [result EXCEPT ![r] = "ServerError"]
  BY CommitsFacts DEF Answer
<1>2. TypeOK /\ ReadsAreCurrent /\ pc[r] = "locking" /\ r \in pending
  BY <1>1 DEF SafetyInv, ApplyAndCommit, PendingIsOpen
<1>3. body[r].user \in Users
  BY <1>2 DEF SafetyInv, RowsAreInsertable, UserFound, Insertable
<1>4. ~ Store!KeyTaken(r)
  <2> SUFFICES ASSUME NEW o \in live, body[o].key = body[r].key PROVE FALSE
    BY DEF Store!KeyTaken
  <2>1. o = r
    BY <1>2 DEF SafetyInv, OneLiveOrderPerKey, SameKey, TypeOK
  <2> QED
    BY <1>2, <2>1 DEF SafetyInv, PlacedIsDecided
<1>5. \A p \in Catalog : /\ stock'[p] = stock[p] - Store!Demand(body[r], p)
                         /\ Store!Demand(body[r], p) \in Int
                         /\ Store!Demand(body[r], p) =< stock[p]
  <2> SUFFICES ASSUME NEW p \in Catalog
               PROVE  /\ stock'[p] = stock[p] - Store!Demand(body[r], p)
                      /\ Store!Demand(body[r], p) \in Int
                      /\ Store!Demand(body[r], p) =< stock[p]
    OBVIOUS
  <2>1. stock[p] \in Int /\ stock[p] >= 0
    BY <1>2 DEF TypeOK, SafetyInv, NonNegativeStock
  <2>2. CASE ~ \E i \in DOMAIN Lines(r) : ProductAt(r, i) = p
    <3>1. Store!Demand(body[r], p) = 0
      BY <1>2, <2>2, DemandIsTheLine
    <3>2. stock'[p] = stock[p]
      BY <1>1, <1>2, <2>2, CommitMoves
    <3> QED
      BY <2>1, <3>1, <3>2
  <2>3. CASE \E i \in DOMAIN Lines(r) : ProductAt(r, i) = p
    <3> DEFINE k == LastLineOf(r, p)
    <3>1. /\ k \in DOMAIN Lines(r) /\ ProductAt(r, k) = p
          /\ stock'[p] = stock[p] - Lines(r)[k].quantity /\ stock'[p] >= 0
      BY <1>1, <1>2, <2>3, CommitMoves
    <3>2. Store!Demand(body[r], p) = Lines(r)[k].quantity
      BY <1>2, <3>1, DemandIsTheLine
    <3>3. Lines(r)[k].quantity \in Int
      BY <1>2, <3>1, LineFacts
    <3> QED
      BY <2>1, <3>1, <3>2, <3>3
  <2> QED
    BY <2>2, <2>3
<1>6. Store!Covered(r)
  <2>1. \A i \in DOMAIN body[r].lines : body[r].lines[i].product \in Catalog
    BY <1>1 DEF ApplyAndCommit, Bad, Missing, Lines, ProductAt
  <2> QED
    BY <1>5, <2>1 DEF Store!Covered
<1>7. stock' = [p \in Catalog |-> stock[p] - Store!Demand(body[r], p)]
  <2>1. stock' = [p \in Catalog |-> stock'[p]]
    BY <1>1 DEF ApplyAndCommit, StockAfter
  <2> QED
    BY <1>5, <2>1
<1>8. \E v \in {r, "ServerError"} : Store!Decide(r, v)
  BY <1>1, <1>2 DEF Store!Decide, Store!Undecided, SafetyInv,
     VerdictMatchesPhase
<1> QED
  BY <1>1, <1>3, <1>4, <1>6, <1>7, <1>8 DEF Store!Place, ApplyAndCommit

(* A refusal is abstractly justified at the moment it is decided. *)
LEMMA RefuseIsJustified ==
  ASSUME SafetyInv, OneLinePerProduct, NEW r \in Requests, Refuse(r)
  PROVE  Store!RefuseUnknown(r) \/ Store!RefuseStock(r)
<1>1. PICK i \in DOMAIN Lines(r) :
        /\ Missing(r, i) \/ Short(r, i)
        /\ Answer(r, IF Missing(r, i) THEN "NotFound" ELSE "OutOfStock")
  BY DEF Refuse, FirstBad, Bad
<1>2. /\ TypeOK /\ pc[r] = "locking" /\ result[r] = Undecided
      /\ UNCHANGED <<body, stock, live, placed>>
  BY DEF SafetyInv, Refuse, VerdictMatchesPhase, tables
<1>3. CASE Missing(r, i)
  <2>1. Store!Decide(r, "NotFound")
    BY <1>1, <1>2, <1>3 DEF Answer, Store!Decide, Store!Undecided
  <2> QED
    BY <1>2, <1>3, <2>1 DEF Store!RefuseUnknown, Missing, Lines, ProductAt
<1>4. CASE ~ Missing(r, i)
  <2> DEFINE p == ProductAt(r, i)
  <2>1. p \in Catalog /\ read[r][p] - Lines(r)[i].quantity < 0
    BY <1>1, <1>4 DEF Short, Missing
  <2>2. i < line[r]
    BY <1>2, LineFacts DEF Refuse, AllLocked, TypeOK
  <2>3. read[r][p] = stock[p]
    BY <1>2, <2>1, <2>2 DEF SafetyInv, ReadsAreCurrent
  <2>4. Store!Demand(body[r], p) = Lines(r)[i].quantity
    BY <1>2, DemandIsTheLine
  <2>5. Lines(r)[i].quantity \in Int /\ stock[p] \in Int
    BY <1>2, <2>1, LineFacts DEF TypeOK
  <2>6. Store!Demand(body[r], p) > stock[p]
    BY <2>1, <2>3, <2>4, <2>5
  <2>7. Store!Decide(r, "OutOfStock")
    BY <1>1, <1>2, <1>4 DEF Answer, Store!Decide, Store!Undecided
  <2> QED
    BY <1>2, <2>1, <2>6, <2>7 DEF Store!RefuseStock
<1> QED
  BY <1>3, <1>4

(* The steps of a request are steps of the store or change none of it. *)
LEMMA RefinementStep ==
  ASSUME OneLinePerProduct, SafetyInv, [Next]_vars
  PROVE  [Store!Next]_(Store!vars)
<1> USE DEF Store!vars, tables, held, GoTo
<1>1. ASSUME NEW r \in Requests,
             \/ FindUser(r) \/ FindNoExisting(r) \/ InsertOrder(r)
             \/ InsertDuplicate(r) \/ LockLine(r) \/ PublishAndAnswer(r)
      PROVE  UNCHANGED Store!vars
  BY <1>1 DEF FindUser, FindNoExisting, InsertOrder, InsertDuplicate, LockLine,
     PublishAndAnswer
<1>2. ASSUME NEW r \in Requests, Rollback(r) PROVE UNCHANGED Store!vars
  BY <1>2 DEF Rollback
<1>3. ASSUME Crash \/ UNCHANGED vars PROVE UNCHANGED Store!vars
  BY <1>3 DEF Crash, vars
<1>4. ASSUME NEW r \in Requests, UserNotFound(r) PROVE Store!RefuseUnknown(r)
  <2>1. body[r].user \notin Users /\ result[r] = Undecided
    BY <1>4 DEF UserNotFound, UserFound, SafetyInv, VerdictMatchesPhase
  <2> QED
    BY <1>4, <2>1
    DEF UserNotFound, Answer, Store!RefuseUnknown, Store!Decide, Store!Undecided
<1>5. ASSUME NEW r \in Requests, FindExisting(r) PROVE Store!ReturnExisting(r)
  <2>1. result[r] = Undecided
    BY <1>5 DEF FindExisting, SafetyInv, VerdictMatchesPhase
  <2> QED
    BY <1>5, <2>1 DEF FindExisting, Matches, SameKey, Answer,
       Store!ReturnExisting, Store!Decide, Store!Undecided
<1>6. ASSUME NEW r \in Requests, Reread(r)
      PROVE  Store!ReturnExisting(r) \/ Store!GiveUp(r)
  <2>1. result[r] = Undecided
    BY <1>6 DEF Reread, SafetyInv, VerdictMatchesPhase
  <2> QED
    BY <1>6, <2>1 DEF Reread, SameKey, Answer, Store!ReturnExisting,
       Store!GiveUp, Store!Decide, Store!Undecided
<1>7. ASSUME NEW r \in Requests, Aborts(r)
      PROVE  Store!GiveUp(r) \/ Store!LoseAnswer(r)
  <2>1. /\ AbortWithServerError(r)
        /\ result[r] \in {Undecided, "NotFound", "OutOfStock"}
    BY <1>7, AbortsFacts DEF SafetyInv, VerdictMatchesPhase
  <2> QED
    BY <2>1 DEF AbortWithServerError, Answer, Store!GiveUp, Store!LoseAnswer,
       Store!Decide, Store!Undecided
<1>8. ASSUME NEW r \in Requests, PublishThrows(r) PROVE Store!LoseAnswer(r)
  BY <1>8, RequestsAssumption
  DEF PublishThrows, Answer, Store!LoseAnswer, Store!Undecided
<1>9. ASSUME NEW r \in Requests, DeleteOrder(r) PROVE Store!Delete(r)
  BY <1>9 DEF DeleteOrder, Store!Delete
<1> QED
  BY <1>1, <1>2, <1>3, <1>4, <1>5, <1>6, <1>7, <1>8, <1>9, NextSteps,
     CommitPlaces, RefuseIsJustified DEF Store!Next

(* For bodies that name a product at most once, the transaction with its   *)
(* locks, waits, deadlocks, lost acknowledgements and crashes is a correct *)
(* implementation of deciding every request in one step                    *)
(* (orders.repo.ts:87-250, orders.service.ts:121-153).                     *)
THEOREM Refinement == OneLinePerProduct => (Spec => ImplementsOrderStore)
<1> SUFFICES ASSUME OneLinePerProduct PROVE Spec => ImplementsOrderStore
  OBVIOUS
<1>1. Init => Store!Init
  BY DEF Init, Store!Init, Store!Undecided
<1>2. SafetyInv /\ [Next]_vars => [Store!Next]_(Store!vars)
  BY RefinementStep
<1> QED
  BY <1>1, <1>2, Safety, PTL
  DEF Spec, ImplementsOrderStore, Store!Spec
-----------------------------------------------------------------------------
(* The pool of connections. *)

LEMMA Smaller ==
  ASSUME NEW S \in SUBSET Requests, NEW T \in SUBSET S
  PROVE  Cardinality(S) \in Nat /\ Cardinality(T) \in Nat
         /\ Cardinality(T) =< Cardinality(S)
<1>1. IsFiniteSet(S) /\ IsFiniteSet(T)
  BY PoolAssumption, FS_Subset
<1> QED
  BY <1>1, FS_Subset, FS_CardinalityType

LEMMA PoolInit == Init => PoolInv
<1> SUFFICES ASSUME Init PROVE PoolInv
  OBVIOUS
<1>1. Holders = {} /\ Doomed = {}
  BY DEF Init, Holders, Doomed
<1> QED
  BY <1>1, FS_EmptySet, PoolAssumption DEF PoolInv

(* Both sets shrink in every step, except that a transaction begins where  *)
(* a connection is free, and that a commit dooms whoever has its key: all  *)
(* of them hold a connection, but so did the transaction that committed.   *)
LEMMA PoolStep == TypeOK /\ PoolInv /\ [Next]_vars => PoolInv'
<1> SUFFICES ASSUME TypeOK, PoolInv, [Next]_vars PROVE PoolInv'
  OBVIOUS
<1> USE DEF GoTo
<1>1. Holders \in SUBSET Requests /\ Doomed \in SUBSET Holders
      /\ Holders' \in SUBSET Requests /\ Doomed' \in SUBSET Holders'
  BY DEF Holders, Doomed
<1>2. ASSUME Holders' \subseteq Holders, Doomed' \subseteq Doomed PROVE PoolInv'
  <2>1. Doomed \in SUBSET Requests
    BY <1>1
  <2> QED
    BY <1>1, <1>2, <2>1, Smaller, PoolAssumption DEF PoolInv
<1>3. ASSUME NEW r \in Requests, FindUser(r) \/ UserNotFound(r) PROVE PoolInv'
  <2>1. Holders' \subseteq Holders \union {r} /\ Doomed' \subseteq Doomed
    BY <1>3 DEF TypeOK, FindUser, UserNotFound, Holders, Doomed, tables, SameKey
  <2>2. Cardinality(Holders) < PoolSize
    BY <1>3 DEF FindUser, UserNotFound, ConnectionFree
  <2>3. IsFiniteSet(Holders)
    BY <1>1, PoolAssumption, FS_Subset
  <2>4. Cardinality(Holders) \in Nat
    BY <1>1, Smaller
  <2>5. Cardinality(Holders \union {r})
          = IF r \in Holders THEN Cardinality(Holders) ELSE Cardinality(Holders) + 1
    BY <2>3, FS_AddElement
  <2>6. Cardinality(Holders \union {r}) =< Cardinality(Holders) + 1
    BY <2>4, <2>5
  <2>7. Cardinality(Holders') =< Cardinality(Holders \union {r})
        /\ Cardinality(Holders') \in Nat /\ Cardinality(Holders \union {r}) \in Nat
    BY <1>1, <2>1, Smaller
  <2>8. Cardinality(Doomed') =< Cardinality(Doomed)
        /\ Cardinality(Doomed) \in Nat /\ Cardinality(Doomed') \in Nat
    BY <1>1, <2>1, Smaller
  <2> QED
    BY <2>2, <2>6, <2>7, <2>8, <2>4, PoolAssumption DEF PoolInv
<1>4. ASSUME NEW r \in Requests, Commits(r) PROVE PoolInv'
  <2>1. ApplyAndCommit(r) /\ UNCHANGED body
        /\ (pc' = [pc EXCEPT ![r] = "publish"] \/ pc' = [pc EXCEPT ![r] = "answered"])
    BY <1>4, CommitsFacts
  <2>2. r \in Holders
    BY <2>1 DEF ApplyAndCommit, Holders
  <2>3. Holders' \subseteq Holders /\ Doomed' \subseteq Holders \ {r}
    BY <2>1 DEF TypeOK, Holders, Doomed
  <2>4. IsFiniteSet(Holders)
    BY <1>1, PoolAssumption, FS_Subset
  <2>5. Cardinality(Holders \ {r}) = Cardinality(Holders) - 1
    BY <2>2, <2>4, FS_RemoveElement
  <2>6. Cardinality(Doomed') =< Cardinality(Holders \ {r})
        /\ Cardinality(Doomed') \in Nat
    BY <1>1, <2>3, Smaller
  <2>7. Cardinality(Holders') =< Cardinality(Holders)
        /\ Cardinality(Holders') \in Nat /\ Cardinality(Holders) \in Nat
    BY <1>1, <2>3, Smaller
  <2> QED
    BY <2>5, <2>6, <2>7, PoolAssumption DEF PoolInv
<1>5. ASSUME NEW r \in Requests, FindNoExisting(r) PROVE PoolInv'
  BY <1>2, <1>5 DEF TypeOK, FindNoExisting, Holders, Doomed, Matches, SameKey, tables
<1>6. ASSUME NEW r \in Requests, InsertDuplicate(r) PROVE PoolInv'
  BY <1>2, <1>6 DEF TypeOK, InsertDuplicate, Holders, Doomed, SameKey, tables
<1>7. ASSUME NEW r \in Requests, Aborts(r) PROVE PoolInv'
  <2>1. AbortWithServerError(r)
    BY <1>7, AbortsFacts
  <2> QED
    BY <1>2, <2>1 DEF TypeOK, AbortWithServerError, Holders, Doomed, SameKey, tables
<1>8. ASSUME NEW r \in Requests,
             \/ FindExisting(r) \/ InsertOrder(r) \/ Reread(r)
             \/ Refuse(r) \/ Rollback(r)
      PROVE  PoolInv'
  BY <1>2, <1>8 DEF TypeOK, FindExisting, InsertOrder, Reread, Refuse, Rollback,
     Holders, Doomed, SameKey, tables
<1>9. ASSUME NEW r \in Requests,
             LockLine(r) \/ PublishAndAnswer(r) \/ PublishThrows(r) \/ DeleteOrder(r)
      PROVE  PoolInv'
  BY <1>2, <1>9 DEF TypeOK, LockLine, PublishAndAnswer, PublishThrows, DeleteOrder,
     Holders, Doomed, SameKey, tables
<1>10. ASSUME Crash PROVE PoolInv'
  BY <1>2, <1>10 DEF TypeOK, Crash, Holders, Doomed, SameKey, tables
<1>11. ASSUME UNCHANGED vars PROVE PoolInv'
  BY <1>2, <1>11 DEF vars, Holders, Doomed, SameKey
<1> QED
  BY <1>3, <1>4, <1>5, <1>6, <1>7, <1>8, <1>9, <1>10, <1>11, NextSteps

(* Readers of duplicates never hold the whole pool, however many requests  *)
(* and connections there are: the second connection they wait for is not   *)
(* waited for in vain (orders.repo.ts:150-152).                            *)
THEOREM Pool == Spec => []PoolNeverStarves
<1>1. PoolInv => PoolNeverStarves
  <2>1. {r \in Requests : pc[r] = "reread"} \in SUBSET Doomed
        /\ Doomed \in SUBSET Requests
    BY DEF Doomed
  <2> QED
    BY <2>1, Smaller, PoolAssumption DEF PoolInv, PoolNeverStarves
<1>2. SafetyInv => TypeOK
  BY DEF SafetyInv
<1> QED
  BY <1>1, <1>2, PoolInit, PoolStep, Safety, PTL DEF Spec

(* No two orders with one key are in the table, committed or not           *)
(* (orders.repo.ts:115-153).                                               *)
THEOREM OneLive == Spec => []OneLiveOrderPerKey
<1>1. SafetyInv => OneLiveOrderPerKey
  BY DEF SafetyInv
<1> QED
  BY <1>1, Safety, PTL

(* Every row lock belongs to an open transaction (orders.repo.ts:89).      *)
THEOREM LocksEnd == Spec => []LocksHaveOpenTransaction
<1>1. SafetyInv => LocksHaveOpenTransaction
  BY DEF SafetyInv
<1> QED
  BY <1>1, Safety, PTL

(* What was read under the lock is still committed when it is used         *)
(* (orders.repo.ts:158-216).                                               *)
THEOREM CurrentReads == Spec => []ReadsAreCurrent
<1>1. SafetyInv => ReadsAreCurrent
  BY DEF SafetyInv
<1> QED
  BY <1>1, Safety, PTL

(* Whoever is answered with an order got a committed, published one        *)
(* (orders.service.ts:121-153).                                            *)
THEOREM AnswersPublished == Spec => []AnsweredOrderIsPublished
<1>1. SafetyInv => AnsweredOrderIsPublished
  BY DEF SafetyInv
<1> QED
  BY <1>1, Safety, PTL

(* The stock never falls below zero (orders.repo.ts:185).                  *)
THEOREM StockNeverNegative == Spec => []NonNegativeStock
<1>1. SafetyInv => NonNegativeStock
  BY DEF SafetyInv
<1> QED
  BY <1>1, Safety, PTL
-----------------------------------------------------------------------------
(* Sums over finite sets: SumFunctionOnSet is the value of a function that *)
(* is defined by recursion over the subsets of a set.                      *)

(* Induction over the naturals, as a fact about a set of numbers. *)
LEMMA SetInduction ==
  ASSUME NEW N \in SUBSET Nat, 0 \in N, \A n \in N : n + 1 \in N
  PROVE  N = Nat
<1> SUFFICES ASSUME Nat \ N # {} PROVE FALSE
  OBVIOUS
<1>1. PICK k \in Nat \ N : \A m \in Nat \ N : k =< m
  BY LeastNumber
<1>2. k # 0 /\ k - 1 \in Nat /\ ~ (k =< k - 1)
  BY <1>1
<1>3. k - 1 \in N
  BY <1>1, <1>2
<1> QED
  BY <1>1, <1>2, <1>3

Any(s) == CHOOSE x \in s : TRUE
(* The function that SumFunctionOnSet(F, S) applies to S. *)
Adds(g, F, S) ==
  g = [s \in SUBSET S |-> IF s = {} THEN 0 ELSE F[Any(s)] + g[s \ {Any(s)}]]

LEMMA SumIsAdds ==
  ASSUME NEW F, NEW S
  PROVE  SumFunctionOnSet(F, S) = (CHOOSE g : Adds(g, F, S))[S]
  BY DEF SumFunctionOnSet, FoldFunctionOnSet, MapThenFoldSet, Adds, Any

LEMMA AnyIn == ASSUME NEW s, s # {} PROVE Any(s) \in s
  BY DEF Any

LEMMA Without ==
  ASSUME NEW S, IsFiniteSet(S), NEW s \in SUBSET S, s # {}
  PROVE  /\ IsFiniteSet(s) /\ Any(s) \in s /\ s \ {Any(s)} \in SUBSET S
         /\ Cardinality(s) \in Nat \ {0}
         /\ Cardinality(s \ {Any(s)}) = Cardinality(s) - 1
<1>1. IsFiniteSet(s) /\ Any(s) \in s
  BY FS_Subset, AnyIn
<1>2. Cardinality(s) \in Nat /\ Cardinality(s) # 0
  BY <1>1, FS_CardinalityType, FS_EmptySet
<1> QED
  BY <1>1, <1>2, FS_RemoveElement

LEMMA AddsExists ==
  ASSUME NEW F, NEW S, IsFiniteSet(S)
  PROVE  \E g : Adds(g, F, S)
<1> DEFINE D(n) == {s \in SUBSET S : Cardinality(s) =< n}
           B(g, s) == IF s = {} THEN 0 ELSE F[Any(s)] + g[s \ {Any(s)}]
           Upto(n) == \E g : g = [s \in D(n) |-> B(g, s)]
           N == {n \in Nat : Upto(n)}
<1>1. 0 \in N
  <2> DEFINE g == [s \in D(0) |-> 0]
  <2>1. \A s \in D(0) : s = {}
    <3> SUFFICES ASSUME NEW s \in D(0), s # {} PROVE FALSE
      OBVIOUS
    <3>1. s \in SUBSET S /\ Cardinality(s) =< 0
      OBVIOUS
    <3>2. Cardinality(s) \in Nat \ {0}
      BY <3>1, Without
    <3> QED
      BY <3>1, <3>2
  <2>2. g = [s \in D(0) |-> B(g, s)]
    BY <2>1
  <2> QED
    BY <2>2
<1>2. ASSUME NEW n \in N PROVE n + 1 \in N
  <2>1. PICK g : g = [s \in D(n) |-> B(g, s)]
    OBVIOUS
  <2> DEFINE h == [s \in D(n + 1) |-> B(g, s)]
  <2>2. \A s \in D(n + 1) : B(h, s) = B(g, s)
    <3> SUFFICES ASSUME NEW s \in D(n + 1), s # {}
                 PROVE  h[s \ {Any(s)}] = g[s \ {Any(s)}]
      <4> HIDE DEF h
      <4> QED
        OBVIOUS
    <3>1. s \ {Any(s)} \in D(n) /\ s \ {Any(s)} \in D(n + 1)
      <4>1. /\ Cardinality(s) \in Nat \ {0} /\ s \ {Any(s)} \in SUBSET S
            /\ Cardinality(s \ {Any(s)}) = Cardinality(s) - 1
        BY Without
      <4>2. Cardinality(s) =< n + 1 /\ n \in Nat
        OBVIOUS
      <4> QED
        BY <4>1, <4>2
    <3> HIDE DEF D
    <3>2. h[s \ {Any(s)}] = B(g, s \ {Any(s)})
      BY <3>1
    <3>3. g[s \ {Any(s)}] = B(g, s \ {Any(s)})
      <4> HIDE DEF B
      <4> QED
        BY <2>1, <3>1
    <3> QED
      BY <3>2, <3>3
  <2>3. h = [s \in D(n + 1) |-> B(h, s)]
    <3> HIDE DEF D, B
    <3> QED
      BY <2>2
  <2>4. \E f : f = [s \in D(n + 1) |-> B(f, s)]
    <3> HIDE DEF h
    <3> QED
      BY <2>3
  <2>5. Upto(n + 1)
    BY <2>4
  <2> HIDE DEF Upto
  <2> QED
    BY <2>5
<1>3. N = Nat
  <2> HIDE DEF N
  <2>1. N \in SUBSET Nat
    BY DEF N
  <2> QED
    BY <1>1, <1>2, <2>1, SetInduction
<1>4. Cardinality(S) \in Nat
  BY FS_CardinalityType
<1>5. PICK g : g = [s \in D(Cardinality(S)) |-> B(g, s)]
  BY <1>3, <1>4
<1>6. D(Cardinality(S)) = SUBSET S
  BY FS_Subset
<1> QED
  BY <1>5, <1>6 DEF Adds

(* Two such functions agree where both are defined. *)
LEMMA AddsAgree ==
  ASSUME NEW F, NEW S, IsFiniteSet(S), NEW T \in SUBSET S,
         NEW g, Adds(g, F, S), NEW h, Adds(h, F, T)
  PROVE  g[T] = h[T]
<1> DEFINE N == {n \in Nat : \A s \in SUBSET T : Cardinality(s) =< n => g[s] = h[s]}
<1>1. \A s \in SUBSET T : s \in SUBSET S /\ (s = {} => g[s] = 0 /\ h[s] = 0)
  BY DEF Adds
<1>2. \A s \in SUBSET T : s # {} =>
        /\ g[s] = F[Any(s)] + g[s \ {Any(s)}]
        /\ h[s] = F[Any(s)] + h[s \ {Any(s)}]
  BY DEF Adds
<1>3. \A s \in SUBSET T : s # {} =>
        /\ s \ {Any(s)} \in SUBSET T
        /\ Cardinality(s) \in Nat \ {0}
        /\ Cardinality(s \ {Any(s)}) = Cardinality(s) - 1
  BY <1>1, Without
<1>4. 0 \in N
  <2> SUFFICES ASSUME NEW s \in SUBSET T, Cardinality(s) =< 0 PROVE g[s] = h[s]
    OBVIOUS
  <2>1. s = {}
    <3>1. s # {} => Cardinality(s) \in Nat \ {0}
      BY <1>3
    <3> QED
      BY <3>1
  <2> QED
    BY <1>1, <2>1
<1>5. ASSUME NEW n \in N PROVE n + 1 \in N
  <2> SUFFICES ASSUME NEW s \in SUBSET T, Cardinality(s) =< n + 1, s # {}
               PROVE  g[s] = h[s]
    BY <1>1
  <2>1. s \ {Any(s)} \in SUBSET T /\ Cardinality(s \ {Any(s)}) =< n
    BY <1>3
  <2>2. g[s \ {Any(s)}] = h[s \ {Any(s)}]
    BY <2>1
  <2> QED
    BY <1>2, <2>2
<1>6. N = Nat
  <2> HIDE DEF N
  <2>1. N \in SUBSET Nat
    BY DEF N
  <2> QED
    BY <1>4, <1>5, <2>1, SetInduction
<1>7. Cardinality(T) \in Nat
  BY FS_Subset, FS_CardinalityType
<1>8. \A s \in SUBSET T : Cardinality(s) =< Cardinality(T) => g[s] = h[s]
  BY <1>6, <1>7
<1> QED
  BY <1>7, <1>8

LEMMA SumUnfolds ==
  ASSUME NEW F, NEW S, IsFiniteSet(S)
  PROVE  SumFunctionOnSet(F, S)
           = IF S = {} THEN 0
             ELSE F[Any(S)] + SumFunctionOnSet(F, S \ {Any(S)})
<1> DEFINE g == CHOOSE g : Adds(g, F, S)
           T == S \ {Any(S)}
           h == CHOOSE h : Adds(h, F, T)
<1>1. Adds(g, F, S) /\ SumFunctionOnSet(F, S) = g[S]
  BY AddsExists, SumIsAdds
<1>2. g[S] = IF S = {} THEN 0 ELSE F[Any(S)] + g[T]
  <2> HIDE DEF g
  <2> QED
    BY <1>1 DEF Adds
<1>3. Adds(h, F, T) /\ SumFunctionOnSet(F, T) = h[T]
  <2>1. IsFiniteSet(T)
    BY FS_Subset
  <2> QED
    BY <2>1, AddsExists, SumIsAdds
<1>4. g[T] = h[T]
  <2> HIDE DEF g, h
  <2> QED
    BY <1>1, <1>3, AddsAgree
<1> QED
  BY <1>1, <1>2, <1>3, <1>4

LEMMA SumOfNone == ASSUME NEW F PROVE SumFunctionOnSet(F, {}) = 0
  BY SumUnfolds, FS_EmptySet

LEMMA SumOfOne ==
  ASSUME NEW F, NEW x, F[x] \in Int
  PROVE  SumFunctionOnSet(F, {x}) = F[x]
<1>1. IsFiniteSet({x}) /\ Any({x}) = x /\ {x} \ {x} = {}
  BY FS_Singleton, AnyIn
<1>2. SumFunctionOnSet(F, {x}) = F[x] + SumFunctionOnSet(F, {})
  BY <1>1, SumUnfolds
<1> QED
  BY <1>2, SumOfNone

(* The order in which the terms are taken does not matter. *)
LEMMA SumIsTotal ==
  ASSUME NEW F, NEW U, IsFiniteSet(U), \A x \in U : F[x] \in Int
  PROVE  \A S \in SUBSET U :
           /\ SumFunctionOnSet(F, S) \in Int
           /\ \A x \in S :
                SumFunctionOnSet(F, S) = F[x] + SumFunctionOnSet(F, S \ {x})
<1> DEFINE Sum(S) == SumFunctionOnSet(F, S)
           Total(S) == Sum(S) \in Int /\ \A x \in S : Sum(S) = F[x] + Sum(S \ {x})
           N == {n \in Nat : \A S \in SUBSET U : Cardinality(S) =< n => Total(S)}
<1>1. Sum({}) = 0
  BY SumOfNone
<1>2. \A S \in SUBSET U : S # {} =>
        /\ Any(S) \in S
        /\ Sum(S) = F[Any(S)] + Sum(S \ {Any(S)})
        /\ Cardinality(S) \in Nat \ {0}
  BY Without, SumUnfolds
<1>3. \A S \in SUBSET U : \A x \in S :
        S \ {x} \in SUBSET U /\ Cardinality(S \ {x}) = Cardinality(S) - 1
  BY FS_Subset, FS_RemoveElement
<1> HIDE DEF Sum
<1>4. 0 \in N
  <2> SUFFICES ASSUME NEW S \in SUBSET U, Cardinality(S) =< 0 PROVE Total(S)
    OBVIOUS
  <2>1. S = {}
    <3>1. S # {} => Cardinality(S) \in Nat \ {0}
      BY <1>2
    <3> QED
      BY <3>1
  <2> QED
    BY <1>1, <2>1
<1>5. ASSUME NEW n \in N PROVE n + 1 \in N
  <2> SUFFICES ASSUME NEW S \in SUBSET U, Cardinality(S) =< n + 1 PROVE Total(S)
    OBVIOUS
  <2>1. CASE S = {}
    BY <1>1, <2>1
  <2>2. CASE S # {}
    <3> DEFINE y == Any(S)
    <3>1. y \in S /\ Sum(S) = F[y] + Sum(S \ {y}) /\ Cardinality(S) \in Nat
      BY <1>2, <2>2
    <3> HIDE DEF y
    <3>2. \A x \in S : Total(S \ {x}) /\ F[x] \in Int
      <4> SUFFICES ASSUME NEW x \in S PROVE Total(S \ {x})
        OBVIOUS
      <4>1. S \ {x} \in SUBSET U /\ Cardinality(S \ {x}) =< n
        BY <1>3, <3>1
      <4> HIDE DEF Total
      <4> QED
        BY <4>1
    <3>3. Sum(S) \in Int
      BY <3>1, <3>2
    <3>4. ASSUME NEW x \in S, x # y PROVE Sum(S) = F[x] + Sum(S \ {x})
      <4>1. (S \ {x}) \ {y} = (S \ {y}) \ {x}
        OBVIOUS
      <4>2. Sum(S \ {y}) = F[x] + Sum((S \ {y}) \ {x})
        BY <3>1, <3>2, <3>4
      <4>3. Sum(S \ {x}) = F[y] + Sum((S \ {x}) \ {y})
        BY <3>1, <3>2, <3>4
      <4>4. Sum((S \ {x}) \ {y}) \in Int
        <5>1. Cardinality((S \ {x}) \ {y}) =< n /\ (S \ {x}) \ {y} \in SUBSET U
          <6>1. y \in S \ {x} /\ S \ {x} \in SUBSET U
            BY <3>1, <3>4
          <6>2. Cardinality(S \ {x}) = Cardinality(S) - 1
            BY <1>3
          <6>3. Cardinality((S \ {x}) \ {y}) = Cardinality(S) - 1 - 1
            BY <1>3, <6>1, <6>2
          <6> QED
            BY <3>1, <6>1, <6>3
        <5> QED
          BY <5>1
      <4>5. F[x] \in Int /\ F[y] \in Int
        BY <3>1, <3>2
      <4> QED
        BY <3>1, <4>1, <4>2, <4>3, <4>4, <4>5
    <3> QED
      BY <3>1, <3>3, <3>4
  <2> QED
    BY <2>1, <2>2
<1>6. N = Nat
  <2> HIDE DEF N
  <2>1. N \in SUBSET Nat
    BY DEF N
  <2> QED
    BY <1>4, <1>5, <2>1, SetInduction
<1>7. ASSUME NEW S \in SUBSET U PROVE Total(S)
  <2>1. Cardinality(S) \in Nat
    BY FS_Subset, FS_CardinalityType
  <2> HIDE DEF Total
  <2>2. Cardinality(S) \in N
    BY <1>6, <2>1
  <2> QED
    BY <2>1, <2>2
<1> QED
  BY <1>7 DEF Sum

-----------------------------------------------------------------------------
(* What the orders took out of the stock. *)

(* The quantity of the line a commit writes for a product, its last one.   *)
Taken(o, p) ==
  IF \E i \in DOMAIN Lines(o) : ProductAt(o, i) = p
  THEN Lines(o)[LastLineOf(o, p)].quantity
  ELSE 0
AllTaken(p) == SumFunctionOnSet([o \in Requests |-> Taken(o, p)], placed)
StockIsCounted == \A p \in Catalog : stock[p] + AllTaken(p) = InitialStock[p]

LEMMA TakenType ==
  ASSUME TypeOK, NEW o \in Requests, NEW p PROVE Taken(o, p) \in Int
  BY LastLineExists, LineFacts DEF Taken

LEMMA AllTakenType == ASSUME TypeOK, NEW p PROVE AllTaken(p) \in Int
<1> DEFINE F == [o \in Requests |-> Taken(o, p)]
<1>1. \A o \in Requests : F[o] \in Int
  BY TakenType
<1>2. placed \in SUBSET Requests
  BY DEF TypeOK
<1> HIDE DEF F
<1>3. SumFunctionOnSet(F, placed) \in Int
  BY <1>1, <1>2, PoolAssumption, SumIsTotal
<1> QED
  BY <1>3 DEF AllTaken, F

(* A commit takes its last lines, once, and any other step nothing.        *)
LEMMA CountedStep == SafetyInv /\ StockIsCounted /\ [Next]_vars => StockIsCounted'
<1> SUFFICES ASSUME SafetyInv, StockIsCounted, [Next]_vars,
                    NEW p \in Catalog
             PROVE  stock'[p] + AllTaken(p)' = InitialStock[p]
  BY DEF StockIsCounted
<1>1. TypeOK /\ TypeOK' /\ ReadsAreCurrent
  BY SafetyStep DEF SafetyInv
<1>2. body' = body
  BY NextSteps, AbortsFacts, CommitsFacts
  DEF FindUser, UserNotFound, FindExisting, FindNoExisting, InsertOrder,
      AbortWithServerError, InsertDuplicate, Reread, LockLine,
      Refuse, Rollback, PublishAndAnswer, PublishThrows, DeleteOrder, Crash, vars
<1> DEFINE F == [o \in Requests |-> Taken(o, p)]
<1>3. F' = F
  BY <1>2 DEF Taken, LastLineOf, Lines, ProductAt
<1>4. CASE stock' = stock /\ placed' = placed
  BY <1>3, <1>4 DEF AllTaken, StockIsCounted
<1>5. ASSUME NEW r \in Requests, Commits(r)
      PROVE  stock'[p] + AllTaken(p)' = InitialStock[p]
  <2>1. ApplyAndCommit(r)
    BY <1>5, CommitsFacts
  <2>2. r \notin placed /\ placed' = placed \union {r}
    BY <2>1 DEF ApplyAndCommit, SafetyInv, PlacedIsDecided
  <2>3. stock'[p] = stock[p] - Taken(r, p)
    BY <1>1, <2>1, CommitMoves DEF Taken, TypeOK
  <2>4. /\ F[r] = Taken(r, p) /\ \A o \in Requests : F[o] \in Int
        /\ placed' \in SUBSET Requests /\ placed' \ {r} = placed /\ r \in placed'
    BY <1>1, <2>2, TakenType DEF TypeOK
  <2>5. SumFunctionOnSet(F, placed') = F[r] + SumFunctionOnSet(F, placed)
    <3> HIDE DEF F
    <3> QED
      BY <2>4, PoolAssumption, SumIsTotal
  <2>6. AllTaken(p)' = Taken(r, p) + AllTaken(p)
    BY <1>3, <2>4, <2>5 DEF AllTaken
  <2>7. AllTaken(p) \in Int /\ Taken(r, p) \in Int /\ stock[p] \in Int
    BY <1>1, AllTakenType, TakenType DEF TypeOK
  <2>8. stock[p] + AllTaken(p) = InitialStock[p]
    BY DEF StockIsCounted
  <2> QED
    BY <2>3, <2>6, <2>7, <2>8
<1> QED
  BY <1>4, <1>5, NextSteps, AbortsFacts
  DEF FindUser, UserNotFound, FindExisting, FindNoExisting, InsertOrder,
      AbortWithServerError, InsertDuplicate, Reread, LockLine, tables,
      Refuse, Rollback, PublishAndAnswer, PublishThrows, DeleteOrder, Crash, vars

(* Whatever bodies clients send, the stock that is gone is exactly what    *)
(* the last line of each product took, once for each order ever placed:    *)
(* of repeated lines the earlier ones are lost (orders.repo.ts:181-217).   *)
THEOREM Counted == Spec => []StockIsCounted
<1>1. Init => StockIsCounted
  <2> SUFFICES ASSUME Init, NEW p \in Catalog
               PROVE  stock[p] + AllTaken(p) = InitialStock[p]
    BY DEF StockIsCounted
  <2>1. AllTaken(p) = 0
    BY SumOfNone DEF AllTaken, Init
  <2> QED
    BY <2>1, StockAssumption DEF Init
<1> QED
  BY <1>1, CountedStep, Safety, PTL DEF Spec

(* Without repeated lines, what is taken is all that is ordered.           *)
LEMMA TakenIsDemand ==
  ASSUME OneLinePerProduct, TypeOK, NEW p PROVE AllTaken(p) = Sold(p)
<1> SUFFICES ASSUME NEW o \in Requests PROVE Taken(o, p) = Demand(o, p)
  BY DEF AllTaken, Sold
<1>1. \A i, j \in DOMAIN Lines(o) : ProductAt(o, i) = ProductAt(o, j) => i = j
  BY DEF TypeOK, OneLinePerProduct, Lines, ProductAt
<1> DEFINE Own == {i \in DOMAIN Lines(o) : ProductAt(o, i) = p}
<1>2. CASE Own = {}
  BY <1>2, SumOfNone DEF Taken, Demand
<1>3. CASE Own # {}
  <2> DEFINE k == LastLineOf(o, p)
  <2>1. k \in DOMAIN Lines(o) /\ ProductAt(o, k) = p
    BY <1>3, LastLineExists
  <2> HIDE DEF k
  <2>2. Own = {k}
    BY <1>1, <2>1
  <2>3. Quantities(o)[k] = Lines(o)[k].quantity /\ Quantities(o)[k] \in Int
    BY <2>1, LineFacts DEF Quantities
  <2>4. Demand(o, p) = Lines(o)[k].quantity
    BY <2>2, <2>3, SumOfOne DEF Demand
  <2> QED
    BY <1>3, <2>4 DEF Taken, k
<1> QED
  BY <1>2, <1>3

(* While bodies name each product once, stock and orders together are what *)
(* there was at the start: nothing is lost or sold twice between           *)
(* concurrent transactions (orders.repo.ts:181).                           *)
THEOREM ExactStock == OneLinePerProduct => (Spec => []StockIsExact)
<1> SUFFICES ASSUME OneLinePerProduct PROVE Spec => []StockIsExact
  OBVIOUS
<1>1. SafetyInv /\ StockIsCounted => StockIsExact
  BY TakenIsDemand DEF SafetyInv, StockIsCounted, StockIsExact
<1> QED
  BY <1>1, Safety, Counted, PTL

(* And no more is sold than there was, which the 400 of                    *)
(* orders.repo.ts:185-212 is for and repeated lines defeat.                *)
THEOREM SoldIsThere == OneLinePerProduct => (Spec => []NeverOversold)
<1> SUFFICES ASSUME OneLinePerProduct PROVE Spec => []NeverOversold
  OBVIOUS
<1>1. SafetyInv /\ StockIsExact => NeverOversold
  <2> SUFFICES ASSUME SafetyInv, StockIsExact, NEW p \in Catalog
               PROVE  Sold(p) =< InitialStock[p]
    BY DEF NeverOversold
  <2>1. Sold(p) \in Int /\ stock[p] \in Int /\ stock[p] >= 0
    BY TakenIsDemand, AllTakenType DEF SafetyInv, TypeOK, NonNegativeStock
  <2> QED
    BY <2>1 DEF StockIsExact
<1> QED
  BY <1>1, Safety, ExactStock, PTL
-----------------------------------------------------------------------------
(* Deadlocks. *)

(* Where everybody in a finite set waits for another member, some members  *)
(* also are waited for by each other.                                      *)
LEMMA CycleExists ==
  ASSUME NEW W, IsFiniteSet(W), W # {}, NEW E,
         \A q \in W : \E o \in W : o # q /\ <<q, o>> \in E
  PROVE  \E S \in SUBSET W :
           /\ S # {}
           /\ \A q \in S : (\E o \in S : <<q, o>> \in E) /\ (\E o \in S : <<o, q>> \in E)
<1> DEFINE Closed == {S \in SUBSET W :
                        /\ S # {}
                        /\ \A q \in S : \E o \in S : o # q /\ <<q, o>> \in E}
           Sizes == {Cardinality(S) : S \in Closed}
<1>1. \A S \in Closed : IsFiniteSet(S) /\ Cardinality(S) \in Nat
  BY FS_Subset, FS_CardinalityType
<1>2. Sizes \in SUBSET Nat /\ Sizes # {}
  BY <1>1
<1>3. PICK k \in Sizes : \A m \in Sizes : k =< m
  <2> HIDE DEF Sizes
  <2> QED
    BY <1>2, LeastNumber
<1>4. PICK S \in Closed : \A T \in Closed : Cardinality(S) =< Cardinality(T)
  <2> HIDE DEF Closed
  <2> QED
    BY <1>3
<1>5. ASSUME NEW q \in S, ~ \E o \in S : <<o, q>> \in E
      PROVE  FALSE
  <2>1. S \ {q} \in Closed
    <3>1. PICK o \in S : o # q
      OBVIOUS
    <3>2. \A m \in S \ {q} : \E n \in S \ {q} : n # m /\ <<m, n>> \in E
      <4> SUFFICES ASSUME NEW m \in S \ {q}
                   PROVE  \E n \in S \ {q} : n # m /\ <<m, n>> \in E
        OBVIOUS
      <4>1. PICK n \in S : n # m /\ <<m, n>> \in E
        OBVIOUS
      <4> QED
        BY <1>5, <4>1
    <3> QED
      BY <3>1, <3>2
  <2>2. Cardinality(S \ {q}) = Cardinality(S) - 1
    BY <1>1, <1>5, FS_RemoveElement
  <2> HIDE DEF Closed
  <2>3. Cardinality(S) \in Nat /\ Cardinality(S) =< Cardinality(S \ {q})
    BY <1>1, <1>4, <2>1
  <2> QED
    BY <2>2, <2>3
<1> QED
  BY <1>5

(* Where a callback of Promise.all throws there is a first that does. *)
LEMMA FirstBadExists ==
  ASSUME TypeOK, NEW r \in Requests, NEW b \in DOMAIN Lines(r), Bad(r, b)
  PROVE  \E i \in DOMAIN Lines(r) : FirstBad(r, i)
<1> DEFINE AllBad == {i \in DOMAIN Lines(r) : Bad(r, i)}
<1>1. AllBad \in SUBSET Nat /\ AllBad # {}
  BY LineFacts
<1>2. PICK k \in AllBad : \A m \in AllBad : k =< m
  BY <1>1, LeastNumber
<1> QED
  BY <1>2 DEF FirstBad

(* Who cannot go on waits for another open transaction, or for the pool. *)
LEMMA WhoWaits ==
  ASSUME SafetyInv, NEW r \in Requests, pc[r] \in InProgress, ~CanGoOn(r)
  PROVE  \/ pc[r] = "reread" /\ ~ConnectionFree
         \/ \E o \in Requests :
              /\ WaitsFor(r, o)
              /\ pc[o] \in {"locking", "failing"}
<1> USE DEF SafetyInv
<1>1. CASE pc[r] = "insert"
  <2>1. PICK o \in KeyHolders(r) : TRUE
    BY <1>1 DEF CanGoOn
  <2>2. o \in Requests /\ pc[o] \in {"locking", "failing"}
    BY <2>1 DEF KeyHolders, PendingIsOpen, TypeOK
  <2> QED
    BY <1>1, <2>1, <2>2 DEF CanGoOn, WaitsFor
<1>2. CASE pc[r] = "locking" /\ AllLocked(r)
  BY <1>2, FirstBadExists DEF CanGoOn
<1>3. CASE pc[r] = "locking" /\ ~AllLocked(r)
  <2> DEFINE p == ProductAt(r, line[r])
  <2>1. p \in Catalog /\ lockedBy[p] \notin {NoOne, r}
    BY <1>3 DEF CanGoOn
  <2>2. lockedBy[p] \in Requests /\ pc[lockedBy[p]] \in {"locking", "failing"}
    BY <2>1 DEF LocksHaveOpenTransaction, TypeOK
  <2> QED
    BY <1>3, <2>1, <2>2 DEF WaitsFor
<1> QED
  BY <1>1, <1>2, <1>3 DEF CanGoOn

(* While requests are in progress one of them can go on or is part of a    *)
(* cycle that PostgreSQL breaks, for any bodies, requests and pool: the    *)
(* wait for a row or a key ends at an open transaction, and that for a     *)
(* connection at one that will give its own back (orders.repo.ts:89-152).  *)
THEOREM NeverStuck == Spec => []NobodyIsStuck
<1>1. SafetyInv /\ PoolInv => NobodyIsStuck
  <2> SUFFICES ASSUME SafetyInv, PoolInv, NEW r0 \in Requests, pc[r0] \in InProgress,
                      \A r \in Requests :
                        pc[r] \in InProgress => ~CanGoOn(r) /\ ~InCycle(r)
               PROVE  FALSE
    BY DEF NobodyIsStuck
  <2> DEFINE W == {r \in Requests : pc[r] \in InProgress \ {"reread"}}
             E == {e \in Requests \X Requests : WaitsFor(e[1], e[2])}
  <2>1. CASE W = {}
    <3>1. pc[r0] = "reread" /\ Holders \in SUBSET Doomed /\ Doomed \in SUBSET Requests
      BY <2>1 DEF Holders, Doomed
    <3>2. ConnectionFree
      BY <3>1, Smaller, PoolAssumption DEF PoolInv, ConnectionFree
    <3> QED
      BY <3>1, <3>2 DEF CanGoOn
  <2>2. CASE W # {}
    <3>1. IsFiniteSet(W)
      BY PoolAssumption, FS_Subset
    <3>2. \A q \in W : \E o \in W : o # q /\ <<q, o>> \in E
      <4> SUFFICES ASSUME NEW q \in W PROVE \E o \in W : o # q /\ <<q, o>> \in E
        OBVIOUS
      <4>1. PICK o \in Requests : WaitsFor(q, o) /\ pc[o] \in {"locking", "failing"}
        BY WhoWaits
      <4>2. o # q
        BY <4>1 DEF WaitsFor
      <4> QED
        BY <4>1, <4>2
    <3> HIDE DEF E
    <3>3. PICK S \in SUBSET W :
            /\ S # {}
            /\ \A q \in S : /\ \E o \in S : <<q, o>> \in E
                            /\ \E o \in S : <<o, q>> \in E
      <4> HIDE DEF W
      <4> QED
        BY <2>2, <3>1, <3>2, CycleExists
    <3>4. \A q, o \in S : <<q, o>> \in E => WaitsFor(q, o)
      BY DEF E
    <3>5. PICK r \in S : TRUE
      BY <3>3
    <3>6. S \in SUBSET Requests /\ pc[r] \in InProgress
      BY <3>5
    <3>7. \A q \in S : (\E o \in S : WaitsFor(q, o)) /\ (\E o \in S : WaitsFor(o, q))
      BY <3>3, <3>4
    <3>8. InCycle(r)
      <4> HIDE DEF W
      <4> QED
        BY <3>5, <3>6, <3>7 DEF InCycle
    <3> QED
      BY <3>6, <3>8
  <2> QED
    BY <2>1, <2>2
<1>2. SafetyInv => TypeOK
  BY DEF SafetyInv
<1> QED
  BY <1>1, <1>2, PoolInit, PoolStep, Safety, PTL DEF Spec
-----------------------------------------------------------------------------
(* Every handler comes to its end. *)

(* How far a handler has come: every statement takes it further. *)
LastRank(r) == Len(Lines(r)) + 6
Rank(r) ==
  CASE pc[r] = "idle" -> 0
    [] pc[r] = "lookup" -> 1
    [] pc[r] = "insert" -> 2
    [] pc[r] = "locking" -> 2 + line[r]
    [] pc[r] = "reread" -> 3
    [] pc[r] = "failing" -> LastRank(r) - 2
    [] pc[r] = "publish" -> LastRank(r) - 1
    [] pc[r] \in {"answered", "dead"} -> LastRank(r)

LinesInRange == \A r \in Requests : line[r] =< Len(Lines(r)) + 1

LEMMA LinesInRangeStep == TypeOK /\ LinesInRange /\ [Next]_vars => LinesInRange'
<1> SUFFICES ASSUME TypeOK, LinesInRange, [Next]_vars, NEW q \in Requests
             PROVE  (line[q] =< Len(Lines(q)) + 1)'
  BY DEF LinesInRange
<1> USE DEF TypeOK, LinesInRange, Lines
<1>1. CASE line' = line /\ body' = body
  BY <1>1
<1>2. ASSUME NEW r \in Requests, LockLine(r)
      PROVE  (line[q] =< Len(Lines(q)) + 1)'
  <2>1. line[r] =< Len(Lines(r)) /\ Len(Lines(r)) \in Nat
    BY <1>2, LineFacts DEF LockLine, AllLocked
  <2>2. line' = [line EXCEPT ![r] = line[r] + 1] /\ body' = body
    BY <1>2 DEF LockLine
  <2> QED
    BY <2>1, <2>2
<1>3. (\E r \in Requests : LockLine(r)) \/ (line' = line /\ body' = body)
  BY NextSteps
  DEF FindUser, UserNotFound, FindExisting, FindNoExisting, InsertOrder,
      AbortWithServerError, InsertDuplicate, Reread, Refuse, Rollback, Commits,
      Commit, CommitUnacknowledged, PublishAndAnswer, PublishThrows, DeleteOrder,
      Crash, vars, Aborts, InsertRefused, StatementFails, DeadlockVictim
<1> QED
  BY <1>1, <1>2, <1>3

LEMMA RankType ==
  ASSUME TypeOK, LinesInRange, NEW r \in Requests
  PROVE  Rank(r) \in 0 .. LastRank(r)
<1>1. Len(Lines(r)) \in Nat
  BY LineFacts
<1> QED
  BY <1>1 DEF TypeOK, LinesInRange, Rank, LastRank

(* A step takes requests further, none of them back, or deletes an order.  *)
Advance ==
  /\ \A r \in Requests : Rank(r) =< Rank(r)'
  /\ \/ \E r \in Requests : Rank(r) < Rank(r)'
     \/ live' # live /\ live' \subseteq live
HandlersAdvance == [][Advance]_vars

(* One request moves and the others stay. *)
LEMMA OneAdvances ==
  ASSUME TypeOK, NEW r \in Requests, body' = body,
         \A q \in Requests \ {r} : pc'[q] = pc[q] /\ line'[q] = line[q],
         LinesInRange, Rank(r) < Rank(r)', Rank(r)' \in Int
  PROVE  Advance
<1>1. \A q \in Requests \ {r} : Rank(q)' = Rank(q)
  BY DEF Rank, LastRank, Lines
<1>2. \A q \in Requests : Rank(q) \in Int
  BY RankType, LineFacts DEF LastRank
<1>3. Rank(r) =< Rank(r)'
  BY <1>2
<1> QED
  BY <1>1, <1>2, <1>3 DEF Advance

LEMMA AdvanceStep ==
  TypeOK /\ LinesInRange /\ TypeOK' /\ LinesInRange' /\ [Next]_vars => [Advance]_vars
<1> SUFFICES ASSUME TypeOK, LinesInRange, TypeOK', LinesInRange', [Next]_vars,
                    vars' # vars
             PROVE  Advance
  BY DEF vars
<1>0. /\ \A r \in Requests : /\ line[r] \in Nat \ {0} /\ line[r] =< Len(Lines(r)) + 1
                            /\ Len(Lines(r)) \in Nat
                            /\ Rank(r) \in Int /\ Rank(r)' \in Int
  <2>1. \A r \in Requests : Rank(r) \in 0 .. LastRank(r) /\ LastRank(r) \in Int
    BY RankType, LineFacts DEF LastRank
  <2>2. \A r \in Requests : Len(Lines(r))' \in Nat
    BY BodiesAssumption DEF TypeOK, Lines
  <2>3. \A r \in Requests : Rank(r)' \in Int
    BY <2>2 DEF TypeOK, Rank, LastRank
  <2> QED
    BY <2>1, <2>3, LineFacts DEF TypeOK, LinesInRange
<1> DEFINE Others(r) == /\ body' = body
                        /\ \A q \in Requests \ {r} : pc'[q] = pc[q] /\ line'[q] = line[q]
<1>1. ASSUME NEW r \in Requests,
             \/ FindUser(r) \/ UserNotFound(r) \/ FindExisting(r) \/ FindNoExisting(r)
             \/ InsertOrder(r) \/ InsertDuplicate(r) \/ Reread(r)
      PROVE  Others(r) /\ Rank(r) < Rank(r)'
  BY <1>0, <1>1
  DEF TypeOK, FindUser, UserNotFound, FindExisting, FindNoExisting, InsertOrder,
      InsertDuplicate, Reread, GoTo, Rank, LastRank, Lines
<1>2. ASSUME NEW r \in Requests, Aborts(r)
      PROVE  Others(r) /\ Rank(r) < Rank(r)'
  <2>1. AbortWithServerError(r) /\ pc[r] \in InTransaction \union {"reread"}
    BY <1>2, AbortsFacts
  <2> QED
    BY <1>0, <2>1 DEF TypeOK, AbortWithServerError, GoTo, Rank, LastRank, Lines
<1>3. ASSUME NEW r \in Requests, LockLine(r)
      PROVE  Others(r) /\ Rank(r) < Rank(r)'
  <2>1. pc[r] = "locking" /\ pc' = pc /\ body' = body
        /\ line' = [line EXCEPT ![r] = line[r] + 1]
    BY <1>3 DEF LockLine
  <2> QED
    BY <1>0, <2>1 DEF TypeOK, Rank
<1>4. ASSUME NEW r \in Requests,
             Refuse(r) \/ Rollback(r) \/ PublishAndAnswer(r) \/ PublishThrows(r)
      PROVE  Others(r) /\ Rank(r) < Rank(r)'
  BY <1>0, <1>4
  DEF TypeOK, Refuse, Rollback, PublishAndAnswer, PublishThrows, AllLocked, GoTo,
      Rank, LastRank, Lines
<1>5. ASSUME NEW r \in Requests, Commits(r)
      PROVE  Others(r) /\ Rank(r) < Rank(r)'
  <2>1. /\ pc[r] = "locking" /\ body' = body /\ line' = line
        /\ \E to \in {"publish", "answered"} : GoTo(r, to)
    BY <1>5, CommitsFacts DEF ApplyAndCommit
  <2> QED
    BY <1>0, <2>1 DEF TypeOK, GoTo, Rank, LastRank, Lines
<1>6. ASSUME NEW r \in Requests, Others(r) /\ Rank(r) < Rank(r)'
      PROVE  Advance
  BY <1>0, <1>6, OneAdvances
<1>7. CASE Crash
  <2>1. \A r \in Requests : /\ Rank(r) =< Rank(r)'
                            /\ pc[r] \in InProgress => Rank(r) < Rank(r)'
    BY <1>0, <1>7 DEF TypeOK, Crash, Rank, LastRank, Lines
  <2> QED
    BY <1>7, <2>1 DEF Crash, Advance
<1>8. ASSUME NEW o \in Requests, DeleteOrder(o) PROVE Advance
  <2>1. \A r \in Requests : Rank(r)' = Rank(r)
    BY <1>8 DEF DeleteOrder, Rank, LastRank, Lines
  <2>2. live' # live /\ live' \subseteq live
    BY <1>8 DEF DeleteOrder
  <2> QED
    BY <1>0, <2>1, <2>2 DEF Advance
<1> HIDE DEF Others
<1> QED
  BY <1>1, <1>2, <1>3, <1>4, <1>5, <1>6, <1>7, <1>8, NextSteps

(* Every step takes the request it belongs to nearer to its end, at most   *)
(* Len(Lines(r)) + 6 steps away, and nothing takes any request back, other *)
(* requests, deletions and crashes included: with NeverStuck, what is left *)
(* of EveryRequestEnds is that the event loop and the detector go on       *)
(* (orders.repo.ts:87-250).                                                *)
THEOREM NoHandlerGoesBack ==
  Spec => [](\A r \in Requests : Rank(r) \in 0 .. LastRank(r)) /\ HandlersAdvance
<1>1. Init => LinesInRange
  BY LineFacts, TypeInit DEF Init, LinesInRange
<1>2. SafetyInv => TypeOK
  BY DEF SafetyInv
<1>3. TypeOK /\ LinesInRange => \A r \in Requests : Rank(r) \in 0 .. LastRank(r)
  BY RankType
<1>4. Spec => []TypeOK
  BY <1>2, Safety, PTL
<1>5. Spec => []LinesInRange
  BY <1>1, <1>4, LinesInRangeStep, PTL DEF Spec
<1> QED
  BY <1>3, <1>4, <1>5, AdvanceStep, PTL DEF Spec, HandlersAdvance

(* A message is published for a committed order only, one at a time: what  *)
(* Fulfilment takes for granted of the messages it starts from             *)
(* (orders.service.ts:130-143).                                            *)
PublishesCommitted ==
  [][\A o \in Requests :
       published'[o] # published[o] =>
         o \in placed /\ published'[o] = published[o] + 1]_vars
THEOREM OnlyCommitted == Spec => PublishesCommitted
<1>1. SafetyInv /\ [Next]_vars =>
        [\A o \in Requests :
           published'[o] # published[o] =>
             o \in placed /\ published'[o] = published[o] + 1]_vars
  <2> SUFFICES ASSUME SafetyInv, [Next]_vars, NEW o \in Requests,
                      published'[o] # published[o]
               PROVE  o \in placed /\ published'[o] = published[o] + 1
    OBVIOUS
  <2>1. PICK r \in Requests : PublishAndAnswer(r)
    BY NextSteps
    DEF FindUser, UserNotFound, FindExisting, FindNoExisting, InsertOrder,
        AbortWithServerError, InsertDuplicate, Reread, LockLine, Refuse, Rollback,
        Commits, Commit, CommitUnacknowledged, PublishThrows, DeleteOrder, Crash,
        vars, tables, Aborts, InsertRefused, StatementFails, DeadlockVictim
  <2>2. result[r] = o /\ published'[o] = published[o] + 1
    BY <2>1 DEF PublishAndAnswer, SafetyInv, TypeOK
  <2> QED
    BY <2>2 DEF SafetyInv, AnswersArePlaced
<1> QED
  BY <1>1, Safety, PTL DEF Spec, PublishesCommitted
=============================================================================
