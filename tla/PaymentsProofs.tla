--------------------------- MODULE PaymentsProofs ---------------------------
(* Proofs about Payments, for every set of calls, orders and payment ids,  *)
(* every number of retries and restarts, and every combination of faults.  *)
EXTENDS Payments, TLAPS

USE CallsAssumption, BoundsAssumption, ValuesAssumption
USE DEF InHandler, Phases, Verdicts, GoTo, Exists, Keys, handler, service

(* The payments service answers with the payment it knows, or a new one. *)
Repeated(c, n) ==
  /\ <<c, n>> \in wire
  /\ wire' = wire \ {<<c, n>>}
  /\ OrderOf[c] # NoId
  /\ byKey[OrderOf[c]] # Unset
  /\ Reply(c, n, byKey[OrderOf[c]])
  /\ UNCHANGED <<order, phase, retries, verdict, audit, service>>
Fresh(c, n, p) ==
  /\ <<c, n>> \in wire
  /\ wire' = wire \ {<<c, n>>}
  /\ OrderOf[c] = NoId \/ byKey[OrderOf[c]] = Unset
  /\ Issue(p, OrderOf[c])
  /\ Reply(c, n, p)
  /\ UNCHANGED <<order, phase, retries, verdict, audit, restarts>>

LEMMA AuthorizeShape ==
  ASSUME NEW c \in Calls, NEW n \in 0 .. MaxRetries, Authorize(c, n)
  PROVE  Repeated(c, n) \/ \E p \in PaymentIds : Fresh(c, n, p)
  BY DEF Authorize, Known, Repeated, Fresh

(* The steps the proofs below distinguish. *)
LEMMA StepShapes ==
  ASSUME [Next]_vars
  PROVE  \/ \E c \in Calls :
              \/ Start(c) \/ StartWithoutOrder(c) \/ LookupRejects(c)
              \/ Receive(c) \/ TransientError(c) \/ Resend(c) \/ TimesOut(c)
              \/ AuditSuccess(c) \/ FindOrder(c) \/ MarkPayed(c)
              \/ Fail(c) \/ StatementFails(c)
              \/ \E n \in 0 .. MaxRetries :
                   Repeated(c, n) \/ \E p \in PaymentIds : Fresh(c, n, p)
         \/ \E o \in Orders : Delete(o)
         \/ Restart \/ Crash
         \/ UNCHANGED vars
  BY AuthorizeShape DEF Next, CallStep, Quiescent

LEMMA TypeStep ==
  TypeOK /\ PhasesFollowPayments /\ [Next]_vars
    => TypeOK'
<1> SUFFICES ASSUME TypeOK, PhasesFollowPayments, [Next]_vars
             PROVE  TypeOK'
  OBVIOUS
<1> USE DEF TypeOK, PhasesFollowPayments
<1>1. ASSUME NEW c \in Calls, Start(c) PROVE TypeOK'
  BY <1>1 DEF Start, Send
<1>2. ASSUME NEW c \in Calls, StartWithoutOrder(c) PROVE TypeOK'
  BY <1>2 DEF StartWithoutOrder, Answer, InsertFails
<1>3. ASSUME NEW c \in Calls, Receive(c) PROVE TypeOK'
  BY <1>3 DEF Receive
<1>4. ASSUME NEW c \in Calls, TransientError(c) PROVE TypeOK'
  BY <1>4 DEF TransientError
<1>5. ASSUME NEW c \in Calls, Resend(c) PROVE TypeOK'
  <2>0. retries[c] \in 0 .. MaxRetries /\ retries[c] < MaxRetries
    BY <1>5 DEF Resend
  <2>1. retries[c] + 1 \in 0 .. MaxRetries
    BY <2>0
  <2>2. /\ retries' \in [Calls -> 0 .. MaxRetries]
        /\ wire' \in SUBSET (Calls \X (0 .. MaxRetries))
        /\ phase' \in [Calls -> Phases]
    BY <1>5, <2>1 DEF Resend, Send
  <2> QED
    BY <1>5, <2>2 DEF Resend
<1>6. ASSUME NEW c \in Calls, TimesOut(c) PROVE TypeOK'
  BY <1>6 DEF TimesOut
<1>7. ASSUME NEW c \in Calls, AuditSuccess(c) PROVE TypeOK'
  BY <1>7 DEF AuditSuccess
<1>8. ASSUME NEW c \in Calls, FindOrder(c) PROVE TypeOK'
  BY <1>8 DEF FindOrder
<1>9. ASSUME NEW c \in Calls, MarkPayed(c) PROVE TypeOK'
  BY <1>9 DEF MarkPayed, Answer
<1>10. ASSUME NEW c \in Calls, Fail(c) PROVE TypeOK'
  BY <1>10 DEF Fail, Answer, InsertFails
<1>11. ASSUME NEW c \in Calls, StatementFails(c) PROVE TypeOK'
  BY <1>11 DEF StatementFails
<1>12. ASSUME NEW c \in Calls, NEW n \in 0 .. MaxRetries, Repeated(c, n)
  PROVE  TypeOK'
  BY <1>12 DEF Repeated, Reply
<1>13. ASSUME NEW c \in Calls, NEW n \in 0 .. MaxRetries, NEW p \in
                  PaymentIds, Fresh(c, n, p)
  PROVE  TypeOK'
  BY <1>13 DEF Fresh, Reply, Issue
<1>14. ASSUME NEW o \in Orders, Delete(o) PROVE TypeOK'
  BY <1>14 DEF Delete
<1>15. ASSUME Restart PROVE TypeOK'
  BY <1>15 DEF Restart
<1>16. ASSUME Crash PROVE TypeOK'
  BY <1>16 DEF Crash
<1>17. ASSUME UNCHANGED vars PROVE TypeOK'
  BY <1>17 DEF vars
<1>18. ASSUME NEW c \in Calls, LookupRejects(c)
  PROVE  TypeOK'
  BY <1>18 DEF LookupRejects
<1> QED
  BY StepShapes, <1>1, <1>2, <1>3, <1>4, <1>5, <1>6, <1>7, <1>8, <1>9,
     <1>10, <1>11, <1>12, <1>13, <1>14, <1>15, <1>16, <1>17,
     <1>18

LEMMA MapsStep ==
  TypeOK /\ MapsAgree /\ PhasesFollowPayments /\ [Next]_vars
    => MapsAgree'
<1> SUFFICES ASSUME TypeOK, MapsAgree, PhasesFollowPayments, [Next]_vars
             PROVE  MapsAgree'
  OBVIOUS
<1> USE DEF TypeOK, MapsAgree, PhasesFollowPayments, Issued
<1>1. ASSUME NEW c \in Calls, Start(c) PROVE MapsAgree'
  BY <1>1 DEF Start, Send
<1>2. ASSUME NEW c \in Calls, StartWithoutOrder(c) PROVE MapsAgree'
  BY <1>2 DEF StartWithoutOrder, Answer, InsertFails
<1>3. ASSUME NEW c \in Calls, Receive(c) PROVE MapsAgree'
  BY <1>3 DEF Receive
<1>4. ASSUME NEW c \in Calls, TransientError(c) PROVE MapsAgree'
  BY <1>4 DEF TransientError
<1>5. ASSUME NEW c \in Calls, Resend(c) PROVE MapsAgree'
  BY <1>5 DEF Resend, Send
<1>6. ASSUME NEW c \in Calls, TimesOut(c) PROVE MapsAgree'
  BY <1>6 DEF TimesOut
<1>7. ASSUME NEW c \in Calls, AuditSuccess(c) PROVE MapsAgree'
  BY <1>7 DEF AuditSuccess
<1>8. ASSUME NEW c \in Calls, FindOrder(c) PROVE MapsAgree'
  BY <1>8 DEF FindOrder
<1>9. ASSUME NEW c \in Calls, MarkPayed(c) PROVE MapsAgree'
  BY <1>9 DEF MarkPayed, Answer
<1>10. ASSUME NEW c \in Calls, Fail(c) PROVE MapsAgree'
  BY <1>10 DEF Fail, Answer, InsertFails
<1>11. ASSUME NEW c \in Calls, StatementFails(c) PROVE MapsAgree'
  BY <1>11 DEF StatementFails
<1>12. ASSUME NEW c \in Calls, NEW n \in 0 .. MaxRetries, Repeated(c, n)
  PROVE  MapsAgree'
  BY <1>12 DEF Repeated, Reply
<1>13. ASSUME NEW c \in Calls, NEW n \in 0 .. MaxRetries, NEW p \in
                  PaymentIds, Fresh(c, n, p)
  PROVE  MapsAgree'
  BY <1>13 DEF Fresh, Reply, Issue
<1>14. ASSUME NEW o \in Orders, Delete(o) PROVE MapsAgree'
  BY <1>14 DEF Delete
<1>15. ASSUME Restart PROVE MapsAgree'
  BY <1>15 DEF Restart
<1>16. ASSUME Crash PROVE MapsAgree'
  BY <1>16 DEF Crash
<1>17. ASSUME UNCHANGED vars PROVE MapsAgree'
  BY <1>17 DEF vars
<1>18. ASSUME NEW c \in Calls, LookupRejects(c)
  PROVE  MapsAgree'
  BY <1>18 DEF LookupRejects
<1> QED
  BY StepShapes, <1>1, <1>2, <1>3, <1>4, <1>5, <1>6, <1>7, <1>8, <1>9,
     <1>10, <1>11, <1>12, <1>13, <1>14, <1>15, <1>16, <1>17,
     <1>18

LEMMA OnePaymentStep ==
  TypeOK /\ MapsAgree /\ PhasesFollowPayments /\ OnePaymentPerOrder /\ [Next]_vars
    => OnePaymentPerOrder'
<1> SUFFICES ASSUME TypeOK, MapsAgree, PhasesFollowPayments,
                    OnePaymentPerOrder, [Next]_vars
             PROVE  OnePaymentPerOrder'
  OBVIOUS
<1> USE DEF TypeOK, MapsAgree, OnePaymentPerOrder, PhasesFollowPayments, Issued
<1>1. ASSUME NEW c \in Calls, Start(c) PROVE OnePaymentPerOrder'
  BY <1>1 DEF Start, Send
<1>2. ASSUME NEW c \in Calls, StartWithoutOrder(c) PROVE OnePaymentPerOrder'
  BY <1>2 DEF StartWithoutOrder, Answer, InsertFails
<1>3. ASSUME NEW c \in Calls, Receive(c) PROVE OnePaymentPerOrder'
  BY <1>3 DEF Receive
<1>4. ASSUME NEW c \in Calls, TransientError(c) PROVE OnePaymentPerOrder'
  BY <1>4 DEF TransientError
<1>5. ASSUME NEW c \in Calls, Resend(c) PROVE OnePaymentPerOrder'
  BY <1>5 DEF Resend, Send
<1>6. ASSUME NEW c \in Calls, TimesOut(c) PROVE OnePaymentPerOrder'
  BY <1>6 DEF TimesOut
<1>7. ASSUME NEW c \in Calls, AuditSuccess(c) PROVE OnePaymentPerOrder'
  BY <1>7 DEF AuditSuccess
<1>8. ASSUME NEW c \in Calls, FindOrder(c) PROVE OnePaymentPerOrder'
  BY <1>8 DEF FindOrder
<1>9. ASSUME NEW c \in Calls, MarkPayed(c) PROVE OnePaymentPerOrder'
  BY <1>9 DEF MarkPayed, Answer
<1>10. ASSUME NEW c \in Calls, Fail(c) PROVE OnePaymentPerOrder'
  BY <1>10 DEF Fail, Answer, InsertFails
<1>11. ASSUME NEW c \in Calls, StatementFails(c) PROVE OnePaymentPerOrder'
  BY <1>11 DEF StatementFails
<1>12. ASSUME NEW c \in Calls, NEW n \in 0 .. MaxRetries, Repeated(c, n)
  PROVE  OnePaymentPerOrder'
  BY <1>12 DEF Repeated, Reply
<1>13. ASSUME NEW c \in Calls, NEW n \in 0 .. MaxRetries, NEW p \in
                  PaymentIds, Fresh(c, n, p)
  PROVE  OnePaymentPerOrder'
  BY <1>13 DEF Fresh, Reply, Issue
<1>14. ASSUME NEW o \in Orders, Delete(o) PROVE OnePaymentPerOrder'
  BY <1>14 DEF Delete
<1>15. ASSUME Restart PROVE OnePaymentPerOrder'
  BY <1>15 DEF Restart
<1>16. ASSUME Crash PROVE OnePaymentPerOrder'
  BY <1>16 DEF Crash
<1>17. ASSUME UNCHANGED vars PROVE OnePaymentPerOrder'
  BY <1>17 DEF vars
<1>18. ASSUME NEW c \in Calls, LookupRejects(c)
  PROVE  OnePaymentPerOrder'
  BY <1>18 DEF LookupRejects
<1> QED
  BY StepShapes, <1>1, <1>2, <1>3, <1>4, <1>5, <1>6, <1>7, <1>8, <1>9,
     <1>10, <1>11, <1>12, <1>13, <1>14, <1>15, <1>16, <1>17,
     <1>18

LEMMA TheirOrderStep ==
  TypeOK /\ MapsAgree /\ PhasesFollowPayments /\ PaymentsAreForTheirOrder
      /\ [Next]_vars
    => PaymentsAreForTheirOrder'
<1> SUFFICES ASSUME TypeOK, MapsAgree, PhasesFollowPayments,
                    PaymentsAreForTheirOrder, [Next]_vars
             PROVE  PaymentsAreForTheirOrder'
  OBVIOUS
<1> USE DEF TypeOK, MapsAgree, PaymentsAreForTheirOrder, PhasesFollowPayments, Issued
<1>1. ASSUME NEW c \in Calls, Start(c) PROVE PaymentsAreForTheirOrder'
  BY <1>1 DEF Start, Send
<1>2. ASSUME NEW c \in Calls, StartWithoutOrder(c)
  PROVE  PaymentsAreForTheirOrder'
  BY <1>2 DEF StartWithoutOrder, Answer, InsertFails
<1>3. ASSUME NEW c \in Calls, Receive(c) PROVE PaymentsAreForTheirOrder'
  BY <1>3 DEF Receive
<1>4. ASSUME NEW c \in Calls, TransientError(c)
  PROVE  PaymentsAreForTheirOrder'
  BY <1>4 DEF TransientError
<1>5. ASSUME NEW c \in Calls, Resend(c) PROVE PaymentsAreForTheirOrder'
  BY <1>5 DEF Resend, Send
<1>6. ASSUME NEW c \in Calls, TimesOut(c) PROVE PaymentsAreForTheirOrder'
  BY <1>6 DEF TimesOut
<1>7. ASSUME NEW c \in Calls, AuditSuccess(c) PROVE PaymentsAreForTheirOrder'
  BY <1>7 DEF AuditSuccess
<1>8. ASSUME NEW c \in Calls, FindOrder(c) PROVE PaymentsAreForTheirOrder'
  BY <1>8 DEF FindOrder
<1>9. ASSUME NEW c \in Calls, MarkPayed(c) PROVE PaymentsAreForTheirOrder'
  BY <1>9 DEF MarkPayed, Answer
<1>10. ASSUME NEW c \in Calls, Fail(c) PROVE PaymentsAreForTheirOrder'
  BY <1>10 DEF Fail, Answer, InsertFails
<1>11. ASSUME NEW c \in Calls, StatementFails(c)
  PROVE  PaymentsAreForTheirOrder'
  BY <1>11 DEF StatementFails
<1>12. ASSUME NEW c \in Calls, NEW n \in 0 .. MaxRetries, Repeated(c, n)
  PROVE  PaymentsAreForTheirOrder'
  <2>0. OrderOf[c] \in Keys
    BY <1>12 DEF Repeated
  <2>1. byKey[OrderOf[c]] \in PaymentIds
    BY <1>12, <2>0 DEF Repeated
  <2>2. paidFor[byKey[OrderOf[c]]] = OrderOf[c]
    BY <1>12, <2>0, <2>1, SMTT(30) DEF Repeated
  <2>3. PICK p \in PaymentIds : p = byKey[OrderOf[c]] /\ paidFor[p] = OrderOf[c]
    BY <2>1, <2>2
  <2>4. got' = IF phase[c] = "authorizing" /\ retries[c] = n
               THEN [got EXCEPT ![c] = p] ELSE got
    BY <1>12, <2>3 DEF Repeated, Reply
  <2>5. paidFor' = paidFor
    BY <1>12 DEF Repeated
  <2>6. ASSUME NEW d \in Calls, got'[d] # Unset PROVE paidFor'[got'[d]] = OrderOf[d]
    BY <2>3, <2>4, <2>5, <2>6
  <2> QED
    BY <2>6
<1>13. ASSUME NEW c \in Calls, NEW n \in 0 .. MaxRetries, NEW p \in
                  PaymentIds, Fresh(c, n, p)
  PROVE  PaymentsAreForTheirOrder'
  BY <1>13 DEF Fresh, Reply, Issue
<1>14. ASSUME NEW o \in Orders, Delete(o) PROVE PaymentsAreForTheirOrder'
  BY <1>14 DEF Delete
<1>15. ASSUME Restart PROVE PaymentsAreForTheirOrder'
  BY <1>15 DEF Restart
<1>16. ASSUME Crash PROVE PaymentsAreForTheirOrder'
  BY <1>16 DEF Crash
<1>17. ASSUME UNCHANGED vars PROVE PaymentsAreForTheirOrder'
  BY <1>17 DEF vars
<1>18. ASSUME NEW c \in Calls, LookupRejects(c)
  PROVE  PaymentsAreForTheirOrder'
  BY <1>18 DEF LookupRejects
<1> QED
  BY StepShapes, <1>1, <1>2, <1>3, <1>4, <1>5, <1>6, <1>7, <1>8, <1>9,
     <1>10, <1>11, <1>12, <1>13, <1>14, <1>15, <1>16, <1>17,
     <1>18

LEMMA PhasesStep ==
  TypeOK /\ PhasesFollowPayments /\ [Next]_vars
    => PhasesFollowPayments'
<1> SUFFICES ASSUME TypeOK, PhasesFollowPayments, [Next]_vars
             PROVE  PhasesFollowPayments'
  OBVIOUS
<1> USE DEF TypeOK, PhasesFollowPayments
<1>1. ASSUME NEW c \in Calls, Start(c) PROVE PhasesFollowPayments'
  <2>1. OrderOf[c] # BadId
    BY <1>1 DEF Start, Finds
  <2> QED
    BY <1>1, <2>1 DEF Start, Send
<1>2. ASSUME NEW c \in Calls, StartWithoutOrder(c) PROVE PhasesFollowPayments'
  <2>1. CASE Answer(c, "NotFound") /\ audit' = audit \union {<<c, "failure">>}
    BY <1>2, <2>1 DEF StartWithoutOrder, Answer
  <2>2. CASE InsertFails(c)
    BY <1>2, <2>2 DEF StartWithoutOrder, InsertFails
  <2> QED
    BY <1>2, <2>1, <2>2 DEF StartWithoutOrder
<1>3. ASSUME NEW c \in Calls, Receive(c) PROVE PhasesFollowPayments'
  BY <1>3 DEF Receive
<1>4. ASSUME NEW c \in Calls, TransientError(c) PROVE PhasesFollowPayments'
  BY <1>4 DEF TransientError
<1>5. ASSUME NEW c \in Calls, Resend(c) PROVE PhasesFollowPayments'
  BY <1>5 DEF Resend, Send
<1>6. ASSUME NEW c \in Calls, TimesOut(c) PROVE PhasesFollowPayments'
  BY <1>6 DEF TimesOut
<1>7. ASSUME NEW c \in Calls, AuditSuccess(c) PROVE PhasesFollowPayments'
  BY <1>7 DEF AuditSuccess
<1>8. ASSUME NEW c \in Calls, FindOrder(c) PROVE PhasesFollowPayments'
  BY <1>8 DEF FindOrder
<1>9. ASSUME NEW c \in Calls, MarkPayed(c) PROVE PhasesFollowPayments'
  BY <1>9 DEF MarkPayed, Answer
<1>10. ASSUME NEW c \in Calls, Fail(c) PROVE PhasesFollowPayments'
  <2>1. CASE Answer(c, "NotAuthorized") /\ audit' = audit \union {<<c, "failure">>}
    BY <1>10, <2>1 DEF Fail, Answer
  <2>2. CASE InsertFails(c)
    BY <1>10, <2>2 DEF Fail, InsertFails
  <2> QED
    BY <1>10, <2>1, <2>2 DEF Fail
<1>11. ASSUME NEW c \in Calls, StatementFails(c) PROVE PhasesFollowPayments'
  BY <1>11 DEF StatementFails
<1>12. ASSUME NEW c \in Calls, NEW n \in 0 .. MaxRetries, Repeated(c, n)
  PROVE  PhasesFollowPayments'
  BY <1>12 DEF Repeated, Reply
<1>13. ASSUME NEW c \in Calls, NEW n \in 0 .. MaxRetries, NEW p \in
                  PaymentIds, Fresh(c, n, p)
  PROVE  PhasesFollowPayments'
  BY <1>13 DEF Fresh, Reply, Issue
<1>14. ASSUME NEW o \in Orders, Delete(o) PROVE PhasesFollowPayments'
  BY <1>14 DEF Delete
<1>15. ASSUME Restart PROVE PhasesFollowPayments'
  BY <1>15 DEF Restart
<1>16. ASSUME Crash PROVE PhasesFollowPayments'
  BY <1>16 DEF Crash
<1>17. ASSUME UNCHANGED vars PROVE PhasesFollowPayments'
  BY <1>17 DEF vars
<1>18. ASSUME NEW c \in Calls, LookupRejects(c)
  PROVE  PhasesFollowPayments'
  BY <1>18 DEF LookupRejects
<1> QED
  BY StepShapes, <1>1, <1>2, <1>3, <1>4, <1>5, <1>6, <1>7, <1>8, <1>9,
     <1>10, <1>11, <1>12, <1>13, <1>14, <1>15, <1>16, <1>17,
     <1>18

LEMMA PayedStep ==
  TypeOK /\ PaymentsAreForTheirOrder /\ PhasesFollowPayments /\ PayedWasAuthorized /\ [Next]_vars
    => PayedWasAuthorized'
<1> SUFFICES ASSUME TypeOK, PaymentsAreForTheirOrder, PhasesFollowPayments, PayedWasAuthorized, [Next]_vars
             PROVE  PayedWasAuthorized'
  OBVIOUS
<1> USE DEF TypeOK, PaymentsAreForTheirOrder, PhasesFollowPayments,
        PayedWasAuthorized, Issued
<1>1. ASSUME NEW c \in Calls, Start(c) PROVE PayedWasAuthorized'
  BY <1>1 DEF Start, Send
<1>2. ASSUME NEW c \in Calls, StartWithoutOrder(c) PROVE PayedWasAuthorized'
  BY <1>2 DEF StartWithoutOrder, Answer, InsertFails
<1>3. ASSUME NEW c \in Calls, Receive(c) PROVE PayedWasAuthorized'
  BY <1>3 DEF Receive
<1>4. ASSUME NEW c \in Calls, TransientError(c) PROVE PayedWasAuthorized'
  BY <1>4 DEF TransientError
<1>5. ASSUME NEW c \in Calls, Resend(c) PROVE PayedWasAuthorized'
  BY <1>5 DEF Resend, Send
<1>6. ASSUME NEW c \in Calls, TimesOut(c) PROVE PayedWasAuthorized'
  BY <1>6 DEF TimesOut
<1>7. ASSUME NEW c \in Calls, AuditSuccess(c) PROVE PayedWasAuthorized'
  BY <1>7 DEF AuditSuccess
<1>8. ASSUME NEW c \in Calls, FindOrder(c) PROVE PayedWasAuthorized'
  BY <1>8 DEF FindOrder
<1>9. ASSUME NEW c \in Calls, MarkPayed(c) PROVE PayedWasAuthorized'
  <2>1. /\ got[c] \in PaymentIds
        /\ paidFor[got[c]] = OrderOf[c]
        /\ <<c, "success">> \in audit
    BY <1>9 DEF MarkPayed
  <2>2. paidFor' = paidFor /\ audit' = audit
    BY <1>9 DEF MarkPayed
  <2>3. ASSUME NEW o \in Orders, order'[o] = "payed"
        PROVE  order[o] = "payed" \/ o = OrderOf[c]
    BY <1>9, <2>3 DEF MarkPayed
  <2>4. ASSUME NEW o \in Orders, o = OrderOf[c]
        PROVE  /\ \E p \in PaymentIds : paidFor[p] # Unset /\ paidFor[p] = o
               /\ \E d \in Calls : OrderOf[d] = o /\ <<d, "success">> \in audit
    BY <2>1, <2>4
  <2> QED
    BY <2>2, <2>3, <2>4
<1>10. ASSUME NEW c \in Calls, Fail(c) PROVE PayedWasAuthorized'
  BY <1>10 DEF Fail, Answer, InsertFails
<1>11. ASSUME NEW c \in Calls, StatementFails(c) PROVE PayedWasAuthorized'
  BY <1>11 DEF StatementFails
<1>12. ASSUME NEW c \in Calls, NEW n \in 0 .. MaxRetries, Repeated(c, n)
  PROVE  PayedWasAuthorized'
  BY <1>12 DEF Repeated, Reply
<1>13. ASSUME NEW c \in Calls, NEW n \in 0 .. MaxRetries, NEW p \in
                  PaymentIds, Fresh(c, n, p)
  PROVE  PayedWasAuthorized'
  BY <1>13 DEF Fresh, Reply, Issue
<1>14. ASSUME NEW o \in Orders, Delete(o) PROVE PayedWasAuthorized'
  <2>1. \A q \in Orders : order'[q] = "payed" => order[q] = "payed"
    BY <1>14 DEF Delete
  <2>2. paidFor' = paidFor /\ audit' = audit
    BY <1>14 DEF Delete
  <2> QED
    BY <2>1, <2>2
<1>15. ASSUME Restart PROVE PayedWasAuthorized'
  BY <1>15 DEF Restart
<1>16. ASSUME Crash PROVE PayedWasAuthorized'
  BY <1>16 DEF Crash
<1>17. ASSUME UNCHANGED vars PROVE PayedWasAuthorized'
  BY <1>17 DEF vars
<1>18. ASSUME NEW c \in Calls, LookupRejects(c)
  PROVE  PayedWasAuthorized'
  BY <1>18 DEF LookupRejects
<1> QED
  BY StepShapes, <1>1, <1>2, <1>3, <1>4, <1>5, <1>6, <1>7, <1>8, <1>9,
     <1>10, <1>11, <1>12, <1>13, <1>14, <1>15, <1>16, <1>17,
     <1>18

-----------------------------------------------------------------------------
(* The theorem. *)

LEMMA SafetyInit == Init => SafetyInv
  BY DEF Init, SafetyInv, TypeOK, MapsAgree, OnePaymentPerOrder, Issued,
         PaymentsAreForTheirOrder, PhasesFollowPayments, PayedWasAuthorized

(* However often a request is sent again, answered late or lost, and       *)
(* whenever the payments service restarts: one run of it issues at most    *)
(* one payment per order, a call goes on only with a payment of its own    *)
(* order, and an order is payed only after a payment was issued for it and *)
(* a success row written (payments.service.ts:23-42,                       *)
(* orders.service.ts:70-91).                                               *)
THEOREM Safety == Spec => []SafetyInv
<1>1. SafetyInv /\ [Next]_vars => SafetyInv'
  BY TypeStep, MapsStep, OnePaymentStep, TheirOrderStep, PhasesStep, PayedStep
  DEF SafetyInv
<1> QED
  BY <1>1, SafetyInit, PTL DEF Spec

(* In particular, of its conjuncts: no order is paid twice by one run of   *)
(* the payments service (payments.service.ts:24-29).                       *)
THEOREM NoDoublePayment == Spec => []OnePaymentPerOrder
<1>1. SafetyInv => OnePaymentPerOrder
  BY DEF SafetyInv
<1> QED
  BY <1>1, Safety, PTL

(* A call goes on with no payment of another order, however late an answer *)
(* comes (payments.grpc.client.ts:53-72).                                  *)
THEOREM OwnPayment == Spec => []PaymentsAreForTheirOrder
<1>1. SafetyInv => PaymentsAreForTheirOrder
  BY DEF SafetyInv
<1> QED
  BY <1>1, Safety, PTL

(* No order is payed without a payment and its success row                 *)
(* (orders.service.ts:80-89).                                              *)
THEOREM Authorized == Spec => []PayedWasAuthorized
<1>1. SafetyInv => PayedWasAuthorized
  BY DEF SafetyInv
<1> QED
  BY <1>1, Safety, PTL

(* The status of a payment somebody was answered can be asked for exactly  *)
(* as long as the run of the payments service that issued it               *)
(* (payments.service.ts:44-52).                                            *)
THEOREM StatusLasts == Spec => []StatusLastsARun
<1>1. SafetyInv => StatusLastsARun
  <2> SUFFICES ASSUME SafetyInv, NEW c \in Calls, verdict[c] = "paid"
               PROVE  ("PAYMENT_AUTHORIZED" \in StatusAnswers(got[c]))
                        = (issuedIn[got[c]] = restarts)
    BY DEF StatusLastsARun
  <2>1. got[c] \in PaymentIds /\ got[c] # Unset
    BY DEF SafetyInv, TypeOK, PhasesFollowPayments
  <2>2. paidFor[got[c]] = OrderOf[c]
    BY <2>1 DEF SafetyInv, PaymentsAreForTheirOrder
  <2>3. got[c] \in Issued
    BY <2>1, <2>2 DEF Issued
  <2>4. got[c] \in recorded <=> issuedIn[got[c]] = restarts
    BY <2>3 DEF SafetyInv, MapsAgree
  <2>5. "PAYMENT_AUTHORIZED" \in StatusAnswers(got[c]) <=> got[c] \in recorded
    BY DEF StatusAnswers, getPaymentStatus
  <2> QED
    BY <2>4, <2>5
<1> QED
  BY <1>1, Safety, PTL

-----------------------------------------------------------------------------
(* Calls come to an end. *)

(* How far a call has come: through its attempts, then to its answer. *)
Rank(c) ==
  CASE phase[c] = "idle" -> 0
    [] phase[c] = "authorizing" -> 2 * retries[c] + 1
    [] phase[c] = "backoff" -> 2 * retries[c] + 2
    [] phase[c] = "authorized" -> 2 * MaxRetries + 3
    [] phase[c] = "updating" -> 2 * MaxRetries + 4
    [] phase[c] = "writing" -> 2 * MaxRetries + 5
    [] phase[c] = "failing" -> 2 * MaxRetries + 6
    [] phase[c] \in {"answered", "unanswered", "dead"} -> 2 * MaxRetries + 7
LastRank == 2 * MaxRetries + 7

Onward ==
  \A c \in Calls :
    phase'[c] # phase[c] \/ retries'[c] # retries[c] => Rank(c) < Rank(c)'
CallsAdvance == [][Onward]_vars

LEMMA OnwardStep == SafetyInv /\ [Next]_vars => Onward
<1> SUFFICES ASSUME SafetyInv, [Next]_vars, NEW q \in Calls,
                    phase'[q] # phase[q] \/ retries'[q] # retries[q]
             PROVE  Rank(q) < Rank(q)'
  BY DEF Onward
<1>1. /\ phase \in [Calls -> Phases] /\ retries \in [Calls -> 0 .. MaxRetries]
      /\ \A c \in Calls : phase[c] = "backoff" => retries[c] < MaxRetries
  BY DEF SafetyInv, TypeOK, PhasesFollowPayments
<1>2. ASSUME NEW c \in Calls,
             \/ Start(c) \/ LookupRejects(c) \/ Receive(c)
             \/ TransientError(c) \/ TimesOut(c)
      PROVE  Rank(q) < Rank(q)'
  BY <1>1, <1>2 DEF Start, LookupRejects, Receive, TransientError, TimesOut, Rank
<1>3. ASSUME NEW c \in Calls, StartWithoutOrder(c) \/ Fail(c)
      PROVE  Rank(q) < Rank(q)'
  BY <1>1, <1>3 DEF StartWithoutOrder, Fail, Answer, InsertFails, Rank
<1>4. ASSUME NEW c \in Calls, Resend(c) PROVE Rank(q) < Rank(q)'
  BY <1>1, <1>4 DEF Resend, Rank
<1>5. ASSUME NEW c \in Calls,
             AuditSuccess(c) \/ FindOrder(c) \/ MarkPayed(c) \/ StatementFails(c)
      PROVE  Rank(q) < Rank(q)'
  BY <1>1, <1>5 DEF AuditSuccess, FindOrder, MarkPayed, StatementFails, Answer, Rank
<1>6. ASSUME NEW c \in Calls, NEW n \in 0 .. MaxRetries,
             Repeated(c, n) \/ \E p \in PaymentIds : Fresh(c, n, p)
      PROVE  FALSE
  BY <1>6 DEF Repeated, Fresh
<1>7. ASSUME NEW o \in Orders, Delete(o) PROVE FALSE
  BY <1>7 DEF Delete
<1>8. CASE Crash
  <2>1. phase[q] \in InHandler /\ phase'[q] = "dead" /\ retries' = retries
    BY <1>1, <1>8 DEF Crash
  <2> QED
    BY <1>1, <2>1 DEF Rank
<1>9. ASSUME Restart \/ UNCHANGED vars PROVE FALSE
  BY <1>9 DEF Restart, vars
<1> QED
  BY StepShapes, <1>2, <1>3, <1>4, <1>5, <1>6, <1>7, <1>8, <1>9

(* Whatever the network, the payments service and the database do, a call  *)
(* only moves on, and has at most 2 * MaxRetries + 7 steps until it ends:  *)
(* the client's retries are finitely many and no answer of an earlier      *)
(* attempt sets it back (payments.grpc.client.ts:53-72).                   *)
THEOREM CallsAreFinite ==
  Spec => [](\A c \in Calls : Rank(c) \in 0 .. LastRank) /\ CallsAdvance
<1>1. SafetyInv => \A c \in Calls : Rank(c) \in 0 .. LastRank
  <2> SUFFICES ASSUME SafetyInv, NEW c \in Calls PROVE Rank(c) \in 0 .. LastRank
    OBVIOUS
  <2>1. phase[c] \in Phases /\ retries[c] \in 0 .. MaxRetries
    BY DEF SafetyInv, TypeOK
  <2> QED
    BY <2>1 DEF Rank, LastRank
<1> QED
  BY <1>1, OnwardStep, Safety, PTL DEF Spec, CallsAdvance
=============================================================================
