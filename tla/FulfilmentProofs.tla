-------------------------- MODULE FulfilmentProofs --------------------------
(* Proofs about Fulfilment, for every set of orders and messages, every    *)
(* limit of attempts and every combination of faults.                      *)
EXTENDS Fulfilment, TLAPS

USE DEF Phases, HandlerPhases, PayPhases

(* A handler's error ends in one of four ways: its catch owes the message  *)
(* again, or the process dies, in both cases before or after the           *)
(* transaction; an acknowledgement settles the message or is such a death. *)
Caught(m) ==
  /\ InProcessQueue(m) /\ phase[m] \in HandlerPhases /\ CatchAndOwe(m)
  /\ UNCHANGED rows
CaughtAfterWrite(m) ==
  /\ InProcessQueue(m) /\ phase[m] \in HandlerPhases /\ CatchAndOwe(m)
  /\ UpdateAndUpsert(m)
DiedAfterWrite(m) == phase[m] \in HandlerPhases /\ Die /\ UpdateAndUpsert(m)
Died == Die /\ UNCHANGED rows
Settled(m) ==
  /\ phase[m] = "acking"
  /\ GoTo(m, "done")
  /\ UNCHANGED <<rows, message, paying, process>>

LEMMA ThrowsShape ==
  ASSUME NEW m \in Messages, Throws(m)
  PROVE  Caught(m) \/ Died
  BY DEF Throws, Catch, Caught, Died

LEMMA StatementFailsShape ==
  ASSUME NEW m \in Messages, StatementFails(m)
  PROVE  Caught(m) \/ CaughtAfterWrite(m) \/ Died \/ DiedAfterWrite(m)
  BY DEF StatementFails, Catch, Caught, CaughtAfterWrite, Died, DiedAfterWrite

LEMMA AckShape ==
  ASSUME NEW m \in Messages, Ack(m)
  PROVE  Settled(m) \/ Died
<1>1. CASE channelOpen /\ GoTo(m, "done") /\ UNCHANGED <<message, paying, process>>
  BY <1>1 DEF Ack, Settled
<1>2. CASE ~channelOpen /\ Die
  BY <1>2 DEF Ack, Died
<1> QED
  BY <1>1, <1>2 DEF Ack

(* The steps the proofs below distinguish. *)
LEMMA StepShapes ==
  ASSUME [Next]_vars
  PROVE  \/ \E m \in Messages :
              \/ Publish(m) \/ Deliver(m) \/ Find(m) \/ Lookup(m) \/ Write(m)
              \/ Caught(m) \/ CaughtAfterWrite(m) \/ DiedAfterWrite(m)
              \/ Settled(m) \/ Republish(m)
              \/ \E o \in Orders : Place(o, m) \/ PlaceAgain(o, m)
         \/ \E o \in Orders : AuthorizeStart(o) \/ AuthorizeStep(o) \/ Delete(o)
         \/ Died \/ ChannelCloses \/ Restart
         \/ UNCHANGED vars
  BY ThrowsShape, StatementFailsShape, AckShape
  DEF Next, MessageStep, Crash, Died, Idle

LEMMA TypeStep == TypeOK /\ [Next]_vars => TypeOK'
<1> SUFFICES ASSUME TypeOK, [Next]_vars
             PROVE  TypeOK'
  OBVIOUS
<1> USE AttemptsAssumption DEF TypeOK, GoTo, PayTo, rows, message, process, HasRow, Statuses
<1>1. ASSUME NEW m \in Messages, Publish(m) PROVE TypeOK'
BY <1>1 DEF Publish
<1>2. ASSUME NEW m \in Messages, Deliver(m) PROVE TypeOK'
BY <1>2 DEF Deliver
<1>3. ASSUME NEW m \in Messages, Find(m) PROVE TypeOK'
BY <1>3 DEF Find
<1>4. ASSUME NEW m \in Messages, Lookup(m) PROVE TypeOK'
BY <1>4 DEF Lookup, AlreadyHandled
<1>5. ASSUME NEW m \in Messages, Write(m) PROVE TypeOK'
BY <1>5 DEF Write, UpdateAndUpsert, StatusOf
<1>6. ASSUME NEW m \in Messages, Caught(m) PROVE TypeOK'
BY <1>6 DEF Caught, CatchAndOwe, Exceeds, Bump
<1>7. ASSUME NEW m \in Messages, CaughtAfterWrite(m) PROVE TypeOK'
  <2>1. status' \in [Orders -> Statuses \union {"absent", "deleted"}]
    BY <1>7 DEF CaughtAfterWrite, UpdateAndUpsert, StatusOf
  <2>2. processed' \in [Orders -> {"none", "proceed", "failed"}]
    BY <1>7 DEF CaughtAfterWrite, UpdateAndUpsert, StatusOf
  <2>3. /\ attempt' \in [Messages -> 0 .. AttemptCap]
        /\ queue' \in [Messages -> {"orders.process.queue", "orders.dlq.queue"}]
        /\ phase' \in [Messages -> Phases]
        /\ UNCHANGED <<of, paying, simulate, channelOpen, up>>
    BY <1>7 DEF CaughtAfterWrite, CatchAndOwe, Exceeds, Bump
  <2> QED
    BY <2>1, <2>2, <2>3
<1>8. ASSUME NEW m \in Messages, DiedAfterWrite(m) PROVE TypeOK'
BY <1>8 DEF DiedAfterWrite, Die, UpdateAndUpsert, StatusOf
<1>9. ASSUME NEW m \in Messages, Settled(m) PROVE TypeOK'
BY <1>9 DEF Settled
<1>10. ASSUME NEW m \in Messages, Republish(m) PROVE TypeOK'
BY <1>10 DEF Republish
<1>11. ASSUME NEW o \in Orders, NEW m \in Messages, Place(o, m) PROVE TypeOK'
BY <1>11 DEF Place, Owe
<1>12. ASSUME NEW o \in Orders, NEW m \in Messages, PlaceAgain(o, m)
  PROVE  TypeOK'
BY <1>12 DEF PlaceAgain, Owe
<1>13. ASSUME NEW o \in Orders, AuthorizeStart(o) PROVE TypeOK'
BY <1>13 DEF AuthorizeStart
<1>14. ASSUME NEW o \in Orders, AuthorizeStep(o) PROVE TypeOK'
BY <1>14 DEF AuthorizeStep, AuthorizeAnswered, AuthorizeFind, AuthorizeWrite
<1>15. ASSUME NEW o \in Orders, Delete(o) PROVE TypeOK'
BY <1>15 DEF Delete
<1>16. ASSUME Died PROVE TypeOK'
BY <1>16 DEF Died, Die
<1>17. ASSUME ChannelCloses PROVE TypeOK'
BY <1>17 DEF ChannelCloses
<1>18. ASSUME Restart PROVE TypeOK'
BY <1>18 DEF Restart
<1>19. ASSUME UNCHANGED vars PROVE TypeOK'
BY <1>19 DEF vars
<1> QED
  BY StepShapes, <1>1, <1>2, <1>3, <1>4, <1>5, <1>6, <1>7, <1>8, <1>9,
     <1>10, <1>11, <1>12, <1>13, <1>14, <1>15, <1>16, <1>17, <1>18, <1>19 

LEMMA FollowStep ==
  TypeOK /\ MessagesFollowOrders /\ [Next]_vars
    => MessagesFollowOrders'
<1> SUFFICES ASSUME TypeOK, MessagesFollowOrders, [Next]_vars
             PROVE  MessagesFollowOrders'
  OBVIOUS
<1> USE IdsAssumption DEF TypeOK, GoTo, PayTo, rows, message, process, HasRow, Statuses, MessagesFollowOrders, InProcessQueue
<1>1. ASSUME NEW m \in Messages, Publish(m) PROVE MessagesFollowOrders'
BY <1>1 DEF Publish
<1>2. ASSUME NEW m \in Messages, Deliver(m) PROVE MessagesFollowOrders'
BY <1>2 DEF Deliver
<1>3. ASSUME NEW m \in Messages, Find(m) PROVE MessagesFollowOrders'
BY <1>3 DEF Find
<1>4. ASSUME NEW m \in Messages, Lookup(m) PROVE MessagesFollowOrders'
BY <1>4 DEF Lookup, AlreadyHandled
<1>5. ASSUME NEW m \in Messages, Write(m) PROVE MessagesFollowOrders'
BY <1>5 DEF Write, UpdateAndUpsert, StatusOf
<1>6. ASSUME NEW m \in Messages, Caught(m) PROVE MessagesFollowOrders'
BY <1>6 DEF Caught, CatchAndOwe, Exceeds, Bump
<1>7. ASSUME NEW m \in Messages, CaughtAfterWrite(m)
  PROVE  MessagesFollowOrders'
BY <1>7 DEF CaughtAfterWrite, CatchAndOwe, Exceeds, Bump, UpdateAndUpsert,
     StatusOf
<1>8. ASSUME NEW m \in Messages, DiedAfterWrite(m) PROVE MessagesFollowOrders'
BY <1>8 DEF DiedAfterWrite, Die, UpdateAndUpsert, StatusOf
<1>9. ASSUME NEW m \in Messages, Settled(m) PROVE MessagesFollowOrders'
BY <1>9 DEF Settled
<1>10. ASSUME NEW m \in Messages, Republish(m) PROVE MessagesFollowOrders'
BY <1>10 DEF Republish
<1>11. ASSUME NEW o \in Orders, NEW m \in Messages, Place(o, m)
  PROVE  MessagesFollowOrders'
BY <1>11 DEF Place, Owe
<1>12. ASSUME NEW o \in Orders, NEW m \in Messages, PlaceAgain(o, m)
  PROVE  MessagesFollowOrders'
BY <1>12 DEF PlaceAgain, Owe
<1>13. ASSUME NEW o \in Orders, AuthorizeStart(o) PROVE MessagesFollowOrders'
BY <1>13 DEF AuthorizeStart
<1>14. ASSUME NEW o \in Orders, AuthorizeStep(o) PROVE MessagesFollowOrders'
BY <1>14 DEF AuthorizeStep, AuthorizeAnswered, AuthorizeFind, AuthorizeWrite
<1>15. ASSUME NEW o \in Orders, Delete(o) PROVE MessagesFollowOrders'
BY <1>15 DEF Delete
<1>16. ASSUME Died PROVE MessagesFollowOrders'
BY <1>16 DEF Died, Die
<1>17. ASSUME ChannelCloses PROVE MessagesFollowOrders'
BY <1>17 DEF ChannelCloses
<1>18. ASSUME Restart PROVE MessagesFollowOrders'
BY <1>18 DEF Restart
<1>19. ASSUME UNCHANGED vars PROVE MessagesFollowOrders'
BY <1>19 DEF vars
<1> QED
  BY StepShapes, <1>1, <1>2, <1>3, <1>4, <1>5, <1>6, <1>7, <1>8, <1>9,
     <1>10, <1>11, <1>12, <1>13, <1>14, <1>15, <1>16, <1>17, <1>18, <1>19 

LEMMA ProcessedStep ==
  TypeOK /\ ProcessedMatchesStatus /\ [Next]_vars
    => ProcessedMatchesStatus'
<1> SUFFICES ASSUME TypeOK, ProcessedMatchesStatus, [Next]_vars
             PROVE  ProcessedMatchesStatus'
  OBVIOUS
<1> USE DEF TypeOK, GoTo, PayTo, rows, message, process, HasRow, Statuses, ProcessedMatchesStatus
<1>1. ASSUME NEW m \in Messages, Publish(m) PROVE ProcessedMatchesStatus'
BY <1>1 DEF Publish
<1>2. ASSUME NEW m \in Messages, Deliver(m) PROVE ProcessedMatchesStatus'
BY <1>2 DEF Deliver
<1>3. ASSUME NEW m \in Messages, Find(m) PROVE ProcessedMatchesStatus'
BY <1>3 DEF Find
<1>4. ASSUME NEW m \in Messages, Lookup(m) PROVE ProcessedMatchesStatus'
BY <1>4 DEF Lookup, AlreadyHandled
<1>5. ASSUME NEW m \in Messages, Write(m) PROVE ProcessedMatchesStatus'
BY <1>5 DEF Write, UpdateAndUpsert, StatusOf
<1>6. ASSUME NEW m \in Messages, Caught(m) PROVE ProcessedMatchesStatus'
BY <1>6 DEF Caught, CatchAndOwe, Exceeds, Bump
<1>7. ASSUME NEW m \in Messages, CaughtAfterWrite(m)
  PROVE  ProcessedMatchesStatus'
BY <1>7 DEF CaughtAfterWrite, CatchAndOwe, Exceeds, Bump, UpdateAndUpsert,
     StatusOf
<1>8. ASSUME NEW m \in Messages, DiedAfterWrite(m)
  PROVE  ProcessedMatchesStatus'
BY <1>8 DEF DiedAfterWrite, Die, UpdateAndUpsert, StatusOf
<1>9. ASSUME NEW m \in Messages, Settled(m) PROVE ProcessedMatchesStatus'
BY <1>9 DEF Settled
<1>10. ASSUME NEW m \in Messages, Republish(m) PROVE ProcessedMatchesStatus'
BY <1>10 DEF Republish
<1>11. ASSUME NEW o \in Orders, NEW m \in Messages, Place(o, m)
  PROVE  ProcessedMatchesStatus'
BY <1>11 DEF Place, Owe
<1>12. ASSUME NEW o \in Orders, NEW m \in Messages, PlaceAgain(o, m)
  PROVE  ProcessedMatchesStatus'
BY <1>12 DEF PlaceAgain, Owe
<1>13. ASSUME NEW o \in Orders, AuthorizeStart(o)
  PROVE  ProcessedMatchesStatus'
BY <1>13 DEF AuthorizeStart
<1>14. ASSUME NEW o \in Orders, AuthorizeStep(o) PROVE ProcessedMatchesStatus'
BY <1>14 DEF AuthorizeStep, AuthorizeAnswered, AuthorizeFind, AuthorizeWrite
<1>15. ASSUME NEW o \in Orders, Delete(o) PROVE ProcessedMatchesStatus'
BY <1>15 DEF Delete
<1>16. ASSUME Died PROVE ProcessedMatchesStatus'
BY <1>16 DEF Died, Die
<1>17. ASSUME ChannelCloses PROVE ProcessedMatchesStatus'
BY <1>17 DEF ChannelCloses
<1>18. ASSUME Restart PROVE ProcessedMatchesStatus'
BY <1>18 DEF Restart
<1>19. ASSUME UNCHANGED vars PROVE ProcessedMatchesStatus'
BY <1>19 DEF vars
<1> QED
  BY StepShapes, <1>1, <1>2, <1>3, <1>4, <1>5, <1>6, <1>7, <1>8, <1>9,
     <1>10, <1>11, <1>12, <1>13, <1>14, <1>15, <1>16, <1>17, <1>18, <1>19 

LEMMA AcknowledgedStep ==
  TypeOK /\ MessagesFollowOrders /\ AcknowledgedMeansHandled /\ [Next]_vars
    => AcknowledgedMeansHandled'
<1> SUFFICES ASSUME TypeOK, MessagesFollowOrders, AcknowledgedMeansHandled, [Next]_vars
             PROVE  AcknowledgedMeansHandled'
  OBVIOUS
<1> USE IdsAssumption DEF TypeOK, GoTo, PayTo, rows, message, process, HasRow, Statuses, MessagesFollowOrders, AcknowledgedMeansHandled
<1>1. ASSUME NEW m \in Messages, Publish(m) PROVE AcknowledgedMeansHandled'
BY <1>1 DEF Publish
<1>2. ASSUME NEW m \in Messages, Deliver(m) PROVE AcknowledgedMeansHandled'
BY <1>2 DEF Deliver
<1>3. ASSUME NEW m \in Messages, Find(m) PROVE AcknowledgedMeansHandled'
BY <1>3 DEF Find
<1>4. ASSUME NEW m \in Messages, Lookup(m) PROVE AcknowledgedMeansHandled'
BY <1>4 DEF Lookup, AlreadyHandled
<1>5. ASSUME NEW m \in Messages, Write(m) PROVE AcknowledgedMeansHandled'
BY <1>5 DEF Write, UpdateAndUpsert, StatusOf
<1>6. ASSUME NEW m \in Messages, Caught(m) PROVE AcknowledgedMeansHandled'
BY <1>6 DEF Caught, CatchAndOwe, Exceeds, Bump
<1>7. ASSUME NEW m \in Messages, CaughtAfterWrite(m)
  PROVE  AcknowledgedMeansHandled'
BY <1>7 DEF CaughtAfterWrite, CatchAndOwe, Exceeds, Bump, UpdateAndUpsert,
     StatusOf
<1>8. ASSUME NEW m \in Messages, DiedAfterWrite(m)
  PROVE  AcknowledgedMeansHandled'
BY <1>8 DEF DiedAfterWrite, Die, UpdateAndUpsert, StatusOf
<1>9. ASSUME NEW m \in Messages, Settled(m) PROVE AcknowledgedMeansHandled'
BY <1>9 DEF Settled
<1>10. ASSUME NEW m \in Messages, Republish(m) PROVE AcknowledgedMeansHandled'
BY <1>10 DEF Republish
<1>11. ASSUME NEW o \in Orders, NEW m \in Messages, Place(o, m)
  PROVE  AcknowledgedMeansHandled'
BY <1>11 DEF Place, Owe
<1>12. ASSUME NEW o \in Orders, NEW m \in Messages, PlaceAgain(o, m)
  PROVE  AcknowledgedMeansHandled'
BY <1>12 DEF PlaceAgain, Owe
<1>13. ASSUME NEW o \in Orders, AuthorizeStart(o)
  PROVE  AcknowledgedMeansHandled'
BY <1>13 DEF AuthorizeStart
<1>14. ASSUME NEW o \in Orders, AuthorizeStep(o)
  PROVE  AcknowledgedMeansHandled'
BY <1>14 DEF AuthorizeStep, AuthorizeAnswered, AuthorizeFind, AuthorizeWrite
<1>15. ASSUME NEW o \in Orders, Delete(o) PROVE AcknowledgedMeansHandled'
BY <1>15 DEF Delete
<1>16. ASSUME Died PROVE AcknowledgedMeansHandled'
BY <1>16 DEF Died, Die
<1>17. ASSUME ChannelCloses PROVE AcknowledgedMeansHandled'
BY <1>17 DEF ChannelCloses
<1>18. ASSUME Restart PROVE AcknowledgedMeansHandled'
BY <1>18 DEF Restart
<1>19. ASSUME UNCHANGED vars PROVE AcknowledgedMeansHandled'
BY <1>19 DEF vars
<1> QED
  BY StepShapes, <1>1, <1>2, <1>3, <1>4, <1>5, <1>6, <1>7, <1>8, <1>9,
     <1>10, <1>11, <1>12, <1>13, <1>14, <1>15, <1>16, <1>17, <1>18, <1>19 

LEMMA ExhaustedStep ==
  TypeOK /\ DeadLettersAreExhausted /\ [Next]_vars
    => DeadLettersAreExhausted'
<1> SUFFICES ASSUME TypeOK, DeadLettersAreExhausted, [Next]_vars
             PROVE  DeadLettersAreExhausted'
  OBVIOUS
<1> USE AttemptsAssumption DEF TypeOK, GoTo, PayTo, rows, message, process, HasRow, Statuses, DeadLettersAreExhausted, InProcessQueue
<1>1. ASSUME NEW m \in Messages, Publish(m) PROVE DeadLettersAreExhausted'
BY <1>1 DEF Publish
<1>2. ASSUME NEW m \in Messages, Deliver(m) PROVE DeadLettersAreExhausted'
BY <1>2 DEF Deliver
<1>3. ASSUME NEW m \in Messages, Find(m) PROVE DeadLettersAreExhausted'
BY <1>3 DEF Find
<1>4. ASSUME NEW m \in Messages, Lookup(m) PROVE DeadLettersAreExhausted'
BY <1>4 DEF Lookup, AlreadyHandled
<1>5. ASSUME NEW m \in Messages, Write(m) PROVE DeadLettersAreExhausted'
BY <1>5 DEF Write, UpdateAndUpsert, StatusOf
<1>6. ASSUME NEW m \in Messages, Caught(m) PROVE DeadLettersAreExhausted'
BY <1>6 DEF Caught, CatchAndOwe, Exceeds, Bump
<1>7. ASSUME NEW m \in Messages, CaughtAfterWrite(m)
  PROVE  DeadLettersAreExhausted'
BY <1>7 DEF CaughtAfterWrite, CatchAndOwe, Exceeds, Bump, UpdateAndUpsert,
     StatusOf
<1>8. ASSUME NEW m \in Messages, DiedAfterWrite(m)
  PROVE  DeadLettersAreExhausted'
BY <1>8 DEF DiedAfterWrite, Die, UpdateAndUpsert, StatusOf
<1>9. ASSUME NEW m \in Messages, Settled(m) PROVE DeadLettersAreExhausted'
BY <1>9 DEF Settled
<1>10. ASSUME NEW m \in Messages, Republish(m) PROVE DeadLettersAreExhausted'
BY <1>10 DEF Republish
<1>11. ASSUME NEW o \in Orders, NEW m \in Messages, Place(o, m)
  PROVE  DeadLettersAreExhausted'
BY <1>11 DEF Place, Owe
<1>12. ASSUME NEW o \in Orders, NEW m \in Messages, PlaceAgain(o, m)
  PROVE  DeadLettersAreExhausted'
BY <1>12 DEF PlaceAgain, Owe
<1>13. ASSUME NEW o \in Orders, AuthorizeStart(o)
  PROVE  DeadLettersAreExhausted'
BY <1>13 DEF AuthorizeStart
<1>14. ASSUME NEW o \in Orders, AuthorizeStep(o)
  PROVE  DeadLettersAreExhausted'
BY <1>14 DEF AuthorizeStep, AuthorizeAnswered, AuthorizeFind, AuthorizeWrite
<1>15. ASSUME NEW o \in Orders, Delete(o) PROVE DeadLettersAreExhausted'
BY <1>15 DEF Delete
<1>16. ASSUME Died PROVE DeadLettersAreExhausted'
BY <1>16 DEF Died, Die
<1>17. ASSUME ChannelCloses PROVE DeadLettersAreExhausted'
BY <1>17 DEF ChannelCloses
<1>18. ASSUME Restart PROVE DeadLettersAreExhausted'
BY <1>18 DEF Restart
<1>19. ASSUME UNCHANGED vars PROVE DeadLettersAreExhausted'
BY <1>19 DEF vars
<1> QED
  BY StepShapes, <1>1, <1>2, <1>3, <1>4, <1>5, <1>6, <1>7, <1>8, <1>9,
     <1>10, <1>11, <1>12, <1>13, <1>14, <1>15, <1>16, <1>17, <1>18, <1>19 

LEMMA FailedStep ==
  TypeOK /\ MessagesFollowOrders /\ FailedWasDeadLettered /\ [Next]_vars
    => FailedWasDeadLettered'
<1> SUFFICES ASSUME TypeOK, MessagesFollowOrders, FailedWasDeadLettered, [Next]_vars
             PROVE  FailedWasDeadLettered'
  OBVIOUS
<1> USE DEF TypeOK, GoTo, PayTo, rows, message, process, HasRow, Statuses, MessagesFollowOrders, FailedWasDeadLettered, InProcessQueue
<1>1. ASSUME NEW m \in Messages, Publish(m) PROVE FailedWasDeadLettered'
BY <1>1 DEF Publish
<1>2. ASSUME NEW m \in Messages, Deliver(m) PROVE FailedWasDeadLettered'
BY <1>2 DEF Deliver
<1>3. ASSUME NEW m \in Messages, Find(m) PROVE FailedWasDeadLettered'
BY <1>3 DEF Find
<1>4. ASSUME NEW m \in Messages, Lookup(m) PROVE FailedWasDeadLettered'
BY <1>4 DEF Lookup, AlreadyHandled
<1>5. ASSUME NEW m \in Messages, Write(m) PROVE FailedWasDeadLettered'
BY <1>5 DEF Write, UpdateAndUpsert, StatusOf
<1>6. ASSUME NEW m \in Messages, Caught(m) PROVE FailedWasDeadLettered'
BY <1>6 DEF Caught, CatchAndOwe, Exceeds, Bump
<1>7. ASSUME NEW m \in Messages, CaughtAfterWrite(m)
  PROVE  FailedWasDeadLettered'
BY <1>7 DEF CaughtAfterWrite, CatchAndOwe, Exceeds, Bump, UpdateAndUpsert,
     StatusOf
<1>8. ASSUME NEW m \in Messages, DiedAfterWrite(m)
  PROVE  FailedWasDeadLettered'
BY <1>8 DEF DiedAfterWrite, Die, UpdateAndUpsert, StatusOf
<1>9. ASSUME NEW m \in Messages, Settled(m) PROVE FailedWasDeadLettered'
BY <1>9 DEF Settled
<1>10. ASSUME NEW m \in Messages, Republish(m) PROVE FailedWasDeadLettered'
BY <1>10 DEF Republish
<1>11. ASSUME NEW o \in Orders, NEW m \in Messages, Place(o, m)
  PROVE  FailedWasDeadLettered'
BY <1>11 DEF Place, Owe
<1>12. ASSUME NEW o \in Orders, NEW m \in Messages, PlaceAgain(o, m)
  PROVE  FailedWasDeadLettered'
BY <1>12 DEF PlaceAgain, Owe
<1>13. ASSUME NEW o \in Orders, AuthorizeStart(o) PROVE FailedWasDeadLettered'
BY <1>13 DEF AuthorizeStart
<1>14. ASSUME NEW o \in Orders, AuthorizeStep(o) PROVE FailedWasDeadLettered'
BY <1>14 DEF AuthorizeStep, AuthorizeAnswered, AuthorizeFind, AuthorizeWrite
<1>15. ASSUME NEW o \in Orders, Delete(o) PROVE FailedWasDeadLettered'
BY <1>15 DEF Delete
<1>16. ASSUME Died PROVE FailedWasDeadLettered'
BY <1>16 DEF Died, Die
<1>17. ASSUME ChannelCloses PROVE FailedWasDeadLettered'
BY <1>17 DEF ChannelCloses
<1>18. ASSUME Restart PROVE FailedWasDeadLettered'
BY <1>18 DEF Restart
<1>19. ASSUME UNCHANGED vars PROVE FailedWasDeadLettered'
BY <1>19 DEF vars
<1> QED
  BY StepShapes, <1>1, <1>2, <1>3, <1>4, <1>5, <1>6, <1>7, <1>8, <1>9,
     <1>10, <1>11, <1>12, <1>13, <1>14, <1>15, <1>16, <1>17, <1>18, <1>19 

-----------------------------------------------------------------------------
(* The theorems. *)

LEMMA SafetyInit == Init => SafetyInv
  BY AttemptsAssumption
  DEF Init, SafetyInv, TypeOK, MessagesFollowOrders, ProcessedMatchesStatus,
      AcknowledgedMeansHandled, DeadLettersAreExhausted, FailedWasDeadLettered,
      InProcessQueue, Statuses

LEMMA SafetyStep == SafetyInv /\ [Next]_vars => SafetyInv'
  BY TypeStep, FollowStep, ProcessedStep, AcknowledgedStep, ExhaustedStep,
     FailedStep DEF SafetyInv

(* Whatever crashes, closed channels, failed statements, repeated requests *)
(* and deletions happen: processed_message agrees with the order's status, *)
(* no message is acknowledged for good while its order is still created,   *)
(* and dead letters are exactly the messages that used up their attempts   *)
(* (orders.worker.service.ts:34-70, orders.repo.ts:270-296).               *)
THEOREM Safety == Spec => []SafetyInv
  BY SafetyInit, SafetyStep, PTL DEF Spec

(* What processed_message says of an order is what a worker last made of   *)
(* it, and nothing of an order no worker has written                       *)
(* (orders.repo.ts:286-295).                                               *)
THEOREM Processed == Spec => []ProcessedMatchesStatus
<1>1. SafetyInv => ProcessedMatchesStatus
  BY DEF SafetyInv
<1> QED
  BY <1>1, Safety, PTL

(* No message is gone from its queue while its order is still created      *)
(* (orders.worker.service.ts:43-48).                                       *)
THEOREM Acknowledged == Spec => []AcknowledgedMeansHandled
<1>1. SafetyInv => AcknowledgedMeansHandled
  BY DEF SafetyInv
<1> QED
  BY <1>1, Safety, PTL

(* Messages are dead-lettered exactly when their attempts are used up,     *)
(* whatever crashes and redeliveries come between them                     *)
(* (orders.worker.service.ts:51-68).                                       *)
THEOREM Exhausted == Spec => []DeadLettersAreExhausted
<1>1. SafetyInv => DeadLettersAreExhausted
  BY DEF SafetyInv
<1> QED
  BY <1>1, Safety, PTL

(* Orders fail by their dead letters only (orders.worker.failed.ts:28-37). *)
THEOREM Failed == Spec => []FailedWasDeadLettered
<1>1. SafetyInv => FailedWasDeadLettered
  BY DEF SafetyInv
<1> QED
  BY <1>1, Safety, PTL

(* No worker and no late payment brings a deleted order back               *)
(* (orders.repo.ts:275-295).                                               *)
THEOREM DeletedForGood == Spec => DeletedStaysDeleted
<1>1. TypeOK /\ [Next]_vars =>
        [\A o \in Orders : status[o] = "deleted" => status'[o] = "deleted"]_vars
  <2> SUFFICES ASSUME TypeOK, [Next]_vars,
                      NEW d \in Orders, status[d] = "deleted"
               PROVE  status'[d] = "deleted"
    OBVIOUS
  <2> USE DEF TypeOK, GoTo, PayTo, rows, message, process, HasRow, Statuses
  <2>1. ASSUME NEW m \in Messages, Publish(m) PROVE status'[d] = "deleted"
  BY <2>1 DEF Publish
  <2>2. ASSUME NEW m \in Messages, Deliver(m) PROVE status'[d] = "deleted"
  BY <2>2 DEF Deliver
  <2>3. ASSUME NEW m \in Messages, Find(m) PROVE status'[d] = "deleted"
  BY <2>3 DEF Find
  <2>4. ASSUME NEW m \in Messages, Lookup(m) PROVE status'[d] = "deleted"
  BY <2>4 DEF Lookup, AlreadyHandled
  <2>5. ASSUME NEW m \in Messages, Write(m) PROVE status'[d] = "deleted"
  BY <2>5 DEF Write, UpdateAndUpsert, StatusOf
  <2>6. ASSUME NEW m \in Messages, Caught(m) PROVE status'[d] = "deleted"
  BY <2>6 DEF Caught, CatchAndOwe, Exceeds, Bump
  <2>7. ASSUME NEW m \in Messages, CaughtAfterWrite(m)
    PROVE  status'[d] = "deleted"
  BY <2>7 DEF CaughtAfterWrite, CatchAndOwe, Exceeds, Bump, UpdateAndUpsert,
       StatusOf
  <2>8. ASSUME NEW m \in Messages, DiedAfterWrite(m)
    PROVE  status'[d] = "deleted"
  BY <2>8 DEF DiedAfterWrite, Die, UpdateAndUpsert, StatusOf
  <2>9. ASSUME NEW m \in Messages, Settled(m) PROVE status'[d] = "deleted"
  BY <2>9 DEF Settled
  <2>10. ASSUME NEW m \in Messages, Republish(m) PROVE status'[d] = "deleted"
  BY <2>10 DEF Republish
  <2>11. ASSUME NEW o \in Orders, NEW m \in Messages, Place(o, m)
    PROVE  status'[d] = "deleted"
  BY <2>11 DEF Place, Owe
  <2>12. ASSUME NEW o \in Orders, NEW m \in Messages, PlaceAgain(o, m)
    PROVE  status'[d] = "deleted"
  BY <2>12 DEF PlaceAgain, Owe
  <2>13. ASSUME NEW o \in Orders, AuthorizeStart(o) PROVE status'[d] = "deleted"
  BY <2>13 DEF AuthorizeStart
  <2>14. ASSUME NEW o \in Orders, AuthorizeStep(o) PROVE status'[d] = "deleted"
  BY <2>14 DEF AuthorizeStep, AuthorizeAnswered, AuthorizeFind, AuthorizeWrite
  <2>15. ASSUME NEW o \in Orders, Delete(o) PROVE status'[d] = "deleted"
  BY <2>15 DEF Delete
  <2>16. ASSUME Died PROVE status'[d] = "deleted"
  BY <2>16 DEF Died, Die
  <2>17. ASSUME ChannelCloses PROVE status'[d] = "deleted"
  BY <2>17 DEF ChannelCloses
  <2>18. ASSUME Restart PROVE status'[d] = "deleted"
  BY <2>18 DEF Restart
  <2>19. ASSUME UNCHANGED vars PROVE status'[d] = "deleted"
  BY <2>19 DEF vars
  <2> QED
    BY StepShapes, <2>1, <2>2, <2>3, <2>4, <2>5, <2>6, <2>7, <2>8, <2>9,
       <2>10, <2>11, <2>12, <2>13, <2>14, <2>15, <2>16, <2>17, <2>18, <2>19 
<1>2. SafetyInv => TypeOK
  BY DEF SafetyInv
<1> QED
  BY <1>1, <1>2, Safety, PTL DEF Spec, DeletedStaysDeleted

-----------------------------------------------------------------------------
(* Fulfilment implements OrderLife. *)

(* Only orders somebody may authorize have an authorize under way. *)
PayersMayPay == \A o \in Orders : paying[o] # "no" => o \in Payable

LEMMA PayersStep == TypeOK /\ PayersMayPay /\ [Next]_vars => PayersMayPay'
<1> SUFFICES ASSUME TypeOK, PayersMayPay, [Next]_vars PROVE PayersMayPay'
  OBVIOUS
<1> USE DEF PayersMayPay, TypeOK, GoTo, PayTo
<1>1. CASE UNCHANGED paying
  BY <1>1
<1>2. ASSUME NEW o \in Orders, AuthorizeStart(o) PROVE PayersMayPay'
  BY <1>2 DEF AuthorizeStart
<1>3. ASSUME NEW o \in Orders, AuthorizeStep(o) PROVE PayersMayPay'
  BY <1>3 DEF AuthorizeStep, AuthorizeAnswered, AuthorizeFind, AuthorizeWrite
<1>4. CASE Die
  BY <1>4 DEF Die
<1> QED
  BY StepShapes, <1>1, <1>2, <1>3, <1>4
  DEF Publish, Deliver, Find, Lookup, Write, Caught, CaughtAfterWrite, CatchAndOwe,
      DiedAfterWrite, Died, Settled, Republish, Place, PlaceAgain, Owe, Delete,
      ChannelCloses, Restart, vars

(* What a step does to the fates, seen from the phases it leads to. *)
LEMMA FatesMove ==
  ASSUME TypeOK
  PROVE  /\ \A m \in Messages : fate[m] = FateOf(phase[m])
         /\ \A m \in Messages : phase[m] \in HandlerPhases \union {"ready"} <=> m \in Life!Pending
         /\ \A m \in Messages : phase[m] \in {"owed", "acked"} <=> m \in Life!Away
         /\ \A L \in SUBSET Messages :
              (\A m \in Messages :
                 FateOf(phase'[m]) = IF m \in L THEN "lost" ELSE FateOf(phase[m]))
                => Life!Lose(L)
  BY DEF TypeOK, fate, FateOf, Life!Pending, Life!Away, Life!Lose

(* A message changes its phase, and its fate may stay the same. *)
LEMMA OneMessageMoves ==
  ASSUME TypeOK, NEW m \in Messages, NEW p \in Phases, GoTo(m, p)
  PROVE  /\ FateOf(p) = FateOf(phase[m]) => fate' = fate /\ Life!Lose({})
         /\ p = "lost" => Life!Lose({m})
         /\ Life!Become(m, FateOf(p))
  BY DEF TypeOK, GoTo, fate, FateOf, Life!Lose, Life!Become

(* From one phase of its handling to the next, a message stays pending. *)
LEMMA MessageGoesOn ==
  ASSUME TypeOK, NEW m \in Messages,
         NEW p \in HandlerPhases \union {"ready"}, GoTo(m, p),
         phase[m] \in HandlerPhases \union {"ready"}
  PROVE  m \in Life!Pending /\ fate' = fate /\ Life!Lose({})
<1>1. FateOf(p) = FateOf(phase[m]) /\ p \in Phases
  BY DEF FateOf
<1> QED
  BY <1>1, OneMessageMoves, FatesMove

(* It arrives at the broker with its first or its next publication. *)
LEMMA MessageArrives ==
  ASSUME TypeOK, NEW m \in Messages, phase[m] \in {"owed", "acked"}, GoTo(m, "ready"),
         UNCHANGED <<status, of, attempt, queue>>
  PROVE  Life!Arrive(m)
<1>1. m \in Life!Away /\ Life!Become(m, "pending")
  BY OneMessageMoves, FatesMove DEF FateOf
<1> QED
  BY <1>1 DEF Life!Arrive, tries, InProcessQueue

(* The process takes what it had not published with it. *)
LEMMA DeathLoses ==
  ASSUME TypeOK, Die
  PROVE  Life!Lose(Life!Away)
  BY DEF TypeOK, Die, fate, FateOf, Life!Lose, Life!Away

(* The catch of a handler is a failure of the message. *)
LEMMA CatchFails ==
  ASSUME SafetyInv, NEW m \in Messages, InProcessQueue(m),
         phase[m] \in HandlerPhases, CatchAndOwe(m)
  PROVE  Life!Fail(m) /\ of' = of
<1> DEFINE dead == {x \in Messages : ~InProcessQueue(x)}
<1>0. TypeOK /\ of' = of
  BY DEF SafetyInv, CatchAndOwe
<1>1. m \in Life!Pending \ dead /\ Life!Become(m, "away")
  BY <1>0, OneMessageMoves, FatesMove DEF CatchAndOwe, FateOf
<1>2. \A x \in Messages : x # m => queue'[x] = queue[x]
  BY <1>0 DEF CatchAndOwe, TypeOK
<1>3. CASE MaxAttempts = Unset
  <2>1. queue'[m] = "orders.process.queue" /\ queue[m] = "orders.process.queue"
    BY <1>0, <1>3 DEF CatchAndOwe, TypeOK, Exceeds, InProcessQueue
  <2>2. dead' = dead
    BY <1>2, <2>1 DEF InProcessQueue
  <2>3. tries' = tries
    BY <1>3 DEF tries
  <2> QED
    BY <1>0, <1>1, <1>3, <2>2, <2>3 DEF Life!Fail
<1>4. CASE MaxAttempts # Unset
  <2>1. /\ MaxAttempts \in Nat /\ AttemptCap \in Nat /\ MaxAttempts < AttemptCap
        /\ attempt[m] \in Nat /\ attempt[m] =< MaxAttempts
    BY <1>0, <1>4, AttemptsAssumption DEF SafetyInv, TypeOK, DeadLettersAreExhausted
  <2>2. Bump(attempt[m]) = attempt[m] + 1
    BY <2>1 DEF Bump
  <2>3. tries = attempt /\ tries' = [tries EXCEPT ![m] = tries[m] + 1]
    BY <1>4, <2>2 DEF tries, CatchAndOwe
  <2>4. queue'[m] = IF attempt[m] = MaxAttempts THEN "orders.dlq.queue"
                                                ELSE "orders.process.queue"
    BY <1>0, <1>4, <2>1, <2>2 DEF CatchAndOwe, Exceeds, TypeOK
  <2>5. dead' = IF attempt[m] = MaxAttempts THEN dead \union {m} ELSE dead
    BY <1>2, <2>4 DEF InProcessQueue
  <2> QED
    BY <1>0, <1>1, <1>4, <2>3, <2>5 DEF Life!Fail
<1> QED
  BY <1>3, <1>4

LEMMA LifeStep ==
  ASSUME SafetyInv, PayersMayPay, [Next]_vars
  PROVE  [Life!Next]_(Life!vars)
<1> USE DEF Life!vars, rows, message, process, InProcessQueue
<1>0. TypeOK /\ MessagesFollowOrders
  BY DEF SafetyInv
<1>a. UNCHANGED attempt => tries' = tries
  BY DEF tries
<1>1. ASSUME NEW m \in Messages, Publish(m) PROVE Life!Arrive(m) \/ Life!LoseSome
  <2>1. CASE channelOpen
    BY <1>0, <1>1, <2>1, MessageArrives DEF Publish
  <2>2. CASE ~channelOpen
    <3>1. m \in Life!Away /\ Life!Lose({m})
      BY <1>0, <1>1, <2>2, OneMessageMoves, FatesMove DEF Publish
    <3> QED
      BY <1>a, <1>1, <3>1 DEF Publish, Life!LoseSome
  <2> QED
    BY <2>1, <2>2
<1>2. ASSUME NEW m \in Messages, Deliver(m) \/ Find(m) \/ Lookup(m)
      PROVE  UNCHANGED Life!vars
  <2>1. /\ UNCHANGED <<status, of, attempt, queue>>
        /\ phase[m] \in {"ready", "finding", "checking"}
        /\ \E p \in HandlerPhases : GoTo(m, p)
    BY <1>2 DEF Deliver, Find, Lookup
  <2>2. fate' = fate
    BY <1>0, <2>1, MessageGoesOn
  <2> QED
    BY <1>a, <2>1, <2>2
<1>16. ASSUME NEW m \in Messages, Republish(m) PROVE Life!Arrive(m)
  BY <1>0, <1>16, MessageArrives DEF Republish
<1>3. ASSUME NEW m \in Messages, Write(m) PROVE Life!Handle(m)
  <2>1. m \in Life!Pending /\ Life!Lose({})
    BY <1>0, <1>3, MessageGoesOn DEF Write
  <2>2. \E L \in SUBSET Life!Away : Life!Lose(L)
    BY <2>1
  <2> QED
    BY <1>a, <1>3, <2>1, <2>2
    DEF Write, UpdateAndUpsert, StatusOf, HasRow, Statuses, Life!Handle, Life!HasRow
<1>5. ASSUME NEW m \in Messages, Caught(m) PROVE Life!Retry(m)
  BY <1>5, CatchFails DEF Caught, Life!Retry
<1>6. ASSUME NEW m \in Messages, CaughtAfterWrite(m) PROVE Life!Handle(m)
  <2>1. Life!Fail(m) /\ of' = of
    BY <1>6, CatchFails DEF CaughtAfterWrite
  <2>2. m \in Life!Pending
    BY <2>1 DEF Life!Fail
  <2> QED
    BY <1>6, <2>1, <2>2
    DEF CaughtAfterWrite, UpdateAndUpsert, StatusOf, HasRow, Statuses,
        Life!Handle, Life!HasRow
<1>7. ASSUME NEW m \in Messages, DiedAfterWrite(m) PROVE Life!Handle(m)
  <2>1. m \in Life!Pending /\ \E L \in SUBSET Life!Away : Life!Lose(L)
    BY <1>0, <1>7, DeathLoses, FatesMove DEF DiedAfterWrite
  <2>2. UNCHANGED <<of, queue, tries>>
    BY <1>a, <1>7 DEF DiedAfterWrite, Die
  <2> QED
    BY <1>7, <2>1, <2>2
    DEF DiedAfterWrite, UpdateAndUpsert, StatusOf, HasRow, Statuses,
        Life!Handle, Life!HasRow
<1>8. ASSUME NEW m \in Messages, Settled(m) PROVE Life!Settle(m)
  <2>1. m \in Life!Pending /\ Life!Become(m, "settled")
    BY <1>0, <1>8, OneMessageMoves, FatesMove DEF Settled, FateOf
  <2> QED
    BY <1>a, <1>0, <1>8, <2>1 DEF Settled, MessagesFollowOrders, Life!Settle
<1>9. ASSUME NEW m \in Messages, NEW o \in Orders, Place(o, m) PROVE Life!Place(o, m)
  <2>1. PICK p \in {"owed", "lost"} : Owe(o, m, p)
    BY <1>9 DEF Place
  <2>2. p \in Phases /\ FateOf(p) \in {"away", "lost"} /\ phase[m] = "unused" /\ GoTo(m, p)
    BY <2>1 DEF Owe, FateOf
  <2>3. fate[m] = "unused" /\ Life!Become(m, FateOf(p))
    BY <1>0, <2>2, OneMessageMoves, FatesMove DEF FateOf
  <2>4. Life!Announce(o, m, FateOf(p))
    BY <1>a, <1>9, <2>1, <2>3 DEF Place, Owe, Life!Announce
  <2> QED
    BY <1>9, <2>2, <2>4 DEF Place, Life!Place
<1>10. ASSUME NEW m \in Messages, NEW o \in Orders, PlaceAgain(o, m)
       PROVE  Life!PlaceAgain(o, m)
  <2>0. phase[m] = "unused" /\ GoTo(m, "owed") /\ FateOf("owed") = "away"
    BY <1>10 DEF PlaceAgain, Owe, FateOf
  <2>1. fate[m] = "unused" /\ Life!Become(m, "away")
    BY <1>0, <2>0, OneMessageMoves, FatesMove DEF FateOf
  <2> QED
    BY <1>a, <1>10, <2>1
    DEF PlaceAgain, Owe, HasRow, Statuses, Life!PlaceAgain, Life!Announce, Life!HasRow
<1>11. ASSUME NEW o \in Orders, AuthorizeStart(o) \/ AuthorizeStep(o)
       PROVE  Life!Pay(o) \/ UNCHANGED Life!vars
  <2>1. CASE AuthorizeStart(o) \/ AuthorizeAnswered(o) \/ AuthorizeFind(o)
    BY <1>a, <2>1 DEF AuthorizeStart, AuthorizeAnswered, AuthorizeFind, fate
  <2>2. CASE AuthorizeWrite(o)
    BY <1>a, <2>2 DEF AuthorizeWrite, HasRow, Statuses, PayersMayPay, fate, Life!Pay, Life!HasRow
  <2> QED
    BY <1>11, <2>1, <2>2 DEF AuthorizeStep
<1>12. ASSUME NEW o \in Orders, Delete(o) PROVE Life!Delete(o)
  BY <1>a, <1>12 DEF Delete, HasRow, Statuses, fate, Life!Delete, Life!HasRow
<1>13. ASSUME Died PROVE Life!LoseSome
  <2>1. UNCHANGED <<status, of, queue, tries>>
    BY <1>a, <1>13 DEF Died, Die
  <2> QED
    BY <1>0, <1>13, <2>1, DeathLoses DEF Died, Life!LoseSome
<1>14. ASSUME ChannelCloses PROVE Life!LoseSome
  <2> DEFINE L == {x \in Messages : phase[x] = "acked"}
  <2>1. \A x \in Messages : FateOf(phase'[x]) = IF x \in L THEN "lost" ELSE FateOf(phase[x])
    BY <1>14 DEF ChannelCloses, FateOf
  <2>2. L \in SUBSET Life!Away /\ Life!Lose(L)
    BY <1>0, <2>1, FatesMove
  <2> HIDE DEF L
  <2> QED
    BY <1>a, <1>14, <2>2 DEF ChannelCloses, Life!LoseSome
<1>15. ASSUME Restart \/ UNCHANGED vars PROVE UNCHANGED Life!vars
  BY <1>a, <1>15 DEF Restart, vars, fate
<1> QED
  BY StepShapes, <1>1, <1>2, <1>3, <1>5, <1>6, <1>7, <1>8, <1>9, <1>10, <1>11, <1>12,
     <1>13, <1>14, <1>15, <1>16 DEF Life!Next

(* Handlers that interleave at every await, retries, redeliveries, crashes *)
(* and closed channels implement the order's life of OrderLife             *)
(* (orders.worker.service.ts:34-70, orders.repo.ts:270-296).               *)
THEOREM Refinement == Spec => ImplementsOrderLife
<1>1. Init => Life!Init /\ PayersMayPay
  BY DEF Init, InProcessQueue, fate, FateOf, tries, PayersMayPay, Life!Init
<1>2. SafetyInv => TypeOK
  BY DEF SafetyInv
<1> QED
  BY <1>1, <1>2, Safety, PayersStep, LifeStep, PTL
  DEF Spec, ImplementsOrderLife, Life!Spec

-----------------------------------------------------------------------------
(* Retries come to an end. *)

(* How far a message has come: through its phases, attempt by attempt. *)
Stage(p) ==
  CASE p = "unused" -> 0
    [] p \in {"owed", "acked"} -> 1
    [] p = "ready" -> 2
    [] p = "finding" -> 3
    [] p = "checking" -> 4
    [] p = "writing" -> 5
    [] p = "acking" -> 6
    [] p \in {"done", "lost"} -> 7
Rank(m) == 8 * attempt[m] + Stage(phase[m])
LastRank == 8 * (MaxAttempts + 1) + 7

Onward ==
  up' => \A m \in Messages :
           phase'[m] # phase[m] \/ attempt'[m] # attempt[m] => Rank(m) < Rank(m)'
MessagesAdvance == [][Onward]_vars

LEMMA StageType == \A p \in Phases : Stage(p) \in 0 .. 7
  BY DEF Stage

LEMMA OnwardStep ==
  SafetyInv /\ MaxAttempts # Unset /\ [Next]_vars => Onward
<1> SUFFICES ASSUME SafetyInv, MaxAttempts # Unset, [Next]_vars, up',
                    NEW q \in Messages,
                    phase'[q] # phase[q] \/ attempt'[q] # attempt[q]
             PROVE  Rank(q) < Rank(q)'
  BY DEF Onward
<1>1. /\ attempt[q] \in Nat /\ MaxAttempts \in Nat /\ MaxAttempts < AttemptCap
      /\ AttemptCap \in Nat
  BY AttemptsAssumption DEF SafetyInv, TypeOK
<1>2. /\ phase \in [Messages -> Phases] /\ attempt \in [Messages -> Nat]
  BY DEF SafetyInv, TypeOK
<1>3. ASSUME NEW m \in Messages, NEW p \in Phases, attempt' = attempt,
             phase' = [phase EXCEPT ![m] = p], Stage(phase[m]) < Stage(p)
      PROVE  Rank(q) < Rank(q)'
  <2>1. q = m /\ phase'[q] = p /\ attempt'[q] = attempt[q]
    BY <1>2, <1>3
  <2>2. Stage(phase[q]) \in Nat /\ Stage(p) \in Nat
    BY <1>2, StageType
  <2> QED
    BY <1>1, <1>3, <2>1, <2>2 DEF Rank
<1>4. ASSUME NEW m \in Messages,
             Publish(m) \/ Deliver(m) \/ Find(m) \/ Lookup(m) \/ Write(m)
               \/ Settled(m) \/ Republish(m)
      PROVE  Rank(q) < Rank(q)'
  <2>1. attempt' = attempt
    BY <1>4 DEF Publish, Deliver, Find, Lookup, Write, Settled, Republish, message
  <2>2. \E p \in Phases : /\ phase' = [phase EXCEPT ![m] = p]
                          /\ Stage(phase[m]) < Stage(p)
    BY <1>4 DEF Publish, Deliver, Find, Lookup, Write, Settled, Republish, GoTo, Stage
  <2> QED
    BY <1>3, <2>1, <2>2
<1>5. ASSUME NEW m \in Messages, Caught(m) \/ CaughtAfterWrite(m)
      PROVE  Rank(q) < Rank(q)'
  <2>1. /\ InProcessQueue(m)
        /\ attempt' = [attempt EXCEPT ![m] = Bump(attempt[m])]
        /\ phase' = [phase EXCEPT ![m] = "acked"]
    BY <1>5 DEF Caught, CaughtAfterWrite, CatchAndOwe, GoTo
  <2>2. q = m
    BY <1>2, <2>1
  <2>3. Bump(attempt[m]) = attempt[m] + 1
    BY <1>1, <2>1, <2>2 DEF SafetyInv, DeadLettersAreExhausted, Bump
  <2>4. attempt'[q] = attempt[q] + 1 /\ phase'[q] = "acked"
    BY <1>2, <2>1, <2>2, <2>3
  <2>5. Stage("acked") = 1
    BY DEF Stage
  <2>6. Stage(phase[q]) \in 0 .. 7
    BY <1>2, StageType
  <2> QED
    BY <1>1, <2>4, <2>5, <2>6 DEF Rank
<1>6. ASSUME NEW m \in Messages, NEW o \in Orders, Place(o, m) \/ PlaceAgain(o, m)
      PROVE  Rank(q) < Rank(q)'
  <2>1. /\ phase[m] = "unused" /\ attempt' = attempt
        /\ \E p \in {"owed", "lost"} : phase' = [phase EXCEPT ![m] = p]
    BY <1>6 DEF Place, PlaceAgain, Owe, GoTo
  <2>2. \A p \in {"owed", "lost"} : Stage("unused") < Stage(p)
    BY DEF Stage
  <2> QED
    BY <1>3, <2>1, <2>2
<1>7. ASSUME NEW o \in Orders, AuthorizeStart(o) \/ AuthorizeStep(o) \/ Delete(o)
      PROVE  FALSE
  BY <1>7
  DEF AuthorizeStart, AuthorizeStep, AuthorizeAnswered, AuthorizeFind,
      AuthorizeWrite, Delete, message
<1>8. ASSUME NEW m \in Messages, DiedAfterWrite(m) \/ Died PROVE FALSE
  BY <1>8 DEF DiedAfterWrite, Died, Die
<1>9. CASE ChannelCloses
  <2>1. attempt' = attempt /\ phase[q] = "acked" /\ phase'[q] = "lost"
    BY <1>9 DEF ChannelCloses, message
  <2>2. Stage("acked") = 1 /\ Stage("lost") = 7
    BY DEF Stage
  <2> QED
    BY <1>1, <2>1, <2>2 DEF Rank
<1>10. ASSUME Restart \/ UNCHANGED vars PROVE FALSE
  BY <1>10 DEF Restart, vars, message
<1> QED
  BY StepShapes, <1>4, <1>5, <1>6, <1>7, <1>8, <1>9, <1>10

(* With a configured limit and while the process stays up, a message only  *)
(* moves on: it has at most 8 * MaxAttempts + 15 steps until it is settled *)
(* or lost, whatever statements fail and whenever the channel closes; only *)
(* a dying process sets a message back (orders.worker.service.ts:51-68).   *)
THEOREM RetriesAreFinite ==
  MaxAttempts # Unset =>
    (Spec => [](\A m \in Messages : Rank(m) \in 0 .. LastRank) /\ MessagesAdvance)
<1> SUFFICES ASSUME MaxAttempts # Unset
             PROVE  Spec => /\ [](\A m \in Messages : Rank(m) \in 0 .. LastRank)
                            /\ MessagesAdvance
  OBVIOUS
<1>1. SafetyInv => \A m \in Messages : Rank(m) \in 0 .. LastRank
  <2> SUFFICES ASSUME SafetyInv, NEW m \in Messages
               PROVE  Rank(m) \in 0 .. LastRank
    OBVIOUS
  <2>1. MaxAttempts \in Nat /\ attempt[m] \in 0 .. MaxAttempts + 1
    BY AttemptsAssumption DEF SafetyInv, TypeOK, DeadLettersAreExhausted
  <2>2. Stage(phase[m]) \in 0 .. 7
    BY StageType DEF SafetyInv, TypeOK
  <2> QED
    BY <2>1, <2>2 DEF Rank, LastRank
<1>2. SafetyInv /\ [Next]_vars => Onward
  BY OnwardStep
<1> QED
  BY <1>1, <1>2, Safety, PTL DEF Spec, MessagesAdvance
=============================================================================
