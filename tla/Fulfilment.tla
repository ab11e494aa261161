----------------------------- MODULE Fulfilment -----------------------------
(***************************************************************************)
(* The life of an order after POST /orders committed it: its message goes  *)
(* through orders.process.queue to OrdersWorkerService, is retried with a  *)
(* growing attempt count, and ends in orders.dlq.queue, whose consumer is  *)
(* OrdersWorkerFailed.  POST /orders/authorize and DELETE /orders write    *)
(* the same row meanwhile.  One process runs all of them; it shares one    *)
(* channel, without publisher confirms, and consumes without a prefetch.   *)
(*                                                                         *)
(* RabbitmqService.consume does not await the handlers, so the handlers of *)
(* different messages interleave at every await, and a rejected handler is *)
(* an unhandled rejection, which ends the process.                         *)
(***************************************************************************)
EXTENDS Integers

CONSTANTS
  Orders,          \* ids of orders
  Messages,        \* messages, each republished under its own identity
  MaxAttempts,     \* RABBITMQ_MAX_ATTEMPTS, Unset if not configured
  AttemptCap,      \* bound of the model on message.attempt
  SimulateErrors,  \* values RABBITMQ_SIMULATE_CONSUME_ERRORS may have
  Deletable,       \* orders an administrator may delete
  Payable,         \* orders somebody may authorize
  Faults,          \* what may go wrong: some of "crash", "channel", "database"
  Unset,           \* no value
  GeneratedId      \* a primary key uuid_generate_v4() gives a processed_message

ASSUME AttemptsAssumption ==
  /\ AttemptCap \in Nat
  /\ MaxAttempts # Unset => MaxAttempts \in Nat /\ MaxAttempts < AttemptCap
ASSUME IdsAssumption == GeneratedId \notin Orders /\ Unset \notin Orders
ASSUME EnvironmentAssumption ==
  /\ SimulateErrors \subseteq BOOLEAN
  /\ Deletable \subseteq Orders /\ Payable \subseteq Orders
  /\ Faults \subseteq {"crash", "channel", "database"}

VARIABLES
  status,       \* order.order_status; "absent" before, "deleted" after the row
  processed,    \* processed_message.handler of each order, "none" without a row
  of,           \* the order a message is about (its orderId and messageId)
  attempt,      \* message.attempt
  queue,        \* the queue a message is in, or is about to be published to
  phase,        \* how far the message has come
  paying,       \* the POST /orders/authorize of each order
  simulate,     \* the value RABBITMQ_SIMULATE_CONSUME_ERRORS has
  channelOpen,  \* the process's channel
  up            \* the process is running

vars == <<status, processed, of, attempt, queue, phase, paying, simulate,
          channelOpen, up>>

Statuses == {"created", "proceed", "payed", "failed"}
HandlerPhases == {"finding", "checking", "writing", "acking"}
Phases == {"unused", "owed", "ready", "acked", "done", "lost"} \union HandlerPhases
PayPhases == {"no", "authorizing", "finding", "writing"}

HasRow(o) == status[o] \in Statuses
InProcessQueue(m) == queue[m] = "orders.process.queue"
GoTo(m, p) == phase' = [phase EXCEPT ![m] = p]
PayTo(o, p) == paying' = [paying EXCEPT ![o] = p]

Init ==
  /\ status = [o \in Orders |-> "absent"]
  /\ processed = [o \in Orders |-> "none"]
  /\ of = [m \in Messages |-> Unset]
  /\ attempt = [m \in Messages |-> 0]
  /\ queue = [m \in Messages |-> "orders.process.queue"]
  /\ phase = [m \in Messages |-> "unused"]
  /\ paying = [o \in Orders |-> "no"]
  /\ simulate \in SimulateErrors
  /\ channelOpen = TRUE
  /\ up = TRUE

rows == <<status, processed>>
message == <<of, attempt, queue>>
process == <<simulate, channelOpen, up>>

-----------------------------------------------------------------------------
(* POST /orders, from its commit on (Checkout has what comes before). *)

Owe(o, m, p) ==
  /\ up
  /\ phase[m] = "unused"
  /\ of' = [of EXCEPT ![m] = o]
  /\ GoTo(m, p)

(* The order is committed; under a database fault its author may not learn *)
(* so, and then publishes nothing.                                         *)
Place(o, m) ==
  /\ status[o] = "absent"
  /\ \/ Owe(o, m, "owed")
     \/ "database" \in Faults /\ Owe(o, m, "lost")
  /\ status' = [status EXCEPT ![o] = "created"]
  /\ UNCHANGED <<processed, attempt, queue, paying, process>>

(* The same idempotency key again: the order found is published again. *)
PlaceAgain(o, m) ==
  /\ HasRow(o)
  /\ Owe(o, m, "owed")
  /\ UNCHANGED <<rows, attempt, queue, paying, process>>

(* publishToExchange throws on a closed channel; the request answers 500. *)
Publish(m) ==
  /\ up
  /\ phase[m] = "owed"
  /\ GoTo(m, IF channelOpen THEN "ready" ELSE "lost")
  /\ UNCHANGED <<rows, message, paying, process>>

-----------------------------------------------------------------------------
(* The consumers of both queues. *)

Deliver(m) ==
  /\ up /\ channelOpen
  /\ phase[m] = "ready"
  /\ GoTo(m, "finding")
  /\ UNCHANGED <<rows, message, paying, process>>

Simulated(m) == simulate /\ InProcessQueue(m)

(* Seeded fault: the message is acknowledged before the work. *)
FindAcksFirst(m) ==
  /\ up
  /\ phase[m] = "finding"
  /\ GoTo(m, "done")
  /\ UNCHANGED <<rows, message, paying, process>>

(* updateOrderStatus: the order is read ... *)
Find(m) ==
  /\ up
  /\ phase[m] = "finding"
  /\ ~Simulated(m)
  /\ HasRow(of[m])
  /\ GoTo(m, "checking")
  /\ UNCHANGED <<rows, message, paying, process>>

(* ... then a processed_message is looked up by its primary key `id', with *)
(* the messageId of the message, which is the id of the order ...          *)
AlreadyHandled(m) == \E o \in Orders : processed[o] # "none" /\ GeneratedId = of[m]

Lookup(m) ==
  /\ up
  /\ phase[m] = "checking"
  /\ GoTo(m, IF AlreadyHandled(m) THEN "acking" ELSE "writing")
  /\ UNCHANGED <<rows, message, paying, process>>

StatusOf(m) == IF InProcessQueue(m) THEN "proceed" ELSE "failed"

(* Seeded fault: save() inserts the row again if it has been deleted. *)
UpdateAndUpsertResurrecting(m) ==
  /\ status' = [status EXCEPT ![of[m]] = StatusOf(m)]
  /\ processed' = [processed EXCEPT ![of[m]] = StatusOf(m)]
(* Seeded fault: the upsert is left to a later step that may not happen. *)
UpdateWithoutUpsert(m) ==
  /\ HasRow(of[m])
  /\ status' = [status EXCEPT ![of[m]] = StatusOf(m)]
  /\ UNCHANGED processed
(* ... and one transaction updates the order and upserts its               *)
(* processed_message; the foreign key refuses a deleted order.             *)
UpdateAndUpsert(m) ==
  /\ HasRow(of[m])
  /\ status' = [status EXCEPT ![of[m]] = StatusOf(m)]
  /\ processed' = [processed EXCEPT ![of[m]] = StatusOf(m)]

Write(m) ==
  /\ up
  /\ phase[m] = "writing"
  /\ UpdateAndUpsert(m)
  /\ GoTo(m, "acking")
  /\ UNCHANGED <<message, paying, process>>

(* The process dies: the broker delivers unacknowledged messages again,    *)
(* and publications that had not left the process are lost.                *)
Die ==
  /\ up' = FALSE
  /\ phase' = [m \in Messages |->
                 IF phase[m] \in HandlerPhases THEN "ready"
                 ELSE IF phase[m] \in {"owed", "acked"} THEN "lost" ELSE phase[m]]
  /\ paying' = [o \in Orders |-> "no"]
  /\ UNCHANGED <<message, simulate, channelOpen>>

(* Seeded fault: the limit is read from a variable nobody sets. *)
ExceedsNever(n) == FALSE
Exceeds(n) == MaxAttempts # Unset /\ n > MaxAttempts
Bump(n) == IF n < AttemptCap THEN n + 1 ELSE n

(* Seeded fault: the dead letter is sent one attempt too early. *)
CatchAndOweTooEarly(m) ==
  /\ attempt' = [attempt EXCEPT ![m] = Bump(attempt[m])]
  /\ queue' = [queue EXCEPT ![m] = IF Exceeds(Bump(Bump(attempt[m])))
                                   THEN "orders.dlq.queue"
                                   ELSE "orders.process.queue"]
  /\ GoTo(m, "acked")
  /\ UNCHANGED <<of, paying, process>>

(* The catch of OrdersWorkerService.handleMessage: acknowledge, and owe the *)
(* message with its next attempt to the process or the dead letter queue.   *)
CatchAndOwe(m) ==
  /\ attempt' = [attempt EXCEPT ![m] = Bump(attempt[m])]
  /\ queue' = [queue EXCEPT ![m] = IF Exceeds(Bump(attempt[m]))
                                   THEN "orders.dlq.queue"
                                   ELSE "orders.process.queue"]
  /\ GoTo(m, "acked")
  /\ UNCHANGED <<of, paying, process>>

(* OrdersWorkerFailed.handleMessage catches nothing, and the catch itself  *)
(* throws when the channel is closed: the rejection is unhandled.          *)
Catch(m) ==
  \/ InProcessQueue(m) /\ channelOpen /\ CatchAndOwe(m)
  \/ ~(InProcessQueue(m) /\ channelOpen) /\ Die

(* The errors the code itself throws: the simulated one, and no such order. *)
Throws(m) ==
  /\ up
  /\ \/ phase[m] = "finding" /\ Simulated(m)
     \/ phase[m] \in {"finding", "writing"} /\ ~HasRow(of[m])
  /\ Catch(m)
  /\ UNCHANGED rows

(* A statement fails, or succeeds without the process learning of it. *)
StatementFails(m) ==
  /\ up
  /\ "database" \in Faults
  /\ phase[m] \in {"finding", "checking", "writing"}
  /\ Catch(m)
  /\ \/ UNCHANGED rows
     \/ phase[m] = "writing" /\ UpdateAndUpsert(m)

(* ch.ack(msg) after the transaction; on a closed channel it throws. *)
Ack(m) ==
  /\ up
  /\ phase[m] = "acking"
  /\ \/ channelOpen /\ GoTo(m, "done") /\ UNCHANGED <<message, paying, process>>
     \/ ~channelOpen /\ Die
  /\ UNCHANGED rows

(* The publication that follows the acknowledgement reaches the broker. *)
Republish(m) ==
  /\ up
  /\ phase[m] = "acked"
  /\ GoTo(m, "ready")
  /\ UNCHANGED <<rows, message, paying, process>>

-----------------------------------------------------------------------------
(* POST /orders/authorize and DELETE /orders. *)

AuthorizeStart(o) ==
  /\ up
  /\ o \in Payable
  /\ paying[o] = "no"
  /\ HasRow(o)
  /\ PayTo(o, "authorizing")
  /\ UNCHANGED <<rows, message, phase, process>>

(* The payments service answers (Payments has the call), or never well. *)
AuthorizeAnswered(o) ==
  /\ up
  /\ paying[o] = "authorizing"
  /\ \E p \in {"finding", "no"} : PayTo(o, p)
  /\ UNCHANGED <<rows, message, phase, process>>

AuthorizeFind(o) ==
  /\ up
  /\ paying[o] = "finding"
  /\ PayTo(o, IF HasRow(o) THEN "writing" ELSE "no")
  /\ UNCHANGED <<rows, message, phase, process>>

(* Seeded fault: the payment is recorded like a worker's message. *)
AuthorizeWriteRecorded(o) ==
  /\ up
  /\ paying[o] = "writing"
  /\ HasRow(o)
  /\ status' = [status EXCEPT ![o] = "payed"]
  /\ processed' = [processed EXCEPT ![o] = "payed"]
  /\ PayTo(o, "no")
  /\ UNCHANGED <<message, phase, process>>

(* UPDATE ... WHERE id: of no row, if the order is gone by now. *)
AuthorizeWrite(o) ==
  /\ up
  /\ paying[o] = "writing"
  /\ status' = IF HasRow(o) THEN [status EXCEPT ![o] = "payed"] ELSE status
  /\ PayTo(o, "no")
  /\ UNCHANGED <<processed, message, phase, process>>

(* The order's processed_message goes with it (ON DELETE CASCADE). *)
Delete(o) ==
  /\ up
  /\ o \in Deletable
  /\ HasRow(o)
  /\ status' = [status EXCEPT ![o] = "deleted"]
  /\ processed' = [processed EXCEPT ![o] = "none"]
  /\ UNCHANGED <<message, phase, paying, process>>

-----------------------------------------------------------------------------
(* The environment. *)

Crash ==
  /\ up
  /\ "crash" \in Faults
  /\ Die
  /\ UNCHANGED rows

(* The broker closes the connection: the process stays up and never opens  *)
(* another one.  What it had not flushed is lost.                          *)
ChannelCloses ==
  /\ up /\ channelOpen
  /\ "channel" \in Faults
  /\ channelOpen' = FALSE
  /\ phase' = [m \in Messages |-> IF phase[m] = "acked" THEN "lost" ELSE phase[m]]
  /\ UNCHANGED <<rows, message, paying, simulate, up>>

(* The Deployment restarts the container; onModuleInit connects again. *)
Restart ==
  /\ ~up
  /\ up' = TRUE
  /\ channelOpen' = TRUE
  /\ UNCHANGED <<rows, message, phase, paying, simulate>>

(* Nothing is under way: every message is settled, or nobody consumes. *)
Idle ==
  /\ up
  /\ \A m \in Messages :
       \/ phase[m] \in {"unused", "done", "lost"}
       \/ phase[m] = "ready" /\ ~channelOpen
  /\ \A o \in Orders : paying[o] = "no"
  /\ UNCHANGED vars

MessageStep(m) ==
  \/ Publish(m) \/ Deliver(m) \/ Find(m) \/ Lookup(m) \/ Write(m)
  \/ Throws(m) \/ Ack(m) \/ Republish(m)

AuthorizeStep(o) == AuthorizeAnswered(o) \/ AuthorizeFind(o) \/ AuthorizeWrite(o)

Next ==
  \/ \E m \in Messages :
       \/ MessageStep(m)
       \/ StatementFails(m)
       \/ \E o \in Orders : Place(o, m) \/ PlaceAgain(o, m)
  \/ \E o \in Orders :
       \/ AuthorizeStart(o) \/ AuthorizeStep(o)
       \/ Delete(o)
  \/ Crash \/ ChannelCloses \/ Restart
  \/ Idle

Spec == Init /\ [][Next]_vars

(* The event loop runs every started handler on, the broker delivers what  *)
(* is ready, and the Deployment restarts its container.                    *)
FairSpec ==
  /\ Spec
  /\ \A m \in Messages : WF_vars(MessageStep(m))
  /\ \A o \in Orders : WF_vars(AuthorizeStep(o))
  /\ WF_vars(Restart)

-----------------------------------------------------------------------------
(* Properties. *)

TypeOK ==
  /\ status \in [Orders -> Statuses \union {"absent", "deleted"}]
  /\ processed \in [Orders -> {"none", "proceed", "failed"}]
  /\ of \in [Messages -> Orders \union {Unset}]
  /\ attempt \in [Messages -> 0 .. AttemptCap]
  /\ queue \in [Messages -> {"orders.process.queue", "orders.dlq.queue"}]
  /\ phase \in [Messages -> Phases]
  /\ paying \in [Orders -> PayPhases]
  /\ simulate \in SimulateErrors
  /\ channelOpen \in BOOLEAN
  /\ up \in BOOLEAN

(* The row of processed_message tells what a worker last made of the order *)
(* (the transaction of orders.repo.ts:286-295): none has written an order  *)
(* that is still created or is gone.                                       *)
ProcessedMatchesStatus ==
  \A o \in Orders :
    /\ status[o] \in {"absent", "created", "deleted"} => processed[o] = "none"
    /\ status[o] \in {"proceed", "failed"} => processed[o] = status[o]

(* A message is not acknowledged for good while its order is still created *)
(* (ch.ack after the await, orders.worker.service.ts:43-48).               *)
AcknowledgedMeansHandled ==
  \A m \in Messages : phase[m] = "done" => status[of[m]] # "created"

(* A message is retried MaxAttempts times and dead-lettered on the next    *)
(* failure, redeliveries after a crash included                            *)
(* (orders.worker.service.ts:51-68).                                       *)
DeadLettersAreExhausted ==
  MaxAttempts # Unset =>
    \A m \in Messages :
      IF InProcessQueue(m) THEN attempt[m] =< MaxAttempts
                           ELSE attempt[m] = MaxAttempts + 1

(* An order is failed only if one of its messages was dead-lettered        *)
(* (orders.worker.failed.ts:28-37).                                        *)
FailedWasDeadLettered ==
  \A o \in Orders :
    status[o] = "failed" => \E m \in Messages : of[m] = o /\ ~InProcessQueue(m)

(* A message in use is about an order that was placed, and is acknowledged *)
(* only after the order has left its first status; one that is not in use  *)
(* has been in no dead letter queue.                                       *)
MessagesFollowOrders ==
  \A m \in Messages :
    /\ IF phase[m] = "unused" THEN InProcessQueue(m)
       ELSE of[m] \in Orders /\ status[of[m]] # "absent"
    /\ phase[m] = "acking" => status[of[m]] # "created"

(* What the safety properties rest on, and they themselves. *)
SafetyInv ==
  /\ TypeOK
  /\ MessagesFollowOrders
  /\ ProcessedMatchesStatus
  /\ AcknowledgedMeansHandled
  /\ DeadLettersAreExhausted
  /\ FailedWasDeadLettered

(* A late message or payment never brings a deleted order back             *)
(* (orders.repo.ts:275-295).                                               *)
DeletedStaysDeleted ==
  [][\A o \in Orders : status[o] = "deleted" => status'[o] = "deleted"]_vars

(* The order's life as OrderLife tells it: queues, redeliveries, crashes   *)
(* and closed channels make no difference to an order but when and how     *)
(* often its messages are handled.  None is lost but before its first or   *)
(* between two publications, and none is dead-lettered before its attempts *)
(* are used up (orders.worker.service.ts:34-70, orders.repo.ts:270-296).   *)
FateOf(p) == CASE p \in {"unused", "lost"}  -> p
               [] p = "done"              -> "settled"
               [] p \in {"owed", "acked"} -> "away"
               [] OTHER                   -> "pending"
fate == [m \in Messages |-> FateOf(phase[m])]
tries == IF MaxAttempts = Unset THEN [m \in Messages |-> 0] ELSE attempt
Life == INSTANCE OrderLife
          WITH about <- of, dead <- {m \in Messages : ~InProcessQueue(m)}
ImplementsOrderLife == Life!Spec

(* Once the process and its channel stay up, whatever has gone wrong       *)
(* before, and whatever statements still fail: every message the broker    *)
(* has is settled in the end, its retries being finitely many              *)
(* (orders.worker.service.ts:53) ...                                       *)
StaysUp == <>[](up /\ channelOpen)
RetriesEnd ==
  StaysUp => \A m \in Messages : (phase[m] = "ready") ~> (phase[m] \in {"done", "lost"})

(* ... and every order leaves its first status, unless one of its messages *)
(* was lost on the way between two queues or to the first                  *)
(* (orders.service.ts:130-143, orders.worker.service.ts:49-68).            *)
DecidedUnlessLost ==
  StaysUp =>
    \A o \in Orders :
      (status[o] = "created")
        ~> \/ status[o] # "created"
           \/ \E m \in Messages : of[m] = o /\ phase[m] = "lost"

(* Every order is proceeded, failed, payed or deleted in the end, once the *)
(* process has stopped crashing (README.md:46).                            *)
EveryOrderIsDecided ==
  <>[]up => \A o \in Orders : (status[o] = "created") ~> (status[o] # "created")

(* A payed order stays payed (README.md:53). *)
PayedStaysPayed ==
  [][\A o \in Orders : status[o] = "payed" => status'[o] \in {"payed", "deleted"}]_vars
=============================================================================
