------------------------------ MODULE Payments ------------------------------
(***************************************************************************)
(* POST /orders/authorize: OrdersService.authorize calls the payments      *)
(* service over gRPC through PaymentsGrpcClient, which sends the request   *)
(* again after a transient error but not after its own timeout, and then   *)
(* writes the audit row and the status of the order, one statement at a    *)
(* time and outside any transaction.                                       *)
(*                                                                         *)
(* The payments service keeps its two maps in memory: a restart forgets    *)
(* every payment and every idempotency key (the key is the order's id).    *)
(*                                                                         *)
(* No pipe looks at the body: it may name no order, or one whose id the    *)
(* database refuses.                                                       *)
(***************************************************************************)
EXTENDS Integers

CONSTANTS
  Calls,        \* POST /orders/authorize requests
  Orders,       \* ids of orders
  NoId,         \* a body without orderId
  BadId,        \* an orderId that is no UUID
  OrderOf,      \* the orderId of each call
  PaymentIds,   \* values of randomUUID()
  MaxRetries,   \* GRPC_MAX_COUNT_RETRIES
  MaxRestarts,  \* bound of the model on restarts of the payments service
  Deletable,    \* orders an administrator may delete
  Faults,       \* what may go wrong: some of "network", "database", "crash"
  Unset         \* no value

ASSUME CallsAssumption == OrderOf \in [Calls -> Orders \union {NoId, BadId}]
ASSUME BoundsAssumption == MaxRetries \in Nat /\ MaxRestarts \in Nat
ASSUME ValuesAssumption ==
  /\ Unset \notin Orders \union PaymentIds \union {NoId, BadId}
  /\ {NoId, BadId} \cap Orders = {} /\ NoId # BadId
  /\ Deletable \subseteq Orders
  /\ Faults \subseteq {"network", "database", "crash"}

VARIABLES
  order,      \* "open", "payed" or "deleted"
  phase,      \* where each call's handler stands
  retries,    \* how often each call has sent its request again
  got,        \* the payment the current request of each call was answered with
  verdict,    \* what each call was answered
  audit,      \* rows <<call, outcome>> of audit_log
  wire,       \* requests <<call, attempt>> on their way to the payments service
  byKey,      \* idempoitencyKeyMap
  recorded,   \* keys of ordersPaymentDataMap
  paidFor,    \* history: the orderId each payment was issued for
  issuedIn,   \* history: the run of the payments service that issued it
  restarts    \* how often the payments service was restarted

vars == <<order, phase, retries, got, verdict, audit, wire, byKey, recorded,
          paidFor, issuedIn, restarts>>
handler == <<phase, retries, got, verdict, audit>>
service == <<byKey, recorded, paidFor, issuedIn, restarts>>

InHandler == {"authorizing", "backoff", "authorized", "updating", "writing", "failing"}
Phases == InHandler \union {"idle", "answered", "unanswered", "dead"}
Verdicts == {"none", "paid", "NotFound", "NotAuthorized"}

GoTo(c, p) == phase' = [phase EXCEPT ![c] = p]
Exists(o) == order[o] # "deleted"

Keys == Orders \union {NoId}

(* findOneBy({ id }): without an id the condition falls away, and any order *)
(* is found.                                                                *)
Finds(id) == \E o \in Orders : Exists(o) /\ id \in {o, NoId}

Init ==
  /\ order = [o \in Orders |-> "open"]
  /\ phase = [c \in Calls |-> "idle"]
  /\ retries = [c \in Calls |-> 0]
  /\ got = [c \in Calls |-> Unset]
  /\ verdict = [c \in Calls |-> "none"]
  /\ audit = {}
  /\ wire = {}
  /\ byKey = [k \in Keys |-> Unset]
  /\ recorded = {}
  /\ paidFor = [p \in PaymentIds |-> Unset]
  /\ issuedIn = [p \in PaymentIds |-> 0]
  /\ restarts = 0

-----------------------------------------------------------------------------
(* The handler and the gRPC client it awaits. *)

Answer(c, v) ==
  /\ verdict' = [verdict EXCEPT ![c] = v]
  /\ GoTo(c, "answered")

(* The insert of a failure row fails: the error is neither an HttpException *)
(* nor an RpcException, and HttpExceptionFilter answers only those two.     *)
InsertFails(c) ==
  /\ "database" \in Faults
  /\ GoTo(c, "unanswered")
  /\ UNCHANGED <<verdict, audit>>

Send(c, n) == wire' = wire \union {<<c, n>>}

(* The first lookup stands before the try: when the database refuses the   *)
(* id, or fails, nothing answers the call.                                 *)
LookupRejects(c) ==
  /\ phase[c] = "idle"
  /\ OrderOf[c] = BadId \/ "database" \in Faults
  /\ GoTo(c, "unanswered")
  /\ UNCHANGED <<order, retries, got, verdict, audit, wire, service>>

Start(c) ==
  /\ phase[c] = "idle"
  /\ Finds(OrderOf[c])
  /\ Send(c, 0)
  /\ GoTo(c, "authorizing")
  /\ UNCHANGED <<order, retries, got, verdict, audit, service>>

StartWithoutOrder(c) ==
  /\ phase[c] = "idle"
  /\ OrderOf[c] # BadId
  /\ ~Finds(OrderOf[c])
  /\ \/ audit' = audit \union {<<c, "failure">>} /\ Answer(c, "NotFound")
     \/ InsertFails(c)
  /\ UNCHANGED <<order, retries, got, wire, service>>

(* The answer of the current attempt arrives. *)
Receive(c) ==
  /\ phase[c] = "authorizing"
  /\ got[c] # Unset
  /\ GoTo(c, "authorized")
  /\ UNCHANGED <<order, retries, got, verdict, audit, wire, service>>

(* UNAVAILABLE or DEADLINE_EXCEEDED, whether or not the service has served *)
(* the request or still will.                                              *)
TransientError(c) ==
  /\ phase[c] = "authorizing"
  /\ "network" \in Faults
  /\ got' = [got EXCEPT ![c] = Unset]
  /\ GoTo(c, IF retries[c] < MaxRetries THEN "backoff" ELSE "failing")
  /\ wire' \in {wire, wire \ {<<c, retries[c]>>}}
  /\ UNCHANGED <<order, retries, verdict, audit, service>>

(* The back-off is over: the client sends the request again. *)
Resend(c) ==
  /\ phase[c] = "backoff"
  /\ retries' = [retries EXCEPT ![c] = retries[c] + 1]
  /\ Send(c, retries[c] + 1)
  /\ GoTo(c, "authorizing")
  /\ UNCHANGED <<order, got, verdict, audit, service>>

(* Seeded fault: an attempt has no timeout. *)
TimesOutNever(c) == FALSE /\ UNCHANGED vars

(* rxjs' TimeoutError has no code, so isTransient does not let it retry. *)
TimesOut(c) ==
  /\ phase[c] = "authorizing"
  /\ got' = [got EXCEPT ![c] = Unset]
  /\ GoTo(c, "failing")
  /\ UNCHANGED <<order, retries, verdict, audit, wire, service>>

(* Seeded fault: the success row is left to a later step. *)
AuditSuccessLater(c) ==
  /\ phase[c] = "authorized"
  /\ GoTo(c, "updating")
  /\ UNCHANGED <<order, retries, got, verdict, audit, wire, service>>

(* The success row goes in before the status of the order is written. *)
AuditSuccess(c) ==
  /\ phase[c] = "authorized"
  /\ audit' = audit \union {<<c, "success">>}
  /\ GoTo(c, "updating")
  /\ UNCHANGED <<order, retries, got, verdict, wire, service>>

(* updateOrderStatus reads the order again ... *)
FindOrder(c) ==
  /\ phase[c] = "updating"
  /\ GoTo(c, IF Finds(OrderOf[c]) THEN "writing" ELSE "failing")
  /\ UNCHANGED <<order, retries, got, verdict, audit, wire, service>>

(* ... and updates the rows with this id: one, or none if the order is gone *)
(* or the body named none (update({ id: undefined }) compares with NULL).   *)
MarkPayed(c) ==
  /\ phase[c] = "writing"
  /\ order' = [o \in Orders |-> IF o = OrderOf[c] /\ Exists(o) THEN "payed"
                                                             ELSE order[o]]
  /\ Answer(c, "paid")
  /\ UNCHANGED <<retries, got, audit, wire, service>>

(* The catch: a failure row, and 500 `Payment not authorized'. *)
Fail(c) ==
  /\ phase[c] = "failing"
  /\ \/ audit' = audit \union {<<c, "failure">>} /\ Answer(c, "NotAuthorized")
     \/ InsertFails(c)
  /\ UNCHANGED <<order, retries, got, wire, service>>

(* A statement after the call fails: the same catch. *)
StatementFails(c) ==
  /\ "database" \in Faults
  /\ phase[c] \in {"authorized", "updating", "writing"}
  /\ GoTo(c, "failing")
  /\ UNCHANGED <<order, retries, got, verdict, audit, wire, service>>

-----------------------------------------------------------------------------
(* The payments service and the environment. *)

Reply(c, n, p) ==
  got' = IF phase[c] = "authorizing" /\ retries[c] = n
         THEN [got EXCEPT ![c] = p] ELSE got

(* Seeded fault: a payment is kept under its idempotency key alone. *)
IssueUnrecorded(p, key) ==
  /\ paidFor[p] = Unset
  /\ byKey' = [byKey EXCEPT ![key] = p]
  /\ paidFor' = [paidFor EXCEPT ![p] = key]
  /\ issuedIn' = [issuedIn EXCEPT ![p] = restarts]
  /\ UNCHANGED recorded

(* A new payment, kept in both maps. *)
Issue(p, key) ==
  /\ paidFor[p] = Unset
  /\ byKey' = [byKey EXCEPT ![key] = p]
  /\ recorded' = recorded \union {p}
  /\ paidFor' = [paidFor EXCEPT ![p] = key]
  /\ issuedIn' = [issuedIn EXCEPT ![p] = restarts]

(* Seeded fault: the idempotency key is not looked up. *)
AuthorizeAnew(c, n) ==
  /\ <<c, n>> \in wire
  /\ wire' = wire \ {<<c, n>>}
  /\ \E p \in PaymentIds : Issue(p, OrderOf[c]) /\ Reply(c, n, p)
  /\ UNCHANGED <<order, phase, retries, verdict, audit, restarts>>

(* Seeded fault: all orders are authorized under one idempotency key. *)
AuthorizeOneKey(c, n) ==
  /\ <<c, n>> \in wire
  /\ wire' = wire \ {<<c, n>>}
  /\ \/ /\ \E p \in recorded : Reply(c, n, p)
        /\ UNCHANGED <<byKey, recorded, paidFor, issuedIn>>
     \/ /\ recorded = {}
        /\ \E p \in PaymentIds : Issue(p, OrderOf[c]) /\ Reply(c, n, p)
  /\ UNCHANGED <<order, phase, retries, verdict, audit, restarts>>

(* The payment kept under the idempotency key; a missing key is not looked *)
(* up (but is written).                                                    *)
Known(key) == IF key = NoId THEN Unset ELSE byKey[key]

(* PaymentsService.authorize runs to its end without an await. *)
Authorize(c, n) ==
  LET key == OrderOf[c]
  IN  /\ <<c, n>> \in wire
      /\ wire' = wire \ {<<c, n>>}
      /\ \/ /\ Known(key) # Unset
            /\ Reply(c, n, Known(key))
            /\ UNCHANGED <<byKey, recorded, paidFor, issuedIn>>
         \/ /\ Known(key) = Unset
            /\ \E p \in PaymentIds : Issue(p, key) /\ Reply(c, n, p)
      /\ UNCHANGED <<order, phase, retries, verdict, audit, restarts>>

(* PaymentsService.getPaymentStatus changes nothing ... *)
getPaymentStatus(p) == IF p \in recorded THEN "PAYMENT_AUTHORIZED" ELSE "NotFound"

(* ... and POST /orders/paymentStatus answers what it returned, or `not    *)
(* found' after any error: a timeout of the client included.               *)
StatusAnswers(p) == {getPaymentStatus(p), "NotFound"}

(* The payments service restarts with empty maps; what was on its way to   *)
(* it is lost.                                                             *)
Restart ==
  /\ restarts < MaxRestarts
  /\ restarts' = restarts + 1
  /\ byKey' = [k \in Keys |-> Unset]
  /\ recorded' = {}
  /\ wire' = {}
  /\ UNCHANGED <<order, handler, paidFor, issuedIn>>

(* The orders application dies with the calls it handles. *)
Crash ==
  /\ "crash" \in Faults
  /\ \E c \in Calls : phase[c] \in InHandler
  /\ phase' = [c \in Calls |-> IF phase[c] \in InHandler THEN "dead" ELSE phase[c]]
  /\ UNCHANGED <<order, retries, got, verdict, audit, wire, service>>

Delete(o) ==
  /\ o \in Deletable
  /\ Exists(o)
  /\ order' = [order EXCEPT ![o] = "deleted"]
  /\ UNCHANGED <<handler, wire, service>>

(* Nothing is left to do. *)
Quiescent ==
  /\ \A c \in Calls : phase[c] \in {"answered", "unanswered", "dead"}
  /\ wire = {}
  /\ UNCHANGED vars

CallStep(c) ==
  \/ Receive(c) \/ TimesOut(c) \/ Resend(c)
  \/ AuditSuccess(c) \/ FindOrder(c) \/ MarkPayed(c) \/ Fail(c)

Next ==
  \/ \E c \in Calls :
       \/ Start(c) \/ StartWithoutOrder(c) \/ LookupRejects(c) \/ CallStep(c)
       \/ TransientError(c) \/ StatementFails(c)
       \/ \E n \in 0 .. MaxRetries : Authorize(c, n)
  \/ \E o \in Orders : Delete(o)
  \/ Restart \/ Crash \/ Quiescent

Spec == Init /\ [][Next]_vars

(* Timers fire and the event loop runs every handler on; nothing is assumed *)
(* of the network or of the payments service.                               *)
FairSpec == Spec /\ \A c \in Calls : WF_vars(CallStep(c))

-----------------------------------------------------------------------------
(* Properties. *)

TypeOK ==
  /\ order \in [Orders -> {"open", "payed", "deleted"}]
  /\ phase \in [Calls -> Phases]
  /\ retries \in [Calls -> 0 .. MaxRetries]
  /\ got \in [Calls -> PaymentIds \union {Unset}]
  /\ verdict \in [Calls -> Verdicts]
  /\ audit \in SUBSET (Calls \X {"success", "failure"})
  /\ wire \in SUBSET (Calls \X (0 .. MaxRetries))
  /\ byKey \in [Keys -> PaymentIds \union {Unset}]
  /\ recorded \in SUBSET PaymentIds
  /\ paidFor \in [PaymentIds -> Keys \union {Unset}]
  /\ issuedIn \in [PaymentIds -> 0 .. MaxRestarts]
  /\ restarts \in 0 .. MaxRestarts

Issued == {p \in PaymentIds : paidFor[p] # Unset}

(* Retries, late requests and repeated calls never pay an order twice: two *)
(* payments of one order were issued by two runs of the payments service   *)
(* (payments.service.ts:24-29). A body that names no order has no such     *)
(* guard: each of its requests is a payment of its own.                    *)
OnePaymentPerOrder ==
  \A p, q \in Issued :
    paidFor[p] \in Orders /\ paidFor[p] = paidFor[q] /\ issuedIn[p] = issuedIn[q]
      => p = q

(* The payment a call goes on with is one that was issued for its order,   *)
(* even when the answer of an earlier attempt comes late                   *)
(* (payments.grpc.client.ts:53-72).                                        *)
PaymentsAreForTheirOrder ==
  \A c \in Calls : got[c] # Unset => paidFor[got[c]] = OrderOf[c]

(* An order is payed only if a payment was issued for it and a success row *)
(* says so (orders.service.ts:80-89).                                      *)
PayedWasAuthorized ==
  \A o \in Orders :
    order[o] = "payed" =>
      /\ \E p \in Issued : paidFor[p] = o
      /\ \E c \in Calls : OrderOf[c] = o /\ <<c, "success">> \in audit

(* A payment a call was answered with can be looked up until the payments  *)
(* service restarts, and never after (payments.service.ts:44-52): the      *)
(* status of an order stays payed, that of its payment is lost.            *)
StatusLastsARun ==
  \A c \in Calls :
    verdict[c] = "paid" =>
      ("PAYMENT_AUTHORIZED" \in StatusAnswers(got[c])) = (issuedIn[got[c]] = restarts)

(* The two maps agree: a payment the key map returns has its status in the *)
(* other map, and both know exactly the payments of this run               *)
(* (payments.service.ts:32-37).                                            *)
MapsAgree ==
  /\ \A k \in Keys :
       byKey[k] # Unset => byKey[k] \in recorded /\ paidFor[byKey[k]] = k
  /\ \A p \in Issued : /\ issuedIn[p] =< restarts
                       /\ p \in recorded <=> issuedIn[p] = restarts
  /\ \A p \in recorded :
       p \in Issued /\ (paidFor[p] \in Orders => byKey[paidFor[p]] = p)

(* A call is past the payments service only with a payment, and past the   *)
(* audit only with a success row; it sends again only while it may, and    *)
(* nothing at all if the database refuses its orderId.                     *)
PhasesFollowPayments ==
  \A c \in Calls :
    /\ phase[c] = "backoff" => retries[c] < MaxRetries
    /\ verdict[c] # "none" => phase[c] = "answered"
    /\ phase[c] \in {"authorized", "updating", "writing"} => got[c] # Unset
    /\ phase[c] \in {"updating", "writing"} => <<c, "success">> \in audit
    /\ verdict[c] = "paid" => got[c] # Unset /\ <<c, "success">> \in audit
    /\ OrderOf[c] = BadId => phase[c] \in {"idle", "unanswered"}
    /\ \A n \in 0 .. MaxRetries : <<c, n>> \in wire => OrderOf[c] # BadId

SafetyInv ==
  /\ TypeOK
  /\ MapsAgree
  /\ OnePaymentPerOrder
  /\ PaymentsAreForTheirOrder
  /\ PhasesFollowPayments
  /\ PayedWasAuthorized

(* Every call ends, however the network and the payments service behave:   *)
(* retries are finitely many and each attempt times out                    *)
(* (payments.grpc.client.ts:53-72). It ends without an answer only if the  *)
(* database fails or refuses its orderId (orders.service.ts:57,            *)
(* http.exception.filter.ts:34-47).                                        *)
EveryCallEnds ==
  \A c \in Calls :
    (phase[c] # "idle") ~>
      \/ phase[c] \in {"answered", "dead"}
      \/ phase[c] = "unanswered" /\ (OrderOf[c] = BadId \/ "database" \in Faults)
=============================================================================
