------------------------------ MODULE Checkout ------------------------------
(***************************************************************************)
(* POST /orders: OrdersService.createOrder and the PostgreSQL transaction  *)
(* of OrderDB.createOrder, with many requests in flight at once.           *)
(*                                                                         *)
(* Every await of the handler is a point where other requests run.  What   *)
(* the transaction reads is what other transactions have committed (READ   *)
(* COMMITTED); its own rows stay invisible until its commit; an INSERT of  *)
(* a key that an open transaction has inserted waits for that transaction; *)
(* SELECT ... FOR UPDATE waits for the row's holder; PostgreSQL aborts one *)
(* transaction of every cycle of waits.                                    *)
(*                                                                         *)
(* The callbacks of Promise.all share one connection, which runs their     *)
(* statements in the order they were issued: the SELECT of every line, in  *)
(* line order, and only then the first UPDATE.                             *)
(***************************************************************************)
EXTENDS Integers, Sequences, FiniteSets, FiniteSetsExt

CONSTANTS
  Requests,      \* HTTP requests; an order is named by the request that inserts it
  Users,         \* ids of the rows of table "user"
  Catalog,       \* ids of the rows of table "product"
  InitialStock,  \* product.quantity at start
  Bodies,        \* NewOrderReq values the clients send
  Unset,         \* a userId or idempotencyKey the body does not have
  NoOne,         \* holder of a row nobody has locked
  PoolSize       \* connections of the DataSource's pool

Undecided == "undecided"
Errors == {"NotFound", "OutOfStock", "ServerError", "Nothing"}

ASSUME RequestsAssumption ==
  /\ Requests \cap (Errors \union {Undecided}) = {}
  /\ NoOne \notin Requests
ASSUME PoolAssumption == IsFiniteSet(Requests) /\ PoolSize \in Nat \ {0}
ASSUME StockAssumption == InitialStock \in [Catalog -> Nat]
ASSUME BodiesAssumption ==
  \A b \in Bodies :
    /\ Len(b.lines) \in Nat
    /\ DOMAIN b.lines = 1 .. Len(b.lines)
    /\ \A i \in DOMAIN b.lines : b.lines[i].quantity \in Int

VARIABLES
  body,      \* the body each request carries
  pc,        \* where each request's handler stands
  line,      \* the next line of the body whose product row is to be locked
  read,      \* productDb.quantity, as each request read it under the row lock
  result,    \* what each request's handler is about to answer
  stock,     \* committed product.quantity
  live,      \* committed rows of table "order"
  placed,    \* history: every order ever committed
  pending,   \* uncommitted rows of table "order"
  lockedBy,  \* row locks on table "product"
  draft,     \* requests with an uncommitted failure row in table "audit_log"
  audit,     \* committed create_order rows of table "audit_log"
  published  \* how many messages each order has in orders.process.exchange

vars == <<body, pc, line, read, result, stock, live, placed, pending,
          lockedBy, draft, audit, published>>

Phases == {"idle", "lookup", "insert", "locking", "reread", "failing",
           "publish", "answered", "dead"}
(* Phases in which the handler has an open transaction. *)
InTransaction == {"lookup", "insert", "locking", "failing"}
InProgress == InTransaction \union {"reread", "publish"}

(* A transaction holds a connection from BEGIN to its end, the reader of a *)
(* duplicate included; whoever finds the pool empty waits.                 *)
Holders == {r \in Requests : pc[r] \in InTransaction \union {"reread"}}
ConnectionFree == Cardinality(Holders) < PoolSize

Lines(r) == body[r].lines
ProductAt(r, i) == Lines(r)[i].product
SameKey(r, o) == body[r].key = body[o].key
(* findOneBy with an undefined value has no condition: any row will do. *)
UserFound(r) == body[r].user \in Users \/ (body[r].user = Unset /\ Users # {})
Matches(r, o) == body[r].key = Unset \/ SameKey(r, o)
AllLocked(r) == line[r] > Len(Lines(r))

Init ==
  /\ body \in [Requests -> Bodies]
  /\ pc = [r \in Requests |-> "idle"]
  /\ line = [r \in Requests |-> 1]
  /\ read = [r \in Requests |-> [p \in Catalog |-> 0]]
  /\ result = [r \in Requests |-> Undecided]
  /\ stock = InitialStock
  /\ live = {}
  /\ placed = {}
  /\ pending = {}
  /\ lockedBy = [p \in Catalog |-> NoOne]
  /\ draft = {}
  /\ audit = {}
  /\ published = [r \in Requests |-> 0]

GoTo(r, phase) == pc' = [pc EXCEPT ![r] = phase]
Answer(r, v) == result' = [result EXCEPT ![r] = v]

(* The end of a transaction lets go of everything it held. *)
Release(R) ==
  /\ pending' = pending \ R
  /\ lockedBy' = [p \in Catalog |-> IF lockedBy[p] \in R THEN NoOne ELSE lockedBy[p]]
  /\ draft' = draft \ R

tables == <<stock, live, placed, audit>>
held == <<pending, lockedBy, draft>>

(* Any error but an HttpException: the transaction is undone, the answer 500. *)
AbortWithServerError(r) ==
  /\ Release({r})
  /\ Answer(r, "ServerError")
  /\ GoTo(r, "answered")
  /\ UNCHANGED <<body, line, read, tables, published>>

-----------------------------------------------------------------------------
(* The handler, step by step. *)

(* BEGIN, and the user is found. *)
FindUser(r) ==
  /\ pc[r] = "idle"
  /\ ConnectionFree
  /\ UserFound(r)
  /\ GoTo(r, "lookup")
  /\ UNCHANGED <<body, line, read, result, tables, held, published>>

(* The user is not found: a failure row is inserted and 404 thrown. *)
UserNotFound(r) ==
  /\ pc[r] = "idle"
  /\ ConnectionFree
  /\ ~UserFound(r)
  /\ draft' = draft \union {r}
  /\ Answer(r, "NotFound")
  /\ GoTo(r, "failing")
  /\ UNCHANGED <<body, line, read, tables, pending, lockedBy, published>>

(* An order with this idempotency key is already committed: return it. *)
FindExisting(r) ==
  /\ pc[r] = "lookup"
  /\ \E o \in live : Matches(r, o) /\ Answer(r, o)
  /\ GoTo(r, "publish")
  /\ UNCHANGED <<body, line, read, tables, held, published>>

(* Seeded fault: the order that is found is not returned. *)
FindNoExistingUnchecked(r) ==
  /\ pc[r] = "lookup"
  /\ GoTo(r, "insert")
  /\ UNCHANGED <<body, line, read, result, tables, held, published>>

(* There is none; the handler sleeps for half a second before it inserts. *)
FindNoExisting(r) ==
  /\ pc[r] = "lookup"
  /\ ~ \E o \in live : Matches(r, o)
  /\ GoTo(r, "insert")
  /\ UNCHANGED <<body, line, read, result, tables, held, published>>

Insertable(r) == body[r].user # Unset /\ body[r].key # Unset
KeyHolders(r) == {o \in pending : SameKey(r, o)}

(* Seeded fault: no unique index on order.idempotency_key. *)
InsertOrderUnchecked(r) ==
  /\ pc[r] = "insert"
  /\ Insertable(r)
  /\ pending' = pending \union {r}
  /\ GoTo(r, "locking")
  /\ UNCHANGED <<body, line, read, result, tables, lockedBy, draft, published>>

(* Seeded fault: the row is saved outside the transaction's manager. *)
InsertOrderOutside(r) ==
  /\ pc[r] = "insert"
  /\ Insertable(r)
  /\ KeyHolders(r) = {}
  /\ ~ \E o \in live : SameKey(r, o)
  /\ live' = live \union {r}
  /\ placed' = placed \union {r}
  /\ GoTo(r, "locking")
  /\ UNCHANGED <<body, line, read, result, stock, audit, held, published>>

(* INSERT INTO "order"; it waits for open transactions with the same key. *)
InsertOrder(r) ==
  /\ pc[r] = "insert"
  /\ Insertable(r)
  /\ KeyHolders(r) = {}
  /\ ~ \E o \in live : SameKey(r, o)
  /\ pending' = pending \union {r}
  /\ GoTo(r, "locking")
  /\ UNCHANGED <<body, line, read, result, tables, lockedBy, draft, published>>

(* user_id and idempotency_key are NOT NULL columns. *)
InsertRefused(r) ==
  /\ pc[r] = "insert"
  /\ ~Insertable(r)
  /\ AbortWithServerError(r)

(* Index_idempotency_key_unique refuses the row; the transaction is over.  *)
InsertDuplicate(r) ==
  /\ pc[r] = "insert"
  /\ Insertable(r)
  /\ KeyHolders(r) = {}
  /\ \E o \in live : SameKey(r, o)
  /\ GoTo(r, "reread")
  /\ UNCHANGED <<body, line, read, result, tables, held, published>>

(* Seeded fault: an answer that is no order is null itself. *)
RereadNull(r) ==
  /\ pc[r] = "reread"
  /\ \/ \E o \in live : SameKey(r, o) /\ Answer(r, o)
     \/ /\ ~ \E o \in live : SameKey(r, o)
        /\ Answer(r, NoOne)
  /\ GoTo(r, "publish")
  /\ UNCHANGED <<body, line, read, tables, held, published>>

(* The other order is read on another connection, while the transaction    *)
(* keeps its own; the order may be gone by now.                            *)
Reread(r) ==
  /\ pc[r] = "reread"
  /\ ConnectionFree
  /\ \/ \E o \in live : SameKey(r, o) /\ Answer(r, o)
     \/ /\ ~ \E o \in live : SameKey(r, o)
        /\ Answer(r, "Nothing")
  /\ GoTo(r, "publish")
  /\ UNCHANGED <<body, line, read, tables, held, published>>

(* Seeded fault: the row is read without FOR UPDATE. *)
LockLineUnlocked(r) ==
  LET p == ProductAt(r, line[r])
  IN  /\ pc[r] = "locking"
      /\ ~AllLocked(r)
      /\ p \in Catalog
      /\ read' = [read EXCEPT ![r][p] = stock[p]]
      /\ line' = [line EXCEPT ![r] = line[r] + 1]
      /\ UNCHANGED <<body, pc, result, tables, held, published>>

(* SELECT ... FOR UPDATE of the next line's product. *)
LockLine(r) ==
  LET p == ProductAt(r, line[r])
  IN  /\ pc[r] = "locking"
      /\ ~AllLocked(r)
      /\ \/ /\ p \in Catalog
            /\ lockedBy[p] \in {NoOne, r}
            /\ lockedBy' = [lockedBy EXCEPT ![p] = r]
            /\ read' = [read EXCEPT ![r][p] = stock[p]]
         \/ /\ p \notin Catalog
            /\ UNCHANGED <<lockedBy, read>>
      /\ line' = [line EXCEPT ![r] = line[r] + 1]
      /\ UNCHANGED <<body, pc, result, tables, pending, draft, published>>

(* The verdict of one callback of Promise.all on its line. *)
Missing(r, i) == ProductAt(r, i) \notin Catalog
(* Seeded fault: the remaining quantity is compared with one too few. *)
ShortOffByOne(r, i) == ~Missing(r, i) /\ read[r][ProductAt(r, i)] - Lines(r)[i].quantity < -1
Short(r, i) == ~Missing(r, i) /\ read[r][ProductAt(r, i)] - Lines(r)[i].quantity < 0
Bad(r, i) == Missing(r, i) \/ Short(r, i)
FirstBad(r, i) ==
  /\ i \in DOMAIN Lines(r)
  /\ Bad(r, i)
  /\ \A j \in DOMAIN Lines(r) : Bad(r, j) => i =< j

(* The first callback that throws decides the answer. *)
Refuse(r) ==
  /\ pc[r] = "locking"
  /\ AllLocked(r)
  /\ \E i \in DOMAIN Lines(r) :
       /\ FirstBad(r, i)
       /\ Answer(r, IF Missing(r, i) THEN "NotFound" ELSE "OutOfStock")
  /\ draft' = draft \union {r}
  /\ GoTo(r, "failing")
  /\ UNCHANGED <<body, line, read, tables, pending, lockedBy, published>>

(* Seeded fault: the transaction is left open after an error. *)
RollbackForgotten(r) ==
  /\ pc[r] = "failing"
  /\ GoTo(r, "answered")
  /\ UNCHANGED <<body, line, read, result, tables, held, published>>

(* The exception leaves the transaction's callback: ROLLBACK. *)
Rollback(r) ==
  /\ pc[r] = "failing"
  /\ Release({r})
  /\ GoTo(r, "answered")
  /\ UNCHANGED <<body, line, read, result, tables, published>>

(* Each line writes what it read minus its own quantity, in line order. *)
LastLineOf(r, p) ==
  CHOOSE i \in DOMAIN Lines(r) :
    /\ ProductAt(r, i) = p
    /\ \A j \in DOMAIN Lines(r) : ProductAt(r, j) = p => j =< i
StockAfter(r) ==
  [p \in Catalog |->
     IF \E i \in DOMAIN Lines(r) : ProductAt(r, i) = p
     THEN read[r][p] - Lines(r)[LastLineOf(r, p)].quantity
     ELSE stock[p]]

(* UPDATE product, INSERT order_item, the success audit row, COMMIT. *)
ApplyAndCommit(r) ==
  /\ pc[r] = "locking"
  /\ AllLocked(r)
  /\ \A i \in DOMAIN Lines(r) : ~Bad(r, i)
  /\ stock' = StockAfter(r)
  /\ live' = live \union {r}
  /\ placed' = placed \union {r}
  /\ audit' = audit \union {<<r, "success">>}
  /\ Release({r})

Commit(r) ==
  /\ ApplyAndCommit(r)
  /\ Answer(r, r)
  /\ GoTo(r, "publish")
  /\ UNCHANGED <<body, line, read, published>>

(* The connection breaks after COMMIT took effect: the handler sees an error. *)
CommitUnacknowledged(r) ==
  /\ ApplyAndCommit(r)
  /\ Answer(r, "ServerError")
  /\ GoTo(r, "answered")
  /\ UNCHANGED <<body, line, read, published>>

(* Seeded fault: orders returned to a repeated request are not published. *)
PublishOnlyOwn(r) ==
  /\ pc[r] = "publish"
  /\ published' = [o \in Requests |-> published[o] + (IF result[r] = o /\ o = r THEN 1 ELSE 0)]
  /\ GoTo(r, "answered")
  /\ UNCHANGED <<body, line, read, result, tables, held>>

(* OrdersService.createOrder: publish unless there is no order, then answer. *)
PublishAndAnswer(r) ==
  /\ pc[r] = "publish"
  /\ published' = [o \in Requests |-> published[o] + (IF result[r] = o THEN 1 ELSE 0)]
  /\ GoTo(r, "answered")
  /\ UNCHANGED <<body, line, read, result, tables, held>>

(* ch.publish throws on a closed channel: 500, whatever was committed. *)
PublishThrows(r) ==
  /\ pc[r] = "publish"
  /\ result[r] \in Requests
  /\ Answer(r, "ServerError")
  /\ GoTo(r, "answered")
  /\ UNCHANGED <<body, line, read, tables, held, published>>

-----------------------------------------------------------------------------
(* What can go wrong around it. *)

(* Any statement may fail; the error is not an HttpException: 500. *)
StatementFails(r) ==
  /\ pc[r] \in InTransaction \union {"reread"}
  /\ AbortWithServerError(r)

WaitsFor(r, o) ==
  /\ o # r
  /\ \/ pc[r] = "insert" /\ Insertable(r) /\ o \in KeyHolders(r)
     \/ /\ pc[r] = "locking"
        /\ ~AllLocked(r)
        /\ ProductAt(r, line[r]) \in Catalog
        /\ lockedBy[ProductAt(r, line[r])] = o

(* Nobody waits for two holders, so a set in which everybody waits for and *)
(* is waited for by a member is a union of cycles.                         *)
InCycle(r) ==
  \E S \in SUBSET Requests :
    /\ r \in S
    /\ \A q \in S : (\E o \in S : WaitsFor(q, o)) /\ (\E o \in S : WaitsFor(o, q))

(* PostgreSQL's deadlock detector picks a victim. *)
DeadlockVictim(r) ==
  /\ InCycle(r)
  /\ AbortWithServerError(r)

(* The process dies: its transactions are rolled back, nobody is answered. *)
Crash ==
  /\ \E r \in Requests : pc[r] \in InProgress
  /\ pc' = [r \in Requests |-> IF pc[r] \in InProgress THEN "dead" ELSE pc[r]]
  /\ Release({r \in Requests : pc[r] \in InProgress})
  /\ UNCHANGED <<body, line, read, result, tables, published>>

(* OrderDB.deleteOrder commits; order_item rows go with the order, the     *)
(* stock they took does not come back.                                     *)
DeleteOrder(o) ==
  /\ o \in live
  /\ ConnectionFree
  /\ live' = live \ {o}
  /\ UNCHANGED <<body, pc, line, read, result, stock, placed, audit, held, published>>

(* Every request has been dealt with. *)
Quiescent ==
  /\ \A r \in Requests : pc[r] \in {"answered", "dead"}
  /\ UNCHANGED vars

Step(r) ==
  \/ FindUser(r) \/ UserNotFound(r)
  \/ FindExisting(r) \/ FindNoExisting(r)
  \/ InsertOrder(r) \/ InsertRefused(r) \/ InsertDuplicate(r) \/ Reread(r)
  \/ LockLine(r) \/ Refuse(r) \/ Rollback(r)
  \/ Commit(r) \/ PublishAndAnswer(r)

Next ==
  \/ \E r \in Requests :
       \/ Step(r)
       \/ CommitUnacknowledged(r) \/ PublishThrows(r)
       \/ StatementFails(r) \/ DeadlockVictim(r)
       \/ DeleteOrder(r)
  \/ Crash
  \/ Quiescent

Spec == Init /\ [][Next]_vars

(* A started handler is never abandoned by the event loop, and PostgreSQL  *)
(* breaks every deadlock.  Clients owe us no requests.                     *)
FairSpec ==
  /\ Spec
  /\ \A r \in Requests : WF_vars(pc[r] # "idle" /\ Step(r))
  /\ \A r \in Requests : WF_vars(DeadlockVictim(r))
-----------------------------------------------------------------------------
(* Properties. *)

TypeOK ==
  /\ body \in [Requests -> Bodies]
  /\ pc \in [Requests -> Phases]
  /\ line \in [Requests -> Nat \ {0}]
  /\ read \in [Requests -> [Catalog -> Int]]
  /\ result \in [Requests -> Requests \union Errors \union {Undecided}]
  /\ stock \in [Catalog -> Int]
  /\ live \in SUBSET Requests
  /\ placed \in SUBSET Requests
  /\ pending \in SUBSET Requests
  /\ lockedBy \in [Catalog -> Requests \union {NoOne}]
  /\ draft \in SUBSET Requests
  /\ audit \in SUBSET (Requests \X {"success", "failure"})
  /\ published \in [Requests -> Nat]

(* The stock is never sold below zero, however requests interleave, crash  *)
(* or repeat a product (orders.repo.ts:185, under the lock of line 160).   *)
NonNegativeStock == \A p \in Catalog : stock[p] >= 0

(* Two orders with one idempotency key are never both in the table, not    *)
(* even while one of them is uncommitted (orders.repo.ts:115-153).         *)
OneLiveOrderPerKey ==
  \A o1, o2 \in live \union pending : SameKey(o1, o2) => o1 = o2

(* Every row lock belongs to a transaction that is still open: no error    *)
(* path leaves a product locked (the commit or rollback of line 89).       *)
LocksHaveOpenTransaction ==
  \A p \in Catalog :
    lockedBy[p] # NoOne => /\ lockedBy[p] \in pending
                           /\ pc[lockedBy[p]] \in {"locking", "failing"}

(* What a handler read of a product is still the committed quantity when   *)
(* it decides and writes (productDb.quantity, orders.repo.ts:158 to 216).  *)
ReadsAreCurrent ==
  \A r \in Requests :
    pc[r] = "locking" =>
      \A i \in DOMAIN Lines(r) :
        (i < line[r] /\ ProductAt(r, i) \in Catalog) =>
          /\ lockedBy[ProductAt(r, i)] = r
          /\ read[r][ProductAt(r, i)] = stock[ProductAt(r, i)]

(* A request refused with 404 or 400, or answered with nothing, has no     *)
(* order in the table and never had one (orders.repo.ts:89, rollback).     *)
RefusedLeavesNoTrace ==
  \A r \in Requests :
    (pc[r] = "answered" /\ result[r] \in {"NotFound", "OutOfStock", "Nothing"})
      => r \notin placed \union pending

(* A request answered with an order got one that was committed, has its    *)
(* key, and has been published at least once (orders.service.ts:121-153).  *)
AnsweredOrderIsPublished ==
  \A r \in Requests :
    (pc[r] = "answered" /\ result[r] \in Requests)
      => /\ result[r] \in placed
         /\ Matches(r, result[r])
         /\ published[result[r]] > 0

(* The pool is never held by readers of duplicates alone, who all wait for *)
(* another connection: somebody can always finish and give one back        *)
(* (orders.repo.ts:150-152; ten by default, app.module.ts:52-81).          *)
PoolNeverStarves == Cardinality({r \in Requests : pc[r] = "reread"}) < PoolSize

Quantities(o) == [i \in DOMAIN Lines(o) |-> Lines(o)[i].quantity]
Demand(o, p) ==
  SumFunctionOnSet(Quantities(o), {i \in DOMAIN Lines(o) : ProductAt(o, i) = p})
Sold(p) == SumFunctionOnSet([o \in Requests |-> Demand(o, p)], placed)

(* Together the orders ever placed never take more of a product than there *)
(* was (the 400 of orders.repo.ts:185-212).                                *)
NeverOversold == \A p \in Catalog : Sold(p) =< InitialStock[p]

(* Whatever left the stock is in an order, and the reverse: no quantity is *)
(* lost or sold twice between concurrent transactions (orders.repo.ts:181).*)
StockIsExact == \A p \in Catalog : stock[p] + Sold(p) = InitialStock[p]

(* A product's quantity changes only when an order with a line for it is   *)
(* placed, and by exactly that line's quantity, counted from the value     *)
(* committed at that moment (orders.repo.ts:181, 214-217).                 *)
StockMovesWithOrders ==
  [][\A p \in Catalog :
       stock'[p] # stock[p] =>
         \E r \in Requests :
           /\ r \notin placed /\ placed' = placed \union {r}
           /\ \E i \in DOMAIN Lines(r) :
                /\ ProductAt(r, i) = p
                /\ stock'[p] = stock[p] - Lines(r)[i].quantity]_vars

(* Every request that started is answered, or died with its process: row   *)
(* locks, key waits and deadlocks never hang it (orders.repo.ts:87-250).   *)
EveryRequestEnds ==
  \A r \in Requests : (pc[r] # "idle") ~> (pc[r] \in {"answered", "dead"})

(* No lock, key or connection keeps the handler from its next statement. *)
CanGoOn(r) ==
  \/ pc[r] \in {"lookup", "failing", "publish"}
  \/ pc[r] = "insert" /\ (Insertable(r) => KeyHolders(r) = {})
  \/ pc[r] = "reread" /\ ConnectionFree
  \/ pc[r] = "locking" /\ ~AllLocked(r) /\
       (ProductAt(r, line[r]) \in Catalog => lockedBy[ProductAt(r, line[r])] \in {NoOne, r})
  \/ pc[r] = "locking" /\ AllLocked(r) /\
       \/ \E i \in DOMAIN Lines(r) : FirstBad(r, i)
       \/ \A i \in DOMAIN Lines(r) : ~Bad(r, i)

(* While requests are in progress one of them can go on, or is in a cycle  *)
(* PostgreSQL breaks: they never all wait for what nobody will let go of,  *)
(* a row, a key or a connection (orders.repo.ts:115-163, the ends of 89).  *)
NobodyIsStuck ==
  (\E r \in Requests : pc[r] \in InProgress) =>
    \E r \in Requests : pc[r] \in InProgress /\ (CanGoOn(r) \/ InCycle(r))

(* A body names each product at most once; nothing in the code checks it.  *)
OneLinePerProduct ==
  \A b \in Bodies : \A i, j \in DOMAIN b.lines :
    b.lines[i].product = b.lines[j].product => i = j

-----------------------------------------------------------------------------
(* The inductive invariant: what the safety properties rest on. *)

(* The uncommitted order rows are those of the open transactions. *)
PendingIsOpen ==
  \A r \in Requests :
    /\ pc[r] = "locking" => r \in pending
    /\ r \in pending => pc[r] \in {"locking", "failing"}

(* No line is dealt with before the order row is inserted. *)
LinesStartAtFirst ==
  \A r \in Requests : pc[r] \in {"idle", "lookup", "insert"} => line[r] = 1

(* A request has a verdict from the moment it is decided, and only then. *)
VerdictMatchesPhase ==
  \A r \in Requests :
    /\ pc[r] \in {"idle", "lookup", "insert", "locking", "reread"}
         => result[r] = Undecided
    /\ pc[r] = "failing" => result[r] \in {"NotFound", "OutOfStock"}

(* Order rows are inserted for users that exist, under a key. *)
RowsAreInsertable ==
  \A r \in Requests :
    /\ pc[r] \in {"lookup", "insert", "locking"} => UserFound(r)
    /\ r \in pending => Insertable(r)

(* A committed order's own request is past its transaction, and its answer *)
(* is that order or a 500.                                                 *)
PlacedIsDecided ==
  /\ live \subseteq placed
  /\ \A r \in placed : /\ pc[r] \in {"publish", "answered", "dead"}
                       /\ result[r] \in {r, "ServerError"}

(* An answer that is an order is a committed one the lookup could return.  *)
AnswersArePlaced ==
  \A r \in Requests :
    result[r] \in Requests =>
      /\ pc[r] \in {"publish", "answered", "dead"}
      /\ result[r] \in placed
      /\ Matches(r, result[r])

(* Whoever will find a duplicate was past its lookup, on a connection of   *)
(* its own, when the original committed, and so was the original.          *)
Doomed ==
  {r \in Requests : \/ pc[r] = "reread"
                    \/ pc[r] = "insert" /\ \E o \in live : SameKey(r, o)}
PoolInv ==
  /\ Cardinality(Holders) =< PoolSize
  /\ Cardinality(Doomed) < PoolSize

SafetyInv ==
  /\ TypeOK
  /\ PendingIsOpen
  /\ LinesStartAtFirst
  /\ VerdictMatchesPhase
  /\ RowsAreInsertable
  /\ LocksHaveOpenTransaction
  /\ ReadsAreCurrent
  /\ OneLiveOrderPerKey
  /\ NonNegativeStock
  /\ PlacedIsDecided
  /\ AnswersArePlaced
  /\ AnsweredOrderIsPublished

(* Checkout implements the one-step specification of POST /orders, for     *)
(* bodies that name a product at most once.                                *)
Store == INSTANCE OrderStore WITH outcome <- result
ImplementsOrderStore == Store!Spec
=============================================================================
