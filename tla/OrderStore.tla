----------------------------- MODULE OrderStore -----------------------------
(***************************************************************************)
(* What POST /orders promises, with no transactions in sight: every        *)
(* request is decided in one step.  It places an order and takes its whole *)
(* demand out of the stock, or hands back the live order that already has  *)
(* its idempotency key (any order, if it has none), or is refused for a    *)
(* reason that holds at that very moment, or fails without a verdict.      *)
(* This is a promise about bodies that name each product at most once;     *)
(* for them Checkout implements it (Checkout!ImplementsOrderStore).        *)
(***************************************************************************)
EXTENDS Integers, Sequences

CONSTANTS
  Requests,      \* the HTTP requests; an order is named by the request that placed it
  Users,         \* rows of table "user"
  Catalog,       \* rows of table "product"
  InitialStock,  \* product.quantity at start
  Bodies,        \* request bodies a client may send
  Unset          \* the key of a body that has none

VARIABLES
  body,          \* the body of each request
  stock,         \* product.quantity
  live,          \* rows of table "order"
  placed,        \* every order ever placed, deleted ones included
  outcome        \* the verdict on each request

vars == <<body, stock, live, placed, outcome>>

Undecided == "undecided"
Errors == {"NotFound", "OutOfStock", "ServerError", "Nothing"}

LinesFor(b, p) == {i \in DOMAIN b.lines : b.lines[i].product = p}
(* What the body asks of product p. *)
Demand(b, p) ==
  IF LinesFor(b, p) = {} THEN 0
  ELSE b.lines[CHOOSE i \in LinesFor(b, p) : TRUE].quantity

KeyTaken(r) == \E o \in live : body[o].key = body[r].key

Covered(r) ==
  /\ \A i \in DOMAIN body[r].lines : body[r].lines[i].product \in Catalog
  /\ \A p \in Catalog : Demand(body[r], p) =< stock[p]

Init ==
  /\ body \in [Requests -> Bodies]
  /\ stock = InitialStock
  /\ live = {}
  /\ placed = {}
  /\ outcome = [r \in Requests |-> Undecided]

Decide(r, v) ==
  /\ outcome[r] = Undecided
  /\ outcome' = [outcome EXCEPT ![r] = v]

(* The order is placed; its author is told so, or is told nothing useful. *)
Place(r) ==
  /\ body[r].user \in Users
  /\ ~KeyTaken(r)
  /\ Covered(r)
  /\ \E v \in {r, "ServerError"} : Decide(r, v)
  /\ stock' = [p \in Catalog |-> stock[p] - Demand(body[r], p)]
  /\ live' = live \union {r}
  /\ placed' = placed \union {r}
  /\ UNCHANGED body

ReturnExisting(r) ==
  /\ \E o \in live : body[r].key \in {body[o].key, Unset} /\ Decide(r, o)
  /\ UNCHANGED <<body, stock, live, placed>>

RefuseUnknown(r) ==
  /\ \/ body[r].user \notin Users
     \/ \E i \in DOMAIN body[r].lines : body[r].lines[i].product \notin Catalog
  /\ Decide(r, "NotFound")
  /\ UNCHANGED <<body, stock, live, placed>>

RefuseStock(r) ==
  /\ \E p \in Catalog : Demand(body[r], p) > stock[p]
  /\ Decide(r, "OutOfStock")
  /\ UNCHANGED <<body, stock, live, placed>>

GiveUp(r) ==
  /\ \E v \in {"ServerError", "Nothing"} : Decide(r, v)
  /\ UNCHANGED <<body, stock, live, placed>>

(* There was a verdict, but something failed before it was delivered. *)
LoseAnswer(r) ==
  /\ outcome[r] \notin {Undecided, "ServerError"}
  /\ outcome' = [outcome EXCEPT ![r] = "ServerError"]
  /\ UNCHANGED <<body, stock, live, placed>>

Delete(o) ==
  /\ o \in live
  /\ live' = live \ {o}
  /\ UNCHANGED <<body, stock, placed, outcome>>

Next ==
  \E r \in Requests :
    \/ Place(r) \/ ReturnExisting(r)
    \/ RefuseUnknown(r) \/ RefuseStock(r)
    \/ GiveUp(r) \/ LoseAnswer(r) \/ Delete(r)

Spec == Init /\ [][Next]_vars
=============================================================================
