----------------------------- MODULE OrderLife -----------------------------
(***************************************************************************)
(* What becomes of an order once it is placed, with no queues, handlers,   *)
(* channels or processes in sight: its messages are away (only the memory  *)
(* of some process has them) or pending (the broker keeps them) until they *)
(* are settled or lost, and only those away can be lost.  Each pending one *)
(* may set the order's status any number of times, a dead one to `failed'  *)
(* and the others to `proceed', and each failure sends it away again, on   *)
(* the failure after MaxAttempts others as a dead letter.  Pays and        *)
(* deletions come in between.  Fulfilment implements it                    *)
(* (Fulfilment!ImplementsOrderLife).                                       *)
(***************************************************************************)
EXTENDS Integers

CONSTANTS
  Orders,       \* ids of orders
  Messages,     \* messages of orders.process.exchange
  MaxAttempts,  \* failures a message survives, Unset without a limit
  Deletable,    \* orders an administrator may delete
  Payable,      \* orders somebody may authorize
  Unset         \* no value

VARIABLES
  status,     \* order.order_status; "absent" before, "deleted" after the row
  about,      \* the order of each message
  fate,       \* what has become of each message
  tries,      \* its failures, as far as a limit counts them
  dead        \* the messages that were dead-lettered

vars == <<status, about, fate, tries, dead>>

Pending == {m \in Messages : fate[m] = "pending"}
Away == {m \in Messages : fate[m] = "away"}
HasRow(o) == status[o] \in {"created", "proceed", "payed", "failed"}
Become(m, f) == fate' = [fate EXCEPT ![m] = f]

Init ==
  /\ status = [o \in Orders |-> "absent"]
  /\ about = [m \in Messages |-> Unset]
  /\ fate = [m \in Messages |-> "unused"]
  /\ tries = [m \in Messages |-> 0]
  /\ dead = {}

Announce(o, m, f) ==
  /\ fate[m] = "unused"
  /\ about' = [about EXCEPT ![m] = o]
  /\ Become(m, f)
  /\ UNCHANGED <<tries, dead>>

(* The message of a new order may be lost from the start. *)
Place(o, m) ==
  /\ status[o] = "absent"
  /\ \E f \in {"away", "lost"} : Announce(o, m, f)
  /\ status' = [status EXCEPT ![o] = "created"]

PlaceAgain(o, m) ==
  /\ HasRow(o)
  /\ Announce(o, m, "away")
  /\ UNCHANGED status

Arrive(m) ==
  /\ m \in Away
  /\ Become(m, "pending")
  /\ UNCHANGED <<status, about, tries, dead>>

Lose(L) == fate' = [m \in Messages |-> IF m \in L THEN "lost" ELSE fate[m]]
LoseSome ==
  /\ \E L \in SUBSET Away : Lose(L)
  /\ UNCHANGED <<status, about, tries, dead>>

(* A message that has failed is away again: towards the dead letters, if   *)
(* it had failed MaxAttempts times before.  A dead one never fails.        *)
Fail(m) ==
  /\ m \in Pending \ dead
  /\ Become(m, "away")
  /\ IF MaxAttempts = Unset THEN UNCHANGED <<tries, dead>>
     ELSE /\ tries' = [tries EXCEPT ![m] = tries[m] + 1]
          /\ dead' = IF tries[m] = MaxAttempts THEN dead \union {m} ELSE dead
Retry(m) == Fail(m) /\ UNCHANGED <<status, about>>

(* A message sets its order's status and stays pending.  Whoever wrote may *)
(* not learn of it, and take that for a failure, or die with what is away. *)
Handle(m) ==
  /\ m \in Pending
  /\ HasRow(about[m])
  /\ status' = [status EXCEPT ![about[m]] = IF m \in dead THEN "failed" ELSE "proceed"]
  /\ \/ Fail(m)
     \/ \E L \in SUBSET Away : Lose(L) /\ UNCHANGED <<tries, dead>>
  /\ UNCHANGED about

(* Acknowledged for good: the order has been handled. *)
Settle(m) ==
  /\ m \in Pending
  /\ status[about[m]] # "created"
  /\ Become(m, "settled")
  /\ UNCHANGED <<status, about, tries, dead>>

Pay(o) ==
  /\ o \in Payable
  /\ HasRow(o)
  /\ status' = [status EXCEPT ![o] = "payed"]
  /\ UNCHANGED <<about, fate, tries, dead>>

Delete(o) ==
  /\ o \in Deletable
  /\ HasRow(o)
  /\ status' = [status EXCEPT ![o] = "deleted"]
  /\ UNCHANGED <<about, fate, tries, dead>>

Next ==
  \/ \E m \in Messages :
       \/ Arrive(m) \/ Handle(m) \/ Retry(m) \/ Settle(m)
       \/ \E o \in Orders : Place(o, m) \/ PlaceAgain(o, m)
  \/ \E o \in Orders : Pay(o) \/ Delete(o)
  \/ LoseSome

Spec == Init /\ [][Next]_vars
=============================================================================
