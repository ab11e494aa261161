---------------------------- MODULE Storefront -----------------------------
(***************************************************************************)
(* What a client of a freshly deployed shop sees: the Job of Seeding fills *)
(* the tables, OrdersPages walks through the orders it finds and those     *)
(* placed since, and the loaders of Loaders add the items to each page.    *)
(* Seeding and OrdersPages look at one table "order": what the Job and the *)
(* clients insert and delete there enters and leaves the walk's view, and  *)
(* the loaders find the rows of "order_item" that are left.  A walk can    *)
(* begin once a user has a role, and goes on while the Job runs again.     *)
(***************************************************************************)
EXTENDS OrdersPages, Seeding, Loaders

CONSTANT IdOf  \* the id of each row of "order" that may come to be

OrderRows == ((1 .. MaxRuns) \X (1 .. Length["order"])) \union ({Clients} \X (1 .. MaxPlaced))
ItemRows == ((1 .. MaxRuns) \X (1 .. Length["order_item"])) \union ({Clients} \X (1 .. MaxPlaced))

ASSUME StorefrontAssumption ==
  /\ IdOf \in [OrderRows -> Orders]
  /\ \A a, b \in OrderRows : IdOf[a] = IdOf[b] => a = b
  /\ Items = ItemRows /\ Null \notin Items /\ IsFiniteSet(Items)
  /\ OrderOf = [i \in ItemRows |-> IdOf[OrderRow(i)]]

vars == <<pagesVars, seedVars>>

Init == PagesInit /\ SeedInit

(* The rows a step inserts into "order" get times of T. *)
NewOrders == {IdOf[row] : row \in rows'["order"] \ rows["order"]}
Appear(T) ==
  \E when \in [NewOrders -> T], status \in Statuses : Insert(NewOrders, when, status)

(* The Dates of the Job have whole milliseconds, now() has not. *)
JobStep == JobNext /\ Appear({Milli[t] : t \in 0 .. clock})
ClientStep ==
  \/ \E n \in 1 .. MaxPlaced : PlaceOrder(n) /\ Appear(0 .. clock)
  \/ \E order \in rows["order"] : DeleteOrder(order) /\ Drop(IdOf[order])

(* ordersFiltered is for users with a role; so is what changes a status. *)
WalkStep ==
  /\ Tick \/ (Open /\ (WalkNext \/ \E o \in Orders : Change(o)))
  /\ UNCHANGED seedVars

Next == JobStep \/ ClientStep \/ WalkStep

Spec == Init /\ [][Next]_vars /\ WF_seedVars(SeedStep)

-----------------------------------------------------------------------------
(* Properties. *)

(* The items of a set of orders. *)
ItemsOf(O) == {i \in rows["order_item"] : OrderOf[i] \in O}

(* The n-th result of a loader belongs to the n-th key, in whatever order  *)
(* the database finds the rows and whichever orders were deleted, with     *)
(* their items, since the page was read: one item of that order or that    *)
(* very row, and nothing only if there is nothing (data.loader.ts:34-84).  *)
LoadedAreAligned ==
  step = "answering" =>
    LET keys == SetToSeq(OnPage)
        present == {o \in OnPage : stage[o] # "deleted"}
    IN  /\ \A found \in SetToSeqs(ItemsOf(OnPage)) :
             LET loaded == getOptimizedOrderItems(keys, found)
             IN  /\ Len(loaded) = Len(keys)
                 /\ \A n \in DOMAIN keys :
                      /\ loaded[n] \subseteq ItemsOf({keys[n]} \cap present)
                      /\ loaded[n] = {} => ItemsOf({keys[n]}) = {}
        /\ \A found \in SetToSeqs(present) :
             LET loaded == byKey(keys, found)
             IN  /\ Len(loaded) = Len(keys)
                 /\ \A n \in DOMAIN keys :
                      loaded[n] = IF keys[n] \in present THEN keys[n] ELSE Null

-----------------------------------------------------------------------------
(* The inductive invariant of the two together. *)

(* The two parts agree on the rows of "order": the walk can see exactly    *)
(* those that were inserted and not deleted since.                         *)
TablesAgree ==
  /\ rows["order"] \subseteq OrderRows /\ rows["order_item"] \subseteq ItemRows
  /\ \A row \in OrderRows :
       /\ stage[IdOf[row]] \in Statuses <=> row \in rows["order"]
       /\ stage[IdOf[row]] = "deleted" <=> row \in gone["order"]
StorefrontInv == PagesInv /\ SeedInv /\ TablesAgree
=============================================================================
