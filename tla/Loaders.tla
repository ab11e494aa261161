------------------------------ MODULE Loaders ------------------------------
(***************************************************************************)
(* The DataLoaders behind the fields orderItems, user and product: each    *)
(* takes the keys one tick of a GraphQL query has collected, reads their   *)
(* rows with one SELECT and must return one result per key, in the order   *)
(* of the keys.  `found' is what the SELECT returned, in any order; it has *)
(* no ORDER BY.                                                            *)
(***************************************************************************)
EXTENDS Sequences, SequencesExt

CONSTANTS
  Items,    \* ids of the rows of table "order_item"
  OrderOf,  \* order_item.order_id
  Null      \* the result for a key without a row

(* A Map made of the rows keeps the last row of each key: `own' are those  *)
(* with that key.                                                          *)
LastIn(found, own) ==
  LET places == {n \in DOMAIN found : found[n] \in own}
  IN  IF places = {} THEN Null ELSE found[Max(places)]

(* Seeded fault: the results are in the order the rows were found in. *)
getOptimizedOrderItemsAsFound(orderIds, found) ==
  [n \in 1 .. Len(found) |-> {found[n]}]

(* getOptimizedOrderItems: of the items of an order, only that one. *)
getOptimizedOrderItems(orderIds, found) ==
  [n \in DOMAIN orderIds |->
     {LastIn(found, {i \in Items : OrderOf[i] = orderIds[n]})} \ {Null}]

(* getOptimizedUsers and getOptimizedProducts, whose rows are their keys. *)
byKey(keys, found) ==
  [n \in DOMAIN keys |-> LastIn(found, {keys[n]})]
=============================================================================
