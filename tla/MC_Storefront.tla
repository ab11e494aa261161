--------------------------- MODULE MC_Storefront ---------------------------
(* A small instance of Storefront: with batches of two, the items of a run *)
(* fill one exactly, the products take two, all other rows one.            *)
EXTENDS Storefront, TLC

(* Times 0 and 1 are of one millisecond. *)
MCMilli == [t \in Times |-> IF t = 1 THEN 0 ELSE t]
MCDateFrom == -1

MCLength == [t \in TableNames |-> CASE t = "product" -> 3
                                    [] t = "order_item" -> 2
                                    [] OTHER -> 1]
MCItemOrder == <<1, 1>>

(* The order of the first run is between those of clients and of the second. *)
MCIdOf == [row \in OrderRows |-> CASE row[1] = 1 -> 2
                                   [] row[1] = Clients -> 1
                                   [] OTHER -> 3]
MCOrderOf == [i \in ItemRows |-> IdOf[OrderRow(i)]]
=============================================================================
