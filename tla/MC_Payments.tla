---------------------------- MODULE MC_Payments ----------------------------
(* Small instances of Payments: two calls compete for one order, beside    *)
(* calls that name no order or none the database accepts.                  *)
EXTENDS Payments, TLC

CONSTANTS c1, c2, c3, o1, o2

(* Two calls about o1; the third has no orderId. *)
MCOrderOf == [c \in Calls |-> IF c = c3 THEN NoId ELSE o1]
Symmetry == Permutations(PaymentIds) \union Permutations({c1, c2})

(* One call of each kind. *)
MCOrderOfEach == [c \in Calls |-> CASE c = c1 -> o1 [] c = c2 -> NoId [] OTHER -> BadId]
=============================================================================
