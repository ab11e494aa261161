----------------------------- MODULE MC_Checkout -----------------------------
(* Small instances of Checkout.  Two products, whose stock does not cover  *)
(* all requests, bought in opposite orders and under shared keys.          *)
EXTENDS Checkout, TLC

CONSTANTS r1, r2, r3, u1, p1, p2, k1, k2

Row(p, q) == [product |-> p, quantity |-> q]
Order(u, k, rows) == [user |-> u, key |-> k, lines |-> rows]

MCStock == p1 :> 2 @@ p2 :> 1

Both     == Order(u1, k1, <<Row(p1, 1), Row(p2, 1)>>)
Reversed == Order(u1, k2, <<Row(p2, 1), Row(p1, 1)>>)
Single   == Order(u1, k2, <<Row(p1, 2)>>)
Stranger == Order("nobody", k1, <<Row(p1, 1)>>)
Unlisted == Order(u1, k1, <<Row(p1, 1), Row("nothing", 1)>>)
Returned == Order(u1, k2, <<Row(p2, -1)>>)
Empty    == Order(u1, k1, <<>>)
Repeated == Order(u1, k1, <<Row(p1, 2), Row(p1, 1)>>)
Keyless  == Order(u1, Unset, <<Row(p1, 1)>>)
Userless == Order(Unset, k1, <<Row(p1, 1)>>)

(* Bodies that name each product once, and those that need not.            *)
PlainBodies == {Both, Reversed, Single, Stranger, Unlisted, Returned, Empty,
                Keyless, Userless}
RepeatedBodies == {Repeated, Both, Reversed}

(* Requests are interchangeable. *)
Symmetry == Permutations(Requests)
=============================================================================
