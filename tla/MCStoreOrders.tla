--------------------------- MODULE MCStoreOrders ---------------------------
(* Small instances of StoreOrders for TLC. *)
EXTENDS StoreOrders, TLC

CONSTANTS u1, u2, p1, p2, v1, v2

\* p1 is plain; p2, in some instances, carries a special action.
PerProduct(a, b) == [p \in Products |-> IF p = p1 THEN a ELSE b]
MCOwner       == PerProduct(v1, v2)
MCPrice       == PerProduct(2, 3)
NoCredit      == PerProduct(0, 0)
CreditP2      == PerProduct(0, 1)
LastUnits     == PerProduct(1, 1)
TwoUnits      == PerProduct(4, 2)
FewUnits      == PerProduct(2, 1)
OneWallet     == [u \in Users |-> IF u = u1 THEN 9 ELSE 0]
BasketsBoth   == {PerProduct(1, 0), PerProduct(2, 1)}
BasketsPair   == {PerProduct(2, 1)}
BasketsSecond == {PerProduct(0, 1)}

\* Requests of one kind are interchangeable.
Symmetry == Permutations(Checkouts) \cup Permutations(StatusRequests)
            \cup Permutations(Editors)

\* The units of p all existing orders ask for.
Ordered(p) == Units(Asked(p), {o \in Checkouts : orders[o] # "none"})

\* Claim of the backend contract and of the repository's tests: no line's stock
\* is reserved twice, so all reservations together stay within the orders.
NoDoubleReservation ==
  \A p \in Products \ Unlimited : stock[p] + Cardinality(Ordered(p)) >= InitStock[p]

=============================================================================
