----------------------------- MODULE MCCheckout -----------------------------
(* Small shops for TLC: one line of definitions per constant and run.      *)
EXTENDS Checkout, TLC

CONSTANTS u1, u2, c1, r1, r2, r3, r4

OneUser == {u1}
TwoUsers == {u1, u2}
TwoRequests == {r1, r2}
ThreeRequests == {r1, r2, r3}
FourRequests == {r1, r2, r3, r4}
AnyRequest == Permutations(Requests)

\* One jar size of one product, or up to four sizes of two products whose ids
\* interleave (1 and 3 are product 10, 2 and 4 product 20).
ProductsOfSizes == [v \in Variants |-> IF v \in {1, 3} THEN 10 ELSE 20]
Stock1 == [v \in Variants |-> 1]
StockUneven == [v \in Variants |-> IF v \in {1, 4} THEN 2 ELSE 1]
Stock2 == [v \in Variants |-> 2]
Price1 == [v \in Variants |-> 1]

Basket(S) == [v \in Variants |-> IF v \in S THEN 1 ELSE 0]
SameBaskets == {[u \in Users |-> Basket(Variants)]}
OwnBaskets == {[u \in Users |-> Basket(IF u = u1 THEN {1} ELSE {2})]}
CrossBaskets == {(u1 :> Basket({1, 4})) @@ (u2 :> Basket({2, 3}))}
SameOrCross == CrossBaskets \cup {[u \in Users |-> Basket({1, 2})]}
NoCode == {[u \in Users |-> None]}
EachCode == {[u \in Users |-> c1]}
OneOrBoth == EachCode \cup {[u \in Users |-> IF u = u1 THEN c1 ELSE None]}

Cap1 == [c \in Codes |-> [state |-> "live", cap |-> 1, floor |-> 1]]
Uncapped == [c \in Codes |-> [state |-> "live", cap |-> None, floor |-> 0]]

\* Dram orders are offered cash on delivery, the others a bank transfer.
CashMarket == {"cash_on_delivery"}
DollarMarket == {"bank_transfer"}

Never == {}
RefillU1 == {<<u1, 1, 1>>}          \* one customer fills the cart again
RefillU1Other == {<<u1, 2, 1>>}     \* ... or puts the other jar into it
ApplyU1 == {<<u1, c1>>}
Restock == {<<1, 2, 1>>}            \* the variant form: stock 2, price 1
RenewedCode == {<<c1, Uncapped[c1]>>}   \* the code is given another term
AnyDesk == Statuses \cup Payments
Confirmation == {"confirmed"}
CancelFirst == {<<r1, u1>>}
OwnCancels == Requests \X {u1}
U1Cancels == Requests \X {u1, None}     \* ... and the admin's
AnyCancel == Requests \X (Users \cup {None})
=============================================================================
