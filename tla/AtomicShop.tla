----------------------------- MODULE AtomicShop -----------------------------
(***************************************************************************)
(* What the shop promises of its orders, without transactions or locks: an *)
(* order is placed, cancelled, moved and paid in one step, and each of its *)
(* conditions holds in the very state it is placed or cancelled in.        *)
(***************************************************************************)
EXTENDS Integers, Sums

CONSTANTS Users, Variants, Products, Codes, None, ProductOf,
          Orders       \* identities of orders

VARIABLES stock,       \* jars on the shelf
          sales,       \* jars ever ordered, by product
          cart,        \* what each customer's cart asks for
          cartPromo,   \* the code it carries
          orders,      \* the orders placed
          redeemed     \* which code was spent by whom, on which order

atomicVars == <<stock, sales, cart, cartPromo, orders, redeemed>>

Standing(u) == {o \in Orders : orders[o] # None /\ orders[o].user = u
                                 /\ orders[o].status # "cancelled"}
Spent(c, u) == \E x \in redeemed : x.code = c /\ x.user = u
Empty == [v \in Variants |-> 0]
JarsOf(l, p) == SumOver(l, {v \in Variants : ProductOf[v] = p})

\* The jars are there, the code is unspent, and a free first delivery is the first.
MayPlace(x) ==
    /\ x.status = "pending" /\ x.payment = "unpaid"
    /\ x.lines # Empty /\ \A v \in Variants : x.lines[v] <= stock[v]
    /\ x.promo # None => ~Spent(x.promo, x.user)
    /\ x.first => Standing(x.user) = {}

Place(o, x) ==
    /\ orders[o] = None /\ x # None /\ MayPlace(x)
    /\ orders' = [orders EXCEPT ![o] = x]
    /\ stock' = [v \in Variants |-> stock[v] - x.lines[v]]
    /\ sales' = [p \in Products |-> sales[p] + JarsOf(x.lines, p)]
    /\ redeemed' = redeemed \cup
                     {[code |-> c, user |-> x.user, order |-> o] : c \in {x.promo} \ {None}}
    /\ cart' = [cart EXCEPT ![x.user] = Empty]
    /\ cartPromo' = [cartPromo EXCEPT ![x.user] = None]

\* Only an order that has not been shipped is cancelled, once: its jars return to the shelf
\* and its code to its customer.
Cancel(o) ==
    /\ orders[o] # None /\ orders[o].status \in {"pending", "confirmed"}
    /\ orders' = [orders EXCEPT ![o].status = "cancelled"]
    /\ stock' = [v \in Variants |-> stock[v] + orders[o].lines[v]]
    /\ redeemed' = {x \in redeemed : x.order # o}
    /\ UNCHANGED <<sales, cart, cartPromo>>

\* Status and payment move forwards; cash is settled by the delivery.
Moves == {<<"pending", "confirmed">>, <<"confirmed", "shipped">>, <<"shipped", "delivered">>}
Move(o, to) ==
    /\ orders[o] # None /\ <<orders[o].status, to>> \in Moves
    /\ LET cash == to = "delivered" /\ orders[o].method = "cash_on_delivery"
                     /\ orders[o].payment = "unpaid" IN
       orders' = [orders EXCEPT ![o].status = to, ![o].payment = IF cash THEN "paid" ELSE @]
    /\ UNCHANGED <<stock, sales, cart, cartPromo, redeemed>>
Pay(o, to) ==
    /\ orders[o] # None /\ <<orders[o].payment, to>> \in {<<"unpaid", "paid">>, <<"paid", "refunded">>}
    /\ orders' = [orders EXCEPT ![o].payment = to]
    /\ UNCHANGED <<stock, sales, cart, cartPromo, redeemed>>

\* The administrator counts the shelf; a customer changes one line, or the code.
Count(v, n) ==
    /\ stock' = [stock EXCEPT ![v] = n]
    /\ UNCHANGED <<sales, cart, cartPromo, orders, redeemed>>
SetLine(u, v, n) ==
    /\ cart' = [cart EXCEPT ![u][v] = n]
    /\ UNCHANGED <<stock, sales, cartPromo, orders, redeemed>>
SetCode(u, c) ==
    /\ cartPromo' = [cartPromo EXCEPT ![u] = c]
    /\ UNCHANGED <<stock, sales, cart, orders, redeemed>>

AtomicInit ==
    /\ \A v \in Variants : stock[v] \in Nat
    /\ sales = [p \in Products |-> 0]
    /\ orders = [o \in Orders |-> None]
    /\ redeemed = {}

AtomicNext ==
    \/ \E o \in Orders : Place(o, orders'[o]) \/ Cancel(o)
    \/ \E o \in Orders : \/ \E to \in {"confirmed", "shipped", "delivered"} : Move(o, to)
                         \/ \E to \in {"paid", "refunded"} : Pay(o, to)
    \/ \E v \in Variants : stock'[v] \in Nat /\ Count(v, stock'[v])
    \/ \E u \in Users : \/ \E v \in Variants : cart'[u][v] \in Nat /\ SetLine(u, v, cart'[u][v])
                        \/ \E c \in Codes \cup {None} : SetCode(u, c)

AtomicSpec == AtomicInit /\ [][AtomicNext]_atomicVars
=============================================================================
