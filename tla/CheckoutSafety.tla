--------------------------- MODULE CheckoutSafety ---------------------------
(***************************************************************************)
(* What the row locks of Checkout buy, for every set of customers,         *)
(* variants, codes and requests: no oversold jar, one free first delivery, *)
(* no redemption refused by the unique index, no cancellation overtaken,   *)
(* no delivered cash order unpaid, no checkouts waiting in a circle.       *)
(* LockInv says who holds which row; the other invariants rest on it.      *)
(***************************************************************************)
EXTENDS CheckoutProofs, SumFacts

-----------------------------------------------------------------------------
(* What a step may do to which variable.                                   *)

RequestStep(r) ==
  Arrive(r) \/ CheckoutStep(r) \/ CancelStep(r) \/ Abort(r) \/ BreakDeadlock(r)

Places(r) == CommitOrder(r) /\ ~RedemptionConflict(r)

\* A request leaves every other request's state, and its locks, alone.
OthersUntouched(r) ==
  \A q \in Requests \ {r} :
    /\ pc'[q] = pc[q] /\ job'[q] = job[q] /\ lines'[q] = lines[q] /\ quote'[q] = quote[q]
    /\ \A row \in Rows : lock'[row] = q <=> lock[row] = q

\* Until it ends, a request keeps the locks it has.
OwnLocksKept(r) == \A row \in Rows : lock[row] = r => lock'[row] = r

\* The rows of a well-typed request are in the lock table.
LEMMA RowTypes ==
  /\ \A u \in Users : UserRow(u) \in Rows
  /\ \A v \in Variants : VariantRow(v) \in Rows
  /\ \A c \in Codes : PromoRow(c) \in Rows
  /\ \A p \in Products : ProductRow(p) \in Rows
  /\ \A o \in Requests : OrderRow(o) \in Rows
BY DEF UserRow, VariantRow, PromoRow, ProductRow, OrderRow, Rows

\* An unheld lock is not mistaken for a request.
LEMMA NoneIsNoRequest == None \notin Requests
BY NoneIsFresh

\* Taking a row changes the owner of that row alone.
LEMMA TakeFrame ==
  ASSUME TypeInv, NEW r \in Requests, NEW row \in Rows, Take(r, row)
  PROVE  /\ lock'[row] = r
         /\ OwnLocksKept(r)
         /\ \A q \in Requests \ {r} : \A x \in Rows : lock'[x] = q <=> lock[x] = q
BY NoneIsNoRequest DEF TypeInv, TransactionTypeOK, Take, Free, OwnLocksKept

\* COMMIT and ROLLBACK free the transaction's rows and no other.
LEMMA EndFrame ==
  ASSUME TypeInv, NEW r \in Requests, NEW outcome \in Ended, End(r, outcome)
  PROVE  /\ pc'[r] = outcome
         /\ OthersUntouched(r)
<1>1. /\ pc' = [pc EXCEPT ![r] = outcome] /\ job' = [job EXCEPT ![r] = NoJob]
      /\ lines' = [lines EXCEPT ![r] = NoLines] /\ quote' = [quote EXCEPT ![r] = NoQuote]
  BY DEF End, Goto
<1>2. \A q \in Requests \ {r} : \A x \in Rows : lock'[x] = q <=> lock[x] = q
  BY NoneIsNoRequest DEF End, Release
<1> QED
  BY <1>1, <1>2 DEF TypeInv, TransactionTypeOK, OthersUntouched

\* A refusal is a rollback: it leaves every row of the shop as it was.
LEMMA RefuseFrame ==
  ASSUME TypeInv, NEW r \in Requests, Refuse(r)
  PROVE  pc'[r] = "failed" /\ OthersUntouched(r) /\ UNCHANGED shopVars
BY EndFrame DEF Refuse, Ended

\* The statements that wait for a row name a row of the database.
LEMMA WaitsForRows ==
  ASSUME TypeInv, NEW r \in Requests
  PROVE  /\ pc[r] \in {"lock_user", "read_cart"} \cup AfterReadCart => UserRow(job[r].user) \in Rows
         /\ pc[r] = "lock_promo" => PromoRow(quote[r].promo) \in Rows
         /\ pc[r] \in {"lock_order", "lock_restock"} => OrderRow(job[r].order) \in Rows
         /\ PendingLines(r) \subseteq Variants
         /\ \A v \in LinesIn(lines[r]) : VariantRow(v) \in Rows
         /\ \A p \in PendingProducts(r) : ProductRow(p) \in Rows
<1>1. \A v \in LinesIn(lines[r]) : v \in Variants /\ ProductOf[v] \in Products
  BY ProductOfType DEF LinesIn
<1>2. PendingLines(r) \subseteq Variants
  BY <1>1 DEF PendingLines
<1>3. \A p \in PendingProducts(r) : p \in Products
  BY <1>1 DEF PendingProducts
<1> QED
  BY <1>1, <1>2, <1>3, RowTypes DEF TypeInv, JobsFit

\* The next row to lock is one of those still to be locked.
LEMMA LeastIsIn == ASSUME NEW S PROVE Least(S) \subseteq S
BY DEF Least


\* A request's step leaves the others alone; only its COMMITs write rows of the shop.
LEMMA RequestFrame ==
  ASSUME TypeInv, NEW r \in Requests, RequestStep(r)
  PROVE  /\ OthersUntouched(r)
         /\ \/ UNCHANGED <<stock, price, sales, cart, cartPromo, code, orders, redeemed, book, supply>>
            \/ Places(r)
            \/ CommitCancel(r)
<1>1. CASE Arrive(r)
  <2>1. PICK j \in Job, l \in PCs :
          /\ pc' = [pc EXCEPT ![r] = l] /\ job' = [job EXCEPT ![r] = j]
          /\ UNCHANGED <<shopVars, lines, quote, lock>>
    <3>1. CASE \E u \in Users, m \in Offered : Begin(r, u, m)
      <4>1. PICK u \in Users, m \in Methods : Begin(r, u, m)
        BY <3>1, OfferedType
      <4>2. [kind |-> "checkout", user |-> u, order |-> None, method |-> m] \in Job
        BY DEF Job
      <4> QED
        BY <4>1, <4>2 DEF Begin, Goto, PCs
    <3>2. CASE \E x \in CancelInputs : BeginCancel(r, x[1], x[2])
      <4>1. PICK o \in Requests, by \in Users \cup {None} : BeginCancel(r, o, by)
        BY <3>2, CancelInputsType
      <4>2. [kind |-> "cancel", user |-> by, order |-> o, method |-> None] \in Job
        BY DEF Job
      <4> QED
        BY <4>1, <4>2 DEF BeginCancel, Goto, PCs
    <3> QED
      BY <1>1, <3>1, <3>2 DEF Arrive
  <2> QED
    BY <2>1 DEF OthersUntouched, shopVars, TypeInv, TransactionTypeOK
<1>2. CASE Refuse(r)
  BY <1>2, RefuseFrame DEF shopVars
<1>3. CASE CheckoutStep(r) /\ ~Refuse(r)
  <2>1. CASE LockUser(r)
    <3>1. UserRow(job[r].user) \in Rows
      BY <2>1, WaitsForRows DEF LockUser
    <3> QED
      BY <2>1, <3>1, TakeFrame
      DEF LockUser, Goto, OthersUntouched, shopVars, TypeInv, TransactionTypeOK
  <2>2. CASE ReadCart(r)
    BY <1>3, <2>2 DEF ReadCart, Goto, OthersUntouched, shopVars, TypeInv, TransactionTypeOK
  <2>3. CASE LockLine(r)
    <3>1. PICK v \in Least(PendingLines(r)) :
            /\ Take(r, VariantRow(v))
            /\ Goto(r, IF PendingLines(r) = {v} THEN "check_lines" ELSE "lock_lines")
      BY <2>3 DEF LockLine
    <3>2. VariantRow(v) \in Rows
      BY <3>1, WaitsForRows, LeastIsIn, RowTypes
    <3> QED
      BY <2>3, <3>1, <3>2, TakeFrame
      DEF LockLine, Goto, OthersUntouched, shopVars, TypeInv, TransactionTypeOK
  <2>4. CASE CheckLines(r)
    BY <1>3, <2>4 DEF CheckLines, Goto, OthersUntouched, shopVars, TypeInv, TransactionTypeOK
  <2>5. CASE ReadPromo(r)
    <3>1. PICK l \in PCs : pc' = [pc EXCEPT ![r] = l]
      BY <2>5 DEF ReadPromo, Goto, PCs
    <3>2. \A q \in Requests \ {r} : quote'[q] = quote[q]
      BY <2>5 DEF ReadPromo, TypeInv, TransactionTypeOK
    <3> QED
      BY <2>5, <3>1, <3>2 DEF ReadPromo, OthersUntouched, shopVars, TypeInv, TransactionTypeOK
  <2>6. CASE LockPromo(r)
    <3>1. PromoRow(quote[r].promo) \in Rows
      BY <2>6, WaitsForRows DEF LockPromo
    <3> QED
      BY <2>6, <3>1, TakeFrame
      DEF LockPromo, Goto, OthersUntouched, shopVars, TypeInv, TransactionTypeOK
  <2>7. CASE PriceOrder(r)
    <3>1. pc' = [pc EXCEPT ![r] = "lock_products"] /\ UNCHANGED <<shopVars, job, lines, lock>>
      BY <1>3, <2>7 DEF PriceOrder, PriorOrders, Goto
    <3>2. \A q \in Requests \ {r} : quote'[q] = quote[q]
      BY <1>3, <2>7 DEF PriceOrder, TypeInv, TransactionTypeOK
    <3> QED
      BY <3>1, <3>2 DEF OthersUntouched, shopVars, TypeInv, TransactionTypeOK
  <2>8. CASE LockProduct(r)
    <3>1. PICK p \in Least(PendingProducts(r)) : Take(r, ProductRow(p))
      BY <2>8 DEF LockProduct
    <3>2. ProductRow(p) \in Rows
      BY <3>1, WaitsForRows, LeastIsIn
    <3> QED
      BY <2>8, <3>1, <3>2, TakeFrame DEF LockProduct, OthersUntouched, shopVars
  <2>9. CASE CommitOrder(r)
    <3>1. Places(r) /\ End(r, "done")
      BY <1>3, <2>9 DEF CommitOrder, Places
    <3> QED
      BY <3>1, EndFrame DEF Ended
  <2> QED
    BY <1>3, <2>1, <2>2, <2>3, <2>4, <2>5, <2>6, <2>7, <2>8, <2>9 DEF CheckoutStep
<1>4. CASE CancelStep(r) /\ ~Refuse(r)
  <2>1. CASE LockOrder(r)
    <3>1. OrderRow(job[r].order) \in Rows
      BY <2>1, WaitsForRows DEF LockOrder
    <3> QED
      BY <1>4, <2>1, <3>1, TakeFrame
      DEF LockOrder, Goto, OthersUntouched, shopVars, TypeInv, TransactionTypeOK
  <2>2. CASE LockRestock(r)
    <3>1. PICK v \in PendingLines(r) : Take(r, VariantRow(v))
      BY <2>2 DEF LockRestock
    <3>2. VariantRow(v) \in Rows
      BY <3>1, WaitsForRows, RowTypes
    <3> QED
      BY <2>2, <3>1, <3>2, TakeFrame DEF LockRestock, OthersUntouched, shopVars
  <2>3. CASE CommitCancel(r)
    <3>1. End(r, "done")
      BY <2>3 DEF CommitCancel
    <3> QED
      BY <2>3, <3>1, EndFrame DEF Ended
  <2> QED
    BY <1>4, <2>1, <2>2, <2>3 DEF CancelStep
<1> QED
  BY <1>1, <1>2, <1>3, <1>4 DEF RequestStep, Abort, BreakDeadlock


\* Where a request's step leaves it, and by which statement it came there.
LEMMA Labels ==
  ASSUME TypeInv, NEW r \in Requests, RequestStep(r)
  PROVE  \/ pc'[r] \in {"done", "failed"}
         \/ Arrive(r) /\ pc'[r] \in {"lock_user", "lock_order"}
         \/ LockUser(r) /\ pc'[r] = "read_cart"
         \/ ReadCart(r) /\ ~Refuse(r) /\ pc'[r] = "lock_lines"
         \/ LockLine(r) /\ pc'[r] \in {"lock_lines", "check_lines"}
         \/ CheckLines(r) /\ ~Refuse(r) /\ pc'[r] = "read_promo"
         \/ ReadPromo(r) /\ cartPromo[job[r].user] = None /\ pc'[r] = "price"
         \/ ReadPromo(r) /\ cartPromo[job[r].user] # None /\ pc'[r] = "lock_promo"
         \/ LockPromo(r) /\ pc'[r] = "price"
         \/ PriceOrder(r) /\ ~Refuse(r) /\ pc'[r] = "lock_products"
         \/ LockProduct(r) /\ pc'[r] = "lock_products"
         \/ LockOrder(r) /\ ~Refuse(r) /\ pc'[r] = "lock_restock"
         \/ LockRestock(r) /\ pc'[r] = "lock_restock"
<1>1. CASE Refuse(r)
  BY <1>1, RefuseFrame
<1>2. Arrive(r) => pc'[r] \in {"lock_user", "lock_order"}
  BY DEF Arrive, Begin, BeginCancel, Goto, TypeInv, TransactionTypeOK
<1>3. LockUser(r) => pc'[r] = "read_cart"
  BY DEF LockUser, Goto, TypeInv, TransactionTypeOK
<1>4. ReadCart(r) /\ ~Refuse(r) => pc'[r] = "lock_lines"
  BY DEF ReadCart, Goto, TypeInv, TransactionTypeOK
<1>5. LockLine(r) => pc'[r] \in {"lock_lines", "check_lines"}
  BY DEF LockLine, Goto, TypeInv, TransactionTypeOK
<1>6. CheckLines(r) /\ ~Refuse(r) => pc'[r] = "read_promo"
  BY DEF CheckLines, Goto, TypeInv, TransactionTypeOK
<1>7. ReadPromo(r) => pc'[r] = IF cartPromo[job[r].user] = None THEN "price" ELSE "lock_promo"
  BY DEF ReadPromo, Goto, TypeInv, TransactionTypeOK
<1>8. LockPromo(r) => pc'[r] = "price"
  BY DEF LockPromo, Goto, TypeInv, TransactionTypeOK
<1>9. PriceOrder(r) /\ ~Refuse(r) => pc'[r] = "lock_products"
  BY DEF PriceOrder, Goto, TypeInv, TransactionTypeOK
<1>10. LockProduct(r) => pc'[r] = "lock_products"
  BY DEF LockProduct
<1>11. CommitOrder(r) /\ ~Refuse(r) => pc'[r] = "done"
  BY EndFrame DEF CommitOrder, Ended
<1>12. LockOrder(r) /\ ~Refuse(r) => pc'[r] = "lock_restock"
  BY DEF LockOrder, Goto, TypeInv, TransactionTypeOK
<1>13. LockRestock(r) => pc'[r] = "lock_restock"
  BY DEF LockRestock
<1>14. CommitCancel(r) => pc'[r] = "done"
  BY EndFrame DEF CommitCancel, Ended
<1> QED
  BY <1>1, <1>2, <1>3, <1>4, <1>5, <1>6, <1>7, <1>8, <1>9, <1>10, <1>11, <1>12, <1>13, <1>14
  DEF RequestStep, CheckoutStep, CancelStep, Abort, BreakDeadlock

\* An admin's write to an order that stands changes neither whose it is, nor
\* what was ordered with which code, nor its free delivery, nor whether it stands.
Rewritten(o) ==
  /\ orders[o] # None /\ orders'[o] # None
  /\ orders'[o].user = orders[o].user /\ orders'[o].first = orders[o].first
  /\ orders'[o].lines = orders[o].lines /\ orders'[o].promo = orders[o].promo
  /\ orders'[o].status = "cancelled" <=> orders[o].status = "cancelled"

StockWritten == \E v \in Variants, n \in Nat :
  /\ lock[VariantRow(v)] = None
  /\ stock' = [stock EXCEPT ![v] = n] /\ supply' = [supply EXCEPT ![v] = @ + n - stock[v]]
OrderKept(o) == orders'[o] = orders[o] \/ (lock[OrderRow(o)] = None /\ Rewritten(o))

\* The one-statement writes touch no transaction, redemption or sales count, and an
\* order or a jar only where nobody holds the row.
LEMMA WriteFrame ==
  ASSUME TypeInv, CustomerWrites \/ AdminWrites
  PROVE  /\ UNCHANGED <<pc, job, lines, quote, lock, redeemed, sales>>
         /\ (stock' = stock /\ supply' = supply) \/ StockWritten
         /\ \A o \in Requests : OrderKept(o)
<1>1. CASE CustomerWrites
  <2>1. PICK u, v, q : \/ SetCartItem(u, v, q) \/ DeleteCartItem(u, v)
                      \/ ApplyPromo(u, v) \/ ClearPromo(u)
    BY <1>1, Zenon DEF CustomerWrites
  <2>2. UNCHANGED <<stock, sales, supply, orders, redeemed, txVars>>
    BY <2>1 DEF SetCartItem, DeleteCartItem, ApplyPromo, ClearPromo
  <2> QED
    BY <2>2 DEF txVars, OrderKept
<1>2. CASE \E x \in VariantInputs : UpdateVariant(x[1], x[2], x[3])
  <2>1. PICK v \in Variants, n \in Nat, p \in Prices : UpdateVariant(v, n, p)
    BY <1>2, VariantInputsType
  <2>2. UNCHANGED <<orders, redeemed, sales, txVars>>
    BY <2>1 DEF UpdateVariant
  <2>3. /\ lock[VariantRow(v)] = None
        /\ stock' = [stock EXCEPT ![v] = n] /\ supply' = [supply EXCEPT ![v] = @ + n - stock[v]]
    BY <2>1 DEF UpdateVariant, Free
  <2> QED
    BY <2>2, <2>3 DEF txVars, OrderKept, StockWritten
<1>3. CASE \E x \in CodeInputs : UpdatePromo(x[1], x[2])
  <2>1. UNCHANGED <<stock, sales, supply, orders, redeemed, txVars>>
    BY <1>3 DEF UpdatePromo
  <2> QED
    BY <2>1 DEF txVars, OrderKept
<1>4. CASE \E c \in Codes : Expire(c)
  <2>1. UNCHANGED <<stock, sales, supply, orders, redeemed, txVars>>
    BY <1>4 DEF Expire
  <2> QED
    BY <2>1 DEF txVars, OrderKept
<1>5. CASE \E o \in Requests, to \in Statuses : UpdateOrderStatus(o, to)
  <2>1. PICK o \in Requests, to \in Statuses : UpdateOrderStatus(o, to)
    BY <1>5
  <2>2. orders[o] # None /\ orders[o] \in Order
    BY <2>1 DEF UpdateOrderStatus, Placed, TypeInv, TransactionTypeOK
  <2>3. PICK pay \in Payments :
          orders' = [orders EXCEPT ![o] = [[orders[o] EXCEPT !.status = to] EXCEPT !.payment = pay]]
    BY <2>1, <2>2 DEF UpdateOrderStatus, Payments, Order, TypeInv, TransactionTypeOK
  <2>4. /\ orders'[o] = [[orders[o] EXCEPT !.status = to] EXCEPT !.payment = pay]
        /\ \A x \in Requests \ {o} : orders'[x] = orders[x]
    BY <2>3 DEF TypeInv, TransactionTypeOK
  <2>5. orders'[o] \in Order /\ orders'[o] # None
    <3>1. orders'[o] \in Order
      BY <2>2, <2>4 DEF Order
    <3> QED
      BY <3>1, NoneIsNoOrder
  <2>6. to # "cancelled" /\ orders[o].status # "cancelled"
    BY <2>1 DEF UpdateOrderStatus, OrderTransitions
  <2>7. Rewritten(o)
    BY <2>2, <2>4, <2>5, <2>6 DEF Rewritten, Order
  <2>8. lock[OrderRow(o)] = None /\ UNCHANGED <<stock, sales, supply, redeemed, txVars>>
    BY <2>1 DEF UpdateOrderStatus, Free
  <2> QED
    BY <2>4, <2>7, <2>8 DEF txVars, OrderKept
<1>6. CASE \E o \in Requests, to \in Payments : UpdateOrderPaymentStatus(o, to)
  <2>1. PICK o \in Requests, to \in Payments : UpdateOrderPaymentStatus(o, to)
    BY <1>6
  <2>2. orders[o] # None /\ orders[o] \in Order
    BY <2>1 DEF UpdateOrderPaymentStatus, Placed, TypeInv, TransactionTypeOK
  <2>3. orders' = [orders EXCEPT ![o] = [orders[o] EXCEPT !.payment = to]]
    BY <2>1 DEF UpdateOrderPaymentStatus
  <2>4. /\ orders'[o] = [orders[o] EXCEPT !.payment = to]
        /\ \A x \in Requests \ {o} : orders'[x] = orders[x]
    BY <2>3 DEF TypeInv, TransactionTypeOK
  <2>5. orders'[o] \in Order /\ orders'[o] # None
    BY <2>2, <2>4, NoneIsNoOrder DEF Order
  <2>6. Rewritten(o)
    BY <2>2, <2>4, <2>5 DEF Rewritten, Order
  <2>7. lock[OrderRow(o)] = None /\ UNCHANGED <<stock, sales, supply, redeemed, txVars>>
    BY <2>1 DEF UpdateOrderPaymentStatus, Free
  <2> QED
    BY <2>4, <2>6, <2>7 DEF txVars, OrderKept
<1> QED
  BY <1>1, <1>2, <1>3, <1>4, <1>5, <1>6 DEF AdminWrites

-----------------------------------------------------------------------------
(* Who holds which row.                                                    *)

UserLocked(r) ==
  pc[r] \in {"read_cart"} \cup AfterReadCart => lock[UserRow(job[r].user)] = r
LinesLocked(r) ==
  pc[r] \in {"check_lines"} \cup AfterCheckLines =>
    \A v \in LinesIn(lines[r]) : lock[VariantRow(v)] = r
OrderLocked(r) == pc[r] = "lock_restock" => lock[OrderRow(job[r].order)] = r

LockInv == \A r \in Requests : UserLocked(r) /\ LinesLocked(r) /\ OrderLocked(r)

\* A request that has not just been given a lock keeps what it was promised.
LEMMA LocksKept ==
  ASSUME TypeInv, LockInv, NEW q \in Requests,
         pc'[q] = pc[q], job'[q] = job[q], lines'[q] = lines[q],
         \A row \in Rows : lock[row] = q => lock'[row] = q
  PROVE  (UserLocked(q) /\ LinesLocked(q) /\ OrderLocked(q))'
<1>1. UserLocked(q)'
  BY WaitsForRows DEF LockInv, UserLocked, AfterReadCart
<1>2. LinesLocked(q)'
  BY WaitsForRows DEF LockInv, LinesLocked, AfterCheckLines
<1>3. OrderLocked(q)'
  BY WaitsForRows DEF LockInv, OrderLocked
<1> QED
  BY <1>1, <1>2, <1>3


\* What a request's own step adds to the rows it holds is what its next
\* statement counts on.
LEMMA OwnLocks ==
  ASSUME TypeInv, LockInv, NEW r \in Requests, RequestStep(r)
  PROVE  (UserLocked(r) /\ LinesLocked(r) /\ OrderLocked(r))'
<1> USE DEF UserLocked, LinesLocked, OrderLocked
<1>1. CASE Arrive(r)
  <2>1. pc'[r] \in {"lock_user", "lock_order"}
    BY <1>1 DEF Arrive, Begin, BeginCancel, Goto, TypeInv, TransactionTypeOK
  <2> QED
    BY <2>1 DEF AfterReadCart, AfterCheckLines
<1>2. CASE pc'[r] \in Ended
  BY <1>2 DEF AfterReadCart, AfterCheckLines, Ended
<1>3. CASE Refuse(r)
  BY <1>2, <1>3, RefuseFrame DEF Ended
<1>4. CASE CheckoutStep(r) /\ ~Refuse(r)
  <2>1. CASE LockUser(r)
    <3>1. UserRow(job[r].user) \in Rows
      BY <2>1, WaitsForRows DEF LockUser
    <3>2. lock'[UserRow(job[r].user)] = r /\ pc'[r] = "read_cart" /\ job' = job
      BY <2>1, <3>1, TakeFrame DEF LockUser, Goto, TypeInv, TransactionTypeOK
    <3> QED
      BY <3>2 DEF AfterCheckLines
  <2>2. CASE ReadCart(r)
    <3>1. pc'[r] = "lock_lines" /\ job' = job /\ lock' = lock
      BY <1>4, <2>2 DEF ReadCart, Goto, TypeInv, TransactionTypeOK
    <3> QED
      BY <2>2, <3>1 DEF LockInv, ReadCart, AfterCheckLines
  <2>3. CASE LockLine(r)
    <3>1. PICK v \in Least(PendingLines(r)) :
            /\ Take(r, VariantRow(v))
            /\ Goto(r, IF PendingLines(r) = {v} THEN "check_lines" ELSE "lock_lines")
      BY <2>3 DEF LockLine
    <3>2. VariantRow(v) \in Rows
      BY <3>1, WaitsForRows, LeastIsIn, RowTypes
    <3>3. OwnLocksKept(r) /\ lock'[VariantRow(v)] = r /\ job' = job /\ lines' = lines
      BY <2>3, <3>1, <3>2, TakeFrame DEF LockLine
    <3>4. /\ pc[r] = "lock_lines" /\ pc'[r] \in {"lock_lines", "check_lines"}
          /\ pc'[r] = "check_lines" => PendingLines(r) = {v}
      BY <2>3, <3>1 DEF LockLine, Goto, TypeInv, TransactionTypeOK
    <3>5. UserLocked(r)'
      BY <3>3, <3>4, WaitsForRows DEF LockInv, OwnLocksKept, AfterReadCart
    <3>6. LinesLocked(r)'
      <4> SUFFICES ASSUME pc'[r] = "check_lines", NEW w \in LinesIn(lines[r])
                   PROVE  lock'[VariantRow(w)] = r
        BY <3>3, <3>4 DEF AfterCheckLines
      <4>1. CASE w = v
        BY <3>3, <4>1
      <4>2. CASE w # v
        <5>1. lock[VariantRow(w)] = r
          BY <3>4, <4>2 DEF PendingLines
        <5> QED
          BY <3>3, <5>1, WaitsForRows DEF OwnLocksKept
      <4> QED
        BY <4>1, <4>2
    <3> QED
      BY <3>4, <3>5, <3>6
  <2>4. CASE CheckLines(r)
    <3>1. pc[r] = "check_lines" /\ pc'[r] = "read_promo" /\ job' = job /\ lines' = lines /\ lock' = lock
      BY <1>4, <2>4 DEF CheckLines, Goto, TypeInv, TransactionTypeOK
    <3> QED
      BY <3>1 DEF LockInv, AfterReadCart, AfterCheckLines
  <2>5. CASE ReadPromo(r)
    <3>1. pc[r] = "read_promo" /\ pc'[r] \in {"price", "lock_promo"} /\ job' = job /\ lines' = lines /\ lock' = lock
      BY <2>5 DEF ReadPromo, Goto, TypeInv, TransactionTypeOK
    <3> QED
      BY <3>1 DEF LockInv, AfterReadCart, AfterCheckLines
  <2>6. CASE LockPromo(r)
    <3>1. PromoRow(quote[r].promo) \in Rows
      BY <2>6, WaitsForRows DEF LockPromo
    <3>2. /\ pc[r] = "lock_promo" /\ pc'[r] = "price" /\ job' = job /\ lines' = lines
          /\ OwnLocksKept(r)
      BY <2>6, <3>1, TakeFrame DEF LockPromo, Goto, TypeInv, TransactionTypeOK
    <3> QED
      BY <3>2, WaitsForRows DEF LockInv, OwnLocksKept, AfterReadCart, AfterCheckLines
  <2>7. CASE PriceOrder(r)
    <3>1. pc[r] = "price" /\ pc'[r] = "lock_products" /\ job' = job /\ lines' = lines /\ lock' = lock
      BY <1>4, <2>7 DEF PriceOrder, Goto, TypeInv, TransactionTypeOK
    <3> QED
      BY <3>1 DEF LockInv, AfterReadCart, AfterCheckLines
  <2>8. CASE LockProduct(r)
    <3>1. PICK p \in Least(PendingProducts(r)) : Take(r, ProductRow(p))
      BY <2>8 DEF LockProduct
    <3>2. ProductRow(p) \in Rows
      BY <3>1, WaitsForRows, LeastIsIn
    <3>3. OwnLocksKept(r) /\ pc' = pc /\ job' = job /\ lines' = lines
      BY <2>8, <3>1, <3>2, TakeFrame DEF LockProduct
    <3> QED
      BY <3>3, LocksKept DEF OwnLocksKept
  <2>9. CASE CommitOrder(r)
    <3>1. End(r, "done")
      BY <1>4, <2>9 DEF CommitOrder
    <3> QED
      BY <1>2, <3>1, EndFrame DEF Ended
  <2> QED
    BY <1>4, <2>1, <2>2, <2>3, <2>4, <2>5, <2>6, <2>7, <2>8, <2>9 DEF CheckoutStep
<1>5. CASE CancelStep(r) /\ ~Refuse(r)
  <2>1. CASE LockOrder(r)
    <3>1. OrderRow(job[r].order) \in Rows
      BY <2>1, WaitsForRows DEF LockOrder
    <3>2. Take(r, OrderRow(job[r].order)) /\ pc'[r] = "lock_restock" /\ job' = job
      BY <1>5, <2>1 DEF LockOrder, Goto, TypeInv, TransactionTypeOK
    <3> QED
      BY <3>1, <3>2, TakeFrame DEF AfterReadCart, AfterCheckLines
  <2>2. CASE LockRestock(r)
    <3>1. PICK v \in PendingLines(r) : Take(r, VariantRow(v))
      BY <2>2 DEF LockRestock
    <3>2. VariantRow(v) \in Rows
      BY <3>1, WaitsForRows, RowTypes
    <3>3. OwnLocksKept(r) /\ pc' = pc /\ job' = job /\ lines' = lines
      BY <2>2, <3>1, <3>2, TakeFrame DEF LockRestock
    <3> QED
      BY <3>3, LocksKept DEF OwnLocksKept
  <2>3. CASE CommitCancel(r)
    <3>1. End(r, "done")
      BY <2>3 DEF CommitCancel
    <3> QED
      BY <1>2, <3>1, EndFrame DEF Ended
  <2> QED
    BY <1>5, <2>1, <2>2, <2>3 DEF CancelStep
<1> QED
  BY <1>1, <1>3, <1>4, <1>5 DEF RequestStep, Abort, BreakDeadlock

\* Every step keeps the labels and the locks in agreement.
LEMMA LockStep == TypeInv /\ LockInv /\ [Next]_vars => LockInv'
<1> SUFFICES ASSUME TypeInv, LockInv, [Next]_vars, NEW q \in Requests
             PROVE  (UserLocked(q) /\ LinesLocked(q) /\ OrderLocked(q))'
  BY DEF LockInv
<1>1. ASSUME NEW r \in Requests, RequestStep(r)
      PROVE  (UserLocked(q) /\ LinesLocked(q) /\ OrderLocked(q))'
  <2>1. CASE q = r
    BY <1>1, <2>1, OwnLocks
  <2>2. CASE q # r
    BY <1>1, <2>2, RequestFrame, LocksKept DEF OthersUntouched
  <2> QED
    BY <2>1, <2>2
<1>2. CASE CustomerWrites \/ AdminWrites
  BY <1>2, WriteFrame, LocksKept
<1>3. CASE UNCHANGED vars
  BY <1>3, LocksKept DEF vars
<1> QED
  BY <1>1, <1>2, <1>3 DEF Next, RequestStep

\* A transaction past a lock statement holds the lock it asked for, at all times.
LEMMA Locking == Spec => [](TypeInv /\ LockInv)
<1>1. Init => TypeInv /\ LockInv
  BY InitTypes
  DEF Init, LockInv, UserLocked, LinesLocked, OrderLocked, AfterReadCart, AfterCheckLines
<1> QED
  BY <1>1, TypeStep, LockStep, PTL DEF Spec


-----------------------------------------------------------------------------
(* Stock.                                                                  *)

\* Past the stock check a request keeps the lines it checked.
LEMMA PastTheCheck ==
  ASSUME TypeInv, NEW r \in Requests, RequestStep(r), pc'[r] \in AfterCheckLines
  PROVE  /\ lines'[r] = lines[r]
         /\ pc[r] \in AfterCheckLines \/ (CheckLines(r) /\ ~Refuse(r))
<1>1. \/ CheckLines(r) /\ ~Refuse(r)
      \/ ReadPromo(r) \/ LockPromo(r) \/ LockProduct(r)
      \/ PriceOrder(r) /\ ~Refuse(r)
  BY Labels DEF AfterCheckLines, Ended
<1> QED
  BY <1>1 DEF CheckLines, ReadPromo, LockPromo, PriceOrder, LockProduct, AfterCheckLines

\* Two requests past the stock check have no variant in common.
LEMMA DisjointBaskets ==
  ASSUME TypeInv, LockInv, NEW q \in Requests, NEW r \in Requests, q # r,
         pc[q] \in AfterCheckLines, pc[r] \in AfterCheckLines,
         NEW v \in Variants, lines[q][v] > 0
  PROVE  lines[r][v] = 0
<1>1. lines[r][v] \in Nat
  BY MaxLineType DEF TypeInv, TransactionTypeOK, Lines
<1>2. lines[r][v] > 0 => lock[VariantRow(v)] = r
  BY DEF LockInv, LinesLocked, LinesIn
<1>3. lock[VariantRow(v)] = q
  BY DEF LockInv, LinesLocked, LinesIn
<1> QED
  BY <1>1, <1>2, <1>3

\* Every step keeps validated lines within the stock: the rows are locked.
LEMMA StockStep == TypeInv /\ LockInv /\ NeverOversold /\ [Next]_vars => NeverOversold'
<1> SUFFICES ASSUME TypeInv, LockInv, NeverOversold, [Next]_vars PROVE NeverOversold'
  OBVIOUS
<1>0. /\ \A v \in Variants : stock[v] \in Int /\ stock[v] >= 0
      /\ \A q \in Requests, v \in Variants : lines[q][v] \in Nat
      /\ \A q \in Requests, v \in Variants : pc[q] \in AfterCheckLines => lines[q][v] <= stock[v]
  BY MaxLineType DEF TypeInv, TransactionTypeOK, Lines, NeverOversold, StockCovers, StockNeverNegative
<1>1. ASSUME NEW r \in Requests, RequestStep(r) PROVE NeverOversold'
  <2>1. /\ \A q \in Requests \ {r} : pc'[q] = pc[q] /\ lines'[q] = lines[q]
        /\ stock' = stock \/ Places(r) \/ CommitCancel(r)
    BY <1>1, RequestFrame DEF OthersUntouched
  <2>2. CASE stock' = stock
    <3>1. ASSUME pc'[r] \in AfterCheckLines, NEW v \in Variants PROVE lines'[r][v] <= stock[v]
      <4>1. lines'[r] = lines[r]
        BY <1>1, <3>1, PastTheCheck
      <4>2. CASE pc[r] \in AfterCheckLines
        BY <1>0, <4>1, <4>2
      <4>3. CASE CheckLines(r) /\ ~Refuse(r)
        BY <1>0, <4>1, <4>3 DEF CheckLines, LinesIn
      <4> QED
        BY <1>1, <3>1, <4>2, <4>3, PastTheCheck
    <3> QED
      BY <1>0, <2>1, <2>2, <3>1 DEF NeverOversold, StockCovers, StockNeverNegative
  <2>3. CASE Places(r)
    <3>1. /\ pc[r] = "lock_products" /\ pc'[r] \in Ended
          /\ \A v \in Variants : stock'[v] = stock[v] - lines[r][v]
      BY <2>3, EndFrame DEF Places, CommitOrder, Ended
    <3>2. pc[r] \in AfterCheckLines /\ pc'[r] \notin AfterCheckLines
      BY <3>1 DEF AfterCheckLines, Ended
    <3>3. \A v \in Variants : stock'[v] >= 0
      BY <1>0, <3>1, <3>2
    <3>4. ASSUME NEW q \in Requests, pc'[q] \in AfterCheckLines, NEW v \in Variants
          PROVE  lines'[q][v] <= stock'[v]
      <4>1. q # r /\ pc[q] \in AfterCheckLines /\ lines'[q] = lines[q]
        BY <2>1, <3>2, <3>4
      <4>2. lines[q][v] > 0 => lines[r][v] = 0
        BY <3>2, <4>1, DisjointBaskets
      <4>3. /\ lines[q][v] \in Nat /\ lines[r][v] \in Nat /\ stock[v] \in Int
            /\ lines[q][v] <= stock[v] /\ stock'[v] = stock[v] - lines[r][v] /\ stock'[v] >= 0
        BY <1>0, <3>1, <3>3, <4>1
      <4> QED
        BY <4>1, <4>2, <4>3
    <3> QED
      BY <3>3, <3>4 DEF NeverOversold, StockCovers, StockNeverNegative
  <2>4. CASE CommitCancel(r)
    <3>1. pc'[r] \in Ended /\ \A v \in Variants : stock'[v] = stock[v] + lines[r][v]
      BY <2>4, EndFrame DEF CommitCancel, Ended
    <3>2. pc'[r] \notin AfterCheckLines
      BY <3>1 DEF AfterCheckLines, Ended
    <3>3. \A v \in Variants : stock'[v] \in Int /\ stock'[v] >= stock[v]
      BY <1>0, <3>1
    <3>4. ASSUME NEW q \in Requests, pc'[q] \in AfterCheckLines, NEW v \in Variants
          PROVE  lines'[q][v] <= stock'[v]
      <4>1. pc[q] \in AfterCheckLines /\ lines'[q] = lines[q]
        BY <2>1, <3>2, <3>4
      <4> QED
        BY <1>0, <3>3, <4>1
    <3> QED
      BY <1>0, <3>3, <3>4 DEF NeverOversold, StockCovers, StockNeverNegative
  <2> QED
    BY <2>1, <2>2, <2>3, <2>4
<1>2. CASE CustomerWrites \/ AdminWrites
  <2>1. UNCHANGED <<pc, lines>> /\ (stock' = stock \/ StockWritten)
    BY <1>2, WriteFrame
  <2>2. CASE StockWritten
    <3>1. PICK v \in Variants, n \in Nat :
            lock[VariantRow(v)] = None /\ stock' = [stock EXCEPT ![v] = n]
      BY <2>2 DEF StockWritten
    <3>2. stock'[v] = n /\ \A w \in Variants \ {v} : stock'[w] = stock[w]
      BY <3>1 DEF TypeInv, TransactionTypeOK
    <3>3. \A q \in Requests : pc[q] \in AfterCheckLines => lines[q][v] = 0
      <4> SUFFICES ASSUME NEW q \in Requests, pc[q] \in AfterCheckLines, lines[q][v] > 0
                   PROVE  FALSE
        BY <1>0
      <4>1. lock[VariantRow(v)] = q
        BY DEF LockInv, LinesLocked, LinesIn
      <4> QED
        BY <3>1, <4>1, NoneIsNoRequest
    <3> QED
      BY <1>0, <2>1, <3>2, <3>3 DEF NeverOversold, StockCovers, StockNeverNegative
  <2>3. CASE stock' = stock
    BY <2>1, <2>3 DEF NeverOversold, StockCovers, StockNeverNegative
  <2> QED
    BY <2>1, <2>2, <2>3
<1>3. CASE UNCHANGED vars
  BY <1>3 DEF vars, NeverOversold, StockCovers, StockNeverNegative
<1> QED
  BY <1>1, <1>2, <1>3 DEF Next, RequestStep

\* However many checkouts run, what they validated stays on the shelf until they
\* commit: no jar is sold twice and no stock count falls below zero.
THEOREM NothingOversold == Spec => []NeverOversold
<1>1. Init => NeverOversold
  BY InitStockType DEF Init, NeverOversold, StockCovers, StockNeverNegative, AfterCheckLines
<1> QED
  BY <1>1, StockStep, Locking, PTL DEF Spec


-----------------------------------------------------------------------------
(* The first delivery, the redemptions and the cancellations.              *)

Standing(u) == OrdersOf(u) \cap Live

\* An order that stands after a step stood before it, or was placed by it.
StoodOrPlaced(u, o) ==
  \/ o \in Standing(u) /\ orders'[o].first = orders[o].first
  \/ Places(o) /\ job[o].user = u /\ orders'[o].first = quote[o].first

\* What it is for an order to be placed and not cancelled.
LEMMA StandingOrders ==
  ASSUME NEW u, NEW o
  PROVE  o \in Standing(u) <=>
           /\ o \in Requests /\ orders[o] # None
           /\ orders[o].user = u /\ orders[o].status # "cancelled"
BY DEF Standing, OrdersOf, Live, Placed

\* The same, one step later.
LEMMA StandingPrime ==
  ASSUME NEW u, NEW o
  PROVE  o \in Standing(u)' <=>
           /\ o \in Requests /\ orders'[o] # None
           /\ orders'[o].user = u /\ orders'[o].status # "cancelled"
BY DEF Standing, OrdersOf, Live, Placed

\* Placing an order writes that order and no other.
LEMMA PlacesFrame ==
  ASSUME TypeInv, NEW r \in Requests, Places(r)
  PROVE  /\ pc[r] = "lock_products" /\ pc'[r] = "done"
         /\ orders'[r] = PlacedOrder(r)
         /\ \A o \in Requests \ {r} : orders'[o] = orders[o]
<1>1. Goto(r, "done")
  BY DEF Places, CommitOrder, End
<1> QED
  BY <1>1 DEF Places, CommitOrder, Goto, TypeInv, TransactionTypeOK

\* Cancelling writes the status of the order it locked.
LEMMA CancelFrame ==
  ASSUME TypeInv, NEW r \in Requests, CommitCancel(r)
  PROVE  /\ pc[r] = "lock_restock" /\ pc'[r] = "done"
         /\ job[r].order \in Requests /\ orders[job[r].order] # None
         /\ orders'[job[r].order] # None
         /\ orders'[job[r].order].status = "cancelled"
         /\ orders'[job[r].order].lines = orders[job[r].order].lines
         /\ orders'[job[r].order].user = orders[job[r].order].user
         /\ \A o \in Requests \ {job[r].order} : orders'[o] = orders[o]
<1>1. Goto(r, "done") /\ pc[r] = "lock_restock"
  BY DEF CommitCancel, End
<1>2. job[r].order \in Requests /\ orders[job[r].order] # None
  BY <1>1 DEF TypeInv, JobsFit
<1>3. orders[job[r].order] \in Order
  BY <1>2 DEF TypeInv, TransactionTypeOK
<1>4. [orders[job[r].order] EXCEPT !.status = "cancelled"] \in Order
  BY <1>3 DEF Order, Statuses
<1>5. orders' = [orders EXCEPT ![job[r].order] = [orders[job[r].order] EXCEPT !.status = "cancelled"]]
  BY DEF CommitCancel
<1>6. /\ orders'[job[r].order] = [orders[job[r].order] EXCEPT !.status = "cancelled"]
      /\ \A o \in Requests \ {job[r].order} : orders'[o] = orders[o]
  BY <1>2, <1>5 DEF TypeInv, TransactionTypeOK
<1>7. orders'[job[r].order] # None
  BY <1>4, <1>6, NoneIsNoOrder
<1>8. /\ orders'[job[r].order].status = "cancelled"
      /\ orders'[job[r].order].lines = orders[job[r].order].lines
      /\ orders'[job[r].order].user = orders[job[r].order].user
  BY <1>3, <1>6 DEF Order
<1> QED
  BY <1>1, <1>2, <1>6, <1>7, <1>8 DEF Goto, TypeInv, TransactionTypeOK

\* A customer's standing orders grow only by the checkout that commits.
LEMMA StandingFrame ==
  ASSUME TypeInv, [Next]_vars, NEW u, NEW o \in Standing(u)'
  PROVE  StoodOrPlaced(u, o)
<1>0. o \in Requests /\ orders'[o] # None /\ orders'[o].user = u /\ orders'[o].status # "cancelled"
  BY StandingPrime
<1>1. CASE orders'[o] = orders[o]
  BY <1>0, <1>1, StandingOrders DEF StoodOrPlaced
<1>2. ASSUME NEW r \in Requests, RequestStep(r), orders'[o] # orders[o] PROVE StoodOrPlaced(u, o)
  <2>1. CASE Places(r)
    <3>1. o = r /\ orders'[o] = PlacedOrder(o)
      BY <1>0, <1>2, <2>1, PlacesFrame
    <3>2. orders'[o].user = job[o].user /\ orders'[o].first = quote[o].first
      BY <3>1 DEF PlacedOrder
    <3> QED
      BY <1>0, <2>1, <3>1, <3>2 DEF StoodOrPlaced
  <2>2. CASE CommitCancel(r)
    <3>1. o = job[r].order
      BY <1>0, <1>2, <2>2, CancelFrame
    <3> QED
      BY <1>0, <2>2, <3>1, CancelFrame
  <2> QED
    BY <1>2, <2>1, <2>2, RequestFrame
<1>3. ASSUME CustomerWrites \/ AdminWrites, orders'[o] # orders[o] PROVE StoodOrPlaced(u, o)
  <2>1. Rewritten(o)
    BY <1>0, <1>3, WriteFrame DEF OrderKept
  <2> QED
    BY <1>0, <2>1, StandingOrders DEF Rewritten, StoodOrPlaced
<1>4. CASE UNCHANGED vars
  BY <1>1, <1>4 DEF vars
<1> QED
  BY <1>1, <1>2, <1>3, <1>4 DEF Next, RequestStep

\* Two requests of one customer do not both hold that customer's row.
LEMMA OneCheckoutPerUser ==
  ASSUME LockInv, NEW q \in Requests, NEW r \in Requests,
         pc[q] \in AfterReadCart, pc[r] \in AfterReadCart, job[q].user = job[r].user
  PROVE  q = r
BY DEF LockInv, UserLocked

\* Whoever is about to place a free first order has no other order standing.
FirstIsFirst ==
  \A r \in Requests : pc[r] = "lock_products" /\ quote[r].first => Standing(job[r].user) = {}

\* Every step keeps a pending free first delivery truly the first: the
\* customer's row is locked from before the count until the commit.
LEMMA FirstStep == TypeInv /\ LockInv /\ FirstIsFirst /\ [Next]_vars => FirstIsFirst'
<1> SUFFICES ASSUME TypeInv, LockInv, FirstIsFirst, [Next]_vars, NEW q \in Requests,
                    pc'[q] = "lock_products", quote'[q].first,
                    NEW u, u = job'[q].user, NEW o \in Standing(u)'
             PROVE  FALSE
  BY DEF FirstIsFirst, Standing
<1>1. StoodOrPlaced(u, o)
  BY StandingFrame
<1>2. CASE pc[q] = "lock_products" /\ job'[q].user = job[q].user /\ quote'[q].first = quote[q].first
  <2>1. o \notin Standing(u)
    BY <1>2 DEF FirstIsFirst
  <2>2. Places(o) /\ job[o].user = u
    BY <1>1, <2>1 DEF StoodOrPlaced
  <2>3. o \in Requests
    BY StandingPrime
  <2>4. pc[o] = "lock_products" /\ pc'[o] = "done"
    BY <2>2, <2>3, PlacesFrame
  <2>5. q = o
    BY <1>2, <2>2, <2>3, <2>4, OneCheckoutPerUser DEF AfterReadCart
  <2> QED
    BY <2>4, <2>5
<1>3. ASSUME NEW r \in Requests, RequestStep(r) PROVE FALSE
  <2>1. CASE q # r
    <3>1. pc'[q] = pc[q] /\ job'[q] = job[q] /\ quote'[q] = quote[q]
      BY <1>3, <2>1, RequestFrame DEF OthersUntouched
    <3> QED
      BY <1>2, <3>1
  <2>2. CASE q = r
    <3>1. (PriceOrder(r) /\ ~Refuse(r)) \/ LockProduct(r)
      BY <1>3, <2>2, Labels DEF Ended
    <3>2. CASE LockProduct(r)
      BY <1>2, <2>2, <3>2 DEF LockProduct
    <3>3. CASE PriceOrder(r) /\ ~Refuse(r)
      <4>1. /\ quote' = [quote EXCEPT ![r].first = (OrdersOf(job[r].user) \cap Live = {})]
            /\ UNCHANGED <<shopVars, job, lines, lock>>
        BY <3>3 DEF PriceOrder, PriorOrders
      <4>2. quote'[r].first = (Standing(job[r].user) = {})
        <5>1. quote[r] \in Quote
          BY DEF TypeInv, TransactionTypeOK
        <5> QED
          BY <4>1, <5>1, Zenon DEF Standing, Quote, TypeInv, TransactionTypeOK
      <4>3. orders' = orders /\ job' = job
        BY <4>1 DEF shopVars
      <4>4. o \in Standing(u)
        BY <4>3, StandingOrders, StandingPrime
      <4> QED
        BY <2>2, <4>2, <4>3, <4>4
    <3> QED
      BY <3>1, <3>2, <3>3
  <2> QED
    BY <2>1, <2>2
<1>4. CASE CustomerWrites \/ AdminWrites
  BY <1>2, <1>4, WriteFrame
<1>5. CASE UNCHANGED vars
  BY <1>2, <1>5 DEF vars
<1> QED
  BY <1>3, <1>4, <1>5 DEF Next, RequestStep


\* Every step keeps at most one standing free first delivery per customer.
LEMMA OneFirstStep ==
  TypeInv /\ FirstIsFirst /\ OneFreeFirstDelivery /\ [Next]_vars => OneFreeFirstDelivery'
<1> SUFFICES ASSUME TypeInv, FirstIsFirst, OneFreeFirstDelivery, [Next]_vars, NEW u \in Users,
                    NEW o \in Standing(u)', NEW p \in Standing(u)',
                    orders'[o].first, orders'[p].first
             PROVE  o = p
  BY DEF OneFreeFirstDelivery, Standing
<1>1. StoodOrPlaced(u, o) /\ StoodOrPlaced(u, p) /\ o \in Requests /\ p \in Requests
  BY StandingFrame, StandingPrime
<1>2. CASE Places(o) /\ job[o].user = u /\ orders'[o].first = quote[o].first
  <2>1. quote[o].first /\ pc[o] = "lock_products"
    BY <1>1, <1>2, PlacesFrame
  <2>2. Standing(u) = {}
    BY <1>1, <1>2, <2>1 DEF FirstIsFirst
  <2>3. Places(p)
    BY <1>1, <2>2 DEF StoodOrPlaced
  <2>4. pc'[o] = "done" /\ pc'[p] = "done" /\ pc[o] = "lock_products" /\ pc[p] = "lock_products"
    BY <1>1, <1>2, <2>3, PlacesFrame
  <2>5. pc' = [pc EXCEPT ![o] = "done"]
    BY <1>2 DEF Places, CommitOrder, End, Goto
  <2> QED
    BY <1>1, <2>4, <2>5 DEF TypeInv, TransactionTypeOK
<1>3. CASE Places(p) /\ job[p].user = u /\ orders'[p].first = quote[p].first
  <2>1. quote[p].first /\ pc[p] = "lock_products"
    BY <1>1, <1>3, PlacesFrame
  <2>2. Standing(u) = {}
    BY <1>1, <1>3, <2>1 DEF FirstIsFirst
  <2> QED
    BY <1>1, <1>2, <2>2 DEF StoodOrPlaced
<1>4. CASE /\ o \in Standing(u) /\ orders'[o].first = orders[o].first
           /\ p \in Standing(u) /\ orders'[p].first = orders[p].first
  BY <1>4 DEF OneFreeFirstDelivery, Standing
<1> QED
  BY <1>1, <1>2, <1>3, <1>4 DEF StoodOrPlaced

\* A customer has one free first delivery among the standing orders at most,
\* however their checkouts and cancellations interleave.
THEOREM OneFirstDelivery == Spec => []OneFreeFirstDelivery
<1>1. Init => FirstIsFirst /\ OneFreeFirstDelivery
  BY DEF Init, FirstIsFirst, OneFreeFirstDelivery, OrdersOf, Live, Placed
<1> QED
  BY <1>1, FirstStep, OneFirstStep, Locking, PTL DEF Spec

\* An order exists only once its request has been answered.
PlacedOnce == \A r \in Requests : orders[r] # None => pc[r] = "done"

\* Every step keeps orders under the requests that ended: an id is used once.
LEMMA PlacedOnceStep == TypeInv /\ PlacedOnce /\ [Next]_vars => PlacedOnce'
<1> SUFFICES ASSUME TypeInv, PlacedOnce, [Next]_vars, NEW q \in Requests, orders'[q] # None
             PROVE  pc'[q] = "done"
  BY DEF PlacedOnce
<1>1. ASSUME NEW r \in Requests, RequestStep(r) PROVE pc'[q] = "done"
  <2>1. CASE Places(r)
    BY <1>1, <2>1, PlacesFrame, RequestFrame DEF OthersUntouched, PlacedOnce
  <2>2. CASE CommitCancel(r)
    BY <1>1, <2>2, CancelFrame, RequestFrame DEF OthersUntouched, PlacedOnce
  <2>3. CASE orders' = orders
    <3>1. CASE q # r
      BY <1>1, <2>3, <3>1, RequestFrame DEF OthersUntouched, PlacedOnce
    <3>2. CASE q = r
      <4>1. pc[r] = "done"
        BY <2>3, <3>2 DEF PlacedOnce
      <4> QED
        BY <1>1, <4>1 DEF RequestStep, Arrive, Begin, BeginCancel, CheckoutStep, LockUser,
             ReadCart, LockLine, CheckLines, ReadPromo, LockPromo, PriceOrder, LockProduct,
             CommitOrder, CancelStep, LockOrder, LockRestock, CommitCancel, Abort, BreakDeadlock,
             Deadlocked, Wants, Ended
    <3> QED
      BY <3>1, <3>2
  <2> QED
    BY <1>1, <2>1, <2>2, <2>3, RequestFrame
<1>2. CASE CustomerWrites \/ AdminWrites
  BY <1>2, WriteFrame DEF OrderKept, Rewritten, PlacedOnce
<1>3. CASE UNCHANGED vars
  BY <1>3 DEF vars, PlacedOnce
<1> QED
  BY <1>1, <1>2, <1>3 DEF Next, RequestStep


\* A cancellation that was allowed under the order's lock stays allowed.
LEMMA CancelAllowedStep ==
  TypeInv /\ LockInv /\ PlacedOnce /\ CancelStaysAllowed /\ [Next]_vars => CancelStaysAllowed'
<1> SUFFICES ASSUME TypeInv, LockInv, PlacedOnce, CancelStaysAllowed, [Next]_vars,
                    NEW q \in Requests, pc'[q] = "lock_restock"
             PROVE  MayCancel(job[q].order, job[q].user)' 
  BY DEF CancelStaysAllowed
<1>1. CASE /\ pc[q] = "lock_restock" /\ job'[q] = job[q]
           /\ orders'[job[q].order] = orders[job[q].order]
  BY <1>1 DEF CancelStaysAllowed, MayCancel
<1>2. ASSUME NEW r \in Requests, RequestStep(r) PROVE MayCancel(job[q].order, job[q].user)'
  <2>1. CASE q = r
    <3>1. (LockOrder(r) /\ ~Refuse(r)) \/ LockRestock(r)
      BY <1>2, <2>1, Labels DEF Ended
    <3>2. CASE LockOrder(r) /\ ~Refuse(r)
      <4>1. MayCancel(job[q].order, job[q].user) /\ job' = job /\ orders' = orders
        BY <2>1, <3>2 DEF LockOrder, shopVars
      <4> QED
        BY <4>1 DEF MayCancel
    <3>3. CASE LockRestock(r)
      BY <1>1, <2>1, <3>3 DEF LockRestock, shopVars
    <3> QED
      BY <3>1, <3>2, <3>3
  <2>2. CASE q # r
    <3>1. pc[q] = "lock_restock" /\ job'[q] = job[q]
      BY <1>2, <2>2, RequestFrame DEF OthersUntouched
    <3>2. job[q].order \in Requests /\ orders[job[q].order] # None
      BY <3>1 DEF TypeInv, JobsFit
    <3>3. Places(r) => job[q].order # r
      BY <3>2, PlacesFrame DEF PlacedOnce
    <3>4. CommitCancel(r) => job[q].order # job[r].order
      BY <2>2, <3>1, CancelFrame DEF LockInv, OrderLocked
    <3>5. orders'[job[q].order] = orders[job[q].order]
      <4>1. CASE Places(r)
        BY <3>2, <3>3, <4>1, PlacesFrame
      <4>2. CASE CommitCancel(r)
        BY <3>2, <3>4, <4>2, CancelFrame
      <4> QED
        BY <1>2, <4>1, <4>2, RequestFrame
    <3> QED
      BY <1>1, <3>1, <3>5
  <2> QED
    BY <2>1, <2>2
<1>3. CASE CustomerWrites \/ AdminWrites
  <2>1. pc[q] = "lock_restock" /\ job'[q] = job[q]
    BY <1>3, WriteFrame
  <2>2. lock[OrderRow(job[q].order)] # None /\ job[q].order \in Requests
    BY <2>1, NoneIsNoRequest DEF LockInv, OrderLocked, TypeInv, JobsFit
  <2> QED
    BY <1>1, <1>3, <2>1, <2>2, WriteFrame DEF OrderKept
<1>4. CASE UNCHANGED vars
  BY <1>1, <1>4 DEF vars
<1> QED
  BY <1>2, <1>3, <1>4 DEF Next, RequestStep

\* No confirmation, delivery or second cancellation overtakes a cancellation
\* between its check and its restock.
THEOREM NoCancelOvertaken == Spec => []CancelStaysAllowed
<1>1. Init => PlacedOnce /\ CancelStaysAllowed
  BY DEF Init, PlacedOnce, CancelStaysAllowed
<1> QED
  BY <1>1, PlacedOnceStep, CancelAllowedStep, Locking, PTL DEF Spec

-----------------------------------------------------------------------------
(* Redemptions.                                                            *)

\* What a request has read of its code's use is still so; before it reads its
\* code, it has none.
CodeUnused(r) ==
  /\ pc[r] \in {"idle", "lock_user", "read_cart", "lock_lines", "check_lines", "read_promo"} =>
       quote[r].promo = None
  /\ pc[r] \in {"lock_promo", "price"} /\ quote[r].promo # None =>
       quote[r].used \/ ~Used(quote[r].promo, job[r].user)
  /\ pc[r] = "lock_products" => ~RedemptionConflict(r)
CodesUnused == \A r \in Requests : CodeUnused(r)

\* Only the customer's own checkout redeems a code in the customer's name.
LEMMA UsedFrame ==
  ASSUME TypeInv, [Next]_vars, NEW c, NEW u, Used(c, u)'
  PROVE  Used(c, u) \/ \E r \in Requests : Places(r) /\ job[r].user = u
<1>1. PICK x \in redeemed' : x.code = c /\ x.user = u
  BY DEF Used
<1>2. CASE x \in redeemed
  BY <1>1, <1>2 DEF Used
<1>3. ASSUME NEW r \in Requests, RequestStep(r), x \notin redeemed
      PROVE  \E s \in Requests : Places(s) /\ job[s].user = u
  <2>1. ~CommitCancel(r)
    BY <1>3 DEF CommitCancel
  <2>2. Places(r)
    BY <1>3, <2>1, RequestFrame
  <2>3. x.user = job[r].user
    BY <1>3, <2>2 DEF Places, CommitOrder
  <2> QED
    BY <1>1, <2>2, <2>3
<1>4. CustomerWrites \/ AdminWrites => x \in redeemed
  BY WriteFrame
<1>5. UNCHANGED vars => x \in redeemed
  BY DEF vars
<1> QED
  BY <1>2, <1>3, <1>4, <1>5 DEF Next, RequestStep

\* While a request holds its customer's row, no one else redeems for them.
LEMMA UnusedKept ==
  ASSUME TypeInv, LockInv, [Next]_vars, NEW q \in Requests, NEW c, NEW u, u = job[q].user,
         pc[q] \in AfterReadCart, pc'[q] # "done", ~Used(c, u)
  PROVE  ~Used(c, u)'
<1> SUFFICES ASSUME NEW r \in Requests, Places(r), job[r].user = u
             PROVE  FALSE
  BY UsedFrame
<1> QED
  BY OneCheckoutPerUser, PlacesFrame DEF AfterReadCart

\* Every step keeps a code found unused unused until the checkout redeems it.
LEMMA CodesStep == TypeInv /\ LockInv /\ CodesUnused /\ [Next]_vars => CodesUnused'
<1> SUFFICES ASSUME TypeInv, LockInv, CodesUnused, [Next]_vars, NEW q \in Requests
             PROVE  CodeUnused(q)'
  BY DEF CodesUnused
<1> DEFINE Labelled == {"lock_promo", "price", "lock_products"}
           Early == {"idle", "lock_user", "read_cart", "lock_lines", "check_lines", "read_promo"}
<1>1. ASSUME pc[q] \in Labelled, pc'[q] \in Labelled, NEW c, NEW u, u = job[q].user, ~Used(c, u)
      PROVE  ~Used(c, u)'
  BY <1>1, UnusedKept DEF AfterReadCart
<1>2. CASE pc'[q] = pc[q] /\ job'[q] = job[q] /\ quote'[q] = quote[q]
  <2> DEFINE c == quote[q].promo
             u == job[q].user
  <2>1. /\ pc[q] \in {"lock_promo", "price"} /\ c # None => quote[q].used \/ ~Used(c, u)
        /\ pc[q] = "lock_products" => ~(c # None /\ Used(c, u))
        /\ pc[q] \in Early => c = None
    BY DEF CodesUnused, CodeUnused, RedemptionConflict
  <2>2. pc[q] \in Labelled /\ ~Used(c, u) => ~Used(c, u)'
    BY <1>1, <1>2
  <2>3. c' = c /\ u' = u
    BY <1>2
  <2> QED
    BY <1>2, <2>1, <2>2, <2>3 DEF CodeUnused, RedemptionConflict
<1>3. ASSUME RequestStep(q) PROVE CodeUnused(q)'
  <2>1. CASE pc'[q] \in {"done", "failed"} \/ pc'[q] \in {"lock_order", "lock_restock"}
    BY <2>1 DEF CodeUnused
  <2>2. CASE pc[q] \in Early /\ pc'[q] \in Early /\ quote'[q].promo = quote[q].promo
    BY <2>2 DEF CodesUnused, CodeUnused
  <2>3. CASE Arrive(q) /\ pc'[q] = "lock_user"
    BY <2>2, <2>3 DEF Arrive, Begin, BeginCancel
  <2>4. CASE \/ LockUser(q) /\ pc'[q] = "read_cart"
             \/ LockLine(q) /\ pc'[q] \in {"lock_lines", "check_lines"}
             \/ CheckLines(q) /\ ~Refuse(q) /\ pc'[q] = "read_promo"
    BY <2>2, <2>4 DEF LockUser, LockLine, CheckLines
  <2>5. CASE ReadCart(q) /\ ~Refuse(q) /\ pc'[q] = "lock_lines"
    <3>1. quote'[q].promo = quote[q].promo
      BY <2>5 DEF ReadCart, TypeInv, TransactionTypeOK, Quote
    <3> QED
      BY <2>2, <2>5, <3>1 DEF ReadCart
  <2>6. CASE ReadPromo(q) /\ cartPromo[job[q].user] = None /\ pc'[q] = "price"
    BY <2>6 DEF ReadPromo, CodesUnused, CodeUnused
  <2>7. CASE ReadPromo(q) /\ cartPromo[job[q].user] # None /\ pc'[q] = "lock_promo"
    <3> DEFINE c == cartPromo[job[q].user]
               u == job[q].user
    <3>1. /\ quote' = [quote EXCEPT ![q].promo = c, ![q].count = Cardinality(Redemptions(c)),
                                    ![q].used = Used(c, u)]
          /\ UNCHANGED <<shopVars, job, lines, lock>>
      BY <2>7 DEF ReadPromo
    <3>2. quote'[q].used = Used(c, u) /\ quote'[q].promo = c
      <4>1. quote[q] \in Quote
        BY DEF TypeInv, TransactionTypeOK
      <4> QED
        BY <3>1, <4>1, Zenon DEF Quote, TypeInv, TransactionTypeOK
    <3>3. job'[q].user = u /\ redeemed' = redeemed
      BY <3>1 DEF shopVars
    <3> QED
      BY <2>7, <3>2, <3>3 DEF CodeUnused, Used
  <2>8. CASE LockPromo(q) /\ pc'[q] = "price"
    BY <2>8 DEF LockPromo, CodesUnused, CodeUnused, shopVars, Used
  <2>9. CASE PriceOrder(q) /\ ~Refuse(q) /\ pc'[q] = "lock_products"
    <3>1. /\ ~(quote[q].promo # None /\
             PromoIssue(quote[q].promo, quote[q].count, quote[q].used,
                        Subtotal(lines[q], quote[q].prices)))
          /\ quote' = [quote EXCEPT ![q].first = (OrdersOf(job[q].user) \cap Live = {})]
          /\ UNCHANGED <<shopVars, job, lines, lock>>
      BY <2>9 DEF PriceOrder, PriorOrders
    <3>2. PICK b \in BOOLEAN : quote' = [quote EXCEPT ![q].first = b]
      BY <3>1, Zenon
    <3>3. quote'[q].promo = quote[q].promo
      BY <3>2 DEF TypeInv, TransactionTypeOK, Quote
    <3>4. quote[q].promo # None => ~quote[q].used
      BY <3>1 DEF PromoIssue
    <3>5. quote[q].promo # None => ~Used(quote[q].promo, job[q].user)
      BY <2>9, <3>4 DEF PriceOrder, CodesUnused, CodeUnused
    <3> QED
      BY <2>9, <3>1, <3>3, <3>5 DEF CodeUnused, RedemptionConflict, Used, shopVars
  <2>10. CASE LockProduct(q)
    BY <1>2, <2>10 DEF LockProduct
  <2> QED
    BY <1>3, <2>1, <2>3, <2>4, <2>5, <2>6, <2>7, <2>8, <2>9, <2>10, Labels
<1>4. ASSUME NEW r \in Requests, RequestStep(r), q # r PROVE CodeUnused(q)'
  BY <1>2, <1>4, RequestFrame DEF OthersUntouched
<1>5. CASE CustomerWrites \/ AdminWrites
  BY <1>2, <1>5, WriteFrame
<1>6. CASE UNCHANGED vars
  BY <1>2, <1>6 DEF vars
<1> QED
  BY <1>3, <1>4, <1>5, <1>6 DEF Next, RequestStep

\* The unique index on promo_redemptions never refuses a checkout: the locks
\* have kept the code unused by the customer since it was read.
THEOREM NoRedemptionRefused == Spec => []RedeemsWithoutConflict
<1>1. Init => CodesUnused
  BY DEF Init, CodesUnused, CodeUnused, NoQuote
<1>2. CodesUnused => RedeemsWithoutConflict
  BY DEF CodesUnused, CodeUnused, RedeemsWithoutConflict
<1> QED
  BY <1>1, <1>2, CodesStep, Locking, PTL DEF Spec

-----------------------------------------------------------------------------
(* Cash on delivery.                                                       *)

CashPaid(o) ==
  orders[o].status = "delivered" /\ SettlesOnDelivery(orders[o].method)
    => orders[o].payment # "unpaid"

\* The two admin clicks write one order each: delivering settles the cash, and no payment
\* click goes back to unpaid.
LEMMA CashWrites ==
  ASSUME TypeInv, DeliveredCashIsPaid, CustomerWrites \/ AdminWrites,
         NEW x \in Requests, orders'[x] # None
  PROVE  CashPaid(x)'
<1>1. CASE orders'[x] = orders[x]
  BY <1>1 DEF DeliveredCashIsPaid, Placed, CashPaid
<1>2. CASE \E o \in Requests, to \in Statuses : UpdateOrderStatus(o, to) /\ orders'[x] # orders[x]
  <2>1. PICK o \in Requests, to \in Statuses : UpdateOrderStatus(o, to) /\ orders'[x] # orders[x]
    BY <1>2
  <2> DEFINE settles == to = "delivered" /\ SettlesOnDelivery(orders[o].method)
                          /\ orders[o].payment = "unpaid"
             pay == IF settles THEN "paid" ELSE orders[o].payment
  <2>2. orders[o] # None /\ orders[o] \in Order
    BY <2>1 DEF UpdateOrderStatus, Placed, TypeInv, TransactionTypeOK
  <2>3. orders' = [orders EXCEPT ![o] = [[orders[o] EXCEPT !.status = to] EXCEPT !.payment = pay]]
    BY <2>1, <2>2 DEF UpdateOrderStatus, Order, TypeInv, TransactionTypeOK
  <2> HIDE DEF pay
  <2>4. x = o /\ orders'[x] = [[orders[o] EXCEPT !.status = to] EXCEPT !.payment = pay]
    BY <2>1, <2>3 DEF TypeInv, TransactionTypeOK
  <2>5. /\ orders'[x].status = to /\ orders'[x].method = orders[o].method
        /\ orders'[x].payment = pay
    BY <2>2, <2>4 DEF Order
  <2> QED BY <2>5 DEF CashPaid, SettlesOnDelivery, pay
<1>3. CASE \E o \in Requests, to \in Payments :
             UpdateOrderPaymentStatus(o, to) /\ orders'[x] # orders[x]
  <2>1. PICK o \in Requests, to \in Payments :
          UpdateOrderPaymentStatus(o, to) /\ orders'[x] # orders[x]
    BY <1>3
  <2>2. orders[o] # None /\ orders[o] \in Order
    BY <2>1 DEF UpdateOrderPaymentStatus, Placed, TypeInv, TransactionTypeOK
  <2>3. orders' = [orders EXCEPT ![o] = [orders[o] EXCEPT !.payment = to]]
    BY <2>1 DEF UpdateOrderPaymentStatus
  <2>4. x = o /\ orders'[x] = [orders[o] EXCEPT !.payment = to]
    BY <2>1, <2>3 DEF TypeInv, TransactionTypeOK
  <2>5. orders'[x].payment = to
    BY <2>2, <2>4 DEF Order
  <2>6. to # "unpaid"
    BY <2>1 DEF UpdateOrderPaymentStatus, PaymentTransitions
  <2> QED BY <2>5, <2>6 DEF CashPaid
<1>4. ASSUME CustomerWrites PROVE orders'[x] = orders[x]
  <2>1. PICK u, v, q : \/ SetCartItem(u, v, q) \/ DeleteCartItem(u, v)
                      \/ ApplyPromo(u, v) \/ ClearPromo(u)
    BY <1>4, Zenon DEF CustomerWrites
  <2> QED BY <2>1 DEF SetCartItem, DeleteCartItem, ApplyPromo, ClearPromo
<1>5. ASSUME \/ \E y \in VariantInputs : UpdateVariant(y[1], y[2], y[3])
             \/ \E y \in CodeInputs : UpdatePromo(y[1], y[2])
             \/ \E c \in Codes : Expire(c)
      PROVE  orders'[x] = orders[x]
  BY <1>5 DEF UpdateVariant, UpdatePromo, Expire
<1> QED
  BY <1>1, <1>2, <1>3, <1>4, <1>5 DEF AdminWrites

\* Every step keeps delivered cash orders paid.
LEMMA CashStep == TypeInv /\ DeliveredCashIsPaid /\ [Next]_vars => DeliveredCashIsPaid'
<1> SUFFICES ASSUME TypeInv, DeliveredCashIsPaid, [Next]_vars,
                    NEW x \in Requests, orders'[x] # None
             PROVE  CashPaid(x)'
  BY DEF DeliveredCashIsPaid, Placed, CashPaid
<1>1. CASE orders'[x] = orders[x]
  BY <1>1 DEF DeliveredCashIsPaid, Placed, CashPaid
<1>2. ASSUME NEW r \in Requests, RequestStep(r), orders'[x] # orders[x] PROVE CashPaid(x)'
  <2>1. CASE Places(r)
    <3>1. orders'[x] = PlacedOrder(r)
      BY <1>2, <2>1, PlacesFrame
    <3> QED BY <3>1 DEF PlacedOrder, CashPaid
  <2>2. CASE CommitCancel(r)
    BY <1>2, <2>2, CancelFrame DEF CashPaid
  <2> QED
    BY <1>2, <2>1, <2>2, RequestFrame
<1>3. CASE CustomerWrites \/ AdminWrites
  BY <1>3, CashWrites
<1>4. CASE UNCHANGED vars
  BY <1>1, <1>4 DEF vars
<1> QED
  BY <1>1, <1>2, <1>3, <1>4 DEF Next, RequestStep

\* However the courier's delivery and the admin's payment clicks interleave, a delivered cash
\* order does not read "payment pending" (UpdateOrderStatus settles in the same write).
THEOREM DeliverySettlesCash == Spec => []DeliveredCashIsPaid
<1>1. Init => DeliveredCashIsPaid
  BY DEF Init, DeliveredCashIsPaid, Placed
<1> QED
  BY <1>1, CashStep, Locking, PTL DEF Spec

-----------------------------------------------------------------------------
(* Checkouts lock in one order.                                            *)

\* Which rows a transaction may be holding, statement by statement: user row,
\* variants by id, promo row, products by id.
InLockOrder(r) ==
  /\ pc[r] \in {"lock_order", "lock_restock"} => ~IsCheckout(r)
  /\ \A u \in Users : lock[UserRow(u)] = r => pc[r] \in {"read_cart"} \cup AfterReadCart
  /\ \A v \in Variants : lock[VariantRow(v)] = r /\ pc[r] # "lock_restock" =>
       /\ pc[r] \in AfterReadCart
       /\ pc[r] = "lock_lines" => \A w \in PendingLines(r) : v < w
  /\ \A c \in Codes : lock[PromoRow(c)] = r => pc[r] \in {"price", "lock_products"}
  /\ \A p \in Products : lock[ProductRow(p)] = r =>
       pc[r] = "lock_products" /\ \A w \in PendingProducts(r) : p < w
LockOrderInv == \A r \in Requests : InLockOrder(r)

\* Taking a row gives the request that row and no other.
LEMMA TakeOne ==
  ASSUME TypeInv, NEW r \in Requests, NEW row \in Rows, Take(r, row)
  PROVE  \A x \in Rows : lock'[x] = r <=> (x = row \/ lock[x] = r)
BY DEF Take, TypeInv, TransactionTypeOK

\* After COMMIT or ROLLBACK a request holds nothing.
LEMMA EndHoldsNothing ==
  ASSUME TypeInv, NEW r \in Requests, NEW outcome \in Ended, End(r, outcome)
  PROVE  pc'[r] = outcome /\ ~IsCheckout(r)' /\ \A row \in Rows : lock'[row] # r
BY NoneIsNoRequest DEF End, Goto, Release, NoJob, IsCheckout, TypeInv, TransactionTypeOK

\* Two rows of different tables, or of different ids, are different rows.
LEMMA RowsDiffer ==
  /\ \A x, y : (UserRow(x) = UserRow(y) => x = y) /\ UserRow(x) # VariantRow(y)
               /\ UserRow(x) # PromoRow(y) /\ UserRow(x) # ProductRow(y) /\ UserRow(x) # OrderRow(y)
  /\ \A x, y : (VariantRow(x) = VariantRow(y) => x = y) /\ VariantRow(x) # PromoRow(y)
               /\ VariantRow(x) # ProductRow(y) /\ VariantRow(x) # OrderRow(y)
  /\ \A x, y : (PromoRow(x) = PromoRow(y) => x = y)
               /\ PromoRow(x) # ProductRow(y) /\ PromoRow(x) # OrderRow(y)
  /\ \A x, y : (ProductRow(x) = ProductRow(y) => x = y) /\ ProductRow(x) # OrderRow(y)
BY DEF UserRow, VariantRow, PromoRow, ProductRow, OrderRow

\* A request whose state and locks are as they were keeps its place in the order.
LEMMA LockOrderKept ==
  ASSUME TypeInv, NEW q \in Requests, InLockOrder(q),
         pc'[q] = pc[q], job'[q] = job[q], lines'[q] = lines[q],
         \A row \in Rows : lock'[row] = q <=> lock[row] = q
  PROVE  InLockOrder(q)'
<1>1. PendingLines(q)' = PendingLines(q)
  BY RowTypes DEF PendingLines, LinesIn
<1>2. PendingProducts(q)' = PendingProducts(q)
  BY RowTypes, ProductOfType DEF PendingProducts, LinesIn
<1> QED
  BY <1>1, <1>2, RowTypes DEF InLockOrder, IsCheckout

\* A request's own statement takes the next row in order, or none.
LEMMA OwnOrder ==
  ASSUME TypeInv, NEW r \in Requests, RequestStep(r), InLockOrder(r)
  PROVE  InLockOrder(r)'
<1> USE DEF InLockOrder
<1>1. ASSUME NEW outcome \in Ended, End(r, outcome) PROVE InLockOrder(r)'
  <2>1. pc'[r] = outcome /\ \A row \in Rows : lock'[row] # r
    BY <1>1, EndHoldsNothing
  <2> QED
    BY <2>1, RowTypes DEF Ended
<1>2. CASE Arrive(r)
  <2>1. /\ pc[r] = "idle" /\ lock' = lock
        /\ pc'[r] = "lock_user" \/ (pc'[r] = "lock_order" /\ job'[r].kind = "cancel")
    BY <1>2 DEF Arrive, Begin, BeginCancel, Goto, TypeInv, TransactionTypeOK
  <2> QED
    BY <2>1, RowTypes DEF IsCheckout, AfterReadCart
<1>3. CASE LockUser(r)
  <2>1. UserRow(job[r].user) \in Rows
    BY <1>3, WaitsForRows DEF LockUser
  <2>2. /\ pc[r] = "lock_user" /\ pc'[r] = "read_cart"
        /\ \A x \in Rows : lock'[x] = r <=> (x = UserRow(job[r].user) \/ lock[x] = r)
    BY <1>3, <2>1, TakeOne DEF LockUser, Goto, TypeInv, TransactionTypeOK
  <2> QED
    BY <2>2, RowTypes, RowsDiffer DEF AfterReadCart
<1>4. CASE ReadCart(r) /\ ~Refuse(r)
  <2>1. pc[r] = "read_cart" /\ pc'[r] = "lock_lines" /\ lock' = lock
    BY <1>4 DEF ReadCart, Goto, TypeInv, TransactionTypeOK
  <2> QED
    BY <2>1, RowTypes DEF AfterReadCart
<1>5. CASE LockLine(r)
  <2>1. PICK v \in Least(PendingLines(r)) :
          /\ Take(r, VariantRow(v))
          /\ Goto(r, IF PendingLines(r) = {v} THEN "check_lines" ELSE "lock_lines")
    BY <1>5 DEF LockLine
  <2>2. v \in PendingLines(r) /\ v \in Variants /\ VariantRow(v) \in Rows /\ v \in Nat
    BY <2>1, WaitsForRows, LeastIsIn, RowTypes, VariantsAreIds
  <2>3. /\ pc[r] = "lock_lines" /\ pc'[r] \in {"lock_lines", "check_lines"}
        /\ \A x \in Rows : lock'[x] = r <=> (x = VariantRow(v) \/ lock[x] = r)
        /\ lines' = lines /\ job' = job
    BY <1>5, <2>1, <2>2, TakeOne DEF LockLine, Goto, TypeInv, TransactionTypeOK
  <2>4. \A w : w \in PendingLines(r)' => w \in PendingLines(r) /\ w # v /\ w \in Nat
    BY <2>2, <2>3, RowTypes, VariantsAreIds DEF PendingLines, LinesIn
  <2>5. \A w \in PendingLines(r)' : v < w
    BY <2>1, <2>2, <2>4 DEF Least
  <2>6. ASSUME NEW x \in Variants, lock'[VariantRow(x)] = r
        PROVE  pc'[r] \in AfterReadCart /\ \A w \in PendingLines(r)' : x < w
    <3>1. CASE x = v
      BY <2>3, <2>5, <3>1 DEF AfterReadCart
    <3>2. CASE x # v
      <4>1. lock[VariantRow(x)] = r
        BY <2>3, <2>6, <3>2, RowsDiffer, RowTypes
      <4> QED
        BY <2>3, <2>4, <4>1 DEF AfterReadCart
    <3> QED
      BY <3>1, <3>2
  <2>7. /\ \A u \in Users : lock'[UserRow(u)] # r \/ pc'[r] \in AfterReadCart
        /\ \A c \in Codes : lock'[PromoRow(c)] # r
        /\ \A p \in Products : lock'[ProductRow(p)] # r
    BY <2>3, RowTypes, RowsDiffer DEF AfterReadCart
  <2> QED
    BY <2>3, <2>6, <2>7
<1>6. CASE (CheckLines(r) /\ ~Refuse(r)) \/ ReadPromo(r)
  <2>1. /\ pc[r] \in {"check_lines", "read_promo"} /\ lock' = lock
        /\ pc'[r] \in {"read_promo", "lock_promo", "price"}
    BY <1>6 DEF CheckLines, ReadPromo, Goto, TypeInv, TransactionTypeOK
  <2> QED
    BY <2>1, RowTypes DEF AfterReadCart
<1>7. CASE LockPromo(r)
  <2>1. PromoRow(quote[r].promo) \in Rows
    BY <1>7, WaitsForRows DEF LockPromo
  <2>2. /\ pc[r] = "lock_promo" /\ pc'[r] = "price"
        /\ \A x \in Rows : lock'[x] = r <=> (x = PromoRow(quote[r].promo) \/ lock[x] = r)
    BY <1>7, <2>1, TakeOne DEF LockPromo, Goto, TypeInv, TransactionTypeOK
  <2> QED
    BY <2>2, RowTypes, RowsDiffer DEF AfterReadCart
<1>8. CASE PriceOrder(r) /\ ~Refuse(r)
  <2>1. pc[r] = "price" /\ pc'[r] = "lock_products" /\ lock' = lock
    BY <1>8 DEF PriceOrder, Goto, TypeInv, TransactionTypeOK
  <2> QED
    BY <2>1, RowTypes DEF AfterReadCart
<1>9. CASE LockProduct(r)
  <2>1. PICK p \in Least(PendingProducts(r)) : Take(r, ProductRow(p))
    BY <1>9 DEF LockProduct
  <2>2. p \in PendingProducts(r) /\ p \in Products /\ ProductRow(p) \in Rows /\ p \in Nat
    <3>1. p \in PendingProducts(r)
      BY <2>1, LeastIsIn
    <3>2. p \in Products
      BY <3>1, ProductOfType DEF PendingProducts, LinesIn
    <3> QED
      BY <3>1, <3>2, RowTypes, ProductsAreIds
  <2>3. /\ pc[r] = "lock_products" /\ pc' = pc
        /\ \A x \in Rows : lock'[x] = r <=> (x = ProductRow(p) \/ lock[x] = r)
        /\ lines' = lines /\ job' = job
    BY <1>9, <2>1, <2>2, TakeOne DEF LockProduct, TypeInv, TransactionTypeOK
  <2>4. \A w : w \in PendingProducts(r)' => w \in PendingProducts(r) /\ w # p /\ w \in Nat
    BY <2>2, <2>3, RowTypes, ProductsAreIds, ProductOfType DEF PendingProducts, LinesIn
  <2>5. \A w \in PendingProducts(r)' : p < w
    BY <2>1, <2>2, <2>4 DEF Least
  <2>6. ASSUME NEW x \in Products, lock'[ProductRow(x)] = r
        PROVE  \A w \in PendingProducts(r)' : x < w
    <3>1. CASE x = p
      BY <2>5, <3>1
    <3>2. CASE x # p
      <4>1. lock[ProductRow(x)] = r
        BY <2>3, <2>6, <3>2, RowsDiffer, RowTypes
      <4> QED
        BY <2>3, <2>4, <4>1
    <3> QED
      BY <3>1, <3>2
  <2>7. /\ \A u \in Users : lock'[UserRow(u)] = r <=> lock[UserRow(u)] = r
        /\ \A v \in Variants : lock'[VariantRow(v)] = r <=> lock[VariantRow(v)] = r
        /\ \A c \in Codes : lock'[PromoRow(c)] = r <=> lock[PromoRow(c)] = r
    BY <2>3, RowTypes, RowsDiffer
  <2>8. pc'[r] = "lock_products" /\ pc'[r] \in AfterReadCart
    BY <2>3 DEF AfterReadCart
  <2>9. /\ \A v \in Variants : lock'[VariantRow(v)] = r /\ pc'[r] # "lock_restock" =>
            /\ pc'[r] \in AfterReadCart
            /\ pc'[r] = "lock_lines" => \A w \in PendingLines(r)' : v < w
    BY <2>8
  <2>10. \A c \in Codes : lock'[PromoRow(c)] = r => pc'[r] \in {"price", "lock_products"}
    BY <2>8
  <2> QED
    BY <2>6, <2>8, <2>9, <2>10
<1>10. CASE (LockOrder(r) /\ ~Refuse(r)) \/ LockRestock(r)
  <2>1. PICK row \in Rows :
          /\ Take(r, row) /\ row[1] \in {"order", "variant"}
          /\ pc[r] \in {"lock_order", "lock_restock"} /\ pc'[r] = "lock_restock" /\ job' = job
    <3>1. CASE LockOrder(r) /\ ~Refuse(r)
      <4>1. /\ OrderRow(job[r].order) \in Rows /\ Take(r, OrderRow(job[r].order))
            /\ pc[r] = "lock_order" /\ pc'[r] = "lock_restock" /\ job' = job
        BY <3>1, WaitsForRows DEF LockOrder, Goto, TypeInv, TransactionTypeOK
      <4> QED
        BY <4>1 DEF OrderRow
    <3>2. CASE LockRestock(r)
      <4>1. PICK v \in PendingLines(r) : Take(r, VariantRow(v))
        BY <3>2 DEF LockRestock
      <4>2. VariantRow(v) \in Rows
        BY WaitsForRows, RowTypes
      <4>3. pc[r] = "lock_restock" /\ pc'[r] = "lock_restock" /\ job' = job
        BY <3>2 DEF LockRestock
      <4> QED
        BY <4>1, <4>2, <4>3 DEF VariantRow
    <3> QED
      BY <1>10, <3>1, <3>2
  <2>2. \A x \in Rows : lock'[x] = r <=> (x = row \/ lock[x] = r)
    BY <2>1, TakeOne
  <2>3. \A x : row # UserRow(x) /\ row # PromoRow(x) /\ row # ProductRow(x)
    BY <2>1 DEF UserRow, PromoRow, ProductRow
  <2> QED
    BY <2>1, <2>2, <2>3, RowTypes DEF IsCheckout, AfterReadCart
<1>11. CASE \E outcome \in Ended : End(r, outcome)
  BY <1>1, <1>11
<1> QED
  BY <1>2, <1>3, <1>4, <1>5, <1>6, <1>7, <1>8, <1>9, <1>10, <1>11
  DEF RequestStep, CheckoutStep, CancelStep, Abort, BreakDeadlock, Refuse, CommitOrder,
      CommitCancel, Ended

\* Every step keeps the order of the locks.
LEMMA LockOrderStep == TypeInv /\ LockOrderInv /\ [Next]_vars => LockOrderInv'
<1> SUFFICES ASSUME TypeInv, LockOrderInv, [Next]_vars, NEW q \in Requests
             PROVE  InLockOrder(q)'
  BY DEF LockOrderInv
<1>0. InLockOrder(q)
  BY DEF LockOrderInv
<1>1. ASSUME NEW r \in Requests, RequestStep(r), q # r PROVE InLockOrder(q)'
  BY <1>0, <1>1, RequestFrame, LockOrderKept DEF OthersUntouched
<1>2. CASE RequestStep(q)
  BY <1>0, <1>2, OwnOrder
<1>3. CASE CustomerWrites \/ AdminWrites
  BY <1>0, <1>3, WriteFrame, LockOrderKept
<1>4. CASE UNCHANGED vars
  BY <1>0, <1>4, LockOrderKept DEF vars
<1> QED
  BY <1>1, <1>2, <1>3, <1>4 DEF Next, RequestStep

\* No checkouts wait in a circle: of those that wait for products, the one that waits
\* for the greatest id would wait for one that wants a greater; so nobody in the circle
\* waits for a product, nobody then for a promo row, nor, again by id, for a variant,
\* and nobody at last for a user row.
LEMMA NoCircle ==
  ASSUME TypeInv, LockOrderInv, NEW S, S \subseteq {r \in Requests : IsCheckout(r)},
         Deadlocked(S)
  PROVE  FALSE
<1>0. /\ \A r \in S : r \in Requests /\ InLockOrder(r) /\ IsCheckout(r)
      /\ S # {}
  BY DEF LockOrderInv, Deadlocked
<1>1. ASSUME NEW r \in S
      PROVE  pc[r] \in {"lock_user", "lock_lines", "lock_promo", "lock_products"}
  <2>1. Wants(r) # {}
    BY DEF Deadlocked
  <2>2. pc[r] \in {"lock_user", "lock_lines", "lock_promo", "lock_products", "lock_order", "lock_restock"}
    BY <2>1 DEF Wants
  <2> QED
    BY <1>0, <2>2 DEF InLockOrder
<1>2. ASSUME NEW r \in S, pc[r] = "lock_products" PROVE FALSE
  <2> DEFINE N == {p \in Products :
                     \E x \in S : pc[x] = "lock_products" /\ p \in Least(PendingProducts(x))}
  <2>1. ASSUME NEW x \in S, pc[x] = "lock_products"
        PROVE  \E p \in N : p \in Least(PendingProducts(x))
    <3>1. Wants(x) # {} /\ Wants(x) = {ProductRow(p) : p \in Least(PendingProducts(x))}
      BY <2>1 DEF Deadlocked, Wants
    <3>2. PICK p \in Least(PendingProducts(x)) : TRUE
      BY <3>1
    <3>3. p \in Products
      BY LeastIsIn, ProductOfType, <1>0 DEF PendingProducts, LinesIn
    <3> QED
      BY <2>1, <3>2, <3>3
  <2>2. PICK p \in N : \A m \in N : m <= p
    <3>1. N \subseteq Products /\ IsFiniteSet(N) /\ N # {} /\ N \subseteq Nat
      BY <1>2, <2>1, ProductsAreIds, FS_Subset
    <3> HIDE DEF N
    <3> QED
      BY <3>1, GreatestNumber
  <2>3. PICK x \in S : pc[x] = "lock_products" /\ p \in Least(PendingProducts(x))
    OBVIOUS
  <2>4. lock[ProductRow(p)] \in S
    BY <2>3 DEF Deadlocked, Wants
  <2> DEFINE q == lock[ProductRow(p)]
  <2>5. q \in S /\ pc[q] = "lock_products" /\ \A w \in PendingProducts(q) : p < w
    BY <1>0, <2>4 DEF InLockOrder
  <2>6. PICK w \in N : w \in Least(PendingProducts(q))
    BY <2>1, <2>5
  <2>7. p < w /\ w <= p /\ p \in Nat /\ w \in Nat
    BY <2>2, <2>5, <2>6, LeastIsIn, ProductsAreIds
  <2> QED
    BY <2>7
<1>3. ASSUME NEW r \in S, pc[r] = "lock_promo" PROVE FALSE
  <2>1. PromoRow(quote[r].promo) \in Wants(r) /\ quote[r].promo \in Codes
    BY <1>0, <1>3 DEF Wants, TypeInv, JobsFit
  <2>2. lock[PromoRow(quote[r].promo)] \in S
    BY <2>1 DEF Deadlocked
  <2> QED
    BY <1>0, <1>1, <1>2, <2>1, <2>2 DEF InLockOrder
<1>4. ASSUME NEW r \in S, pc[r] = "lock_lines" PROVE FALSE
  <2> DEFINE N == {v \in Variants :
                     \E x \in S : pc[x] = "lock_lines" /\ v \in Least(PendingLines(x))}
  <2>1. ASSUME NEW x \in S, pc[x] = "lock_lines"
        PROVE  \E v \in N : v \in Least(PendingLines(x))
    <3>1. Wants(x) # {} /\ Wants(x) = {VariantRow(v) : v \in Least(PendingLines(x))}
      BY <2>1 DEF Deadlocked, Wants
    <3>2. PICK v \in Least(PendingLines(x)) : TRUE
      BY <3>1
    <3>3. v \in Variants
      BY LeastIsIn, <1>0 DEF PendingLines, LinesIn
    <3> QED
      BY <2>1, <3>2, <3>3
  <2>2. PICK v \in N : \A m \in N : m <= v
    <3>1. N \subseteq Variants /\ IsFiniteSet(N) /\ N # {} /\ N \subseteq Nat
      BY <1>4, <2>1, VariantsAreIds, FS_Subset
    <3> HIDE DEF N
    <3> QED
      BY <3>1, GreatestNumber
  <2>3. PICK x \in S : pc[x] = "lock_lines" /\ v \in Least(PendingLines(x))
    OBVIOUS
  <2>4. lock[VariantRow(v)] \in S
    BY <2>3 DEF Deadlocked, Wants
  <2> DEFINE q == lock[VariantRow(v)]
  <2>5. q \in S /\ pc[q] = "lock_lines" /\ \A w \in PendingLines(q) : v < w
    <3>1. pc[q] = "lock_lines"
      BY <1>0, <1>1, <1>2, <1>3, <2>4 DEF InLockOrder, AfterReadCart
    <3> QED
      BY <1>0, <2>4, <3>1 DEF InLockOrder
  <2>6. PICK w \in N : w \in Least(PendingLines(q))
    BY <2>1, <2>5
  <2>7. v < w /\ w <= v /\ v \in Nat /\ w \in Nat
    BY <2>2, <2>5, <2>6, LeastIsIn, VariantsAreIds
  <2> QED
    BY <2>7
<1>5. ASSUME NEW r \in S, pc[r] = "lock_user" PROVE FALSE
  <2>1. UserRow(job[r].user) \in Wants(r) /\ job[r].user \in Users
    BY <1>0, <1>5 DEF Wants, TypeInv, JobsFit
  <2>2. lock[UserRow(job[r].user)] \in S
    BY <2>1 DEF Deadlocked
  <2> QED
    BY <1>0, <1>1, <1>2, <1>3, <1>4, <2>1, <2>2 DEF InLockOrder, AfterReadCart
<1> QED
  BY <1>0, <1>1, <1>2, <1>3, <1>4, <1>5

\* Checkouts never wait for each other in a circle.
THEOREM NoCheckoutDeadlock == Spec => []CheckoutsNeverDeadlock
<1>1. Init => LockOrderInv
  BY NoneIsNoRequest, RowTypes DEF Init, LockOrderInv, InLockOrder, IsCheckout, NoJob
<1>2. TypeInv /\ LockOrderInv => CheckoutsNeverDeadlock
  BY NoCircle DEF CheckoutsNeverDeadlock
<1> QED
  BY <1>1, <1>2, LockOrderStep, Locking, PTL DEF Spec
=============================================================================
