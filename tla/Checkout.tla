------------------------------ MODULE Checkout ------------------------------
(***************************************************************************)
(* The transaction core of the shop: CreateOrder (the checkout), the two   *)
(* cancellations, the admin's status and payment transitions, and the cart *)
(* promo and stock writes that run beside them (backend/internal/store).   *)
(*                                                                         *)
(* PostgreSQL runs every transaction at READ COMMITTED: a statement reads  *)
(* the snapshot taken when it starts, a row lock is held until the         *)
(* transaction ends, and a statement that waited for a row lock re-reads   *)
(* the locked row but nothing else.  A checkout is therefore one action    *)
(* per statement that reads or locks; its writes become visible together   *)
(* when it commits, so they are one action.                                *)
(***************************************************************************)
EXTENDS Integers, FiniteSets, Sums

CONSTANTS
  Users,          \* customers
  Variants,       \* product_variants ids: numbers, because locks are taken in id order
  Products,       \* products ids, numbers for the same reason
  Codes,          \* promo_codes rows
  Requests,       \* HTTP requests the run may serve; a placed order bears its request's id
  None,           \* SQL NULL, "no such row", and the administrator as an actor
  ProductOf,      \* the product a variant belongs to
  Offered,        \* payment methods ValidatePayment accepts in the run's market
  MaxLine,        \* the largest quantity of a cart line (99 in the code)
  InitStock, InitPrice, InitCarts, InitPromos, InitCodes,   \* where a run starts
  CartInputs,     \* <<user, variant, qty>>: bodies of PUT /cart/items
  PromoInputs,    \* <<user, code>>: bodies of POST /cart/promo
  VariantInputs,  \* <<variant, stock, price>>: bodies of the admin's variant form
  CodeInputs,     \* <<code, row>>: bodies of the admin's promo form
  DeskInputs,     \* the statuses, of orders and of payments, the admin's buttons set
  CancelInputs    \* <<order, actor>>: cancellations, by a user or by None the admin

Methods == {"bank_transfer", "cash_on_delivery"}
Prices == Nat \cup {None}     \* price_minor in the order's currency, None when there is none
\* A code's row: what active, starts_at, ends_at and the market make of it now,
\* its max_redemptions (None when uncapped) and its min_subtotal_minor.
CodeRow == [state : {"live", "expired", "unknown"}, cap : Nat \cup {None}, floor : Nat]

ASSUME VariantsAreIds == Variants \subseteq Nat /\ IsFiniteSet(Variants)
ASSUME ProductsAreIds == Products \subseteq Nat /\ IsFiniteSet(Products)
ASSUME RequestsFinite == IsFiniteSet(Requests)
ASSUME NoneIsFresh == None \notin Users \cup Codes \cup Requests \cup Methods \cup Nat
ASSUME OfferedType == Offered \subseteq Methods
ASSUME ProductOfType == ProductOf \in [Variants -> Products]
ASSUME MaxLineType == MaxLine \in Nat
ASSUME InitStockType == InitStock \in [Variants -> Nat]
ASSUME InitPriceType == InitPrice \in [Variants -> Prices]
ASSUME InitCartsType == InitCarts \subseteq [Users -> [Variants -> 0..MaxLine]]
ASSUME InitPromosType == InitPromos \subseteq [Users -> Codes \cup {None}]
ASSUME InitCodesType == InitCodes \in [Codes -> CodeRow]
ASSUME CartInputsType == CartInputs \subseteq Users \X Variants \X (1..MaxLine)
ASSUME PromoInputsType == PromoInputs \subseteq Users \X Codes
ASSUME VariantInputsType == VariantInputs \subseteq Variants \X Nat \X Prices
ASSUME CodeInputsType == CodeInputs \subseteq Codes \X CodeRow
ASSUME CancelInputsType == CancelInputs \subseteq Requests \X (Users \cup {None})

VARIABLES
  \* ---- committed rows ----
  stock,      \* product_variants.stock_qty
  price,      \* variant_effective_prices.price_minor in the order's currency
  sales,      \* products.sales_count
  cart,       \* cart_items.qty, 0 where the user has no such line
  cartPromo,  \* cart_promos.code_id
  code,       \* promo_codes with their promo_code_values
  orders,     \* orders with their order_items, None where no order was placed
  redeemed,   \* promo_redemptions
  book,       \* users with a default address in the address book
  supply,     \* history only: the jars the admin has ever declared, net
  \* ---- the server's transactions ----
  pc,         \* the statement a request executes next
  job,        \* what the request asks for
  lines,      \* the cart lines (or order lines) its transaction has read
  quote,      \* the promo row and counts its transaction has read
  lock        \* the request holding each row's lock

shopVars == <<stock, price, sales, cart, cartPromo, code, orders, redeemed, book, supply>>
txVars == <<pc, job, lines, quote, lock>>
vars == <<stock, price, sales, cart, cartPromo, code, orders, redeemed, book, supply,
          pc, job, lines, quote, lock>>

-----------------------------------------------------------------------------
(* Rows, requests and orders.                                              *)

UserRow(u) == <<"user", u>>
VariantRow(v) == <<"variant", v>>
PromoRow(c) == <<"promo", c>>
ProductRow(p) == <<"product", p>>
OrderRow(o) == <<"order", o>>
Rows == (({"user"} \X Users) \cup ({"variant"} \X Variants)
         \cup ({"promo"} \X Codes) \cup ({"product"} \X Products)
         \cup ({"order"} \X Requests))

Lines == [Variants -> 0..MaxLine]
NoLines == [v \in Variants |-> 0]
LinesIn(l) == {v \in Variants : l[v] > 0}
VariantsOf(p) == {v \in Variants : ProductOf[v] = p}

Statuses == {"pending", "confirmed", "shipped", "delivered", "cancelled"}
Payments == {"unpaid", "paid", "refunded"}
Order == [user : Users, lines : Lines, prices : [Variants -> Prices], status : Statuses,
          method : Methods, payment : Payments, promo : Codes \cup {None}, first : BOOLEAN]

ASSUME NoneIsNoOrder == None \notin Order

Job == [kind : {"none", "checkout", "cancel"}, user : Users \cup {None},
        order : Requests \cup {None}, method : Methods \cup {None}]
NoJob == [kind |-> "none", user |-> None, order |-> None, method |-> None]

\* prices with the lines, the code with its two counts, and the free first delivery
Quote == [prices : [Variants -> Prices], promo : Codes \cup {None}, count : Nat,
          used : BOOLEAN, first : BOOLEAN]
NoQuote == [prices |-> NoLines, promo |-> None, count |-> 0, used |-> FALSE, first |-> FALSE]

Ended == {"idle", "done", "failed"}
PCs == Ended \cup {"lock_user", "read_cart", "lock_lines", "check_lines", "read_promo",
                   "lock_promo", "price", "lock_products", "lock_order", "lock_restock"}

Placed == {o \in Requests : orders[o] # None}
Live == {o \in Placed : orders[o].status # "cancelled"}
OrdersOf(u) == {o \in Placed : orders[o].user = u}

\* Mutant: only orders already delivered count as prior ones.
PriorOrdersDelivered(u) == {o \in OrdersOf(u) : orders[o].status = "delivered"}

\* What makes a first delivery not the first: the customer's orders that stand.
PriorOrders(u) == OrdersOf(u) \cap Live

Redemptions(c) == {x \in redeemed : x.code = c}
Used(c, u) == \E x \in redeemed : x.code = c /\ x.user = u

\* CartTotals drops the currency when a line has no price in it, and reads 0 then.
Subtotal(l, p) ==
  IF \E v \in LinesIn(l) : p[v] = None THEN 0
  ELSE SumOver([v \in LinesIn(l) |-> p[v] * l[v]], LinesIn(l))

\* domain.ValidOrderTransition, CustomerMayCancelOrder and ValidPaymentTransition
OrderTransitions == {<<"pending", "confirmed">>, <<"pending", "cancelled">>,
                     <<"confirmed", "shipped">>, <<"confirmed", "cancelled">>,
                     <<"shipped", "delivered">>}
CustomerMayCancel(status) == status = "pending"
PaymentTransitions == {<<"unpaid", "paid">>, <<"paid", "refunded">>}
SettlesOnDelivery(method) == method = "cash_on_delivery"

\* Mutant: the last redemption is compared with > instead of >=.
PromoIssueOffByOne(c, count, used, subtotal) ==
  \/ code[c].state # "live"
  \/ used
  \/ code[c].cap # None /\ count > code[c].cap
  \/ subtotal < code[c].floor

\* Promo.Issue: may the code NOT apply to a basket of this subtotal?
PromoIssue(c, count, used, subtotal) ==
  \/ code[c].state # "live"
  \/ used
  \/ code[c].cap # None /\ count >= code[c].cap
  \/ subtotal < code[c].floor

-----------------------------------------------------------------------------
(* Row locks.  Every lock a transaction here takes on a row it waits for is *)
(* FOR UPDATE or the lock of an UPDATE, and any two of those conflict; a    *)
(* foreign-key check's KEY SHARE conflicts with FOR UPDATE only.            *)

Free(row) == lock[row] = None
HeldForUpdate(row) == ~Free(row) /\ (row[1] = "variant" => job[lock[row]].kind = "checkout")
Take(r, row) == Free(row) /\ lock' = [lock EXCEPT ![row] = r]
Release(r) == lock' = [row \in Rows |-> IF lock[row] = r THEN None ELSE lock[row]]

\* rows of the transaction's lines, and of their products, still to be locked
PendingLines(r) == {v \in LinesIn(lines[r]) : lock[VariantRow(v)] # r}
PendingProducts(r) ==
  {p \in {ProductOf[v] : v \in LinesIn(lines[r])} : lock[ProductRow(p)] # r}
Least(S) == {x \in S : \A y \in S : x <= y}

Goto(r, label) == pc' = [pc EXCEPT ![r] = label]

\* COMMIT or ROLLBACK: the locks go, and with them all the transaction knew
End(r, outcome) ==
  /\ Goto(r, outcome)
  /\ Release(r)
  /\ job' = [job EXCEPT ![r] = NoJob]
  /\ lines' = [lines EXCEPT ![r] = NoLines]
  /\ quote' = [quote EXCEPT ![r] = NoQuote]

\* Mutant: the refusal returns without the deferred Rollback.
RefuseLeavesOpen(r) ==
  Goto(r, "failed") /\ UNCHANGED <<shopVars, job, lines, quote, lock>>
Refuse(r) == End(r, "failed") /\ UNCHANGED shopVars

-----------------------------------------------------------------------------
(* CreateOrder, statement by statement.                                    *)

Begin(r, u, m) ==
  /\ pc[r] = "idle"
  /\ Goto(r, "lock_user")
  /\ job' = [job EXCEPT ![r] = [kind |-> "checkout", user |-> u, order |-> None, method |-> m]]
  /\ UNCHANGED <<shopVars, lines, quote, lock>>

\* Mutant: the customer's row is read without FOR UPDATE.
LockUserForgotten(r) ==
  /\ pc[r] = "lock_user"
  /\ Goto(r, "read_cart")
  /\ UNCHANGED <<shopVars, job, lines, quote, lock>>

LockUser(r) ==
  /\ pc[r] = "lock_user"
  /\ Take(r, UserRow(job[r].user))
  /\ Goto(r, "read_cart")
  /\ UNCHANGED <<shopVars, job, lines, quote>>

\* The snapshot of the SELECT ... FOR UPDATE OF v: quantities and prices are read
\* here, the variant rows are locked one by one afterwards.
ReadCart(r) ==
  /\ pc[r] = "read_cart"
  /\ IF cart[job[r].user] = NoLines
     THEN Refuse(r)                                         \* ErrEmptyCart
     ELSE /\ lines' = [lines EXCEPT ![r] = cart[job[r].user]]
          /\ quote' = [quote EXCEPT ![r].prices = price]
          /\ Goto(r, "lock_lines")
          /\ UNCHANGED <<shopVars, job, lock>>

\* Mutant: the cart is read without FOR UPDATE OF v.
LockLineForgotten(r) ==
  /\ pc[r] = "lock_lines"
  /\ Goto(r, "check_lines")
  /\ UNCHANGED <<shopVars, job, lines, quote, lock>>

LockLine(r) ==
  /\ pc[r] = "lock_lines"
  /\ \E v \in Least(PendingLines(r)) :
       /\ Take(r, VariantRow(v))
       /\ Goto(r, IF PendingLines(r) = {v} THEN "check_lines" ELSE "lock_lines")
  /\ UNCHANGED <<shopVars, job, lines, quote>>

CheckLines(r) ==
  /\ pc[r] = "check_lines"
  /\ IF \A v \in LinesIn(lines[r]) : quote[r].prices[v] # None /\ lines[r][v] <= stock[v]
     THEN Goto(r, "read_promo") /\ UNCHANGED <<shopVars, job, lines, quote, lock>>
     ELSE Refuse(r)                     \* ErrPriceUnavailable, StockShortError

\* promoColumns: the code's redemptions are counted in the snapshot of the very
\* statement that then waits for the code's row, so the count is taken first.
ReadPromo(r) ==
  /\ pc[r] = "read_promo"
  /\ LET u == job[r].user
         c == cartPromo[u] IN
     IF c = None
     THEN Goto(r, "price") /\ UNCHANGED quote
     ELSE /\ quote' = [quote EXCEPT ![r].promo = c,
                                    ![r].count = Cardinality(Redemptions(c)),
                                    ![r].used = Used(c, u)]
          /\ Goto(r, "lock_promo")
  /\ UNCHANGED <<shopVars, job, lines, lock>>

LockPromo(r) ==
  /\ pc[r] = "lock_promo"
  /\ Take(r, PromoRow(quote[r].promo))
  /\ Goto(r, "price")
  /\ UNCHANGED <<shopVars, job, lines, quote>>

\* Counts the prior orders and judges the code with domain.Price.
PriceOrder(r) ==
  /\ pc[r] = "price"
  /\ LET q == quote[r] IN
     IF q.promo # None /\ PromoIssue(q.promo, q.count, q.used, Subtotal(lines[r], q.prices))
     THEN Refuse(r)                                         \* ErrPromoInvalid
     ELSE /\ quote' = [quote EXCEPT ![r].first = (PriorOrders(job[r].user) = {})]
          /\ Goto(r, "lock_products")
          /\ UNCHANGED <<shopVars, job, lines, lock>>

\* Mutant: the products are updated in Go's map order, without slices.Sort.
LockProductUnsorted(r) ==
  /\ pc[r] = "lock_products"
  /\ \E p \in PendingProducts(r) : Take(r, ProductRow(p))
  /\ UNCHANGED <<shopVars, pc, job, lines, quote>>

LockProduct(r) ==
  /\ pc[r] = "lock_products"
  /\ \E p \in Least(PendingProducts(r)) : Take(r, ProductRow(p))
  /\ UNCHANGED <<shopVars, pc, job, lines, quote>>

\* The unique index on (code_id, user_id) refuses a second redemption.
RedemptionConflict(r) == quote[r].promo # None /\ Used(quote[r].promo, job[r].user)

PlacedOrder(r) ==
  [user |-> job[r].user, lines |-> lines[r], prices |-> quote[r].prices,
   status |-> "pending", method |-> job[r].method, payment |-> "unpaid",
   promo |-> quote[r].promo, first |-> quote[r].first]

CommitOrder(r) ==
  /\ pc[r] = "lock_products" /\ PendingProducts(r) = {}
  /\ IF RedemptionConflict(r)
     THEN Refuse(r)
     ELSE LET u == job[r].user
              l == lines[r] IN
          /\ orders' = [orders EXCEPT ![r] = PlacedOrder(r)]
          /\ redeemed' = (redeemed \cup
               {[code |-> c, user |-> u, order |-> r] : c \in {quote[r].promo} \ {None}})
          /\ book' = (book \cup {u})
          /\ stock' = [v \in Variants |-> stock[v] - l[v]]
          /\ sales' = [p \in Products |-> sales[p] + SumOver(l, VariantsOf(p) \cap LinesIn(l))]
          /\ cart' = [cart EXCEPT ![u] = NoLines]
          /\ cartPromo' = [cartPromo EXCEPT ![u] = None]
          /\ End(r, "done")
          /\ UNCHANGED <<price, code, supply>>

-----------------------------------------------------------------------------
(* UpdateOrderStatus(cancelled) by the admin, CancelOrderByCustomer by a    *)
(* user: the order row is locked, then the restocked variants in whatever   *)
(* order the UPDATE ... FROM order_items meets them.                        *)

BeginCancel(r, o, by) ==
  /\ pc[r] = "idle"
  /\ Goto(r, "lock_order")
  /\ job' = [job EXCEPT ![r] = [kind |-> "cancel", user |-> by, order |-> o, method |-> None]]
  /\ UNCHANGED <<shopVars, lines, quote, lock>>

MayCancel(o, by) ==
  IF by = None THEN <<orders[o].status, "cancelled">> \in OrderTransitions
  ELSE by = orders[o].user /\ CustomerMayCancel(orders[o].status)

\* Mutant: the order is read without FOR UPDATE.
LockOrderForgotten(r) ==
  LET o == job[r].order IN
  /\ pc[r] = "lock_order"
  /\ IF orders[o] # None /\ MayCancel(o, job[r].user)
     THEN /\ lines' = [lines EXCEPT ![r] = orders[o].lines]
          /\ Goto(r, "lock_restock")
          /\ UNCHANGED <<shopVars, job, quote, lock>>
     ELSE Refuse(r)

LockOrder(r) ==
  LET o == job[r].order IN
  /\ pc[r] = "lock_order"
  /\ IF orders[o] = None
     THEN Refuse(r)                                         \* ErrNotFound
     ELSE IF MayCancel(o, job[r].user)
     THEN /\ Take(r, OrderRow(o))
          /\ lines' = [lines EXCEPT ![r] = orders[o].lines]
          /\ Goto(r, "lock_restock")
          /\ UNCHANGED <<shopVars, job, quote>>
     ELSE Free(OrderRow(o)) /\ Refuse(r)                    \* too late, or not the owner

LockRestock(r) ==
  /\ pc[r] = "lock_restock"
  /\ \E v \in PendingLines(r) : Take(r, VariantRow(v))
  /\ UNCHANGED <<shopVars, pc, job, lines, quote>>

\* Mutant: the redemption outlives the cancelled order.
CommitCancelKeepsCode(r) ==
  LET o == job[r].order IN
  /\ pc[r] = "lock_restock" /\ PendingLines(r) = {}
  /\ orders' = [orders EXCEPT ![o].status = "cancelled"]
  /\ stock' = [v \in Variants |-> stock[v] + lines[r][v]]
  /\ End(r, "done")
  /\ UNCHANGED <<price, sales, cart, cartPromo, code, redeemed, book, supply>>

CommitCancel(r) ==
  LET o == job[r].order IN
  /\ pc[r] = "lock_restock" /\ PendingLines(r) = {}
  /\ orders' = [orders EXCEPT ![o].status = "cancelled"]
  /\ stock' = [v \in Variants |-> stock[v] + lines[r][v]]
  /\ redeemed' = {x \in redeemed : x.order # o}
  /\ End(r, "done")
  /\ UNCHANGED <<price, sales, cart, cartPromo, code, book, supply>>

-----------------------------------------------------------------------------
(* A transaction that does not reach its COMMIT.                           *)

\* Client gone, server stopping, connection lost: the deferred Rollback.
Abort(r) == pc[r] \notin Ended /\ Refuse(r)

\* The rows a request is waiting to lock (a cancellation: any of them may be next).
Wants(r) ==
  CASE pc[r] = "lock_user" -> {UserRow(job[r].user)}
    [] pc[r] = "lock_lines" -> {VariantRow(v) : v \in Least(PendingLines(r))}
    [] pc[r] = "lock_promo" -> {PromoRow(quote[r].promo)}
    [] pc[r] = "lock_products" -> {ProductRow(p) : p \in Least(PendingProducts(r))}
    [] pc[r] = "lock_order" -> {OrderRow(job[r].order)}
    [] pc[r] = "lock_restock" -> {VariantRow(v) : v \in PendingLines(r)}
    [] OTHER -> {}

\* Every member waits for rows that other members hold.
Deadlocked(S) ==
  S # {} /\ \A r \in S : Wants(r) # {} /\ \A row \in Wants(r) : lock[row] \in S \ {r}

\* PostgreSQL's deadlock detector rolls one of them back.
BreakDeadlock(r) == (\E S \in SUBSET Requests : r \in S /\ Deadlocked(S)) /\ Refuse(r)

-----------------------------------------------------------------------------
(* One-statement writes: each is atomic, once the row locks let it run.    *)

\* Mutant: the upsert adds to the quantity instead of setting it.
SetCartItemAdds(u, v, q) ==
  /\ cart[u][v] = 0 => ~HeldForUpdate(UserRow(u)) /\ ~HeldForUpdate(VariantRow(v))
  /\ cart' = [cart EXCEPT ![u][v] = @ + q]
  /\ UNCHANGED <<stock, price, sales, cartPromo, code, orders, redeemed, book, supply, txVars>>

\* A new line's foreign keys take KEY SHARE on its user and its variant; a
\* quantity change touches neither.
SetCartItem(u, v, q) ==
  /\ cart[u][v] = 0 => ~HeldForUpdate(UserRow(u)) /\ ~HeldForUpdate(VariantRow(v))
  /\ cart' = [cart EXCEPT ![u][v] = q]
  /\ UNCHANGED <<stock, price, sales, cartPromo, code, orders, redeemed, book, supply, txVars>>

DeleteCartItem(u, v) ==
  /\ cart[u][v] > 0
  /\ cart' = [cart EXCEPT ![u][v] = 0]
  /\ UNCHANGED <<stock, price, sales, cartPromo, code, orders, redeemed, book, supply, txVars>>

\* handleApplyPromo judges the code as a courtesy and SetCartPromo writes it; the
\* two are not one transaction, so a cart may carry a code that no longer passes
\* (InitPromos starts runs so), and the checkout judges it again.
ApplyPromo(u, c) ==
  /\ ~PromoIssue(c, Cardinality(Redemptions(c)), Used(c, u), Subtotal(cart[u], price))
  /\ cartPromo[u] = None => ~HeldForUpdate(UserRow(u))
  /\ cartPromo[u] # c => ~HeldForUpdate(PromoRow(c))
  /\ cartPromo' = [cartPromo EXCEPT ![u] = c]
  /\ UNCHANGED <<stock, price, sales, cart, code, orders, redeemed, book, supply, txVars>>

ClearPromo(u) ==
  /\ cartPromo[u] # None
  /\ cartPromo' = [cartPromo EXCEPT ![u] = None]
  /\ UNCHANGED <<stock, price, sales, cart, code, orders, redeemed, book, supply, txVars>>

\* The admin's forms write the whole row they show.
UpdateVariant(v, n, p) ==
  /\ Free(VariantRow(v))
  /\ stock' = [stock EXCEPT ![v] = n]
  /\ price' = [price EXCEPT ![v] = p]
  /\ supply' = [supply EXCEPT ![v] = @ + n - stock[v]]
  /\ UNCHANGED <<sales, cart, cartPromo, code, orders, redeemed, book, txVars>>

UpdatePromo(c, row) ==
  /\ Free(PromoRow(c))
  /\ code' = [code EXCEPT ![c] = row]
  /\ UNCHANGED <<stock, price, sales, cart, cartPromo, orders, redeemed, book, supply, txVars>>

\* ends_at passes while nobody writes anything.
Expire(c) ==
  /\ code[c].state = "live"
  /\ code' = [code EXCEPT ![c].state = "expired"]
  /\ UNCHANGED <<stock, price, sales, cart, cartPromo, orders, redeemed, book, supply, txVars>>

\* Mutants: the transition is written without waiting for the order's lock ...
UpdateOrderStatusUnlocked(o, to) ==
  /\ o \in Placed /\ to # "cancelled" /\ <<orders[o].status, to>> \in OrderTransitions
  /\ orders' = [orders EXCEPT ![o].status = to]
  /\ UNCHANGED <<stock, price, sales, cart, cartPromo, code, redeemed, book, supply, txVars>>

\* ... or a delivery leaves the cash unsettled.
UpdateOrderStatusUnsettled(o, to) ==
  Free(OrderRow(o)) /\ UpdateOrderStatusUnlocked(o, to)

\* confirmed, shipped, delivered; a delivered cash order is paid in the same write
UpdateOrderStatus(o, to) ==
  /\ o \in Placed /\ Free(OrderRow(o))
  /\ to # "cancelled" /\ <<orders[o].status, to>> \in OrderTransitions
  /\ LET settles == (/\ to = "delivered" /\ SettlesOnDelivery(orders[o].method)
                     /\ orders[o].payment = "unpaid") IN
     orders' = [orders EXCEPT ![o].status = to,
                              ![o].payment = IF settles THEN "paid" ELSE @]
  /\ UNCHANGED <<stock, price, sales, cart, cartPromo, code, redeemed, book, supply, txVars>>

UpdateOrderPaymentStatus(o, to) ==
  /\ o \in Placed /\ Free(OrderRow(o))
  /\ <<orders[o].payment, to>> \in PaymentTransitions
  /\ orders' = [orders EXCEPT ![o].payment = to]
  /\ UNCHANGED <<stock, price, sales, cart, cartPromo, code, redeemed, book, supply, txVars>>

-----------------------------------------------------------------------------
(* The specification.                                                      *)

Init ==
  /\ stock = InitStock /\ supply = InitStock
  /\ price = InitPrice
  /\ sales = [p \in Products |-> 0]
  /\ cart \in InitCarts
  /\ cartPromo \in InitPromos
  /\ code = InitCodes
  /\ orders = [o \in Requests |-> None]
  /\ redeemed = {}
  /\ book = {}
  /\ pc = [r \in Requests |-> "idle"]
  /\ job = [r \in Requests |-> NoJob]
  /\ lines = [r \in Requests |-> NoLines]
  /\ quote = [r \in Requests |-> NoQuote]
  /\ lock = [row \in Rows |-> None]

CheckoutStep(r) ==
  \/ LockUser(r) \/ ReadCart(r) \/ LockLine(r) \/ CheckLines(r) \/ ReadPromo(r)
  \/ LockPromo(r) \/ PriceOrder(r) \/ LockProduct(r) \/ CommitOrder(r)
CancelStep(r) == LockOrder(r) \/ LockRestock(r) \/ CommitCancel(r)

Arrive(r) ==
  \/ \E u \in Users, m \in Offered : Begin(r, u, m)
  \/ \E x \in CancelInputs : BeginCancel(r, x[1], x[2])

CustomerWrites ==
  \/ \E x \in CartInputs : SetCartItem(x[1], x[2], x[3]) \/ DeleteCartItem(x[1], x[2])
  \/ \E x \in PromoInputs : ApplyPromo(x[1], x[2]) \/ ClearPromo(x[1])

AdminWrites ==
  \/ \E x \in VariantInputs : UpdateVariant(x[1], x[2], x[3])
  \/ \E x \in CodeInputs : UpdatePromo(x[1], x[2])
  \/ \E c \in Codes : Expire(c)
  \/ \E o \in Requests, to \in Statuses \cap DeskInputs : UpdateOrderStatus(o, to)
  \/ \E o \in Requests, to \in Payments \cap DeskInputs : UpdateOrderPaymentStatus(o, to)

Next ==
  \/ \E r \in Requests :
       Arrive(r) \/ CheckoutStep(r) \/ CancelStep(r) \/ Abort(r) \/ BreakDeadlock(r)
  \/ CustomerWrites
  \/ AdminWrites

Spec == Init /\ [][Next]_vars

\* A request's own statements run: PostgreSQL grants a free row to a waiter,
\* and breaks a deadlock.  Nobody is obliged to send a request, and no
\* rollback of the environment's making is promised.
Fairness ==
  \A r \in Requests : WF_vars(CheckoutStep(r) \/ CancelStep(r) \/ BreakDeadlock(r))
FairSpec == Spec /\ Fairness

-----------------------------------------------------------------------------
(* Properties.                                                             *)

IsCheckout(r) == job[r].kind = "checkout"
AfterReadCart == {"lock_lines", "check_lines", "read_promo", "lock_promo", "price",
                  "lock_products"}
AfterCheckLines == {"read_promo", "lock_promo", "price", "lock_products"}

TransactionTypeOK ==
  /\ stock \in [Variants -> Int]
  /\ price \in [Variants -> Prices]
  /\ cart \in [Users -> Lines]
  /\ cartPromo \in [Users -> Codes \cup {None}]
  /\ code \in [Codes -> CodeRow]
  /\ orders \in [Requests -> Order \cup {None}]
  /\ redeemed \subseteq [code : Codes, user : Users, order : Requests]
  /\ book \subseteq Users
  /\ supply \in [Variants -> Int]
  /\ pc \in [Requests -> PCs]
  /\ job \in [Requests -> Job]
  /\ lines \in [Requests -> Lines]
  /\ quote \in [Requests -> Quote]
  /\ lock \in [Rows -> Requests \cup {None}]

\* Every variable holds a value of its type.
TypeOK == TransactionTypeOK /\ sales \in [Products -> Nat]

\* Stock validated under the lock stays enough until the checkout commits, so
\* no jar is sold twice and the CHECK (stock_qty >= 0) never has to fire
\* (CreateOrder: "nobody can change it while we hold it").
StockCovers ==
  \A r \in Requests :
    pc[r] \in AfterCheckLines => \A v \in Variants : lines[r][v] <= stock[v]
\* product_variants' CHECK (stock_qty >= 0).
StockNeverNegative == \A v \in Variants : stock[v] >= 0
\* The two together: the first keeps the second.
NeverOversold == StockCovers /\ StockNeverNegative

\* Every jar the admin declared is on the shelf or in an order that is not
\* cancelled, and sales_count is what all orders took: however checkouts,
\* cancellations, admin stock edits and rollbacks interleave, none loses a
\* jar and none is given back twice.
JarsAccountedFor ==
  /\ \A v \in Variants :
       stock[v] + SumOver([o \in Live |-> orders[o].lines[v]], Live) = supply[v]
  /\ \A p \in Products :
       sales[p] = SumOver([o \in Placed |-> SumOver(orders[o].lines, VariantsOf(p))], Placed)

\* The cancellation a transaction decided on under the order's lock is still
\* permitted when it commits: no confirmation and no other cancellation slips
\* between the check and the restock (CancelOrderByCustomer's reason for its
\* FOR UPDATE).
CancelStaysAllowed ==
  \A r \in Requests : pc[r] = "lock_restock" => MayCancel(job[r].order, job[r].user)

\* However the courier's delivery and the admin's payment clicks interleave, a
\* delivered cash order does not read "payment pending" (decision #110).
DeliveredCashIsPaid ==
  \A o \in Placed : orders[o].status = "delivered" /\ SettlesOnDelivery(orders[o].method)
                      => orders[o].payment # "unpaid"

\* A customer has at most one standing order that was delivered free as the
\* first one, whatever checkouts of theirs run in parallel and whatever is
\* cancelled in between (the reason CreateOrder locks the user row first).
OneFreeFirstDelivery ==
  \A u \in Users : \A o, p \in OrdersOf(u) \cap Live :
    orders[o].first /\ orders[p].first => o = p

\* The rows in promo_redemptions are exactly the codes of the standing orders,
\* one per customer and code: cancelling releases a code once, and only its own.
RedemptionsMatchOrders ==
  /\ redeemed = {[code |-> orders[o].promo, user |-> orders[o].user, order |-> o] :
                   o \in {x \in Live : orders[x].promo # None}}
  /\ \A x, y \in redeemed : x.code = y.code /\ x.user = y.user => x = y

\* The unique index on promo_redemptions never refuses a checkout: "a violation
\* here means a bug in the locking".
RedeemsWithoutConflict ==
  \A r \in Requests : pc[r] = "lock_products" => ~RedemptionConflict(r)

\* A second submit of the checkout form - a double click, a retry after a lost
\* answer - orders nothing more unless the cart was filled again: the customer
\* who edits nothing ends with one order at most.
SubmitTwiceOrderOnce ==
  CartInputs = {} => \A u \in Users : Cardinality(OrdersOf(u)) <= 1

\* Checkouts never wait for each other in a circle: user row, variants by id,
\* promo row, products by id is one order for all of them.
CheckoutsNeverDeadlock ==
  \A S \in SUBSET {r \in Requests : IsCheckout(r)} : ~Deadlocked(S)

\* No circle of waiting transactions of any kind.
NoDeadlock == \A S \in SUBSET Requests : ~Deadlocked(S)

\* A redemption never takes a code past its max_redemptions.
CapRespected ==
  [][\A c \in Codes : Cardinality(Redemptions(c)') > Cardinality(Redemptions(c))
       => code[c].cap = None \/ Cardinality(Redemptions(c)') <= code[c].cap]_vars

\* However the statements of concurrent requests interleave, what is committed is
\* what a shop that does everything in one step could have done: the comments of
\* CreateOrder and CancelOrderByCustomer claim it of their locks one by one.
Atomic == INSTANCE AtomicShop WITH Orders <- Requests
BehavesAtomically == Atomic!AtomicSpec

\* Every request that started is answered, with an order or a refusal.
EveryRequestEnds == \A r \in Requests : pc[r] \notin Ended ~> pc[r] \in Ended
=============================================================================
