--------------------------- MODULE CheckoutProofs ---------------------------
(***************************************************************************)
(* What Checkout promises for every set of customers, variants, codes and  *)
(* requests.  The proofs go in layers, each an invariant that the next one *)
(* uses: types, then who holds which row lock, then stock, the first       *)
(* delivery, the redemptions and the cancellations.                        *)
(***************************************************************************)
EXTENDS Checkout, FiniteSetTheorems, TLAPS

-----------------------------------------------------------------------------
(* Types.                                                                  *)

\* What a request asks for has the parts its statements use.
JobsFit ==
  \A r \in Requests :
    /\ pc[r] \in {"lock_user", "read_cart"} \cup AfterReadCart =>
         job[r].user \in Users /\ job[r].method \in Methods
    /\ pc[r] = "lock_promo" => quote[r].promo \in Codes
    /\ pc[r] \in {"lock_order", "lock_restock"} => job[r].order \in Requests
    /\ pc[r] = "lock_restock" => orders[job[r].order] # None

TypeInv == TransactionTypeOK /\ IsFiniteSet(redeemed) /\ JobsFit

\* What the statements put in lines and quote is of their types: a cart, an
\* order's lines and the empty basket.
LEMMA LineTypes ==
  /\ NoLines \in Lines
  /\ NoLines \in [Variants -> Prices]
  /\ NoJob \in Job
  /\ NoQuote \in Quote
BY MaxLineType DEF NoLines, Lines, Prices, NoJob, Job, NoQuote, Quote

\* The shop a run starts in is well typed.
LEMMA InitTypes == Init => TypeInv
<1> SUFFICES ASSUME Init PROVE TypeInv
  OBVIOUS
<1>1. TransactionTypeOK
  <2>1. stock \in [Variants -> Int] /\ supply \in [Variants -> Int]
    BY InitStockType DEF Init
  <2>2. price \in [Variants -> Prices] /\ cart \in [Users -> Lines]
    BY InitPriceType, InitCartsType DEF Init, Lines
  <2>3. cartPromo \in [Users -> Codes \cup {None}] /\ code \in [Codes -> CodeRow]
    BY InitPromosType, InitCodesType DEF Init
  <2>4. orders \in [Requests -> Order \cup {None}] /\ lock \in [Rows -> Requests \cup {None}]
    BY DEF Init
  <2>5. pc \in [Requests -> PCs] /\ job \in [Requests -> Job]
    BY LineTypes DEF Init, PCs, Ended
  <2>6. lines \in [Requests -> Lines] /\ quote \in [Requests -> Quote]
    BY LineTypes DEF Init
  <2>7. redeemed = {} /\ book = {}
    BY DEF Init
  <2> QED
    BY <2>1, <2>2, <2>3, <2>4, <2>5, <2>6, <2>7 DEF TransactionTypeOK
<1>2. IsFiniteSet(redeemed)
  BY FS_EmptySet DEF Init
<1>3. JobsFit
  BY DEF Init, JobsFit, AfterReadCart
<1> QED
  BY <1>1, <1>2, <1>3 DEF TypeInv

\* A transaction's end leaves the request without rows, job, lines or quote.
LEMMA EndTypes ==
  ASSUME TypeInv, NEW r \in Requests, NEW outcome \in Ended, End(r, outcome)
  PROVE  /\ pc' \in [Requests -> PCs]
         /\ job' \in [Requests -> Job]
         /\ lines' \in [Requests -> Lines]
         /\ quote' \in [Requests -> Quote]
         /\ lock' \in [Rows -> Requests \cup {None}]
BY LineTypes DEF TypeInv, TransactionTypeOK, End, Goto, Release, PCs

\* A rollback keeps the types: it leaves the rows alone.
LEMMA RefuseTypes ==
  ASSUME TypeInv, NEW r \in Requests, Refuse(r)
  PROVE  TypeInv'
<1>1. TransactionTypeOK'
  BY EndTypes DEF Refuse, shopVars, TypeInv, TransactionTypeOK, Ended
<1>2. IsFiniteSet(redeemed)'
  BY DEF Refuse, shopVars, TypeInv
<1>3. JobsFit'
  BY DEF Refuse, shopVars, TypeInv, TransactionTypeOK, JobsFit, AfterReadCart, End, Goto, Ended
<1> QED
  BY <1>1, <1>2, <1>3 DEF TypeInv

\* No statement of CreateOrder leaves a variable outside its type.
LEMMA CheckoutTypes ==
  ASSUME TypeInv, NEW r \in Requests, CheckoutStep(r)
  PROVE  TypeInv'
<1>1. CASE LockUser(r)
  BY <1>1 DEF TypeInv, TransactionTypeOK, JobsFit, AfterReadCart, PCs, LockUser, Take, Goto, shopVars
<1>2. CASE ReadCart(r)
  <2>1. CASE Refuse(r)
    BY <2>1, RefuseTypes
  <2>2. CASE /\ lines' = [lines EXCEPT ![r] = cart[job[r].user]]
             /\ quote' = [quote EXCEPT ![r].prices = price]
             /\ Goto(r, "lock_lines")
             /\ UNCHANGED <<shopVars, job, lock>>
    <3>1. job[r].user \in Users /\ job[r].method \in Methods /\ job' = job
      BY <1>2, <2>2 DEF ReadCart, TypeInv, JobsFit
    <3>2. lines' \in [Requests -> Lines]
      BY <2>2, <3>1 DEF TypeInv, TransactionTypeOK
    <3>3. quote' \in [Requests -> Quote] /\ \A q \in Requests : quote'[q].promo = quote[q].promo
      BY <2>2 DEF TypeInv, TransactionTypeOK, Quote
    <3>4. TransactionTypeOK'
      BY <2>2, <3>2, <3>3 DEF TypeInv, TransactionTypeOK, PCs, Goto, shopVars
    <3>5. JobsFit'
      BY <2>2, <3>1, <3>3 DEF TypeInv, TransactionTypeOK, JobsFit, AfterReadCart, Goto, shopVars
    <3> QED
      BY <2>2, <3>4, <3>5 DEF TypeInv, shopVars
  <2> QED
    BY <1>2, <2>1, <2>2 DEF ReadCart
<1>3. CASE LockLine(r)
  <2>0. PICK v : /\ Take(r, VariantRow(v))
                 /\ Goto(r, IF PendingLines(r) = {v} THEN "check_lines" ELSE "lock_lines")
    BY <1>3 DEF LockLine
  <2>1. PICK to \in {"check_lines", "lock_lines"} :
          /\ pc[r] = "lock_lines" /\ Goto(r, to) /\ lock' = [lock EXCEPT ![VariantRow(v)] = r]
          /\ UNCHANGED <<shopVars, job, lines, quote>>
    <3>1. CASE PendingLines(r) = {v}
      BY <1>3, <2>0, <3>1 DEF LockLine, Take
    <3>2. CASE PendingLines(r) # {v}
      BY <1>3, <2>0, <3>2 DEF LockLine, Take
    <3> QED BY <3>1, <3>2
  <2>2. TransactionTypeOK' /\ IsFiniteSet(redeemed)'
    BY <2>1 DEF TypeInv, TransactionTypeOK, PCs, Goto, shopVars
  <2>3. JobsFit'
    BY <2>1 DEF TypeInv, TransactionTypeOK, JobsFit, AfterReadCart, Goto, shopVars
  <2> QED
    BY <2>2, <2>3 DEF TypeInv
<1>4. CASE CheckLines(r)
  BY <1>4, RefuseTypes
  DEF TypeInv, TransactionTypeOK, JobsFit, AfterReadCart, PCs, CheckLines, Goto, shopVars
<1>5. CASE ReadPromo(r)
  <2>1. job[r].user \in Users
    BY <1>5 DEF ReadPromo, TypeInv, JobsFit, AfterReadCart
  <2>2. Cardinality(Redemptions(cartPromo[job[r].user])) \in Nat
    BY FS_Subset, FS_CardinalityType DEF Redemptions, TypeInv
  <2>3. Used(cartPromo[job[r].user], job[r].user) \in BOOLEAN
    BY DEF Used
  <2>4. CASE cartPromo[job[r].user] = None
    BY <1>5, <2>1, <2>4
    DEF TypeInv, TransactionTypeOK, JobsFit, AfterReadCart, PCs, ReadPromo, Goto, shopVars
  <2>5. CASE cartPromo[job[r].user] # None
    <3> DEFINE c == cartPromo[job[r].user]
    <3>1. c \in Codes
      BY <2>1, <2>5 DEF TypeInv, TransactionTypeOK
    <3>2. /\ quote' = [quote EXCEPT ![r].promo = c, ![r].count = Cardinality(Redemptions(c)),
                                    ![r].used = Used(c, job[r].user)]
          /\ Goto(r, "lock_promo")
          /\ UNCHANGED <<shopVars, job, lines, lock>>
      BY <1>5, <2>5 DEF ReadPromo
    <3>3. quote' \in [Requests -> Quote]
      <4>1. PICK n \in Nat, b \in BOOLEAN :
              quote' = [quote EXCEPT ![r].promo = c, ![r].count = n, ![r].used = b]
        BY <2>2, <2>3, <3>2, Zenon
      <4> HIDE DEF c
      <4>2. quote[r] \in Quote
        BY DEF TypeInv, TransactionTypeOK
      <4>3. [[[quote[r] EXCEPT !.promo = c] EXCEPT !.count = n] EXCEPT !.used = b] \in Quote
        BY <3>1, <4>2 DEF Quote
      <4>4. quote' = [quote EXCEPT ![r] =
              [[[quote[r] EXCEPT !.promo = c] EXCEPT !.count = n] EXCEPT !.used = b]]
        BY <4>1 DEF TypeInv, TransactionTypeOK
      <4> QED
        BY <4>3, <4>4 DEF TypeInv, TransactionTypeOK
    <3>4. /\ quote'[r].promo = c
          /\ \A q \in Requests \ {r} : quote'[q].promo = quote[q].promo
      BY <3>2 DEF TypeInv, TransactionTypeOK, Quote
    <3>5. TransactionTypeOK'
      BY <3>2, <3>3 DEF TypeInv, TransactionTypeOK, PCs, Goto, shopVars
    <3>6. JobsFit'
      BY <1>5, <3>1, <3>2, <3>4
      DEF TypeInv, TransactionTypeOK, JobsFit, AfterReadCart, ReadPromo, Goto, shopVars
    <3> QED
      BY <3>2, <3>5, <3>6 DEF TypeInv, shopVars
  <2> QED
    BY <2>4, <2>5
<1>6. CASE LockPromo(r)
  <2>1. /\ pc[r] = "lock_promo" /\ Goto(r, "price")
        /\ lock' = [lock EXCEPT ![PromoRow(quote[r].promo)] = r]
        /\ UNCHANGED <<shopVars, job, lines, quote>>
    BY <1>6 DEF LockPromo, Take
  <2>2. TransactionTypeOK' /\ IsFiniteSet(redeemed)'
    BY <2>1 DEF TypeInv, TransactionTypeOK, PCs, Goto, shopVars
  <2>3. JobsFit'
    BY <2>1 DEF TypeInv, TransactionTypeOK, JobsFit, AfterReadCart, Goto, shopVars
  <2> QED
    BY <2>2, <2>3 DEF TypeInv
<1>7. CASE PriceOrder(r)
  <2>1. CASE Refuse(r)
    BY <2>1, RefuseTypes
  <2>2. CASE /\ quote' = [quote EXCEPT ![r].first = (OrdersOf(job[r].user) \cap Live = {})]
             /\ Goto(r, "lock_products")
             /\ UNCHANGED <<shopVars, job, lines, lock>>
    <3>0. PICK b \in BOOLEAN : quote' = [quote EXCEPT ![r].first = b]
      BY <2>2, Zenon
    <3>1. quote' \in [Requests -> Quote]
      <4>1. quote \in [Requests -> Quote] /\ quote[r] \in Quote
        BY DEF TypeInv, TransactionTypeOK
      <4>2. [quote[r] EXCEPT !.first = b] \in Quote
        BY <4>1 DEF Quote
      <4> QED BY <3>0, <4>1, <4>2
    <3>2. \A q \in Requests : quote'[q].promo = quote[q].promo
      BY <3>0 DEF TypeInv, TransactionTypeOK, Quote
    <3>3. TransactionTypeOK'
      BY <2>2, <3>1 DEF TypeInv, TransactionTypeOK, PCs, Goto, shopVars
    <3>4. JobsFit'
      BY <1>7, <2>2, <3>2
      DEF TypeInv, TransactionTypeOK, JobsFit, AfterReadCart, PriceOrder, PriorOrders, Goto, shopVars
    <3> QED
      BY <2>2, <3>3, <3>4 DEF TypeInv, shopVars
  <2> QED
    BY <1>7, <2>1, <2>2 DEF PriceOrder, PriorOrders
<1>8. CASE LockProduct(r)
  BY <1>8 DEF TypeInv, TransactionTypeOK, JobsFit, AfterReadCart, PCs, LockProduct, Take, shopVars
<1>9. CASE CommitOrder(r)
  <2>1. CASE Refuse(r)
    BY <2>1, RefuseTypes
  <2>2. CASE ~RedemptionConflict(r)
    <3> DEFINE new == {[code |-> c, user |-> job[r].user, order |-> r] : c \in {quote[r].promo} \ {None}}
    <3>1. job[r].user \in Users /\ job[r].method \in Methods
      BY <1>9 DEF CommitOrder, TypeInv, JobsFit, AfterReadCart
    <3>2. PlacedOrder(r) \in Order
      BY <3>1 DEF PlacedOrder, Order, Statuses, Payments, TypeInv, TransactionTypeOK, Quote
    <3>3. orders' \in [Requests -> Order \cup {None}]
      BY <1>9, <2>2, <3>2 DEF CommitOrder, TypeInv, TransactionTypeOK
    <3>4. quote[r].promo \in Codes \cup {None}
      BY DEF TypeInv, TransactionTypeOK, Quote
    <3>5. redeemed' = redeemed \cup new
      BY <1>9, <2>2 DEF CommitOrder
    <3>6. new \subseteq [code : Codes, user : Users, order : Requests]
      BY <3>1, <3>4
    <3>7. IsFiniteSet(new)
      <4>1. CASE quote[r].promo = None
        BY <4>1, FS_EmptySet
      <4>2. CASE quote[r].promo # None
        <5>1. new = {[code |-> quote[r].promo, user |-> job[r].user, order |-> r]}
          BY <4>2
        <5> QED
          BY <5>1, FS_Singleton
      <4> QED
        BY <4>1, <4>2
    <3>8. /\ redeemed' \subseteq [code : Codes, user : Users, order : Requests]
          /\ IsFiniteSet(redeemed')
      BY <3>5, <3>6, <3>7, FS_Union DEF TypeInv, TransactionTypeOK
    <3>9. stock' \in [Variants -> Int]
      BY <1>9, <2>2, MaxLineType DEF CommitOrder, TypeInv, TransactionTypeOK, Lines
    <3>10. /\ price' \in [Variants -> Prices] /\ cart' \in [Users -> Lines]
           /\ cartPromo' \in [Users -> Codes \cup {None}] /\ code' \in [Codes -> CodeRow]
           /\ book' \subseteq Users /\ supply' \in [Variants -> Int]
      BY <1>9, <2>2, <3>1, LineTypes DEF CommitOrder, TypeInv, TransactionTypeOK
    <3>11. End(r, "done")
      BY <1>9, <2>2 DEF CommitOrder
    <3>12. TransactionTypeOK'
      BY <3>3, <3>8, <3>9, <3>10, <3>11, EndTypes DEF TransactionTypeOK, Ended
    <3>13. JobsFit'
      <4>1. \A o \in Requests \ {r} : orders'[o] = orders[o]
        BY <1>9, <2>2 DEF CommitOrder, TypeInv, TransactionTypeOK
      <4>2. orders'[r] # None
        BY <1>9, <2>2, <3>2, NoneIsNoOrder DEF CommitOrder, TypeInv, TransactionTypeOK
      <4> QED
        BY <3>11, <4>1, <4>2
        DEF TypeInv, TransactionTypeOK, JobsFit, AfterReadCart, End, Goto
    <3> QED
      BY <3>8, <3>12, <3>13 DEF TypeInv
  <2> QED
    BY <1>9, <2>1, <2>2 DEF CommitOrder
<1> QED
  BY <1>1, <1>2, <1>3, <1>4, <1>5, <1>6, <1>7, <1>8, <1>9 DEF CheckoutStep

\* A request that arrives carries a well-typed job.
LEMMA ArriveTypes ==
  ASSUME TypeInv, NEW r \in Requests, Arrive(r)
  PROVE  TypeInv'
<1>1. CASE \E u \in Users, m \in Offered : Begin(r, u, m)
  <2>1. PICK u \in Users, m \in Methods : Begin(r, u, m)
    BY <1>1, OfferedType
  <2>2. [kind |-> "checkout", user |-> u, order |-> None, method |-> m] \in Job
    BY DEF Job
  <2> QED
    BY <2>1, <2>2
    DEF TypeInv, TransactionTypeOK, JobsFit, AfterReadCart, PCs, Begin, Goto, shopVars
<1>2. CASE \E x \in CancelInputs : BeginCancel(r, x[1], x[2])
  <2>1. PICK o \in Requests, by \in Users \cup {None} : BeginCancel(r, o, by)
    BY <1>2, CancelInputsType
  <2>2. [kind |-> "cancel", user |-> by, order |-> o, method |-> None] \in Job
    BY DEF Job
  <2> QED
    BY <2>1, <2>2
    DEF TypeInv, TransactionTypeOK, JobsFit, AfterReadCart, PCs, BeginCancel, Goto, shopVars
<1> QED
  BY <1>1, <1>2 DEF Arrive

\* No statement of a cancellation leaves a variable outside its type.
LEMMA CancelTypes ==
  ASSUME TypeInv, NEW r \in Requests, CancelStep(r)
  PROVE  TypeInv'
<1> DEFINE o == job[r].order
<1>1. CASE LockOrder(r)
  <2>1. CASE Refuse(r)
    BY <2>1, RefuseTypes
  <2>2. CASE /\ orders[o] # None
             /\ Take(r, OrderRow(o))
             /\ lines' = [lines EXCEPT ![r] = orders[o].lines]
             /\ Goto(r, "lock_restock")
             /\ UNCHANGED <<shopVars, job, quote>>
    <3>1. o \in Requests
      BY <1>1 DEF LockOrder, TypeInv, JobsFit
    <3>2. orders[o].lines \in Lines
      BY <2>2, <3>1 DEF TypeInv, TransactionTypeOK, Order
    <3>3. TransactionTypeOK'
      BY <2>2, <3>2 DEF TypeInv, TransactionTypeOK, PCs, Take, Goto, shopVars
    <3>4. JobsFit'
      BY <2>2, <3>1 DEF TypeInv, TransactionTypeOK, JobsFit, AfterReadCart, Goto, shopVars
    <3> QED
      BY <2>2, <3>3, <3>4 DEF TypeInv, shopVars
  <2> QED
    BY <1>1, <2>1, <2>2 DEF LockOrder
<1>2. CASE LockRestock(r)
  BY <1>2 DEF TypeInv, TransactionTypeOK, JobsFit, AfterReadCart, PCs, LockRestock, Take, shopVars
<1>3. CASE CommitCancel(r)
  <2>1. o \in Requests /\ orders[o] # None
    BY <1>3 DEF CommitCancel, TypeInv, JobsFit
  <2>2. orders[o] \in Order
    BY <2>1 DEF TypeInv, TransactionTypeOK
  <2>3. [orders[o] EXCEPT !.status = "cancelled"] \in Order
    BY <2>2 DEF Order, Statuses
  <2>4. orders' = [orders EXCEPT ![o] = [orders[o] EXCEPT !.status = "cancelled"]]
    BY <1>3 DEF CommitCancel
  <2>5. orders' \in [Requests -> Order \cup {None}] /\ \A q \in Requests : orders[q] # None => orders'[q] # None
    BY <2>3, <2>4, NoneIsNoOrder DEF TypeInv, TransactionTypeOK
  <2>6. stock' \in [Variants -> Int]
    BY <1>3, MaxLineType DEF CommitCancel, TypeInv, TransactionTypeOK, Lines
  <2>7. redeemed' \subseteq redeemed /\ IsFiniteSet(redeemed')
    BY <1>3, FS_Subset DEF CommitCancel, TypeInv
  <2>8. End(r, "done")
    BY <1>3 DEF CommitCancel
  <2>9. TransactionTypeOK'
    BY <1>3, <2>5, <2>6, <2>7, <2>8, EndTypes DEF CommitCancel, TypeInv, TransactionTypeOK, Ended
  <2>10. JobsFit'
    BY <2>5, <2>8 DEF TypeInv, TransactionTypeOK, JobsFit, AfterReadCart, End, Goto
  <2> QED
    BY <2>7, <2>9, <2>10 DEF TypeInv
<1> QED
  BY <1>1, <1>2, <1>3 DEF CancelStep

\* Cart and promo writes keep the types: quantities stay within MaxLine.
LEMMA CustomerTypes ==
  ASSUME TypeInv, CustomerWrites
  PROVE  TypeInv'
<1>1. CASE \E x \in CartInputs : SetCartItem(x[1], x[2], x[3]) \/ DeleteCartItem(x[1], x[2])
  <2>1. PICK u \in Users, v \in Variants, q \in 1..MaxLine : SetCartItem(u, v, q) \/ DeleteCartItem(u, v)
    BY <1>1, CartInputsType
  <2>2. cart' \in [Users -> Lines]
    BY <2>1, MaxLineType DEF SetCartItem, DeleteCartItem, TypeInv, TransactionTypeOK, Lines
  <2> QED
    BY <2>1, <2>2
    DEF SetCartItem, DeleteCartItem, txVars, TypeInv, TransactionTypeOK, JobsFit, AfterReadCart
<1>2. CASE \E x \in PromoInputs : ApplyPromo(x[1], x[2]) \/ ClearPromo(x[1])
  <2>1. PICK u \in Users, c \in Codes : ApplyPromo(u, c) \/ ClearPromo(u)
    BY <1>2, PromoInputsType
  <2>2. cartPromo' \in [Users -> Codes \cup {None}]
    BY <2>1 DEF ApplyPromo, ClearPromo, TypeInv, TransactionTypeOK
  <2> QED
    BY <2>1, <2>2
    DEF ApplyPromo, ClearPromo, txVars, TypeInv, TransactionTypeOK, JobsFit, AfterReadCart
<1> QED
  BY <1>1, <1>2 DEF CustomerWrites

\* The admin's forms, transitions and the passing of ends_at keep the types.
LEMMA AdminTypes ==
  ASSUME TypeInv, AdminWrites
  PROVE  TypeInv'
<1>1. CASE \E x \in VariantInputs : UpdateVariant(x[1], x[2], x[3])
  <2>1. PICK v \in Variants, n \in Nat, p \in Prices : UpdateVariant(v, n, p)
    BY <1>1, VariantInputsType
  <2> QED
    BY <2>1 DEF UpdateVariant, txVars, TypeInv, TransactionTypeOK, JobsFit, AfterReadCart
<1>2. CASE \E x \in CodeInputs : UpdatePromo(x[1], x[2])
  <2>1. PICK c \in Codes, row \in CodeRow : UpdatePromo(c, row)
    BY <1>2, CodeInputsType
  <2> QED
    BY <2>1 DEF UpdatePromo, txVars, TypeInv, TransactionTypeOK, JobsFit, AfterReadCart
<1>3. CASE \E c \in Codes : Expire(c)
  <2>1. PICK c \in Codes : Expire(c)
    BY <1>3
  <2>2. code' \in [Codes -> CodeRow]
    BY <2>1 DEF Expire, TypeInv, TransactionTypeOK, CodeRow
  <2> QED
    BY <2>1, <2>2 DEF Expire, txVars, TypeInv, TransactionTypeOK, JobsFit, AfterReadCart
<1>4. CASE \E o \in Requests, to \in Statuses : UpdateOrderStatus(o, to)
  <2>1. PICK o \in Requests, to \in Statuses : UpdateOrderStatus(o, to)
    BY <1>4
  <2>2. orders[o] \in Order
    BY <2>1 DEF UpdateOrderStatus, Placed, TypeInv, TransactionTypeOK
  <2>3. PICK pay \in Payments : orders' = [orders EXCEPT ![o] = [[orders[o] EXCEPT !.status = to] EXCEPT !.payment = pay]]
    BY <2>1, <2>2 DEF UpdateOrderStatus, Payments, Order, TypeInv, TransactionTypeOK
  <2>4. [[orders[o] EXCEPT !.status = to] EXCEPT !.payment = pay] \in Order
    BY <2>2 DEF Order
  <2>5. orders' \in [Requests -> Order \cup {None}] /\ \A q \in Requests : orders[q] # None => orders'[q] # None
    BY <2>3, <2>4, NoneIsNoOrder DEF TypeInv, TransactionTypeOK
  <2> QED
    BY <2>1, <2>5 DEF UpdateOrderStatus, txVars, TypeInv, TransactionTypeOK, JobsFit, AfterReadCart
<1>5. CASE \E o \in Requests, to \in Payments : UpdateOrderPaymentStatus(o, to)
  <2>1. PICK o \in Requests, to \in Payments : UpdateOrderPaymentStatus(o, to)
    BY <1>5
  <2>2. orders[o] \in Order
    BY <2>1 DEF UpdateOrderPaymentStatus, Placed, TypeInv, TransactionTypeOK
  <2>3. [orders[o] EXCEPT !.payment = to] \in Order
    BY <2>2 DEF Order
  <2>4. orders' = [orders EXCEPT ![o] = [orders[o] EXCEPT !.payment = to]]
    BY <2>1 DEF UpdateOrderPaymentStatus
  <2>5. orders' \in [Requests -> Order \cup {None}] /\ \A q \in Requests : orders[q] # None => orders'[q] # None
    BY <2>3, <2>4, NoneIsNoOrder DEF TypeInv, TransactionTypeOK
  <2> QED
    BY <2>1, <2>5 DEF UpdateOrderPaymentStatus, txVars, TypeInv, TransactionTypeOK, JobsFit, AfterReadCart
<1> QED
  BY <1>1, <1>2, <1>3, <1>4, <1>5 DEF AdminWrites

\* Every step keeps the types.
LEMMA TypeStep == TypeInv /\ [Next]_vars => TypeInv'
<1> SUFFICES ASSUME TypeInv, [Next]_vars PROVE TypeInv'
  OBVIOUS
<1>1. CASE UNCHANGED vars
  BY <1>1 DEF vars, TypeInv, TransactionTypeOK, JobsFit
<1>2. ASSUME NEW r \in Requests, Arrive(r) \/ CheckoutStep(r) \/ CancelStep(r) PROVE TypeInv'
  BY <1>2, ArriveTypes, CheckoutTypes, CancelTypes
<1>3. ASSUME NEW r \in Requests, Abort(r) \/ BreakDeadlock(r) PROVE TypeInv'
  BY <1>3, RefuseTypes DEF Abort, BreakDeadlock
<1>4. CASE CustomerWrites \/ AdminWrites
  BY <1>4, CustomerTypes, AdminTypes
<1> QED
  BY <1>1, <1>2, <1>3, <1>4 DEF Next

\* Every variable of the transaction core holds a value of its type in every
\* reachable state (sales_count excepted, whose value is a sum over the lines).
THEOREM Typing == Spec => []TransactionTypeOK
<1>1. TypeInv => TransactionTypeOK
  BY DEF TypeInv
<1> QED
  BY <1>1, InitTypes, TypeStep, PTL DEF Spec
=============================================================================
