--------------------------- MODULE CheckoutLedger ---------------------------
(***************************************************************************)
(* What the books of Checkout say, for every set of customers, variants,   *)
(* codes and requests: every jar is accounted for, sales_count is what the *)
(* orders took, the redemptions are the codes of the standing orders, and  *)
(* whoever submits the checkout form twice orders once.  At the end all of *)
(* it is put together: Checkout implements AtomicShop.                     *)
(***************************************************************************)
EXTENDS CheckoutSafety

-----------------------------------------------------------------------------
(* Sums over the rows of the shop.                                         *)

\* The variants of a product, and any set of orders, can be summed over.
LEMMA FiniteRows ==
  /\ \A p : IsFiniteSet(VariantsOf(p))
  /\ \A S \in SUBSET Requests : IsFiniteSet(S)
<1>1. \A p : VariantsOf(p) \subseteq Variants
  BY DEF VariantsOf
<1> QED
  BY <1>1, VariantsAreIds, RequestsFinite, FS_Subset

\* What a basket takes of a product: lines without a jar add nothing.
LEMMA JarsOfProduct ==
  ASSUME NEW l \in Lines, NEW p
  PROVE  /\ SumOver(l, VariantsOf(p) \cap LinesIn(l)) = SumOver(l, VariantsOf(p))
         /\ SumOver(l, VariantsOf(p)) \in Nat /\ SumOver(l, VariantsOf(p)) \in Int
<1>1. IsFiniteSet(VariantsOf(p))
  BY FiniteRows
<1>2. \A v \in VariantsOf(p) : l[v] \in Nat /\ l[v] \in Int
  BY MaxLineType DEF VariantsOf, Lines
<1>3. \A v \in VariantsOf(p) \ (VariantsOf(p) \cap LinesIn(l)) : l[v] = 0
  BY <1>2 DEF VariantsOf, LinesIn
<1>4. VariantsOf(p) \cap LinesIn(l) \subseteq VariantsOf(p)
  OBVIOUS
<1>5. SumOver(l, VariantsOf(p)) = SumOver(l, VariantsOf(p) \cap LinesIn(l))
  BY <1>1, <1>2, <1>3, <1>4, SumOverZeros
<1>6. SumOver(l, VariantsOf(p)) \in Nat
  BY <1>1, <1>2, SumOverNat
<1> QED
  BY <1>5, <1>6

-----------------------------------------------------------------------------
(* Types of the sales counts.                                              *)

SalesTyped == sales \in [Products -> Nat]

\* Only the checkout that commits counts sales.
LEMMA SalesFrame ==
  ASSUME TypeInv, [Next]_vars
  PROVE  \/ sales' = sales
         \/ \E r \in Requests : Places(r)
<1>1. ASSUME NEW r \in Requests, RequestStep(r), ~Places(r) PROVE sales' = sales
  BY <1>1, RequestFrame DEF CommitCancel
<1>2. CASE CustomerWrites \/ AdminWrites
  BY <1>2, WriteFrame
<1> QED
  BY <1>1, <1>2 DEF Next, RequestStep, vars

\* A checkout adds what its lines take of each product.
LEMMA SalesCounted ==
  ASSUME TypeInv, NEW r \in Requests, Places(r)
  PROVE  sales' = [p \in Products |-> sales[p] + SumOver(lines[r], VariantsOf(p))]
<1>1. lines[r] \in Lines
  BY DEF TypeInv, TransactionTypeOK
<1>2. \A p \in Products :
        SumOver(lines[r], VariantsOf(p) \cap LinesIn(lines[r])) = SumOver(lines[r], VariantsOf(p))
  BY <1>1, JarsOfProduct
<1>3. sales' = [p \in Products |->
                  sales[p] + SumOver(lines[r], VariantsOf(p) \cap LinesIn(lines[r]))]
  BY DEF Places, CommitOrder
<1> QED
  BY <1>2, <1>3

\* Every step keeps the sales counts natural numbers.
LEMMA SalesStep == TypeInv /\ SalesTyped /\ [Next]_vars => SalesTyped'
<1> SUFFICES ASSUME TypeInv, SalesTyped, [Next]_vars PROVE SalesTyped'
  OBVIOUS
<1>1. ASSUME NEW r \in Requests, Places(r) PROVE SalesTyped'
  <2>1. lines[r] \in Lines
    BY DEF TypeInv, TransactionTypeOK
  <2>2. \A p \in Products : SumOver(lines[r], VariantsOf(p)) \in Nat
    BY <2>1, JarsOfProduct
  <2> QED
    BY <1>1, <2>2, SalesCounted DEF SalesTyped
<1> QED
  BY <1>1, SalesFrame DEF SalesTyped

\* Every variable of the transaction core, the sales counts included, holds a
\* value of its type in every reachable state.
THEOREM AllTyping == Spec => []TypeOK
<1>1. Init => SalesTyped
  BY DEF Init, SalesTyped
<1>2. TypeInv /\ SalesTyped => TypeOK
  BY DEF TypeInv, SalesTyped, TypeOK
<1> QED
  BY <1>1, <1>2, SalesStep, Locking, PTL DEF Spec

-----------------------------------------------------------------------------
(* The jars.                                                               *)

\* A cancellation past its check gives back what its order took.
RestockIsTheOrder ==
  \A r \in Requests : pc[r] = "lock_restock" => lines[r] = orders[job[r].order].lines

\* While a cancellation holds its order's row, no step of another writes it.
LEMMA LockedOrderKept ==
  ASSUME TypeInv, LockInv, PlacedOnce, [Next]_vars, NEW q \in Requests,
         pc[q] = "lock_restock", pc'[q] = "lock_restock"
  PROVE  /\ job'[q] = job[q] /\ lines'[q] = lines[q]
         /\ orders'[job[q].order] = orders[job[q].order]
<1>0. /\ job[q].order \in Requests /\ orders[job[q].order] # None
      /\ lock[OrderRow(job[q].order)] = q
  BY DEF TypeInv, JobsFit, LockInv, OrderLocked
<1>1. ASSUME NEW r \in Requests, RequestStep(r), q # r
      PROVE  /\ job'[q] = job[q] /\ lines'[q] = lines[q]
             /\ orders'[job[q].order] = orders[job[q].order]
  <2>1. job'[q] = job[q] /\ lines'[q] = lines[q]
    BY <1>1, RequestFrame DEF OthersUntouched
  <2>2. CASE Places(r)
    BY <1>0, <2>1, <2>2, PlacesFrame DEF PlacedOnce
  <2>3. CASE CommitCancel(r)
    <3>1. job[r].order # job[q].order
      BY <1>0, <1>1, <2>3, CancelFrame DEF LockInv, OrderLocked
    <3> QED
      BY <1>0, <2>1, <2>3, <3>1, CancelFrame
  <2> QED
    BY <1>1, <2>1, <2>2, <2>3, RequestFrame
<1>2. ASSUME RequestStep(q)
      PROVE  /\ job'[q] = job[q] /\ lines'[q] = lines[q]
             /\ orders'[job[q].order] = orders[job[q].order]
  <2>1. LockRestock(q)
    <3>1. (LockOrder(q) /\ ~Refuse(q)) \/ LockRestock(q)
      BY <1>2, Labels DEF Ended
    <3> QED
      BY <3>1 DEF LockOrder
  <2> QED
    BY <2>1 DEF LockRestock, shopVars
<1>3. CASE CustomerWrites \/ AdminWrites
  BY <1>0, <1>3, WriteFrame, NoneIsNoRequest DEF OrderKept
<1>4. CASE UNCHANGED vars
  BY <1>4 DEF vars
<1> QED
  BY <1>1, <1>2, <1>3, <1>4 DEF Next, RequestStep

\* Every step keeps a cancellation's lines those of its order.
LEMMA RestockStep ==
  TypeInv /\ LockInv /\ PlacedOnce /\ RestockIsTheOrder /\ [Next]_vars => RestockIsTheOrder'
<1> SUFFICES ASSUME TypeInv, LockInv, PlacedOnce, RestockIsTheOrder, [Next]_vars,
                    NEW q \in Requests, pc'[q] = "lock_restock"
             PROVE  lines'[q] = orders'[job'[q].order].lines
  BY DEF RestockIsTheOrder
<1>1. CASE pc[q] = "lock_restock"
  BY <1>1, LockedOrderKept DEF RestockIsTheOrder
<1>2. CASE pc[q] # "lock_restock"
  <2>1. PICK r \in Requests : RequestStep(r)
    BY <1>2, WriteFrame DEF Next, RequestStep, vars
  <2>2. q = r
    BY <1>2, <2>1, RequestFrame DEF OthersUntouched
  <2>3. LockOrder(q) /\ ~Refuse(q)
    BY <1>2, <2>1, <2>2, Labels DEF Ended, LockRestock
  <2>4. /\ lines' = [lines EXCEPT ![q] = orders[job[q].order].lines]
        /\ UNCHANGED <<job, orders>>
    BY <2>3 DEF LockOrder, shopVars
  <2> QED
    BY <2>4 DEF TypeInv, TransactionTypeOK
<1> QED
  BY <1>1, <1>2

\* Which orders exist, and which stand, after each kind of step.
LEMMA PlacesSets ==
  ASSUME TypeInv, PlacedOnce, NEW r \in Requests, Places(r)
  PROVE  /\ r \notin Placed /\ Placed' = Placed \cup {r}
         /\ r \notin Live /\ Live' = Live \cup {r}
         /\ PlacedOrder(r) \in Order
<1>1. orders[r] = None
  BY PlacesFrame DEF PlacedOnce
<1>2. PlacedOrder(r) \in Order
  <2>1. job[r].user \in Users /\ job[r].method \in Methods
    BY PlacesFrame DEF TypeInv, JobsFit, AfterReadCart
  <2> QED
    BY <2>1 DEF PlacedOrder, Order, Statuses, Payments, TypeInv, TransactionTypeOK, Quote
<1>3. orders'[r] # None /\ orders'[r].status = "pending"
  BY <1>2, PlacesFrame, NoneIsNoOrder DEF PlacedOrder
<1> QED
  BY <1>1, <1>2, <1>3, PlacesFrame DEF Placed, Live

\* A cancelled order no longer stands.
LEMMA CancelSets ==
  ASSUME TypeInv, CancelStaysAllowed, NEW r \in Requests, CommitCancel(r)
  PROVE  /\ Placed' = Placed
         /\ job[r].order \in Live /\ Live' = Live \ {job[r].order}
<1>1. orders[job[r].order].status \in {"pending", "confirmed"}
  BY CancelFrame DEF CancelStaysAllowed, MayCancel, OrderTransitions, CustomerMayCancel
<1> QED
  BY <1>1, CancelFrame DEF Placed, Live

\* Any other write leaves both sets as they were.
LEMMA OtherSets ==
  ASSUME \A o \in Requests : OrderKept(o)
  PROVE  Placed' = Placed /\ Live' = Live
BY DEF OrderKept, Rewritten, Placed, Live

\* The jars variant v has in the orders that stand, and those product p has sold.
JarsOut(v) == SumOver([o \in Live |-> orders[o].lines[v]], Live)
JarsSold(p) == SumOver([o \in Placed |-> SumOver(orders[o].lines, VariantsOf(p))], Placed)

\* What an order holds of a variant, and of a product, is a number.
LEMMA OrderLines ==
  ASSUME TypeInv, NEW o \in Placed
  PROVE  /\ orders[o].lines \in Lines
         /\ \A v \in Variants : orders[o].lines[v] \in Int
         /\ \A p : SumOver(orders[o].lines, VariantsOf(p)) \in Int
<1>1. orders[o].lines \in Lines
  BY DEF TypeInv, TransactionTypeOK, Placed, Order
<1>2. \A v \in Variants : orders[o].lines[v] \in Int
  BY <1>1, MaxLineType DEF Lines
<1>3. ASSUME NEW p PROVE SumOver(orders[o].lines, VariantsOf(p)) \in Int
  BY <1>1, JarsOfProduct
<1> QED
  BY <1>1, <1>2, <1>3

\* The order that is placed adds its lines to both sums.
LEMMA PlacesJars ==
  ASSUME TypeInv, PlacedOnce, NEW r \in Requests, Places(r)
  PROVE  /\ \A v \in Variants : JarsOut(v)' = JarsOut(v) + lines[r][v] /\ JarsOut(v) \in Int
         /\ \A p : JarsSold(p)' = JarsSold(p) + SumOver(lines[r], VariantsOf(p))
<1>0. /\ r \notin Placed /\ Placed' = Placed \cup {r}
      /\ r \notin Live /\ Live' = Live \cup {r}
      /\ IsFiniteSet(Placed) /\ IsFiniteSet(Live) /\ Live \subseteq Placed /\ Placed \subseteq Requests
  BY PlacesSets, FiniteRows DEF Placed, Live
<1>1. orders'[r].lines = lines[r] /\ lines[r] \in Lines
  <2>1. orders'[r] = PlacedOrder(r)
    BY PlacesFrame
  <2>2. orders'[r].lines = lines[r]
    BY <2>1 DEF PlacedOrder
  <2> QED
    BY <2>2 DEF TypeInv, TransactionTypeOK
<1>2. \A o \in Placed : orders'[o] = orders[o]
  BY <1>0, PlacesFrame
<1>3. ASSUME NEW v \in Variants
      PROVE  JarsOut(v)' = JarsOut(v) + lines[r][v] /\ JarsOut(v) \in Int
  <2> DEFINE f == [o \in Live |-> orders[o].lines[v]]
             g == [o \in Live' |-> orders'[o].lines[v]]
  <2>1. \A o \in Live : f[o] \in Int /\ g[o] = f[o]
    BY <1>0, <1>2, OrderLines
  <2>2. g[r] = lines[r][v] /\ g[r] \in Int
    BY <1>0, <1>1, MaxLineType DEF Lines
  <2> HIDE DEF f, g
  <2>3. SumOver(g, Live \cup {r}) = SumOver(f, Live) + g[r] /\ SumOver(f, Live) \in Int
    BY <1>0, <2>1, <2>2, SumOverJoin
  <2>4. JarsOut(v) = SumOver(f, Live) /\ JarsOut(v)' = SumOver(g, Live')
    BY DEF JarsOut, f, g
  <2> QED
    BY <1>0, <2>2, <2>3, <2>4
<1>4. ASSUME NEW p
      PROVE  JarsSold(p)' = JarsSold(p) + SumOver(lines[r], VariantsOf(p))
  <2> DEFINE f == [o \in Placed |-> SumOver(orders[o].lines, VariantsOf(p))]
             g == [o \in Placed' |-> SumOver(orders'[o].lines, VariantsOf(p))]
  <2>1. \A o \in Placed : f[o] \in Int /\ g[o] = f[o]
    BY <1>0, <1>2, OrderLines
  <2>2. g[r] = SumOver(lines[r], VariantsOf(p)) /\ g[r] \in Int
    <3>1. SumOver(lines[r], VariantsOf(p)) \in Int
      BY <1>1, JarsOfProduct
    <3> QED
      BY <1>0, <1>1, <3>1
  <2> HIDE DEF f, g
  <2>3. SumOver(g, Placed \cup {r}) = SumOver(f, Placed) + g[r] /\ SumOver(f, Placed) \in Int
    BY <1>0, <2>1, <2>2, SumOverJoin
  <2>4. JarsSold(p) = SumOver(f, Placed) /\ JarsSold(p)' = SumOver(g, Placed')
    BY DEF JarsSold, VariantsOf, f, g
  <2> QED
    BY <1>0, <2>2, <2>3, <2>4
<1> QED
  BY <1>3, <1>4

\* The order that is cancelled takes its lines out of the first sum only.
LEMMA CancelJars ==
  ASSUME TypeInv, CancelStaysAllowed, RestockIsTheOrder, NEW r \in Requests, CommitCancel(r)
  PROVE  /\ \A v \in Variants : JarsOut(v) = JarsOut(v)' + lines[r][v] /\ JarsOut(v)' \in Int
         /\ \A p : JarsSold(p)' = JarsSold(p)
<1> DEFINE x == job[r].order
<1>0. /\ Placed' = Placed /\ x \in Live /\ Live' = Live \ {x}
      /\ IsFiniteSet(Placed) /\ IsFiniteSet(Live) /\ Live \subseteq Placed /\ Placed \subseteq Requests
  BY CancelSets, FiniteRows DEF Placed, Live
<1>1. /\ orders[x].lines = lines[r] /\ orders'[x].lines = lines[r]
      /\ \A o \in Requests \ {x} : orders'[o] = orders[o]
  BY CancelFrame DEF RestockIsTheOrder
<1> HIDE DEF x
<1>2. ASSUME NEW v \in Variants
      PROVE  JarsOut(v) = JarsOut(v)' + lines[r][v] /\ JarsOut(v)' \in Int
  <2> DEFINE f == [o \in Live |-> orders[o].lines[v]]
             g == [o \in Live' |-> orders'[o].lines[v]]
  <2>1. \A o \in Live : f[o] \in Int
    BY <1>0, OrderLines
  <2>2. \A o \in Live \ {x} : g[o] = f[o]
    BY <1>0, <1>1
  <2>3. f[x] = lines[r][v]
    BY <1>0, <1>1
  <2> HIDE DEF f, g
  <2>4. SumOver(f, Live) = SumOver(g, Live \ {x}) + f[x] /\ SumOver(g, Live \ {x}) \in Int
    BY <1>0, <2>1, <2>2, SumOverLeave
  <2>5. JarsOut(v) = SumOver(f, Live) /\ JarsOut(v)' = SumOver(g, Live')
    BY DEF JarsOut, f, g
  <2> QED
    BY <1>0, <2>3, <2>4, <2>5
<1>3. ASSUME NEW p PROVE JarsSold(p)' = JarsSold(p)
  <2> DEFINE f == [o \in Placed |-> SumOver(orders[o].lines, VariantsOf(p))]
             g == [o \in Placed' |-> SumOver(orders'[o].lines, VariantsOf(p))]
  <2>1. \A o \in Placed : g[o] = f[o]
    BY <1>0, <1>1
  <2> HIDE DEF f, g
  <2>2. SumOver(g, Placed) = SumOver(f, Placed)
    BY <1>0, <2>1, SumOverSame
  <2>3. JarsSold(p) = SumOver(f, Placed) /\ JarsSold(p)' = SumOver(g, Placed')
    BY DEF JarsSold, VariantsOf, f, g
  <2> QED
    BY <1>0, <2>2, <2>3
<1> QED
  BY <1>2, <1>3

\* Where orders are kept, so are both sums.
LEMMA KeptJars ==
  ASSUME \A o \in Requests : OrderKept(o)
  PROVE  /\ \A v : JarsOut(v)' = JarsOut(v)
         /\ \A p : JarsSold(p)' = JarsSold(p)
<1>0. /\ Placed' = Placed /\ Live' = Live
      /\ IsFiniteSet(Placed) /\ IsFiniteSet(Live) /\ Live \subseteq Placed /\ Placed \subseteq Requests
  BY OtherSets, FiniteRows DEF Placed, Live
<1>1. \A o \in Placed : orders'[o].lines = orders[o].lines
  BY <1>0 DEF OrderKept, Rewritten
<1>2. ASSUME NEW v PROVE JarsOut(v)' = JarsOut(v)
  <2> DEFINE f == [o \in Live |-> orders[o].lines[v]]
             g == [o \in Live' |-> orders'[o].lines[v]]
  <2>1. \A o \in Live : g[o] = f[o]
    BY <1>0, <1>1
  <2> HIDE DEF f, g
  <2>2. SumOver(g, Live) = SumOver(f, Live)
    BY <1>0, <2>1, SumOverSame
  <2>3. JarsOut(v) = SumOver(f, Live) /\ JarsOut(v)' = SumOver(g, Live')
    BY DEF JarsOut, f, g
  <2> QED
    BY <1>0, <2>2, <2>3
<1>3. ASSUME NEW p PROVE JarsSold(p)' = JarsSold(p)
  <2> DEFINE f == [o \in Placed |-> SumOver(orders[o].lines, VariantsOf(p))]
             g == [o \in Placed' |-> SumOver(orders'[o].lines, VariantsOf(p))]
  <2>1. \A o \in Placed : g[o] = f[o]
    BY <1>0, <1>1
  <2> HIDE DEF f, g
  <2>2. SumOver(g, Placed) = SumOver(f, Placed)
    BY <1>0, <2>1, SumOverSame
  <2>3. JarsSold(p) = SumOver(f, Placed) /\ JarsSold(p)' = SumOver(g, Placed')
    BY DEF JarsSold, VariantsOf, f, g
  <2> QED
    BY <1>0, <2>2, <2>3
<1> QED
  BY <1>2, <1>3

\* Every step keeps the books: what leaves the shelf is in an order that stands.
LEMMA JarsStep ==
  /\ TypeInv /\ SalesTyped /\ PlacedOnce /\ CancelStaysAllowed /\ RestockIsTheOrder
  /\ JarsAccountedFor /\ [Next]_vars
  => JarsAccountedFor'
<1> SUFFICES ASSUME TypeInv, SalesTyped, PlacedOnce, CancelStaysAllowed, RestockIsTheOrder,
                    JarsAccountedFor, [Next]_vars
             PROVE  JarsAccountedFor'
  OBVIOUS
<1> DEFINE Balanced == /\ \A v \in Variants : stock[v] + JarsOut(v) = supply[v]
                       /\ \A p \in Products : sales[p] = JarsSold(p)
<1>0. /\ Balanced
      /\ \A v \in Variants : stock[v] \in Int /\ supply[v] \in Int
      /\ \A r \in Requests, v \in Variants : lines[r][v] \in Int
  BY MaxLineType DEF JarsAccountedFor, JarsOut, JarsSold, TypeInv, TransactionTypeOK, Lines
<1>1. Balanced' => JarsAccountedFor'
  BY DEF JarsAccountedFor, JarsOut, JarsSold
<1>2. ASSUME NEW r \in Requests, Places(r) PROVE Balanced'
  <2>1. ASSUME NEW v \in Variants PROVE stock'[v] + JarsOut(v)' = supply'[v]
    <3>1. stock'[v] = stock[v] - lines[r][v] /\ supply' = supply
      BY <1>2 DEF Places, CommitOrder
    <3>2. JarsOut(v)' = JarsOut(v) + lines[r][v] /\ JarsOut(v) \in Int
      BY <1>2, PlacesJars
    <3> QED
      BY <1>0, <3>1, <3>2
  <2>2. ASSUME NEW p \in Products PROVE sales'[p] = JarsSold(p)'
    <3>1. sales'[p] = sales[p] + SumOver(lines[r], VariantsOf(p))
      BY <1>2, SalesCounted
    <3>2. JarsSold(p)' = JarsSold(p) + SumOver(lines[r], VariantsOf(p))
      BY <1>2, PlacesJars
    <3> QED
      BY <1>0, <3>1, <3>2
  <2> QED
    BY <2>1, <2>2
<1>3. ASSUME NEW r \in Requests, CommitCancel(r) PROVE Balanced'
  <2>1. ASSUME NEW v \in Variants PROVE stock'[v] + JarsOut(v)' = supply'[v]
    <3>1. stock'[v] = stock[v] + lines[r][v] /\ supply' = supply
      BY <1>3 DEF CommitCancel
    <3>2. JarsOut(v) = JarsOut(v)' + lines[r][v] /\ JarsOut(v)' \in Int
      BY <1>3, CancelJars
    <3> QED
      BY <1>0, <3>1, <3>2
  <2>2. ASSUME NEW p \in Products PROVE sales'[p] = JarsSold(p)'
    <3>1. sales' = sales
      BY <1>3 DEF CommitCancel
    <3>2. JarsSold(p)' = JarsSold(p)
      BY <1>3, CancelJars
    <3> QED
      BY <1>0, <3>1, <3>2
  <2> QED
    BY <2>1, <2>2
<1>4. ASSUME \A o \in Requests : OrderKept(o), sales' = sales,
             (stock' = stock /\ supply' = supply) \/ StockWritten
      PROVE  Balanced'
  <2>1. ASSUME NEW v \in Variants PROVE stock'[v] + JarsOut(v)' = supply'[v]
    <3>1. JarsOut(v)' = JarsOut(v)
      BY <1>4, KeptJars
    <3>2. CASE StockWritten
      <4>1. PICK w \in Variants, n \in Nat :
              stock' = [stock EXCEPT ![w] = n] /\ supply' = [supply EXCEPT ![w] = @ + n - stock[w]]
        BY <3>2 DEF StockWritten
      <4>2. CASE v = w
        <5>1. stock'[v] = n /\ supply'[v] = supply[v] + n - stock[v]
          BY <4>1, <4>2 DEF TypeInv, TransactionTypeOK
        <5>2. JarsOut(v) \in Int
          <6>1. IsFiniteSet(Live)
            BY FiniteRows DEF Live, Placed
          <6>2. \A o \in Live : [x \in Live |-> orders[x].lines[v]][o] \in Int
            BY OrderLines DEF Live
          <6> QED
            BY <6>1, <6>2, SumOverInt DEF JarsOut
        <5> QED
          BY <1>0, <3>1, <5>1, <5>2
      <4>3. CASE v # w
        BY <1>0, <3>1, <4>1, <4>3 DEF TypeInv, TransactionTypeOK
      <4> QED
        BY <4>2, <4>3
    <3> QED
      BY <1>0, <1>4, <3>1, <3>2
  <2>2. ASSUME NEW p \in Products PROVE sales'[p] = JarsSold(p)'
    BY <1>0, <1>4, KeptJars
  <2> QED
    BY <2>1, <2>2
<1> HIDE DEF Balanced
<1>5. ASSUME NEW r \in Requests, RequestStep(r) PROVE Balanced'
  <2>1. CASE UNCHANGED <<stock, price, sales, cart, cartPromo, code, orders, redeemed, book, supply>>
    BY <1>4, <2>1 DEF OrderKept
  <2> QED
    BY <1>2, <1>3, <1>5, <2>1, RequestFrame
<1>6. CASE CustomerWrites \/ AdminWrites
  BY <1>1, <1>4, <1>6, WriteFrame
<1>7. CASE UNCHANGED vars
  BY <1>1, <1>4, <1>7 DEF vars, OrderKept
<1> QED
  BY <1>1, <1>5, <1>6, <1>7 DEF Next, RequestStep

\* At the start nothing is ordered, and the shelf is what was declared.
LEMMA InitJars == Init => JarsAccountedFor
<1> SUFFICES ASSUME Init PROVE JarsAccountedFor
  OBVIOUS
<1>1. Live = {} /\ Placed = {}
  BY DEF Init, Live, Placed
<1>2. ASSUME NEW v \in Variants
      PROVE  stock[v] + SumOver([o \in Live |-> orders[o].lines[v]], Live) = supply[v]
  <2>1. SumOver([o \in Live |-> orders[o].lines[v]], Live) = 0
    BY <1>1, SumOverEmpty
  <2>2. stock[v] \in Int /\ supply[v] = stock[v]
    BY InitStockType DEF Init
  <2> QED
    BY <2>1, <2>2
<1>3. ASSUME NEW p \in Products
      PROVE  sales[p] = SumOver([o \in Placed |-> SumOver(orders[o].lines, VariantsOf(p))], Placed)
  BY <1>1, SumOverEmpty DEF Init
<1> QED
  BY <1>2, <1>3 DEF JarsAccountedFor

\* However checkouts, cancellations, stock edits and rollbacks interleave, every
\* jar the admin declared is on the shelf or in an order that stands, and
\* sales_count is what all orders took.
THEOREM NoJarLost == Spec => []JarsAccountedFor
<1>1. Init => PlacedOnce /\ RestockIsTheOrder /\ SalesTyped
  BY DEF Init, PlacedOnce, RestockIsTheOrder, SalesTyped
<1> QED
  BY <1>1, InitJars, PlacedOnceStep, RestockStep, SalesStep, JarsStep, NoCancelOvertaken,
     Locking, PTL DEF Spec

-----------------------------------------------------------------------------
(* The redemptions.                                                        *)

Redeeming == {o \in Live : orders[o].promo # None}
Redemption(o) == [code |-> orders[o].promo, user |-> orders[o].user, order |-> o]

\* A row of promo_redemptions is the code of a standing order, and conversely.
LEMMA RedemptionRows ==
  RedemptionsMatchOrders <=>
    /\ \A x : x \in redeemed <=> \E o \in Redeeming : x = Redemption(o)
    /\ \A x, y \in redeemed : x.code = y.code /\ x.user = y.user => x = y
BY DEF RedemptionsMatchOrders, Redeeming, Redemption

\* The same, one step later.
LEMMA RedemptionRowsPrime ==
  RedemptionsMatchOrders' <=>
    /\ \A x : x \in redeemed' <=> \E o \in Redeeming' : x = Redemption(o)'
    /\ \A x, y \in redeemed' : x.code = y.code /\ x.user = y.user => x = y
BY DEF RedemptionsMatchOrders, Redeeming, Redemption

\* Every step keeps the redemptions in agreement with the standing orders.
LEMMA RedemptionStep ==
  /\ TypeInv /\ PlacedOnce /\ CancelStaysAllowed /\ RedemptionsMatchOrders /\ [Next]_vars
  => RedemptionsMatchOrders'
<1> SUFFICES ASSUME TypeInv, PlacedOnce, CancelStaysAllowed, RedemptionsMatchOrders, [Next]_vars
             PROVE  RedemptionsMatchOrders'
  OBVIOUS
<1>0. /\ \A x : x \in redeemed <=> \E o \in Redeeming : x = Redemption(o)
      /\ \A x, y \in redeemed : x.code = y.code /\ x.user = y.user => x = y
  BY RedemptionRows
<1>1. ASSUME NEW r \in Requests, Places(r) PROVE RedemptionsMatchOrders'
  <2> DEFINE u == job[r].user
             k == quote[r].promo
             new == [code |-> k, user |-> u, order |-> r]
  <2>1. redeemed' = redeemed \cup {[code |-> c, user |-> u, order |-> r] : c \in {k} \ {None}}
    BY <1>1 DEF Places, CommitOrder
  <2>2. \A x : x \in redeemed' <=> x \in redeemed \/ (k # None /\ x = new)
    BY <2>1
  <2>3. /\ r \notin Live /\ Live' = Live \cup {r} /\ Live \subseteq Requests
        /\ \A o \in Live : orders'[o] = orders[o]
    BY <1>1, PlacesSets, PlacesFrame DEF Live, Placed
  <2>4. orders'[r].promo = k /\ orders'[r].user = u
    <3>1. orders'[r] = PlacedOrder(r)
      BY <1>1, PlacesFrame
    <3> QED
      BY <3>1 DEF PlacedOrder
  <2>5. Redemption(r)' = new
    BY <2>4 DEF Redemption
  <2>6. \A o \in Live : Redemption(o)' = Redemption(o)
    BY <2>3 DEF Redemption
  <2>7. \A o : o \in Redeeming' <=> o \in Redeeming \/ (o = r /\ k # None)
    BY <2>3, <2>4 DEF Redeeming
  <2> HIDE DEF new, k, u
  <2>8. ASSUME NEW x PROVE x \in redeemed' <=> \E o \in Redeeming' : x = Redemption(o)'
    <3>1. \A o \in Redeeming : o \in Live
      BY DEF Redeeming
    <3> QED
      BY <1>0, <2>2, <2>5, <2>6, <2>7, <3>1
  <2>9. \A x \in redeemed : k # None => ~(x.code = new.code /\ x.user = new.user)
    <3>1. k # None => ~Used(k, u)
      BY <1>1 DEF Places, RedemptionConflict, k, u
    <3> QED
      BY <3>1 DEF Used, new
  <2>10. \A x, y \in redeemed' : x.code = y.code /\ x.user = y.user => x = y
    BY <1>0, <2>2, <2>9
  <2> QED
    BY <2>8, <2>10, RedemptionRowsPrime
<1>2. ASSUME NEW r \in Requests, CommitCancel(r) PROVE RedemptionsMatchOrders'
  <2> DEFINE x == job[r].order
  <2>1. redeemed' = {z \in redeemed : z.order # x}
    BY <1>2 DEF CommitCancel
  <2>2. /\ x \in Live /\ Live' = Live \ {x}
        /\ \A o \in Live \ {x} : orders'[o] = orders[o]
    BY <1>2, CancelSets, CancelFrame DEF Live, Placed
  <2> HIDE DEF x
  <2>3. \A o \in Live \ {x} : Redemption(o)' = Redemption(o)
    BY <2>2 DEF Redemption
  <2>4. \A o : o \in Redeeming' <=> o \in Redeeming /\ o # x
    BY <2>2 DEF Redeeming
  <2>5. \A o : Redemption(o).order = o
    BY DEF Redemption
  <2>6. ASSUME NEW z PROVE z \in redeemed' <=> \E o \in Redeeming' : z = Redemption(o)'
    <3>1. \A o \in Redeeming : o \in Live
      BY DEF Redeeming
    <3> QED
      BY <1>0, <2>1, <2>3, <2>4, <2>5, <3>1
  <2> QED
    BY <1>0, <2>1, <2>6, RedemptionRowsPrime
<1>3. ASSUME redeemed' = redeemed, \A o \in Requests : OrderKept(o) PROVE RedemptionsMatchOrders'
  <2>1. Live' = Live /\ Live \subseteq Requests
    BY <1>3, OtherSets DEF Live, Placed
  <2>2. \A o \in Live : orders'[o].promo = orders[o].promo /\ orders'[o].user = orders[o].user
    BY <1>3, <2>1 DEF OrderKept, Rewritten
  <2>3. Redeeming' = Redeeming /\ \A o \in Redeeming : Redemption(o)' = Redemption(o)
    BY <2>1, <2>2 DEF Redeeming, Redemption
  <2> QED
    BY <1>0, <1>3, <2>3, RedemptionRowsPrime
<1>4. ASSUME NEW r \in Requests, RequestStep(r) PROVE RedemptionsMatchOrders'
  <2>1. CASE UNCHANGED <<stock, price, sales, cart, cartPromo, code, orders, redeemed, book, supply>>
    BY <1>3, <2>1 DEF OrderKept
  <2> QED
    BY <1>1, <1>2, <1>4, <2>1, RequestFrame
<1>5. CASE CustomerWrites \/ AdminWrites
  BY <1>3, <1>5, WriteFrame
<1>6. CASE UNCHANGED vars
  BY <1>3, <1>6 DEF vars, OrderKept
<1> QED
  BY <1>4, <1>5, <1>6 DEF Next, RequestStep

\* The rows in promo_redemptions are exactly the codes of the standing orders,
\* one per customer and code.
THEOREM RedemptionsAreOrders == Spec => []RedemptionsMatchOrders
<1>1. Init => PlacedOnce /\ RedemptionsMatchOrders
  BY DEF Init, PlacedOnce, RedemptionsMatchOrders, Live, Placed
<1> QED
  BY <1>1, PlacedOnceStep, RedemptionStep, NoCancelOvertaken, Locking, PTL DEF Spec

-----------------------------------------------------------------------------
(* Two submits, one order.                                                 *)

\* A customer who has ordered has an empty cart, and no other request of theirs
\* has read one that was not.
CartSpent(u) ==
  /\ \A o, p \in OrdersOf(u) : o = p
  /\ OrdersOf(u) # {} =>
       /\ cart[u] = NoLines
       /\ \A r \in Requests : pc[r] \in AfterReadCart => job[r].user # u
CartsSpent == CartInputs = {} => \A u \in Users : CartSpent(u)

\* Without edits, only a checkout's commit writes a cart.
LEMMA CartFrame ==
  ASSUME CartInputs = {}, CustomerWrites \/ AdminWrites
  PROVE  cart' = cart
<1>1. CASE CustomerWrites
  <2>1. PICK u, c : ApplyPromo(u, c) \/ ClearPromo(u)
    BY <1>1 DEF CustomerWrites
  <2> QED
    BY <2>1 DEF ApplyPromo, ClearPromo
<1>2. CASE AdminWrites
  <2>1. CASE \E x \in VariantInputs : UpdateVariant(x[1], x[2], x[3])
    BY <2>1 DEF UpdateVariant
  <2>2. CASE (\E x \in CodeInputs : UpdatePromo(x[1], x[2])) \/ (\E c \in Codes : Expire(c))
    BY <2>2 DEF UpdatePromo, Expire
  <2>3. CASE \/ \E o \in Requests, to \in Statuses : UpdateOrderStatus(o, to)
             \/ \E o \in Requests, to \in Payments : UpdateOrderPaymentStatus(o, to)
    BY <2>3 DEF UpdateOrderStatus, UpdateOrderPaymentStatus
  <2> QED
    BY <1>2, <2>1, <2>2, <2>3 DEF AdminWrites
<1> QED
  BY <1>1, <1>2

\* Whose order an order is does not change.
LEMMA OwnersKept ==
  ASSUME TypeInv, NEW u,
         \A o \in Requests : OrderKept(o) \/ (/\ orders[o] # None /\ orders'[o] # None
                                             /\ orders'[o].user = orders[o].user)
  PROVE  OrdersOf(u)' = OrdersOf(u)
BY DEF OrdersOf, Placed, OrderKept, Rewritten

\* A request reaches the statements past its cart only by reading one with lines.
LEMMA PastTheCart ==
  ASSUME TypeInv, NEW r \in Requests, RequestStep(r), pc'[r] \in AfterReadCart
  PROVE  /\ job'[r] = job[r]
         /\ pc[r] \in AfterReadCart \/ cart[job[r].user] # NoLines
<1>1. \/ ReadCart(r) /\ ~Refuse(r)
      \/ LockLine(r) \/ (CheckLines(r) /\ ~Refuse(r))
      \/ ReadPromo(r) \/ LockPromo(r) \/ LockProduct(r)
      \/ PriceOrder(r) /\ ~Refuse(r)
  BY Labels DEF AfterReadCart, Ended
<1>2. CASE ReadCart(r) /\ ~Refuse(r)
  BY <1>2 DEF ReadCart
<1> QED
  BY <1>1, <1>2
  DEF LockLine, CheckLines, ReadPromo, LockPromo, PriceOrder, LockProduct, AfterReadCart

\* Every step keeps the carts of those who ordered spent.
LEMMA CartsStep == TypeInv /\ LockInv /\ PlacedOnce /\ CartsSpent /\ [Next]_vars => CartsSpent'
<1> SUFFICES ASSUME TypeInv, LockInv, PlacedOnce, CartsSpent, [Next]_vars, CartInputs = {},
                    NEW u \in Users
             PROVE  CartSpent(u)'
  BY DEF CartsSpent
<1>0. CartSpent(u)
  BY DEF CartsSpent
<1>1. ASSUME NEW r \in Requests, Places(r) PROVE CartSpent(u)'
  <2>0. /\ pc[r] = "lock_products" /\ pc'[r] = "done" /\ pc[r] \in AfterReadCart
        /\ job[r].user \in Users
        /\ \A q \in Requests \ {r} : pc'[q] = pc[q] /\ job'[q] = job[q]
    <3>1. RequestStep(r)
      BY <1>1 DEF RequestStep, CheckoutStep, Places
    <3> QED
      BY <1>1, <3>1, PlacesFrame, RequestFrame
      DEF AfterReadCart, OthersUntouched, TypeInv, JobsFit
  <2>1. /\ orders[r] = None /\ \A o \in Requests \ {r} : orders'[o] = orders[o]
        /\ orders'[r] # None /\ orders'[r].user = job[r].user
    <3>1. orders'[r] = PlacedOrder(r) /\ PlacedOrder(r) \in Order
      BY <1>1, PlacesFrame, PlacesSets
    <3>2. orders'[r] # None
      BY <3>1, NoneIsNoOrder
    <3>3. orders'[r].user = job[r].user
      BY <3>1 DEF PlacedOrder
    <3> QED
      BY <1>1, <2>0, <3>2, <3>3, PlacesFrame DEF PlacedOnce
  <2>2. cart' = [cart EXCEPT ![job[r].user] = NoLines]
    BY <1>1 DEF Places, CommitOrder
  <2>3. CASE u = job[r].user
    <3>1. OrdersOf(u) = {}
      BY <1>0, <2>0, <2>3 DEF CartSpent
    <3>2. \A o \in OrdersOf(u)' : o = r
      BY <2>1, <3>1 DEF OrdersOf, Placed
    <3>3. cart'[u] = NoLines
      BY <2>2, <2>3 DEF TypeInv, TransactionTypeOK
    <3>4. \A q \in Requests : pc'[q] \in AfterReadCart => job'[q].user # u
      BY <2>0, <2>3, OneCheckoutPerUser DEF AfterReadCart
    <3> QED
      BY <3>2, <3>3, <3>4 DEF CartSpent
  <2>4. CASE u # job[r].user
    <3>1. OrdersOf(u)' = OrdersOf(u)
      BY <2>1, <2>4 DEF OrdersOf, Placed
    <3>2. cart'[u] = cart[u]
      BY <2>2, <2>4 DEF TypeInv, TransactionTypeOK
    <3>3. pc'[r] \notin AfterReadCart
      BY <2>0 DEF AfterReadCart
    <3> QED
      BY <1>0, <2>0, <3>1, <3>2, <3>3 DEF CartSpent
  <2> QED
    BY <2>3, <2>4
<1>2. ASSUME NEW r \in Requests, CommitCancel(r) PROVE CartSpent(u)'
  <2>1. /\ pc'[r] = "done" /\ pc'[r] \notin AfterReadCart
        /\ \A q \in Requests \ {r} : pc'[q] = pc[q] /\ job'[q] = job[q]
    <3>1. RequestStep(r)
      BY <1>2 DEF RequestStep, CancelStep
    <3> QED
      BY <1>2, <3>1, CancelFrame, RequestFrame DEF AfterReadCart, OthersUntouched
  <2>2. cart' = cart
    BY <1>2 DEF CommitCancel
  <2>3. OrdersOf(u)' = OrdersOf(u)
    BY <1>2, CancelFrame, OwnersKept DEF OrderKept
  <2> QED
    BY <1>0, <2>1, <2>2, <2>3 DEF CartSpent
<1>3. ASSUME NEW r \in Requests, RequestStep(r),
             UNCHANGED <<stock, price, sales, cart, cartPromo, code, orders, redeemed, book, supply>>
      PROVE  CartSpent(u)'
  <2>1. OrdersOf(u)' = OrdersOf(u)
    BY <1>3, OwnersKept DEF OrderKept
  <2>2. \A q \in Requests \ {r} : pc'[q] = pc[q] /\ job'[q] = job[q]
    BY <1>3, RequestFrame DEF OthersUntouched
  <2>3. OrdersOf(u) # {} /\ pc'[r] \in AfterReadCart => job'[r].user # u
    BY <1>0, <1>3, PastTheCart DEF CartSpent
  <2> QED
    BY <1>0, <1>3, <2>1, <2>2, <2>3 DEF CartSpent
<1>4. CASE CustomerWrites \/ AdminWrites
  BY <1>0, <1>4, WriteFrame, CartFrame, OwnersKept DEF CartSpent
<1>5. CASE UNCHANGED vars
  <2>1. OrdersOf(u)' = OrdersOf(u)
    BY <1>5, OwnersKept DEF vars, OrderKept
  <2> QED
    BY <1>0, <1>5, <2>1 DEF vars, CartSpent
<1> QED
  BY <1>1, <1>2, <1>3, <1>4, <1>5, RequestFrame DEF Next, RequestStep

\* A second submit of the checkout form - a double click, a retry after a lost
\* answer - orders nothing more unless the cart was filled again.
THEOREM OneOrderPerCart == Spec => []SubmitTwiceOrderOnce
<1>1. Init => PlacedOnce /\ CartsSpent
  BY DEF Init, PlacedOnce, CartsSpent, CartSpent, OrdersOf, Placed
<1>2. CartsSpent => SubmitTwiceOrderOnce
  <2> SUFFICES ASSUME CartsSpent, CartInputs = {}, NEW u \in Users
               PROVE  Cardinality(OrdersOf(u)) <= 1
    BY DEF SubmitTwiceOrderOnce
  <2>1. \A o, p \in OrdersOf(u) : o = p
    BY DEF CartsSpent, CartSpent
  <2>2. CASE OrdersOf(u) = {}
    BY <2>2, FS_EmptySet
  <2>3. ASSUME NEW o \in OrdersOf(u) PROVE Cardinality(OrdersOf(u)) <= 1
    <3>1. OrdersOf(u) = {o}
      BY <2>1
    <3> QED
      BY <3>1, FS_Singleton
  <2> QED
    BY <2>2, <2>3
<1> QED
  BY <1>1, <1>2, PlacedOnceStep, CartsStep, Locking, PTL DEF Spec

-----------------------------------------------------------------------------
(* Checkout implements AtomicShop: a transaction's COMMIT is the atomic     *)
(* step, every other statement of it changes nothing the shop promises.     *)

\* A checkout past its cart has something to order.
LinesRead == \A r \in Requests : pc[r] \in AfterReadCart => lines[r] # NoLines

\* Every step keeps it: an empty cart is refused, and the lines stay as read.
LEMMA LinesReadStep == TypeInv /\ LinesRead /\ [Next]_vars => LinesRead'
<1> SUFFICES ASSUME TypeInv, LinesRead, [Next]_vars,
                    NEW q \in Requests, pc'[q] \in AfterReadCart
             PROVE  lines'[q] # NoLines
  BY DEF LinesRead
<1>1. ASSUME NEW r \in Requests, RequestStep(r), q # r PROVE lines'[q] # NoLines
  BY <1>1, RequestFrame DEF OthersUntouched, LinesRead
<1>2. ASSUME RequestStep(q) PROVE lines'[q] # NoLines
  <2>1. \/ ReadCart(q) /\ ~Refuse(q)
        \/ LockLine(q) \/ (CheckLines(q) /\ ~Refuse(q))
        \/ ReadPromo(q) \/ LockPromo(q) \/ LockProduct(q)
        \/ PriceOrder(q) /\ ~Refuse(q)
    BY <1>2, Labels DEF AfterReadCart, Ended
  <2>2. CASE ReadCart(q) /\ ~Refuse(q)
    <3>1. lines' = [lines EXCEPT ![q] = cart[job[q].user]] /\ cart[job[q].user] # NoLines
      BY <2>2 DEF ReadCart
    <3> QED
      BY <3>1 DEF TypeInv, TransactionTypeOK
  <2>3. CASE \/ LockLine(q) \/ (CheckLines(q) /\ ~Refuse(q))
             \/ ReadPromo(q) \/ LockPromo(q) \/ LockProduct(q)
             \/ PriceOrder(q) /\ ~Refuse(q)
    <3>1. lines' = lines /\ pc[q] \in AfterReadCart
      BY <2>3
      DEF LockLine, CheckLines, ReadPromo, LockPromo, PriceOrder, LockProduct, AfterReadCart
    <3> QED
      BY <3>1 DEF LinesRead
  <2> QED
    BY <2>1, <2>2, <2>3
<1>3. CASE CustomerWrites \/ AdminWrites
  BY <1>3, WriteFrame DEF LinesRead
<1>4. CASE UNCHANGED vars
  BY <1>4 DEF vars, LinesRead
<1> QED
  BY <1>1, <1>2, <1>3, <1>4 DEF Next, RequestStep

\* The atomic shop counts a product's jars as the checkout does.
LEMMA AtomicJars == \A l, p : Atomic!JarsOf(l, p) = SumOver(l, VariantsOf(p))
BY DEF Atomic!JarsOf, VariantsOf, SumOver, Atomic!SumOver, MapThenSumSet, Atomic!MapThenSumSet,
       MapThenFoldSet, Atomic!MapThenFoldSet

\* The checkout that commits places its order as the atomic shop would.
LEMMA PlacesAtomically ==
  ASSUME TypeInv, StockCovers, FirstIsFirst, PlacedOnce, LinesRead,
         NEW r \in Requests, Places(r)
  PROVE  Atomic!Place(r, orders'[r])
<1> DEFINE x == orders'[r]
           u == job[r].user
<1>0. /\ pc[r] = "lock_products" /\ pc[r] \in AfterReadCart /\ pc[r] \in AfterCheckLines
      /\ orders[r] = None /\ x = PlacedOrder(r) /\ x # None
  <2>1. pc[r] = "lock_products" /\ x = PlacedOrder(r) /\ PlacedOrder(r) \in Order
    BY PlacesFrame, PlacesSets
  <2> QED
    BY <2>1, PlacesFrame, NoneIsNoOrder DEF PlacedOnce, AfterReadCart, AfterCheckLines
<1>1. /\ x.user = u /\ x.lines = lines[r] /\ x.promo = quote[r].promo
      /\ x.first = quote[r].first /\ x.status = "pending" /\ x.payment = "unpaid"
  BY <1>0 DEF PlacedOrder
<1>2. /\ orders' = [orders EXCEPT ![r] = PlacedOrder(r)]
      /\ redeemed' = (redeemed \cup
           {[code |-> c, user |-> u, order |-> r] : c \in {quote[r].promo} \ {None}})
      /\ stock' = [v \in Variants |-> stock[v] - lines[r][v]]
      /\ cart' = [cart EXCEPT ![u] = NoLines]
      /\ cartPromo' = [cartPromo EXCEPT ![u] = None]
  BY DEF Places, CommitOrder
<1>3. sales' = [p \in Products |-> sales[p] + Atomic!JarsOf(x.lines, p)]
  BY <1>1, SalesCounted, AtomicJars
<1>4. x.lines # Atomic!Empty /\ Atomic!Empty = NoLines
  BY <1>0, <1>1 DEF LinesRead, Atomic!Empty, NoLines
<1>5. \A v \in Variants : x.lines[v] <= stock[v]
  BY <1>0, <1>1 DEF StockCovers
<1>6. x.promo # None => ~Atomic!Spent(x.promo, x.user)
  BY <1>1 DEF Places, RedemptionConflict, Used, Atomic!Spent
<1>7. x.first => Atomic!Standing(x.user) = {}
  <2>1. quote[r].first => Standing(u) = {}
    BY <1>0 DEF FirstIsFirst
  <2>2. \A o : o \in Atomic!Standing(u) <=> o \in Standing(u)
    BY StandingOrders DEF Atomic!Standing
  <2> QED
    BY <1>1, <2>1, <2>2
<1>8. Atomic!MayPlace(x)
  BY <1>1, <1>4, <1>5, <1>6, <1>7 DEF Atomic!MayPlace
<1> HIDE DEF x, u
<1> QED
  BY <1>0, <1>1, <1>2, <1>3, <1>4, <1>8 DEF Atomic!Place, x

\* The cancellation that commits cancels as the atomic shop would.
LEMMA CancelsAtomically ==
  ASSUME TypeInv, CancelStaysAllowed, RestockIsTheOrder, NEW r \in Requests, CommitCancel(r)
  PROVE  Atomic!Cancel(job[r].order)
<1> DEFINE o == job[r].order
<1>1. pc[r] = "lock_restock" /\ orders[o] # None
  BY CancelFrame
<1>2. orders[o].status \in {"pending", "confirmed"}
  BY <1>1 DEF CancelStaysAllowed, MayCancel, OrderTransitions, CustomerMayCancel
<1>3. stock' = [v \in Variants |-> stock[v] + orders[o].lines[v]]
  BY <1>1 DEF CommitCancel, RestockIsTheOrder
<1>4. /\ orders' = [orders EXCEPT ![o].status = "cancelled"]
      /\ redeemed' = {x \in redeemed : x.order # o}
      /\ UNCHANGED <<sales, cart, cartPromo>>
  BY DEF CommitCancel
<1> QED
  BY <1>1, <1>2, <1>3, <1>4 DEF Atomic!Cancel

\* The admin's two clicks on an order are the atomic shop's.
LEMMA ClicksAtomically ==
  ASSUME NEW o \in Requests, NEW to
  PROVE  /\ UpdateOrderStatus(o, to) /\ to \in Statuses =>
              Atomic!Move(o, to) /\ to \in {"confirmed", "shipped", "delivered"}
         /\ UpdateOrderPaymentStatus(o, to) => Atomic!Pay(o, to) /\ to \in {"paid", "refunded"}
<1>1. ASSUME UpdateOrderStatus(o, to), to \in Statuses
      PROVE  Atomic!Move(o, to) /\ to \in {"confirmed", "shipped", "delivered"}
  <2>1. /\ orders[o] # None /\ to \in {"confirmed", "shipped", "delivered"}
        /\ <<orders[o].status, to>> \in Atomic!Moves
    BY <1>1 DEF UpdateOrderStatus, Placed, OrderTransitions, Atomic!Moves
  <2> QED
    BY <1>1, <2>1 DEF UpdateOrderStatus, SettlesOnDelivery, Atomic!Move
<1>2. ASSUME UpdateOrderPaymentStatus(o, to)
      PROVE  Atomic!Pay(o, to) /\ to \in {"paid", "refunded"}
  BY <1>2 DEF UpdateOrderPaymentStatus, Placed, PaymentTransitions, Atomic!Pay
<1> QED
  BY <1>1, <1>2

\* A cart write is the atomic shop's change of one line, or of the code.
LEMMA CartAtomically ==
  ASSUME TypeInv, CustomerWrites
  PROVE  Atomic!AtomicNext
<1>1. ASSUME NEW x \in CartInputs, SetCartItem(x[1], x[2], x[3]) \/ DeleteCartItem(x[1], x[2])
      PROVE  Atomic!AtomicNext
  <2>1. x[1] \in Users /\ x[2] \in Variants /\ x[3] \in Nat
    BY CartInputsType, MaxLineType
  <2>2. PICK n \in Nat :
          /\ cart' = [cart EXCEPT ![x[1]][x[2]] = n]
          /\ UNCHANGED <<stock, sales, cartPromo, orders, redeemed>>
    BY <1>1, <2>1 DEF SetCartItem, DeleteCartItem
  <2>3. cart'[x[1]][x[2]] = n
    BY <2>1, <2>2 DEF TypeInv, TransactionTypeOK, Lines
  <2>4. Atomic!SetLine(x[1], x[2], cart'[x[1]][x[2]]) /\ cart'[x[1]][x[2]] \in Nat
    BY <2>2, <2>3 DEF Atomic!SetLine
  <2> QED
    BY <2>1, <2>4 DEF Atomic!AtomicNext
<1>2. ASSUME NEW x \in PromoInputs, ApplyPromo(x[1], x[2]) \/ ClearPromo(x[1])
      PROVE  Atomic!AtomicNext
  <2>1. x[1] \in Users /\ x[2] \in Codes
    BY PromoInputsType
  <2>2. PICK c \in Codes \cup {None} : Atomic!SetCode(x[1], c)
    BY <1>2, <2>1 DEF ApplyPromo, ClearPromo, Atomic!SetCode
  <2> QED
    BY <2>1, <2>2 DEF Atomic!AtomicNext
<1> QED
  BY <1>1, <1>2 DEF CustomerWrites

\* An admin's write is the atomic shop's count of a shelf, or a click on an order.
LEMMA AdminAtomically ==
  ASSUME TypeInv, AdminWrites
  PROVE  Atomic!AtomicNext \/ UNCHANGED Atomic!atomicVars
<1>1. ASSUME NEW x \in VariantInputs, UpdateVariant(x[1], x[2], x[3]) PROVE Atomic!AtomicNext
  <2>1. x[1] \in Variants /\ x[2] \in Nat
    BY VariantInputsType
  <2>2. /\ stock' = [stock EXCEPT ![x[1]] = x[2]]
        /\ UNCHANGED <<sales, cart, cartPromo, orders, redeemed>>
    BY <1>1 DEF UpdateVariant
  <2>3. stock'[x[1]] = x[2]
    BY <2>1, <2>2 DEF TypeInv, TransactionTypeOK
  <2>4. Atomic!Count(x[1], stock'[x[1]]) /\ stock'[x[1]] \in Nat
    BY <2>1, <2>2, <2>3 DEF Atomic!Count
  <2> QED
    BY <2>1, <2>4 DEF Atomic!AtomicNext
<1>2. CASE (\E x \in CodeInputs : UpdatePromo(x[1], x[2])) \/ (\E c \in Codes : Expire(c))
  BY <1>2 DEF UpdatePromo, Expire, Atomic!atomicVars
<1>3. ASSUME NEW o \in Requests, NEW to,
             (UpdateOrderStatus(o, to) /\ to \in Statuses) \/ UpdateOrderPaymentStatus(o, to)
      PROVE  Atomic!AtomicNext
  BY <1>3, ClicksAtomically DEF Atomic!AtomicNext
<1> QED
  BY <1>1, <1>2, <1>3 DEF AdminWrites

\* Every step of the detailed shop is a step of the atomic one, or changes nothing there.
LEMMA AtomicStep ==
  ASSUME TypeInv, StockCovers, FirstIsFirst, PlacedOnce, LinesRead, CancelStaysAllowed,
         RestockIsTheOrder, [Next]_vars
  PROVE  [Atomic!AtomicNext]_(Atomic!atomicVars)
<1>1. ASSUME NEW r \in Requests, RequestStep(r) PROVE [Atomic!AtomicNext]_(Atomic!atomicVars)
  <2>1. CASE Places(r)
    BY <2>1, PlacesAtomically DEF Atomic!AtomicNext
  <2>2. CASE CommitCancel(r)
    <3>1. job[r].order \in Requests
      BY <2>2, CancelFrame
    <3> QED
      BY <2>2, <3>1, CancelsAtomically DEF Atomic!AtomicNext
  <2>3. CASE UNCHANGED <<stock, price, sales, cart, cartPromo, code, orders, redeemed, book, supply>>
    BY <2>3 DEF Atomic!atomicVars
  <2> QED
    BY <1>1, <2>1, <2>2, <2>3, RequestFrame
<1>2. CASE CustomerWrites
  BY <1>2, CartAtomically
<1>3. CASE AdminWrites
  BY <1>3, AdminAtomically
<1>4. CASE UNCHANGED vars
  BY <1>4 DEF vars, Atomic!atomicVars
<1> QED
  BY <1>1, <1>2, <1>3, <1>4 DEF Next, RequestStep

\* However the statements of concurrent requests interleave, what they commit is
\* what a shop that does everything in one step could have done.
THEOREM Atomicity == Spec => BehavesAtomically
<1>1. Init => Atomic!AtomicInit /\ PlacedOnce /\ LinesRead /\ RestockIsTheOrder /\ FirstIsFirst
  BY InitStockType
  DEF Init, Atomic!AtomicInit, PlacedOnce, LinesRead, RestockIsTheOrder, FirstIsFirst, AfterReadCart
<1>2. NeverOversold => StockCovers
  BY DEF NeverOversold
<1>3. TypeInv /\ StockCovers /\ FirstIsFirst /\ PlacedOnce /\ LinesRead /\ CancelStaysAllowed
        /\ RestockIsTheOrder /\ [Next]_vars => [Atomic!AtomicNext]_(Atomic!atomicVars)
  BY AtomicStep
<1> QED
  BY <1>1, <1>2, <1>3, FirstStep, PlacedOnceStep, LinesReadStep, RestockStep, NothingOversold,
     NoCancelOvertaken, Locking, PTL
  DEF Spec, BehavesAtomically, Atomic!AtomicSpec
=============================================================================
