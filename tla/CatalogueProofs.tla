-------------------------- MODULE CatalogueProofs --------------------------
(***************************************************************************)
(* The catalogue's pages and the figures of the cart, for every set of     *)
(* requests, every amount, and baskets and codes of any size.              *)
(*                                                                         *)
(* Pricing: roundings are bounded by what they round, which gives the      *)
(* CHECKs of the orders table, the chilled box, the free-shipping bar, and *)
(* that more goods never cost less.                                        *)
(*                                                                         *)
(* Views: what a cache key holds is what its language and currency give,   *)
(* unless an answer crossed a switch.  Counts: what is settled is the      *)
(* answer to the query string, and a count clicked is the total of the     *)
(* query its click makes, until another filter is changed.                 *)
(*                                                                         *)
(* Office: every arrow of the order desks leads on, so a button that was   *)
(* offered can be refused only to a row that has moved past what the list  *)
(* showed.                                                                 *)
(*                                                                         *)
(* Gallery: uploads count under the product row; a hero, a deleted photo   *)
(* and a photo being numbered are rows somebody holds; ids are given once. *)
(***************************************************************************)
EXTENDS MCCatalogue, Sequences, FiniteSetTheorems, TLAPS

\* pct% of a natural number is one, and is at most the number up to 100%.
LEMMA PercentBounds ==
  ASSUME NEW s \in Nat, NEW pct \in 0..100
  PROVE  PercentOf(s, pct) \in 0..s
<1> DEFINE x == s * pct
<1>1. x \in Nat /\ x <= 100 * s
  OBVIOUS
<1>2. PercentOf(s, pct) = (x + 50) \div 100
  BY DEF PercentOf
<1> HIDE DEF x
<1>3. (x + 50) \div 100 \in 0..s
  BY <1>1
<1> QED
  BY <1>2, <1>3

\* The tax carved out of an amount is part of it.
LEMMA TaxBounds ==
  ASSUME NEW s \in Nat
  PROVE  ContainedVAT(s) \in 0..s
BY DEF ContainedVAT, VATPercent

\* The two discounts together never exceed the goods.
LEMMA DiscountsFit ==
  ASSUME NEW in \in Input
  PROVE  /\ MemberDiscount(in) \in 0..in.subtotal
         /\ Granted(in) \in Nat
         /\ PromoDiscount(in) \in 0..(in.subtotal - MemberDiscount(in))
<1>1. in.subtotal \in Nat
  BY DEF Input
<1>2. MemberDiscount(in) \in 0..in.subtotal
  <2>1. PercentOf(in.subtotal, MemberDiscountPercent) \in 0..in.subtotal
    BY <1>1, PercentBounds, 8 \in 0..100 DEF MemberDiscountPercent
  <2> QED
    BY <1>1, <2>1 DEF MemberDiscount
<1>3. Granted(in) \in Nat
  <2>1. CASE ~Applies(in)
    BY <2>1 DEF Granted
  <2>2. CASE Applies(in)
    <3>1. in.promo \in Promo /\ in.market \in Markets
      BY <2>2 DEF Applies, Input
    <3>2. CASE in.promo.kind = "percent"
      <4>1. in.promo.percent \in 0..100
        BY <3>1 DEF Promo
      <4>2. Granted(in) = PercentOf(in.subtotal, in.promo.percent)
        BY <2>2, <3>2 DEF Granted
      <4>3. PercentOf(in.subtotal, in.promo.percent) \in 0..in.subtotal
        BY <1>1, <4>1, PercentBounds
      <4> QED
        BY <1>1, <4>2, <4>3
    <3>3. CASE in.promo.kind = "fixed"
      <4>1. in.promo.amount[in.market] # None
        BY <2>2, <3>3 DEF Applies, IssueOf, Issue
      <4>2. in.promo.amount[in.market] \in Nat
        BY <3>1, <4>1 DEF Promo, Amount
      <4> QED
        BY <2>2, <3>3, <4>2 DEF Granted
    <3> QED
      BY <2>2, <3>2, <3>3 DEF Granted
  <2> QED
    BY <2>1, <2>2
<1>4. PromoDiscount(in) \in 0..(in.subtotal - MemberDiscount(in))
  BY <1>1, <1>2, <1>3 DEF PromoDiscount
<1> QED
  BY <1>2, <1>3, <1>4

\* Delivery costs at least the chilled box and at most the box and the base.
LEMMA ShippingBounds ==
  ASSUME NEW in \in Input
  PROVE  /\ Shipping(in) \in Nat
         /\ in.cold => Shipping(in) >= Rates[in.market].surcharge
<1>1. Rates[in.market].base \in Nat /\ Rates[in.market].surcharge \in Nat
  BY RatesType DEF Input, Rate
<1> QED
  BY <1>1 DEF Shipping, BaseOf

\* Every figure the calculator returns is one the orders table takes.
LEMMA FiguresAccepted ==
  ASSUME NEW in \in Input
  PROVE  Accepted(Price(in))
<1> DEFINE m == MemberDiscount(in)
           p == PromoDiscount(in)
           sh == Shipping(in)
           t == ContainedVAT(in.subtotal - (m + p))
<1>1. in.subtotal \in Nat /\ m \in Nat /\ p \in Nat /\ m + p <= in.subtotal
  BY DiscountsFit DEF Input
<1>2. sh \in Nat
  BY ShippingBounds
<1>3. t \in 0..(in.subtotal - (m + p))
  BY <1>1, TaxBounds
<1>4. /\ Price(in).subtotal = in.subtotal /\ Price(in).shipping = sh
      /\ Price(in).member = m /\ Price(in).promo = p /\ Price(in).discount = m + p
      /\ Price(in).tax = t /\ Price(in).total = in.subtotal + sh - (m + p)
  BY DEF Price
<1> HIDE DEF m, p, sh, t
<1> QED
  BY <1>1, <1>2, <1>3, <1>4 DEF Accepted

\* What a preview reads is an input of the calculator.
LEMMA QuotedInputs ==
  ASSUME PricingTypeOK, NEW m \in Quoted
  PROVE  InputIn(m) \in Input
BY DEF PricingTypeOK, Quoted, InputIn, Input, Basket, Amount

\* Every edit of the cart, the code, the orders and the clock keeps the types,
\* and the code a form replaces stays one the form could save.
LEMMA StepTypes == PricingTypeOK /\ [Next]_vars => PricingTypeOK'
<1> SUFFICES ASSUME PricingTypeOK, [Next]_vars PROVE PricingTypeOK'
  OBVIOUS
<1>1. ASSUME NEW b \in Baskets, EditCart(b) PROVE PricingTypeOK'
  BY <1>1, BasketsType DEF EditCart, PricingTypeOK
<1>2. ASSUME NEW p \in Codes, NEW m \in Markets, ApplyPromo(p, m) PROVE PricingTypeOK'
  BY <1>2, CodesType DEF ApplyPromo, PricingTypeOK
<1>3. CASE RemovePromo
  BY <1>3 DEF RemovePromo, PricingTypeOK
<1>4. ASSUME NEW p \in Codes, UpdatePromo(p) PROVE PricingTypeOK'
  <2>1. code \in Promo /\ p \in Promo /\ ValidPromo(p)
    BY <1>4, CodesType DEF UpdatePromo, PricingTypeOK
  <2>2. PICK n \in Nat, b \in BOOLEAN : code' = [[p EXCEPT !.count = n] EXCEPT !.used = b]
    BY <1>4, <2>1 DEF UpdatePromo, Promo
  <2>3. code' \in Promo /\ ValidPromo(code')
    BY <2>1, <2>2 DEF Promo, ValidPromo
  <2> QED
    BY <1>4, <2>3 DEF UpdatePromo, PricingTypeOK
<1>5. ASSUME NEW n \in 0..MaxUses, Redemptions(n) PROVE PricingTypeOK'
  <2>1. code \in Promo /\ ValidPromo(code) /\ code' = [code EXCEPT !.count = n] /\ n \in Nat
    BY <1>5, BoundsType DEF Redemptions, PricingTypeOK
  <2>2. code' \in Promo /\ ValidPromo(code')
    BY <2>1 DEF Promo, ValidPromo
  <2> QED
    BY <1>5, <2>2 DEF Redemptions, PricingTypeOK
<1>6. ASSUME NEW n \in 0..MaxOrders, Orders(n) PROVE PricingTypeOK'
  BY <1>6, BoundsType DEF Orders, PricingTypeOK
<1>7. CASE Tick
  BY <1>7 DEF Tick, PricingTypeOK
<1>8. CASE UNCHANGED vars
  BY <1>8 DEF vars, PricingTypeOK
<1> QED
  BY <1>1, <1>2, <1>3, <1>4, <1>5, <1>6, <1>7, <1>8 DEF Next

\* The carried code is always one the admin's form could have saved.
THEOREM PricingTypes == Spec => []PricingTypeOK
<1>1. Init => PricingTypeOK
  BY BasketsType DEF Init, PricingTypeOK
<1> QED
  BY <1>1, StepTypes, PTL DEF Spec

\* The CHECKs of the orders table never refuse what the calculator computed.
THEOREM NoCheckFires == Spec => []DatabaseAccepts
<1>1. PricingTypeOK => DatabaseAccepts
  BY QuotedInputs, FiguresAccepted DEF DatabaseAccepts
<1> QED
  BY <1>1, PricingTypes, PTL

\* No threshold, first delivery or code makes the chilled box free.
THEOREM ChilledBoxNeverWaived == Spec => []ChilledBoxIsPaid
<1>1. PricingTypeOK => ChilledBoxIsPaid
  <2> SUFFICES ASSUME PricingTypeOK, NEW m \in Quoted, basket.cold
               PROVE  Price(InputIn(m)).total >= Rates[m].surcharge
    BY DEF ChilledBoxIsPaid
  <2> DEFINE in == InputIn(m)
  <2>1. in \in Input /\ in.cold /\ in.market = m
    BY QuotedInputs DEF InputIn
  <2> HIDE DEF in
  <2>2. Rates[m].surcharge \in Nat
    BY <2>1, RatesType DEF Input, Rate
  <2>3. Shipping(in) \in Nat /\ Shipping(in) >= Rates[m].surcharge
    BY <2>1, ShippingBounds
  <2>4. in.subtotal \in Nat /\ MemberDiscount(in) + PromoDiscount(in) \in 0..in.subtotal
    BY <2>1, DiscountsFit DEF Input
  <2>5. Price(in).total = in.subtotal + Shipping(in) - (MemberDiscount(in) + PromoDiscount(in))
    BY DEF Price
  <2> QED
    BY <2>2, <2>3, <2>4, <2>5 DEF in
<1> QED
  BY <1>1, PricingTypes, PTL

\* "$8 away from free shipping" is true: that much more, or more than that, leaves
\* only the chilled box to pay for.
THEOREM BarTellsTheTruth == Spec => []BarIsEnough
<1>1. PricingTypeOK => BarIsEnough
  <2> SUFFICES ASSUME PricingTypeOK, NEW m \in Quoted, Remaining(InputIn(m)) # None,
                      NEW more \in Remaining(InputIn(m))..Remaining(InputIn(m)) + 2
               PROVE  Shipping([InputIn(m) EXCEPT !.subtotal = @ + more])
                        = (IF basket.cold THEN Rates[m].surcharge ELSE 0)
    BY DEF BarIsEnough
  <2> DEFINE in == InputIn(m)
             more_in == [in EXCEPT !.subtotal = @ + more]
             rate == Rates[m]
  <2>1. in \in Input /\ in.market = m /\ in.cold = basket.cold /\ in.subtotal \in Nat
    BY QuotedInputs DEF InputIn, Input
  <2>2. /\ rate.freeOver # None /\ rate.freeOver > in.subtotal
        /\ Remaining(in) = rate.freeOver - in.subtotal
    BY <2>1 DEF Remaining
  <2>3. rate.freeOver \in Nat /\ rate.surcharge \in Nat
    BY <2>1, <2>2, RatesType DEF Rate, Input
  <2>4. more \in Nat /\ in.subtotal + more >= rate.freeOver
    <3>1. rate.freeOver - in.subtotal \in Nat
      BY <2>1, <2>2, <2>3
    <3>2. more \in (rate.freeOver - in.subtotal)..(rate.freeOver - in.subtotal + 2)
      BY <2>2
    <3> HIDE DEF in, rate
    <3> QED
      BY <2>1, <2>3, <3>1, <3>2
  <2>5. /\ more_in.market = m /\ more_in.cold = basket.cold
        /\ more_in.subtotal = in.subtotal + more
    BY <2>1 DEF Input
  <2> HIDE DEF in, more_in
  <2>6. BaseOf(more_in) = 0
    BY <2>2, <2>4, <2>5 DEF BaseOf, BaseWaived
  <2>7. Shipping(more_in) = IF basket.cold THEN rate.surcharge ELSE 0
    BY <2>3, <2>5, <2>6 DEF Shipping
  <2> QED
    BY <2>7 DEF more_in, in
<1> QED
  BY <1>1, PricingTypes, PTL

-----------------------------------------------------------------------------
(* More goods, a bill no smaller.                                          *)

\* Rounding to the nearest unit is within half a unit of the exact share.
LEMMA PercentRounds ==
  ASSUME NEW s \in Nat, NEW pct \in 0..100
  PROVE  \E rest \in 0..99 : 100 * PercentOf(s, pct) = s * pct + 50 - rest
<1> DEFINE x == s * pct + 50
<1>1. x \in Nat
  OBVIOUS
<1>2. PercentOf(s, pct) = x \div 100
  BY DEF PercentOf
<1> HIDE DEF x
<1>3. x - 100 * (x \div 100) \in 0..99 /\ x \div 100 \in Nat
  BY <1>1
<1>4. 100 * (x \div 100) = x - (x - 100 * (x \div 100))
  BY <1>1, <1>3
<1> QED
  BY <1>2, <1>3, <1>4 DEF x

\* A percentage of a natural number is one.
LEMMA PercentIsNat ==
  ASSUME NEW s \in Nat, NEW pct \in 0..100
  PROVE  PercentOf(s, pct) \in Nat
<1>1. PercentOf(s, pct) \in 0..s
  BY PercentBounds
<1>2. \A x \in 0..s : x \in Nat
  OBVIOUS
<1> QED
  BY <1>1, <1>2

\* 0% of anything is nothing.
LEMMA NoPercent == \A s \in Nat : PercentOf(s, 0) = 0
BY DEF PercentOf

\* What is left of s after two percentages and an amount.
Left(s, a, q, amount) == s - PercentOf(s, a) - (PercentOf(s, q) + amount)

\* With more goods no less is left but for one unit, unless nothing was left.
LEMMA LeftGrows ==
  ASSUME NEW s \in Nat, NEW t \in Nat, s <= t, NEW a \in 0..100, NEW q \in 0..100,
         NEW amount \in Nat, Left(s, a, q, amount) > 0
  PROVE  Left(t, a, q, amount) >= Left(s, a, q, amount) - 1
<1>1. /\ PercentOf(s, a) \in Nat /\ PercentOf(s, q) \in Nat
      /\ PercentOf(t, a) \in Nat /\ PercentOf(t, q) \in Nat
  BY PercentIsNat
<1>2. PICK pa \in Nat, pq \in Nat, na \in Nat, nq \in Nat :
        pa = PercentOf(s, a) /\ pq = PercentOf(s, q) /\ na = PercentOf(t, a) /\ nq = PercentOf(t, q)
  BY <1>1
<1>3. PICK ra \in 0..99 : 100 * pa = s * a + 50 - ra
  <2>1. \E rest \in 0..99 : 100 * PercentOf(s, a) = s * a + 50 - rest
    BY PercentRounds
  <2> QED BY <1>2, <2>1, Zenon
<1>4. PICK rq \in 0..99 : 100 * pq = s * q + 50 - rq
  <2>1. \E rest \in 0..99 : 100 * PercentOf(s, q) = s * q + 50 - rest
    BY PercentRounds
  <2> QED BY <1>2, <2>1, Zenon
<1>5. PICK ta \in 0..99 : 100 * na = t * a + 50 - ta
  <2>1. \E rest \in 0..99 : 100 * PercentOf(t, a) = t * a + 50 - rest
    BY PercentRounds
  <2> QED BY <1>2, <2>1, Zenon
<1>6. PICK tq \in 0..99 : 100 * nq = t * q + 50 - tq
  <2>1. \E rest \in 0..99 : 100 * PercentOf(t, q) = t * q + 50 - rest
    BY PercentRounds
  <2> QED BY <1>2, <2>1, Zenon
<1>7. /\ Left(s, a, q, amount) = s - pa - (pq + amount)
      /\ Left(t, a, q, amount) = t - na - (nq + amount)
  BY <1>2 DEF Left
<1>8. s - pa - pq > 0
  BY <1>7
<1>9. t - na - nq >= s - pa - pq - 1
  <2>1. /\ 100 * (s - pa - pq) = s * (100 - a - q) - 100 + ra + rq
        /\ 100 * (t - na - nq) = t * (100 - a - q) - 100 + ta + tq
    <3>1. PICK sa \in Int, sq \in Int : sa = s * a /\ sq = s * q /\ s * (100 - a - q) = 100 * s - sa - sq
      OBVIOUS
    <3>2. PICK ua \in Int, uq \in Int : ua = t * a /\ uq = t * q /\ t * (100 - a - q) = 100 * t - ua - uq
      OBVIOUS
    <3>3. /\ 100 * pa = sa + 50 - ra /\ 100 * pq = sq + 50 - rq
          /\ 100 * na = ua + 50 - ta /\ 100 * nq = uq + 50 - tq
      BY <1>3, <1>4, <1>5, <1>6, <3>1, <3>2
    <3> QED BY <3>1, <3>2, <3>3
  <2>2. PICK k \in Int, ks \in Int, kt \in Int : k = 100 - a - q /\ ks = s * k /\ kt = t * k
    OBVIOUS
  <2>3. (k >= 0 => ks <= kt) /\ (k < 0 => ks <= 0)
    <3>1. \A m \in Int, d \in Nat : m >= 0 => d * m >= 0
      OBVIOUS
    <3>2. \A m \in Int : m < 0 => s * m <= 0
      OBVIOUS
    <3> DEFINE d == t - s
    <3>3. d \in Nat /\ d * k = kt - ks
      BY <2>2
    <3>4. k >= 0 => d * k >= 0
      <4> HIDE DEF d
      <4> QED BY <2>2, <3>1, <3>3
    <3>5. k < 0 => s * k <= 0
      BY <2>2, <3>2
    <3> QED
      <4>1. PICK dk \in Int : dk = d * k
        BY <2>2, <3>3
      <4> HIDE DEF d
      <4> QED BY <2>2, <3>3, <3>4, <3>5, <4>1
  <2>4. /\ 100 * (s - pa - pq) = ks - 100 + ra + rq
        /\ 100 * (t - na - nq) = kt - 100 + ta + tq
    BY <2>1, <2>2
  <2>5. k >= 0
    BY <1>8, <2>3, <2>4
  <2> QED
    BY <2>3, <2>4, <2>5
<1> QED
  BY <1>7, <1>9

\* What a code grants two baskets it judges alike: one percentage, or one amount.
LEMMA GrantedAlike ==
  ASSUME NEW in \in Input, NEW on \in Input, on.promo = in.promo, on.market = in.market,
         IssueOf(on) = IssueOf(in)
  PROVE  \E q \in 0..100, amount \in Nat :
           /\ Granted(in) = PercentOf(in.subtotal, q) + amount
           /\ Granted(on) = PercentOf(on.subtotal, q) + amount
<1>1. \A s \in Nat, q \in 0..100 : PercentOf(s, q) \in Nat
  BY PercentIsNat
<1>2. in.subtotal \in Nat /\ on.subtotal \in Nat /\ Applies(on) = Applies(in)
  BY DEF Input, Applies
<1>3. CASE Applies(in) /\ in.promo.kind = "percent"
  <2>1. in.promo.percent \in 0..100
    BY <1>3 DEF Applies, Input, Promo
  <2>2. Granted(in) = PercentOf(in.subtotal, in.promo.percent) + 0
    BY <1>1, <1>2, <1>3, <2>1 DEF Granted
  <2>3. Granted(on) = PercentOf(on.subtotal, in.promo.percent) + 0
    BY <1>1, <1>2, <1>3, <2>1 DEF Granted
  <2> QED
    BY <2>1, <2>2, <2>3
<1>4. CASE ~(Applies(in) /\ in.promo.kind = "percent")
  <2>1. Granted(in) \in Nat /\ Granted(on) = Granted(in)
    BY <1>2, <1>4, DiscountsFit DEF Granted
  <2>2. PercentOf(in.subtotal, 0) = 0 /\ PercentOf(on.subtotal, 0) = 0 /\ 0 \in 0..100
    BY <1>2, NoPercent
  <2>3. /\ Granted(in) = PercentOf(in.subtotal, 0) + Granted(in)
        /\ Granted(on) = PercentOf(on.subtotal, 0) + Granted(in)
    BY <2>1, <2>2
  <2> QED
    BY <2>1, <2>2, <2>3
<1> QED
  BY <1>3, <1>4

\* The member's share of two baskets of one customer: one percentage.
MemberRate(in) == IF in.prior >= 1 THEN MemberDiscountPercent ELSE 0

\* The goods are billed at what the discounts leave of them.
LEMMA BillIsLeft ==
  ASSUME NEW in \in Input, NEW q \in 0..100, NEW amount \in Nat,
         Granted(in) = PercentOf(in.subtotal, q) + amount
  PROVE  GoodsBill(in) = IF Left(in.subtotal, MemberRate(in), q, amount) > 0
                         THEN Left(in.subtotal, MemberRate(in), q, amount) ELSE 0
<1>1. in.subtotal \in Nat
  BY DEF Input
<1>2. MemberDiscount(in) = PercentOf(in.subtotal, MemberRate(in))
  <2>1. PercentOf(in.subtotal, 0) = 0
    BY <1>1 DEF PercentOf
  <2> QED
    BY <2>1 DEF MemberDiscount, MemberRate
<1>3. MemberDiscount(in) \in Nat /\ Granted(in) \in Nat
  BY DiscountsFit
<1>4. Left(in.subtotal, MemberRate(in), q, amount) = in.subtotal - MemberDiscount(in) - Granted(in)
  BY <1>2 DEF Left
<1>5. GoodsBill(in) = in.subtotal - (MemberDiscount(in) + PromoDiscount(in))
  BY DEF GoodsBill, Price
<1> QED
  BY <1>1, <1>3, <1>4, <1>5 DEF PromoDiscount

\* Two baskets of one customer that the code judges alike: the fuller one costs no less,
\* but for the one minor unit of the two roundings.
LEMMA FullerCostsMore ==
  ASSUME NEW in \in Input, NEW on \in Input, on.promo = in.promo, on.market = in.market,
         on.prior = in.prior, IssueOf(on) = IssueOf(in), on.subtotal >= in.subtotal
  PROVE  GoodsBill(on) >= GoodsBill(in) - 1
<1>1. PICK q \in 0..100, amount \in Nat :
        /\ Granted(in) = PercentOf(in.subtotal, q) + amount
        /\ Granted(on) = PercentOf(on.subtotal, q) + amount
  BY GrantedAlike
<1> DEFINE a == MemberRate(in)
           less == Left(in.subtotal, a, q, amount)
           more == Left(on.subtotal, a, q, amount)
<1>2. a \in 0..100 /\ MemberRate(on) = a /\ in.subtotal \in Nat /\ on.subtotal \in Nat
  BY DEF MemberRate, MemberDiscountPercent, Input
<1>3. less \in Int /\ more \in Int
  <2>1. /\ PercentOf(in.subtotal, a) \in Nat /\ PercentOf(in.subtotal, q) \in Nat
        /\ PercentOf(on.subtotal, a) \in Nat /\ PercentOf(on.subtotal, q) \in Nat
    BY <1>2, PercentIsNat
  <2> HIDE DEF a
  <2> QED
    BY <1>2, <2>1 DEF Left
<1>4. /\ GoodsBill(in) = IF less > 0 THEN less ELSE 0
      /\ GoodsBill(on) = IF more > 0 THEN more ELSE 0
  <2>1. GoodsBill(in) = IF less > 0 THEN less ELSE 0
    BY <1>1, BillIsLeft
  <2>2. GoodsBill(on) = IF more > 0 THEN more ELSE 0
    BY <1>1, <1>2, BillIsLeft
  <2> QED
    BY <2>1, <2>2
<1>5. less > 0 => more >= less - 1
  BY <1>2, LeftGrows
<1> HIDE DEF less, more
<1> QED
  BY <1>3, <1>4, <1>5

\* While the verdict on the code stays the same, a cart with more goods in it never has a
\* smaller bill for them, but for one minor unit.
THEOREM MoreIsNotCheaper == Spec => MoreGoodsCostMore
<1> DEFINE Monotone ==
             \A m \in Quoted \cap Quoted' :
               LET before == InputIn(m)
                   after == InputIn(m)' IN
               /\ after.subtotal >= before.subtotal
               /\ after.promo = before.promo /\ after.prior = before.prior
               /\ IssueOf(after) = IssueOf(before)
               => GoodsBill(after) >= GoodsBill(before) - 1
<1>1. ASSUME PricingTypeOK, PricingTypeOK' PROVE Monotone
  <2>1. ASSUME NEW m \in Quoted, m \in Quoted'
        PROVE  /\ InputIn(m) \in Input /\ InputIn(m)' \in Input
               /\ InputIn(m).market = m /\ InputIn(m)'.market = m
    <3>1. InputIn(m) \in Input
      BY <1>1, QuotedInputs
    <3>2. InputIn(m)' \in Input
      BY <1>1, <2>1 DEF PricingTypeOK, Quoted, InputIn, Input, Basket, Amount
    <3> QED
      BY <3>1, <3>2 DEF InputIn
  <2> QED
    BY <2>1, FullerCostsMore
<1> QED
  BY <1>1, PricingTypes, PTL DEF MoreGoodsCostMore
-----------------------------------------------------------------------------
(* Language and market                                                     *)

\* What is under way for a key, or shown under it while no write crossed a switch, was asked
\* in a view of that key.
CellFits(q, k, straight) ==
  /\ DOMAIN q = {"data", "fetch"}
  /\ q.fetch # Idle => q.fetch \in Views!Views /\ Views!QueryKey(q.fetch) = k
  /\ straight /\ q.data # Nothing => q.data \in Views!Views /\ Views!QueryKey(q.data) = k

CacheFits(c, straight) ==
  DOMAIN c = Views!Views /\ \A k \in Views!Views : CellFits(c[k], k, straight)

ViewsInv ==
  at = "views" =>
    /\ family \in Views!Families /\ Views!View \in Views!Views /\ api = Views!View
    /\ CacheFits(cache, ~crossed)
    /\ put # Nothing =>
         /\ family = "priced"
         /\ DOMAIN put = {"asked", "under", "follows"} /\ put.under \in Views!Views
         /\ ~crossed => put.asked = Views!View /\ put.under = Views!View

\* The key of a view is a view in the same language, and the view itself for what has prices.
LEMMA KeysAreViews ==
  ASSUME NEW v \in Views!Views
  PROVE  /\ Views!QueryKey(v) \in Views!Views /\ Views!QueryKey(v).locale = v.locale
         /\ family \in Views!HavePrices => Views!QueryKey(v) = v
BY DEF Views!QueryKey, Views!Views, BothMarkets

\* The key of a view depends on what is observed only.
LEMMA KeysStay == ASSUME family' = family PROVE \A v : Views!QueryKey(v)' = Views!QueryKey(v)
BY DEF Views!QueryKey

\* A cache that fits goes on fitting after a step that keeps what is observed.
LEMMA FitsAgain ==
  ASSUME family' = family, CacheFits(cache', ~crossed')
  PROVE  CacheFits(cache, ~crossed)'
BY KeysStay DEF CacheFits, CellFits, Views!Views

\* A question put in a view of its key fits.
LEMMA AskedFits ==
  ASSUME NEW c, NEW straight \in BOOLEAN, CacheFits(c, straight), NEW v \in Views!Views
  PROVE  CacheFits(Views!Asked(c, Views!QueryKey(v), v), straight)
<1> DEFINE k == Views!QueryKey(v)
           d == Views!Asked(c, k, v)
<1>1. k \in Views!Views
  BY KeysAreViews
<1>2. DOMAIN d = Views!Views /\ \A j \in Views!Views \ {k} : d[j] = c[j]
  BY DEF CacheFits, Views!Asked
<1>3. DOMAIN d[k] = DOMAIN c[k] /\ d[k].data = c[k].data /\ d[k].fetch \in {c[k].fetch, v}
  BY <1>1 DEF CacheFits, CellFits, Views!Asked
<1>4. CellFits(d[k], k, straight)
  BY <1>1, <1>3 DEF CacheFits, CellFits
<1> QED BY <1>2, <1>4 DEF CacheFits

\* Fetches, answers and switches keep ViewsInv: straight while no answer crossed a switch.
LEMMA ViewsStep == ViewsInv /\ [CatalogueNext]_catalogueVars => ViewsInv'
<1> SUFFICES ASSUME ViewsInv, [CatalogueNext]_catalogueVars, at = "views", at' = at
             PROVE  ViewsInv'
  BY DEF CatalogueNext, catalogueVars, ViewsInv
<1>0. /\ family \in Views!Families /\ Views!View \in Views!Views /\ api = Views!View
      /\ CacheFits(cache, ~crossed)
  BY DEF ViewsInv
<1>1. CASE UNCHANGED viewing
  BY <1>1 DEF viewing, ViewsInv, CacheFits, CellFits, Views!View, Views!Views, Views!QueryKey, Views!HavePrices
<1>2. ASSUME NEW v \in Views!Views, Views!Rendered(v), v = [locale |-> locale', currency |-> viewCurrency'],
             family' = family
      PROVE  ViewsInv'
  <2>1. /\ api' = v /\ cache' = Views!Asked(cache, Views!QueryKey(v), v)
        /\ put' = IF put # Nothing /\ put.follows THEN [put EXCEPT !.under = v] ELSE put
        /\ crossed' = (crossed \/ put # Nothing)
    BY <1>2 DEF Views!Rendered, Views!Tell
  <2>2. Views!View' = v
    BY <1>2 DEF Views!View
  <2>3. CacheFits(cache, ~crossed')
    BY <1>0, <2>1 DEF CacheFits, CellFits
  <2>4. CacheFits(cache', ~crossed')
    BY <2>1, <2>3, AskedFits
  <2>5. CacheFits(cache, ~crossed)'
    BY <1>2, <2>4, FitsAgain
  <2>6. put' # Nothing =>
          /\ family = "priced" /\ crossed'
          /\ DOMAIN put' = {"asked", "under", "follows"} /\ put'.under \in Views!Views
    BY <2>1 DEF ViewsInv
  <2> QED BY <1>0, <1>2, <2>1, <2>2, <2>5, <2>6 DEF ViewsInv, Views!Views
<1>3. ASSUME NEW l \in {"en", "hy"}, Views!SwitchLanguage(l) PROVE ViewsInv'
  <2>1. [locale |-> l, currency |-> viewCurrency] \in Views!Views
    BY <1>0 DEF Views!View, Views!Views
  <2> QED BY <1>2, <1>3, <2>1 DEF Views!SwitchLanguage
<1>4. ASSUME NEW c \in BothMarkets, Views!SetCurrency(c) PROVE ViewsInv'
  <2>1. [locale |-> locale, currency |-> c] \in Views!Views
    BY <1>0 DEF Views!View, Views!Views
  <2> QED BY <1>2, <1>4, <2>1 DEF Views!SetCurrency
<1>5. CASE Views!Reload
  <2> DEFINE v == [locale |-> locale, currency |-> viewCurrency']
             none == [k \in Views!Views |-> Views!Unasked]
  <2>1. /\ v \in Views!Views /\ api' = v /\ put' = Nothing /\ ~crossed'
        /\ locale' = locale /\ family' = family
        /\ cache' = Views!Asked(none, Views!QueryKey(v), v)
    BY <1>0, <1>5 DEF Views!Reload, Views!View, Views!Views, BothMarkets
  <2>2. CacheFits(none, TRUE)
    BY DEF CacheFits, CellFits, Views!Unasked
  <2> HIDE DEF none
  <2>3. CacheFits(Views!Asked(none, Views!QueryKey(v), v), TRUE)
    BY <2>1, <2>2, AskedFits
  <2>5. CacheFits(cache', ~crossed')
    BY <2>1, <2>3
  <2>6. CacheFits(cache, ~crossed)'
    BY <2>1, <2>5, FitsAgain
  <2>7. Views!View' = v
    BY <2>1 DEF Views!View
  <2> QED BY <1>0, <2>1, <2>6, <2>7 DEF ViewsInv, Views!Views
<1>6. ASSUME UNCHANGED <<family, locale, viewCurrency, api, crossed>>,
             CacheFits(cache', ~crossed'),
             put' # Nothing =>
               /\ family = "priced"
               /\ DOMAIN put' = {"asked", "under", "follows"} /\ put'.under \in Views!Views
               /\ ~crossed => put'.asked = Views!View /\ put'.under = Views!View
      PROVE  ViewsInv'
  <2>1. CacheFits(cache, ~crossed)' /\ Views!View' = Views!View
    BY <1>6, FitsAgain DEF Views!View
  <2> QED BY <1>0, <1>6, <2>1 DEF ViewsInv, Views!Views
<1>7. CASE Views!Refetch
  <2>1. CacheFits(Views!Asked(cache, Views!QueryKey(Views!View), Views!View), ~crossed)
    BY <1>0, AskedFits
  <2> QED BY <1>0, <1>6, <1>7, <2>1 DEF Views!Refetch, ViewsInv
<1>8. ASSUME NEW k \in Views!Views, Views!Land(k) \/ Views!Retry(k) PROVE ViewsInv'
  <2>1. /\ UNCHANGED <<family, locale, viewCurrency, api, crossed, put>>
        /\ DOMAIN cache' = Views!Views /\ \A j \in Views!Views \ {k} : cache'[j] = cache[j]
    BY <1>0, <1>8 DEF CacheFits, Views!Land, Views!Retry
  <2>2. CellFits(cache'[k], k, ~crossed)
    <3>1. CellFits(cache[k], k, ~crossed)
      BY <1>0 DEF CacheFits
    <3>2. CASE Views!Land(k)
      <4>1. cache[k].fetch # Idle /\ cache'[k] = [data |-> cache[k].fetch, fetch |-> Idle]
        BY <1>0, <3>2 DEF CacheFits, Views!Land
      <4> QED BY <3>1, <4>1 DEF CellFits
    <3>3. CASE Views!Retry(k)
      <4>1. PICK next \in {api, Idle} : /\ next = api => k = Views!QueryKey(Views!View)
                                       /\ cache' = [cache EXCEPT ![k].fetch = next]
        BY <3>3 DEF Views!Retry
      <4>2. cache'[k] = [cache[k] EXCEPT !.fetch = next]
        BY <1>0, <4>1 DEF CacheFits
      <4> QED BY <1>0, <3>1, <4>1, <4>2 DEF CellFits
    <3> QED BY <1>8, <3>2, <3>3
  <2>3. CacheFits(cache', ~crossed')
    BY <1>0, <2>1, <2>2 DEF CacheFits
  <2> QED BY <1>6, <2>1, <2>3 DEF ViewsInv
<1>9. CASE Views!SetCartItem
  BY <1>0, <1>6, <1>9 DEF Views!SetCartItem
<1>10. CASE Views!LeavePage
  BY <1>0, <1>6, <1>10 DEF Views!LeavePage, ViewsInv
<1>11. CASE Views!PutLands
  <2>1. /\ put # Nothing /\ put' = Nothing /\ UNCHANGED <<family, locale, viewCurrency, api, crossed>>
        /\ cache' = [cache EXCEPT ![Views!QueryKey(put.under)].data = put.asked]
    BY <1>11 DEF Views!PutLands
  <2>2. /\ family = "priced" /\ put.under \in Views!Views
        /\ ~crossed => put.asked = Views!View /\ put.under = Views!View
    BY <2>1 DEF ViewsInv
  <2>3. Views!QueryKey(put.under) = put.under
    BY <2>2, KeysAreViews DEF Views!HavePrices
  <2>4. /\ DOMAIN cache' = Views!Views /\ \A j \in Views!Views \ {put.under} : cache'[j] = cache[j]
        /\ cache'[put.under] = [cache[put.under] EXCEPT !.data = put.asked]
    BY <1>0, <2>1, <2>2, <2>3 DEF CacheFits
  <2>5. CellFits(cache'[put.under], put.under, ~crossed)
    BY <1>0, <2>2, <2>3, <2>4 DEF CacheFits, CellFits
  <2>6. CacheFits(cache', ~crossed')
    BY <1>0, <2>1, <2>4, <2>5 DEF CacheFits
  <2> QED BY <1>6, <2>1, <2>6
<1> QED BY <1>1, <1>3, <1>4, <1>5, <1>7, <1>8, <1>9, <1>10, <1>11
        DEF CatalogueNext, catalogueVars, Views!ViewsNext

\* What is on screen was asked in the language and the market now chosen, or is a listing
\* of before whose successor is being asked for in them, for any number of switches,
\* retries and reloads; a cart written across a switch is the exception (CurrencyProvider,
\* the query keys, keepPreviousData).
THEOREM ViewsStayTrue == CatalogueSpec => []ShownInView
<1>1. CatalogueInit => ViewsInv
  <2> SUFFICES ASSUME CatalogueInit, at = "views" PROVE ViewsInv
    BY DEF ViewsInv
  <2> DEFINE none == [k \in Views!Views |-> Views!Unasked]
  <2>1. /\ family \in Views!Families /\ api = Views!View /\ put = Nothing /\ crossed = FALSE
        /\ Views!View \in Views!Views
        /\ cache = Views!Asked(none, Views!QueryKey(Views!View), Views!View)
    BY DEF CatalogueInit, Views!ViewsInit, Views!View, Views!Views
  <2>2. CacheFits(none, TRUE)
    BY DEF CacheFits, CellFits, Views!Unasked
  <2> HIDE DEF none
  <2>3. CacheFits(cache, TRUE)
    BY <2>1, <2>2, AskedFits
  <2> QED BY <2>1, <2>3 DEF ViewsInv
<1>2. ViewsInv => ShownInView
  <2> SUFFICES ASSUME ViewsInv, at = "views" PROVE Views!ShownInView
    BY DEF ShownInView
  <2> DEFINE k == Views!QueryKey(Views!View)
  <2>1. k \in Views!Views /\ k.locale = locale /\ (family \in Views!HavePrices => k = Views!View)
    BY KeysAreViews DEF ViewsInv, Views!View
  <2>2. CellFits(Views!Own, k, ~crossed)
    BY <2>1 DEF ViewsInv, CacheFits, Views!Own
  <2>3. ASSUME NEW v \in Views!Views, Views!QueryKey(v) = k PROVE Views!InView(v)
    <3>1. v.locale = k.locale /\ (family \in Views!HavePrices => k = v)
      BY <2>3, KeysAreViews
    <3> QED BY <2>1, <3>1 DEF Views!InView, Views!View
  <2>4. ASSUME Views!Own.data # Nothing, ~crossed PROVE Views!InView(Views!Own.data)
    BY <2>2, <2>3, <2>4 DEF CellFits
  <2>5. ASSUME Views!Waiting PROVE Views!InView(Views!Own.fetch)
    BY <2>2, <2>3, <2>5 DEF CellFits, Views!Waiting
  <2> QED BY <2>4, <2>5 DEF Views!ShownInView, Views!Shown
<1> QED BY <1>1, <1>2, ViewsStep, PTL DEF CatalogueSpec


-----------------------------------------------------------------------------
(* The counts of the sidebar                                               *)

\* Every query string, the ones of the history included, names the same filters.
UrlFields == {"category", "benefits", "min", "max", "page"}
UrlsFit(seen) == history \in Seq(seen) /\ url \in seen /\ \A u \in seen : DOMAIN u = UrlFields

\* What is settled is the answer to this query, and what was promised is its total.
GridFits == /\ DOMAIN grid = {"settled", "total"} /\ grid.settled \in BOOLEAN
            /\ grid.settled => grid.total = Browse!Total(url, currency)
FacetsFit ==
  /\ DOMAIN facets = {"settled", "bounds", "all", "category", "benefit"}
  /\ DOMAIN facets.category \subseteq Browse!Categories
  /\ DOMAIN facets.benefit \subseteq Browse!AllBenefits
  /\ facets.settled => facets = Browse!FacetAnswer(url, currency)
PromiseFits == promise # Nothing => promise = Browse!Total(url, currency)
BrowseInv ==
  at = "browse" => (\E seen : UrlsFit(seen)) /\ GridFits /\ FacetsFit /\ PromiseFits

\* The page is no filter.
LEMMA PageIsNoFilter ==
  ASSUME NEW u, NEW w, NEW cur, u.category = w.category, u.benefits = w.benefits,
         u.min = w.min, u.max = w.max
  PROVE  Browse!Total(u, cur) = Browse!Total(w, cur)
<1>1. \A p : /\ Browse!InCategory(p, u) <=> Browse!InCategory(p, w)
             /\ Browse!HasBenefit(p, u) <=> Browse!HasBenefit(p, w)
             /\ Browse!InRange(p, u, cur) <=> Browse!InRange(p, w, cur)
  BY DEF Browse!InCategory, Browse!HasBenefit, Browse!InRange
<1>2. {p \in Browse!Products : /\ Browse!InCategory(p, u) /\ Browse!HasBenefit(p, u)
                               /\ Browse!InRange(p, u, cur)}
      = {p \in Browse!Products : /\ Browse!InCategory(p, w) /\ Browse!HasBenefit(p, w)
                                 /\ Browse!InRange(p, w, cur)}
  BY <1>1
<1> QED BY <1>2 DEF Browse!Total

\* A count beside a filter is the total with that filter chosen, and those of the other
\* groups kept.
LEMMA CategoryIsTotal ==
  ASSUME NEW u, DOMAIN u = UrlFields, NEW c \in Browse!Categories, NEW cur
  PROVE  Browse!CategoryCount(c, u, cur) = Browse!Total([u EXCEPT !.category = c], cur)
<1> DEFINE w == [u EXCEPT !.category = c]
<1>1. c # Nothing
  BY NothingIsNoCategory DEF Browse!Categories, Browse!Products, SoapAndHoney
<1>2. w.category = c /\ w.benefits = u.benefits /\ w.min = u.min /\ w.max = u.max
  BY DEF UrlFields
<1> HIDE DEF w
<1>3. \A p : /\ Browse!InCategory(p, w) <=> SoapAndHoney[p] = c
             /\ Browse!HasBenefit(p, w) <=> Browse!HasBenefit(p, u)
             /\ Browse!InRange(p, w, cur) <=> Browse!InRange(p, u, cur)
  BY <1>1, <1>2 DEF Browse!InCategory, Browse!HasBenefit, Browse!InRange
<1>4. {p \in Browse!Products : SoapAndHoney[p] = c /\ Browse!HasBenefit(p, u) /\ Browse!InRange(p, u, cur)}
      = {p \in Browse!Products : /\ Browse!InCategory(p, w) /\ Browse!HasBenefit(p, w)
                                 /\ Browse!InRange(p, w, cur)}
  BY <1>3
<1> QED BY <1>4 DEF Browse!CategoryCount, Browse!Total, w

LEMMA AllIsTotal ==
  ASSUME NEW u, DOMAIN u = UrlFields, NEW cur
  PROVE  Browse!AllCount(u, cur) = Browse!Total([u EXCEPT !.category = Nothing], cur)
<1> DEFINE w == [u EXCEPT !.category = Nothing]
<1>1. w.category = Nothing /\ w.benefits = u.benefits /\ w.min = u.min /\ w.max = u.max
  BY DEF UrlFields
<1> HIDE DEF w
<1>2. \A p : /\ Browse!InCategory(p, w)
             /\ Browse!HasBenefit(p, w) <=> Browse!HasBenefit(p, u)
             /\ Browse!InRange(p, w, cur) <=> Browse!InRange(p, u, cur)
  BY <1>1 DEF Browse!InCategory, Browse!HasBenefit, Browse!InRange
<1>3. {p \in Browse!Products : Browse!HasBenefit(p, u) /\ Browse!InRange(p, u, cur)}
      = {p \in Browse!Products : /\ Browse!InCategory(p, w) /\ Browse!HasBenefit(p, w)
                                 /\ Browse!InRange(p, w, cur)}
  BY <1>2
<1> QED BY <1>3 DEF Browse!AllCount, Browse!Total, w

LEMMA BenefitIsTotal ==
  ASSUME NEW u, DOMAIN u = UrlFields, NEW b \in Browse!AllBenefits, NEW cur
  PROVE  Browse!BenefitCount(b, u, cur) = Browse!Total([u EXCEPT !.benefits = {b}], cur)
<1> DEFINE w == [u EXCEPT !.benefits = {b}]
<1>1. w.category = u.category /\ w.benefits = {b} /\ w.min = u.min /\ w.max = u.max
  BY DEF UrlFields
<1> HIDE DEF w
<1>2. \A p : /\ Browse!InCategory(p, w) <=> Browse!InCategory(p, u)
             /\ Browse!HasBenefit(p, w) <=> b \in OneBenefit[p]
             /\ Browse!InRange(p, w, cur) <=> Browse!InRange(p, u, cur)
  BY <1>1 DEF Browse!InCategory, Browse!HasBenefit, Browse!InRange
<1>3. {p \in Browse!Products : b \in OneBenefit[p] /\ Browse!InCategory(p, u) /\ Browse!InRange(p, u, cur)}
      = {p \in Browse!Products : /\ Browse!InCategory(p, w) /\ Browse!HasBenefit(p, w)
                                 /\ Browse!InRange(p, w, cur)}
  BY <1>2
<1> QED BY <1>3 DEF Browse!BenefitCount, Browse!Total, w

\* One more query string of the same fields, and a history of the old ones.
LEMMA UrlsGrow ==
  ASSUME NEW seen, UrlsFit(seen), DOMAIN url' = UrlFields,
         history' \in Seq(seen \cup {url'})
  PROVE  \E more : UrlsFit(more)'
<1>1. UrlsFit(seen \cup {url})'
  BY DEF UrlsFit
<1> QED BY <1>1

\* What every navigation does to the history, one page dropped when it is full.
LEMMA PushedUrls ==
  ASSUME NEW seen, UrlsFit(seen), Browse!Push, DOMAIN url' = UrlFields
  PROVE  \E more : UrlsFit(more)'
<1> DEFINE more == seen \cup {url'}
<1>1. history \in Seq(more) /\ url \in more
  <2>1. \A i \in 1..Len(history) : history[i] \in more
    BY DEF UrlsFit
  <2>2. history \in Seq(seen)
    BY DEF UrlsFit
  <2> QED BY <2>1, <2>2 DEF UrlsFit
<1> HIDE DEF more
<1>2. history' = IF Len(history) = MaxHistory THEN Append(Tail(history), url) ELSE Append(history, url)
  BY DEF Browse!Push
<1>3. history' \in Seq(more)
  <2>1. CASE Len(history) = MaxHistory
    <3>1. history # <<>>
      BY <1>1, <2>1, HistoryIsKept
    <3>2. Tail(history) \in Seq(more)
      BY <1>1, <3>1
    <3> QED BY <1>1, <1>2, <2>1, <3>2
  <2>2. CASE Len(history) # MaxHistory
    BY <1>1, <1>2, <2>2
  <2> QED BY <2>1, <2>2
<1> QED BY <1>3, UrlsGrow DEF more

\* Whatever is looked at next, what is settled is its answer.
LEMMA FocusFits ==
  ASSUME GridFits, FacetsFit, NEW u, NEW cur
  PROVE  /\ Browse!RefocusGrid(u, cur) /\ url' = u /\ currency' = cur => GridFits'
         /\ Browse!RefocusFacets(u, cur) /\ url' = u /\ currency' = cur => FacetsFit'
<1>1. DOMAIN Browse!GridAnswer(u, cur) = {"settled", "total"}
  BY DEF Browse!GridAnswer
<1>2. ASSUME Browse!RefocusGrid(u, cur), url' = u, currency' = cur PROVE GridFits'
  <2>1. CASE grid' = [grid EXCEPT !.settled = FALSE]
    BY <2>1 DEF GridFits
  <2>2. CASE grid' = Browse!GridAnswer(u, cur)
    BY <1>2, <2>2 DEF GridFits, Browse!GridAnswer
  <2> QED BY <1>2, <2>1, <2>2 DEF Browse!RefocusGrid
<1>3. ASSUME Browse!RefocusFacets(u, cur), url' = u, currency' = cur PROVE FacetsFit'
  <2>1. CASE facets' = Browse!Aged(facets)
    BY <2>1 DEF FacetsFit, Browse!Aged
  <2>2. CASE facets' = Browse!FacetAnswer(u, cur)
    <3>1. /\ DOMAIN facets' = {"settled", "bounds", "all", "category", "benefit"}
          /\ DOMAIN facets'.category = Browse!Categories
          /\ DOMAIN facets'.benefit = Browse!AllBenefits
      BY <2>2 DEF Browse!FacetAnswer
    <3>2. (facets.settled => facets = Browse!FacetAnswer(url, currency))'
      BY <1>3, <2>2
    <3> QED BY <3>1, <3>2 DEF FacetsFit
  <2> QED BY <1>3, <2>1, <2>2 DEF Browse!RefocusFacets
<1> QED BY <1>2, <1>3

\* What a click was told is the total of the query it makes.
LEMMA ToldFits ==
  ASSUME NEW n, Browse!Told(n), facets.settled => (n # Nothing => n = Browse!Total(url', currency'))
  PROVE  PromiseFits'
BY DEF Browse!Told, PromiseFits

\* Every gesture and every answer keeps what is shown the answer to the query string, and
\* what was promised its total.
LEMMA BrowseStep == BrowseInv /\ [CatalogueNext]_catalogueVars => BrowseInv'
<1> SUFFICES ASSUME BrowseInv, [CatalogueNext]_catalogueVars, at = "browse", at' = at
             PROVE  (\E more : UrlsFit(more))' /\ GridFits' /\ FacetsFit' /\ PromiseFits'
  BY DEF CatalogueNext, catalogueVars, BrowseInv
<1>0. PICK seen : UrlsFit(seen)
  BY DEF BrowseInv
<1>1. GridFits /\ FacetsFit /\ PromiseFits
  BY DEF BrowseInv
<1> DEFINE Goal == (\E more : UrlsFit(more))' /\ GridFits' /\ FacetsFit' /\ PromiseFits'
<1>3. DOMAIN url = UrlFields
  BY <1>0 DEF UrlsFit
<1>4. ASSUME NEW u, Browse!Navigate(u), DOMAIN u = UrlFields
      PROVE  /\ (\E more : UrlsFit(more))' /\ GridFits' /\ FacetsFit' /\ currency' = currency
             /\ Browse!Total(url', currency') = Browse!Total(u, currency)
  <2>1. /\ Browse!Push /\ url' = [u EXCEPT !.page = 1] /\ currency' = currency
        /\ Browse!RefocusGrid(url', currency) /\ Browse!RefocusFacets(url', currency)
    BY <1>4 DEF Browse!Navigate, Browse!Refocus
  <2>2. DOMAIN url' = UrlFields
    BY <1>4, <2>1
  <2>3. \E more : UrlsFit(more)'
    BY <1>0, <2>1, <2>2, PushedUrls
  <2>4. GridFits' /\ FacetsFit'
    BY <1>1, <2>1, FocusFits
  <2>5. /\ url'.category = u.category /\ url'.benefits = u.benefits
        /\ url'.min = u.min /\ url'.max = u.max
    BY <1>4, <2>1 DEF UrlFields
  <2>6. Browse!Total(url', currency') = Browse!Total(u, currency)
    BY <2>1, <2>5, PageIsNoFilter
  <2> QED BY <2>1, <2>3, <2>4, <2>6
<1>5. ASSUME NEW c \in DOMAIN facets.category, Browse!PickCategory(c) PROVE Goal
  <2>1. c \in Browse!Categories
    BY <1>1 DEF FacetsFit
  <2>2. CASE c = url.category
    <3> DEFINE u == [url EXCEPT !.category = Nothing]
    <3>1. Browse!Navigate(u) /\ Browse!Told(facets.all) /\ DOMAIN u = UrlFields
      BY <1>3, <1>5, <2>2 DEF Browse!PickCategory
    <3>2. facets.settled => facets.all = Browse!Total(u, currency)
      BY <1>1, <1>3, AllIsTotal DEF FacetsFit, Browse!FacetAnswer
    <3> QED BY <1>4, <3>1, <3>2, ToldFits
  <2>3. CASE c # url.category
    <3> DEFINE u == [url EXCEPT !.category = c]
    <3>1. Browse!Navigate(u) /\ Browse!Told(facets.category[c]) /\ DOMAIN u = UrlFields
      BY <1>3, <1>5, <2>3 DEF Browse!PickCategory
    <3>2. facets.settled => facets.category[c] = Browse!CategoryCount(c, url, currency)
      BY <1>1, <2>1 DEF FacetsFit, Browse!FacetAnswer
    <3>3. facets.settled => facets.category[c] = Browse!Total(u, currency)
      BY <1>3, <2>1, <3>2, CategoryIsTotal
    <3> QED BY <1>4, <3>1, <3>3, ToldFits
  <2> QED BY <2>2, <2>3
<1>6. ASSUME NEW b \in DOMAIN facets.benefit, Browse!ToggleBenefit(b) PROVE Goal
  <2> DEFINE chosen == IF b \in url.benefits THEN url.benefits \ {b} ELSE url.benefits \cup {b}
             u == [url EXCEPT !.benefits = chosen]
             n == IF chosen = {b} THEN facets.benefit[b] ELSE Nothing
  <2>1. Browse!Navigate(u) /\ Browse!Told(n) /\ DOMAIN u = UrlFields
    BY <1>3, <1>6 DEF Browse!ToggleBenefit
  <2>2. b \in Browse!AllBenefits
    BY <1>1 DEF FacetsFit
  <2>3. facets.settled => facets.benefit[b] = Browse!BenefitCount(b, url, currency)
    BY <1>1, <2>2 DEF FacetsFit, Browse!FacetAnswer
  <2>4. facets.settled => facets.benefit[b] = Browse!Total([url EXCEPT !.benefits = {b}], currency)
    BY <1>3, <2>2, <2>3, BenefitIsTotal
  <2>5. facets.settled => (n # Nothing => n = Browse!Total(u, currency))
    <3>1. CASE chosen = {b}
      <4> HIDE DEF chosen
      <4> QED BY <2>4, <3>1
    <3>2. CASE chosen # {b}
      <4> HIDE DEF chosen
      <4> QED BY <3>2
    <3> QED BY <3>1, <3>2
  <2> HIDE DEF u, n
  <2> QED BY <1>4, <2>1, <2>5, ToldFits
<1>7. CASE Browse!AllProducts
  <2> DEFINE u == [url EXCEPT !.category = Nothing]
  <2>1. Browse!Navigate(u) /\ Browse!Told(facets.all) /\ DOMAIN u = UrlFields
    BY <1>3, <1>7 DEF Browse!AllProducts
  <2>2. facets.settled => facets.all = Browse!Total(u, currency)
    BY <1>1, <1>3, AllIsTotal DEF FacetsFit, Browse!FacetAnswer
  <2> QED BY <1>4, <2>1, <2>2, ToldFits
<1>8. CASE Browse!Sort
  <2>1. Browse!Navigate(url) /\ promise' = promise
    BY <1>8 DEF Browse!Sort
  <2> QED BY <1>1, <1>3, <1>4, <2>1 DEF PromiseFits
<1>9. CASE Browse!ClearFilters
  <2>1. DOMAIN Browse!Clean = UrlFields
    BY DEF Browse!Clean, UrlFields
  <2> QED BY <1>4, <1>9, <2>1 DEF Browse!ClearFilters, PromiseFits
<1>10. CASE Browse!Slide
  <2>1. promise' = Nothing
    BY <1>10 DEF Browse!Slide
  <2>2. PICK t : Browse!Navigate(Browse!Committed(t))
    BY <1>10 DEF Browse!Slide
  <2>3. DOMAIN Browse!Committed(t) = UrlFields
    BY <1>3 DEF Browse!Committed
  <2> QED BY <1>4, <2>1, <2>2, <2>3 DEF PromiseFits
<1>11. ASSUME NEW n, Browse!SelectPage(n) PROVE Goal
  <2>1. /\ url' = [url EXCEPT !.page = n] /\ Browse!Push /\ Browse!RefocusGrid(url', currency)
        /\ UNCHANGED <<currency, facets, promise>>
    BY <1>11 DEF Browse!SelectPage
  <2>2. DOMAIN url' = UrlFields /\ url'.category = url.category /\ url'.benefits = url.benefits
        /\ url'.min = url.min /\ url'.max = url.max
    BY <1>3, <2>1 DEF UrlFields
  <2>3. Browse!FacetAnswer(url', currency) = Browse!FacetAnswer(url, currency)
    <3>1. \A p : /\ Browse!InCategory(p, url') <=> Browse!InCategory(p, url)
                 /\ Browse!HasBenefit(p, url') <=> Browse!HasBenefit(p, url)
                 /\ Browse!InRange(p, url', currency) <=> Browse!InRange(p, url, currency)
      BY <2>2 DEF Browse!InCategory, Browse!HasBenefit, Browse!InRange
    <3>2. Browse!Priced(url', currency) = Browse!Priced(url, currency)
      BY <3>1 DEF Browse!Priced
    <3>3. \A c : Browse!CategoryCount(c, url', currency) = Browse!CategoryCount(c, url, currency)
      BY <3>1 DEF Browse!CategoryCount
    <3>4. \A b : Browse!BenefitCount(b, url', currency) = Browse!BenefitCount(b, url, currency)
      BY <3>1 DEF Browse!BenefitCount
    <3>5. Browse!AllCount(url', currency) = Browse!AllCount(url, currency)
      BY <3>1 DEF Browse!AllCount
    <3>6. Browse!Bounds(url', currency) = Browse!Bounds(url, currency)
      BY <3>2 DEF Browse!Bounds
    <3> QED BY <3>3, <3>4, <3>5, <3>6 DEF Browse!FacetAnswer
  <2>4. FacetsFit'
    BY <1>1, <2>1, <2>3 DEF FacetsFit
  <2>5. Browse!Total(url', currency') = Browse!Total(url, currency)
    BY <2>1, <2>2, PageIsNoFilter
  <2>6. GridFits'
    BY <1>1, <2>1, FocusFits
  <2>7. (\E more : UrlsFit(more))'
    BY <1>0, <2>1, <2>2, PushedUrls
  <2> QED BY <1>1, <2>1, <2>4, <2>5, <2>6, <2>7 DEF PromiseFits
<1>12. CASE Browse!Back
  <2>1. /\ history # <<>> /\ url' = history[Len(history)] /\ history' = SubSeq(history, 1, Len(history) - 1)
        /\ Browse!RefocusGrid(url', currency) /\ Browse!RefocusFacets(url', currency)
        /\ promise' = Nothing /\ currency' = currency
    BY <1>12 DEF Browse!Back, Browse!Refocus
  <2>2. history \in Seq(seen)
    BY <1>0 DEF UrlsFit
  <2>3. Len(history) \in 1..Len(history)
    BY <2>1, <2>2
  <2>4. url' \in seen
    BY <2>1, <2>2, <2>3
  <2>5. history' \in Seq(seen)
    BY <2>1, <2>2, <2>3
  <2>6. UrlsFit(seen)'
    BY <1>0, <2>4, <2>5 DEF UrlsFit
  <2>7. GridFits' /\ FacetsFit'
    BY <1>1, <2>1, FocusFits
  <2> QED BY <2>1, <2>6, <2>7 DEF PromiseFits
<1>13. ASSUME NEW cur, Browse!SetCurrency(cur) PROVE Goal
  <2>1. /\ UNCHANGED <<url, history>> /\ currency' = cur /\ promise' = Nothing
        /\ Browse!RefocusGrid(url, cur) /\ Browse!RefocusFacets(url, cur)
    BY <1>13 DEF Browse!SetCurrency, Browse!Refocus
  <2>2. GridFits' /\ FacetsFit'
    BY <1>1, <2>1, FocusFits
  <2>3. UrlsFit(seen)'
    BY <1>0, <2>1 DEF UrlsFit
  <2> QED BY <2>1, <2>2, <2>3 DEF PromiseFits
<1>14. CASE Browse!GridLands
  <2>1. /\ grid' \in {Browse!GridAnswer(url, currency), Browse!NoGrid}
        /\ UNCHANGED <<url, history, currency, facets, promise>>
    BY <1>14 DEF Browse!GridLands
  <2>2. GridFits'
    <3>1. CASE grid' = Browse!GridAnswer(url, currency)
      <4>1. /\ DOMAIN grid' = {"settled", "total"} /\ grid'.settled \in BOOLEAN
            /\ grid'.total = Browse!Total(url, currency)
        BY <3>1 DEF Browse!GridAnswer
      <4> QED BY <2>1, <4>1 DEF GridFits
    <3>2. CASE grid' = Browse!NoGrid
      <4>1. DOMAIN grid' = {"settled", "total"} /\ grid'.settled = FALSE
        BY <3>2 DEF Browse!NoGrid
      <4> QED BY <4>1 DEF GridFits
    <3> QED BY <2>1, <3>1, <3>2
  <2>3. UrlsFit(seen)' /\ FacetsFit' /\ PromiseFits'
    BY <1>0, <1>1, <2>1 DEF UrlsFit, FacetsFit, PromiseFits
  <2> QED BY <2>2, <2>3
<1>15. CASE Browse!FacetsLand
  <2>1. /\ facets' \in {Browse!FacetAnswer(url, currency), Browse!NoFacets}
        /\ UNCHANGED <<url, history, currency, grid, promise>>
    BY <1>15 DEF Browse!FacetsLand
  <2>2. ASSUME facets' = Browse!FacetAnswer(url, currency) PROVE FacetsFit'
    <3>1. /\ DOMAIN facets' = {"settled", "bounds", "all", "category", "benefit"}
          /\ DOMAIN facets'.category = Browse!Categories
          /\ DOMAIN facets'.benefit = Browse!AllBenefits
      BY <2>2 DEF Browse!FacetAnswer
    <3>2. facets' = Browse!FacetAnswer(url, currency)'
      BY <2>1, <2>2
    <3>3. /\ DOMAIN facets'.category \subseteq Browse!Categories
          /\ DOMAIN facets'.benefit \subseteq Browse!AllBenefits
      BY <3>1
    <3> QED BY <3>1, <3>2, <3>3 DEF FacetsFit
  <2>3. ASSUME facets' = Browse!NoFacets PROVE FacetsFit'
    <3>1. /\ DOMAIN facets' = {"settled", "bounds", "all", "category", "benefit"}
          /\ DOMAIN facets'.category = {} /\ DOMAIN facets'.benefit = {} /\ facets'.settled = FALSE
      BY <2>3 DEF Browse!NoFacets
    <3>2. /\ DOMAIN facets'.category \subseteq Browse!Categories
          /\ DOMAIN facets'.benefit \subseteq Browse!AllBenefits
      BY <3>1
    <3> QED BY <3>1, <3>2 DEF FacetsFit
  <2>4. UrlsFit(seen)' /\ GridFits' /\ PromiseFits'
    BY <1>0, <1>1, <2>1 DEF UrlsFit, GridFits, PromiseFits
  <2>5. FacetsFit'
    BY <2>1, <2>2, <2>3
  <2> QED BY <2>4, <2>5
<1>16. CASE UNCHANGED browsing
  <2>1. UrlsFit(seen)' /\ GridFits' /\ FacetsFit' /\ PromiseFits'
    BY <1>0, <1>1, <1>16 DEF browsing, UrlsFit, GridFits, FacetsFit, PromiseFits
  <2> QED BY <2>1
<1>17. CASE Browse!ShopNext
  BY <1>5, <1>6, <1>7, <1>8, <1>9, <1>10, <1>11, <1>12, <1>13, <1>14, <1>15, <1>17
     DEF Browse!ShopNext
<1> QED BY <1>16, <1>17 DEF CatalogueNext, catalogueVars

\* When the grid has answered a click in the sidebar, it shows as many products as the
\* number beside what was clicked said, for every list of filters, every market, every
\* history and whatever is paged or sorted in between (CatalogFacets and ListProducts).
THEOREM CountsAreKept == CatalogueSpec => []CountsKeepTheirWord
<1>1. CatalogueInit => BrowseInv
  <2> SUFFICES ASSUME CatalogueInit, at = "browse"
               PROVE  (\E more : UrlsFit(more)) /\ GridFits /\ FacetsFit /\ PromiseFits
    BY DEF BrowseInv
  <2>1. /\ url = Browse!Clean /\ history = <<>> /\ grid = Browse!NoGrid
        /\ facets = Browse!NoFacets /\ promise = Nothing
    BY DEF CatalogueInit, Browse!ShopInit
  <2>2. DOMAIN url = UrlFields
    BY <2>1 DEF Browse!Clean, UrlFields
  <2>3. UrlsFit({url})
    BY <2>1, <2>2 DEF UrlsFit
  <2>4. GridFits /\ FacetsFit /\ PromiseFits
    BY <2>1 DEF GridFits, FacetsFit, PromiseFits, Browse!NoGrid, Browse!NoFacets
  <2> QED BY <2>3, <2>4
<1>2. BrowseInv => CountsKeepTheirWord
  BY DEF BrowseInv, CountsKeepTheirWord, Browse!CountsKeepTheirWord, GridFits, PromiseFits
<1> QED BY <1>1, <1>2, BrowseStep, PTL DEF CatalogueSpec


-----------------------------------------------------------------------------
(* The buttons of the orders page                                          *)

OrderDesks == {"orders", "payments"}
StatusesOf(d) == IF d = "orders" THEN {"pending", "confirmed", "shipped", "delivered", "cancelled"}
                                 ELSE {"unpaid", "paid", "refunded"}

\* How far a status lies from the first one: no arrow leads back.
Stage == [pending |-> 0, confirmed |-> 1, shipped |-> 2, delivered |-> 3, cancelled |-> 3,
          unpaid |-> 0, paid |-> 1, refunded |-> 2]
SameOrPast(now, then) == now = then \/ Stage[now] > Stage[then]

RowFits(r) == DOMAIN r = {"terms", "active", "pos", "status"} /\ r.status \in StatusesOf(desk)

OfficeInv ==
  at = "office" /\ desk \in OrderDesks =>
    /\ DOMAIN rows = Office!Ids /\ \A i \in Office!Ids : RowFits(rows[i])
    /\ DOMAIN rowsQ = {"data", "fetch", "invalid"}
    /\ rowsQ.data # Nothing =>
         \A i \in Office!Ids : /\ RowFits(rowsQ.data[i])
                               /\ SameOrPast(rows[i].status, rowsQ.data[i].status)
    /\ saving.stage = "none"
    /\ DOMAIN pressed = {"stage", "kind", "row", "saw", "post"}
    /\ pressed.stage # "none" =>
         /\ pressed.kind = "mark" /\ pressed.row \in Office!Ids
         /\ pressed.saw \in StatusesOf(desk)
         /\ pressed.post \in Office!Arrows(desk, pressed.saw)
         /\ SameOrPast(rows[pressed.row].status, pressed.saw)
    /\ pressed.stage = "refused" => rows[pressed.row].status # pressed.saw

\* Every arrow leads on, among the statuses of its machine.
LEMMA ArrowsLeadOn ==
  ASSUME NEW d \in OrderDesks, NEW s \in StatusesOf(d), NEW t \in Office!Arrows(d, s)
  PROVE  t \in StatusesOf(d) /\ Stage[t] > Stage[s]
<1>1. CASE d = "orders"
  BY <1>1 DEF OrderDesks, StatusesOf, Stage, Office!Arrows
<1>2. CASE d = "payments"
  BY <1>2 DEF OrderDesks, StatusesOf, Stage, Office!Arrows
<1> QED BY <1>1, <1>2 DEF OrderDesks

\* The page's copy of the table offers the arrows of the domain's.
LEMMA OffersAreArrows ==
  ASSUME NEW d \in OrderDesks, NEW s \in StatusesOf(d)
  PROVE  Office!Offered(d, s) = Office!Arrows(d, s)
<1>1. CASE d = "orders"
  BY <1>1 DEF OrderDesks, StatusesOf, Office!Offered, Office!nextStatuses, Office!Arrows
<1>2. CASE d = "payments"
  BY <1>2 DEF OrderDesks, StatusesOf, Office!Offered, Office!nextPayments, Office!Arrows
<1> QED BY <1>1, <1>2 DEF OrderDesks

\* The stages are numbers.
LEMMA StagesAreNumbers == ASSUME NEW d \in OrderDesks PROVE \A s \in StatusesOf(d) : Stage[s] \in Nat
BY DEF OrderDesks, StatusesOf, Stage

\* One arrow more keeps a row at or past what it was, and leaves what it was behind.
LEMMA OneArrow ==
  ASSUME NEW d \in OrderDesks, NEW was \in StatusesOf(d), NEW now \in StatusesOf(d),
         SameOrPast(now, was), NEW next \in Office!Arrows(d, now)
  PROVE  SameOrPast(next, was) /\ next # was
BY ArrowsLeadOn, StagesAreNumbers DEF SameOrPast

\* The desks open with the list the table holds.
LEMMA OfficeStart == CatalogueInit => OfficeInv
<1> SUFFICES ASSUME CatalogueInit, at = "office", desk \in OrderDesks PROVE OfficeInv
  BY DEF OfficeInv
<1>1. Office!OfficeInit
  BY DEF CatalogueInit
<1>2. rows = [i \in Office!Ids |-> Office!Row("first", TRUE, i, Office!FirstStatus(desk))]
  BY <1>1 DEF Office!OfficeInit, OrderDesks, Office!Tables
<1>3. \A i \in Office!Ids : RowFits(rows[i])
  BY <1>2 DEF Office!Row, Office!FirstStatus, RowFits, StatusesOf, OrderDesks
<1>4. DOMAIN rowsQ = {"data", "fetch", "invalid"} /\ rowsQ.data = Nothing
  BY <1>1 DEF Office!OfficeInit, Office!RQ!Ask, Office!RQ!Fresh, Office!RQ!Fetching
<1>5. saving.stage = "none" /\ pressed.stage = "none" /\ DOMAIN pressed = {"stage", "kind", "row", "saw", "post"}
  BY <1>1 DEF Office!OfficeInit, Office!NoSave, Office!NoPress
<1> QED BY <1>2, <1>3, <1>4, <1>5 DEF OfficeInv

\* A row moves by one arrow, whoever moves it.
LEMMA RowMoves ==
  ASSUME OfficeInv, at = "office", desk \in OrderDesks, at' = at, desk' = desk,
         NEW i \in Office!Ids, NEW to \in Office!Arrows(desk, rows[i].status),
         rows' = [rows EXCEPT ![i].status = to]
  PROVE  /\ DOMAIN rows' = Office!Ids /\ \A j \in Office!Ids : RowFits(rows[j])'
         /\ \A j \in Office!Ids, was \in StatusesOf(desk) :
              SameOrPast(rows[j].status, was) =>
                /\ SameOrPast(rows'[j].status, was)
                /\ rows[j].status # was => rows'[j].status # was
<1>1. /\ DOMAIN rows = Office!Ids /\ \A j \in Office!Ids : RowFits(rows[j])
  BY DEF OfficeInv
<1>2. DOMAIN rows' = Office!Ids /\ \A j \in Office!Ids \ {i} : rows'[j] = rows[j]
  BY <1>1
<1>3. DOMAIN rows'[i] = DOMAIN rows[i] /\ rows'[i].status = to
  BY <1>1 DEF RowFits
<1>4. to \in StatusesOf(desk)
  BY <1>1, ArrowsLeadOn DEF RowFits
<1>5. \A j \in Office!Ids : RowFits(rows[j])'
  BY <1>1, <1>2, <1>3, <1>4 DEF RowFits
<1>6. ASSUME NEW j \in Office!Ids, NEW was \in StatusesOf(desk), SameOrPast(rows[j].status, was)
      PROVE  /\ SameOrPast(rows'[j].status, was)
             /\ rows[j].status # was => rows'[j].status # was
  <2>1. CASE j = i
    BY <1>1, <1>3, <1>6, <2>1, OneArrow DEF RowFits
  <2>2. CASE j # i
    BY <1>2, <1>6, <2>2
  <2> QED BY <2>1, <2>2
<1> QED BY <1>2, <1>5, <1>6

\* What the list shows stays at or behind the rows.
LEMMA OfficeStep == OfficeInv /\ [CatalogueNext]_catalogueVars => OfficeInv'
<1> SUFFICES ASSUME OfficeInv, [CatalogueNext]_catalogueVars, at = "office", at' = at,
                    desk' \in OrderDesks
             PROVE  OfficeInv'
  BY DEF CatalogueNext, catalogueVars, OfficeInv
<1>1. CASE UNCHANGED administering
  BY <1>1 DEF administering, OfficeInv, RowFits
<1>2. CASE Office!OfficeNext
  <2>0. desk' = desk /\ desk \in OrderDesks
    BY <1>2 DEF Office!OfficeNext, Office!OpenForm, Office!TogglePromo, Office!DeleteCategory,
         Office!MoveCategory, Office!Mark, Office!Press, Office!Colleague, Office!OpenNewPromo,
         Office!CloseForm, Office!TypeField, Office!Submit, Office!ServeForm, Office!LandForm,
         Office!ServePress, Office!CategoryInUse, Office!LandPress, Office!LoadRows, Office!FocusOffice
  <2>00. /\ DOMAIN rows = Office!Ids /\ \A i \in Office!Ids : RowFits(rows[i])
         /\ DOMAIN rowsQ = {"data", "fetch", "invalid"} /\ saving.stage = "none"
         /\ DOMAIN pressed = {"stage", "kind", "row", "saw", "post"}
    BY <2>0 DEF OfficeInv
  <2>1. desk \notin Office!Forms /\ desk # "promos" /\ desk # "categories" /\ desk # "reviews"
    BY <2>0 DEF OrderDesks, Office!Forms
  <2>2. ASSUME UNCHANGED <<rows, saving>>, UNCHANGED pressed \/ pressed'= Office!NoPress,
               DOMAIN rowsQ' = {"data", "fetch", "invalid"}, rowsQ'.data \in {rowsQ.data, rows}
        PROVE  OfficeInv'
    BY <2>0, <2>00, <2>2 DEF OfficeInv, RowFits, SameOrPast, Office!NoPress
  <2>3. ASSUME NEW i \in Office!Ids, NEW to, Office!Has(i), Office!Mark(i, to) PROVE OfficeInv'
    <3>1. /\ UNCHANGED <<rows, rowsQ, saving>> /\ rowsQ.data # Nothing
          /\ pressed' = [stage |-> "sent", kind |-> "mark", row |-> i,
                         saw |-> rowsQ.data[i].status, post |-> to]
          /\ to \in Office!Offered(desk, rowsQ.data[i].status)
      BY <2>3 DEF Office!Mark, Office!Press, Office!Has, Office!RQ!Loaded, Office!Shown
    <3>2. /\ RowFits(rowsQ.data[i]) /\ SameOrPast(rows[i].status, rowsQ.data[i].status)
      BY <2>0, <3>1 DEF OfficeInv
    <3>3. to \in Office!Arrows(desk, rowsQ.data[i].status)
      BY <2>0, <3>1, <3>2, OffersAreArrows DEF RowFits
    <3> QED BY <2>0, <2>00, <3>1, <3>2, <3>3 DEF OfficeInv, RowFits
  <2>4. ASSUME NEW i \in Office!Ids, NEW to \in Office!Arrows(desk, rows[i].status),
               rows' = [rows EXCEPT ![i].status = to], UNCHANGED <<rowsQ, saving>>,
               UNCHANGED pressed \/ /\ pressed.stage # "none"
                                    /\ pressed' = [pressed EXCEPT !.stage = "ok"]
        PROVE  OfficeInv'
    <3>1. /\ DOMAIN rows' = Office!Ids /\ \A j \in Office!Ids : RowFits(rows[j])'
          /\ \A j \in Office!Ids, was \in StatusesOf(desk) :
               SameOrPast(rows[j].status, was) =>
                 /\ SameOrPast(rows'[j].status, was)
                 /\ rows[j].status # was => rows'[j].status # was
      BY <2>0, <2>4, RowMoves
    <3>2. rowsQ'.data # Nothing =>
            \A j \in Office!Ids : /\ RowFits(rowsQ.data[j])'
                                  /\ SameOrPast(rows'[j].status, rowsQ'.data[j].status)
      BY <2>0, <2>4, <3>1 DEF OfficeInv, RowFits
    <3>3. /\ DOMAIN pressed' = {"stage", "kind", "row", "saw", "post"}
          /\ pressed'.stage # "none" => pressed.stage # "none"
          /\ pressed'.kind = pressed.kind /\ pressed'.row = pressed.row
          /\ pressed'.saw = pressed.saw /\ pressed'.post = pressed.post
          /\ pressed'.stage = "refused" => pressed.stage = "refused"
      BY <2>00, <2>4
    <3>4. pressed.stage # "none" =>
            /\ pressed.kind = "mark" /\ pressed.row \in Office!Ids
            /\ pressed.saw \in StatusesOf(desk)
            /\ pressed.post \in Office!Arrows(desk, pressed.saw)
            /\ SameOrPast(rows[pressed.row].status, pressed.saw)
      BY <2>0 DEF OfficeInv
    <3>5. pressed.stage = "refused" => rows[pressed.row].status # pressed.saw
      BY <2>0 DEF OfficeInv
    <3>6. pressed'.stage # "none" =>
            /\ pressed'.kind = "mark" /\ pressed'.row \in Office!Ids
            /\ pressed'.saw \in StatusesOf(desk)
            /\ pressed'.post \in Office!Arrows(desk, pressed'.saw)
            /\ SameOrPast(rows'[pressed'.row].status, pressed'.saw)
      BY <3>1, <3>3, <3>4
    <3>7. pressed'.stage = "refused" => rows'[pressed'.row].status # pressed'.saw
      BY <3>1, <3>3, <3>4, <3>5
    <3> QED BY <2>0, <2>00, <2>4, <3>1, <3>2, <3>3, <3>6, <3>7 DEF OfficeInv, RowFits
  <2>5. CASE Office!ServePress
    <3>0. /\ pressed.stage = "sent" /\ pressed.kind = "mark" /\ pressed.row \in Office!Ids
          /\ SameOrPast(rows[pressed.row].status, pressed.saw)
          /\ pressed.saw \in StatusesOf(desk)
          /\ pressed.post \in Office!Arrows(desk, pressed.saw)
          /\ UNCHANGED <<rowsQ, saving>>
      BY <2>0, <2>5 DEF Office!ServePress, OfficeInv
    <3>1. Office!Accepted <=> pressed.post \in Office!Arrows(desk, rows[pressed.row].status)
      BY <2>0, <3>0 DEF Office!Accepted, OrderDesks
    <3>2. CASE ~Office!Accepted
      <4>1. pressed' = [pressed EXCEPT !.stage = "refused"] /\ UNCHANGED rows
        BY <2>5, <3>2 DEF Office!ServePress
      <4>2. rows[pressed.row].status # pressed.saw
        BY <3>0, <3>1, <3>2
      <4> QED BY <2>0, <2>00, <3>0, <4>1, <4>2 DEF OfficeInv, RowFits
    <3>3. CASE Office!Accepted
      <4>1. /\ pressed' = [pressed EXCEPT !.stage = "ok"]
            /\ rows' = [rows EXCEPT ![pressed.row].status = pressed.post]
        BY <2>5, <3>0, <3>3 DEF Office!ServePress
      <4> QED BY <2>4, <3>0, <3>1, <3>3, <4>1
    <3> QED BY <3>2, <3>3
  <2>6. ASSUME NEW i \in Office!Ids, Office!Colleague(i) PROVE OfficeInv'
    <3>1. PICK to \in Office!Arrows(desk, rows[i].status) : rows' = [rows EXCEPT ![i].status = to]
      BY <2>1, <2>6 DEF Office!Colleague
    <3> QED BY <2>4, <2>6, <3>1 DEF Office!Colleague
  <2>7. CASE Office!LandPress
    BY <2>00, <2>2, <2>7 DEF Office!LandPress, Office!RQ!Invalidate, Office!RQ!Mark,
         Office!RQ!Fetching, Office!RQ!Loaded
  <2>8. CASE Office!LoadRows
    BY <2>00, <2>2, <2>8 DEF Office!LoadRows, Office!RQ!Store, Office!RQ!Answer
  <2>9. CASE Office!FocusOffice
    BY <2>00, <2>2, <2>9 DEF Office!FocusOffice, Office!RQ!Ask, Office!RQ!Fetching
  <2>10. ~Office!OpenNewPromo /\ ~Office!CloseForm /\ ~Office!TypeField /\ ~Office!Submit
         /\ ~Office!ServeForm /\ ~Office!LandForm
         /\ \A i \in Office!Ids : /\ ~Office!OpenForm(i) /\ ~Office!TogglePromo(i)
                                  /\ ~Office!DeleteCategory(i) /\ ~Office!MoveCategory(i)
    BY <2>00, <2>1 DEF Office!OpenNewPromo, Office!CloseForm, Office!TypeField, Office!Submit,
         Office!ServeForm, Office!LandForm, Office!OpenForm, Office!TogglePromo,
         Office!DeleteCategory, Office!MoveCategory
  <2>11. ~Office!CategoryInUse
    BY <2>0 DEF Office!CategoryInUse, OfficeInv
  <2> QED BY <1>2, <2>3, <2>5, <2>6, <2>7, <2>8, <2>9, <2>10, <2>11 DEF Office!OfficeNext
<1> QED BY <1>1, <1>2 DEF CatalogueNext, catalogueVars

\* A button of the orders page is refused only when somebody else moved the order first, for
\* every number of rows, however the list was read and the colleagues work: the page's copy
\* of the state machine is the domain's, and no arrow leads back to what the page showed.
THEOREM RefusalsAreOvertaken == CatalogueSpec => []RefusedMeansOvertaken
<1>1. OfficeInv => RefusedMeansOvertaken
  BY DEF OfficeInv, RefusedMeansOvertaken, Office!RefusedMeansOvertaken, OrderDesks
<1> QED BY <1>1, OfficeStart, OfficeStep, PTL DEF CatalogueSpec
-----------------------------------------------------------------------------
(* The photos of a product                                                 *)

PhotosIn(m) == {i \in DOMAIN m : m[i].kind = "image"}
HeroesIn(m) == {i \in PhotosIn(m) : m[i].hero}

\* An upload has its row, and is about to commit it.
Uploading(e) == e.kind \in {"photo", "video"} /\ e.stage = "commit"

\* A save is past its first statement.
Saving(e) == e.kind \in {"save", "alt"} /\ e.stage \in {"apply", "commit"}

\* An id given to a row once, and to no row that is still to be committed: what a page has
\* read, a save lists or a request locks is such an id.
Given(i, ed, n) == i \in Photos!Ids /\ i < n /\ \A s \in Slots : Uploading(ed[s]) => ed[s].target # i

ListFits(l, ed, n) ==
  IsFiniteSet(DOMAIN l) /\ \A k \in DOMAIN l : DOMAIN l[k] = {"id", "hero"} /\ Given(l[k].id, ed, n)

PageFits(d, ed, n) ==
  d # Nothing => /\ Len(d.photos) \in Nat /\ DOMAIN d.photos = 1..Len(d.photos)
                 /\ ListFits(d.photos, ed, n)

EditFields == {"kind", "own", "target", "pos", "hero", "list", "stage"}
EditFits(e) ==
  /\ DOMAIN e = EditFields
  /\ e.kind \in {"none", "photo", "video", "delete", "save", "alt"}
  /\ e.kind = "none" => e.stage = "none"

\* The photos are counted, and the first one made the hero, under the product's lock.
UploadFits(s, e, P, h) ==
  e.kind = "photo" =>
    /\ e.stage \in {"insert", "commit"} => h[0] = s
    /\ e.stage = "commit" =>
         /\ Cardinality(P) < MaxPhotos
         /\ e.hero \in {0, e.target}
         /\ e.hero # 0 => P = {}

\* A deletion locks its row; while it looks for the next hero, its row is the hero.
DeleteFits(s, e, H, h) ==
  e.kind = "delete" =>
    /\ e.stage \in {"delete", "promote"} => e.hero = 0
    /\ e.stage \in {"promote", "crown", "commit"} => e.target \in Photos!Ids /\ h[e.target] = s
    /\ e.stage \in {"promote", "crown"} \/ (e.stage = "commit" /\ e.hero # 0) => e.target \in H

\* The ids of a save's list, and the one it crowns.
IdsOf(l) == {l[k].id : k \in DOMAIN l}
OneHero(l) == \E k \in DOMAIN l : l[k].hero /\ \A j \in DOMAIN l : l[j].hero => j = k

\* A save that holds a photo holds the hero, and no other save holds a photo.
SaveFits(s, e, P, H, ed, h) ==
  Saving(e) =>
    /\ OneHero(e.list)
    /\ \A i \in IdsOf(e.list) \cap P : h[i] = s
    /\ (\E i \in P : h[i] = s) =>
         /\ \A i \in H : h[i] = s
         /\ \A t \in Slots \ {s} : Saving(ed[t]) => \A i \in P : h[i] # t
    /\ e.stage = "commit" => IdsOf(e.list) \subseteq P

SlotFits(s, e, P, H, ed, h) ==
  EditFits(e) /\ UploadFits(s, e, P, h) /\ DeleteFits(s, e, H, h) /\ SaveFits(s, e, P, H, ed, h)

RowsFit(m, n, ed) ==
  \A i \in DOMAIN m : DOMAIN m[i] = {"kind", "pos", "hero"} /\ Given(i, ed, n)

Fresh(s, e, ed, n) ==
  Uploading(e) => /\ e.target \in Photos!Ids /\ e.target < n
                  /\ \A t \in Slots \ {s} : Uploading(ed[t]) => ed[t].target # e.target

GalleryFitsIn(m, n, d, ed, h) ==
  /\ n \in Nat \ {0} /\ DOMAIN h = {0} \cup Photos!Ids /\ DOMAIN ed = Slots
  /\ RowsFit(m, n, ed)
  /\ \A i \in Photos!Ids : h[i] # Nothing => Given(i, ed, n)
  /\ PageFits(d, ed, n)
  /\ \A s \in Slots : /\ SlotFits(s, ed[s], PhotosIn(m), HeroesIn(m), ed, h)
                         /\ ListFits(ed[s].list, ed, n)
                         /\ Fresh(s, ed[s], ed, n)
  /\ Cardinality(PhotosIn(m)) <= MaxPhotos
  /\ \A i, j \in HeroesIn(m) : i = j

QueryFits(q) == DOMAIN q = {"data", "fetch", "invalid"}
GalleryInv == at = "photos" =>
  QueryFits(galleryQ) /\ GalleryFitsIn(media, nextId, galleryQ.data, edit, holder)

\* The gallery counts with the library's operator.
LEMMA SameCount == \A S : Photos!Cardinality(S) = Cardinality(S)
BY DEF Photos!Cardinality, Cardinality

\* The gallery's sets are those of its table.
LEMMA SameSets == Photos!Photos = PhotosIn(media) /\ Photos!Heroes = HeroesIn(media)
BY DEF Photos!Photos, Photos!Heroes, PhotosIn, HeroesIn

\* There are finitely many ids, so the photos can be counted.
LEMMA PhotosAreFinite ==
  ASSUME NEW m, DOMAIN m \subseteq Photos!Ids
  PROVE  IsFiniteSet(PhotosIn(m)) /\ Cardinality(PhotosIn(m)) \in Nat
<1>1. IsFiniteSet(1..MaxIds)
  BY GallerySizes, FS_Interval
<1>2. PhotosIn(m) \in SUBSET (1..MaxIds)
  BY DEF PhotosIn, Photos!Ids
<1>3. IsFiniteSet(PhotosIn(m))
  BY <1>1, <1>2, FS_Subset
<1> QED BY <1>3, FS_CardinalityType

-----------------------------------------------------------------------------
(* One request goes on                                                     *)

\* An id given stays given, whatever a request becomes, unless it is the one it takes.
LEMMA GivenStays ==
  ASSUME NEW ed, DOMAIN ed = Slots, NEW n \in Nat, NEW n2 \in Nat, n <= n2,
         NEW s \in Slots, NEW e, Uploading(e) => e.target = n,
         NEW ed2, ed2 = [ed EXCEPT ![s] = e]
  PROVE  /\ \A i : Given(i, ed, n) => Given(i, ed2, n2)
         /\ \A l : ListFits(l, ed, n) => ListFits(l, ed2, n2)
<1>1. ASSUME NEW i, Given(i, ed, n) PROVE Given(i, ed2, n2)
  <2>1. i \in Photos!Ids /\ i \in Nat /\ i < n
    BY <1>1 DEF Given, Photos!Ids
  <2>2. ASSUME NEW t \in Slots, Uploading(ed2[t]) PROVE ed2[t].target # i
    <3>1. CASE t = s
      BY <2>1, <2>2, <3>1
    <3>2. CASE t # s
      BY <1>1, <2>2, <3>2 DEF Given
    <3> QED BY <3>1, <3>2
  <2> QED BY <2>1, <2>2 DEF Given
<1> QED BY <1>1 DEF ListFits

\* A request goes on to e, taking rows nobody else holds or letting go of its own, and the
\* table stays: the others notice nothing.
LEMMA SlotStep ==
  ASSUME NEW m, NEW n, NEW d, NEW ed, NEW h, GalleryFitsIn(m, n, d, ed, h),
         NEW n2 \in Nat, n <= n2, NEW s \in Slots, NEW e,
         NEW ed2, ed2 = [ed EXCEPT ![s] = e],
         NEW h2, DOMAIN h2 = DOMAIN h,
         \A r \in DOMAIN h : h2[r] = h[r] \/ (h[r] \in {Nothing, s} /\ h2[r] \in {Nothing, s}),
         \A i \in Photos!Ids : h2[i] # h[i] => h2[i] = Nothing \/ Given(i, ed, n),
         SlotFits(s, e, PhotosIn(m), HeroesIn(m), ed, h2), ListFits(e.list, ed, n),
         Uploading(e) => e.target = n /\ n < n2 /\ n \in Photos!Ids
  PROVE  GalleryFitsIn(m, n2, d, ed2, h2)
<1> USE NothingIsNoRequest
<1>1. /\ n \in Nat /\ DOMAIN h = {0} \cup Photos!Ids /\ DOMAIN ed = Slots
      /\ RowsFit(m, n, ed) /\ PageFits(d, ed, n)
      /\ \A i \in Photos!Ids : h[i] # Nothing => Given(i, ed, n)
      /\ Cardinality(PhotosIn(m)) <= MaxPhotos /\ \A i, j \in HeroesIn(m) : i = j
  BY DEF GalleryFitsIn
<1>2. \A i : Given(i, ed, n) => Given(i, ed2, n2)
  BY <1>1, GivenStays
<1>3. \A l : ListFits(l, ed, n) => ListFits(l, ed2, n2)
  BY <1>1, GivenStays
<1>4. ed2[s] = e /\ \A t \in Slots \ {s} : ed2[t] = ed[t]
  BY <1>1
<1>5. DOMAIN ed2 = Slots /\ DOMAIN h2 = {0} \cup Photos!Ids
  BY <1>1
<1>6. RowsFit(m, n2, ed2) /\ PageFits(d, ed2, n2)
  BY <1>1, <1>2, <1>3 DEF RowsFit, PageFits
<1>7. \A i \in Photos!Ids : h2[i] # Nothing => Given(i, ed2, n2)
  BY <1>1, <1>2
<1>8. \A t \in Slots \ {s} : \A r \in DOMAIN h : h2[r] = t <=> h[r] = t
  OBVIOUS
<1>9. PhotosIn(m) \subseteq DOMAIN h /\ HeroesIn(m) \subseteq PhotosIn(m)
  BY <1>1 DEF RowsFit, Given, PhotosIn, HeroesIn
<1>10. ASSUME NEW t \in Slots, t # s
       PROVE  /\ SlotFits(t, ed2[t], PhotosIn(m), HeroesIn(m), ed2, h2)
              /\ ListFits(ed2[t].list, ed2, n2) /\ Fresh(t, ed2[t], ed2, n2)
  <2> DEFINE f == ed[t]
             P == PhotosIn(m)
             H == HeroesIn(m)
  <2>0. ed2[t] = f
    BY <1>4, <1>10
  <2>1. SlotFits(t, f, P, H, ed, h) /\ ListFits(f.list, ed, n) /\ Fresh(t, f, ed, n)
    BY DEF GalleryFitsIn
  <2> HIDE DEF f, P, H
  <2>2. EditFits(f) /\ UploadFits(t, f, P, h2) /\ DeleteFits(t, f, H, h2)
    BY <1>1, <1>8, <1>10, <2>1 DEF SlotFits, UploadFits, DeleteFits
  <2>3. SaveFits(t, f, P, H, ed2, h2)
    <3> SUFFICES ASSUME Saving(f) PROVE SaveFits(t, f, P, H, ed2, h2)
      BY DEF SaveFits
    <3>0. P \subseteq DOMAIN h /\ H \subseteq P
      BY <1>9 DEF P, H
    <3>1. /\ OneHero(f.list) /\ (f.stage = "commit" => IdsOf(f.list) \subseteq P)
          /\ \A i \in IdsOf(f.list) \cap P : h[i] = t
      BY <2>1 DEF SlotFits, SaveFits
    <3>2. \A i \in P : h2[i] = t <=> h[i] = t
      BY <1>8, <1>10, <3>0
    <3>3. ASSUME NEW j \in P, h2[j] = t
          PROVE  /\ \A i \in H : h2[i] = t
                 /\ \A u \in Slots \ {t} : Saving(ed2[u]) => \A i \in P : h2[i] # u
      <4>1. h[j] = t
        BY <3>2, <3>3
      <4>2. /\ \A i \in H : h[i] = t
            /\ \A u \in Slots \ {t} : Saving(ed[u]) => \A i \in P : h[i] # u
        BY <2>1, <4>1 DEF SlotFits, SaveFits
      <4>3. \A i \in H : h2[i] = t
        BY <3>0, <3>2, <4>2
      <4>4. ASSUME NEW u \in Slots \ {t}, Saving(ed2[u]), NEW i \in P PROVE h2[i] # u
        <5>1. CASE u = s
          <6>1. SaveFits(s, e, P, H, ed, h2) /\ Saving(e)
            BY <1>4, <4>4, <5>1 DEF SlotFits, P, H
          <6>2. Saving(ed[t])
            BY DEF f
          <6>3. h2[i] = s => \A x \in P : h2[x] # t
            BY <1>10, <6>1, <6>2 DEF SaveFits
          <6> QED BY <3>3, <5>1, <6>3
        <5>2. CASE u # s
          <6>1. Saving(ed[u])
            BY <1>4, <4>4, <5>2
          <6>2. h[i] # u
            BY <4>2, <6>1
          <6> QED BY <1>8, <3>0, <5>2, <6>2
        <5> QED BY <5>1, <5>2
      <4> QED BY <4>3, <4>4
    <3> QED BY <3>1, <3>2, <3>3 DEF SaveFits
  <2>4. ListFits(f.list, ed2, n2)
    BY <1>3, <2>1
  <2>5. Fresh(t, f, ed2, n2)
    <3> SUFFICES ASSUME Uploading(f)
                 PROVE  /\ f.target \in Photos!Ids /\ f.target < n2
                        /\ \A u \in Slots \ {t} : Uploading(ed2[u]) => ed2[u].target # f.target
      BY DEF Fresh
    <3>1. f.target \in Photos!Ids /\ f.target \in Nat /\ f.target < n
      BY <2>1 DEF Fresh, Photos!Ids
    <3>2. \A u \in Slots \ {t} : Uploading(ed[u]) => ed[u].target # f.target
      BY <2>1 DEF Fresh
    <3>3. Uploading(e) => e.target # f.target
      BY <1>1, <3>1
    <3>4. \A u \in Slots \ {t} : Uploading(ed2[u]) => ed2[u].target # f.target
      BY <1>4, <3>2, <3>3
    <3> QED BY <1>1, <3>1, <3>4
  <2> QED BY <2>0, <2>1, <2>2, <2>3, <2>4, <2>5 DEF SlotFits, P, H
<1>11. /\ SlotFits(s, ed2[s], PhotosIn(m), HeroesIn(m), ed2, h2)
       /\ ListFits(ed2[s].list, ed2, n2) /\ Fresh(s, ed2[s], ed2, n2)
  <2>1. SlotFits(s, e, PhotosIn(m), HeroesIn(m), ed2, h2)
    BY <1>4 DEF SlotFits, SaveFits
  <2>2. ASSUME Uploading(e), NEW u \in Slots \ {s}, Uploading(ed2[u]) PROVE ed2[u].target # e.target
    <3>1. Fresh(u, ed[u], ed, n) /\ Uploading(ed[u])
      BY <1>4, <2>2 DEF GalleryFitsIn
    <3>2. ed[u].target \in Nat /\ ed[u].target < n
      BY <3>1 DEF Fresh, Photos!Ids
    <3> QED BY <1>1, <1>4, <2>2, <3>2
  <2>3. Fresh(s, e, ed2, n2)
    BY <2>2 DEF Fresh
  <2> QED BY <1>3, <1>4, <2>1, <2>3
<1>12. n2 \in Nat \ {0}
  BY DEF GalleryFitsIn
<1> QED BY <1>1, <1>5, <1>6, <1>7, <1>10, <1>11, <1>12 DEF GalleryFitsIn

\* A request that only starts, or has ended, stands in nobody's way.
Harmless(e) ==
  /\ EditFits(e) /\ ~Uploading(e) /\ ~Saving(e)
  /\ e.kind = "photo" => e.stage \notin {"insert", "commit"}
  /\ e.kind = "delete" => e.stage \notin {"promote", "crown", "commit"}
  /\ e.kind = "delete" /\ e.stage = "delete" => e.hero = 0

\* A request that has nothing of its own yet may change its course and give locks back.
LEMMA HarmlessStep ==
  ASSUME NEW m, NEW n, NEW d, NEW ed, NEW h, GalleryFitsIn(m, n, d, ed, h),
         NEW s \in Slots, NEW e, Harmless(e), ListFits(e.list, ed, n),
         NEW ed2, ed2 = [ed EXCEPT ![s] = e],
         NEW h2, DOMAIN h2 = DOMAIN h,
         \A r \in DOMAIN h : h2[r] = h[r] \/ (h[r] = s /\ h2[r] = Nothing)
  PROVE  GalleryFitsIn(m, n, d, ed2, h2)
<1>1. n \in Nat /\ n <= n /\ DOMAIN h = {0} \cup Photos!Ids
  BY DEF GalleryFitsIn
<1>2. SlotFits(s, e, PhotosIn(m), HeroesIn(m), ed, h2)
  BY DEF SlotFits, Harmless, UploadFits, DeleteFits, SaveFits
<1>3. \A i \in Photos!Ids : h2[i] # h[i] => h2[i] = Nothing
  BY <1>1
<1>4. ~Uploading(e)
  BY DEF Harmless
<1> QED BY <1>1, <1>2, <1>3, <1>4, SlotStep
-----------------------------------------------------------------------------
(* The page                                                                *)

\* What the state says, in the terms of the invariant.
Fitting == GalleryFitsIn(media, nextId, galleryQ.data, edit, holder)
FittingNext == GalleryFitsIn(media', nextId', galleryQ'.data, edit', holder')

\* A request without a list asks for no photo.
LEMMA EmptyList == ASSUME NEW ed, NEW n PROVE ListFits(<<>>, ed, n)
BY FS_EmptySet DEF ListFits

\* A request is begun by a page.
LEMMA BeginStep ==
  ASSUME Fitting, NEW s \in Slots, NEW e, Photos!Begin(s, e), Harmless(e),
         ListFits(e.list, edit, nextId)
  PROVE  FittingNext
<1>1. /\ edit' = [edit EXCEPT ![s] = e]
      /\ UNCHANGED <<media, nextId, galleryQ, holder>>
  BY DEF Photos!Begin
<1> QED BY <1>1, HarmlessStep DEF Fitting, FittingNext

\* A save starts from a list the page was shown.
LEMMA PostStep ==
  ASSUME Fitting, NEW s \in Slots, NEW kind \in {"save", "alt"}, NEW list,
         Photos!Post(s, kind, list), ListFits(list, edit, nextId)
  PROVE  FittingNext
<1> DEFINE e == [Photos!NoEdit EXCEPT !.kind = kind, !.own = TRUE, !.list = list, !.stage = "clear"]
<1>1. e.kind = kind /\ e.stage = "clear" /\ e.list = list /\ DOMAIN e = EditFields
  BY DEF Photos!NoEdit, EditFields
<1> HIDE DEF e
<1>2. Harmless(e)
  BY <1>1 DEF Harmless, EditFits, Uploading, Saving
<1>3. Photos!Begin(s, e)
  BY DEF Photos!Post, e
<1> QED BY <1>1, <1>2, <1>3, BeginStep

\* What the editor and its colleague may send fits the table.
LEMMA PageSteps ==
  ASSUME Fitting, NEW s \in Slots,
         \/ Photos!MakeHero(s) \/ Photos!MoveUp(s) \/ Photos!SaveAlt(s) \/ Photos!DeleteShown(s)
         \/ Photos!UploadPhoto(s) \/ Photos!UploadVideo(s) \/ Photos!Colleague(s)
  PROVE  FittingNext
<1> DEFINE l == Photos!Shown
<1>1. galleryQ.data # Nothing =>
        /\ Len(l) \in Nat /\ DOMAIN l = 1..Len(l) /\ ListFits(l, edit, nextId)
  BY DEF Fitting, GalleryFitsIn, PageFits, Photos!Shown
<1>2. CASE Photos!MakeHero(s)
  <2>1. PICK k \in DOMAIN l :
          Photos!Post(s, "save", [j \in DOMAIN l |-> [l[j] EXCEPT !.hero = (j = k)]])
    BY <1>2 DEF Photos!MakeHero
  <2>2. ListFits(l, edit, nextId)
    BY <1>1, <1>2 DEF Photos!MakeHero, Photos!RQ!Loaded
  <2>3. ListFits([j \in DOMAIN l |-> [l[j] EXCEPT !.hero = (j = k)]], edit, nextId)
    BY <2>2 DEF ListFits
  <2> QED BY <2>1, <2>3, PostStep
<1>3. CASE Photos!MoveUp(s)
  <2>1. PICK k \in 2..Len(l) :
          Photos!Post(s, "save", [l EXCEPT ![k - 1] = l[k], ![k] = l[k - 1]])
    BY <1>3 DEF Photos!MoveUp
  <2>2. ListFits(l, edit, nextId) /\ Len(l) \in Nat /\ DOMAIN l = 1..Len(l)
    BY <1>1, <1>3 DEF Photos!MoveUp, Photos!RQ!Loaded
  <2>3. k \in DOMAIN l /\ k - 1 \in DOMAIN l
    BY <2>2
  <2>4. ListFits([l EXCEPT ![k - 1] = l[k], ![k] = l[k - 1]], edit, nextId)
    BY <2>2, <2>3 DEF ListFits
  <2> QED BY <2>1, <2>4, PostStep
<1>4. CASE Photos!SaveAlt(s)
  <2>1. Photos!Post(s, "alt", l) /\ ListFits(l, edit, nextId)
    BY <1>1, <1>4 DEF Photos!SaveAlt, Photos!RQ!Loaded
  <2> QED BY <2>1, PostStep
<1>5. CASE Photos!DeleteShown(s)
  <2>1. PICK i : Photos!Begin(s, [Photos!NoEdit EXCEPT !.kind = "delete", !.own = TRUE, !.target = i,
                                                   !.stage = "delete"])
    BY <1>5 DEF Photos!DeleteShown
  <2> DEFINE e == [Photos!NoEdit EXCEPT !.kind = "delete", !.own = TRUE, !.target = i, !.stage = "delete"]
  <2>2. e.kind = "delete" /\ e.stage = "delete" /\ e.hero = 0 /\ e.list = <<>> /\ DOMAIN e = EditFields
    BY DEF Photos!NoEdit, EditFields
  <2> HIDE DEF e
  <2>3. Harmless(e)
    BY <2>2 DEF Harmless, EditFits, Uploading, Saving
  <2>4. Photos!Begin(s, e) /\ ListFits(e.list, edit, nextId)
    BY <2>1, <2>2, EmptyList DEF e
  <2> QED BY <2>3, <2>4, BeginStep
<1>6. CASE Photos!UploadPhoto(s) \/ Photos!UploadVideo(s) \/ Photos!Colleague(s)
  <2>1. PICK e \in {[Photos!NoEdit EXCEPT !.kind = "photo", !.own = TRUE, !.stage = "lock"],
                    [Photos!NoEdit EXCEPT !.kind = "video", !.own = TRUE, !.stage = "insert"],
                    [Photos!NoEdit EXCEPT !.kind = "photo", !.stage = "lock"]} : Photos!Begin(s, e)
    BY <1>6 DEF Photos!UploadPhoto, Photos!UploadVideo, Photos!Colleague
  <2>2. /\ DOMAIN Photos!NoEdit = EditFields /\ Photos!NoEdit.list = <<>>
    BY DEF Photos!NoEdit, EditFields
  <2>2a. /\ (e.kind = "photo" /\ e.stage = "lock") \/ (e.kind = "video" /\ e.stage = "insert")
         /\ e.list = <<>> /\ DOMAIN e = EditFields
    BY <2>2 DEF EditFields
  <2>3. Harmless(e)
    BY <2>2a DEF Harmless, EditFits, Uploading, Saving
  <2> QED BY <2>1, <2>2a, <2>3, EmptyList, BeginStep
<1> QED BY <1>2, <1>3, <1>4, <1>5, <1>6

\* A request that ends is harmless, and lets go of its rows.
LEMMA FinishFacts ==
  ASSUME Fitting, NEW s \in Slots, NEW answer \in {"ok", "refused"}, Photos!Finish(s, answer),
         edit[s].kind # "none"
  PROVE  /\ Harmless(edit'[s]) /\ edit'[s].list = <<>> /\ edit' = [edit EXCEPT ![s] = edit'[s]]
         /\ DOMAIN holder' = DOMAIN holder
         /\ \A r \in DOMAIN holder : holder'[r] = holder[r] \/ (holder[r] = s /\ holder'[r] = Nothing)
<1> DEFINE e == edit'[s]
<1>1. DOMAIN edit = Slots /\ EditFits(edit[s])
  BY DEF Fitting, GalleryFitsIn, SlotFits
<1>2. /\ e.list = <<>> /\ DOMAIN e = EditFields
      /\ \/ e.kind = "none" /\ e.stage = "none"
         \/ e.kind = edit[s].kind /\ e.stage = answer
  BY <1>1 DEF Photos!Finish, Photos!NoEdit, EditFields
<1>3. edit' = [edit EXCEPT ![s] = e]
  BY <1>1 DEF Photos!Finish
<1>4. /\ DOMAIN holder' = DOMAIN holder
      /\ \A r \in DOMAIN holder : holder'[r] = holder[r] \/ (holder[r] = s /\ holder'[r] = Nothing)
  BY DEF Photos!Finish
<1> HIDE DEF e
<1>5. Harmless(e)
  BY <1>1, <1>2 DEF Harmless, EditFits, Uploading, Saving
<1> QED BY <1>2, <1>3, <1>4, <1>5 DEF e

\* A request that ends gives its locks back and wants nothing any more.
LEMMA FinishStep ==
  ASSUME Fitting, NEW s \in Slots, NEW answer \in {"ok", "refused"}, Photos!Finish(s, answer),
         edit[s].kind # "none"
  PROVE  GalleryFitsIn(media, nextId, galleryQ.data, edit', holder')
<1> DEFINE e == edit'[s]
<1>1. /\ Harmless(e) /\ e.list = <<>> /\ edit' = [edit EXCEPT ![s] = e]
      /\ DOMAIN holder' = DOMAIN holder
      /\ \A r \in DOMAIN holder : holder'[r] = holder[r] \/ (holder[r] = s /\ holder'[r] = Nothing)
  BY FinishFacts
<1> HIDE DEF e
<1>2. ListFits(e.list, edit, nextId) /\ GalleryFitsIn(media, nextId, galleryQ.data, edit, holder)
  BY <1>1, EmptyList DEF Fitting
<1> QED BY <1>1, <1>2, HarmlessStep

\* So does one that is refused.
LEMMA RefuseStep ==
  ASSUME Fitting, NEW s \in Slots, Photos!Refuse(s), edit[s].kind # "none" PROVE FittingNext
BY FinishStep DEF Photos!Refuse, FittingNext
-----------------------------------------------------------------------------
(* The transactions, up to their commit                                    *)

\* What the facts of one slot are.
LEMMA SlotFacts ==
  ASSUME Fitting, NEW s \in Slots
  PROVE  /\ DOMAIN edit = Slots /\ EditFits(edit[s]) /\ nextId \in Nat /\ nextId # 0
         /\ UploadFits(s, edit[s], PhotosIn(media), holder)
         /\ DeleteFits(s, edit[s], HeroesIn(media), holder)
         /\ SaveFits(s, edit[s], PhotosIn(media), HeroesIn(media), edit, holder)
         /\ ListFits(edit[s].list, edit, nextId) /\ Fresh(s, edit[s], edit, nextId)
         /\ DOMAIN holder = {0} \cup Photos!Ids /\ RowsFit(media, nextId, edit)
BY DEF Fitting, GalleryFitsIn, SlotFits

\* Only the stage of a request changes.
LEMMA GotoFacts ==
  ASSUME Fitting, NEW s \in Slots, NEW stage, stage # "none", Photos!Goto(s, stage)
  PROVE  /\ edit' = [edit EXCEPT ![s] = edit'[s]]
         /\ edit'[s].kind = edit[s].kind /\ edit'[s].hero = edit[s].hero
         /\ edit'[s].target = edit[s].target /\ edit'[s].list = edit[s].list
         /\ edit'[s].stage = stage /\ (edit[s].kind # "none" => EditFits(edit'[s]))
<1>1. DOMAIN edit = Slots /\ EditFits(edit[s])
  BY SlotFacts
<1>2. edit' = [edit EXCEPT ![s].stage = stage]
  BY DEF Photos!Goto
<1>3. edit'[s] = [edit[s] EXCEPT !.stage = stage]
  BY <1>1, <1>2
<1>4. edit' = [edit EXCEPT ![s] = edit'[s]]
  BY <1>1, <1>2
<1> QED BY <1>1, <1>3, <1>4 DEF EditFits, EditFields

\* An upload takes the product row; no other can be past its count (AddProductImage).
LEMMA LockProductStep ==
  ASSUME Fitting, NEW s \in Slots, Photos!LockProduct(s) PROVE FittingNext
<1> DEFINE e == edit'[s]
<1>1. /\ edit[s].kind = "photo" /\ Photos!Goto(s, "insert") /\ holder[0] = Nothing
      /\ holder' = [holder EXCEPT ![0] = s] /\ UNCHANGED <<media, nextId, galleryQ>>
  BY DEF Photos!LockProduct, Photos!At
<1>2. /\ edit' = [edit EXCEPT ![s] = e] /\ EditFits(e) /\ e.kind = "photo" /\ e.stage = "insert"
      /\ e.list = edit[s].list
  BY <1>1, GotoFacts
<1> HIDE DEF e
<1>3. 0 \notin Photos!Ids
  BY DEF Photos!Ids
<1>4. DOMAIN holder = {0} \cup Photos!Ids
  BY SlotFacts
<1>5. /\ DOMAIN holder' = DOMAIN holder /\ holder'[0] = s
      /\ \A i \in Photos!Ids : holder'[i] = holder[i]
  BY <1>1, <1>3, <1>4
<1>6. SlotFits(s, e, PhotosIn(media), HeroesIn(media), edit, holder')
  BY <1>2, <1>5 DEF SlotFits, UploadFits, DeleteFits, SaveFits, Saving
<1>7. \A r \in DOMAIN holder : holder'[r] = holder[r] \/ (holder[r] \in {Nothing, s} /\ holder'[r] \in {Nothing, s})
  BY <1>1, <1>4, <1>5
<1>8. nextId \in Nat /\ nextId <= nextId /\ ~Uploading(e) /\ ListFits(e.list, edit, nextId)
  BY <1>2, SlotFacts DEF Uploading
<1>9. \A i \in Photos!Ids : holder'[i] # holder[i] => Given(i, edit, nextId)
  BY <1>5
<1>10. GalleryFitsIn(media, nextId, galleryQ.data, edit, holder)
  BY DEF Fitting
<1>11. GalleryFitsIn(media, nextId, galleryQ.data, edit', holder')
  BY <1>2, <1>5, <1>6, <1>7, <1>8, <1>9, <1>10, SlotStep
<1> QED BY <1>1, <1>11 DEF FittingNext

\* A new row gets an id of its own, above all that were ever given.
LEMMA InsertStep ==
  ASSUME Fitting, NEW s \in Slots, Photos!Insert(s) PROVE FittingNext
<1> DEFINE e == edit'[s]
           P == PhotosIn(media)
<1>0. edit[s].kind \in {"photo", "video"} /\ edit[s].stage = "insert" /\ nextId <= MaxIds
  BY DEF Photos!Insert, Photos!At
<1>1. CASE Photos!Refuse(s)
  BY <1>0, <1>1, RefuseStep
<1>2. CASE ~Photos!Refuse(s)
  <2>1. /\ edit' = [edit EXCEPT ![s].target = nextId, ![s].stage = "commit",
                 ![s].hero = IF edit[s].kind = "photo" /\ P = {} THEN nextId ELSE 0,
                 ![s].pos = IF edit[s].kind = "video" \/ P = {} THEN 0
                            ELSE Photos!Max({media[i].pos : i \in P}) + 1]
        /\ nextId' = nextId + 1 /\ UNCHANGED <<media, galleryQ, holder>>
        /\ edit[s].kind = "photo" => ~(Cardinality(P) >= MaxPhotos)
    BY <1>2, SameSets, SameCount DEF Photos!Insert
  <2>2. /\ DOMAIN edit = Slots /\ EditFits(edit[s]) /\ nextId \in Nat
        /\ UploadFits(s, edit[s], P, holder) /\ ListFits(edit[s].list, edit, nextId)
        /\ DOMAIN media \subseteq Photos!Ids
    BY SlotFacts DEF RowsFit, Given
  <2>3. Cardinality(P) \in Nat
    BY <2>2, PhotosAreFinite
  <2> HIDE DEF P
  <2>4. /\ edit' = [edit EXCEPT ![s] = e]
        /\ DOMAIN e = DOMAIN edit[s] /\ e.kind = edit[s].kind /\ e.target = nextId
        /\ e.stage = "commit" /\ e.list = edit[s].list
        /\ e.hero = IF edit[s].kind = "photo" /\ P = {} THEN nextId ELSE 0
    BY <2>1, <2>2 DEF EditFits, EditFields
  <2> HIDE DEF e
  <2>5. EditFits(e) /\ nextId \in Photos!Ids /\ nextId < nextId + 1 /\ nextId + 1 \in Nat
        /\ nextId <= nextId + 1
    <3>1. nextId # 0
      BY SlotFacts
    <3>2. nextId \in Photos!Ids
      BY <1>0, <2>2, <3>1, GallerySizes DEF Photos!Ids
    <3>3. EditFits(e)
      BY <2>2, <2>4, <1>0 DEF EditFits
    <3> QED BY <2>2, <3>2, <3>3
  <2>6. UploadFits(s, e, P, holder)
    <3> SUFFICES ASSUME e.kind = "photo"
                 PROVE  /\ holder[0] = s /\ Cardinality(P) < MaxPhotos
                        /\ e.hero \in {0, e.target} /\ (e.hero # 0 => P = {})
      BY DEF UploadFits
    <3>1. holder[0] = s
      BY <1>0, <2>2, <2>4 DEF UploadFits
    <3>2. ~(Cardinality(P) >= MaxPhotos)
      BY <2>1, <2>4
    <3>3. Cardinality(P) < MaxPhotos
      BY <2>3, <3>2, GallerySizes
    <3> QED BY <2>4, <3>1, <3>3
  <2>7. SlotFits(s, e, P, HeroesIn(media), edit, holder)
    BY <1>0, <2>4, <2>5, <2>6 DEF SlotFits, DeleteFits, SaveFits, Saving
  <2>8. GalleryFitsIn(media, nextId + 1, galleryQ.data, edit', holder)
    BY <2>2, <2>4, <2>5, <2>7, SlotStep DEF Fitting, P
  <2> QED BY <2>1, <2>8 DEF FittingNext
<1> QED BY <1>1, <1>2

\* A request takes a row of the table that nobody else holds.
LEMMA TakenRow ==
  ASSUME Fitting, NEW s \in Slots, NEW i \in DOMAIN media, Photos!Available(s, i),
         holder' = [holder EXCEPT ![i] = s]
  PROVE  /\ i \in Photos!Ids /\ holder'[i] = s /\ DOMAIN holder' = DOMAIN holder
         /\ \A r \in DOMAIN holder :
              \/ holder'[r] = holder[r]
              \/ holder[r] \in {Nothing, s} /\ holder'[r] \in {Nothing, s}
         /\ \A r \in Photos!Ids : holder'[r] # holder[r] => Given(r, edit, nextId)
         /\ \A r \in DOMAIN holder : holder[r] = s => holder'[r] = s
BY SlotFacts DEF RowsFit, Given, Photos!Available

\* A deletion holds the row it deletes, and the one it crowns from the promotion on
\* (DeleteProductImage).
LEMMA DeletionSteps ==
  ASSUME Fitting, NEW s \in Slots,
         Photos!DeleteRow(s) \/ Photos!Promote(s) \/ Photos!Crown(s)
  PROVE  FittingNext
<1> DEFINE e == edit'[s]
<1>0. /\ edit[s].kind = "delete" /\ DOMAIN edit = Slots /\ EditFits(edit[s]) /\ nextId \in Nat
      /\ DeleteFits(s, edit[s], HeroesIn(media), holder) /\ ListFits(edit[s].list, edit, nextId)
  BY SlotFacts DEF Photos!DeleteRow, Photos!Promote, Photos!Crown, Photos!At
<1>1. ASSUME edit' = [edit EXCEPT ![s] = e], EditFits(e), e.kind = "delete", e.list = edit[s].list,
             UNCHANGED <<media, nextId, galleryQ>>, DeleteFits(s, e, HeroesIn(media), holder'),
             DOMAIN holder' = DOMAIN holder,
             \A r \in DOMAIN holder :
               \/ holder'[r] = holder[r]
               \/ holder[r] \in {Nothing, s} /\ holder'[r] \in {Nothing, s},
             \A r \in Photos!Ids : holder'[r] # holder[r] => Given(r, edit, nextId)
      PROVE  FittingNext
  <2> HIDE DEF e
  <2>1. SlotFits(s, e, PhotosIn(media), HeroesIn(media), edit, holder')
    BY <1>1 DEF SlotFits, UploadFits, SaveFits, Saving
  <2>2. ~Uploading(e) /\ nextId <= nextId
    BY <1>0, <1>1 DEF Uploading
  <2> QED BY <1>0, <1>1, <2>1, <2>2, SlotStep DEF Fitting, FittingNext
<1>2. CASE Photos!DeleteRow(s)
  <2> DEFINE i == edit[s].target
  <2>1. edit[s].stage = "delete" /\ edit[s].hero = 0
    BY <1>0, <1>2 DEF Photos!DeleteRow, Photos!At, DeleteFits
  <2>2. CASE i \notin DOMAIN media
    BY <1>0, <1>2, <2>2, RefuseStep DEF Photos!DeleteRow
  <2>3. CASE i \in DOMAIN media
    <3>1. /\ Photos!Available(s, i) /\ holder' = [holder EXCEPT ![i] = s]
          /\ Photos!Goto(s, IF i \in HeroesIn(media) THEN "promote" ELSE "commit")
          /\ UNCHANGED <<media, nextId, galleryQ>>
      BY <1>2, <2>3, SameSets DEF Photos!DeleteRow
    <3>2. /\ edit' = [edit EXCEPT ![s] = e] /\ e.kind = "delete" /\ e.hero = 0
          /\ e.target = i /\ e.list = edit[s].list /\ EditFits(e)
          /\ e.stage = IF i \in HeroesIn(media) THEN "promote" ELSE "commit"
      BY <1>0, <2>1, <3>1, GotoFacts
    <3> HIDE DEF e
    <3>3. /\ i \in Photos!Ids /\ holder'[i] = s /\ DOMAIN holder' = DOMAIN holder
          /\ \A r \in DOMAIN holder :
               \/ holder'[r] = holder[r]
               \/ holder[r] \in {Nothing, s} /\ holder'[r] \in {Nothing, s}
          /\ \A r \in Photos!Ids : holder'[r] # holder[r] => Given(r, edit, nextId)
      BY <2>3, <3>1, TakenRow
    <3>4. DeleteFits(s, e, HeroesIn(media), holder')
      BY <3>2, <3>3 DEF DeleteFits
    <3> QED BY <1>1, <3>1, <3>2, <3>3, <3>4 DEF e
  <2> QED BY <2>2, <2>3
<1>3. CASE Photos!Promote(s)
  <2>1. edit[s].stage = "promote" /\ UNCHANGED <<media, nextId, galleryQ, holder>>
    BY <1>3 DEF Photos!Promote, Photos!At
  <2>2. CASE Photos!Photos \ {edit[s].target} = {}
    <3>1. Photos!Goto(s, "commit")
      BY <1>3, <2>2 DEF Photos!Promote
    <3>2. /\ edit' = [edit EXCEPT ![s] = e] /\ e.kind = "delete" /\ e.hero = edit[s].hero
          /\ e.target = edit[s].target /\ e.list = edit[s].list /\ EditFits(e) /\ e.stage = "commit"
      BY <1>0, <3>1, GotoFacts
    <3>3. DeleteFits(s, e, HeroesIn(media), holder')
      BY <1>0, <2>1, <3>2 DEF DeleteFits
    <3> QED BY <1>1, <2>1, <3>2, <3>3
  <2>3. CASE Photos!Photos \ {edit[s].target} # {}
    <3>1. PICK i : edit' = [edit EXCEPT ![s].hero = i, ![s].stage = "crown"]
      BY <1>3, <2>3 DEF Photos!Promote
    <3>2. /\ edit' = [edit EXCEPT ![s] = e] /\ e.kind = "delete"
          /\ e.target = edit[s].target /\ e.list = edit[s].list /\ EditFits(e) /\ e.stage = "crown"
      BY <1>0, <3>1 DEF EditFits, EditFields
    <3>3. DeleteFits(s, e, HeroesIn(media), holder')
      BY <1>0, <2>1, <3>2 DEF DeleteFits
    <3> QED BY <1>1, <2>1, <3>2, <3>3
  <2> QED BY <2>2, <2>3
<1>4. CASE Photos!Crown(s)
  <2> DEFINE i == edit[s].hero
  <2>1. edit[s].stage = "crown" /\ UNCHANGED <<media, nextId, galleryQ>>
    BY <1>4 DEF Photos!Crown, Photos!At
  <2>2. CASE i \notin DOMAIN media
    <3>1. edit' = [edit EXCEPT ![s].hero = 0, ![s].stage = "commit"] /\ UNCHANGED holder
      BY <1>4, <2>2 DEF Photos!Crown
    <3>2. /\ edit' = [edit EXCEPT ![s] = e] /\ e.kind = "delete"
          /\ e.target = edit[s].target /\ e.list = edit[s].list /\ EditFits(e) /\ e.stage = "commit"
      BY <1>0, <3>1 DEF EditFits, EditFields
    <3>3. DeleteFits(s, e, HeroesIn(media), holder')
      BY <1>0, <2>1, <3>1, <3>2 DEF DeleteFits
    <3> QED BY <1>1, <2>1, <3>1, <3>2, <3>3
  <2>3. CASE i \in DOMAIN media
    <3>1. /\ Photos!Available(s, i) /\ holder' = [holder EXCEPT ![i] = s] /\ Photos!Goto(s, "commit")
      BY <1>4, <2>3 DEF Photos!Crown
    <3>2. /\ edit' = [edit EXCEPT ![s] = e] /\ e.kind = "delete" /\ e.hero = i
          /\ e.target = edit[s].target /\ e.list = edit[s].list /\ EditFits(e) /\ e.stage = "commit"
      BY <1>0, <3>1, GotoFacts
    <3> HIDE DEF e
    <3>3. /\ DOMAIN holder' = DOMAIN holder
          /\ \A r \in DOMAIN holder :
               \/ holder'[r] = holder[r]
               \/ holder[r] \in {Nothing, s} /\ holder'[r] \in {Nothing, s}
          /\ \A r \in Photos!Ids : holder'[r] # holder[r] => Given(r, edit, nextId)
          /\ \A r \in DOMAIN holder : holder[r] = s => holder'[r] = s
      BY <2>3, <3>1, TakenRow
    <3>4. edit[s].target \in DOMAIN holder
      BY <1>0, <2>1, SlotFacts DEF DeleteFits
    <3>5. DeleteFits(s, e, HeroesIn(media), holder')
      BY <1>0, <2>1, <3>2, <3>3, <3>4 DEF DeleteFits
    <3> QED BY <1>1, <2>1, <3>2, <3>3, <3>5 DEF e
  <2> QED BY <2>2, <2>3
<1> QED BY <1>2, <1>3, <1>4

\* The handler's check lets one hero through.
LEMMA CheckedList ==
  ASSUME NEW l, IsFiniteSet(DOMAIN l), Cardinality({k \in DOMAIN l : l[k].hero}) = 1
  PROVE  OneHero(l)
<1> DEFINE K == {k \in DOMAIN l : l[k].hero}
<1>1. IsFiniteSet(K)
  BY FS_Subset
<1>2. PICK k : K = {k}
  BY <1>1, FS_Singleton
<1> QED BY <1>2 DEF OneHero

\* A save locks every row there is before it goes on, so the hero is its own (SaveProductImages).
LEMMA ClearStep ==
  ASSUME Fitting, NEW s \in Slots, Photos!Clear(s) PROVE FittingNext
<1> USE NothingIsNoRequest
<1> DEFINE e == edit'[s]
           l == edit[s].list
           P == PhotosIn(media)
           H == HeroesIn(media)
<1>0. /\ edit[s].kind \in {"save", "alt"} /\ edit[s].stage = "clear"
      /\ DOMAIN edit = Slots /\ EditFits(edit[s]) /\ nextId \in Nat
      /\ ListFits(l, edit, nextId) /\ RowsFit(media, nextId, edit)
      /\ DOMAIN holder = {0} \cup Photos!Ids
  BY SlotFacts DEF Photos!Clear, Photos!At
<1>1. CASE Photos!Refuse(s)
  BY <1>0, <1>1, RefuseStep
<1>2. CASE ~Photos!Refuse(s)
  <2>1. /\ \A i \in DOMAIN media : holder[i] \in {Nothing, s}
        /\ holder' = [row \in DOMAIN holder |-> IF row \in DOMAIN media THEN s ELSE holder[row]]
        /\ Photos!Goto(s, "apply") /\ UNCHANGED <<media, nextId, galleryQ>>
        /\ Cardinality({k \in DOMAIN l : l[k].hero}) = 1
    BY <1>2, SameCount DEF Photos!Clear, Photos!Available
  <2>2. /\ edit' = [edit EXCEPT ![s] = e] /\ e.kind = edit[s].kind /\ e.stage = "apply" /\ e.list = l
        /\ EditFits(e)
    BY <1>0, <2>1, GotoFacts
  <2>3. OneHero(l)
    BY <1>0, <2>1, CheckedList DEF ListFits
  <2> HIDE DEF e, l
  <2>4. /\ DOMAIN media \subseteq DOMAIN holder /\ P \subseteq DOMAIN media /\ H \subseteq P
        /\ \A i \in P : holder[i] \in {Nothing, s} /\ holder'[i] = s
    BY <1>0, <2>1 DEF RowsFit, Given, PhotosIn, HeroesIn
  <2>5. /\ DOMAIN holder' = DOMAIN holder
        /\ \A r \in DOMAIN holder :
             \/ holder'[r] = holder[r]
             \/ holder[r] \in {Nothing, s} /\ holder'[r] \in {Nothing, s}
    BY <2>1
  <2>6. \A r \in Photos!Ids : holder'[r] # holder[r] => Given(r, edit, nextId)
    BY <1>0, <2>1 DEF RowsFit
  <2> HIDE DEF P, H
  <2>7. SaveFits(s, e, P, H, edit, holder')
    BY <2>2, <2>3, <2>4 DEF SaveFits
  <2>8. SlotFits(s, e, P, H, edit, holder')
    BY <1>0, <2>2, <2>7 DEF SlotFits, UploadFits, DeleteFits
  <2>9. ~Uploading(e) /\ ListFits(e.list, edit, nextId) /\ nextId <= nextId
    BY <1>0, <2>2 DEF Uploading
  <2> QED BY <1>0, <2>1, <2>2, <2>5, <2>6, <2>8, <2>9, SlotStep DEF Fitting, FittingNext, P, H
<1> QED BY <1>1, <1>2

\* A save goes on to its commit only while every photo of its list is there.
LEMMA ApplyStep ==
  ASSUME Fitting, NEW s \in Slots, Photos!Apply(s) PROVE FittingNext
<1> DEFINE e == edit'[s]
           P == PhotosIn(media)
           H == HeroesIn(media)
<1>0. /\ edit[s].kind \in {"save", "alt"} /\ edit[s].stage = "apply" /\ nextId \in Nat
      /\ SaveFits(s, edit[s], P, H, edit, holder) /\ ListFits(edit[s].list, edit, nextId)
  BY SlotFacts DEF Photos!Apply, Photos!At
<1>1. CASE Photos!Refuse(s)
  BY <1>0, <1>1, RefuseStep
<1>2. CASE ~Photos!Refuse(s)
  <2>1. /\ Photos!Goto(s, "commit") /\ UNCHANGED <<media, nextId, galleryQ, holder>>
        /\ IdsOf(edit[s].list) \subseteq P
    BY <1>2, SameSets DEF Photos!Apply, Photos!Listed, IdsOf
  <2>2. /\ edit' = [edit EXCEPT ![s] = e] /\ e.kind = edit[s].kind /\ e.stage = "commit"
        /\ e.list = edit[s].list /\ EditFits(e)
    BY <1>0, <2>1, GotoFacts
  <2> HIDE DEF e, P, H
  <2>3. SaveFits(s, e, P, H, edit, holder')
    BY <1>0, <2>1, <2>2 DEF SaveFits, Saving
  <2>4. SlotFits(s, e, P, H, edit, holder')
    BY <1>0, <2>2, <2>3 DEF SlotFits, UploadFits, DeleteFits
  <2>5. ~Uploading(e) /\ ListFits(e.list, edit, nextId) /\ nextId <= nextId
    BY <1>0, <2>2 DEF Uploading
  <2> QED BY <1>0, <2>1, <2>2, <2>4, <2>5, SlotStep DEF Fitting, FittingNext, P, H
<1> QED BY <1>1, <1>2
-----------------------------------------------------------------------------
(* The commits                                                             *)

\* What a commit leaves of the table is enough to know: the others are where they were.
LEMMA TableStep ==
  ASSUME Fitting, NEW s \in Slots, Photos!Commit(s), edit[s].kind # "none",
         NEW P, P = PhotosIn(media'), NEW H, H = HeroesIn(media'),
         \A i \in DOMAIN media' : DOMAIN media'[i] = {"kind", "pos", "hero"} /\ Given(i, edit', nextId),
         \A t \in Slots \ {s} : /\ UploadFits(t, edit[t], P, holder)
                                   /\ DeleteFits(t, edit[t], H, holder)
                                   /\ SaveFits(t, edit[t], P, H, edit, holder),
         Cardinality(P) <= MaxPhotos, \A i, j \in H : i = j
  PROVE  FittingNext
<1> USE NothingIsNoRequest
<1>1. Photos!Finish(s, "ok") /\ UNCHANGED <<nextId, galleryQ>>
  BY DEF Photos!Commit
<1>2. GalleryFitsIn(media, nextId, galleryQ.data, edit', holder')
  BY <1>1, FinishStep
<1>3. /\ Harmless(edit'[s]) /\ edit' = [edit EXCEPT ![s] = edit'[s]]
      /\ DOMAIN holder' = DOMAIN holder
      /\ \A r \in DOMAIN holder : holder'[r] = holder[r] \/ (holder[r] = s /\ holder'[r] = Nothing)
  BY <1>1, FinishFacts
<1>4. \A t \in Slots \ {s} : edit'[t] = edit[t] /\ EditFits(edit[t])
  BY <1>3, SlotFacts
<1>5. \A t \in Slots \ {s}, r \in DOMAIN holder : holder'[r] = t <=> holder[r] = t
  BY <1>3
<1>6. DOMAIN holder = {0} \cup Photos!Ids
  BY SlotFacts
<1>7. P \subseteq Photos!Ids /\ H \subseteq P
  BY DEF PhotosIn, HeroesIn, Given
<1>8. SlotFits(s, edit'[s], P, H, edit', holder')
  BY <1>3 DEF SlotFits, Harmless, UploadFits, DeleteFits, SaveFits
<1>9. ASSUME NEW t \in Slots, t # s PROVE SlotFits(t, edit'[t], P, H, edit', holder')
  <2> DEFINE f == edit[t]
  <2>1. edit'[t] = f /\ EditFits(f)
    BY <1>4, <1>9
  <2>2. UploadFits(t, f, P, holder) /\ DeleteFits(t, f, H, holder) /\ SaveFits(t, f, P, H, edit, holder)
    BY <1>9
  <2>3. \A r \in {0} \cup Photos!Ids : holder'[r] = t <=> holder[r] = t
    BY <1>5, <1>6, <1>9
  <2>4. \A u \in Slots \ {t} : Saving(edit'[u]) =>
          Saving(edit[u]) /\ \A r \in DOMAIN holder : holder'[r] = u <=> holder[r] = u
    BY <1>3, <1>4, <1>5 DEF Harmless
  <2> HIDE DEF f
  <2>5. UploadFits(t, f, P, holder') /\ DeleteFits(t, f, H, holder')
    BY <2>2, <2>3 DEF UploadFits, DeleteFits
  <2>6. SaveFits(t, f, P, H, edit', holder')
    <3> SUFFICES ASSUME Saving(f) PROVE SaveFits(t, f, P, H, edit', holder')
      BY DEF SaveFits
    <3>1. /\ OneHero(f.list) /\ (f.stage = "commit" => IdsOf(f.list) \subseteq P)
          /\ \A i \in IdsOf(f.list) \cap P : holder[i] = t
      BY <2>2 DEF SaveFits
    <3>2. \A i \in P : holder'[i] = t <=> holder[i] = t
      BY <1>7, <2>3
    <3>3. (\E i \in P : holder[i] = t) =>
            /\ \A i \in H : holder[i] = t
            /\ \A u \in Slots \ {t} : Saving(edit[u]) => \A i \in P : holder[i] # u
      BY <2>2 DEF SaveFits
    <3>4. (\E i \in P : holder'[i] = t) => \A i \in H : holder'[i] = t
      BY <1>7, <3>2, <3>3
    <3>5. (\E i \in P : holder'[i] = t) =>
            \A u \in Slots \ {t} : Saving(edit'[u]) => \A i \in P : holder'[i] # u
      BY <1>6, <1>7, <2>4, <3>2, <3>3
    <3> QED BY <3>1, <3>2, <3>4, <3>5 DEF SaveFits
  <2> QED BY <2>1, <2>5, <2>6 DEF SlotFits
<1>10. \A t \in Slots : SlotFits(t, edit'[t], P, H, edit', holder')
  BY <1>8, <1>9
<1>11. RowsFit(media', nextId, edit')
  BY DEF RowsFit
<1>12. GalleryFitsIn(media', nextId, galleryQ.data, edit', holder')
  BY <1>2, <1>10, <1>11 DEF GalleryFitsIn
<1> QED BY <1>1, <1>12 DEF FittingNext

\* What was given to a row is still given once s has ended.
LEMMA StillGiven ==
  ASSUME Fitting, NEW s \in Slots, Photos!Commit(s), edit[s].kind # "none",
         NEW i, Given(i, edit, nextId) \/ (Uploading(edit[s]) /\ i = edit[s].target)
  PROVE  Given(i, edit', nextId)
<1>1. Harmless(edit'[s]) /\ edit' = [edit EXCEPT ![s] = edit'[s]]
  BY FinishFacts DEF Photos!Commit
<1>2. \A t \in Slots \ {s} : edit'[t] = edit[t]
  BY <1>1, SlotFacts
<1>3. ~Uploading(edit'[s])
  BY <1>1 DEF Harmless
<1>4. Fresh(s, edit[s], edit, nextId)
  BY SlotFacts
<1> QED BY <1>2, <1>3, <1>4 DEF Given, Fresh

\* The row of an upload joins the table: a photo counted under the product's lock, the hero
\* only of an empty gallery, and locked by nobody.
LEMMA UploadCommits ==
  ASSUME Fitting, NEW s \in Slots, Photos!Commit(s), Uploading(edit[s])
  PROVE  FittingNext
<1> USE NothingIsNoRequest
<1> DEFINE e == edit[s]
           x == e.target
           P == PhotosIn(media)
           H == HeroesIn(media)
           Q == PhotosIn(media')
           K == HeroesIn(media')
<1>0. e.kind \in {"photo", "video"} /\ e.stage = "commit"
  BY DEF Uploading
<1>1. media' = [i \in DOMAIN media \cup {x} |-> IF i # x THEN media[i] ELSE
                  [kind |-> IF e.kind = "photo" THEN "image" ELSE "video",
                   pos |-> e.pos, hero |-> e.hero = i]]
  BY <1>0 DEF Photos!Commit, Photos!Written
<1>2. RowsFit(media, nextId, edit) /\ UploadFits(s, e, P, holder) /\ Fresh(s, e, edit, nextId)
  BY SlotFacts
<1>3. ~Given(x, edit, nextId)
  BY DEF Given
<1>4. x \in Photos!Ids /\ x \notin DOMAIN media /\ holder[x] = Nothing
  BY <1>2, <1>3 DEF RowsFit, Fresh, Fitting, GalleryFitsIn
<1>5. /\ DOMAIN media' = DOMAIN media \cup {x} /\ \A i \in DOMAIN media : media'[i] = media[i]
      /\ DOMAIN media'[x] = {"kind", "pos", "hero"}
      /\ media'[x].kind = (IF e.kind = "photo" THEN "image" ELSE "video")
      /\ media'[x].hero <=> e.hero = x
  BY <1>1, <1>4
<1> HIDE DEF e, x
<1>6. Q = IF e.kind = "photo" THEN P \cup {x} ELSE P
  BY <1>4, <1>5 DEF PhotosIn
<1>7. K = IF e.kind = "photo" /\ e.hero = x THEN H \cup {x} ELSE H
  BY <1>4, <1>5, <1>6 DEF PhotosIn, HeroesIn
<1>8. e.kind = "photo" => holder[0] = s /\ Cardinality(P) < MaxPhotos /\ (e.hero = x => P = {})
  <2>1. x # 0
    BY <1>4 DEF Photos!Ids
  <2> QED BY <1>0, <1>2, <2>1 DEF UploadFits
<1>9. IsFiniteSet(P) /\ Cardinality(P) \in Nat
  BY <1>2, PhotosAreFinite DEF RowsFit, Given
<1>10. Cardinality(Q) <= MaxPhotos
  <2>1. CASE e.kind = "photo"
    <3>1. Cardinality(P \cup {x}) \in {Cardinality(P), Cardinality(P) + 1}
      BY <1>9, FS_AddElement
    <3> QED BY <1>6, <1>8, <1>9, <2>1, <3>1, GallerySizes
  <2>2. CASE e.kind # "photo"
    BY <1>6, <2>2 DEF Fitting, GalleryFitsIn
  <2> QED BY <2>1, <2>2
<1>11. H \subseteq P /\ \A i, j \in H : i = j
  BY DEF HeroesIn, Fitting, GalleryFitsIn
<1>12. \A i, j \in K : i = j
  BY <1>7, <1>8, <1>11
<1>13. \A i \in DOMAIN media' : DOMAIN media'[i] = {"kind", "pos", "hero"} /\ Given(i, edit', nextId)
  <2>1. \A i \in DOMAIN media' : Given(i, edit, nextId) \/ i = x
    BY <1>2, <1>5 DEF RowsFit
  <2>2. \A i \in DOMAIN media' : Given(i, edit', nextId)
    BY <1>0, <2>1, StillGiven DEF e, x
  <2> QED BY <1>2, <1>5, <2>2 DEF RowsFit
<1>14. ASSUME NEW t \in Slots \ {s}
       PROVE  /\ UploadFits(t, edit[t], Q, holder) /\ DeleteFits(t, edit[t], K, holder)
              /\ SaveFits(t, edit[t], Q, K, edit, holder)
  <2> DEFINE f == edit[t]
  <2>1. /\ UploadFits(t, f, P, holder) /\ DeleteFits(t, f, H, holder)
        /\ SaveFits(t, f, P, H, edit, holder) /\ ListFits(f.list, edit, nextId)
    BY SlotFacts
  <2> HIDE DEF f, P, H, Q, K
  <2>2. UploadFits(t, f, Q, holder)
    BY <1>6, <1>8, <1>14, <2>1 DEF UploadFits
  <2>3. H # {} => K = H
    BY <1>7, <1>8, <1>11
  <2>4. DeleteFits(t, f, K, holder)
    BY <2>1, <2>3 DEF DeleteFits
  <2>5. x \notin IdsOf(f.list)
    BY <1>3, <2>1 DEF ListFits, IdsOf, x, e
  <2>6. \A i \in Q : i \in P \/ (i = x /\ holder[i] = Nothing)
    BY <1>4, <1>6
  <2>7. SaveFits(t, f, Q, K, edit, holder)
    <3> SUFFICES ASSUME Saving(f) PROVE SaveFits(t, f, Q, K, edit, holder)
      BY DEF SaveFits
    <3>1. OneHero(f.list) /\ (f.stage = "commit" => IdsOf(f.list) \subseteq Q)
      BY <1>6, <2>1 DEF SaveFits
    <3>2. \A i \in IdsOf(f.list) \cap Q : holder[i] = t
      BY <2>1, <2>5, <2>6 DEF SaveFits
    <3>3. ASSUME NEW j \in Q, holder[j] = t
          PROVE  /\ \A i \in K : holder[i] = t
                 /\ \A u \in Slots \ {t} : Saving(edit[u]) => \A i \in Q : holder[i] # u
      <4>1. j \in P
        BY <2>6, <3>3
      <4>2. K = H
        BY <1>7, <1>8, <4>1
      <4>3. /\ \A i \in H : holder[i] = t
            /\ \A u \in Slots \ {t} : Saving(edit[u]) => \A i \in P : holder[i] # u
        BY <2>1, <3>3, <4>1 DEF SaveFits
      <4> QED BY <2>6, <4>2, <4>3
    <3> QED BY <3>1, <3>2, <3>3 DEF SaveFits
  <2> QED BY <2>2, <2>4, <2>7 DEF f
<1> QED BY <1>0, <1>10, <1>12, <1>13, <1>14, TableStep DEF e

\* A row is deleted under its lock; the next photo is crowned only if the row was the hero.
LEMMA DeleteCommits ==
  ASSUME Fitting, NEW s \in Slots, Photos!Commit(s), edit[s].kind = "delete"
  PROVE  FittingNext
<1> USE NothingIsNoRequest
<1> DEFINE e == edit[s]
           x == e.target
           P == PhotosIn(media)
           H == HeroesIn(media)
           Q == PhotosIn(media')
           K == HeroesIn(media')
<1>0. e.stage = "commit"
  BY DEF Photos!Commit
<1>1. media' = [i \in DOMAIN media \ {x} |-> [media[i] EXCEPT !.hero = @ \/ i = e.hero]]
  BY DEF Photos!Commit, Photos!Written
<1>2. RowsFit(media, nextId, edit) /\ DeleteFits(s, e, H, holder)
  BY SlotFacts
<1>3. holder[x] = s /\ (e.hero # 0 => x \in H)
  BY <1>0, <1>2 DEF DeleteFits
<1>4. /\ DOMAIN media' = DOMAIN media \ {x}
      /\ \A i \in DOMAIN media' : /\ DOMAIN media'[i] = {"kind", "pos", "hero"}
                                  /\ media'[i].kind = media[i].kind
                                  /\ media'[i].hero <=> (media[i].hero \/ i = e.hero)
  BY <1>1, <1>2 DEF RowsFit
<1>4a. \A i \in DOMAIN media : i # 0
  BY <1>2 DEF RowsFit, Given, Photos!Ids
<1> HIDE DEF e, x
<1>5. Q = P \ {x}
  BY <1>4 DEF PhotosIn
<1>6. H \subseteq P /\ \A i, j \in H : i = j
  BY DEF HeroesIn, Fitting, GalleryFitsIn
<1>7. e.hero = 0 => K = H \ {x}
  BY <1>4, <1>4a, <1>5 DEF PhotosIn, HeroesIn
<1>8. e.hero # 0 => K \subseteq {e.hero}
  <2> SUFFICES ASSUME e.hero # 0, NEW i \in K, i # e.hero PROVE FALSE
    OBVIOUS
  <2>1. i \in H /\ i # x
    BY <1>4, <1>5 DEF PhotosIn, HeroesIn
  <2> QED BY <1>3, <1>6, <2>1
<1>9. \A i, j \in K : i = j
  BY <1>6, <1>7, <1>8
<1>10. Cardinality(Q) <= MaxPhotos
  <2>1. IsFiniteSet(P) /\ Cardinality(P) \in Nat /\ Cardinality(P) <= MaxPhotos
    BY <1>2, PhotosAreFinite DEF RowsFit, Given, Fitting, GalleryFitsIn
  <2>2. Q \in SUBSET P
    BY <1>5
  <2>3. IsFiniteSet(Q) /\ Cardinality(Q) <= Cardinality(P)
    BY <2>1, <2>2, FS_Subset
  <2> QED BY <2>1, <2>3, FS_CardinalityType, GallerySizes
<1>11. \A i \in DOMAIN media' : DOMAIN media'[i] = {"kind", "pos", "hero"} /\ Given(i, edit', nextId)
  <2>1. \A i \in DOMAIN media' : Given(i, edit, nextId)
    BY <1>2, <1>4 DEF RowsFit
  <2> QED BY <1>4, <2>1, StillGiven DEF e
<1>12. ASSUME NEW t \in Slots \ {s}
       PROVE  /\ UploadFits(t, edit[t], Q, holder) /\ DeleteFits(t, edit[t], K, holder)
              /\ SaveFits(t, edit[t], Q, K, edit, holder)
  <2> DEFINE f == edit[t]
  <2>1. /\ UploadFits(t, f, P, holder) /\ DeleteFits(t, f, H, holder)
        /\ SaveFits(t, f, P, H, edit, holder)
    BY SlotFacts
  <2>2. IsFiniteSet(P) /\ Cardinality(P) \in Nat
    BY <1>2, PhotosAreFinite DEF RowsFit, Given
  <2> HIDE DEF f, P, H, Q, K
  <2>3. IsFiniteSet(Q) /\ Cardinality(Q) \in Nat /\ Cardinality(Q) <= Cardinality(P)
    BY <1>5, <2>2, FS_Subset, FS_CardinalityType
  <2>4. UploadFits(t, f, Q, holder)
    BY <1>5, <2>1, <2>2, <2>3, GallerySizes DEF UploadFits
  <2>5. ASSUME NEW i \in H, holder[i] = t PROVE i # x /\ e.hero = 0 /\ K = H \ {x}
    BY <1>3, <1>6, <1>7, <2>5
  <2>6. DeleteFits(t, f, K, holder)
    BY <2>1, <2>5 DEF DeleteFits
  <2>7. SaveFits(t, f, Q, K, edit, holder)
    <3> SUFFICES ASSUME Saving(f) PROVE SaveFits(t, f, Q, K, edit, holder)
      BY DEF SaveFits
    <3>1. OneHero(f.list) /\ \A i \in IdsOf(f.list) \cap P : holder[i] = t
      BY <2>1 DEF SaveFits
    <3>2. f.stage = "commit" => IdsOf(f.list) \subseteq Q
      BY <1>3, <1>5, <2>1, <3>1 DEF SaveFits
    <3>3. ASSUME NEW j \in Q, holder[j] = t
          PROVE  /\ \A i \in K : holder[i] = t
                 /\ \A u \in Slots \ {t} : Saving(edit[u]) => \A i \in Q : holder[i] # u
      <4>1. /\ \A i \in H : holder[i] = t
            /\ \A u \in Slots \ {t} : Saving(edit[u]) => \A i \in P : holder[i] # u
        BY <1>5, <2>1, <3>3 DEF SaveFits
      <4>2. e.hero = 0
        BY <1>3, <4>1
      <4> QED BY <1>5, <1>7, <4>1, <4>2
    <3> QED BY <1>5, <3>1, <3>2, <3>3 DEF SaveFits
  <2> QED BY <2>4, <2>6, <2>7 DEF f
<1> QED BY <1>9, <1>10, <1>11, <1>12, TableStep DEF e

\* A save crowns one photo of its list while it holds the hero there was.
LEMMA SaveCommits ==
  ASSUME Fitting, NEW s \in Slots, Photos!Commit(s), edit[s].kind \in {"save", "alt"}
  PROVE  FittingNext
<1> USE NothingIsNoRequest
<1> DEFINE e == edit[s]
           l == e.list
           P == PhotosIn(media)
           H == HeroesIn(media)
           K == HeroesIn(media')
<1>0. Saving(e) /\ e.stage = "commit"
  BY DEF Photos!Commit, Saving
<1>1. media' = [i \in DOMAIN media |->
              IF i \in Photos!Listed(s)
              THEN [media[i] EXCEPT !.pos = Photos!PlaceIn(s, i) - 1,
                                    !.hero = l[Photos!PlaceIn(s, i)].hero]
              ELSE [media[i] EXCEPT !.hero = @ /\ holder[i] # s]]
  BY DEF Photos!Commit, Photos!Written
<1>2. RowsFit(media, nextId, edit) /\ SaveFits(s, e, P, H, edit, holder)
  BY SlotFacts
<1>3. Photos!Listed(s) = IdsOf(l)
  BY DEF Photos!Listed, IdsOf
<1>4. \A i \in IdsOf(l) : Photos!PlaceIn(s, i) \in DOMAIN l /\ l[Photos!PlaceIn(s, i)].id = i
  BY DEF Photos!PlaceIn, IdsOf
<1>5. /\ DOMAIN media' = DOMAIN media
      /\ \A i \in DOMAIN media :
           /\ DOMAIN media'[i] = {"kind", "pos", "hero"} /\ media'[i].kind = media[i].kind
           /\ i \in IdsOf(l) => (media'[i].hero <=> l[Photos!PlaceIn(s, i)].hero)
           /\ i \notin IdsOf(l) => (media'[i].hero <=> media[i].hero /\ holder[i] # s)
  BY <1>1, <1>2, <1>3 DEF RowsFit
<1>6. PhotosIn(media') = P
  BY <1>5 DEF PhotosIn
<1>7. PICK k \in DOMAIN l : l[k].hero /\ \A j \in DOMAIN l : l[j].hero => j = k
  BY <1>0, <1>2 DEF SaveFits, OneHero
<1>8. l[k].id \in P /\ holder[l[k].id] = s
  BY <1>0, <1>2, <1>7 DEF SaveFits, IdsOf
<1>9. /\ \A i \in H : holder[i] = s
      /\ \A t \in Slots \ {s} : Saving(edit[t]) => \A i \in P : holder[i] # t
  BY <1>0, <1>2, <1>8 DEF SaveFits
<1>10. K \subseteq {l[k].id}
  <2> SUFFICES ASSUME NEW i \in K PROVE i = l[k].id
    OBVIOUS
  <2>1. i \in DOMAIN media /\ i \in P /\ media'[i].hero
    BY <1>5, <1>6 DEF HeroesIn, PhotosIn
  <2>2. CASE i \in IdsOf(l)
    BY <1>4, <1>5, <1>7, <2>1, <2>2
  <2>3. CASE i \notin IdsOf(l)
    <3>1. media[i].hero /\ holder[i] # s
      BY <1>5, <2>1, <2>3
    <3>2. i \in H
      BY <2>1, <3>1 DEF HeroesIn
    <3> QED BY <1>9, <3>1, <3>2
  <2> QED BY <2>2, <2>3
<1> HIDE DEF e, l, P, H, K
<1>11. \A i, j \in K : i = j
  BY <1>10
<1>12. Cardinality(P) <= MaxPhotos
  BY DEF Fitting, GalleryFitsIn, P
<1>13. \A i \in DOMAIN media' : DOMAIN media'[i] = {"kind", "pos", "hero"} /\ Given(i, edit', nextId)
  <2>1. \A i \in DOMAIN media' : Given(i, edit, nextId)
    BY <1>2, <1>5 DEF RowsFit
  <2> QED BY <1>5, <2>1, StillGiven
<1>14. ASSUME NEW t \in Slots \ {s}
       PROVE  /\ UploadFits(t, edit[t], P, holder) /\ DeleteFits(t, edit[t], K, holder)
              /\ SaveFits(t, edit[t], P, K, edit, holder)
  <2> DEFINE f == edit[t]
  <2>1. /\ UploadFits(t, f, P, holder) /\ DeleteFits(t, f, H, holder)
        /\ SaveFits(t, f, P, H, edit, holder)
    BY SlotFacts DEF P, H
  <2>2. \A i \in H : holder[i] # t
    BY <1>9
  <2> HIDE DEF f
  <2>3. DeleteFits(t, f, K, holder)
    BY <2>1, <2>2 DEF DeleteFits
  <2>4. Saving(f) => \A i \in P : holder[i] # t
    BY <1>9 DEF f
  <2>5. SaveFits(t, f, P, K, edit, holder)
    BY <2>1, <2>4 DEF SaveFits
  <2> QED BY <2>1, <2>3, <2>5 DEF f
<1> QED BY <1>6, <1>11, <1>12, <1>13, <1>14, TableStep DEF K

\* Each kind of commit keeps the table within the limit and with at most one hero.
LEMMA CommitStep ==
  ASSUME Fitting, NEW s \in Slots, Photos!Commit(s) PROVE FittingNext
<1>1. edit[s].stage = "commit" /\ EditFits(edit[s])
  BY SlotFacts DEF Photos!Commit
<1>2. CASE edit[s].kind \in {"photo", "video"}
  BY <1>1, <1>2, UploadCommits DEF Uploading
<1> QED BY <1>1, <1>2, DeleteCommits, SaveCommits DEF EditFits
\* The answers: the page's entry keeps its data, or reads the table as it is.
LEMMA AnswerSteps ==
  ASSUME Fitting, QueryFits(galleryQ),
         \/ \E s \in Slots : Photos!LandEdit(s)
         \/ Photos!LoadGallery \/ Photos!FocusGallery
  PROVE  FittingNext /\ QueryFits(galleryQ')
<1>1. ASSUME NEW s \in Slots, Photos!LandEdit(s) PROVE FittingNext /\ QueryFits(galleryQ')
  <2>1. /\ edit' = [edit EXCEPT ![s] = Photos!NoEdit] /\ UNCHANGED <<media, nextId, holder>>
        /\ galleryQ' = galleryQ \/ galleryQ' = Photos!RQ!Invalidate(galleryQ)
    BY <1>1 DEF Photos!LandEdit
  <2>2. galleryQ'.data = galleryQ.data /\ QueryFits(galleryQ')
    BY <2>1 DEF QueryFits, Photos!RQ!Invalidate, Photos!RQ!Mark
  <2>3. DOMAIN Photos!NoEdit = EditFields /\ Photos!NoEdit.kind = "none"
        /\ Photos!NoEdit.stage = "none" /\ Photos!NoEdit.list = <<>>
    BY DEF Photos!NoEdit, EditFields
  <2>4. Harmless(Photos!NoEdit) /\ ListFits(Photos!NoEdit.list, edit, nextId)
    BY <2>3, EmptyList DEF Harmless, EditFits, Uploading, Saving
  <2>5. GalleryFitsIn(media, nextId, galleryQ.data, edit', holder)
    BY <2>1, <2>4, HarmlessStep DEF Fitting
  <2> QED BY <2>1, <2>2, <2>5 DEF FittingNext
<1>2. CASE Photos!LoadGallery
  <2>1. PICK l \in Photos!SetToSeqs(Photos!Photos) :
          galleryQ' = Photos!RQ!Store(Photos!RQ!Answer(galleryQ, Photos!Read(l)))
    BY <1>2 DEF Photos!LoadGallery
  <2> DEFINE P == PhotosIn(media)
             n == Cardinality(P)
             d == Photos!Read(l)
  <2>2. l \in [1..n -> P]
    BY <2>1, SameSets, SameCount DEF Photos!SetToSeqs
  <2>3. RowsFit(media, nextId, edit)
    BY DEF Fitting, GalleryFitsIn
  <2>4. n \in Nat
    BY <2>3, PhotosAreFinite DEF RowsFit, Given
  <2>5. \A i \in P : Given(i, edit, nextId)
    BY <2>3 DEF RowsFit, PhotosIn
  <2> HIDE DEF P, n
  <2>6. d.photos = [k \in DOMAIN l |-> [id |-> l[k], hero |-> l[k] \in Photos!Heroes]]
    BY DEF Photos!Read
  <2>7. DOMAIN d.photos = 1..n /\ \A k \in 1..n : /\ DOMAIN d.photos[k] = {"id", "hero"}
                                                  /\ d.photos[k].id = l[k]
    BY <2>2, <2>6
  <2>8. Len(d.photos) = n
    <3> DEFINE S == {d.photos[k] : k \in 1..n}
    <3>1. d.photos = [k \in 1..n |-> d.photos[k]]
      BY <2>2, <2>6
    <3>2. \A k \in 1..n : d.photos[k] \in S
      OBVIOUS
    <3> HIDE DEF S
    <3>3. d.photos \in [1..n -> S]
      BY <3>1, <3>2
    <3>4. d.photos \in Seq(S)
      BY <2>4, <3>3
    <3> QED BY <2>4, <2>7, <3>4
  <2> HIDE DEF d
  <2>9. IsFiniteSet(1..n)
    BY <2>4, FS_Interval
  <2>10. PageFits(d, edit, nextId)
    BY <2>2, <2>4, <2>5, <2>7, <2>8, <2>9 DEF PageFits, ListFits
  <2>11. galleryQ'.data = d /\ QueryFits(galleryQ')
    BY <2>1 DEF d, QueryFits, Photos!RQ!Store, Photos!RQ!Answer
  <2>12. UNCHANGED <<media, nextId, edit, holder>>
    BY <1>2 DEF Photos!LoadGallery
  <2> QED BY <2>10, <2>11, <2>12 DEF Fitting, FittingNext, GalleryFitsIn
<1>3. CASE Photos!FocusGallery
  <2>1. UNCHANGED <<media, nextId, edit, holder>> /\ galleryQ' = Photos!RQ!Ask(galleryQ)
    BY <1>3 DEF Photos!FocusGallery
  <2>2. galleryQ'.data = galleryQ.data /\ QueryFits(galleryQ')
    BY <2>1 DEF QueryFits, Photos!RQ!Ask
  <2> QED BY <2>1, <2>2 DEF Fitting, FittingNext
<1> QED BY <1>1, <1>2, <1>3

\* One photo, which is the hero, and nobody at work.
LEMMA GalleryStart == CatalogueInit => GalleryInv
<1> SUFFICES ASSUME CatalogueInit, at = "photos" PROVE GalleryInv
  BY DEF GalleryInv
<1>1. Photos!GalleryInit
  BY DEF CatalogueInit
<1>2. /\ DOMAIN media = {1} /\ DOMAIN media[1] = {"kind", "pos", "hero"} /\ nextId = 2
      /\ holder = [row \in {0} \cup Photos!Ids |-> Nothing]
      /\ edit = [s \in Slots |-> Photos!NoEdit]
  BY <1>1 DEF Photos!GalleryInit
<1>3. galleryQ.data = Nothing /\ QueryFits(galleryQ)
  BY <1>1 DEF Photos!GalleryInit, Photos!RQ!Ask, Photos!RQ!Fresh, QueryFits
<1>4. DOMAIN Photos!NoEdit = EditFields /\ Photos!NoEdit.kind = "none"
      /\ Photos!NoEdit.stage = "none" /\ Photos!NoEdit.list = <<>>
  BY DEF Photos!NoEdit, EditFields
<1>5. Harmless(Photos!NoEdit) /\ ListFits(<<>>, edit, nextId)
  BY <1>4, EmptyList DEF Harmless, EditFits, Uploading, Saving
<1>6. \A s \in Slots :
        /\ SlotFits(s, edit[s], PhotosIn(media), HeroesIn(media), edit, holder)
        /\ ListFits(edit[s].list, edit, nextId) /\ Fresh(s, edit[s], edit, nextId)
  BY <1>2, <1>4, <1>5 DEF Harmless, SlotFits, UploadFits, DeleteFits, SaveFits, Fresh
<1>7. Given(1, edit, nextId)
  BY <1>2, <1>4, GallerySizes DEF Given, Photos!Ids, Uploading
<1>8. PhotosIn(media) \in SUBSET {1} /\ HeroesIn(media) \in SUBSET {1}
  BY <1>2 DEF PhotosIn, HeroesIn
<1>9. Cardinality(PhotosIn(media)) <= MaxPhotos
  <2>1. IsFiniteSet({1}) /\ Cardinality({1}) = 1
    BY FS_Singleton
  <2>2. IsFiniteSet(PhotosIn(media)) /\ Cardinality(PhotosIn(media)) <= 1
    BY <1>8, <2>1, FS_Subset
  <2> QED BY <2>2, FS_CardinalityType, GallerySizes
<1>10. /\ DOMAIN holder = {0} \cup Photos!Ids /\ \A i \in Photos!Ids : holder[i] = Nothing
       /\ DOMAIN edit = Slots /\ nextId \in Nat \ {0}
  BY <1>2
<1>11. RowsFit(media, nextId, edit) /\ PageFits(galleryQ.data, edit, nextId)
  BY <1>2, <1>3, <1>7 DEF RowsFit, PageFits
<1>12. GalleryFitsIn(media, nextId, galleryQ.data, edit, holder)
  BY <1>6, <1>8, <1>9, <1>10, <1>11 DEF GalleryFitsIn
<1> QED BY <1>3, <1>12 DEF GalleryInv

\* Every step of the gallery keeps GalleryInv.
LEMMA GalleryStep == GalleryInv /\ [CatalogueNext]_catalogueVars => GalleryInv'
<1> SUFFICES ASSUME GalleryInv, [CatalogueNext]_catalogueVars, at = "photos", at' = at
             PROVE  FittingNext /\ QueryFits(galleryQ')
  BY DEF CatalogueNext, catalogueVars, GalleryInv, FittingNext
<1>0. Fitting /\ QueryFits(galleryQ)
  BY DEF GalleryInv, Fitting
<1>1. CASE UNCHANGED photographing
  BY <1>0, <1>1 DEF photographing, Fitting, FittingNext
<1>2. ASSUME FittingNext, galleryQ' = galleryQ PROVE FittingNext /\ QueryFits(galleryQ')
  BY <1>0, <1>2
<1>3. ASSUME NEW s \in Slots,
             \/ Photos!MakeHero(s) \/ Photos!MoveUp(s) \/ Photos!SaveAlt(s) \/ Photos!DeleteShown(s)
             \/ Photos!UploadPhoto(s) \/ Photos!UploadVideo(s) \/ Photos!Colleague(s)
      PROVE  FittingNext /\ QueryFits(galleryQ')
  <2>1. FittingNext
    BY <1>0, <1>3, PageSteps
  <2>2. galleryQ' = galleryQ
    BY <1>3 DEF Photos!MakeHero, Photos!MoveUp, Photos!SaveAlt, Photos!DeleteShown,
         Photos!UploadPhoto, Photos!UploadVideo, Photos!Colleague, Photos!Post, Photos!Begin
  <2> QED BY <1>2, <2>1, <2>2
<1>4. ASSUME NEW s \in Slots,
             \/ Photos!LockProduct(s) \/ Photos!Insert(s) \/ Photos!DeleteRow(s) \/ Photos!Promote(s)
             \/ Photos!Crown(s) \/ Photos!Clear(s) \/ Photos!Apply(s) \/ Photos!Commit(s)
             \/ Photos!Abort(s)
      PROVE  FittingNext /\ QueryFits(galleryQ')
  <2>1. Photos!Abort(s) => FittingNext
    BY <1>0, RefuseStep, SlotFacts DEF Photos!Abort, EditFits
  <2>2. FittingNext
    BY <1>0, <1>4, <2>1, LockProductStep, InsertStep, DeletionSteps, ClearStep, ApplyStep, CommitStep
  <2>3. galleryQ' = galleryQ
    BY <1>4 DEF Photos!LockProduct, Photos!Insert, Photos!DeleteRow, Photos!Promote, Photos!Crown,
         Photos!Clear, Photos!Apply, Photos!Commit, Photos!Abort, Photos!Refuse
  <2> QED BY <1>2, <2>2, <2>3
<1>5. CASE Photos!GalleryNext
  BY <1>0, <1>3, <1>4, <1>5, AnswerSteps DEF Photos!GalleryNext
<1> QED BY <1>1, <1>5 DEF CatalogueNext, catalogueVars

\* A product never holds more photos than its gallery shows, nor two heroes, for every limit,
\* every number of rows and every overlap of two requests' transactions: the photos are
\* counted under the product's lock, and the flag moves only from a row the request holds.
THEOREM GalleriesFit == CatalogueSpec => []GalleryFits
<1>1. GalleryInv => GalleryFits
  <2> SUFFICES ASSUME GalleryInv, at = "photos"
               PROVE  /\ Cardinality(PhotosIn(media)) <= MaxPhotos
                      /\ Cardinality(HeroesIn(media)) <= 1
    BY SameSets, SameCount DEF GalleryFits, Photos!GalleryFits
  <2> DEFINE H == HeroesIn(media)
  <2>1. RowsFit(media, nextId, edit) /\ Cardinality(PhotosIn(media)) <= MaxPhotos
        /\ \A i, j \in H : i = j
    BY DEF GalleryInv, GalleryFitsIn
  <2> HIDE DEF H
  <2>2. CASE H = {}
    BY <2>1, <2>2, FS_EmptySet DEF H
  <2>3. CASE H # {}
    <3>1. PICK i : H = {i}
      BY <2>1, <2>3
    <3>2. Cardinality(H) = 1
      BY <3>1, FS_Singleton
    <3> QED BY <2>1, <3>2 DEF H
  <2> QED BY <2>2, <2>3
<1> QED BY <1>1, GalleryStart, GalleryStep, PTL DEF CatalogueSpec

=============================================================================
