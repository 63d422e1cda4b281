------------------------------ MODULE Pricing ------------------------------
(***************************************************************************)
(* domain.Price, the one calculator behind the cart page, the checkout     *)
(* preview and the order: shipping, the hive-club discount, the promo code *)
(* and the contained VAT, in integer minor units.  The state is what the   *)
(* preview reads before it calls Price, and the actions are what changes   *)
(* it between two previews.                                                *)
(***************************************************************************)
EXTENDS Integers

CONSTANTS
  Markets,    \* currencies
  None,       \* a NULL amount, bound or code
  Rates,      \* shipping_rates, one row per market
  Baskets,    \* what cart edits can leave: subtotal per market and chilled or not
  Codes,      \* promo codes the admin's form may save
  LastDay,    \* the clock runs from 0 to LastDay
  MaxOrders,  \* bound on the customer's standing orders
  MaxUses     \* bound on a code's redemptions

Amount == Nat \cup {None}

\* one row of shipping_rates, with its CHECKs
Rate == [base : Nat, surcharge : Nat, freeOver : (Nat \ {0}) \cup {None}]

\* promo_codes with promo_code_values, and the two counts PromoForUser fills in
Promo == [kind : {"percent", "fixed", "free_shipping"}, percent : 0..100, active : BOOLEAN,
          starts : Amount, ends : Amount, cap : Amount, count : Nat, used : BOOLEAN,
          amount : [Markets -> Amount], floor : [Markets -> Amount]]

\* ValidatePromoInput: the codes an admin form can save (percent is 0 where NULL).
ValidPromo(p) ==
  /\ (p.kind = "percent") <=> (p.percent # 0)
  /\ p.starts # None /\ p.ends # None => p.starts < p.ends
  /\ p.cap # 0
  /\ \A m \in Markets : p.floor[m] # 0 /\ p.amount[m] # 0
  /\ \A m \in Markets : p.kind # "fixed" => p.amount[m] = None
  /\ p.kind = "fixed" => \E m \in Markets : p.amount[m] # None

Basket == [goods : [Markets -> Amount], cold : BOOLEAN]

ASSUME NoneIsNoAmount == None \notin Nat
ASSUME RatesType == Rates \in [Markets -> Rate]
ASSUME BasketsType == Baskets \subseteq Basket
ASSUME CodesType == Codes \subseteq {p \in Promo : ValidPromo(p)}
ASSUME BoundsType == LastDay \in Nat /\ MaxOrders \in Nat /\ MaxUses \in Nat

VARIABLES
  basket,  \* the cart's subtotal per market, None where a line has no price there
  prior,   \* the customer's orders that are not cancelled
  code,    \* the code the cart carries, None without one
  today    \* the clock

vars == <<basket, prior, code, today>>

-----------------------------------------------------------------------------
(* The calculator.                                                         *)

\* Mutant: divides before it multiplies.
PercentOfDividedFirst(amount, pct) == ((amount + 50) \div 100) * pct

\* pct% of amount, half a minor unit rounded up
PercentOf(amount, pct) == (amount * pct + 50) \div 100

VATPercent == 20
MemberDiscountPercent == 8

\* the tax already inside a VAT-inclusive amount, half rounded up
ContainedVAT(amount) == (amount * VATPercent + (100 + VATPercent) \div 2) \div (100 + VATPercent)

\* Promo.Issue
Issue(p, now, m, subtotal) ==
  CASE ~p.active \/ (p.starts # None /\ now < p.starts) -> "promo_unknown"
    [] p.ends # None /\ now > p.ends -> "promo_expired"
    [] p.used -> "promo_used"
    [] p.cap # None /\ p.count >= p.cap -> "promo_exhausted"
    [] p.kind = "fixed" /\ p.amount[m] = None -> "promo_not_in_market"
    [] p.floor[m] # None /\ subtotal < p.floor[m] -> "promo_min_subtotal"
    [] OTHER -> ""

\* What an order in market m is priced from.
Input == [market : Markets, subtotal : Nat, cold : BOOLEAN, prior : Nat,
          promo : Promo \cup {None}, now : Nat]

IssueOf(in) == IF in.promo = None THEN "" ELSE Issue(in.promo, in.now, in.market, in.subtotal)
Applies(in) == in.promo # None /\ IssueOf(in) = ""

\* Mutant: the threshold itself does not count as reached.
BaseWaivedAbove(in) ==
  \/ Rates[in.market].freeOver # None /\ in.subtotal > Rates[in.market].freeOver
  \/ in.prior = 0
  \/ Applies(in) /\ in.promo.kind = "free_shipping"

BaseWaived(in) ==
  \/ Rates[in.market].freeOver # None /\ in.subtotal >= Rates[in.market].freeOver
  \/ in.prior = 0
  \/ Applies(in) /\ in.promo.kind = "free_shipping"

BaseOf(in) == IF BaseWaived(in) THEN 0 ELSE Rates[in.market].base

\* Mutant: whatever waives the base waives the chilled box too.
ShippingAllWaived(in) ==
  IF BaseWaived(in) THEN 0
  ELSE BaseOf(in) + (IF in.cold THEN Rates[in.market].surcharge ELSE 0)

Shipping(in) == BaseOf(in) + (IF in.cold THEN Rates[in.market].surcharge ELSE 0)

MemberDiscount(in) == IF in.prior >= 1 THEN PercentOf(in.subtotal, MemberDiscountPercent) ELSE 0

\* what the code grants before it is clamped
Granted(in) ==
  CASE ~Applies(in) -> 0
    [] Applies(in) /\ in.promo.kind = "percent" -> PercentOf(in.subtotal, in.promo.percent)
    [] Applies(in) /\ in.promo.kind = "fixed" -> in.promo.amount[in.market]
    [] OTHER -> 0

\* Mutant: the grant is clamped to the goods, forgetting the member's share.
PromoDiscountOverclaims(in) == IF Granted(in) > in.subtotal THEN in.subtotal ELSE Granted(in)

PromoDiscount(in) ==
  LET room == in.subtotal - MemberDiscount(in) IN
  IF Granted(in) > room THEN room ELSE Granted(in)

\* Nothing left to count toward: no threshold, base waived, or already there.
\* (BaseShippingWaived is false in a market whose base is 0.)
Remaining(in) ==
  LET rate == Rates[in.market] IN
  IF rate.freeOver # None /\ ~(rate.base > 0 /\ BaseOf(in) = 0) /\ rate.freeOver > in.subtotal
  THEN rate.freeOver - in.subtotal
  ELSE None

Price(in) ==
  LET discount == MemberDiscount(in) + PromoDiscount(in) IN
  [subtotal |-> in.subtotal, shipping |-> Shipping(in),
   member |-> MemberDiscount(in), promo |-> PromoDiscount(in), discount |-> discount,
   tax |-> ContainedVAT(in.subtotal - discount),
   total |-> in.subtotal + Shipping(in) - discount,
   issue |-> IssueOf(in), remaining |-> Remaining(in)]

-----------------------------------------------------------------------------
(* What moves between two previews.                                        *)

\* Neither an empty cart (prices are positive) nor a market that cannot price
\* every line of it has a quote.
Quoted == {m \in Markets : basket.goods[m] \notin {None, 0}}
InputIn(m) == [market |-> m, subtotal |-> basket.goods[m], cold |-> basket.cold,
               prior |-> prior, promo |-> code, now |-> today]

\* PUT and DELETE on /cart/items, and price edits of the admin
EditCart(b) == basket' = b /\ UNCHANGED <<prior, code, today>>

\* handleApplyPromo, from a page shown in market m; an unpriced market reads 0
ApplyPromo(p, m) ==
  /\ Issue(p, today, m, IF m \in Quoted THEN basket.goods[m] ELSE 0) = ""
  /\ code' = p
  /\ UNCHANGED <<basket, prior, today>>

RemovePromo == code # None /\ code' = None /\ UNCHANGED <<basket, prior, today>>

\* Mutant: the old values are not deleted before the form's are inserted.
UpdatePromoKeepsValues(p) ==
  /\ code # None
  /\ code' = [p EXCEPT !.count = code.count, !.used = code.used,
               !.amount = [m \in Markets |-> IF @[m] = None THEN code.amount[m] ELSE @[m]]]
  /\ UNCHANGED <<basket, prior, today>>

\* The admin's form replaces the row the cart points at; its counts stay.
UpdatePromo(p) ==
  /\ code # None
  /\ code' = [p EXCEPT !.count = code.count, !.used = code.used]
  /\ UNCHANGED <<basket, prior, today>>

\* Other customers redeem the code, or cancel the order that did.
Redemptions(n) ==
  /\ code # None /\ n \in {code.count + 1, code.count - 1} /\ n \in 0..MaxUses
  /\ code' = [code EXCEPT !.count = n]
  /\ UNCHANGED <<basket, prior, today>>

\* An order of the customer's from another device is placed or cancelled.
Orders(n) ==
  /\ n \in {prior + 1, prior - 1} /\ n \in 0..MaxOrders
  /\ prior' = n
  /\ UNCHANGED <<basket, code, today>>

Tick == today < LastDay /\ today' = today + 1 /\ UNCHANGED <<basket, prior, code>>

Init == basket \in Baskets /\ prior = 0 /\ code = None /\ today = 0

Next ==
  \/ \E b \in Baskets : EditCart(b)
  \/ \E p \in Codes, m \in Markets : ApplyPromo(p, m)
  \/ RemovePromo
  \/ \E p \in Codes : UpdatePromo(p)
  \/ \E n \in 0..MaxUses : Redemptions(n)
  \/ \E n \in 0..MaxOrders : Orders(n)
  \/ Tick

Spec == Init /\ [][Next]_vars

-----------------------------------------------------------------------------
(* Properties.                                                             *)

PricingTypeOK ==
  /\ basket \in Basket
  /\ prior \in Nat
  /\ code \in {p \in Promo : ValidPromo(p)} \cup {None}
  /\ today \in Nat

\* The CHECKs on orders: four amounts and two discounts that are not negative,
\* the split, the balance, and a tax contained in the subtotal.
Accepted(b) ==
  /\ b.subtotal >= 0 /\ b.shipping >= 0 /\ b.discount >= 0 /\ b.tax >= 0
  /\ b.member >= 0 /\ b.promo >= 0
  /\ b.member + b.promo = b.discount
  /\ b.subtotal + b.shipping - b.discount = b.total
  /\ b.tax <= b.subtotal

\* Whatever code, club discount and basket meet, the database accepts the
\* order's figures: the discounts never exceed the goods between them, so the
\* tax carved from what is left is neither negative nor more than the subtotal.
DatabaseAccepts == \A m \in Quoted : Accepted(Price(InputIn(m)))

\* The chilled box is paid whatever waives the base (threshold, first delivery,
\* code): the customer never pays less than the surcharge.
ChilledBoxIsPaid ==
  \A m \in Quoted : basket.cold => Price(InputIn(m)).total >= Rates[m].surcharge

\* "$8 away from free shipping" is true: goods for that amount or more (the
\* banner's upsell) leave only the chilled box to pay for.
BarIsEnough ==
  \A m \in Quoted :
    LET left == Remaining(InputIn(m)) IN
    left # None => \A more \in left..left + 2 :
      Shipping([InputIn(m) EXCEPT !.subtotal = @ + more])
        = (IF basket.cold THEN Rates[m].surcharge ELSE 0)

GoodsBill(in) == Price(in).subtotal - Price(in).discount

\* While the verdict on the code stays the same, a cart with more goods in it
\* never has a smaller bill for them, but for one minor unit: the two discounts
\* round separately, and both may round up at the same amount.
MoreGoodsCostMore ==
  [][\A m \in Quoted \cap Quoted' :
       LET before == InputIn(m)
           after == InputIn(m)' IN
       /\ after.subtotal >= before.subtotal
       /\ after.promo = before.promo /\ after.prior = before.prior
       /\ IssueOf(after) = IssueOf(before)
       => GoodsBill(after) >= GoodsBill(before) - 1]_vars
=============================================================================
