------------------------------- MODULE Basket -------------------------------
(***************************************************************************)
(* The basket as one browser tab sees it: the cards' Add button, the buy   *)
(* box of the product page, the cart page and its promo box, over the      *)
(* cached cart and preview and the requests under way.  Requests are       *)
(* answered in any order; the account's basket lives on the server.        *)
(***************************************************************************)
EXTENDS Naturals, FiniteSets

CONSTANTS Variants, MaxQty, Stock, Slots, Nothing, Idle, Sent

RQ == INSTANCE ReactQuery

VARIABLES screen,     \* which page is open
          cartQ,      \* the cached cart
          previewQ,   \* the cached preview
          basket,     \* the server's lines
          writes,     \* requests that change the basket, by slot
          overlap,    \* HISTORY: an answer was stored beside another request, by cache
          unheard     \* HISTORY: a change nobody was told of, until the cache is read again

basketVars == <<screen, cartQ, previewQ, basket, writes, overlap, unheard>>

Lines == [Variants -> 0..MaxQty]
\* The preview is computed from the server's basket and promo code: what a copy of it can
\* get wrong is to be computed from an earlier one: it is "current" or "old".

\* "shop" is every page with product cards or a buy box: home, shop, product, wishlist.
Screens == {"shop", "cart"}

None == [stage |-> "none"]
\* A request is "sent", "applied" by its statement, then "answered" with the cart's lines or
\* the preview's figures; from says whether a "button" waits for it.
Busy == {s \in Slots : writes[s] # None}
Pending(ops) == \E s \in Busy : writes[s].from = "button" /\ writes[s].op \in ops
ObservesPreview == screen = "cart"

\* What the page reads of the cached cart: nothing loaded reads as an empty cart.
InCart(v) == IF RQ!Loaded(cartQ) THEN cartQ.data[v] ELSE 0
Remaining(v) == IF Stock[v] > InCart(v) THEN Stock[v] - InCart(v) ELSE 0

BasketInit ==
    /\ screen = "shop"
    /\ basket \in Lines
    /\ cartQ = RQ!Ask(RQ!Fresh)
    /\ previewQ = RQ!Fresh
    /\ writes = [s \in Slots |-> None]
    /\ overlap = [cart |-> FALSE, preview |-> FALSE]
    /\ unheard = [cart |-> FALSE, preview |-> FALSE]

-----------------------------------------------------------------------------
(* Pages and reads *)

\* A page unmounts: its mutation goes on, but no button of the next page waits for it.
Orphan(w) == IF w # None /\ w.from = "button" THEN [w EXCEPT !.from = "line"] ELSE w

\* Every page asks for the cart anew; the cart page asks for the preview as well.
Visit(to) ==
    /\ screen' = to
    /\ cartQ' = RQ!Ask(cartQ)
    /\ previewQ' = IF to = "cart" THEN RQ!Ask(previewQ) ELSE previewQ
    /\ writes' = [s \in Slots |-> Orphan(writes[s])]
    /\ UNCHANGED <<basket, overlap, unheard>>

Focus ==
    /\ cartQ' = RQ!Ask(cartQ)
    /\ previewQ' = IF ObservesPreview THEN RQ!Ask(previewQ) ELSE previewQ
    /\ <<cartQ, previewQ>>' # <<cartQ, previewQ>>
    /\ UNCHANGED <<screen, basket, writes, overlap, unheard>>

ReadCart ==
    /\ cartQ.fetch = Sent
    /\ cartQ' = RQ!Answer(cartQ, basket)
    /\ unheard' = [unheard EXCEPT !.cart = FALSE]
    /\ UNCHANGED <<screen, previewQ, basket, writes, overlap>>

StoreCart ==
    /\ cartQ.fetch \notin {Idle, Sent}
    /\ cartQ' = RQ!Store(cartQ)
    /\ UNCHANGED <<screen, previewQ, basket, writes, overlap, unheard>>

CartUnavailable ==
    /\ cartQ.fetch = Sent
    /\ cartQ' = RQ!GiveUp(cartQ)
    /\ UNCHANGED <<screen, previewQ, basket, writes, overlap, unheard>>

ReadPreview ==
    /\ previewQ.fetch = Sent
    /\ previewQ' = RQ!Answer(previewQ, "current")
    /\ unheard' = [unheard EXCEPT !.preview = FALSE]
    /\ UNCHANGED <<screen, cartQ, basket, writes, overlap>>

StorePreview ==
    /\ previewQ.fetch \notin {Idle, Sent}
    /\ previewQ' = RQ!Store(previewQ)
    /\ UNCHANGED <<screen, cartQ, basket, writes, overlap, unheard>>

-----------------------------------------------------------------------------
(* Clicks *)

SendWrite(op, v, qty, from) ==
    /\ \E s \in Slots \ Busy :
          writes' = [writes EXCEPT ![s] =
              [stage |-> "sent", op |-> op, v |-> v, qty |-> qty, from |-> from,
               lines |-> Nothing, figures |-> Nothing]]
    /\ UNCHANGED <<screen, cartQ, previewQ, basket, overlap, unheard>>

\* useQuickAdd: one more than the cart holds, nothing at the ceiling; never disabled while
\* an earlier click is under way.
QuickAdd(v) ==
    /\ screen = "shop"
    /\ Stock[v] > 0 /\ InCart(v) < Stock[v]
    /\ SendWrite("put", v, InCart(v) + 1, "line")

\* The product page's buy box and its sticky bar: the chosen quantity on top of the cart's.
BuyBox(v) ==
    /\ screen = "shop" /\ ~Pending({"put"})
    /\ Remaining(v) > 0
    /\ \E qty \in 1..MaxQty :
          LET added == IF qty < Remaining(v) THEN qty ELSE Remaining(v)
          IN SendWrite("put", v, InCart(v) + added, "button")

\* The cart page draws its lines once both reads have come.
CartShown == screen = "cart" /\ RQ!Loaded(cartQ) /\ RQ!Loaded(previewQ)
Line(v) == CartShown /\ InCart(v) > 0

\* QtyStepper between 0 and the stock; a quantity of 0 removes the line instead.
Step(v) ==
    /\ Line(v)
    /\ \/ /\ InCart(v) > 1
          /\ SendWrite("put", v, InCart(v) - 1, "line")
       \/ /\ InCart(v) < Stock[v]
          /\ SendWrite("put", v, InCart(v) + 1, "line")
       \/ /\ InCart(v) = 1
          /\ SendWrite("delete", v, 0, "line")

RemoveLine(v) == Line(v) /\ SendWrite("delete", v, 0, "line")

SaveForLater(v) ==
    /\ Line(v)
    /\ ~Pending({"later"})
    /\ SendWrite("later", v, 0, "button")

\* FreeShippingBanner: one more of the suggested product, which is in stock.
Upsell(v) ==
    /\ CartShown /\ ~Pending({"put"})
    /\ \E w \in Variants : InCart(w) > 0
    /\ Stock[v] > 0 /\ InCart(v) < MaxQty
    /\ SendWrite("put", v, InCart(v) + 1, "button")

\* PromoBox: applies a code while the preview names none, removes the one it names.
Promo(v) ==
    /\ CartShown /\ ~Pending({"promo"})
    /\ SendWrite("promo", v, 0, "button")

-----------------------------------------------------------------------------
(* The server, and the answers *)

\* Every copy of the preview, shown or under way, is now of an earlier basket.
Outdated(d) == IF d = "current" THEN "old" ELSE d
OutdatedEntry(q) ==
    [q EXCEPT !.data = Outdated(@), !.fetch = IF @ \in {Idle, Sent} THEN @ ELSE [got |-> "old"]]

\* The handler takes a quantity of 1 to 99, of a variant that exists.
Valid(w) == w.op = "put" => w.v \in Variants /\ w.qty \in 1..MaxQty

\* The statement that changes the basket or its code runs; the answer is read afterwards.
Apply(s) ==
    LET w == writes[s]
        old == [x \in Slots |-> IF writes[x] # None
                                THEN [writes[x] EXCEPT !.figures = Outdated(@)] ELSE writes[x]]
    IN
    /\ w # None /\ w.stage = "sent" /\ Valid(w)
    /\ basket' = CASE w.op = "put" -> [basket EXCEPT ![w.v] = w.qty]
                   [] w.op \in {"delete", "later"} -> [basket EXCEPT ![w.v] = 0]
                   [] OTHER -> basket
    /\ writes' = [old EXCEPT ![s].stage =
                     IF w.op \in {"delete", "later"} THEN "answered" ELSE "applied"]
    /\ previewQ' = OutdatedEntry(previewQ)
    /\ UNCHANGED <<screen, cartQ, overlap, unheard>>

\* PUT answers with the whole cart, the promo calls with a preview, read as they are now.
Reply(s) ==
    LET w == writes[s] IN
    /\ w # None /\ w.stage = "applied"
    /\ writes' = IF w.op = "put"
                 THEN [writes EXCEPT ![s].stage = "answered", ![s].lines = basket]
                 ELSE [writes EXCEPT ![s].stage = "answered", ![s].figures = "current"]
    /\ UNCHANGED <<screen, cartQ, previewQ, basket, overlap, unheard>>

\* A bad code, a lost session or a dead network: nothing was changed, no cache is touched.
Refuse(s) ==
    /\ writes[s] # None /\ writes[s].stage = "sent"
    /\ writes' = [writes EXCEPT ![s] = None]
    /\ UNCHANGED <<screen, cartQ, previewQ, basket, overlap, unheard>>

\* The change is made and its answer is not heard: the cart or the preview could not be
\* reloaded (a 500), or the connection died.  No onSuccess runs, so no cache is touched.
Lose(s) ==
    LET w == writes[s] IN
    /\ w # None /\ w.stage \in {"applied", "answered"}
    /\ writes' = [writes EXCEPT ![s] = None]
    /\ unheard' = [cart |-> unheard.cart \/ w.op # "promo", preview |-> TRUE]
    /\ overlap' = [cart |-> overlap.cart \/ Busy # {s}, preview |-> overlap.preview \/ Busy # {s}]
    /\ UNCHANGED <<screen, cartQ, previewQ, basket>>

InvalidateCart == RQ!Invalidate(cartQ)
InvalidatePreview ==
    IF ObservesPreview THEN RQ!Invalidate(previewQ) ELSE RQ!Mark(previewQ)

\* An invalidation that restarts nothing: a first fetch is joined, an unobserved one kept.
Joined(q, observed) == RQ!Fetching(q) /\ (~RQ!Loaded(q) \/ ~observed)

\* When an answer lands: is another write under way, or a fetch that may miss this one?
Crossed(s, cartMisses, previewMisses) ==
    overlap' = [cart |-> overlap.cart \/ Busy # {s} \/ cartMisses,
                preview |-> overlap.preview \/ Busy # {s} \/ previewMisses]
PreviewJoined == Joined(previewQ, ObservesPreview)

\* onSuccess of useSetCartItem: the answer is stored, the preview invalidated.
LandPut(s) ==
    /\ writes[s].op = "put"
    /\ cartQ' = RQ!Write(cartQ, writes[s].lines)
    /\ previewQ' = InvalidatePreview
    /\ Crossed(s, RQ!Fetching(cartQ), PreviewJoined)

\* Mutant: a removal refreshes the preview only.
LandRemovalForgetsCart(s) ==
    /\ writes[s].op \in {"delete", "later"}
    /\ UNCHANGED cartQ
    /\ previewQ' = InvalidatePreview
    /\ Crossed(s, Joined(cartQ, TRUE), PreviewJoined)

\* onSuccess of useRemoveCartItem and useSaveForLater: both are invalidated.
LandRemoval(s) ==
    /\ writes[s].op \in {"delete", "later"}
    /\ cartQ' = InvalidateCart
    /\ previewQ' = InvalidatePreview
    /\ Crossed(s, Joined(cartQ, TRUE), PreviewJoined)

\* onSuccess of useApplyPromo and useRemovePromo: the answer is the new preview.
LandPromo(s) ==
    /\ writes[s].op = "promo"
    /\ previewQ' = RQ!Write(previewQ, writes[s].figures)
    /\ UNCHANGED cartQ
    /\ Crossed(s, FALSE, RQ!Fetching(previewQ))

Land(s) ==
    /\ writes[s] # None /\ writes[s].stage = "answered"
    /\ LandPut(s) \/ LandRemoval(s) \/ LandPromo(s)
    /\ writes' = [writes EXCEPT ![s] = None]
    /\ UNCHANGED <<screen, basket, unheard>>

Click ==
    \E v \in Variants :
        \/ QuickAdd(v)
        \/ BuyBox(v)
        \/ Step(v)
        \/ RemoveLine(v)
        \/ SaveForLater(v)
        \/ Upsell(v)
        \/ Promo(v)

Answers ==
    \/ ReadCart
    \/ StoreCart
    \/ ReadPreview
    \/ StorePreview

\* Bound: once both answers were stored beside another request nothing is claimed any more,
\* and the behaviour is not followed further; nor with one of them and an answer unheard.
Followed ==
    /\ ~(overlap.cart /\ overlap.preview)
    /\ overlap.cart \/ overlap.preview => ~unheard.cart /\ ~unheard.preview

BasketNext ==
    /\ Followed
    /\ \/ \E to \in Screens : Visit(to)
       \/ Focus
       \/ Click
       \/ Answers
       \/ CartUnavailable
       \/ \E s \in Slots : Apply(s) \/ Reply(s) \/ Refuse(s) \/ Lose(s) \/ Land(s)

-----------------------------------------------------------------------------
(* Properties *)

CartTruth ==
    ~overlap.cart /\ ~unheard.cart /\ RQ!Loaded(cartQ) /\ ~cartQ.invalid /\ ~RQ!Fetching(cartQ)
        => cartQ.data = basket

PreviewTruth ==
    ~overlap.preview /\ ~unheard.preview /\ ObservesPreview /\ RQ!Loaded(previewQ)
        /\ ~previewQ.invalid /\ ~RQ!Fetching(previewQ)
        => previewQ.data = "current"

\* Once every request has been answered, the cart and the figures on screen are those of the
\* basket on the server, whichever button changed it: useSetCartItem, useRemoveCartItem,
\* useSaveForLater and the promo hooks refresh both.  Not claimed after an answer was stored
\* beside another request (overlap): the code does not order the two.  Nor between a change
\* whose answer never came (unheard) and the next read: the code refreshes on success only.
ScreenShowsTheBasket == Busy = {} => CartTruth /\ PreviewTruth
=============================================================================
