---------------------------- MODULE CheckoutForm ----------------------------
(***************************************************************************)
(* The checkout page of one signed-in tab: the sidebar's cached figures    *)
(* and its promo box, the order request and what its refusals refresh,     *)
(* over a shop where stock sells out and codes expire while the page is    *)
(* open.  What is typed in the form is left out: only one without gaps is  *)
(* sent.                                                                   *)
(***************************************************************************)
EXTENDS Naturals, FiniteSets, Tab

CONSTANTS MaxEdits    \* bound on the changes of the shop before an order of this page's

VARIABLES onPage,    \* the checkout page is mounted
          refusal,   \* the mutation's error: Nothing or a reason
          refusedAt, \* HISTORY: the shop's edition that refused
          cartQ, previewQ,   \* the cached cart and preview: editions of the shop
          post,      \* the order request.  Bound: one at a time, whoever waits for it
          edit,      \* a request that changes the basket or its code.  Bound: one at a time
          shop,      \* the server: its edition, the basket, the code, the jars
          missed     \* HISTORY: since the refusal a refetch failed, or an answer was
                     \* stored of an edit that was under way when it was heard

formVars == <<onPage, refusal, refusedAt, cartQ, previewQ, post, edit, shop, missed>>
pageVars == <<refusal, refusedAt, missed>>
cacheVars == <<cartQ, previewQ>>

NoPost == [stage |-> "free"]
NoEdit == [stage |-> "free"]

\* shop.at: edition; own: the last one that the customer made (a code applied or removed, a
\* basket changed or ordered); filled: the basket has lines; short: too few jars for them;
\* code: none, live, or dead (expired, used up, basket too small for it).
\* What the two reads carry of it.
Lines == [at |-> shop.at, filled |-> shop.filled]
Figures == [at |-> shop.at, code |-> shop.code]

CodeStates == {"none", "live", "dead"}
LinesRead == [at : Nat, filled : BOOLEAN]
FiguresRead == [at : Nat, code : CodeStates]

\* What a request brings is not taken for nothing, or for a fetch without an answer.
ASSUME AnswersHaveShape ==
  /\ Nothing \notin LinesRead \cup FiguresRead \cup {"insufficient_stock", "promo_invalid"}
  /\ \A mark \in {Idle, Sent} : mark \notin [got : LinesRead] \cup [got : FiguresRead]

Editable == shop.at < MaxEdits
Becomes(new) == shop' = [new EXCEPT !.at = shop.at + 1]
BecomesOwn(new) == Becomes([new EXCEPT !.own = shop.at + 1])

FormInit ==
    /\ onPage = FALSE
    /\ refusal = Nothing /\ refusedAt = 0
    /\ cartQ = RQ!Fresh /\ previewQ = RQ!Fresh
    /\ post = NoPost /\ edit = NoEdit
    /\ shop = [at |-> 0, own |-> 0, filled |-> TRUE, short |-> FALSE, code |-> "live"]
    /\ missed = FALSE

-----------------------------------------------------------------------------
(* The page *)

\* An idle mutation: what a mount starts with, and an unmount forgets.
Blank == refusal' = Nothing /\ refusedAt' = 0 /\ missed' = FALSE

\* Mounting asks for everything.
Arrive ==
    /\ ~onPage
    /\ onPage' = TRUE
    /\ cartQ' = RQ!Ask(cartQ) /\ previewQ' = RQ!Ask(previewQ)
    /\ UNCHANGED <<pageVars, post, edit, shop>>

\* The callbacks of a page that is gone do not run; its requests go on.
Unheard == IF post = NoPost THEN post ELSE [post EXCEPT !.heard = FALSE]

Leave ==
    /\ onPage
    /\ onPage' = FALSE
    /\ Blank
    /\ post' = Unheard
    /\ UNCHANGED <<cacheVars, edit, shop>>

WindowFocus ==
    /\ onPage
    /\ cartQ' = RQ!Ask(cartQ) /\ previewQ' = RQ!Ask(previewQ)
    /\ <<cartQ, previewQ>>' # <<cartQ, previewQ>>
    /\ UNCHANGED <<onPage, pageVars, post, edit, shop>>

\* The form shows once the cart and the preview are there and the cart has lines.
FormVisible ==
    /\ onPage
    /\ RQ!Loaded(cartQ) /\ RQ!Loaded(previewQ)
    /\ cartQ.data.filled

\* The discount on screen: the edition it was computed from, or none.
ShownDiscount == IF previewQ.data.code = "live" THEN previewQ.data.at ELSE Nothing

\* Place the order; the button is disabled while one is under way.
SubmitOrder ==
    /\ FormVisible /\ post = NoPost
    /\ post' = [stage |-> "sent", heard |-> TRUE, shown |-> ShownDiscount,
                reason |-> Nothing, at |-> 0]
    /\ Blank
    /\ UNCHANGED <<onPage, cacheVars, edit, shop>>

SendEdit(op) ==
    /\ edit = NoEdit
    /\ edit' = [stage |-> "sent", op |-> op, over |-> FALSE, lines |-> Nothing, figures |-> Nothing]
    /\ UNCHANGED <<onPage, pageVars, cacheVars, post, shop>>

\* The promo box takes a code while the figures carry none, and offers to remove the one they
\* carry.
PromoBox ==
    /\ FormVisible
    /\ SendEdit(IF previewQ.data.code = "none" THEN "apply" ELSE "remove")

\* The page before sets a quantity: its answer is stored whichever page is open by then.
SetQuantity == ~onPage /\ SendEdit("put")

-----------------------------------------------------------------------------
(* The server *)

DropsDeadCode == {}
RefusesDeadCode == IF shop.code = "dead" THEN {"promo_invalid"} ELSE {}

\* Checked in this order: no lines, too few jars, a code that no longer holds.
Reasons == IF ~shop.filled THEN {"empty_cart"}
           ELSE IF shop.short THEN {"insufficient_stock"} ELSE RefusesDeadCode

RefuseOrder ==
    /\ post.stage = "sent"
    /\ \E r \in Reasons :
          post' = [post EXCEPT !.stage = "answered", !.reason = r, !.at = shop.at]
    /\ UNCHANGED <<onPage, pageVars, cacheVars, edit, shop>>

\* The order takes the basket and its code with it.
PlaceOrder ==
    /\ post.stage = "sent" /\ Reasons = {}
    /\ BecomesOwn([shop EXCEPT !.filled = FALSE, !.code = "none"])
    /\ post' = [post EXCEPT !.stage = "answered"]
    /\ UNCHANGED <<onPage, pageVars, cacheVars, edit>>

\* A code is applied in the place of another, or taken off; a quantity may be more than the
\* shelf has, and make the basket too small for its code or large enough again.
Kept == IF shop.code = "none" THEN {"none"} ELSE {"live", "dead"}
WithCode(c) == [shop EXCEPT !.code = c]
WithQuantity(few, c) == [shop EXCEPT !.filled = TRUE, !.short = few, !.code = c]
Outcomes(op) ==
    CASE op = "apply" -> {WithCode("live")}
      [] op = "remove" -> {WithCode("none")}
      [] op = "put" -> {WithQuantity(few, c) : few \in BOOLEAN, c \in Kept}

ApplyEdit ==
    /\ edit.stage = "sent" /\ Editable
    /\ \E new \in Outcomes(edit.op) : BecomesOwn(new)
    /\ edit' = [edit EXCEPT !.stage = "applied"]
    /\ UNCHANGED <<onPage, pageVars, cacheVars, post>>

\* The answer is read after the change: the cart for a quantity, the figures for a code.
ReplyEdit ==
    /\ edit.stage = "applied"
    /\ edit' = IF edit.op = "put" THEN [edit EXCEPT !.stage = "answered", !.lines = Lines]
               ELSE [edit EXCEPT !.stage = "answered", !.figures = Figures]
    /\ UNCHANGED <<onPage, pageVars, cacheVars, post, shop>>

\* Other customers take the last jars; a code expires, or its last use goes.
SellOut ==
    /\ Editable /\ ~shop.short
    /\ Becomes([shop EXCEPT !.short = TRUE])
    /\ UNCHANGED <<onPage, pageVars, cacheVars, post, edit>>

PromoDies ==
    /\ Editable /\ shop.code = "live"
    /\ Becomes(WithCode("dead"))
    /\ UNCHANGED <<onPage, pageVars, cacheVars, post, edit>>

\* The customer, in another tab: fills or fixes the basket, applies or removes a code.
OtherTab ==
    /\ Editable
    /\ \E c \in {"none", "live"} :
          /\ BecomesOwn([shop EXCEPT !.filled = TRUE, !.short = FALSE, !.code = c])
          /\ <<shop.filled, shop.short, shop.code>> # <<TRUE, FALSE, c>>
    /\ UNCHANGED <<onPage, pageVars, cacheVars, post, edit>>

-----------------------------------------------------------------------------
(* Answers *)

\* Only a mounted page observes: elsewhere an invalidation marks what the next mount asks
\* for anyway.  Nothing here reads the mark.
Refreshed(q) == [RQ!Invalidate(q) EXCEPT !.invalid = FALSE]
MadeStale(q) == IF onPage THEN Refreshed(q) ELSE q

\* Success refreshes what the order changed, then leaves for the order's page.
LandPlaced ==
    /\ post.stage = "answered" /\ post.reason = Nothing
    /\ cartQ' = MadeStale(cartQ) /\ previewQ' = MadeStale(previewQ)
    /\ IF post.heard THEN onPage' = FALSE /\ Blank ELSE UNCHANGED <<onPage, pageVars>>
    /\ post' = NoPost
    /\ UNCHANGED <<edit, shop>>

\* Mutant: sold-out jars refresh the figures and leave the lines.
RefusalRefreshesPreview(r) == IF r = "empty_cart" THEN {} ELSE {"preview"}

\* A refusal is shown, and what it makes stale is asked for again.
RefusalRefreshes(r) == CASE r = "insufficient_stock" -> {"cart", "preview"}
                  [] r = "promo_invalid" -> {"preview"}
                  [] OTHER -> {}

LandRefused ==
    /\ post.stage = "answered" /\ post.reason # Nothing
    /\ IF post.heard
       THEN /\ refusal' = post.reason /\ refusedAt' = post.at /\ missed' = FALSE
            /\ cartQ' = IF "cart" \in RefusalRefreshes(post.reason) THEN Refreshed(cartQ) ELSE cartQ
            /\ previewQ' = IF "preview" \in RefusalRefreshes(post.reason)
                           THEN Refreshed(previewQ) ELSE previewQ
            /\ edit' = IF edit = NoEdit THEN NoEdit ELSE [edit EXCEPT !.over = TRUE]
       ELSE UNCHANGED <<pageVars, cacheVars, edit>>
    /\ post' = NoPost
    /\ UNCHANGED <<onPage, shop>>

\* A fault of the server or a dead network, before the order or after it: the page says that
\* it failed and refreshes nothing.
LoseOrder ==
    /\ post # NoPost
    /\ refusal' = IF post.heard THEN "failed" ELSE refusal
    /\ post' = NoPost
    /\ UNCHANGED <<onPage, refusedAt, missed, cacheVars, edit, shop>>

\* The promo hooks store the answer as the preview, useSetCartItem as the cart and refreshes
\* the preview, on any page.  Every other write only invalidates the two.
LandEdit ==
    /\ edit.stage = "answered"
    /\ IF edit.op = "put"
       THEN cartQ' = RQ!Write(cartQ, edit.lines) /\ previewQ' = MadeStale(previewQ)
       ELSE previewQ' = RQ!Write(previewQ, edit.figures) /\ UNCHANGED cartQ
    /\ missed' = (missed \/ (edit.over /\ refusal # Nothing))
    /\ edit' = NoEdit
    /\ UNCHANGED <<onPage, refusal, refusedAt, post, shop>>

\* Refused, or its answer is lost, the change made or not: no cache is touched.
LoseEdit ==
    /\ edit # NoEdit
    /\ edit' = NoEdit
    /\ UNCHANGED <<onPage, pageVars, cacheVars, post, shop>>

\* The server answers a read, and the answer arrives.
Read ==
    /\ \/ cartQ.fetch = Sent /\ cartQ' = RQ!Answer(cartQ, Lines) /\ UNCHANGED previewQ
       \/ previewQ.fetch = Sent /\ previewQ' = RQ!Answer(previewQ, Figures) /\ UNCHANGED cartQ
    /\ UNCHANGED <<onPage, pageVars, post, edit, shop>>

ReadArrives ==
    /\ \/ cartQ.fetch \notin {Idle, Sent} /\ cartQ' = RQ!Store(cartQ) /\ UNCHANGED previewQ
       \/ previewQ.fetch \notin {Idle, Sent} /\ previewQ' = RQ!Store(previewQ) /\ UNCHANGED cartQ
    /\ UNCHANGED <<onPage, pageVars, post, edit, shop>>

ReadFails ==
    /\ \/ cartQ.fetch = Sent /\ cartQ' = RQ!GiveUp(cartQ) /\ UNCHANGED previewQ
       \/ previewQ.fetch = Sent /\ previewQ' = RQ!GiveUp(previewQ) /\ UNCHANGED cartQ
    /\ missed' = (missed \/ refusal # Nothing)
    /\ UNCHANGED <<onPage, refusal, refusedAt, post, edit, shop>>

FormNext ==
    \/ Arrive
    \/ Leave
    \/ WindowFocus
    \/ SubmitOrder
    \/ PromoBox
    \/ SetQuantity
    \/ RefuseOrder
    \/ PlaceOrder
    \/ ApplyEdit
    \/ ReplyEdit
    \/ SellOut
    \/ PromoDies
    \/ OtherTab
    \/ LandPlaced
    \/ LandRefused
    \/ LoseOrder
    \/ LandEdit
    \/ LoseEdit
    \/ Read
    \/ ReadArrives
    \/ ReadFails

FormSpec == FormInit /\ [][FormNext]_formVars

-----------------------------------------------------------------------------
(* Properties *)

\* While the page shows why the order was refused, the figures beside it, once loaded, are
\* no older than the refusal: the steps it asks for start from what the server saw.  Not
\* claimed once an answer is stored of a basket or code change that was under way as the
\* refusal was heard (missed): setQueryData puts it over the newer read, unordered.
RefusalShowsItsCause ==
    onPage /\ ~missed =>
        /\ refusal = "insufficient_stock" /\ ~RQ!Fetching(cartQ) => cartQ.data.at >= refusedAt
        /\ refusal \in {"insufficient_stock", "promo_invalid"} /\ ~RQ!Fetching(previewQ)
             => previewQ.data.at >= refusedAt

\* A discount on screen is in the order, whatever expired meanwhile, unless the customer
\* changed the basket or the code since those figures were computed.
KeepsDiscount ==
    PlaceOrder /\ post.shown # Nothing /\ post.shown >= shop.own => shop.code = "live"
DiscountIsKept == [][KeepsDiscount]_formVars
=============================================================================
