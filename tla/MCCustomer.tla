----------------------------- MODULE MCCustomer -----------------------------
(***************************************************************************)
(* The customer's browser and the book of addresses its requests change,   *)
(* for TLC.  The pages share no state within a visit but the account they  *)
(* act on, which each models as far as it needs it; so a behaviour opens   *)
(* one of them and stays there, and a run reaches the states of each and   *)
(* no product of them.                                                     *)
(***************************************************************************)
EXTENDS Hooks, CheckoutForm, SignIn, TLC

CONSTANTS s1, s2, i1, i2, i3, Variants, MaxQty,
          MaxOrders, RowsPerPage

VARIABLES at,   \* the part opened
          screen, shownCart, shownPreview, basket, writes, overlap, unheard,   \* Basket
          book, draft, bookSent,   \* AddressBook
          pane, orders, ordersQ, filter, orderPage, arming, cancel   \* OrderPages

-----------------------------------------------------------------------------
(* Two requests of the browser at once, two jars of one kind, three addresses. *)

TwoSlots == {s1, s2}
ThreeAddresses == {i1, i2, i3}
TwoJars == [v \in Variants |-> 2]
AnySlot == Permutations(TwoSlots)

Cart == INSTANCE Basket WITH
          Stock <- TwoJars, cartQ <- shownCart, previewQ <- shownPreview
Book == INSTANCE AddressBook WITH Ids <- ThreeAddresses
ASSUME QuantitiesAreNumbers == MaxQty \in Nat

\* What a request brings is not taken for a request that is under way, or for none.
ASSUME AnswersAreNoMarks ==
  \A mark \in {Idle, Sent} : mark \notin [got : Cart!Lines] /\ mark # [got |-> "current"]

\* An entry nobody holds is held by no request.
ASSUME NobodyAsks == Nothing \notin Slots

OrderLists == INSTANCE OrderPages WITH page <- orderPage

shopping == <<screen, shownCart, shownPreview, basket, writes, overlap, unheard>>
addressing == <<book, draft, bookSent>>
following == <<pane, orders, ordersQ, filter, orderPage, arming, cancel>>
customerVars == <<at, hooksVars, shopping, formVars, addressing, signVars, following>>

\* A part that is not opened keeps one state, or has nothing in its variables.
CustomerInit ==
  /\ at \in {"hooks", "basket", "checkout", "addresses", "signin", "orders"}
  /\ HooksInit /\ (at # "hooks" => family = "me" /\ fact = "profile" /\ page = "home")
  /\ FormInit
  /\ SignInit
  /\ IF at = "basket" THEN Cart!BasketInit
     ELSE /\ screen = Nothing /\ shownCart = Nothing /\ shownPreview = Nothing
          /\ basket = Nothing /\ writes = Nothing /\ overlap = Nothing
          /\ unheard = Nothing
  /\ IF at = "addresses" THEN Book!BookInit
     ELSE /\ book = Nothing /\ draft = Nothing /\ bookSent = Nothing
  /\ IF at = "orders" THEN OrderLists!OrdersInit
     ELSE /\ pane = Nothing /\ orders = Nothing /\ ordersQ = Nothing /\ filter = Nothing
          /\ orderPage = Nothing /\ arming = Nothing /\ cancel = Nothing

CustomerNext ==
  /\ UNCHANGED at
  /\ \/ at = "hooks" /\ UNCHANGED <<shopping, formVars, addressing, signVars, following>>
        /\ HooksNext
     \/ at = "basket" /\ UNCHANGED <<hooksVars, formVars, addressing, signVars, following>>
        /\ Cart!BasketNext
     \/ at = "checkout" /\ UNCHANGED <<hooksVars, shopping, addressing, signVars, following>>
        /\ FormNext
     \/ at = "addresses" /\ UNCHANGED <<hooksVars, shopping, formVars, signVars, following>>
        /\ Book!BookNext
     \/ at = "signin" /\ UNCHANGED <<hooksVars, shopping, formVars, addressing, following>>
        /\ SignNext
     \/ at = "orders" /\ UNCHANGED <<hooksVars, shopping, formVars, addressing, signVars>>
        /\ OrderLists!OrdersNext

CustomerSpec == CustomerInit /\ [][CustomerNext]_customerVars

-----------------------------------------------------------------------------
(* What is checked of the parts; Hooks, CheckoutForm and SignIn their own. *)

\* Once every request has been answered, the cart and the figures on screen are those of
\* the basket on the server, whichever button of whichever page changed it.
ScreenShowsTheBasket == at = "basket" => Cart!ScreenShowsTheBasket

\* At most one address is the default, however the transactions of creations, edits, "make
\* default" and checkouts cross.
OneDefault == at = "addresses" => Book!OneDefault

\* Once the page has heard of it, "too late" is never beside a button that still offers to
\* cancel.
TooLateEndsTheOffer == at = "orders" => OrderLists!TooLateEndsTheOffer
=============================================================================
