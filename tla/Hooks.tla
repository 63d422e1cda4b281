------------------------------- MODULE Hooks -------------------------------
(***************************************************************************)
(* Reads and writes of one browser tab through api/hooks.ts.  A behaviour  *)
(* watches ONE fact in ONE cached read (a query family) from page to page  *)
(* while the tab's own mutations change it: the copy tells it as it is, or *)
(* as it was before some change this tab made.  What every read tells,     *)
(* what every mutation changes and what its onSuccess does to the cache    *)
(* are the tables below.                                                   *)
(***************************************************************************)
EXTENDS Naturals, FiniteSets, Tab

VARIABLES family,  \* the watched read
          fact,    \* the fact watched in it
          page,    \* the page the tab shows
          copy,    \* the cached entry; its data is an age
          calls,   \* mutations under way, by slot
          excused  \* HISTORY: the copy crossed a write in a way invalidation cannot repair

watching == <<family, fact>>
hooksVars == <<watching, page, copy, calls, excused>>

\* An answer under way carries an age, and is not mistaken for the absence of one.
Ages == {"current", "old"}
ASSUME IdleIsNoAnswer == Idle \notin [got : Ages]

\* One table of two.
Merged(f, g) == [x \in DOMAIN f \cup DOMAIN g |-> IF x \in DOMAIN f THEN f[x] ELSE g[x]]

-----------------------------------------------------------------------------
(* What a read is computed from *)

StoreReads ==
    [categories |-> {"categories"},
     products |-> {"listing", "stock", "categories", "ratings"},
     facets |-> {"listing", "categories"},
     product |-> {"listing", "stock", "categories", "ratings", "reviews", "orders"},
     related |-> {"listing", "stock", "related", "categories", "ratings"},
     reviews |-> {"reviews"}]

CustomerReads ==
    [me |-> {"profile", "orders"},      \* orders: the standing in the club
     cart |-> {"basket", "listing", "stock"},
     preview |-> {"basket", "code", "promos", "orders", "listing", "stock"},
     orders |-> {"orders", "payments"},
     notifications |-> {"prefs", "newsletter"},
     wishlist |-> {"hearts", "listing", "stock", "categories", "ratings"},
     addresses |-> {"book"},
     defaultAddress |-> {"book"}]

AdminReads ==
    [adminCategories |-> {"categories"},
     adminReviews |-> {"reviews"},
     adminOrders |-> {"orders", "payments"},
     adminProducts |-> {"listing", "stock", "categories"},
     adminUsers |-> {"profile", "orders"},
     adminPromos |-> {"promos", "orders"}]

Reads == Merged(StoreReads, Merged(CustomerReads, AdminReads))
Families == DOMAIN Reads

-----------------------------------------------------------------------------
(* What a mutation changes on the server *)

ShopChanges ==
    [createReview |-> {"reviews"},
     setCartItem |-> {"basket"},
     removeCartItem |-> {"basket"},
     applyPromo |-> {"code"},
     removePromo |-> {"code"},
     checkout |-> {"basket", "code", "orders", "stock", "book"}]

AccountChanges ==
    [reorder |-> {"basket"},
     addWishlistToCart |-> {"basket"},
     cancelOrder |-> {"orders", "stock"},
     updateProfile |-> {"profile"},
     setOrderUpdates |-> {"prefs"},
     newsletterToggle |-> {"newsletter"},
     toggleWishlist |-> {"hearts"},
     saveForLater |-> {"basket", "hearts"},
     writeAddress |-> {"book"}]

\* writeCategory: create, update, delete and reorder; writeProduct: create, update, image,
\* video and variant; writePromo: create and update.
AdminChanges ==
    [moderateReview |-> {"reviews", "ratings"},
     writeCategory |-> {"categories"},
     writeProduct |-> {"listing", "stock"},
     writeContent |-> {"listing"},
     writeRelated |-> {"related"},
     updateRole |-> {"profile"},
     writePromo |-> {"promos"},
     updateOrderStatus |-> {"orders", "stock", "reviews"},
     updatePayment |-> {"payments"}]

Changes == Merged(ShopChanges, Merged(AccountChanges, AdminChanges))
Mutations == DOMAIN Changes

-----------------------------------------------------------------------------
(* What onSuccess does to the cache: invalidateQueries, or setQueryData *)

ReviewRefreshes ==
    [createReview |-> {"product", "reviews"},
     moderateReview |-> {"adminReviews", "reviews", "product", "products"}]

CartRefreshes ==
    [setCartItem |-> {"preview"},
     removeCartItem |-> {"cart", "preview"},
     applyPromo |-> {},
     removePromo |-> {},
     reorder |-> {"cart", "preview"},
     addWishlistToCart |-> {"cart", "preview"}]

CheckoutRefreshes ==
    [checkout |-> {"cart", "preview", "orders", "products", "product", "defaultAddress", "me"}]

AccountRefreshes ==
    [updateProfile |-> {},
     setOrderUpdates |-> {"notifications"},
     newsletterToggle |-> {"notifications"},
     cancelOrder |-> {"orders", "products", "product"},
     toggleWishlist |-> {"wishlist"},
     saveForLater |-> {"cart", "preview", "wishlist"},
     writeAddress |-> {"addresses", "defaultAddress"}]

CatalogueRefreshes == {"adminProducts", "products", "product", "facets", "related"}
ProductRefreshes ==
    [writeProduct |-> CatalogueRefreshes,
     writeContent |-> CatalogueRefreshes,
     writeRelated |-> CatalogueRefreshes]

CategoryRefreshesShopOnly == [writeCategory |-> {"categories"}]

CategoryRefreshes == [writeCategory |-> {"categories", "adminCategories"}]

OfficeRefreshes ==
    [updateRole |-> {"adminUsers", "me"},
     writePromo |-> {"adminPromos", "preview"},
     updateOrderStatus |-> {"adminOrders", "orders", "products", "product"},
     updatePayment |-> {"adminOrders", "orders"}]

CustomerRefreshes == Merged(CartRefreshes, Merged(CheckoutRefreshes, AccountRefreshes))
AdminRefreshes == Merged(ProductRefreshes, Merged(CategoryRefreshes, OfficeRefreshes))
Refreshes == Merged(ReviewRefreshes, Merged(CustomerRefreshes, AdminRefreshes))

\* The mutations whose answer IS the fresh copy.
Sets == [m \in Mutations |->
            CASE m = "setCartItem" -> {"cart"}
              [] m \in {"applyPromo", "removePromo"} -> {"preview"}
              [] m = "updateProfile" -> {"me"}
              [] OTHER -> {}]

-----------------------------------------------------------------------------
(* What a page shows, and which mutations it offers *)

\* The header and the footer, which stay mounted from one storefront page to the next, and
\* the rail of the account pages.
Chrome == {"me", "cart", "facets"}
Rail == Chrome \cup {"orders", "wishlist", "addresses"}
\* What they show of them: names, the standing, and counts.
Glimpse ==
    [me |-> {"profile", "orders"},
     cart |-> {"basket"},
     facets |-> {"listing", "categories"},
     orders |-> {"orders"},
     wishlist |-> {"hearts", "listing"},
     addresses |-> {"book"}]

Storefront == {"home", "shop", "product", "cart"}
Account == {"orders", "order", "wishlist", "addresses", "settings"}
Layout(p) == IF p \in Storefront THEN Chrome ELSE IF p \in Account THEN Rail ELSE {}

Shows ==
    [home |-> {"products", "me", "cart", "wishlist"},
     shop |-> {"products", "facets", "me", "cart", "wishlist"},
     product |-> {"product", "related", "reviews", "me", "cart", "wishlist"},
     cart |-> {"me", "cart", "preview"},
     checkout |-> {"me", "cart", "preview", "defaultAddress"},
     orders |-> {"orders"},
     order |-> {"orders"},
     wishlist |-> {"wishlist", "me", "cart"},
     addresses |-> {"addresses"},
     settings |-> {"me", "notifications"},
     admin |-> {"me", "adminCategories"},
     adminProducts |-> {"me", "adminProducts", "categories", "product", "related"},
     adminOrders |-> {"me", "adminOrders"},
     adminPromos |-> {"me", "adminPromos"},
     adminReviews |-> {"me", "adminReviews"},
     adminUsers |-> {"me", "adminUsers"}]
Pages == DOMAIN Shows

Offers ==
    [home |-> {"setCartItem", "toggleWishlist"},
     shop |-> {"setCartItem", "toggleWishlist"},
     product |-> {"setCartItem", "toggleWishlist", "createReview"},
     cart |-> {"setCartItem", "removeCartItem", "saveForLater", "applyPromo", "removePromo"},
     checkout |-> {"checkout", "applyPromo", "removePromo"},
     orders |-> {"reorder"},
     order |-> {"reorder", "cancelOrder"},
     wishlist |-> {"setCartItem", "toggleWishlist", "addWishlistToCart"},
     addresses |-> {"writeAddress"},
     settings |-> {"updateProfile", "setOrderUpdates", "newsletterToggle"},
     admin |-> {"writeCategory"},
     adminProducts |-> {"writeProduct", "writeContent", "writeRelated"},
     adminOrders |-> {"updateOrderStatus", "updatePayment"},
     adminPromos |-> {"writePromo"},
     adminReviews |-> {"moderateReview"},
     adminUsers |-> {"updateRole"}]

\* The reads a page keeps mounted, and where the watched fact is on screen.
Watched(p) == Layout(p) \cup Shows[p]
Shown == family \in Watched(page)
Displays(p) == family \in Shows[p] \/ (family \in Layout(p) /\ fact \in Glimpse[family])

\* A fresh profile is kept five minutes; everything else is asked for by every page.
Keeps(f) == f = "me"

Touches(m) == fact \in Changes[m]
\* What one call is to the watched fact and its read.
Effect(m) == [touches |-> Touches(m), sets |-> family \in Sets[m],
              refreshes |-> family \in Refreshes[m]]
Concerns(m) == Touches(m) \/ family \in Refreshes[m] \cup Sets[m]

\* A page that neither shows the read nor writes it is left out.
Matters(p) == family \in Watched(p) \/ \E m \in Offers[p] : Concerns(m)

Free == [stage |-> "free"]
Busy == {s \in Slots : calls[s] # Free}

HooksInit ==
    /\ family \in Families /\ fact \in Reads[family]
    /\ page \in {p \in Pages : family \in Watched(p)}
    /\ copy = RQ!Ask(RQ!Fresh)
    /\ calls = [s \in Slots |-> Free]
    /\ excused = FALSE

-----------------------------------------------------------------------------
(* The tab *)

\* An observer mounts, or the window gets the focus.
Young == Keeps(family) /\ RQ!Loaded(copy) /\ ~copy.invalid
Observe ==
    \/ copy' = RQ!Ask(copy)
    \/ Young /\ UNCHANGED copy

\* A call sent from the page before goes on.
Visit(p) ==
    /\ Matters(p) /\ p # page
    /\ page' = p
    /\ calls' = [s \in Slots |-> IF calls[s] = Free THEN Free ELSE [calls[s] EXCEPT !.left = TRUE]]
    /\ IF family \in Shows[p] \cup (Layout(p) \ Layout(page)) THEN Observe ELSE UNCHANGED copy
    /\ UNCHANGED <<watching, excused>>

Focus ==
    /\ Shown /\ Observe
    /\ UNCHANGED <<watching, page, calls, excused>>

Click(m) ==
    /\ m \in Offers[page] /\ Concerns(m)
    /\ ~excused                        \* bound: until the copy is read again
    /\ \E s \in Slots \ Busy :
          calls' = [calls EXCEPT ![s] = [stage |-> "sent", is |-> Effect(m), ans |-> Nothing,
                                       left |-> FALSE]]
    /\ UNCHANGED <<watching, page, copy, excused>>

-----------------------------------------------------------------------------
(* The server *)

Older(d) == IF d = "current" THEN "old" ELSE d
OlderCopy(q) ==
    [q EXCEPT !.data = Older(@), !.fetch = IF @ \in {Idle, Sent} THEN @ ELSE [got |-> "old"]]
OlderCall(c) == IF c = Free THEN c ELSE [c EXCEPT !.ans = Older(@)]

\* A mutation that refreshes the read nowhere relies on the next page's own fetch: not so
\* when the tab has moved on before the change is made, or a fetch it overtakes is shared.
Elsewhere(c) == c.is.touches /\ ~c.is.refreshes /\ ~c.is.sets /\ (c.left \/ RQ!Fetching(copy))

\* The change commits: every copy of what it touches, shown or under way, is now an older one.
Apply(s) ==
    /\ calls[s] # Free /\ calls[s].stage = "sent"
    /\ copy' = IF calls[s].is.touches THEN OlderCopy(copy) ELSE copy
    /\ LET rest == IF calls[s].is.touches THEN [x \in Slots |-> OlderCall(calls[x])] ELSE calls
       IN calls' = [rest EXCEPT ![s].stage =
                       IF calls[s].is.sets THEN "applied" ELSE "answered"]
    /\ excused' = (excused \/ Elsewhere(calls[s]))
    /\ UNCHANGED <<watching, page>>

\* The answer that carries a fresh copy is read after the change.
Reply(s) ==
    /\ calls[s] # Free /\ calls[s].stage = "applied"
    /\ calls' = [calls EXCEPT ![s].stage = "answered", ![s].ans = "current"]
    /\ UNCHANGED <<watching, page, copy, excused>>

Refuse(s) ==
    /\ calls[s] # Free /\ calls[s].stage = "sent"
    /\ calls' = [calls EXCEPT ![s] = Free]
    /\ UNCHANGED <<watching, page, copy, excused>>

\* The change is made and the answer lost, on the way or to a fault of the server after its
\* commit: no onSuccess runs.
Lose(s) ==
    /\ calls[s] # Free /\ calls[s].stage # "sent"
    /\ calls' = [calls EXCEPT ![s] = Free]
    /\ excused' = (excused \/ calls[s].is.touches)
    /\ UNCHANGED <<watching, page, copy>>

ReadCopy ==
    /\ copy.fetch = Sent
    /\ copy' = RQ!Answer(copy, "current")
    /\ excused' = FALSE
    /\ UNCHANGED <<watching, page, calls>>

-----------------------------------------------------------------------------
(* Answers *)

StoreCopy ==
    /\ copy.fetch \notin {Idle, Sent}
    /\ copy' = RQ!Store(copy)
    /\ UNCHANGED <<watching, page, calls, excused>>

Unavailable ==
    /\ copy.fetch = Sent
    /\ copy' = RQ!GiveUp(copy)
    /\ excused' = TRUE
    /\ UNCHANGED <<watching, page, calls>>

Invalidated == IF Shown THEN RQ!Invalidate(copy) ELSE RQ!Mark(copy)

\* A fetch under way that the invalidation does not restart may have missed the write.
Joined == RQ!Fetching(copy) /\ (~RQ!Loaded(copy) \/ ~Shown)

Land(s) ==
    /\ calls[s] # Free /\ calls[s].stage = "answered"
    /\ calls' = [calls EXCEPT ![s] = Free]
    /\ copy' = IF calls[s].is.sets THEN RQ!Write(copy, calls[s].ans)
               ELSE IF calls[s].is.refreshes THEN Invalidated ELSE copy
    /\ excused' = (excused \/ IF calls[s].is.sets
                              THEN RQ!Fetching(copy) \/ calls[s].ans = "old"
                              ELSE calls[s].is.refreshes /\ Joined)
    /\ UNCHANGED <<watching, page>>

HooksNext ==
    \/ \E p \in Pages : Visit(p)
    \/ Focus
    \/ \E m \in Mutations : Click(m)
    \/ \E s \in Slots : Apply(s) \/ Reply(s) \/ Refuse(s) \/ Lose(s) \/ Land(s)
    \/ ReadCopy
    \/ StoreCopy
    \/ Unavailable

-----------------------------------------------------------------------------
ShownIsCurrent ==
    Displays(page) /\ Busy = {} /\ RQ!Loaded(copy) /\ ~RQ!Fetching(copy) /\ ~excused
        => copy.data = "current"

\* The standing in the club is left to the next profile read, when the kept one is old.
Standing == family = "me" /\ fact = "orders"

\* Whatever page it is on, once its requests are answered a tab shows the effect of its own
\* writes: every mutation refreshes each read that the page it can be sent from shows.
OwnWritesShow == ~Standing => ShownIsCurrent
=============================================================================
