# Verification of the Mountain Breath shop

Mountain Breath is a small online shop: a Go API over PostgreSQL
(`backend/`), a React front end (`frontend/`) and the scripts around them.
This directory holds TLA+ models of the backend's transactions and of the
front end's state over them, the TLC runs that check them on small
instances, and theorems about them that the TLAPS proof system has checked
for every value of the parameters.

The backend keeps no state of its own between requests. What can go wrong
there beyond a single request is in the rows of the database and in how
concurrent transactions read, lock and write them. The front end keeps a
cache of what it has read, and forms that were filled from it; what can go
wrong there is in answers that come late, in another order or not at all.
So the models are of two kinds: transactions at the grain at which PostgreSQL
interleaves them, and pages at the grain at which the browser runs their
callbacks.

## 1. Inventory

| Component | State | Operations | Meets | Hard behaviour |
|---|---|---|---|---|
| Checkout and orders (`store/orders.go`) | `orders`, `order_items`, `product_variants.stock_qty`, `products.sales_count`, default `addresses` | `CreateOrder`, `UpdateOrderStatus`, `CancelOrderByCustomer`, `UpdateOrderPaymentStatus` | cart, promos, catalogue admin, pricing | four kinds of row locks, snapshots older than the locks, deadlocks, double submits, restocks |
| Checkout and order pages (`CheckoutPage`, `OrdersPage`, `OrderDetailPage`) | a form, the last refusal, the armed cancel button, cached figures written by reads and by the promo box | submit, apply or remove a code, cancel, filter, page | checkout, cart, query cache | refusals beside stale figures, codes that die while shown, a shop that is faster |
| Cart and promos (`store/cart.go`, `store/promos.go`, `api/checkout.go`, `CartPage`, `PromoBox`) | `cart_items`, `cart_promos`, `promo_codes`, `promo_redemptions`; the cached cart and preview | set, delete, clear lines; apply, remove, edit, redeem, release a code | checkout, pricing, query cache | caps and one-per-customer under concurrency; codes edited while carts carry them; clicks answered out of order, or changed and never answered |
| Pricing (`domain/price.go`, `domain/promo.go`) | none (pure) | `Price`, `Promo.Issue`, `ValidatePromoInput`, the preview | cart, promos, the clock | rounding, thresholds, several discounts at once, CHECK constraints |
| Roles and account deletion (`store/users.go`) | `users.role`, everything a user owns | `UpdateUserRole`, `DeleteAccount` | reviews, orders, sessions | "never zero administrators" is a count over rows others write |
| Reviews and ratings (`store/reviews.go`) | `reviews`, `products.rating_avg`, `rating_count` | `CreateReview`, `UpdateReviewStatus`, `recomputeRating` | orders (verified purchase), account deletion | an aggregate read before a lock wait and written after it |
| Product photos (`store/products_admin_detail.go`, `ProductContentEditor`) | `product_images` and the editor's copy of it | upload, delete, reorder, choose the hero | – | the limit of three and the one hero under concurrent edits |
| Back office (`AdminPage`, `AdminOrdersPage`, …, `AdminProductsPage`) | cached lists, forms over their rows | every administrative write | all of the above | whole rows written from old copies; buttons from a hand-kept state machine |
| Sessions, sign-in, password reset (`store/sessions.go`, `store/password_reset.go`) | `sessions`, `password_reset_tokens`, the cached profile | sign in, out, change password, request and use a reset link | mail | single use, parallel requests, sessions that should have ended |
| Settings (`SettingsPage`, `api/settings.go`) | which form is open, mutations under way, the armed deletion | edit, change password, toggle notifications, delete the account | newsletter, sign-in | answers to a form that was closed and opened again |
| Addresses (`store/addresses.go`, `AddressesPage`) | `addresses` and the page's copy | create, edit, remove, make default; the checkout's upsert | checkout | one default per user, cleared and set in two statements and written from two places, with only a unique index between |
| Newsletter (`store/newsletter.go`, `NewsletterPages`, `SiteFooter`) | `newsletter_subscribers` | subscribe, confirm, unsubscribe, toggle | mail, settings | double opt-in with old links and repeated requests |
| Shop page and search (`store/products.go`, `useCatalogFilters`, `ShopPage`, `SearchOverlay`) | the query string, the browser's history, a debounced term | filter, page, slide, go back, type | query cache | counts and listing are separate SQL; answers of before stay on screen; late answers of earlier terms |
| Query cache, language, currency (`api/hooks.ts`, `api/client.ts`, `useLocale`, `CurrencyProvider`) | cached answers by key, the API module's variables | 24 kinds of mutation with what each refreshes; switching | every page | a refresh forgotten; an answer lost after its change; an answer stored under another view's key; placeholders of the view before |
| Wishlist, reorder | `wishlist_items`, `cart_items` | add, remove, move to cart | cart | clamping to stock and to 99 |
| OAuth sign-in (`store/oauth.go`) | `users`, `oauth_identities` | find or create, link | sessions | parallel first sign-ins |
| Rate limiter (`api/ratelimit.go`) | in-memory windows | allow | sign-in, reset | window boundary |
| Mail, metrics, HTTP plumbing, configuration, sitemap | none | output | – | failures are logged and change no row |
| Migrations, seed, deployment, load tests | schema | – | – | operations |

What makes each of the modelled components correct:

- **Checkout.** What is committed is what a shop that does everything in one
  step could have done. Nothing is sold twice and no jar is lost or returned
  twice; a code is redeemed once per customer, within its cap, and released by a
  cancellation; the first delivery is free once; a resubmitted form orders
  nothing twice; transactions do not wait in circles, and every request ends.
- **Checkout and order pages.** The reason of a refusal stands beside figures
  that are no older than it; a discount that was shown is charged or the order
  is refused; a cancellation that came too late takes its button away.
- **Cart.** When everything is answered, the screen shows the server's basket; after a
  change whose answer was lost, from the next read on.
- **Pricing.** Whatever discounts meet, the figures satisfy the CHECKs of the
  `orders` table; the chilled-box surcharge is never waived; the free-shipping
  bar tells the truth; more goods never cost less.
- **Roles.** Somebody is always an administrator, and the count this rests on
  is true when it is used.
- **Reviews.** The stars on a card are the average of the reviews below it;
  every review is a verified purchase of a known customer.
- **Photos.** Never more than the limit, one hero, and a hero while there are photos.
- **Back office.** A button the page offers is refused only if a colleague was
  faster; a switch changes what it names and nothing else.
- **Sign-in.** A reset link works once; no session outlives the password it
  was started with.
- **Addresses, newsletter, settings.** One default; live only by the last
  consent; an old answer does not close a form that was opened again.
- **Shop page and search.** The number beside a filter is what its click
  shows; the search ends on what was typed.
- **Query cache.** A tab sees its own writes on every page. What it shows was
  asked in its language and currency, or is being replaced by what is.

## 2. How a transaction is modelled

The server opens transactions at READ COMMITTED, PostgreSQL's default. Four
facts about that level shape every module:

1. A statement reads a snapshot taken when it starts. Two statements of one
   transaction may see different rows.
2. A row lock (`FOR UPDATE`, or the implicit one of `UPDATE` and `DELETE`)
   is kept until the transaction ends.
3. A statement that waited for a row re-reads *that row* when it gets it and
   drops it if it no longer matches. It does not re-read anything else: not
   the subqueries in its target list, and not rows that have come to match.
4. A circle of waiting transactions is broken by rolling one of them back.

So each transaction is a sequence of actions, one per statement that reads
something the later course depends on, or takes a lock. A statement that
reads and then waits is two actions (`ReadPromo` then `LockPromo`,
`Recompute` then `LockProduct`, `ReadAdmins` then `LockAdmin`): that split is
where most of the interesting behaviour lies. Writes are invisible to others
until COMMIT, so they are one action with it. A single-statement write is one
action guarded by the locks it needs. `Abort` is the deferred `Rollback`: a
lost connection, a cancelled context or a stopping server, enabled between
any two statements.

The lock manager, the deadlock detector and the foreign-key locks are not in
the repository; they are modelled from how the code relies on them and marked
external in `PROJECT.json`. A foreign-key check takes KEY SHARE, which
conflicts with `FOR UPDATE` and `DELETE` but not with an ordinary `UPDATE`.

### How a page is modelled

The front end runs callbacks one at a time, so each callback is one action.
What interleaves with it is the network and everybody else. A request goes
through *sent* (the server has not seen it), *applied* (the server's rows have
changed), *answered* (the answer is on its way), and *landed* (`onSuccess`
has run). From *sent* it may be refused; from any later stage its answer may be
lost, since a handler that has written can still fail to reload what it answers
with (`api/cart.go:142-148`): the change is made, no `onSuccess` runs, no cache
is touched. A page holds several at
once, and nothing orders their answers.

Reads go through one entry of the query cache, `ReactQuery`: what is shown,
the fetch under way, the stale mark. The library is not in the repository.
Its operators are what `api/hooks.ts` relies on: a mount or a window focus
asks and shares a fetch under way; `invalidateQueries` restarts an observed
entry's fetch, but joins a *first* one; `setQueryData` replaces the data and
stops nothing; a last failed retry leaves the data of before.

Mutations of the library call the hook's `onSuccess` always and the callback
passed to `mutate` only for the last call since `reset`, while the component
is mounted. That difference is `heard` in `CheckoutForm` and `Settings`.

## 3. The modules

**`Checkout`** (`store/orders.go`, with the writes of `cart.go`, `promos.go`
and `products_admin.go` that run beside it). The first group of variables is
the committed database, one function per column; the second is the server: `pc` and
`job` of every request, `lines` and `quote` for what its transaction has
read, `lock` for who holds each row. `CreateOrder` is `LockUser`, `ReadCart`,
`LockLine` (in id order), `CheckLines`, `ReadPromo`, `LockPromo`,
`PriceOrder`, `LockProduct` (in id order), `CommitOrder`. A cancellation, by
the admin or by the customer, is `LockOrder`, `LockRestock` (in no order, as
in the code), `CommitCancel`. The other status and payment transitions, the
cart edits, applying and clearing a code, the admin's variant and promo forms
and the passing of a code's end date are actions of their own. A request is
served once and its id becomes the id of its order, which bounds every run.
`supply` is a history variable: what the admin has ever declared as stock.

**`AtomicShop`** is the abstract shop: six variables, no locks, no requests.
An order is placed or cancelled in one step, and each condition (the jars are
there, the code unspent, a free first delivery is the first) holds in the very
state of that step. `Checkout` instantiates it over its own database
variables, with request ids for order ids; `BehavesAtomically` says that every
behaviour of `Checkout` is one of it. The cap of a code is not part of the
promise, since the code does not keep it (section 5).

**`Pricing`** (`domain/price.go`, `domain/promo.go`, the preview of
`api/checkout.go`). The arithmetic is operators in integers, rounding as the
code does; the state machine is what a cart page goes through: the basket,
the code and its edits, days, redemptions and orders.

**`Roles`** (`store/users.go`). `UpdateUserRole` and `DeleteAccount`:
`ReadRole` (the advisory read), `ReadAdmins` (the snapshot of `SELECT … WHERE
role = 'admin' … FOR UPDATE`), `LockAdmin` (each row in id order, dropped if
it no longer matches), `CountAdmins`, `LockTarget`, `Commit`.

**`Ratings`** (`store/reviews.go`, and the part of `DeleteAccount` that meets
reviews). Averages are kept in hundredths and rounded half up, as
`numeric(3,2)` does.

**`Hooks`** (`api/hooks.ts`, `App.tsx`). Tables: what every cached read is
computed from, what every mutation changes on the server and what its
`onSuccess` does to the cache, which page shows and offers what. A behaviour
follows one fact in one read from page to page (the stock in the cart, the
ratings in the wishlist); a copy tells it as it is, *current*, or as it was
before a change of this tab, *old*. A page shows all of its own reads; of those
that the header, footer and account rail keep mounted it shows what `Glimpse`
says, names and counts. Families of keys stand for their members.

**`Basket`** (`ProductCard`, `HomePage`, `ProductPage`, `CartPage`,
`PromoBox` and the cart hooks). Quick add, buy box, stepper, remove, save for
later, upsell and promo buttons, each with the quantity *it* computes and the
cache *its* hook writes. `Lose` is an answer that fails after the write.

**`CheckoutForm`** (`CheckoutPage`, its `PromoBox`, `CreateOrder`'s refusals).
The two cached reads carry the shop's edition they were computed from. They are
written by their reads and by the answers of the customer's own edits: the promo
box applies and removes a code on the page, a quantity set on the page before may
be answered on this one. One order at a time, the order in which `CreateOrder`
finds its reasons to refuse, and what each reason refreshes.

**`OrderPages`** (`OrdersPage`, `OrderDetailPage`). Filters, the featured
order, pages of rows, and the cancel button that asks twice, while the shop
moves orders on.

**`AddressBook`** (`store/addresses.go`, the upsert of `store/checkout.go`,
`migrations/000017`). The book on the server under the requests of every tab.
A creation or edit is a transaction of several statements: count, find the old
default in a snapshot, wait for its row and clear it, hold the entry, write it,
commit. A checkout upserts the default. The partial unique index is `Contested`
(wait for a transaction that may leave a default) and `Taken` (violation, so
rollback).

**`SignIn`** (`store/sessions.go`, `store/password_reset.go`, `api/auth.go`,
the three pages). Sign-in compares the password and starts the session in two
statements; a reset request retires the old links and inserts the new one; a
reset locks its link, then spends it; a password change verifies, then writes.

**`Settings`** (`SettingsPage`). Profile, password, switch and danger row.

**`Newsletter`** (`store/newsletter.go`, `api/newsletter.go`, the footer, the
switch and the two linked pages). One address, its row, its tokens.

**`Catalogue`** (`ShopPage`, `useCatalogFilters`, `ListProducts`,
`CatalogFacets`). The query string is the state; the grid and the sidebar are
two reads keyed by it, each with its own SQL: the listing's total and the counts
are separate operators over the shared predicates. Each keeps the answer of
before on screen until its own lands. `promise` remembers the count beside what
was clicked.

**`Search`** (`SearchOverlay`, `useDebounce`). The term, the timer, the
answer on screen.

**`KeyedViews`** (`useLocale`, `CurrencyProvider`, `client.ts`, `hooks.ts`). The
module variables every request reads, beside the keys the renders use, and the
placeholder: listings, counts and reviews go on showing the answer of the key
before (`placeholderData: keepPreviousData`) until their own lands.

**`Gallery`** (`store/products_admin_detail.go`, the gallery section of
`ProductContentEditor`). Uploads, deletions with the promotion of the next
hero, the save that clears and rewrites, statement by statement with row
locks, over the page's copy.

**`ProductEditor`** (the other sections of `ProductContentEditor`, the row
switch of `AdminProductsPage`). Metadata, copy tabs, curated products, a
variant's line.

**`BackOffice`** (`AdminPage`, `AdminPromosPage`, `AdminOrdersPage`,
`AdminReviewsPage`, `AdminUsersPage`). Lists with forms and lists with
buttons, beside a colleague.

### Compositions

`MCCheckout` holds the instances of `Checkout`. Three modules put components
that belong to one actor into one state space: **`MCCatalogue`** (`Pricing`,
`Catalogue`, `KeyedViews`, `Gallery`, `ProductEditor`, `BackOffice`: what is
sold), **`MCCustomer`** (`Hooks`, `Basket`, `CheckoutForm`, `AddressBook`,
`SignIn`, `OrderPages`: one customer's browser and, in `AddressBook`, what its
requests meet) and **`MCAccounts`** (`Roles`,
`Ratings`, `Settings`, `Newsletter`, `Search`: accounts and what hangs on
them). The parts of each share no mutable state in the code: a page is
unmounted when another opens, and a request of one touches no row of another.
So a behaviour opens one part (`at`) and stays there; a run reaches the states
of each and no product of them. Each extends the parts whose properties it takes
as they are (`Tab` declares what several of those need, the constants of a
browser tab and its cache) and instantiates the others. Where two components
*do* meet in rows or in the cache, the meeting is inside one module: orders with promos, carts and
stock in `Checkout`, reviews with account deletion in `Ratings`, the cache
with the mutations of all pages in `Hooks`.

### Proof modules

| Module | Extends | Theorems about |
|---|---|---|
| `CheckoutProofs` | `Checkout` | types of rows and transactions |
| `CheckoutSafety` | `CheckoutProofs`, `SumFacts` | what the row locks buy; lock order |
| `CheckoutLedger` | `CheckoutSafety` | sums over stock and orders, redemptions, double submits, the refinement of `AtomicShop` |
| `RatingsProofs` | `Ratings`, `SumFacts` | verified purchases, the stars of a lone review |
| `AccountsProofs` | `MCAccounts` | roles, newsletter, settings, the reviews in composition |
| `CatalogueProofs` | `MCCatalogue` | pricing, language and currency, counts, order buttons, photos |
| `CustomerProofs` | `MCCustomer` | checkout page, sign-in, addresses, orders, basket, query cache |
| `SumFacts` | `Sums` | lemmas on sums over finite sets |

## 4. The runs

| Run | Instance | What it shows |
|---|---|---|
| `stock` | 2 customers, 3 requests, 1 variant with one jar, cash on delivery, a code capped at 1 | `NeverOversold`, `JarsAccountedFor` (a ledger over stock, orders and sales), `CancelStaysAllowed`, `DeliveredCashIsPaid`, `CapRespected`, `BehavesAtomically`, `TypeOK` |
| `first` | 1 customer, 4 requests, 2 variants, an uncapped code that expires and is renewed, applied again and cleared | `OneFreeFirstDelivery`, `RedeemsWithoutConflict`, `RedemptionsMatchOrders` |
| `live` | 2 customers, 3 requests, 4 variants of 2 products; carts that are equal, or cross in products only; one or both carry the code; one order may be cancelled | `SubmitTwiceOrderOnce`, `CheckoutsNeverDeadlock`, `EveryRequestEnds` |
| `catalogue` | `MCCatalogue` | prices: `DatabaseAccepts`, `ChilledBoxIsPaid`, `BarIsEnough`, `MoreGoodsCostMore`, `PricingTypeOK`; the shop page: `CountsKeepTheirWord`; language and currency: `ShownInView`; photos: `GalleryFits`; back office: `RefusedMeansOvertaken` |
| `customer` | `MCCustomer` | cache: `OwnWritesShow`; cart: `ScreenShowsTheBasket`; checkout: `RefusalShowsItsCause`, `DiscountIsKept`; addresses: `OneDefault`; sign-in: `SingleUse`, `SessionsFollowThePassword`; orders: `TooLateEndsTheOffer` |
| `accounts` | `MCAccounts` | roles: `SomeAdmin`, `CountIsTruth`, `RoleRequestsEnd`, `RolesTypeOK`; reviews: `ReviewsAreVerified`, `RatingMatchesLoneReview`, `ReviewRequestsEnd`; settings: `ReopenedFormStays`; newsletter: `LiveByConsent`; search: `StopsOnWhatWasTyped` |
| `cap` | 2 customers, different variants, one code capped at 1 | refutes `CapRespected` |
| `cancel_deadlock` | 2 customers, 2 variants | refutes `NoDeadlock` |
| `roles_leaving` | 2 users, 2 workers | refutes `SomeAdmin` |
| `ratings_drift` | 2 customers, 1 product, 2 workers | refutes `RatingMatchesReviews` |
| `gallery_hero` | 1 product, 2 requests | refutes `GalleryHasHero` |
| `toggle` | 1 product | refutes `ToggleKeepsNotes` |

**Bounds, and why they are enough to be interesting.** Three requests let two
transactions interleave while a third finishes, or let one order, one cancel
and one order again; in `first` the fourth lets a code be redeemed, released by a
cancellation, redeemed and released again. One jar makes every second checkout a race for the last
one. A cap of 1 is reached, released and reached again. Four variants of two
products are the least that lets two baskets share products without sharing
variants, which is what product lock order is about. Baskets in `catalogue` sit
on and beside every threshold, floor and rounding boundary of its two markets.
Two administrators are the least that makes the last-admin rule a race; with
two workers each may hold what the other waits for.

In the browser runs two slots (`Slots`, `Posts`) let one answer overtake
another, and every property about a late answer needs no more. `MaxEdits` of 2
lets the shop change twice behind an open checkout, beside the order itself, with
one order and one edit of the customer's own under way at a time; three addresses
let two requests put two entries beside the default that is there, and an id is
used again once its entry is gone, which only adds behaviours; `MaxSessions`, `MaxLinks`
and `MaxPasswords` of 2 let a link be superseded and a password be changed
twice; `MaxOrders` of 3 with one row per page gives a featured order, a page
and a page that vanishes; `MaxTokens` of 3 lets an address subscribe, leave
and come back. `MaxPhotos` is 2 where the code has 3: the races are about the
last place and about the photo that follows the hero, and both exist with
two; `MaxIds` bounds the rows ever inserted. Three products in two
categories, one with no benefit and two at one price, let each filter hide
and show something; `PerPage` of 1 gives pages, `MaxHistory` of 1 a way back.
`MaxStock`, `MaxRows` and `MaxQty` of 2 tell "some" from "all". Four search
terms, two of them too short, let typing cross the threshold either way.

Some actions carry bounds that are about what is still claimed and not about
the system: `Followed` in `Basket` and `KeyedViews` stops a behaviour once the
screen has been written by crossing answers, after which the property claims
nothing (in `Basket`, once both caches were, or one of them beside a change nobody
was told of); in `Hooks` nothing is clicked while the copy is `excused`. Slots and
requests are symmetric; runs with a liveness property use no symmetry.

**Fairness.** Nobody is obliged to send a request, and no failure is
promised. In `Checkout` each request's own statements are weakly fair: it is
running code, and since requests are finitely many nobody can be overtaken
for ever. In `Roles` and `Ratings` workers serve requests without end, so a
waiter needs strong fairness: PostgreSQL queues the waiters of a row and
grants it to each in turn. The deadlock detector is weakly fair. In `Search`
the timer that `useDebounce` set fires and the answer of a standing query
lands; nobody has to type or to stop typing.

`CHECK_DEADLOCK FALSE` stands in the runs whose system really stops: requests
of `Checkout` are served once, deleted accounts send nothing, and the bounds on
links, orders, tokens and rows end the others.

## 5. What the runs found

Most of what the code promises holds. Six places do not do what a comment
beside them says; each is a run that ends in a counterexample and an entry
under `findings`.

- **A capped code is redeemed past its cap** (`cap`). `CreateOrder` counts
  redemptions in the target list of the statement that then waits for the
  code's row. The count is that of the snapshot before the wait, so the lock
  does not serialise it. Two checkouts of the *same* variant are saved by the
  variant lock, taken earlier (`stock` passes `CapRespected` for that reason);
  two checkouts of different variants are not.
- **A cancellation can deadlock with a checkout** (`cancel_deadlock`). The
  restock locks variants in join order. Nothing is lost, since PostgreSQL
  rolls one back, but the rule "one locking order for all" does not hold.
- **The shop can lose its last administrator** (`roles_leaving`). A customer
  deletes the account while being promoted: the deletion read "customer"
  before and does not count. If the other administrator was demoted meanwhile
  none is left.
- **Two moderations of one product at once lose one** (`ratings_drift`), since
  the aggregate is read before the wait for the product's row. With one review
  per product it stays right (`RatingMatchesLoneReview`).
- **A gallery without a hero** (`gallery_hero`). The photo chosen to follow a
  deleted hero is deleted by another request between the choice and the
  promotion.
- **Switching a product off wipes its notes** (`toggle`). The row's switch sends
  four fields and the handler writes all ten columns, the cold-chain flag
  among them, which then no longer charges the chilled box.

Others were seen while the models were written. They are visible in the
models (the action that does it is named), and have no run of their own
because no line of the repository promises otherwise, or because they were
told apart in a property's exception.

*Orders and stock.* The cart is cleared by a statement with a later snapshot
than the one it was read in, so a quantity changed in between is neither
ordered nor kept (`SetCartItem` between `ReadCart` and `CommitOrder`). The
price subquery is read before the wait for the variant row (`UpdateVariant`
between `ReadCart` and `LockLine`), and a price that changes under an open
checkout is charged without a word. The variant form writes the stock it was
opened with, so jars sold since are back on the shelf (`ProductEditor!Sell`
before `Save`). Three demotions at once can wait in a circle (`LockTarget`
after `LockAdmin`). A market with a free base delivery but a threshold would
still be sent a remaining amount (`Remaining` with a base of 0). The checkout
preview reads the cart, the rates, the code and the prior orders in four
snapshots.

*Reviews.* `DeleteAccount` removes published reviews without a recompute
(`store/users.go:141`), so the stars of a deleted account stay, against
`migrations/000015_reviews.up.sql:54`.

*The cache: reads that a mutation changes and refreshes nowhere.* A hook names
the reads of the page it is sent from, and leaves others to the fetch of the
page that shows them. That fetch makes it right, unless the tab moved on before
the change was committed, or the fetch under way was overtaken by it: then the
old value stays until the next mount or focus. `OwnWritesShow` excepts exactly
that case (`Elsewhere`). The pairs are:

- `useCancelOrder` (`hooks.ts:496-512`) restocks: the stock in the cart, the
  preview (and the prior orders it counts), the wishlist and the related
  products.
- `useCheckout`: the stock in the wishlist and the related products, and the
  address it saved in the list of addresses.
- The admin's status change: the same stock, and the published reviews, whose
  "verified purchase" it makes or unmakes.
- The product form: listing and stock in the cart, the preview and the
  wishlist; the content form: the listing in the same three; the category
  form: the category in the catalogue, the facets, the product page, the
  related products and the wishlist.
- `useModerateReview`: the stars in the related products and the wishlist.
- The administration's lists, beside what a customer does, and beside what the
  other pages of the administration do: orders, products, users, codes and the
  queue of reviews (`useCheckout`, `useCancelOrder`, `useUpdateProfile`,
  `useCreateReview`, the status change, the category form).

Beside these the standing in the club, which counts orders and which the
profile keeps for five minutes, is excepted altogether (`Standing`): neither a
cancellation nor a status change refreshes it.

*The cache: order.* `setQueryData` stops no older fetch, and an invalidation
during a first fetch joins it: in both cases an answer of before the write
stays on screen until the next focus (`excused`, `overlap`). A change whose
answer is lost refreshes nothing: the old cart stays beside the new one of the
server until it is read again (`unheard` in `Basket`, `Lose` in `Hooks`). On
the checkout page the answer of a code applied or removed is put over the
figures that a refusal had asked for, if it was under way as the refusal was
heard (`missed`). A cart written while the language or the currency is
switched is stored under the view it was asked in by a later render's key
(`crossed`). Signing out or in replaces only the profile; other cached reads of
the previous account stay until they are refetched.

*A switch of market over a listing.* While the listing of the new market is
asked for, the cards of the old one stay, dimmed (`ShopPage.tsx:317-324`), and
`components/ui/Price.tsx:80,104` writes their minor units of the old currency with the sign
and the digits of the new. `KeyedViews!Waiting` is that state; `ShownInView`
says that it ends with the answer to the right question, and claims no more of
it. It is close to what `api/currency.test.tsx:13-16` calls "rendering a cached
answer to the previous question", though that comment is about the key.

*Pages.* The "too late" notice of a refused cancellation disappears with the
refetch that explains it (`OrderPages!Store`). A list page number beyond the
last page is kept when a list shrinks, and shows nothing. A quick add on a
cart that is not loaded yet sets the line to 1. On the address page a write
sends the entry the page showed, over what another tab saved; an armed
removal stays armed when its row is edited. In the settings the answer of the
*other* form closes the open one, and cancelling the danger row leaves its
delete button armed until the timer. The copy tabs of the content editor open
with the English text as if it were the language's own, and saving stores it;
the related picker, after a failed read, saves an empty selection. The
category form restores the position it was opened with; the promo switch
posts the whole cached row over a colleague's edit.

*Accounts.* Two requests for a reset link at once leave two live links
(`RetireLinks`, `RetireLinks`, `InsertLink`, `InsertLink`), where one newest
link is meant. A sign-in that had compared the old password starts its session
after the reset that should end it (`late`), and a password change that was
verified before a reset installs its password after it. A confirmation link
of the newsletter is replaced by each further subscribe request, so the first
mail's link is dead when the second is sent (`Upsert`,
`migrations/000020_newsletter.up.sql:15-17`).

## 6. What is proved

TLAPS has checked these for every value of the constants that the modules'
`ASSUME`s allow: any finite number of customers, variants, products, codes,
requests and workers, and any set of requests a page may have under way. Of the
safety invariants and action properties of the passing runs, all but
`CapRespected` are theorems. The theorems about the catalogue's and the
customer's pages keep the small worlds of `MCCatalogue` and `MCCustomer` where
the module fixes them: two markets, three products, three addresses, the tables
of `hooks.ts`.

### Checkout

- **Types.** `CheckoutProofs!Typing` has `JobsFit`: a request that is past its
  start has a user, an order and lines of the right kind. `CheckoutLedger!AllTyping`
  adds `sales`, which needs that a sum of naturals is one.
- **`NothingOversold`.** The invariant is `LockInv`: past each locking statement
  the transaction holds the user row, the variant rows of its lines, or the
  order row. With it, what `CheckLines` validated is in rows nobody else may
  write, so `StockCovers` is kept by every other request and the decrement
  cannot go below zero.
- **`OneFirstDelivery`.** `LockInv` gives that at most one checkout per user is
  past `LockUser`; `FirstIsFirst` says that a quote with the free delivery means
  no standing order yet, which only this user's checkouts could change.
- **`NoCancelOvertaken`.** The order row is held from the check to the commit,
  and every writer of a status waits for it.
- **`NoRedemptionRefused`.** `PlacedOnce` and `CodesUnused`: redemptions of a
  user appear only through the user's own checkouts.
- **`DeliverySettlesCash`.** Inductive as it stands: delivering settles the cash
  in the same write, and no payment click goes back to unpaid.
- **`NoCheckoutDeadlock`.** `InLockOrder` says which rows a checkout can hold at
  each statement, in the order user row, variants by id, code, products by id.
  Of a circle of checkouts take the request that waits at the latest statement
  and, among equals, for the greatest id: whoever holds that row would have to
  wait for one further on.
- **`NoJarLost`.** A ledger: placing an order adds to the sums what it takes from
  the shelf, a cancellation gives back what `RestockIsTheOrder` says was in the
  order, a stock edit moves `supply` by as much. The sums over sets rest on
  `SumFacts` (taking one element out takes its value out), proved by smallest
  counterexample, since induction theorems are out of reach.
- **`RedemptionsAreOrders`.** Both tables move in the same commit: `PlacedOnce`
  gives a new order its own row, and a cancellation that is still allowed when it
  commits (`CancelStaysAllowed`) takes exactly its order's row away.
- **`OneOrderPerCart`.** `CartsSpent`: a customer who has ordered has an empty
  cart, and no other request of theirs has read one that was not, because
  `LockUser` comes before the read.
- **`Atomicity`.** `Checkout` implements `AtomicShop`, step by step: `CommitOrder`
  is `Place`, `CommitCancel` is `Cancel`, the clicks and edits are themselves, every
  other statement is a stutter. That the abstract guards hold at the commit
  is `StockCovers`, `FirstIsFirst`, `CancelStaysAllowed` and `PlacedOnce`.

### Pricing and catalogue (`CatalogueProofs`)

- **`PricingTypes`, `NoCheckFires`** (the clamp keeps the two discounts within
  the goods) and **`ChilledBoxNeverWaived`**, from lemmas on rounding and on
  `Price` for all rates, baskets and codes.
- **`BarTellsTheTruth`.** A remaining amount is shown only under a threshold that
  is set, and adding it reaches that threshold.
- **`MoreIsNotCheaper`.** Each discount is a rounded percentage of at most the
  goods, or fixed; rounding is monotone and off by half a unit at most, so two
  of them by one together.
- **`ViewsStayTrue`.** `ViewsInv`: what is under way for a key was asked in a view
  of that key, and so was its data, as long as no write crossed a switch;
  the API module's variables are set in the same callback as the state. A
  placeholder is on screen only while the fetch of the screen's own key is under
  way, and that fetch was asked in the view of the screen.
- **`CountsAreKept`.** The invariant ties the three things a click involves: what the
  sidebar shows, once settled, is the counts of this query; a promise is the total of
  this query; what the grid shows, once settled, is that total. Each of the three
  kinds of count is shown to be the total of the query its click makes, which is
  where a filter lifted or kept too many would break it.
- **`RefusalsAreOvertaken`.** `Stage` numbers the states of orders and payments. Each
  arrow of the page's table is one of the server's and raises the stage, so a row
  is where the list showed it or past it, and a refusal means past.
- **`GalleriesFit`.** `GalleryFitsIn`. An upload past its count holds the product
  row, so the count is still true; a deletion holds the row it deletes, which
  is the hero for as long as it looks for another; a save that holds any photo
  holds the hero, and no second save holds one. Ids are given once (`Given`),
  so a list read earlier cannot name a row inserted since. TLC
  checked this invariant with three slots before it was proved.

### The customer's browser (`CustomerProofs`)

- **`DiscountsAreKept`.** `HonestInv`: unless the customer has edited since, a code
  that the cached figures or the figures of a request carried is still there,
  live or dead; and `PlaceOrder` refuses a dead one. An edit raises the
  customer's counter, anything else leaves a code where it was (`Onward`).
- **`CausesShow`.** `CauseInv`: after a refusal each of the two reads it blames is being
  fetched or is no older than the refusal; an edit of the customer's own that was
  not under way then was sent since, so its answer is no older either.
- **`LinksAreSingleUse`.** `LinkInv`: past `LockLink` a reset holds the link's row,
  a held link is live, a live link is unspent.
- **`SessionsFollow`.** Whatever replaces the password ends the sessions in the same
  commit, but the one it renews; a sign-in that compared an earlier one is
  marked `late`, which is the exception the property names.
- **`DefaultIsOne`.** `DefaultInv`: besides the committed defaults it counts the pending
  ones. An entry becomes a default only where the index finds no other that its own
  transaction has not unset, and whoever holds a default's row holds it until it
  commits. The clearing statements are not enough: two edits, or an edit and a
  checkout, can each clear what they saw.
- **`TooLateIsHeard`.** `TooLateInv`: while "too late" is shown the orders are being
  read again or no longer pending in the copy.
- **`ScreensFollow`.** `CartInv` and `FiguresInv`: a cached copy is the basket's, or a
  write has been applied whose answer will replace or refresh it (`CartWaits`),
  or an overlap or a lost answer is recorded.
- **`OwnWritesStay`.** The same for every fact of every family and every mutation of
  `Hooks`. Its core is `Repairs`: for each page and each fact it shows, every
  mutation offered there that changes the fact refreshes or sets a read that tells
  it, proved by evaluating the tables. A mutation that does not, sent from a page
  that does not show the fact, is answered by the next page's fetch, if that is
  asked after the change.

### Accounts (`AccountsProofs`, `RatingsProofs`)

- **`RolesTyping`; `CountsAreTrue`** from `CountInv`, whose parts are `Counted` (the
  rows counted are locked and still administrators'), `Covered` (an
  administrator neither counted nor still to be locked was promoted
  meanwhile), `Written` and `JobFits`; and **`LastAdminStays`** from `RoleInv`,
  which adds `Entitled`: beside the administrator about to be removed there is
  another whom nobody can remove first. It assumes `PromotedStay`, that nobody
  is both promoted and removed in the run; the run `roles_leaving` shows that
  the code does not manage without it.
- **`VerifiedPurchases`.** `VerifiedInv`. `Bought`: a purchase, once checked, is
  missing only if its customer is. `Backed`: a review about to be written is
  locked and will be a verified one. `TakesAll`: a departure about to commit holds
  every review of its user. `NeverBoth`: the author's row, which the foreign
  key shares and the deletion needs alone, keeps the last two apart.
- **`LoneStars`.** `LoneInv`: while a product has one review at most, what a
  `Recompute` drafted is what that review still gives, because its row is locked
  until the commit. The summary of one row is a sum over a singleton.
- **`ReviewsStayVerified`, `LoneStarsStay`.** The composition instantiates
  `RatingsProofs`; each of its steps is one of the reviews' or leaves them alone.
- **`ReopenedFormsStay`.** `FormsInv`: what was sent before a form was opened is no
  longer heard.
- **`ConsentHolds`.** `ConsentInv` adds types to the property; `UpsertKeepsLife` says
  that a subscribe request never makes a row live.

### What the proofs assume of the constants

`Checkout`, `Pricing` and `Roles` state the types of their parameters. Ids of variants,
products and users are natural numbers, as the `bigserial` columns are, since
rows are locked in their order. The rest says that a mark for "nothing" is told from
what it stands in for, as `null` is in the code: `NoneIsFresh`, `NoneIsNoOrder`,
`NoneIsNoAmount`, `NoneIsNoWorker`, `NoneIsNoRole`, `NoneIsNoReview`,
`NothingIsNoSlot`, `NothingIsNoRequest`, `NothingIsNoCategory`, `SentIsNotIdle`,
`IdleIsNoAnswer`. `ReviewTables` is the CHECK on `stars` and the finiteness of
tables; `HistoryIsKept` and `GallerySizes` make three bounds positive. TLC
evaluates every one of them in the runs.

### Only model-checked

- Liveness (`EveryRequestEnds`, `RoleRequestsEnd`, `ReviewRequestsEnd`,
  `StopsOnWhatWasTyped`) is out of the prover's reach, as is `ENABLED`.
- `CapRespected` is false of the code in general (`cap`), and is checked where
  all redemptions meet in one variant's row (`stock`).

## 7. Not modelled, and why

- **Pure output**: mail, metrics, logging, sitemap, content pages, invoices,
  the data export. Failures are logged and change no row; what is shown has no
  further consequence.
- **Per-request functions**: HTTP decoding and routing, locale and currency
  resolution, validation of field lengths and formats. They keep nothing.
- **Text search and SQL ranking**: the substance is PostgreSQL's.
- **OAuth**: the state parameter is a cookie compared once, the account is one
  insert on a unique index, and the session it ends in is that of `SignIn`.
- **The rate limiter**: one counter under one mutex, so each call is atomic.
- **Markup**: components without state. Those with state of their own
  (`QtyStepper`, `PillSelect`, `PriceRange`, `Switch`, `Pagination`) are in the
  module of their page. Message catalogues are data.
- **Reorder and wishlist on the server**: their clamping to stock and 99. What
  they do to the cache is in `Hooks` and `Basket`.
- **Creating a product**, the bytes of an upload, the dashboard's figures.
- **Scripts**: migrations (which appear as the constraints the properties
  quote), seed, backup, load tests, the generated design canvas.

Machine integers are mathematical integers: `amount * percent` overflows 64
bits above 9.2e16 minor units, which no column the admin form writes can hold
in practice.

In `Checkout` an order's delivery details, its currency and its notes are left
out, all prices are in one currency, and the variant id stands for the line.
In `Roles` sessions are left out: a request that has passed `requireAdmin` runs
on although its administrator is demoted meanwhile, as in the code. In `SignIn`
expiry is an event and passwords are counted: the typed one is right at the
moment it is compared.

## 8. Plan

1. **The cap of a code** under the condition that makes it true: checkouts that
   redeem it all hold one variant's row. The run `stock` has the condition, and
   `cap` shows that it is needed.
2. **More reviews than one** per product: `RatingMatchesReviews` under the
   condition that moderations of one product do not overlap.
3. **Reorder and wishlist** next to `Checkout`, with their clamping.
4. **Account deletion** composed with `Checkout`: what its cascade does to
   redemptions and caps.
5. **OAuth**: parallel first sign-ins against the unique index.
