----------------------------- MODULE Catalogue -----------------------------
(***************************************************************************)
(* The Shop page.  Every filter lives in the query string; the grid and    *)
(* the sidebar's counts are two cached reads keyed by it, each showing the *)
(* answer of before while its own is under way; the price slider commits   *)
(* when it is released.  The server's side is ListProducts and             *)
(* CatalogFacets over a fixed catalogue.                                   *)
(***************************************************************************)
EXTENDS Naturals, Sequences, FiniteSets, FiniteSetsExt

CONSTANTS
    Category,    \* product -> the category it is in
    Benefits,    \* product -> the benefits it has
    PriceList,   \* currency -> product -> the prices of its variants, minor units
    PerPage,
    MaxHistory,  \* how many entries of the browser's history are kept
    Nothing

Products == DOMAIN Category
Currencies == DOMAIN PriceList
Categories == {Category[p] : p \in Products}
AllBenefits == UNION {Benefits[p] : p \in Products}

VARIABLES url,       \* the query string
          history,   \* earlier ones, oldest first
          currency,  \* the market of the tab
          grid,      \* what the grid shows: is it the answer to this query, and its total
          facets,    \* what the sidebar shows: likewise, its counts and the slider's ends
          promise    \* HISTORY: the count beside what was clicked, while it is the filter

shopVars == <<url, history, currency, grid, facets, promise>>

-----------------------------------------------------------------------------
(* The server *)

\* The four predicates of the listing, kept apart so that the counts may lift one.  A
\* product is in the range by any of its variants; without a range it needs none.
InRange(p, u, cur) ==
    \/ u.min = Nothing /\ u.max = Nothing
    \/ \E price \in PriceList[cur][p] : /\ u.min # Nothing => price >= u.min
                                       /\ u.max # Nothing => price <= u.max
InCategory(p, u) == u.category # Nothing => Category[p] = u.category
HasBenefit(p, u) == u.benefits # {} => Benefits[p] \cap u.benefits # {}

\* ListProducts: every filter narrows.
Total(u, cur) ==
    Cardinality({p \in Products : InCategory(p, u) /\ HasBenefit(p, u) /\ InRange(p, u, cur)})

\* Mutant: the group is narrowed by its own filter too.
CategoryCountNarrowed(c, u, cur) ==
    Cardinality({p \in Products : /\ Category[p] = c /\ InCategory(p, u)
                                  /\ HasBenefit(p, u) /\ InRange(p, u, cur)})

\* CatalogFacets: no group is narrowed by its own filter.
CategoryCount(c, u, cur) ==
    Cardinality({p \in Products : Category[p] = c /\ HasBenefit(p, u) /\ InRange(p, u, cur)})
BenefitCount(b, u, cur) ==
    Cardinality({p \in Products : b \in Benefits[p] /\ InCategory(p, u) /\ InRange(p, u, cur)})
AllCount(u, cur) == Cardinality({p \in Products : HasBenefit(p, u) /\ InRange(p, u, cur)})
Priced(u, cur) ==
    UNION {PriceList[cur][p] : p \in {q \in Products : InCategory(q, u) /\ HasBenefit(q, u)}}
Bounds(u, cur) ==
    IF Priced(u, cur) = {} THEN [min |-> 0, max |-> 0]
    ELSE [min |-> Min(Priced(u, cur)), max |-> Max(Priced(u, cur))]

GridAnswer(u, cur) == [settled |-> TRUE, total |-> Total(u, cur)]
FacetAnswer(u, cur) ==
    [settled |-> TRUE, bounds |-> Bounds(u, cur), all |-> AllCount(u, cur),
     category |-> [c \in Categories |-> CategoryCount(c, u, cur)],
     benefit |-> [b \in AllBenefits |-> BenefitCount(b, u, cur)]]

-----------------------------------------------------------------------------
(* The page *)

Clean == [category |-> Nothing, benefits |-> {}, min |-> Nothing, max |-> Nothing, page |-> 1]

\* The key of the sidebar's query leaves the page out.
Filters(u) == [u EXCEPT !.page = 1]

Pages(n) == IF n = 0 THEN 1 ELSE (n + PerPage - 1) \div PerPage
PageCount == Pages(grid.total)

NoGrid == [settled |-> FALSE, total |-> 0]
NoFacets == [settled |-> FALSE, bounds |-> [min |-> 0, max |-> 0], all |-> 0,
             category |-> [c \in {} |-> 0], benefit |-> [b \in {} |-> 0]]

ShopInit ==
    /\ url = Clean
    /\ history = <<>>
    /\ currency \in Currencies
    /\ grid = NoGrid
    /\ facets = NoFacets
    /\ promise = Nothing

\* The counts of before stay on screen and are nobody's promise: the model drops their
\* numbers, and keeps which filters are offered and the ends of the slider.
Aged(f) == [f EXCEPT !.settled = FALSE, !.all = 0, !.category = [c \in DOMAIN @ |-> 0],
                     !.benefit = [b \in DOMAIN @ |-> 0]]

\* A change of key shows a cached answer at once, or the one of before until its own lands.
RefocusGrid(u, cur) == grid' \in {[grid EXCEPT !.settled = FALSE], GridAnswer(u, cur)}
RefocusFacets(u, cur) == facets' \in {Aged(facets), FacetAnswer(u, cur)}
Refocus(u, cur) == RefocusGrid(u, cur) /\ RefocusFacets(u, cur)

\* The page left behind becomes the last entry of the browser's history.
Push == history' = IF Len(history) = MaxHistory THEN Append(Tail(history), url)
                   ELSE Append(history, url)

\* Every change of a filter is a history entry, and starts again at the first page.
Navigate(u) ==
    /\ url' = [u EXCEPT !.page = 1]
    /\ Push
    /\ Refocus(url', currency)
    /\ UNCHANGED currency

\* What the click was told: the count beside it, if it is this query's and not of before.
Told(n) == promise' = IF facets.settled THEN n ELSE Nothing

\* A category already chosen is left for all of them.
PickCategory(c) ==
    \/ /\ c = url.category
       /\ Navigate([url EXCEPT !.category = Nothing])
       /\ Told(facets.all)
    \/ /\ c # url.category
       /\ Navigate([url EXCEPT !.category = c])
       /\ Told(facets.category[c])

\* Benefits are alternatives: the count beside one is kept where it is the only one.
ToggleBenefit(b) ==
    LET chosen == IF b \in url.benefits THEN url.benefits \ {b} ELSE url.benefits \cup {b} IN
    /\ Navigate([url EXCEPT !.benefits = chosen])
    /\ Told(IF chosen = {b} THEN facets.benefit[b] ELSE Nothing)

AllProducts ==
    url.category # Nothing /\ Navigate([url EXCEPT !.category = Nothing]) /\ Told(facets.all)

Sort == Navigate(url) /\ UNCHANGED promise

ClearFilters == Filters(url) # Clean /\ Navigate(Clean) /\ promise' = Nothing

\* The slider, disabled without a span, holds its two thumbs until it is released: one is
\* dragged, and stops at the other.  Release, key-up and blur commit both; a bound at the
\* catalogue's own edge is dropped.
Thumbs == [min |-> IF url.min = Nothing THEN facets.bounds.min ELSE url.min,
           max |-> IF url.max = Nothing THEN facets.bounds.max ELSE url.max]
Dragged(t, x) == {t, [t EXCEPT !.min = Min({x, t.max})], [t EXCEPT !.max = Max({x, t.min})]}
Committed(t) ==
    [url EXCEPT !.min = IF t.min > facets.bounds.min THEN t.min ELSE Nothing,
                !.max = IF t.max < facets.bounds.max THEN t.max ELSE Nothing]
Slide ==
    /\ facets.bounds.max > facets.bounds.min
    /\ \E x \in facets.bounds.min..facets.bounds.max :
          \E t \in Dragged(Thumbs, x) : Navigate(Committed(t))
    /\ promise' = Nothing

\* The pager offers the pages of the total on screen, the next arrow one more.
SelectPage(n) ==
    /\ PageCount > 1
    /\ n \in 1..PageCount \/ (url.page < PageCount /\ n = url.page + 1)
    /\ url' = [url EXCEPT !.page = n]
    /\ Push
    /\ RefocusGrid(url', currency)
    /\ UNCHANGED <<currency, facets, promise>>

Back ==
    /\ history # <<>>
    /\ url' = history[Len(history)]
    /\ history' = SubSeq(history, 1, Len(history) - 1)
    /\ Refocus(url', currency)
    /\ promise' = Nothing
    /\ UNCHANGED currency

\* The footer's switch or the settings page: the query string stays.
SetCurrency(cur) ==
    /\ cur # currency
    /\ currency' = cur
    /\ Refocus(url, cur)
    /\ promise' = Nothing
    /\ UNCHANGED <<url, history>>

-----------------------------------------------------------------------------
(* The answers *)

GridLands ==
    /\ ~grid.settled
    /\ grid' \in {GridAnswer(url, currency), NoGrid}   \* or the last retry fails
    /\ UNCHANGED <<url, history, currency, facets, promise>>

FacetsLand ==
    /\ ~facets.settled
    /\ facets' \in {FacetAnswer(url, currency), NoFacets}
    /\ UNCHANGED <<url, history, currency, grid, promise>>

ShopNext ==
    \/ \E c \in DOMAIN facets.category : PickCategory(c)
    \/ \E b \in DOMAIN facets.benefit : ToggleBenefit(b)
    \/ AllProducts
    \/ Sort
    \/ ClearFilters
    \/ Slide
    \/ \E n \in 1..PageCount + 1 : SelectPage(n)
    \/ Back
    \/ \E cur \in Currencies : SetCurrency(cur)
    \/ GridLands
    \/ FacetsLand

-----------------------------------------------------------------------------
(* Properties *)

\* The number beside a filter is the number of products its click shows: when the grid
\* has this query's own answer, it is the count that was clicked, whatever was under
\* way, paged or sorted in between.
CountsKeepTheirWord == promise # Nothing /\ grid.settled => grid.total = promise

=============================================================================
