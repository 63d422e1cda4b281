----------------------------- MODULE MCCatalogue -----------------------------
(***************************************************************************)
(* What is sold, for TLC: how it is priced, browsed and edited.  The parts *)
(* share no state, so a behaviour opens one of them and stays there, and a *)
(* run reaches the states of each part and no product of them.             *)
(***************************************************************************)
EXTENDS Pricing, TLC

CONSTANTS Nothing, Idle, Sent, Slots,
          PerPage, MaxHistory, MaxPhotos, MaxIds, MaxStock, MaxRows

VARIABLES at,                                               \* the part opened
          url, history, currency, grid, facets, promise,    \* Catalogue
          family, locale, viewCurrency, api, cache, held, put, crossed,   \* KeyedViews
          media, nextId, galleryQ, edit, holder,            \* Gallery
          panel, saved, pageQ, tab, draft, writes,          \* ProductEditor
          desk, rows, rowsQ, form, saving, pressed          \* BackOffice

-----------------------------------------------------------------------------
(* Pricing: two markets, baskets around every threshold, one code of each  *)
(* kind.  Drams: free over 60.  Dollars: no threshold.                     *)

Drams == "AMD"
Dollars == "USD"
BothMarkets == {Drams, Dollars}

In(d, u) == (Drams :> d) @@ (Dollars :> u)

ShopRates == In([base |-> 4, surcharge |-> 6, freeOver |-> 60],
                [base |-> 3, surcharge |-> 0, freeOver |-> None])
\* Subtotals where the roundings, the floors and the threshold turn; 13 cannot
\* be priced in dollars.  The empty cart is not quoted.
Subtotals == {1, 4, 5, 6, 7, 13, 14, 18, 19, 42, 43, 55, 56, 57, 59, 60, 149, 150}
NoGoods == [goods |-> In(0, 0), cold |-> FALSE]
ManyBaskets == {NoGoods} \cup
  {[goods |-> In(s, IF s = 13 THEN None ELSE s), cold |-> c] : s \in Subtotals, c \in BOOLEAN}

Plain == [kind |-> "percent", percent |-> 10, active |-> TRUE, starts |-> None, ends |-> None,
          cap |-> None, count |-> 0, used |-> FALSE, amount |-> In(None, None),
          floor |-> In(None, None)]
Fixed(d, u) == [Plain EXCEPT !.kind = "fixed", !.percent = 0, !.amount = In(d, u)]
MixedCodes == {
  [Plain EXCEPT !.floor = In(56, 15), !.cap = 2],
  [Plain EXCEPT !.percent = 50, !.starts = 1, !.ends = 2],
  [Plain EXCEPT !.percent = 100],
  [Plain EXCEPT !.used = TRUE],
  Fixed(15, None),
  [Fixed(7, 12) EXCEPT !.cap = 1, !.floor = In(5, None)],
  [Plain EXCEPT !.kind = "free_shipping", !.percent = 0, !.ends = 1, !.floor = In(43, None)]}

-----------------------------------------------------------------------------
(* Three products in two categories, two of them with a benefit, two at one *)
(* price; the shop in two languages and two markets; two requests at once.  *)

ThreeProducts == {1, 2, 3}
SoapAndHoney == [p \in ThreeProducts |-> IF p = 3 THEN "soap" ELSE "honey"]
OneBenefit == [p \in ThreeProducts |-> IF p = 1 THEN {} ELSE {"b"}]
TwoPriceLists == In(<<{2}, {3}, {2, 3}>>, <<{1}, {}, {1, 2}>>)

\* What stands for an absence is none of the things it is told from.
ASSUME NothingIsNoCategory == \A p \in ThreeProducts : SoapAndHoney[p] # Nothing
ASSUME NothingIsNoRequest == Nothing \notin Slots
\* The browser remembers at least the page before.
ASSUME HistoryIsKept == MaxHistory \in Nat \ {0}
\* A product has room for the photo it starts with, and the model for its row.
ASSUME GallerySizes == MaxPhotos \in Nat \ {0} /\ MaxIds \in Nat \ {0}

AnySlot == Permutations(Slots)

Browse == INSTANCE Catalogue WITH
            Category <- SoapAndHoney, Benefits <- OneBenefit, PriceList <- TwoPriceLists
Views == INSTANCE KeyedViews WITH
            currency <- viewCurrency,
            Locales <- {"en", "hy"}, Currencies <- BothMarkets, DefaultCurrency <- Drams
Photos == INSTANCE Gallery
Editor == INSTANCE ProductEditor
Office == INSTANCE BackOffice

browsing == <<url, history, currency, grid, facets, promise>>
viewing == <<family, locale, viewCurrency, api, cache, held, put, crossed>>
photographing == <<media, nextId, galleryQ, edit, holder>>
editing == <<panel, saved, pageQ, tab, draft, writes>>
administering == <<desk, rows, rowsQ, form, saving, pressed>>
catalogueVars == <<at, vars, browsing, viewing, photographing, editing, administering>>

CatalogueInit ==
  /\ at \in {"pricing", "browse", "views", "photos", "editor", "office"}
  /\ Init /\ (at # "pricing" => basket = NoGoods)
  /\ IF at = "browse" THEN Browse!ShopInit
     ELSE /\ url = Nothing /\ history = Nothing /\ currency = Nothing
          /\ grid = Nothing /\ facets = Nothing /\ promise = Nothing
  /\ IF at = "views" THEN Views!ViewsInit
     ELSE /\ family = Nothing /\ locale = Nothing /\ viewCurrency = Nothing /\ api = Nothing
          /\ cache = Nothing /\ held = Nothing /\ put = Nothing /\ crossed = Nothing
  /\ IF at = "photos" THEN Photos!GalleryInit
     ELSE media = Nothing /\ nextId = Nothing /\ galleryQ = Nothing /\ edit = Nothing /\ holder = Nothing
  /\ IF at = "editor" THEN Editor!EditorInit
     ELSE /\ panel = Nothing /\ saved = Nothing /\ pageQ = Nothing /\ tab = Nothing
          /\ draft = Nothing /\ writes = Nothing
  /\ IF at = "office" THEN Office!OfficeInit
     ELSE /\ desk = Nothing /\ rows = Nothing /\ rowsQ = Nothing /\ form = Nothing
          /\ saving = Nothing /\ pressed = Nothing

CatalogueNext ==
  /\ UNCHANGED at
  /\ \/ at = "pricing" /\ Next
        /\ UNCHANGED <<browsing, viewing, photographing, editing, administering>>
     \/ at = "browse" /\ Browse!ShopNext
        /\ UNCHANGED <<vars, viewing, photographing, editing, administering>>
     \/ at = "views" /\ Views!ViewsNext
        /\ UNCHANGED <<vars, browsing, photographing, editing, administering>>
     \/ at = "photos" /\ Photos!GalleryNext
        /\ UNCHANGED <<vars, browsing, viewing, editing, administering>>
     \/ at = "editor" /\ Editor!EditorNext
        /\ UNCHANGED <<vars, browsing, viewing, photographing, administering>>
     \/ at = "office" /\ Office!OfficeNext
        /\ UNCHANGED <<vars, browsing, viewing, photographing, editing>>

CatalogueSpec == CatalogueInit /\ [][CatalogueNext]_catalogueVars

-----------------------------------------------------------------------------
(* What is checked of the parts, besides the properties of Pricing.        *)

\* The number beside a filter is how many products the grid shows once it has answered
\* the click, whatever filters, markets and history came before (CatalogFacets).
CountsKeepTheirWord == at = "browse" => Browse!CountsKeepTheirWord

\* What is on screen was asked in the language and the market now chosen, or is a listing
\* of before whose successor is being asked for (a cart written across a switch is the
\* exception).
ShownInView == at = "views" => Views!ShownInView

\* A button of the back office is refused by the server only when somebody else moved
\* the row first: what is offered is what the domain allows (nextStatuses' mirror).
RefusedMeansOvertaken == at = "office" => Office!RefusedMeansOvertaken

\* However uploads, deletions and reorderings of two tabs interleave, a gallery keeps
\* within its limit (AddProductImage's lock on the product's row).
GalleryFits == at = "photos" => Photos!GalleryFits
=============================================================================
