----------------------------- MODULE KeyedViews -----------------------------
(***************************************************************************)
(* Language and market.  The address bar holds the locale, the provider    *)
(* the currency; both are told to the API module, whose variables every    *)
(* request reads as it is sent.  The cached answers are keyed by the view  *)
(* the component rendered with; a listing goes on showing the answer of    *)
(* before until its own lands, and one write answers with a whole cart,    *)
(* stored under a key.  Does the screen show answers to what it asked?     *)
(***************************************************************************)
CONSTANTS Locales, Currencies, DefaultCurrency, Nothing, Idle

VARIABLES family,     \* the read observed, of the ones below
          locale,     \* the prefix of the address
          currency,   \* CurrencyProvider's state
          api,        \* the module variables apiLocale and apiCurrency
          cache,      \* per key: the view its data was asked in, and the fetch under way
          held,       \* the answer the observer last showed under another key
          put,        \* setCartItem under way: Nothing or what it asked and where it lands
          crossed     \* HISTORY: a switch happened while the write was under way

viewVars == <<family, locale, currency, api, cache, held, put, crossed>>

Views == [locale : Locales, currency : Currencies]
View == [locale |-> locale, currency |-> currency]

\* "priced": cart, preview, product.  "listed": the listing and its counts.  "named":
\* categories, benefits.  "reviewed": reviews.
Families == {"priced", "listed", "named", "reviewed"}
HavePrices == {"priced", "listed"}
KeepPrevious == {"listed", "reviewed"}       \* placeholderData: keepPreviousData

\* The key names what the answer depends on: everything, or the language only.
QueryKey(v) == IF family \in HavePrices THEN v ELSE [v EXCEPT !.currency = DefaultCurrency]

Unasked == [data |-> Nothing, fetch |-> Idle]

\* An observer of key k appears or asks again; the request carries the module's view.
Asked(c, k, told) == IF c[k].fetch = Idle THEN [c EXCEPT ![k].fetch = told] ELSE c

ViewsInit ==
    /\ family \in Families
    /\ locale \in Locales
    /\ currency \in Currencies
    /\ api = View
    /\ cache = Asked([k \in Views |-> Unasked], QueryKey(View), View)
    /\ held = Nothing
    /\ put = Nothing
    /\ crossed = FALSE

-----------------------------------------------------------------------------
\* Told in an effect, the API would hear of the switch after the request has left.
TellLate(told, v) == told
Tell(told, v) == v

\* What is observed, and what is on screen: a listing without an answer of its own shows
\* the one of before, until the last retry has failed.
Own == cache[QueryKey(View)]
Waiting == family \in KeepPrevious /\ Own.data = Nothing /\ Own.fetch # Idle
Shown == IF Waiting THEN held ELSE Own.data

\* The render after a switch tells the API, then observes the new key.  A write whose
\* component is still mounted lands where that component now looks.
Rendered(v) ==
    /\ api' = v
    /\ cache' = Asked(cache, QueryKey(v), Tell(api, v))
    /\ held' = IF Own.data # Nothing THEN Own.data ELSE held
    /\ put' = IF put # Nothing /\ put.follows THEN [put EXCEPT !.under = v] ELSE put
    /\ crossed' = (crossed \/ put # Nothing)

\* A link to the same page under another prefix; Back does the same.
SwitchLanguage(l) ==
    /\ l # locale
    /\ locale' = l
    /\ Rendered([locale |-> l, currency |-> currency])
    /\ UNCHANGED <<family, currency>>

\* The footer's switcher, and the settings' two single-currency segments.
SetCurrency(c) ==
    /\ c # currency
    /\ currency' = c
    /\ Rendered([locale |-> locale, currency |-> c])
    /\ UNCHANGED <<family, locale>>

\* The page is loaded anew: the cache is gone, the market comes from the storage, or is
\* the default where the storage throws.
Reload ==
    /\ currency' \in {currency, DefaultCurrency}
    /\ api' = [locale |-> locale, currency |-> currency']
    /\ cache' = Asked([k \in Views |-> Unasked], QueryKey(api'), api')
    /\ held' = Nothing
    /\ put' = Nothing
    /\ crossed' = FALSE
    /\ UNCHANGED <<family, locale>>

-----------------------------------------------------------------------------
\* Focus, a mount, an invalidation.
Refetch ==
    /\ Own.fetch = Idle
    /\ cache' = Asked(cache, QueryKey(View), api)
    /\ UNCHANGED <<family, locale, currency, api, held, put, crossed>>

\* An answer is stored under the key that asked, observed or not.
Land(k) ==
    /\ cache[k].fetch # Idle
    /\ cache' = [cache EXCEPT ![k] = [data |-> cache[k].fetch, fetch |-> Idle]]
    /\ UNCHANGED <<family, locale, currency, api, held, put, crossed>>

\* A failed attempt is retried with the module's view of then, but only while observed;
\* the last one is an error.
Retry(k) ==
    /\ cache[k].fetch # Idle
    /\ \E next \in {api, Idle} \ {cache[k].fetch} :
          /\ next = api => k = QueryKey(View)
          /\ cache' = [cache EXCEPT ![k].fetch = next]
    /\ UNCHANGED <<family, locale, currency, api, held, put, crossed>>

\* A quantity is set; the answer is the whole cart in the view of the request.
SetCartItem ==
    /\ family = "priced" /\ put = Nothing
    /\ put' = [asked |-> api, under |-> View, follows |-> TRUE]
    /\ UNCHANGED <<family, locale, currency, api, cache, held, crossed>>

\* The page with the button goes: its last render's key stays.
LeavePage ==
    /\ put # Nothing /\ put.follows
    /\ put' = [put EXCEPT !.follows = FALSE]
    /\ UNCHANGED <<family, locale, currency, api, cache, held, crossed>>

PutLands ==
    /\ put # Nothing
    /\ cache' = [cache EXCEPT ![QueryKey(put.under)].data = put.asked]
    /\ put' = Nothing
    /\ UNCHANGED <<family, locale, currency, api, held, crossed>>

\* Bound: once a crossed write has landed, a behaviour is followed to its reload only.
Followed == crossed => put # Nothing

ViewsNext ==
    \/ Followed /\ \/ \E l \in Locales : SwitchLanguage(l)
                   \/ \E c \in Currencies : SetCurrency(c)
                   \/ Refetch
                   \/ \E k \in Views : Land(k) \/ Retry(k)
                   \/ SetCartItem
                   \/ LeavePage
                   \/ PutLands
    \/ Reload

-----------------------------------------------------------------------------
(* Properties *)

InView(v) == v.locale = locale /\ (family \in HavePrices => v.currency = currency)

\* What the screen shows was asked in the language, and where it has prices in the
\* currency, of the screen.  A listing shows the answer of before only while its own
\* question, in the view of the screen, is under way; a cart written across a switch is
\* the exception.
ShownInView ==
    /\ Shown # Nothing /\ ~crossed => InView(Shown) \/ Waiting
    /\ Waiting => InView(Own.fetch)
=============================================================================
