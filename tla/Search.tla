------------------------------- MODULE Search -------------------------------
(***************************************************************************)
(* The search overlay: the term follows the keys, the query follows the    *)
(* term once it has been still for 300 ms, and the results of one query    *)
(* stay on screen until those of the next arrive.                          *)
(***************************************************************************)
CONSTANTS Terms,   \* what may be typed, the empty term among them
          Empty,   \* the term of an empty box
          Short,   \* the terms of fewer than two letters, Empty one of them
          Nothing

VARIABLES term,       \* what is in the box
          debounced,  \* what is asked for
          timer,      \* the value the running timer will set, or Nothing
          results,    \* the term whose answer is on screen, or Nothing
          open

searchVars == <<term, debounced, timer, results, open>>

Active == debounced \notin Short
Placeholder == results # debounced

SearchInit ==
    /\ term = Empty /\ debounced = Empty
    /\ timer = Nothing
    /\ results = Nothing
    /\ open = TRUE

\* Mutant: the running timer is left to fire with the value it was started for.
DebounceKeepsFirst(x) == timer' = IF timer = Nothing THEN x ELSE timer

\* A key: the effect's cleanup cancels the timer before, and a new one starts.
Debounce(x) == timer' = x

Type(x) ==
    /\ open /\ x # term
    /\ term' = x
    /\ Debounce(x)
    /\ UNCHANGED <<debounced, results, open>>

\* The query of a term seen before is answered from the cache; a term too short asks nothing.
TimerFires ==
    /\ timer # Nothing
    /\ debounced' = timer
    /\ timer' = Nothing
    /\ results' \in IF timer \in Short THEN {results} ELSE {results, timer}
    /\ UNCHANGED <<term, open>>

ResultsLand ==
    /\ open /\ Active /\ Placeholder
    /\ results' = debounced
    /\ UNCHANGED <<term, debounced, timer, open>>

\* Escape, the backdrop, a result, "see all", or Enter with a term: the overlay unmounts.
Close ==
    /\ open
    /\ open' = FALSE
    /\ timer' = Nothing
    /\ UNCHANGED <<term, debounced, results>>

\* Opened again it starts empty.
Open ==
    /\ ~open
    /\ open' = TRUE
    /\ term' = Empty /\ debounced' = Empty /\ timer' = Nothing
    /\ results' = Nothing

SearchNext ==
    \/ \E x \in Terms : Type(x)
    \/ TimerFires
    \/ ResultsLand
    \/ Close
    \/ Open

\* The clock runs and the server answers; nobody has to type.
SearchFairness == WF_searchVars(TimerFires) /\ WF_searchVars(ResultsLand)

SearchSpec == SearchInit /\ [][SearchNext]_searchVars /\ SearchFairness

\* Once the typing stops, the list is the answer to what is in the box: no key is swallowed
\* by the debounce and no late answer of an earlier query stays.
StopsOnWhatWasTyped ==
    \A x \in Terms \ Short : <>[](open /\ term = x) => <>[](results = x)
=============================================================================
