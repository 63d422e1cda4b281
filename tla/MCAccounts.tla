----------------------------- MODULE MCAccounts -----------------------------
(***************************************************************************)
(* Accounts and what depends on them, for TLC: the roles, the reviews and  *)
(* their ratings, the settings page, the newsletter and the search box.    *)
(* They meet in no state but the account they are about, so a behaviour    *)
(* opens one of them and stays there; the others keep their first state.   *)
(***************************************************************************)
EXTENDS Roles, Newsletter

CONSTANTS w1, w2, Slots, Idle, Sent, Customers, Products, Stars,
          Terms, Empty, Short

VARIABLES at,   \* the part opened
          users, bought, review, shown, reviewPc, reviewJob, draft, doomed, reviewLock,   \* Ratings
          panel, mode, forms, switch, asked, prefsQ, updates, danger, deletion,   \* Settings
          term, debounced, timer, results, open   \* Search

-----------------------------------------------------------------------------
(* Two workers of the server at once. *)

TwoWorkers == {w1, w2}
OneOf(S) == {CHOOSE x \in S : TRUE}

Reviews == INSTANCE Ratings WITH
             pc <- reviewPc, job <- reviewJob, lock <- reviewLock, Leaving <- OneOf(Customers)
Page == INSTANCE Settings WITH Nothing <- None
Box == INSTANCE Search WITH Nothing <- None

\* Ratings are 1 to 5 stars, of finitely many customers and products; no row is not a review.
ASSUME ReviewTables == Stars \subseteq 1..5 /\ IsFiniteSet(Customers) /\ IsFiniteSet(Products)
ASSUME NoneIsNoReview == None \notin Reviews!Review

reviewing == <<users, bought, review, shown, reviewPc, reviewJob, draft, doomed, reviewLock>>
setting == <<panel, mode, forms, switch, asked, prefsQ, updates, danger, deletion>>
searching == <<term, debounced, timer, results, open>>
accountsVars == <<at, vars, reviewing, setting, newsVars, searching>>

AccountsInit ==
  /\ at \in {"roles", "ratings", "settings", "newsletter", "search"}
  /\ Init /\ Reviews!Init /\ Page!SettingsInit /\ NewsInit /\ Box!SearchInit
  /\ at # "settings" => panel = "profile" /\ updates = TRUE

AccountsNext ==
  /\ UNCHANGED at
  /\ \/ at = "roles" /\ UNCHANGED <<reviewing, setting, newsVars, searching>> /\ Next
     \/ at = "ratings" /\ UNCHANGED <<vars, setting, newsVars, searching>> /\ Reviews!Next
     \/ at = "settings" /\ UNCHANGED <<vars, reviewing, newsVars, searching>>
        /\ Page!SettingsNext
     \/ at = "newsletter" /\ UNCHANGED <<vars, reviewing, setting, searching>>
        /\ NewsNext
     \/ at = "search" /\ UNCHANGED <<vars, reviewing, setting, newsVars>> /\ Box!SearchNext

\* The fairness each module states, in one formula: of the parts a worker or a clock serves
\* only the open one has anything to do.
Serve(w) ==
  \/ at = "roles" /\ Statement(w) /\ UNCHANGED reviewing
  \/ at = "ratings" /\ Reviews!Statement(w) /\ UNCHANGED vars
AccountsSpec ==
  /\ AccountsInit /\ [][AccountsNext]_accountsVars
  /\ \A w \in Workers : SF_<<vars, reviewing>>(Serve(w)) /\ WF_vars(BreakDeadlock(w))
  /\ WF_searching(Box!TimerFires) /\ WF_searching(Box!ResultsLand)

-----------------------------------------------------------------------------
(* What is checked of the parts; Roles and Newsletter state theirs.        *)

\* Every review, whoever submits while whoever leaves, is a verified purchase of somebody the
\* shop still knows (RESTRICT behind DeleteAccount's DELETE).
ReviewsAreVerified == Reviews!ReviewsAreVerified

\* A product's stars are those of its review while it has one at most, whatever submission
\* and moderation raced on it (recomputeRating).
RatingMatchesLoneReview == Reviews!RatingMatchesLoneReview

\* Every submission, moderation and deletion is answered.
ReviewRequestsEnd == Reviews!ReviewRequestsEnd

\* A settings form that was closed and opened again is not closed by an answer to what was
\* sent before.
ReopenedFormStays == [][at = "settings" => Page!KeepsReopened]_setting

\* Once the typing stops, the list is the answer to what is in the search box.
StopsOnWhatWasTyped == Box!StopsOnWhatWasTyped
=============================================================================
