------------------------------- MODULE Ratings -------------------------------
(***************************************************************************)
(* Reviews and the rating aggregate on products: CreateReview,             *)
(* UpdateReviewStatus (moderation) and the part of DeleteAccount that      *)
(* meets them.  Every write to reviews is meant to move the product's      *)
(* average in the same transaction; recomputeRating aggregates the reviews *)
(* in the snapshot of an UPDATE that then waits for the product's row.     *)
(***************************************************************************)
EXTENDS Integers, FiniteSets, Sums

CONSTANTS
  Customers,  \* users who may buy, review and leave
  Products,
  Workers,    \* request handlers of the server, each serving one request at a time
  None,       \* no row, no lock, NULL
  Stars,      \* the ratings customers give, some of 1..5
  Leaving     \* the customers who may delete their account

VARIABLES
  users,   \* accounts that exist
  bought,  \* <<customer, product>>: a delivered order of the customer's contains it
  review,  \* committed reviews, by <<customer, product>> (UNIQUE), None without one
  shown,   \* products.rating_avg (in hundredths) and rating_count
  pc,      \* the statement a worker executes next
  job,     \* what its request asks for
  draft,   \* the aggregate its recompute has read
  doomed,  \* the reviews its DELETE has selected
  lock     \* the worker holding a review's row (or index entry) or a product's row

vars == <<users, bought, review, shown, pc, job, draft, doomed, lock>>
rows == <<users, bought, review, shown>>

Keys == Customers \X Products
Statuses == {"pending", "published", "rejected"}
Review == [stars : Stars, status : Statuses]
KeysOf(u) == {k \in Keys : k[1] = u}
Held(u) == {k \in KeysOf(u) : review[k] # None}

\* key: the review meant; write: the row the transaction will leave there
Job == [kind : {"none", "create", "moderate", "leave"}, user : Customers \cup {None},
        product : Products \cup {None}, write : Review \cup {None}]
NoJob == [kind |-> "none", user |-> None, product |-> None, write |-> None]
Key(w) == <<job[w].user, job[w].product>>

-----------------------------------------------------------------------------
(* The aggregate.                                                          *)

\* Mutant: without COALESCE, a product without published reviews has average NULL.
SummaryOfNothing(rv, p) ==
  LET counted == {k \in Keys : k[2] = p /\ rv[k] # None /\ rv[k].status = "published"}
      n == Cardinality(counted) IN
  [avg |-> IF n = 0 THEN None
           ELSE (200 * SumOver([k \in counted |-> rv[k].stars], counted) + n) \div (2 * n),
   count |-> n]

\* avg(rating)::numeric(3,2) and count(*) of the published reviews rv of p
Summary(rv, p) ==
  LET counted == {k \in Keys : k[2] = p /\ rv[k] # None /\ rv[k].status = "published"}
      n == Cardinality(counted) IN
  [avg |-> IF n = 0 THEN 0
           ELSE (200 * SumOver([k \in counted |-> rv[k].stars], counted) + n) \div (2 * n),
   count |-> n]

-----------------------------------------------------------------------------
(* Transactions and locks.                                                 *)

Goto(w, label) == pc' = [pc EXCEPT ![w] = label]
Available(w, row) == lock[row] \in {None, w}

\* An uncommitted review holds KEY SHARE on its author's row; a deletion about
\* to commit holds the row itself.
Referencing(u) ==
  {w \in Workers : /\ job[w].kind = "create" /\ job[w].user = u
                   /\ pc[w] \in {"recompute", "lock_product", "commit"}}
Deleting(u) == {w \in Workers : job[w].kind = "leave" /\ job[w].user = u /\ pc[w] = "commit"}

End(w) ==
  /\ Goto(w, "idle")
  /\ job' = [job EXCEPT ![w] = NoJob]
  /\ draft' = [draft EXCEPT ![w] = None]
  /\ doomed' = [doomed EXCEPT ![w] = {}]
  /\ lock' = [row \in Keys \cup Products |-> IF lock[row] = w THEN None ELSE lock[row]]
Rollback(w) == End(w) /\ UNCHANGED rows

Begin(w, label, j) ==
  /\ pc[w] = "idle"
  /\ Goto(w, label)
  /\ job' = [job EXCEPT ![w] = j]
  /\ UNCHANGED <<rows, draft, doomed, lock>>

-----------------------------------------------------------------------------
(* CreateReview.                                                           *)

Submit(w, u, p, s) ==
  u \in users /\ Begin(w, "check_purchase",
    [kind |-> "create", user |-> u, product |-> p, write |-> [stars |-> s, status |-> "pending"]])

\* Mutant: the form's can_review is taken for a permission.
CheckPurchaseTrusted(w) ==
  /\ pc[w] = "check_purchase"
  /\ Goto(w, "insert")
  /\ UNCHANGED <<rows, job, draft, doomed, lock>>

CheckPurchase(w) ==
  /\ pc[w] = "check_purchase"
  /\ IF Key(w) \in bought
     THEN Goto(w, "insert") /\ UNCHANGED <<rows, job, draft, doomed, lock>>
     ELSE Rollback(w)                                       \* ErrNotPurchased

\* Mutant: the refusal returns without the deferred Rollback.
InsertLeavesOpen(w) ==
  /\ pc[w] = "insert"
  /\ Available(w, Key(w)) /\ Deleting(job[w].user) = {}
  /\ IF review[Key(w)] # None \/ job[w].user \notin users
     THEN /\ Goto(w, "idle")
          /\ lock' = [lock EXCEPT ![Key(w)] = w]
          /\ UNCHANGED <<rows, job, draft, doomed>>
     ELSE /\ lock' = [lock EXCEPT ![Key(w)] = w]
          /\ Goto(w, "recompute")
          /\ UNCHANGED <<rows, job, draft, doomed>>

\* The unique index waits for a rival's row, the foreign key for a deletion.
Insert(w) ==
  /\ pc[w] = "insert"
  /\ Available(w, Key(w)) /\ Deleting(job[w].user) = {}
  /\ IF review[Key(w)] # None \/ job[w].user \notin users
     THEN Rollback(w)                                       \* ErrAlreadyReviewed, no such user
     ELSE /\ lock' = [lock EXCEPT ![Key(w)] = w]
          /\ Goto(w, "recompute")
          /\ UNCHANGED <<rows, job, draft, doomed>>

-----------------------------------------------------------------------------
(* UpdateReviewStatus.                                                     *)

Moderate(w, k, to) ==
  review[k] # None /\ Begin(w, "update",
    [kind |-> "moderate", user |-> k[1], product |-> k[2],
     write |-> [review[k] EXCEPT !.status = to]])

Update(w) ==
  /\ pc[w] = "update"
  /\ Available(w, Key(w))
  /\ IF review[Key(w)] = None
     THEN Rollback(w)                                       \* ErrNotFound
     ELSE /\ lock' = [lock EXCEPT ![Key(w)] = w]
          /\ Goto(w, "recompute")
          /\ UNCHANGED <<rows, job, draft, doomed>>

-----------------------------------------------------------------------------
(* recomputeRating, and the COMMIT of both.                                *)

\* Mutant: the aggregate is read before the transaction's own write.
RecomputeFirst(w) ==
  /\ pc[w] = "recompute"
  /\ draft' = [draft EXCEPT ![w] = Summary(review, job[w].product)]
  /\ Goto(w, "lock_product")
  /\ UNCHANGED <<rows, job, doomed, lock>>

\* The snapshot of the UPDATE: what others have committed, and its own write.
Recompute(w) ==
  /\ pc[w] = "recompute"
  /\ draft' = [draft EXCEPT ![w] = Summary([review EXCEPT ![Key(w)] = job[w].write], job[w].product)]
  /\ Goto(w, "lock_product")
  /\ UNCHANGED <<rows, job, doomed, lock>>

\* The row it waited for is re-read, the aggregate is not.
LockProduct(w) ==
  /\ pc[w] = "lock_product"
  /\ Available(w, job[w].product)
  /\ lock' = [lock EXCEPT ![job[w].product] = w]
  /\ Goto(w, "commit")
  /\ UNCHANGED <<rows, job, draft, doomed>>

CommitReview(w) ==
  /\ pc[w] = "commit" /\ job[w].kind # "leave"
  /\ review' = [review EXCEPT ![Key(w)] = job[w].write]
  /\ shown' = [shown EXCEPT ![job[w].product] = draft[w]]
  /\ End(w)
  /\ UNCHANGED <<users, bought>>

-----------------------------------------------------------------------------
(* DeleteAccount, as far as reviews go.                                    *)

Leave(w, u) ==
  u \in users /\ Begin(w, "select_reviews",
    [kind |-> "leave", user |-> u, product |-> None, write |-> None])

SelectReviews(w) ==
  /\ pc[w] = "select_reviews"
  /\ doomed' = [doomed EXCEPT ![w] = Held(job[w].user)]
  /\ Goto(w, "delete_reviews")
  /\ UNCHANGED <<rows, job, draft, lock>>

DeleteReview(w) ==
  /\ pc[w] = "delete_reviews"
  /\ \E k \in doomed[w] : lock[k] = None /\ lock' = [lock EXCEPT ![k] = w]
  /\ UNCHANGED <<rows, pc, job, draft, doomed>>

\* Mutant: reviews.user_id has no RESTRICT.
DeleteUserUnchecked(w) ==
  LET u == job[w].user IN
  /\ pc[w] = "delete_reviews" /\ \A k \in doomed[w] : lock[k] = w
  /\ Referencing(u) = {} /\ Deleting(u) = {}
  /\ IF u \notin users
     THEN Rollback(w)
     ELSE Goto(w, "commit") /\ UNCHANGED <<rows, job, draft, doomed, lock>>

\* RESTRICT finds the reviews committed since the DELETE selected its own.
DeleteUser(w) ==
  LET u == job[w].user IN
  /\ pc[w] = "delete_reviews" /\ \A k \in doomed[w] : lock[k] = w
  /\ Referencing(u) = {} /\ Deleting(u) = {}
  /\ IF u \notin users \/ Held(u) \ doomed[w] # {}
     THEN Rollback(w)
     ELSE Goto(w, "commit") /\ UNCHANGED <<rows, job, draft, doomed, lock>>

CommitLeave(w) ==
  /\ pc[w] = "commit" /\ job[w].kind = "leave"
  /\ users' = users \ {job[w].user}
  /\ bought' = {k \in bought : k[1] # job[w].user}           \* the orders are detached
  /\ review' = [k \in Keys |-> IF k \in doomed[w] THEN None ELSE review[k]]
  /\ End(w)
  /\ UNCHANGED shown

-----------------------------------------------------------------------------
(* The specification.                                                      *)

\* an order of the customer's is delivered
Deliver(k) ==
  /\ k[1] \in users /\ Deleting(k[1]) = {}
  /\ bought' = bought \cup {k}
  /\ UNCHANGED <<users, review, shown, pc, job, draft, doomed, lock>>

\* Connection lost or server stopping.
Abort(w) == pc[w] # "idle" /\ Rollback(w)

Init ==
  /\ users = Customers
  /\ bought = {}
  /\ review = [k \in Keys |-> None]
  /\ shown = [p \in Products |-> [avg |-> 0, count |-> 0]]
  /\ pc = [w \in Workers |-> "idle"]
  /\ job = [w \in Workers |-> NoJob]
  /\ draft = [w \in Workers |-> None]
  /\ doomed = [w \in Workers |-> {}]
  /\ lock = [row \in Keys \cup Products |-> None]

Arrive(w) ==
  \/ \E u \in Customers, p \in Products, s \in Stars : Submit(w, u, p, s)
  \/ \E k \in Keys, to \in Statuses : Moderate(w, k, to)
  \/ \E u \in Leaving : Leave(w, u)
Statement(w) ==
  \/ CheckPurchase(w) \/ Insert(w) \/ Update(w) \/ Recompute(w) \/ LockProduct(w)
  \/ CommitReview(w) \/ SelectReviews(w) \/ DeleteReview(w) \/ DeleteUser(w) \/ CommitLeave(w)
Next ==
  \/ \E w \in Workers : Arrive(w) \/ Statement(w) \/ Abort(w)
  \/ \E k \in Keys : Deliver(k)

Spec == Init /\ [][Next]_vars

\* PostgreSQL queues the waiters of a row, so each is granted it in the end.
FairSpec == Spec /\ \A w \in Workers : SF_vars(Statement(w))

-----------------------------------------------------------------------------
(* Properties.                                                             *)

\* An average is one of numeric(3,2) within the CHECK: 0.00 to 5.00.
Aggregate == [avg : 0..500, count : Nat]
RatingsTypeOK ==
  /\ users \subseteq Customers
  /\ bought \subseteq Keys
  /\ review \in [Keys -> Review \cup {None}]
  /\ shown \in [Products -> Aggregate]
  /\ pc \in [Workers -> {"idle", "check_purchase", "insert", "update", "recompute",
                         "lock_product", "select_reviews", "delete_reviews", "commit"}]
  /\ job \in [Workers -> Job]
  /\ draft \in [Workers -> Aggregate \cup {None}]
  /\ doomed \in [Workers -> SUBSET Keys]
  /\ lock \in [Keys \cup Products -> Workers \cup {None}]

\* The stars on a card are the average of the reviews a visitor can read under
\* it: the aggregate "is exact by construction" (recomputeRating).
RatingMatchesReviews == \A p \in Products : shown[p] = Summary(review, p)

\* A product's stars are those of its review, and nothing without one, whatever submission
\* and moderation raced on it.  (With a second review, or a departure, they may drift.)
RatingMatchesLoneReview ==
  \A p \in Products :
    /\ shown[p] \in Aggregate
    /\ users = Customers /\ Cardinality({k \in Keys : k[2] = p /\ review[k] # None}) <= 1
         => shown[p] = Summary(review, p)

\* Every review, whoever submits while whoever leaves, is a verified purchase
\* of somebody the shop still knows: none slips in behind an account's deletion.
ReviewsAreVerified == \A k \in Keys : review[k] # None => k[1] \in users /\ k \in bought

\* Nobody waits forever: every submission, moderation and deletion is answered.
ReviewRequestsEnd == \A w \in Workers : pc[w] # "idle" ~> pc[w] = "idle"
=============================================================================
