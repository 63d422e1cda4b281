---------------------------- MODULE RatingsProofs ----------------------------
(***************************************************************************)
(* Why every review is a verified purchase of a known customer, for any    *)
(* number of customers, products and requests: a review being written and  *)
(* its author's departure exclude each other, and a departure about to     *)
(* commit holds every review of its user.  And the stars of a product with *)
(* a single review are that review's, as what a recompute has read stays   *)
(* true while its review is locked.                                        *)
(***************************************************************************)
EXTENDS Ratings, SumFacts

\* A lock is free or a worker's, never both.
NoneIsNoWorker == None \notin Workers

Shape ==
  /\ DOMAIN pc = Workers /\ DOMAIN job = Workers
  /\ doomed \in [Workers -> SUBSET Keys]
  /\ DOMAIN lock = Keys \cup Products /\ DOMAIN review = Keys
  /\ bought \subseteq Keys

\* A request executes the statements of its own handler.
JobFits(w) ==
  /\ pc[w] \in {"idle", "check_purchase", "insert", "update", "recompute", "lock_product",
                "select_reviews", "delete_reviews", "commit"}
  /\ pc[w] \in {"check_purchase", "insert"} => job[w].kind = "create"
  /\ pc[w] = "update" => job[w].kind = "moderate"
  /\ pc[w] \in {"recompute", "lock_product"} => job[w].kind \in {"create", "moderate"}
  /\ pc[w] \in {"select_reviews", "delete_reviews"} => job[w].kind = "leave"
  /\ pc[w] = "commit" => job[w].kind \in {"create", "moderate", "leave"}
  /\ job[w].kind \in {"create", "moderate"} => Key(w) \in Keys

\* A purchase, once checked, outlives everything but its customer.
Bought(w) == pc[w] = "insert" => job[w].user \notin users \/ Key(w) \in bought

\* A review about to be written: its row is held, and it will be a verified one.
Writing(w) == pc[w] \in {"recompute", "lock_product", "commit"} /\ job[w].kind # "leave"
Backed(w) ==
  Writing(w) => /\ lock[Key(w)] = w
                /\ job[w].kind = "create" => job[w].user \in users /\ Key(w) \in bought
                /\ job[w].kind = "moderate" => review[Key(w)] # None

\* A departure about to commit holds every review of its user.
Departing(w) == pc[w] = "commit" /\ job[w].kind = "leave"
TakesAll(w) ==
  Departing(w) => /\ \A k \in doomed[w] : lock[k] = w
                 /\ Held(job[w].user) \subseteq doomed[w]

WorkerInv(w) == JobFits(w) /\ Bought(w) /\ Backed(w) /\ TakesAll(w)

\* The author's row keeps an uncommitted review and a departure apart.
NeverBoth ==
  \A v, w \in Workers :
    Writing(v) /\ job[v].kind = "create" /\ Departing(w) => job[v].user # job[w].user

VerifiedInv ==
  /\ Shape
  /\ \A w \in Workers : WorkerInv(w)
  /\ NeverBoth
  /\ ReviewsAreVerified

-----------------------------------------------------------------------------
(* What a step of one worker leaves to the others *)

Alone(w) ==
  /\ Shape'
  /\ \A v \in Workers \ {w} :
       /\ pc'[v] = pc[v] /\ job'[v] = job[v] /\ doomed'[v] = doomed[v]
       /\ \A row \in Keys : lock[row] = v => lock'[row] = v

\* Nobody's own invariant depends on what another worker holds or has read.
LEMMA OthersKeep ==
  ASSUME VerifiedInv, NEW w \in Workers, Alone(w), UNCHANGED rows
  PROVE  /\ \A v \in Workers \ {w} : WorkerInv(v)'
         /\ ReviewsAreVerified'
<1>1. ASSUME NEW v \in Workers \ {w} PROVE WorkerInv(v)'
  <2>1. /\ WorkerInv(v) /\ Shape
        /\ pc'[v] = pc[v] /\ job'[v] = job[v] /\ doomed'[v] = doomed[v]
        /\ \A row \in Keys : lock[row] = v => lock'[row] = v
        /\ users' = users /\ bought' = bought /\ review' = review
    BY DEF VerifiedInv, Alone, rows
  <2>2. JobFits(v)' /\ Bought(v)'
    BY <2>1 DEF WorkerInv, JobFits, Bought, Key
  <2>3. Backed(v)'
    BY <2>1 DEF WorkerInv, JobFits, Backed, Writing, Key
  <2>4. TakesAll(v)'
    <3>1. doomed[v] \subseteq Keys
      BY <2>1 DEF Shape
    <3> QED BY <2>1, <3>1 DEF WorkerInv, TakesAll, Departing, Held, KeysOf
  <2> QED BY <2>2, <2>3, <2>4 DEF WorkerInv
<1>2. ReviewsAreVerified'
  BY DEF VerifiedInv, ReviewsAreVerified, rows
<1> QED BY <1>1, <1>2

\* NeverBoth is kept if the moving worker does not come to write beside a departure, nor to
\* depart beside a review being written.
LEMMA StillApart ==
  ASSUME VerifiedInv, NEW w \in Workers, Alone(w),
         Writing(w)' /\ job'[w].kind = "create" =>
           \A v \in Workers \ {w} : Departing(v) => job[v].user # job'[w].user,
         Departing(w)' =>
           \A v \in Workers \ {w} :
             Writing(v) /\ job[v].kind = "create" => job[v].user # job'[w].user
  PROVE  NeverBoth'
<1> SUFFICES ASSUME NEW x \in Workers, NEW y \in Workers,
                    Writing(x)', job'[x].kind = "create", Departing(y)'
             PROVE  job'[x].user # job'[y].user
  BY DEF NeverBoth
<1>1. x # y
  BY DEF Writing, Departing
<1>2. CASE x = w
  BY <1>1, <1>2 DEF Alone, Departing
<1>3. CASE y = w
  BY <1>1, <1>3 DEF Alone, Writing
<1>4. CASE x # w /\ y # w
  BY <1>4 DEF Alone, Writing, Departing, VerifiedInv, NeverBoth
<1> QED BY <1>2, <1>3, <1>4

\* Nothing was committed: the worker's own part is what is left to show.
LEMMA Uncommitted ==
  ASSUME VerifiedInv, NEW w \in Workers, Alone(w), UNCHANGED rows, WorkerInv(w)', NeverBoth'
  PROVE  VerifiedInv'
BY OthersKeep DEF VerifiedInv, Alone

\* A worker that ends leaves nothing of its own behind.
LEMMA EndIsAlone ==
  ASSUME VerifiedInv, NoneIsNoWorker, NEW w \in Workers, End(w),
         DOMAIN review' = Keys, bought' \subseteq Keys
  PROVE  Alone(w) /\ WorkerInv(w)' /\ NeverBoth'
<1>1. Shape
  BY DEF VerifiedInv
<1>2. /\ DOMAIN pc' = Workers /\ DOMAIN job' = Workers /\ DOMAIN lock' = Keys \cup Products
      /\ doomed' \in [Workers -> SUBSET Keys]
      /\ pc'[w] = "idle" /\ job'[w] = NoJob
      /\ \A v \in Workers \ {w} : pc'[v] = pc[v] /\ job'[v] = job[v] /\ doomed'[v] = doomed[v]
  BY <1>1 DEF Shape, End, Goto
<1>3. \A v \in Workers \ {w}, row \in Keys : lock[row] = v => lock'[row] = v
  BY DEF End
<1>4. Alone(w)
  BY <1>2, <1>3 DEF Alone, Shape
<1>5. job'[w].kind = "none"
  BY <1>2 DEF NoJob
<1>6. WorkerInv(w)'
  BY <1>2, <1>5 DEF WorkerInv, JobFits, Bought, Backed, TakesAll, Writing, Departing
<1>7. NeverBoth'
  BY <1>2, <1>4, StillApart DEF Writing, Departing
<1> QED BY <1>4, <1>6, <1>7

\* A rollback changes no row.
LEMMA RollbackStep ==
  ASSUME VerifiedInv, NoneIsNoWorker, NEW w \in Workers, Rollback(w)
  PROVE  VerifiedInv'
<1>1. End(w) /\ UNCHANGED rows /\ DOMAIN review' = Keys /\ bought' \subseteq Keys
  BY DEF Rollback, rows, VerifiedInv, Shape
<1> QED BY <1>1, EndIsAlone, Uncommitted

-----------------------------------------------------------------------------
(* The steps *)

\* A request begins without locks.
LEMMA ArriveStep == VerifiedInv /\ (\E w \in Workers : Arrive(w)) => VerifiedInv'
<1> SUFFICES ASSUME VerifiedInv, NEW w \in Workers, Arrive(w) PROVE VerifiedInv'
  OBVIOUS
<1>1. PICK label, j :
        /\ Begin(w, label, j)
        /\ \/ label = "check_purchase" /\ j.kind = "create" /\ <<j.user, j.product>> \in Keys
           \/ label = "update" /\ j.kind = "moderate" /\ <<j.user, j.product>> \in Keys
           \/ label = "select_reviews" /\ j.kind = "leave"
  <2>1. CASE \E u \in Customers, p \in Products, st \in Stars : Submit(w, u, p, st)
    BY <2>1 DEF Submit, Keys
  <2>2. CASE \E k \in Keys, to \in Statuses : Moderate(w, k, to)
    <3>1. PICK k \in Keys, to \in Statuses : Moderate(w, k, to)
      BY <2>2
    <3>2. <<k[1], k[2]>> \in Keys
      BY DEF Keys
    <3> QED BY <3>1, <3>2 DEF Moderate
  <2>3. CASE \E u \in Leaving : Leave(w, u)
    BY <2>3 DEF Leave
  <2> QED BY <2>1, <2>2, <2>3 DEF Arrive
<1>2. /\ pc'[w] = label /\ job'[w] = j /\ UNCHANGED rows
      /\ \A v \in Workers \ {w} : pc'[v] = pc[v] /\ job'[v] = job[v]
      /\ DOMAIN pc' = Workers /\ DOMAIN job' = Workers /\ doomed' = doomed /\ lock' = lock
  BY <1>1 DEF Begin, Goto, VerifiedInv, Shape
<1>3. Alone(w)
  BY <1>2 DEF Alone, VerifiedInv, Shape, rows
<1>4. WorkerInv(w)'
  BY <1>1, <1>2 DEF WorkerInv, JobFits, Bought, Backed, TakesAll, Writing, Departing, Key
<1>5. NeverBoth'
  BY <1>1, <1>2, <1>3, StillApart DEF Writing, Departing
<1> QED BY <1>2, <1>3, <1>4, <1>5, Uncommitted

\* A statement before COMMIT moves its own request and its own locks.
Moves(w, label) ==
  /\ pc'[w] = label /\ DOMAIN pc' = DOMAIN pc
  /\ UNCHANGED <<rows, job>>
  /\ DOMAIN lock' = DOMAIN lock /\ doomed' \in [Workers -> SUBSET Keys]
  /\ \A v \in Workers \ {w} :
       /\ pc'[v] = pc[v] /\ doomed'[v] = doomed[v]
       /\ \A row \in Keys : lock[row] = v => lock'[row] = v

\* A statement that only goes on to the next one changes no row.
LEMMA MovesIsAlone ==
  ASSUME VerifiedInv, NEW w \in Workers, NEW label, Moves(w, label)
  PROVE  Alone(w) /\ pc'[w] = label /\ UNCHANGED rows /\ job' = job
BY DEF VerifiedInv, Shape, Alone, Moves, rows

\* The verified purchase is seen before the insert (CreateReview).
LEMMA CheckPurchaseStep ==
  ASSUME VerifiedInv, NoneIsNoWorker, NEW w \in Workers, CheckPurchase(w) PROVE VerifiedInv'
<1>1. CASE Rollback(w)
  BY <1>1, RollbackStep
<1>2. CASE Key(w) \in bought /\ Moves(w, "insert")
  <2>1. Alone(w) /\ pc'[w] = "insert" /\ UNCHANGED rows /\ job' = job
    BY <1>2, MovesIsAlone
  <2>2. job[w].kind = "create" /\ Key(w) \in Keys
    BY DEF VerifiedInv, WorkerInv, JobFits, CheckPurchase
  <2>3. WorkerInv(w)'
    BY <1>2, <2>1, <2>2
       DEF WorkerInv, JobFits, Bought, Backed, TakesAll, Writing, Departing, Key, rows
  <2>4. NeverBoth'
    BY <2>1, StillApart DEF Writing, Departing
  <2> QED BY <2>1, <2>3, <2>4, Uncommitted
<1> QED BY <1>1, <1>2 DEF CheckPurchase, Moves, Goto, VerifiedInv, Shape

\* The insert locks the new review and shares the author's row, so it waits for a
\* departure.
LEMMA InsertStep ==
  ASSUME VerifiedInv, NoneIsNoWorker, NEW w \in Workers, Insert(w) PROVE VerifiedInv'
<1>0. /\ job[w].kind = "create" /\ Key(w) \in Keys /\ Shape
      /\ job[w].user \in users => Key(w) \in bought
  BY DEF VerifiedInv, WorkerInv, JobFits, Bought, Insert
<1>1. CASE Rollback(w)
  BY <1>1, RollbackStep
<1>2. CASE /\ job[w].user \in users /\ lock' = [lock EXCEPT ![Key(w)] = w]
           /\ Goto(w, "recompute") /\ UNCHANGED <<rows, job, draft, doomed>>
  <2>1. Moves(w, "recompute") /\ lock'[Key(w)] = w
    BY <1>0, <1>2 DEF Moves, Goto, Shape, Insert, Available, NoneIsNoWorker
  <2>2. Alone(w) /\ pc'[w] = "recompute" /\ UNCHANGED rows /\ job' = job
    BY <2>1, MovesIsAlone
  <2>3. WorkerInv(w)'
    BY <1>0, <1>2, <2>1, <2>2
       DEF WorkerInv, JobFits, Bought, Backed, TakesAll, Writing, Departing, Key, rows
  <2>4. \A v \in Workers : Departing(v) => job[v].user # job[w].user
    BY DEF Insert, Deleting, Departing
  <2>5. NeverBoth'
    BY <2>2, <2>4, StillApart DEF Writing, Departing
  <2> QED BY <2>2, <2>3, <2>5, Uncommitted
<1> QED BY <1>1, <1>2 DEF Insert

\* A moderation locks a review that is there (UpdateReviewStatus).
LEMMA UpdateStep ==
  ASSUME VerifiedInv, NoneIsNoWorker, NEW w \in Workers, Update(w) PROVE VerifiedInv'
<1>0. job[w].kind = "moderate" /\ Key(w) \in Keys /\ Shape
  BY DEF VerifiedInv, WorkerInv, JobFits, Update
<1>1. CASE Rollback(w)
  BY <1>1, RollbackStep
<1>2. CASE /\ review[Key(w)] # None /\ lock' = [lock EXCEPT ![Key(w)] = w]
           /\ Goto(w, "recompute") /\ UNCHANGED <<rows, job, draft, doomed>>
  <2>1. Moves(w, "recompute") /\ lock'[Key(w)] = w
    BY <1>0, <1>2 DEF Moves, Goto, Shape, Update, Available, NoneIsNoWorker
  <2>2. Alone(w) /\ pc'[w] = "recompute" /\ UNCHANGED rows /\ job' = job
    BY <2>1, MovesIsAlone
  <2>3. WorkerInv(w)'
    BY <1>0, <1>2, <2>1, <2>2
       DEF WorkerInv, JobFits, Bought, Backed, TakesAll, Writing, Departing, Key, rows
  <2>4. NeverBoth'
    BY <1>0, <2>2, StillApart DEF Writing, Departing
  <2> QED BY <2>2, <2>3, <2>4, Uncommitted
<1> QED BY <1>1, <1>2 DEF Update

\* recomputeRating keeps the lock on the review just written.
LEMMA AggregateStep ==
  ASSUME VerifiedInv, NoneIsNoWorker, NEW w \in Workers, Recompute(w) \/ LockProduct(w)
  PROVE  VerifiedInv'
<1>0. /\ Writing(w) /\ WorkerInv(w) /\ Shape /\ lock[Key(w)] = w /\ Key(w) \in Keys
      /\ job[w].kind \in {"create", "moderate"}
  BY DEF VerifiedInv, WorkerInv, JobFits, Backed, Writing, Recompute, LockProduct
<1>1. PICK label \in {"lock_product", "commit"} : Moves(w, label) /\ lock'[Key(w)] = w
  BY <1>0 DEF Recompute, LockProduct, Moves, Goto, Shape, Available, NoneIsNoWorker
<1>2. Alone(w) /\ pc'[w] = label /\ UNCHANGED rows /\ job' = job
  BY <1>1, MovesIsAlone
<1>3. WorkerInv(w)'
  BY <1>0, <1>1, <1>2
     DEF WorkerInv, JobFits, Bought, Backed, TakesAll, Writing, Departing, Key, rows
<1>4. NeverBoth'
  BY <1>0, <1>2, StillApart DEF Writing, Departing, VerifiedInv, NeverBoth
<1> QED BY <1>2, <1>3, <1>4, Uncommitted

\* A departure collects and locks the reviews of its user one by one.
LEMMA GatherStep ==
  ASSUME VerifiedInv, NoneIsNoWorker, NEW w \in Workers, SelectReviews(w) \/ DeleteReview(w)
  PROVE  VerifiedInv'
<1>0. job[w].kind = "leave" /\ Shape
  BY DEF VerifiedInv, WorkerInv, JobFits, SelectReviews, DeleteReview
<1>1. Moves(w, "delete_reviews")
  <2>1. CASE SelectReviews(w)
    <3>1. Held(job[w].user) \subseteq Keys
      BY DEF Held, KeysOf
    <3> QED BY <1>0, <2>1, <3>1 DEF SelectReviews, Moves, Goto, Shape
  <2>2. CASE DeleteReview(w)
    <3>1. PICK k \in doomed[w] : lock[k] = None /\ lock' = [lock EXCEPT ![k] = w]
      BY <2>2 DEF DeleteReview
    <3>2. pc[w] = "delete_reviews" /\ pc' = pc
      BY <2>2 DEF DeleteReview
    <3>3. UNCHANGED <<rows, job>> /\ doomed' = doomed /\ DOMAIN lock' = DOMAIN lock
      BY <2>2, <3>1 DEF DeleteReview
    <3>4. \A v \in Workers, row \in Keys : lock[row] = v => lock'[row] = v
      BY <3>1 DEF NoneIsNoWorker
    <3> QED BY <1>0, <3>2, <3>3, <3>4 DEF Moves, Shape
  <2> QED BY <2>1, <2>2
<1>2. Alone(w) /\ pc'[w] = "delete_reviews" /\ UNCHANGED rows /\ job' = job
  BY <1>1, MovesIsAlone
<1>3. WorkerInv(w)'
  BY <1>0, <1>2 DEF WorkerInv, JobFits, Bought, Backed, TakesAll, Writing, Departing, Key
<1>4. NeverBoth'
  BY <1>2, StillApart DEF Writing, Departing
<1> QED BY <1>2, <1>3, <1>4, Uncommitted

\* The user's row is needed alone: no review of this author is being written
\* (DeleteAccount).
LEMMA DeleteUserStep ==
  ASSUME VerifiedInv, NoneIsNoWorker, NEW w \in Workers, DeleteUser(w) PROVE VerifiedInv'
<1>0. job[w].kind = "leave" /\ Shape
  BY DEF VerifiedInv, WorkerInv, JobFits, DeleteUser
<1>1. CASE Rollback(w)
  BY <1>1, RollbackStep
<1>2. CASE /\ Held(job[w].user) \ doomed[w] = {}
           /\ Goto(w, "commit") /\ UNCHANGED <<rows, job, draft, doomed, lock>>
  <2>1. Moves(w, "commit")
    BY <1>0, <1>2 DEF Moves, Goto, Shape
  <2>2. Alone(w) /\ pc'[w] = "commit" /\ UNCHANGED rows /\ job' = job
    BY <2>1, MovesIsAlone
  <2>3. /\ \A k \in doomed[w] : lock[k] = w
        /\ Held(job[w].user) \subseteq doomed[w]
    BY <1>2 DEF DeleteUser
  <2>4. WorkerInv(w)'
    BY <1>0, <1>2, <2>2, <2>3
       DEF WorkerInv, JobFits, Bought, Backed, TakesAll, Writing, Departing, Key, rows, Held, KeysOf
  <2>5. \A v \in Workers : Writing(v) /\ job[v].kind = "create" => job[v].user # job[w].user
    BY DEF DeleteUser, Referencing, Writing
  <2>6. NeverBoth'
    BY <1>0, <2>2, <2>5, StillApart DEF Writing, Departing
  <2> QED BY <2>2, <2>4, <2>6, Uncommitted
<1> QED BY <1>1, <1>2 DEF DeleteUser

\* The review written is a verified one, and no departure has missed it.
LEMMA CommitReviewStep ==
  ASSUME VerifiedInv, NoneIsNoWorker, NEW w \in Workers, CommitReview(w) PROVE VerifiedInv'
<1>0. /\ WorkerInv(w) /\ Shape /\ Writing(w) /\ Key(w) \in Keys /\ lock[Key(w)] = w
      /\ job[w].kind \in {"create", "moderate"} /\ ReviewsAreVerified
  BY DEF VerifiedInv, WorkerInv, JobFits, Backed, Writing, CommitReview
<1>1. /\ End(w) /\ users' = users /\ bought' = bought
      /\ review' = [review EXCEPT ![Key(w)] = job[w].write]
  BY DEF CommitReview
<1>2. Alone(w) /\ WorkerInv(w)' /\ NeverBoth'
  BY <1>0, <1>1, EndIsAlone DEF Shape
<1>3. Key(w)[1] = job[w].user
  BY DEF Key
<1>4. Key(w)[1] \in users /\ Key(w) \in bought
  <2>1. CASE job[w].kind = "create"
    BY <1>0, <1>3, <2>1 DEF WorkerInv, Backed
  <2>2. CASE job[w].kind = "moderate"
    BY <1>0, <2>2 DEF WorkerInv, Backed, ReviewsAreVerified
  <2> QED BY <1>0, <2>1, <2>2
<1>5. ReviewsAreVerified'
  BY <1>0, <1>1, <1>4 DEF ReviewsAreVerified, Shape
<1>6. ASSUME NEW v \in Workers \ {w} PROVE WorkerInv(v)'
  <2>1. /\ WorkerInv(v) /\ pc'[v] = pc[v] /\ job'[v] = job[v] /\ doomed'[v] = doomed[v]
        /\ \A row \in Keys : lock[row] = v => lock'[row] = v
        /\ doomed[v] \subseteq Keys
    BY <1>0, <1>2 DEF VerifiedInv, Alone, Shape
  <2>2. JobFits(v)' /\ Bought(v)'
    BY <1>1, <2>1 DEF WorkerInv, JobFits, Bought, Key
  <2>3. Backed(v)'
    <3> SUFFICES ASSUME Writing(v) PROVE Backed(v)'
      BY <2>1 DEF Backed, Writing
    <3>1. Key(v) \in Keys /\ lock[Key(v)] = v
      BY <2>1 DEF WorkerInv, JobFits, Backed, Writing
    <3>2. review'[Key(v)] = review[Key(v)]
      BY <1>0, <1>1, <3>1 DEF Shape
    <3> QED BY <1>1, <2>1, <3>1, <3>2 DEF WorkerInv, Backed, Writing, Key
  <2>4. TakesAll(v)'
    <3> SUFFICES ASSUME Departing(v) PROVE TakesAll(v)'
      BY <2>1 DEF TakesAll, Departing
    <3>1. job[v].user # job[w].user
      <4>1. CASE job[w].kind = "create"
        BY <1>0, <4>1 DEF VerifiedInv, NeverBoth
      <4>2. CASE job[w].kind = "moderate" /\ job[v].user = job[w].user
        <5>1. Key(w) \in Held(job[v].user)
          BY <1>0, <1>3, <4>2 DEF WorkerInv, Backed, Held, KeysOf
        <5>2. lock[Key(w)] = v
          BY <2>1, <5>1 DEF WorkerInv, TakesAll
        <5> QED BY <1>0, <5>2
      <4> QED BY <1>0, <4>1, <4>2
    <3>2. \A k \in KeysOf(job[v].user) : review'[k] = review[k]
      BY <1>0, <1>1, <1>3, <3>1 DEF KeysOf, Shape
    <3>3. Held(job[v].user)' = Held(job[v].user)
      BY <2>1, <3>2 DEF Held, KeysOf
    <3> QED BY <2>1, <3>2 DEF WorkerInv, TakesAll, Departing, Held, KeysOf
  <2> QED BY <2>2, <2>3, <2>4 DEF WorkerInv
<1> QED BY <1>2, <1>5, <1>6 DEF VerifiedInv, Alone

\* With its user go all of the user's reviews, and no other author.
LEMMA CommitLeaveStep ==
  ASSUME VerifiedInv, NoneIsNoWorker, NEW w \in Workers, CommitLeave(w) PROVE VerifiedInv'
<1> DEFINE u == job[w].user
<1>0. /\ WorkerInv(w) /\ Shape /\ Departing(w) /\ ReviewsAreVerified
      /\ \A k \in doomed[w] : lock[k] = w
      /\ Held(u) \subseteq doomed[w] /\ doomed[w] \subseteq Keys
  BY DEF VerifiedInv, WorkerInv, TakesAll, Departing, CommitLeave, Shape
<1>1. /\ End(w) /\ users' = users \ {u} /\ bought' = {k \in bought : k[1] # u}
      /\ review' = [k \in Keys |-> IF k \in doomed[w] THEN None ELSE review[k]]
  BY DEF CommitLeave
<1> HIDE DEF u
<1>2. Alone(w) /\ WorkerInv(w)' /\ NeverBoth'
  BY <1>0, <1>1, EndIsAlone DEF Shape
<1>3. ReviewsAreVerified'
  <2> SUFFICES ASSUME NEW k \in Keys, review'[k] # None PROVE k[1] \in users' /\ k \in bought'
    BY DEF ReviewsAreVerified
  <2>1. k \notin doomed[w] /\ review[k] # None
    BY <1>1
  <2>2. k[1] # u
    BY <1>0, <2>1 DEF Held, KeysOf
  <2> QED BY <1>0, <1>1, <2>1, <2>2 DEF ReviewsAreVerified
<1>4. ASSUME NEW v \in Workers \ {w} PROVE WorkerInv(v)'
  <2>1. /\ WorkerInv(v) /\ pc'[v] = pc[v] /\ job'[v] = job[v] /\ doomed'[v] = doomed[v]
        /\ \A row \in Keys : lock[row] = v => lock'[row] = v
        /\ doomed[v] \subseteq Keys
    BY <1>0, <1>2 DEF VerifiedInv, Alone, Shape
  <2>2. Key(v)[1] = job[v].user /\ Key(v)' = Key(v)
    BY <2>1 DEF Key
  <2>3. JobFits(v)' /\ Bought(v)'
    BY <1>1, <2>1, <2>2 DEF WorkerInv, JobFits, Bought
  <2>4. Backed(v)'
    <3> SUFFICES ASSUME Writing(v) PROVE Backed(v)'
      BY <2>1 DEF Backed, Writing
    <3>1. Key(v) \in Keys /\ lock[Key(v)] = v /\ Key(v) \notin doomed[w]
      BY <1>0, <2>1 DEF WorkerInv, JobFits, Backed, Writing
    <3>2. review'[Key(v)] = review[Key(v)]
      BY <1>1, <3>1
    <3>3. job[v].kind = "create" => job[v].user # u
      BY <1>0 DEF VerifiedInv, NeverBoth, u
    <3> QED BY <1>1, <2>1, <2>2, <3>1, <3>2, <3>3 DEF WorkerInv, Backed, Writing
  <2>5. TakesAll(v)'
    <3>1. Held(job[v].user)' \subseteq Held(job[v].user)
      BY <1>1, <2>1 DEF Held, KeysOf
    <3> QED BY <2>1, <3>1 DEF WorkerInv, TakesAll, Departing
  <2> QED BY <2>3, <2>4, <2>5 DEF WorkerInv
<1> QED BY <1>2, <1>3, <1>4 DEF VerifiedInv, Alone

\* A delivery adds a purchase and takes none away.
LEMMA DeliverStep == VerifiedInv /\ (\E k \in Keys : Deliver(k)) => VerifiedInv'
<1> SUFFICES ASSUME VerifiedInv, NEW k \in Keys, Deliver(k) PROVE VerifiedInv'
  OBVIOUS
<1>1. bought' = bought \cup {k} /\ UNCHANGED <<users, review, pc, job, doomed, lock>>
  BY DEF Deliver
<1>2. ASSUME NEW w \in Workers PROVE WorkerInv(w)'
  BY <1>1 DEF VerifiedInv, WorkerInv, JobFits, Bought, Backed, TakesAll, Writing, Departing,
              Held, KeysOf, Key
<1>3. Shape' /\ NeverBoth' /\ ReviewsAreVerified'
  BY <1>1 DEF VerifiedInv, Shape, NeverBoth, Writing, Departing, ReviewsAreVerified
<1> QED BY <1>2, <1>3 DEF VerifiedInv

\* A stuttering step keeps everything.
LEMMA IdleStep == VerifiedInv /\ UNCHANGED vars => VerifiedInv'
<1> SUFFICES ASSUME VerifiedInv, UNCHANGED <<users, bought, review, pc, job, doomed, lock>>
             PROVE  VerifiedInv'
  BY DEF vars
<1>1. ASSUME NEW w \in Workers PROVE WorkerInv(w)'
  BY DEF VerifiedInv, WorkerInv, JobFits, Bought, Backed, TakesAll, Writing, Departing,
         Held, KeysOf, Key
<1>2. Shape' /\ NeverBoth' /\ ReviewsAreVerified'
  BY DEF VerifiedInv, Shape, NeverBoth, Writing, Departing, ReviewsAreVerified
<1> QED BY <1>1, <1>2 DEF VerifiedInv

\* Every step keeps VerifiedInv.
LEMMA VerifiedStep == ASSUME VerifiedInv, NoneIsNoWorker, [Next]_vars PROVE VerifiedInv'
<1>1. CASE UNCHANGED vars
  BY <1>1, IdleStep
<1>2. ASSUME NEW w \in Workers, Statement(w) \/ Abort(w) PROVE VerifiedInv'
  BY <1>2, CheckPurchaseStep, InsertStep, UpdateStep, AggregateStep, CommitReviewStep,
     GatherStep, DeleteUserStep, CommitLeaveStep, RollbackStep DEF Statement, Abort
<1> QED BY <1>1, <1>2, ArriveStep, DeliverStep DEF Next

\* The locks and the reviews agree in every reachable state.
LEMMA Verified ==
  ASSUME NoneIsNoWorker
  PROVE  Spec => []VerifiedInv
<1>1. Init => VerifiedInv
  <2> SUFFICES ASSUME Init PROVE VerifiedInv
    OBVIOUS
  <2>1. \A w \in Workers : pc[w] = "idle" /\ job[w].kind = "none"
    BY DEF Init, NoJob
  <2>2. Shape
    BY DEF Init, Shape
  <2>3. \A k \in Keys : review[k] = None
    BY DEF Init
  <2> QED BY <2>1, <2>2, <2>3 DEF VerifiedInv, WorkerInv, JobFits, Bought, Backed, TakesAll,
             Writing, Departing, NeverBoth, ReviewsAreVerified
<1>2. VerifiedInv /\ [Next]_vars => VerifiedInv'
  BY VerifiedStep
<1> QED BY <1>1, <1>2, PTL DEF Spec

\* Every review, whoever submits while whoever leaves, is a verified purchase of somebody the
\* shop still knows: CreateReview's foreign key and DeleteAccount's RESTRICT suffice.
THEOREM VerifiedPurchases ==
  ASSUME NoneIsNoWorker
  PROVE  Spec => []ReviewsAreVerified
<1>1. VerifiedInv => ReviewsAreVerified
  BY DEF VerifiedInv
<1> QED BY <1>1, Verified, PTL

-----------------------------------------------------------------------------
(* The stars of a product with one review                                  *)

\* NULL is no review, the tables are finite, and stars are what the CHECK on rating allows.
ReviewTables == None \notin Review /\ IsFiniteSet(Keys) /\ Stars \subseteq 1..5

\* A sum of n values of at most b is at most n times b.
LEMMA SumOverBound ==
  ASSUME NEW S, IsFiniteSet(S), NEW b \in Nat, NEW f, \A x \in S : f[x] \in Nat /\ f[x] <= b
  PROVE  SumOver(f, S) <= b * Cardinality(S)
<1> DEFINE C == {T \in SUBSET S : ~(SumOver(f, T) <= b * Cardinality(T))}
<1>1. SUFFICES ASSUME C # {} PROVE FALSE
  OBVIOUS
<1>2. \A T \in C : IsFiniteSet(T)
  BY FS_Subset
<1>3. PICK T \in C : \A U \in C : ~(Cardinality(U) < Cardinality(T))
  <2> HIDE DEF C
  <2> QED
    BY <1>1, <1>2, SmallestMember
<1>4. T # {}
  BY <1>3, SumOverEmpty, FS_EmptySet
<1>5. PICK x \in T : TRUE
  BY <1>4
<1> DEFINE P == T \ {x}
<1>6. /\ P \in SUBSET S /\ IsFiniteSet(P) /\ Cardinality(P) \in Nat
      /\ Cardinality(T) = Cardinality(P) + 1
  BY <1>2, <1>3, <1>5, FS_Subset, FS_RemoveElement, FS_CardinalityType
<1>7. SumOver(f, P) <= b * Cardinality(P)
  BY <1>2, <1>3, <1>5, <1>6, SmallerWithout
<1>8. SumOver(f, T) = f[x] + SumOver(f, P)
  BY <1>2, <1>3, <1>5, SumOverElement
<1>9. SumOver(f, P) \in Nat
  BY <1>6, SumOverNat
<1>10. f[x] \in Nat /\ f[x] <= b
  BY <1>3, <1>5
<1> HIDE DEF P
<1>11. SumOver(f, T) <= b * Cardinality(T)
  BY <1>6, <1>7, <1>8, <1>9, <1>10
<1> QED
  BY <1>3, <1>11

\* The reviews an aggregate counts, and their stars.
Counted(rv, p) == {k \in Keys : k[2] = p /\ rv[k] # None /\ rv[k].status = "published"}
StarsIn(rv, p) == SumOver([k \in Counted(rv, p) |-> rv[k].stars], Counted(rv, p))

\* A summary is their average, in hundredths, and their number.
LEMMA SummaryIs ==
  ASSUME NEW rv, NEW p
  PROVE  Summary(rv, p) =
           [avg |-> IF Cardinality(Counted(rv, p)) = 0 THEN 0
                    ELSE (200 * StarsIn(rv, p) + Cardinality(Counted(rv, p)))
                           \div (2 * Cardinality(Counted(rv, p))),
            count |-> Cardinality(Counted(rv, p))]
BY DEF Summary, Counted, StarsIn

\* Rounding to hundredths keeps an average of at most 5 stars within 5.00.
LEMMA AverageFits ==
  ASSUME NEW n \in Nat, n # 0, NEW s \in Nat, s <= 5 * n
  PROVE  (200 * s + n) \div (2 * n) \in 0..500
<1>1. PICK a \in Nat, m \in Nat : a = 200 * s + n /\ m = 2 * n /\ m > 0 /\ a < 501 * m
  OBVIOUS
<1>2. a \div m \in Nat /\ m * (a \div m) <= a
  BY <1>1
<1>3. PICK d \in Nat : d = a \div m /\ m * d <= a
  BY <1>2
<1>4. d <= 500
  BY <1>1, <1>3
<1> QED
  BY <1>1, <1>3, <1>4

\* The aggregate is one the columns of products can hold.
LEMMA SummaryTypes ==
  ASSUME ReviewTables, NEW rv \in [Keys -> Review \cup {None}], NEW p
  PROVE  Summary(rv, p) \in Aggregate
<1> DEFINE S == Counted(rv, p)
           f == [k \in S |-> rv[k].stars]
           n == Cardinality(S)
<1>1. IsFiniteSet(S) /\ n \in Nat
  <2>1. S \subseteq Keys
    BY DEF Counted
  <2> HIDE DEF S
  <2> QED
    BY <2>1, FS_Subset, FS_CardinalityType DEF ReviewTables
<1>2. ASSUME NEW k \in S PROVE f[k] \in Nat /\ f[k] <= 5
  <2>1. rv[k] \in Review
    BY DEF Counted
  <2>2. rv[k].stars \in 1..5 /\ f[k] = rv[k].stars
    BY <2>1 DEF Review, ReviewTables
  <2> QED
    BY <2>2
<1>3. StarsIn(rv, p) = SumOver(f, S)
  BY DEF StarsIn
<1> HIDE DEF S, f
<1>4. StarsIn(rv, p) \in Nat /\ StarsIn(rv, p) <= 5 * n
  BY <1>1, <1>2, <1>3, SumOverNat, SumOverBound
<1>5. n # 0 => (200 * StarsIn(rv, p) + n) \div (2 * n) \in 0..500
  BY <1>1, <1>4, AverageFits
<1> QED
  BY <1>1, <1>5, SummaryIs DEF S, Aggregate

\* Reviews of other products do not count.
LEMMA SummarySame ==
  ASSUME NEW rv, NEW rw, NEW p, \A k \in Keys : k[2] = p => rw[k] = rv[k]
  PROVE  Summary(rw, p) = Summary(rv, p)
<1>1. Counted(rw, p) = Counted(rv, p)
  BY DEF Counted
<1>2. [k \in Counted(rw, p) |-> rw[k].stars] = [k \in Counted(rv, p) |-> rv[k].stars]
  BY <1>1 DEF Counted
<1> QED
  BY <1>1, <1>2, SummaryIs DEF StarsIn

\* The rows are what the tables hold, and a writer is on its way to write a review.
RowTypes ==
  /\ users \subseteq Customers
  /\ review \in [Keys -> Review \cup {None}]
  /\ shown \in [Products -> Aggregate]
  /\ DOMAIN draft = Workers
Writer(w) == pc[w] # "idle" /\ job[w].kind \in {"create", "moderate"}
Drafted(w) == pc[w] \in {"lock_product", "commit"} /\ job[w].kind # "leave"
WriteTypes(w) ==
  /\ Writer(w) => job[w].write \in Review /\ job[w].product \in Products
  /\ Drafted(w) => draft[w] \in Aggregate
  /\ job[w].kind = "leave" => job[w].user \in Customers

\* The reviews of w's product once w's is written.
Written(w) == [review EXCEPT ![Key(w)] = job[w].write]
OnlyReview(w) == \A k \in Keys : k[2] = job[w].product /\ k # Key(w) => review[k] = None

\* While nobody has left and the review being written is the product's only one, the
\* aggregate read for it is still that of the product.
DraftHolds(w) ==
  users = Customers /\ Drafted(w) /\ OnlyReview(w) =>
    draft[w] = Summary(Written(w), job[w].product)

\* A product with one review at most shows its stars.
Lone(p) == \A k, l \in Keys : k[2] = p /\ l[2] = p /\ review[k] # None /\ review[l] # None => k = l
LoneShown == \A p \in Products : users = Customers /\ Lone(p) => shown[p] = Summary(review, p)

LoneInv == RowTypes /\ (\A w \in Workers : WriteTypes(w) /\ DraftHolds(w)) /\ LoneShown

-----------------------------------------------------------------------------
(* The steps, for the stars                                                *)

\* What a step that commits nothing leaves to the other workers and to the rows.
Quiet(w) ==
  /\ UNCHANGED rows /\ DOMAIN draft' = Workers
  /\ \A v \in Workers \ {w} : pc'[v] = pc[v] /\ job'[v] = job[v] /\ draft'[v] = draft[v]

\* A step that writes no row, and keeps the drafts of the others, keeps LoneInv.
LEMMA QuietStep ==
  ASSUME LoneInv, NEW w \in Workers, Quiet(w), (WriteTypes(w) /\ DraftHolds(w))'
  PROVE  LoneInv'
<1>1. UNCHANGED <<users, bought, review, shown>>
  BY DEF Quiet, rows
<1>2. RowTypes' /\ LoneShown'
  BY <1>1 DEF LoneInv, RowTypes, LoneShown, Lone, Quiet
<1>3. ASSUME NEW v \in Workers \ {w} PROVE (WriteTypes(v) /\ DraftHolds(v))'
  <2>1. WriteTypes(v) /\ DraftHolds(v)
    BY DEF LoneInv
  <2>2. pc'[v] = pc[v] /\ job'[v] = job[v] /\ draft'[v] = draft[v]
    BY DEF Quiet
  <2>3. WriteTypes(v)'
    BY <2>1, <2>2 DEF WriteTypes, Writer, Drafted
  <2>4. DraftHolds(v)'
    BY <1>1, <2>1, <2>2 DEF DraftHolds, Drafted, OnlyReview, Written, Key
  <2> QED
    BY <2>3, <2>4
<1> QED
  BY <1>2, <1>3 DEF LoneInv

\* A worker that has ended owes nothing.
LEMMA EndIsQuiet ==
  ASSUME VerifiedInv, LoneInv, NEW w \in Workers, End(w)
  PROVE  /\ (WriteTypes(w) /\ DraftHolds(w))' /\ DOMAIN draft' = Workers
         /\ \A v \in Workers \ {w} : pc'[v] = pc[v] /\ job'[v] = job[v] /\ draft'[v] = draft[v]
<1>1. /\ pc'[w] = "idle" /\ job'[w] = NoJob /\ DOMAIN draft' = Workers
      /\ \A v \in Workers \ {w} : pc'[v] = pc[v] /\ job'[v] = job[v] /\ draft'[v] = draft[v]
  BY DEF VerifiedInv, Shape, LoneInv, RowTypes, End, Goto
<1>2. job'[w].kind = "none"
  BY <1>1 DEF NoJob
<1> QED
  BY <1>1, <1>2 DEF WriteTypes, DraftHolds, Writer, Drafted

\* A rollback drops its own draft only.
LEMMA LoneRollback ==
  ASSUME VerifiedInv, LoneInv, NEW w \in Workers, Rollback(w) PROVE LoneInv'
<1>1. Quiet(w) /\ (WriteTypes(w) /\ DraftHolds(w))'
  BY EndIsQuiet DEF Rollback, Quiet
<1> QED
  BY <1>1, QuietStep

\* A request arrives with a review to write, or a customer to delete.
LEMMA LoneArrive ==
  ASSUME VerifiedInv, LoneInv, NEW w \in Workers, Arrive(w) PROVE LoneInv'
<1>1. PICK label, j :
        /\ Begin(w, label, j) /\ label \in {"check_purchase", "update", "select_reviews"}
        /\ j.kind \in {"create", "moderate"} => j.write \in Review /\ j.product \in Products
        /\ j.kind = "leave" => j.user \in Customers
  <2>1. CASE \E u \in Customers, p \in Products, st \in Stars : Submit(w, u, p, st)
    <3>1. PICK u \in Customers, p \in Products, st \in Stars : Submit(w, u, p, st)
      BY <2>1
    <3>2. [stars |-> st, status |-> "pending"] \in Review
      BY DEF Review, Statuses
    <3> QED
      BY <3>1, <3>2 DEF Submit
  <2>2. CASE \E k \in Keys, to \in Statuses : Moderate(w, k, to)
    <3>1. PICK k \in Keys, to \in Statuses : Moderate(w, k, to)
      BY <2>2
    <3>2. review[k] \in Review /\ k[2] \in Products
      BY <3>1 DEF Moderate, LoneInv, RowTypes, Keys
    <3>3. [review[k] EXCEPT !.status = to] \in Review
      BY <3>2 DEF Review
    <3> QED
      BY <3>1, <3>2, <3>3 DEF Moderate
  <2>3. CASE \E u \in Leaving : Leave(w, u)
    BY <2>3 DEF Leave, LoneInv, RowTypes
  <2> QED
    BY <2>1, <2>2, <2>3 DEF Arrive
<1>2. /\ pc'[w] = label /\ job'[w] = j /\ UNCHANGED <<rows, draft>>
      /\ \A v \in Workers \ {w} : pc'[v] = pc[v] /\ job'[v] = job[v]
  BY <1>1 DEF Begin, Goto, VerifiedInv, Shape
<1>3. Quiet(w)
  BY <1>2 DEF Quiet, LoneInv, RowTypes
<1>4. (WriteTypes(w) /\ DraftHolds(w))'
  BY <1>1, <1>2 DEF WriteTypes, DraftHolds, Writer, Drafted
<1> QED
  BY <1>3, <1>4, QuietStep

\* Statements before the aggregate is read, and a departure's.
LEMMA LoneEarly ==
  ASSUME VerifiedInv, LoneInv, NEW w \in Workers,
         CheckPurchase(w) \/ Insert(w) \/ Update(w) \/ SelectReviews(w) \/ DeleteReview(w)
           \/ DeleteUser(w)
  PROVE  LoneInv'
<1>1. CASE Rollback(w)
  BY <1>1, LoneRollback
<1>2. CASE ~Rollback(w)
  <2>1. /\ UNCHANGED <<rows, job, draft>> /\ DOMAIN pc' = Workers
        /\ \A v \in Workers \ {w} : pc'[v] = pc[v]
        /\ pc[w] # "idle" /\ (Drafted(w)' => FALSE)
    <3>1. CASE CheckPurchase(w)
      BY <1>2, <3>1 DEF CheckPurchase, Goto, Drafted, VerifiedInv, Shape
    <3>2. CASE Insert(w) \/ Update(w)
      BY <1>2, <3>2 DEF Insert, Update, Goto, Drafted, VerifiedInv, Shape
    <3>3. CASE SelectReviews(w) \/ DeleteReview(w)
      BY <3>3 DEF SelectReviews, DeleteReview, Goto, Drafted, VerifiedInv, Shape
    <3>4. CASE DeleteUser(w)
      <4>1. job[w].kind = "leave"
        BY <3>4 DEF DeleteUser, VerifiedInv, WorkerInv, JobFits
      <4> QED
        BY <1>2, <3>4, <4>1 DEF DeleteUser, Goto, Drafted, VerifiedInv, Shape
    <3> QED
      BY <3>1, <3>2, <3>3, <3>4
  <2>2. Quiet(w)
    BY <2>1 DEF Quiet, LoneInv, RowTypes
  <2>3. (WriteTypes(w) /\ DraftHolds(w))'
    BY <2>1 DEF LoneInv, WriteTypes, DraftHolds, Writer
  <2> QED
    BY <2>2, <2>3, QuietStep
<1> QED
  BY <1>1, <1>2

\* A writing worker's review is one.
LEMMA WriterTypes ==
  ASSUME VerifiedInv, LoneInv, NEW w \in Workers, Writing(w)
  PROVE  /\ job[w].write \in Review /\ job[w].product \in Products /\ Key(w) \in Keys
         /\ Key(w)[2] = job[w].product /\ lock[Key(w)] = w
         /\ Written(w) \in [Keys -> Review \cup {None}]
<1>1. /\ job[w].write \in Review /\ job[w].product \in Products /\ Key(w) \in Keys
      /\ lock[Key(w)] = w
  BY DEF Writing, VerifiedInv, WorkerInv, JobFits, Backed, LoneInv, WriteTypes, Writer
<1> QED
  BY <1>1 DEF Written, Key, LoneInv, RowTypes

\* The aggregate is read, and kept while the product's row is waited for.
LEMMA LoneAggregate ==
  ASSUME VerifiedInv, LoneInv, ReviewTables, NEW w \in Workers, Recompute(w) \/ LockProduct(w)
  PROVE  LoneInv'
<1>1. /\ Writing(w) /\ UNCHANGED <<rows, job>> /\ DOMAIN pc' = Workers
      /\ \A v \in Workers \ {w} : pc'[v] = pc[v]
      /\ pc[w] # "idle" /\ job[w].kind # "leave" /\ DOMAIN pc' = DOMAIN pc
  BY DEF Recompute, LockProduct, Goto, Writing, VerifiedInv, WorkerInv, JobFits, Shape
<1>2. CASE Recompute(w)
  <2>1. draft' = [draft EXCEPT ![w] = Summary(Written(w), job[w].product)]
    BY <1>2 DEF Recompute, Written
  <2>2. Quiet(w) /\ draft'[w] = Summary(Written(w), job[w].product)
    BY <1>1, <2>1 DEF Quiet, LoneInv, RowTypes
  <2>3. draft'[w] \in Aggregate
    BY <1>1, <2>2, WriterTypes, SummaryTypes
  <2>4. Written(w)' = Written(w) /\ job'[w] = job[w]
    BY <1>1 DEF Written, Key, rows
  <2>5. (WriteTypes(w) /\ DraftHolds(w))'
    BY <1>1, <2>2, <2>3, <2>4 DEF LoneInv, WriteTypes, DraftHolds, Writer
  <2> QED
    BY <2>2, <2>5, QuietStep
<1>3. CASE LockProduct(w)
  <2>1. draft' = draft /\ Drafted(w) /\ Quiet(w)
    BY <1>1, <1>3 DEF LockProduct, Drafted, Quiet, LoneInv, RowTypes
  <2>2. UNCHANGED <<review, users>> /\ job' = job
    BY <1>1 DEF rows
  <2>3. WriteTypes(w)'
    BY <1>1, <2>1, <2>2 DEF LoneInv, WriteTypes, Writer
  <2>4. DraftHolds(w)'
    BY <2>1, <2>2 DEF LoneInv, DraftHolds, OnlyReview, Written, Key
  <2> QED
    BY <2>1, <2>3, <2>4, QuietStep
<1> QED
  BY <1>2, <1>3

\* The commit of a review: its product shows the aggregate, which is that of the review when
\* it is the product's only one; whoever else has read an aggregate of the same product has
\* another review to write there, and it will not be the only one.
LEMMA LoneCommit ==
  ASSUME VerifiedInv, LoneInv, ReviewTables, NEW w \in Workers, CommitReview(w)
  PROVE  LoneInv'
<1> DEFINE p == job[w].product
<1>1. /\ Writing(w) /\ Drafted(w) /\ End(w) /\ users' = users
      /\ review' = Written(w) /\ shown' = [shown EXCEPT ![p] = draft[w]]
  BY DEF CommitReview, Writing, Drafted, Written
<1>2. /\ job[w].write \in Review /\ p \in Products /\ Key(w) \in Keys
      /\ Key(w)[2] = p /\ lock[Key(w)] = w /\ review' \in [Keys -> Review \cup {None}]
      /\ draft[w] \in Aggregate
  BY <1>1, WriterTypes DEF LoneInv, WriteTypes
<1>3. /\ review'[Key(w)] = job[w].write /\ review'[Key(w)] # None
      /\ \A k \in Keys \ {Key(w)} : review'[k] = review[k]
  BY <1>1, <1>2 DEF Written, LoneInv, RowTypes, ReviewTables
<1>4. /\ (WriteTypes(w) /\ DraftHolds(w))' /\ DOMAIN draft' = Workers
      /\ \A v \in Workers \ {w} : pc'[v] = pc[v] /\ job'[v] = job[v] /\ draft'[v] = draft[v]
  BY <1>1, EndIsQuiet
<1>5. RowTypes'
  BY <1>1, <1>2, <1>4 DEF RowTypes, LoneInv
<1>6. ASSUME NEW v \in Workers \ {w} PROVE (WriteTypes(v) /\ DraftHolds(v))'
  <2>1. WriteTypes(v)'
    BY <1>4 DEF LoneInv, WriteTypes, Writer, Drafted
  <2>2. ASSUME users' = Customers, Drafted(v)', OnlyReview(v)'
        PROVE  draft'[v] = Summary(Written(v)', job'[v].product)
    <3>1. Drafted(v) /\ Writing(v) /\ Key(v)' = Key(v)
      BY <1>4, <2>2 DEF Drafted, Writing, Key
    <3>2. /\ Key(v) \in Keys /\ Key(v) # Key(w) /\ Key(v)[2] = job[v].product
          /\ job[v].write \in Review
      BY <1>2, <3>1, WriterTypes
    <3>3. OnlyReview(v)
      BY <1>3, <1>4, <2>2, <3>1 DEF OnlyReview
    <3>4. draft[v] = Summary(Written(v), job[v].product)
      BY <1>1, <2>2, <3>1, <3>3 DEF LoneInv, DraftHolds
    <3>5. job[v].product # p
      BY <1>2, <1>3, <1>4, <2>2, <3>1, <3>2 DEF OnlyReview
    <3>6. ASSUME NEW k \in Keys, k[2] = job[v].product PROVE Written(v)'[k] = Written(v)[k]
      <4>1. k # Key(w)
        BY <1>2, <3>5, <3>6
      <4>2. review'[k] = review[k]
        BY <1>3, <4>1
      <4> QED
        BY <1>2, <1>4, <3>1, <3>2, <4>2 DEF Written, LoneInv, RowTypes
    <3>7. Summary(Written(v)', job[v].product) = Summary(Written(v), job[v].product)
      BY <3>6, SummarySame
    <3> QED
      BY <1>4, <3>4, <3>7
  <2> QED
    BY <2>1, <2>2 DEF DraftHolds
<1>7. ASSUME NEW x \in Products, users' = Customers, Lone(x)' PROVE shown'[x] = Summary(review', x)
  <2>1. CASE x # p
    <3>1. \A k \in Keys : k[2] = x => review'[k] = review[k]
      BY <1>2, <1>3, <2>1
    <3>2. Lone(x) /\ Summary(review', x) = Summary(review, x)
      BY <1>7, <3>1, SummarySame DEF Lone
    <3> QED
      BY <1>1, <1>2, <1>7, <2>1, <3>2 DEF LoneInv, LoneShown, RowTypes
  <2>2. CASE x = p
    <3>1. OnlyReview(w)
      BY <1>2, <1>3, <1>7, <2>2 DEF Lone, OnlyReview
    <3>2. draft[w] = Summary(Written(w), p)
      BY <1>1, <1>7, <3>1 DEF LoneInv, DraftHolds
    <3> QED
      BY <1>1, <1>2, <2>2, <3>2 DEF LoneInv, RowTypes
  <2> QED
    BY <2>1, <2>2
<1>8. LoneShown'
  BY <1>7 DEF LoneShown
<1> HIDE DEF p
<1> QED
  BY <1>4, <1>5, <1>6, <1>8 DEF LoneInv

\* With a departure the stars may drift: nothing is promised from then on.
LEMMA LoneLeave ==
  ASSUME VerifiedInv, LoneInv, NEW w \in Workers, CommitLeave(w)
  PROVE  LoneInv'
<1>1. /\ End(w) /\ users' = users \ {job[w].user} /\ shown' = shown
      /\ review' = [k \in Keys |-> IF k \in doomed[w] THEN None ELSE review[k]]
      /\ job[w].user \in Customers
  BY DEF CommitLeave, LoneInv, WriteTypes
<1>2. /\ (WriteTypes(w) /\ DraftHolds(w))' /\ DOMAIN draft' = Workers
      /\ \A v \in Workers \ {w} : pc'[v] = pc[v] /\ job'[v] = job[v] /\ draft'[v] = draft[v]
  BY <1>1, EndIsQuiet
<1>3. users' # Customers
  BY <1>1
<1>4. RowTypes'
  BY <1>1, <1>2 DEF RowTypes, LoneInv
<1>5. ASSUME NEW v \in Workers \ {w} PROVE (WriteTypes(v) /\ DraftHolds(v))'
  BY <1>2, <1>3 DEF LoneInv, WriteTypes, Writer, Drafted, DraftHolds
<1> QED
  BY <1>2, <1>3, <1>4, <1>5 DEF LoneInv, LoneShown

\* Every step keeps a single review's stars on its product.
LEMMA LoneStep ==
  ASSUME VerifiedInv, LoneInv, ReviewTables, [Next]_vars PROVE LoneInv'
<1>1. ASSUME NEW w \in Workers, Arrive(w) \/ Statement(w) \/ Abort(w) PROVE LoneInv'
  BY <1>1, LoneArrive, LoneEarly, LoneAggregate, LoneCommit, LoneLeave, LoneRollback
  DEF Statement, Abort
<1>2. CASE UNCHANGED <<users, review, shown, pc, job, draft>>
  BY <1>2 DEF LoneInv, RowTypes, WriteTypes, Writer, Drafted, DraftHolds, OnlyReview, Written, Key,
              LoneShown, Lone
<1>3. ASSUME NEW k \in Keys, Deliver(k) PROVE LoneInv'
  BY <1>2, <1>3 DEF Deliver
<1> QED
  BY <1>1, <1>2, <1>3 DEF Next, vars

\* At the start no product is reviewed, and none shows stars.
LEMMA LoneInit == ASSUME ReviewTables, Init PROVE LoneInv
<1>1. /\ users = Customers /\ review = [k \in Keys |-> None]
      /\ shown = [p \in Products |-> [avg |-> 0, count |-> 0]]
      /\ \A w \in Workers : pc[w] = "idle" /\ job[w].kind = "none"
      /\ DOMAIN draft = Workers
  BY DEF Init, NoJob
<1>2. ASSUME NEW p PROVE Summary(review, p) = [avg |-> 0, count |-> 0]
  <2>1. Counted(review, p) = {}
    BY <1>1 DEF Counted
  <2>2. Cardinality(Counted(review, p)) = 0
    BY <2>1, FS_EmptySet
  <2> QED
    BY <2>2, SummaryIs
<1>3. [avg |-> 0, count |-> 0] \in Aggregate
  BY DEF Aggregate
<1> QED
  BY <1>1, <1>2, <1>3
  DEF LoneInv, RowTypes, WriteTypes, Writer, Drafted, DraftHolds, LoneShown

\* A product's stars are those of its review while it has one at most, whatever submission
\* and moderation raced on it, as long as nobody has left.
THEOREM LoneStars ==
  ASSUME NoneIsNoWorker, ReviewTables
  PROVE  Spec => []RatingMatchesLoneReview
<1>1. LoneInv => RatingMatchesLoneReview
  <2> SUFFICES ASSUME LoneInv, NEW p \in Products
               PROVE  /\ shown[p] \in Aggregate
                      /\ users = Customers
                           /\ Cardinality({k \in Keys : k[2] = p /\ review[k] # None}) <= 1
                         => shown[p] = Summary(review, p)
    BY DEF RatingMatchesLoneReview
  <2> DEFINE S == {k \in Keys : k[2] = p /\ review[k] # None}
  <2>1. shown[p] \in Aggregate
    BY DEF LoneInv, RowTypes
  <2>2. ASSUME Cardinality(S) <= 1, NEW k \in S, NEW l \in S PROVE k = l
    <3>1. S \subseteq Keys
      OBVIOUS
    <3> HIDE DEF S
    <3>2. IsFiniteSet(S) /\ IsFiniteSet(S \ {k}) /\ Cardinality(S \ {k}) = Cardinality(S) - 1
      BY <2>2, <3>1, FS_Subset, FS_RemoveElement DEF ReviewTables
    <3>3. Cardinality(S \ {k}) \in Nat /\ Cardinality(S) \in Nat
      BY <3>2, FS_CardinalityType
    <3>4. S \ {k} = {}
      BY <2>2, <3>2, <3>3, FS_EmptySet
    <3> QED
      BY <3>4
  <2>3. Cardinality(S) <= 1 => Lone(p)
    BY <2>2 DEF Lone
  <2> QED
    BY <2>1, <2>3 DEF LoneInv, LoneShown
<1>2. ReviewTables /\ VerifiedInv /\ LoneInv /\ [Next]_vars => LoneInv'
  BY LoneStep
<1>3. ReviewTables /\ Init => LoneInv
  BY LoneInit
<1> QED
  BY <1>1, <1>2, <1>3, Verified, PTL DEF Spec
=============================================================================
