------------------------------ MODULE MCRatings ------------------------------
(* A small review queue for TLC: two authors, two requests at a time.      *)
EXTENDS Ratings, TLC

CONSTANTS u1, u2, p1, w1, w2
TwoCustomers == {u1, u2}
OneProduct == {p1}
TwoWorkers == {w1, w2}
AnyWorker == Permutations(Workers)
Nobody == {}
=============================================================================
