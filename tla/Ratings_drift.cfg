SPECIFICATION Spec
CONSTANTS
  Customers <- TwoCustomers
  Products <- OneProduct
  Workers <- TwoWorkers
  Stars = {5}
  Leaving <- Nobody
  None = None
  u1 = u1
  u2 = u2
  p1 = p1
  w1 = w1
  w2 = w2
SYMMETRY AnyWorker
INVARIANT RatingMatchesReviews
