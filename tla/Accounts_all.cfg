SPECIFICATION AccountsSpec
CONSTANTS
  Users = {1, 2, 3}
  Workers <- TwoWorkers
  Founders = {1, 2}
  Promotable = {3}
  Demotable = {1, 2}
  Leaving = {1, 2}
  None = None
  w1 = w1
  w2 = w2
  Slots = {s1, s2}
  Idle = Idle
  Sent = Sent
  Customers = {u1, u2}
  Products = {p1}
  Stars = {5}
  MaxTokens = 3
  Posts = {s1, s2}
  Terms = {"", "h", "honey", "tea"}
  Empty = ""
  Short = {"", "h"}
INVARIANT RolesTypeOK
INVARIANT SomeAdmin
INVARIANT CountIsTruth
INVARIANT ReviewsAreVerified
INVARIANT RatingMatchesLoneReview
INVARIANT LiveByConsent
PROPERTY RoleRequestsEnd
PROPERTY ReviewRequestsEnd
PROPERTY ReopenedFormStays
PROPERTY StopsOnWhatWasTyped
\* Once the accounts are deleted, or the subscribe requests used up, nothing more happens.
CHECK_DEADLOCK FALSE
