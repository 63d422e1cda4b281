SPECIFICATION Spec
CONSTANTS
  Users = {1, 2}
  Workers <- TwoWorkers
  Founders = {1}
  Promotable = {2}
  Demotable = {1}
  Leaving = {2}
  None = None
  w1 = w1
  w2 = w2
INVARIANT SomeAdmin
