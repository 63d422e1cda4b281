SPECIFICATION CustomerSpec
SYMMETRY AnySlot
CONSTANTS
  Nothing = Nothing
  Idle = Idle
  Sent = Sent
  Slots <- TwoSlots
  s1 = s1
  s2 = s2
  i1 = i1
  i2 = i2
  i3 = i3
  Variants = {1}
  MaxQty = 2
  MaxEdits = 2
  MaxSessions = 2
  MaxLinks = 2
  MaxPasswords = 2
  MaxOrders = 3
  RowsPerPage = 1
INVARIANT ScreenShowsTheBasket
INVARIANT RefusalShowsItsCause
 
INVARIANT OneDefault
INVARIANT SingleUse
INVARIANT SessionsFollowThePassword
INVARIANT TooLateEndsTheOffer
PROPERTY DiscountIsKept
\* Links, sessions and orders are bounded, so a behaviour may end.
CHECK_DEADLOCK FALSE
