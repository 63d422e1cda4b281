SPECIFICATION FairSpec
CONSTANTS
  Users <- TwoUsers
  Variants = {1, 2, 3, 4}
  Products = {10, 20}
  Codes = {c1}
  Requests <- ThreeRequests
  ProductOf <- ProductsOfSizes
  Offered <- DollarMarket
  MaxLine = 1
  InitStock <- StockUneven
  InitPrice <- Price1
  InitCarts <- SameOrCross
  InitPromos <- OneOrBoth
  InitCodes <- Uncapped
  CartInputs <- Never
  PromoInputs <- Never
  VariantInputs <- Never
  CodeInputs <- Never
  DeskInputs <- AnyDesk
  CancelInputs <- CancelFirst
  None = None
  u1 = u1
  u2 = u2
  c1 = c1
  r1 = r1
  r2 = r2
  r3 = r3
  r4 = r4
INVARIANT SubmitTwiceOrderOnce
INVARIANT CheckoutsNeverDeadlock
PROPERTY EveryRequestEnds
\* Requests are served once, so a run ends when all of them have ended.
CHECK_DEADLOCK FALSE
