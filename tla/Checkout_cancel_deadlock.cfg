SPECIFICATION Spec
CONSTANTS
  Users <- TwoUsers
  Variants = {1, 2}
  Products = {10, 20}
  Codes = {}
  Requests <- ThreeRequests
  ProductOf <- ProductsOfSizes
  Offered <- DollarMarket
  MaxLine = 1
  InitStock <- Stock2
  InitPrice <- Price1
  InitCarts <- SameBaskets
  InitPromos <- NoCode
  InitCodes <- Uncapped
  CartInputs <- Never
  PromoInputs <- Never
  VariantInputs <- Never
  CodeInputs <- Never
  DeskInputs <- AnyDesk
  CancelInputs <- AnyCancel
  None = None
  u1 = u1
  u2 = u2
  c1 = c1
  r1 = r1
  r2 = r2
  r3 = r3
  r4 = r4
SYMMETRY AnyRequest
INVARIANT NoDeadlock
\* Requests are served once, so a run ends when all of them have ended.
CHECK_DEADLOCK FALSE
