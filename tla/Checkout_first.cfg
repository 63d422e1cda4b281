SPECIFICATION Spec
CONSTANTS
  Users <- OneUser
  Variants = {1, 2}
  Products = {10, 20}
  Codes = {c1}
  Requests <- FourRequests
  ProductOf <- ProductsOfSizes
  Offered <- DollarMarket
  MaxLine = 1
  InitStock <- Stock2
  InitPrice <- Price1
  InitCarts <- OwnBaskets
  InitPromos <- EachCode
  InitCodes <- Uncapped
  CartInputs <- RefillU1Other
  PromoInputs <- ApplyU1
  VariantInputs <- Never
  CodeInputs <- RenewedCode
  DeskInputs <- Confirmation
  CancelInputs <- OwnCancels
  None = None
  u1 = u1
  u2 = u2
  c1 = c1
  r1 = r1
  r2 = r2
  r3 = r3
  r4 = r4
SYMMETRY AnyRequest
INVARIANT OneFreeFirstDelivery
INVARIANT RedeemsWithoutConflict
INVARIANT RedemptionsMatchOrders
\* Requests are served once, so a run ends when all of them have ended.
CHECK_DEADLOCK FALSE
