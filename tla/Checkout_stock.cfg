SPECIFICATION Spec
CONSTANTS
  Users <- TwoUsers
  Variants = {1}
  Products = {10, 20}
  Codes = {c1}
  Requests <- ThreeRequests
  ProductOf <- ProductsOfSizes
  Offered <- CashMarket
  MaxLine = 1
  InitStock <- Stock1
  InitPrice <- Price1
  InitCarts <- SameBaskets
  InitPromos <- EachCode
  InitCodes <- Cap1
  CartInputs <- RefillU1
  PromoInputs <- ApplyU1
  VariantInputs <- Restock
  CodeInputs <- Never
  DeskInputs <- AnyDesk
  CancelInputs <- U1Cancels
  None = None
  u1 = u1
  u2 = u2
  c1 = c1
  r1 = r1
  r2 = r2
  r3 = r3
  r4 = r4
SYMMETRY AnyRequest
INVARIANT TypeOK
INVARIANT NeverOversold
INVARIANT JarsAccountedFor
INVARIANT CancelStaysAllowed
INVARIANT DeliveredCashIsPaid
PROPERTY CapRespected
PROPERTY BehavesAtomically
\* Requests are served once, so a run ends when all of them have ended.
CHECK_DEADLOCK FALSE
