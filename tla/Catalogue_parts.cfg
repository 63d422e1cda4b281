SPECIFICATION CatalogueSpec
SYMMETRY AnySlot
CONSTANTS
  None = None
  Nothing = Nothing
  Idle = Idle
  Sent = Sent
  Slots = {s1, s2}
  Markets <- BothMarkets
  Rates <- ShopRates
  Baskets <- ManyBaskets
  Codes <- MixedCodes
  LastDay = 3
  MaxOrders = 1
  MaxUses = 2
  PerPage = 1
  MaxHistory = 1
  MaxPhotos = 2
  MaxIds = 3
  MaxStock = 2
  MaxRows = 2
INVARIANT PricingTypeOK
INVARIANT DatabaseAccepts
INVARIANT ChilledBoxIsPaid
INVARIANT BarIsEnough
INVARIANT CountsKeepTheirWord
INVARIANT ShownInView
INVARIANT RefusedMeansOvertaken
INVARIANT GalleryFits
PROPERTY MoreGoodsCostMore
\* The back office and the photos have bounds on what they ever hold.
CHECK_DEADLOCK FALSE
