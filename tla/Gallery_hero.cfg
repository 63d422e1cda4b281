INIT GalleryInit
NEXT GalleryNext
CONSTANTS
  MaxPhotos = 2
  MaxIds = 3
  Slots = {s1, s2}
  Nothing = Nothing
  Idle = Idle
  Sent = Sent
INVARIANT GalleryHasHero
CHECK_DEADLOCK FALSE
