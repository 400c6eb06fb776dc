SPECIFICATION Spec
CONSTANTS
  Contents <- ThreeContents
  Size <- Sizes
  PreviewSize <- SmallOrLarge
  Images <- AllButEmpty
  Previews = {p1, p2}
  Permits = 2
  CacheLimit = 2
  MaxNumber = 4
  None = None
INVARIANTS DeliveryTypeOK RangesExact NeverMixed PreviewsRight CacheBounded
SYMMETRY PreviewSymmetry
CHECK_DEADLOCK FALSE
