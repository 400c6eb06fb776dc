SPECIFICATION Spec
CONSTANTS
  LastId = 2
  Tags = {tag1}
  Albums = {album1}
  taken = taken
  corrected = corrected
  Contents <- OneContent
  Infos <- TwoInfos
  SnapshotLimit = 1
  SyncLimit = 1
  Favorites = {FALSE}
  Missing = Missing
  Unread = Unread
  MaxSequence = 4
  Restatable = {1}
SYMMETRY Symmetry
INVARIANTS LibraryTypeOK CacheIsLibrary AlbumPagesCurrent
CHECK_DEADLOCK FALSE
