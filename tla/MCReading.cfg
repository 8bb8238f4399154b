\* Lists with up to two transactions between the pages; links with one insertion.
SPECIFICATION ReadingSpec
CONSTANTS
  Properties <- MCProperties
  Listings <- MCListings
  Contents <- MCContents
  NewRows <- MCNewRows
  MaxWrites = 2
  Types <- MCTypes
  Links <- MCLinks
  Traversals <- MCTraversals
  Tables <- MCTables
  Added <- MCAdded
  MaxInserts = 1
INVARIANTS QuietPagesListEverything HistoryMissesNothing LinksMeanTheirRows InverseLinksAgree LinkedObjectsArePermitted
CHECK_DEADLOCK FALSE
