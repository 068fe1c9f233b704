SPECIFICATION FairFeed
CONSTANTS
  Writers <- TwoWriters
  Stores = {TRUE, FALSE}
  FetchLimit = 2
  MaxRecords = 5
  MaxConnects = 2
INVARIANTS
  ShownInOrder
PROPERTIES
  FeedIsComplete
CHECK_DEADLOCK FALSE
