SPECIFICATION Spec
CONSTANTS
  Absent = Absent
  Later <- MCLater
  FormKeys <- MCFormKeys
  MaxWatchSyncBatchSize = 1000
  Rateable <- MCRateable
  Manifests <- MCManifests
  Authors <- MCAuthors
  SDKKnows <- MCSDKKnows
  Nodes <- MCNodes
  Knows <- MCKnows
INVARIANT
  RecordsComplete
