CONSTANTS
  Thread = {t1, t2, t3}
  MaxUpdates = 4
SPECIFICATION FairSpec
INVARIANTS MutualExclusion HolderIsUpToDate
PROPERTY SomeoneGetsIn
