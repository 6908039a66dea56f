SPECIFICATION SystemSpec
CONSTANTS
  p1 = p1
  p2 = p2
  s1 = s1
  k1 = k1
  k2 = k2
  Providers = {p1, p2}
  StoreIds = {s1}
  Owner <- MCOwner
  Again = {p1}
  MaxContexts = 2
  MaxContent = 1
  MaxQueued = 2
  KeyStores = {k1, k2}
  AppKeyStores = {k1}
  Watches = {FALSE, TRUE}
  storeId = s1
  WithEntry = {1}
INVARIANT Consistent
PROPERTY IdsNotReused
INVARIANT KeyStoresFollow
INVARIANT WatcherFollows
PROPERTY WaitReturns
