\* A SASL object stops for good when its last session has ended, and so do the
\* others when nothing more happens to them.
SPECIFICATION PluginsSpec
CONSTANTS
  AppCalls = {"restart"}
  Interactive = {"user"}
  ServerStarts = {"ok", "error"}
  MaxSessions = 2
  MaxSteps = 2
  MaxWrite = 1
  MaxPeer = 1
  MaxFailures = 1
  MinEncoded <- Low
  k1 = k1
  k2 = k2
  Tokens = {k1, k2}
  u1 = u1
  u2 = u2
  Users = {u1, u2}
  KeyTokens = {k1}
  Nobody = nobody
  Overlap = FALSE
  MaxId = 2
  MaxChanges = 2
  MaxOps = 2
  MaxAccepted = 1
  MaxBroken = 1
  Parallel = FALSE
  MaxConfig = 3
CHECK_DEADLOCK FALSE
INVARIANT SaslConsistent
PROPERTY ImplementsAuth
INVARIANT TokensConsistent
PROPERTY ListsFollow
PROPERTY EveryOperationEnds
