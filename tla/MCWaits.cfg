\* A TLS object stops for good when its last session has ended.  After a limit
\* that runs out at a bad moment a wait may get stuck; until then
\* EverythingMovesOn says that it does not.
SPECIFICATION WaitsSpec
CONSTANTS
  HsFlights = 1
  TellsHello = FALSE
  Listens <- CertificateOnly
  AppCalls = {"convert"}
  MaxSessions = 1
  MaxWrite = 1
  MaxApp = 1
  MaxRare = 0
  MaxChunk = 1
  MinEncoded <- Low
  TimeoutWhen = {"asleep", "running", "leaving"}
CHECK_DEADLOCK FALSE
INVARIANT WaitConsistent
INVARIANT HonestWait
PROPERTY EverythingMovesOn
