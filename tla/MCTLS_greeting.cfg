SPECIFICATION TlsLiveSpec
CONSTANTS
  HsFlights = 1
  TellsHello = FALSE
  Listens <- NoSteps
  AppCalls = {}
  MaxSessions = 1
  MaxWrite = 0
  MaxApp = 1
  MaxRare = 0
  MaxChunk = 2
  MinEncoded <- Low
\* A TLS object stops for good when its last session has ended.
CHECK_DEADLOCK FALSE
PROPERTY DataDelivered
