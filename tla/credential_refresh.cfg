CONSTANTS
  Callers = {r1, k1}
  Streams = {r1}
  Impatient = {r1}
  Flights = {c1, c2}
  Logins = {l1}
  NoFlight = NoFlight
  Nobody = Nobody
  Generations = 2
  RetryAttemptLimit = 2
SPECIFICATION FairRetrySpec
INVARIANTS OneExchange FileFollowsMemory FlightHasAudience
PROPERTIES TruthfulSuccess StoreSpec GrantedIsKept EveryStreamReturns
CHECK_DEADLOCK FALSE
