SPECIFICATION ConnSpec
CONSTANTS
  Keys = {k1}
  Entries = {t1, t2}
  Modulus = 8
  None = None
  NoEntry = NoEntry
  Segments <- ConnSegments
  Scenarios <- ReuseScenarios
INVARIANTS FlowStaysRegistered
PROPERTIES ImplementsHandler
