SPECIFICATION Spec
CONSTANTS
  Keys = {k1}
  Entries = {e1}
  Modulus = 3
  None = None
  NoEntry = NoEntry
  Segments <- MCSegments
INVARIANTS HandlerInv NoPanic
PROPERTIES OutcomeFinal DecisionWakes
