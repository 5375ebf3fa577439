SPECIFICATION FairSpec
CONSTANTS
  Keys = {k1}
  Entries = {t1}
  Modulus = 8
  None = None
  NoEntry = NoEntry
  Segments <- ConnSegments
  Scenarios <- MCScenarios
INVARIANTS ConnInv NoLostWakeup FakeBeforeHello EveryMemberActs
PROPERTIES SetupEnds
