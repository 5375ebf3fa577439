\* One connection per case: the socket-side transforms and cuts on hellos
\* that do and do not parse, the emission shapers on both backends, decoys.
CONSTANTS
  Cases <- AllCases
  Modulus = 128
  Unit = 4
  MaxPacket = 40
  Fake <- FakeHello
  PadBody = 24
  ReadBody = 25
  First = 120
  MaxFaults = 2
SPECIFICATION FairSpec
INVARIANTS HelloInv StreamIntact
PROPERTIES AllArrives
