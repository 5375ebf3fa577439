SPECIFICATION FairSpec
CONSTANTS
  Bindings = {a, b}
  Taps = {t1, t2}
  None = None
  Capacity = 1
  MaxChanges = 2
  MaxFaults = 2
  MaxGenerations = 1
PROPERTIES
  OnlineIsIntercepting
