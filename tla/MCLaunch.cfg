SPECIFICATION Spec
CONSTANTS
  MaxPermits = 1000
  MaxTtl = 4
  LowTtlValue = 2
  Paths <- MCPaths
  MaxFaults = 1
  Cases <- MCCases
  MaxReloads = 2
  ConnEvents <- MCConnEvents
INVARIANTS LaunchInv RunsValidated StreamTold FoundTtlWorks
