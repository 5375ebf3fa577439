SPECIFICATION FairSpec
CONSTANTS
  wifi = wifi
  modem = modem
  tun = tun
  home = home
  office = office
  cell = cell
  vpn = vpn
  auto = auto
  None = None
  Adapters <- MCAdapters
  Index <- MCIndex
  Class <- MCClass
  IfMetric <- MCIfMetric
  Usable = {home, office, cell, vpn}
  Unusable = {auto}
  Conditions <- MCConditions
  Notified = {"Address", "Route"}
  OnPlatforms = {"windows", "linux", "android"}
  Settle = 2
  PollInterval = 3
  Capacity = 1
  Backlog = 1
  MaxChanges = 2
  MaxFaults = 1
INVARIANTS MonitorInv
PROPERTIES ProbesSettled ReportsChanges MonitorLives
