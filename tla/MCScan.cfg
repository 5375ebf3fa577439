SPECIFICATION FairSpec
CONSTANTS
  Jobs <- MCJobs
  Ips <- MCIps
  Hosts <- MCHosts
  Answers <- MCAnswers
  Servers = 1
  Measured <- MCMeasured
  Methods <- MCMethods
  Samples = 1
  MinScore = 50
  TopN = 2
INVARIANTS ScanInv NothingLost
PROPERTIES ScansEnd
