SPECIFICATION FairSpec
CONSTANTS
  MaxMisses = 2
  MaxRounds = 2
  MaxGrabs = 2
INVARIANTS WholeAndFresh ScanningIsServed CleanEnd
PROPERTIES PortExclusive CallsReturn ScansComeBack ImplementsFeed
