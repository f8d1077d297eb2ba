SPECIFICATION CanarySpec
CONSTANTS
  CanaryNodes = {1}
  BaselineNodes = {2, 3}
  CanaryPolicy <- MCPolicy
  MinBaseline = 2
  MaxSamples = 1
  Reports <- MCReports
  NoTally = NoTally
  MaxEvents = 5
INVARIANTS CanaryTypeOK WindowIsTheWaves PeersNeverBreach
PROPERTIES SpendIsTheWindows
