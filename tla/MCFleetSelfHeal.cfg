SPECIFICATION FairSpec
CONSTANTS
  A = A
  B = B
  Nodes = {1, 2}
  Commits = {A, B}
  Initial = A
  Waves <- CanaryWave
  Stamped = {2}
  NackThreshold = 2
  Nothing = Nothing
  Triggers = {"poll"}
  Admissible = {A, B}
  Renderable = {A, B}
  Analyzed = {}
  Refusals = {}
  Overridable = {}
  Losable = {2}
  LateTeardown = FALSE
  MaxEdits = 1
  MaxFaults = 1
  MaxQueue = 1
PROPERTIES Converges
CHECK_DEADLOCK FALSE
