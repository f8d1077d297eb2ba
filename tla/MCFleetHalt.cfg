SPECIFICATION Spec
CONSTANTS
  A = A
  B = B
  Nodes = {1, 2}
  Commits = {A, B}
  Initial = A
  Waves <- CanaryWave
  Stamped = {2}
  NackThreshold = 2
  Nothing = Nothing
  Triggers = {"poll"}
  Admissible = {A, B}
  Renderable = {A, B}
  Analyzed = {}
  Refusals <- FirstRefuses
  Overridable = {}
  Losable = {}
  LateTeardown = FALSE
  MaxEdits = 1
  MaxFaults = 0
  MaxQueue = 1
PROPERTIES HaltHoldsLaterWaves
CHECK_DEADLOCK FALSE
