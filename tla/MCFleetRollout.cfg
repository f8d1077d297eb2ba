SPECIFICATION Spec
CONSTANTS
  A = A
  B = B
  Nodes = {1, 2}
  Commits = {A, B}
  Initial = A
  Waves <- CanaryWave
  Stamped = {2}
  NackThreshold = 2
  Nothing = Nothing
  Triggers = {"hangup"}
  Admissible = {A, B}
  Renderable = {A, B}
  Analyzed = {B}
  Refusals <- SecondRefuses
  Overridable = {1}
  Losable = {2}
  LateTeardown = FALSE
  MaxEdits = 2
  MaxFaults = 1
  MaxQueue = 1
CONSTRAINT TwoChanges
INVARIANTS TypeOK VersionNamesRender HonestNodesAgree
PROPERTIES ImplementsWaves
CHECK_DEADLOCK FALSE
