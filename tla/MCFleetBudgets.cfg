CONSTANTS
  n1 = n1
  n2 = n2
  s1 = s1
  s2 = s2
  v1 = v1
  v2 = v2
  Free = Free
  Nodes = {n1, n2}
  Secrets = {s1, s2}
  Values = {v1, v2}
  Ttl = 1
  FloorParts = 10
  Cap = 20
  Chunk = 10
  Windowed = FALSE
  MaxNow = 1
  MaxFaults = 1
SPECIFICATION MCSpec
INVARIANTS TypeOK SharesConserve CrossingsAlerted OneNodePerToken
PROPERTIES BoundNodesRejoin CrossingsReachFleet
CHECK_DEADLOCK FALSE
