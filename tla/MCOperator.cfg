CONSTANTS
  MaxGen = 2
  Replicas = {1, 2}
  MaxFaults = 2
  None = None
SPECIFICATION FairSpec
INVARIANTS TypeOK RepoBeforeRollout NodesStayAdmitted
PROPERTIES ClusterConverges
CHECK_DEADLOCK FALSE
