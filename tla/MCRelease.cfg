SPECIFICATION Spec
CONSTANTS
  A = A
  B = B
  C = C
  D = D
  E = E
  None = None
  Base = Base
  Factor = 4
  Approval = "override-approved"
  Provider <- MCProvider
  Commits = {A, B, C, D, E}
  Repos <- MCRepos
  Fleets <- MCFleets
INVARIANTS CacheAgrees SentValidates CoveredNodesObeyRules
