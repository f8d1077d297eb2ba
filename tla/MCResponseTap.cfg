CONSTANTS
  None = None
  JsonCap = 3
  MaxInfos = 1
  Responses <- AllResponses
SPECIFICATION Spec
INVARIANTS TypeOK ChunkingInvisible OrderingContract UsageBilledOrLoud
