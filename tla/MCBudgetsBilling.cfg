SPECIFICATION Spec
CONSTANTS
  HourLength = 2
  AlertPercent = 100
  Requests = {r1, r2}
  CapIds = {1, 2}
  Configs <- LifetimeCaps
  Shares = {1}
  MaxCap = 2
  MaxChunk = 1
  MaxEst = 2
  Usages = {1}
  EarlyUsages = {}
  MaxUsage = 1
  Taps = {"stream", "json"}
  WasmCuts = FALSE
  MaxClock = 0
  Uncapped = Uncapped
  NoEntry = NoEntry
  NoUsage = NoUsage
SYMMETRY SlotSymmetry
CONSTRAINT NothingCut
INVARIANTS UncutStreamsBillExactly
