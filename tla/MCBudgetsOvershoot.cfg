SPECIFICATION Spec
CONSTANTS
  HourLength = 2
  AlertPercent = 100
  Requests = {r1, r2}
  CapIds = {1}
  Configs <- RetunedCaps
  Shares = {9}
  MaxCap = 2
  MaxChunk = 1
  MaxEst = 2
  Usages = {1}
  EarlyUsages = {}
  MaxUsage = 1
  Taps = {"stream"}
  WasmCuts = FALSE
  MaxClock = 1
  Uncapped = Uncapped
  NoEntry = NoEntry
  NoUsage = NoUsage
SYMMETRY SlotSymmetry
INVARIANTS TypeOK OvershootBounded
