SPECIFICATION FairSpec
CONSTANTS
  Requests = {r1}
  Contents = {a, b, bad, broken}
  Unparsable = {bad}
  Unloadable = {broken}
  PerEventOn = {a}
  FirstContent = a
  Missing = Missing
  Disabled = Disabled
  NoTrigger = NoTrigger
  MaxVersion = 5
INVARIANTS TypeOK CellHasModules ResidentSetsBounded
PROPERTIES ImplementsCell EditsAreServed
