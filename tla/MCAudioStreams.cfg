SPECIFICATION Spec
CONSTANTS
  Inputs = {in}
  Outputs = {out}
  Duplexes = {dx}
CONSTRAINT TwoInUse
INVARIANTS
  RefsMatchHolders
  InitializedWhileUsed
  QuietWhenStopped
  LegacyChannels
PROPERTY
  CallsReturn
