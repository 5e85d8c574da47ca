CONSTANTS
  LongMax = 3
  Interface = "old"
  Faults = {"unreported"}
SPECIFICATION ServiceSpec
INVARIANT MissingStateUnderstood
