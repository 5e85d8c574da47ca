CONSTANTS
  LongMax = 3
  Interface = "newer"
  Faults = {"timeout", "late", "refuse", "reboot", "fatal", "others", "unreported"}
SPECIFICATION ServiceSpec
INVARIANTS AnswersAreTrue TrajectoryAsMeant
