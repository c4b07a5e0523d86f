SPECIFICATION Spec
CONSTANTS
  Calls = {c1, c2}
  Turns = {t1}
  MaxCloses = 1
  MaxFaults = 0
  MaxCrashes = 0
PROPERTIES
  EscalatedNeedsWriteback
CHECK_DEADLOCK FALSE
