SPECIFICATION Spec
CONSTANTS
  Config <- Raising
  Values = {0, 1, 2}
  Null = Null
  MaxStep = 2
  MaxClock = 4
INVARIANTS TypeOK ToldIsState FiresWhenHeld Inductive
PROPERTY FiresOnlyIfHeld
CHECK_DEADLOCK FALSE
