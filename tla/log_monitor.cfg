\* A file or an event log, two disturbances of every kind at any step, a result
\* capped at two lines, a pattern that is no string.
SPECIFICATION FairSpec
CONSTANTS
  i1 = i1
  i2 = i2
  i3 = i3
  Inodes = {i1, i2, i3}
  Null = Null
  Types = {"file", "eventlog"}
  Disturbances = {"rotate", "reuse", "truncate", "remove", "wrap", "clear"}
  BadPattern = TRUE
  MatchCap = 2
  MaxLines = 3
  MaxDisturbed = 2
INVARIANTS TypeOK OnceUnlessRaced NothingSkipped
PROPERTIES Tailed
CHECK_DEADLOCK FALSE
