SPECIFICATION Spec
CONSTANTS
  Configs <- All
  Width = 2
INVARIANTS TypeOK EveryTargetAnswers WithinWaves
