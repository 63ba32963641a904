SPECIFICATION Spec
CONSTANTS
  Thread = {t1, t2, t3, t4}
INVARIANTS
  TypeOK
  Exclusion
  LevelIsExact
PROPERTIES
  NoOvertaking
  Refinement
  EveryoneEnters
