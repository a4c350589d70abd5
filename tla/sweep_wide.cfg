\* sweep_wide: half as many slots as a word counts, the pool create() still accepts.
SPECIFICATION SweepSpec
CONSTANTS
  NumSlots = 4
  StepMod = 8
CHECK_DEADLOCK FALSE
INVARIANT ExhaustedMeansNoVictim
