CONSTANTS
  Image = {v, w}
  Old = Old  Broken = Broken
  Blocks = 3
  MaxRestarts = 1
  NoFlag = NoFlag
  MaxCrash = 2
  MaxFails = 1
SPECIFICATION OtaFairSpec
INVARIANTS ResumeSound SuccessIsWhole
PROPERTIES KeepsFlag UpdateEnds
