CONSTANTS
  a = a  b = b  i = i
  Task <- MCTask
  Idle = i
  Dummy = Dummy  Isr = Isr  NoArg = NoArg  Forever = Forever
  WaitList = {s}
  Lowest = 2
  MaxDelay = 1
  MaxLock = 0
  SliceLen = 1
  BootReady <- MCBootReady
  BootPri <- MCBootPri
  UserPri = {0}
  TaskOps = {"create", "suspend", "delete"}
  IsrOps = {"resume", "delete"}
  CountingMax = 2
  BinaryMax = 1
  SemDeletes = TRUE
SPECIFICATION SemFairSpec
INVARIANTS CountOrWaiters WaitersOnUsed
PROPERTIES KeepsContract TimedWaitEnds
