CONSTANTS
  a = a  b = b  i = i
  Task <- MCTask
  Idle = i
  Dummy = Dummy  Isr = Isr  NoArg = NoArg  Forever = Forever
  WaitList = {s}
  Lowest = 2
  MaxDelay = 1
  MaxLock = 0
  SliceLen = 2
  BootReady <- MCBootReady
  BootPri <- MCBootPri
  UserPri = {}
  TaskOps = {"delete"}
  IsrOps = {}
  CountingMax = 2
  BinaryMax = 1
  SemDeletes = TRUE
SPECIFICATION SemSpec
INVARIANT NoNullUnlink
