CONSTANTS
  a = a  b = b  d = d  i = i
  Task <- MCTask
  Idle = i
  Dummy = Dummy  Isr = Isr  NoArg = NoArg  Forever = Forever
  WaitList = {m}
  Lowest = 3
  MaxDelay = 1
  MaxLock = 0
  SliceLen = 2
  BootReady <- MCBootReady
  BootPri <- MCBootPri
  UserPri = {}
  TaskOps = {"delay"}
  IsrOps = {}
  MaxNest = 1
  IsrPosts = FALSE
SPECIFICATION MuxSpec
INVARIANT HighestRuns
