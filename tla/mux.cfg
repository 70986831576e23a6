CONSTANTS
  a = a  b = b  d = d  i = i
  Task <- MCTask
  Idle = i
  Dummy = Dummy  Isr = Isr  NoArg = NoArg  Forever = Forever
  WaitList = {m}
  Lowest = 3
  MaxDelay = 2
  MaxLock = 0
  SliceLen = 1
  BootReady <- MCBootReady
  BootPri <- MCBootPri
  UserPri = {}
  TaskOps = {"suspend", "delay"}
  IsrOps = {"resume"}
  MaxNest = 2
  IsrPosts = FALSE
SPECIFICATION MuxSpec
INVARIANTS ReadyQueueExact GrantedIsOwner WaitersHaveOwner BorrowedReturned
