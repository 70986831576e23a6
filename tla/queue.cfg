CONSTANTS
  a = a  b = b  i = i
  Task <- MCTask
  Idle = i
  Dummy = Dummy  Isr = Isr  NoArg = NoArg  Forever = Forever
  WaitList <- MCWaitList
  Lowest = 2
  MaxDelay = 1
  MaxLock = 0
  SliceLen = 1
  BootReady <- MCBootReady
  BootPri <- MCBootPri
  UserPri = {}
  TaskOps = {}
  IsrOps = {}
  Queue = {q}
  MaxLen = 2
  Lengths = {1, 2}
  Msg = {m1, m2}
  Block = {blk}
SPECIFICATION QueueSpec
SYMMETRY MCMsgSymmetry
INVARIANTS NoIdleSleeper ReturnsToLiveQueue MailConserved
PROPERTY KeepsContract
