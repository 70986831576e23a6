CONSTANTS
  a = a  b = b  i = i
  Task <- MCTask
  Idle = i
  Dummy = Dummy  Isr = Isr  NoArg = NoArg  Forever = Forever
  WaitList = {e}
  Lowest = 1
  MaxDelay = 1
  MaxLock = 0
  SliceLen = 2
  BootReady <- MCBootReady
  BootPri <- MCBootPri
  UserPri = {}
  TaskOps = {"delay"}
  IsrOps = {}
  Bit = {x, y}
  Demand <- MCDemand
  NoDemand = NoDemand
  Writes <- MCWrites
  Timeouts <- MCTimeouts
SPECIFICATION EventFairSpec
INVARIANT NoSleepingWinner
PROPERTIES KeepsContract DelayEnds TopGetsProcessor RoundRobin
