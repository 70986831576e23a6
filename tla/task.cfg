CONSTANTS
  a = a  b = b  h = h  i = i
  Task <- MCTrio
  Idle = i
  Dummy = Dummy  Isr = Isr  NoArg = NoArg  Forever = Forever
  WaitList = {}
  Lowest = 2
  MaxDelay = 1
  MaxLock = 1
  SliceLen = 2
  BootReady <- MCTrioReady
  BootPri <- MCTrioPri
  UserPri = {0, 1}
  TaskOps = {"create", "resume", "suspend", "delete", "delay", "priset", "yield", "lock", "exit"}
  IsrOps = {"resume", "delete"}
SPECIFICATION Spec
INVARIANTS ReadyQueueExact NoTaskLost TimerExact NoNullUnlink RunnerIsReady HighestRuns DeadStackKept
PROPERTIES SwitchOnlyUnlocked UsesCalendar
