CONSTANTS
  Timer = {t1, t2, t3}
  MaxInterval = 2
  QueueSize = 2
SPECIFICATION SwtmrSpec
SYMMETRY MCTimerSymmetry
INVARIANT OnOneList
PROPERTY KeepsContract
