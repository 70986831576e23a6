CONSTANTS
  long = long  short = short
  Frame = {long, short}
  Size <- MCSize
  RingLen = 7
  BufLen = 2
  NoFrame = NoFrame  Garbled = Garbled
SPECIFICATION UartSpec
INVARIANT FramesIntact
