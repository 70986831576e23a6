CONSTANTS
  ok = ok  csq = csq   urc = urc  p = p  q = q
  Frame = {ok, csq, urc}
  Size <- MCSize
  RingLen = 9
  BufLen = 2
  NoFrame = NoFrame  Garbled = Garbled
  Caller = {p, q}
  Answers <- MCAnswers
  RespLen = 1
  NoTask = NoTask  Receiver = Receiver
SPECIFICATION AtFairSpec
INVARIANTS SyncCountsFrames OneCommand AnswerIsMatched
PROPERTIES KeepsFrames NoLateWrite CallReturns
