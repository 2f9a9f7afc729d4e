SPECIFICATION ReplySpec
CONSTANTS
  WbBuses <- MCBuses
  SioName = "sio"
  NoSlave = "none"
INVARIANTS
  AnswersTheOldest
  OneAnswerEach
  StrobesOwner
