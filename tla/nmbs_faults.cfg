SPECIFICATION Spec
CONSTANTS
  Address = 1
  Crc <- RealCrc
  Results <- TestResults
  Registers <- TestRegisters
  BufLen = 12
  FifoLen = 4
  Frames <- TestFrames
  Noise <- OneNoise
  MaxFrames = 2
  MaxFaults = 1
  MaxRestarts = 1
  Endless = FALSE
INVARIANTS RanWereSent RepliesAnswerRequests RepliesRepeatRequests RepliesFollowRuns AnsweredAsTested
PROPERTY RequestKept
CHECK_DEADLOCK FALSE
