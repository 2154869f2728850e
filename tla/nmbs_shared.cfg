SPECIFICATION Spec
CONSTANTS
  Address = 1
  Crc <- RealCrc
  Results <- TestResults
  Registers <- TestRegisters
  BufLen = 12
  FifoLen = 32
  Frames <- SharedFrames
  Noise <- NoNoise
  MaxFrames = 4
  MaxFaults = 0
  MaxRestarts = 0
  Endless = FALSE
INVARIANTS TypeOK ServedForUs AllAnswered
CHECK_DEADLOCK FALSE
