SPECIFICATION Spec
CONSTANTS
  Address = 1
  Crc <- RealCrc
  Results <- TestResults
  Registers <- TestRegisters
  BufLen = 12
  FifoLen = 32
  Frames <- FlushFrames
  Noise <- SomeNoise
  MaxFrames = 2
  MaxFaults = 1
  MaxRestarts = 0
  Endless = FALSE
PROPERTY FlushLeavesNewcomers
CHECK_DEADLOCK FALSE
