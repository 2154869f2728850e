SPECIFICATION Spec
CONSTANTS
  Address = 1
  Crc <- RealCrc
  Results <- TestResults
  Registers <- TestRegisters
  BufLen = 8
  FifoLen = 32
  Frames <- OneUnknown
  Noise <- NoNoise
  MaxFrames = 1
  MaxFaults = 0
  MaxRestarts = 0
  Endless = FALSE
INVARIANT UnhandledFunctionAnswered
CHECK_DEADLOCK FALSE
