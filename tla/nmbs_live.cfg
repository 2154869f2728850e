SPECIFICATION Spec
CONSTANTS
  Address = 1
  Crc <- RealCrc
  Results <- TestResults
  Registers <- SomeRegisters
  BufLen = 12
  FifoLen = 4
  Frames <- LiveFrames
  Noise <- OneNoise
  MaxFrames = 2
  MaxFaults = 1
  MaxRestarts = 1
  Endless = TRUE
PROPERTIES AlwaysPollsAgain QuietRequestAnswered LedGoesOff
CHECK_DEADLOCK FALSE
