SPECIFICATION FirmwareSpec
CONSTANTS
  Address = 1
  Crc <- RealCrc
  Results <- AnyResult
  Registers <- AnyRegisters
  BufLen = 8
  FifoLen = 32
  Frames <- Refused
  Noise <- NoNoise
  MaxFrames = 1
  MaxFaults = 0
  MaxRestarts = 0
  Endless = TRUE
  MaxIn = 1
  MaxOut = 1
  AvrgComponentCount = 2
  Scale = 1
  MaxEvents = 1
PROPERTY SupplyIsFollowed
