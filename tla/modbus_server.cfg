SPECIFICATION FirmwareSpec
CONSTANTS
  Address = 1
  Crc <- RealCrc
  Results <- AnyResult
  Registers <- AnyRegisters
  BufLen = 8
  FifoLen = 32
  Frames <- ServerFrames
  Noise <- NoNoise
  MaxFrames = 2
  MaxFaults = 0
  MaxRestarts = 1
  Endless = FALSE
  MaxIn = 1
  MaxOut = 1
  AvrgComponentCount = 2
  Scale = 1
  MaxEvents = 1
INVARIANTS OneThread AcceptedWasSent
PROPERTIES ReadTellsTruth AcknowledgedIsDone OnlyWritesChange PollsEnd
