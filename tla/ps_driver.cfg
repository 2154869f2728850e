SPECIFICATION Spec
CONSTANTS
  MaxIn = 2
  MaxOut = 3
  AvrgComponentCount = 3
  Scale = 2
INVARIANTS
  TypeOK
  WriteEnabledOnce
  OwnedAgrees
  ReportFresh
  LocalTracks
  WriteTakesEffect
  SetCurrentReported
PROPERTIES
  OnlyWhatWasAsked ClosedByWriteOrSync
