SPECIFICATION Spec
CONSTANTS
  AvrgComponentCount = 2
  Scale = 1
  Readings <- SomeReadings
  Setpoints <- SomeSetpoints
  Amperes <- SomeAmperes
  MaxTyped = 1
INVARIANTS
  CurrentAsWritten
  ControlAsWritten
  UnusedStayZero
  ReportAsSent
PROPERTY
  ImplementsDriver
  FirmwareWritesOnly
