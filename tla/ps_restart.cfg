SPECIFICATION Spec
CONSTANTS
  MaxIn = 2
  MaxOut = 3
  AvrgComponentCount = 3
  Scale = 2
PROPERTIES
  NoUnexpectedSetChange
