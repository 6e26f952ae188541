SPECIFICATION Spec
CONSTANTS
  CONSBUFSIZE = 3
  Chars = {13, 233}
  SerialBytes = {0, 13}
  Keys = {"del"}
  MaxHeld = 1
  HasMouse = TRUE
PROPERTIES
  ImplementsInputQueue
  GetcReturns
  InputConsumed
CHECK_DEADLOCK FALSE
