SPECIFICATION KbdSpec
CONSTANTS
  Keys = {"lctl", "rctl", "lalt", "ralt", "del"}
  MaxHeld = 4
  HasMouse = FALSE
INVARIANT
  RebootWheneverHeld
CHECK_DEADLOCK FALSE
