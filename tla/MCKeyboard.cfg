SPECIFICATION KbdSpec
CONSTANTS
  Keys = {"lshift", "rshift", "lctl", "rctl", "lalt", "ralt", "caps", "a", "enter", "kpenter", "dot", "del", "pause", "scroll"}
  MaxHeld = 3
  HasMouse = TRUE
INVARIANTS
  ModifiersFollowKeys
  OneCharacterPerPress
  RebootOnCtrlAltDel
CHECK_DEADLOCK FALSE
