SPECIFICATION Spec
CONSTANTS
  Letter = {"a"}
  Symbol = {"1"}
  Special = {"Return"}
  Mod = {"Control", "RControl", "RAlt"}
  Modes = {"map", "legacy"}
  Desktop = TRUE
  MaxEvents = 5
INVARIANTS TypedInOrder ShortcutsArrive KeysReleased
CHECK_DEADLOCK FALSE
