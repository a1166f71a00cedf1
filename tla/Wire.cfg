SPECIFICATION Spec
CONSTANTS
  MaxSafeInteger = 3
  MaxEdits = 1
INVARIANTS RoundTrip KeysArrive
CHECK_DEADLOCK FALSE
