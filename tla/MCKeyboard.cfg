SPECIFICATION Spec
CONSTANTS
  KEYBOARD_BUFFER_SIZE = 3
  max_length = 3
  Keys <- MCKeys
INVARIANTS TypeOK TakenStays LineFits NoStuckModifier
PROPERTIES WaitingEnds ImplementsKeyQueue
