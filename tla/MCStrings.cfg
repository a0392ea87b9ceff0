SPECIFICATION Spec
CONSTANTS
  SIZE = 5
  Memories <- MCMemories
  WORD = 32
  MAX_ARGS = 2
INVARIANTS AsSpecified
PROPERTIES Returns
