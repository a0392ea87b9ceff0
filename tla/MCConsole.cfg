SPECIFICATION Spec
CONSTANTS
  VGA_WIDTH = 4
  VGA_HEIGHT = 2
  Colors = {1, 4, 10, 15}
  Glyphs = {" ", "c", "1", "n", ">", "!"}
  SPACE = " "
  NL = "NL"
  CR = "CR"
  TAB = "TAB"
  BS = "BS"
  SHELL_BUFFER_SIZE = 4
  MAX_ARGS = 2
  Typeable <- MCTypeable
  shell_prompt <- MCPrompt
  commands <- MCCommands
  ColorNumber <- MCColorNumber
  Figures <- MCFigures
  Spots <- MCSpots
  Files <- MCFiles
  GREEN = 10
  WHITE = 15
  RED = 4
INVARIANTS TypeOK EchoFaithful OutputEndsLine
PROPERTIES ImplementsTerminal
