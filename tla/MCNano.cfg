SPECIFICATION Spec
CONSTANTS
  NANO_MAX_LINES = 3
  NANO_LINE_LEN = 3
  Typed = {"a"}
  Chars = {"a", "b", "NL", "CR"}
  NL = "NL"
  VGA_WIDTH = 3
  VGA_HEIGHT = 5
  VISIBLE = 2
  SPACE = "SPACE"
  Title <- MCTitle
  Mark <- MCMark
  NameText <- MCNameText
  NameRoom = 1
  Status <- MCStatus
  Before <- MCBefore
  FS_MAX_FILES = 1
  FS_MAX_FILESIZE = 9
  Names = {"f"}
  TooLong = "too long"
  Stale <- MCStale
  Junk = "junk"
  Pointers = {"p"}
  NULL = "NULL"
INVARIANTS TypeOK LinesFit SavesLoad TextIsDrawn
PROPERTIES ImplementsTextBuffer
