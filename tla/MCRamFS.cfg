SPECIFICATION Spec
CONSTANTS
  FS_MAX_FILES = 2
  FS_MAX_FILESIZE = 2
  Names <- MCNames
  TooLong = "tool"
  NameLength <- MCNameLength
  Data <- MCData
  Junk = Junk
  p1 = p1
  p2 = p2
  Pointers <- MCPointers
  NULL = NULL
  BufferSize = 7
SYMMETRY Symmetry
INVARIANTS TypeOK NamesUnique FilesHoldData ListSafe
PROPERTIES ErrorsChangeNothing OnlyRmdirLoses ImplementsFileStore
