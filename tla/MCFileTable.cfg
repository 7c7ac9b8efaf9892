\* Files: two descriptors beside the standard ones.
SPECIFICATION Spec
CONSTANTS
  Header = 1
  ALT_MAX_FD = 5
  NullDev <- MCNull
  Console <- MCConsole
  Mount <- MCMount
  None = None
  Paths <- MCPaths
  Images <- MCImages
  Modes = {"O_RDONLY", "O_WRONLY", "O_RDWR"}
  Nonblock = {FALSE}
  MaxRead = 2
  Seeks <- MCSeeks
INVARIANT DescriptorsAreHeld
PROPERTIES LocksAreRespected FilesArePosix
