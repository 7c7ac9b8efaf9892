\* Whether a lock is exclusive.
SPECIFICATION Spec
CONSTANTS
  Header = 1
  ALT_MAX_FD = 5
  NullDev <- MCNull
  Console <- MCConsole
  Mount <- MCMount
  None = None
  Paths <- MCDevices
  Images <- MCNoImage
  Modes = {"O_RDWR"}
  Nonblock = {FALSE}
  MaxRead = 2
  Seeks <- MCSeeks
PROPERTY LockIsExclusive
