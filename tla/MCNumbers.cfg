SPECIFICATION MigrationSpec
CONSTANTS
  p1 = p1  p2 = p2  z = z  x = x
  Path <- MCPath
  FdLimit = 7
  Byte <- MCByte
  ZeroByte = z
  ForeignByte = z
  Tty = Tty
  Device = Device
  ShortWrites = FALSE
  DiskFaults = FALSE
  MAX_OPEN_FILES = 2
  OffsetMod = 4
  MemSize = 1
  GuestByte <- MCGuestByte
  GuestFd <- MCNumbers
  CloseFd <- MCNumbers
  GuestOpenFlags <- MCOpenFlags
  VmmFds <- MCVmmFds
  LoaderFds <- MCLoaderFds
  IgnoredCall <- MCIgnoredCall
  OldContents <- MCOldContents
  MaxFileLen = 2
  NoImage = NoImage
  Torn = Torn
  MaxRestores = 1
INVARIANT
  RunningGuestReachesItsFiles
CHECK_DEADLOCK FALSE
