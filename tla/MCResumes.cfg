SPECIFICATION MigrationSpec
CONSTANTS
  p1 = p1  p2 = p2  z = z  x = x
  Path <- MCOnePath
  FdLimit = 7
  Byte <- MCByte
  ZeroByte = z
  ForeignByte = z
  Tty = Tty
  Device = Device
  ShortWrites = FALSE
  DiskFaults = FALSE
  MAX_OPEN_FILES = 1
  OffsetMod = 4
  MemSize = 2
  GuestByte <- MCGuestByte
  GuestFd <- MCNumbers
  CloseFd <- MCNumbers
  GuestOpenFlags <- MCOpenFlags
  VmmFds <- MCVmmFds
  LoaderFds <- MCLoaderFds
  IgnoredCall <- MCIgnoredCall
  OldContents <- MCOldContents
  MaxFileLen = 2
  NoImage = NoImage
  Torn = Torn
  MaxRestores = 1
PROPERTY
  ReplayResumesWrites
CHECK_DEADLOCK FALSE
