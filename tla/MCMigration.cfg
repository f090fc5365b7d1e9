SPECIFICATION MigrationSpec
CONSTANTS
  p1 = p1  p2 = p2  z = z  x = x
  Path <- MCPath
  FdLimit = 7
  Byte <- MCByte
  ZeroByte = z
  ForeignByte = z
  Tty = Tty
  Device = Device
  ShortWrites = FALSE
  DiskFaults = TRUE
  MAX_OPEN_FILES = 2
  OffsetMod = 1
  MemSize = 0
  GuestByte <- MCGuestByte
  GuestFd <- MCGuestFd
  CloseFd <- MCCloseFd
  GuestOpenFlags <- MCExclusive
  VmmFds <- MCVmmFds
  LoaderFds <- MCLoaderFds
  IgnoredCall <- MCIgnoredCall
  OldContents <- MCEmptyFile
  MaxFileLen = 0
  NoImage = NoImage
  Torn = Torn
  MaxRestores = 2
INVARIANTS
  MigrationTypeOK
  VmmDescriptorsPrivate
  MigrationInv
PROPERTIES
  HeldFilesSurvive
SYMMETRY PathSymmetry
CHECK_DEADLOCK FALSE
