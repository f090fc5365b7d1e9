SPECIFICATION Spec
CONSTANTS
  p1 = p1  p2 = p2  z = z  x = x
  Path <- MCPath
  FdLimit = 6
  Byte <- MCByte
  ZeroByte = z
  Tty = Tty
  Device = Device
  ShortWrites = TRUE
  DiskFaults = FALSE
  MAX_OPEN_FILES = 2
  OffsetMod = 4
  MemSize = 1
  GuestByte <- MCGuestByte
  GuestFd <- MCGuestFd
  CloseFd <- MCCloseFd
  GuestOpenFlags <- MCOpenFlags
  VmmFds <- MCVmmFds
  LoaderFds <- MCLoaderFds
  IgnoredCall <- MCIgnoredCall
  OldContents <- MCOldContents
  MaxFileLen = 2
INVARIANTS
  TypeOK
  HandlerInv
  GuestReachesItsFile
  VmmDescriptorsPrivate
  OffsetResumes
PROPERTY
  ImplementsVirtualFiles
SYMMETRY PathSymmetry
CHECK_DEADLOCK FALSE
