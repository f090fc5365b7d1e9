SPECIFICATION FairVmSpec
CONSTANTS
  f = f  z = z  a = a  b = b
  Path <- MCPath
  FdLimit = 10
  Byte <- MCByte
  ZeroByte = z
  ForeignByte = z
  Tty = Tty
  Device = Device
  ShortWrites = FALSE
  DiskFaults = FALSE
  MAX_OPEN_FILES = 2
  OffsetMod = 16
  MemSize = 10
  GuestByte <- MCByte
  GuestFd <- MCGuestFd
  CloseFd <- MCCloseFd
  GuestOpenFlags <- MCOpenFlags
  VmmFds <- MCVmmFds
  LoaderFds <- MCLoaderFds
  IgnoredCall <- MCIgnoredCall
  OldContents <- MCOldContents
  MaxFileLen = 11
  NoImage = NoImage
  Torn = Torn
  MaxRestores = 2
  AppFile = f
  Hello <- MCHello
  Bye <- MCBye
  MaxLaunches = 2
INVARIANTS
  MachineTypeOK
  NoTripleFault
  MachineInv
  AppFileRight
  AppInv
PROPERTIES
  OutputComplete
  EveryVmmEnds
CHECK_DEADLOCK FALSE
