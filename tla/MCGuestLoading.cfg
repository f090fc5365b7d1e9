SPECIFICATION LoadingSpec
CONSTANTS
  EntriesPerPage = 4
  MemPages = 15
  NB_PAGE = 32
  STACK_ADDRESS = 56
  STACK_SIZE = 12
  FileStart <- MCFileStart
  FileEnd <- MCFileEnd
  SectionSize <- MCSectionSize
  SectionType <- MCSectionType
INVARIANTS
  LoadingTypeOK
  IdentityMapped
  TablesPrivate
  SectionsInPlace
  LoadingInv
CHECK_DEADLOCK FALSE
