SPECIFICATION FairChannelSpec
CONSTANTS
  v1 = v1  v2 = v2
  Vm <- MCVm
  NoVm = NoVm
  FieldSize <- MCFieldSize
  SocketBuffer = 3
  Backlog = 1
  MaxStarts = 2
INVARIANTS
  ChannelTypeOK
  ChannelInv
PROPERTIES
  ImplementsHandoff
  ExitedClientDelivers
  TransferEnds
CHECK_DEADLOCK FALSE
