---------------------- MODULE SyscallHandlerRefinement ----------------------
(* A launched VMM implements VirtualFiles.                                 *)
EXTENDS SyscallHandler

(* The descriptors the guest can reach, by the numbers it reaches them by. *)
VisibleFds ==
  [g \in {g \in Fd : get_host_fd_from_guest_fd(g) \in DOMAIN fds} |->
     fds[get_host_fd_from_guest_fd(g)]]

Promise == INSTANCE VirtualFiles WITH
  Number    <- Fd,
  OpenFlags <- GuestOpenFlags,
  WriteFd   <- GuestFd,
  Buffers   <- UNION {[1..n -> Byte] : n \in 0..MemSize},
  DummyCall <- IgnoredCall,
  open      <- VisibleFds,
  files     <- disk,
  answer    <- rax,
  alive     <- (vmm = "running")

(* Every call a launched VMM serves is answered, and changes descriptors   *)
(* and files, as a process of the host's own would see it (an open may be  *)
(* refused for want of a table slot, which a process would not know).      *)
ImplementsVirtualFiles == Promise!Spec
=============================================================================
