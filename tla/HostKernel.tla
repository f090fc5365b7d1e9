----------------------------- MODULE HostKernel -----------------------------
(***************************************************************************)
(* The part of the host's Linux kernel that the VMM stands on: the         *)
(* descriptor table of the VMM process and the regular files on disk.      *)
(* Nothing of it is in the repository.  It is modelled from how            *)
(* syscall_handler.c uses open, write and close (lines 53, 79, 100, 306    *)
(* and 309).                                                               *)
(*                                                                         *)
(* A call is an action with its result as last parameter: KOpen(p, fl, r)  *)
(* is a step of the kernel in which open(p, fl) returns r.                 *)
(***************************************************************************)
EXTENDS FileContents

CONSTANTS Path,       \* names of regular files
          FdLimit,    \* RLIMIT_NOFILE: descriptors are 0 .. FdLimit-1
          Tty,        \* the terminal behind stdin, stdout and stderr
          Device,     \* what the VMM opens for itself (/dev/kvm, the VM, ...)
          ShortWrites, \* whether a write to a file may take a part only
          DiskFaults  \* whether a write to a file may fail

ASSUME KernelAssumption ==
  /\ FdLimit \in Nat
  /\ Tty # Device /\ Tty \notin Path /\ Device \notin Path
  /\ ShortWrites \in BOOLEAN /\ DiskFaults \in BOOLEAN

VARIABLES fds,   \* open descriptors of the VMM process
          disk   \* contents of every file that exists

Fd == 0..(FdLimit - 1)

OpenFile == [node : Path \cup {Tty, Device}, pos : Nat, flags : SUBSET Flag]

KernelTypeOK ==
  /\ DOMAIN fds \subseteq Fd
  /\ fds \in [DOMAIN fds -> OpenFile]
  /\ DOMAIN disk \subseteq Path
  /\ disk \in [DOMAIN disk -> Seq(Byte)]
  /\ \A h \in DOMAIN fds : fds[h].node \in Path => fds[h].node \in DOMAIN disk

(* POSIX: open returns the lowest number that is free.                     *)
IsLowestFree(f) ==
  /\ f \in Fd \ DOMAIN fds
  /\ \A g \in Fd \ DOMAIN fds : f <= g

MayOpen(p, fl) ==
  /\ Fd \ DOMAIN fds # {}
  /\ IF p \in DOMAIN disk THEN ~ ({"CREAT", "EXCL"} \subseteq fl)
                          ELSE "CREAT" \in fl

KOpen(p, fl, r) ==
  \/ /\ ~ MayOpen(p, fl)
     /\ r = -1
     /\ UNCHANGED <<fds, disk>>
  \/ /\ MayOpen(p, fl)
     /\ IsLowestFree(r)
     /\ fds' = [f \in DOMAIN fds \cup {r} |->
                  IF f = r THEN [node |-> p, pos |-> 0, flags |-> fl]
                           ELSE fds[f]]
     /\ disk' = [q \in DOMAIN disk \cup {p} |->
                  IF q = p /\ (p \notin DOMAIN disk \/ "TRUNC" \in fl)
                    THEN <<>> ELSE disk[q]]

(* Where the next write through descriptor h lands.                        *)
WritePos(h) == IF "APPEND" \in fds[h].flags THEN Len(disk[fds[h].node])
                                            ELSE fds[h].pos

KWriteFile(h, data, r) ==
  /\ h \in DOMAIN fds
  /\ fds[h].node \in Path
  /\ "RDONLY" \notin fds[h].flags
  /\ r \in 0..Len(data)
  /\ ShortWrites \/ r = Len(data)
  /\ disk' = [disk EXCEPT ![fds[h].node] =
                WriteAt(@, WritePos(h), SubSeq(data, 1, r))]
  /\ fds' = [fds EXCEPT ![h].pos = WritePos(h) + r]

KWriteTty(h, data, r) ==
  /\ h \in DOMAIN fds
  /\ fds[h].node = Tty
  /\ r = Len(data)
  /\ UNCHANGED <<fds, disk>>

(* EBADF, EINVAL on a device, or a fault of the disk.                      *)
KWriteFails(h, r) ==
  /\ h \in DOMAIN fds =>
       \/ fds[h].node = Device
       \/ fds[h].node \in Path /\ ("RDONLY" \in fds[h].flags \/ DiskFaults)
  /\ r = -1
  /\ UNCHANGED <<fds, disk>>

KWrite(h, data, r) ==
  KWriteFile(h, data, r) \/ KWriteTty(h, data, r) \/ KWriteFails(h, r)

KClose(h, r) ==
  \/ /\ h \in DOMAIN fds
     /\ r = 0
     /\ fds' = [f \in DOMAIN fds \ {h} |-> fds[f]]
     /\ UNCHANGED disk
  \/ /\ h \notin DOMAIN fds
     /\ r = -1
     /\ UNCHANGED <<fds, disk>>
=============================================================================
