--------------------------- MODULE SyscallHandler ---------------------------
(***************************************************************************)
(* The system calls of a guest, as src/lab_3/syscall_manager/              *)
(* syscall_handler.c serves them.  The guest application halts the vCPU,   *)
(* KVM_RUN returns, and the VMM performs the call on the host with the     *)
(* guest's memory as buffer.  The VMM keeps a table, open_files, of what   *)
(* the guest has opened: descriptors are translated through it, and SAVE   *)
(* copies it into the VM image.                                            *)
(*                                                                         *)
(* This module is one launched VMM (save.c, VMM_client.c) without SAVE;    *)
(* ColdMigration adds SAVE, the image and the restored VMM.                *)
(***************************************************************************)
EXTENDS HostKernel

CONSTANTS
  MAX_OPEN_FILES,  \* size of the table
  OffsetMod,       \* guest_file.offset is a uint64_t: 2^64
  MemSize,         \* the guest's memory is the addresses 0 .. MemSize-1
  GuestByte,       \* what the guest stores in its memory
  GuestFd,         \* descriptor numbers a guest passes to write
  CloseFd,         \* descriptor numbers a guest passes to close
  GuestOpenFlags,  \* flags a guest passes to open
  VmmFds,          \* descriptors of /dev/kvm, the VM and the vCPU
  LoaderFds,       \* the two ELF files that load_file leaves open
  IgnoredCall,     \* calls of the guest that the VMM serves by doing nothing
  OldContents,     \* what files that exist before the launch hold
  MaxFileLen       \* bound of the model: no write reaches past this length

StdFd == 0..2

ASSUME HandlerAssumption ==
  /\ MAX_OPEN_FILES \in Nat
  /\ MemSize \in Nat /\ MaxFileLen \in Nat
  /\ OffsetMod \in Nat /\ OffsetMod > MaxFileLen
  /\ GuestByte \subseteq Byte
  /\ IgnoredCall \subseteq {158, 218, 231}  \* arch_prctl, set_tid_address,
                                             \* exit_group
  /\ OldContents \subseteq Seq(Byte)
  /\ GuestFd \subseteq Int
  /\ CloseFd \subseteq GuestFd
  /\ 1 \notin CloseFd           \* the VMM's own log is written to stdout
  /\ GuestOpenFlags \subseteq SUBSET Flag
  /\ StdFd \cup VmmFds \cup LoaderFds \subseteq Fd
  /\ StdFd \cap (VmmFds \cup LoaderFds) = {}

VARIABLES open_files,  \* the table; n_open_files is its length
          rax,         \* the answer in the guest's RAX, an integer
          mem,         \* guest memory, identity mapped (memory.c)
          held,        \* what the guest knows: number -> path it opened
          vmm          \* where the VMM process is

kernelVars == <<fds, disk>>
vars == <<fds, disk, open_files, rax, mem, held, vmm>>

Addr      == 0..(MemSize - 1)
GuestFile == [guest_fd : Fd \cup {-1}, host_fd : Fd \cup {-1},
              flags : SUBSET Flag, start_addr : Nat,
              offset : 0..(OffsetMod - 1), path : Path]

-----------------------------------------------------------------------------
(* The loops over the table stop at the first entry with a given guest_fd. *)
SlotsButLast(g) ==  \* a slip: the loop stops one entry early
  {i \in 1..(Len(open_files) - 1) : open_files[i].guest_fd = g}

Slots(g)     == {i \in 1..Len(open_files) : open_files[i].guest_fd = g}
FirstSlot(g) == CHOOSE i \in Slots(g) : \A j \in Slots(g) : i <= j

UnknownNumberIsHosts(g) ==  \* a slip: a number not found is passed on
  IF Slots(g) # {} THEN open_files[FirstSlot(g)].host_fd ELSE g

get_host_fd_from_guest_fd(g) ==
  IF g \in StdFd THEN g
  ELSE IF Slots(g) # {} THEN open_files[FirstSlot(g)].host_fd
  ELSE -1

(* A new process holds its terminal and what creating the VM opened.       *)
ProcessFds(devices) ==
  [f \in StdFd \cup devices |->
     [node |-> IF f \in StdFd THEN Tty ELSE Device, pos |-> 0, flags |-> {}]]

NoDescriptors == [f \in {} |-> f]

Launched ==
  /\ fds = ProcessFds(VmmFds \cup LoaderFds)
  /\ open_files = <<>>
  /\ rax = 0
  /\ mem \in [Addr -> {ZeroByte}]
  /\ held = NoDescriptors
  /\ vmm = "running"

Init ==
  /\ Launched
  /\ \E existing \in SUBSET Path : disk \in [existing -> OldContents]

-----------------------------------------------------------------------------
(* The guest computes: a cell of its memory changes.                       *)
GuestStore(a, b) ==
  /\ vmm = "running"
  /\ mem' = [mem EXCEPT ![a] = b]
  /\ UNCHANGED <<fds, disk, open_files, rax, held, vmm>>

(* The bytes of guest memory that write(_, a, n) passes to the host.       *)
Buffer(a, n) == [k \in 1..n |-> mem[a + k - 1]]

(* After a write that answered r the table is searched for the HOST        *)
(* descriptor h.  regs.rax is unsigned, so a failed write comes here too   *)
(* and adds 2^64 - 1.                                                      *)
NoteLastWriteOnly(h, a, r) ==  \* a slip: the offset is set, not advanced
  IF Slots(h) = {} THEN UNCHANGED open_files
  ELSE open_files' = [open_files EXCEPT ![FirstSlot(h)].start_addr = a,
                                        ![FirstSlot(h)].offset = r % OffsetMod]

NoteWrite(h, a, r) ==
  IF Slots(h) = {} THEN UNCHANGED open_files
  ELSE LET e == open_files[FirstSlot(h)] IN
       open_files' =
         [open_files EXCEPT ![FirstSlot(h)] =
            [e EXCEPT !.start_addr = IF e.offset = 0 THEN a ELSE e.start_addr,
                      !.offset = (e.offset + r) % OffsetMod]]

SysWrite(g, a, n) ==
  LET h == get_host_fd_from_guest_fd(g) IN
  /\ vmm = "running"
  /\ a + n <= MemSize
  /\ h \in DOMAIN fds /\ fds[h].node \in Path => WritePos(h) + n <= MaxFileLen
  /\ \/ /\ h < 0
        /\ rax' = -1
        /\ UNCHANGED <<fds, disk, open_files>>
     \/ /\ h >= 0
        /\ \E r \in -1..n :
             /\ KWrite(h, Buffer(a, n), r)
             /\ NoteWrite(h, a, r)
             /\ rax' = r
  /\ UNCHANGED <<mem, held, vmm>>

TableHasRoomForOneMore ==  \* a slip: > for >= in the test of a full table
  Len(open_files) <= MAX_OPEN_FILES

TableHasRoom == Len(open_files) < MAX_OPEN_FILES

(* regs.rax >= 0 holds for every unsigned answer: an open that failed is   *)
(* entered in the table as well, with -1 for both descriptors.             *)
SysOpen(p, fl) ==
  /\ vmm = "running"
  /\ \/ /\ ~ TableHasRoom
        /\ rax' = -1
        /\ UNCHANGED <<fds, disk, open_files, held>>
     \/ /\ TableHasRoom
        /\ \E r \in Fd \cup {-1} :
             /\ KOpen(p, fl, r)
             /\ open_files' = Append(open_files,
                  [guest_fd |-> r, host_fd |-> r, flags |-> fl,
                   start_addr |-> 0, offset |-> 0, path |-> p])
             /\ held' = IF r = -1 THEN held
                        ELSE [f \in DOMAIN held \cup {r} |->
                                IF f = r THEN p ELSE held[f]]
             /\ rax' = r
  /\ UNCHANGED <<mem, vmm>>

(* Entry i is overwritten by the last one, which is then dropped.          *)
SwapWithNext(s, i) ==  \* a slip: the swap takes the entry one too early
  [j \in 1..(Len(s) - 1) |-> IF j = i /\ i > 1 THEN s[Len(s) - 1] ELSE s[j]]

SwapRemove(s, i) ==
  [j \in 1..(Len(s) - 1) |-> IF j = i THEN s[Len(s)] ELSE s[j]]

(* The entry that a successful close removes is again searched by the HOST *)
(* descriptor.                                                             *)
SysClose(g) ==
  LET h == get_host_fd_from_guest_fd(g) IN
  /\ vmm = "running"
  /\ \/ /\ h < 0
        /\ rax' = -1
        /\ UNCHANGED <<fds, disk, open_files, held>>
     \/ /\ h >= 0
        /\ \E r \in {-1, 0} :
             /\ KClose(h, r)
             /\ open_files' = IF r = 0 /\ Slots(h) # {}
                                THEN SwapRemove(open_files, FirstSlot(h))
                                ELSE open_files
             /\ held' = IF r = 0 THEN [f \in DOMAIN held \ {g} |-> held[f]]
                                 ELSE held
             /\ rax' = r
  /\ UNCHANGED <<mem, vmm>>

(* A call that is served by doing nothing leaves its number in RAX.        *)
SysIgnored(call) ==
  /\ vmm = "running"
  /\ rax' = call
  /\ UNCHANGED <<fds, disk, open_files, mem, held, vmm>>

(* What is left of the process and its guest when it ends: the disk.       *)
ProcessEnds ==
  /\ vmm' = "exited"
  /\ fds' = NoDescriptors
  /\ open_files' = <<>>
  /\ rax' = 0
  /\ mem' = [a \in Addr |-> ZeroByte]
  /\ held' = NoDescriptors
  /\ UNCHANGED disk

SysExit ==
  /\ vmm = "running"
  /\ ProcessEnds

-----------------------------------------------------------------------------
GuestStep ==
  \/ \E a \in Addr, b \in GuestByte : GuestStore(a, b)
  \/ \E g \in GuestFd, a \in Addr, n \in 0..MemSize : SysWrite(g, a, n)
  \/ \E p \in Path, fl \in GuestOpenFlags : SysOpen(p, fl)
  \/ \E g \in CloseFd : SysClose(g)
  \/ \E call \in IgnoredCall : SysIgnored(call)
  \/ SysExit

Next == GuestStep

Spec == Init /\ [][Next]_vars

-----------------------------------------------------------------------------
(* Every variable stays in its range.                                      *)
TypeOK ==
  /\ KernelTypeOK
  /\ open_files \in Seq(GuestFile)
  /\ Len(open_files) <= MAX_OPEN_FILES
  /\ rax \in Int
  /\ mem \in [Addr -> Byte]
  /\ DOMAIN held \subseteq Fd
  /\ held \in [DOMAIN held -> Path]
  /\ vmm \in {"running", "exited"}

(* The table and the kernel tell the same story: an entry that is not the  *)
(* record of a failed open names an open descriptor of its own file, no    *)
(* two entries share one, and every descriptor on a regular file has its   *)
(* entry.  It is what makes the search by host descriptor (lines 59, 106)  *)
(* find the entry of the guest's descriptor.                               *)
TableMirrorsHost ==
  /\ \A i \in DOMAIN open_files :
       LET e == open_files[i] IN
       /\ e.guest_fd = e.host_fd
       /\ e.host_fd # -1 => /\ e.host_fd \in DOMAIN fds
                            /\ fds[e.host_fd].node = e.path
                            /\ fds[e.host_fd].flags = e.flags
  /\ \A i, j \in DOMAIN open_files :
       i # j /\ open_files[i].host_fd = open_files[j].host_fd
         => open_files[i].host_fd = -1
  /\ \A h \in DOMAIN fds : fds[h].node \in Path
       => \E i \in DOMAIN open_files : open_files[i].host_fd = h

(* Why these hold: a launched VMM hands the host's numbers to the guest.   *)
HeldMatchesHost ==
  \A g \in DOMAIN held : g \in DOMAIN fds /\ fds[g].node = held[g]

StreamsAreNotDevices ==
  \A h \in DOMAIN fds \cap StdFd : fds[h].node # Device

(* No call of a launched VMM breaks the agreement of its table, the        *)
(* kernel's descriptors and what the guest was told: the inductive         *)
(* invariant behind the properties below.                                  *)
HandlerInv ==
  TypeOK /\ TableMirrorsHost /\ HeldMatchesHost /\ StreamsAreNotDevices

(* The descriptor a number of the guest is translated to is open and is on *)
(* the file the guest opened under that number.                            *)
ReachesItsFile(g) ==
  LET h == get_host_fd_from_guest_fd(g)
  IN  h \in DOMAIN fds /\ fds[h].node = held[g]

(* Whatever the guest has opened and closed before, in whatever order, the *)
(* numbers it still holds lead write and close to the files it opened.     *)
GuestReachesItsFile == \A g \in DOMAIN held : ReachesItsFile(g)

(* No number a guest can pass is translated to one of the VMM's own        *)
(* descriptors: the guest cannot write to or close /dev/kvm, its VM, its   *)
(* vCPU or the ELF files.                                                  *)
VmmDescriptorsPrivate ==
  \A g \in GuestFd :
    LET h == get_host_fd_from_guest_fd(g)
    IN  h \in DOMAIN fds => fds[h].node # Device

(* An entry's offset, from which a restored VM resumes writing, is the     *)
(* position the kernel has for the descriptor.  (In append mode it counts  *)
(* the bytes written instead; a descriptor for reading has no writes.)     *)
OffsetResumes ==
  \A i \in DOMAIN open_files :
    LET e == open_files[i] IN
    e.host_fd # -1 /\ {"APPEND", "RDONLY"} \cap e.flags = {}
      => /\ e.host_fd \in DOMAIN fds
         /\ e.offset = fds[e.host_fd].pos % OffsetMod
=============================================================================
