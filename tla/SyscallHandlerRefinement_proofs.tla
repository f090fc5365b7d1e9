------------------ MODULE SyscallHandlerRefinement_proofs -------------------
(***************************************************************************)
(* A launched VMM implements VirtualFiles, for every value of the          *)
(* constants: each of its steps, seen through the descriptors the guest    *)
(* can reach, is a step of an ordinary process or leaves it alone.         *)
(*                                                                         *)
(* The invariant is SyscallHandler_proofs's HandlerInv, under which what   *)
(* the guest reaches is a part of the kernel's own table.                  *)
(***************************************************************************)
EXTENDS SyscallHandlerRefinement, SyscallHandler_proofs

-----------------------------------------------------------------------------
(* The guest reaches the standard streams that are open and the            *)
(* descriptors on regular files, each under the host's own number.         *)
Reachable == {g \in DOMAIN fds : g \in StdFd \/ fds[g].node \in Path}

LEMMA ReachableIsVisible ==
  HandlerInv => VisibleFds = [g \in Reachable |-> fds[g]]
<1> SUFFICES ASSUME HandlerInv
             PROVE  VisibleFds = [g \in Reachable |-> fds[g]]
  OBVIOUS
<1>1. ASSUME NEW g \in Fd, get_host_fd_from_guest_fd(g) \in DOMAIN fds
      PROVE  g \in Reachable /\ get_host_fd_from_guest_fd(g) = g
  <2>1. get_host_fd_from_guest_fd(g) # -1
    BY <1>1, KernelAssumption DEF HandlerInv, TypeOK, KernelTypeOK, Fd
  <2>2. get_host_fd_from_guest_fd(g) = g
    BY <2>1, LookupIsIdentity
  <2>3. ASSUME NEW i \in DOMAIN open_files, open_files[i].host_fd = g
        PROVE  fds[g].node \in Path
    <3>1. open_files[i] \in GuestFile
      BY <2>3, ElementOfSeq DEF HandlerInv, TypeOK
    <3> QED BY <2>1, <2>2, <2>3, <3>1 DEF HandlerInv, TableMirrorsHost, GuestFile
  <2> QED BY <1>1, <2>1, <2>2, <2>3, LookupIsIdentity DEF Reachable
<1>2. ASSUME NEW g \in Reachable
      PROVE  g \in Fd /\ get_host_fd_from_guest_fd(g) = g
  <2>1. g \in Fd
    BY DEF Reachable, HandlerInv, TypeOK, KernelTypeOK
  <2>2. CASE g \in StdFd
    BY <2>1, <2>2 DEF get_host_fd_from_guest_fd
  <2>3. CASE g \notin StdFd
    <3>1. PICK i \in DOMAIN open_files : open_files[i].host_fd = g
      BY <2>3 DEF Reachable, HandlerInv, TableMirrorsHost
    <3>2. i \in Slots(g)
      BY <3>1 DEF HandlerInv, TypeOK, TableMirrorsHost, Slots
    <3>3. /\ FirstSlot(g) \in DOMAIN open_files
          /\ open_files[FirstSlot(g)].guest_fd = g
      BY <3>2, FirstSlotFound DEF HandlerInv, TypeOK
    <3>4. open_files[FirstSlot(g)].host_fd = g
      BY <3>3 DEF HandlerInv, TableMirrorsHost
    <3> QED BY <2>1, <2>3, <3>2, <3>4 DEF get_host_fd_from_guest_fd
  <2> QED BY <2>2, <2>3
<1>3. {g \in Fd : get_host_fd_from_guest_fd(g) \in DOMAIN fds} = Reachable
  BY <1>1, <1>2 DEF Reachable
<1> QED
  BY <1>2, <1>3 DEF VisibleFds

LEMMA ReachableIsVisibleNext ==
  HandlerInv' => (VisibleFds = [g \in Reachable |-> fds[g]])'
BY ReachableIsVisible, PTL

(* A number that a call passes on to the kernel is one the guest reaches.  *)
LEMMA LookupIsReachable ==
  ASSUME HandlerInv, NEW g,
         get_host_fd_from_guest_fd(g) \in DOMAIN fds
  PROVE  get_host_fd_from_guest_fd(g) = g /\ g \in Reachable
<1>1. get_host_fd_from_guest_fd(g) # -1
  BY KernelAssumption DEF HandlerInv, TypeOK, KernelTypeOK, Fd
<1>2. get_host_fd_from_guest_fd(g) = g
  BY <1>1, LookupIsIdentity
<1>3. g \in Fd
  BY <1>2 DEF HandlerInv, TypeOK, KernelTypeOK
<1>4. g \in DOMAIN VisibleFds
  BY <1>2, <1>3 DEF VisibleFds
<1> QED
  BY <1>2, <1>4, ReachableIsVisible

-----------------------------------------------------------------------------
LEMMA InitImplements == Init => Promise!Init
<1> SUFFICES ASSUME Init PROVE Promise!Init
  OBVIOUS
<1>1. HandlerInv
  BY InitInv
<1>2. Reachable = 0..2
  BY HandlerAssumption, KernelAssumption
  DEF Reachable, Init, Launched, ProcessFds, StdFd
<1>3. \A g \in 0..2 : fds[g] = [node |-> Tty, pos |-> 0, flags |-> {}]
  BY DEF Init, Launched, ProcessFds, StdFd
<1>4. VisibleFds = [g \in 0..2 |-> [node |-> Tty, pos |-> 0, flags |-> {}]]
  BY <1>1, <1>2, <1>3, ReachableIsVisible
<1> QED
  BY <1>4 DEF Promise!Init, Init, Launched

(* A call that leaves the kernel's descriptors and files alone leaves what *)
(* the guest sees of them alone.                                           *)
LEMMA SameDescriptors ==
  ASSUME HandlerInv, HandlerInv', UNCHANGED fds
  PROVE  UNCHANGED VisibleFds
<1>1. Reachable' = Reachable
  BY DEF Reachable
<1>2. VisibleFds = [g \in Reachable |-> fds[g]]
  BY ReachableIsVisible
<1>3. VisibleFds' = [g \in Reachable' |-> fds'[g]]
  BY ReachableIsVisibleNext
<1> QED
  BY <1>1, <1>2, <1>3

-----------------------------------------------------------------------------
LEMMA OpenImplements ==
  ASSUME HandlerInv, HandlerInv',
         NEW p \in Path, NEW fl \in GuestOpenFlags, SysOpen(p, fl)
  PROVE  Promise!Open(p, fl)
<1>1. UNCHANGED vmm
  BY DEF SysOpen
<1>2. CASE rax' = -1 /\ UNCHANGED <<fds, disk>>
  <2>1. UNCHANGED VisibleFds
    BY <1>2, SameDescriptors
  <2> QED BY <1>1, <1>2, <2>1 DEF Promise!Open, Promise!Refused
<1>3. ASSUME NEW r \in Fd \cup {-1}, KOpen(p, fl, r), rax' = r
      PROVE  Promise!Open(p, fl)
  <2>1. CASE ~ MayOpen(p, fl)
    BY <1>2, <1>3, <2>1 DEF KOpen
  <2>2. CASE MayOpen(p, fl)
    <3> DEFINE new == [node |-> p, pos |-> 0, flags |-> fl]
    <3>1. /\ r \in Fd \ DOMAIN fds
          /\ fds' = [f \in DOMAIN fds \cup {r} |-> IF f = r THEN new ELSE fds[f]]
          /\ disk' = [q \in DOMAIN disk \cup {p} |->
                        IF q = p /\ (p \notin DOMAIN disk \/ "TRUNC" \in fl)
                          THEN <<>> ELSE disk[q]]
          /\ p \in DOMAIN disk => ~ ({"CREAT", "EXCL"} \subseteq fl)
          /\ p \in DOMAIN disk \/ "CREAT" \in fl
      BY <1>3, <2>2 DEF KOpen, IsLowestFree, MayOpen
    <3>2. VisibleFds = [g \in Reachable |-> fds[g]]
      BY ReachableIsVisible
    <3>3. VisibleFds' = [g \in Reachable' |-> fds'[g]]
      BY ReachableIsVisibleNext
    <3>4. Reachable' = Reachable \cup {r} /\ r \notin Reachable
      BY <3>1 DEF Reachable
    <3>5. VisibleFds' = [n \in DOMAIN VisibleFds \cup {r} |->
                           IF n = r THEN new ELSE VisibleFds[n]]
      <4>1. \A n \in Reachable : n \in DOMAIN fds /\ n # r
        BY <3>4 DEF Reachable
      <4> HIDE DEF new
      <4> QED BY <3>1, <3>2, <3>3, <3>4, <4>1
    <3>6. r \in Fd \ DOMAIN VisibleFds
      BY <3>1, <3>2, <3>4
    <3> QED BY <1>1, <1>3, <3>1, <3>5, <3>6 DEF Promise!Open
  <2> QED BY <2>1, <2>2
<1> QED
  BY <1>2, <1>3 DEF SysOpen

(* A write that the host performs is the write of an ordinary process.     *)
LEMMA HostWriteImplements ==
  ASSUME HandlerInv, HandlerInv',
         NEW g, NEW data, NEW r, g \in Reachable,
         KWriteFile(g, data, r), rax' = r, UNCHANGED vmm
  PROVE  Promise!Write(g, data)
<1> DEFINE at == IF "APPEND" \in fds[g].flags THEN Len(disk[fds[g].node])
                                              ELSE fds[g].pos
<1>1. /\ fds' = [fds EXCEPT ![g].pos = at + r]
      /\ disk' = [disk EXCEPT ![fds[g].node] =
                    WriteAt(disk[fds[g].node], at, SubSeq(data, 1, r))]
      /\ fds[g].node \in Path
      /\ "RDONLY" \notin fds[g].flags
      /\ r \in 0..Len(data)
  BY DEF KWriteFile, WritePos
<1>2. g \in DOMAIN fds /\ fds[g] \in OpenFile
  BY DEF KWriteFile, HandlerInv, TypeOK, KernelTypeOK
<1>3. VisibleFds = [n \in Reachable |-> fds[n]]
  BY ReachableIsVisible
<1>4. VisibleFds' = [n \in Reachable' |-> fds'[n]]
  BY ReachableIsVisibleNext
<1>5. /\ fds' = [fds EXCEPT ![g] = [fds[g] EXCEPT !.pos = at + r]]
      /\ [fds[g] EXCEPT !.pos = at + r].node = fds[g].node
  BY <1>1, <1>2 DEF OpenFile
<1>6. Reachable' = Reachable
  BY <1>2, <1>5 DEF Reachable
<1>7. VisibleFds[g] = fds[g] /\ g \in DOMAIN VisibleFds
  BY <1>3
<1>8. VisibleFds' = [VisibleFds EXCEPT ![g] = [fds[g] EXCEPT !.pos = at + r]]
  <2> DEFINE moved == [fds[g] EXCEPT !.pos = at + r]
  <2>1. \A n \in Reachable : n \in DOMAIN fds
    BY DEF Reachable
  <2>2. \A n \in Reachable : fds'[n] = IF n = g THEN moved ELSE fds[n]
    BY <1>2, <1>5, <2>1
  <2> HIDE DEF moved
  <2>3. VisibleFds' = [VisibleFds EXCEPT ![g] = moved]
    BY <1>3, <1>4, <1>6, <2>2
  <2> QED BY <2>3 DEF moved
<1>9. VisibleFds' = [VisibleFds EXCEPT ![g].pos = at + r]
  BY <1>7, <1>8
<1>10. WriteAt(disk[fds[g].node], at, SubSeq(data, 1, r))
         = Promise!WriteAt(disk[fds[g].node], at, SubSeq(data, 1, r))
  BY DEF WriteAt, Promise!WriteAt
<1> HIDE DEF at
<1>11. disk' = [disk EXCEPT ![VisibleFds[g].node] =
                  Promise!WriteAt(disk[fds[g].node], at, SubSeq(data, 1, r))]
  BY <1>1, <1>7, <1>10
<1> QED
  BY <1>1, <1>7, <1>9, <1>11 DEF Promise!Write, at

LEMMA WriteImplements ==
  ASSUME HandlerInv, HandlerInv',
         NEW g \in GuestFd, NEW a \in Addr, NEW n \in 0..MemSize,
         SysWrite(g, a, n)
  PROVE  Promise!Write(g, Buffer(a, n))
<1> DEFINE h == get_host_fd_from_guest_fd(g)
           data == Buffer(a, n)
<1>1. UNCHANGED vmm
  BY DEF SysWrite
<1>2. g \in DOMAIN VisibleFds => /\ h = g /\ g \in DOMAIN fds
                                 /\ VisibleFds[g] = fds[g]
  BY LookupIsReachable, ReachableIsVisible DEF VisibleFds
<1>3. CASE h < 0 /\ rax' = -1 /\ UNCHANGED <<fds, disk>>
  <2>1. g \notin DOMAIN VisibleFds
    BY <1>2, <1>3, KernelAssumption DEF HandlerInv, TypeOK, KernelTypeOK, Fd
  <2>2. UNCHANGED VisibleFds
    BY <1>3, SameDescriptors
  <2> QED BY <1>1, <1>3, <2>1, <2>2 DEF Promise!Write, Promise!Refused
<1>4. ASSUME NEW r, KWrite(h, data, r), rax' = r
      PROVE  Promise!Write(g, data)
  <2>1. CASE KWriteFile(h, data, r)
    <3>1. h = g /\ g \in Reachable
      BY <2>1, LookupIsReachable DEF KWriteFile
    <3> HIDE DEF h, data
    <3> QED BY <1>1, <1>4, <2>1, <3>1, HostWriteImplements
  <2>2. CASE KWriteTty(h, data, r)
    <3>1. h = g /\ g \in Reachable
      BY <2>2, LookupIsReachable DEF KWriteTty
    <3>2. g \in DOMAIN VisibleFds /\ VisibleFds[g].node = Tty
      BY <2>2, <3>1, ReachableIsVisible DEF KWriteTty
    <3>3. UNCHANGED <<VisibleFds, disk>> /\ rax' = Len(data)
      BY <1>4, <2>2, SameDescriptors DEF KWriteTty
    <3> QED BY <1>1, <3>2, <3>3 DEF Promise!Write
  <2>3. CASE KWriteFails(h, r)
    <3>1. UNCHANGED <<VisibleFds, disk>> /\ rax' = -1
      BY <1>4, <2>3, SameDescriptors DEF KWriteFails
    <3>2. g \in DOMAIN VisibleFds => VisibleFds[g].node \in Path
      <4>1. g \in DOMAIN VisibleFds => g \in Reachable
        BY <1>2, LookupIsReachable
      <4>2. g \in DOMAIN VisibleFds => fds[g].node # Device
        BY <4>1, KernelAssumption
        DEF Reachable, HandlerInv, StreamsAreNotDevices
      <4> QED BY <1>2, <2>3, <4>2 DEF KWriteFails
    <3> QED BY <1>1, <3>1, <3>2 DEF Promise!Write, Promise!Refused
  <2> QED BY <1>4, <2>1, <2>2, <2>3 DEF KWrite
<1> QED
  BY <1>3, <1>4 DEF SysWrite

LEMMA CloseImplements ==
  ASSUME HandlerInv, HandlerInv', NEW g \in CloseFd, SysClose(g)
  PROVE  Promise!Close(g)
<1> DEFINE h == get_host_fd_from_guest_fd(g)
<1>1. UNCHANGED vmm
  BY DEF SysClose
<1>2. g \in DOMAIN VisibleFds => h = g /\ g \in DOMAIN fds
  BY LookupIsReachable DEF VisibleFds
<1>3. ASSUME h \notin DOMAIN fds, rax' = -1, UNCHANGED <<fds, disk>>
      PROVE  Promise!Close(g)
  <2>1. g \notin DOMAIN VisibleFds
    BY <1>2, <1>3
  <2>2. UNCHANGED VisibleFds
    BY <1>3, SameDescriptors
  <2> QED BY <1>1, <1>3, <2>1, <2>2 DEF Promise!Close, Promise!Refused
<1>4. CASE h < 0 /\ rax' = -1 /\ UNCHANGED <<fds, disk>>
  BY <1>3, <1>4, KernelAssumption DEF HandlerInv, TypeOK, KernelTypeOK, Fd
<1>5. ASSUME NEW r, KClose(h, r), rax' = r
      PROVE  Promise!Close(g)
  <2>1. CASE h \notin DOMAIN fds
    BY <1>3, <1>5, <2>1 DEF KClose
  <2>2. CASE h \in DOMAIN fds
    <3>1. h = g /\ g \in Reachable
      BY <2>2, LookupIsReachable
    <3>2. rax' = 0 /\ UNCHANGED disk /\ fds' = [f \in DOMAIN fds \ {g} |-> fds[f]]
      BY <1>5, <2>2, <3>1 DEF KClose
    <3>3. VisibleFds = [n \in Reachable |-> fds[n]]
      BY ReachableIsVisible
    <3>4. VisibleFds' = [n \in Reachable' |-> fds'[n]]
      BY ReachableIsVisibleNext
    <3>5. Reachable' = Reachable \ {g}
      BY <3>2 DEF Reachable
    <3>6. \A n \in Reachable \ {g} : fds'[n] = fds[n]
      BY <3>2 DEF Reachable
    <3>7. VisibleFds' = [n \in DOMAIN VisibleFds \ {g} |-> VisibleFds[n]]
      BY <3>3, <3>4, <3>5, <3>6
    <3> QED BY <1>1, <3>1, <3>2, <3>3, <3>7 DEF Promise!Close
  <2> QED BY <2>1, <2>2
<1> QED
  BY <1>4, <1>5 DEF SysClose

LEMMA ExitImplements ==
  ASSUME HandlerInv', SysExit
  PROVE  Promise!Exit
<1>1. fds' = NoDescriptors /\ rax' = 0 /\ vmm' = "exited" /\ UNCHANGED disk
  BY DEF SysExit, ProcessEnds
<1>2. Reachable' = {}
  BY <1>1 DEF Reachable, NoDescriptors
<1>3. VisibleFds' = [n \in Reachable' |-> fds'[n]]
  BY ReachableIsVisibleNext
<1>4. VisibleFds' = [n \in {} |-> n]
  BY <1>2, <1>3
<1> QED
  BY <1>1, <1>4 DEF Promise!Exit

-----------------------------------------------------------------------------
LEMMA StepImplements ==
  HandlerInv /\ HandlerInv' /\ [Next]_vars => [Promise!Next]_(Promise!vars)
<1> SUFFICES ASSUME HandlerInv, HandlerInv', [Next]_vars
             PROVE  [Promise!Next]_(Promise!vars)
  OBVIOUS
<1>1. ASSUME UNCHANGED <<fds, disk, rax, vmm>>
      PROVE  UNCHANGED Promise!vars
  BY <1>1, SameDescriptors DEF Promise!vars
<1>2. ASSUME NEW a \in Addr, NEW b \in GuestByte, GuestStore(a, b)
      PROVE  UNCHANGED Promise!vars
  BY <1>1, <1>2 DEF GuestStore
<1>3. ASSUME NEW g \in GuestFd, NEW a \in Addr, NEW n \in 0..MemSize,
             SysWrite(g, a, n)
      PROVE  Promise!Next
  <2>1. \A k \in 1..n : a + k - 1 \in Addr
    BY <1>3, HandlerAssumption DEF SysWrite, Addr
  <2>2. Buffer(a, n) \in [1..n -> Byte]
    BY <2>1 DEF Buffer, HandlerInv, TypeOK
  <2>3. Buffer(a, n) \in UNION {[1..k -> Byte] : k \in 0..MemSize}
    BY <2>2
  <2>4. Promise!Write(g, Buffer(a, n)) /\ vmm = "running"
    BY <1>3, WriteImplements DEF SysWrite
  <2> QED BY <2>3, <2>4 DEF Promise!Next
<1>4. ASSUME NEW p \in Path, NEW fl \in GuestOpenFlags, SysOpen(p, fl)
      PROVE  Promise!Next
  BY <1>4, OpenImplements DEF Promise!Next, SysOpen
<1>5. ASSUME NEW g \in CloseFd, SysClose(g)
      PROVE  Promise!Next
  BY <1>5, CloseImplements DEF Promise!Next, SysClose
<1>6. ASSUME NEW call \in IgnoredCall, SysIgnored(call)
      PROVE  Promise!Next
  <2>1. UNCHANGED VisibleFds
    BY <1>6, SameDescriptors DEF SysIgnored
  <2> QED BY <1>6, <2>1 DEF Promise!Next, Promise!Dummy, SysIgnored
<1>7. CASE SysExit
  BY <1>7, ExitImplements DEF Promise!Next, SysExit
<1>8. CASE UNCHANGED vars
  BY <1>1, <1>8 DEF vars
<1> QED
  BY <1>2, <1>3, <1>4, <1>5, <1>6, <1>7, <1>8 DEF Next, GuestStep

(* Every call of the guest is answered, and changes descriptors and files, *)
(* as an ordinary process would see it: the table, the translation and the *)
(* VMM's own descriptors cannot be told from outside, at any table size.   *)
THEOREM HandlerImplementsVirtualFiles == Spec => ImplementsVirtualFiles
<1>1. Init => Promise!Init
  BY InitImplements
<1>2. HandlerInv /\ HandlerInv' /\ [Next]_vars => [Promise!Next]_(Promise!vars)
  BY StepImplements
<1> QED
  BY <1>1, <1>2, HandlerInvariant, PTL
  DEF Spec, ImplementsVirtualFiles, Promise!Spec
=============================================================================
