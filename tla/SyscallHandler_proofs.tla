------------------------ MODULE SyscallHandler_proofs ------------------------
(***************************************************************************)
(* SyscallHandler's safety properties, for every size of the table, every  *)
(* set of files, flags and descriptors, with and without disk faults.      *)
(*                                                                         *)
(* The file goes from the operators (what a search of the table, a removal *)
(* and a call of the kernel do) to type correctness, then to the inductive *)
(* invariant HandlerInv, and from it to the properties.                    *)
(***************************************************************************)
EXTENDS SyscallHandler, DivisionTheorems, SequenceTheorems,
        WellFoundedInduction, TLAPS

-----------------------------------------------------------------------------
(* A set of naturals has a least element: NatLessThanWellFounded, without  *)
(* its operator parameter.                                                 *)
LEMMA NatHasMinimum ==
  ASSUME NEW S, S \subseteq Nat, S # {}
  PROVE  \E m \in S : \A n \in S : m <= n
<1> DEFINE R == {ss \in Nat \X Nat : ss[1] < ss[2]}
<1>1. IsWellFoundedOn(R, Nat)
  BY NatLessThanWellFounded, Zenon DEF OpToRel
<1>2. PICK m \in S : \A n \in S : <<n, m>> \notin R
  <2> HIDE DEF R
  <2> QED BY <1>1, WFMin
<1>3. \A n \in S : ~ (n < m)
  BY <1>2
<1> QED
  BY <1>3

(* The loops over the table find an entry whenever there is one.           *)
LEMMA FirstSlotFound ==
  ASSUME NEW g, Slots(g) # {}, Len(open_files) \in Nat
  PROVE  /\ FirstSlot(g) \in 1..Len(open_files)
         /\ open_files[FirstSlot(g)].guest_fd = g
<1>1. Slots(g) \subseteq Nat
  BY DEF Slots
<1>2. \E i \in Slots(g) : \A j \in Slots(g) : i <= j
  BY <1>1, NatHasMinimum
<1>3. FirstSlot(g) \in Slots(g)
  BY <1>2 DEF FirstSlot
<1> QED
  BY <1>3 DEF Slots

(* Removing entry i keeps a table a table and loses no other entry.        *)
LEMMA SwapRemoveType ==
  ASSUME NEW S, NEW s \in Seq(S), NEW i \in 1..Len(s)
  PROVE  /\ SwapRemove(s, i) \in Seq(S)
         /\ Len(SwapRemove(s, i)) = Len(s) - 1
         /\ DOMAIN SwapRemove(s, i) = 1..(Len(s) - 1)
<1>1. Len(s) - 1 \in Nat /\ Len(s) \in 1..Len(s)
  OBVIOUS
<1>2. \A j \in 1..(Len(s) - 1) : j \in 1..Len(s)
  BY <1>1
<1>3. SwapRemove(s, i) \in [1..(Len(s) - 1) -> S]
  BY <1>1, <1>2, ElementOfSeq DEF SwapRemove
<1> QED
  BY <1>1, <1>3, IsASeq

LEMMA SwapRemoveEntries ==
  ASSUME NEW S, NEW s \in Seq(S), NEW i \in 1..Len(s)
  PROVE  /\ \A j \in 1..(Len(s) - 1) :
              \E k \in 1..Len(s) :
                 k # i /\ SwapRemove(s, i)[j] = s[k]
                       /\ k = IF j = i THEN Len(s) ELSE j
         /\ \A k \in 1..Len(s) : k # i =>
              \E j \in 1..(Len(s) - 1) : SwapRemove(s, i)[j] = s[k]
<1>1. Len(s) \in Nat /\ Len(s) \in 1..Len(s)
  OBVIOUS
<1>2. ASSUME NEW j \in 1..(Len(s) - 1)
      PROVE  \E k \in 1..Len(s) : k # i /\ SwapRemove(s, i)[j] = s[k]
                                        /\ k = IF j = i THEN Len(s) ELSE j
  BY <1>1 DEF SwapRemove
<1>3. ASSUME NEW k \in 1..Len(s), k # i
      PROVE  \E j \in 1..(Len(s) - 1) : SwapRemove(s, i)[j] = s[k]
  <2>1. CASE k = Len(s)
    BY <1>1, <1>3, <2>1 DEF SwapRemove
  <2>2. CASE k # Len(s)
    BY <1>1, <1>3, <2>2 DEF SwapRemove
  <2> QED BY <2>1, <2>2
<1> QED
  BY <1>2, <1>3

-----------------------------------------------------------------------------
(* What the kernel's calls do to the types of its own state.               *)
LEMMA WriteAtType ==
  ASSUME NEW c \in Seq(Byte), NEW pos \in Nat, NEW data \in Seq(Byte)
  PROVE  WriteAt(c, pos, data) \in Seq(Byte)
<1> DEFINE n == IF pos + Len(data) > Len(c) THEN pos + Len(data) ELSE Len(c)
<1>1. CASE data = <<>>
  BY <1>1 DEF WriteAt
<1>2. CASE data # <<>>
  <2>1. n \in Nat
    OBVIOUS
  <2>2. WriteAt(c, pos, data) \in [1..n -> Byte]
    <3>1. SUFFICES ASSUME NEW i \in 1..n
                   PROVE  WriteAt(c, pos, data)[i] \in Byte
      BY <1>2 DEF WriteAt
    <3>2. CASE i > pos /\ i <= pos + Len(data)
      <4>1. i - pos \in 1..Len(data)
        BY <3>2
      <4> QED BY <1>2, <3>2, <4>1, ElementOfSeq DEF WriteAt
    <3>3. CASE ~ (i > pos /\ i <= pos + Len(data)) /\ i <= Len(c)
      <4>1. i \in 1..Len(c)
        BY <3>3
      <4> QED BY <1>2, <3>3, <4>1, ElementOfSeq DEF WriteAt
    <3>4. CASE ~ (i > pos /\ i <= pos + Len(data)) /\ ~ (i <= Len(c))
      BY <1>2, <3>4, ZeroByteAssumption DEF WriteAt
    <3> QED BY <3>2, <3>3, <3>4
  <2> QED
    BY <2>1, <2>2, IsASeq
<1> QED
  BY <1>1, <1>2

LEMMA KOpenType ==
  ASSUME NEW p \in Path, NEW fl \in SUBSET Flag, NEW r \in Fd \cup {-1},
         KernelTypeOK, KOpen(p, fl, r)
  PROVE  KernelTypeOK'
<1>1. CASE UNCHANGED <<fds, disk>>
  BY <1>1 DEF KernelTypeOK
<1>2. CASE MayOpen(p, fl) /\ IsLowestFree(r)
  <2>1. DOMAIN fds' \subseteq Fd /\ fds' \in [DOMAIN fds' -> OpenFile]
    BY <1>2 DEF KOpen, IsLowestFree, KernelTypeOK, OpenFile, Fd
  <2>2. <<>> \in Seq(Byte)
    OBVIOUS
  <2>3. disk' = [q \in DOMAIN disk \cup {p} |->
                   IF q = p /\ (p \notin DOMAIN disk \/ "TRUNC" \in fl)
                     THEN <<>> ELSE disk[q]]
    BY <1>2 DEF KOpen, IsLowestFree, Fd
  <2>4. DOMAIN disk' \subseteq Path /\ disk' \in [DOMAIN disk' -> Seq(Byte)]
    BY <2>2, <2>3 DEF KernelTypeOK
  <2>5. \A h \in DOMAIN fds' : fds'[h].node \in Path
                                => fds'[h].node \in DOMAIN disk'
    BY <1>2, <2>3 DEF KOpen, KernelTypeOK, IsLowestFree, Fd
  <2> QED BY <2>1, <2>4, <2>5 DEF KernelTypeOK
<1> QED
  BY <1>1, <1>2 DEF KOpen

LEMMA KWriteType ==
  ASSUME NEW h, NEW data \in Seq(Byte), NEW r, KernelTypeOK,
         KWrite(h, data, r)
  PROVE  KernelTypeOK' /\ r \in Int
<1>1. CASE KWriteFile(h, data, r)
  <2> DEFINE p == fds[h].node
  <2>1. r \in 0..Len(data) /\ Len(data) \in Nat /\ p \in DOMAIN disk
    BY <1>1 DEF KWriteFile, KernelTypeOK
  <2>2. disk[p] \in Seq(Byte) /\ Len(disk[p]) \in Nat
    BY <2>1 DEF KernelTypeOK
  <2>3. WritePos(h) \in Nat
    BY <1>1, <2>2 DEF WritePos, KernelTypeOK, OpenFile, KWriteFile
  <2>4. SubSeq(data, 1, r) \in Seq(Byte)
    BY <2>1
  <2>5. WriteAt(disk[p], WritePos(h), SubSeq(data, 1, r)) \in Seq(Byte)
    BY <2>2, <2>3, <2>4, WriteAtType
  <2>6. DOMAIN disk' \subseteq Path /\ disk' \in [DOMAIN disk' -> Seq(Byte)]
    BY <1>1, <2>5 DEF KWriteFile, KernelTypeOK
  <2>7. WritePos(h) + r \in Nat
    BY <2>1, <2>3
  <2>8. /\ h \in DOMAIN fds
        /\ fds[h] \in OpenFile
        /\ fds' = [fds EXCEPT ![h] = [fds[h] EXCEPT !.pos = WritePos(h) + r]]
    BY <1>1 DEF KWriteFile, KernelTypeOK
  <2>9. /\ [fds[h] EXCEPT !.pos = WritePos(h) + r] \in OpenFile
        /\ [fds[h] EXCEPT !.pos = WritePos(h) + r].node = fds[h].node
    BY <2>7, <2>8 DEF OpenFile
  <2>10. DOMAIN fds' \subseteq Fd /\ fds' \in [DOMAIN fds' -> OpenFile]
    BY <2>8, <2>9 DEF KernelTypeOK
  <2>11. \A f \in DOMAIN fds' : f \in DOMAIN fds /\ fds'[f].node = fds[f].node
    BY <2>8, <2>9
  <2>12. DOMAIN disk' = DOMAIN disk
    BY <1>1 DEF KWriteFile
  <2>13. \A f \in DOMAIN fds' : fds'[f].node \in Path
                                => fds'[f].node \in DOMAIN disk'
    BY <2>11, <2>12 DEF KernelTypeOK
  <2>14. KernelTypeOK'
    BY <2>6, <2>10, <2>13 DEF KernelTypeOK
  <2> QED BY <2>1, <2>14
<1>2. CASE KWriteTty(h, data, r) \/ KWriteFails(h, r)
  BY <1>2 DEF KWriteTty, KWriteFails, KernelTypeOK
<1> QED
  BY <1>1, <1>2 DEF KWrite

LEMMA KCloseType ==
  ASSUME NEW h, NEW r, KernelTypeOK, KClose(h, r)
  PROVE  KernelTypeOK'
BY DEF KClose, KernelTypeOK

LEMMA BufferType ==
  ASSUME NEW a \in Addr, NEW n \in Nat, a + n <= MemSize, mem \in [Addr -> Byte]
  PROVE  Buffer(a, n) \in Seq(Byte) /\ Len(Buffer(a, n)) = n
<1>1. \A k \in 1..n : a + k - 1 \in Addr
  BY HandlerAssumption DEF Addr
<1>2. Buffer(a, n) \in [1..n -> Byte]
  BY <1>1 DEF Buffer
<1> QED
  BY <1>2, IsASeq

(* A write is noted in its entry's start_addr and offset, nowhere else.    *)
LEMMA NoteWriteType ==
  ASSUME NEW h, NEW a \in Nat, NEW r \in Int, NoteWrite(h, a, r),
         open_files \in Seq(GuestFile)
  PROVE  /\ open_files' \in Seq(GuestFile)
         /\ Len(open_files') = Len(open_files)
         /\ \A i \in DOMAIN open_files :
              /\ open_files'[i].guest_fd = open_files[i].guest_fd
              /\ open_files'[i].host_fd = open_files[i].host_fd
              /\ open_files'[i].flags = open_files[i].flags
              /\ open_files'[i].path = open_files[i].path
<1>1. CASE Slots(h) = {}
  BY <1>1 DEF NoteWrite
<1>2. CASE Slots(h) # {}
  <2> DEFINE i == FirstSlot(h)
             start == IF open_files[i].offset = 0 THEN a
                                                  ELSE open_files[i].start_addr
             off == (open_files[i].offset + r) % OffsetMod
             e == [open_files[i] EXCEPT !.start_addr = start, !.offset = off]
  <2>1. i \in 1..Len(open_files)
    BY <1>2, FirstSlotFound
  <2>2. open_files[i] \in GuestFile
    BY <2>1, ElementOfSeq
  <2>3. start \in Nat
    BY <2>2 DEF GuestFile
  <2>4. off \in 0..(OffsetMod - 1)
    <3>1. open_files[i].offset + r \in Int
      BY <2>2 DEF GuestFile
    <3>2. OffsetMod \in Nat /\ OffsetMod > 0
      BY HandlerAssumption
    <3>3. \A m \in Int : m % OffsetMod \in 0..(OffsetMod - 1)
      BY <3>2
    <3> QED BY <3>1, <3>3
  <2>5. open_files' = [open_files EXCEPT ![i] = e]
    BY <1>2 DEF NoteWrite
  <2> HIDE DEF start, off
  <2>6. /\ e \in GuestFile
        /\ e.guest_fd = open_files[i].guest_fd
        /\ e.host_fd = open_files[i].host_fd
        /\ e.flags = open_files[i].flags
        /\ e.path = open_files[i].path
    BY <2>2, <2>3, <2>4 DEF GuestFile
  <2> HIDE DEF e, i
  <2>7. /\ open_files' \in Seq(GuestFile)
        /\ Len(open_files') = Len(open_files)
    BY <2>1, <2>5, <2>6, ExceptSeq
  <2>8. \A j \in DOMAIN open_files :
          open_files'[j] = IF j = i THEN e ELSE open_files[j]
    BY <2>5
  <2> QED BY <2>6, <2>7, <2>8
<1> QED
  BY <1>1, <1>2

-----------------------------------------------------------------------------
LEMMA InitTypeOK == Init => TypeOK
<1> SUFFICES ASSUME Init PROVE TypeOK
  OBVIOUS
<1> USE DEF Init, Launched
<1>1. DOMAIN fds \subseteq Fd /\ fds \in [DOMAIN fds -> OpenFile]
  BY HandlerAssumption DEF ProcessFds, OpenFile
<1>2. \A h \in DOMAIN fds : fds[h].node \notin Path
  BY KernelAssumption DEF ProcessFds
<1>3. DOMAIN disk \subseteq Path /\ disk \in [DOMAIN disk -> Seq(Byte)]
  BY HandlerAssumption
<1>4. KernelTypeOK
  BY <1>1, <1>2, <1>3 DEF KernelTypeOK
<1>5. mem \in [Addr -> Byte]
  BY ZeroByteAssumption
<1>6. open_files \in Seq(GuestFile) /\ Len(open_files) <= MAX_OPEN_FILES
  BY HandlerAssumption
<1>7. DOMAIN held \subseteq Fd /\ held \in [DOMAIN held -> Path]
  BY DEF NoDescriptors
<1> QED
  BY <1>4, <1>5, <1>6, <1>7 DEF TypeOK

LEMMA WriteTypeOK ==
  ASSUME TypeOK, NEW g \in Int, NEW a \in Addr, NEW n \in 0..MemSize,
         SysWrite(g, a, n)
  PROVE  TypeOK'
<1> DEFINE h == get_host_fd_from_guest_fd(g)
<1>1. UNCHANGED <<mem, held, vmm>>
  BY DEF SysWrite
<1>2. CASE rax' = -1 /\ UNCHANGED <<fds, disk, open_files>>
  BY <1>1, <1>2 DEF TypeOK, KernelTypeOK
<1>3. ASSUME NEW r \in -1..n,
             KWrite(h, Buffer(a, n), r), NoteWrite(h, a, r), rax' = r
      PROVE  TypeOK'
  <2>1. a \in Nat /\ n \in Nat /\ r \in Int /\ a + n <= MemSize
    BY HandlerAssumption DEF Addr, SysWrite
  <2>2. Buffer(a, n) \in Seq(Byte)
    BY <2>1, BufferType DEF TypeOK
  <2>3. KernelTypeOK'
    BY <1>3, <2>2, KWriteType DEF TypeOK
  <2>4. open_files' \in Seq(GuestFile) /\ Len(open_files') = Len(open_files)
    BY <1>3, <2>1, NoteWriteType DEF TypeOK
  <2> QED BY <1>1, <1>3, <2>1, <2>3, <2>4 DEF TypeOK
<1> QED
  BY <1>2, <1>3 DEF SysWrite

LEMMA OpenTypeOK ==
  ASSUME TypeOK, NEW p \in Path, NEW fl \in SUBSET Flag, SysOpen(p, fl)
  PROVE  TypeOK'
<1>1. UNCHANGED <<mem, vmm>>
  BY DEF SysOpen
<1>2. CASE rax' = -1 /\ UNCHANGED <<fds, disk, open_files, held>>
  BY <1>1, <1>2 DEF TypeOK, KernelTypeOK
<1>3. ASSUME NEW r \in Fd \cup {-1}, TableHasRoom, KOpen(p, fl, r),
             open_files' = Append(open_files,
                  [guest_fd |-> r, host_fd |-> r, flags |-> fl,
                   start_addr |-> 0, offset |-> 0, path |-> p]),
             held' = IF r = -1 THEN held
                        ELSE [f \in DOMAIN held \cup {r} |->
                                IF f = r THEN p ELSE held[f]],
             rax' = r
      PROVE  TypeOK'
  <2>1. fl \in SUBSET Flag
    OBVIOUS
  <2>2. KernelTypeOK'
    BY <1>3, <2>1, KOpenType DEF TypeOK
  <2>3. [guest_fd |-> r, host_fd |-> r, flags |-> fl,
         start_addr |-> 0, offset |-> 0, path |-> p] \in GuestFile
    BY <2>1, HandlerAssumption DEF GuestFile
  <2>4. /\ open_files' \in Seq(GuestFile)
        /\ Len(open_files') <= MAX_OPEN_FILES
    BY <1>3, <2>3, HandlerAssumption DEF TypeOK, TableHasRoom
  <2>5. DOMAIN held' \subseteq Fd /\ held' \in [DOMAIN held' -> Path]
    BY <1>3, KernelAssumption DEF TypeOK, Fd
  <2>6. rax' \in Int
    BY <1>3, KernelAssumption DEF Fd
  <2> QED BY <1>1, <2>2, <2>4, <2>5, <2>6 DEF TypeOK
<1> QED
  BY <1>2, <1>3 DEF SysOpen

LEMMA CloseTypeOK ==
  ASSUME TypeOK, NEW g \in Int, SysClose(g)
  PROVE  TypeOK'
<1> DEFINE h == get_host_fd_from_guest_fd(g)
<1>1. UNCHANGED <<mem, vmm>>
  BY DEF SysClose
<1>2. CASE rax' = -1 /\ UNCHANGED <<fds, disk, open_files, held>>
  BY <1>1, <1>2 DEF TypeOK, KernelTypeOK
<1>3. ASSUME NEW r \in {-1, 0}, KClose(h, r),
             open_files' = IF r = 0 /\ Slots(h) # {}
                                THEN SwapRemove(open_files, FirstSlot(h))
                                ELSE open_files,
             held' = IF r = 0 THEN [f \in DOMAIN held \ {g} |-> held[f]]
                                 ELSE held,
             rax' = r
      PROVE  TypeOK'
  <2>1. KernelTypeOK'
    BY <1>3, KCloseType DEF TypeOK
  <2>2. /\ open_files' \in Seq(GuestFile)
        /\ Len(open_files') <= MAX_OPEN_FILES
    <3>1. CASE r = 0 /\ Slots(h) # {}
      <4>1. Len(open_files) \in Nat /\ Len(open_files) <= MAX_OPEN_FILES
        BY DEF TypeOK
      <4>2. FirstSlot(h) \in 1..Len(open_files)
        BY <3>1, <4>1, FirstSlotFound
      <4>3. /\ open_files' \in Seq(GuestFile)
            /\ Len(open_files') = Len(open_files) - 1
        BY <1>3, <3>1, <4>2, SwapRemoveType DEF TypeOK
      <4> QED BY <4>1, <4>3, HandlerAssumption
    <3>2. CASE ~ (r = 0 /\ Slots(h) # {})
      BY <1>3, <3>2 DEF TypeOK
    <3> QED BY <3>1, <3>2
  <2>4. DOMAIN held' \subseteq Fd /\ held' \in [DOMAIN held' -> Path]
    BY <1>3 DEF TypeOK
  <2> QED BY <1>1, <1>3, <2>1, <2>2, <2>4 DEF TypeOK
<1> QED
  BY <1>2, <1>3 DEF SysClose

LEMMA ExitTypeOK ==
  ASSUME TypeOK, SysExit
  PROVE  TypeOK'
<1>1. KernelTypeOK'
  BY DEF TypeOK, KernelTypeOK, SysExit, ProcessEnds, NoDescriptors
<1>2. open_files' \in Seq(GuestFile) /\ Len(open_files') <= MAX_OPEN_FILES
  BY HandlerAssumption DEF SysExit, ProcessEnds
<1>3. DOMAIN held' \subseteq Fd /\ held' \in [DOMAIN held' -> Path]
  BY DEF SysExit, ProcessEnds, NoDescriptors
<1> QED
  BY <1>1, <1>2, <1>3, ZeroByteAssumption DEF TypeOK, SysExit, ProcessEnds

(* Every variable of a launched VMM stays in its range: the table never    *)
(* outgrows open_files[MAX_OPEN_FILES], whatever the guest opens.          *)
THEOREM TypeCorrect == Spec => []TypeOK
<1>1. Init => TypeOK
  BY InitTypeOK
<1>2. TypeOK /\ [Next]_vars => TypeOK'
  <2> SUFFICES ASSUME TypeOK, [Next]_vars PROVE TypeOK'
    OBVIOUS
  <2>1. ASSUME NEW a \in Addr, NEW b \in GuestByte, GuestStore(a, b)
        PROVE  TypeOK'
    BY <2>1, HandlerAssumption DEF GuestStore, TypeOK, KernelTypeOK
  <2>2. ASSUME NEW g \in GuestFd, NEW a \in Addr, NEW n \in 0..MemSize,
               SysWrite(g, a, n)
        PROVE  TypeOK'
    BY <2>2, WriteTypeOK, HandlerAssumption
  <2>3. ASSUME NEW p \in Path, NEW fl \in GuestOpenFlags, SysOpen(p, fl)
        PROVE  TypeOK'
    BY <2>3, OpenTypeOK, HandlerAssumption
  <2>4. ASSUME NEW g \in CloseFd, SysClose(g)
        PROVE  TypeOK'
    BY <2>4, CloseTypeOK, HandlerAssumption
  <2>5. ASSUME NEW call \in IgnoredCall, SysIgnored(call)
        PROVE  TypeOK'
    BY <2>5, HandlerAssumption DEF SysIgnored, TypeOK, KernelTypeOK
  <2>6. CASE SysExit
    BY <2>6, ExitTypeOK
  <2>7. CASE UNCHANGED vars
    BY <2>7 DEF vars, TypeOK, KernelTypeOK
  <2> QED
    BY <2>1, <2>2, <2>3, <2>4, <2>5, <2>6, <2>7 DEF Next, GuestStep
<1> QED
  BY <1>1, <1>2, PTL DEF Spec

-----------------------------------------------------------------------------
(* A number that is translated at all is translated to itself.             *)
LEMMA LookupIsIdentity ==
  ASSUME HandlerInv, NEW g, get_host_fd_from_guest_fd(g) # -1
  PROVE  /\ get_host_fd_from_guest_fd(g) = g
         /\ g \in StdFd \/ \E i \in DOMAIN open_files : open_files[i].host_fd = g
<1>1. CASE g \in StdFd
  BY <1>1 DEF get_host_fd_from_guest_fd
<1>2. CASE g \notin StdFd
  <2>1. Slots(g) # {}
    BY <1>2 DEF get_host_fd_from_guest_fd
  <2>2. FirstSlot(g) \in DOMAIN open_files /\ open_files[FirstSlot(g)].guest_fd = g
    BY <2>1, FirstSlotFound DEF HandlerInv, TypeOK
  <2>3. open_files[FirstSlot(g)].host_fd = g
    BY <2>2 DEF HandlerInv, TableMirrorsHost
  <2> QED
    BY <1>2, <2>1, <2>2, <2>3 DEF get_host_fd_from_guest_fd
<1> QED
  BY <1>1, <1>2

LEMMA LookupOfHeld ==
  ASSUME HandlerInv, NEW g \in DOMAIN held
  PROVE  get_host_fd_from_guest_fd(g) = g
<1>1. g \in DOMAIN fds /\ fds[g].node \in Path
  BY DEF HandlerInv, TypeOK, HeldMatchesHost
<1>2. PICK i \in DOMAIN open_files : open_files[i].host_fd = g
  BY <1>1 DEF HandlerInv, TableMirrorsHost
<1>3. i \in Slots(g)
  BY <1>2 DEF HandlerInv, TypeOK, TableMirrorsHost, Slots
<1>4. FirstSlot(g) \in DOMAIN open_files /\ open_files[FirstSlot(g)].guest_fd = g
  BY <1>3, FirstSlotFound DEF HandlerInv, TypeOK
<1>5. open_files[FirstSlot(g)].host_fd = g
  BY <1>4 DEF HandlerInv, TableMirrorsHost
<1> QED
  BY <1>3, <1>5 DEF get_host_fd_from_guest_fd

LEMMA InvImpliesProperties ==
  HandlerInv => GuestReachesItsFile /\ VmmDescriptorsPrivate
<1> SUFFICES ASSUME HandlerInv
             PROVE  GuestReachesItsFile /\ VmmDescriptorsPrivate
  OBVIOUS
<1>1. GuestReachesItsFile
  BY LookupOfHeld
  DEF GuestReachesItsFile, ReachesItsFile, HandlerInv, HeldMatchesHost
<1>2. ASSUME NEW g \in GuestFd, get_host_fd_from_guest_fd(g) \in DOMAIN fds
      PROVE  fds[get_host_fd_from_guest_fd(g)].node # Device
  <2>1. get_host_fd_from_guest_fd(g) # -1
    BY <1>2, KernelAssumption DEF HandlerInv, TypeOK, KernelTypeOK, Fd
  <2>2. get_host_fd_from_guest_fd(g) = g
    BY <2>1, LookupIsIdentity
  <2>3. CASE g \in StdFd
    BY <1>2, <2>2, <2>3 DEF HandlerInv, StreamsAreNotDevices
  <2>4. CASE \E i \in DOMAIN open_files : open_files[i].host_fd = g
    <3>1. PICK i \in DOMAIN open_files : open_files[i].host_fd = g
      BY <2>4
    <3>2. open_files[i] \in GuestFile
      BY <3>1, ElementOfSeq DEF HandlerInv, TypeOK
    <3>3. fds[g].node \in Path
      BY <2>1, <2>2, <3>1, <3>2 DEF HandlerInv, TableMirrorsHost, GuestFile
    <3> QED BY <2>2, <3>3, KernelAssumption
  <2> QED BY <2>1, <2>3, <2>4, LookupIsIdentity
<1> QED
  BY <1>1, <1>2 DEF VmmDescriptorsPrivate

-----------------------------------------------------------------------------
LEMMA InitInv == Init => HandlerInv
<1> SUFFICES ASSUME Init PROVE HandlerInv
  OBVIOUS
<1>1. TypeOK
  BY InitTypeOK
<1>2. \A h \in DOMAIN fds : /\ fds[h].node \notin Path
                            /\ h \in StdFd => fds[h].node # Device
  BY KernelAssumption DEF Init, Launched, ProcessFds
<1>3. TableMirrorsHost
  <2>1. open_files = <<>> /\ DOMAIN open_files = {}
    BY DEF Init, Launched
  <2> QED BY <1>2, <2>1 DEF TableMirrorsHost
<1>4. HeldMatchesHost /\ StreamsAreNotDevices
  BY <1>2 DEF Init, Launched, NoDescriptors, HeldMatchesHost, StreamsAreNotDevices
<1> QED
  BY <1>1, <1>3, <1>4 DEF HandlerInv

(* A write moves a descriptor's position and nothing else of the table.    *)
LEMMA KWriteKeepsDescriptors ==
  ASSUME NEW h, NEW data, NEW r, KernelTypeOK, KWrite(h, data, r)
  PROVE  /\ DOMAIN fds' = DOMAIN fds
         /\ \A f \in DOMAIN fds : /\ fds'[f].node = fds[f].node
                                  /\ fds'[f].flags = fds[f].flags
<1>1. CASE KWriteFile(h, data, r)
  <2>1. /\ h \in DOMAIN fds
        /\ fds[h] \in OpenFile
        /\ fds' = [fds EXCEPT ![h] = [fds[h] EXCEPT !.pos = WritePos(h) + r]]
    BY <1>1 DEF KWriteFile, KernelTypeOK
  <2>2. /\ [fds[h] EXCEPT !.pos = WritePos(h) + r].node = fds[h].node
        /\ [fds[h] EXCEPT !.pos = WritePos(h) + r].flags = fds[h].flags
    BY <2>1 DEF OpenFile
  <2> QED BY <2>1, <2>2
<1>2. CASE KWriteTty(h, data, r) \/ KWriteFails(h, r)
  BY <1>2 DEF KWriteTty, KWriteFails
<1> QED
  BY <1>1, <1>2 DEF KWrite

LEMMA WriteInv ==
  ASSUME HandlerInv, NEW g \in Int, NEW a \in Addr, NEW n \in 0..MemSize,
         SysWrite(g, a, n)
  PROVE  HandlerInv'
<1> DEFINE h == get_host_fd_from_guest_fd(g)
<1>1. TypeOK'
  BY WriteTypeOK DEF HandlerInv
<1>2. UNCHANGED held
  BY DEF SysWrite
<1>3. CASE UNCHANGED <<fds, disk, open_files>>
  BY <1>1, <1>2, <1>3
  DEF HandlerInv, TableMirrorsHost, HeldMatchesHost, StreamsAreNotDevices
<1>4. ASSUME NEW r \in -1..n,
             KWrite(h, Buffer(a, n), r), NoteWrite(h, a, r)
      PROVE  HandlerInv'
  <2>1. a \in Nat /\ r \in Int
    BY HandlerAssumption DEF Addr
  <2>2. /\ DOMAIN fds' = DOMAIN fds
        /\ \A f \in DOMAIN fds : /\ fds'[f].node = fds[f].node
                                 /\ fds'[f].flags = fds[f].flags
    BY <1>4, KWriteKeepsDescriptors DEF HandlerInv, TypeOK
  <2>3. /\ Len(open_files') = Len(open_files)
        /\ \A i \in DOMAIN open_files :
              /\ open_files'[i].guest_fd = open_files[i].guest_fd
              /\ open_files'[i].host_fd = open_files[i].host_fd
              /\ open_files'[i].flags = open_files[i].flags
              /\ open_files'[i].path = open_files[i].path
    BY <1>4, <2>1, NoteWriteType DEF HandlerInv, TypeOK
  <2>4. DOMAIN open_files' = DOMAIN open_files
    BY <1>1, <2>3 DEF HandlerInv, TypeOK
  <2>5. TableMirrorsHost'
    BY <2>2, <2>3, <2>4 DEF HandlerInv, TableMirrorsHost
  <2>6. HeldMatchesHost' /\ StreamsAreNotDevices'
    BY <1>2, <2>2 DEF HandlerInv, HeldMatchesHost, StreamsAreNotDevices
  <2> QED BY <1>1, <2>5, <2>6 DEF HandlerInv
<1> QED
  BY <1>3, <1>4 DEF SysWrite

LEMMA OpenInv ==
  ASSUME HandlerInv, NEW p \in Path, NEW fl \in SUBSET Flag, SysOpen(p, fl)
  PROVE  HandlerInv'
<1>1. TypeOK'
  BY OpenTypeOK DEF HandlerInv
<1>2. CASE UNCHANGED <<fds, disk, open_files, held>>
  BY <1>1, <1>2
  DEF HandlerInv, TableMirrorsHost, HeldMatchesHost, StreamsAreNotDevices
<1>3. ASSUME NEW r \in Fd \cup {-1}, KOpen(p, fl, r),
             open_files' = Append(open_files,
                  [guest_fd |-> r, host_fd |-> r, flags |-> fl,
                   start_addr |-> 0, offset |-> 0, path |-> p]),
             held' = IF r = -1 THEN held
                        ELSE [f \in DOMAIN held \cup {r} |->
                                IF f = r THEN p ELSE held[f]]
      PROVE  HandlerInv'
  <2> DEFINE e == [guest_fd |-> r, host_fd |-> r, flags |-> fl,
                   start_addr |-> 0, offset |-> 0, path |-> p]
             n == Len(open_files)
  <2>1. /\ n \in Nat
        /\ DOMAIN open_files = 1..n /\ DOMAIN open_files' = 1..(n + 1)
        /\ \A i \in 1..n : open_files'[i] = open_files[i]
        /\ open_files'[n + 1] = e
    BY <1>3 DEF HandlerInv, TypeOK
  <2>2. /\ e.guest_fd = r /\ e.host_fd = r /\ e.flags = fl /\ e.path = p
    OBVIOUS
  <2> HIDE DEF e, n
  <2>3. CASE r = -1
    <3>1. UNCHANGED <<fds, held>>
      BY <1>3, <2>3, KernelAssumption DEF KOpen, IsLowestFree, Fd
    <3>2. TableMirrorsHost'
      BY <2>1, <2>2, <2>3, <3>1 DEF HandlerInv, TableMirrorsHost
    <3> QED
      BY <1>1, <3>1, <3>2 DEF HandlerInv, HeldMatchesHost, StreamsAreNotDevices
  <2>4. CASE r # -1
    <3>1. /\ r \in Fd \ DOMAIN fds
          /\ fds' = [f \in DOMAIN fds \cup {r} |->
                       IF f = r THEN [node |-> p, pos |-> 0, flags |-> fl]
                                ELSE fds[f]]
      BY <1>3, <2>4 DEF KOpen, IsLowestFree
    <3>2. /\ DOMAIN fds' = DOMAIN fds \cup {r}
          /\ fds'[r].node = p /\ fds'[r].flags = fl
          /\ \A f \in DOMAIN fds : f # r /\ fds'[f] = fds[f]
      BY <3>1
    <3>3. \A i \in 1..n : open_files[i].host_fd # r
      BY <2>1, <2>4, <3>1 DEF HandlerInv, TableMirrorsHost
    <3>4. \A i \in 1..(n + 1) :
            /\ open_files'[i].guest_fd = open_files'[i].host_fd
            /\ open_files'[i].host_fd # -1 =>
                 /\ open_files'[i].host_fd \in DOMAIN fds'
                 /\ fds'[open_files'[i].host_fd].node = open_files'[i].path
                 /\ fds'[open_files'[i].host_fd].flags = open_files'[i].flags
      BY <2>1, <2>2, <3>2 DEF HandlerInv, TableMirrorsHost
    <3>5. \A i, j \in 1..(n + 1) :
            i # j /\ open_files'[i].host_fd = open_files'[j].host_fd
              => open_files'[i].host_fd = -1
      BY <2>1, <2>2, <3>3 DEF HandlerInv, TableMirrorsHost
    <3>6. \A f \in DOMAIN fds' : fds'[f].node \in Path
            => \E i \in 1..(n + 1) : open_files'[i].host_fd = f
      BY <2>1, <2>2, <3>2 DEF HandlerInv, TableMirrorsHost
    <3>7. TableMirrorsHost'
      BY <2>1, <3>4, <3>5, <3>6 DEF TableMirrorsHost
    <3>8. HeldMatchesHost'
      BY <1>3, <2>4, <3>2 DEF HandlerInv, HeldMatchesHost
    <3>9. StreamsAreNotDevices'
      BY <3>2, KernelAssumption DEF HandlerInv, StreamsAreNotDevices
    <3> QED BY <1>1, <3>7, <3>8, <3>9 DEF HandlerInv
  <2> QED BY <2>3, <2>4
<1> QED
  BY <1>2, <1>3 DEF SysOpen

LEMMA CloseInv ==
  ASSUME HandlerInv, NEW g \in Int, SysClose(g)
  PROVE  HandlerInv'
<1> DEFINE h == get_host_fd_from_guest_fd(g)
<1>1. TypeOK'
  BY CloseTypeOK DEF HandlerInv
<1>2. CASE UNCHANGED <<fds, disk, open_files, held>>
  BY <1>1, <1>2
  DEF HandlerInv, TableMirrorsHost, HeldMatchesHost, StreamsAreNotDevices
<1>3. ASSUME h >= 0, NEW r \in {-1, 0}, KClose(h, r),
             open_files' = IF r = 0 /\ Slots(h) # {}
                                THEN SwapRemove(open_files, FirstSlot(h))
                                ELSE open_files,
             held' = IF r = 0 THEN [f \in DOMAIN held \ {g} |-> held[f]]
                                 ELSE held
      PROVE  HandlerInv'
  <2>1. h = g
    BY <1>3, LookupIsIdentity
  <2>2. CASE r = -1
    <3>1. UNCHANGED <<fds, disk, open_files, held>>
      BY <1>3, <2>2 DEF KClose
    <3> QED BY <1>2, <3>1
  <2>3. CASE r = 0
    <3> DEFINE n == Len(open_files)
    <3>1. /\ h \in DOMAIN fds
          /\ DOMAIN fds' = DOMAIN fds \ {h}
          /\ \A f \in DOMAIN fds' : fds'[f] = fds[f]
      BY <1>3, <2>3 DEF KClose
    <3>2. n \in Nat /\ DOMAIN open_files = 1..n
      BY DEF HandlerInv, TypeOK
    <3>3. /\ \A j \in DOMAIN open_files' :
               \E k \in 1..n : /\ open_files'[j] = open_files[k]
                               /\ open_files[k].host_fd # h
          /\ \A j1, j2 \in DOMAIN open_files' : j1 # j2 =>
               \E k1, k2 \in 1..n : /\ k1 # k2
                                    /\ open_files'[j1] = open_files[k1]
                                    /\ open_files'[j2] = open_files[k2]
          /\ \A k \in 1..n : open_files[k].host_fd # h =>
               \E j \in DOMAIN open_files' : open_files'[j] = open_files[k]
      <4>1. CASE Slots(h) = {}
        <5>1. open_files' = open_files
          BY <1>3, <4>1
        <5>2. \A k \in 1..n : open_files[k].host_fd # h
          BY <3>2, <4>1 DEF Slots, HandlerInv, TableMirrorsHost
        <5> QED BY <3>2, <5>1, <5>2
      <4>2. CASE Slots(h) # {}
        <5> DEFINE i == FirstSlot(h)
        <5>1. i \in 1..n /\ open_files[i].guest_fd = h
          BY <3>2, <4>2, FirstSlotFound
        <5>2. \A k \in 1..n : open_files[k].host_fd = h <=> k = i
          BY <1>3, <3>2, <5>1 DEF HandlerInv, TableMirrorsHost
        <5>3. open_files \in Seq(GuestFile)
          BY DEF HandlerInv, TypeOK
        <5>4. open_files' = SwapRemove(open_files, i)
          BY <1>3, <2>3, <4>2
        <5> DEFINE t == SwapRemove(open_files, i)
        <5>5. DOMAIN t = 1..(n - 1)
          BY <5>1, <5>3, SwapRemoveType
        <5>6. \A j \in 1..(n - 1) : \E k \in 1..n :
                 k # i /\ t[j] = open_files[k]
                       /\ k = IF j = i THEN n ELSE j
          BY <5>1, <5>3, SwapRemoveEntries, Zenon
        <5>7. \A k \in 1..n : k # i =>
                \E j \in 1..(n - 1) : t[j] = open_files[k]
          BY <5>1, <5>3, SwapRemoveEntries, Zenon
        <5> HIDE DEF i, n, t
        <5>8. open_files' = t
          BY <5>4 DEF t
        <5>9. \A j \in DOMAIN open_files' : \E k \in 1..n :
                 open_files'[j] = open_files[k] /\ open_files[k].host_fd # h
          BY <5>2, <5>5, <5>6, <5>8
        <5>10. \A j1, j2 \in DOMAIN open_files' : j1 # j2 =>
               \E k1, k2 \in 1..n : /\ k1 # k2
                                    /\ open_files'[j1] = open_files[k1]
                                    /\ open_files'[j2] = open_files[k2]
          BY <3>2, <5>5, <5>6, <5>8
        <5>11. \A k \in 1..n : open_files[k].host_fd # h =>
               \E j \in DOMAIN open_files' : open_files'[j] = open_files[k]
          BY <5>2, <5>5, <5>7, <5>8
        <5> QED BY <5>9, <5>10, <5>11
      <4> QED BY <4>1, <4>2
    <3> HIDE DEF n
    <3>4. \A j \in DOMAIN open_files' :
            /\ open_files'[j].guest_fd = open_files'[j].host_fd
            /\ open_files'[j].host_fd # -1 =>
                 /\ open_files'[j].host_fd \in DOMAIN fds'
                 /\ fds'[open_files'[j].host_fd].node = open_files'[j].path
                 /\ fds'[open_files'[j].host_fd].flags = open_files'[j].flags
      <4> SUFFICES ASSUME NEW j \in DOMAIN open_files'
                   PROVE
            /\ open_files'[j].guest_fd = open_files'[j].host_fd
            /\ open_files'[j].host_fd # -1 =>
                 /\ open_files'[j].host_fd \in DOMAIN fds'
                 /\ fds'[open_files'[j].host_fd].node = open_files'[j].path
                 /\ fds'[open_files'[j].host_fd].flags = open_files'[j].flags
        OBVIOUS
      <4>1. PICK k \in 1..n : /\ open_files'[j] = open_files[k]
                              /\ open_files[k].host_fd # h
        BY <3>3
      <4>2. /\ open_files[k].guest_fd = open_files[k].host_fd
            /\ open_files[k].host_fd # -1 =>
                 /\ open_files[k].host_fd \in DOMAIN fds
                 /\ fds[open_files[k].host_fd].node = open_files[k].path
                 /\ fds[open_files[k].host_fd].flags = open_files[k].flags
        BY <3>2 DEF HandlerInv, TableMirrorsHost
      <4> QED BY <3>1, <4>1, <4>2
    <3>5. \A j1, j2 \in DOMAIN open_files' :
            j1 # j2 /\ open_files'[j1].host_fd = open_files'[j2].host_fd
              => open_files'[j1].host_fd = -1
      <4>1. \A k1, k2 \in 1..n :
               k1 # k2 /\ open_files[k1].host_fd = open_files[k2].host_fd
                 => open_files[k1].host_fd = -1
        BY <3>2, Zenon DEF HandlerInv, TableMirrorsHost
      <4> SUFFICES ASSUME NEW j1 \in DOMAIN open_files',
                          NEW j2 \in DOMAIN open_files', j1 # j2,
                          open_files'[j1].host_fd = open_files'[j2].host_fd
                   PROVE  open_files'[j1].host_fd = -1
        OBVIOUS
      <4>2. PICK k1 \in 1..n, k2 \in 1..n :
               k1 # k2 /\ open_files'[j1] = open_files[k1]
                       /\ open_files'[j2] = open_files[k2]
        BY <3>3
      <4> QED BY <4>1, <4>2
    <3>6. \A f \in DOMAIN fds' : fds'[f].node \in Path
            => \E j \in DOMAIN open_files' : open_files'[j].host_fd = f
      <4>1. \A f \in DOMAIN fds : fds[f].node \in Path
              => \E k \in 1..n : open_files[k].host_fd = f
        BY <3>2, Zenon DEF HandlerInv, TableMirrorsHost
      <4> SUFFICES ASSUME NEW f \in DOMAIN fds', fds'[f].node \in Path
                   PROVE  \E j \in DOMAIN open_files' : open_files'[j].host_fd = f
        OBVIOUS
      <4>2. f \in DOMAIN fds /\ f # h /\ fds[f].node \in Path
        BY <3>1
      <4>3. PICK k \in 1..n : open_files[k].host_fd = f
        BY <4>1, <4>2
      <4> QED BY <3>3, <4>2, <4>3
    <3>7. TableMirrorsHost'
      BY <3>4, <3>5, <3>6 DEF TableMirrorsHost
    <3>8. HeldMatchesHost'
      BY <1>3, <2>1, <2>3, <3>1 DEF HandlerInv, HeldMatchesHost
    <3>9. StreamsAreNotDevices'
      BY <3>1 DEF HandlerInv, StreamsAreNotDevices
    <3> QED BY <1>1, <3>7, <3>8, <3>9 DEF HandlerInv
  <2> QED BY <2>2, <2>3
<1> QED
  BY <1>2, <1>3 DEF SysClose

LEMMA ExitInv ==
  ASSUME HandlerInv, SysExit
  PROVE  HandlerInv'
<1>1. TypeOK'
  BY ExitTypeOK DEF HandlerInv
<1>2. fds' = NoDescriptors /\ open_files' = <<>> /\ held' = NoDescriptors
  BY DEF SysExit, ProcessEnds
<1> QED
  BY <1>1, <1>2
  DEF HandlerInv, TableMirrorsHost, HeldMatchesHost, StreamsAreNotDevices,
      NoDescriptors

LEMMA StepInv == HandlerInv /\ [Next]_vars => HandlerInv'
<1> SUFFICES ASSUME HandlerInv, [Next]_vars PROVE HandlerInv'
  OBVIOUS
<1>1. ASSUME UNCHANGED <<fds, open_files, held>>, TypeOK'
      PROVE  HandlerInv'
  BY <1>1 DEF HandlerInv, TableMirrorsHost, HeldMatchesHost, StreamsAreNotDevices
<1>2. ASSUME NEW a \in Addr, NEW b \in GuestByte, GuestStore(a, b)
      PROVE  HandlerInv'
  <2>1. TypeOK'
    BY <1>2, HandlerAssumption DEF GuestStore, TypeOK, KernelTypeOK, HandlerInv
  <2> QED BY <1>1, <1>2, <2>1 DEF GuestStore
<1>3. ASSUME NEW g \in GuestFd, NEW a \in Addr, NEW n \in 0..MemSize,
             SysWrite(g, a, n)
      PROVE  HandlerInv'
  BY <1>3, WriteInv, HandlerAssumption
<1>4. ASSUME NEW p \in Path, NEW fl \in GuestOpenFlags, SysOpen(p, fl)
      PROVE  HandlerInv'
  BY <1>4, OpenInv, HandlerAssumption
<1>5. ASSUME NEW g \in CloseFd, SysClose(g)
      PROVE  HandlerInv'
  BY <1>5, CloseInv, HandlerAssumption
<1>6. ASSUME NEW call \in IgnoredCall, SysIgnored(call)
      PROVE  HandlerInv'
  <2>1. TypeOK'
    BY <1>6, HandlerAssumption DEF SysIgnored, TypeOK, KernelTypeOK, HandlerInv
  <2> QED BY <1>1, <1>6, <2>1 DEF SysIgnored
<1>7. CASE SysExit
  BY <1>7, ExitInv
<1>8. CASE UNCHANGED vars
  <2>1. TypeOK'
    BY <1>8 DEF vars, TypeOK, KernelTypeOK, HandlerInv
  <2> QED BY <1>1, <1>8, <2>1 DEF vars
<1> QED
  BY <1>2, <1>3, <1>4, <1>5, <1>6, <1>7, <1>8 DEF Next, GuestStep

-----------------------------------------------------------------------------
(* The table of a launched VMM, the kernel's descriptors and what the      *)
(* guest was told agree after every sequence of calls.                     *)
THEOREM HandlerInvariant == Spec => []HandlerInv
BY InitInv, StepInv, PTL DEF Spec

(* Every entry that is not a failed open is the one record of one open     *)
(* descriptor, and no descriptor on a guest's file is without its entry.   *)
THEOREM TableIsFaithful == Spec => []TableMirrorsHost
<1>1. HandlerInv => TableMirrorsHost
  BY DEF HandlerInv
<1> QED
  BY <1>1, HandlerInvariant, PTL

(* What the guest opened under a number is what its writes and its close   *)
(* of that number reach, until it closes it.                               *)
THEOREM HeldNumbersReachTheirFiles == Spec => []GuestReachesItsFile
BY InvImpliesProperties, HandlerInvariant, PTL

(* No number a guest passes leads to a descriptor of the VMM itself.       *)
THEOREM VmmDescriptorsStayPrivate == Spec => []VmmDescriptorsPrivate
BY InvImpliesProperties, HandlerInvariant, PTL

-----------------------------------------------------------------------------
(* The offsets.  A write is noted in one entry only, that of the           *)
(* descriptor written through.                                             *)
LEMMA NotedInOneEntry ==
  ASSUME HandlerInv, NEW h \in Int, h >= 0, NEW a, NEW r, NoteWrite(h, a, r),
         NEW i \in DOMAIN open_files
  PROVE  open_files'[i].offset =
           IF open_files[i].host_fd = h THEN (open_files[i].offset + r) % OffsetMod
                                        ELSE open_files[i].offset
<1>0. open_files \in Seq(GuestFile) /\ DOMAIN open_files = 1..Len(open_files)
  BY DEF HandlerInv, TypeOK
<1>1. \A k \in DOMAIN open_files :
        /\ open_files[k].guest_fd = h <=> open_files[k].host_fd = h
        /\ k # i => ~ (open_files[k].host_fd = h /\ open_files[i].host_fd = h)
  BY DEF HandlerInv, TableMirrorsHost
<1>2. CASE Slots(h) = {}
  <2>1. open_files[i].host_fd # h
    BY <1>0, <1>1, <1>2 DEF Slots
  <2>2. open_files' = open_files
    BY <1>2 DEF NoteWrite
  <2> QED
    BY <2>1, <2>2
<1>3. CASE Slots(h) # {}
  <2> DEFINE k == FirstSlot(h)
  <2>1. k \in DOMAIN open_files /\ open_files[k].guest_fd = h
    BY <1>0, <1>3, FirstSlotFound
  <2>2. open_files[i].host_fd = h <=> i = k
    BY <1>1, <2>1
  <2>3. open_files' = [open_files EXCEPT ![k] =
            [open_files[k] EXCEPT
               !.start_addr = IF open_files[k].offset = 0 THEN a
                              ELSE open_files[k].start_addr,
               !.offset = (open_files[k].offset + r) % OffsetMod]]
    BY <1>3 DEF NoteWrite
  <2>4. open_files[k] \in GuestFile
    BY <1>0, <2>1, ElementOfSeq
  <2> HIDE DEF k
  <2>5. i # k => open_files'[i] = open_files[i]
    BY <2>1, <2>3
  <2>6. i = k => open_files'[i].offset = (open_files[i].offset + r) % OffsetMod
    BY <2>1, <2>3, <2>4 DEF GuestFile
  <2> QED
    BY <2>2, <2>5, <2>6
<1> QED
  BY <1>2, <1>3

LEMMA OffsetsWrite ==
  ASSUME ~ DiskFaults, HandlerInv, OffsetResumes,
         NEW g \in Int, NEW a \in Addr, NEW n \in 0..MemSize,
         SysWrite(g, a, n)
  PROVE  OffsetResumes'
<1>0. HandlerInv'
  BY WriteInv
<1> DEFINE h == get_host_fd_from_guest_fd(g)
<1>1. CASE UNCHANGED <<fds, open_files>>
  BY <1>1 DEF OffsetResumes
<1>2. ASSUME h >= 0, NEW r \in -1..n, KWrite(h, Buffer(a, n), r), NoteWrite(h, a, r)
      PROVE  OffsetResumes'
  <2>1. h \in Int
    BY <1>2, LookupIsIdentity, HandlerAssumption
  <2> HIDE DEF h
  <2>2. a \in Nat /\ r \in Int
    BY HandlerAssumption DEF Addr
  <2>3. /\ open_files \in Seq(GuestFile) /\ Len(open_files') = Len(open_files)
        /\ \A i \in DOMAIN open_files :
              /\ open_files'[i].host_fd = open_files[i].host_fd
              /\ open_files'[i].flags = open_files[i].flags
    BY <1>2, <2>2, NoteWriteType DEF HandlerInv, TypeOK
  <2>4. DOMAIN open_files' = DOMAIN open_files
    BY <1>0, <2>3 DEF HandlerInv, TypeOK
  <2>5. SUFFICES ASSUME NEW i \in DOMAIN open_files,
                        open_files[i].host_fd # -1,
                        {"APPEND", "RDONLY"} \cap open_files[i].flags = {}
                 PROVE  /\ open_files[i].host_fd \in DOMAIN fds'
                        /\ open_files'[i].offset =
                             fds'[open_files[i].host_fd].pos % OffsetMod
    BY <2>3, <2>4 DEF OffsetResumes
  <2>6. PICK f \in DOMAIN fds : f = open_files[i].host_fd
    BY <2>5 DEF HandlerInv, TableMirrorsHost
  <2>7. /\ fds[f].flags = open_files[i].flags
        /\ fds[f].node = open_files[i].path /\ fds[f].node \in Path
        /\ open_files[i].offset = fds[f].pos % OffsetMod
    <3>1. open_files[i] \in GuestFile
      BY <2>3, ElementOfSeq
    <3> QED
      BY <2>5, <2>6, <3>1
      DEF HandlerInv, TableMirrorsHost, OffsetResumes, GuestFile
  <2>8. open_files'[i].offset =
          IF f = h THEN (open_files[i].offset + r) % OffsetMod
                   ELSE open_files[i].offset
    BY <1>2, <2>1, <2>6, NotedInOneEntry
  <2>9. CASE f # h
    <3>1. f \in DOMAIN fds' /\ fds'[f] = fds[f]
      BY <1>2, <2>9 DEF KWrite, KWriteFile, KWriteTty, KWriteFails,
                        HandlerInv, TypeOK, KernelTypeOK
    <3> QED
      BY <2>6, <2>7, <2>8, <2>9, <3>1
  <2>10. CASE f = h
    <3>1. KWriteFile(h, Buffer(a, n), r)
      BY <1>2, <2>5, <2>7, <2>10, KernelAssumption
      DEF KWrite, KWriteTty, KWriteFails
    <3>2. PICK p \in Nat : p = fds[f].pos
      BY DEF HandlerInv, TypeOK, KernelTypeOK, OpenFile
    <3>3. WritePos(h) = p
      BY <2>5, <2>7, <2>10, <3>2 DEF WritePos
    <3>4. f \in DOMAIN fds' /\ fds'[f].pos = p + r
      <4>1. fds[f] \in OpenFile /\ fds' = [fds EXCEPT ![f].pos = p + r]
        BY <2>10, <3>1, <3>3 DEF KWriteFile, HandlerInv, TypeOK, KernelTypeOK
      <4> QED
        BY <4>1 DEF OpenFile
    <3>5. OffsetMod \in Nat /\ OffsetMod > 0
      BY HandlerAssumption
    <3>6. open_files'[i].offset = ((p % OffsetMod) + r) % OffsetMod
      BY <2>7, <2>8, <2>10, <3>2
    <3>7. ((p % OffsetMod) + r) % OffsetMod = (p + r) % OffsetMod
      <4>1. p \in Int /\ r \in Int
        BY <2>2, <3>2
      <4> QED
        BY <3>5, <4>1, ModAdd, Zenon
    <3> QED
      BY <2>6, <3>4, <3>6, <3>7
  <2> QED
    BY <2>9, <2>10
<1> QED
  BY <1>1, <1>2 DEF SysWrite

LEMMA OffsetsOpen ==
  ASSUME HandlerInv, OffsetResumes, NEW p \in Path, NEW fl \in SUBSET Flag,
         SysOpen(p, fl)
  PROVE  OffsetResumes'
<1>1. CASE UNCHANGED <<fds, open_files>>
  BY <1>1 DEF OffsetResumes
<1> DEFINE e(r) == [guest_fd |-> r, host_fd |-> r, flags |-> fl,
                    start_addr |-> 0, offset |-> 0, path |-> p]
<1>2. ASSUME NEW r \in Fd \cup {-1}, KOpen(p, fl, r),
             open_files' = Append(open_files, e(r))
      PROVE  OffsetResumes'
  <2>1. /\ DOMAIN open_files' = 1..(Len(open_files) + 1)
        /\ DOMAIN open_files = 1..Len(open_files) /\ Len(open_files) \in Nat
        /\ \A i \in DOMAIN open_files : open_files'[i] = open_files[i]
        /\ open_files'[Len(open_files) + 1] = e(r)
    BY <1>2 DEF HandlerInv, TypeOK
  <2>2. e(r).host_fd = r /\ e(r).offset = 0
    OBVIOUS
  <2> HIDE DEF e
  <2>3. \A f \in DOMAIN fds : f \in DOMAIN fds' /\ fds'[f] = fds[f]
    BY <1>2 DEF KOpen, IsLowestFree
  <2>4. r # -1 => r \in DOMAIN fds' /\ fds'[r].pos = 0
    BY <1>2 DEF KOpen
  <2>5. 0 % OffsetMod = 0
    BY HandlerAssumption
  <2>6. \A i \in DOMAIN open_files' :
          i \in DOMAIN open_files \/ i = Len(open_files) + 1
    BY <2>1
  <2> QED
    BY <2>1, <2>2, <2>3, <2>4, <2>5, <2>6 DEF OffsetResumes
<1> QED
  BY <1>1, <1>2 DEF SysOpen

LEMMA OffsetsClose ==
  ASSUME HandlerInv, OffsetResumes, NEW g \in Int, SysClose(g)
  PROVE  OffsetResumes'
<1>0. HandlerInv'
  BY CloseInv
<1>1. CASE UNCHANGED <<fds, open_files>>
  BY <1>1 DEF OffsetResumes
<1> DEFINE h == get_host_fd_from_guest_fd(g)
<1>2. ASSUME NEW r \in {-1, 0}, KClose(h, r),
             open_files' = IF r = 0 /\ Slots(h) # {}
                                THEN SwapRemove(open_files, FirstSlot(h))
                                ELSE open_files
      PROVE  OffsetResumes'
  <2>1. \A f \in DOMAIN fds' : f \in DOMAIN fds /\ fds'[f] = fds[f]
    BY <1>2 DEF KClose
  <2>2. \A j \in DOMAIN open_files' : \E k \in DOMAIN open_files :
          open_files'[j] = open_files[k]
    <3>1. CASE Slots(h) # {} /\ open_files' = SwapRemove(open_files, FirstSlot(h))
      <4> DEFINE i == FirstSlot(h)
                 n == Len(open_files)
                 t == SwapRemove(open_files, i)
      <4>1. open_files \in Seq(GuestFile) /\ DOMAIN open_files = 1..n
        BY DEF HandlerInv, TypeOK
      <4>2. i \in 1..n
        BY <3>1, <4>1, FirstSlotFound
      <4> HIDE DEF i
      <4>3. DOMAIN t = 1..(n - 1)
        BY <4>1, <4>2, SwapRemoveType
      <4>4. \A j \in 1..(n - 1) : \E k \in 1..n :
               k # i /\ t[j] = open_files[k] /\ k = IF j = i THEN n ELSE j
        BY <4>1, <4>2, SwapRemoveEntries, Zenon
      <4>5. open_files' = t
        BY <3>1 DEF i
      <4> HIDE DEF n, t
      <4> QED
        BY <4>1, <4>3, <4>4, <4>5
    <3>2. CASE open_files' = open_files
      BY <3>2
    <3> QED
      BY <1>2, <3>1, <3>2
  <2>3. SUFFICES ASSUME NEW j \in DOMAIN open_files',
                        open_files'[j].host_fd # -1,
                        {"APPEND", "RDONLY"} \cap open_files'[j].flags = {}
                 PROVE  LET e == open_files'[j] IN
                        /\ e.host_fd \in DOMAIN fds'
                        /\ e.offset = fds'[e.host_fd].pos % OffsetMod
    BY DEF OffsetResumes
  <2>4. open_files'[j].host_fd \in DOMAIN fds'
    BY <1>0, <2>3 DEF HandlerInv, TableMirrorsHost
  <2>5. PICK k \in DOMAIN open_files : open_files'[j] = open_files[k]
    BY <2>2
  <2> QED
    BY <2>1, <2>3, <2>4, <2>5 DEF OffsetResumes
<1> QED
  BY <1>1, <1>2 DEF SysClose

(* As long as the disk does not fail, the offset that SAVE will find in an *)
(* entry is the kernel's position, whatever the guest has written, with    *)
(* full or partial writes.                                                 *)
THEOREM OffsetsArePositions ==
  ASSUME ~ DiskFaults
  PROVE  Spec => []OffsetResumes
<1>1. Init => OffsetResumes
  BY DEF Init, Launched, OffsetResumes
<1>2. HandlerInv /\ OffsetResumes /\ [Next]_vars => OffsetResumes'
  <2> SUFFICES ASSUME HandlerInv, OffsetResumes, [Next]_vars
               PROVE  OffsetResumes'
    OBVIOUS
  <2>1. ASSUME UNCHANGED <<fds, open_files>>
        PROVE  OffsetResumes'
    BY <2>1 DEF OffsetResumes
  <2>2. CASE SysExit
    BY <2>2 DEF SysExit, ProcessEnds, OffsetResumes
  <2> QED
    BY <2>1, <2>2, OffsetsWrite, OffsetsOpen, OffsetsClose, HandlerAssumption
    DEF Next, GuestStep, GuestStore, SysIgnored, vars
<1> QED
  BY <1>1, <1>2, HandlerInvariant, PTL DEF Spec
=============================================================================
