------------------------ MODULE ColdMigration_proofs ------------------------
(***************************************************************************)
(* ColdMigration's safety properties, for every size of the table, every   *)
(* set of files, flags and descriptors, and any number of restores; with   *)
(* and without disk faults, but for the replays at the end, which need a   *)
(* sound disk that takes writes whole.                                     *)
(*                                                                         *)
(* The guest's calls are SyscallHandler's, and so are the lemmas about     *)
(* them.  The file goes through the parts of MigrationInv one by one, and  *)
(* from it to the properties.                                              *)
(***************************************************************************)
EXTENDS ColdMigration, SyscallHandler_proofs, FiniteSetTheorems

-----------------------------------------------------------------------------
(* The steps, with any guest: a call it makes, with any arguments, or what *)
(* it does to its memory and registers meanwhile; and those of the VMM     *)
(* process.  VirtualMachine has them as well, for the guest that is app.c. *)
ServedCall ==
  /\ \/ \E g \in Int, a \in Addr, n \in 0..MemSize : GuestWrite(g, a, n)
     \/ \E p \in Path, fl \in SUBSET Flag : GuestOpen(p, fl)
     \/ \E g \in Int : GuestClose(g)
     \/ /\ vmm = "running"
        /\ rax' \in Int /\ mem' \in [Addr -> Byte]
        /\ UNCHANGED <<fds, disk, open_files, held, vmm, sent>>
  /\ UNCHANGED <<image, restored_from_snapshot, restores>>

MigrationStep ==
  \/ ServedCall \/ SysSave \/ SaveStep \/ RestoreStart \/ RestoreStep
  \/ MigrationProcessEnds /\ UNCHANGED image
  \/ UNCHANGED migrationVars

LEMMA NextIsStep ==
  ASSUME MigrationTypeOK, [MigrationNext]_migrationVars
  PROVE  MigrationStep
<1>1. ASSUME NEW a \in Addr, NEW b \in GuestByte, GuestStore(a, b), UNCHANGED sent
      PROVE  /\ vmm = "running"
             /\ rax' \in Int /\ mem' \in [Addr -> Byte]
             /\ UNCHANGED <<fds, disk, open_files, held, vmm, sent>>
  BY <1>1, HandlerAssumption DEF GuestStore, MigrationTypeOK
<1>2. ASSUME NEW call \in IgnoredCall, SysIgnored(call), UNCHANGED sent
      PROVE  /\ vmm = "running"
             /\ rax' \in Int /\ mem' \in [Addr -> Byte]
             /\ UNCHANGED <<fds, disk, open_files, held, vmm, sent>>
  BY <1>2, HandlerAssumption DEF SysIgnored, MigrationTypeOK
<1>3. GuestCall => ServedCall
  BY <1>1, <1>2, HandlerAssumption DEF GuestCall, ServedCall
<1> QED
  BY <1>3 DEF MigrationNext, MigrationStep, GuestExit, Crash

(* What the guest's calls do to what the guest knows.                      *)
LEMMA RunningIsTyped ==
  ASSUME MigrationTypeOK, vmm = "running"
  PROVE  TypeOK
BY DEF MigrationTypeOK, TypeOK

LEMMA TypedAgain ==
  ASSUME TypeOK', vmm' = "running",
         sent' \in [DOMAIN held' -> Seq(Byte)],
         restored_from_snapshot' \in BOOLEAN, restores' \in 0..MaxRestores
  PROVE  MigrationTypeOK'
BY DEF MigrationTypeOK, TypeOK

LEMMA GuestWriteTypes ==
  ASSUME MigrationTypeOK, vmm = "running", NEW g \in Int, NEW a \in Addr,
         NEW n \in 0..MemSize, GuestWrite(g, a, n)
  PROVE  TypeOK' /\ sent' \in [DOMAIN held' -> Seq(Byte)]
<1>1. TypeOK /\ SysWrite(g, a, n)
  BY RunningIsTyped DEF GuestWrite
<1>2. TypeOK' /\ held' = held
  BY <1>1, WriteTypeOK DEF SysWrite
<1>3. SUFFICES ASSUME g \in DOMAIN held, rax' > 0
               PROVE  sent[g] \o SubSeq(Buffer(a, n), 1, rax') \in Seq(Byte)
  BY <1>2 DEF GuestWrite, MigrationTypeOK
<1>4. Buffer(a, n) \in Seq(Byte) /\ Len(Buffer(a, n)) = n
  BY <1>1, BufferType, HandlerAssumption DEF SysWrite, TypeOK
<1>5. PICK r \in -1..n : rax' = r
  BY <1>1, HandlerAssumption DEF SysWrite
<1>6. \A i \in 1..r : Buffer(a, n)[i] \in Byte
  BY <1>4, <1>5, ElementOfSeq
<1>7. SubSeq(Buffer(a, n), 1, r) \in Seq(Byte)
  BY <1>5, <1>6, SubSeqProperties, 1 \in Int
<1>8. sent[g] \in Seq(Byte)
  BY <1>3 DEF MigrationTypeOK
<1> QED
  BY <1>5, <1>7, <1>8, ConcatProperties

LEMMA GuestOpenTypes ==
  ASSUME MigrationTypeOK, vmm = "running", NEW p \in Path,
         NEW fl \in SUBSET Flag, GuestOpen(p, fl)
  PROVE  TypeOK' /\ sent' \in [DOMAIN held' -> Seq(Byte)]
<1>1. TypeOK /\ SysOpen(p, fl)
  BY RunningIsTyped DEF GuestOpen
<1>2. TypeOK'
  BY <1>1, OpenTypeOK
<1>3. \A g \in DOMAIN held' : g \in DOMAIN held \/ (held' # held /\ g = rax')
  BY <1>1 DEF SysOpen
<1>4. <<>> \in Seq(Byte)
  BY EmptySeq
<1> QED
  BY <1>2, <1>3, <1>4 DEF GuestOpen, MigrationTypeOK

LEMMA GuestCloseTypes ==
  ASSUME MigrationTypeOK, vmm = "running", NEW g \in Int, GuestClose(g)
  PROVE  TypeOK' /\ sent' \in [DOMAIN held' -> Seq(Byte)]
<1>1. TypeOK /\ SysClose(g)
  BY RunningIsTyped DEF GuestClose
<1>2. TypeOK'
  BY <1>1, CloseTypeOK
<1>3. \A n \in DOMAIN held' : n \in DOMAIN held
  BY <1>1 DEF SysClose
<1> QED
  BY <1>2, <1>3 DEF GuestClose, MigrationTypeOK

(* Each call of the guest, as a step of SyscallHandler.                    *)
LEMMA ServedCallTypes ==
  ASSUME MigrationTypeOK, ServedCall
  PROVE  /\ MigrationTypeOK' /\ TypeOK /\ TypeOK'
         /\ vmm = "running" /\ vmm' = "running"
         /\ UNCHANGED <<image, restored_from_snapshot, restores>>
<1>1. /\ vmm = "running" /\ vmm' = "running"
      /\ UNCHANGED <<image, restored_from_snapshot, restores>>
  BY DEF ServedCall, GuestWrite, SysWrite, GuestOpen, SysOpen, GuestClose, SysClose
<1>2. TypeOK
  BY <1>1, RunningIsTyped
<1>3. TypeOK' /\ sent' \in [DOMAIN held' -> Seq(Byte)]
  <2>1. ASSUME rax' \in Int, mem' \in [Addr -> Byte],
               UNCHANGED <<fds, disk, open_files, held, vmm, sent>>
        PROVE  TypeOK' /\ sent' \in [DOMAIN held' -> Seq(Byte)]
    BY <1>2, <2>1 DEF TypeOK, KernelTypeOK, MigrationTypeOK
  <2> QED
    BY <1>1, <2>1, GuestWriteTypes, GuestOpenTypes, GuestCloseTypes
    DEF ServedCall
<1> QED
  BY <1>1, <1>2, <1>3, TypedAgain DEF MigrationTypeOK

-----------------------------------------------------------------------------
(* Type correctness of the other steps.                                    *)
LEMMA ProcessEndsTypes ==
  ASSUME MigrationTypeOK, MigrationProcessEnds
  PROVE  MigrationTypeOK'
<1>1. /\ fds' = NoDescriptors /\ held' = NoDescriptors /\ sent' = NoDescriptors
      /\ open_files' = <<>> /\ rax' = 0 /\ mem' = [a \in Addr |-> ZeroByte]
      /\ vmm' = "exited" /\ restored_from_snapshot' = FALSE
      /\ UNCHANGED <<disk, restores>>
  BY DEF MigrationProcessEnds, ProcessEnds
<1>2. KernelTypeOK'
  BY <1>1 DEF MigrationTypeOK, KernelTypeOK, NoDescriptors
<1>3. open_files' \in Seq(GuestFile) /\ Len(open_files') <= MAX_OPEN_FILES
  BY <1>1, EmptySeq, HandlerAssumption
<1>4. mem' \in [Addr -> Byte] /\ rax' \in Int
  BY <1>1, ZeroByteAssumption
<1>5. /\ held' \in [DOMAIN held' -> Path] /\ DOMAIN held' \subseteq Fd
      /\ sent' \in [DOMAIN held' -> Seq(Byte)]
  <2>1. DOMAIN held' = {} /\ DOMAIN sent' = {}
    BY <1>1 DEF NoDescriptors
  <2> QED
    BY <1>1, <2>1 DEF NoDescriptors
<1>6. restores' \in 0..MaxRestores
  BY <1>1 DEF MigrationTypeOK
<1> QED
  BY <1>1, <1>2, <1>3, <1>4, <1>5, <1>6 DEF MigrationTypeOK

LEMMA ReplayDataType ==
  ASSUME MigrationTypeOK, NEW e \in GuestFile
  PROVE  ReplayData(e) \in Seq(Byte)
<1>1. e.offset \in Nat /\ e.start_addr \in Nat
  BY HandlerAssumption DEF GuestFile
<1>2. \A k \in 1..e.offset : e.start_addr + k <= MemSize =>
        mem[e.start_addr + k - 1] \in Byte
  BY <1>1, HandlerAssumption DEF MigrationTypeOK, Addr
<1>3. ReplayData(e) \in [1..e.offset -> Byte]
  BY <1>1, <1>2, MigrationAssumption DEF ReplayData
<1> QED
  BY <1>1, <1>3

LEMMA RestoreStartTypes ==
  ASSUME MigrationTypeOK, ImageIsDump, RestoreStart
  PROVE  MigrationTypeOK'
<1>1. /\ fds' = ProcessFds(VmmFds) /\ restores' = restores + 1
      /\ restores < MaxRestores
      /\ UNCHANGED <<disk, open_files, restored_from_snapshot>>
  BY DEF RestoreStart
<1>2. KernelTypeOK'
  <2>1. DOMAIN fds' \subseteq Fd /\ fds' \in [DOMAIN fds' -> OpenFile]
    BY <1>1, HandlerAssumption DEF ProcessFds, OpenFile
  <2>2. \A h \in DOMAIN fds' : fds'[h].node \notin Path
    BY <1>1, KernelAssumption DEF ProcessFds
  <2> QED
    BY <1>1, <2>1, <2>2 DEF MigrationTypeOK, KernelTypeOK
<1>3. restores' \in 0..MaxRestores
  BY <1>1, MigrationAssumption DEF MigrationTypeOK
<1>4. /\ rax' \in Int /\ mem' \in [Addr -> Byte]
      /\ held' \in [DOMAIN held' -> Path] /\ DOMAIN held' \subseteq Fd
      /\ sent' \in [DOMAIN held' -> Seq(Byte)]
      /\ vmm' \in {"undefined", "reopening"}
  BY DEF RestoreStart, MigrationTypeOK, ImageIsDump, IsDump
<1> QED
  BY <1>1, <1>2, <1>3, <1>4 DEF MigrationTypeOK

LEMMA ReopenFileTypes ==
  ASSUME MigrationTypeOK, ImageIsDump, RestoreFollowsImage, ReopenFile
  PROVE  MigrationTypeOK'
<1>1. /\ image \notin {NoImage, Torn} /\ IsDump(image)
      /\ Len(open_files) < Len(image.open_files)
      /\ open_files \in Seq(GuestFile)
  BY DEF ReopenFile, RestoreFollowsImage, ImageIsDump, MigrationTypeOK
<1> DEFINE e == image.open_files[Len(open_files) + 1]
<1>2. e \in GuestFile
  <2>1. Len(open_files) + 1 \in 1..Len(image.open_files)
    BY <1>1 DEF IsDump
  <2> QED
    BY <1>1, <2>1, ElementOfSeq DEF IsDump
<1>3. PICK r \in Fd \cup {-1} :
        KOpen(e.path, e.flags, r) /\ open_files' = Append(open_files, ReopenedEntry(e, r))
  BY DEF ReopenFile
<1> HIDE DEF e
<1>4. KernelTypeOK'
  BY <1>2, <1>3, KOpenType DEF MigrationTypeOK, GuestFile
<1>5. ReopenedEntry(e, r) \in GuestFile
  BY <1>2 DEF ReopenedEntry, GuestFile
<1>6. open_files' \in Seq(GuestFile) /\ Len(open_files') <= MAX_OPEN_FILES
  BY <1>1, <1>3, <1>5, HandlerAssumption DEF IsDump
<1> QED
  BY <1>4, <1>6 DEF MigrationTypeOK, ReopenFile

LEMMA ReplayFileTypes ==
  ASSUME MigrationTypeOK, RestoreFollowsImage, ReplayFile
  PROVE  MigrationTypeOK'
<1> DEFINE e == open_files[Len(open_files)]
<1>1. e \in GuestFile
  <2>1. open_files \in Seq(GuestFile) /\ open_files # <<>>
    BY DEF ReplayFile, RestoreFollowsImage, MigrationTypeOK
  <2>2. Len(open_files) \in 1..Len(open_files)
    BY <2>1, EmptySeq
  <2> QED
    BY <2>1, <2>2, ElementOfSeq
<1>2. PICK r : KWrite(e.host_fd, ReplayData(e), r)
  BY DEF ReplayFile
<1> HIDE DEF e
<1>3. KernelTypeOK'
  BY <1>1, <1>2, ReplayDataType, KWriteType DEF MigrationTypeOK
<1> QED
  BY <1>3 DEF MigrationTypeOK, ReplayFile

LEMMA MigrationTypesStep ==
  ASSUME MigrationInv, MigrationStep
  PROVE  MigrationTypeOK'
<1>0. MigrationTypeOK /\ ImageIsDump /\ RestoreFollowsImage
  BY DEF MigrationInv
<1>1. CASE ServedCall
  BY <1>0, <1>1, ServedCallTypes
<1>2. CASE MigrationProcessEnds
  BY <1>0, <1>2, ProcessEndsTypes
<1>3. CASE SysSave
  <2>1. /\ rax' \in Int /\ vmm' \in {"running", "saving"}
        /\ restored_from_snapshot' \in BOOLEAN
        /\ UNCHANGED <<fds, disk, open_files, mem, held, sent, restores>>
    <3>1. /\ rax' = SAVE /\ vmm = "running"
          /\ UNCHANGED <<fds, disk, open_files, mem, held, sent, restores>>
          /\ \/ restored_from_snapshot' = FALSE /\ vmm' = vmm
             \/ restored_from_snapshot' = restored_from_snapshot /\ vmm' = "saving"
      BY <1>3 DEF SysSave
    <3>2. restored_from_snapshot \in BOOLEAN
      BY <1>0 DEF MigrationTypeOK
    <3>3. rax' \in Int
      BY <3>1 DEF SAVE
    <3>4. restored_from_snapshot' \in BOOLEAN
      BY <3>1, <3>2, Zenon
    <3> QED
      BY <3>1, <3>3, <3>4
  <2> QED
    BY <1>0, <2>1 DEF MigrationTypeOK, KernelTypeOK
<1>4. CASE OpenImage
  BY <1>0, <1>4 DEF OpenImage, MigrationTypeOK, KernelTypeOK
<1>5. CASE RestoreStart
  BY <1>0, <1>5, RestoreStartTypes
<1>6. CASE ReopenFile
  BY <1>0, <1>6, ReopenFileTypes
<1>7. CASE ReplayFile
  BY <1>0, <1>7, ReplayFileTypes
<1>8. CASE RestoreFinish
  BY <1>0, <1>8 DEF RestoreFinish, MigrationTypeOK, KernelTypeOK
<1>9. CASE UNCHANGED migrationVars
  BY <1>0, <1>9 DEF migrationVars, MigrationTypeOK, KernelTypeOK
<1> QED
  BY <1>1, <1>2, <1>3, <1>4, <1>5, <1>6, <1>7, <1>8, <1>9
  DEF MigrationStep, SaveStep, OpenImageFails, WriteImageAndExit,
      RestoreStep

-----------------------------------------------------------------------------
(* What a call can do to the descriptors, the disk and the table, whoever  *)
(* makes it: descriptors come on files, files stay, and an entry is an old *)
(* one or that of a file just opened.                                      *)
OnlyFilesOpened ==
  /\ DOMAIN disk \subseteq DOMAIN disk'
  /\ \A h \in DOMAIN fds' :
       \/ fds'[h].node \in Path
       \/ h \in DOMAIN fds /\ fds'[h].node = fds[h].node

EntriesFromBefore ==
  \A i \in DOMAIN open_files' :
    LET h == open_files'[i].host_fd IN
    \/ h \in DOMAIN fds' => fds'[h].node \in Path
    \/ \E k \in DOMAIN open_files : open_files[k].host_fd = h

LEMMA KOpenEffect ==
  ASSUME NEW p \in Path, NEW fl, NEW r, KOpen(p, fl, r)
  PROVE  OnlyFilesOpened /\ (r \in DOMAIN fds' => fds'[r].node \in Path \/ r = -1)
BY DEF KOpen, OnlyFilesOpened

LEMMA KWriteEffect ==
  ASSUME NEW h, NEW data, NEW r, KernelTypeOK, KWrite(h, data, r)
  PROVE  OnlyFilesOpened
<1>1. DOMAIN disk' = DOMAIN disk
  BY DEF KWrite, KWriteFile, KWriteTty, KWriteFails, KernelTypeOK
<1> QED
  BY <1>1, KWriteKeepsDescriptors DEF OnlyFilesOpened

LEMMA KCloseEffect ==
  ASSUME NEW h, NEW r, KClose(h, r)
  PROVE  OnlyFilesOpened
BY DEF KClose, OnlyFilesOpened

(* A close leaves only entries that were there before.                     *)
LEMMA CloseKeepsEntries ==
  ASSUME TypeOK, NEW g \in Int, SysClose(g)
  PROVE  \A j \in DOMAIN open_files' : \E k \in DOMAIN open_files :
           open_files'[j] = open_files[k]
<1> DEFINE h == get_host_fd_from_guest_fd(g)
           i == FirstSlot(h)
<1>1. \/ open_files' = open_files
      \/ open_files' = SwapRemove(open_files, i) /\ Slots(h) # {}
  BY DEF SysClose
<1>2. CASE open_files' = SwapRemove(open_files, i) /\ Slots(h) # {}
  <2>1. open_files \in Seq(GuestFile) /\ DOMAIN open_files = 1..Len(open_files)
    BY DEF TypeOK
  <2>2. i \in 1..Len(open_files)
    BY <1>2, <2>1, FirstSlotFound
  <2> HIDE DEF i
  <2> DEFINE n == Len(open_files)
             t == SwapRemove(open_files, i)
  <2>3. DOMAIN t = 1..(n - 1)
    BY <2>1, <2>2, SwapRemoveType
  <2>4. \A j \in 1..(n - 1) : \E k \in 1..n :
           k # i /\ t[j] = open_files[k] /\ k = IF j = i THEN n ELSE j
    BY <2>1, <2>2, SwapRemoveEntries, Zenon
  <2>5. DOMAIN open_files = 1..n /\ open_files' = t
    BY <1>2, <2>1
  <2> HIDE DEF n, t
  <2> QED
    BY <2>3, <2>4, <2>5
<1> QED
  BY <1>1, <1>2

LEMMA ServedCallEffect ==
  ASSUME MigrationTypeOK, ServedCall
  PROVE  OnlyFilesOpened /\ EntriesFromBefore
<1>0. TypeOK /\ TypeOK'
  BY ServedCallTypes
<1>1. ASSUME UNCHANGED <<fds, disk, open_files>>
      PROVE  OnlyFilesOpened /\ EntriesFromBefore
  BY <1>1 DEF OnlyFilesOpened, EntriesFromBefore
<1>2. ASSUME NEW g \in Int, NEW a \in Addr, NEW n \in 0..MemSize,
             SysWrite(g, a, n)
      PROVE  OnlyFilesOpened /\ EntriesFromBefore
  <2> DEFINE h == get_host_fd_from_guest_fd(g)
  <2>1. SUFFICES ASSUME NEW r \in -1..n,
                        KWrite(h, Buffer(a, n), r), NoteWrite(h, a, r)
                 PROVE  OnlyFilesOpened /\ EntriesFromBefore
    BY <1>1, <1>2 DEF SysWrite
  <2>2. OnlyFilesOpened
    BY <1>0, <2>1, KWriteEffect DEF TypeOK
  <2>3. a \in Nat /\ r \in Int
    BY HandlerAssumption DEF Addr
  <2>4. /\ Len(open_files') = Len(open_files)
        /\ \A i \in DOMAIN open_files :
              open_files'[i].host_fd = open_files[i].host_fd
    BY <1>0, <2>1, <2>3, NoteWriteType DEF TypeOK
  <2>5. DOMAIN open_files' = DOMAIN open_files
    BY <1>0, <2>4 DEF TypeOK
  <2> QED
    BY <2>2, <2>4, <2>5 DEF EntriesFromBefore
<1>3. ASSUME NEW p \in Path, NEW fl \in SUBSET Flag, SysOpen(p, fl)
      PROVE  OnlyFilesOpened /\ EntriesFromBefore
  <2> DEFINE e(r) == [guest_fd |-> r, host_fd |-> r, flags |-> fl,
                      start_addr |-> 0, offset |-> 0, path |-> p]
  <2>1. SUFFICES ASSUME NEW r \in Fd \cup {-1}, KOpen(p, fl, r),
                        open_files' = Append(open_files, e(r))
                 PROVE  OnlyFilesOpened /\ EntriesFromBefore
    BY <1>1, <1>3 DEF SysOpen
  <2>2. /\ OnlyFilesOpened
        /\ r \in DOMAIN fds' => fds'[r].node \in Path \/ r = -1
    BY <2>1, KOpenEffect
  <2>3. -1 \notin DOMAIN fds'
    BY <1>0, KernelAssumption DEF TypeOK, KernelTypeOK, Fd
  <2>4. /\ DOMAIN open_files' = 1..(Len(open_files) + 1)
        /\ DOMAIN open_files = 1..Len(open_files) /\ Len(open_files) \in Nat
        /\ \A i \in DOMAIN open_files : open_files'[i] = open_files[i]
        /\ open_files'[Len(open_files) + 1] = e(r)
    BY <1>0, <2>1 DEF TypeOK
  <2>5. e(r).host_fd = r
    OBVIOUS
  <2> HIDE DEF e
  <2>6. \A i \in DOMAIN open_files' :
          i \in DOMAIN open_files \/ i = Len(open_files) + 1
    BY <2>4
  <2> QED
    BY <2>2, <2>3, <2>4, <2>5, <2>6 DEF EntriesFromBefore
<1>4. ASSUME NEW g \in Int, SysClose(g)
      PROVE  OnlyFilesOpened /\ EntriesFromBefore
  <2>1. OnlyFilesOpened
    BY <1>1, <1>4, KCloseEffect DEF SysClose
  <2> QED
    BY <1>0, <1>4, <2>1, CloseKeepsEntries DEF EntriesFromBefore
<1> QED
  BY <1>1, <1>2, <1>3, <1>4
  DEF ServedCall, GuestWrite, GuestOpen, GuestClose

-----------------------------------------------------------------------------
(* No entry and no standard stream leads to the VMM's own descriptors.     *)
LEMMA StillNotDevices ==
  ASSUME StreamsAreNotDevices, EntriesAreNotDevices,
         OnlyFilesOpened, EntriesFromBefore
  PROVE  StreamsAreNotDevices' /\ EntriesAreNotDevices'
BY KernelAssumption
DEF StreamsAreNotDevices, EntriesAreNotDevices, OnlyFilesOpened, EntriesFromBefore

LEMMA ReopenFileEffect ==
  ASSUME MigrationInv, ReopenFile, MigrationTypeOK'
  PROVE  OnlyFilesOpened /\ EntriesFromBefore
<1> DEFINE n == Len(open_files)
           e == image.open_files[n + 1]
<1>1. /\ IsDump(image) /\ n < Len(image.open_files)
      /\ open_files \in Seq(GuestFile)
  BY DEF ReopenFile, RestoreFollowsImage, ImageIsDump, MigrationTypeOK,
         MigrationInv
<1>2. e \in GuestFile
  <2>1. n + 1 \in 1..Len(image.open_files)
    BY <1>1 DEF IsDump
  <2> QED
    BY <1>1, <2>1, ElementOfSeq DEF IsDump
<1>3. PICK r \in Fd \cup {-1} :
        /\ KOpen(e.path, e.flags, r)
        /\ open_files' = Append(open_files, ReopenedEntry(e, r))
  BY DEF ReopenFile
<1> HIDE DEF e
<1>4. OnlyFilesOpened /\ (r \in DOMAIN fds' => fds'[r].node \in Path \/ r = -1)
  BY <1>2, <1>3, KOpenEffect DEF GuestFile
<1>5. -1 \notin DOMAIN fds'
  BY KernelAssumption DEF MigrationTypeOK, KernelTypeOK, Fd
<1>6. /\ DOMAIN open_files' = 1..(n + 1)
      /\ DOMAIN open_files = 1..n /\ n \in Nat
      /\ \A i \in DOMAIN open_files : open_files'[i] = open_files[i]
      /\ open_files'[n + 1] = ReopenedEntry(e, r)
  BY <1>1, <1>3
<1>7. ReopenedEntry(e, r).host_fd = r
  BY <1>2 DEF ReopenedEntry, GuestFile
<1>8. \A i \in DOMAIN open_files' : i \in DOMAIN open_files \/ i = n + 1
  BY <1>6
<1> HIDE DEF n
<1> QED
  BY <1>4, <1>5, <1>6, <1>7, <1>8 DEF EntriesFromBefore

LEMMA ReplayFileEffect ==
  ASSUME MigrationInv, ReplayFile
  PROVE  OnlyFilesOpened /\ EntriesFromBefore
<1>1. UNCHANGED open_files
  BY DEF ReplayFile
<1>2. OnlyFilesOpened
  BY KWriteEffect DEF ReplayFile, MigrationInv, MigrationTypeOK
<1> QED
  BY <1>1, <1>2 DEF EntriesFromBefore

LEMMA DevicesStep ==
  ASSUME MigrationInv, MigrationStep
  PROVE  StreamsAreNotDevices' /\ EntriesAreNotDevices'
<1>0. /\ MigrationTypeOK /\ MigrationTypeOK'
      /\ StreamsAreNotDevices /\ EntriesAreNotDevices
  BY MigrationTypesStep DEF MigrationInv
<1>1. CASE ServedCall
  BY <1>0, <1>1, ServedCallEffect, StillNotDevices
<1>2. CASE ReopenFile
  BY <1>0, <1>2, ReopenFileEffect, StillNotDevices
<1>3. CASE ReplayFile
  BY <1>0, <1>3, ReplayFileEffect, StillNotDevices
<1>4. CASE UNCHANGED <<fds, open_files>>
  BY <1>0, <1>4 DEF StreamsAreNotDevices, EntriesAreNotDevices
<1>5. CASE MigrationProcessEnds
  BY <1>5 DEF MigrationProcessEnds, ProcessEnds, NoDescriptors,
              StreamsAreNotDevices, EntriesAreNotDevices
<1>6. CASE RestoreStart
  <2>1. fds' = ProcessFds(VmmFds) /\ open_files' = open_files /\ vmm = "exited"
    BY <1>6 DEF RestoreStart
  <2>2. StreamsAreNotDevices'
    BY <2>1, HandlerAssumption, KernelAssumption
    DEF ProcessFds, StreamsAreNotDevices
  <2>3. open_files = <<>>
    BY <2>1 DEF MigrationInv, EndedIsEmpty
  <2> QED
    BY <2>1, <2>2, <2>3 DEF EntriesAreNotDevices
<1> QED
  BY <1>1, <1>2, <1>3, <1>4, <1>5, <1>6
  DEF MigrationStep, SysSave, SaveStep, OpenImage, OpenImageFails,
      WriteImageAndExit, RestoreStep, RestoreFinish, migrationVars

-----------------------------------------------------------------------------
(* The table of a launched VMM, while its guest runs and while it is saved.*)
LEMMA ServedCallInv ==
  ASSUME HandlerInv, ServedCall, TypeOK'
  PROVE  HandlerInv'
<1>1. ASSUME UNCHANGED <<fds, open_files, held>>
      PROVE  HandlerInv'
  BY <1>1 DEF HandlerInv, TableMirrorsHost, HeldMatchesHost, StreamsAreNotDevices
<1> QED
  BY <1>1, WriteInv, OpenInv, CloseInv
  DEF ServedCall, GuestWrite, GuestOpen, GuestClose

LEMMA LaunchedStep ==
  ASSUME MigrationInv, MigrationStep
  PROVE  LaunchedTableRight'
<1>0. MigrationTypeOK /\ LaunchedTableRight /\ StreamsAreNotDevices
  BY DEF MigrationInv
<1>1. CASE ServedCall
  <2>1. SUFFICES ASSUME restores' = 0
                 PROVE  HandlerInv'
    BY DEF LaunchedTableRight, HandlerInv
  <2>2. TypeOK /\ TypeOK' /\ vmm = "running" /\ restores = 0
    BY <1>0, <1>1, <2>1, ServedCallTypes
  <2>3. HandlerInv
    BY <1>0, <2>2 DEF LaunchedTableRight, HandlerInv
  <2> QED
    BY <1>1, <2>2, <2>3, ServedCallInv
<1>2. CASE MigrationProcessEnds
  BY <1>2 DEF MigrationProcessEnds, ProcessEnds, LaunchedTableRight
<1>3. CASE SysSave \/ OpenImage \/ UNCHANGED migrationVars
  <2>1. /\ UNCHANGED <<fds, open_files, held, restores>>
        /\ vmm' \in {"running", "saving", "writing"}
             => vmm \in {"running", "saving", "writing"}
    BY <1>3 DEF SysSave, OpenImage, migrationVars
  <2> QED
    BY <1>0, <2>1 DEF LaunchedTableRight, TableMirrorsHost, HeldMatchesHost
<1>4. CASE RestoreStart \/ ReopenFile \/ ReplayFile
  <2>1. vmm' \in {"undefined", "reopening", "replaying"}
    BY <1>4 DEF RestoreStart, ReopenFile, ReplayFile
  <2> QED
    BY <2>1 DEF LaunchedTableRight
<1>5. CASE RestoreFinish
  <2>1. restores' > 0
    BY <1>5 DEF RestoreFinish, MigrationInv, RestoreFollowsImage
  <2> QED
    BY <2>1 DEF LaunchedTableRight
<1> QED
  BY <1>1, <1>2, <1>3, <1>4, <1>5
  DEF MigrationStep, SaveStep, OpenImageFails, WriteImageAndExit,
      RestoreStep

LEMMA EndedStep ==
  ASSUME MigrationInv, MigrationStep
  PROVE  EndedIsEmpty'
<1>1. CASE ServedCall
  BY <1>1, ServedCallTypes DEF MigrationInv, EndedIsEmpty
<1>2. CASE MigrationProcessEnds
  BY <1>2 DEF MigrationProcessEnds, ProcessEnds, EndedIsEmpty
<1>3. CASE RestoreStart \/ UNCHANGED migrationVars
  BY <1>3 DEF RestoreStart, migrationVars, MigrationInv, EndedIsEmpty
<1>4. CASE SysSave \/ OpenImage \/ RestoreStep
  BY <1>4 DEF SysSave, OpenImage, RestoreStep, ReopenFile, ReplayFile,
              RestoreFinish, EndedIsEmpty
<1> QED
  BY <1>1, <1>2, <1>3, <1>4
  DEF MigrationStep, SaveStep, OpenImageFails, WriteImageAndExit

-----------------------------------------------------------------------------
(* What is in the image: a dump, whose files nobody deletes.               *)
LEMMA FilesStay ==
  ASSUME MigrationInv, MigrationStep
  PROVE  DOMAIN disk \subseteq DOMAIN disk'
<1>1. CASE ServedCall
  BY <1>1, ServedCallEffect DEF MigrationInv, OnlyFilesOpened
<1>2. CASE ReopenFile
  BY <1>2, ReopenFileEffect, MigrationTypesStep DEF OnlyFilesOpened
<1>3. CASE ReplayFile
  BY <1>3, ReplayFileEffect DEF OnlyFilesOpened
<1>4. CASE UNCHANGED disk
  BY <1>4
<1> QED
  BY <1>1, <1>2, <1>3, <1>4
  DEF MigrationStep, SysSave, SaveStep, OpenImage, OpenImageFails,
      WriteImageAndExit, MigrationProcessEnds, ProcessEnds, RestoreStart,
      RestoreStep, RestoreFinish, migrationVars

LEMMA DumpIsDump ==
  ASSUME MigrationInv, vmm = "writing"
  PROVE  /\ IsDump(Dump)
         /\ Dump.generation = 0 => NamesItsFiles(Dump)
<1>0. MigrationTypeOK /\ LaunchedTableRight
  BY DEF MigrationInv
<1>1. IsDump(Dump)
  BY <1>0 DEF MigrationTypeOK, IsDump, Dump
<1>2. ASSUME Dump.generation = 0
      PROVE  NamesItsFiles(Dump)
  <2>1. TableMirrorsHost /\ HeldMatchesHost /\ KernelTypeOK
    BY <1>0, <1>2 DEF LaunchedTableRight, MigrationTypeOK, Dump
  <2>2. ASSUME NEW g \in DOMAIN held
        PROVE  /\ held[g] \in DOMAIN disk
               /\ \E i \in DOMAIN open_files :
                    open_files[i].guest_fd = g /\ open_files[i].path = held[g]
    <3>1. g \in DOMAIN fds /\ fds[g].node = held[g] /\ held[g] \in Path
      BY <1>0, <2>1 DEF HeldMatchesHost, MigrationTypeOK
    <3>2. PICK i \in DOMAIN open_files : open_files[i].host_fd = g
      BY <2>1, <3>1 DEF TableMirrorsHost
    <3>3. g # -1
      BY <2>1, <3>1, KernelAssumption DEF KernelTypeOK, Fd
    <3>4. open_files[i].guest_fd = g /\ open_files[i].path = held[g]
      BY <2>1, <3>1, <3>2, <3>3 DEF TableMirrorsHost
    <3> QED
      BY <2>1, <3>1, <3>4 DEF KernelTypeOK
  <2>3. \A i, j \in DOMAIN open_files :
          i # j /\ open_files[i].guest_fd = open_files[j].guest_fd
            => open_files[i].guest_fd = -1
    BY <2>1 DEF TableMirrorsHost
  <2>4. Dump.held = held /\ Dump.open_files = open_files
    BY DEF Dump
  <2> QED
    BY <2>2, <2>3, <2>4 DEF NamesItsFiles
<1> QED
  BY <1>1, <1>2

LEMMA ImageStep ==
  ASSUME MigrationInv, MigrationStep
  PROVE  ImageIsDump'
<1>0. ImageIsDump /\ DOMAIN disk \subseteq DOMAIN disk'
  BY FilesStay DEF MigrationInv
<1>1. CASE UNCHANGED image
  <2>1. IsDump(image) => IsDump(image)'
    BY <1>1 DEF IsDump
  <2>2. NamesItsFiles(image) => NamesItsFiles(image)'
    BY <1>0, <1>1 DEF NamesItsFiles
  <2> QED
    BY <1>0, <1>1, <2>1, <2>2 DEF ImageIsDump, FirstGeneration
<1>2. CASE image' = Torn
  BY <1>2 DEF ImageIsDump
<1>3. CASE vmm = "writing" /\ image' = Dump /\ UNCHANGED disk
  <2>1. IsDump(Dump) /\ (Dump.generation = 0 => NamesItsFiles(Dump))
    BY <1>3, DumpIsDump
  <2>2. PICK d : d = Dump
    OBVIOUS
  <2>3. IsDump(d) /\ (d.generation = 0 => NamesItsFiles(d)) /\ image' = d
    BY <1>3, <2>1, <2>2
  <2>4. IsDump(image)'
    BY <2>3 DEF IsDump
  <2>5. NamesItsFiles(d) => NamesItsFiles(image)'
    BY <1>3, <2>3 DEF NamesItsFiles
  <2> QED
    BY <2>3, <2>4, <2>5 DEF ImageIsDump, FirstGeneration
<1>4. CASE ServedCall
  BY <1>1, <1>4 DEF ServedCall
<1> QED
  BY <1>1, <1>2, <1>3, <1>4
  DEF MigrationStep, SysSave, SaveStep, OpenImage, OpenImageFails,
      WriteImageAndExit, MigrationProcessEnds, ProcessEnds, RestoreStart,
      RestoreStep, ReopenFile, ReplayFile, RestoreFinish, migrationVars

-----------------------------------------------------------------------------
(* The loop of restore_from_image.                                         *)
LEMMA FdIsFinite ==
  /\ IsFiniteSet(Fd) /\ Cardinality(Fd) = FdLimit
  /\ \A S \in SUBSET Fd : IsFiniteSet(S) /\ Cardinality(S) \in Nat
<1>1. FdLimit - 1 \in Int /\ 0 \in Int
  BY KernelAssumption
<1>2. IsFiniteSet(Fd) /\ Cardinality(Fd) = FdLimit
  BY <1>1, FS_Interval, KernelAssumption DEF Fd
<1> QED
  BY <1>2, FS_Subset, FS_CardinalityType

(* The VMM's own descriptors and a table of files never fill the limit.    *)
LEMMA RoomWhileReopening ==
  ASSUME KernelTypeOK, NEW n \in Nat, n < MAX_OPEN_FILES,
         Cardinality(DOMAIN fds) <= Cardinality(StdFd \cup VmmFds) + n
  PROVE  Fd \ DOMAIN fds # {}
<1>1. SUFFICES ASSUME DOMAIN fds = Fd
               PROVE  FALSE
  BY DEF KernelTypeOK
<1>2. Cardinality(DOMAIN fds) = FdLimit
  BY <1>1, FdIsFinite
<1>3. StdFd \cup VmmFds \in SUBSET Fd
  BY HandlerAssumption
<1>4. Cardinality(StdFd \cup VmmFds) \in Nat
  BY <1>3, FdIsFinite
<1> QED
  BY <1>2, <1>4, RoomForTable, HandlerAssumption, KernelAssumption

LEMMA RestoreBegins ==
  ASSUME MigrationInv, RestoreStart
  PROVE  RestoreFollowsImage'
<1>1. /\ fds' = ProcessFds(VmmFds) /\ restores' = restores + 1
      /\ vmm = "exited" /\ UNCHANGED <<open_files, image>>
      /\ vmm' \in {"reopening", "replaying"} =>
           vmm' = "reopening" /\ image \notin {NoImage, Torn} /\ held' = image.held
  BY DEF RestoreStart
<1>2. SUFFICES ASSUME vmm' = "reopening", image \notin {NoImage, Torn},
                      held' = image.held
               PROVE  RestoreFollowsImage'
  BY <1>1 DEF RestoreFollowsImage
<1>3. open_files' = <<>> /\ Len(open_files') = 0 /\ DOMAIN open_files' = {}
  BY <1>1 DEF MigrationInv, EndedIsEmpty
<1>4. restores' > 0
  BY <1>1, MigrationAssumption DEF MigrationInv, MigrationTypeOK
<1>5. Len(image'.open_files) \in Nat
  BY <1>1, <1>2 DEF MigrationInv, ImageIsDump, IsDump
<1>6. DOMAIN fds' = StdFd \cup VmmFds
  BY <1>1 DEF ProcessFds
<1>7. Cardinality(DOMAIN fds') \in Nat
  BY <1>6, FdIsFinite, HandlerAssumption
<1>8. Cardinality(DOMAIN fds') <= Cardinality(StdFd \cup VmmFds) + Len(open_files')
  BY <1>3, <1>6, <1>7
<1> QED
  BY <1>1, <1>2, <1>3, <1>4, <1>5, <1>8 DEF RestoreFollowsImage

(* One round's open: it finds room, and every file of the launched VMM's   *)
(* guest still exists.                                                     *)
LEMMA ReopenFileFollows ==
  ASSUME MigrationInv, ReopenFile
  PROVE  RestoreFollowsImage'
<1>0. /\ MigrationTypeOK /\ ImageIsDump /\ RestoreFollowsImage
      /\ vmm = "reopening" /\ vmm' = "replaying" /\ UNCHANGED <<held, image, restores>>
  BY DEF MigrationInv, ReopenFile
<1> DEFINE n == Len(open_files)
           m == Len(image.open_files)
           e == image.open_files[n + 1]
           c == Cardinality(StdFd \cup VmmFds)
<1>1. /\ image \notin {NoImage, Torn} /\ restores > 0
      /\ IsDump(image) /\ (FirstGeneration => NamesItsFiles(image))
      /\ held = image.held /\ n < m
      /\ open_files \in Seq(GuestFile) /\ image.open_files \in Seq(GuestFile)
      /\ Cardinality(DOMAIN fds) <= c + n
  BY <1>0 DEF RestoreFollowsImage, ImageIsDump, IsDump, ReopenFile, MigrationTypeOK
<1>2. n \in Nat /\ m \in Nat /\ m <= MAX_OPEN_FILES /\ n + 1 \in 1..m
  BY <1>1 DEF IsDump
<1>3. e \in GuestFile
  BY <1>1, <1>2, ElementOfSeq
<1>4. PICK r \in Fd \cup {-1} :
        /\ KOpen(e.path, e.flags, r)
        /\ open_files' = Append(open_files, ReopenedEntry(e, r))
  BY DEF ReopenFile
<1>5. e \in GuestFile => /\ ReopenedEntry(e, r).host_fd = r
                         /\ ReopenedEntry(e, r).guest_fd = e.guest_fd
                         /\ ReopenedEntry(e, r).path = e.path
                         /\ ReopenedEntry(e, r).flags = e.flags
  BY DEF ReopenedEntry, GuestFile
<1>6. /\ Len(open_files') = n + 1
      /\ DOMAIN open_files' = 1..(n + 1) /\ DOMAIN open_files = 1..n
      /\ \A i \in 1..n : open_files'[i] = open_files[i]
      /\ open_files'[n + 1] = ReopenedEntry(e, r)
  BY <1>1, <1>4
<1>7. c \in Nat /\ Cardinality(DOMAIN fds) \in Nat
  BY <1>0, FdIsFinite, HandlerAssumption DEF MigrationTypeOK, KernelTypeOK
<1>8. Cardinality(DOMAIN fds') <= c + Len(open_files')
  <2>1. DOMAIN fds' = DOMAIN fds \/ DOMAIN fds' = DOMAIN fds \cup {r}
    BY <1>4 DEF KOpen
  <2>2. IsFiniteSet(DOMAIN fds)
    BY <1>0, FdIsFinite DEF MigrationTypeOK, KernelTypeOK
  <2>3. \/ Cardinality(DOMAIN fds \cup {r}) = Cardinality(DOMAIN fds)
        \/ Cardinality(DOMAIN fds \cup {r}) = Cardinality(DOMAIN fds) + 1
    BY <2>2, FS_AddElement, Zenon
  <2>4. PICK d, d2 : d = Cardinality(DOMAIN fds) /\ d2 = Cardinality(DOMAIN fds')
    OBVIOUS
  <2>5. d2 = d \/ d2 = d + 1
    BY <2>1, <2>3, <2>4, Zenon
  <2>6. d \in Nat /\ d <= c + n
    BY <1>1, <1>7, <2>4
  <2> HIDE DEF c, n
  <2>7. d2 <= c + (n + 1)
    BY <1>2, <1>7, <2>5, <2>6
  <2> QED
    BY <1>6, <2>4, <2>7
<1>9. ASSUME NEW i \in 1..n
      PROVE  LET f == open_files[i] IN
             /\ f = ReopenedEntry(image.open_files[i], f.host_fd)
             /\ FirstGeneration /\ f.guest_fd \in DOMAIN held =>
                  \/ f.host_fd \in DOMAIN fds' /\ fds'[f.host_fd].node = f.path
                  \/ "EXCL" \in f.flags
  <2>1. \A h \in DOMAIN fds : h \in DOMAIN fds' /\ fds'[h] = fds[h]
    BY <1>4 DEF KOpen, IsLowestFree
  <2> QED
    BY <1>0, <1>6, <2>1 DEF RestoreFollowsImage
<1>10. ASSUME FirstGeneration, e.guest_fd \in DOMAIN held
       PROVE  \/ r \in DOMAIN fds' /\ fds'[r].node = e.path
              \/ "EXCL" \in e.flags
  <2>1. CASE MayOpen(e.path, e.flags) /\ IsLowestFree(r)
    <3> HIDE DEF e
    <3> QED
      BY <1>4, <2>1, KernelAssumption DEF KOpen, IsLowestFree, Fd
  <2>2. CASE ~ MayOpen(e.path, e.flags)
    <3>1. Fd \ DOMAIN fds # {}
      <4>1. n < MAX_OPEN_FILES
        BY <1>1, <1>2, HandlerAssumption
      <4> QED
        BY <1>0, <1>1, <1>2, <4>1, RoomWhileReopening DEF MigrationTypeOK
    <3>2. PICK g : g = e.guest_fd
      OBVIOUS
    <3>3. /\ g \in DOMAIN held /\ g # -1
      BY <1>0, <1>10, <3>2, KernelAssumption DEF MigrationTypeOK, Fd
    <3>4. PICK i \in DOMAIN image.open_files :
            /\ held[g] \in DOMAIN disk
            /\ image.open_files[i].guest_fd = g /\ image.open_files[i].path = held[g]
      BY <1>1, <1>10, <3>3 DEF NamesItsFiles
    <3>5. n + 1 \in DOMAIN image.open_files
      BY <1>1, <1>2
    <3>6. i = n + 1
      BY <1>1, <1>10, <3>2, <3>3, <3>4, <3>5 DEF NamesItsFiles
    <3>7. e.path \in DOMAIN disk
      BY <3>4, <3>6
    <3> QED
      BY <2>2, <3>1, <3>7 DEF MayOpen
  <2> QED
    BY <1>4, <2>1, <2>2 DEF KOpen
<1>11. FirstGeneration' <=> FirstGeneration
  BY <1>0 DEF FirstGeneration
<1>12. open_files' # <<>>
  BY <1>2, <1>6
<1> HIDE DEF n, m, c
<1>13. \A i \in DOMAIN open_files' : i \in 1..n \/ i = n + 1
  BY <1>2, <1>6
<1>14. Len(open_files') <= Len(image'.open_files)
  BY <1>0, <1>1, <1>2, <1>6 DEF m
<1>15. image' \notin {NoImage, Torn} /\ restores' > 0 /\ held' = image'.held
  BY <1>0, <1>1
<1>16. ASSUME NEW i \in DOMAIN open_files'
       PROVE  LET f == open_files'[i] IN
              /\ f = ReopenedEntry(image'.open_files[i], f.host_fd)
              /\ FirstGeneration' /\ f.guest_fd \in DOMAIN held' =>
                   \/ f.host_fd \in DOMAIN fds' /\ fds'[f.host_fd].node = f.path
                   \/ "EXCL" \in f.flags
  <2>1. CASE i \in 1..n
    BY <1>0, <1>6, <1>9, <1>11, <2>1
  <2>2. CASE i = n + 1
    <3>1. open_files'[i] = ReopenedEntry(e, r) /\ e = image'.open_files[i]
      BY <1>0, <1>6, <2>2
    <3> HIDE DEF e
    <3> QED
      BY <1>0, <1>3, <1>5, <1>10, <1>11, <3>1
  <2> QED
    BY <1>13, <2>1, <2>2
<1> QED
  BY <1>8, <1>12, <1>14, <1>15, <1>16 DEF RestoreFollowsImage, c

LEMMA ReplayFileFollows ==
  ASSUME MigrationInv, ReplayFile
  PROVE  RestoreFollowsImage'
<1>0. /\ KernelTypeOK /\ RestoreFollowsImage
      /\ vmm = "replaying" /\ vmm' = "reopening"
      /\ UNCHANGED <<open_files, held, image, restores>>
  BY DEF MigrationInv, MigrationTypeOK, ReplayFile
<1>1. /\ DOMAIN fds' = DOMAIN fds
      /\ \A f \in DOMAIN fds : fds'[f].node = fds[f].node
  BY <1>0, KWriteKeepsDescriptors DEF ReplayFile
<1> QED
  BY <1>0, <1>1 DEF RestoreFollowsImage, FirstGeneration, ReopenedEntry

LEMMA RestoreLoopStep ==
  ASSUME MigrationInv, MigrationStep
  PROVE  RestoreFollowsImage'
<1>1. CASE ServedCall
  BY <1>1, ServedCallTypes DEF MigrationInv, RestoreFollowsImage
<1>2. CASE MigrationProcessEnds
  BY <1>2 DEF MigrationProcessEnds, ProcessEnds, RestoreFollowsImage
<1>3. CASE SysSave \/ OpenImage \/ RestoreFinish
  BY <1>3 DEF SysSave, OpenImage, RestoreFinish, RestoreFollowsImage
<1>4. CASE UNCHANGED migrationVars
  BY <1>4 DEF migrationVars, MigrationInv, RestoreFollowsImage,
              FirstGeneration, ReopenedEntry
<1> QED
  BY <1>1, <1>2, <1>3, <1>4, RestoreBegins, ReopenFileFollows, ReplayFileFollows
  DEF MigrationStep, SaveStep, OpenImageFails, WriteImageAndExit,
      RestoreStep

-----------------------------------------------------------------------------
LEMMA MigrationInitInv == MigrationInit => MigrationInv
<1> SUFFICES ASSUME MigrationInit PROVE MigrationInv
  OBVIOUS
<1>1. HandlerInv /\ vmm = "running" /\ open_files = <<>>
  BY InitInv DEF MigrationInit, Init, Launched
<1>2. /\ image = NoImage /\ restored_from_snapshot = FALSE
      /\ sent = NoDescriptors /\ restores = 0
  BY DEF MigrationInit
<1>3. sent \in [DOMAIN held -> Seq(Byte)]
  <2>1. DOMAIN held = {} /\ DOMAIN sent = {}
    BY <1>2 DEF MigrationInit, Init, Launched, NoDescriptors
  <2> QED
    BY <1>2, <2>1 DEF NoDescriptors
<1>4. MigrationTypeOK
  <2>1. restored_from_snapshot \in BOOLEAN
    BY <1>2, Zenon
  <2>2. restores \in 0..MaxRestores
    BY <1>2, MigrationAssumption
  <2> QED
    BY <1>1, <1>3, <2>1, <2>2 DEF HandlerInv, TypeOK, MigrationTypeOK
<1>5. EntriesAreNotDevices
  BY <1>1 DEF EntriesAreNotDevices
<1>6. ImageIsDump /\ LaunchedTableRight /\ EndedIsEmpty /\ RestoreFollowsImage
  BY <1>1, <1>2
  DEF ImageIsDump, LaunchedTableRight, EndedIsEmpty, RestoreFollowsImage, HandlerInv
<1> QED
  BY <1>1, <1>4, <1>5, <1>6 DEF MigrationInv, HandlerInv

LEMMA MigrationStepInv ==
  ASSUME MigrationInv, MigrationStep
  PROVE  MigrationInv'
BY MigrationTypesStep, DevicesStep, ImageStep, LaunchedStep, EndedStep,
   RestoreLoopStep
DEF MigrationInv

(* An entry or a standard stream, and neither leads to a device.           *)
LEMMA InvKeepsDevicesPrivate == MigrationInv => VmmDescriptorsPrivate
<1> SUFFICES ASSUME MigrationInv, NEW g \in GuestFd,
                    get_host_fd_from_guest_fd(g) \in DOMAIN fds
             PROVE  fds[get_host_fd_from_guest_fd(g)].node # Device
  BY DEF VmmDescriptorsPrivate
<1>1. CASE g \in StdFd
  BY <1>1 DEF get_host_fd_from_guest_fd, MigrationInv, StreamsAreNotDevices
<1>2. CASE g \notin StdFd
  <2>1. Slots(g) # {}
    BY <1>2, KernelAssumption
    DEF get_host_fd_from_guest_fd, MigrationInv, MigrationTypeOK, KernelTypeOK, Fd
  <2>2. FirstSlot(g) \in DOMAIN open_files
    BY <2>1, FirstSlotFound DEF MigrationInv, MigrationTypeOK
  <2> QED
    BY <1>2, <2>1, <2>2
    DEF get_host_fd_from_guest_fd, MigrationInv, EntriesAreNotDevices
<1> QED
  BY <1>1, <1>2

(* The loop is through: the entry of a number the guest held is the only   *)
(* one with that number, and its open has found the file.                  *)
LEMMA ReopenedAll ==
  ASSUME MigrationInv, RestoreFinish, FirstGeneration,
         NEW g \in DOMAIN held \ StdFd
  PROVE  \/ ReachesItsFile(g)
         \/ \E i \in Slots(g) : "EXCL" \in open_files[i].flags
<1>1. /\ MigrationTypeOK /\ RestoreFollowsImage /\ vmm = "reopening"
      /\ IsDump(image) /\ NamesItsFiles(image) /\ held = image.held
      /\ Len(open_files) = Len(image.open_files)
  BY DEF MigrationInv, RestoreFinish, AllReopened, RestoreFollowsImage, ImageIsDump
<1> DEFINE n == Len(open_files)
<1>2. /\ n \in Nat /\ DOMAIN open_files = 1..n /\ DOMAIN image.open_files = 1..n
      /\ open_files \in Seq(GuestFile) /\ image.open_files \in Seq(GuestFile)
  BY <1>1 DEF MigrationTypeOK, IsDump
<1>3. g # -1
  BY <1>1, KernelAssumption DEF MigrationTypeOK, Fd
<1>4. PICK i \in 1..n : /\ image.open_files[i].guest_fd = g
                        /\ image.open_files[i].path = held[g]
  BY <1>1, <1>2 DEF NamesItsFiles
<1>5. \A k \in 1..n :
        /\ open_files[k].guest_fd = image.open_files[k].guest_fd
        /\ open_files[k].path = image.open_files[k].path
  <2> SUFFICES ASSUME NEW k \in 1..n
               PROVE  /\ open_files[k].guest_fd = image.open_files[k].guest_fd
                      /\ open_files[k].path = image.open_files[k].path
    OBVIOUS
  <2>1. image.open_files[k] \in GuestFile
    BY <1>2, ElementOfSeq
  <2>2. open_files[k] = ReopenedEntry(image.open_files[k], open_files[k].host_fd)
    BY <1>1, <1>2 DEF RestoreFollowsImage
  <2>3. PICK e, h : e = image.open_files[k] /\ h = open_files[k].host_fd
    OBVIOUS
  <2>4. e \in GuestFile => /\ ReopenedEntry(e, h).guest_fd = e.guest_fd
                           /\ ReopenedEntry(e, h).path = e.path
    BY DEF ReopenedEntry, GuestFile
  <2> QED
    BY <2>1, <2>2, <2>3, <2>4
<1>6. \A k \in 1..n : open_files[k].guest_fd = g => k = i
  BY <1>1, <1>2, <1>3, <1>4, <1>5 DEF NamesItsFiles
<1>7. i \in Slots(g) /\ Slots(g) # {}
  BY <1>2, <1>4, <1>5 DEF Slots
<1>8. FirstSlot(g) = i
  BY <1>2, <1>6, <1>7, FirstSlotFound
<1>9. \/ /\ open_files[i].host_fd \in DOMAIN fds
         /\ fds[open_files[i].host_fd].node = open_files[i].path
      \/ "EXCL" \in open_files[i].flags
  BY <1>1, <1>2, <1>4, <1>5 DEF RestoreFollowsImage
<1>10. get_host_fd_from_guest_fd(g) = open_files[i].host_fd
  BY <1>7, <1>8 DEF get_host_fd_from_guest_fd
<1> QED
  BY <1>4, <1>5, <1>7, <1>9, <1>10 DEF ReachesItsFile

-----------------------------------------------------------------------------
(* Through any number of saves, kills, torn images and restores: a         *)
(* launched VMM's table tells what its guest holds, a whole image keeps    *)
(* that, and a restore rebuilds it entry by entry.                         *)
THEOREM MigrationInvariant == MigrationSpec => []MigrationInv
<1>1. MigrationInv /\ [MigrationNext]_migrationVars => MigrationInv'
  BY NextIsStep, MigrationStepInv DEF MigrationInv
<1> QED
  BY <1>1, MigrationInitInv, PTL DEF MigrationSpec

(* Every variable stays in its range: a restored table never outgrows      *)
(* open_files[MAX_OPEN_FILES] either, and what a guest gets back from an   *)
(* image is registers, memory and a table.                                 *)
THEOREM MigrationIsTyped == MigrationSpec => []MigrationTypeOK
<1>1. MigrationInv => MigrationTypeOK
  BY DEF MigrationInv
<1> QED
  BY <1>1, MigrationInvariant, PTL

(* Neither a launched guest nor a restored one has a number that leads to  *)
(* a descriptor of the VMM itself.                                         *)
THEOREM RestoredDescriptorsStayPrivate == MigrationSpec => []VmmDescriptorsPrivate
BY InvKeepsDevicesPrivate, MigrationInvariant, PTL

(* When a restore is over, what the guest of the launched VMM held leads   *)
(* to its files, whatever became of earlier restores of the image.         *)
THEOREM HeldFilesAreRestored == MigrationSpec => HeldFilesSurvive
<1>1. MigrationInv /\ [MigrationNext]_migrationVars =>
        [RestoreFinish /\ FirstGeneration =>
           \A g \in DOMAIN held \ StdFd :
             \/ ReachesItsFile(g)
             \/ \E i \in Slots(g) : "EXCL" \in open_files[i].flags]_migrationVars
  BY ReopenedAll
<1> QED
  BY <1>1, MigrationInvariant, PTL DEF MigrationSpec, HeldFilesSurvive

-----------------------------------------------------------------------------
(* The replay.  In a launched VMM the offset of an entry is the number of  *)
(* bytes that the guest has been told are written under its number.        *)
LEMMA WriteIsCounted ==
  ASSUME ~ DiskFaults, MigrationTypeOK, HandlerInv, CountsSent(Dump),
         NEW g \in Int, NEW a \in Addr, NEW n \in 0..MemSize, GuestWrite(g, a, n)
  PROVE  CountsSent(Dump)'
<1> DEFINE h == get_host_fd_from_guest_fd(g)
<1>1. SysWrite(g, a, n) /\ held' = held
  BY DEF GuestWrite, SysWrite
<1>2. CASE UNCHANGED open_files /\ rax' = -1
  <2>1. sent' = sent
    BY <1>2 DEF GuestWrite
  <2> QED
    BY <1>1, <1>2, <2>1 DEF CountsSent, Dump
<1>3. ASSUME h >= 0, NEW r \in -1..n, KWrite(h, Buffer(a, n), r),
             NoteWrite(h, a, r), rax' = r
      PROVE  CountsSent(Dump)'
  <2>1. h = g
    BY <1>3, LookupIsIdentity, HandlerAssumption
  <2> HIDE DEF h
  <2>2. a \in Nat /\ r \in Int /\ n \in Nat
    BY HandlerAssumption DEF Addr
  <2>3. /\ open_files \in Seq(GuestFile) /\ Len(open_files') = Len(open_files)
        /\ open_files' \in Seq(GuestFile)
        /\ \A i \in DOMAIN open_files :
              /\ open_files'[i].guest_fd = open_files[i].guest_fd
              /\ open_files'[i].flags = open_files[i].flags
    BY <1>3, <2>2, NoteWriteType DEF HandlerInv, TypeOK
  <2>4. DOMAIN open_files' = DOMAIN open_files
    BY <2>3
  <2>5. SUFFICES ASSUME NEW i \in DOMAIN open_files,
                        open_files[i].guest_fd \in DOMAIN held,
                        "RDONLY" \notin open_files[i].flags
                 PROVE  open_files'[i].offset = Len(sent'[open_files[i].guest_fd])
    BY <1>1, <2>3, <2>4 DEF CountsSent, Dump
  <2>6. PICK f \in DOMAIN held : f = open_files[i].guest_fd
    BY <2>5
  <2>7. /\ f \in DOMAIN fds /\ fds[f].node \in Path
        /\ open_files[i].host_fd = f /\ fds[f].flags = open_files[i].flags
    <3>1. f \in DOMAIN fds /\ fds[f].node \in Path /\ f # -1
      BY KernelAssumption
      DEF HandlerInv, TypeOK, KernelTypeOK, HeldMatchesHost, Fd
    <3> QED
      BY <2>6, <3>1 DEF HandlerInv, TableMirrorsHost
  <2>8. open_files[i].offset = Len(sent[f])
    BY <2>5, <2>6 DEF CountsSent, Dump
  <2>9. open_files'[i].offset =
          IF f = h THEN (open_files[i].offset + r) % OffsetMod
                   ELSE open_files[i].offset
    BY <1>3, <2>1, <2>7, NotedInOneEntry
  <2>10. CASE f # h
    <3>1. sent'[f] = sent[f]
      BY <2>1, <2>10 DEF GuestWrite, MigrationTypeOK
    <3> QED
      BY <2>6, <2>8, <2>9, <2>10, <3>1
  <2>11. CASE f = h
    <3>1. r \in 0..n
      <4>1. KWriteFile(h, Buffer(a, n), r)
        BY <1>3, <2>5, <2>7, <2>11, KernelAssumption
        DEF KWrite, KWriteTty, KWriteFails
      <4> QED
        BY <1>3, <4>1 DEF KWriteFile
    <3>2. sent[f] \in Seq(Byte)
      BY DEF MigrationTypeOK
    <3>3. PICK l \in Nat : l = Len(sent[f])
      BY <3>2
    <3>4. Len(sent'[f]) = l + r
      <4>1. CASE r = 0
        BY <1>3, <2>1, <2>11, <3>3, <4>1 DEF GuestWrite
      <4>2. CASE r > 0
        <5>1. Buffer(a, n) \in Seq(Byte) /\ Len(Buffer(a, n)) = n
          BY <1>1, <2>2, BufferType DEF SysWrite, HandlerInv, TypeOK
        <5>2. \A k \in 1..r : Buffer(a, n)[k] \in Byte
          BY <2>2, <3>1, <5>1, ElementOfSeq
        <5>3. /\ SubSeq(Buffer(a, n), 1, r) \in Seq(Byte)
              /\ Len(SubSeq(Buffer(a, n), 1, r)) = r
          BY <3>1, <4>2, <5>2, SubSeqProperties, 1 \in Int
        <5>4. sent'[f] = sent[f] \o SubSeq(Buffer(a, n), 1, r)
          BY <1>3, <2>1, <2>11, <4>2 DEF GuestWrite, MigrationTypeOK
        <5>5. PICK s \in Seq(Byte), t \in Seq(Byte) :
                s = sent[f] /\ t = SubSeq(Buffer(a, n), 1, r)
          BY <3>2, <5>3
        <5>6. Len(s \o t) = Len(s) + Len(t)
          OBVIOUS
        <5> QED
          BY <3>3, <5>3, <5>4, <5>5, <5>6
      <4> QED
        BY <3>1, <4>1, <4>2
    <3>5. l + r \in 0..(OffsetMod - 1) /\ OffsetMod \in Nat
      <4>1. l + n <= MaxFileLen
        BY <2>1, <2>11, <3>3 DEF GuestWrite
      <4> QED
        BY <3>1, <4>1, HandlerAssumption
    <3>6. (l + r) % OffsetMod = l + r
      BY <3>5, SmallMod
    <3> QED
      BY <2>6, <2>8, <2>9, <2>11, <3>3, <3>4, <3>6
  <2> QED
    BY <2>10, <2>11
<1> QED
  BY <1>1, <1>2, <1>3 DEF SysWrite

LEMMA OpenIsCounted ==
  ASSUME MigrationTypeOK, HandlerInv, CountsSent(Dump),
         NEW p \in Path, NEW fl \in SUBSET Flag, GuestOpen(p, fl)
  PROVE  CountsSent(Dump)'
<1>1. SysOpen(p, fl) /\ HandlerInv
  BY DEF GuestOpen
<1>2. \A g \in DOMAIN held : g # -1
  BY KernelAssumption DEF HandlerInv, TypeOK, Fd
<1>3. CASE UNCHANGED <<open_files, held>>
  <2>1. \A g \in DOMAIN held : sent'[g] = sent[g]
    BY <1>3 DEF GuestOpen
  <2> QED
    BY <1>3, <2>1 DEF CountsSent, Dump
<1> DEFINE e(r) == [guest_fd |-> r, host_fd |-> r, flags |-> fl,
                    start_addr |-> 0, offset |-> 0, path |-> p]
<1>4. ASSUME NEW r \in Fd \cup {-1}, KOpen(p, fl, r),
             open_files' = Append(open_files, e(r)), rax' = r,
             held' = IF r = -1 THEN held
                     ELSE [f \in DOMAIN held \cup {r} |->
                             IF f = r THEN p ELSE held[f]]
      PROVE  CountsSent(Dump)'
  <2>1. /\ DOMAIN open_files = 1..Len(open_files) /\ Len(open_files) \in Nat
        /\ DOMAIN open_files' = 1..(Len(open_files) + 1)
        /\ \A i \in DOMAIN open_files : open_files'[i] = open_files[i]
        /\ open_files'[Len(open_files) + 1] = e(r)
    BY <1>4 DEF HandlerInv, TypeOK
  <2>2. e(r).guest_fd = r /\ e(r).offset = 0
    OBVIOUS
  <2> HIDE DEF e
  <2>3. \A i \in DOMAIN open_files' :
          i \in DOMAIN open_files \/ i = Len(open_files) + 1
    BY <2>1
  <2>4. r # -1 => r \notin DOMAIN fds
    BY <1>4 DEF KOpen, IsLowestFree
  <2>5. DOMAIN held' = IF r = -1 THEN DOMAIN held ELSE DOMAIN held \cup {r}
    BY <1>4
  <2>6. SUFFICES ASSUME NEW i \in DOMAIN open_files',
                        open_files'[i].guest_fd \in DOMAIN held',
                        "RDONLY" \notin open_files'[i].flags
                 PROVE  open_files'[i].offset = Len(sent'[open_files'[i].guest_fd])
    BY DEF CountsSent, Dump
  <2>7. CASE i \in DOMAIN open_files
    <3>1. PICK g : g = open_files[i].guest_fd
      OBVIOUS
    <3>2. g # -1
      BY <1>2, <2>1, <2>5, <2>6, <2>7, <3>1
    <3>3. g \in DOMAIN fds
      BY <2>7, <3>1, <3>2 DEF HandlerInv, TableMirrorsHost
    <3>4. g \in DOMAIN held /\ (g = r => held' = held)
      BY <1>2, <2>1, <2>4, <2>5, <2>6, <2>7, <3>1, <3>2, <3>3
    <3>5. sent'[g] = sent[g]
      BY <1>4, <2>5, <3>4 DEF GuestOpen
    <3> QED
      BY <2>1, <2>6, <2>7, <3>1, <3>4, <3>5 DEF CountsSent, Dump
  <2>8. CASE i = Len(open_files) + 1
    <3>1. r # -1
      BY <1>2, <2>1, <2>2, <2>5, <2>6, <2>8
    <3>2. r \notin DOMAIN held /\ r \in DOMAIN held'
      BY <2>4, <2>5, <3>1 DEF HandlerInv, HeldMatchesHost
    <3>3. sent'[r] = <<>>
      BY <1>4, <3>2 DEF GuestOpen
    <3>4. Len(<<>>) = 0
      OBVIOUS
    <3> QED
      BY <2>1, <2>2, <2>8, <3>3, <3>4
  <2> QED
    BY <2>3, <2>7, <2>8
<1> QED
  BY <1>1, <1>3, <1>4 DEF SysOpen

LEMMA CloseIsCounted ==
  ASSUME MigrationTypeOK, HandlerInv, CountsSent(Dump),
         NEW g \in Int, GuestClose(g)
  PROVE  CountsSent(Dump)'
<1>1. \A j \in DOMAIN open_files' : \E k \in DOMAIN open_files :
        open_files'[j] = open_files[k]
  BY CloseKeepsEntries DEF GuestClose, HandlerInv
<1>2. \A f \in DOMAIN held' : f \in DOMAIN held /\ sent'[f] = sent[f]
  BY DEF GuestClose, SysClose
<1> QED
  BY <1>1, <1>2 DEF CountsSent, Dump

LEMMA ServedCallIsCounted ==
  ASSUME ~ DiskFaults, MigrationTypeOK, HandlerInv, CountsSent(Dump), ServedCall
  PROVE  CountsSent(Dump)'
<1>1. ASSUME UNCHANGED <<open_files, held, sent>>
      PROVE  CountsSent(Dump)'
  BY <1>1 DEF CountsSent, Dump
<1> QED
  BY <1>1, WriteIsCounted, OpenIsCounted, CloseIsCounted DEF ServedCall

LEMMA SentStep ==
  ASSUME ~ DiskFaults, MigrationInv, SentIsCounted, MigrationStep
  PROVE  SentIsCounted'
<1>0. MigrationTypeOK /\ LaunchedTableRight /\ StreamsAreNotDevices
  BY DEF MigrationInv
<1>1. ASSUME restores' = 0, vmm' \in {"running", "saving", "writing"}
      PROVE  CountsSent(Dump)'
  <2>1. CASE ServedCall
    <3>1. TypeOK /\ vmm = "running" /\ restores = 0
      BY <1>0, <1>1, <2>1, ServedCallTypes
    <3>2. HandlerInv /\ CountsSent(Dump)
      BY <1>0, <3>1 DEF LaunchedTableRight, HandlerInv, SentIsCounted
    <3> QED
      BY <1>0, <2>1, <3>2, ServedCallIsCounted
  <2>2. CASE SysSave \/ OpenImage \/ UNCHANGED migrationVars
    <3>1. /\ UNCHANGED <<open_files, held, sent, restores>>
          /\ vmm \in {"running", "saving", "writing"}
      BY <1>1, <2>2 DEF SysSave, OpenImage, migrationVars
    <3>2. CountsSent(Dump)
      BY <1>1, <3>1 DEF SentIsCounted
    <3> QED
      BY <3>1, <3>2 DEF CountsSent, Dump
  <2>3. CASE RestoreFinish
    <3>1. restores' > 0
      BY <2>3 DEF RestoreFinish, MigrationInv, RestoreFollowsImage
    <3> QED
      BY <1>1, <3>1
  <2> QED
    BY <1>1, <2>1, <2>2, <2>3
    DEF MigrationStep, SaveStep, OpenImageFails, WriteImageAndExit,
        MigrationProcessEnds, ProcessEnds, RestoreStart, RestoreStep,
        ReopenFile, ReplayFile
<1>2. ASSUME image' \notin {NoImage, Torn}, FirstGeneration'
      PROVE  CountsSent(image)'
  <2>1. CASE UNCHANGED image
    <3>1. CountsSent(image)
      BY <1>2, <2>1 DEF SentIsCounted, FirstGeneration
    <3> QED
      BY <2>1, <3>1 DEF CountsSent
  <2>2. CASE vmm = "writing" /\ image' = Dump
    <3>1. restores = 0
      BY <1>2, <2>2 DEF FirstGeneration, Dump
    <3>2. CountsSent(Dump)
      BY <2>2, <3>1 DEF SentIsCounted
    <3>3. PICK d : d = Dump
      OBVIOUS
    <3>4. CountsSent(d) /\ image' = d
      BY <2>2, <3>2, <3>3
    <3> QED
      BY <3>4 DEF CountsSent
  <2> QED
    BY <1>2, <2>1, <2>2
    DEF MigrationStep, ServedCall, SysSave, SaveStep, OpenImage, OpenImageFails,
        WriteImageAndExit, RestoreStart, RestoreStep,
        ReopenFile, ReplayFile, RestoreFinish, migrationVars
<1> QED
  BY <1>1, <1>2 DEF SentIsCounted

-----------------------------------------------------------------------------
(* What a replay writes: the bytes sent, from the beginning of the file.   *)
LEMMA WholeWriteAtStart ==
  ASSUME NEW c \in Seq(Byte), NEW data \in Seq(Byte)
  PROVE  /\ Len(WriteAt(c, 0, data)) >= Len(data)
         /\ SubSeq(WriteAt(c, 0, data), 1, Len(data)) = data
<1> DEFINE f == WriteAt(c, 0, data)
<1>1. f \in Seq(Byte)
  BY WriteAtType
<1>2. CASE data = <<>>
  <2>1. Len(data) = 0 /\ Len(f) \in Nat
    BY <1>1, <1>2
  <2>2. SubSeq(f, 1, 0) = <<>>
    BY <1>1, <2>1
  <2> QED
    BY <1>2, <2>1, <2>2
<1>3. CASE data # <<>>
  <2>1. PICK n \in Nat, l \in Nat : n = Len(data) /\ l = Len(c)
    OBVIOUS
  <2>2. f = [i \in 1..(IF 0 + n > l THEN 0 + n ELSE l) |->
               IF i > 0 /\ i <= 0 + n THEN data[i - 0]
               ELSE IF i <= l THEN c[i] ELSE ZeroByte]
    BY <1>3, <2>1 DEF WriteAt
  <2>3. Len(f) = IF n > l THEN n ELSE l
    BY <1>1, <2>1, <2>2
  <2>4. \A i \in 1..n : f[i] = data[i]
    BY <2>1, <2>2
  <2> HIDE DEF f
  <2>5. SubSeq(f, 1, n) \in Seq(Byte) /\ Len(SubSeq(f, 1, n)) = n
    BY <1>1, <2>1, <2>3
  <2>6. \A i \in 1..n : SubSeq(f, 1, n)[i] = data[i]
    BY <1>1, <2>1, <2>3, <2>4
  <2>7. SubSeq(f, 1, n) = data
    BY <2>1, <2>5, <2>6, SeqEqual
  <2> QED
    BY <2>1, <2>3, <2>7 DEF f
<1> QED
  BY <1>2, <1>3

LEMMA ReplayDataIsSent ==
  ASSUME MigrationTypeOK, NEW e \in GuestFile, sent[e.guest_fd] \in Seq(Byte),
         e.offset = Len(sent[e.guest_fd]), Replayable(e)
  PROVE  ReplayData(e) = sent[e.guest_fd]
<1>1. PICK n \in Nat, a \in Nat, s \in Seq(Byte) :
        n = e.offset /\ a = e.start_addr /\ s = sent[e.guest_fd]
  BY HandlerAssumption DEF GuestFile
<1>2. n = Len(s) /\ n <= MemSize - a /\ s = Buffer(a, n) /\ MemSize \in Nat
  BY <1>1, HandlerAssumption DEF Replayable
<1>3. ReplayData(e) = [k \in 1..n |-> IF a + k <= MemSize THEN mem[a + k - 1]
                                                          ELSE ForeignByte]
  BY <1>1 DEF ReplayData
<1>4. \A k \in 1..n : a + k <= MemSize
  BY <1>1, <1>2
<1>5. ReplayData(e) = Buffer(a, n)
  BY <1>3, <1>4 DEF Buffer
<1> QED
  BY <1>1, <1>2, <1>5

LEMMA ReplayIsRight ==
  ASSUME ~ DiskFaults, ~ ShortWrites, MigrationTypeOK, NEW e \in GuestFile,
         sent[e.guest_fd] \in Seq(Byte), e.offset = Len(sent[e.guest_fd]),
         Replayable(e), e.host_fd \in DOMAIN fds,
         fds[e.host_fd].node = e.path, fds[e.host_fd].flags = e.flags,
         fds[e.host_fd].pos = 0, UNCHANGED sent,
         NEW r, KWrite(e.host_fd, ReplayData(e), r)
  PROVE  Resumes(e)'
<1>1. PICK data \in Seq(Byte), h \in DOMAIN fds, p \in Path, n \in Nat :
        /\ data = sent[e.guest_fd] /\ h = e.host_fd /\ p = e.path
        /\ n = Len(data) /\ n = e.offset
  BY HandlerAssumption DEF GuestFile
<1>2. ReplayData(e) = data
  BY <1>1, ReplayDataIsSent
<1>3. {"APPEND", "EXCL", "RDONLY"} \cap fds[h].flags = {}
  BY <1>1 DEF Replayable
<1>4. KWriteFile(h, data, r) /\ r = n
  <2>1. KWriteFile(h, data, r)
    BY <1>1, <1>2, <1>3, KernelAssumption DEF KWrite, KWriteTty, KWriteFails
  <2> QED
    BY <1>1, <2>1 DEF KWriteFile
<1>5. WritePos(h) = 0 /\ SubSeq(data, 1, n) = data
  BY <1>1, <1>3 DEF WritePos
<1>6. p \in DOMAIN disk /\ disk[p] \in Seq(Byte) /\ fds[h] \in OpenFile
  BY <1>1 DEF MigrationTypeOK, KernelTypeOK
<1>7. disk'[p] = WriteAt(disk[p], 0, data)
  BY <1>1, <1>4, <1>5, <1>6 DEF KWriteFile
<1>8. h \in DOMAIN fds' /\ fds'[h].pos = n
  <2>1. fds' = [fds EXCEPT ![h].pos = 0 + n]
    BY <1>4, <1>5 DEF KWriteFile
  <2> QED
    BY <1>1, <1>6, <2>1 DEF OpenFile
<1>9. Len(disk'[p]) >= n /\ SubSeq(disk'[p], 1, n) = data
  BY <1>1, <1>6, <1>7, WholeWriteAtStart
<1> QED
  BY <1>1, <1>8, <1>9 DEF Resumes

(* A file that no round touches stays as it is, and what can be replayed   *)
(* now could be replayed with fewer entries in the table.                  *)
LEMMA ResumesStill ==
  ASSUME NEW e, Resumes(e), UNCHANGED sent, e.host_fd \in DOMAIN fds',
         fds'[e.host_fd] = fds[e.host_fd], disk'[e.path] = disk[e.path]
  PROVE  Resumes(e)'
BY DEF Resumes

LEMMA ReplayableBefore ==
  ASSUME NEW e, Replayable(e)', UNCHANGED <<mem, sent>>,
         \A i \in DOMAIN open_files :
           i \in DOMAIN open_files' /\ open_files'[i] = open_files[i]
  PROVE  Replayable(e)
BY DEF Replayable, Buffer

LEMMA RestoreBeginsRight ==
  ASSUME MigrationInv, RestoreStart
  PROVE  ReplaysAreRight'
<1>1. /\ open_files' = <<>> /\ DOMAIN open_files' = {}
      /\ vmm' \in {"undefined", "reopening"}
      /\ vmm' = "reopening" => sent' = image'.sent
  BY DEF RestoreStart, MigrationInv, EndedIsEmpty
<1> QED
  BY <1>1 DEF ReplaysAreRight, Replayed

LEMMA ReopenedFields ==
  ASSUME NEW e \in GuestFile, NEW r \in Fd \cup {-1}
  PROVE  /\ ReopenedEntry(e, r) \in GuestFile
         /\ ReopenedEntry(e, r).host_fd = r
         /\ ReopenedEntry(e, r).guest_fd = e.guest_fd
         /\ ReopenedEntry(e, r).path = e.path
         /\ ReopenedEntry(e, r).flags = e.flags
         /\ ReopenedEntry(e, r).offset = e.offset
BY DEF ReopenedEntry, GuestFile

(* The round's open.                                                       *)
LEMMA ReopenKeepsReplays ==
  ASSUME MigrationInv, ReplaysAreRight, ReopenFile
  PROVE  ReplaysAreRight'
<1>0. /\ MigrationTypeOK /\ ImageIsDump /\ RestoreFollowsImage
      /\ vmm = "reopening" /\ vmm' = "replaying"
      /\ UNCHANGED <<mem, held, image, sent>>
  BY DEF MigrationInv, ReopenFile
<1> DEFINE n == Len(open_files)
           e == image.open_files[n + 1]
<1>1. /\ IsDump(image) /\ (FirstGeneration => NamesItsFiles(image))
      /\ open_files \in Seq(GuestFile) /\ image.open_files \in Seq(GuestFile)
      /\ n < Len(image.open_files) /\ held = image.held
  BY <1>0 DEF RestoreFollowsImage, ImageIsDump, IsDump, ReopenFile, MigrationTypeOK
<1>2. n \in Nat /\ n + 1 \in DOMAIN image.open_files
  BY <1>1
<1>3. e \in GuestFile
  BY <1>1, <1>2, ElementOfSeq
<1>4. PICK r \in Fd \cup {-1} :
        /\ KOpen(e.path, e.flags, r)
        /\ open_files' = Append(open_files, ReopenedEntry(e, r))
  BY DEF ReopenFile
<1> HIDE DEF e
<1>5. PICK f \in GuestFile :
        /\ f = ReopenedEntry(e, r) /\ f.host_fd = r
        /\ f.guest_fd = e.guest_fd /\ f.path = e.path /\ f.flags = e.flags
  BY <1>3, ReopenedFields
<1>6. /\ DOMAIN open_files' = 1..(n + 1) /\ DOMAIN open_files = 1..n
      /\ Len(open_files') = n + 1
      /\ \A i \in 1..n : open_files'[i] = open_files[i]
      /\ open_files'[n + 1] = f
  BY <1>1, <1>4, <1>5
<1>7. /\ \A h \in DOMAIN fds : h \in DOMAIN fds' /\ fds'[h] = fds[h]
      /\ \A q \in DOMAIN disk : q # f.path => disk'[q] = disk[q]
      /\ r # -1 => /\ r \in DOMAIN fds' /\ fds'[r].node = f.path
                   /\ fds'[r].flags = f.flags /\ fds'[r].pos = 0
  BY <1>4, <1>5 DEF KOpen, IsLowestFree
<1>8. Replayed = 1..n /\ Replayed' = 1..n
  BY <1>0, <1>2, <1>6 DEF Replayed
<1> HIDE DEF n
<1>9. \A i \in DOMAIN open_files' : i \in 1..n \/ i = n + 1
  BY <1>2, <1>6
<1>10. ASSUME NEW i \in DOMAIN open_files', open_files'[i].host_fd # -1
       PROVE  /\ open_files'[i].host_fd \in DOMAIN fds'
              /\ fds'[open_files'[i].host_fd].node = open_files'[i].path
              /\ fds'[open_files'[i].host_fd].flags = open_files'[i].flags
              /\ i \notin Replayed' => fds'[open_files'[i].host_fd].pos = 0
  <2>1. CASE i \in 1..n
    <3>1. /\ open_files[i].host_fd \in DOMAIN fds
          /\ fds[open_files[i].host_fd].node = open_files[i].path
          /\ fds[open_files[i].host_fd].flags = open_files[i].flags
      BY <1>0, <1>6, <1>10, <2>1 DEF ReplaysAreRight
    <3> QED
      BY <1>6, <1>7, <1>8, <2>1, <3>1
  <2>2. CASE i = n + 1
    BY <1>5, <1>6, <1>7, <1>10, <2>2
  <2> QED
    BY <1>9, <2>1, <2>2
<1>11. ASSUME FirstGeneration, NEW i \in 1..n, NEW g, g = open_files[i],
              g.guest_fd \in DOMAIN held \ StdFd, Replayable(g)'
       PROVE  Resumes(g)'
  <2>1. Replayable(g)
    <3>1. \A k \in DOMAIN open_files :
            k \in DOMAIN open_files' /\ open_files'[k] = open_files[k]
      BY <1>2, <1>6
    <3> QED
      BY <1>0, <1>11, <3>1, ReplayableBefore
  <2>2. Resumes(g) /\ i \in DOMAIN open_files
    BY <1>0, <1>6, <1>8, <1>11, <2>1 DEF ReplaysAreRight
  <2>3. g \in GuestFile /\ g.guest_fd # -1
    <3>1. \A h \in DOMAIN held : h # -1
      BY <1>0, KernelAssumption DEF MigrationTypeOK, Fd
    <3> QED
      BY <1>1, <1>11, <2>2, <3>1, ElementOfSeq
  <2>4. g.host_fd \in DOMAIN fds /\ fds[g.host_fd].node = g.path
    <3>1. g.host_fd \in DOMAIN fds /\ g.host_fd # -1
      BY <1>0, <2>2, KernelAssumption DEF Resumes, MigrationTypeOK, KernelTypeOK, Fd
    <3> QED
      BY <1>0, <1>11, <2>2, <3>1 DEF ReplaysAreRight
  <2>5. g.path \in DOMAIN disk
    BY <1>0, <2>3, <2>4 DEF MigrationTypeOK, KernelTypeOK, GuestFile
  <2>6. g.path # f.path
    <3>1. SUFFICES ASSUME g.path = f.path PROVE FALSE
      OBVIOUS
    <3>2. f.guest_fd = g.guest_fd
      BY <1>2, <1>6, <1>11, <3>1 DEF Replayable
    <3>3. image.open_files[i] \in GuestFile /\ i \in DOMAIN image.open_files
      BY <1>1, <1>2, <2>2, ElementOfSeq
    <3>4. g.guest_fd = image.open_files[i].guest_fd
      <4>1. g = ReopenedEntry(image.open_files[i], g.host_fd)
        BY <1>0, <1>11, <2>2 DEF RestoreFollowsImage
      <4>2. g.host_fd \in Fd \cup {-1}
        BY <2>3 DEF GuestFile
      <4> QED
        BY <3>3, <4>1, <4>2, ReopenedFields
    <3>5. image.open_files[n + 1].guest_fd = g.guest_fd
      BY <1>5, <3>2 DEF e
    <3>6. i # n + 1
      BY <1>2
    <3> QED
      BY <1>1, <1>2, <1>11, <2>3, <3>3, <3>4, <3>5, <3>6 DEF NamesItsFiles, n
  <2>7. /\ g.host_fd \in DOMAIN fds' /\ fds'[g.host_fd] = fds[g.host_fd]
        /\ disk'[g.path] = disk[g.path]
    BY <1>7, <2>4, <2>5, <2>6
  <2> QED
    BY <1>0, <2>2, <2>7, ResumesStill
<1>12. FirstGeneration' <=> FirstGeneration
  BY <1>0 DEF FirstGeneration
<1>13. ASSUME FirstGeneration', NEW i \in Replayed',
              open_files'[i].guest_fd \in DOMAIN held' \ StdFd,
              Replayable(open_files[i])'
       PROVE  Resumes(open_files[i])'
  <2>1. PICK g : g = open_files[i] /\ g = open_files'[i] /\ i \in 1..n
    BY <1>6, <1>8, <1>13
  <2>2. Replayable(g)'
    BY <1>13, <2>1 DEF Replayable
  <2>3. Resumes(g)'
    BY <1>0, <1>11, <1>12, <1>13, <2>1, <2>2
  <2> QED
    BY <2>1, <2>3 DEF Resumes
<1> QED
  BY <1>0, <1>10, <1>13 DEF ReplaysAreRight

(* The rest of the round: the entry just reopened is written through, and  *)
(* no other entry's file, unless it shares it, in which case none of the   *)
(* two can be replayed.                                                    *)
LEMMA ReplayKeepsReplays ==
  ASSUME ~ DiskFaults, ~ ShortWrites, MigrationInv, ReplayInv, ReplayFile
  PROVE  ReplaysAreRight'
<1>0. /\ MigrationTypeOK /\ ImageIsDump /\ RestoreFollowsImage
      /\ SentIsCounted /\ ReplaysAreRight
      /\ vmm = "replaying" /\ vmm' = "reopening"
      /\ UNCHANGED <<open_files, mem, held, image, sent>>
  BY DEF MigrationInv, ReplayInv, ReplayFile
<1> DEFINE n == Len(open_files)
<1>1. /\ IsDump(image) /\ (FirstGeneration => NamesItsFiles(image) /\ CountsSent(image))
      /\ open_files \in Seq(GuestFile) /\ image.open_files \in Seq(GuestFile)
      /\ n <= Len(image.open_files) /\ held = image.held /\ sent = image.sent
      /\ open_files # <<>>
  BY <1>0 DEF RestoreFollowsImage, ImageIsDump, IsDump, SentIsCounted,
              ReplaysAreRight, MigrationTypeOK
<1>2. /\ n \in Nat /\ n \in 1..n /\ DOMAIN open_files = 1..n
      /\ 1..n \subseteq DOMAIN image.open_files
  BY <1>1, EmptySeq
<1>3. PICK f \in GuestFile : f = open_files[n]
  BY <1>1, <1>2, ElementOfSeq
<1>4. PICK r : KWrite(f.host_fd, ReplayData(f), r)
  BY <1>3 DEF ReplayFile
<1>5. Replayed = 1..(n - 1) /\ Replayed' = 1..n
  BY <1>0, <1>2 DEF Replayed
<1> HIDE DEF n
<1>6. /\ DOMAIN fds' = DOMAIN fds
      /\ \A h \in DOMAIN fds : /\ fds'[h].node = fds[h].node
                               /\ fds'[h].flags = fds[h].flags
  BY <1>0, <1>4, KWriteKeepsDescriptors DEF MigrationTypeOK
<1>7. ASSUME NEW i \in 1..n
      PROVE  /\ open_files[i] \in GuestFile
             /\ open_files[i].guest_fd = image.open_files[i].guest_fd
             /\ open_files[i].offset = image.open_files[i].offset
             /\ open_files[i].flags = image.open_files[i].flags
  <2>1. open_files[i] \in GuestFile /\ image.open_files[i] \in GuestFile
    BY <1>1, <1>2, ElementOfSeq
  <2>2. open_files[i] = ReopenedEntry(image.open_files[i], open_files[i].host_fd)
    BY <1>0, <1>2 DEF RestoreFollowsImage
  <2>3. PICK e \in GuestFile, h \in Fd \cup {-1} :
          e = image.open_files[i] /\ h = open_files[i].host_fd
    BY <2>1 DEF GuestFile
  <2> QED
    BY <2>1, <2>2, <2>3, ReopenedFields
<1>8. \A g \in DOMAIN held : g # -1
  BY <1>0, KernelAssumption DEF MigrationTypeOK, Fd
<1>9. ASSUME FirstGeneration, f.guest_fd \in DOMAIN held, Replayable(f)
      PROVE  Resumes(f)'
  <2>1. "EXCL" \notin f.flags /\ "RDONLY" \notin f.flags
    BY <1>9 DEF Replayable
  <2>2. f.host_fd \in DOMAIN fds
    BY <1>0, <1>2, <1>3, <1>9, <2>1 DEF RestoreFollowsImage
  <2>3. f.host_fd # -1
    BY <1>0, <2>2, KernelAssumption DEF MigrationTypeOK, KernelTypeOK, Fd
  <2>4. /\ fds[f.host_fd].node = f.path /\ fds[f.host_fd].flags = f.flags
        /\ fds[f.host_fd].pos = 0
    <3>1. n \notin 1..(n - 1)
      BY <1>2
    <3> QED
      BY <1>0, <1>2, <1>3, <1>5, <2>3, <3>1 DEF ReplaysAreRight
  <2>5. sent[f.guest_fd] \in Seq(Byte)
    BY <1>0, <1>9 DEF MigrationTypeOK
  <2>6. f.offset = Len(sent[f.guest_fd])
    BY <1>1, <1>2, <1>3, <1>7, <1>9, <2>1 DEF CountsSent
  <2> QED
    BY <1>0, <1>4, <1>9, <2>2, <2>4, <2>5, <2>6, ReplayIsRight
<1>10. ASSUME FirstGeneration, NEW i \in 1..(n - 1), NEW g, g = open_files[i],
              g.guest_fd \in DOMAIN held \ StdFd, Replayable(g)
       PROVE  Resumes(g)'
  <2>1. i \in 1..n /\ i # n
    BY <1>2
  <2>2. Resumes(g) /\ g \in GuestFile
    BY <1>0, <1>5, <1>7, <1>10, <2>1 DEF ReplaysAreRight
  <2>3. g.host_fd \in DOMAIN fds /\ fds[g.host_fd].node = g.path
    <3>1. g.host_fd \in DOMAIN fds /\ g.host_fd # -1
      BY <1>0, <2>2, KernelAssumption DEF Resumes, MigrationTypeOK, KernelTypeOK, Fd
    <3> QED
      BY <1>0, <1>2, <1>10, <2>1, <3>1 DEF ReplaysAreRight
  <2>4. g.path \in DOMAIN disk
    BY <1>0, <2>2, <2>3 DEF MigrationTypeOK, KernelTypeOK, GuestFile
  <2>5. g.path # f.path
    <3>1. SUFFICES ASSUME g.path = f.path PROVE FALSE
      OBVIOUS
    <3>2. f.guest_fd = g.guest_fd
      BY <1>2, <1>3, <1>10, <3>1 DEF Replayable
    <3>3. image.open_files[i].guest_fd = image.open_files[n].guest_fd
      BY <1>2, <1>3, <1>7, <1>10, <2>1, <3>2
    <3>4. image.open_files[i].guest_fd # -1
      BY <1>7, <1>8, <1>10, <2>1
    <3> QED
      BY <1>1, <1>2, <1>10, <2>1, <3>3, <3>4 DEF NamesItsFiles
  <2>6. /\ fds'[g.host_fd] = fds[g.host_fd] /\ disk'[g.path] = disk[g.path]
    <3>1. CASE KWriteFile(f.host_fd, ReplayData(f), r)
      <4>1. f.host_fd \in DOMAIN fds /\ f.host_fd # -1
        BY <1>0, <3>1, KernelAssumption
        DEF KWriteFile, MigrationTypeOK, KernelTypeOK, Fd
      <4>2. fds[f.host_fd].node = f.path
        BY <1>0, <1>2, <1>3, <4>1 DEF ReplaysAreRight
      <4>3. g.host_fd # f.host_fd
        BY <2>3, <2>5, <4>2
      <4> QED
        BY <1>0, <2>3, <2>4, <2>5, <3>1, <4>2, <4>3
        DEF KWriteFile, MigrationTypeOK, KernelTypeOK
    <3>2. CASE UNCHANGED <<fds, disk>>
      BY <3>2
    <3> QED
      BY <1>4, <3>1, <3>2 DEF KWrite, KWriteTty, KWriteFails
  <2> QED
    BY <1>0, <1>6, <2>2, <2>3, <2>6, ResumesStill
<1>11. FirstGeneration' <=> FirstGeneration
  BY <1>0 DEF FirstGeneration
<1>12. ASSUME FirstGeneration', NEW i \in Replayed',
              open_files'[i].guest_fd \in DOMAIN held' \ StdFd,
              Replayable(open_files[i])'
       PROVE  Resumes(open_files[i])'
  <2>1. PICK g : g = open_files[i] /\ g = open_files'[i] /\ i \in 1..n
    BY <1>0, <1>5, <1>12
  <2>2. Replayable(g)
    BY <1>0, <1>12, <2>1 DEF Replayable, Buffer
  <2>3. i \in 1..(n - 1) \/ g = f
    <3>1. \A k \in 1..n : k \in 1..(n - 1) \/ k = n
      BY <1>2
    <3> QED
      BY <1>3, <2>1, <3>1, Zenon
  <2>4. Resumes(g)'
    BY <1>0, <1>9, <1>10, <1>11, <1>12, <2>1, <2>2, <2>3
  <2> QED
    BY <2>1, <2>4 DEF Resumes
<1>13. \A i \in DOMAIN open_files' :
         open_files'[i].host_fd # -1 =>
           /\ open_files'[i].host_fd \in DOMAIN fds'
           /\ fds'[open_files'[i].host_fd].node = open_files'[i].path
           /\ fds'[open_files'[i].host_fd].flags = open_files'[i].flags
           /\ i \in Replayed'
  BY <1>0, <1>2, <1>5, <1>6 DEF ReplaysAreRight
<1> QED
  BY <1>0, <1>1, <1>12, <1>13 DEF ReplaysAreRight

LEMMA ReplaysStep ==
  ASSUME ~ DiskFaults, ~ ShortWrites, MigrationInv, ReplayInv, MigrationStep
  PROVE  ReplaysAreRight'
<1>1. CASE ServedCall
  BY <1>1, ServedCallTypes DEF MigrationInv, ReplaysAreRight
<1>2. CASE MigrationProcessEnds
  BY <1>2 DEF MigrationProcessEnds, ProcessEnds, ReplaysAreRight
<1>3. CASE SysSave \/ OpenImage \/ RestoreFinish
  BY <1>3 DEF SysSave, OpenImage, RestoreFinish, ReplaysAreRight
<1>4. CASE UNCHANGED migrationVars
  BY <1>4 DEF migrationVars, ReplayInv, ReplaysAreRight, FirstGeneration,
              Replayed, Replayable, Resumes, Buffer
<1> QED
  BY <1>1, <1>2, <1>3, <1>4, RestoreBeginsRight, ReopenKeepsReplays,
     ReplayKeepsReplays
  DEF ReplayInv, MigrationStep, SaveStep, OpenImageFails, WriteImageAndExit,
      RestoreStep

LEMMA ReplayStepInv ==
  ASSUME ~ DiskFaults, ~ ShortWrites, MigrationInv, ReplayInv, MigrationStep
  PROVE  ReplayInv'
BY SentStep, ReplaysStep DEF ReplayInv

LEMMA ReplayedAll ==
  ASSUME MigrationInv, ReplayInv, RestoreFinish, FirstGeneration,
         NEW i \in DOMAIN open_files,
         open_files[i].guest_fd \in DOMAIN held \ StdFd,
         Replayable(open_files[i])
  PROVE  Resumes(open_files[i])
BY DEF ReplayInv, ReplaysAreRight, Replayed, RestoreFinish

-----------------------------------------------------------------------------
(* While writes are whole and the disk is sound, offsets count what was    *)
(* sent, in launched VMMs and in their images, and replays go right one by *)
(* one.                                                                    *)
THEOREM ReplayInvariant ==
  ASSUME ~ DiskFaults, ~ ShortWrites
  PROVE  MigrationSpec => []ReplayInv
<1>1. MigrationInit => ReplayInv
  <2> SUFFICES ASSUME MigrationInit PROVE ReplayInv
    OBVIOUS
  <2>1. open_files = <<>> /\ vmm = "running" /\ image = NoImage
    BY DEF MigrationInit, Init, Launched
  <2>2. CountsSent(Dump)
    BY <2>1 DEF CountsSent, Dump
  <2> QED
    BY <2>1, <2>2 DEF ReplayInv, SentIsCounted, ReplaysAreRight
<1>2. MigrationInv /\ ReplayInv /\ [MigrationNext]_migrationVars => ReplayInv'
  BY NextIsStep, ReplayStepInv DEF MigrationInv
<1> QED
  BY <1>1, <1>2, MigrationInvariant, PTL DEF MigrationSpec

(* A restore then leaves every file that can be replayed at all with the   *)
(* guest's bytes, and its next write behind them: for every table, also    *)
(* where two entries name one file, and over what an earlier restore has   *)
(* left.                                                                   *)
THEOREM ReplaysAreFaithful ==
  ASSUME ~ DiskFaults, ~ ShortWrites
  PROVE  MigrationSpec => ReplayFaithful
<1>1. MigrationInv /\ ReplayInv /\ [MigrationNext]_migrationVars =>
        [RestoreFinish /\ FirstGeneration =>
           \A i \in DOMAIN open_files :
             LET e == open_files[i] IN
             e.guest_fd \in DOMAIN held \ StdFd /\ Replayable(e)
               => Resumes(e)]_migrationVars
  BY ReplayedAll
<1> QED
  BY <1>1, MigrationInvariant, ReplayInvariant, PTL
  DEF MigrationSpec, ReplayFaithful
=============================================================================
