--------------------------- MODULE ColdMigration ----------------------------
(***************************************************************************)
(* Cold migration through an image file: a launched VMM (save.c) serves    *)
(* its guest until the guest asks for SAVE, writes vm_image.sav and exits; *)
(* a new VMM process (restore.c) loads the image, builds a blank VM,       *)
(* reopens the guest's files, replays what the guest had written to them   *)
(* and lets the guest go on.                                               *)
(*                                                                         *)
(* The guest and its system calls are SyscallHandler's.  Each step below   *)
(* is a step of one VMM process; the process may be killed between any     *)
(* two steps of SAVE and RESTORE.                                          *)
(***************************************************************************)
EXTENDS SyscallHandler, FiniteSets

CONSTANTS NoImage,     \* vm_image.sav does not exist
          Torn,        \* vm_image.sav is not a whole VM_image
          ForeignByte, \* what lies behind the guest's memory in the VMM
          MaxRestores  \* bound of the model: runs of restore.c

ASSUME MigrationAssumption == ForeignByte \in Byte /\ MaxRestores \in Nat

(* A restored VMM may have a whole table of files open beside its own      *)
(* descriptors: 64 files, where a process may have 1024 descriptors.       *)
ASSUME RoomForTable ==
  Cardinality(StdFd \cup VmmFds) + MAX_OPEN_FILES <= FdLimit

VARIABLES image,                   \* vm_image.sav
          restored_from_snapshot,  \* the flag of syscall_handler.c
          sent,                    \* what the guest knows: the bytes the
                                   \* host accepted through each number
          restores                 \* runs of restore.c so far

migrationVars ==
  <<fds, disk, open_files, rax, mem, held, vmm,
    image, restored_from_snapshot, sent, restores>>

SAVE == 400

-----------------------------------------------------------------------------
(* save_vm_image, first half: the VM_image assembled on the VMM's stack.   *)
(* held and sent stand for the guest's variables in its own memory;        *)
(* generation only tells properties which VMM made the dump.               *)
Dump == [open_files |-> open_files, mem |-> mem, rax |-> rax,
         held |-> held, sent |-> sent, generation |-> restores]

MigrationInit ==
  /\ Init
  /\ image = NoImage
  /\ restored_from_snapshot = FALSE
  /\ sent = NoDescriptors
  /\ restores = 0

(* The system calls of SyscallHandler, with what the guest learns of them. *)
GuestWrite(g, a, n) ==
  /\ SysWrite(g, a, n)
  /\ g \in DOMAIN held => Len(sent[g]) + n <= MaxFileLen
  /\ sent' = IF g \in DOMAIN held /\ rax' > 0
               THEN [sent EXCEPT ![g] = @ \o SubSeq(Buffer(a, n), 1, rax')]
               ELSE sent

GuestOpen(p, fl) ==
  /\ SysOpen(p, fl)
  /\ sent' = [g \in DOMAIN held' |->
                IF held' # held /\ g = rax' THEN <<>> ELSE sent[g]]

GuestClose(g) ==
  /\ SysClose(g)
  /\ sent' = [n \in DOMAIN held' |-> sent[n]]

GuestCall ==
  /\ \/ \E a \in Addr, b \in GuestByte : GuestStore(a, b) /\ UNCHANGED sent
     \/ \E g \in GuestFd, a \in Addr, n \in 0..MemSize : GuestWrite(g, a, n)
     \/ \E p \in Path, fl \in GuestOpenFlags : GuestOpen(p, fl)
     \/ \E g \in CloseFd : GuestClose(g)
     \/ \E call \in IgnoredCall : SysIgnored(call) /\ UNCHANGED sent
  /\ UNCHANGED <<image, restored_from_snapshot, restores>>

(* The process is gone; what it had in memory with it.                     *)
MigrationProcessEnds ==
  /\ ProcessEnds
  /\ restored_from_snapshot' = FALSE
  /\ sent' = NoDescriptors
  /\ UNCHANGED restores

GuestExit ==
  /\ vmm = "running"
  /\ MigrationProcessEnds
  /\ UNCHANGED image

-----------------------------------------------------------------------------
(* The guest calls SAVE.  RAX keeps the number of the call.                *)
SysSave ==
  /\ vmm = "running"
  /\ rax' = SAVE
  /\ \/ /\ restored_from_snapshot
        /\ restored_from_snapshot' = FALSE
        /\ UNCHANGED vmm
     \/ /\ ~ restored_from_snapshot
        /\ vmm' = "saving"
        /\ UNCHANGED restored_from_snapshot
  /\ UNCHANGED <<fds, disk, open_files, mem, held, image, sent, restores>>

(* fopen(filename, "wb") empties the image that was there before.          *)
OpenImage ==
  /\ vmm = "saving"
  /\ vmm' = "writing"
  /\ image' = Torn
  /\ UNCHANGED <<fds, disk, open_files, rax, mem, held,
                 restored_from_snapshot, sent, restores>>

(* fopen's NULL goes to fwrite unchecked: the process dies.                *)
OpenImageFails ==
  /\ vmm = "saving"
  /\ DiskFaults
  /\ MigrationProcessEnds
  /\ UNCHANGED image

(* fwrite and fclose, whose results nobody looks at; with no destination   *)
(* set send_vm_image returns at once; then exit(0).                        *)
WriteImageAndExit ==
  /\ vmm = "writing"
  /\ image' = Dump \/ (DiskFaults /\ image' = Torn)
  /\ MigrationProcessEnds

Crash ==
  /\ vmm \in {"saving", "writing", "reopening", "replaying", "undefined"}
  /\ MigrationProcessEnds
  /\ UNCHANGED image

-----------------------------------------------------------------------------
(* restore.c up to the files: load the image, create the VM, set registers *)
(* and memory.  load_vm_image checks neither that it has read an image nor *)
(* that it was a whole one: what runs then is not known.                   *)
RestoreStart ==
  /\ vmm = "exited"
  /\ restores < MaxRestores
  /\ restores' = restores + 1
  /\ fds' = ProcessFds(VmmFds)
  /\ IF image \in {NoImage, Torn}
       THEN /\ vmm' = "undefined"
            /\ UNCHANGED <<rax, mem, held, sent>>
       ELSE /\ vmm' = "reopening"
            /\ rax' = image.rax
            /\ mem' = image.mem
            /\ held' = image.held
            /\ sent' = image.sent
  /\ UNCHANGED <<disk, open_files, image, restored_from_snapshot>>

KeepsHostFd(e, r) ==  \* a slip: the new host descriptor is not recorded
  e

ReopenedEntry(e, r) == [e EXCEPT !.host_fd = r]

(* One round of the loop of restore_from_image, up to its open.            *)
ReopenFile ==
  /\ vmm = "reopening"
  /\ Len(open_files) < Len(image.open_files)
  /\ LET e == image.open_files[Len(open_files) + 1] IN
     \E r \in Fd \cup {-1} :
       /\ KOpen(e.path, e.flags, r)
       /\ open_files' = Append(open_files, ReopenedEntry(e, r))
  /\ vmm' = "replaying"
  /\ UNCHANGED <<rax, mem, held, image, restored_from_snapshot, sent, restores>>

FromMemoryStart(e) ==  \* a slip: start_addr is forgotten
  [k \in 1..e.offset |-> IF k <= MemSize THEN mem[k - 1] ELSE ForeignByte]

(* offset bytes from start_addr on, wherever they end.                     *)
ReplayData(e) ==
  [k \in 1..e.offset |->
     IF e.start_addr + k <= MemSize THEN mem[e.start_addr + k - 1]
                                    ELSE ForeignByte]

(* The rest of the round: the write, its result dropped.                   *)
ReplayFile ==
  /\ vmm = "replaying"
  /\ LET e == open_files[Len(open_files)] IN
     \E r \in -1..e.offset : KWrite(e.host_fd, ReplayData(e), r)
  /\ vmm' = "reopening"
  /\ UNCHANGED <<open_files, rax, mem, held, image, restored_from_snapshot,
                 sent, restores>>

AllSlotsReopened ==  \* a slip: the loop counts slots, not entries
  Len(open_files) = MAX_OPEN_FILES

AllReopened == Len(open_files) = Len(image.open_files)

(* The loop is done: the flag is set and continue_vm runs the guest.       *)
RestoreFinish ==
  /\ vmm = "reopening"
  /\ AllReopened
  /\ restored_from_snapshot' = TRUE
  /\ vmm' = "running"
  /\ UNCHANGED <<fds, disk, open_files, rax, mem, held, image, sent, restores>>

-----------------------------------------------------------------------------
SaveStep    == OpenImage \/ OpenImageFails \/ WriteImageAndExit
RestoreStep == ReopenFile \/ ReplayFile \/ RestoreFinish

MigrationNext ==
  GuestCall \/ GuestExit \/ SysSave \/ SaveStep \/ RestoreStart \/ RestoreStep
    \/ Crash

MigrationSpec == MigrationInit /\ [][MigrationNext]_migrationVars

(* A VMM that is in the middle of SAVE or RESTORE goes on: these are       *)
(* straight-line code and a loop, without waiting for anyone.              *)
FairMigrationSpec ==
  MigrationSpec /\ WF_migrationVars(SaveStep) /\ WF_migrationVars(RestoreStep)

-----------------------------------------------------------------------------
(* Every variable stays in its range.                                      *)
MigrationTypeOK ==
  /\ KernelTypeOK
  /\ open_files \in Seq(GuestFile)
  /\ Len(open_files) <= MAX_OPEN_FILES
  /\ rax \in Int
  /\ mem \in [Addr -> Byte]
  /\ held \in [DOMAIN held -> Path] /\ DOMAIN held \subseteq Fd
  /\ sent \in [DOMAIN held -> Seq(Byte)]
  /\ vmm \in {"running", "saving", "writing", "exited", "reopening",
              "replaying", "undefined"}
  /\ restored_from_snapshot \in BOOLEAN
  /\ restores \in 0..MaxRestores

(* The image being restored was dumped by the VMM that launched the guest. *)
FirstGeneration == image.generation = 0

(* What SAVE wrote is in range.                                            *)
IsDump(d) ==
  /\ d.open_files \in Seq(GuestFile)
  /\ Len(d.open_files) <= MAX_OPEN_FILES
  /\ d.rax \in Int
  /\ d.mem \in [Addr -> Byte]
  /\ d.held \in [DOMAIN d.held -> Path] /\ DOMAIN d.held \subseteq Fd
  /\ d.sent \in [DOMAIN d.held -> Seq(Byte)]

(* A dump of a VMM that launched its guest: every number the guest holds   *)
(* has its entry, and only one, and the file it names exists.              *)
NamesItsFiles(d) ==
  /\ \A g \in DOMAIN d.held :
       /\ d.held[g] \in DOMAIN disk
       /\ \E i \in DOMAIN d.open_files :
            d.open_files[i].guest_fd = g /\ d.open_files[i].path = d.held[g]
  /\ \A i, j \in DOMAIN d.open_files :
       i # j /\ d.open_files[i].guest_fd = d.open_files[j].guest_fd
         => d.open_files[i].guest_fd = -1

ImageIsDump ==
  image \notin {NoImage, Torn} =>
    IsDump(image) /\ (FirstGeneration => NamesItsFiles(image))

(* What guests are handed, launched or restored: no entry leads to what    *)
(* the VMM opened for itself.                                              *)
EntriesAreNotDevices ==
  \A i \in DOMAIN open_files :
    LET h == open_files[i].host_fd IN h \in DOMAIN fds => fds[h].node # Device

(* Before the first restore the VMM is the launched one of SyscallHandler. *)
LaunchedTableRight ==
  restores = 0 /\ vmm \in {"running", "saving", "writing"} =>
    TableMirrorsHost /\ HeldMatchesHost

(* A process that has ended leaves nothing to the next one.                *)
EndedIsEmpty ==
  vmm \in {"exited", "undefined"} => open_files = <<>> /\ held = NoDescriptors

(* The loop of restore_from_image: the entries so far are those of the     *)
(* image with the host's new numbers, there is room for the others, and no *)
(* file of the guest is missing but for flags that refuse a second open.   *)
RestoreFollowsImage ==
  vmm \in {"reopening", "replaying"} =>
    /\ image \notin {NoImage, Torn} /\ restores > 0
    /\ held = image.held
    /\ Len(open_files) <= Len(image.open_files)
    /\ vmm = "replaying" => open_files # <<>>
    /\ Cardinality(DOMAIN fds) <=
         Cardinality(StdFd \cup VmmFds) + Len(open_files)
    /\ \A i \in DOMAIN open_files :
         LET e == open_files[i] IN
         /\ e = ReopenedEntry(image.open_files[i], e.host_fd)
         /\ FirstGeneration /\ e.guest_fd \in DOMAIN held =>
              \/ e.host_fd \in DOMAIN fds /\ fds[e.host_fd].node = e.path
              \/ "EXCL" \in e.flags

(* The inductive invariant: a launched VMM's table tells what its guest    *)
(* holds, its dump keeps that, and a restore rebuilds it entry by entry,   *)
(* whatever was killed, torn or restored before.                           *)
MigrationInv ==
  /\ MigrationTypeOK
  /\ StreamsAreNotDevices /\ EntriesAreNotDevices
  /\ ImageIsDump
  /\ LaunchedTableRight /\ EndedIsEmpty
  /\ RestoreFollowsImage

(* When RESTORE is over, every number the guest held at SAVE leads to the  *)
(* file it was opened on, though the host's descriptors have moved, other  *)
(* entries record opens that failed, and an earlier restore of the same    *)
(* image may have been killed halfway or run the guest.  Two kinds of file *)
(* are lost: one that the guest had opened under the number of a standard  *)
(* stream, which is hard-coded, and one whose flags refuse a second open.  *)
HeldFilesSurvive ==
  [][RestoreFinish /\ FirstGeneration =>
       \A g \in DOMAIN held \ StdFd :
         \/ ReachesItsFile(g)
         \/ \E i \in Slots(g) : "EXCL" \in open_files[i].flags]_migrationVars

(* The guest's bytes are still where its first write of the file took them *)
(* from: the case in which a replay can be right.                          *)
Replayable(e) ==
  /\ {"APPEND", "EXCL", "RDONLY"} \cap e.flags = {}
  /\ Len(sent[e.guest_fd]) <= MemSize - e.start_addr
  /\ sent[e.guest_fd] = Buffer(e.start_addr, Len(sent[e.guest_fd]))
  /\ \A i \in DOMAIN open_files : open_files[i].path = e.path
                                    => open_files[i].guest_fd = e.guest_fd

Resumes(e) ==
  LET bytes == sent[e.guest_fd] IN
  /\ e.host_fd \in DOMAIN fds
  /\ fds[e.host_fd].pos = Len(bytes)
  /\ Len(disk[e.path]) >= Len(bytes)
  /\ SubSeq(disk[e.path], 1, Len(bytes)) = bytes

(* When RESTORE is over, a file with a single descriptor whose bytes lie   *)
(* untouched in one buffer holds what the guest had written to it, and the *)
(* next write goes on where the guest left off; also when an earlier       *)
(* restore of the image has already replayed, and written, into it.        *)
ReplayFaithful ==
  [][RestoreFinish /\ FirstGeneration =>
       \A i \in DOMAIN open_files :
         LET e == open_files[i] IN
         e.guest_fd \in DOMAIN held \ StdFd /\ Replayable(e) => Resumes(e)]_migrationVars

(* A table counts what the guest has sent: what a write adds to an entry's *)
(* offset is what the guest is told, and the search finds the right entry. *)
CountsSent(d) ==
  \A i \in DOMAIN d.open_files :
    LET e == d.open_files[i] IN
    e.guest_fd \in DOMAIN d.held /\ "RDONLY" \notin e.flags
      => e.offset = Len(d.sent[e.guest_fd])

SentIsCounted ==
  /\ restores = 0 /\ vmm \in {"running", "saving", "writing"} => CountsSent(Dump)
  /\ image \notin {NoImage, Torn} /\ FirstGeneration => CountsSent(image)

(* The entries through which the loop has written already.                 *)
Replayed == IF vmm = "replaying" THEN 1..(Len(open_files) - 1)
                                 ELSE DOMAIN open_files

(* The replays so far have put their files right, and the one to come      *)
(* starts at the beginning of its file.                                    *)
ReplaysAreRight ==
  vmm \in {"reopening", "replaying"} =>
    /\ sent = image.sent
    /\ \A i \in DOMAIN open_files :
         LET e == open_files[i] IN
         e.host_fd # -1 =>
           /\ e.host_fd \in DOMAIN fds
           /\ fds[e.host_fd].node = e.path /\ fds[e.host_fd].flags = e.flags
           /\ i \notin Replayed => fds[e.host_fd].pos = 0
    /\ FirstGeneration =>
         \A i \in Replayed :
           LET e == open_files[i] IN
           e.guest_fd \in DOMAIN held \ StdFd /\ Replayable(e) => Resumes(e)

(* With MigrationInv, the inductive invariant behind ReplayFaithful, as    *)
(* long as writes are whole and the disk sound.                            *)
ReplayInv == SentIsCounted /\ ReplaysAreRight

(* The same for every file of the image that is open for writing at a      *)
(* position of its own: Report.md:9 records its offset "to resume writes". *)
ReplayResumesWrites ==
  [][RestoreFinish /\ FirstGeneration =>
       \A i \in DOMAIN open_files :
         LET e == open_files[i] IN
         /\ e.guest_fd \in DOMAIN held \ StdFd
         /\ {"APPEND", "EXCL", "RDONLY"} \cap e.flags = {}
         => Resumes(e)]_migrationVars

(* "SAVE means stopping the VM and dump its current state in a VM image"   *)
(* (INSTRUCTIONS.md:21).                                                   *)
SaveStopsVm == [][SysSave => vmm' # "running"]_migrationVars

(* SAVE "stores the informations in a VM image file" and RESTORE deploys a *)
(* VM "with the information stored" there (INSTRUCTIONS.md:34-35): no VM   *)
(* is deployed from part of an image, whatever happened to the SAVE.       *)
RestoreMeetsWholeImage == [][RestoreStart => image # Torn]_migrationVars

(* A restored guest's numbers lead to its files also after it has opened   *)
(* and closed others: Report.md:60 tracks "physical and virtual fd, in     *)
(* case that they didn't remain the same".                                 *)
RunningGuestReachesItsFiles == vmm = "running" => GuestReachesItsFile

(* A restored VM can be saved again: as long as its guest runs, the table  *)
(* has the "file offset (to resume writes)" of Report.md:9.                *)
RestoredOffsetsResume == vmm = "running" => OffsetResumes

(* A VMM that has begun SAVE exits, and one that has begun RESTORE runs    *)
(* its guest, unless it is killed.                                         *)
SaveAndRestoreEnd ==
  /\ vmm \in {"saving", "writing"} ~> vmm = "exited"
  /\ vmm \in {"reopening", "replaying"} ~> vmm \in {"running", "exited"}
=============================================================================
