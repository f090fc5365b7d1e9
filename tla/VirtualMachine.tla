--------------------------- MODULE VirtualMachine ---------------------------
(***************************************************************************)
(* The whole of a VM's life: save.c or restore.c creates it (manager.c),   *)
(* the vCPU goes through boot.asm and runs app.c, KVM_RUN returns, and the *)
(* run loop hands each exit to vmexit_handler, until the VMM ends.         *)
(*                                                                         *)
(* What an exit on hlt does is ColdMigration's; here the calls are those   *)
(* app.c makes, in its order, and a VMM process may be killed anywhere.    *)
(***************************************************************************)
EXTENDS ColdMigration, BootCode

CONSTANTS AppFile,     \* FILENAME of app.c
          Hello, Bye,  \* buff_1 and buff_2
          MaxLaunches  \* bound of the model: runs of save.c

ASSUME MachineAssumption ==
  /\ AppFile \in Path
  /\ Hello \in Seq(Byte) /\ Bye \in Seq(Byte) /\ Bye # <<>>
  /\ MemSize = 1 + Len(Hello) + Len(Bye)
  /\ MaxLaunches \in Nat

(* What app.c and its VMM rely on without a word.  There is a descriptor   *)
(* and an entry for its file.  And no answer is the number of a call that  *)
(* has an effect, as RAX holds the one and the other and may be read       *)
(* twice: the lines have 16 and 12 bytes, what goes to stdout 28, and open *)
(* answers the first number behind the VMM's own.                          *)
EffectiveCall == {1, 2, 3, 60, SAVE}
LauncherFds   == StdFd \cup VmmFds \cup LoaderFds

ASSUME AnswersAssumption ==
  /\ {Len(Hello), Len(Bye), MemSize} \cap EffectiveCall = {}
  /\ \E r \in Fd \ LauncherFds : /\ r \notin EffectiveCall
                                /\ \A f \in Fd \ LauncherFds : r <= f
  /\ MAX_OPEN_FILES > 0

VARIABLES launcher,     \* the VMM process: its main and how far it has come
          guest,        \* the vCPU and what guest memory has been filled with
          guest_image,  \* their copy in vm_image.sav
          in_guest,     \* KVM_RUN has been called and has not returned
          exit_reason,  \* run->exit_reason
          launches      \* runs of save.c so far

machineVars == <<launcher, guest, in_guest, exit_reason>>
vmVars == <<migrationVars, machineVars, guest_image, launches>>

-----------------------------------------------------------------------------
(* app.c as its calls, with those of the C library around main and of      *)
(* utils/exit.c behind it; the last is made for ever.                      *)
Call(nr)         == [nr |-> nr, fd |-> "none", at |-> 0, len |-> 0]
Write(fd, at, n) == [nr |-> 1, fd |-> fd, at |-> at, len |-> n]

app == << Call(158), Call(218),
          Call(2), Write("file", 1, Len(Hello)),
          Call(SAVE),
          Write("file", 1 + Len(Hello), Len(Bye)), Write("stdout", 0, MemSize),
          Call(3),
          Call(231), Call(60) >>

(* load_file puts the strings of the application next to each other.       *)
AppMemory == [a \in Addr |-> (<<ZeroByte>> \o Hello \o Bye)[a + 1]]

(* The variable fd of main: what open answered.                            *)
fd == IF held = NoDescriptors THEN -1 ELSE CHOOSE g \in DOMAIN held : TRUE

-----------------------------------------------------------------------------
NoProcess == [main |-> "none", calls |-> 0, unmapped |-> {}, refused |-> {}]
BlankVm   == [rip |-> 0, has |-> {}, ram |-> {}]

MachineGone ==
  /\ launcher' = NoProcess
  /\ guest' = BlankVm
  /\ in_guest' = FALSE
  /\ exit_reason' = "UNKNOWN"

(* A process ends by exit, err, errx or a signal: all of it is gone.       *)
ProcessGone ==
  /\ MigrationProcessEnds
  /\ MachineGone
  /\ UNCHANGED <<image, guest_image, launches>>

VmInit ==
  /\ fds = NoDescriptors /\ open_files = <<>> /\ rax = 0 /\ held = NoDescriptors
  /\ mem = [a \in Addr |-> ZeroByte]
  /\ vmm = "exited"
  /\ \E existing \in SUBSET Path : disk \in [existing -> OldContents]
  /\ image = NoImage /\ guest_image = BlankVm
  /\ restored_from_snapshot = FALSE /\ sent = NoDescriptors /\ restores = 0
  /\ launcher = NoProcess /\ guest = BlankVm
  /\ in_guest = FALSE /\ exit_reason = "UNKNOWN" /\ launches = 0

Start(main) ==
  /\ launcher = NoProcess
  /\ IF main = "save" THEN launches < MaxLaunches ELSE restores < MaxRestores
  /\ launcher' = [launcher EXCEPT !.main = main]
  /\ launches' = launches + (IF main = "save" THEN 1 ELSE 0)
  /\ UNCHANGED <<migrationVars, guest, guest_image, in_guest, exit_reason>>

(* What create_vm, create_bootstrap and add_memory ask of the kernel.      *)
CreationCalls ==
  << "open /dev/kvm", "GET_API_VERSION", "CREATE_VM",
     "GET_SUPPORTED_CPUID", "CREATE_VCPU", "SET_CPUID2", "GET_VCPU_MMAP_SIZE",
     "mmap run", "GET_SREGS", "SET_SREGS",
     "mmap memory", "SET_USER_MEMORY_REGION" >>

Unchecked == {"mmap run", "mmap memory"}  \* MAP_FAILED is compared with NULL
Created   == launcher.calls = Len(CreationCalls)

NextCreationCall(done) ==
  /\ vmm = "exited"
  /\ launcher.main # "none"
  /\ ~ Created
  /\ launcher' = [launcher EXCEPT !.calls = @ + 1, !.unmapped = done]
  /\ UNCHANGED <<migrationVars, guest, guest_image, in_guest, exit_reason,
                 launches>>

CurrentCall == CreationCalls[launcher.calls + 1]

RegionUnchecked ==  \* a slip: KVM_SET_USER_MEMORY_REGION is not checked
  NextCreationCall(launcher.unmapped)

CreationSucceeds ==
  /\ NextCreationCall(launcher.unmapped)
  /\ CurrentCall = "SET_USER_MEMORY_REGION"
       => "mmap memory" \notin launcher.unmapped

MmapFails ==
  /\ ~ Created /\ CurrentCall \in Unchecked
  /\ NextCreationCall(launcher.unmapped \cup {CurrentCall})

(* Any other call that fails, and KVM_SET_REGS of launch_vm: err().        *)
CreationFails ==
  /\ vmm = "exited"
  /\ launcher.main # "none"
  /\ Created => launcher.main = "save"
  /\ ~ Created => CurrentCall \notin Unchecked
  /\ ProcessGone

(* create_stack, load_file twice (GuestLoading) and launch_vm.             *)
Launch ==
  /\ vmm = "exited"
  /\ launcher.main = "save" /\ Created
  /\ vmm' = "running"
  /\ fds' = ProcessFds(VmmFds \cup LoaderFds)
  /\ mem' = AppMemory
  /\ guest' = [rip |-> 0, has |-> {"r14", "r15"}, ram |-> {"tables", "boot", "app"}]
  /\ in_guest' = TRUE
  /\ UNCHANGED <<disk, open_files, rax, held, image, restored_from_snapshot,
                 sent, restores, launcher, guest_image, exit_reason, launches>>

(* What KVM_SET_REGS, _SREGS and _MSRS put into the blank VM.  Their       *)
(* results are not looked at; the last two can refuse what the image has.  *)
WithoutMsrs(refused) ==  \* a slip: restore_msrs is not called
  [guest_image EXCEPT !.has = @ \cap (Regs \cup Sregs)]

RestoredVm(refused) ==
  [guest_image EXCEPT !.has =
     @ \cap (Regs \cup (IF "sregs" \in refused THEN {} ELSE Sregs)
                  \cup (IF "msrs" \in refused THEN {} ELSE Msrs))]

(* restore.c after the VM is created, up to its files.                     *)
LoadImage ==
  /\ launcher.main = "restore" /\ Created
  /\ RestoreStart
  /\ \E refused \in SUBSET {"sregs", "msrs"} :
       /\ launcher' = [launcher EXCEPT !.refused = refused]
       /\ guest' = RestoredVm(refused)
  /\ UNCHANGED <<guest_image, in_guest, exit_reason, launches>>

ReopenFiles ==
  /\ RestoreStep
  /\ in_guest' = (vmm' = "running")
  /\ UNCHANGED <<launcher, guest, guest_image, exit_reason, launches>>

-----------------------------------------------------------------------------
InBoot == guest.rip < Len(boot)

(* Whether the vCPU can go on: the settings and the memory it needs.       *)
CanRun ==
  IF InBoot THEN /\ boot[guest.rip + 1].needs \subseteq guest.has
                 /\ {"boot", "tables"} \subseteq guest.ram
            ELSE /\ CallNeeds \subseteq guest.has
                 /\ {"boot", "tables", "app"} \subseteq guest.ram

GuestBoots ==
  /\ in_guest /\ InBoot /\ CanRun
  /\ guest' = [guest EXCEPT !.rip = @ + 1,
                            !.has = @ \cup {boot[guest.rip + 1].gives}]
  /\ UNCHANGED <<migrationVars, launcher, guest_image, in_guest, exit_reason,
                 launches>>

Returns(reason) ==
  /\ in_guest
  /\ in_guest' = FALSE
  /\ exit_reason' = reason
  /\ UNCHANGED <<fds, disk, open_files, mem, held, vmm, image,
                 restored_from_snapshot, sent, restores, launcher, guest_image,
                 launches>>

LastStep == Len(boot) + Len(app)

(* The application runs to its next call, which halts the vCPU.            *)
GuestHalts ==
  /\ ~ InBoot /\ CanRun
  /\ Returns("HLT")
  /\ guest' = [guest EXCEPT !.rip = IF @ = LastStep THEN @ ELSE @ + 1]
  /\ rax' = app[guest'.rip - Len(boot)].nr

TripleFault ==
  /\ ~ CanRun
  /\ Returns("SHUTDOWN")
  /\ UNCHANGED <<guest, rax>>

(* KVM_RUN comes back for a reason of the host's, or it fails: on a signal *)
(* the reason is INTR, else it stays what it was.                          *)
HostReason == {"IO", "IRQ_WINDOW_OPEN", "MMIO", "FAIL_ENTRY", "INTERNAL_ERROR",
               "INTR"}

KvmRunInterrupted ==
  /\ \E reason \in HostReason \cup {exit_reason} : Returns(reason)
  /\ UNCHANGED <<guest, rax>>

-----------------------------------------------------------------------------
(* The call that the argument registers belong to.                         *)
LastCall == app[guest.rip - Len(boot)]

(* The switch of syscall_handler.  It goes by RAX.                         *)
StubServes ==  \* a slip: every call is ignored, as in lab_2
  SysIgnored(rax) /\ UNCHANGED <<image, restored_from_snapshot, sent, restores>>

Serve ==
  \/ /\ \/ /\ rax = 1
           /\ GuestWrite(IF LastCall.fd = "file" THEN fd ELSE 1,
                         LastCall.at, LastCall.len)
        \/ rax = 2 /\ GuestOpen(AppFile, {"CREAT"})
        \/ rax = 3 /\ GuestClose(fd)
        \/ rax \notin {1, 2, 3, 60, SAVE} /\ SysIgnored(rax) /\ UNCHANGED sent
     /\ UNCHANGED <<image, restored_from_snapshot, restores>>
  \/ rax = 60 /\ GuestExit
  \/ rax = SAVE /\ SysSave

Mapped == "mmap run" \notin launcher.unmapped

HandleHlt ==
  /\ vmm = "running" /\ ~ in_guest /\ Mapped
  /\ exit_reason = "HLT"
  /\ Serve
  /\ IF vmm' = "exited" THEN MachineGone
     ELSE /\ in_guest' = (vmm' = "running")
          /\ UNCHANGED <<launcher, guest, exit_reason>>
  /\ UNCHANGED <<guest_image, launches>>

(* The other cases of vmexit_handler: some go on, ...                      *)
HandleAndContinue ==
  /\ vmm = "running" /\ ~ in_guest /\ Mapped
  /\ exit_reason \in {"IO", "IRQ_WINDOW_OPEN", "MMIO"}
  /\ in_guest' = TRUE
  /\ UNCHANGED <<migrationVars, launcher, guest, guest_image, exit_reason,
                 launches>>

(* ... and the rest is errx.  Without the page of kvm_run, reading the     *)
(* reason kills the process.                                               *)
HandleAndDie ==
  /\ vmm = "running" /\ ~ in_guest
  /\ Mapped => exit_reason \notin {"HLT", "IO", "IRQ_WINDOW_OPEN", "MMIO"}
  /\ ProcessGone

StoreImage ==
  /\ SaveStep
  /\ IF vmm' = "exited" THEN MachineGone ELSE UNCHANGED machineVars
  /\ guest_image' = IF vmm = "writing" THEN guest ELSE guest_image
  /\ UNCHANGED launches

Killed ==
  /\ launcher # NoProcess
  /\ ProcessGone

-----------------------------------------------------------------------------
VmmStep ==
  \/ CreationSucceeds \/ MmapFails \/ CreationFails
  \/ Launch \/ LoadImage \/ ReopenFiles
  \/ HandleHlt \/ HandleAndContinue \/ HandleAndDie \/ StoreImage

GuestStepOn == GuestBoots \/ GuestHalts \/ TripleFault

VmNext ==
  \/ \E main \in {"save", "restore"} : Start(main)
  \/ VmmStep \/ GuestStepOn \/ KvmRunInterrupted \/ Killed

VmSpec == VmInit /\ [][VmNext]_vmVars

(* The VMM is straight-line code and loops that wait for nobody.  The vCPU *)
(* makes progress although KVM_RUN keeps being interrupted: the signals    *)
(* and exits of the host leave it time to run in between.                  *)
FairVmSpec == VmSpec /\ WF_vmVars(VmmStep) /\ SF_vmVars(GuestStepOn)

-----------------------------------------------------------------------------
Vcpu == [rip : 0..LastStep, has : SUBSET Setting,
         ram : SUBSET {"tables", "boot", "app"}]

(* Every variable stays in its range, and a guest runs only in a VM whose  *)
(* creation is complete.                                                   *)
MachineTypeOK ==
  /\ MigrationTypeOK
  /\ launcher \in [main : {"none", "save", "restore"},
                   calls : 0..Len(CreationCalls),
                   unmapped : SUBSET Unchecked,
                   refused : SUBSET {"sregs", "msrs"}]
  /\ guest \in Vcpu /\ guest_image \in Vcpu
  /\ in_guest \in BOOLEAN
  /\ exit_reason \in HostReason \cup {"UNKNOWN", "HLT", "SHUTDOWN"}
  /\ in_guest => vmm = "running"
  /\ vmm # "exited" => Created /\ "mmap memory" \notin launcher.unmapped

(* The guest never comes to an instruction whose registers or memory are   *)
(* not there, neither booted nor restored, unless the kernel has refused   *)
(* registers of the image: boot.asm sets them up in an order that works,   *)
(* and the image has every one of them.                                    *)
NoTripleFault == exit_reason = "SHUTDOWN" => launcher.refused # {}

(* The settings made by n steps of boot.asm, on top of the launcher's, ... *)
GivenBy(n) == {"r14", "r15"} \cup {boot[i].gives : i \in 1..n}

(* ... and a vCPU that has all of them, as far as it has come.             *)
SetUp(v) ==
  /\ GivenBy(IF v.rip < Len(boot) THEN v.rip ELSE Len(boot)) \subseteq v.has
  /\ {"tables", "boot", "app"} \subseteq v.ram

(* The guest is set up as far as it has run, launched or restored; one     *)
(* whose registers were refused never runs to a call.                      *)
GuestSetUp ==
  vmm \notin {"exited", "undefined"} =>
    IF launcher.refused = {} THEN SetUp(guest)
    ELSE ~ InBoot /\ ~ (CallNeeds \subseteq guest.has)

(* A call is served only to a guest that has made it; a SAVE therefore     *)
(* dumps a vCPU in the application, with every setting of boot.asm.        *)
CallsAreMade ==
  /\ exit_reason = "HLT" => guest.rip > Len(boot) /\ launcher.refused = {}
  /\ vmm \in {"saving", "writing"} => exit_reason = "HLT"
  /\ vmm \notin {"running", "saving", "writing"} => exit_reason = "UNKNOWN"
  /\ image \notin {NoImage, Torn} =>
       guest_image.rip > Len(boot) /\ SetUp(guest_image)

(* The inductive invariant: what ColdMigration says of the VMM, here with  *)
(* any number of launches, and a vCPU that is set up.                      *)
MachineInv ==
  /\ MachineTypeOK /\ MigrationInv
  /\ Created => "mmap memory" \notin launcher.unmapped
  /\ vmm = "exited" => launcher.refused = {}
  /\ GuestSetUp /\ CallsAreMade /\ NoTripleFault

Output == Hello \o Bye

FileHolds(text) ==
  /\ AppFile \in DOMAIN disk
  /\ Len(text) <= Len(disk[AppFile])
  /\ \A i \in 1..Len(text) : disk[AppFile][i] = text[i]

(* Whenever its vCPU runs or has halted, the guest's file holds what main  *)
(* has written so far, each line once, and is positioned behind it: after  *)
(* interrupted KVM_RUNs, which may have a call served twice, and in a      *)
(* restored VM.                                                            *)
AppFileRight ==
  vmm = "running" =>
    \A g \in DOMAIN held :
      /\ ReachesItsFile(g)
      /\ fds[get_host_fd_from_guest_fd(g)].pos = Len(sent[g])
      /\ FileHolds(sent[g])
      /\ sent[g] \in {<<>>, Hello, Output}

(* When the guest exits, its file begins with both lines, whichever VMM    *)
(* wrote them and whatever was launched, killed or restored before.        *)
OutputComplete ==
  [][exit_reason = "HLT" /\ ~ in_guest /\ rax = 60
       => FileHolds(Output)]_vmVars

AppDescriptor(h, pos) ==
  fds[h].node = AppFile /\ fds[h].pos = pos /\ fds[h].flags = {"CREAT"}

(* The guest has its file open, has written text to it and is at pos.      *)
FileOpen(text, pos) ==
  \E g \in DOMAIN held \ StdFd, h \in DOMAIN fds :
    /\ held = [n \in {g} |-> AppFile] /\ sent = [n \in {g} |-> text]
    /\ Len(open_files) = 1
    /\ open_files[1].guest_fd = g /\ open_files[1].host_fd = h
    /\ open_files[1].path = AppFile /\ open_files[1].flags = {"CREAT"}
    /\ AppDescriptor(h, pos)

(* What the table has noted of its writes.                                 *)
Noted(files, start, n) ==
  files[1].start_addr = start /\ files[1].offset = n

(* A call has been made and not been served; and the calls served so far.  *)
CallPending == ~ in_guest /\ exit_reason = "HLT" /\ rax = LastCall.nr
CallsServed == guest.rip - Len(boot) - (IF CallPending THEN 1 ELSE 0)

(* How far the file has come with the n-th call, in either VM.             *)
Progress(n) ==
  /\ n < 3 => /\ open_files = <<>> /\ held = NoDescriptors
              /\ fds = ProcessFds(VmmFds \cup LoaderFds)
  /\ n = 3 => /\ FileOpen(<<>>, 0) /\ Noted(open_files, 0, 0)
              /\ open_files[1].host_fd = open_files[1].guest_fd
  /\ n \in {4, 5} => /\ FileOpen(Hello, Len(Hello)) /\ FileHolds(Hello)
                     /\ Noted(open_files, 1, Len(Hello))
  /\ n \in {6, 7} => FileOpen(Output, Len(Output)) /\ FileHolds(Output)
  /\ n >= 8 => held = NoDescriptors /\ FileHolds(Output)

(* RAX holds a call that is to be served or an answer that is none.        *)
RaxIsAnswer == rax \notin EffectiveCall \/ (rax = SAVE /\ LastCall.nr = SAVE)

RunningApp ==
  vmm = "running" =>
    /\ mem = AppMemory
    /\ exit_reason = "HLT" => RaxIsAnswer \/ CallPending
    /\ Progress(CallsServed)

(* The application asks for SAVE between its two lines; an image has it    *)
(* there.                                                                  *)
AtSave == Len(boot) + 5

SavedByApp(d) ==
  /\ \E g \in DOMAIN d.held \ StdFd :
       /\ d.held = [n \in {g} |-> AppFile] /\ d.sent = [n \in {g} |-> Hello]
       /\ d.open_files[1].guest_fd = g
  /\ Len(d.open_files) = 1
  /\ d.open_files[1].path = AppFile /\ d.open_files[1].flags = {"CREAT"}
  /\ Noted(d.open_files, 1, Len(Hello))
  /\ d.mem = AppMemory

SavedApp ==
  /\ vmm \in {"saving", "writing"} =>
       rax = SAVE /\ guest.rip = AtSave /\ SavedByApp(Dump)
  /\ image \notin {NoImage, Torn} =>
       guest_image.rip = AtSave /\ SavedByApp(image)

(* The restore opens the file and puts the first line where it was.        *)
ReopenedApp ==
  vmm \in {"reopening", "replaying"} =>
    /\ guest.rip = AtSave /\ mem = AppMemory
    /\ held = image.held /\ sent = image.sent
    /\ open_files = <<>> => fds = ProcessFds(VmmFds)
    /\ open_files # <<>> =>
         /\ FileOpen(Hello, IF vmm = "replaying" THEN 0 ELSE Len(Hello))
         /\ Noted(open_files, 1, Len(Hello))
         /\ vmm = "reopening" => FileHolds(Hello)

StdoutIsTty ==
  vmm \notin {"exited", "undefined"} => 1 \in DOMAIN fds /\ fds[1].node = Tty

(* With MachineInv, the inductive invariant behind AppFileRight and        *)
(* OutputComplete: file, table and what the guest was told go with the     *)
(* calls of app.c, one by one, through the image into the restored VM.     *)
AppInv == RunningApp /\ SavedApp /\ ReopenedApp /\ StdoutIsTty

(* Every VMM process that is started comes to an end, unless it runs a VM  *)
(* of which nothing is known: creation does not hang, the run loop does    *)
(* not spin on one exit, and the guest's own last loop is left.            *)
EveryVmmEnds ==
  launcher.main # "none" ~> (launcher.main = "none" \/ vmm = "undefined")
=============================================================================
