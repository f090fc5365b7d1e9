------------------------ MODULE VirtualMachine_proofs ------------------------
(***************************************************************************)
(* VirtualMachine's safety properties, for every size of memory and table, *)
(* every pair of lines, and any number of launches and restores.           *)
(*                                                                         *)
(* Of the VMM's steps all but Launch are ColdMigration's, so MigrationInv  *)
(* carries over; on top of it stands what the vCPU needs, instruction by   *)
(* instruction.                                                            *)
(***************************************************************************)
EXTENDS VirtualMachine, ColdMigration_proofs

-----------------------------------------------------------------------------
(* boot.asm and app.c.                                                     *)
LEMMA BootLength == Len(boot) = 15 /\ \A i \in 1..15 : boot[i].gives \in Setting
<1>1. Len(boot) = 15
  BY DEF boot
<1>2. \A i \in 1..15 : boot[i].gives \in Setting
  BY DEF boot, Step, Setting, Regs, Sregs, Msrs
<1> QED
  BY <1>1, <1>2

LEMMA BootGives ==
  /\ boot[1].gives = "gdt32" /\ boot[2].gives = "PE" /\ boot[3].gives = "CS32"
  /\ boot[4].gives = "PAE" /\ boot[5].gives = "LME" /\ boot[6].gives = "CR3"
  /\ boot[7].gives = "PG" /\ boot[8].gives = "gdt64" /\ boot[9].gives = "CS64"
  /\ boot[10].gives = "rsp" /\ boot[11].gives = "SSE" /\ boot[12].gives = "SCE"
  /\ boot[13].gives = "LSTAR" /\ boot[14].gives = "STAR" /\ boot[15].gives = "rcx"
BY DEF boot, Step

LEMMA BootNeeds ==
  /\ boot[1].needs = {} /\ boot[2].needs = {}
  /\ boot[3].needs = {"gdt32", "PE"}
  /\ \A i \in {4, 5, 6} : boot[i].needs = {"CS32"}
  /\ boot[7].needs = {"CS32", "PAE", "LME", "CR3"}
  /\ boot[8].needs = {"CS32", "PG"} /\ boot[9].needs = {"gdt64", "PG"}
  /\ boot[10].needs = {"CS64", "r14"}
  /\ \A i \in 11..14 : boot[i].needs = {"CS64"}
  /\ boot[15].needs = {"CS64", "r15"}
BY DEF boot, Step

LEMMA AppLength == Len(app) = 10 /\ \A i \in 1..10 : app[i].nr \in Int
BY DEF app, Call, Write, SAVE

LEMMA RipRange ==
  ASSUME NEW v \in Vcpu
  PROVE  v.rip \in 0..25
<1>1. LastStep = 25
  BY BootLength, AppLength DEF LastStep
<1>2. v.rip \in 0..LastStep
  BY DEF Vcpu
<1> QED
  BY <1>1, <1>2

LEMMA AppArguments ==
  /\ \A i \in {1, 2, 3, 5, 8, 9, 10} : app[i].at = 0 /\ app[i].len = 0
  /\ app[4].at = 1 /\ app[4].len = Len(Hello)
  /\ app[6].at = 1 + Len(Hello) /\ app[6].len = Len(Bye)
  /\ app[7].at = 0 /\ app[7].len = MemSize
BY DEF app, Call, Write

LEMMA AppBuffers ==
  ASSUME NEW i \in 1..10
  PROVE  app[i].at \in Addr /\ app[i].len \in 0..MemSize
<1>1. PICK h \in Nat, b \in Nat :
        h = Len(Hello) /\ b = Len(Bye) /\ b > 0 /\ MemSize = 1 + h + b
  BY MachineAssumption, EmptySeq
<1>2. i \in {1, 2, 3, 5, 8, 9, 10} \/ i = 4 \/ i = 6 \/ i = 7
  OBVIOUS
<1>3. CASE i \in {1, 2, 3, 5, 8, 9, 10}
  <2>1. app[i].at = 0 /\ app[i].len = 0
    BY <1>3, AppArguments
  <2>2. 0 \in Addr /\ 0 \in 0..MemSize
    BY <1>1 DEF Addr
  <2> QED
    BY <2>1, <2>2
<1>4. CASE i = 4
  BY <1>1, <1>4, AppArguments DEF Addr
<1>5. CASE i = 6
  BY <1>1, <1>5, AppArguments DEF Addr
<1>6. CASE i = 7
  BY <1>1, <1>6, AppArguments DEF Addr
<1> QED
  BY <1>2, <1>3, <1>4, <1>5, <1>6

LEMMA CreationLength ==
  /\ Len(CreationCalls) = 12
  /\ CreationCalls[12] = "SET_USER_MEMORY_REGION"
  /\ \A i \in 1..12 : CreationCalls[i] \in Unchecked => i \in {8, 11}
BY DEF CreationCalls, Unchecked

(* What an instruction of boot.asm needs, those before it have given; and  *)
(* a call of the application needs no more than all of them.               *)
LEMMA BootOrder ==
  ASSUME NEW k \in 0..14, NEW has, GivenBy(k) \subseteq has
  PROVE  boot[k + 1].needs \subseteq has
<1>1. {"r14", "r15"} \subseteq has /\ \A i \in 1..k : boot[i].gives \in has
  BY DEF GivenBy
<1>2. CASE k \in 0..5
  BY <1>1, <1>2, BootGives, BootNeeds
<1>3. CASE k \in 6..9
  BY <1>1, <1>3, BootGives, BootNeeds
<1>4. CASE k \in 10..14
  BY <1>1, <1>4, BootGives, BootNeeds
<1> QED
  BY <1>2, <1>3, <1>4

LEMMA BootSuffices ==
  ASSUME NEW has, GivenBy(15) \subseteq has
  PROVE  CallNeeds \subseteq has
BY BootGives DEF GivenBy, CallNeeds

LEMMA NextGiven ==
  ASSUME NEW k \in Nat
  PROVE  GivenBy(k + 1) = GivenBy(k) \cup {boot[k + 1].gives}
<1>1. 1..(k + 1) = (1..k) \cup {k + 1}
  OBVIOUS
<1> QED
  BY <1>1 DEF GivenBy

LEMMA SetUpRuns ==
  ASSUME guest \in Vcpu, SetUp(guest)
  PROVE  CanRun
<1>1. guest.rip \in Nat /\ Len(boot) = 15
  BY BootLength DEF Vcpu, LastStep
<1>2. CASE guest.rip < 15
  <2>1. guest.rip \in 0..14 /\ GivenBy(guest.rip) \subseteq guest.has
    BY <1>1, <1>2 DEF SetUp
  <2>2. boot[guest.rip + 1].needs \subseteq guest.has
    BY <2>1, BootOrder
  <2> QED
    BY <1>1, <1>2, <2>2 DEF SetUp, CanRun, InBoot
<1>3. CASE ~ (guest.rip < 15)
  <2>1. GivenBy(15) \subseteq guest.has
    BY <1>1, <1>3 DEF SetUp
  <2>2. CallNeeds \subseteq guest.has
    BY <2>1, BootSuffices
  <2> QED
    BY <1>1, <1>3, <2>2 DEF SetUp, CanRun, InBoot
<1> QED
  BY <1>2, <1>3

-----------------------------------------------------------------------------
(* The VMM's steps are ColdMigration's, but for the launch.                *)
LEMMA ServeIsStep ==
  ASSUME MachineInv, Serve, exit_reason = "HLT"
  PROVE  MigrationStep
<1>1. MigrationTypeOK /\ guest.rip \in 0..LastStep /\ guest.rip > Len(boot)
  BY DEF MachineInv, MachineTypeOK, CallsAreMade, Vcpu
<1>2. PICK i \in 1..10 : LastCall = app[i]
  <2>1. guest.rip - Len(boot) \in 1..10
    BY <1>1, BootLength, AppLength DEF LastStep
  <2> QED
    BY <2>1 DEF LastCall
<1>3. LastCall.at \in Addr /\ LastCall.len \in 0..MemSize
  BY <1>2, AppBuffers
<1>4. fd \in Int
  <2>1. CASE held = NoDescriptors
    BY <2>1 DEF fd
  <2>2. CASE held # NoDescriptors
    <3>1. DOMAIN held # {}
      BY <1>1, <2>2 DEF MigrationTypeOK, NoDescriptors
    <3>2. fd \in DOMAIN held
      BY <2>2, <3>1 DEF fd
    <3> QED
      BY <1>1, <3>2, KernelAssumption DEF MigrationTypeOK, Fd
  <2> QED
    BY <2>1, <2>2
<1> DEFINE g == IF LastCall.fd = "file" THEN fd ELSE 1
<1>5. g \in Int
  BY <1>4
<1>6. CASE GuestWrite(g, LastCall.at, LastCall.len)
           /\ UNCHANGED <<image, restored_from_snapshot, restores>>
  <2> HIDE DEF g
  <2> QED
    BY <1>3, <1>5, <1>6 DEF MigrationStep, ServedCall
<1>7. CASE GuestOpen(AppFile, {"CREAT"})
           /\ UNCHANGED <<image, restored_from_snapshot, restores>>
  <2>1. {"CREAT"} \in SUBSET Flag /\ AppFile \in Path
    BY MachineAssumption DEF Flag
  <2> QED
    BY <1>7, <2>1 DEF MigrationStep, ServedCall
<1>8. CASE GuestClose(fd)
           /\ UNCHANGED <<image, restored_from_snapshot, restores>>
  BY <1>4, <1>8 DEF MigrationStep, ServedCall
<1>9. CASE SysIgnored(rax) /\ UNCHANGED sent
           /\ UNCHANGED <<image, restored_from_snapshot, restores>>
  BY <1>1, <1>9 DEF SysIgnored, MigrationTypeOK, MigrationStep, ServedCall
<1>10. CASE GuestExit \/ SysSave
  BY <1>10 DEF GuestExit, MigrationStep
<1> QED
  BY <1>6, <1>7, <1>8, <1>9, <1>10 DEF Serve

LEMMA GuestHaltsIsStep ==
  ASSUME MachineInv, GuestHalts
  PROVE  MigrationStep /\ guest'.rip \in 16..25
<1>0. guest \in Vcpu /\ mem \in [Addr -> Byte] /\ vmm = "running" /\ ~ InBoot
  BY DEF MachineInv, MachineTypeOK, MigrationTypeOK, GuestHalts, Returns
<1>1. guest.rip \in 15..25 /\ Len(boot) = 15 /\ LastStep = 25
  BY <1>0, BootLength, AppLength DEF Vcpu, InBoot, LastStep
<1>2. guest'.rip = IF guest.rip = LastStep THEN guest.rip ELSE guest.rip + 1
  BY <1>0 DEF GuestHalts, Vcpu
<1>3. guest'.rip \in 16..25
  BY <1>1, <1>2
<1>4. PICK i \in 1..10 : i = guest'.rip - Len(boot)
  BY <1>1, <1>3
<1>5. rax' \in Int
  BY <1>4, AppLength DEF GuestHalts
<1> QED
  BY <1>0, <1>3, <1>5 DEF GuestHalts, Returns, MigrationStep, ServedCall

LEMMA LaunchKeepsInv ==
  ASSUME MachineInv, Launch
  PROVE  MigrationInv'
<1>0. MigrationInv /\ MigrationTypeOK /\ ImageIsDump
  BY DEF MachineInv, MigrationInv
<1>1. /\ vmm = "exited" /\ vmm' = "running"
      /\ fds' = ProcessFds(VmmFds \cup LoaderFds) /\ mem' = AppMemory
      /\ UNCHANGED <<disk, open_files, rax, held, image,
                     restored_from_snapshot, sent, restores>>
  BY DEF Launch
<1>2. open_files' = <<>> /\ DOMAIN open_files' = {} /\ held' = NoDescriptors
  BY <1>0, <1>1 DEF MigrationInv, EndedIsEmpty
<1>3. /\ DOMAIN fds' \subseteq Fd /\ fds' \in [DOMAIN fds' -> OpenFile]
      /\ \A h \in DOMAIN fds' : /\ fds'[h].node \notin Path
                                /\ h \in StdFd => fds'[h].node # Device
  BY <1>1, HandlerAssumption, KernelAssumption DEF ProcessFds, OpenFile
<1>4. KernelTypeOK'
  BY <1>0, <1>1, <1>3 DEF MigrationTypeOK, KernelTypeOK
<1>5. mem' \in [Addr -> Byte]
  <2> DEFINE z == <<ZeroByte>>
             s == (z \o Hello) \o Bye
  <2>0. z \in Seq(Byte) /\ Len(z) = 1
    BY ZeroByteAssumption
  <2> HIDE DEF z
  <2>3. z \o Hello \in Seq(Byte) /\ Len(z \o Hello) = Len(z) + Len(Hello)
    BY <2>0, MachineAssumption, ConcatProperties, Zenon
  <2>4. s \in Seq(Byte) /\ Len(s) = Len(z \o Hello) + Len(Bye)
    BY <2>3, MachineAssumption, ConcatProperties, Zenon
  <2>1. s \in Seq(Byte) /\ Len(s) = MemSize
    BY <2>0, <2>3, <2>4, MachineAssumption, LenProperties
  <2>2. \A a \in Addr : a + 1 \in 1..MemSize
    BY HandlerAssumption DEF Addr
  <2>5. \A a \in Addr : s[a + 1] \in Byte
    BY <2>1, <2>2, ElementOfSeq
  <2> QED
    BY <1>1, <2>5 DEF AppMemory, z
<1>6. MigrationTypeOK'
  BY <1>0, <1>1, <1>4, <1>5 DEF MigrationTypeOK
<1>7. StreamsAreNotDevices' /\ EntriesAreNotDevices'
  BY <1>2, <1>3 DEF StreamsAreNotDevices, EntriesAreNotDevices
<1>8. ImageIsDump'
  BY <1>0, <1>1 DEF ImageIsDump, IsDump, FirstGeneration, NamesItsFiles
<1>9. LaunchedTableRight'
  BY <1>2, <1>3
  DEF LaunchedTableRight, TableMirrorsHost, HeldMatchesHost, NoDescriptors
<1> QED
  BY <1>1, <1>6, <1>7, <1>8, <1>9
  DEF MigrationInv, EndedIsEmpty, RestoreFollowsImage

LEMMA MigrationPart ==
  ASSUME MachineInv, [VmNext]_vmVars
  PROVE  MigrationInv'
<1>1. MigrationStep => MigrationInv'
  BY MigrationStepInv DEF MachineInv
<1>2. UNCHANGED migrationVars => MigrationStep
  BY DEF MigrationStep
<1>3. CASE CreationSucceeds \/ MmapFails
  BY <1>1, <1>2, <1>3 DEF CreationSucceeds, MmapFails, NextCreationCall
<1>4. CASE CreationFails \/ HandleAndDie \/ Killed
  BY <1>1, <1>4
  DEF CreationFails, HandleAndDie, Killed, ProcessGone, MigrationStep
<1>5. CASE Launch
  BY <1>5, LaunchKeepsInv
<1>6. CASE LoadImage \/ ReopenFiles \/ StoreImage
  BY <1>1, <1>6 DEF LoadImage, ReopenFiles, StoreImage, MigrationStep
<1>7. CASE HandleHlt
  BY <1>1, <1>7, ServeIsStep DEF HandleHlt
<1>8. CASE HandleAndContinue \/ GuestBoots
  BY <1>1, <1>2, <1>8 DEF HandleAndContinue, GuestBoots
<1>9. CASE GuestHalts
  BY <1>1, <1>9, GuestHaltsIsStep
<1>10. CASE TripleFault \/ KvmRunInterrupted
  BY <1>1, <1>2, <1>10
  DEF TripleFault, KvmRunInterrupted, Returns, migrationVars
<1>11. CASE \E main \in {"save", "restore"} : Start(main)
  BY <1>1, <1>2, <1>11 DEF Start
<1>12. CASE UNCHANGED vmVars
  BY <1>1, <1>2, <1>12 DEF vmVars
<1> QED
  BY <1>3, <1>4, <1>5, <1>6, <1>7, <1>8, <1>9, <1>10, <1>11, <1>12
  DEF VmNext, VmmStep, GuestStepOn

-----------------------------------------------------------------------------
(* The rest of the invariant, action by action: first the creation of a    *)
(* process and of its VM, ...                                              *)
LEMMA TypedMachine ==
  ASSUME MachineInv
  PROVE  /\ launcher \in [main : {"none", "save", "restore"}, calls : 0..12,
                          unmapped : SUBSET Unchecked,
                          refused : SUBSET {"sregs", "msrs"}]
         /\ Created <=> launcher.calls = 12
         /\ vmm = "exited" => ~ in_guest /\ exit_reason = "UNKNOWN"
BY CreationLength DEF MachineInv, MachineTypeOK, CallsAreMade, Created

LEMMA ProcessEndsSafely ==
  ASSUME MachineInv, MigrationInv', MachineGone, vmm' = "exited",
         guest_image' \in Vcpu,
         image' \notin {NoImage, Torn} =>
           guest_image'.rip > Len(boot) /\ SetUp(guest_image')
  PROVE  MachineInv'
<1>1. /\ launcher' = NoProcess /\ guest' = BlankVm /\ ~ in_guest'
      /\ in_guest' \in BOOLEAN /\ exit_reason' = "UNKNOWN"
  BY DEF MachineGone
<1>2. BlankVm \in Vcpu
  BY BootLength, AppLength DEF BlankVm, Vcpu, LastStep
<1>3. ~ Created' /\ launcher'.refused = {}
  BY <1>1, CreationLength DEF Created, NoProcess
<1>4. MachineTypeOK'
  BY <1>1, <1>2, CreationLength DEF MachineTypeOK, MigrationInv, NoProcess
<1>5. CallsAreMade'
  BY <1>1 DEF CallsAreMade
<1> QED
  BY <1>1, <1>3, <1>4, <1>5 DEF MachineInv, GuestSetUp, NoTripleFault

LEMMA KilledSafely ==
  ASSUME MachineInv, MigrationInv', ProcessGone
  PROVE  MachineInv'
<1>1. MachineGone /\ vmm' = "exited" /\ UNCHANGED <<image, guest_image>>
  BY DEF ProcessGone, MigrationProcessEnds, ProcessEnds
<1>2. guest_image \in Vcpu /\ (image \notin {NoImage, Torn} =>
        guest_image.rip > Len(boot) /\ SetUp(guest_image))
  BY DEF MachineInv, MachineTypeOK, CallsAreMade
<1> QED
  BY <1>1, <1>2, ProcessEndsSafely

LEMMA StartSafe ==
  ASSUME MachineInv, MigrationInv', NEW main \in {"save", "restore"}, Start(main)
  PROVE  MachineInv'
<1>1. /\ launcher = NoProcess /\ launcher' = [launcher EXCEPT !.main = main]
      /\ UNCHANGED <<vmm, image, guest, guest_image, in_guest, exit_reason>>
  BY DEF Start, migrationVars
<1>2. /\ launcher' \in [main : {"none", "save", "restore"}, calls : 0..12,
                        unmapped : SUBSET Unchecked,
                        refused : SUBSET {"sregs", "msrs"}]
      /\ launcher'.calls = 0 /\ launcher'.refused = {}
  BY <1>1 DEF NoProcess
<1>3. ~ Created /\ ~ Created' /\ vmm = "exited"
  BY <1>1, <1>2, CreationLength
  DEF Created, NoProcess, MachineInv, MachineTypeOK
<1>4. ~ in_guest /\ exit_reason = "UNKNOWN"
  BY <1>3, TypedMachine
<1>5. MachineTypeOK'
  BY <1>1, <1>2, <1>3, <1>4, CreationLength
  DEF MachineInv, MachineTypeOK, MigrationInv
<1>6. CallsAreMade'
  BY <1>1, <1>3, <1>4 DEF MachineInv, CallsAreMade
<1> QED
  BY <1>1, <1>2, <1>3, <1>4, <1>5, <1>6
  DEF MachineInv, GuestSetUp, NoTripleFault

LEMMA CreationStepSafe ==
  ASSUME MachineInv, MigrationInv', CreationSucceeds \/ MmapFails
  PROVE  MachineInv'
<1>1. PICK done \in SUBSET Unchecked :
        /\ NextCreationCall(done)
        /\ CurrentCall = "SET_USER_MEMORY_REGION" => "mmap memory" \notin done
  <2>1. CASE CreationSucceeds
    BY <2>1, TypedMachine DEF CreationSucceeds
  <2>2. CASE MmapFails
    <3>1. launcher.unmapped \cup {CurrentCall} \in SUBSET Unchecked
      BY <2>2, TypedMachine DEF MmapFails
    <3>2. CurrentCall # "SET_USER_MEMORY_REGION"
      BY <2>2 DEF MmapFails, Unchecked
    <3> QED
      BY <2>2, <3>1, <3>2 DEF MmapFails
  <2> QED
    BY <2>1, <2>2
<1>2. /\ vmm = "exited" /\ ~ Created
      /\ launcher' = [launcher EXCEPT !.calls = @ + 1, !.unmapped = done]
      /\ UNCHANGED <<vmm, image, guest, guest_image, in_guest, exit_reason>>
  BY <1>1 DEF NextCreationCall, migrationVars
<1>3. ~ in_guest /\ exit_reason = "UNKNOWN" /\ launcher.refused = {}
  BY <1>2, TypedMachine DEF MachineInv
<1>4. /\ launcher' \in [main : {"none", "save", "restore"}, calls : 0..12,
                        unmapped : SUBSET Unchecked,
                        refused : SUBSET {"sregs", "msrs"}]
      /\ launcher'.calls = launcher.calls + 1 /\ launcher'.unmapped = done
      /\ launcher'.refused = {}
  <2>1. launcher.calls \in 0..11
    BY <1>2, TypedMachine
  <2>2. launcher.calls + 1 \in 0..12
    BY <2>1
  <2> QED
    BY <1>2, <1>3, <2>2, TypedMachine
<1>5. Created' => "mmap memory" \notin launcher'.unmapped
  <2>1. SUFFICES ASSUME Created' PROVE "mmap memory" \notin done
    BY <1>4
  <2>2. launcher.calls + 1 = 12
    BY <1>4, <2>1, CreationLength DEF Created
  <2> QED
    BY <1>1, <2>2, CreationLength DEF CurrentCall
<1>6. MachineTypeOK'
  BY <1>2, <1>3, <1>4, CreationLength
  DEF MachineInv, MachineTypeOK, MigrationInv
<1>7. CallsAreMade'
  BY <1>2, <1>3 DEF MachineInv, CallsAreMade
<1> QED
  BY <1>2, <1>3, <1>4, <1>5, <1>6, <1>7
  DEF MachineInv, GuestSetUp, NoTripleFault

(* ... a VM that is launched, ...                                          *)
LEMMA LaunchSafe ==
  ASSUME MachineInv, MigrationInv', Launch
  PROVE  MachineInv'
<1>1. /\ vmm = "exited" /\ vmm' = "running" /\ Created /\ in_guest' = TRUE
      /\ guest' = [rip |-> 0, has |-> {"r14", "r15"},
                   ram |-> {"tables", "boot", "app"}]
      /\ UNCHANGED <<image, launcher, guest_image, exit_reason>>
  BY DEF Launch
<1>2. /\ exit_reason = "UNKNOWN" /\ launcher.refused = {}
      /\ "mmap memory" \notin launcher.unmapped
  BY <1>1, TypedMachine DEF MachineInv
<1>3. guest' \in Vcpu
  BY <1>1, BootLength, AppLength DEF Vcpu, LastStep, Setting, Regs
<1>4. SetUp(guest')
  BY <1>1, BootLength DEF SetUp, GivenBy
<1>5. MachineTypeOK'
  BY <1>1, <1>2, <1>3, CreationLength
  DEF MachineInv, MachineTypeOK, MigrationInv, Created
<1>6. GuestSetUp'
  BY <1>1, <1>2, <1>4 DEF GuestSetUp
<1>7. CallsAreMade'
  BY <1>1, <1>2 DEF MachineInv, CallsAreMade
<1> QED
  BY <1>1, <1>2, <1>5, <1>6, <1>7 DEF MachineInv, NoTripleFault, Created

(* ... and one that is restored: a vCPU with every setting of the image,   *)
(* or one that cannot run to its next call.                                *)
LEMMA RestoredIsSetUp ==
  ASSUME guest_image \in Vcpu, guest_image.rip > Len(boot), SetUp(guest_image),
         NEW refused \in SUBSET {"sregs", "msrs"}
  PROVE  /\ RestoredVm(refused) \in Vcpu
         /\ RestoredVm(refused).rip = guest_image.rip
         /\ refused = {} => SetUp(RestoredVm(refused))
         /\ refused # {} => ~ (CallNeeds \subseteq RestoredVm(refused).has)
<1> DEFINE kept == Regs \cup (IF "sregs" \in refused THEN {} ELSE Sregs)
                        \cup (IF "msrs" \in refused THEN {} ELSE Msrs)
<1>1. RestoredVm(refused) = [guest_image EXCEPT !.has = @ \cap kept]
  BY DEF RestoredVm
<1>2. "PG" \notin Regs \cup Msrs /\ "STAR" \notin Regs \cup Sregs
  BY DEF Regs, Sregs, Msrs
<1>3. refused # {} => ~ (CallNeeds \subseteq kept)
  <2>1. "PG" \in CallNeeds /\ "STAR" \in CallNeeds
    BY DEF CallNeeds
  <2> QED
    BY <1>2, <2>1
<1>4. refused = {} => kept = Setting
  BY DEF Setting
<1> HIDE DEF kept
<1>5. /\ RestoredVm(refused) \in Vcpu
      /\ RestoredVm(refused).rip = guest_image.rip
      /\ RestoredVm(refused).has = guest_image.has \cap kept
      /\ RestoredVm(refused).ram = guest_image.ram
  BY <1>1 DEF Vcpu
<1>6. refused = {} => RestoredVm(refused).has = guest_image.has
  BY <1>4, <1>5 DEF Vcpu
<1>7. refused = {} => SetUp(RestoredVm(refused))
  BY <1>5, <1>6 DEF SetUp
<1> QED
  BY <1>3, <1>5, <1>7

LEMMA LoadImageSafe ==
  ASSUME MachineInv, MigrationInv', LoadImage
  PROVE  MachineInv'
<1>1. PICK refused \in SUBSET {"sregs", "msrs"} :
        /\ launcher' = [launcher EXCEPT !.refused = refused]
        /\ guest' = RestoredVm(refused)
  BY DEF LoadImage
<1>2. /\ Created /\ vmm = "exited" /\ UNCHANGED image
      /\ vmm' = IF image \in {NoImage, Torn} THEN "undefined" ELSE "reopening"
      /\ UNCHANGED <<guest_image, in_guest, exit_reason>>
  BY DEF LoadImage, RestoreStart
<1>3. /\ ~ in_guest /\ exit_reason = "UNKNOWN" /\ guest_image \in Vcpu
      /\ "mmap memory" \notin launcher.unmapped
      /\ image \notin {NoImage, Torn} =>
           guest_image.rip > Len(boot) /\ SetUp(guest_image)
  BY <1>2, TypedMachine DEF MachineInv, MachineTypeOK, CallsAreMade
<1>4. /\ launcher' \in [main : {"none", "save", "restore"}, calls : 0..12,
                        unmapped : SUBSET Unchecked,
                        refused : SUBSET {"sregs", "msrs"}]
      /\ launcher'.calls = launcher.calls
      /\ launcher'.unmapped = launcher.unmapped
      /\ launcher'.refused = refused
  BY <1>1, TypedMachine
<1>5. guest' \in Vcpu
  BY <1>1, <1>3 DEF RestoredVm, Vcpu
<1>6. Created'
  BY <1>2, <1>4 DEF Created
<1>7. MachineTypeOK'
  BY <1>2, <1>3, <1>4, <1>5, <1>6, CreationLength
  DEF MachineInv, MachineTypeOK, MigrationInv
<1>8. GuestSetUp'
  <2>1. CASE image \in {NoImage, Torn}
    BY <1>2, <2>1 DEF GuestSetUp
  <2>2. CASE image \notin {NoImage, Torn}
    <3>1. /\ guest'.rip = guest_image.rip /\ guest_image.rip > Len(boot)
          /\ refused = {} => SetUp(guest')
          /\ refused # {} => ~ (CallNeeds \subseteq guest'.has)
      <4>1. guest_image.rip > Len(boot) /\ SetUp(guest_image)
        BY <1>3, <2>2
      <4>2. /\ RestoredVm(refused).rip = guest_image.rip
            /\ refused = {} => SetUp(RestoredVm(refused))
            /\ refused # {} => ~ (CallNeeds \subseteq RestoredVm(refused).has)
        BY <1>3, <4>1, RestoredIsSetUp
      <4>3. guest' = RestoredVm(refused)
        BY <1>1
      <4> QED
        BY <4>1, <4>2, <4>3, Zenon
    <3>2. ~ InBoot'
      <4>1. Len(boot) = 15 /\ guest_image.rip \in 0..25
        BY <1>3, BootLength, RipRange
      <4>2. ~ (guest'.rip < Len(boot))
        BY <3>1, <4>1
      <4> QED
        BY <4>2 DEF InBoot
    <3> QED
      BY <1>4, <3>1, <3>2 DEF GuestSetUp
  <2> QED
    BY <2>1, <2>2
<1>9. CallsAreMade'
  BY <1>2, <1>3 DEF CallsAreMade
<1> QED
  BY <1>2, <1>3, <1>4, <1>7, <1>8, <1>9 DEF MachineInv, NoTripleFault

LEMMA ReopenSafe ==
  ASSUME MachineInv, MigrationInv', ReopenFiles
  PROVE  MachineInv'
<1>1. /\ vmm \in {"reopening", "replaying"}
      /\ vmm' \in {"reopening", "replaying", "running"} /\ UNCHANGED image
      /\ in_guest' = (vmm' = "running")
      /\ UNCHANGED <<launcher, guest, guest_image, exit_reason>>
  BY DEF ReopenFiles, RestoreStep, ReopenFile, ReplayFile, RestoreFinish
<1>2. exit_reason = "UNKNOWN" /\ Created
  BY <1>1 DEF MachineInv, MachineTypeOK, CallsAreMade
<1>3. MachineTypeOK'
  BY <1>1, <1>2 DEF MachineInv, MachineTypeOK, MigrationInv, Created
<1>4. GuestSetUp'
  BY <1>1 DEF MachineInv, GuestSetUp, InBoot
<1>5. CallsAreMade'
  BY <1>1, <1>2 DEF MachineInv, CallsAreMade
<1> QED
  BY <1>1, <1>2, <1>3, <1>4, <1>5 DEF MachineInv, NoTripleFault, Created

(* The vCPU: an instruction of boot.asm adds its setting, a call is made   *)
(* with all of them, and no instruction lacks one.                         *)
LEMMA GuestBootsSafe ==
  ASSUME MachineInv, MigrationInv', GuestBoots
  PROVE  MachineInv'
<1>1. /\ in_guest /\ guest.rip < Len(boot)
      /\ guest' = [guest EXCEPT !.rip = @ + 1,
                                !.has = @ \cup {boot[guest.rip + 1].gives}]
      /\ UNCHANGED <<vmm, image, launcher, guest_image, in_guest, exit_reason>>
  BY DEF GuestBoots, InBoot, migrationVars
<1>2. guest \in Vcpu /\ vmm = "running" /\ launcher.refused = {} /\ SetUp(guest)
  BY <1>1 DEF MachineInv, MachineTypeOK, GuestSetUp, InBoot
<1>3. PICK k \in 0..14 : guest.rip = k
  BY <1>1, <1>2, BootLength, RipRange
<1>4. Len(boot) = 15 /\ LastStep = 25 /\ boot[k + 1].gives \in Setting
  <2>1. k + 1 \in 1..15
    OBVIOUS
  <2> QED
    BY <2>1, BootLength, AppLength DEF LastStep
<1>5. /\ guest' \in Vcpu /\ guest'.rip = k + 1 /\ guest'.ram = guest.ram
      /\ guest'.has = guest.has \cup {boot[k + 1].gives}
  <2>1. PICK b \in Setting : b = boot[k + 1].gives
    BY <1>4
  <2>2. guest' = [guest EXCEPT !.rip = @ + 1, !.has = @ \cup {b}]
    BY <1>1, <1>3, <2>1
  <2>3. 0..LastStep = 0..25 /\ k \in 0..25 /\ k + 1 \in 0..25
    BY <1>4
  <2> QED
    BY <1>2, <1>3, <2>1, <2>2, <2>3 DEF Vcpu
<1>6. SetUp(guest')
  <2>1. /\ GivenBy(k) \subseteq guest.has
        /\ {"tables", "boot", "app"} \subseteq guest.ram
    BY <1>2, <1>3, <1>4 DEF SetUp
  <2>2. GivenBy(k + 1) \subseteq guest'.has
    BY <1>5, <2>1, NextGiven
  <2>3. (IF k + 1 < 15 THEN k + 1 ELSE 15) = k + 1
    OBVIOUS
  <2> QED
    BY <1>4, <1>5, <2>1, <2>2, <2>3 DEF SetUp
<1>7. exit_reason # "HLT"
  <2>1. ~ (guest.rip > Len(boot))
    BY <1>3, <1>4
  <2> QED
    BY <2>1 DEF MachineInv, CallsAreMade
<1>8. MachineTypeOK'
  BY <1>1, <1>2, <1>5 DEF MachineInv, MachineTypeOK, MigrationInv, Created
<1>9. CallsAreMade'
  BY <1>1, <1>7 DEF MachineInv, CallsAreMade
<1>10. GuestSetUp'
  BY <1>1, <1>2, <1>6 DEF GuestSetUp
<1> QED
  BY <1>1, <1>8, <1>9, <1>10 DEF MachineInv, NoTripleFault, Created

LEMMA ReturnsSafe ==
  ASSUME MachineInv, MigrationInv', NEW reason \in HostReason \cup
           {"UNKNOWN", "HLT", "SHUTDOWN"}, Returns(reason),
         guest' \in Vcpu, GuestSetUp',
         reason = "HLT" => guest'.rip > Len(boot) /\ launcher.refused = {},
         reason = "SHUTDOWN" => launcher.refused # {}
  PROVE  MachineInv'
<1>1. /\ in_guest /\ in_guest' = FALSE /\ exit_reason' = reason
      /\ UNCHANGED <<vmm, image, launcher, guest_image>>
  BY DEF Returns
<1>2. vmm = "running"
  BY <1>1 DEF MachineInv, MachineTypeOK
<1>3. MachineTypeOK'
  BY <1>1, <1>2 DEF MachineInv, MachineTypeOK, MigrationInv, Created
<1>4. CallsAreMade'
  BY <1>1, <1>2 DEF MachineInv, CallsAreMade
<1>5. NoTripleFault'
  BY <1>1 DEF NoTripleFault
<1> QED
  BY <1>1, <1>2, <1>3, <1>4, <1>5 DEF MachineInv, Created

LEMMA GuestReturnsSafe ==
  ASSUME MachineInv, MigrationInv', GuestHalts \/ TripleFault \/ KvmRunInterrupted
  PROVE  MachineInv'
<1>1. /\ guest \in Vcpu /\ guest.rip \in 0..25 /\ Len(boot) = 15
      /\ exit_reason \in HostReason \cup {"UNKNOWN", "HLT", "SHUTDOWN"}
  BY RipRange, BootLength DEF MachineInv, MachineTypeOK
<1>2. in_guest /\ vmm = "running" /\ vmm' = "running" /\ launcher' = launcher
  BY DEF GuestHalts, TripleFault, KvmRunInterrupted, Returns,
         MachineInv, MachineTypeOK
<1>3. GuestSetUp /\ CallsAreMade /\ NoTripleFault
  BY DEF MachineInv
<1>4. CASE GuestHalts
  <2>1. /\ ~ InBoot /\ CanRun /\ Returns("HLT")
        /\ guest' = [guest EXCEPT !.rip = IF @ = LastStep THEN @ ELSE @ + 1]
    BY <1>4 DEF GuestHalts
  <2>2. launcher.refused = {} /\ SetUp(guest)
    BY <1>2, <1>3, <2>1 DEF GuestSetUp, CanRun
  <2>3. guest'.rip \in 16..25
    BY <1>4, GuestHaltsIsStep
  <2>4. LastStep = 25
    BY BootLength, AppLength DEF LastStep
  <2>5. guest' \in Vcpu /\ guest'.has = guest.has /\ guest'.ram = guest.ram
    BY <1>1, <2>1, <2>3, <2>4 DEF Vcpu
  <2>6. GivenBy(15) \subseteq guest.has /\ {"tables", "boot", "app"} \subseteq guest.ram
    BY <1>1, <2>1, <2>2 DEF SetUp, InBoot
  <2>7. SetUp(guest')
    BY <1>1, <2>3, <2>5, <2>6 DEF SetUp
  <2>8. GuestSetUp'
    BY <1>2, <2>2, <2>7 DEF GuestSetUp
  <2> QED
    BY <1>1, <2>1, <2>2, <2>3, <2>5, <2>8, ReturnsSafe
<1>5. CASE TripleFault
  <2>1. ~ CanRun /\ Returns("SHUTDOWN") /\ guest' = guest
    BY <1>5 DEF TripleFault
  <2>2. launcher.refused # {}
    BY <1>1, <1>2, <1>3, <2>1, SetUpRuns DEF GuestSetUp
  <2>3. GuestSetUp'
    BY <1>2, <1>3, <2>1 DEF GuestSetUp, InBoot
  <2> QED
    BY <1>1, <2>1, <2>2, <2>3, ReturnsSafe
<1>6. CASE KvmRunInterrupted
  <2>1. PICK reason \in HostReason \cup {exit_reason} :
          Returns(reason) /\ guest' = guest
    BY <1>6 DEF KvmRunInterrupted
  <2>2. /\ reason \in HostReason \cup {"UNKNOWN", "HLT", "SHUTDOWN"}
        /\ reason = "HLT" => guest'.rip > Len(boot) /\ launcher.refused = {}
        /\ reason = "SHUTDOWN" => launcher.refused # {}
    BY <1>1, <1>3, <2>1 DEF CallsAreMade, NoTripleFault, HostReason
  <2>3. GuestSetUp'
    BY <1>2, <1>3, <2>1 DEF GuestSetUp, InBoot
  <2> QED
    BY <1>1, <2>1, <2>2, <2>3, ReturnsSafe
<1> QED
  BY <1>4, <1>5, <1>6

(* The run loop: what it does to the VMM when a call is served, ...        *)
LEMMA ServeEnds ==
  ASSUME Serve, vmm = "running"
  PROVE  vmm' \in {"running", "saving", "exited"} /\ UNCHANGED image
BY DEF Serve, GuestWrite, SysWrite, GuestOpen, SysOpen, GuestClose, SysClose,
       SysIgnored, GuestExit, SysSave, MigrationProcessEnds, ProcessEnds

LEMMA HandleHltSafe ==
  ASSUME MachineInv, MigrationInv', HandleHlt
  PROVE  MachineInv'
<1>1. /\ vmm = "running" /\ exit_reason = "HLT" /\ UNCHANGED guest_image
      /\ IF vmm' = "exited" THEN MachineGone
         ELSE /\ in_guest' = (vmm' = "running")
              /\ UNCHANGED <<launcher, guest, exit_reason>>
  BY DEF HandleHlt
<1>2. vmm' \in {"running", "saving", "exited"} /\ UNCHANGED image
  BY <1>1, ServeEnds DEF HandleHlt
<1>3. CASE vmm' = "exited"
  <2>1. guest_image \in Vcpu /\ (image \notin {NoImage, Torn} =>
          guest_image.rip > Len(boot) /\ SetUp(guest_image))
    BY DEF MachineInv, MachineTypeOK, CallsAreMade
  <2> QED
    BY <1>1, <1>2, <1>3, <2>1, ProcessEndsSafely
<1>4. CASE vmm' # "exited"
  <2>1. MachineTypeOK'
    BY <1>1, <1>2, <1>4 DEF MachineInv, MachineTypeOK, MigrationInv, Created
  <2>2. GuestSetUp'
    BY <1>1, <1>2, <1>4 DEF MachineInv, GuestSetUp, InBoot
  <2>3. CallsAreMade'
    BY <1>1, <1>2, <1>4 DEF MachineInv, CallsAreMade
  <2> QED
    BY <1>1, <1>2, <1>4, <2>1, <2>2, <2>3 DEF MachineInv, NoTripleFault, Created
<1> QED
  BY <1>3, <1>4

LEMMA ContinueSafe ==
  ASSUME MachineInv, MigrationInv', HandleAndContinue
  PROVE  MachineInv'
<1>1. /\ vmm = "running" /\ in_guest' = TRUE
      /\ UNCHANGED <<vmm, image, launcher, guest, guest_image, exit_reason>>
  BY DEF HandleAndContinue, migrationVars
<1>2. MachineTypeOK'
  BY <1>1 DEF MachineInv, MachineTypeOK, MigrationInv, Created
<1>3. GuestSetUp' /\ CallsAreMade'
  BY <1>1 DEF MachineInv, GuestSetUp, CallsAreMade, InBoot
<1> QED
  BY <1>1, <1>2, <1>3 DEF MachineInv, NoTripleFault, Created

(* ... and when the image is written: its vCPU is the one that called.     *)
LEMMA StoreImageSafe ==
  ASSUME MachineInv, MigrationInv', StoreImage
  PROVE  MachineInv'
<1>1. CASE OpenImage
  <2>1. /\ vmm = "saving" /\ vmm' = "writing" /\ image' = Torn
        /\ UNCHANGED <<launcher, guest, in_guest, exit_reason, guest_image>>
    BY <1>1 DEF StoreImage, OpenImage, machineVars
  <2>2. MachineTypeOK'
    BY <2>1 DEF MachineInv, MachineTypeOK, MigrationInv, Created
  <2>3. GuestSetUp' /\ CallsAreMade'
    BY <2>1 DEF MachineInv, GuestSetUp, CallsAreMade, InBoot
  <2> QED
    BY <2>1, <2>2, <2>3 DEF MachineInv, NoTripleFault, Created
<1>2. CASE OpenImageFails
  <2>1. /\ MachineGone /\ vmm' = "exited" /\ UNCHANGED <<image, guest_image>>
    BY <1>2 DEF StoreImage, OpenImageFails, MigrationProcessEnds, ProcessEnds
  <2>2. guest_image \in Vcpu /\ (image \notin {NoImage, Torn} =>
          guest_image.rip > Len(boot) /\ SetUp(guest_image))
    BY DEF MachineInv, MachineTypeOK, CallsAreMade
  <2> QED
    BY <2>1, <2>2, ProcessEndsSafely
<1>3. CASE WriteImageAndExit
  <2>1. vmm = "writing" /\ vmm' = "exited" /\ MachineGone /\ guest_image' = guest
    BY <1>3 DEF StoreImage, WriteImageAndExit, MigrationProcessEnds, ProcessEnds
  <2>2. guest \in Vcpu /\ guest.rip > Len(boot) /\ SetUp(guest)
    BY <2>1 DEF MachineInv, MachineTypeOK, CallsAreMade, GuestSetUp
  <2> QED
    BY <2>1, <2>2, ProcessEndsSafely
<1> QED
  BY <1>1, <1>2, <1>3 DEF StoreImage, SaveStep

-----------------------------------------------------------------------------
LEMMA MachineInitInv == VmInit => MachineInv
<1> SUFFICES ASSUME VmInit PROVE MachineInv
  OBVIOUS
<1>1. /\ launcher = NoProcess /\ guest = BlankVm /\ guest_image = BlankVm
      /\ in_guest = FALSE /\ exit_reason = "UNKNOWN" /\ vmm = "exited"
      /\ fds = NoDescriptors /\ open_files = <<>> /\ rax = 0
      /\ held = NoDescriptors /\ mem = [a \in Addr |-> ZeroByte]
      /\ image = NoImage /\ restored_from_snapshot = FALSE
      /\ sent = NoDescriptors /\ restores = 0
      /\ \E existing \in SUBSET Path : disk \in [existing -> OldContents]
  BY DEF VmInit
<1>2. DOMAIN NoDescriptors = {}
  BY DEF NoDescriptors
<1>3. DOMAIN disk \subseteq Path /\ disk \in [DOMAIN disk -> Seq(Byte)]
  BY <1>1, HandlerAssumption
<1>4. KernelTypeOK
  BY <1>1, <1>2, <1>3 DEF KernelTypeOK, NoDescriptors
<1>5. MigrationTypeOK
  <2>1. open_files \in Seq(GuestFile) /\ Len(open_files) = 0
    BY <1>1
  <2>2. mem \in [Addr -> Byte]
    BY <1>1, ZeroByteAssumption
  <2>3. DOMAIN held = {} /\ held \in [{} -> Path] /\ sent \in [{} -> Seq(Byte)]
    BY <1>1 DEF NoDescriptors
  <2>4. /\ held \in [DOMAIN held -> Path] /\ DOMAIN held \subseteq Fd
        /\ sent \in [DOMAIN held -> Seq(Byte)]
    BY <2>3
  <2>5. restores \in 0..MaxRestores /\ Len(open_files) <= MAX_OPEN_FILES
    BY <1>1, <2>1, HandlerAssumption, MigrationAssumption
  <2>6. restored_from_snapshot \in BOOLEAN
    BY <1>1, Zenon
  <2>7. rax \in Int /\ vmm = "exited"
    BY <1>1
  <2> QED
    BY <1>4, <2>1, <2>2, <2>4, <2>5, <2>6, <2>7 DEF MigrationTypeOK
<1>6. MigrationInv
  BY <1>1, <1>2, <1>5
  DEF MigrationInv, StreamsAreNotDevices, EntriesAreNotDevices, ImageIsDump,
      LaunchedTableRight, EndedIsEmpty, RestoreFollowsImage
<1>7. BlankVm \in Vcpu
  BY BootLength, AppLength DEF BlankVm, Vcpu, LastStep
<1>8. ~ Created /\ launcher.refused = {}
  BY <1>1, CreationLength DEF Created, NoProcess
<1>9. MachineTypeOK
  <2>1. 0 \in 0..Len(CreationCalls)
    BY CreationLength
  <2>2. launcher \in [main : {"none", "save", "restore"},
                     calls : 0..Len(CreationCalls),
                     unmapped : SUBSET Unchecked,
                     refused : SUBSET {"sregs", "msrs"}]
    BY <1>1, <2>1 DEF NoProcess
  <2> QED
    BY <1>1, <1>5, <1>7, <2>2 DEF MachineTypeOK
<1> QED
  BY <1>1, <1>6, <1>8, <1>9
  DEF MachineInv, GuestSetUp, CallsAreMade, NoTripleFault

LEMMA MachineStepInv ==
  ASSUME MachineInv, [VmNext]_vmVars
  PROVE  MachineInv'
<1>1. MigrationInv'
  BY MigrationPart
<1>2. CASE \E main \in {"save", "restore"} : Start(main)
  BY <1>1, <1>2, StartSafe
<1>3. CASE CreationSucceeds \/ MmapFails
  BY <1>1, <1>3, CreationStepSafe
<1>4. CASE CreationFails \/ HandleAndDie \/ Killed
  BY <1>1, <1>4, KilledSafely DEF CreationFails, HandleAndDie, Killed
<1>5. CASE Launch
  BY <1>1, <1>5, LaunchSafe
<1>6. CASE LoadImage
  BY <1>1, <1>6, LoadImageSafe
<1>7. CASE ReopenFiles
  BY <1>1, <1>7, ReopenSafe
<1>8. CASE HandleHlt
  BY <1>1, <1>8, HandleHltSafe
<1>9. CASE HandleAndContinue
  BY <1>1, <1>9, ContinueSafe
<1>10. CASE StoreImage
  BY <1>1, <1>10, StoreImageSafe
<1>11. CASE GuestBoots
  BY <1>1, <1>11, GuestBootsSafe
<1>12. CASE GuestHalts \/ TripleFault \/ KvmRunInterrupted
  BY <1>1, <1>12, GuestReturnsSafe
<1>13. CASE UNCHANGED vmVars
  <2>1. UNCHANGED <<vmm, image, launcher, guest, guest_image, in_guest,
                    exit_reason>>
    BY <1>13 DEF vmVars, machineVars, migrationVars
  <2>2. MachineTypeOK'
    BY <1>1, <2>1 DEF MachineInv, MachineTypeOK, MigrationInv, Created
  <2>3. GuestSetUp' /\ CallsAreMade'
    BY <2>1 DEF MachineInv, GuestSetUp, CallsAreMade, InBoot
  <2> QED
    BY <1>1, <2>1, <2>2, <2>3 DEF MachineInv, NoTripleFault, Created
<1> QED
  BY <1>2, <1>3, <1>4, <1>5, <1>6, <1>7, <1>8, <1>9, <1>10, <1>11, <1>12, <1>13
  DEF VmNext, VmmStep, GuestStepOn

(* Whatever main is started, killed or fails, and however KVM_RUN is       *)
(* interrupted: the VMM is one of ColdMigration's, and the vCPU is set up  *)
(* as far as it has run.                                                   *)
THEOREM MachineInvariant == VmSpec => []MachineInv
BY MachineInitInv, MachineStepInv, PTL DEF VmSpec

(* No variable leaves its range, and no guest runs in half a VM.           *)
THEOREM MachineIsTyped == VmSpec => []MachineTypeOK
<1>1. MachineInv => MachineTypeOK
  BY DEF MachineInv
<1> QED
  BY <1>1, MachineInvariant, PTL

(* The guest never lacks a register or its memory, neither booted nor      *)
(* restored, unless the kernel refused registers of the image.             *)
THEOREM GuestNeverFaults == VmSpec => []NoTripleFault
<1>1. MachineInv => NoTripleFault
  BY DEF MachineInv
<1> QED
  BY <1>1, MachineInvariant, PTL

(* What ColdMigration promises of a restore holds in the whole VM, whose   *)
(* launcher may be started, killed and have its KVM calls refused: the     *)
(* restored application finds its file.                                    *)
THEOREM ApplicationFindsItsFile == VmSpec => HeldFilesSurvive
<1>1. MachineInv => MigrationInv
  BY DEF MachineInv
<1>2. MigrationInv =>
        [RestoreFinish /\ FirstGeneration =>
           \A g \in DOMAIN held \ StdFd :
             \/ ReachesItsFile(g)
             \/ \E i \in Slots(g) : "EXCL" \in open_files[i].flags]_migrationVars
  BY ReopenedAll
<1> QED
  BY <1>1, <1>2, MachineInvariant, PTL DEF HeldFilesSurvive
=============================================================================
