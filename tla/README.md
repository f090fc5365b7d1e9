# A verification development for the lab VMM

The repository is a course project in three labs: a small virtual machine
monitor on KVM that runs one C program in one vCPU, and (lab 3) saves the VM
and resumes it elsewhere, *cold migration*. These TLA+ modules model lab 3, the
final state of the program. TLC checks them on small instances; TLAPS proves
most of their safety properties, and both refinements, for every instance.

All paths below are relative to `src/lab_3/`.

## 1. The system

| part | state it keeps | operations |
|---|---|---|
| VM creation and run loop, `vm_manager/manager.c` | `kvmfd`, `vmfd`, `vcpufd`, `run`, `memory` and its size | `create_vm`, `create_bootstrap`, `add_memory`, `launch_vm`, `continue_vm` (KVM_RUN, then `vmexit_handler`, for ever) |
| page tables, `memory_manager/memory.c` | `page_allocator_dico`; the four-level tables in guest memory from page 1 | `memory_map`, `allocate_page`, `invalidate_page`, `create_stack`, `gva_to_gpa` |
| ELF loader, `load_manager/loader.c` | `page_dico`; the guest's memory | `load_file` |
| system-call handler, `syscall_manager/syscall_handler.c` | `open_files`, `n_open_files`; the vCPU's RAX | write, open, close, exit, three ignored calls, SAVE |
| SAVE and RESTORE, the same file | `vm_image.sav`, `restored_from_snapshot` | `save_vm_image`, `load_vm_image`, `restore_from_image` |
| image transfer, `vm_migration/migration.c` | two sockets, `server_port`, `server_ip` | `send_vm_image`, `receive_vm_image`, the connections, `my_read`, `my_write` |
| launchers, `vm_src/src/{save,restore,VMM_client,VMM_server}.c` | none | call the others in order |
| guest, `vm_src/src/{boot.asm,app.c}`, `utils/exit.c` | its memory and registers | mode switch to 64 bits, then `open write SAVE write write close exit` |

How they interact. The guest executes `syscall`; the guest's own kernel
(`boot.asm:85-87`) is `hlt; sysret`; `hlt` makes KVM_RUN return to
`continue_vm`, which calls `syscall_handler`; it serves the call on the *host*,
on descriptors of the VMM's process and with the guest's memory as buffer, and
puts the answer in RAX. SAVE copies registers, memory and the table of open
files into a `VM_image`, writes it to `vm_image.sav`, sends it to another VMM if
one was named, and exits. `restore.c` reads the file, `VMM_server.c` receives
the image; both build a blank VM, fill it, open the guest's files again, *write
again* what the guest had written into them (that is how the position is
restored), and run the vCPU.

What is hard about it. One process runs at a time on each side, but the guest's
calls come in any order and with any arguments; two descriptor number spaces
(the guest's and the host's) start equal and drift apart at the first restore;
every call of the kernel can fail or take a part; the image can be torn by a
crash, a full disk or a cut connection, and the same image can be restored
twice; a TCP stream has no field boundaries; several clients can look for the
same server. `PROJECT.json` lists each of these under `hazards`, at its line.

What makes each part correct:

* *system-call handler* - the guest sees the files and descriptors of an
  ordinary process, and none of the VMM's own (KVM, VM, vCPU, ELF files share
  the number space); the table agrees with the kernel after any series of calls.
* *SAVE and RESTORE* - what the guest held at SAVE, it holds after RESTORE, at
  the same position of the same file, whatever crashed in between; both end.
* *image transfer* - the destination gets a whole image or none, no VM is run
  twice by it, nobody waits for ever.
* *page tables* - the guest's addresses are the physical ones (the handler
  relies on it, `syscall_handler.c:28-31`); no table is reachable by the guest.
* *loader* - every section is where its address says, whole, and apart from
  the page tables and the stack.
* *VM creation and run loop* - no guest runs in a half-made VM; a call is
  served with its effect once, though KVM_RUN may return early or fail; every
  VMM process ends.
* *bootstrap and application* - no instruction finds a register or page missing,
  booted or restored; the application's file holds both lines, in order.

## 2. Modules

| module | models | stands on |
|---|---|---|
| `FileContents` | bytes of a file, what a write does to them | - |
| `HostKernel` | external: `open`, `write`, `close` of the host's Linux for one process, as actions with the result as parameter | `FileContents` |
| `SyscallHandler` | `syscall_handler.c:8-162` in a launched VMM: the core | `HostKernel` |
| `VirtualFiles` | abstract: a process with files and descriptors of its own | `FileContents` |
| `SyscallHandlerRefinement` | `SyscallHandler` implements `VirtualFiles` | both |
| `DivisionTheorems` | lemmas on `\div` and `%` | TLAPS |
| `SyscallHandler_proofs` | theorems about `SyscallHandler` | `SyscallHandler`, `DivisionTheorems` |
| `SyscallHandlerRefinement_proofs` | that the refinement holds | `SyscallHandlerRefinement`, `SyscallHandler_proofs` |
| `ColdMigration` | SAVE, the image file, crashes, RESTORE, and the restored guest: `syscall_handler.c:126-135, 164-314`, `save.c`, `restore.c` | `SyscallHandler` |
| `ColdMigration_proofs` | theorems about `ColdMigration` | `ColdMigration`, `SyscallHandler_proofs` |
| `ImageHandoff` | abstract: a destination takes a whole VM or none | - |
| `MigrationChannel` | `migration.c`, `VMM_client.c`, `VMM_server.c` up to the restored VM; implements `ImageHandoff` | `ImageHandoff` |
| `MigrationChannel_proofs` | theorems about `MigrationChannel`, and the refinement | `MigrationChannel` |
| `BootCode` | `boot.asm` as what each instruction needs and gives | - |
| `VirtualMachine` | the whole life of a VM: `manager.c`, `save.c`, `restore.c`, the vCPU in `boot.asm` and `app.c`, the run loop | `ColdMigration`, `BootCode` |
| `VirtualMachine_proofs` | theorems about `VirtualMachine` | `VirtualMachine`, `ColdMigration_proofs` |
| `Application_proofs` | theorems about the file of `app.c` | `VirtualMachine_proofs` |
| `PageTables` | `memory.c`: `memory_map`, the allocator, the walk, as operators on guest memory | - |
| `GuestLoading` | from the blank VM to the launch: `create_stack`, and `load_file` of bootstrap and application | `PageTables` |
| `GuestLoading_proofs` | theorems about `GuestLoading` | `GuestLoading`, `DivisionTheorems` |
| `MC...` | constants of the above for TLC | |

### SyscallHandler

Variables are the code's: `open_files` (a sequence; `n_open_files` is its
length), `rax`, the guest's memory `mem`; the kernel's `fds` and `disk`; where
the process is (`vmm`); and `held`, the one variable without a counterpart in
the VMM: which path the *guest* thinks it has under which number. One action
per case of the `switch` (`SysWrite`, `SysOpen`, `SysClose`, `SysIgnored`,
`SysExit`), and `GuestStore` for the guest's own computing. A call is one
action, from the read of the registers to KVM_SET_REGS: nothing else touches
the VMM while the vCPU is stopped.

Three things in the code matter more than they seem, and the model has them:

* `regs.rax >= 0` (lines 54, 80) compares an *unsigned* number and is always
  true. A failed open is entered in the table with -1 for both descriptors; a
  failed write adds 2^64-1 to the offset. `rax` is modelled as the signed
  integer the guest reads; `offset` wraps at `OffsetMod`.
* write and close look for the table's entry with `guest_fd == ` the **host**
  descriptor (lines 59, 106).
* `start_addr` is set by a write at offset 0 only (lines 61-63).

Data are abstract: a path is a model value, a byte one of two values, an
address an index into a memory of one or two cells. `a + n <= MemSize` in
`SysWrite` restricts the guest to buffers inside its own memory.

### ColdMigration

The handler's actions are reused as they are, with two guest-side history
variables (`sent`: the bytes the host accepted through each number), `image`
(absent, torn, or a record) and the flag. SAVE is three steps - the dump, the
`fopen("wb")` that empties the old image, the write and exit - and RESTORE is
one step up to the files, two per entry of the table (open, then write) and one
that sets the flag; the process can be killed between any two. A VMM that
loads no image, or a torn one, goes to `"undefined"`: `load_vm_image` returns
an uninitialised structure and the code does not notice, so nothing is
claimed of what follows. In a restored process the ELF files are not open, so
the kernel's numbers differ from those of the launched one: that is what sets
the two number spaces apart.

### MigrationChannel

A connection is a bounded sequence of bytes, each labelled with the VM, field
and position it comes from, so that a byte in the wrong place is visible.
`Write` and `Read` are one call each of `write` and `read` inside the loops of
`my_write` and `my_read`, taking any part. The client's and the server's order
of fields are two definitions, as in the code. `conn` is the server's end: in
the queue of `listen`, accepted, or closed (which drops what the connection
holds). A killed client's bytes are still delivered, then the end of the
stream; a killed server closes all its connections, and a write to a closed
connection may still be taken by the client's kernel or fail. So the model
includes the client that exits with 0 though its image never arrives; the code
waits for no acknowledgement. (The source's image file, written first, still
has the VM.)

### PageTables and GuestLoading

Guest memory is an array of cells of the size of a table entry, and the tables
are in it, as in the code; a page has `EntriesPerPage` cells. `memory_map` takes
and yields a pair of memory and dictionary, so `create_stack` and `load_file`
chain its calls as the code does; `WalkOf` is the vCPU's walk. One action is
one round of a loop: `StackTop`, `StackPage`, `NextFile`, `LoadSection`,
`Launch`.

The files are the environment: their sections are any that `ld` can place,
disjoint and in the order of their addresses, from the address the file's linker
script gives, with or without a gap to the next page. The code depends on more
than it tests: only a section's first page is marked and mapped; `new_page` is
that of an earlier section if the page was begun before; the address mapped is
not aligned, and its low bits end up among the entry's flags, where every reader
masks them. The tables are allocated from page 2 upwards while sections and
stack take pages at their own addresses, each page is mapped for user mode to
write, and nothing compares the two. What keeps them apart is the addresses in
launchers and scripts, which leave room for all tables below the first section
(`RoomForTables`). Under that assumption `TablesPrivate` and `SectionsInPlace` show
that no order of mappings, no section that shares or crosses a page and no
stale `new_page` puts a table or a section in the wrong place. They say nothing of
an allocator that runs into a section or out of pages. That `load_file` marks a
section's page before it maps it makes no difference in such a layout. A
file that cannot be read ends the program in `get_file` and is left out.

### BootCode and VirtualMachine

`VirtualMachine` extends `ColdMigration` and puts around its calls what makes
them: a VMM process from its start (`launcher`: which `main`, how many of the
twelve kernel calls of `create_vm`, `create_bootstrap` and `add_memory` have
been made), the vCPU (`guest`: how far it is in `boot.asm` and `app.c`, which
settings its registers have, what its memory holds) and KVM_RUN (`in_guest`,
`exit_reason`).

* *Creation.* Each call may fail, and then `err` ends the process. Two
  `mmap`s are compared with `NULL` instead of `MAP_FAILED`, so the code goes on
  (`MmapFails`): without guest memory the kernel refuses the region, the next
  call but none; without the page of `kvm_run` the first look at the exit reason
  kills the process. The descriptors the creation opens are counted once the VM
  is there, as nothing else opens any before. `create_stack` and `load_file`
  (`GuestLoading`) are inside `Launch`.
* *The guest.* `boot` is a sequence of steps, each with the settings it needs
  and the one it gives. A step without them, or in memory that is not there, is
  a triple fault (`TripleFault`), for there is no interrupt table. Beyond the
  boot code the guest goes from call to call of `app`, the calls of `app.c` with
  those the C library makes before and after `main`.
* *Run loop.* `KvmRunInterrupted` is a return of KVM_RUN for any reason that is
  not the guest's. The code ignores its result: when it fails, `exit_reason` is
  still that of the exit before, and `HandleHlt` serves a call again, taking the
  *answer* in RAX for its number. The reasons of the host may occur at any
  moment, which is more than a real kernel does.
* *Restored registers.* `restore_from_image` does not look at the results of
  KVM_SET_SREGS and KVM_SET_MSRS: either may be refused (`refused`), and the
  guest then lacks those settings. KVM_SET_REGS cannot refuse what it is given.
* `app.c` ignores what `write` answers; so in the run of this module writes are
  whole and the disk sound, and `fd` is what `open` answered.

## 3. Runs

| run | question | size |
|---|---|---|
| `handler` | does any order of calls break the agreement of table, kernel and guest (`HandlerInv`), lead a held number to a wrong file, reach a VMM descriptor, record a wrong offset, or answer otherwise than an ordinary process (refinement of `VirtualFiles`)? On a disk without faults. | 59 428 states |
| `migration` | are all held numbers good after RESTORE, and the VMM's descriptors still private, through two restores of the same or a newer image with kills anywhere and a disk that fails? Does each step keep `MigrationInv`? | 277 867 |
| `replay` | does the replay restore contents and position where it can (one buffer, untouched), also over what an earlier restore has left; do SAVE and RESTORE end (liveness)? Does each step keep `ReplayInv`? | 127 194 |
| `transfer` | is the hand-off whole-or-none, single, and finite; does what a client sent before it exits arrive unless the server goes? Is every byte in its place (`ChannelInv`)? | 15 739 |
| `loading` | for every layout of the sections: are guest addresses the physical ones, the tables out of reach, the sections whole and in place, the tables a tree (`LoadingInv`)? | 157 240 |
| `vm` | launched, interrupted, saved, killed and restored: does the guest ever miss a register or a page, does its file have both lines, does every VMM end (liveness)? Does each step keep `MachineInv` and `AppInv`? | 21 787 |
| `save_stops`, `torn_image`, `numbers`, `offsets`, `resumes`, `init_array` | the six disagreements of section 5 | stop at the counterexample |

Bounds, and why they suffice.

* Table slots: 2 in `handler` and `migration`, so that the table is full and a
  removal moves the last entry into the hole; the proofs of section 4 cover every
  size. The other runs about SAVE have one or two.
* Numbers: in `handler`, `FdLimit` is 6 with 5 in use (0-2, `/dev/kvm` and the
  ELF file, one standing for the class): the guest's opens are answered 5, or 0
  once it has closed stdin, and fail with -1 beyond. `migration` has one
  more, so that two files are open beside the standard streams. `vm` has the
  real numbers: 3-5 for KVM, VM and vCPU, 6 and 7 for the ELF files, so that
  `app.c` is answered 8, and its restored file is the host's 6.
* Files: two paths, symmetric; several descriptors on one file, and files that
  do or do not exist beforehand, are included.
* Memory is one or two cells, files have up to two bytes (`MaxFileLen`): two
  writes to one file, a partial one, one at offset 0 and one behind it.
  `handler` has the guest write zeroes over files of other bytes; `migration`
  leaves contents out (`MemSize` is 0), as its properties do not look at them.
  `OffsetMod` is larger than the longest file, so that a wrapped offset is never
  a right one.
* `MaxRestores` is 2: the second restore meets what the first has left, of the
  same image or of one saved by a restored guest.
* In `transfer`, fields at both ends and in the middle have two bytes, so both
  calls can take a part; the connection holds 3, more than a field and less
  than two; two clients make a queue (`Backlog` itself is not reached); the
  server is started twice. No symmetry is used, as liveness is checked.
* In `loading`, a page has 4 cells instead of 512, and memory 15 pages, as in
  `save.c`. The bootstrap is on page 8, the application on 9 and 10, the stack on
  11 to 14, as the linker scripts and the launchers have it; sections have 1 or
  3 cells, so several share a page and some cross into the next. With 4 entries
  the pages in use need one table of each upper level and two of the lowest
  (one with 512 entries): one table more than in the code, and all must stay
  below page 8. The allocator's exhaustion (65 536 pages in the code) is
  not reached in either. `RoomForTables` says all of this for the proofs: memory
  is no more than one table of each upper level can map, and whatever is mapped
  begins behind `LastTable`, the page the last table would have if all of memory
  were mapped: page 4 in the code, 7 in the run.
* In `vm`, two launches and two restores: an image of the first launch or of a
  later one, restored over what the other processes have left of the file, which
  may also exist beforehand and be longer than both lines. The lines have 4 and
  5 bytes, not 16 and 12: like the real lengths, neither these, nor what the last
  write answers, nor the descriptor, is the number of a call with an effect,
  which is what makes a stale HLT harmless to `app.c`. (With a line of a single
  byte TLC finds it written twice.) `AnswersAssumption` says this for the proofs.
* Symmetry on paths is used only in runs without temporal formulas other than
  `[][A]_v`.
* `CHECK_DEADLOCK FALSE` in every run: a VM that has exited, and a server that
  nobody starts again, really stop.

Fairness. `FairMigrationSpec` has weak fairness on the steps of SAVE and of
RESTORE: straight-line code and a bounded loop that wait for nobody. The guest,
the operator's restores and crashes have none. `FairChannelSpec` has weak
fairness on each client's steps and on the server's: a process that is not
blocked in a read, write, accept or connect is scheduled, and a client's
`connect` is repeated every second, so it meets an open port. Starting a server
and being killed have none, so that a client without a server retries for ever
in the model as it does in the code.

`FairVmSpec` has weak fairness on all steps of the VMM, which waits for nobody but
KVM_RUN, and strong fairness on the guest's: KVM_RUN may come back early
again and again, but the vCPU gets on in between. Starting a process and killing
one have none.

Every property of a passing run has a mutant: a plausible slip in one
definition (marked `a slip` beside it) under which TLC finds that property
violated.

## 4. Proofs

Each is for every value of the constants that satisfies the named assumptions:
any number of files, table slots, descriptors, clients, restores, pages and
sections, any length of memory, fields and files. The constants of every run
satisfy them; TLC evaluates them.

| theorem | says |
|---|---|
| `TypeCorrect`, `HandlerInvariant` | `Spec => []TypeOK`, `Spec => []HandlerInv` |
| `TableIsFaithful`, `HeldNumbersReachTheirFiles`, `VmmDescriptorsStayPrivate` | what follows from `HandlerInv` |
| `OffsetsArePositions` | `Spec => []OffsetResumes`, on a disk without faults |
| `HandlerImplementsVirtualFiles` | `Spec => ImplementsVirtualFiles` |
| `MigrationInvariant`, `MigrationIsTyped` | `MigrationSpec => []MigrationInv`, and its types |
| `RestoredDescriptorsStayPrivate`, `HeldFilesAreRestored` | `MigrationSpec => []VmmDescriptorsPrivate`, `MigrationSpec => HeldFilesSurvive` |
| `ReplayInvariant`, `ReplaysAreFaithful` | `MigrationSpec => []ReplayInv`, `MigrationSpec => ReplayFaithful`, on a sound disk that takes writes whole |
| `MachineInvariant`, `MachineIsTyped` | `VmSpec => []MachineInv`, and its types |
| `GuestNeverFaults`, `ApplicationFindsItsFile` | `VmSpec => []NoTripleFault`, `VmSpec => HeldFilesSurvive` |
| `ApplicationInvariant`, `FileFollowsTheCalls`, `OutputIsComplete` | `VmSpec => []AppInv`, `VmSpec => []AppFileRight`, `VmSpec => OutputComplete`, on a sound disk that takes writes whole |
| `ChannelIsInOrder`, `ChannelIsTyped` | `ChannelSpec => []ChannelInv`, and its types |
| `ExitedClientsDeliver`, `ChannelImplementsHandoff` | `ChannelSpec => ExitedClientDelivers`, `ChannelSpec => ImplementsHandoff` |
| `LoadingInvariant`, `LoadingIsTyped` | `LoadingSpec => []LoadingInv`, and its types |
| `GuestAddressesArePhysical`, `TablesStayPrivate`, `SectionsStayInPlace` | what follows from `LoadingInv` |

Every inductive invariant is also an invariant of a run, so that TLC has looked
for a counterexample to it first.

### The handler

`GuestReachesItsFile` and `VmmDescriptorsPrivate` are not inductive: a close
that missed its entry would break them only some calls later, when the kernel
gives the number out again. The invariant that is, is that the table mirrors the
kernel (`TableMirrorsHost`): entries other than those of failed opens are the
open descriptors on regular files, one each, under equal guest and host numbers;
that what the guest holds is open on the right file (`HeldMatchesHost`); and
that the standard streams, which the translation lets through unchecked, are
never one of the VMM's own descriptors (`StreamsAreNotDevices`; a guest may
close one and be given the number for a file, never for a device). From equal
numbers it follows that the translation is the identity on the guest's
descriptors, and that the search by the host descriptor is right after all in a
*launched* VMM. There is one lemma per system call; the removal with its swap
(`SwapRemoveEntries`) and the search (`FirstSlotFound`) have lemmas of their
own. `HandlerAssumption` gives the start: numbers 0-2 are open and differ from
the VMM's own. That the guest leaves number 1 open (section 6) is not needed:
the lemma about `SysClose` is for any number.

*Offsets.* A write is noted in one entry only, that of the host's descriptor,
which under `HandlerInv` is the guest's; the position and the offset then grow
by the same count. `~ DiskFaults` is necessary and not a convenience: a failed
write adds 2^64-1 to the offset and leaves the position (section 2), and TLC
refutes `OffsetResumes` with faults (section 5). Offsets wrap, so the sums are compared
modulo `OffsetMod`, which takes `DivisionTheorems`.

*Refinement.* Under the mapping, a call of the handler is the call of an ordinary
process on the descriptors the guest can reach; `HandlerInv` says these are a
part of the kernel's table, so the number the kernel gives out is free in both.
Calls that are ignored, and the steps that only move entries, are stutters.

### SAVE and RESTORE

`HeldFilesSurvive` is about one step, the end of a restore, and depends on
everything since the launch. `MigrationInv` carries it over: before the first
restore the VMM is `SyscallHandler`'s (`LaunchedTableRight`, by its lemmas);
a whole image of such a VMM has one entry for each held number, with the path of
a file that exists (`ImageIsDump`); and in the restore loop the entries so far
are the image's with new host numbers, each leading to its path unless its flags
refuse (`RestoreFollowsImage`). The rest is what makes these parts inductive:

* a process that has ended leaves no table (`EndedIsEmpty`): `restore` starts
  from an empty one;
* a restored VMM has room: at most its own descriptors and one per entry so far
  are open. This is where `RoomForTable` is used (64 files; a Linux process has
  1024 descriptors), or a reopen could fail for the number of open files alone;
* the restore loop opens files, so files of the image exist still: nothing
  removes one;
* no entry leads to a device (`EntriesAreNotDevices`), from which
  `VmmDescriptorsPrivate` follows in launched and restored VMMs alike, although
  a restored table no longer mirrors the kernel (section 5, `numbers`).

*Replays.* `ReplayFaithful` needs to know why the byte count of an entry is that of
its file. `ReplayInv` says it (`SentIsCounted`): in a launched VMM an offset is the
length of what the guest has sent through that number, and an image keeps this.
A replay then writes that many bytes at position 0 of a descriptor it has just
opened (`ReplaysAreRight`), whatever an earlier restore has left in the file, and
no later round touches it: an entry on the same path makes neither replayable.
`~ DiskFaults` and `~ ShortWrites` are the theorem's hypotheses, because the code
drops the result of the replay's write: one that fails or is cut short leaves the
guest with a file that lacks its bytes, and nobody knows. The restored guest that
saves again is outside (`FirstGeneration`): its offsets are wrong (section 5,
`offsets`).

### The virtual machine

Every step of the VMM but `Launch` is one of `ColdMigration`, so `MigrationInv`
and with it `HeldFilesSurvive` carry over to a VM whose launchers are started,
killed and failing at any of the kernel calls. `MachineInv` adds the vCPU: it has
every setting of the instructions it has run and of the launcher
(`GuestSetUp`), and a call is served only to a guest that has made it, so that
the image SAVE dumps has all of them (`CallsAreMade`). A vCPU whose registers
the kernel refused lacks what a call needs (`CallNeeds`), and comes to none. Of
the constants it takes that the second line is not empty, so that its address
is one of memory.

*The application's file.* `AppFileRight` and `OutputComplete` are about a program of
ten calls and everything that may happen between them. `AppInv` goes with the
calls: after the n-th (`CallsServed`, `Progress`) there is no file, an open one, one
with the first line, with both, or a closed one; the image, the restore loop and
the restored VM are at the fifth, SAVE (`SavedApp`, `ReopenedApp`). The difficulty is
that a call is served *at least* once: when KVM_RUN fails after a `hlt`, the handler
takes the answer in RAX for the number of a call. Each time that is either a call
without effect or none at all (`RaxIsAnswer`), which rests on `AnswersAssumption`: the
lines have 16 and 12 bytes, 28 go to stdout, `open` answers the first number
behind the VMM's own, and none of these is 1, 2, 3, 60 or 400; the code has no
line that says so. Sound disk and whole writes are hypotheses here too, as
`app.c` does not look at what `write` answers.

### The channel

`ImplementsHandoff` needs more than the counts. `ChannelInv` gives every byte its
place in the image (field, position): in a connection, the place of the first
byte is the reader's, each byte's place is the next after the one before, and the
writer's place is next after the last (`StreamInOrder`); what has been received
of the image is the first part of the peer's, byte by byte (`ImageInOrder`); and
a connection is offered, accepted or closed as the server and its client are
(`ConnectionsMatchServer`; a client that is sending has one, which a kill of the
server closes). `read` and `write` then take any part of what they may. That the
orders of the fields at both ends agree is a lemma from the two definitions, as
they are in the code. A server that has all fields has the peer's whole image;
that is the step in which the abstract hand-off happens, and all others stutter
or close a connection.

### The loader

`TablesPrivate` and `IdentityMapped` speak of all walks from CR3, in a memory
where tables and contents are cells alike. `LoadingInv` says from the first call
of `memory_map` on (`TreeOf`): pages 2 and 3 are the upper tables; pages 4 to n
are the lowest, each entered for addresses of its own, and there are as many of
them as entries made (`LowestTables`); pages 2 to n are marked and those behind,
up to `LastTable`, are neither marked nor written; a page that is mapped is
behind `LastTable` and at its own address (`PagesAtHome`). The number of entries
that can be made bounds n by `LastTable`, so `allocate_page`, which takes the
first free page and asks nobody, always finds page n + 1, blank, in front of all
contents. `memory_map` keeps `TreeOf` in each of its four cases
(`MapsThePage`); copying a section writes behind `LastTable` only (`CopyBehind`).

Sections take more: `load_file` maps and marks only a section's first page, and
only if no section began on it (`new_page`). The invariant is that sections of a
file come in the order of their addresses and apart (`SectionsInOrder`), so that
`new_page` is that of the last one; if a section begins on an earlier page, all
sections between begin there as well. Files begin on pages of their own
(`FilesApart`), which the linker scripts see to. `RoomForTables` and `FilesApart`
are what the addresses in launchers and scripts guarantee; no line of C does.

### Only model-checked

* All liveness (`TransferEnds`, `SaveAndRestoreEnd`, `EveryVmmEnds`), which is
  beyond the prover, as is ENABLED.
* What holds of a bounded instance only to be refuted: the runs of section 5.

Every safety property of a passing run is stated by a theorem.

Where an argument would be an induction over data (the first entry of a search,
the first byte that is out of place), the proofs take the least counterexample
instead (`WellFoundedInduction`).

## 5. Where the code and its documents disagree

Each is a run that TLC ends with a counterexample, quoted in `PROJECT.json`.

* `save_stops` - the restore sets `restored_from_snapshot`, meant to skip the
  SAVE that made the image; but the image's RIP is already behind that `hlt`,
  so the flag swallows the *next* SAVE: the VM neither stops nor is dumped.
* `torn_image` - neither `fwrite` nor `fread` is checked. After a full disk or a
  kill in SAVE the old image is emptied and the new one torn, and a restore
  deploys a VM from memory that was never written.
* `numbers` - a restored guest is still given host numbers as its own. If a
  restored entry has that number, two files share it; later writes go to the
  first.
* `offsets` - a write of a restored guest does not find its entry, for it looks
  for the host's number; the offset stays, and an image saved later has the
  position from before the first migration.
* `resumes` - the replay takes all of a file's bytes from the buffer of its
  first write, as memory is at SAVE: after writes from two buffers, or a reused
  one, other bytes end up in the file. (`app.c` writes once before SAVE.)
* `init_array` - `load_file` takes `sh_type & 0x8` for "has no data". It is meant
  for `SHT_NOBITS` (8), but holds of `SHT_INIT_ARRAY` (14) and `SHT_FINI_ARRAY`
  (15) as well: their contents are zeroed. Binaries of lab 2 have such sections.

Also seen, and part of the model, without a run of their own: failed opens in
the table (the unsigned tests above), and the offset after a failed write, which
grows by 2^64-1 while the file's position stays. `handler` checks `OffsetResumes`
on a disk without faults and so does not meet it; with `DiskFaults = TRUE` in
`MCSyscallHandler.cfg` TLC reports it after an open and one write. After a restore a
close does not find its entry either, so the next image opens and rewrites a
file the guest has closed; a failing KVM_RUN has the exit before it handled
again (`lab_2` checked the result).

## 6. Not modelled

* Reading and seeking: the guest has no such calls.
* A guest that closes stdout; paths of 256 bytes or more, which `strncpy` leaves
  unterminated; `mode`; registers other than RAX in the runs about descriptors and
  files (`VirtualMachine` has what the guest needs of registers and MSRs).
* A host that vanishes from the network without closing its connections: the
  peer would block for good, as the code sets no timeout.
* `print_image_info`, which only prints: that the process may die in it is a
  kill. Logging; the build; `test_memory.c` (an empty program). FPU state in
  `VirtualMachine`, which is copied as a whole like the rest.
* In `VirtualMachine`: `VMM_client` and `VMM_server` (their VMs are made as those
  of `save` and `restore`; the transfer is `MigrationChannel`'s), and a restore
  that fails in the middle of an ioctl.
* `create_stack` in a restore: the tables it makes in the new guest's memory, and
  the pages it marks, are overwritten by the image's memory a moment later, or
  not used again.
* Another layout of guest memory than that of launchers and linker scripts: tables
  that meet a section, or an allocator without a free page.
* Labs 1 and 2: earlier states of the same program. `memory.c`, `loader.c` and
  `boot.asm` of lab 2 are those of lab 3, byte for byte; its handler serves no
  calls (the slip `StubServes` of `VirtualMachine`), its run loop ends when
  KVM_RUN fails.

## 7. Plan

Done, in this order: `FileContents`, `HostKernel`, `SyscallHandler`, its
proofs, `VirtualFiles` and the refinement, `ColdMigration`, `ImageHandoff`,
`MigrationChannel`, `PageTables`, `GuestLoading`, `BootCode`, `VirtualMachine`;
then the proofs of the refinement, of `MigrationChannel`, `ColdMigration`, the
offsets, `VirtualMachine`, `GuestLoading`, the replays and the application's file.

Of lab 3, what changes state is modelled, but for what section 6 lists. Left:

* what may be said of files without the hypotheses on the disk: that a replay cut
  short still leaves a first part of the guest's bytes;
* a restored guest that saves again, up to its first `open` or `write`, when its
  table is still right: `MigrationInv` speaks of images of launched VMMs only;
* the restore as a refinement of an abstract VM that moves from one process to the
  next, with the descriptors of `VirtualFiles`.
