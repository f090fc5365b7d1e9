------------------------- MODULE Application_proofs -------------------------
(***************************************************************************)
(* The file of app.c, through interrupted KVM_RUNs, kills, SAVE and        *)
(* RESTORE, for any two lines, on a sound disk that takes writes whole.    *)
(*                                                                         *)
(* AppInv goes with the calls of app.c: each is served at least once, and  *)
(* if it is served again then as the number that its answer is, which is   *)
(* none with an effect.                                                    *)
(***************************************************************************)
EXTENDS VirtualMachine_proofs

-----------------------------------------------------------------------------
(* The calls, their numbers and their place.                               *)
LEMMA AppNumbers ==
  /\ app[1].nr = 158 /\ app[2].nr = 218 /\ app[3].nr = 2 /\ app[4].nr = 1
  /\ app[5].nr = SAVE /\ app[6].nr = 1 /\ app[7].nr = 1 /\ app[8].nr = 3
  /\ app[9].nr = 231 /\ app[10].nr = 60
  /\ app[4].fd = "file" /\ app[6].fd = "file" /\ app[7].fd = "stdout"
BY DEF app, Call, Write

LEMMA LinesAreBytes ==
  /\ Hello \in Seq(Byte) /\ Bye \in Seq(Byte) /\ Output \in Seq(Byte)
  /\ Len(Hello) \in Nat /\ Len(Bye) \in Nat
  /\ Len(Output) = Len(Hello) + Len(Bye)
  /\ MemSize = 1 + Len(Hello) + Len(Bye)
<1>1. Output \in Seq(Byte) /\ Len(Output) = Len(Hello) + Len(Bye)
  BY MachineAssumption, ConcatProperties DEF Output
<1> QED
  BY <1>1, MachineAssumption, LenProperties

(* The memory of the application has the lines where its calls say.        *)
LEMMA AppMemoryHasLines ==
  /\ \A i \in 1..Len(Hello) : AppMemory[i] = Hello[i]
  /\ \A i \in 1..Len(Bye) : AppMemory[Len(Hello) + i] = Bye[i]
<1> DEFINE z == <<ZeroByte>>
<1>1. z \in Seq(Byte) /\ Len(z) = 1
  BY ZeroByteAssumption
<1> HIDE DEF z
<1>2. PICK h \in Nat, b \in Nat :
        h = Len(Hello) /\ b = Len(Bye) /\ MemSize = 1 + h + b
  BY LinesAreBytes
<1>3. /\ z \o Hello \in Seq(Byte) /\ Len(z \o Hello) = 1 + h
      /\ \A i \in 1..(1 + h) : (z \o Hello)[i] = IF i <= 1 THEN z[i] ELSE Hello[i - 1]
  <2>1. Len(Hello) = h /\ Hello \in Seq(Byte)
    BY <1>2, LinesAreBytes
  <2>2. /\ z \o Hello \in Seq(Byte) /\ Len(z \o Hello) = Len(z) + Len(Hello)
        /\ \A i \in 1..Len(z) + Len(Hello) :
             (z \o Hello)[i] = IF i <= Len(z) THEN z[i] ELSE Hello[i - Len(z)]
    BY <1>1, <2>1, ConcatProperties, Zenon
  <2> QED
    BY <1>1, <2>1, <2>2
<1>4. \A i \in 1..(1 + h + b) : ((z \o Hello) \o Bye)[i] =
        IF i <= 1 + h THEN (z \o Hello)[i] ELSE Bye[i - (1 + h)]
  BY <1>2, <1>3, MachineAssumption, ConcatProperties
<1>5. \A a \in 0..(h + b) : AppMemory[a] = ((z \o Hello) \o Bye)[a + 1]
  BY <1>2 DEF AppMemory, Addr, z
<1>6. \A i \in 1..h : AppMemory[i] = Hello[i]
  <2> TAKE i \in 1..h
  <2>1. i \in 0..(h + b) /\ i + 1 \in 1..(1 + h + b) /\ i + 1 \in 1..(1 + h)
        /\ i + 1 <= 1 + h /\ ~ (i + 1 <= 1) /\ (i + 1) - 1 = i
    BY <1>2
  <2>2. AppMemory[i] = (z \o Hello)[i + 1]
    BY <1>4, <1>5, <2>1
  <2> QED
    BY <1>3, <2>1, <2>2
<1>7. \A i \in 1..b : AppMemory[h + i] = Bye[i]
  <2> TAKE i \in 1..b
  <2>1. h + i \in 0..(h + b) /\ (h + i) + 1 \in 1..(1 + h + b)
        /\ ~ ((h + i) + 1 <= 1 + h) /\ ((h + i) + 1) - (1 + h) = i
    BY <1>2
  <2> QED
    BY <1>4, <1>5, <2>1
<1> QED
  BY <1>2, <1>6, <1>7

LEMMA FirstBuffer ==
  ASSUME mem = AppMemory
  PROVE  Buffer(1, Len(Hello)) = Hello
<1>1. PICK h \in Nat : h = Len(Hello)
  BY LinesAreBytes
<1>2. \A k \in 1..h : mem[1 + k - 1] = Hello[k]
  BY <1>1, AppMemoryHasLines
<1>3. Hello = [k \in 1..h |-> Hello[k]]
  BY <1>1, LinesAreBytes
<1> QED
  BY <1>1, <1>2, <1>3 DEF Buffer

LEMMA SecondBuffer ==
  ASSUME mem = AppMemory
  PROVE  Buffer(1 + Len(Hello), Len(Bye)) = Bye
<1>1. PICK h \in Nat, b \in Nat : h = Len(Hello) /\ b = Len(Bye)
  BY LinesAreBytes
<1>2. \A k \in 1..b : mem[(1 + h) + k - 1] = Bye[k]
  <2> TAKE k \in 1..b
  <2>1. (1 + h) + k - 1 = h + k
    OBVIOUS
  <2> QED
    BY <1>1, <2>1, AppMemoryHasLines
<1>3. Bye = [k \in 1..b |-> Bye[k]]
  BY <1>1, LinesAreBytes
<1> QED
  BY <1>1, <1>2, <1>3 DEF Buffer

LEMMA ReplaysFirstLine ==
  ASSUME mem = AppMemory, NEW e, e.start_addr = 1, e.offset = Len(Hello)
  PROVE  ReplayData(e) = Hello
<1>1. PICK h \in Nat, b \in Nat : h = Len(Hello) /\ b = Len(Bye) /\ MemSize = 1 + h + b
  BY LinesAreBytes
<1>2. \A k \in 1..h : 1 + k <= MemSize /\ mem[1 + k - 1] = Hello[k]
  BY <1>1, AppMemoryHasLines
<1>3. Hello = [k \in 1..h |-> Hello[k]]
  BY <1>1, LinesAreBytes
<1> QED
  BY <1>1, <1>2, <1>3 DEF ReplayData

-----------------------------------------------------------------------------
(* Writes of files that hold a text already.                               *)
Begins(c, text) ==
  Len(text) <= Len(c) /\ \A i \in 1..Len(text) : c[i] = text[i]

LEMMA WriteGoesOn ==
  ASSUME NEW c \in Seq(Byte), NEW text \in Seq(Byte), NEW data \in Seq(Byte),
         Begins(c, text)
  PROVE  Begins(WriteAt(c, Len(text), data), text \o data)
<1>1. PICK n \in Nat, t \in Nat, d \in Nat : n = Len(c) /\ t = Len(text) /\ d = Len(data)
  BY LenProperties
<1>2. /\ text \o data \in Seq(Byte) /\ Len(text \o data) = t + d
      /\ \A i \in 1..(t + d) : (text \o data)[i] = IF i <= t THEN text[i] ELSE data[i - t]
  BY <1>1, ConcatProperties
<1>3. t <= n /\ \A i \in 1..t : c[i] = text[i]
  BY <1>1 DEF Begins
<1>4. CASE data = <<>>
  <2>1. d = 0 /\ WriteAt(c, t, data) = c
    BY <1>1, <1>4 DEF WriteAt
  <2>2. \A i \in 1..(t + d) : c[i] = (text \o data)[i]
    BY <1>2, <1>3, <2>1
  <2> QED
    BY <1>1, <1>2, <1>3, <2>1, <2>2 DEF Begins
<1>5. CASE data # <<>>
  <2> DEFINE m == IF t + d > n THEN t + d ELSE n
             w == [i \in 1..m |->
                     IF i > t /\ i <= t + d THEN data[i - t]
                     ELSE IF i <= n THEN c[i] ELSE ZeroByte]
  <2>1. WriteAt(c, t, data) = w
    BY <1>1, <1>5 DEF WriteAt
  <2>2. m \in Nat /\ m >= t + d
    BY <1>1
  <2>3. \A i \in 1..(t + d) : w[i] = (text \o data)[i]
    <3> TAKE i \in 1..(t + d)
    <3>1. i \in 1..m
      BY <2>2
    <3>2. CASE i <= t
      <4>1. w[i] = c[i] /\ i \in 1..t
        BY <1>3, <3>1, <3>2
      <4> QED
        BY <1>2, <1>3, <3>2, <4>1
    <3>3. CASE ~ (i <= t)
      BY <1>2, <3>1, <3>3
    <3> QED
      BY <3>2, <3>3
  <2> HIDE DEF m
  <2>4. Len(w) = m
    BY <2>2
  <2> HIDE DEF w
  <2> QED
    BY <1>1, <1>2, <2>1, <2>2, <2>3, <2>4 DEF Begins
<1> QED
  BY <1>4, <1>5

LEMMA HoldsBegins == ASSUME NEW text PROVE
  FileHolds(text) <=> AppFile \in DOMAIN disk /\ Begins(disk[AppFile], text)
BY DEF FileHolds, Begins

LEMMA HoldsNothing ==
  ASSUME AppFile \in DOMAIN disk, disk \in [DOMAIN disk -> Seq(Byte)]
  PROVE  FileHolds(<<>>)
<1>1. Len(disk[AppFile]) \in Nat
  BY LenProperties
<1> QED
  BY <1>1 DEF FileHolds

(* A write through the application's descriptor, on a sound disk.          *)
LEMMA WholeWrite ==
  ASSUME ~ DiskFaults, ~ ShortWrites, KernelTypeOK,
         NEW h \in DOMAIN fds, NEW text \in Seq(Byte), NEW data \in Seq(Byte),
         AppDescriptor(h, Len(text)),
         NEW r, KWrite(h, data, r), FileHolds(text)
  PROVE  /\ r = Len(data) /\ FileHolds(text \o data)'
         /\ AppDescriptor(h, Len(text) + Len(data))' /\ DOMAIN fds' = DOMAIN fds
         /\ \A f \in DOMAIN fds : f # h => fds'[f] = fds[f]
<1> DEFINE pos == Len(text)
<1>0. /\ fds[h].node = AppFile /\ fds[h].pos = pos /\ fds[h].flags = {"CREAT"}
      /\ fds[h] \in OpenFile
  BY DEF AppDescriptor, KernelTypeOK
<1>1. AppFile \in Path /\ AppFile # Tty /\ AppFile # Device
  BY MachineAssumption, KernelAssumption
<1>2. ~ KWriteTty(h, data, r) /\ ~ KWriteFails(h, r)
  BY <1>0, <1>1 DEF KWriteTty, KWriteFails
<1>3. KWriteFile(h, data, r)
  BY <1>2 DEF KWrite
<1>4. r = Len(data) /\ SubSeq(data, 1, r) = data
  <2>1. r = Len(data)
    BY <1>3 DEF KWriteFile
  <2> QED
    BY <2>1, SubSeqFull
<1>5. WritePos(h) = pos
  BY <1>0 DEF WritePos
<1>6. /\ disk' = [disk EXCEPT ![AppFile] = WriteAt(@, pos, data)]
      /\ fds' = [fds EXCEPT ![h].pos = pos + r]
  <2>1. fds[h].node = AppFile
    BY <1>0
  <2>2. /\ disk' = [disk EXCEPT ![fds[h].node] =
                     WriteAt(@, WritePos(h), SubSeq(data, 1, r))]
        /\ fds' = [fds EXCEPT ![h].pos = WritePos(h) + r]
    BY <1>3 DEF KWriteFile
  <2> QED
    BY <1>4, <1>5, <2>1, <2>2
<1>7. disk[AppFile] \in Seq(Byte) /\ AppFile \in DOMAIN disk /\ Begins(disk[AppFile], text)
  BY <1>0, HoldsBegins DEF KernelTypeOK
<1>8. Begins(WriteAt(disk[AppFile], pos, data), text \o data)
  BY <1>7, WriteGoesOn
<1>9. AppFile \in DOMAIN disk' /\ disk'[AppFile] = WriteAt(disk[AppFile], pos, data)
  BY <1>6, <1>7
<1>10. FileHolds(text \o data)'
  BY <1>8, <1>9 DEF FileHolds, Begins
<1>11. AppDescriptor(h, pos + Len(data))'
  <2>1. fds'[h] = [fds[h] EXCEPT !.pos = pos + Len(data)]
    BY <1>4, <1>6
  <2> HIDE DEF pos
  <2>2. /\ fds'[h].node = AppFile /\ fds'[h].pos = pos + Len(data)
        /\ fds'[h].flags = {"CREAT"}
    BY <1>0, <2>1 DEF OpenFile
  <2> QED
    BY <2>2 DEF AppDescriptor
<1> QED
  BY <1>4, <1>6, <1>10, <1>11

-----------------------------------------------------------------------------
(* The calls, served for an application that has its file open.            *)
OpenAs(g, h, text, pos) ==
  /\ held = [n \in {g} |-> AppFile] /\ sent = [n \in {g} |-> text]
  /\ Len(open_files) = 1
  /\ open_files[1].guest_fd = g /\ open_files[1].host_fd = h
  /\ open_files[1].path = AppFile /\ open_files[1].flags = {"CREAT"}
  /\ AppDescriptor(h, pos)

LEMMA FileOpenAs ==
  ASSUME NEW text, NEW pos
  PROVE  FileOpen(text, pos) <=>
           \E g \in DOMAIN held \ StdFd, h \in DOMAIN fds : OpenAs(g, h, text, pos)
BY DEF FileOpen, OpenAs

StdoutStays == 1 \in DOMAIN fds /\ fds[1].node = Tty

LEMMA AppLookup ==
  ASSUME NEW g \in DOMAIN held \ StdFd, NEW h \in DOMAIN fds, NEW text, NEW pos,
         OpenAs(g, h, text, pos), MigrationTypeOK
  PROVE  /\ fd = g /\ DOMAIN held = {g} /\ g \in Int /\ h \in Fd
         /\ get_host_fd_from_guest_fd(g) = h
<1>1. DOMAIN held = {g} /\ held # NoDescriptors
  BY DEF OpenAs, NoDescriptors
<1>2. fd = g
  BY <1>1 DEF fd
<1>3. Slots(g) = {1}
  BY DEF OpenAs, Slots
<1>4. FirstSlot(g) = 1
  BY <1>3 DEF FirstSlot
<1>5. get_host_fd_from_guest_fd(g) = h
  BY <1>3, <1>4 DEF get_host_fd_from_guest_fd, OpenAs
<1>6. g \in Int /\ h \in Fd
  BY <1>1, KernelAssumption DEF MigrationTypeOK, KernelTypeOK, Fd
<1> QED
  BY <1>1, <1>2, <1>5, <1>6

LEMMA AppWrite ==
  ASSUME ~ DiskFaults, ~ ShortWrites, MigrationTypeOK, StdoutStays,
         NEW g \in DOMAIN held \ StdFd, NEW h \in DOMAIN fds,
         NEW text \in Seq(Byte), OpenAs(g, h, text, Len(text)), FileHolds(text),
         NEW data \in Seq(Byte), NEW a \in Addr, NEW n, n = Len(data),
         Buffer(a, n) = data, GuestWrite(g, a, n)
  PROVE  /\ FileOpen(text \o data, Len(text \o data))' /\ FileHolds(text \o data)'
         /\ StdoutStays' /\ rax' = n /\ NoteWrite(h, a, n)
         /\ vmm' = "running" /\ mem' = mem
         /\ Len(text) + n <= MaxFileLen
<1>1. /\ fd = g /\ DOMAIN held = {g} /\ h \in Fd
      /\ get_host_fd_from_guest_fd(g) = h
  BY AppLookup
<1>2. h >= 0 /\ ~ (h < 0)
  BY <1>1, KernelAssumption DEF Fd
<1>3. AppDescriptor(h, Len(text))
  BY DEF OpenAs
<1>4. SysWrite(g, a, n)
  BY DEF GuestWrite
<1>5. PICK r \in -1..n : KWrite(h, data, r) /\ NoteWrite(h, a, r) /\ rax' = r
  BY <1>1, <1>2, <1>4 DEF SysWrite
<1>6. /\ r = n /\ FileHolds(text \o data)'
      /\ AppDescriptor(h, Len(text) + n)' /\ DOMAIN fds' = DOMAIN fds
      /\ \A f \in DOMAIN fds : f # h => fds'[f] = fds[f]
  <2>1. KernelTypeOK
    BY DEF MigrationTypeOK
  <2>2. /\ r = Len(data) /\ FileHolds(text \o data)'
        /\ AppDescriptor(h, Len(text) + Len(data))' /\ DOMAIN fds' = DOMAIN fds
        /\ \A f \in DOMAIN fds : f # h => fds'[f] = fds[f]
    BY <1>3, <1>5, <2>1, WholeWrite
  <2> QED
    BY <2>2
<1>7. n \in Nat /\ Len(text) \in Nat /\ Len(text \o data) = Len(text) + n
  BY ConcatProperties, LenProperties
<1>8. StdoutStays'
  <2>1. h # 1
    BY <1>3, MachineAssumption, KernelAssumption DEF StdoutStays, AppDescriptor
  <2> QED
    BY <1>6, <2>1 DEF StdoutStays
<1>9. UNCHANGED <<mem, held>> /\ vmm' = "running"
  BY <1>4 DEF SysWrite
<1>10. sent' = [m \in {g} |-> text \o data]
  <2>1. sent = [m \in {g} |-> text] /\ g \in DOMAIN held
    BY <1>1 DEF OpenAs
  <2>2. CASE n > 0
    <3>1. sent' = [sent EXCEPT ![g] = @ \o SubSeq(data, 1, n)]
      BY <1>5, <1>6, <2>1, <2>2 DEF GuestWrite
    <3>2. SubSeq(data, 1, n) = data
      BY SubSeqFull
    <3> QED
      BY <2>1, <3>1, <3>2
  <2>3. CASE n = 0
    <3>1. sent' = sent
      BY <1>5, <1>6, <2>3 DEF GuestWrite
    <3>2. text \o data = text
      <4>1. data = <<>>
        BY <2>3, EmptySeq
      <4> QED
        BY <4>1, ConcatEmptySeq
    <3> QED
      BY <2>1, <3>1, <3>2
  <2> QED
    BY <1>7, <2>2, <2>3
<1>11. /\ Len(open_files') = 1 /\ open_files'[1].guest_fd = g
       /\ open_files'[1].host_fd = h /\ open_files'[1].path = AppFile
       /\ open_files'[1].flags = {"CREAT"}
  <2>1. /\ open_files \in Seq(GuestFile) /\ DOMAIN open_files = 1..1
        /\ a \in Nat /\ r \in Int /\ 1 \in 1..1
    BY HandlerAssumption DEF OpenAs, MigrationTypeOK, Addr
  <2>2. /\ Len(open_files') = Len(open_files)
        /\ \A i \in DOMAIN open_files :
              /\ open_files'[i].guest_fd = open_files[i].guest_fd
              /\ open_files'[i].host_fd = open_files[i].host_fd
              /\ open_files'[i].flags = open_files[i].flags
              /\ open_files'[i].path = open_files[i].path
    BY <1>5, <2>1, NoteWriteType
  <2> QED
    BY <2>1, <2>2 DEF OpenAs
<1>12. FileOpen(text \o data, Len(text \o data))'
  <2>1. held' = [m \in {g} |-> AppFile] /\ g \in DOMAIN held' /\ g \notin StdFd
    BY <1>9 DEF OpenAs
  <2>2. AppDescriptor(h, Len(text \o data))' /\ h \in DOMAIN fds'
    BY <1>6, <1>7
  <2> QED
    BY <1>10, <1>11, <2>1, <2>2 DEF FileOpen
<1>13. Len(text) + n <= MaxFileLen
  <2>1. fds[h].node \in Path /\ WritePos(h) = Len(text)
    BY <1>3, MachineAssumption DEF WritePos, AppDescriptor
  <2> QED
    BY <1>1, <1>4, <2>1 DEF SysWrite
<1> QED
  BY <1>5, <1>6, <1>8, <1>9, <1>12, <1>13

(* The progress with each call.                                            *)
LEMMA ProgressOf ==
  /\ \A n \in Int : n < 3 =>
       (Progress(n) <=> /\ open_files = <<>> /\ held = NoDescriptors
                        /\ fds = ProcessFds(VmmFds \cup LoaderFds))
  /\ Progress(3) <=> /\ FileOpen(<<>>, 0) /\ Noted(open_files, 0, 0)
                     /\ open_files[1].host_fd = open_files[1].guest_fd
  /\ \A n \in {4, 5} : Progress(n) <=>
       /\ FileOpen(Hello, Len(Hello)) /\ FileHolds(Hello)
       /\ Noted(open_files, 1, Len(Hello))
  /\ \A n \in {6, 7} : Progress(n) <=>
       FileOpen(Output, Len(Output)) /\ FileHolds(Output)
  /\ \A n \in 8..10 : Progress(n) <=> held = NoDescriptors /\ FileHolds(Output)
<1>1. \A n \in Int : n < 3 => n # 3 /\ n \notin {4, 5} /\ n \notin {6, 7} /\ ~ (n >= 8)
  OBVIOUS
<1>2. \A n \in 8..10 : /\ ~ (n < 3) /\ n # 3 /\ n \notin {4, 5} /\ n \notin {6, 7}
                       /\ n >= 8
  OBVIOUS
<1>3. \A n \in {4, 5} : ~ (n < 3) /\ n # 3 /\ n \notin {6, 7} /\ ~ (n >= 8)
  OBVIOUS
<1>4. \A n \in {6, 7} : ~ (n < 3) /\ n # 3 /\ n \notin {4, 5} /\ ~ (n >= 8)
  OBVIOUS
<1>5. ~ (3 < 3) /\ 3 \notin {4, 5} /\ 3 \notin {6, 7} /\ ~ (3 >= 8)
  OBVIOUS
<1> QED
  BY <1>1, <1>2, <1>3, <1>4, <1>5, Zenon DEF Progress

Answered(n) ==
  /\ Progress(n)' /\ rax' \notin EffectiveCall
  /\ vmm' = "running" /\ mem' = mem /\ StdoutStays'

LEMMA OpenAnswered ==
  ASSUME MigrationTypeOK, StdoutStays, Progress(2), GuestOpen(AppFile, {"CREAT"})
  PROVE  Answered(3)
<1>1. /\ open_files = <<>> /\ held = NoDescriptors /\ DOMAIN held = {}
      /\ fds = ProcessFds(VmmFds \cup LoaderFds)
  BY DEF NoDescriptors, Progress
<1>2. DOMAIN fds = LauncherFds
  BY <1>1 DEF ProcessFds, LauncherFds
<1>3. PICK q \in Fd \ LauncherFds : /\ q \notin EffectiveCall
                                    /\ \A f \in Fd \ LauncherFds : q <= f
  BY AnswersAssumption
<1>4. MayOpen(AppFile, {"CREAT"})
  BY <1>2, <1>3 DEF MayOpen
<1>5. TableHasRoom
  BY <1>1, AnswersAssumption DEF TableHasRoom
<1>6. PICK r \in Fd \cup {-1} :
        /\ KOpen(AppFile, {"CREAT"}, r)
        /\ open_files' = Append(open_files,
             [guest_fd |-> r, host_fd |-> r, flags |-> {"CREAT"},
              start_addr |-> 0, offset |-> 0, path |-> AppFile])
        /\ held' = IF r = -1 THEN held
                   ELSE [f \in DOMAIN held \cup {r} |->
                           IF f = r THEN AppFile ELSE held[f]]
        /\ rax' = r
  BY <1>5 DEF GuestOpen, SysOpen
<1>7. /\ IsLowestFree(r)
      /\ fds' = [f \in DOMAIN fds \cup {r} |->
                   IF f = r THEN [node |-> AppFile, pos |-> 0, flags |-> {"CREAT"}]
                            ELSE fds[f]]
  BY <1>4, <1>6 DEF KOpen
<1>8. r = q
  <2>1. r \in Fd \ LauncherFds /\ r <= q /\ q <= r
    BY <1>2, <1>3, <1>7 DEF IsLowestFree
  <2> QED
    BY <2>1, KernelAssumption DEF Fd
<1>9. r # -1 /\ r \notin StdFd /\ r \notin EffectiveCall /\ r # 1
  BY <1>3, <1>8, KernelAssumption DEF Fd, LauncherFds, StdFd
<1>10. held' = [n \in {r} |-> AppFile]
  BY <1>1, <1>6, <1>9
<1>11. sent' = [n \in {r} |-> <<>>]
  <2>1. held' # held
    BY <1>1, <1>10
  <2> QED
    BY <1>6, <1>10, <2>1 DEF GuestOpen
<1>12. /\ Len(open_files') = 1
       /\ open_files'[1] = [guest_fd |-> r, host_fd |-> r, flags |-> {"CREAT"},
                            start_addr |-> 0, offset |-> 0, path |-> AppFile]
  BY <1>1, <1>6
<1>13. /\ r \in DOMAIN fds' /\ AppDescriptor(r, 0)' /\ StdoutStays'
  BY <1>7, <1>9 DEF AppDescriptor, StdoutStays
<1>14. FileOpen(<<>>, 0)'
  BY <1>9, <1>10, <1>11, <1>12, <1>13 DEF FileOpen
<1>15. Progress(3)'
  BY <1>12, <1>14 DEF Noted, Progress
<1> QED
  BY <1>6, <1>9, <1>13, <1>15 DEF Answered, GuestOpen, SysOpen

LEMMA FirstLineAnswered ==
  ASSUME ~ DiskFaults, ~ ShortWrites, MigrationTypeOK, StdoutStays,
         mem = AppMemory, Progress(3), GuestWrite(fd, 1, Len(Hello))
  PROVE  Answered(4)
<1>1. /\ FileOpen(<<>>, 0) /\ Noted(open_files, 0, 0)
      /\ open_files[1].host_fd = open_files[1].guest_fd
  BY ProgressOf
<1>2. PICK g \in DOMAIN held \ StdFd, h \in DOMAIN fds : OpenAs(g, h, <<>>, 0)
  BY <1>1, FileOpenAs
<1>3. fd = g /\ h \in Fd /\ get_host_fd_from_guest_fd(g) = h
  BY <1>2, AppLookup
<1>4. FileHolds(<<>>)
  <2>1. fds[h].node = AppFile /\ AppFile \in Path
    BY <1>2, MachineAssumption DEF OpenAs, AppDescriptor
  <2> QED
    BY <2>1, HoldsNothing DEF MigrationTypeOK, KernelTypeOK
<1>5. PICK n \in Nat, a \in Addr :
        n = Len(Hello) /\ a = 1 /\ n \notin EffectiveCall
  <2>1. 1 \in Addr
    <3>1. Len(Bye) > 0
      BY MachineAssumption, EmptySeq
    <3> QED
      BY <3>1, LinesAreBytes DEF Addr
  <2> QED
    BY <2>1, LinesAreBytes, AnswersAssumption
<1>6. Buffer(a, n) = Hello /\ Hello \in Seq(Byte) /\ <<>> \o Hello = Hello
  BY <1>5, FirstBuffer, LinesAreBytes, ConcatEmptySeq
<1>7. PICK none \in Seq(Byte) : none = <<>> /\ Len(none) = 0 /\ none \o Hello = Hello
  <2>1. <<>> \in Seq(Byte) /\ Len(<<>>) = 0
    OBVIOUS
  <2> QED
    BY <1>6, <2>1
<1>8. /\ FileOpen(none \o Hello, Len(none \o Hello))' /\ FileHolds(none \o Hello)'
      /\ StdoutStays' /\ rax' = n /\ NoteWrite(h, a, n)
      /\ vmm' = "running" /\ mem' = mem
      /\ Len(none) + n <= MaxFileLen
  <2>1. OpenAs(g, h, none, Len(none)) /\ FileHolds(none)
    BY <1>2, <1>4, <1>7
  <2>2. GuestWrite(g, a, n)
    BY <1>3, <1>5
  <2> QED
    BY <1>5, <1>6, <2>1, <2>2, AppWrite
<1>9. Noted(open_files, 1, Len(Hello))'
  <2>1. /\ open_files[1].guest_fd = h /\ Len(open_files) = 1
        /\ open_files[1].start_addr = 0 /\ open_files[1].offset = 0
    BY <1>1, <1>2 DEF OpenAs, Noted
  <2>2. Slots(h) = {1}
    BY <2>1 DEF Slots
  <2>3. FirstSlot(h) = 1
    BY <2>2 DEF FirstSlot
  <2>4. (0 + n) % OffsetMod = n
    <3>1. n \in 0..(OffsetMod - 1) /\ OffsetMod \in Nat
      BY <1>7, <1>8, HandlerAssumption
    <3> QED
      BY <3>1, SmallMod
  <2>5. open_files \in Seq(GuestFile) /\ open_files[1] \in GuestFile /\ 1 \in DOMAIN open_files
    <3>1. open_files \in Seq(GuestFile) /\ DOMAIN open_files = 1..Len(open_files)
      BY DEF MigrationTypeOK
    <3>2. 1 \in 1..Len(open_files)
      BY <2>1
    <3> QED
      BY <3>1, <3>2, ElementOfSeq
  <2>6. open_files' = [open_files EXCEPT ![1] =
          [open_files[1] EXCEPT !.start_addr = 1, !.offset = n]]
    BY <1>5, <1>8, <2>1, <2>2, <2>3, <2>4 DEF NoteWrite
  <2>7. open_files'[1] = [open_files[1] EXCEPT !.start_addr = 1, !.offset = n]
    BY <2>5, <2>6
  <2> QED
    BY <1>5, <2>5, <2>7 DEF Noted, GuestFile
<1>10. FileOpen(Hello, Len(Hello))' /\ FileHolds(Hello)'
  BY <1>7, <1>8
<1>11. Progress(4)'
  BY <1>9, <1>10 DEF Progress
<1> QED
  BY <1>5, <1>8, <1>11 DEF Answered

LEMMA SecondLineAnswered ==
  ASSUME ~ DiskFaults, ~ ShortWrites, MigrationTypeOK, StdoutStays,
         mem = AppMemory, Progress(5), GuestWrite(fd, 1 + Len(Hello), Len(Bye))
  PROVE  Answered(6)
<1>1. FileOpen(Hello, Len(Hello)) /\ FileHolds(Hello)
  BY ProgressOf
<1>2. PICK g \in DOMAIN held \ StdFd, h \in DOMAIN fds : OpenAs(g, h, Hello, Len(Hello))
  BY <1>1, FileOpenAs
<1>3. fd = g /\ h \in Fd
  BY <1>2, AppLookup
<1>4. PICK n \in Nat, a \in Addr :
        n = Len(Bye) /\ a = 1 + Len(Hello) /\ n \notin EffectiveCall
  <2>1. Len(Bye) > 0
    BY MachineAssumption, EmptySeq
  <2>2. 1 + Len(Hello) \in Addr
    BY <2>1, LinesAreBytes DEF Addr
  <2> QED
    BY <2>2, LinesAreBytes, AnswersAssumption
<1>5. Buffer(a, n) = Bye /\ Bye \in Seq(Byte) /\ Hello \in Seq(Byte)
  BY <1>4, SecondBuffer, LinesAreBytes
<1>6. /\ FileOpen(Hello \o Bye, Len(Hello \o Bye))' /\ FileHolds(Hello \o Bye)'
      /\ StdoutStays' /\ rax' = n /\ vmm' = "running" /\ mem' = mem
  BY <1>1, <1>2, <1>3, <1>4, <1>5, AppWrite
<1>7. Progress(6)'
  BY <1>6 DEF Output, Progress
<1> QED
  BY <1>4, <1>6, <1>7 DEF Answered

LEMMA StdoutAnswered ==
  ASSUME MigrationTypeOK, StdoutStays, Progress(6), GuestWrite(1, 0, MemSize)
  PROVE  Answered(7)
<1>1. FileOpen(Output, Len(Output)) /\ FileHolds(Output)
  BY ProgressOf
<1>2. PICK g \in DOMAIN held \ StdFd, h \in DOMAIN fds : OpenAs(g, h, Output, Len(Output))
  BY <1>1, FileOpenAs
<1>3. get_host_fd_from_guest_fd(1) = 1 /\ SysWrite(1, 0, MemSize)
  BY DEF get_host_fd_from_guest_fd, StdFd, GuestWrite
<1>4. PICK r \in -1..MemSize : /\ KWrite(1, Buffer(0, MemSize), r)
                               /\ NoteWrite(1, 0, r) /\ rax' = r
  BY <1>3 DEF SysWrite
<1>5. KWriteTty(1, Buffer(0, MemSize), r)
  BY <1>4, KernelAssumption
  DEF KWrite, KWriteFile, KWriteFails, StdoutStays
<1>6. Len(Buffer(0, MemSize)) = MemSize
  <2>1. 0 \in Addr /\ MemSize \in Nat /\ 0 + MemSize <= MemSize
    BY LinesAreBytes DEF Addr
  <2> QED
    BY <2>1, BufferType DEF MigrationTypeOK
<1>7. rax' = MemSize /\ UNCHANGED <<fds, disk>>
  BY <1>4, <1>5, <1>6 DEF KWriteTty
<1>8. g # 1 /\ DOMAIN held = {g}
  BY <1>2 DEF OpenAs, StdFd
<1>9. Slots(1) = {}
  BY <1>2, <1>8 DEF Slots, OpenAs
<1>10. UNCHANGED <<open_files, held, sent, mem>> /\ vmm' = "running"
  BY <1>3, <1>4, <1>8, <1>9 DEF NoteWrite, GuestWrite, SysWrite
<1>11. Progress(7)'
  <2>1. FileOpen(Output, Len(Output))' /\ FileHolds(Output)'
    BY <1>1, <1>7, <1>10 DEF FileOpen, FileHolds, AppDescriptor
  <2> QED
    BY <2>1 DEF Progress
<1> QED
  BY <1>7, <1>10, <1>11, AnswersAssumption DEF Answered, StdoutStays

LEMMA CloseAnswered ==
  ASSUME MigrationTypeOK, StdoutStays, Progress(7), GuestClose(fd)
  PROVE  Answered(8)
<1>1. FileOpen(Output, Len(Output)) /\ FileHolds(Output)
  BY ProgressOf
<1>2. PICK g \in DOMAIN held \ StdFd, h \in DOMAIN fds : OpenAs(g, h, Output, Len(Output))
  BY <1>1, FileOpenAs
<1>3. /\ fd = g /\ DOMAIN held = {g} /\ h \in Fd
      /\ get_host_fd_from_guest_fd(g) = h
  BY <1>2, AppLookup
<1>4. ~ (h < 0) /\ h # 1
  BY <1>2, <1>3, MachineAssumption, KernelAssumption
  DEF Fd, StdoutStays, OpenAs, AppDescriptor
<1>5. /\ KClose(h, 0) /\ rax' = 0 /\ UNCHANGED mem /\ vmm' = "running"
      /\ held' = [f \in DOMAIN held \ {g} |-> held[f]]
  BY <1>3, <1>4 DEF GuestClose, SysClose, KClose
<1>6. held' = NoDescriptors
  BY <1>3, <1>5 DEF NoDescriptors
<1>7. disk' = disk /\ StdoutStays'
  BY <1>4, <1>5 DEF KClose, StdoutStays
<1>8. Progress(8)'
  <2>1. FileHolds(Output)'
    BY <1>1, <1>7 DEF FileHolds
  <2> QED
    BY <1>6, <2>1 DEF Progress
<1>9. 0 \notin EffectiveCall
  BY DEF EffectiveCall, SAVE
<1> QED
  BY <1>5, <1>7, <1>8, <1>9 DEF Answered

-----------------------------------------------------------------------------
(* AppInv, action by action.  Several leave all that it speaks of, or end  *)
(* the process.                                                            *)
LEMMA SavedStays ==
  ASSUME SavedApp, UNCHANGED <<image, guest_image>>,
         vmm' \notin {"saving", "writing"}
  PROVE  SavedApp'
BY DEF SavedApp, SavedByApp, Noted, AtSave

LEMMA ProcessEndsWell ==
  ASSUME AppInv, UNCHANGED <<image, guest_image>>, vmm' \in {"exited", "undefined"}
  PROVE  AppInv'
<1>1. SavedApp'
  BY SavedStays DEF AppInv
<1> QED
  BY <1>1 DEF AppInv, RunningApp, ReopenedApp, StdoutIsTty

LEMMA ProgressStays ==
  ASSUME UNCHANGED <<fds, disk, open_files, held, sent>>
  PROVE  \A n : Progress(n) => Progress(n)'
<1>1. \A text : FileHolds(text) => FileHolds(text)'
  BY DEF FileHolds
<1>2. \A text, pos : FileOpen(text, pos) => FileOpen(text, pos)'
  <2> SUFFICES ASSUME NEW text, NEW pos, FileOpen(text, pos)
               PROVE  FileOpen(text, pos)'
    OBVIOUS
  <2>1. PICK g \in DOMAIN held \ StdFd, h \in DOMAIN fds :
          OpenAs(g, h, text, pos)
    BY FileOpenAs
  <2>2. OpenAs(g, h, text, pos)' /\ g \in DOMAIN held' \ StdFd /\ h \in DOMAIN fds'
    BY <2>1 DEF OpenAs, AppDescriptor
  <2> QED
    BY <2>2 DEF FileOpen, OpenAs
<1>3. \A start, n : Noted(open_files, start, n) => Noted(open_files, start, n)'
  BY DEF Noted
<1> QED
  BY <1>1, <1>2, <1>3 DEF Progress

LEMMA ApplicationWaits ==
  ASSUME AppInv, UNCHANGED <<migrationVars, guest, guest_image, in_guest, exit_reason>>
  PROVE  AppInv'
<1>1. UNCHANGED <<fds, disk, open_files, rax, mem, held, vmm, image, sent>>
  BY DEF migrationVars
<1>2. RunningApp'
  <2>1. \A n : Progress(n) => Progress(n)'
    BY <1>1, ProgressStays
  <2>2. (CallPending <=> CallPending') /\ CallsServed' = CallsServed
    BY <1>1 DEF CallPending, CallsServed, LastCall
  <2>3. RaxIsAnswer => RaxIsAnswer'
    BY <1>1 DEF RaxIsAnswer, LastCall
  <2> QED
    BY <1>1, <2>1, <2>2, <2>3 DEF AppInv, RunningApp
<1>3. SavedApp'
  BY <1>1 DEF AppInv, SavedApp, SavedByApp, Noted, AtSave, Dump
<1>4. ReopenedApp'
  BY <1>1 DEF AppInv, ReopenedApp, FileOpen, FileHolds, Noted, AppDescriptor, AtSave
<1> QED
  BY <1>1, <1>2, <1>3, <1>4 DEF AppInv, StdoutIsTty

(* Where the guest is in app.c when its vCPU has halted.                   *)
LEMMA AtCall ==
  ASSUME MachineInv, exit_reason = "HLT"
  PROVE  \E i \in 1..10 : /\ guest.rip = 15 + i /\ Len(boot) = 15
                          /\ LastCall = app[i]
<1>1. /\ guest.rip \in 0..25 /\ guest.rip > 15 /\ Len(boot) = 15
  BY RipRange, BootLength DEF MachineInv, MachineTypeOK, CallsAreMade
<1>2. PICK i \in 1..10 : i = guest.rip - 15
  BY <1>1
<1> QED
  BY <1>1, <1>2 DEF LastCall

(* The calls without effect lie where nothing happens to the file.         *)
LEMMA SameProgress ==
  ASSUME NEW i \in {1, 2, 5, 9, 10}
  PROVE  Progress(i - 1) <=> Progress(i)
<1>1. (Progress(0) <=> Progress(1)) /\ (Progress(1) <=> Progress(2))
  BY DEF Progress
<1>2. Progress(4) <=> Progress(5)
  BY DEF Progress
<1>3. (Progress(8) <=> Progress(9)) /\ (Progress(9) <=> Progress(10))
  BY DEF Progress
<1> QED
  BY <1>1, <1>2, <1>3

(* A call is served: the guest has its answer and goes on, ...             *)
LEMMA CallAnswered ==
  ASSUME MachineInv, AppInv, NEW i \in 1..10, guest.rip = 15 + i,
         exit_reason = "HLT", in_guest', UNCHANGED <<guest, exit_reason, image, guest_image>>,
         Answered(i), mem = AppMemory
  PROVE  AppInv'
<1>1. Len(boot) = 15
  BY BootLength
<1>2. CallsServed' = i /\ ~ CallPending'
  BY <1>1 DEF CallsServed, CallPending
<1>3. RunningApp'
  BY <1>2 DEF RunningApp, Answered, RaxIsAnswer
<1>4. SavedApp'
  BY SavedStays DEF AppInv, Answered
<1> QED
  BY <1>3, <1>4 DEF AppInv, ReopenedApp, StdoutIsTty, StdoutStays, Answered

LEMMA IgnoredAnswered ==
  ASSUME SysIgnored(rax), UNCHANGED sent, rax \notin EffectiveCall, StdoutStays,
         NEW n, Progress(n)
  PROVE  Answered(n)
<1>1. /\ UNCHANGED <<fds, disk, open_files, mem, held>> /\ rax' = rax
      /\ vmm' = "running"
  BY DEF SysIgnored
<1>2. Progress(n)'
  BY <1>1, ProgressStays
<1> QED
  BY <1>1, <1>2 DEF Answered, StdoutStays

(* ... or the state between its two lines is saved.                        *)
LEMMA SaveBegins ==
  ASSUME MachineInv, AppInv, SysSave, Progress(4), mem = AppMemory, vmm' = "saving",
         guest.rip = 20, UNCHANGED <<guest, guest_image>>
  PROVE  AppInv'
<1>1. /\ rax' = SAVE /\ vmm = "running"
      /\ UNCHANGED <<fds, disk, open_files, mem, held, image, sent, restores>>
  BY DEF SysSave
<1>2. FileOpen(Hello, Len(Hello)) /\ Noted(open_files, 1, Len(Hello))
  BY ProgressOf
<1>3. PICK g \in DOMAIN held \ StdFd, h \in DOMAIN fds : OpenAs(g, h, Hello, Len(Hello))
  BY <1>2, FileOpenAs
<1>4. SavedByApp(Dump)'
  BY <1>1, <1>2, <1>3 DEF SavedByApp, Dump, OpenAs, Noted
<1>5. image \notin {NoImage, Torn} => guest_image.rip = AtSave /\ SavedByApp(image)
  BY DEF AppInv, SavedApp
<1>6. SavedApp'
  <2>1. guest.rip = AtSave
    BY BootLength DEF AtSave
  <2>2. AtSave' = AtSave /\ SavedByApp(image)' = SavedByApp(image)
    BY <1>1 DEF AtSave, SavedByApp, Noted
  <2> QED
    BY <1>1, <1>4, <1>5, <2>1, <2>2 DEF SavedApp
<1> QED
  BY <1>1, <1>6 DEF AppInv, RunningApp, ReopenedApp, StdoutIsTty

LEMMA PendingCallServed ==
  ASSUME ~ DiskFaults, ~ ShortWrites, MachineInv, AppInv, HandleHlt, CallPending,
         NEW i \in 1..10, guest.rip = 15 + i, LastCall = app[i],
         Progress(i - 1), mem = AppMemory
  PROVE  \/ Answered(i)
         \/ vmm' = "exited"
         \/ i = 5 /\ SysSave /\ vmm' \in {"running", "saving"}
<1>1. MigrationTypeOK /\ StdoutStays /\ Serve /\ rax = app[i].nr
  BY DEF MachineInv, MachineTypeOK, HandleHlt, CallPending, AppInv, StdoutIsTty,
         StdoutStays
<1>2. SAVE = 400
  BY DEF SAVE
<1>3. CASE i \in {1, 2, 9}
  <2>1. rax \in {158, 218, 231}
    BY <1>1, <1>3, AppNumbers
  <2>2. SysIgnored(rax) /\ UNCHANGED sent
    BY <1>1, <1>2, <2>1 DEF Serve
  <2>3. Progress(i) /\ rax \notin EffectiveCall
    BY <1>2, <1>3, <2>1, SameProgress DEF EffectiveCall
  <2> QED
    BY <1>1, <2>2, <2>3, IgnoredAnswered
<1>4. CASE i = 3
  <2>1. GuestOpen(AppFile, {"CREAT"})
    BY <1>1, <1>2, <1>4, AppNumbers DEF Serve
  <2>2. Progress(2)
    BY <1>4
  <2> QED
    BY <1>1, <1>4, <2>1, <2>2, OpenAnswered
<1>5. CASE i = 4
  <2>1. GuestWrite(fd, 1, Len(Hello))
    BY <1>1, <1>2, <1>5, AppNumbers, AppArguments DEF Serve
  <2>2. Progress(3)
    BY <1>5
  <2> QED
    BY <1>1, <1>5, <2>1, <2>2, FirstLineAnswered
<1>6. CASE i = 5
  <2>1. SysSave
    BY <1>1, <1>2, <1>6, AppNumbers DEF Serve
  <2> QED
    BY <1>6, <2>1 DEF SysSave
<1>7. CASE i = 6
  <2>1. GuestWrite(fd, 1 + Len(Hello), Len(Bye))
    BY <1>1, <1>2, <1>7, AppNumbers, AppArguments DEF Serve
  <2>2. Progress(5)
    BY <1>7
  <2> QED
    BY <1>1, <1>7, <2>1, <2>2, SecondLineAnswered
<1>8. CASE i = 7
  <2>1. GuestWrite(1, 0, MemSize)
    BY <1>1, <1>2, <1>8, AppNumbers, AppArguments DEF Serve
  <2>2. Progress(6)
    BY <1>8
  <2> QED
    BY <1>1, <1>8, <2>1, <2>2, StdoutAnswered
<1>9. CASE i = 8
  <2>1. GuestClose(fd)
    BY <1>1, <1>2, <1>9, AppNumbers DEF Serve
  <2>2. Progress(7)
    BY <1>9
  <2> QED
    BY <1>1, <1>9, <2>1, <2>2, CloseAnswered
<1>10. CASE i = 10
  <2>1. GuestExit
    BY <1>1, <1>2, <1>10, AppNumbers DEF Serve
  <2> QED
    BY <2>1 DEF GuestExit, MigrationProcessEnds, ProcessEnds
<1> QED
  BY <1>3, <1>4, <1>5, <1>6, <1>7, <1>8, <1>9, <1>10

LEMMA AnswerIsNoCall ==
  ASSUME MachineInv, AppInv, HandleHlt, ~ CallPending,
         NEW i \in 1..10, Progress(i)
  PROVE  Answered(i)
<1>1. /\ StdoutStays /\ Serve /\ vmm = "running" /\ exit_reason = "HLT"
      /\ ~ in_guest
  BY DEF HandleHlt, AppInv, StdoutIsTty, StdoutStays
<1>2. RaxIsAnswer /\ rax # LastCall.nr
  BY <1>1 DEF CallPending, AppInv, RunningApp
<1>3. rax \notin EffectiveCall
  BY <1>2 DEF RaxIsAnswer
<1>4. SysIgnored(rax) /\ UNCHANGED sent
  BY <1>1, <1>3 DEF Serve, EffectiveCall
<1> QED
  BY <1>1, <1>3, <1>4, IgnoredAnswered

(* SAVE is answered, without a dump, in a VM that was just restored.       *)
LEMMA SaveSkipped ==
  ASSUME MachineInv, AppInv, SysSave, Progress(4), mem = AppMemory, vmm' = "running",
         exit_reason = "HLT", guest.rip = 20, in_guest', LastCall = app[5],
         UNCHANGED <<guest, guest_image, exit_reason>>
  PROVE  AppInv'
<1>1. /\ rax' = SAVE /\ vmm = "running"
      /\ UNCHANGED <<fds, disk, open_files, mem, held, image, sent, restores>>
  BY DEF SysSave
<1>2. CallsServed' = 5 /\ ~ CallPending'
  BY BootLength DEF CallsServed, CallPending
<1>3. Progress(5)'
  <2>1. Progress(5)
    BY ProgressOf
  <2> QED
    BY <1>1, <2>1, ProgressStays
<1>4. RaxIsAnswer'
  <2>1. LastCall' = LastCall
    BY DEF LastCall
  <2> QED
    BY <1>1, <2>1, AppNumbers DEF RaxIsAnswer
<1>5. RunningApp'
  BY <1>1, <1>2, <1>3, <1>4 DEF RunningApp
<1>6. SavedApp'
  BY <1>1, SavedStays DEF AppInv
<1> QED
  BY <1>1, <1>5, <1>6 DEF AppInv, ReopenedApp, StdoutIsTty

LEMMA HandleHltKeepsApp ==
  ASSUME ~ DiskFaults, ~ ShortWrites, MachineInv, AppInv, HandleHlt
  PROVE  AppInv'
<1>1. /\ vmm = "running" /\ ~ in_guest /\ exit_reason = "HLT" /\ Serve
      /\ IF vmm' = "exited" THEN MachineGone
         ELSE /\ in_guest' = (vmm' = "running")
              /\ UNCHANGED <<launcher, guest, exit_reason>>
      /\ UNCHANGED guest_image
  BY DEF HandleHlt
<1>2. UNCHANGED image
  BY <1>1, ServeEnds
<1>3. PICK i \in 1..10 : guest.rip = 15 + i /\ Len(boot) = 15 /\ LastCall = app[i]
  BY <1>1, AtCall
<1>4. mem = AppMemory /\ Progress(CallsServed)
  BY <1>1 DEF AppInv, RunningApp
<1>5. CASE Answered(i)
  <2>1. vmm' = "running"
    BY <1>5 DEF Answered
  <2> QED
    BY <1>1, <1>2, <1>3, <1>4, <1>5, <2>1, CallAnswered
<1>6. CASE vmm' = "exited"
  BY <1>1, <1>2, <1>6, ProcessEndsWell
<1>7. CASE CallPending /\ i = 5 /\ SysSave /\ vmm' \in {"running", "saving"}
  <2>1. CallsServed = 4 /\ guest.rip = 20
    BY <1>3, <1>7 DEF CallsServed
  <2>2. Progress(4)
    BY <1>4, <2>1
  <2>3. CASE vmm' = "running"
    BY <1>1, <1>3, <1>4, <1>7, <2>1, <2>2, <2>3, SaveSkipped
  <2>4. CASE vmm' = "saving"
    BY <1>1, <1>4, <1>7, <2>1, <2>2, <2>4, SaveBegins
  <2> QED
    BY <1>7, <2>3, <2>4
<1>8. CASE CallPending
  <2>1. CallsServed = i - 1
    BY <1>3, <1>8 DEF CallsServed
  <2>2. Progress(i - 1)
    BY <1>4, <2>1
  <2>3. \/ Answered(i)
        \/ vmm' = "exited"
        \/ i = 5 /\ SysSave /\ vmm' \in {"running", "saving"}
    BY <1>3, <1>4, <1>8, <2>2, PendingCallServed
  <2> QED
    BY <1>5, <1>6, <1>7, <1>8, <2>3
<1>9. CASE ~ CallPending
  <2>1. CallsServed = i
    BY <1>3, <1>9 DEF CallsServed
  <2>2. Progress(i)
    BY <1>4, <2>1
  <2> QED
    BY <1>5, <1>9, <2>2, AnswerIsNoCall
<1> QED
  BY <1>8, <1>9

(* The vCPU, on which the file does not depend: through boot.asm, ...      *)
LEMMA GuestBootsKeepsApp ==
  ASSUME MachineInv, AppInv, GuestBoots
  PROVE  AppInv'
<1>1. /\ in_guest /\ vmm = "running" /\ guest \in Vcpu /\ guest.rip < 15
      /\ guest' = [guest EXCEPT !.rip = @ + 1,
                                !.has = @ \cup {boot[guest.rip + 1].gives}]
      /\ UNCHANGED <<fds, disk, open_files, rax, mem, held, vmm, image, sent>>
      /\ UNCHANGED <<guest_image, in_guest, exit_reason>>
  BY BootLength
  DEF GuestBoots, InBoot, migrationVars, MachineInv, MachineTypeOK
<1>2. PICK k \in 0..14 : guest.rip = k /\ guest'.rip = k + 1 /\ Len(boot) = 15
  <2>1. guest.rip \in 0..25
    BY <1>1, RipRange
  <2>2. guest'.rip = guest.rip + 1
    BY <1>1 DEF Vcpu
  <2> QED
    BY <1>1, <2>1, <2>2, BootLength
<1>3. exit_reason # "HLT"
  <2>1. ~ (guest.rip > Len(boot))
    BY <1>2
  <2> QED
    BY <2>1 DEF MachineInv, CallsAreMade
<1>4. CallsServed = k - 15 /\ CallsServed' = k + 1 - 15
  BY <1>1, <1>2 DEF CallsServed, CallPending
<1>5. Progress(CallsServed)'
  <2>1. CallsServed < 3 /\ CallsServed' < 3
    BY <1>4
  <2>2. Progress(CallsServed)
    BY <1>1 DEF AppInv, RunningApp
  <2>3. /\ open_files = <<>> /\ held = NoDescriptors
        /\ fds = ProcessFds(VmmFds \cup LoaderFds)
    BY <2>1, <2>2 DEF Progress
  <2>4. PICK n \in Int : n = CallsServed' /\ n < 3
    BY <1>4, <2>1
  <2>5. n # 3 /\ n \notin {4, 5} /\ n \notin {6, 7} /\ ~ (n >= 8)
    BY <2>4
  <2> QED
    BY <1>1, <2>3, <2>4, <2>5, Zenon DEF Progress
<1>6. RunningApp'
  BY <1>1, <1>3, <1>5 DEF AppInv, RunningApp
<1>7. SavedApp'
  BY <1>1, SavedStays DEF AppInv
<1> QED
  BY <1>1, <1>6, <1>7 DEF AppInv, ReopenedApp, StdoutIsTty

(* ... to its next call, ...                                               *)
LEMMA GuestHaltsKeepsApp ==
  ASSUME MachineInv, AppInv, GuestHalts
  PROVE  AppInv'
<1>1. /\ in_guest /\ ~ in_guest' /\ exit_reason' = "HLT"
      /\ vmm = "running" /\ vmm' = "running" /\ ~ InBoot
      /\ UNCHANGED <<fds, disk, open_files, mem, held, image, sent, guest_image>>
  BY DEF GuestHalts, Returns, MachineInv, MachineTypeOK
<1>2. guest \in Vcpu /\ Len(boot) = 15 /\ LastStep = 25
  <2>1. guest \in Vcpu
    BY DEF MachineInv, MachineTypeOK
  <2> QED
    BY <2>1, BootLength, AppLength DEF LastStep
<1>3. PICK k \in 15..25 : guest.rip = k /\ guest'.rip = IF k = 25 THEN k ELSE k + 1
  <2>1. guest.rip \in 15..25
    BY <1>1, <1>2, RipRange DEF InBoot
  <2>2. guest'.rip = IF guest.rip = LastStep THEN guest.rip ELSE guest.rip + 1
    BY <1>2 DEF GuestHalts, Vcpu
  <2> QED
    BY <1>2, <2>1, <2>2
<1>4. CallPending'
  BY <1>1 DEF GuestHalts, CallPending, LastCall
<1>5. CallsServed = k - 15 /\ CallsServed' = IF k = 25 THEN 9 ELSE k - 15
  BY <1>1, <1>2, <1>3, <1>4 DEF CallsServed, CallPending
<1>6. Progress(CallsServed')
  <2>1. Progress(k - 15)
    BY <1>1, <1>5 DEF AppInv, RunningApp
  <2>2. k = 25 => Progress(9)
    <3>1. PICK i \in {1, 2, 5, 9, 10} : i = 10 /\ i - 1 = 9
      OBVIOUS
    <3>2. k = 25 => k - 15 = i
      BY <3>1
    <3> QED
      BY <2>1, <3>1, <3>2, SameProgress
  <2> QED
    BY <1>5, <2>1, <2>2
<1>7. Progress(CallsServed)'
  <2>1. PICK n \in Int : n = CallsServed' /\ Progress(n)
    BY <1>5, <1>6
  <2>2. Progress(n)'
    BY <1>1, <2>1, ProgressStays
  <2> QED
    BY <2>1, <2>2 DEF Progress
<1>8. RunningApp'
  BY <1>1, <1>4, <1>7 DEF AppInv, RunningApp
<1>9. SavedApp'
  BY <1>1, SavedStays DEF AppInv
<1> QED
  BY <1>1, <1>8, <1>9 DEF AppInv, ReopenedApp, StdoutIsTty

(* ... and out of the guest without one.  An interrupted KVM_RUN whose     *)
(* last reason was hlt makes an answer a call that is still to be served.  *)
LEMMA ReturnsKeepsApp ==
  ASSUME MachineInv, AppInv, NEW reason, Returns(reason), UNCHANGED <<guest, rax>>,
         reason = "HLT" => exit_reason = "HLT"
  PROVE  AppInv'
<1>1. /\ in_guest /\ ~ in_guest' /\ exit_reason' = reason
      /\ vmm = "running" /\ vmm' = "running"
      /\ UNCHANGED <<fds, disk, open_files, mem, held, image, sent, guest_image>>
  BY DEF Returns, MachineInv, MachineTypeOK
<1>2. mem = AppMemory /\ (exit_reason = "HLT" => RaxIsAnswer) /\ Progress(CallsServed)
  BY <1>1 DEF AppInv, RunningApp, CallPending
<1>3. LastCall' = LastCall /\ (RaxIsAnswer => RaxIsAnswer')
  BY DEF LastCall, RaxIsAnswer
<1>4. CASE CallPending'
  <2>1. exit_reason = "HLT" /\ rax = LastCall.nr /\ RaxIsAnswer
    BY <1>1, <1>2, <1>3, <1>4 DEF CallPending
  <2>2. PICK i \in 1..10 : guest.rip = 15 + i /\ Len(boot) = 15 /\ LastCall = app[i]
    BY <2>1, AtCall
  <2>3. i \in {1, 2, 5, 9, 10}
    <3>1. rax \notin EffectiveCall \/ rax = SAVE
      BY <2>1 DEF RaxIsAnswer
    <3>2. rax = app[i].nr
      BY <2>1, <2>2
    <3> QED
      BY <3>1, <3>2, AppNumbers DEF EffectiveCall, SAVE
  <2>4. CallsServed = i /\ CallsServed' = i - 1
    BY <1>1, <1>4, <2>2 DEF CallsServed, CallPending
  <2>5. PICK n \in Int : n = i - 1 /\ Progress(n)
    BY <1>2, <2>3, <2>4, SameProgress
  <2>6. Progress(n)'
    BY <1>1, <2>5, ProgressStays
  <2>7. Progress(CallsServed)'
    BY <2>4, <2>5, <2>6 DEF Progress
  <2> QED
    BY <1>1, <1>2, <1>4, <2>7, SavedStays
    DEF AppInv, RunningApp, ReopenedApp, StdoutIsTty
<1>5. CASE ~ CallPending'
  <2>1. CallsServed' = CallsServed
    BY <1>1, <1>5 DEF CallsServed, CallPending
  <2>2. Progress(CallsServed)'
    BY <1>1, <1>2, <2>1, ProgressStays DEF Progress
  <2>3. exit_reason' = "HLT" => RaxIsAnswer'
    BY <1>1, <1>2, <1>3
  <2> QED
    BY <1>1, <1>2, <2>2, <2>3, SavedStays
    DEF AppInv, RunningApp, ReopenedApp, StdoutIsTty
<1> QED
  BY <1>4, <1>5

LEMMA ContinueKeepsApp ==
  ASSUME MachineInv, AppInv, HandleAndContinue
  PROVE  AppInv'
<1>1. /\ vmm = "running" /\ exit_reason # "HLT"
      /\ UNCHANGED <<fds, disk, open_files, rax, mem, held, vmm, image, sent>>
      /\ UNCHANGED <<guest, guest_image, exit_reason>>
  BY DEF HandleAndContinue, migrationVars
<1>2. CallsServed' = CallsServed
  BY <1>1 DEF CallsServed, CallPending
<1>3. Progress(CallsServed)'
  BY <1>1, <1>2, ProgressStays DEF AppInv, RunningApp, Progress
<1> QED
  BY <1>1, <1>3, SavedStays
  DEF AppInv, RunningApp, ReopenedApp, StdoutIsTty

(* A launched VM has nothing open, ...                                     *)
LEMMA LaunchKeepsApp ==
  ASSUME MachineInv, AppInv, Launch
  PROVE  AppInv'
<1>1. /\ vmm = "exited" /\ vmm' = "running" /\ mem' = AppMemory /\ in_guest'
      /\ fds' = ProcessFds(VmmFds \cup LoaderFds) /\ guest'.rip = 0
      /\ UNCHANGED <<open_files, held, image, guest_image, exit_reason>>
  BY DEF Launch
<1>2. open_files = <<>> /\ held = NoDescriptors
  BY <1>1 DEF MachineInv, MigrationInv, EndedIsEmpty
<1>3. exit_reason' = "UNKNOWN"
  BY <1>1, TypedMachine
<1>4. PICK n \in Int : n = CallsServed' /\ n < 3
  BY <1>1, BootLength DEF CallsServed, CallPending
<1>5. n # 3 /\ n \notin {4, 5} /\ n \notin {6, 7} /\ ~ (n >= 8)
  BY <1>4
<1>6. Progress(CallsServed)'
  BY <1>1, <1>2, <1>4, <1>5, Zenon DEF Progress
<1>7. StdoutIsTty'
  BY <1>1, HandlerAssumption DEF StdoutIsTty, ProcessFds, StdFd
<1>8. RunningApp'
  BY <1>1, <1>3, <1>6 DEF RunningApp
<1>9. SavedApp'
  BY <1>1, SavedStays DEF AppInv
<1> QED
  BY <1>1, <1>7, <1>8, <1>9 DEF AppInv, ReopenedApp

(* ... and so has one that is restored, until its loop opens the one file  *)
(* of the image, ...                                                       *)
LEMMA LoadImageKeepsApp ==
  ASSUME MachineInv, AppInv, LoadImage
  PROVE  AppInv'
<1>1. /\ vmm = "exited" /\ fds' = ProcessFds(VmmFds)
      /\ IF image \in {NoImage, Torn} THEN vmm' = "undefined"
         ELSE /\ vmm' = "reopening" /\ mem' = image.mem
              /\ held' = image.held /\ sent' = image.sent
      /\ UNCHANGED <<open_files, image, guest_image>>
  BY DEF LoadImage, RestoreStart
<1>2. CASE image \in {NoImage, Torn}
  BY <1>1, <1>2, ProcessEndsWell
<1>3. CASE image \notin {NoImage, Torn}
  <2>1. guest_image.rip = AtSave /\ SavedByApp(image)
    BY <1>3 DEF AppInv, SavedApp
  <2>2. guest'.rip = AtSave
    <3>1. PICK refused \in SUBSET {"sregs", "msrs"} : guest' = RestoredVm(refused)
      BY DEF LoadImage
    <3>2. /\ guest_image \in Vcpu /\ guest_image.rip > Len(boot)
          /\ SetUp(guest_image)
      BY <1>3 DEF MachineInv, MachineTypeOK, CallsAreMade
    <3>3. RestoredVm(refused).rip = guest_image.rip
      BY <3>2, RestoredIsSetUp
    <3> QED
      BY <2>1, <3>1, <3>3, Zenon
  <2>3. open_files' = <<>>
    BY <1>1 DEF MachineInv, MigrationInv, EndedIsEmpty
  <2>4. ReopenedApp'
    <3>1. mem' = AppMemory
      BY <1>1, <1>3, <2>1 DEF SavedByApp
    <3>2. AtSave' = AtSave
      BY DEF AtSave
    <3> QED
      BY <1>1, <1>3, <2>2, <2>3, <3>1, <3>2 DEF ReopenedApp
  <2>5. StdoutIsTty'
    BY <1>1, HandlerAssumption DEF StdoutIsTty, ProcessFds, StdFd
  <2>6. SavedApp'
    BY <1>1, <1>3, SavedStays DEF AppInv
  <2> QED
    BY <1>1, <1>3, <2>4, <2>5, <2>6 DEF AppInv, RunningApp
<1> QED
  BY <1>2, <1>3

LEMMA ReopenFileKeepsApp ==
  ASSUME MachineInv, AppInv, ReopenFile, UNCHANGED <<guest, guest_image>>
  PROVE  AppInv'
<1>1. /\ vmm = "reopening" /\ vmm' = "replaying"
      /\ Len(open_files) < Len(image.open_files)
      /\ UNCHANGED <<mem, held, image, sent>>
  BY DEF ReopenFile
<1>2. MigrationInv /\ open_files \in Seq(GuestFile) /\ image \notin {NoImage, Torn}
  BY <1>1
  DEF MachineInv, MigrationInv, MigrationTypeOK, RestoreFollowsImage
<1>3. /\ SavedByApp(image) /\ IsDump(image) /\ guest.rip = AtSave
      /\ mem = AppMemory /\ held = image.held /\ sent = image.sent
      /\ open_files = <<>> => fds = ProcessFds(VmmFds)
  BY <1>1, <1>2
  DEF AppInv, SavedApp, ReopenedApp, MigrationInv, ImageIsDump
<1>4. PICK g \in DOMAIN held \ StdFd :
        /\ held = [n \in {g} |-> AppFile] /\ sent = [n \in {g} |-> Hello]
        /\ image.open_files[1].guest_fd = g
  BY <1>3 DEF SavedByApp
<1>5. PICK e \in GuestFile :
        /\ e = image.open_files[1] /\ e.guest_fd = g /\ e.path = AppFile
        /\ e.flags = {"CREAT"} /\ e.start_addr = 1 /\ e.offset = Len(Hello)
  <2>1. image.open_files \in Seq(GuestFile) /\ Len(image.open_files) = 1
    BY <1>3 DEF SavedByApp, IsDump
  <2>2. image.open_files[1] \in GuestFile
    BY <2>1, ElementOfSeq
  <2> QED
    BY <1>3, <1>4, <2>2 DEF SavedByApp, Noted
<1>6. open_files = <<>> /\ Len(open_files) + 1 = 1
  <2>1. Len(open_files) = 0
    BY <1>1, <1>2, <1>3, LenProperties DEF SavedByApp
  <2> QED
    BY <1>2, <2>1, EmptySeq
<1>7. DOMAIN fds = StdFd \cup VmmFds /\ fds = ProcessFds(VmmFds)
  BY <1>3, <1>6 DEF ProcessFds
<1>8. PICK r \in Fd \cup {-1} :
        KOpen(AppFile, {"CREAT"}, r) /\ open_files' = <<ReopenedEntry(e, r)>>
  <2>1. image.open_files[Len(open_files) + 1] = e
    BY <1>5, <1>6
  <2>2. PICK r \in Fd \cup {-1} :
          /\ KOpen(e.path, e.flags, r)
          /\ open_files' = Append(open_files, ReopenedEntry(e, r))
    BY <2>1 DEF ReopenFile
  <2>3. Append(open_files, ReopenedEntry(e, r)) = <<ReopenedEntry(e, r)>>
    BY <1>6
  <2> QED
    BY <1>5, <2>2, <2>3
<1>9. MayOpen(AppFile, {"CREAT"})
  BY <1>7, AnswersAssumption DEF MayOpen, LauncherFds
<1>10. /\ r \in Fd \ DOMAIN fds
       /\ fds' = [f \in DOMAIN fds \cup {r} |->
                    IF f = r THEN [node |-> AppFile, pos |-> 0, flags |-> {"CREAT"}]
                             ELSE fds[f]]
  BY <1>8, <1>9 DEF KOpen, IsLowestFree
<1>11. r \in DOMAIN fds' /\ AppDescriptor(r, 0)'
  BY <1>10 DEF AppDescriptor
<1>12. StdoutIsTty'
  BY <1>1, <1>10 DEF AppInv, StdoutIsTty
<1>13. /\ Len(open_files') = 1 /\ open_files' # <<>>
       /\ open_files'[1].guest_fd = g /\ open_files'[1].host_fd = r
       /\ open_files'[1].path = AppFile /\ open_files'[1].flags = {"CREAT"}
       /\ open_files'[1].start_addr = 1 /\ open_files'[1].offset = Len(Hello)
  BY <1>5, <1>8 DEF ReopenedEntry, GuestFile
<1>14. FileOpen(Hello, 0)'
  BY <1>1, <1>4, <1>11, <1>13 DEF FileOpen
<1>15. ReopenedApp'
  <2>1. Noted(open_files, 1, Len(Hello))'
    BY <1>13 DEF Noted
  <2>2. AtSave' = AtSave
    BY DEF AtSave
  <2> QED
    BY <1>1, <1>3, <1>13, <1>14, <2>1, <2>2 DEF ReopenedApp
<1>16. SavedApp'
  BY <1>1, SavedStays DEF AppInv
<1> QED
  BY <1>1, <1>12, <1>15, <1>16 DEF AppInv, RunningApp

(* ... puts the first line where it was, ...                               *)
LEMMA ReplayFileKeepsApp ==
  ASSUME ~ DiskFaults, ~ ShortWrites, MachineInv, AppInv, ReplayFile,
         UNCHANGED <<guest, guest_image>>
  PROVE  AppInv'
<1>1. /\ vmm = "replaying" /\ vmm' = "reopening"
      /\ UNCHANGED <<open_files, mem, held, image, sent>>
  BY DEF ReplayFile
<1>2. MigrationTypeOK /\ KernelTypeOK /\ open_files # <<>>
  BY <1>1
  DEF MachineInv, MigrationInv, MigrationTypeOK, RestoreFollowsImage
<1>3. /\ guest.rip = AtSave /\ mem = AppMemory /\ held = image.held
      /\ sent = image.sent /\ FileOpen(Hello, 0)
      /\ Noted(open_files, 1, Len(Hello))
  BY <1>1, <1>2 DEF AppInv, ReopenedApp
<1>4. PICK g \in DOMAIN held \ StdFd, h \in DOMAIN fds : OpenAs(g, h, Hello, 0)
  BY <1>3, FileOpenAs
<1>5. StdoutStays
  BY <1>1 DEF AppInv, StdoutIsTty, StdoutStays
<1>6. PICK r : KWrite(h, Hello, r)
  <2>1. PICK e : e = open_files[1]
    OBVIOUS
  <2>2. Len(open_files) = 1 /\ e.host_fd = h /\ e.start_addr = 1 /\ e.offset = Len(Hello)
    BY <1>3, <1>4, <2>1 DEF OpenAs, Noted
  <2>3. open_files[Len(open_files)] = e
    BY <2>1, <2>2
  <2>4. PICK r \in -1..e.offset : KWrite(e.host_fd, ReplayData(e), r)
    BY <2>3 DEF ReplayFile
  <2>5. ReplayData(e) = Hello
    BY <1>3, <2>2, ReplaysFirstLine
  <2> QED
    BY <2>2, <2>4, <2>5
<1>7. PICK none \in Seq(Byte) : none = <<>> /\ Len(none) = 0 /\ none \o Hello = Hello
  <2>1. <<>> \in Seq(Byte) /\ Len(<<>>) = 0 /\ <<>> \o Hello = Hello
    BY LinesAreBytes, ConcatEmptySeq
  <2> QED
    BY <2>1
<1>8. AppDescriptor(h, Len(none)) /\ FileHolds(none)
  <2>1. fds[h].node = AppFile /\ AppFile \in Path
    BY <1>4, MachineAssumption DEF OpenAs, AppDescriptor
  <2>2. FileHolds(<<>>)
    BY <1>2, <2>1, HoldsNothing DEF KernelTypeOK
  <2> QED
    BY <1>4, <1>7, <2>2 DEF OpenAs
<1>9. /\ FileHolds(none \o Hello)' /\ AppDescriptor(h, Len(none) + Len(Hello))'
      /\ DOMAIN fds' = DOMAIN fds
      /\ \A f \in DOMAIN fds : f # h => fds'[f] = fds[f]
  BY <1>2, <1>6, <1>8, LinesAreBytes, WholeWrite
<1>10. FileHolds(Hello)' /\ AppDescriptor(h, Len(Hello))'
  <2>1. Len(none) + Len(Hello) = Len(Hello)
    BY <1>7, LinesAreBytes
  <2> QED
    BY <1>7, <1>9, <2>1, Zenon
<1>11. FileOpen(Hello, Len(Hello))'
  BY <1>1, <1>4, <1>9, <1>10 DEF FileOpen, OpenAs
<1>12. StdoutIsTty'
  <2>1. h # 1
    BY <1>4, <1>5, MachineAssumption, KernelAssumption
    DEF StdoutStays, OpenAs, AppDescriptor
  <2> QED
    BY <1>5, <1>9, <2>1 DEF StdoutIsTty, StdoutStays
<1>13. ReopenedApp'
  <2>1. Noted(open_files, 1, Len(Hello))'
    BY <1>1, <1>3 DEF Noted
  <2>2. AtSave' = AtSave
    BY DEF AtSave
  <2> QED
    BY <1>1, <1>2, <1>3, <1>10, <1>11, <2>1, <2>2 DEF ReopenedApp
<1>14. SavedApp'
  BY <1>1, SavedStays DEF AppInv
<1> QED
  BY <1>1, <1>12, <1>13, <1>14 DEF AppInv, RunningApp

(* ... and lets the guest go on behind its SAVE.                           *)
LEMMA RestoreFinishKeepsApp ==
  ASSUME MachineInv, AppInv, RestoreFinish, in_guest',
         UNCHANGED <<guest, guest_image, exit_reason>>
  PROVE  AppInv'
<1>1. /\ vmm = "reopening" /\ vmm' = "running"
      /\ Len(open_files) = Len(image.open_files)
      /\ UNCHANGED <<fds, disk, open_files, mem, held, image, sent>>
  BY DEF RestoreFinish, AllReopened
<1>2. image \notin {NoImage, Torn} /\ exit_reason = "UNKNOWN"
  BY <1>1 DEF MachineInv, MigrationInv, RestoreFollowsImage, CallsAreMade
<1>3. open_files # <<>>
  BY <1>1, <1>2 DEF AppInv, SavedApp, SavedByApp
<1>4. /\ guest.rip = AtSave /\ mem = AppMemory /\ FileOpen(Hello, Len(Hello))
      /\ FileHolds(Hello) /\ Noted(open_files, 1, Len(Hello))
  BY <1>1, <1>3 DEF AppInv, ReopenedApp
<1>5. Progress(5)
  BY <1>4, ProgressOf
<1>6. CallsServed' = 5
  BY <1>4, BootLength DEF CallsServed, CallPending, AtSave
<1>7. Progress(CallsServed)'
  BY <1>1, <1>5, <1>6, ProgressStays DEF Progress
<1>8. RunningApp'
  BY <1>1, <1>2, <1>4, <1>7 DEF RunningApp
<1>9. SavedApp'
  BY <1>1, SavedStays DEF AppInv
<1> QED
  BY <1>1, <1>8, <1>9 DEF AppInv, ReopenedApp, StdoutIsTty

(* SAVE writes what it has.                                                *)
LEMMA StoreImageKeepsApp ==
  ASSUME ~ DiskFaults, MachineInv, AppInv, StoreImage
  PROVE  AppInv'
<1>1. CASE OpenImage
  <2>1. /\ vmm = "saving" /\ vmm' = "writing" /\ image' = Torn
        /\ UNCHANGED <<fds, open_files, rax, mem, held, sent, restores>>
        /\ UNCHANGED <<guest, guest_image>>
    BY <1>1 DEF StoreImage, OpenImage, machineVars
  <2>2. rax' = SAVE /\ guest'.rip = AtSave /\ SavedByApp(Dump)
    BY <2>1 DEF AppInv, SavedApp
  <2>3. SavedByApp(Dump)'
    BY <2>1, <2>2 DEF SavedByApp, Dump, Noted
  <2>4. AtSave' = AtSave
    BY DEF AtSave
  <2>5. SavedApp'
    BY <2>1, <2>2, <2>3, <2>4 DEF SavedApp
  <2> QED
    BY <2>1, <2>5 DEF AppInv, RunningApp, ReopenedApp, StdoutIsTty
<1>2. CASE OpenImageFails
  BY <1>2 DEF OpenImageFails
<1>3. CASE WriteImageAndExit
  <2>1. vmm = "writing" /\ vmm' = "exited" /\ image' = Dump /\ guest_image' = guest
    BY <1>3 DEF StoreImage, WriteImageAndExit, MigrationProcessEnds, ProcessEnds
  <2>2. guest.rip = AtSave /\ SavedByApp(Dump)
    BY <2>1 DEF AppInv, SavedApp
  <2>3. PICK d : d = Dump
    OBVIOUS
  <2>4. SavedByApp(d)' /\ image' = d /\ guest_image'.rip = AtSave
    BY <2>1, <2>2, <2>3 DEF SavedByApp, Noted
  <2>5. AtSave' = AtSave
    BY DEF AtSave
  <2>6. SavedApp'
    BY <2>1, <2>4, <2>5 DEF SavedApp
  <2> QED
    BY <2>1, <2>6 DEF AppInv, RunningApp, ReopenedApp, StdoutIsTty
<1> QED
  BY <1>1, <1>2, <1>3 DEF StoreImage, SaveStep

-----------------------------------------------------------------------------
LEMMA AppInitInv == VmInit => AppInv
<1> SUFFICES ASSUME VmInit PROVE AppInv
  OBVIOUS
<1>1. vmm = "exited" /\ image = NoImage
  BY DEF VmInit
<1> QED
  BY <1>1 DEF AppInv, RunningApp, SavedApp, ReopenedApp, StdoutIsTty

LEMMA AppStepInv ==
  ASSUME ~ DiskFaults, ~ ShortWrites, MachineInv, AppInv, [VmNext]_vmVars
  PROVE  AppInv'
<1>1. CASE (\E main \in {"save", "restore"} : Start(main))
             \/ CreationSucceeds \/ MmapFails \/ UNCHANGED vmVars
  <2>1. UNCHANGED <<migrationVars, guest, guest_image, in_guest, exit_reason>>
    BY <1>1
    DEF Start, CreationSucceeds, MmapFails, NextCreationCall, vmVars, machineVars
  <2> QED
    BY <2>1, ApplicationWaits
<1>2. CASE CreationFails \/ HandleAndDie \/ Killed
  <2>1. UNCHANGED <<image, guest_image>> /\ vmm' = "exited"
    BY <1>2
    DEF CreationFails, HandleAndDie, Killed, ProcessGone, MigrationProcessEnds,
        ProcessEnds
  <2> QED
    BY <2>1, ProcessEndsWell
<1>3. CASE Launch \/ LoadImage
  BY <1>3, LaunchKeepsApp, LoadImageKeepsApp
<1>4. CASE ReopenFiles
  <2>1. /\ RestoreStep /\ in_guest' = (vmm' = "running")
        /\ UNCHANGED <<guest, guest_image, exit_reason>>
    BY <1>4 DEF ReopenFiles
  <2>2. RestoreFinish => in_guest'
    BY <2>1 DEF RestoreFinish
  <2> QED
    BY <2>1, <2>2, ReopenFileKeepsApp, ReplayFileKeepsApp, RestoreFinishKeepsApp
    DEF RestoreStep
<1>5. CASE HandleHlt
  BY <1>5, HandleHltKeepsApp
<1>6. CASE HandleAndContinue
  BY <1>6, ContinueKeepsApp
<1>7. CASE StoreImage
  BY <1>7, StoreImageKeepsApp
<1>8. CASE GuestBoots \/ GuestHalts
  BY <1>8, GuestBootsKeepsApp, GuestHaltsKeepsApp
<1>9. CASE TripleFault
  BY <1>9, ReturnsKeepsApp DEF TripleFault
<1>10. CASE KvmRunInterrupted
  <2>1. PICK reason \in HostReason \cup {exit_reason} :
          Returns(reason) /\ UNCHANGED <<guest, rax>>
    BY <1>10 DEF KvmRunInterrupted
  <2>2. reason = "HLT" => exit_reason = "HLT"
    BY <2>1 DEF HostReason
  <2> QED
    BY <2>1, <2>2, ReturnsKeepsApp
<1> QED
  BY <1>1, <1>2, <1>3, <1>4, <1>5, <1>6, <1>7, <1>8, <1>9, <1>10
  DEF VmNext, VmmStep, GuestStepOn

(* What AppInv says of the file, for the reader.                           *)
LEMMA OpenFileIsRight ==
  ASSUME MigrationTypeOK, NEW text \in {<<>>, Hello, Output},
         FileOpen(text, Len(text)), FileHolds(text), NEW g \in DOMAIN held
  PROVE  /\ ReachesItsFile(g)
         /\ fds[get_host_fd_from_guest_fd(g)].pos = Len(sent[g])
         /\ FileHolds(sent[g])
         /\ sent[g] \in {<<>>, Hello, Output}
<1>1. PICK n \in DOMAIN held \ StdFd, h \in DOMAIN fds : OpenAs(n, h, text, Len(text))
  BY FileOpenAs
<1>2. DOMAIN held = {n} /\ get_host_fd_from_guest_fd(n) = h
  BY <1>1, AppLookup
<1>3. g = n /\ sent[g] = text /\ held[g] = AppFile
  BY <1>1, <1>2 DEF OpenAs
<1>4. fds[h].node = AppFile /\ fds[h].pos = Len(text)
  BY <1>1 DEF OpenAs, AppDescriptor
<1> QED
  BY <1>2, <1>3, <1>4 DEF ReachesItsFile

LEMMA InvMeansFileRight == MachineInv /\ AppInv => AppFileRight
<1> SUFFICES ASSUME MachineInv, AppInv, vmm = "running", NEW g \in DOMAIN held
             PROVE  /\ ReachesItsFile(g)
                    /\ fds[get_host_fd_from_guest_fd(g)].pos = Len(sent[g])
                    /\ FileHolds(sent[g])
                    /\ sent[g] \in {<<>>, Hello, Output}
  BY DEF AppFileRight
<1>1. MigrationTypeOK
  BY DEF MachineInv, MachineTypeOK
<1>2. PICK n \in -16..10 : n = CallsServed
  <2>1. guest.rip \in 0..25
    BY RipRange DEF MachineInv, MachineTypeOK
  <2> QED
    BY <2>1, BootLength DEF CallsServed
<1>3. Progress(n)
  BY <1>2 DEF AppInv, RunningApp
<1>4. held # NoDescriptors
  BY DEF NoDescriptors
<1>5. CASE n < 3 \/ n >= 8
  BY <1>3, <1>4, <1>5 DEF Progress
<1>6. CASE n = 3
  <2>1. FileOpen(<<>>, 0)
    BY <1>3, <1>6 DEF Progress
  <2>2. PICK m \in DOMAIN held \ StdFd, h \in DOMAIN fds : OpenAs(m, h, <<>>, 0)
    BY <2>1, FileOpenAs
  <2>3. FileHolds(<<>>)
    <3>1. fds[h].node = AppFile /\ AppFile \in Path
      BY <2>2, MachineAssumption DEF OpenAs, AppDescriptor
    <3> QED
      BY <1>1, <3>1, HoldsNothing DEF MigrationTypeOK, KernelTypeOK
  <2>4. PICK none \in {<<>>, Hello, Output} : none = <<>> /\ Len(none) = 0
    OBVIOUS
  <2> QED
    BY <1>1, <2>1, <2>3, <2>4, OpenFileIsRight
<1>7. CASE n \in {4, 5}
  BY <1>1, <1>3, <1>7, OpenFileIsRight DEF Progress
<1>8. CASE n \in {6, 7}
  BY <1>1, <1>3, <1>8, OpenFileIsRight DEF Progress
<1> QED
  BY <1>2, <1>5, <1>6, <1>7, <1>8

LEMMA ExitIsLast ==
  ASSUME MachineInv, AppInv, exit_reason = "HLT", ~ in_guest, rax = 60
  PROVE  FileHolds(Output)
<1>1. vmm = "running"
  <2>1. vmm \in {"running", "saving", "writing"}
    BY DEF MachineInv, CallsAreMade
  <2>2. vmm \notin {"saving", "writing"}
    BY DEF AppInv, SavedApp, SAVE
  <2> QED
    BY <2>1, <2>2
<1>2. CallPending /\ Progress(CallsServed)
  BY <1>1 DEF AppInv, RunningApp, RaxIsAnswer, EffectiveCall, SAVE
<1>3. PICK i \in 1..10 : guest.rip = 15 + i /\ Len(boot) = 15 /\ LastCall = app[i]
  BY AtCall
<1>4. i = 10
  BY <1>2, <1>3, AppNumbers DEF CallPending, SAVE
<1>5. CallsServed = 9
  BY <1>2, <1>3, <1>4 DEF CallsServed
<1> QED
  BY <1>2, <1>5 DEF Progress

(* On a sound disk that takes writes whole: the table, the file and what   *)
(* the guest was told go with the calls of app.c, however often KVM_RUN is *)
(* interrupted, a VMM killed, or the VM restored.                          *)
THEOREM ApplicationInvariant ==
  ASSUME ~ DiskFaults, ~ ShortWrites
  PROVE  VmSpec => []AppInv
<1>1. MachineInv /\ AppInv /\ [VmNext]_vmVars => AppInv'
  BY AppStepInv
<1> QED
  BY <1>1, AppInitInv, MachineInvariant, PTL DEF VmSpec

(* Whenever its vCPU runs or has halted, the application's file holds what *)
(* it has written, each line once, and is positioned behind it.            *)
THEOREM FileFollowsTheCalls ==
  ASSUME ~ DiskFaults, ~ ShortWrites
  PROVE  VmSpec => []AppFileRight
BY InvMeansFileRight, MachineInvariant, ApplicationInvariant, PTL

(* And when the guest exits, both lines are there.                         *)
THEOREM OutputIsComplete ==
  ASSUME ~ DiskFaults, ~ ShortWrites
  PROVE  VmSpec => OutputComplete
<1>1. MachineInv /\ AppInv =>
        [exit_reason = "HLT" /\ ~ in_guest /\ rax = 60
           => FileHolds(Output)]_vmVars
  BY ExitIsLast
<1> QED
  BY <1>1, MachineInvariant, ApplicationInvariant, PTL DEF OutputComplete
=============================================================================
