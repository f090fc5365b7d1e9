---------------------------- MODULE GuestLoading ----------------------------
(***************************************************************************)
(* The guest's memory from the blank VM to the launch, as save.c and       *)
(* VMM_client.c fill it: create_stack maps the stack, then load_file       *)
(* (load_manager/loader.c) loads the bootstrap and the application,        *)
(* section by section.  One step is one round of one of the loops.         *)
(*                                                                         *)
(* The sections are any that ld may place: in the order of their           *)
(* addresses, disjoint, from the address the linker script of the file     *)
(* gives.                                                                  *)
(***************************************************************************)
EXTENDS PageTables, Sequences, FiniteSets

CONSTANTS STACK_ADDRESS, STACK_SIZE,  \* of the launchers, in cells
          FileStart,     \* where the linker scripts let each file begin
          FileEnd,       \* what each file stays below
          SectionSize,   \* sizes of sections
          SectionType    \* values of sh_type

ASSUME LoadingAssumption ==
  /\ STACK_ADDRESS \in Nat /\ STACK_SIZE \in Nat
  /\ STACK_SIZE % EntriesPerPage = 0 /\ STACK_SIZE < STACK_ADDRESS
  /\ FileStart \in Seq(Nat) /\ FileEnd \in [DOMAIN FileStart -> Cell]
  /\ SectionSize \subseteq Nat \ {0} /\ SectionType \subseteq Nat

(* The last page that the tables can come to, were all of memory mapped.   *)
LastTable == 4 + (MemPages - 1) \div EntriesPerPage

(* Nothing in the code keeps tables and contents apart; the addresses in   *)
(* the launchers and linker scripts do.  Memory is 15 pages, for which one *)
(* table of each level is enough, and all else is from page 8 on.          *)
ASSUME RoomForTables ==
  /\ MemPages <= EntriesPerPage * EntriesPerPage /\ MemPages <= NB_PAGE
  /\ STACK_ADDRESS \in Cell
  /\ LastTable < PageOf(STACK_ADDRESS - STACK_SIZE)
  /\ \A i \in DOMAIN FileStart : LastTable < PageOf(FileStart[i])

(* The files begin on pages of their own, one after the other.             *)
ASSUME FilesApart ==
  \A i \in DOMAIN FileStart :
    /\ Offset(FileStart[i]) = 0
    /\ \A j \in DOMAIN FileStart : i < j => FileEnd[i] <= FileStart[j]

VARIABLES mem,        \* guest memory
          used,       \* page_allocator_dico
          page_dico,  \* pages on which a section has begun
          new_page,   \* load_file's variable, as an address
          step,       \* where the launcher is
          size,       \* what create_stack has still to map
          file,       \* the file being loaded
          loaded      \* the sections loaded so far

loadingVars == <<mem, used, page_dico, new_page, step, size, file, loaded>>

Section == [file : DOMAIN FileStart, addr : Cell, size : SectionSize,
            type : SectionType]
Cells(s) == s.addr..(s.addr + s.size - 1)

(* What the file has for address a: something of its own, and no zero.     *)
FileByte(a) == MemPages + 1 + a

Blank ==
  /\ mem = [c \in Cell |-> 0]
  /\ used = {}
  /\ page_dico = {}
  /\ new_page = 0
  /\ step = "stack"
  /\ size = STACK_SIZE
  /\ file = 0
  /\ loaded = <<>>

Map(virt_addr, phys_addr) ==
  LET st == memory_map([mem |-> mem, used |-> used], virt_addr, phys_addr)
  IN  mem' = st.mem /\ used' = st.used

-----------------------------------------------------------------------------
(* create_stack: the page at addr, then those below it.                    *)
StackTop ==
  /\ step = "stack"
  /\ Map(STACK_ADDRESS, STACK_ADDRESS)
  /\ step' = "stack pages"
  /\ UNCHANGED <<page_dico, new_page, size, file, loaded>>

StackPage ==
  /\ step = "stack pages"
  /\ size # 0
  /\ LET i == STACK_ADDRESS - (STACK_SIZE - size) - EntriesPerPage IN Map(i, i)
  /\ size' = size - EntriesPerPage
  /\ UNCHANGED <<page_dico, new_page, step, file, loaded>>

(* load_file is called, for the bootstrap and then for the application.    *)
NextFile ==
  /\ \/ step = "stack pages" /\ size = 0
     \/ step = "sections"
  /\ file < Len(FileStart)
  /\ file' = file + 1
  /\ step' = "sections"
  /\ new_page' = 0
  /\ UNCHANGED <<mem, used, page_dico, size, loaded>>

-----------------------------------------------------------------------------
AnyFreePage(addr) ==  \* a slip, or the line commented out: allocate_page()
  0

IdentityPage(addr) == addr

UnalignedPage(addr) ==  \* a slip: & ~0xFFF is forgotten
  addr

PageStart(addr) == PageBase(addr)

(* The first section of a page has the page marked and mapped, twice: with *)
(* the section's address, then with the page's.                            *)
PreparePage(addr) ==
  IF PageOf(addr) \in page_dico
    THEN [mem |-> mem, used |-> used, page |-> new_page]
    ELSE LET st1 == memory_map([mem |-> mem,
                                used |-> Marked(used, PageOf(addr))],
                               addr, IdentityPage(addr))
             st2 == memory_map(st1, addr, PageBase(addr))
         IN  [mem |-> st2.mem, used |-> st2.used, page |-> PageStart(addr)]

(* sh_type & 0x8, meant for SHT_NOBITS.                                    *)
HasData(s) == (s.type \div 8) % 2 = 0

AtPageStart(page, addr) ==  \* a slip: the offset in the page is forgotten
  page

CopyTo(page, addr) == page + Offset(addr)

(* One section that occupies memory; others are skipped.                   *)
LoadSection(s) ==
  LET st == PreparePage(s.addr)
      to == CopyTo(st.page, s.addr)
  IN
  /\ step = "sections"
  /\ s.file = file
  /\ used' = st.used
  /\ page_dico' = page_dico \cup {PageOf(s.addr)}
  /\ new_page' = st.page
  /\ mem' = [c \in Cell |->
               IF c \notin to..(to + s.size - 1) THEN st.mem[c]
               ELSE IF HasData(s) THEN FileByte(s.addr + c - to) ELSE 0]
  /\ loaded' = Append(loaded, s)
  /\ UNCHANGED <<step, size, file>>

(* Where the file's next section may be: ld goes up, possibly to the start *)
(* of another page.                                                        *)
NextAddr ==
  LET last == loaded[Len(loaded)]
      end  == IF loaded # <<>> /\ last.file = file THEN last.addr + last.size
              ELSE FileStart[file]
  IN  {end, PageBase(end + EntriesPerPage - 1)}

AnySection ==
  /\ step = "sections"
  /\ \E a \in NextAddr, n \in SectionSize, t \in SectionType :
       /\ a + n <= FileEnd[file]
       /\ LoadSection([file |-> file, addr |-> a, size |-> n, type |-> t])

Launch ==
  /\ step = "sections"
  /\ file = Len(FileStart)
  /\ step' = "running"
  /\ UNCHANGED <<mem, used, page_dico, new_page, size, file, loaded>>

LoadingNext == StackTop \/ StackPage \/ NextFile \/ AnySection \/ Launch

LoadingSpec == Blank /\ [][LoadingNext]_loadingVars

-----------------------------------------------------------------------------
(* Every variable stays in its range.                                      *)
LoadingTypeOK ==
  /\ mem \in [Cell -> Nat]
  /\ used \subseteq 0..(NB_PAGE - 1)
  /\ page_dico \subseteq 0..(MemPages - 1)
  /\ new_page \in Cell /\ Offset(new_page) = 0
  /\ step \in {"stack", "stack pages", "sections", "running"}
  /\ size \in 0..STACK_SIZE
  /\ file \in 0..Len(FileStart)
  /\ loaded \in Seq(Section)

PageStarts == {p * EntriesPerPage : p \in 0..(MemPages - 1)}
Mapped == {w \in {WalkOf(mem, a) : a \in PageStarts} : Len(w) = 5}
Tables == UNION {{w[i] : i \in 1..4} : w \in Mapped}

(* Whatever the order of allocations, an address of the guest that is      *)
(* mapped is the physical one: what syscall_handler, which uses the        *)
(* guest's pointers as indices, takes for granted (lines 28-31).           *)
IdentityMapped ==
  \A a \in PageStarts :
    LET w == WalkOf(mem, a) IN Len(w) = 5 => w[5] = PageOf(a)

(* No page table is among the pages the guest can reach, though every page *)
(* is mapped for its user mode to write, and no section has been copied    *)
(* onto one.                                                               *)
TablesPrivate ==
  LET tables == Tables IN
  /\ \A w \in Mapped : w[5] \notin tables
  /\ \A i \in DOMAIN loaded : \A c \in Cells(loaded[i]) : PageOf(c) \notin tables

InPlace(s, hasData) ==
  \A c \in Cells(s) : mem[c] = IF hasData THEN FileByte(c) ELSE 0

(* Every section is at its address, whole and with its contents, also      *)
(* after the stack and all later sections and tables have been placed, and *)
(* the page it begins on is mapped.  (Types 14 and 15 are the exception,   *)
(* see SectionsHaveTheirData.)                                             *)
SectionsInPlace ==
  \A i \in DOMAIN loaded :
    LET s == loaded[i] IN
    /\ InPlace(s, HasData(s))
    /\ Len(WalkOf(mem, s.addr)) = 5

(* The lowest tables: where they are entered, and where page p is.         *)
Page           == 0..(MemPages - 1)
TableCell(p)   == CellIn(3, p * EntriesPerPage, PmdSpan)
HasTable(m, p) == ~ not_present(m[TableCell(p)])
EntriesMade(m)  == {TableCell(p) : p \in {q \in Page : HasTable(m, q)}}
LeafTable(m, p) == PointsTo(m[TableCell(p)])
LeafCell(m, p) == CellIn(LeafTable(m, p), p * EntriesPerPage, 1)
IsMapped(m, p) == HasTable(m, p) /\ ~ not_present(m[LeafCell(m, p)])

(* Pages 2 and 3 are the upper tables, and those up to n the lowest ones,  *)
(* each for addresses of its own; they are in use, and the pages behind    *)
(* them are blank, for the tables that may follow.                         *)
TablesMarked(u, n) == u \subseteq Page /\ u \cap 0..LastTable = 2..n

UpperTables(m) ==
  m[CellIn(CR3, 0, PgdSpan)] = Entry(2) /\ m[CellIn(2, 0, PudSpan)] = Entry(3)

LowestTables(m, n) ==
  /\ \A p \in Page : HasTable(m, p) => LeafTable(m, p) \in 4..n
  /\ \A p, q \in Page :
       HasTable(m, p) /\ HasTable(m, q) /\ LeafTable(m, p) = LeafTable(m, q)
         => TableCell(p) = TableCell(q)
  /\ Cardinality(EntriesMade(m)) = n - 3

BlankBehind(m, n) == \A c \in Cell : PageOf(c) \in (n + 1)..LastTable => m[c] = 0

(* What they map is behind them all, and at its own address.               *)
PagesAtHome(m) ==
  \A p \in Page :
    IsMapped(m, p) => p > LastTable /\ m[LeafCell(m, p)] = Entry(p)

TreeOf(m, u, n) ==
  /\ m \in [Cell -> Nat]
  /\ TablesMarked(u, n) /\ UpperTables(m) /\ LowestTables(m, n)
  /\ BlankBehind(m, n) /\ PagesAtHome(m)

(* Sections follow one another, each inside its file, and new_page is the  *)
(* page on which the last one of the current file begins.                  *)
SectionsInOrder ==
  /\ page_dico = {PageOf(loaded[i].addr) : i \in DOMAIN loaded}
  /\ \A i \in DOMAIN loaded :
       LET s == loaded[i] IN
       /\ s.file <= file
       /\ FileStart[s.file] <= s.addr /\ s.addr + s.size <= FileEnd[s.file]
       /\ i = Len(loaded) /\ s.file = file => PageOf(new_page) = PageOf(s.addr)
       /\ \A j \in DOMAIN loaded : i < j => s.addr + s.size <= loaded[j].addr

(* The inductive invariant: from the first call of memory_map on the       *)
(* tables are a tree in the pages before the first that is mapped.         *)
LoadingInv ==
  /\ LoadingTypeOK
  /\ size % EntriesPerPage = 0
  /\ IF step = "stack" THEN used = {} /\ mem = [c \in Cell |-> 0]
     ELSE \E n \in 3..LastTable : TreeOf(mem, used, n)
  /\ step \in {"stack", "stack pages"} => file = 0 /\ loaded = <<>>
  /\ step = "sections" => file > 0
  /\ SectionsInOrder
  /\ SectionsInPlace

(* Memory of every section is what its file has for it, and zero for the   *)
(* one type that has nothing in the file: "check if section has data       *)
(* (bss)" (loader.c:79).                                                   *)
SHT_NOBITS == 8
SectionsHaveTheirData ==
  \A i \in DOMAIN loaded : InPlace(loaded[i], loaded[i].type # SHT_NOBITS)
=============================================================================
