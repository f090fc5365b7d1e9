----------------------------- MODULE PageTables -----------------------------
(***************************************************************************)
(* memory_manager/memory.c: the guest's four-level page tables, kept in    *)
(* the guest's own memory, and the dictionary of pages in use.  A mapping  *)
(* call takes and yields a pair of the two, [mem, used].                   *)
(*                                                                         *)
(* Guest memory is an array of cells, each the size of a table entry; an   *)
(* address counts cells.  A page has EntriesPerPage cells, so the page of  *)
(* address a is a \div EntriesPerPage and its offset is the remainder.     *)
(***************************************************************************)
EXTENDS Integers

CONSTANTS EntriesPerPage,  \* 512 in the code
          MemPages,        \* pages of guest memory: 15
          NB_PAGE          \* pages the allocator has an entry for: 0x10000

ASSUME PageTablesAssumption ==
  EntriesPerPage \in Nat \ {0} /\ MemPages \in Nat /\ NB_PAGE \in Nat

Cell       == 0..(MemPages * EntriesPerPage - 1)
PageOf(a)  == a \div EntriesPerPage
Offset(a)  == a % EntriesPerPage
PageBase(a) == a - Offset(a)
CR3        == 1

(* An entry is a page number with the PRESENT bit.  A zeroed cell is an    *)
(* absent entry.  The low bits of an unaligned address, which memory_map   *)
(* lets through into the entry's flags, are masked by every reader.        *)
Entry(p)        == p + 1
not_present(x)  == x = 0
PointsTo(entry) == entry - 1

-----------------------------------------------------------------------------
(* The first page from 2 on that is not in use; page 0 when there is none, *)
(* which is not marked.                                                    *)
FreePages(used) == (2..(NB_PAGE - 1)) \ used

allocate_page(used) ==
  IF FreePages(used) = {} THEN 0
  ELSE CHOOSE p \in FreePages(used) : \A q \in FreePages(used) : p <= q

NotMarked(used, p) ==  \* a slip: the page handed out is not marked
  used

Marked(used, p) == IF p = 0 THEN used ELSE used \cup {p}

(* The cell that decides on virtual address a in a table; span is the      *)
(* number of pages an entry of that table stands for.                      *)
Index(a, span)      == (PageOf(a) \div span) % EntriesPerPage
CellIn(table, a, span) == table * EntriesPerPage + Index(a, span)

PgdSpan == EntriesPerPage * EntriesPerPage * EntriesPerPage
PudSpan == EntriesPerPage * EntriesPerPage
PmdSpan == EntriesPerPage

(* One level of memory_map: a table that is not there is allocated.        *)
WithTable(st, c) ==
  IF ~ not_present(st.mem[c]) THEN st
  ELSE LET p == allocate_page(st.used)
       IN  [mem |-> [st.mem EXCEPT ![c] = Entry(p)], used |-> Marked(st.used, p)]

WithPage(st, c, virt_addr, phys_addr) ==
  LET p == IF virt_addr = 0 THEN 0
           ELSE IF phys_addr = 0 THEN allocate_page(st.used)
           ELSE PageOf(phys_addr)
      used == IF virt_addr = 0 THEN st.used ELSE Marked(st.used, p)
  IN  IF ~ not_present(st.mem[c]) THEN st
      ELSE [mem |-> [st.mem EXCEPT ![c] = Entry(p)], used |-> used]

memory_map(st, virt_addr, phys_addr) ==
  LET pgd == CellIn(CR3, virt_addr, PgdSpan)
      s1  == WithTable(st, pgd)
      pud == CellIn(PointsTo(s1.mem[pgd]), virt_addr, PudSpan)
      s2  == WithTable(s1, pud)
      pmd == CellIn(PointsTo(s2.mem[pud]), virt_addr, PmdSpan)
      s3  == WithTable(s2, pmd)
      pte == CellIn(PointsTo(s3.mem[pmd]), virt_addr, 1)
  IN  WithPage(s3, pte, virt_addr, phys_addr)

-----------------------------------------------------------------------------
(* The walk of the vCPU, which gva_to_gpa does as well: the tables met on  *)
(* the way to a, and the page a is mapped to.                              *)
WalkOf(m, a) ==
  LET pgd == m[CellIn(CR3, a, PgdSpan)]
      pud == m[CellIn(PointsTo(pgd), a, PudSpan)]
      pmd == m[CellIn(PointsTo(pud), a, PmdSpan)]
      pte == m[CellIn(PointsTo(pmd), a, 1)]
  IN  IF not_present(pgd) THEN <<CR3>>
      ELSE IF not_present(pud) THEN <<CR3, PointsTo(pgd)>>
      ELSE IF not_present(pmd) THEN <<CR3, PointsTo(pgd), PointsTo(pud)>>
      ELSE IF not_present(pte)
        THEN <<CR3, PointsTo(pgd), PointsTo(pud), PointsTo(pmd)>>
      ELSE <<CR3, PointsTo(pgd), PointsTo(pud), PointsTo(pmd), PointsTo(pte)>>
=============================================================================
