------------------------ MODULE GuestLoading_proofs -------------------------
(***************************************************************************)
(* GuestLoading's safety properties, for every size of page and memory,    *)
(* every layout of the sections, and every allocator that has room.        *)
(*                                                                         *)
(* First the arithmetic of cells and pages; then what one call of          *)
(* memory_map does to the tree of tables; then the loops of create_stack   *)
(* and load_file.                                                          *)
(***************************************************************************)
EXTENDS GuestLoading, DivisionTheorems, FiniteSetTheorems, SequenceTheorems

-----------------------------------------------------------------------------
(* Cells and pages.                                                        *)
LEMMA PageArithmetic ==
  ASSUME NEW t \in Int, NEW i \in 0..(EntriesPerPage - 1)
  PROVE  PageOf(t * EntriesPerPage + i) = t /\ Offset(t * EntriesPerPage + i) = i
<1>1. EntriesPerPage \in Nat /\ EntriesPerPage > 0
  BY PageTablesAssumption
<1>2. PICK a \in Int : a = t * EntriesPerPage + i
  BY <1>1
<1>3. /\ a \div EntriesPerPage \in Int
      /\ a % EntriesPerPage \in 0..(EntriesPerPage - 1)
      /\ a = EntriesPerPage * (a \div EntriesPerPage) + (a % EntriesPerPage)
  BY <1>1, DivMod
<1>4. PICK q \in Int, r \in 0..(EntriesPerPage - 1) :
        q = a \div EntriesPerPage /\ r = a % EntriesPerPage
  BY <1>3
<1>5. EntriesPerPage * t + i = EntriesPerPage * q + r
  BY <1>1, <1>2, <1>3, <1>4
<1>6. t = q /\ i = r
  BY <1>1, <1>5, DivModUnique
<1> QED
  BY <1>2, <1>4, <1>6 DEF PageOf, Offset

LEMMA AddressParts ==
  ASSUME NEW a \in Int
  PROVE  /\ PageOf(a) \in Int /\ Offset(a) \in 0..(EntriesPerPage - 1)
         /\ a = PageOf(a) * EntriesPerPage + Offset(a)
         /\ PageBase(a) = PageOf(a) * EntriesPerPage
<1>1. EntriesPerPage \in Nat /\ EntriesPerPage > 0
  BY PageTablesAssumption
<1>2. /\ PageOf(a) \in Int /\ Offset(a) \in 0..(EntriesPerPage - 1)
      /\ a = EntriesPerPage * PageOf(a) + Offset(a)
  BY <1>1, DivMod DEF PageOf, Offset
<1>3. a = PageOf(a) * EntriesPerPage + Offset(a)
  BY <1>1, <1>2
<1> QED
  BY <1>1, <1>2, <1>3 DEF PageBase

LEMMA PagesAreOrdered ==
  ASSUME NEW a \in Int, NEW b \in Int
  PROVE  /\ a <= b => PageOf(a) <= PageOf(b)
         /\ a < b /\ Offset(b) = 0 => PageOf(a) < PageOf(b)
<1>1. PICK E \in Nat : E = EntriesPerPage /\ E > 0
  BY PageTablesAssumption
<1>2. PICK p \in Int, q \in Int, r \in 0..(E - 1), s \in 0..(E - 1) :
        /\ p = PageOf(a) /\ q = PageOf(b) /\ r = Offset(a) /\ s = Offset(b)
        /\ a = p * E + r /\ b = q * E + s
  <2>1. /\ PageOf(a) \in Int /\ Offset(a) \in 0..(E - 1)
        /\ a = PageOf(a) * E + Offset(a)
    BY <1>1, AddressParts
  <2>2. /\ PageOf(b) \in Int /\ Offset(b) \in 0..(E - 1)
        /\ b = PageOf(b) * E + Offset(b)
    BY <1>1, AddressParts
  <2> QED
    BY <2>1, <2>2
<1>3. ASSUME p >= q + 1 PROVE p * E >= q * E + E
  <2>1. PICK d \in Nat : p = q + 1 + d
    <3>1. p - q - 1 \in Nat
      BY <1>3
    <3> QED
      BY <3>1
  <2>2. p * E = q * E + E + d * E
    BY <1>1, <2>1
  <2>3. d * E >= 0
    BY <1>1
  <2> QED
    BY <2>2, <2>3
<1>4. a <= b => p <= q
  <2> SUFFICES ASSUME p >= q + 1 PROVE a > b
    BY <1>2
  <2>1. PICK x \in Int, y \in Int : x = p * E /\ y = q * E
    BY <1>1
  <2> QED
    BY <1>1, <1>2, <1>3, <2>1
<1>5. a < b /\ s = 0 => p < q
  <2> SUFFICES ASSUME s = 0, p >= q PROVE a >= b
    BY <1>2
  <2>1. PICK x \in Int, y \in Int : x = p * E /\ y = q * E
    BY <1>1
  <2>2. x >= y
    <3>1. CASE p = q
      BY <2>1, <3>1
    <3>2. CASE p >= q + 1
      BY <1>1, <1>3, <2>1, <3>2
    <3> QED
      BY <3>1, <3>2
  <2> QED
    BY <1>2, <2>1, <2>2
<1> QED
  BY <1>2, <1>4, <1>5

LEMMA CellsHavePages ==
  ASSUME NEW a \in Int
  PROVE  a \in Cell <=> PageOf(a) \in Page
<1>1. PICK E \in Nat : E = EntriesPerPage /\ E > 0
  BY PageTablesAssumption
<1>2. MemPages \in Nat
  BY PageTablesAssumption
<1>3. PICK top \in Nat : top = MemPages * E
  BY <1>2
<1>4. PageOf(0) = 0 /\ Offset(0) = 0 /\ PageOf(top) = MemPages /\ Offset(top) = 0
  <2>1. 0 = 0 * E + 0 /\ top = MemPages * E + 0
    BY <1>1, <1>2, <1>3
  <2> QED
    BY <1>1, <1>2, <2>1, PageArithmetic
<1>5. PageOf(a) \in Int
  BY AddressParts
<1>6. a >= 0 <=> PageOf(a) >= 0
  BY <1>4, <1>5, PagesAreOrdered
<1>7. a < top <=> PageOf(a) < MemPages
  BY <1>2, <1>3, <1>4, <1>5, PagesAreOrdered
<1>8. Cell = 0..(top - 1)
  BY <1>1, <1>3 DEF Cell
<1> QED
  BY <1>2, <1>3, <1>5, <1>6, <1>7, <1>8 DEF Page

LEMMA SmallQuotient ==
  ASSUME NEW M \in Nat, NEW a \in 0..(M - 1)
  PROVE  a \div M = 0 /\ a % M = a
<1>1. M > 0 /\ a \in Int
  OBVIOUS
<1>2. PICK q \in Int, r \in 0..(M - 1) : q = a \div M /\ r = a % M /\ a = M * q + r
  BY <1>1, DivMod
<1>3. M * q + r = M * 0 + a
  BY <1>2
<1> QED
  BY <1>1, <1>2, <1>3, DivModUnique

(* One table of each upper level is enough: their indices are 0.           *)
LEMMA TableCells ==
  ASSUME NEW a \in Int, PageOf(a) \in Page, NEW t \in Int
  PROVE  /\ CellIn(t, a, PgdSpan) = t * EntriesPerPage
         /\ CellIn(t, a, PudSpan) = t * EntriesPerPage
         /\ CellIn(t, a, PmdSpan) = t * EntriesPerPage + PageOf(PageOf(a))
         /\ PageOf(PageOf(a)) \in 0..(EntriesPerPage - 1)
         /\ PageOf(PageOf(a)) \in 0..(LastTable - 4)
         /\ CellIn(t, a, 1) = t * EntriesPerPage + Offset(PageOf(a))
<1>1. PICK E \in Nat, M \in Nat :
        E = EntriesPerPage /\ E > 0 /\ M = MemPages /\ M <= E * E
  BY PageTablesAssumption, RoomForTables
<1>2. PICK p \in Int : p = PageOf(a) /\ p \in 0..(M - 1)
  BY <1>1 DEF Page
<1>3. PICK s \in Nat, c \in Nat : s = E * E /\ c = E * E * E /\ s > 0 /\ s <= c
  <2>1. E * E \in Nat /\ E * E >= 1
    BY <1>1
  <2>2. PICK s \in Nat : s = E * E /\ s >= 1
    BY <2>1
  <2>3. s * E \in Nat /\ s * E >= s
    BY <1>1, <2>2
  <2> QED
    BY <1>1, <2>2, <2>3
<1>4. p \div c = 0 /\ p \div s = 0
  <2>1. p \in 0..(s - 1) /\ p \in 0..(c - 1)
    BY <1>1, <1>2, <1>3
  <2> QED
    BY <1>3, <2>1, SmallQuotient
<1>5. 0 % E = 0
  <2>1. 0 \in 0..(E - 1)
    BY <1>1
  <2> QED
    BY <2>1, SmallQuotient
<1>6. CellIn(t, a, PgdSpan) = t * E /\ CellIn(t, a, PudSpan) = t * E
  BY <1>1, <1>2, <1>3, <1>4, <1>5 DEF CellIn, Index, PgdSpan, PudSpan
<1>7. PageOf(p) \in 0..(E - 1)
  <2>1. /\ PageOf(p) \in Int /\ Offset(p) \in 0..(E - 1)
        /\ p = PageOf(p) * E + Offset(p)
    BY <1>1, <1>2, AddressParts
  <2>2. PICK q \in Int, r \in 0..(E - 1) : q = PageOf(p) /\ p = q * E + r
    BY <2>1
  <2>3. q >= 0
    <3> SUFFICES ASSUME q <= -1 PROVE FALSE
      BY <2>2
    <3>1. q * E <= -E
      BY <1>1
    <3> QED
      BY <1>1, <1>2, <2>2, <3>1
  <2>4. q <= E - 1
    <3> SUFFICES ASSUME q >= E PROVE FALSE
      BY <1>1, <2>2
    <3>1. q * E >= s
      BY <1>1, <1>3
    <3> QED
      BY <1>1, <1>2, <1>3, <2>2, <3>1
  <2> QED
    BY <2>2, <2>3, <2>4
<1>8. p \div E = PageOf(p) /\ PageOf(p) % E = PageOf(p) /\ p % E = Offset(p)
  BY <1>1, <1>7, SmallQuotient DEF PageOf, Offset
<1>9. CellIn(t, a, PmdSpan) = t * E + PageOf(p)
  BY <1>1, <1>2, <1>8 DEF CellIn, Index, PmdSpan
<1>10. PageOf(p) <= PageOf(M - 1) /\ LastTable = 4 + PageOf(M - 1)
  <2>1. PageOf(p) <= PageOf(M - 1)
    BY <1>1, <1>2, PagesAreOrdered
  <2> QED
    BY <1>1, <2>1 DEF LastTable, PageOf
<1>11. PageOf(M - 1) \in Int
  BY <1>1, AddressParts
<1>12. PageOf(p) \in 0..(LastTable - 4)
  BY <1>7, <1>10, <1>11
<1>13. CellIn(t, a, 1) = t * E + Offset(p)
  <2>1. p \div 1 = p
    BY <1>2
  <2> QED
    BY <1>1, <1>2, <1>8, <2>1 DEF CellIn, Index
<1> QED
  BY <1>1, <1>2, <1>6, <1>7, <1>9, <1>12, <1>13

(* What the code's layout leaves room for.                                 *)
LEMMA TablesHaveRoom ==
  /\ EntriesPerPage \in Nat /\ EntriesPerPage > 0
  /\ MemPages \in Nat /\ NB_PAGE \in Nat /\ MemPages <= NB_PAGE
  /\ LastTable \in Int /\ LastTable >= 4 /\ LastTable < MemPages
  /\ \A p \in 1..LastTable : p \in Page
  /\ 0 \in Page
<1>1. /\ EntriesPerPage \in Nat /\ EntriesPerPage > 0
      /\ MemPages \in Nat /\ NB_PAGE \in Nat /\ MemPages <= NB_PAGE
      /\ STACK_ADDRESS \in Nat /\ STACK_SIZE \in Nat /\ STACK_ADDRESS \in Cell
      /\ LastTable < PageOf(STACK_ADDRESS - STACK_SIZE)
  BY PageTablesAssumption, LoadingAssumption, RoomForTables
<1>2. PICK p \in Int : p = PageOf(STACK_ADDRESS) /\ p \in 0..(MemPages - 1)
  BY <1>1, CellsHavePages, AddressParts DEF Page
<1>3. PICK q \in Int : q = PageOf(STACK_ADDRESS - STACK_SIZE) /\ q <= p
  <2>1. STACK_ADDRESS - STACK_SIZE \in Int /\ STACK_ADDRESS - STACK_SIZE <= STACK_ADDRESS
    BY <1>1
  <2> QED
    BY <1>1, <1>2, <2>1, AddressParts, PagesAreOrdered
<1>4. LastTable \in Int /\ LastTable >= 4
  <2>1. 0 \in Page /\ MemPages - 1 \in Int /\ 0 <= MemPages - 1
    BY <1>1, <1>2 DEF Page
  <2>2. PageOf(0) = 0
    <3>1. 0 \in 0..(EntriesPerPage - 1) /\ 0 * EntriesPerPage + 0 = 0
      BY <1>1
    <3> QED
      BY <3>1, PageArithmetic
  <2>3. PageOf(MemPages - 1) >= 0 /\ PageOf(MemPages - 1) \in Int
    BY <2>1, <2>2, PagesAreOrdered, AddressParts
  <2> QED
    BY <2>3 DEF LastTable, PageOf
<1> QED
  BY <1>1, <1>2, <1>3, <1>4 DEF Page

-----------------------------------------------------------------------------
(* The cells of the tree, and how memory_map and the vCPU come to them.    *)
LEMMA PageBaseOf ==
  ASSUME NEW p \in Int
  PROVE  p * EntriesPerPage \in Int /\ PageOf(p * EntriesPerPage) = p
<1>1. EntriesPerPage \in Nat /\ 0 \in 0..(EntriesPerPage - 1)
  BY PageTablesAssumption
<1>2. p * EntriesPerPage \in Int /\ p * EntriesPerPage = p * EntriesPerPage + 0
  BY <1>1
<1> QED
  BY <1>1, <1>2, PageArithmetic

LEMMA TableCellOf ==
  ASSUME NEW p \in Page
  PROVE  /\ TableCell(p) = 3 * EntriesPerPage + PageOf(p)
         /\ TableCell(p) \in Cell /\ PageOf(TableCell(p)) = 3
         /\ Offset(TableCell(p)) = PageOf(p) /\ PageOf(p) \in 0..(LastTable - 4)
<1>1. p \in Int /\ 3 \in Page
  BY TablesHaveRoom DEF Page
<1>2. p * EntriesPerPage \in Int /\ PageOf(p * EntriesPerPage) = p
  BY <1>1, PageBaseOf
<1>3. /\ TableCell(p) = 3 * EntriesPerPage + PageOf(p)
      /\ PageOf(p) \in 0..(EntriesPerPage - 1) /\ PageOf(p) \in 0..(LastTable - 4)
  BY <1>2, TableCells DEF TableCell
<1>4. PageOf(TableCell(p)) = 3 /\ Offset(TableCell(p)) = PageOf(p)
  BY <1>3, PageArithmetic
<1>5. TableCell(p) \in Int
  BY <1>1, <1>3, TablesHaveRoom
<1> QED
  BY <1>1, <1>3, <1>4, <1>5, CellsHavePages

LEMMA LeafCellOf ==
  ASSUME NEW m, NEW p \in Page, LeafTable(m, p) \in 4..LastTable
  PROVE  /\ LeafCell(m, p) \in Cell
         /\ PageOf(LeafCell(m, p)) = LeafTable(m, p)
         /\ Offset(LeafCell(m, p)) = Offset(p)
<1>1. PICK t \in 4..LastTable : t = LeafTable(m, p)
  OBVIOUS
<1>2. p \in Int /\ t \in Int /\ t \in Page /\ LastTable \in Int
  BY TablesHaveRoom DEF Page
<1>3. p * EntriesPerPage \in Int /\ PageOf(p * EntriesPerPage) = p
  BY <1>2, PageBaseOf
<1>4. CellIn(t, p * EntriesPerPage, 1) = t * EntriesPerPage + Offset(p)
  BY <1>2, <1>3, TableCells
<1>5. LeafCell(m, p) = t * EntriesPerPage + Offset(p)
  BY <1>1, <1>4 DEF LeafCell
<1>6. Offset(p) \in 0..(EntriesPerPage - 1)
  BY <1>2, AddressParts
<1>7. /\ PageOf(LeafCell(m, p)) = t /\ Offset(LeafCell(m, p)) = Offset(p)
  BY <1>2, <1>5, <1>6, PageArithmetic
<1>8. LeafCell(m, p) \in Int
  BY <1>2, <1>5, <1>6, TablesHaveRoom
<1> QED
  BY <1>1, <1>2, <1>7, <1>8, CellsHavePages

LEMMA SameCells ==
  ASSUME NEW a \in Int, PageOf(a) \in Page
  PROVE  /\ CellIn(CR3, a, PgdSpan) = CellIn(CR3, 0, PgdSpan)
         /\ CellIn(2, a, PudSpan) = CellIn(2, 0, PudSpan)
         /\ CellIn(3, a, PmdSpan) = TableCell(PageOf(a))
         /\ \A t \in Int : CellIn(t, a, 1) =
                             CellIn(t, PageOf(a) * EntriesPerPage, 1)
<1>1. PICK p \in Page : p = PageOf(a)
  OBVIOUS
<1>2. p \in Int /\ 0 \in Page
  BY TablesHaveRoom DEF Page
<1>3. PageOf(p * EntriesPerPage) = p /\ PageOf(0) = 0
  <2>1. PageOf(0 * EntriesPerPage) = 0
    BY PageBaseOf
  <2>2. 0 * EntriesPerPage = 0
    BY TablesHaveRoom
  <2> QED
    BY <1>2, <2>1, <2>2, PageBaseOf
<1>4. \A t, span \in Int : CellIn(t, a, span) = CellIn(t, p * EntriesPerPage, span)
  BY <1>1, <1>3 DEF CellIn, Index
<1>5. /\ CellIn(CR3, a, PgdSpan) = CR3 * EntriesPerPage
      /\ CellIn(CR3, 0, PgdSpan) = CR3 * EntriesPerPage
      /\ CellIn(2, a, PudSpan) = 2 * EntriesPerPage
      /\ CellIn(2, 0, PudSpan) = 2 * EntriesPerPage
  <2>1. CR3 \in Int /\ PageOf(0) \in Page
    BY <1>2, <1>3 DEF CR3
  <2> QED
    BY <2>1, TableCells
<1>6. PmdSpan \in Int
  BY TablesHaveRoom DEF PmdSpan
<1>7. CellIn(3, a, PmdSpan) = TableCell(p)
  BY <1>4, <1>6 DEF TableCell
<1> QED
  BY <1>1, <1>4, <1>5, <1>7

LEMMA UpperCells ==
  /\ CellIn(CR3, 0, PgdSpan) \in Cell /\ PageOf(CellIn(CR3, 0, PgdSpan)) = 1
  /\ CellIn(2, 0, PudSpan) \in Cell /\ PageOf(CellIn(2, 0, PudSpan)) = 2
<1>1. 0 \in Int /\ PageOf(0) \in Page
  <2>1. PageOf(0 * EntriesPerPage) = 0 /\ 0 * EntriesPerPage = 0
    BY PageBaseOf, TablesHaveRoom
  <2> QED
    BY <2>1, TablesHaveRoom
<1>2. /\ CellIn(CR3, 0, PgdSpan) = 1 * EntriesPerPage
      /\ CellIn(2, 0, PudSpan) = 2 * EntriesPerPage
  BY <1>1, TableCells DEF CR3
<1>3. /\ 1 * EntriesPerPage \in Int /\ PageOf(1 * EntriesPerPage) = 1
      /\ 2 * EntriesPerPage \in Int /\ PageOf(2 * EntriesPerPage) = 2
  BY PageBaseOf
<1>4. 1 \in Page /\ 2 \in Page
  BY TablesHaveRoom
<1> QED
  BY <1>2, <1>3, <1>4, CellsHavePages

(* Below a table, only its own cells: two pages share a cell when they are *)
(* the same.                                                               *)
LEMMA LeavesAreApart ==
  ASSUME NEW m, NEW u, NEW n \in 3..LastTable, TreeOf(m, u, n),
         NEW p \in Page, NEW q \in Page, HasTable(m, p), HasTable(m, q),
         LeafCell(m, p) = LeafCell(m, q)
  PROVE  p = q
<1>1. LeafTable(m, p) \in 4..LastTable /\ LeafTable(m, q) \in 4..LastTable
  BY TablesHaveRoom DEF TreeOf, LowestTables
<1>2. LeafTable(m, p) = LeafTable(m, q) /\ Offset(p) = Offset(q)
  BY <1>1, LeafCellOf
<1>3. TableCell(p) = TableCell(q)
  BY <1>2 DEF TreeOf, LowestTables
<1>4. PageOf(p) = PageOf(q)
  BY <1>3, TableCellOf
<1>5. p \in Int /\ q \in Int
  BY TablesHaveRoom DEF Page
<1> QED
  BY <1>2, <1>4, <1>5, AddressParts

LEMMA HasTableDef ==
  ASSUME NEW m, NEW p
  PROVE  HasTable(m, p) <=> m[TableCell(p)] # 0
BY DEF HasTable, not_present

(* A table for page p: the allocator hands out the page behind the tables  *)
(* there are, which is blank and before the first page that is mapped.     *)
LEMMA RoomForOneMore ==
  ASSUME NEW m, NEW u, NEW n \in 3..LastTable, TreeOf(m, u, n),
         NEW p \in Page, ~ HasTable(m, p)
  PROVE  n + 1 \in 4..LastTable
<1> DEFINE made == EntriesMade(m)
           all  == {TableCell(q) : q \in Page}
           first == 3 * EntriesPerPage
<1>1. Cardinality(made) = n - 3
  BY DEF TreeOf, LowestTables
<1>2. first \in Int /\ LastTable \in Int
  BY TablesHaveRoom
<1>3. all \subseteq first..(first + LastTable - 4)
  <2> SUFFICES ASSUME NEW q \in Page
               PROVE  TableCell(q) \in first..(first + LastTable - 4)
    OBVIOUS
  <2>1. PICK k \in 0..(LastTable - 4) : TableCell(q) = first + k
    BY TableCellOf
  <2> QED
    BY <1>2, <2>1
<1>4. TableCell(p) \notin made
  BY HasTableDef DEF EntriesMade
<1> DEFINE more == made \cup {TableCell(p)}
<1>5. more \subseteq first..(first + LastTable - 4)
  BY <1>3 DEF EntriesMade
<1> HIDE DEF made, all, first
<1>6. /\ IsFiniteSet(first..(first + LastTable - 4))
      /\ Cardinality(first..(first + LastTable - 4)) = LastTable - 3
  <2>1. first + LastTable - 4 \in Int /\ first <= first + LastTable - 4
    BY <1>2, TablesHaveRoom
  <2>2. first + LastTable - 4 - first + 1 = LastTable - 3
    BY <1>2
  <2> QED
    BY <1>2, <2>1, <2>2, FS_Interval
<1>7. IsFiniteSet(more) /\ Cardinality(more) <= LastTable - 3
  <2>1. PICK span : span = first..(first + LastTable - 4)
    OBVIOUS
  <2>2. /\ IsFiniteSet(span) /\ Cardinality(span) = LastTable - 3
        /\ more \in SUBSET span
    BY <1>5, <1>6, <2>1
  <2>3. IsFiniteSet(more) /\ Cardinality(more) <= Cardinality(span)
    BY <2>2, FS_Subset, Zenon
  <2> QED
    BY <2>2, <2>3, Zenon
<1>8. IsFiniteSet(made)
  BY <1>7, FS_Subset
<1>9. Cardinality(more) = n - 3 + 1
  BY <1>1, <1>4, <1>8, FS_AddElement
<1> QED
  BY <1>2, <1>7, <1>9

LEMMA NextFree ==
  ASSUME NEW u, NEW n \in Nat, n + 1 \in 2..LastTable, u \cap 0..LastTable = 2..n
  PROVE  allocate_page(u) = n + 1
<1>1. /\ u \cap 0..LastTable = 2..n /\ n + 1 \in 2..(NB_PAGE - 1)
      /\ LastTable \in Int /\ NB_PAGE \in Int
  BY TablesHaveRoom
<1>2. n + 1 \notin u
  BY <1>1
<1>3. n + 1 \in FreePages(u)
  BY <1>1, <1>2 DEF FreePages
<1>4. \A q \in FreePages(u) : n + 1 <= q
  <2> SUFFICES ASSUME NEW q \in 2..(NB_PAGE - 1), q < n + 1 PROVE q \in u
    BY <1>1 DEF FreePages
  <2>1. q \in 2..n
    BY <1>1
  <2> QED
    BY <1>1, <2>1
<1>5. \A q \in FreePages(u) : q \in Int
  BY DEF FreePages
<1>6. \A p \in FreePages(u) :
        (\A q \in FreePages(u) : p <= q) => p = n + 1
  BY <1>3, <1>4, <1>5
<1> QED
  BY <1>3, <1>4, <1>6 DEF allocate_page

LEMMA NextTable ==
  ASSUME NEW m, NEW u, NEW n \in 3..LastTable, TreeOf(m, u, n), n + 1 \in 4..LastTable
  PROVE  allocate_page(u) = n + 1
<1>1. n \in Nat /\ n + 1 \in 2..LastTable /\ u \cap 0..LastTable = 2..n
  BY TablesHaveRoom DEF TreeOf, TablesMarked
<1> QED
  BY <1>1, NextFree

(* What memory_map leaves as it is: pages that are mapped, and all of      *)
(* memory behind the tables.                                               *)
MappedStay(m, m2) == \A q \in Page : IsMapped(m, q) => IsMapped(m2, q)

SameBehind(m, m2) == \A c \in Cell : PageOf(c) > LastTable => m2[c] = m[c]

TableEntered(m, u, p, t, m2, u2) ==
  m2 = [m EXCEPT ![TableCell(p)] = Entry(t)] /\ u2 = u \cup {t}

LEMMA NewTable ==
  ASSUME NEW m, NEW u, NEW n \in 3..LastTable, TreeOf(m, u, n),
         NEW p \in Page, ~ HasTable(m, p), NEW m2, NEW u2,
         TableEntered(m, u, p, n + 1, m2, u2)
  PROVE  /\ n + 1 \in 4..LastTable /\ TreeOf(m2, u2, n + 1)
         /\ HasTable(m2, p) /\ LeafTable(m2, p) = n + 1 /\ ~ IsMapped(m2, p)
         /\ MappedStay(m, m2) /\ SameBehind(m, m2)
<1> USE DEF TableEntered
<1>1. n + 1 \in 4..LastTable
  BY RoomForOneMore
<1>2. n \in Int /\ LastTable \in Int /\ Entry(n + 1) \in Nat /\ Entry(n + 1) # 0
  BY TablesHaveRoom DEF Entry
<1>3. m \in [Cell -> Nat] /\ m2 \in [Cell -> Nat]
  BY <1>2 DEF TreeOf
<1> DEFINE x == TableCell(p)
<1>4. x \in Cell /\ PageOf(x) = 3
  BY TableCellOf
<1>5. m2[x] = Entry(n + 1) /\ \A c \in Cell : c # x => m2[c] = m[c]
  BY <1>3, <1>4 DEF TreeOf
<1> HIDE DEF x, TableEntered
<1>6. \A c \in Cell : PageOf(c) # 3 => m2[c] = m[c]
  BY <1>4, <1>5
<1>7. \A q \in Page : TableCell(q) \in Cell
  BY TableCellOf
<1>8. ASSUME NEW q \in Page, TableCell(q) = x
      PROVE  HasTable(m2, q) /\ LeafTable(m2, q) = n + 1 /\ ~ IsMapped(m2, q)
  <2>1. HasTable(m2, q) /\ LeafTable(m2, q) = n + 1
    BY <1>2, <1>5, <1>8 DEF HasTable, not_present, LeafTable, PointsTo, Entry
  <2>2. LeafCell(m2, q) \in Cell /\ PageOf(LeafCell(m2, q)) = n + 1
    BY <1>1, <2>1, LeafCellOf
  <2>3. m2[LeafCell(m2, q)] = m[LeafCell(m2, q)]
    BY <1>1, <1>6, <2>2
  <2>4. m[LeafCell(m2, q)] = 0
    BY <1>1, <1>2, <2>2 DEF TreeOf, BlankBehind
  <2> QED
    BY <2>1, <2>3, <2>4 DEF IsMapped, not_present
<1>9. ASSUME NEW q \in Page, TableCell(q) # x
      PROVE  /\ HasTable(m2, q) <=> HasTable(m, q)
             /\ LeafTable(m2, q) = LeafTable(m, q)
             /\ LeafCell(m2, q) = LeafCell(m, q)
  BY <1>5, <1>7, <1>9 DEF HasTable, LeafTable, LeafCell
<1>10. ASSUME NEW q \in Page, TableCell(q) # x, HasTable(m, q)
       PROVE  m2[LeafCell(m2, q)] = m[LeafCell(m, q)]
  <2>1. LeafTable(m, q) \in 4..LastTable
    BY <1>2, <1>10 DEF TreeOf, LowestTables
  <2>2. LeafCell(m, q) \in Cell /\ PageOf(LeafCell(m, q)) # 3
    BY <2>1, LeafCellOf
  <2> QED
    BY <1>6, <1>9, <1>10, <2>2
<1>11. \A q \in Page : TableCell(q) = x => ~ HasTable(m, q) /\ ~ IsMapped(m, q)
  BY DEF HasTable, IsMapped, x
<1>12. \A q \in Page : IsMapped(m2, q) <=> IsMapped(m, q)
  BY <1>8, <1>9, <1>10, <1>11 DEF IsMapped
<1>13. \A q \in Page : HasTable(m2, q) => LeafTable(m2, q) \in 4..(n + 1)
  <2> SUFFICES ASSUME NEW q \in Page, HasTable(m2, q)
               PROVE  LeafTable(m2, q) \in 4..(n + 1)
    OBVIOUS
  <2>1. CASE TableCell(q) = x
    <3>1. LeafTable(m2, q) = n + 1 /\ n + 1 \in 4..(n + 1)
      <4>1. LeafTable(m2, q) = n + 1
        BY <1>8, <2>1
      <4>2. n + 1 >= 4
        BY <1>1, <1>2
      <4> QED
        BY <1>2, <4>1, <4>2
    <3> QED
      BY <3>1
  <2>2. CASE TableCell(q) # x
    <3>1. PICK t \in 4..n : t = LeafTable(m, q)
      BY <1>9, <2>2 DEF TreeOf, LowestTables
    <3>2. LeafTable(m2, q) = t
      BY <1>9, <2>2, <3>1
    <3> QED
      BY <1>2, <3>2
  <2> QED
    BY <2>1, <2>2
<1>14. \A q, r \in Page :
         HasTable(m2, q) /\ HasTable(m2, r) /\ LeafTable(m2, q) = LeafTable(m2, r)
           => TableCell(q) = TableCell(r)
  <2>1. \A q \in Page : TableCell(q) # x /\ HasTable(m2, q)
                          => LeafTable(m2, q) # n + 1
    <3> SUFFICES ASSUME NEW q \in Page, TableCell(q) # x, HasTable(m2, q)
                 PROVE  LeafTable(m2, q) # n + 1
      OBVIOUS
    <3>1. PICK t \in 4..n : t = LeafTable(m, q)
      BY <1>9 DEF TreeOf, LowestTables
    <3>2. LeafTable(m2, q) = t
      BY <1>9, <3>1
    <3> QED
      BY <1>2, <3>2
  <2>2. \A q, r \in Page :
          HasTable(m, q) /\ HasTable(m, r) /\ LeafTable(m, q) = LeafTable(m, r)
            => TableCell(q) = TableCell(r)
    BY DEF TreeOf, LowestTables
  <2> QED
    BY <1>8, <1>9, <2>1, <2>2
<1>15. Cardinality(EntriesMade(m2)) = (n + 1) - 3
  <2>1. EntriesMade(m2) = EntriesMade(m) \cup {x}
    <3>1. p \in Page /\ TableCell(p) = x
      BY DEF x
    <3>2. \A q \in Page : HasTable(m2, q) <=> HasTable(m, q) \/ TableCell(q) = x
      BY <1>8, <1>9
    <3> QED
      BY <3>1, <3>2 DEF EntriesMade
  <2>2. x \notin EntriesMade(m)
    BY <1>11 DEF EntriesMade
  <2>3. Cardinality(EntriesMade(m)) = n - 3
    BY DEF TreeOf, LowestTables
  <2>4. IsFiniteSet(EntriesMade(m))
    <3>1. Cell = 0..(MemPages * EntriesPerPage - 1) /\ IsFiniteSet(Cell)
      <4>1. MemPages * EntriesPerPage - 1 \in Int
        BY TablesHaveRoom
      <4> QED
        BY <4>1, FS_Interval DEF Cell
    <3>2. EntriesMade(m) \subseteq Cell
      BY <1>7 DEF EntriesMade
    <3> QED
      BY <3>1, <3>2, FS_Subset
  <2>5. Cardinality(EntriesMade(m) \cup {x}) = n - 3 + 1
    BY <2>2, <2>3, <2>4, FS_AddElement
  <2>6. Cardinality(EntriesMade(m2)) = n - 3 + 1
    BY <2>1, <2>5, Zenon
  <2> QED
    BY <1>2, <2>6
<1>16. \A q \in Page :
         IsMapped(m2, q) => q > LastTable /\ m2[LeafCell(m2, q)] = Entry(q)
  <2> SUFFICES ASSUME NEW q \in Page, IsMapped(m2, q)
               PROVE  q > LastTable /\ m2[LeafCell(m2, q)] = Entry(q)
    OBVIOUS
  <2>1. IsMapped(m, q) /\ HasTable(m, q) /\ TableCell(q) # x
    BY <1>11, <1>12 DEF IsMapped
  <2>2. q > LastTable /\ m[LeafCell(m, q)] = Entry(q)
    BY <2>1 DEF TreeOf, PagesAtHome
  <2> QED
    BY <1>10, <2>1, <2>2
<1>17. \A c \in Cell : PageOf(c) \in (n + 1 + 1)..LastTable => m2[c] = 0
  <2> SUFFICES ASSUME NEW c \in Cell, PageOf(c) \in (n + 1 + 1)..LastTable
               PROVE  m2[c] = 0
    OBVIOUS
  <2>1. PageOf(c) \in (n + 1)..LastTable /\ PageOf(c) # 3
    BY <1>1, <1>2
  <2> QED
    BY <1>6, <2>1 DEF TreeOf, BlankBehind
<1>18. u2 \subseteq Page /\ u2 \cap 0..LastTable = 2..(n + 1)
  <2>1. u \subseteq Page /\ u \cap 0..LastTable = 2..n
    BY DEF TreeOf, TablesMarked
  <2>2. n + 1 \in Page
    BY <1>1, TablesHaveRoom
  <2> QED
    BY <1>1, <1>2, <2>1, <2>2 DEF TableEntered
<1>19. /\ m2[CellIn(CR3, 0, PgdSpan)] = Entry(2)
       /\ m2[CellIn(2, 0, PudSpan)] = Entry(3)
  <2>1. /\ m[CellIn(CR3, 0, PgdSpan)] = Entry(2)
        /\ m[CellIn(2, 0, PudSpan)] = Entry(3)
    BY DEF TreeOf, UpperTables
  <2> QED
    BY <1>6, <2>1, UpperCells
<1>20. TreeOf(m2, u2, n + 1)
  <2>1. LowestTables(m2, n + 1)
    BY <1>13, <1>14, <1>15, Zenon DEF LowestTables
  <2>2. TablesMarked(u2, n + 1) /\ UpperTables(m2)
    BY <1>18, <1>19, Zenon DEF TablesMarked, UpperTables
  <2>3. BlankBehind(m2, n + 1) /\ PagesAtHome(m2)
    BY <1>16, <1>17, Zenon DEF BlankBehind, PagesAtHome
  <2> QED
    BY <1>3, <2>1, <2>2, <2>3, Zenon DEF TreeOf
<1>21. MappedStay(m, m2) /\ SameBehind(m, m2)
  BY <1>6, <1>12, TablesHaveRoom DEF MappedStay, SameBehind
<1> QED
  BY <1>1, <1>8, <1>20, <1>21 DEF x

(* An entry for page p, behind the tables, in the table it has.            *)
LEMMA NewPage ==
  ASSUME NEW m, NEW u, NEW n \in 3..LastTable, TreeOf(m, u, n),
         NEW p \in Page, p > LastTable, HasTable(m, p), NEW m2, NEW u2,
         ~ IsMapped(m, p),
         m2 = [m EXCEPT ![LeafCell(m, p)] = Entry(p)], u2 = u \cup {p}
  PROVE  /\ TreeOf(m2, u2, n) /\ IsMapped(m2, p)
         /\ MappedStay(m, m2) /\ SameBehind(m, m2)
<1>1. /\ n \in Int /\ LastTable \in Int /\ LastTable >= 4
      /\ p \in Int /\ Entry(p) \in Nat /\ Entry(p) # 0
  BY TablesHaveRoom DEF Entry, Page
<1>2. m \in [Cell -> Nat] /\ m2 \in [Cell -> Nat]
  BY <1>1 DEF TreeOf
<1>3. LeafTable(m, p) \in 4..n
  BY DEF TreeOf, LowestTables
<1> DEFINE x == LeafCell(m, p)
<1>4. x \in Cell /\ PageOf(x) \in 4..n
  <2>1. LeafTable(m, p) \in 4..LastTable
    BY <1>1, <1>3
  <2> QED
    BY <1>3, <2>1, LeafCellOf
<1>5. m2[x] = Entry(p) /\ \A c \in Cell : c # x => m2[c] = m[c]
  BY <1>2, <1>4
<1> HIDE DEF x
<1>6. \A c \in Cell : PageOf(c) \notin 4..n => m2[c] = m[c]
  BY <1>4, <1>5
<1>7. \A q \in Page : m2[TableCell(q)] = m[TableCell(q)]
  <2> SUFFICES ASSUME NEW q \in Page PROVE m2[TableCell(q)] = m[TableCell(q)]
    OBVIOUS
  <2>1. TableCell(q) \in Cell /\ PageOf(TableCell(q)) = 3
    BY TableCellOf
  <2> QED
    BY <1>1, <1>6, <2>1
<1>8. \A q \in Page :
        /\ HasTable(m2, q) <=> HasTable(m, q)
        /\ LeafTable(m2, q) = LeafTable(m, q)
        /\ LeafCell(m2, q) = LeafCell(m, q)
  BY <1>7 DEF HasTable, LeafTable, LeafCell
<1>9. ASSUME NEW q \in Page, HasTable(m, q), q # p
      PROVE  m2[LeafCell(m2, q)] = m[LeafCell(m, q)]
  <2>1. LeafTable(m, q) \in 4..LastTable
    <3>1. LeafTable(m, q) \in 4..n
      BY <1>9 DEF TreeOf, LowestTables
    <3> QED
      BY <1>1, <3>1
  <2>2. LeafCell(m, q) \in Cell
    BY <2>1, LeafCellOf
  <2>3. LeafCell(m, q) # x
    BY <1>9, LeavesAreApart DEF x
  <2> QED
    BY <1>5, <1>8, <2>2, <2>3
<1>10. m2[LeafCell(m2, p)] = Entry(p)
  BY <1>5, <1>8 DEF x
<1>11. IsMapped(m2, p)
  BY <1>1, <1>8, <1>10 DEF IsMapped, not_present
<1>12. \A q \in Page : q # p => (IsMapped(m2, q) <=> IsMapped(m, q))
  BY <1>8, <1>9 DEF IsMapped
<1>13. PagesAtHome(m2)
  <2> SUFFICES ASSUME NEW q \in Page, IsMapped(m2, q)
               PROVE  q > LastTable /\ m2[LeafCell(m2, q)] = Entry(q)
    BY DEF PagesAtHome
  <2>1. CASE q = p
    BY <1>10, <2>1
  <2>2. CASE q # p
    <3>1. IsMapped(m, q) /\ HasTable(m, q)
      BY <1>12, <2>2 DEF IsMapped
    <3>2. q > LastTable /\ m[LeafCell(m, q)] = Entry(q)
      BY <3>1 DEF TreeOf, PagesAtHome
    <3> QED
      BY <1>9, <2>2, <3>1, <3>2
  <2> QED
    BY <2>1, <2>2
<1>14. LowestTables(m2, n)
  <2>1. LowestTables(m, n)
    BY DEF TreeOf
  <2>2. EntriesMade(m2) = EntriesMade(m)
    BY <1>8 DEF EntriesMade
  <2> QED
    BY <1>8, <2>1, <2>2 DEF LowestTables
<1>15. BlankBehind(m2, n)
  <2> SUFFICES ASSUME NEW c \in Cell, PageOf(c) \in (n + 1)..LastTable
               PROVE  m2[c] = 0
    BY DEF BlankBehind
  <2>1. PageOf(c) \notin 4..n
    BY <1>1
  <2> QED
    BY <1>6, <2>1 DEF TreeOf, BlankBehind
<1>16. TablesMarked(u2, n)
  <2>1. u \subseteq Page /\ u \cap 0..LastTable = 2..n
    BY DEF TreeOf, TablesMarked
  <2> QED
    BY <1>1, <2>1 DEF TablesMarked
<1>17. UpperTables(m2)
  <2>1. UpperTables(m)
    BY DEF TreeOf
  <2> QED
    BY <1>6, <2>1, UpperCells DEF UpperTables
<1>18. TreeOf(m2, u2, n)
  BY <1>2, <1>13, <1>14, <1>15, <1>16, <1>17 DEF TreeOf
<1>19. \A c \in Cell : PageOf(c) > LastTable => m2[c] = m[c]
  <2> SUFFICES ASSUME NEW c \in Cell, PageOf(c) > LastTable PROVE m2[c] = m[c]
    OBVIOUS
  <2>1. PageOf(c) \in Int
    BY AddressParts DEF Cell
  <2> QED
    BY <1>1, <1>6, <2>1
<1> QED
  BY <1>11, <1>12, <1>18, <1>19 DEF MappedStay, SameBehind

-----------------------------------------------------------------------------
(* The first two levels of memory_map find the upper tables.               *)
LEMMA TableIsThere ==
  ASSUME NEW st, NEW c, ~ not_present(st.mem[c])
  PROVE  WithTable(st, c) = st
BY DEF WithTable

LEMMA TableIsMade ==
  ASSUME NEW m, NEW u, NEW p \in Page, ~ HasTable(m, p), NEW t, t = allocate_page(u),
         t # 0, NEW m2, NEW u2, TableEntered(m, u, p, t, m2, u2),
         NEW st, st = WithTable([mem |-> m, used |-> u], TableCell(p))
  PROVE  st.mem = m2 /\ st.used = u2 /\ st = [mem |-> st.mem, used |-> st.used]
BY DEF WithTable, HasTable, TableEntered, Marked

LEMMA FromTheThirdLevel ==
  ASSUME NEW m, NEW u, UpperTables(m),
         NEW a \in Int, PageOf(a) \in Page, NEW b,
         NEW s3, s3 = WithTable([mem |-> m, used |-> u], TableCell(PageOf(a)))
  PROVE  memory_map([mem |-> m, used |-> u], a, b)
           = WithPage(s3, CellIn(PointsTo(s3.mem[TableCell(PageOf(a))]), a, 1), a, b)
<1> DEFINE st == [mem |-> m, used |-> u]
           pgd == CellIn(CR3, a, PgdSpan)
           pud == CellIn(2, a, PudSpan)
           pmd == CellIn(3, a, PmdSpan)
<1>1. st.mem[pgd] = Entry(2) /\ st.mem[pud] = Entry(3)
  BY SameCells DEF UpperTables
<1>2. pmd = TableCell(PageOf(a))
  BY SameCells
<1>3. /\ ~ not_present(Entry(2)) /\ PointsTo(Entry(2)) = 2
      /\ ~ not_present(Entry(3)) /\ PointsTo(Entry(3)) = 3
  BY DEF Entry, not_present, PointsTo
<1>4. WithTable(st, pgd) = st /\ PointsTo(st.mem[pgd]) = 2
  BY <1>1, <1>3, TableIsThere
<1>5. WithTable(st, pud) = st /\ PointsTo(st.mem[pud]) = 3
  BY <1>1, <1>3, TableIsThere
<1>6. WithTable(st, pmd) = s3
  BY <1>2
<1>7. memory_map(st, a, b)
        = WithPage(WithTable(st, pmd),
                   CellIn(PointsTo(WithTable(st, pmd).mem[pmd]), a, 1), a, b)
  BY <1>4, <1>5, Zenon DEF memory_map
<1> QED
  BY <1>2, <1>6, <1>7, Zenon

(* The third level makes the table for page p, if there is none.           *)
LEMMA ThirdLevel ==
  ASSUME NEW m, NEW u, NEW n \in 3..LastTable, TreeOf(m, u, n), NEW p \in Page,
         NEW st, st = WithTable([mem |-> m, used |-> u], TableCell(p))
  PROVE  /\ \E k \in 3..LastTable : TreeOf(st.mem, st.used, k)
         /\ HasTable(st.mem, p) /\ st = [mem |-> st.mem, used |-> st.used]
         /\ IsMapped(m, p) => st.mem = m /\ st.used = u
         /\ MappedStay(m, st.mem) /\ SameBehind(m, st.mem)
<1>1. CASE HasTable(m, p)
  <2>1. ~ not_present([mem |-> m, used |-> u].mem[TableCell(p)])
    BY <1>1 DEF HasTable
  <2>2. st = [mem |-> m, used |-> u]
    BY <2>1, TableIsThere
  <2> QED
    BY <1>1, <2>2 DEF MappedStay, SameBehind
<1>2. CASE ~ HasTable(m, p)
  <2>1. PICK m2, u2 : TableEntered(m, u, p, n + 1, m2, u2)
    BY DEF TableEntered
  <2>2. /\ n + 1 \in 4..LastTable /\ TreeOf(m2, u2, n + 1)
        /\ HasTable(m2, p)
        /\ MappedStay(m, m2) /\ SameBehind(m, m2)
    BY <1>2, <2>1, NewTable, Zenon
  <2>3. allocate_page(u) = n + 1
    BY <2>2, NextTable
  <2>4. n \in Int /\ n + 1 # 0
    OBVIOUS
  <2>5. st.mem = m2 /\ st.used = u2 /\ st = [mem |-> st.mem, used |-> st.used]
    BY <1>2, <2>1, <2>3, <2>4, TableIsMade
  <2>6. ~ IsMapped(m, p)
    BY <1>2 DEF IsMapped
  <2>7. n + 1 \in 3..LastTable
    BY <2>2, <2>4, TablesHaveRoom
  <2> QED
    BY <2>2, <2>5, <2>6, <2>7
<1> QED
  BY <1>1, <1>2

(* What one call of memory_map does, for an address behind the tables.     *)
LEMMA MapsThePage ==
  ASSUME NEW m, NEW u, NEW n \in 3..LastTable, TreeOf(m, u, n),
         NEW a \in Int, NEW b \in Int, NEW p \in Page, p > LastTable,
         PageOf(a) = p, PageOf(b) = p,
         NEW st, st = memory_map([mem |-> m, used |-> u], a, b)
  PROVE  /\ \E k \in 3..LastTable : TreeOf(st.mem, st.used, k)
         /\ IsMapped(st.mem, p) /\ st = [mem |-> st.mem, used |-> st.used]
         /\ MappedStay(m, st.mem) /\ SameBehind(m, st.mem)
         /\ IsMapped(m, p) => st.mem = m /\ st.used = u
<1>1. p \in Int /\ p # 0 /\ LastTable \in Int /\ n \in Int
  BY TablesHaveRoom DEF Page
<1>2. a # 0 /\ b # 0
  <2>1. PageOf(0) = 0
    <3>1. PageOf(0 * EntriesPerPage) = 0 /\ 0 * EntriesPerPage = 0
      BY PageBaseOf, TablesHaveRoom
    <3> QED
      BY <3>1
  <2> QED
    BY <1>1, <2>1
<1>3. PICK s3 : s3 = WithTable([mem |-> m, used |-> u], TableCell(p))
  OBVIOUS
<1>4. st = WithPage(s3, CellIn(PointsTo(s3.mem[TableCell(p)]), a, 1), a, b)
  <2>1. UpperTables(m) /\ PageOf(a) \in Page
    BY DEF TreeOf
  <2>2. s3 = WithTable([mem |-> m, used |-> u], TableCell(PageOf(a)))
    BY <1>3
  <2>3. memory_map([mem |-> m, used |-> u], a, b)
          = WithPage(s3, CellIn(PointsTo(s3.mem[TableCell(PageOf(a))]), a, 1), a, b)
    BY <2>1, <2>2, FromTheThirdLevel
  <2> QED
    BY <2>3, Zenon
<1>5. /\ \E k \in 3..LastTable : TreeOf(s3.mem, s3.used, k)
      /\ HasTable(s3.mem, p) /\ s3 = [mem |-> s3.mem, used |-> s3.used]
      /\ IsMapped(m, p) => s3.mem = m /\ s3.used = u
      /\ MappedStay(m, s3.mem) /\ SameBehind(m, s3.mem)
  BY <1>3, ThirdLevel
<1>6. PICK m3, u3 : m3 = s3.mem /\ u3 = s3.used
  OBVIOUS
<1>7. PICK k \in 3..LastTable : TreeOf(m3, u3, k)
  BY <1>5, <1>6
<1>8. PICK leaf : leaf = LeafCell(m3, p)
  OBVIOUS
<1>9. st = WithPage(s3, leaf, a, b)
  <2>1. LeafTable(m3, p) \in 4..k
    BY <1>5, <1>6, <1>7 DEF TreeOf, LowestTables
  <2>2. PICK t \in Int : t = LeafTable(m3, p)
    BY <2>1
  <2>3. CellIn(t, a, 1) = CellIn(t, p * EntriesPerPage, 1)
    BY SameCells
  <2>4. CellIn(LeafTable(m3, p), a, 1) = leaf
    BY <1>8, <2>2, <2>3, Zenon DEF LeafCell
  <2>5. CellIn(PointsTo(s3.mem[TableCell(p)]), a, 1) = leaf
    BY <1>6, <2>4, Zenon DEF LeafTable
  <2> QED
    BY <1>4, <2>5, Zenon
<1>10. CASE IsMapped(m3, p)
  <2>1. ~ not_present(s3.mem[leaf])
    BY <1>6, <1>8, <1>10 DEF IsMapped
  <2>2. st = s3
    BY <1>9, <2>1 DEF WithPage
  <2> QED
    BY <1>5, <1>6, <1>7, <1>10, <2>2
<1>11. CASE ~ IsMapped(m3, p)
  <2>1. not_present(s3.mem[leaf])
    BY <1>5, <1>6, <1>8, <1>11 DEF IsMapped
  <2>2. st = [mem |-> [s3.mem EXCEPT ![leaf] = Entry(p)], used |-> Marked(s3.used, p)]
    BY <1>2, <1>9, <2>1 DEF WithPage
  <2>3. Marked(s3.used, p) = s3.used \cup {p}
    BY <1>1 DEF Marked
  <2>4. PICK m4, u4 : m4 = st.mem /\ u4 = st.used
    OBVIOUS
  <2>5. m4 = [m3 EXCEPT ![LeafCell(m3, p)] = Entry(p)] /\ u4 = u3 \cup {p}
    BY <1>6, <1>8, <2>2, <2>3, <2>4
  <2>6. /\ TreeOf(m4, u4, k) /\ IsMapped(m4, p)
        /\ MappedStay(m3, m4) /\ SameBehind(m3, m4)
    BY <1>5, <1>6, <1>7, <1>11, <2>5, NewPage
  <2>7. ~ IsMapped(m, p)
    BY <1>5, <1>6, <1>11
  <2> QED
    BY <1>5, <1>6, <1>7, <2>2, <2>4, <2>6, <2>7 DEF MappedStay, SameBehind
<1> QED
  BY <1>10, <1>11

-----------------------------------------------------------------------------
(* The first call finds all of memory blank and makes the upper tables.    *)
CellEntered(m, u, c, t, m2, u2) == m2 = [m EXCEPT ![c] = Entry(t)] /\ u2 = u \cup {t}

LEMMA EntryIsMade ==
  ASSUME NEW m, NEW u, NEW c, m[c] = 0, NEW t, t = allocate_page(u), t # 0,
         NEW m2, NEW u2, CellEntered(m, u, c, t, m2, u2)
  PROVE  WithTable([mem |-> m, used |-> u], c) = [mem |-> m2, used |-> u2]
BY DEF WithTable, CellEntered, Marked, not_present

LEMMA FromTheFirstLevel ==
  ASSUME NEW m, NEW u, NEW a, NEW b, NEW pgd, NEW m2, NEW u2, NEW pud, NEW m3, NEW u3,
         pgd = CellIn(CR3, a, PgdSpan),
         WithTable([mem |-> m, used |-> u], pgd) = [mem |-> m2, used |-> u2],
         pud = CellIn(PointsTo(m2[pgd]), a, PudSpan),
         WithTable([mem |-> m2, used |-> u2], pud) = [mem |-> m3, used |-> u3],
         WithTable([mem |-> m3, used |-> u3], pgd) = [mem |-> m3, used |-> u3],
         WithTable([mem |-> m3, used |-> u3], pud) = [mem |-> m3, used |-> u3],
         m3[pgd] = m2[pgd]
  PROVE  memory_map([mem |-> m, used |-> u], a, b)
           = memory_map([mem |-> m3, used |-> u3], a, b)
BY DEF memory_map

LEMMA TheFirstTables ==
  ASSUME NEW m, m = [c \in Cell |-> 0],
         NEW a \in Int, NEW p \in Page, p = PageOf(a), p > LastTable,
         NEW st, st = memory_map([mem |-> m, used |-> {}], a, a)
  PROVE  \E k \in 3..LastTable : TreeOf(st.mem, st.used, k)
<1>1. PICK pgd, pud : pgd = CellIn(CR3, a, PgdSpan) /\ pud = CellIn(2, a, PudSpan)
  OBVIOUS
<1>2. /\ pgd = CellIn(CR3, 0, PgdSpan) /\ pud = CellIn(2, 0, PudSpan)
      /\ pgd \in Cell /\ PageOf(pgd) = 1 /\ pud \in Cell /\ PageOf(pud) = 2
      /\ pgd # pud
  <2>1. pgd = CellIn(CR3, 0, PgdSpan) /\ pud = CellIn(2, 0, PudSpan)
    BY <1>1, SameCells
  <2> QED
    BY <2>1, UpperCells
<1>3. /\ 2 = allocate_page({}) /\ 3 = allocate_page({} \cup {2})
      /\ LastTable \in Int /\ LastTable >= 4
  <2>1. LastTable \in Int /\ LastTable >= 4
    BY TablesHaveRoom
  <2>2. allocate_page({}) = 1 + 1
    <3>1. 1 \in Nat /\ 1 + 1 \in 2..LastTable /\ {} \cap 0..LastTable = 2..1
      BY <2>1
    <3> QED
      BY <3>1, NextFree
  <2>3. allocate_page({} \cup {2}) = 2 + 1
    <3>1. 2 \in Nat /\ 2 + 1 \in 2..LastTable /\ ({} \cup {2}) \cap 0..LastTable = 2..2
      BY <2>1
    <3> QED
      BY <3>1, NextFree
  <2> QED
    BY <2>1, <2>2, <2>3
<1>4. PICK m2, u2, m3, u3 :
        CellEntered(m, {}, pgd, 2, m2, u2) /\ CellEntered(m2, u2, pud, 3, m3, u3)
  BY DEF CellEntered
<1>5. /\ m2[pgd] = Entry(2) /\ m2[pud] = 0
      /\ m3[pgd] = Entry(2) /\ m3[pud] = Entry(3) /\ m3 \in [Cell -> Nat]
      /\ \A c \in Cell : c # pgd /\ c # pud => m3[c] = 0
      /\ u2 = {} \cup {2} /\ u3 = {2, 3}
  <2>1. Entry(2) \in Nat /\ Entry(3) \in Nat
    BY DEF Entry
  <2>2. m2 = [m EXCEPT ![pgd] = Entry(2)] /\ m3 = [m2 EXCEPT ![pud] = Entry(3)]
        /\ u2 = {} \cup {2} /\ u3 = u2 \cup {3}
    BY <1>4 DEF CellEntered
  <2>3. m2 \in [Cell -> Nat] /\ m2[pgd] = Entry(2) /\ \A c \in Cell : c # pgd => m2[c] = 0
    BY <1>2, <2>1, <2>2
  <2>4. m3 \in [Cell -> Nat] /\ m3[pud] = Entry(3)
        /\ \A c \in Cell : c # pud => m3[c] = m2[c]
    BY <1>2, <2>1, <2>2, <2>3
  <2> QED
    BY <1>2, <2>2, <2>3, <2>4
<1>6. /\ WithTable([mem |-> m, used |-> {}], pgd) = [mem |-> m2, used |-> u2]
      /\ WithTable([mem |-> m2, used |-> u2], pud) = [mem |-> m3, used |-> u3]
  <2>1. WithTable([mem |-> m, used |-> {}], pgd) = [mem |-> m2, used |-> u2]
    <3>1. m[pgd] = 0
      BY <1>2
    <3> QED
      BY <1>3, <1>4, <3>1, EntryIsMade
  <2>2. WithTable([mem |-> m2, used |-> u2], pud) = [mem |-> m3, used |-> u3]
    BY <1>3, <1>4, <1>5, EntryIsMade
  <2> QED
    BY <2>1, <2>2
<1>7. /\ WithTable([mem |-> m3, used |-> u3], pgd) = [mem |-> m3, used |-> u3]
      /\ WithTable([mem |-> m3, used |-> u3], pud) = [mem |-> m3, used |-> u3]
  BY <1>5 DEF WithTable, Entry, not_present
<1>8. pud = CellIn(PointsTo(m2[pgd]), a, PudSpan)
  BY <1>1, <1>5 DEF PointsTo, Entry
<1>9. memory_map([mem |-> m, used |-> {}], a, a)
        = memory_map([mem |-> m3, used |-> u3], a, a)
  BY <1>1, <1>5, <1>6, <1>7, <1>8, FromTheFirstLevel
<1>10. TreeOf(m3, u3, 3)
  <2>1. TablesMarked(u3, 3)
    <3>1. 2 \in Page /\ 3 \in Page
      BY <1>3, TablesHaveRoom
    <3> QED
      BY <1>3, <1>5, <3>1 DEF TablesMarked
  <2>2. UpperTables(m3)
    BY <1>2, <1>5 DEF UpperTables
  <2>3. \A q \in Page : ~ HasTable(m3, q)
    <3> SUFFICES ASSUME NEW q \in Page PROVE m3[TableCell(q)] = 0
      BY DEF HasTable, not_present
    <3>1. TableCell(q) \in Cell /\ PageOf(TableCell(q)) = 3
      BY TableCellOf
    <3> QED
      BY <1>2, <1>5, <3>1
  <2>4. LowestTables(m3, 3)
    <3>1. EntriesMade(m3) = {}
      BY <2>3 DEF EntriesMade
    <3>2. Cardinality(EntriesMade(m3)) = 3 - 3
      BY <3>1, FS_EmptySet
    <3> QED
      BY <2>3, <3>2 DEF LowestTables
  <2>5. BlankBehind(m3, 3)
    <3> SUFFICES ASSUME NEW c \in Cell, PageOf(c) \in (3 + 1)..LastTable
                 PROVE  m3[c] = 0
      BY DEF BlankBehind
    <3>1. PageOf(c) # 1 /\ PageOf(c) # 2
      BY <1>3
    <3> QED
      BY <1>2, <1>5, <3>1
  <2>6. PagesAtHome(m3)
    BY <2>3 DEF PagesAtHome, IsMapped
  <2> QED
    BY <1>5, <2>1, <2>2, <2>4, <2>5, <2>6 DEF TreeOf
<1>11. st = memory_map([mem |-> m3, used |-> u3], a, a)
  BY <1>9
<1>12. 3 \in 3..LastTable
  BY <1>3
<1> QED
  BY <1>10, <1>11, <1>12, MapsThePage

-----------------------------------------------------------------------------
(* The walk of the vCPU, in memory that is blank and in a tree.            *)
LEMMA WalkOfBlank ==
  ASSUME NEW m, m = [c \in Cell |-> 0], NEW a \in Int, PageOf(a) \in Page
  PROVE  Len(WalkOf(m, a)) = 1
<1>1. CellIn(CR3, a, PgdSpan) \in Cell
  BY SameCells, UpperCells
<1>2. not_present(m[CellIn(CR3, a, PgdSpan)])
  BY <1>1 DEF not_present
<1>3. WalkOf(m, a) = <<CR3>>
  BY <1>2 DEF WalkOf
<1> QED
  BY <1>3

LEMMA WalkOfTree ==
  ASSUME NEW m, NEW u, NEW n \in 3..LastTable, TreeOf(m, u, n),
         NEW a \in Int, NEW p \in Page, p = PageOf(a)
  PROVE  /\ Len(WalkOf(m, a)) = 5 <=> IsMapped(m, p)
         /\ IsMapped(m, p) => /\ WalkOf(m, a) = <<1, 2, 3, LeafTable(m, p), p>>
                              /\ LeafTable(m, p) \in 4..LastTable
                              /\ p > LastTable
<1>1. /\ m[CellIn(CR3, a, PgdSpan)] = Entry(2) /\ m[CellIn(2, a, PudSpan)] = Entry(3)
      /\ CellIn(3, a, PmdSpan) = TableCell(p)
  BY SameCells DEF TreeOf, UpperTables
<1>2. /\ ~ not_present(Entry(2)) /\ PointsTo(Entry(2)) = 2
      /\ ~ not_present(Entry(3)) /\ PointsTo(Entry(3)) = 3
  BY DEF Entry, not_present, PointsTo
<1>3. PICK pmd : pmd = m[TableCell(p)]
  OBVIOUS
<1>4. PICK pte : pte = m[CellIn(PointsTo(pmd), a, 1)]
  OBVIOUS
<1>5. WalkOf(m, a) = IF not_present(pmd) THEN <<CR3, 2, 3>>
                     ELSE IF not_present(pte) THEN <<CR3, 2, 3, PointsTo(pmd)>>
                     ELSE <<CR3, 2, 3, PointsTo(pmd), PointsTo(pte)>>
  BY <1>1, <1>2, <1>3, <1>4, Zenon DEF WalkOf
<1>6. HasTable(m, p) <=> ~ not_present(pmd)
  BY <1>3 DEF HasTable
<1>7. ASSUME HasTable(m, p)
      PROVE  /\ PointsTo(pmd) = LeafTable(m, p) /\ LeafTable(m, p) \in 4..LastTable
             /\ pte = m[LeafCell(m, p)]
  <2>1. PointsTo(pmd) = LeafTable(m, p) /\ LeafTable(m, p) \in 4..n
    BY <1>3, <1>7 DEF LeafTable, TreeOf, LowestTables
  <2>2. n \in Int /\ LastTable \in Int
    BY TablesHaveRoom
  <2>3. PICK t \in 4..n : t = LeafTable(m, p)
    BY <2>1
  <2>4. CellIn(t, a, 1) = CellIn(t, p * EntriesPerPage, 1)
    BY SameCells
  <2>5. pte = m[LeafCell(m, p)]
    BY <1>4, <2>1, <2>3, <2>4, Zenon DEF LeafCell
  <2> QED
    BY <2>1, <2>2, <2>3, <2>5
<1>8. IsMapped(m, p) <=> ~ not_present(pmd) /\ ~ not_present(pte)
  BY <1>6, <1>7 DEF IsMapped
<1>9. IsMapped(m, p) => PointsTo(pte) = p /\ p > LastTable
  <2> SUFFICES ASSUME IsMapped(m, p) PROVE PointsTo(pte) = p /\ p > LastTable
    OBVIOUS
  <2>1. p > LastTable /\ m[LeafCell(m, p)] = Entry(p)
    BY DEF TreeOf, PagesAtHome
  <2>2. pte = Entry(p)
    BY <1>7, <2>1 DEF IsMapped
  <2> QED
    BY <2>1, <2>2 DEF PointsTo, Entry, Page
<1>10. Len(WalkOf(m, a)) = 5 <=> IsMapped(m, p)
  BY <1>5, <1>8
<1>11. IsMapped(m, p) => WalkOf(m, a) = <<CR3, 2, 3, LeafTable(m, p), p>>
  BY <1>5, <1>7, <1>8, <1>9 DEF IsMapped
<1> QED
  BY <1>7, <1>9, <1>10, <1>11 DEF CR3, IsMapped

-----------------------------------------------------------------------------
(* What load_file does between two sections, to the tree: a page is marked *)
(* and mapped, and a section copied behind the tables.                     *)
LEMMA MarkBehind ==
  ASSUME NEW m, NEW u, NEW n \in 3..LastTable, TreeOf(m, u, n),
         NEW p \in Page, p > LastTable
  PROVE  TreeOf(m, Marked(u, p), n)
<1>1. Marked(u, p) \subseteq Page /\ Marked(u, p) \cap 0..LastTable = u \cap 0..LastTable
  BY TablesHaveRoom DEF TreeOf, TablesMarked, Marked, Page
<1>2. TablesMarked(Marked(u, p), n)
  BY <1>1 DEF TreeOf, TablesMarked
<1> QED
  BY <1>2 DEF TreeOf

LEMMA CopyBehind ==
  ASSUME NEW m, NEW u, NEW n \in 3..LastTable, TreeOf(m, u, n),
         NEW m2 \in [Cell -> Nat],
         \A c \in Cell : PageOf(c) <= LastTable => m2[c] = m[c]
  PROVE  TreeOf(m2, u, n) /\ \A p \in Page : IsMapped(m2, p) <=> IsMapped(m, p)
<1>1. n \in Int /\ n <= LastTable /\ LastTable \in Int /\ LastTable >= 4
  BY TablesHaveRoom
<1>2. \A p \in Page : m2[TableCell(p)] = m[TableCell(p)]
  BY <1>1, TableCellOf
<1>3. \A p \in Page : /\ HasTable(m2, p) <=> HasTable(m, p)
                      /\ LeafTable(m2, p) = LeafTable(m, p)
                      /\ LeafCell(m2, p) = LeafCell(m, p)
  BY <1>2 DEF HasTable, LeafTable, LeafCell
<1>4. ASSUME NEW p \in Page, HasTable(m, p)
      PROVE  m2[LeafCell(m2, p)] = m[LeafCell(m, p)]
  <2>1. PICK t \in 4..n : t = LeafTable(m, p)
    BY <1>4 DEF TreeOf, LowestTables
  <2>2. LeafTable(m, p) \in 4..LastTable /\ t <= LastTable
    BY <1>1, <2>1
  <2>3. LeafCell(m, p) \in Cell /\ PageOf(LeafCell(m, p)) <= LastTable
    BY <2>1, <2>2, LeafCellOf
  <2> QED
    BY <1>3, <2>3
<1>5. \A p \in Page : IsMapped(m2, p) <=> IsMapped(m, p)
  BY <1>3, <1>4 DEF IsMapped
<1>6. LowestTables(m2, n)
  <2>1. EntriesMade(m2) = EntriesMade(m)
    BY <1>3 DEF EntriesMade
  <2>2. LowestTables(m, n)
    BY DEF TreeOf
  <2> QED
    BY <1>3, <2>1, <2>2 DEF LowestTables
<1>7. UpperTables(m2)
  <2>1. UpperTables(m)
    BY DEF TreeOf
  <2> QED
    BY <1>1, <2>1, UpperCells DEF UpperTables
<1>8. BlankBehind(m2, n)
  <2> SUFFICES ASSUME NEW c \in Cell, PageOf(c) \in (n + 1)..LastTable
               PROVE  m2[c] = 0
    BY DEF BlankBehind
  <2>1. PageOf(c) <= LastTable
    BY <1>1
  <2> QED
    BY <2>1 DEF TreeOf, BlankBehind
<1>9. PagesAtHome(m2)
  <2>1. PagesAtHome(m)
    BY DEF TreeOf
  <2> QED
    BY <1>4, <1>5, <2>1 DEF PagesAtHome, IsMapped
<1>10. TablesMarked(u, n)
  BY DEF TreeOf
<1> QED
  BY <1>5, <1>6, <1>7, <1>8, <1>9, <1>10 DEF TreeOf

LEMMA PreparesThePage ==
  ASSUME NEW n \in 3..LastTable, TreeOf(mem, used, n),
         NEW a \in Int, NEW p \in Page, p = PageOf(a), p > LastTable,
         p \in page_dico => IsMapped(mem, p) /\ new_page = PageBase(a),
         NEW st, st = PreparePage(a)
  PROVE  /\ \E k \in 3..LastTable : TreeOf(st.mem, st.used, k)
         /\ IsMapped(st.mem, p)
         /\ MappedStay(mem, st.mem) /\ SameBehind(mem, st.mem)
         /\ st.page = PageBase(a)
<1>1. CASE p \in page_dico
  <2>1. st = [mem |-> mem, used |-> used, page |-> new_page]
    BY <1>1 DEF PreparePage
  <2> QED
    BY <1>1, <2>1 DEF MappedStay, SameBehind
<1>2. CASE p \notin page_dico
  <2>1. PICK s1 : s1 = memory_map([mem |-> mem, used |-> Marked(used, p)], a, a)
    OBVIOUS
  <2>2. PICK s2 : s2 = memory_map(s1, a, PageBase(a))
    OBVIOUS
  <2>3. st = [mem |-> s2.mem, used |-> s2.used, page |-> PageBase(a)]
    BY <1>2, <2>1, <2>2 DEF PreparePage, IdentityPage, PageStart
  <2>4. TreeOf(mem, Marked(used, p), n)
    BY MarkBehind
  <2>5. /\ \E k \in 3..LastTable : TreeOf(s1.mem, s1.used, k)
        /\ IsMapped(s1.mem, p) /\ s1 = [mem |-> s1.mem, used |-> s1.used]
        /\ MappedStay(mem, s1.mem) /\ SameBehind(mem, s1.mem)
    BY <2>1, <2>4, MapsThePage
  <2>6. PICK k \in 3..LastTable : TreeOf(s1.mem, s1.used, k)
    BY <2>5
  <2>7. PageBase(a) \in Int /\ PageOf(PageBase(a)) = p
    <3>1. p \in Int /\ PageBase(a) = p * EntriesPerPage
      BY AddressParts
    <3> QED
      BY <3>1, PageBaseOf
  <2>8. PICK m1, u1 : m1 = s1.mem /\ u1 = s1.used
    OBVIOUS
  <2>9. s2 = memory_map([mem |-> m1, used |-> u1], a, PageBase(a))
    BY <2>2, <2>5, <2>8, Zenon
  <2>10. IsMapped(m1, p) => s2.mem = m1 /\ s2.used = u1
    BY <2>6, <2>7, <2>8, <2>9, MapsThePage
  <2>11. st.mem = s1.mem /\ st.used = s1.used /\ st.page = PageBase(a)
    BY <2>3, <2>5, <2>8, <2>10
  <2> QED
    BY <2>5, <2>11
<1> QED
  BY <1>1, <1>2

-----------------------------------------------------------------------------
(* The layout of the files.                                                *)
LEMMA LayoutOfFiles ==
  /\ DOMAIN FileStart = 1..Len(FileStart) /\ Len(FileStart) \in Nat
  /\ \A f \in DOMAIN FileStart :
       /\ FileStart[f] \in Nat /\ FileEnd[f] \in Cell /\ FileEnd[f] \in Int
       /\ Offset(FileStart[f]) = 0 /\ LastTable < PageOf(FileStart[f])
       /\ PageOf(FileStart[f]) \in Int
       /\ \A g \in DOMAIN FileStart : f < g => FileEnd[f] <= FileStart[g]
  /\ SectionSize \subseteq Nat \ {0} /\ SectionType \subseteq Nat
<1>1. /\ FileStart \in Seq(Nat) /\ FileEnd \in [DOMAIN FileStart -> Cell]
      /\ SectionSize \subseteq Nat \ {0} /\ SectionType \subseteq Nat
  BY LoadingAssumption
<1>2. DOMAIN FileStart = 1..Len(FileStart) /\ Len(FileStart) \in Nat
  BY <1>1
<1>3. \A f \in DOMAIN FileStart : FileStart[f] \in Nat /\ FileEnd[f] \in Cell
  BY <1>1
<1>4. \A c \in Cell : c \in Int
  BY DEF Cell
<1>5. \A f \in DOMAIN FileStart : PageOf(FileStart[f]) \in Int
  BY <1>3, AddressParts
<1> QED
  BY <1>1, <1>2, <1>3, <1>4, <1>5, RoomForTables, FilesApart

(* The sections that have been loaded.                                     *)
LEMMA SectionFields ==
  ASSUME loaded \in Seq(Section)
  PROVE  /\ Len(loaded) \in Nat /\ DOMAIN loaded = 1..Len(loaded)
         /\ \A i \in DOMAIN loaded :
              /\ loaded[i] \in Section /\ loaded[i].file \in DOMAIN FileStart
              /\ loaded[i].addr \in Cell /\ loaded[i].addr \in Int
              /\ loaded[i].size \in Nat /\ loaded[i].size >= 1
<1>1. Len(loaded) \in Nat /\ DOMAIN loaded = 1..Len(loaded)
  OBVIOUS
<1>2. \A i \in DOMAIN loaded : loaded[i] \in Section
  BY <1>1
<1>3. \A c \in Cell : c \in Int
  BY DEF Cell
<1>4. \A x \in SectionSize : x \in Nat /\ x >= 1
  BY LayoutOfFiles
<1> QED
  BY <1>1, <1>2, <1>3, <1>4 DEF Section

(* The last section is behind the others.                                  *)
LEMMA LastSection ==
  ASSUME loaded \in Seq(Section), SectionsInOrder, loaded # <<>>,
         NEW last, last = loaded[Len(loaded)]
  PROVE  /\ Len(loaded) \in DOMAIN loaded
         /\ \A i \in DOMAIN loaded :
              /\ loaded[i].addr <= last.addr
              /\ loaded[i].addr + loaded[i].size <= last.addr + last.size
<1>1. Len(loaded) \in DOMAIN loaded
  BY SectionFields
<1>2. SUFFICES ASSUME NEW i \in DOMAIN loaded
               PROVE  /\ loaded[i].addr <= last.addr
                      /\ loaded[i].addr + loaded[i].size <= last.addr + last.size
  BY <1>1
<1>3. PICK s : s = loaded[i]
  OBVIOUS
<1>4. /\ s.addr \in Int /\ s.size \in Nat /\ s.size >= 1
      /\ last.addr \in Int /\ last.size \in Nat /\ last.size >= 1
  BY <1>1, <1>3, SectionFields
<1>5. CASE i = Len(loaded)
  BY <1>3, <1>4, <1>5
<1>6. CASE i # Len(loaded)
  <2>1. i < Len(loaded)
    BY <1>6, SectionFields
  <2>2. s.addr + s.size <= last.addr
    BY <1>1, <1>3, <2>1 DEF SectionsInOrder
  <2> QED
    BY <1>3, <1>4, <2>2
<1> QED
  BY <1>5, <1>6

(* Where load_file may find the next section of the file: behind the last  *)
(* one, inside the file.                                                   *)
LEMMA NextIsBehind ==
  ASSUME LoadingTypeOK, SectionsInOrder, file > 0, NEW a \in NextAddr
  PROVE  /\ a \in Int /\ file \in DOMAIN FileStart /\ FileStart[file] <= a
         /\ \A i \in DOMAIN loaded : loaded[i].addr + loaded[i].size <= a
<1>1. /\ loaded \in Seq(Section) /\ file \in DOMAIN FileStart
      /\ FileStart[file] \in Int /\ file \in Int
  <2>1. loaded \in Seq(Section) /\ file \in 0..Len(FileStart)
    BY DEF LoadingTypeOK
  <2>2. file \in DOMAIN FileStart /\ file \in Int
    BY <2>1, LayoutOfFiles
  <2>3. FileStart[file] \in Nat
    BY <2>2, LayoutOfFiles
  <2> QED
    BY <2>1, <2>2, <2>3
<1>2. PICK last : last = loaded[Len(loaded)]
  OBVIOUS
<1>3. PICK end : end = IF loaded # <<>> /\ last.file = file THEN last.addr + last.size
                       ELSE FileStart[file]
  OBVIOUS
<1>4. a = end \/ a = PageBase(end + EntriesPerPage - 1)
  BY <1>2, <1>3 DEF NextAddr
<1>5. /\ end \in Int /\ FileStart[file] <= end
      /\ \A i \in DOMAIN loaded : loaded[i].addr + loaded[i].size <= end
  <2>1. CASE loaded = <<>>
    <3>1. DOMAIN loaded = {}
      BY <2>1
    <3> QED
      BY <1>1, <1>3, <2>1, <3>1
  <2>2. CASE loaded # <<>>
    <3>1. /\ Len(loaded) \in DOMAIN loaded
          /\ \A i \in DOMAIN loaded :
               loaded[i].addr + loaded[i].size <= last.addr + last.size
      BY <1>1, <1>2, <2>2, LastSection
    <3>2. /\ last.addr \in Int /\ last.size \in Nat /\ last.size >= 1
          /\ last.file \in DOMAIN FileStart
      BY <1>1, <1>2, <3>1, SectionFields
    <3>3. /\ last.file <= file /\ FileStart[last.file] <= last.addr
          /\ last.addr + last.size <= FileEnd[last.file]
      BY <1>2, <3>1 DEF SectionsInOrder
    <3>4. CASE last.file = file
      <4>1. end = last.addr + last.size
        BY <1>3, <2>2, <3>4
      <4> QED
        BY <1>1, <3>1, <3>2, <3>3, <3>4, <4>1
    <3>5. CASE last.file # file
      <4>1. end = FileStart[file]
        BY <1>3, <3>5
      <4>2. last.file < file
        BY <1>1, <3>2, <3>3, <3>5, LayoutOfFiles
      <4>3. FileEnd[last.file] <= FileStart[file] /\ FileEnd[last.file] \in Int
        BY <1>1, <3>2, <4>2, LayoutOfFiles
      <4>4. PICK z \in Int : z = last.addr + last.size
        BY <3>2
      <4>5. z <= end
        BY <1>1, <3>3, <4>1, <4>3, <4>4
      <4>6. \A i \in DOMAIN loaded : loaded[i].addr + loaded[i].size \in Int
        BY <1>1, SectionFields
      <4>7. \A i \in DOMAIN loaded : loaded[i].addr + loaded[i].size <= end
        BY <1>1, <3>1, <4>1, <4>4, <4>5, <4>6
      <4> QED
        BY <1>1, <4>1, <4>7
    <3> QED
      BY <3>4, <3>5
  <2> QED
    BY <2>1, <2>2
<1>6. a \in Int /\ end <= a
  <2>1. CASE a = end
    BY <1>5, <2>1
  <2>2. CASE a = PageBase(end + EntriesPerPage - 1)
    <3>1. PICK x \in Int : x = end + EntriesPerPage - 1
      BY <1>5, TablesHaveRoom
    <3>2. Offset(x) \in 0..(EntriesPerPage - 1) /\ PageBase(x) = x - Offset(x)
      BY AddressParts DEF PageBase
    <3> QED
      BY <1>5, <2>2, <3>1, <3>2, TablesHaveRoom
  <2> QED
    BY <1>4, <2>1, <2>2
<1>7. \A i \in DOMAIN loaded : loaded[i].addr + loaded[i].size \in Int
  BY <1>1, SectionFields
<1> QED
  BY <1>1, <1>5, <1>6, <1>7

LEMMA NextSection ==
  ASSUME LoadingTypeOK, SectionsInOrder, file > 0, NEW a \in NextAddr,
         NEW n \in SectionSize, a + n <= FileEnd[file]
  PROVE  /\ a \in Cell /\ n \in Nat /\ n >= 1 /\ \A c \in a..(a + n - 1) : c \in Cell
         /\ PageOf(a) \in Page /\ PageOf(a) > LastTable
         /\ \A c \in Int : c >= a => PageOf(c) > LastTable
<1>1. /\ a \in Int /\ file \in DOMAIN FileStart /\ FileStart[file] <= a
      /\ n \in Nat /\ n >= 1
      /\ FileEnd[file] \in Cell /\ FileEnd[file] \in Int
      /\ FileStart[file] \in Nat /\ PageOf(FileStart[file]) \in Int
      /\ LastTable < PageOf(FileStart[file])
  BY NextIsBehind, LayoutOfFiles
<1>2. PICK e \in Int, f \in Nat : e = FileEnd[file] /\ f = FileStart[file]
  BY <1>1
<1>3. \A c \in a..(a + n - 1) : c \in Cell
  <2>1. \A c \in Int : 0 <= c /\ c <= e => c \in Cell
    <3>1. PICK top \in Int : top = MemPages * EntriesPerPage - 1
      BY TablesHaveRoom
    <3> QED
      BY <1>1, <1>2, <3>1 DEF Cell
  <2> QED
    BY <1>1, <1>2, <2>1
<1>4. a \in a..(a + n - 1)
  BY <1>1
<1>5. \A c \in Int : c >= a => PageOf(c) > LastTable
  <2> SUFFICES ASSUME NEW c \in Int, c >= a PROVE PageOf(c) > LastTable
    OBVIOUS
  <2>1. f <= c
    BY <1>1, <1>2
  <2>2. PageOf(f) <= PageOf(c) /\ PageOf(c) \in Int /\ PageOf(f) \in Int
    BY <2>1, PagesAreOrdered, AddressParts
  <2> QED
    BY <1>1, <1>2, <2>2, TablesHaveRoom
<1> QED
  BY <1>1, <1>3, <1>4, <1>5, CellsHavePages

(* A page on which a section has begun already is the one on which the     *)
(* last one began, so that new_page still holds it.                        *)
LEMMA PageAgain ==
  ASSUME LoadingTypeOK, SectionsInOrder, file > 0, NEW a \in NextAddr,
         PageOf(a) \in page_dico, NEW last, last = loaded[Len(loaded)]
  PROVE  /\ Len(loaded) \in DOMAIN loaded /\ PageOf(last.addr) = PageOf(a)
         /\ new_page = PageBase(a)
<1>1. /\ a \in Int /\ file \in DOMAIN FileStart /\ FileStart[file] <= a
      /\ loaded \in Seq(Section) /\ file \in Int
      /\ new_page \in Int /\ Offset(new_page) = 0
  <2>1. /\ loaded \in Seq(Section) /\ file \in 0..Len(FileStart)
        /\ new_page \in Int /\ Offset(new_page) = 0
    <3>1. \A c \in Cell : c \in Int
      BY DEF Cell
    <3> QED
      BY <3>1 DEF LoadingTypeOK
  <2>2. a \in Int /\ file \in DOMAIN FileStart /\ FileStart[file] <= a
    BY NextIsBehind
  <2>3. file \in Int
    BY <2>1, LayoutOfFiles
  <2> QED
    BY <2>1, <2>2, <2>3
<1>2. PICK i \in DOMAIN loaded : PageOf(loaded[i].addr) = PageOf(a)
  BY DEF SectionsInOrder
<1>3. loaded # <<>>
  BY <1>2
<1>4. /\ Len(loaded) \in DOMAIN loaded /\ loaded[i].addr <= last.addr
      /\ last.addr + last.size <= a
  BY <1>1, <1>2, <1>3, LastSection, NextIsBehind
<1>5. /\ last.addr \in Int /\ last.size \in Nat /\ last.size >= 1
      /\ last.file \in DOMAIN FileStart /\ loaded[i].addr \in Int
  BY <1>1, <1>2, <1>4, SectionFields
<1>6. PageOf(last.addr) = PageOf(a)
  <2>1. last.addr <= a
    BY <1>1, <1>4, <1>5
  <2>2. PageOf(loaded[i].addr) <= PageOf(last.addr) /\ PageOf(last.addr) <= PageOf(a)
    BY <1>1, <1>4, <1>5, <2>1, PagesAreOrdered
  <2>3. PageOf(last.addr) \in Int /\ PageOf(a) \in Int
    BY <1>1, <1>5, AddressParts
  <2> QED
    BY <1>2, <2>2, <2>3
<1>7. /\ last.file <= file /\ last.addr + last.size <= FileEnd[last.file]
      /\ last.file = file => PageOf(new_page) = PageOf(last.addr)
  BY <1>4 DEF SectionsInOrder
<1>8. last.file = file
  <2> SUFFICES ASSUME last.file < file PROVE FALSE
    BY <1>1, <1>5, <1>7, LayoutOfFiles
  <2>1. PICK s \in Int, e \in Int :
          /\ s = FileStart[file] /\ Offset(s) = 0
          /\ e = FileEnd[last.file] /\ e <= s
    BY <1>1, <1>5, LayoutOfFiles
  <2>2. last.addr < s
    BY <1>5, <1>7, <2>1
  <2>3. PageOf(last.addr) < PageOf(s)
    <3>1. PICK b \in Int : b = last.addr
      BY <1>5
    <3>2. b < s
      BY <2>2, <3>1
    <3>3. PageOf(b) < PageOf(s)
      BY <2>1, <3>2, PagesAreOrdered
    <3> QED
      BY <3>1, <3>3, Zenon
  <2>4. PageOf(s) <= PageOf(a)
    BY <1>1, <2>1, PagesAreOrdered
  <2>5. PageOf(last.addr) \in Int /\ PageOf(a) \in Int /\ PageOf(s) \in Int
    BY <1>1, <1>5, <2>1, AddressParts
  <2> QED
    BY <1>6, <2>3, <2>4, <2>5
<1>9. new_page = PageBase(a)
  <2>1. PageOf(new_page) = PageOf(a)
    BY <1>6, <1>7, <1>8
  <2>2. PICK p \in Int, x \in Int : p = PageOf(a) /\ x = p * EntriesPerPage
    BY <1>1, AddressParts, TablesHaveRoom
  <2>3. new_page = x + 0
    BY <1>1, <2>1, <2>2, AddressParts
  <2>4. PageBase(a) = x
    BY <1>1, <2>2, AddressParts
  <2> QED
    BY <2>2, <2>3, <2>4
<1> QED
  BY <1>4, <1>6, <1>9

-----------------------------------------------------------------------------
(* The steps.  One section of load_file.                                   *)
LEMMA SectionStep ==
  ASSUME LoadingInv, AnySection
  PROVE  LoadingInv'
<1>1. PICK a \in NextAddr, sz \in SectionSize, t \in SectionType :
        /\ a + sz <= FileEnd[file] /\ step = "sections"
        /\ LoadSection([file |-> file, addr |-> a, size |-> sz, type |-> t])
  BY DEF AnySection
<1>2. PICK s : s = [file |-> file, addr |-> a, size |-> sz, type |-> t]
  OBVIOUS
<1>3. /\ LoadingTypeOK /\ SectionsInOrder /\ SectionsInPlace /\ file > 0
      /\ size % EntriesPerPage = 0
  BY <1>1 DEF LoadingInv
<1>4. PICK n \in 3..LastTable : TreeOf(mem, used, n)
  BY <1>1 DEF LoadingInv
<1>5. /\ a \in Int /\ file \in DOMAIN FileStart /\ FileStart[file] <= a
      /\ \A i \in DOMAIN loaded : loaded[i].addr + loaded[i].size <= a
  BY <1>3, NextIsBehind
<1>6. /\ a \in Cell /\ sz \in Nat /\ sz >= 1 /\ \A c \in a..(a + sz - 1) : c \in Cell
      /\ PageOf(a) \in Page /\ PageOf(a) > LastTable
      /\ \A c \in Int : c >= a => PageOf(c) > LastTable
  BY <1>1, <1>3, NextSection
<1>7. PICK p \in Page : p = PageOf(a)
  BY <1>6
<1>8. /\ loaded \in Seq(Section) /\ Len(loaded) \in Nat
      /\ DOMAIN loaded = 1..Len(loaded)
  BY <1>3, SectionFields DEF LoadingTypeOK
<1>9. p \in page_dico => IsMapped(mem, p) /\ new_page = PageBase(a)
  <2> SUFFICES ASSUME p \in page_dico PROVE IsMapped(mem, p) /\ new_page = PageBase(a)
    OBVIOUS
  <2>1. PICK last : last = loaded[Len(loaded)]
    OBVIOUS
  <2>2. /\ Len(loaded) \in DOMAIN loaded /\ PageOf(last.addr) = p
        /\ new_page = PageBase(a)
    BY <1>3, <1>7, <2>1, PageAgain
  <2>3. Len(WalkOf(mem, last.addr)) = 5
    BY <1>3, <2>1, <2>2 DEF SectionsInPlace
  <2>4. last.addr \in Int
    BY <1>8, <2>1, <2>2, SectionFields
  <2> QED
    BY <1>4, <2>2, <2>3, <2>4, WalkOfTree
<1>10. PICK st : st = PreparePage(a)
  OBVIOUS
<1>11. /\ \E k \in 3..LastTable : TreeOf(st.mem, st.used, k)
       /\ IsMapped(st.mem, p)
       /\ MappedStay(mem, st.mem) /\ SameBehind(mem, st.mem)
       /\ st.page = PageBase(a)
  BY <1>4, <1>5, <1>6, <1>7, <1>9, <1>10, PreparesThePage
<1>12. CopyTo(st.page, a) = a
  BY <1>5, <1>11, AddressParts DEF CopyTo, PageBase
<1>13. /\ used' = st.used
       /\ page_dico' = page_dico \cup {p}
       /\ new_page' = PageBase(a)
       /\ mem' = [c \in Cell |->
                    IF c \notin a..(a + sz - 1) THEN st.mem[c]
                    ELSE IF HasData(s) THEN FileByte(a + c - a) ELSE 0]
       /\ loaded' = Append(loaded, s)
       /\ step' = "sections" /\ size' = size /\ file' = file
  <2>1. LoadSection(s) /\ s.addr = a /\ s.size = sz
    BY <1>1, <1>2
  <2> QED
    BY <1>1, <1>7, <1>10, <1>11, <1>12, <2>1 DEF LoadSection
<1>14. \A c \in Cell :
         mem'[c] = IF c \notin a..(a + sz - 1) THEN st.mem[c]
                   ELSE IF HasData(s) THEN FileByte(c) ELSE 0
  <2>1. \A c \in Cell : a + c - a = c
    BY <1>5 DEF Cell
  <2> QED
    BY <1>13, <2>1
<1>15. PICK k \in 3..LastTable : TreeOf(st.mem, st.used, k)
  BY <1>11
<1>16. /\ TreeOf(mem', used', k)
       /\ \A q \in Page : IsMapped(mem', q) <=> IsMapped(st.mem, q)
  <2>1. mem' \in [Cell -> Nat]
    <3>1. st.mem \in [Cell -> Nat]
      BY <1>15 DEF TreeOf
    <3>2. \A c \in Cell : FileByte(c) \in Nat
      BY TablesHaveRoom DEF FileByte, Cell
    <3>3. \A c \in Cell : mem'[c] \in Nat
      BY <1>14, <3>1, <3>2
    <3>4. mem' = [c \in Cell |-> mem'[c]]
      BY <1>13
    <3> QED
      BY <3>3, <3>4
  <2>2. \A c \in Cell : PageOf(c) <= LastTable => mem'[c] = st.mem[c]
    <3> SUFFICES ASSUME NEW c \in Cell, PageOf(c) <= LastTable
                 PROVE  c \notin a..(a + sz - 1)
      BY <1>14
    <3>1. PageOf(c) \in Int
      BY AddressParts DEF Cell
    <3> QED
      BY <1>5, <1>6, <3>1, TablesHaveRoom
  <2>3. PICK m2 \in [Cell -> Nat] : m2 = mem'
    BY <2>1
  <2>4. TreeOf(m2, st.used, k) /\ \A q \in Page : IsMapped(m2, q) <=> IsMapped(st.mem, q)
    BY <1>15, <2>2, <2>3, CopyBehind
  <2> QED
    BY <1>13, <2>3, <2>4
<1>17. /\ DOMAIN loaded' = 1..(Len(loaded) + 1) /\ Len(loaded') = Len(loaded) + 1
       /\ \A i \in DOMAIN loaded : loaded'[i] = loaded[i]
       /\ loaded'[Len(loaded) + 1] = s
  BY <1>8, <1>13
<1>18. LoadingTypeOK'
  <2>1. s \in Section
    BY <1>1, <1>2, <1>5, <1>6 DEF Section
  <2>2. loaded' \in Seq(Section)
    BY <1>8, <1>13, <2>1
  <2>3. mem' \in [Cell -> Nat] /\ used' \subseteq 0..(NB_PAGE - 1)
    BY <1>16, TablesHaveRoom DEF TreeOf, TablesMarked, Page
  <2>4. page_dico' \subseteq 0..(MemPages - 1)
    BY <1>3, <1>13 DEF LoadingTypeOK, Page
  <2>5. PICK x \in Int : /\ x = PageBase(a) /\ PageOf(x) = p
                         /\ x = p * EntriesPerPage
    <3>1. p \in Int /\ PageBase(a) = p * EntriesPerPage
      BY <1>5, <1>7, AddressParts
    <3> QED
      BY <3>1, PageBaseOf
  <2>6. x \in Cell /\ Offset(x) = 0
    <3>1. x \in Cell
      BY <2>5, CellsHavePages
    <3>2. PICK y \in Int : y = p * EntriesPerPage
      BY <2>5
    <3>3. y = y + Offset(x) /\ Offset(x) \in Int
      BY <2>5, <3>2, AddressParts
    <3> QED
      BY <3>1, <3>3
  <2>7. new_page' \in Cell /\ Offset(new_page') = 0
    BY <1>13, <2>5, <2>6
  <2> QED
    BY <1>3, <1>13, <2>2, <2>3, <2>4, <2>7 DEF LoadingTypeOK
<1>19. SectionsInOrder'
  <2>1. page_dico' = {PageOf(loaded'[i].addr) : i \in DOMAIN loaded'}
    <3>1. page_dico = {PageOf(loaded[i].addr) : i \in DOMAIN loaded}
      BY <1>3 DEF SectionsInOrder
    <3>2. PageOf(loaded'[Len(loaded) + 1].addr) = p
      BY <1>2, <1>7, <1>17
    <3>3. DOMAIN loaded' = DOMAIN loaded \cup {Len(loaded) + 1}
      BY <1>8, <1>17
    <3> QED
      BY <1>13, <1>17, <3>1, <3>2, <3>3
  <2>2. PageOf(new_page') = p
    <3>1. p \in Int /\ PageBase(a) = p * EntriesPerPage
      BY <1>5, <1>7, AddressParts
    <3> QED
      BY <1>13, <3>1, PageBaseOf
  <2>3. ASSUME NEW i \in DOMAIN loaded'
        PROVE  /\ loaded'[i].file <= file'
               /\ FileStart[loaded'[i].file] <= loaded'[i].addr
               /\ loaded'[i].addr + loaded'[i].size <= FileEnd[loaded'[i].file]
               /\ i = Len(loaded') /\ loaded'[i].file = file'
                    => PageOf(new_page') = PageOf(loaded'[i].addr)
               /\ \A j \in DOMAIN loaded' :
                    i < j => loaded'[i].addr + loaded'[i].size <= loaded'[j].addr
    <3>1. CASE i \in DOMAIN loaded
      <4>1. loaded'[i] = loaded[i] /\ i \in Int /\ i <= Len(loaded)
        BY <1>8, <1>17, <3>1
      <4>2. /\ loaded[i].file <= file
            /\ FileStart[loaded[i].file] <= loaded[i].addr
            /\ loaded[i].addr + loaded[i].size <= FileEnd[loaded[i].file]
            /\ \A j \in DOMAIN loaded :
                 i < j => loaded[i].addr + loaded[i].size <= loaded[j].addr
        BY <1>3, <3>1 DEF SectionsInOrder
      <4>3. i # Len(loaded')
        BY <1>8, <1>17, <4>1
      <4>4. \A j \in DOMAIN loaded' :
              i < j => loaded[i].addr + loaded[i].size <= loaded'[j].addr
        <5> SUFFICES ASSUME NEW j \in DOMAIN loaded', i < j
                     PROVE  loaded[i].addr + loaded[i].size <= loaded'[j].addr
          OBVIOUS
        <5>1. CASE j = Len(loaded) + 1
          <6>1. loaded'[j].addr = a
            BY <1>2, <1>17, <5>1
          <6> QED
            BY <1>5, <3>1, <6>1
        <5>2. CASE j \in DOMAIN loaded
          BY <1>17, <4>2, <5>2
        <5> QED
          BY <1>8, <1>17, <5>1, <5>2
      <4> QED
        BY <1>13, <4>1, <4>2, <4>3, <4>4
    <3>2. CASE i = Len(loaded) + 1
      <4>1. /\ loaded'[i].file = file /\ loaded'[i].addr = a /\ loaded'[i].size = sz
        BY <1>2, <1>17, <3>2
      <4>2. file <= file
        <5>1. file \in 0..Len(FileStart) /\ Len(FileStart) \in Nat
          BY <1>3, LayoutOfFiles DEF LoadingTypeOK
        <5> QED
          BY <5>1
      <4>3. \A j \in DOMAIN loaded' : ~ (i < j)
        BY <1>8, <1>17, <3>2
      <4> QED
        BY <1>1, <1>5, <1>7, <1>13, <2>2, <4>1, <4>2, <4>3
    <3> QED
      BY <1>8, <1>17, <3>1, <3>2
  <2> QED
    BY <2>1, <2>3 DEF SectionsInOrder
<1>20. SectionsInPlace'
  <2>1. ASSUME NEW i \in DOMAIN loaded'
        PROVE  /\ \A c \in Cells(loaded'[i]) :
                    mem'[c] = IF HasData(loaded'[i]) THEN FileByte(c) ELSE 0
               /\ Len(WalkOf(mem', loaded'[i].addr)) = 5
    <3>1. CASE i \in DOMAIN loaded
      <4>1. PICK r : r = loaded[i] /\ r = loaded'[i]
        BY <1>17, <3>1
      <4>2. /\ r.addr \in Int /\ r.addr \in Cell /\ r.size \in Nat
            /\ r.file \in DOMAIN FileStart /\ r.addr + r.size <= a
        BY <1>5, <1>8, <3>1, <4>1, SectionFields
      <4>3. FileStart[r.file] <= r.addr
        BY <1>3, <3>1, <4>1 DEF SectionsInOrder
      <4>4. InPlace(r, HasData(r)) /\ Len(WalkOf(mem, r.addr)) = 5
        BY <1>3, <3>1, <4>1 DEF SectionsInPlace
      <4>5. PICK q \in Page : q = PageOf(r.addr)
        BY <4>2, CellsHavePages
      <4>6. IsMapped(mem, q)
        BY <1>4, <4>2, <4>4, <4>5, WalkOfTree
      <4>7. IsMapped(mem', q)
        BY <1>11, <1>16, <4>6 DEF MappedStay
      <4>8. Len(WalkOf(mem', r.addr)) = 5
        <5>1. PICK m2, u2 : m2 = mem' /\ u2 = used'
          OBVIOUS
        <5> QED
          BY <1>16, <4>2, <4>5, <4>7, <5>1, WalkOfTree
      <4>9. \A c \in Cells(r) : mem'[c] = mem[c]
        <5> SUFFICES ASSUME NEW c \in Cells(r) PROVE mem'[c] = mem[c]
          OBVIOUS
        <5>1. c \in Int /\ r.addr <= c /\ c < a
          BY <1>5, <4>2 DEF Cells
        <5>2. PageOf(c) > LastTable
          <6>1. PICK f \in Int : f = FileStart[r.file] /\ LastTable < PageOf(f)
            BY <4>2, LayoutOfFiles
          <6>2. f <= c
            BY <4>2, <4>3, <5>1, <6>1
          <6>3. PageOf(f) <= PageOf(c) /\ PageOf(f) \in Int /\ PageOf(c) \in Int
            BY <5>1, <6>2, PagesAreOrdered, AddressParts
          <6> QED
            BY <6>1, <6>3, TablesHaveRoom
        <5>3. c \in Cell
          <6>1. PICK top \in Int : top = MemPages * EntriesPerPage - 1
            BY TablesHaveRoom
          <6>2. Cell = 0..top
            BY <6>1 DEF Cell
          <6> QED
            BY <1>6, <4>2, <5>1, <6>1, <6>2
        <5>4. c \notin a..(a + sz - 1)
          BY <1>5, <5>1
        <5> QED
          BY <1>11, <1>14, <5>2, <5>3, <5>4 DEF SameBehind
      <4>10. \A c \in Cells(r) : mem'[c] = IF HasData(r) THEN FileByte(c) ELSE 0
        BY <4>4, <4>9 DEF InPlace
      <4> QED
        BY <4>1, <4>8, <4>10
    <3>2. CASE i = Len(loaded) + 1
      <4>1. loaded'[i] = s /\ s.addr = a /\ s.size = sz
        BY <1>2, <1>17, <3>2
      <4>2. \A c \in a..(a + sz - 1) :
              mem'[c] = IF HasData(s) THEN FileByte(c) ELSE 0
        BY <1>6, <1>14
      <4>3. Len(WalkOf(mem', a)) = 5
        <5>1. PICK m2, u2 : m2 = mem' /\ u2 = used'
          OBVIOUS
        <5>2. IsMapped(m2, p)
          BY <1>11, <1>16, <5>1
        <5> QED
          BY <1>5, <1>7, <1>16, <5>1, <5>2, WalkOfTree
      <4>4. \A c \in Cells(loaded'[i]) :
              mem'[c] = IF HasData(loaded'[i]) THEN FileByte(c) ELSE 0
        BY <4>1, <4>2 DEF Cells
      <4> QED
        BY <4>1, <4>3, <4>4
    <3> QED
      BY <1>8, <1>17, <3>1, <3>2
  <2> QED
    BY <2>1 DEF SectionsInPlace, InPlace, Cells, HasData, FileByte
<1>21. \E j \in 3..LastTable : TreeOf(mem', used', j)
  BY <1>16
<1> QED
  BY <1>3, <1>13, <1>18, <1>19, <1>20, <1>21 DEF LoadingInv

LEMMA PagesHaveEntries == Page \subseteq 0..(NB_PAGE - 1)
BY TablesHaveRoom DEF Page

LEMMA NoDomain == DOMAIN <<>> = {}
OBVIOUS

(* create_stack.                                                           *)
LEMMA MapsNext ==
  ASSUME NEW m, NEW u, NEW n \in 3..LastTable, TreeOf(m, u, n),
         NEW a \in Int, NEW p \in Page, p = PageOf(a), p > LastTable,
         NEW st, st = memory_map([mem |-> m, used |-> u], a, a)
  PROVE  \E k \in 3..LastTable : TreeOf(st.mem, st.used, k)
BY MapsThePage

LEMMA StackMapped ==
  ASSUME LoadingInv, step \in {"stack", "stack pages"},
         NEW i \in Int, PageOf(i) \in Page, PageOf(i) > LastTable, Map(i, i),
         step' = "stack pages",
         page_dico' = page_dico, new_page' = new_page, file' = file, loaded' = loaded,
         size' \in 0..STACK_SIZE, Offset(size') = 0
  PROVE  LoadingInv'
<1>1. /\ LoadingTypeOK /\ SectionsInOrder /\ file = 0 /\ loaded = <<>>
      /\ IF step = "stack" THEN used = {} /\ mem = [c \in Cell |-> 0]
         ELSE \E n \in 3..LastTable : TreeOf(mem, used, n)
  BY DEF LoadingInv
<1>2. PICK st : /\ st = memory_map([mem |-> mem, used |-> used], i, i)
                /\ mem' = st.mem /\ used' = st.used
  BY DEF Map
<1>3. PICK p \in Page : p = PageOf(i) /\ p > LastTable
  OBVIOUS
<1>4. PICK m, u : m = mem /\ u = used
  OBVIOUS
<1>5. st = memory_map([mem |-> m, used |-> u], i, i)
  BY <1>2, <1>4, Zenon
<1>6. \E k \in 3..LastTable : TreeOf(st.mem, st.used, k)
  <2>1. CASE step = "stack"
    <3>1. u = {} /\ m = [c \in Cell |-> 0]
      BY <1>1, <1>4, <2>1
    <3>2. st = memory_map([mem |-> m, used |-> {}], i, i)
      BY <1>5, <3>1, Zenon
    <3> QED
      BY <1>3, <3>1, <3>2, TheFirstTables
  <2>2. CASE step # "stack"
    <3>1. PICK n \in 3..LastTable : TreeOf(m, u, n)
      BY <1>1, <1>4, <2>2
    <3> QED
      BY <1>3, <1>5, <3>1, MapsNext
  <2> QED
    BY <2>1, <2>2
<1>7. PICK k \in 3..LastTable : TreeOf(mem', used', k)
  BY <1>2, <1>6
<1>8. mem' \in [Cell -> Nat] /\ used' \subseteq 0..(NB_PAGE - 1)
  <2>1. PICK m2, u2 : m2 = mem' /\ u2 = used' /\ TreeOf(m2, u2, k)
    BY <1>7
  <2>2. m2 \in [Cell -> Nat] /\ u2 \subseteq Page
    BY <2>1 DEF TreeOf, TablesMarked
  <2> QED
    BY <2>1, <2>2, PagesHaveEntries
<1>9. LoadingTypeOK'
  BY <1>1, <1>8 DEF LoadingTypeOK
<1>10. SectionsInOrder' /\ SectionsInPlace'
  <2>1. loaded' = <<>> /\ page_dico' = {}
    <3>1. /\ DOMAIN loaded = {}
          /\ page_dico = {PageOf(loaded[j].addr) : j \in DOMAIN loaded}
      BY <1>1, NoDomain, Zenon DEF SectionsInOrder
    <3>2. page_dico = {}
      BY <3>1
    <3> QED
      BY <1>1, <3>2
  <2>2. DOMAIN loaded' = {}
    BY <2>1, NoDomain, Zenon
  <2>3. SectionsInOrder'
    BY <2>1, <2>2 DEF SectionsInOrder
  <2>4. SectionsInPlace'
    BY <2>2 DEF SectionsInPlace
  <2> QED
    BY <2>3, <2>4
<1> QED
  BY <1>1, <1>7, <1>9, <1>10 DEF LoadingInv, Offset

LEMMA StackTopStep ==
  ASSUME LoadingInv, StackTop
  PROVE  LoadingInv'
<1>1. STACK_ADDRESS \in Int /\ PageOf(STACK_ADDRESS) \in Page
  BY LoadingAssumption, RoomForTables, CellsHavePages
<1>2. PageOf(STACK_ADDRESS) > LastTable
  <2>1. PICK s \in Int : /\ s = STACK_ADDRESS - STACK_SIZE /\ LastTable < PageOf(s)
                         /\ s <= STACK_ADDRESS
    BY LoadingAssumption, RoomForTables
  <2> QED
    BY <1>1, <2>1, PagesAreOrdered, AddressParts, TablesHaveRoom
<1>3. /\ step = "stack" /\ Map(STACK_ADDRESS, STACK_ADDRESS) /\ step' = "stack pages"
      /\ page_dico' = page_dico /\ new_page' = new_page /\ file' = file
      /\ loaded' = loaded /\ size' = size
  BY DEF StackTop
<1>4. size \in 0..STACK_SIZE /\ Offset(size) = 0
  BY DEF LoadingInv, LoadingTypeOK, Offset
<1> QED
  BY <1>1, <1>2, <1>3, <1>4, StackMapped

LEMMA StackPageStep ==
  ASSUME LoadingInv, StackPage
  PROVE  LoadingInv'
<1>1. PICK E \in Nat : E = EntriesPerPage /\ E > 0
  BY TablesHaveRoom
<1>2. /\ STACK_ADDRESS \in Nat /\ STACK_SIZE \in Nat /\ STACK_SIZE < STACK_ADDRESS
      /\ STACK_ADDRESS \in Cell /\ PageOf(STACK_ADDRESS) \in Page
  BY LoadingAssumption, RoomForTables, CellsHavePages
<1>3. PICK s \in Int : /\ s = STACK_ADDRESS - STACK_SIZE /\ LastTable < PageOf(s)
                       /\ 0 <= s
  BY <1>2, RoomForTables
<1>4. size \in 0..STACK_SIZE /\ Offset(size) = 0 /\ size # 0
  BY DEF LoadingInv, LoadingTypeOK, StackPage, Offset
<1>5. size - E \in 0..STACK_SIZE /\ Offset(size - E) = 0
  <2>1. PICK q \in Int : q = PageOf(size)
    BY <1>4, AddressParts
  <2>2. size = q * E + 0
    BY <1>1, <1>4, <2>1, AddressParts
  <2>3. q >= 1
    <3> SUFFICES ASSUME q <= 0 PROVE FALSE
      BY <2>1
    <3>1. q * E <= 0
      BY <1>1
    <3> QED
      BY <1>4, <2>2, <3>1
  <2>4. PICK r \in Nat : q = 1 + r
    <3>1. q - 1 \in Nat
      BY <2>3
    <3> QED
      BY <3>1
  <2>5. size - E = r * E + 0
    BY <1>1, <2>2, <2>4
  <2>6. r * E \in Nat /\ size - E >= 0
    BY <1>1, <2>5
  <2>7. Offset(r * E + 0) = 0
    <3>1. 0 \in 0..(EntriesPerPage - 1)
      BY TablesHaveRoom
    <3>2. Offset(r * EntriesPerPage + 0) = 0
      BY <3>1, PageArithmetic
    <3> QED
      BY <1>1, <3>2, Zenon
  <2>8. Offset(size - E) = 0
    BY <2>5, <2>7
  <2> QED
    BY <1>1, <1>2, <1>4, <2>6, <2>8
<1>6. PICK i \in Int : i = STACK_ADDRESS - (STACK_SIZE - size) - E
  BY <1>1, <1>2, <1>4
<1>7. s <= i /\ i <= STACK_ADDRESS
  BY <1>1, <1>2, <1>3, <1>4, <1>5, <1>6
<1>8. PageOf(i) \in Page /\ PageOf(i) > LastTable
  <2>1. PageOf(s) <= PageOf(i) /\ PageOf(s) \in Int /\ PageOf(i) \in Int
    BY <1>3, <1>6, <1>7, PagesAreOrdered, AddressParts
  <2>2. i \in Cell
    <3>1. PICK top \in Int : top = MemPages * EntriesPerPage - 1
      BY TablesHaveRoom
    <3>2. Cell = 0..top
      BY <3>1 DEF Cell
    <3> QED
      BY <1>2, <1>3, <1>6, <1>7, <3>1, <3>2
  <2> QED
    BY <1>3, <1>6, <2>1, <2>2, CellsHavePages, TablesHaveRoom
<1>9. /\ step = "stack pages" /\ Map(i, i) /\ step' = "stack pages"
      /\ page_dico' = page_dico /\ new_page' = new_page /\ file' = file
      /\ loaded' = loaded /\ size' = size - E
  BY <1>1, <1>6 DEF StackPage
<1> QED
  BY <1>1, <1>5, <1>8, <1>9, StackMapped

(* load_file is called, and returns to the launcher.                       *)
LEMMA NextFileStep ==
  ASSUME LoadingInv, NextFile
  PROVE  LoadingInv'
<1>1. /\ LoadingTypeOK /\ SectionsInOrder /\ SectionsInPlace
      /\ size % EntriesPerPage = 0 /\ file \in 0..Len(FileStart)
      /\ step # "stack" /\ file < Len(FileStart)
      /\ \E n \in 3..LastTable : TreeOf(mem, used, n)
  BY DEF LoadingInv, LoadingTypeOK, NextFile
<1>2. /\ file' = file + 1 /\ step' = "sections" /\ new_page' = 0
      /\ mem' = mem /\ used' = used /\ page_dico' = page_dico /\ size' = size
      /\ loaded' = loaded
  BY DEF NextFile
<1>3. Len(FileStart) \in Nat
  BY LayoutOfFiles
<1>4. file' \in 0..Len(FileStart) /\ file' > 0 /\ file < file'
  BY <1>1, <1>2, <1>3
<1>5. 0 \in Cell /\ Offset(0) = 0
  <2>1. 0 \in 0..(EntriesPerPage - 1) /\ 0 * EntriesPerPage + 0 = 0 /\ 0 \in Page
    BY TablesHaveRoom
  <2>2. PageOf(0) = 0 /\ Offset(0) = 0
    BY <2>1, PageArithmetic
  <2> QED
    BY <2>1, <2>2, CellsHavePages
<1>6. LoadingTypeOK'
  BY <1>1, <1>2, <1>4, <1>5 DEF LoadingTypeOK
<1>7. SectionsInOrder'
  <2>1. \A i \in DOMAIN loaded : loaded[i].file <= file /\ loaded[i].file \in Int
    <3>1. \A i \in DOMAIN loaded : loaded[i].file \in DOMAIN FileStart
      BY <1>1, SectionFields DEF LoadingTypeOK
    <3> QED
      BY <1>1, <3>1, LayoutOfFiles DEF SectionsInOrder
  <2>2. \A i \in DOMAIN loaded : loaded[i].file <= file' /\ loaded[i].file # file'
    BY <1>1, <1>4, <2>1
  <2> QED
    BY <1>1, <1>2, <2>2 DEF SectionsInOrder
<1>8. SectionsInPlace'
  BY <1>1, <1>2 DEF SectionsInPlace, InPlace
<1> QED
  BY <1>1, <1>2, <1>4, <1>6, <1>7, <1>8 DEF LoadingInv

LEMMA LaunchStep ==
  ASSUME LoadingInv, Launch
  PROVE  LoadingInv'
BY DEF LoadingInv, LoadingTypeOK, Launch, SectionsInOrder, SectionsInPlace, InPlace

LEMMA LoadingStutter ==
  ASSUME LoadingInv, UNCHANGED loadingVars
  PROVE  LoadingInv'
BY DEF LoadingInv, LoadingTypeOK, loadingVars, SectionsInOrder, SectionsInPlace, InPlace

LEMMA BlankInv == Blank => LoadingInv
<1> SUFFICES ASSUME Blank PROVE LoadingInv
  OBVIOUS
<1>1. 0 \in Cell /\ Offset(0) = 0
  <2>1. 0 \in 0..(EntriesPerPage - 1) /\ 0 * EntriesPerPage + 0 = 0 /\ 0 \in Page
    BY TablesHaveRoom
  <2>2. PageOf(0) = 0 /\ Offset(0) = 0
    BY <2>1, PageArithmetic
  <2> QED
    BY <2>1, <2>2, CellsHavePages
<1>2. /\ STACK_SIZE \in Nat /\ STACK_SIZE % EntriesPerPage = 0
      /\ Len(FileStart) \in Nat
  BY LoadingAssumption, LayoutOfFiles
<1>3. LoadingTypeOK
  BY <1>1, <1>2 DEF Blank, LoadingTypeOK
<1>4. SectionsInOrder /\ SectionsInPlace
  BY DEF Blank, SectionsInOrder, SectionsInPlace
<1> QED
  BY <1>2, <1>3, <1>4 DEF Blank, LoadingInv

-----------------------------------------------------------------------------
(* From the blank VM to the launch, the tables are a tree in the pages     *)
(* before the first that is mapped, and each section is where its file has *)
(* it: create_stack and load_file keep LoadingInv.                         *)
THEOREM LoadingInvariant == LoadingSpec => []LoadingInv
<1>1. LoadingInv /\ [LoadingNext]_loadingVars => LoadingInv'
  BY StackTopStep, StackPageStep, NextFileStep, SectionStep, LaunchStep, LoadingStutter
  DEF LoadingNext
<1> QED
  BY BlankInv, <1>1, PTL DEF LoadingSpec

(* The variables of the launcher and of load_file keep their ranges.       *)
THEOREM LoadingIsTyped == LoadingSpec => []LoadingTypeOK
<1>1. LoadingInv => LoadingTypeOK
  BY DEF LoadingInv
<1> QED
  BY LoadingInvariant, <1>1, PTL

(* What load_file has copied stays where it is and what it is, whatever is *)
(* mapped and copied after it.                                             *)
THEOREM SectionsStayInPlace == LoadingSpec => []SectionsInPlace
<1>1. LoadingInv => SectionsInPlace
  BY DEF LoadingInv
<1> QED
  BY LoadingInvariant, <1>1, PTL

(* The walk of any page, at any time: only to itself, by tables before it. *)
LEMMA WalkOfPage ==
  ASSUME LoadingInv, NEW a \in PageStarts, Len(WalkOf(mem, a)) = 5
  PROVE  /\ a \in Int /\ PageOf(a) \in Page /\ PageOf(a) > LastTable
         /\ \E t \in 4..LastTable : WalkOf(mem, a) = <<1, 2, 3, t, PageOf(a)>>
<1>1. PICK p \in Page : a = p * EntriesPerPage
  BY DEF PageStarts, Page
<1>2. a \in Int /\ PageOf(a) = p
  <2>1. p \in Int
    BY DEF Page
  <2> QED
    BY <1>1, <2>1, PageBaseOf
<1>3. step # "stack"
  <2> SUFFICES ASSUME step = "stack" PROVE FALSE
    OBVIOUS
  <2>1. mem = [c \in Cell |-> 0]
    BY DEF LoadingInv
  <2>2. PICK m \in {mem} : m = [c \in Cell |-> 0]
    BY <2>1
  <2>3. Len(WalkOf(m, a)) = 1
    BY <1>2, <2>2, WalkOfBlank
  <2> QED
    BY <2>2, <2>3
<1>4. PICK n \in 3..LastTable : TreeOf(mem, used, n)
  BY <1>3 DEF LoadingInv
<1> QED
  BY <1>2, <1>4, WalkOfTree

(* The addresses that syscall_handler indexes guest memory with are        *)
(* physical ones.                                                          *)
THEOREM GuestAddressesArePhysical == LoadingSpec => []IdentityMapped
<1>1. LoadingInv => IdentityMapped
  <2> SUFFICES ASSUME LoadingInv, NEW a \in PageStarts, Len(WalkOf(mem, a)) = 5
               PROVE  WalkOf(mem, a)[5] = PageOf(a)
    BY DEF IdentityMapped
  <2>1. PICK t \in 4..LastTable : WalkOf(mem, a) = <<1, 2, 3, t, PageOf(a)>>
    BY WalkOfPage
  <2> QED
    BY <2>1
<1> QED
  BY LoadingInvariant, <1>1, PTL

(* What memory_map allocates for its tables, the guest cannot reach and no *)
(* section has been copied to.                                             *)
THEOREM TablesStayPrivate == LoadingSpec => []TablesPrivate
<1>1. LoadingInv => TablesPrivate
  <2> SUFFICES ASSUME LoadingInv PROVE TablesPrivate
    OBVIOUS
  <2>1. LastTable \in Int /\ LastTable >= 4
    BY TablesHaveRoom
  <2>2. ASSUME NEW w \in Mapped
        PROVE  w[5] > LastTable /\ w[5] \in Int
               /\ \A i \in 1..4 : w[i] \in 1..LastTable
    <3>1. PICK a \in PageStarts : w = WalkOf(mem, a) /\ Len(WalkOf(mem, a)) = 5
      BY DEF Mapped
    <3>2. PICK t \in 4..LastTable : w = <<1, 2, 3, t, PageOf(a)>>
      BY <3>1, WalkOfPage
    <3>3. PageOf(a) > LastTable /\ PageOf(a) \in Int
      BY <3>1, WalkOfPage DEF Page
    <3>4. w[1] = 1 /\ w[2] = 2 /\ w[3] = 3 /\ w[4] = t /\ w[5] = PageOf(a)
      BY <3>2
    <3>5. \A i \in 1..4 : i = 1 \/ i = 2 \/ i = 3 \/ i = 4
      OBVIOUS
    <3>6. \A i \in 1..4 : w[i] \in 1..LastTable
      BY <2>1, <3>4, <3>5
    <3> QED
      BY <3>3, <3>4, <3>6
  <2>3. \A x \in Tables : x \in 1..LastTable
    BY <2>2 DEF Tables
  <2>4. \A w \in Mapped : w[5] \notin Tables
    BY <2>1, <2>2, <2>3
  <2>5. ASSUME NEW i \in DOMAIN loaded, NEW c \in Cells(loaded[i])
        PROVE  PageOf(c) \notin Tables
    <3>1. PICK s : s = loaded[i]
      OBVIOUS
    <3>2. s.file \in DOMAIN FileStart /\ s.addr \in Int /\ s.size \in Nat
      BY <3>1, SectionFields DEF LoadingInv, LoadingTypeOK
    <3>3. FileStart[s.file] <= s.addr
      BY <3>1 DEF LoadingInv, SectionsInOrder
    <3>4. PICK f \in Int : f = FileStart[s.file] /\ LastTable < PageOf(f)
      BY <3>2, LayoutOfFiles
    <3>5. c \in Int /\ f <= c
      BY <3>1, <3>2, <3>3, <3>4 DEF Cells
    <3>6. PageOf(f) <= PageOf(c) /\ PageOf(f) \in Int /\ PageOf(c) \in Int
      BY <3>5, PagesAreOrdered, AddressParts
    <3> QED
      BY <2>1, <2>3, <3>4, <3>6
  <2> QED
    BY <2>4, <2>5 DEF TablesPrivate
<1> QED
  BY LoadingInvariant, <1>1, PTL
=============================================================================
