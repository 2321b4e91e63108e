---------------------------- MODULE TableProofs ----------------------------
(***************************************************************************)
(* Proofs about Table for any number of pages, slots, values, texts, rows, *)
(* statements and restarts: a row with an operation keeps its page, the    *)
(* indexes have the entries of the rows, a unique index keeps its values   *)
(* apart, and a scan finds what the client was told.                       *)
(*                                                                         *)
(* The first part says what the operators of RecordFile and Table do to a  *)
(* file of rows and to the indexes. It says it of files f and g and of     *)
(* indexes ixs and jxs, so that the second part can use it of the state    *)
(* and of the next state.                                                  *)
(***************************************************************************)
EXTENDS Table, FiniteSetTheorems, WellFoundedInduction, TLAPS

Cells == RowType \cup {NoRow, Garbage}
Pages == [alloc : BOOLEAN, cap : {0, Capacity}, rows : [SlotNum -> Cells],
          text : Texts \cup {NoText}]
Files == [pages : [PageNum -> Pages], count : 1 .. MaxPage + 1, cur : 0 .. MaxPage]
-----------------------------------------------------------------------------
(* Numbers and slots *)

\* A non-empty set of numbers has a least one.
LEMMA MinLemma ==
  ASSUME NEW S \in SUBSET Nat, S # {}
  PROVE  Min(S) \in S /\ \A y \in S : Min(S) <= y
<1> DEFINE R == {ss \in Nat \X Nat : ss[1] < ss[2]}
<1>1. IsWellFoundedOn(R, Nat)
  BY NatLessThanWellFounded, Zenon DEF OpToRel
<1> HIDE DEF R
<1>2. PICK x \in S : \A y \in S : ~(<<y, x>> \in R)
  BY <1>1, WFMin
<1>3. \A y \in S : y \in Nat
  OBVIOUS
<1>4. \A y \in S : ~(y < x)
  BY <1>2, <1>3 DEF R
<1>5. \A y \in S : x <= y
  BY <1>3, <1>4
<1>6. QED
  BY <1>5 DEF Min

\* A row is neither an empty slot nor the bytes of a text.
LEMMA RowIs ==
  ASSUME NEW row \in RowType
  PROVE  /\ row # NoRow /\ row # Garbage
         /\ row.id \in 1 .. MaxRow /\ row.a \in AValues /\ row.b \in BValues \cup {Null}
         /\ row.txt \in 0 .. MaxPage /\ row.del \in BOOLEAN
<1>1. row.id \in 1 .. MaxRow
  BY DEF RowType
<1>2. NoRow.id = 0 /\ Garbage.id = -1
  BY DEF NoRow, Garbage
<1>3. row # NoRow /\ row # Garbage
  BY <1>1, <1>2
<1>4. QED
  BY <1>1, <1>3 DEF RowType

\* A page that is not full is a page of rows with an empty slot.
LEMMA Roomy ==
  ASSUME NEW page \in Pages, ~IsFull(page)
  PROVE  page.cap = Capacity /\ SlotNum \ Used(page) # {}
<1>1. IsFiniteSet(SlotNum) /\ Cardinality(SlotNum) = Capacity
  BY CapacityAssumption, FS_Interval DEF SlotNum
<1>2. IsFiniteSet(Used(page)) /\ Cardinality(Used(page)) \in Nat
  BY <1>1, FS_Subset, FS_CardinalityType DEF Used
<1>3. page.cap \in {0, Capacity}
  BY DEF Pages
<1>4. ~(Cardinality(Used(page)) >= page.cap)
  BY DEF IsFull
<1>5. page.cap = Capacity /\ Cardinality(Used(page)) # Capacity
  BY <1>2, <1>3, <1>4, CapacityAssumption
<1>6. Used(page) # SlotNum
  BY <1>1, <1>5
<1>7. QED
  BY <1>5, <1>6 DEF Used

\* A page with an empty slot is not full.
LEMMA NotFull ==
  ASSUME NEW page \in Pages, page.cap = Capacity, NEW s \in SlotNum, page.rows[s] = NoRow
  PROVE  ~IsFull(page)
<1>1. IsFiniteSet(SlotNum) /\ Cardinality(SlotNum) = Capacity
  BY CapacityAssumption, FS_Interval DEF SlotNum
<1>2. Used(page) \subseteq SlotNum /\ Used(page) # SlotNum
  BY DEF Used
<1>3. IsFiniteSet(Used(page)) /\ Cardinality(Used(page)) \in Nat
  BY <1>1, <1>2, FS_Subset, FS_CardinalityType
<1>4. Cardinality(Used(page)) < Capacity
  BY <1>1, <1>2, FS_Subset, FS_CardinalityType, CapacityAssumption
<1>5. QED
  BY <1>3, <1>4, CapacityAssumption DEF IsFull
-----------------------------------------------------------------------------
(* The record file *)

\* The row at rid in file f
At(f, rid) == f.pages[rid[1]].rows[rid[2]]

LEMMA FileParts ==
  ASSUME NEW f \in Files
  PROVE  /\ f.pages \in [PageNum -> Pages] /\ f.count \in 1 .. MaxPage + 1 /\ f.cur \in 0 .. MaxPage
         /\ \A p \in PageNum :
              /\ f.pages[p] \in Pages
              /\ f.pages[p].alloc \in BOOLEAN /\ f.pages[p].cap \in {0, Capacity}
              /\ f.pages[p].rows \in [SlotNum -> Cells]
              /\ f.pages[p].text \in Texts \cup {NoText}
         /\ \A rid \in RID : rid[1] \in PageNum /\ rid[2] \in SlotNum /\ At(f, rid) \in Cells
<1>1. f.pages \in [PageNum -> Pages] /\ f.count \in 1 .. MaxPage + 1 /\ f.cur \in 0 .. MaxPage
  BY DEF Files
<1>2. \A p \in PageNum : f.pages[p] \in Pages
  BY <1>1
<1>3. \A p \in PageNum : /\ f.pages[p].alloc \in BOOLEAN /\ f.pages[p].cap \in {0, Capacity}
                         /\ f.pages[p].rows \in [SlotNum -> Cells]
                         /\ f.pages[p].text \in Texts \cup {NoText}
  BY <1>2 DEF Pages
<1>4. \A rid \in RID : rid[1] \in PageNum /\ rid[2] \in SlotNum
  BY DEF RID
<1>5. \A rid \in RID : At(f, rid) \in Cells
  BY <1>3, <1>4 DEF At
<1>6. QED
  BY <1>1, <1>2, <1>3, <1>4, <1>5

\* A scan finds the rows in the slots of allocated pages of rows, and so does
\* get_record.
LEMMA ScannedIs ==
  ASSUME NEW f \in Files, NEW rid \in RID
  PROVE  /\ rid \in Scanned(f) <=> /\ Allocated(f, rid[1]) /\ f.pages[rid[1]].cap = Capacity
                                   /\ At(f, rid) # NoRow
         /\ Found(f, rid) <=> rid \in Scanned(f)
<1>1. rid[1] \in PageNum /\ rid[2] \in 1 .. Capacity
  BY DEF RID, SlotNum
<1>2. f.pages[rid[1]].cap \in {0, Capacity}
  BY <1>1, FileParts
<1>3. f.pages[rid[1]].cap >= rid[2] <=> f.pages[rid[1]].cap = Capacity
  BY <1>1, <1>2, CapacityAssumption
<1>4. rid \in Scanned(f) <=> /\ Allocated(f, rid[1]) /\ f.pages[rid[1]].cap = Capacity
                             /\ At(f, rid) # NoRow
  BY <1>3 DEF Scanned, At
<1>5. rid[2] > f.pages[rid[1]].cap <=> f.pages[rid[1]].cap # Capacity
  BY <1>1, <1>2, CapacityAssumption
<1>6. Fetched(f, rid).rc = "SUCCESS" <=> f.pages[rid[1]].cap = Capacity /\ At(f, rid) # NoRow
  BY <1>5 DEF Fetched, At
<1>7. QED
  BY <1>4, <1>6 DEF Found, Defined

\* insert_record: file g has the row at rid, on the page of the insertions.
Adds(f, g, rid, row) ==
  /\ g \in Files /\ rid \in RID /\ g.cur = rid[1] /\ Allocated(g, rid[1])
  /\ g.pages[rid[1]].cap = Capacity /\ g.pages[rid[1]].text = NoText
  /\ At(g, rid) = row
  /\ \A s \in SlotNum : s < rid[2] => g.pages[rid[1]].rows[s] # NoRow
  /\ \A p \in PageNum \ {rid[1]} :
       /\ g.pages[p] = f.pages[p]
       /\ p < g.count <=> p < f.count
  /\ \/ /\ Allocated(f, rid[1]) /\ f.pages[rid[1]].cap = Capacity /\ At(f, rid) = NoRow
        /\ \A s \in SlotNum \ {rid[2]} : g.pages[rid[1]].rows[s] = f.pages[rid[1]].rows[s]
     \/ /\ ~Allocated(f, rid[1])
        /\ \A s \in SlotNum \ {rid[2]} : g.pages[rid[1]].rows[s] = NoRow

\* A page of zeros, and an empty page of rows
LEMMA NewPages ==
  /\ ZeroPage \in Pages /\ ZeroPage.alloc /\ ZeroPage.cap = 0
  /\ EmptyPage \in Pages /\ EmptyPage.alloc /\ EmptyPage.cap = Capacity
  /\ \A s \in SlotNum : EmptyPage.rows[s] = NoRow /\ ZeroPage.rows[s] = NoRow
<1>1. EmptySlots \in [SlotNum -> Cells] /\ \A s \in SlotNum : EmptySlots[s] = NoRow
  BY DEF EmptySlots, Cells
<1>2. ZeroPage \in Pages /\ ZeroPage.alloc /\ ZeroPage.cap = 0 /\ ZeroPage.rows = EmptySlots
  BY <1>1 DEF ZeroPage, Pages
<1>3. EmptyPage.alloc = ZeroPage.alloc /\ EmptyPage.cap = Capacity /\ EmptyPage.rows = ZeroPage.rows
  BY <1>2 DEF EmptyPage, Pages
<1>4. EmptyPage \in Pages
  BY <1>2 DEF EmptyPage, Pages
<1>5. QED
  BY <1>1, <1>2, <1>3, <1>4

\* The page insert_record goes on with has room; it was there, or it is new.
LEMMA RoomForLemma ==
  ASSUME NEW f \in Files, CanInsert(f), NEW g, g = RoomFor(f)
  PROVE  /\ g \in Files /\ g.cur \in PageNum /\ g.cur < g.count /\ g.pages[g.cur].alloc
         /\ ~IsFull(g.pages[g.cur])
         /\ \A p \in PageNum \ {g.cur} : g.pages[p] = f.pages[p] /\ (p < g.count <=> p < f.count)
         /\ \/ Allocated(f, g.cur) /\ g.pages = f.pages
            \/ ~Allocated(f, g.cur) /\ g.pages[g.cur] = EmptyPage
<1>1. PICK start : start = IF f.cur = 0 /\ f.count >= 2 THEN 1 ELSE f.cur
  OBVIOUS
<1>2. /\ f.pages \in [PageNum -> Pages] /\ f.count \in 1 .. MaxPage + 1 /\ f.cur \in 0 .. MaxPage
      /\ \A p \in PageNum : f.pages[p] \in Pages
  BY FileParts
<1>3. CASE Fitting(f) # {}
  <2>1. Fitting(f) \subseteq Nat
    BY <1>2 DEF Fitting, Tried
  <2>2. Min(Fitting(f)) \in Fitting(f)
    BY <1>3, <2>1, MinLemma
  <2>3. PICK p : p = Tried(start, f.count)[Min(Fitting(f))]
    OBVIOUS
  <2>4. Allocated(f, p) /\ ~IsFull(f.pages[p])
    BY <1>1, <2>2, <2>3 DEF Fitting
  <2>5. g = [f EXCEPT !.cur = p]
    BY <1>1, <1>3, <2>3 DEF RoomFor
  <2>6. g.pages = f.pages /\ g.count = f.count /\ g.cur = p /\ p \in 0 .. MaxPage
    BY <2>4, <2>5, MaxPageAssumption DEF Files, Allocated, PageNum
  <2>7. g \in Files
    BY <2>5, <2>6 DEF Files
  <2>8. QED
    BY <2>4, <2>6, <2>7 DEF Allocated
<1>4. CASE Fitting(f) = {}
  <2>1. PICK p : p = NextPage(f)
    OBVIOUS
  <2>2. CanAllocate(f)
    BY <1>4 DEF CanInsert
  <2>3. p \in PageNum /\ p <= f.count /\ ~Allocated(f, p)
    <3>1. CASE FreePages(f) # {}
      <4>1. p \in FreePages(f)
        BY <2>1, <3>1, MinLemma, MaxPageAssumption DEF NextPage, FreePages, PageNum
      <4>2. QED
        BY <1>2, <4>1 DEF FreePages, Allocated, PageNum
    <3>2. CASE FreePages(f) = {}
      BY <1>2, <2>1, <2>2, <3>2, MaxPageAssumption DEF NextPage, CanAllocate, Allocated, PageNum
    <3>3. QED
      BY <3>1, <3>2
  <2>4. g = [WithPage(f, p, EmptyPage) EXCEPT !.cur = p]
    BY <1>1, <1>4, <2>1 DEF RoomFor
  <2>5. /\ g.pages = [f.pages EXCEPT ![p] = EmptyPage] /\ g.cur = p
        /\ g.count = IF p < f.count THEN f.count ELSE p + 1
        /\ g = [pages |-> g.pages, count |-> g.count, cur |-> g.cur]
    BY <2>4 DEF WithPage, Files
  <2>6. /\ EmptyPage \in Pages /\ EmptyPage.alloc /\ EmptyPage.cap = Capacity
        /\ \A s \in SlotNum : EmptyPage.rows[s] = NoRow
    BY NewPages
  <2>7. g.pages \in [PageNum -> Pages] /\ g.count \in 1 .. MaxPage + 1 /\ g.cur \in 0 .. MaxPage
    BY <1>2, <2>3, <2>5, <2>6, MaxPageAssumption DEF PageNum
  <2>8. g \in Files
    BY <2>5, <2>7 DEF Files
  <2>9. g.pages[p] = EmptyPage /\ ~IsFull(EmptyPage)
    <3>1. 1 \in SlotNum
      BY CapacityAssumption DEF SlotNum
    <3>2. QED
      BY <1>2, <2>3, <2>5, <2>6, <3>1, NotFull
  <2>10. \A q \in PageNum \ {p} : g.pages[q] = f.pages[q] /\ (q < g.count <=> q < f.count)
    BY <1>2, <2>3, <2>5 DEF PageNum
  <2>11. p < g.count
    BY <1>2, <2>3, <2>5 DEF PageNum
  <2>12. QED
    BY <2>3, <2>5, <2>6, <2>8, <2>9, <2>10, <2>11
<1>5. QED
  BY <1>3, <1>4

LEMMA InsertLemma ==
  ASSUME NEW f \in Files, CanInsert(f), NEW row \in RowType, NEW r, r = InsertRecord(f, row)
  PROVE  Adds(f, r.file, r.rid, row)
<1>1. PICK g : g = RoomFor(f)
  OBVIOUS
<1>2. /\ g \in Files /\ g.cur \in PageNum /\ g.cur < g.count /\ g.pages[g.cur].alloc
      /\ ~IsFull(g.pages[g.cur])
      /\ \A p \in PageNum \ {g.cur} : g.pages[p] = f.pages[p] /\ (p < g.count <=> p < f.count)
      /\ \/ Allocated(f, g.cur) /\ g.pages = f.pages
         \/ ~Allocated(f, g.cur) /\ g.pages[g.cur] = EmptyPage
  BY <1>1, RoomForLemma
<1>3. PICK c : c = g.cur
  OBVIOUS
<1>4. PICK s : s = Min(SlotNum \ Used(g.pages[c]))
  OBVIOUS
<1>5. PICK h : h = [g EXCEPT !.pages[c].rows[s] = row, !.pages[c].text = NoText]
  OBVIOUS
<1>6. r.file = h /\ r.rid = <<c, s>>
  BY <1>1, <1>3, <1>4, <1>5 DEF InsertRecord
<1>7. g.pages \in [PageNum -> Pages] /\ g.count \in 1 .. MaxPage + 1 /\ g.pages[c] \in Pages
  BY <1>2, <1>3, FileParts
<1>8. g.pages[c].cap = Capacity /\ SlotNum \ Used(g.pages[c]) # {}
  BY <1>2, <1>3, <1>7, Roomy
<1>9. s \in SlotNum \ Used(g.pages[c]) /\ \A y \in SlotNum \ Used(g.pages[c]) : s <= y
  <2>1. SlotNum \ Used(g.pages[c]) \in SUBSET Nat
    BY DEF SlotNum
  <2>2. QED
    BY <1>4, <1>8, <2>1, MinLemma
<1>10. s \in SlotNum /\ g.pages[c].rows[s] = NoRow
       /\ \A y \in SlotNum : y < s => g.pages[c].rows[y] # NoRow
  BY <1>9 DEF Used, SlotNum
<1>11. PICK x : x = [g.pages[c] EXCEPT !.rows[s] = row, !.text = NoText]
  OBVIOUS
<1>12. /\ h.pages = [g.pages EXCEPT ![c] = x] /\ h.count = g.count /\ h.cur = c
       /\ h = [pages |-> h.pages, count |-> h.count, cur |-> h.cur]
  BY <1>2, <1>3, <1>5, <1>7, <1>11 DEF Files
<1>13. /\ x.alloc = g.pages[c].alloc /\ x.cap = Capacity /\ x.text = NoText
       /\ x.rows = [g.pages[c].rows EXCEPT ![s] = row]
       /\ x = [alloc |-> x.alloc, cap |-> x.cap, rows |-> x.rows, text |-> x.text]
  BY <1>7, <1>8, <1>11 DEF Pages
<1>14. g.pages[c].rows \in [SlotNum -> Cells] /\ g.pages[c].alloc
  BY <1>2, <1>3, <1>7 DEF Pages
<1>15. /\ x.rows \in [SlotNum -> Cells] /\ x.rows[s] = row
       /\ \A y \in SlotNum \ {s} : x.rows[y] = g.pages[c].rows[y]
  BY <1>10, <1>13, <1>14 DEF Cells
<1>16. x \in Pages
  BY <1>13, <1>14, <1>15 DEF Pages
<1>17. h.pages[c] = x /\ \A p \in PageNum \ {c} : h.pages[p] = g.pages[p]
  BY <1>2, <1>3, <1>7, <1>12
<1>18. h \in Files
  BY <1>2, <1>3, <1>7, <1>12, <1>16 DEF Files, PageNum
<1>19. <<c, s>> \in RID /\ Allocated(h, c)
  BY <1>2, <1>3, <1>10, <1>12, <1>13, <1>14, <1>17 DEF RID, Allocated
<1>20. At(h, <<c, s>>) = row /\ \A y \in SlotNum : y < s => x.rows[y] # NoRow
  BY <1>10, <1>15, <1>17 DEF At, SlotNum
<1>21. \A p \in PageNum \ {c} : h.pages[p] = f.pages[p] /\ (p < h.count <=> p < f.count)
  BY <1>2, <1>3, <1>12, <1>17
<1>22. ASSUME Allocated(f, c), g.pages = f.pages
       PROVE  /\ f.pages[c].cap = Capacity /\ At(f, <<c, s>>) = NoRow
              /\ \A y \in SlotNum \ {s} : x.rows[y] = f.pages[c].rows[y]
  BY <1>8, <1>10, <1>15, <1>22 DEF At
<1>23. ASSUME g.pages[c] = EmptyPage PROVE \A y \in SlotNum \ {s} : x.rows[y] = NoRow
  BY <1>15, <1>23 DEF EmptyPage, ZeroPage, EmptySlots
<1>24. \/ /\ Allocated(f, c) /\ f.pages[c].cap = Capacity /\ At(f, <<c, s>>) = NoRow
          /\ \A y \in SlotNum \ {s} : h.pages[c].rows[y] = f.pages[c].rows[y]
       \/ ~Allocated(f, c) /\ \A y \in SlotNum \ {s} : h.pages[c].rows[y] = NoRow
  BY <1>2, <1>3, <1>17, <1>22, <1>23
<1>25. <<c, s>>[1] = c /\ <<c, s>>[2] = s
  OBVIOUS
<1>26. \A y \in SlotNum : y < s => h.pages[c].rows[y] # NoRow
  BY <1>17, <1>20
<1>27. h.cur = c /\ h.pages[c].cap = Capacity /\ h.pages[c].text = NoText
  BY <1>12, <1>13, <1>17
<1>28. Adds(f, h, <<c, s>>, row)
  BY <1>18, <1>19, <1>20, <1>21, <1>24, <1>25, <1>26, <1>27 DEF Adds
<1>29. QED
  BY <1>6, <1>28

\* After an insertion the scan finds one row more; row is NoRow if the row was
\* refused and taken out again.
LEMMA AddsScanned ==
  ASSUME NEW f \in Files, NEW g, NEW rid, NEW row, Adds(f, g, rid, row)
  PROVE  /\ rid \in RID /\ rid \notin Scanned(f) /\ (rid \in Scanned(g) <=> row # NoRow)
         /\ Scanned(g) \ {rid} = Scanned(f)
         /\ \A q \in Scanned(f) : At(g, q) = At(f, q)
         /\ \A p \in PageNum : Allocated(f, p) => Allocated(g, p)
<1>1. g \in Files /\ rid \in RID /\ Allocated(g, rid[1]) /\ g.pages[rid[1]].cap = Capacity /\ At(g, rid) = row
  BY DEF Adds
<1>2. \A p \in PageNum \ {rid[1]} : g.pages[p] = f.pages[p] /\ (Allocated(g, p) <=> Allocated(f, p))
  BY DEF Adds, Allocated
<1>3. rid \notin Scanned(f) /\ (rid \in Scanned(g) <=> row # NoRow)
  BY <1>1, ScannedIs DEF Adds
<1>4. ASSUME NEW q \in RID, q # rid
      PROVE  (q \in Scanned(g) <=> q \in Scanned(f)) /\ (q \in Scanned(f) => At(g, q) = At(f, q))
  <2>1. q[1] \in PageNum /\ q[2] \in SlotNum /\ q = <<q[1], q[2]>> /\ rid = <<rid[1], rid[2]>>
    BY <1>1 DEF RID
  <2>2. CASE q[1] # rid[1]
    <3>1. g.pages[q[1]] = f.pages[q[1]] /\ (Allocated(g, q[1]) <=> Allocated(f, q[1]))
      BY <1>2, <2>1, <2>2
    <3>2. At(g, q) = At(f, q)
      BY <3>1 DEF At
    <3>3. QED
      BY <1>1, <3>1, <3>2, ScannedIs
  <2>3. CASE q[1] = rid[1]
    <3>1. q[2] \in SlotNum \ {rid[2]}
      BY <1>4, <2>1, <2>3
    <3>2. CASE /\ Allocated(f, rid[1]) /\ f.pages[rid[1]].cap = Capacity
               /\ \A s \in SlotNum \ {rid[2]} : g.pages[rid[1]].rows[s] = f.pages[rid[1]].rows[s]
      <4>1. At(g, q) = At(f, q)
        BY <2>3, <3>1, <3>2 DEF At
      <4>2. QED
        BY <1>1, <2>3, <3>2, <4>1, ScannedIs
    <3>3. CASE ~Allocated(f, rid[1]) /\ \A s \in SlotNum \ {rid[2]} : g.pages[rid[1]].rows[s] = NoRow
      <4>1. At(g, q) = NoRow
        BY <2>3, <3>1, <3>3 DEF At
      <4>2. QED
        BY <1>1, <2>3, <3>3, <4>1, ScannedIs
    <3>4. QED
      BY <3>2, <3>3 DEF Adds
  <2>4. QED
    BY <2>2, <2>3
<1>5. Scanned(f) \subseteq RID /\ Scanned(g) \subseteq RID
  BY DEF Scanned
<1>6. Scanned(g) \ {rid} = Scanned(f)
  BY <1>3, <1>4, <1>5
<1>7. \A q \in Scanned(f) : At(g, q) = At(f, q)
  BY <1>3, <1>4, <1>5
<1>8. \A p \in PageNum : Allocated(f, p) => Allocated(g, p)
  BY <1>1, <1>2
<1>9. QED
  BY <1>1, <1>3, <1>6, <1>7, <1>8

\* delete_record: the slot is cleared, or its page disposed of as it is.
Drops(f, g, rid) ==
  /\ g \in Files /\ rid \in Scanned(f) /\ g.cur = f.cur /\ g.count = f.count
  /\ \A p \in PageNum : g.pages[p].cap = f.pages[p].cap /\ g.pages[p].text = f.pages[p].text
  /\ \A p \in PageNum \ {rid[1]} : g.pages[p] = f.pages[p]
  /\ \/ /\ g.pages[rid[1]].alloc = f.pages[rid[1]].alloc /\ At(g, rid) = NoRow
        /\ \A s \in SlotNum \ {rid[2]} : g.pages[rid[1]].rows[s] = f.pages[rid[1]].rows[s]
     \/ /\ f.cur # rid[1] /\ ~g.pages[rid[1]].alloc /\ g.pages[rid[1]].rows = f.pages[rid[1]].rows
        /\ \A s \in SlotNum \ {rid[2]} : f.pages[rid[1]].rows[s] = NoRow

\* A page of the file replaced by x, and a slot by y
PutPage(f, p, x) == [f EXCEPT !.pages[p] = x]
PutRow(f, p, s, y) == [f EXCEPT !.pages[p].rows[s] = y]

LEMMA PageSet ==
  ASSUME NEW f \in Files, NEW p \in PageNum, NEW x \in Pages, NEW g, g = PutPage(f, p, x)
  PROVE  /\ g \in Files /\ g.cur = f.cur /\ g.count = f.count /\ g.pages[p] = x
         /\ \A q \in PageNum \ {p} : g.pages[q] = f.pages[q]
<1>1. /\ g.pages = [f.pages EXCEPT ![p] = x] /\ g.cur = f.cur /\ g.count = f.count
      /\ g = [pages |-> g.pages, count |-> g.count, cur |-> g.cur]
  BY DEF Files, PutPage
<1>2. f.pages \in [PageNum -> Pages] /\ f.count \in 1 .. MaxPage + 1 /\ f.cur \in 0 .. MaxPage
  BY FileParts
<1>3. g.pages \in [PageNum -> Pages] /\ g.pages[p] = x /\ \A q \in PageNum \ {p} : g.pages[q] = f.pages[q]
  BY <1>1, <1>2
<1>4. QED
  BY <1>1, <1>2, <1>3 DEF Files

LEMMA SlotSet ==
  ASSUME NEW f \in Files, NEW p \in PageNum, NEW s \in SlotNum, NEW y \in Cells,
         NEW g, g = PutRow(f, p, s, y)
  PROVE  /\ g \in Files /\ g.cur = f.cur /\ g.count = f.count
         /\ \A q \in PageNum \ {p} : g.pages[q] = f.pages[q]
         /\ g.pages[p].alloc = f.pages[p].alloc /\ g.pages[p].cap = f.pages[p].cap
         /\ g.pages[p].text = f.pages[p].text /\ g.pages[p].rows[s] = y
         /\ \A z \in SlotNum \ {s} : g.pages[p].rows[z] = f.pages[p].rows[z]
<1>1. PICK x : x = [f.pages[p] EXCEPT !.rows[s] = y]
  OBVIOUS
<1>2. f.pages \in [PageNum -> Pages] /\ f.pages[p] \in Pages /\ f.pages[p].rows \in [SlotNum -> Cells]
  BY FileParts
<1>3. /\ x.alloc = f.pages[p].alloc /\ x.cap = f.pages[p].cap /\ x.text = f.pages[p].text
      /\ x.rows = [f.pages[p].rows EXCEPT ![s] = y]
  BY <1>1, <1>2 DEF Pages
<1>4. x.rows \in [SlotNum -> Cells] /\ x.rows[s] = y /\ \A z \in SlotNum \ {s} : x.rows[z] = f.pages[p].rows[z]
  BY <1>2, <1>3
<1>5. x \in Pages
  BY <1>1, <1>2, <1>4 DEF Pages
<1>6. g = PutPage(f, p, x)
  BY <1>1, <1>2 DEF Files, PutPage, PutRow
<1>7. /\ g \in Files /\ g.cur = f.cur /\ g.count = f.count /\ g.pages[p] = x
      /\ \A q \in PageNum \ {p} : g.pages[q] = f.pages[q]
  BY <1>5, <1>6, PageSet
<1>8. QED
  BY <1>3, <1>4, <1>7

LEMMA DeleteLemma ==
  ASSUME NEW f \in Files, NEW rid \in Scanned(f), NEW g, g = DeleteRecord(f, rid)
  PROVE  Drops(f, g, rid)
<1>1. rid \in RID /\ rid[1] \in PageNum /\ rid[2] \in SlotNum /\ Found(f, rid)
  BY ScannedIs DEF Scanned, RID
<1>2. PICK p : p = rid[1]
  OBVIOUS
<1>3. PICK s : s = rid[2]
  OBVIOUS
<1>4. CASE Used(f.pages[p]) = {s} /\ f.cur # p
  <2>1. g = [f EXCEPT !.pages[p].alloc = FALSE]
    BY <1>1, <1>2, <1>3, <1>4 DEF DeleteRecord
  <2>2. PICK x : x = [f.pages[p] EXCEPT !.alloc = FALSE]
    OBVIOUS
  <2>3. f.pages[p] \in Pages /\ f.pages \in [PageNum -> Pages]
    BY <1>1, <1>2, FileParts
  <2>4. x.rows = f.pages[p].rows /\ x.cap = f.pages[p].cap /\ x.text = f.pages[p].text
    BY <2>2, <2>3 DEF Pages
  <2>5. x \in Pages
    BY <2>2, <2>3 DEF Pages
  <2>6. ~x.alloc
    BY <2>2, <2>3 DEF Pages
  <2>7. g = PutPage(f, p, x)
    BY <1>1, <1>2, <2>1, <2>2, <2>3 DEF Files, PutPage
  <2>8. /\ g \in Files /\ g.cur = f.cur /\ g.count = f.count /\ g.pages[p] = x
        /\ \A q \in PageNum \ {p} : g.pages[q] = f.pages[q]
    BY <1>1, <1>2, <2>5, <2>7, PageSet
  <2>9. \A z \in SlotNum \ {s} : f.pages[p].rows[z] = NoRow
    BY <1>4 DEF Used
  <2>10. \A q \in PageNum : g.pages[q].cap = f.pages[q].cap /\ g.pages[q].text = f.pages[q].text
    BY <2>4, <2>8
  <2>11. f.cur # p /\ ~g.pages[p].alloc /\ g.pages[p].rows = f.pages[p].rows
    BY <1>4, <2>4, <2>6, <2>8
  <2>12. QED
    BY <1>2, <1>3, <2>8, <2>9, <2>10, <2>11 DEF Drops
<1>5. CASE ~(Used(f.pages[p]) = {s} /\ f.cur # p)
  <2>1. g = PutRow(f, p, s, NoRow)
    BY <1>1, <1>2, <1>3, <1>5 DEF DeleteRecord, PutRow
  <2>2. NoRow \in Cells
    BY DEF Cells
  <2>3. /\ g \in Files /\ g.cur = f.cur /\ g.count = f.count
        /\ \A q \in PageNum \ {p} : g.pages[q] = f.pages[q]
        /\ g.pages[p].alloc = f.pages[p].alloc /\ g.pages[p].cap = f.pages[p].cap
        /\ g.pages[p].text = f.pages[p].text /\ g.pages[p].rows[s] = NoRow
        /\ \A z \in SlotNum \ {s} : g.pages[p].rows[z] = f.pages[p].rows[z]
    BY <1>1, <1>2, <1>3, <2>1, <2>2, SlotSet
  <2>4. At(g, rid) = NoRow
    BY <1>2, <1>3, <2>3 DEF At
  <2>5. \A q \in PageNum : g.pages[q].cap = f.pages[q].cap /\ g.pages[q].text = f.pages[q].text
    BY <2>3
  <2>6. QED
    BY <1>2, <1>3, <2>3, <2>4, <2>5 DEF Drops
<1>6. QED
  BY <1>4, <1>5

\* After a deletion the scan finds one row less.
LEMMA DropsScanned ==
  ASSUME NEW f \in Files, NEW g, NEW rid, Drops(f, g, rid)
  PROVE  /\ Scanned(g) = Scanned(f) \ {rid}
         /\ \A q \in Scanned(f) \ {rid} : At(g, q) = At(f, q)
         /\ \A p \in PageNum \ {rid[1]} : Allocated(g, p) <=> Allocated(f, p)
<1>1. g \in Files /\ rid \in RID /\ rid[1] \in PageNum
  BY DEF Drops, Scanned, RID
<1>2. \A p \in PageNum \ {rid[1]} : g.pages[p] = f.pages[p] /\ (Allocated(g, p) <=> Allocated(f, p))
  BY DEF Drops, Allocated
<1>3. rid \notin Scanned(g)
  <2>1. CASE At(g, rid) = NoRow
    BY <1>1, <2>1, ScannedIs
  <2>2. CASE ~g.pages[rid[1]].alloc
    BY <1>1, <2>2, ScannedIs DEF Allocated
  <2>3. QED
    BY <2>1, <2>2 DEF Drops
<1>4. ASSUME NEW q \in RID, q # rid
      PROVE  (q \in Scanned(g) <=> q \in Scanned(f)) /\ (q \in Scanned(f) => At(g, q) = At(f, q))
  <2>1. q[1] \in PageNum /\ q[2] \in SlotNum /\ q = <<q[1], q[2]>> /\ rid = <<rid[1], rid[2]>>
    BY <1>1 DEF RID
  <2>2. CASE q[1] # rid[1]
    <3>1. g.pages[q[1]] = f.pages[q[1]] /\ (Allocated(g, q[1]) <=> Allocated(f, q[1]))
      BY <1>2, <2>1, <2>2
    <3>2. At(g, q) = At(f, q)
      BY <3>1 DEF At
    <3>3. QED
      BY <1>1, <3>1, <3>2, ScannedIs
  <2>3. CASE q[1] = rid[1]
    <3>1. q[2] \in SlotNum \ {rid[2]}
      BY <1>4, <2>1, <2>3
    <3>2. CASE /\ g.pages[rid[1]].alloc = f.pages[rid[1]].alloc
               /\ \A s \in SlotNum \ {rid[2]} : g.pages[rid[1]].rows[s] = f.pages[rid[1]].rows[s]
      <4>1. At(g, q) = At(f, q)
        BY <2>3, <3>1, <3>2 DEF At
      <4>2. Allocated(g, q[1]) <=> Allocated(f, q[1])
        BY <2>3, <3>2 DEF Allocated, Drops
      <4>3. g.pages[q[1]].cap = f.pages[q[1]].cap
        BY <2>1 DEF Drops
      <4>4. QED
        BY <1>1, <4>1, <4>2, <4>3, ScannedIs
    <3>3. CASE /\ ~g.pages[rid[1]].alloc
               /\ \A s \in SlotNum \ {rid[2]} : f.pages[rid[1]].rows[s] = NoRow
      <4>1. At(f, q) = NoRow /\ ~Allocated(g, q[1])
        BY <2>3, <3>1, <3>3 DEF At, Allocated
      <4>2. QED
        BY <1>1, <4>1, ScannedIs
    <3>4. QED
      BY <3>2, <3>3 DEF Drops
  <2>4. QED
    BY <2>2, <2>3
<1>5. Scanned(f) \subseteq RID /\ Scanned(g) \subseteq RID
  BY DEF Scanned
<1>6. Scanned(g) = Scanned(f) \ {rid}
  BY <1>1, <1>3, <1>4, <1>5
<1>7. \A q \in Scanned(f) \ {rid} : At(g, q) = At(f, q)
  BY <1>4, <1>5
<1>8. QED
  BY <1>2, <1>6, <1>7

\* A row that is refused leaves the page of the insertions with its slot empty.
LEMMA Refusal ==
  ASSUME NEW f \in Files, NEW h, NEW rid, NEW row \in RowType, Adds(f, h, rid, row),
         NEW g, g = DeleteRecord(h, rid)
  PROVE  Adds(f, g, rid, NoRow)
<1>1. /\ h \in Files /\ rid \in RID /\ h.cur = rid[1] /\ Allocated(h, rid[1])
      /\ h.pages[rid[1]].cap = Capacity /\ h.pages[rid[1]].text = NoText /\ At(h, rid) = row
  BY DEF Adds
<1>2. rid \in Scanned(h)
  BY <1>1, ScannedIs, RowIs
<1>3. Drops(h, g, rid)
  BY <1>1, <1>2, DeleteLemma
<1>4. rid[1] \in PageNum /\ rid[2] \in SlotNum
  BY <1>1 DEF RID
<1>5. /\ g \in Files /\ g.cur = rid[1] /\ g.count = h.count
      /\ \A p \in PageNum : g.pages[p].cap = h.pages[p].cap /\ g.pages[p].text = h.pages[p].text
      /\ \A p \in PageNum \ {rid[1]} : g.pages[p] = h.pages[p]
      /\ g.pages[rid[1]].alloc = h.pages[rid[1]].alloc /\ At(g, rid) = NoRow
      /\ \A s \in SlotNum \ {rid[2]} : g.pages[rid[1]].rows[s] = h.pages[rid[1]].rows[s]
  BY <1>1, <1>3 DEF Drops
<1>6. Allocated(g, rid[1])
  BY <1>1, <1>5 DEF Allocated
<1>7. g.pages[rid[1]].cap = Capacity /\ g.pages[rid[1]].text = NoText
  BY <1>1, <1>4, <1>5
<1>8. \A s \in SlotNum : s < rid[2] => s \in SlotNum \ {rid[2]}
  BY <1>4 DEF SlotNum
<1>9. \A s \in SlotNum : s < rid[2] => g.pages[rid[1]].rows[s] # NoRow
  BY <1>5, <1>8 DEF Adds
<1>10. \A p \in PageNum \ {rid[1]} : g.pages[p] = f.pages[p] /\ (p < g.count <=> p < f.count)
  BY <1>5 DEF Adds
<1>11. \/ /\ Allocated(f, rid[1]) /\ f.pages[rid[1]].cap = Capacity /\ At(f, rid) = NoRow
          /\ \A s \in SlotNum \ {rid[2]} : g.pages[rid[1]].rows[s] = f.pages[rid[1]].rows[s]
       \/ /\ ~Allocated(f, rid[1])
          /\ \A s \in SlotNum \ {rid[2]} : g.pages[rid[1]].rows[s] = NoRow
  BY <1>5 DEF Adds
<1>12. QED
  BY <1>1, <1>5, <1>6, <1>7, <1>9, <1>10, <1>11 DEF Adds

\* A row is rewritten in place.
Writes(f, g, rid, row) ==
  /\ g \in Files /\ rid \in Scanned(f) /\ g.cur = f.cur /\ g.count = f.count
  /\ \A p \in PageNum : /\ g.pages[p].alloc = f.pages[p].alloc /\ g.pages[p].cap = f.pages[p].cap
                        /\ g.pages[p].text = f.pages[p].text
  /\ At(g, rid) = row
  /\ \A q \in RID \ {rid} : At(g, q) = At(f, q)

LEMMA WriteLemma ==
  ASSUME NEW f \in Files, NEW rid \in Scanned(f), NEW row \in RowType,
         NEW g, g = PutRow(f, rid[1], rid[2], row)
  PROVE  Writes(f, g, rid, row)
<1>1. PICK p \in PageNum, s \in SlotNum : rid = <<p, s>> /\ rid[1] = p /\ rid[2] = s
  BY DEF Scanned, RID
<1>2. row \in Cells
  BY DEF Cells
<1>3. /\ g \in Files /\ g.cur = f.cur /\ g.count = f.count
      /\ \A q \in PageNum \ {p} : g.pages[q] = f.pages[q]
      /\ g.pages[p].alloc = f.pages[p].alloc /\ g.pages[p].cap = f.pages[p].cap
      /\ g.pages[p].text = f.pages[p].text /\ g.pages[p].rows[s] = row
      /\ \A z \in SlotNum \ {s} : g.pages[p].rows[z] = f.pages[p].rows[z]
  BY <1>1, <1>2, SlotSet
<1>4. At(g, rid) = row
  BY <1>1, <1>3 DEF At
<1>5. ASSUME NEW q \in RID \ {rid} PROVE At(g, q) = At(f, q)
  <2>1. PICK y \in PageNum, z \in SlotNum : q = <<y, z>> /\ q[1] = y /\ q[2] = z
    BY DEF RID
  <2>2. CASE y # p
    BY <1>3, <2>1, <2>2 DEF At
  <2>3. CASE y = p
    <3>1. z \in SlotNum \ {s}
      BY <1>1, <2>1, <2>3
    <3>2. QED
      BY <1>3, <2>1, <2>3, <3>1 DEF At
  <2>4. QED
    BY <2>2, <2>3
<1>6. \A q \in PageNum : /\ g.pages[q].alloc = f.pages[q].alloc /\ g.pages[q].cap = f.pages[q].cap
                         /\ g.pages[q].text = f.pages[q].text
  BY <1>3
<1>7. QED
  BY <1>3, <1>4, <1>5, <1>6 DEF Writes

LEMMA WritesScanned ==
  ASSUME NEW f \in Files, NEW g, NEW rid, NEW row \in RowType, Writes(f, g, rid, row)
  PROVE  /\ Scanned(g) = Scanned(f)
         /\ \A p : Allocated(g, p) <=> Allocated(f, p)
<1>1. \A p : Allocated(g, p) <=> Allocated(f, p)
  BY DEF Allocated, Writes
<1>2. ASSUME NEW q \in RID PROVE q \in Scanned(g) <=> q \in Scanned(f)
  <2>1. g \in Files /\ q[1] \in PageNum /\ rid \in Scanned(f) /\ rid \in RID
    BY DEF Writes, RID, Scanned
  <2>2. g.pages[q[1]].cap = f.pages[q[1]].cap
    BY <2>1 DEF Writes
  <2>3. CASE q = rid
    <3>1. At(g, q) # NoRow /\ At(f, q) # NoRow
      BY <2>1, <2>3, ScannedIs, RowIs DEF Writes
    <3>2. QED
      BY <1>1, <2>1, <2>2, <3>1, ScannedIs
  <2>4. CASE q # rid
    <3>1. At(g, q) = At(f, q)
      BY <2>4 DEF Writes
    <3>2. QED
      BY <1>1, <2>1, <2>2, <3>1, ScannedIs
  <2>5. QED
    BY <2>3, <2>4
<1>3. Scanned(f) \subseteq RID /\ Scanned(g) \subseteq RID
  BY DEF Scanned
<1>4. QED
  BY <1>1, <1>2, <1>3

\* Page p becomes x: a text gets its page, is rewritten or deleted.
Puts(f, g, p, x) ==
  /\ g \in Files /\ p \in PageNum /\ x \in Pages /\ x.alloc
  /\ g.cur = f.cur /\ Allocated(g, p) /\ g.pages[p] = x
  /\ \A q \in PageNum \ {p} : g.pages[q] = f.pages[q] /\ (q < g.count <=> q < f.count)

LEMMA PutHere ==
  ASSUME NEW f \in Files, NEW p, Allocated(f, p), NEW x \in Pages, x.alloc, NEW g, g = PutPage(f, p, x)
  PROVE  Puts(f, g, p, x)
<1>1. p \in PageNum /\ p < f.count
  BY DEF Allocated
<1>2. /\ g \in Files /\ g.cur = f.cur /\ g.count = f.count /\ g.pages[p] = x
      /\ \A q \in PageNum \ {p} : g.pages[q] = f.pages[q]
  BY <1>1, PageSet
<1>3. QED
  BY <1>1, <1>2 DEF Puts, Allocated

LEMMA PutNew ==
  ASSUME NEW f \in Files, CanAllocate(f), NEW p, p = NextPage(f), NEW x \in Pages, x.alloc,
         NEW g, g = WithPage(f, p, x)
  PROVE  Puts(f, g, p, x) /\ ~Allocated(f, p) /\ (p < f.count => ~f.pages[p].alloc)
<1>1. /\ f.pages \in [PageNum -> Pages] /\ f.count \in 1 .. MaxPage + 1 /\ f.cur \in 0 .. MaxPage
  BY FileParts
<1>2. p \in PageNum /\ p <= f.count /\ (p < f.count => ~f.pages[p].alloc)
  <2>1. CASE FreePages(f) # {}
    <3>1. p \in FreePages(f)
      BY <2>1, MinLemma, MaxPageAssumption DEF NextPage, FreePages, PageNum
    <3>2. QED
      BY <1>1, <3>1 DEF FreePages, PageNum
  <2>2. CASE FreePages(f) = {}
    BY <1>1, <2>2, MaxPageAssumption DEF NextPage, CanAllocate, PageNum
  <2>3. QED
    BY <2>1, <2>2
<1>3. /\ g.pages = [f.pages EXCEPT ![p] = x] /\ g.cur = f.cur
      /\ g.count = IF p < f.count THEN f.count ELSE p + 1
      /\ g = [pages |-> g.pages, count |-> g.count, cur |-> g.cur]
  BY DEF WithPage, Files
<1>4. g.pages \in [PageNum -> Pages] /\ g.count \in 1 .. MaxPage + 1 /\ g.cur \in 0 .. MaxPage
  BY <1>1, <1>2, <1>3, MaxPageAssumption DEF PageNum
<1>5. g \in Files
  BY <1>3, <1>4 DEF Files
<1>6. g.pages[p] = x /\ p < g.count
  <2>1. g.pages[p] = x
    BY <1>1, <1>2, <1>3
  <2>2. p < g.count
    BY <1>1, <1>2, <1>3 DEF PageNum
  <2>3. QED
    BY <2>1, <2>2
<1>7. \A q \in PageNum \ {p} : g.pages[q] = f.pages[q] /\ (q < g.count <=> q < f.count)
  BY <1>1, <1>2, <1>3 DEF PageNum
<1>8. Allocated(g, p) /\ ~Allocated(f, p)
  BY <1>2, <1>6 DEF Allocated
<1>9. QED
  BY <1>2, <1>3, <1>5, <1>6, <1>7, <1>8 DEF Puts

\* A page without rows in the place of one without rows
LEMMA PutsScanned ==
  ASSUME NEW f \in Files, NEW g, NEW p, NEW x, Puts(f, g, p, x), ~Allocated(f, p) \/ f.pages[p].cap = 0,
         \A s \in SlotNum : x.rows[s] = NoRow
  PROVE  /\ Scanned(g) = Scanned(f)
         /\ \A rid \in Scanned(f) : rid[1] # p /\ At(g, rid) = At(f, rid)
         /\ \A q \in PageNum \ {p} : Allocated(g, q) <=> Allocated(f, q)
<1>1. \A q \in PageNum \ {p} : g.pages[q] = f.pages[q] /\ (Allocated(g, q) <=> Allocated(f, q))
  BY DEF Puts, Allocated
<1>2. ASSUME NEW rid \in RID
      PROVE  /\ rid \in Scanned(g) <=> rid \in Scanned(f)
             /\ rid \in Scanned(f) => rid[1] # p /\ At(g, rid) = At(f, rid)
  <2>1. g \in Files /\ rid[1] \in PageNum /\ rid[2] \in SlotNum
    BY DEF Puts, RID
  <2>2. CASE rid[1] # p
    <3>1. g.pages[rid[1]] = f.pages[rid[1]] /\ (Allocated(g, rid[1]) <=> Allocated(f, rid[1]))
      BY <1>1, <2>1, <2>2
    <3>2. At(g, rid) = At(f, rid)
      BY <3>1 DEF At
    <3>3. QED
      BY <2>1, <2>2, <3>1, <3>2, ScannedIs
  <2>3. CASE rid[1] = p
    <3>1. At(g, rid) = NoRow
      BY <2>1, <2>3 DEF At, Puts
    <3>2. rid \notin Scanned(f)
      BY <2>3, ScannedIs, CapacityAssumption
    <3>3. QED
      BY <2>1, <3>1, <3>2, ScannedIs
  <2>4. QED
    BY <2>2, <2>3
<1>3. Scanned(f) \subseteq RID /\ Scanned(g) \subseteq RID
  BY DEF Scanned
<1>4. QED
  BY <1>1, <1>2, <1>3
-----------------------------------------------------------------------------
(* What the record file keeps *)

\* The page of the insertions is there, and what was disposed of had rows.
FileOk(f) ==
  /\ f \in Files
  /\ f.cur # 0 => Allocated(f, f.cur)
  /\ \A p \in PageNum : p < f.count /\ ~f.pages[p].alloc => f.pages[p].cap = Capacity

LEMMA AddsOk ==
  ASSUME NEW f, FileOk(f), NEW g, NEW rid, NEW row, Adds(f, g, rid, row)
  PROVE  FileOk(g)
<1>1. g \in Files /\ Allocated(g, g.cur) /\ g.pages[rid[1]].alloc
  BY DEF Adds, Allocated
<1>2. ASSUME NEW p \in PageNum, p < g.count, ~g.pages[p].alloc PROVE g.pages[p].cap = Capacity
  <2>1. p \in PageNum \ {rid[1]}
    BY <1>1, <1>2
  <2>2. g.pages[p] = f.pages[p] /\ p < f.count
    BY <1>2, <2>1 DEF Adds
  <2>3. QED
    BY <1>2, <2>2 DEF FileOk
<1>3. QED
  BY <1>1, <1>2 DEF FileOk

LEMMA DropsOk ==
  ASSUME NEW f, FileOk(f), NEW g, NEW rid, Drops(f, g, rid)
  PROVE  FileOk(g)
<1>1. g \in Files /\ g.cur = f.cur /\ g.count = f.count /\ rid \in RID /\ f \in Files
  BY DEF Drops, Scanned, FileOk
<1>2. rid[1] \in PageNum /\ f.pages[rid[1]].cap = Capacity
  BY <1>1, ScannedIs DEF Drops, RID
<1>3. g.cur # 0 => Allocated(g, g.cur)
  <2>1. SUFFICES ASSUME g.cur # 0 PROVE g.pages[g.cur].alloc = f.pages[g.cur].alloc
    BY <1>1 DEF FileOk, Allocated
  <2>2. g.cur \in PageNum
    BY <1>1, <2>1 DEF FileOk, Allocated
  <2>3. QED
    BY <1>1, <2>2 DEF Drops
<1>4. ASSUME NEW p \in PageNum, p < g.count, ~g.pages[p].alloc PROVE g.pages[p].cap = Capacity
  <2>1. g.pages[p].cap = f.pages[p].cap
    BY DEF Drops
  <2>2. CASE p = rid[1]
    BY <1>2, <2>1, <2>2
  <2>3. CASE p # rid[1]
    BY <1>1, <1>4, <2>3 DEF Drops, FileOk
  <2>4. QED
    BY <2>2, <2>3
<1>5. QED
  BY <1>1, <1>3, <1>4 DEF FileOk

LEMMA WritesOk ==
  ASSUME NEW f, FileOk(f), NEW g, NEW rid, NEW row, Writes(f, g, rid, row)
  PROVE  FileOk(g)
<1>1. g \in Files /\ g.cur = f.cur /\ g.count = f.count
  BY DEF Writes
<1>2. \A p : Allocated(g, p) <=> Allocated(f, p)
  BY DEF Allocated, Writes
<1>3. \A p \in PageNum : g.pages[p].alloc = f.pages[p].alloc /\ g.pages[p].cap = f.pages[p].cap
  BY DEF Writes
<1>4. QED
  BY <1>1, <1>2, <1>3 DEF FileOk

LEMMA PutsOk ==
  ASSUME NEW f, FileOk(f), NEW g, NEW p, NEW x, Puts(f, g, p, x)
  PROVE  FileOk(g)
<1>1. g \in Files /\ g.cur = f.cur /\ Allocated(g, p) /\ g.pages[p].alloc
  BY DEF Puts
<1>2. \A q \in PageNum \ {p} : g.pages[q] = f.pages[q] /\ (q < g.count <=> q < f.count)
  BY DEF Puts
<1>3. g.cur # 0 => Allocated(g, g.cur)
  BY <1>1, <1>2 DEF FileOk, Allocated
<1>4. ASSUME NEW q \in PageNum, q < g.count, ~g.pages[q].alloc PROVE g.pages[q].cap = Capacity
  <2>1. q # p
    BY <1>1, <1>4
  <2>2. QED
    BY <1>2, <1>4, <2>1 DEF FileOk
<1>5. QED
  BY <1>1, <1>3, <1>4 DEF FileOk

\* No slot is taken for a row that is none, and every text is on a page of its own.
TextsOk(f) ==
  /\ \A rid \in RID : At(f, rid) # Garbage
  /\ \A rid \in Scanned(f) : At(f, rid).txt # 0 =>
       Allocated(f, At(f, rid).txt) /\ f.pages[At(f, rid).txt].cap = 0
  /\ \A q, r \in Scanned(f) : At(f, q).txt # 0 /\ At(f, q).txt = At(f, r).txt => q = r

\* The page of a text in f
LEMMA TextPage ==
  ASSUME NEW f, FileOk(f), TextsOk(f), NEW rid \in Scanned(f), At(f, rid).txt # 0
  PROVE  /\ At(f, rid).txt \in PageNum /\ f.pages[At(f, rid).txt].cap = 0
         /\ Allocated(f, At(f, rid).txt)
         /\ \A q \in RID : f.pages[q[1]].cap = Capacity => q[1] # At(f, rid).txt
<1>1. Allocated(f, At(f, rid).txt) /\ f.pages[At(f, rid).txt].cap = 0
  BY DEF TextsOk
<1>2. QED
  BY <1>1, CapacityAssumption DEF Allocated

LEMMA AddsTexts ==
  ASSUME NEW f, FileOk(f), TextsOk(f), NEW g, NEW rid, NEW row \in RowType \cup {NoRow},
         Adds(f, g, rid, row),
         row # NoRow /\ row.txt # 0 =>
           /\ Allocated(f, row.txt) /\ f.pages[row.txt].cap = 0
           /\ \A q \in Scanned(f) : At(f, q).txt # row.txt
  PROVE  TextsOk(g)
<1>1. f \in Files /\ g \in Files /\ rid \in RID /\ rid[1] \in PageNum /\ At(g, rid) = row
  BY DEF Adds, FileOk, RID
<1>2. /\ rid \notin Scanned(f) /\ (rid \in Scanned(g) <=> row # NoRow)
      /\ Scanned(g) \ {rid} = Scanned(f)
      /\ \A q \in Scanned(f) : At(g, q) = At(f, q)
      /\ \A p \in PageNum : Allocated(f, p) => Allocated(g, p)
  BY <1>1, AddsScanned
<1>3. NoRow # Garbage
  <2>1. NoRow.id = 0 /\ Garbage.id = -1
    BY DEF NoRow, Garbage
  <2>2. QED
    BY <2>1
<1>4. ASSUME NEW q \in RID PROVE At(g, q) # Garbage
  <2>1. q[1] \in PageNum /\ q[2] \in SlotNum /\ q = <<q[1], q[2]>> /\ rid = <<rid[1], rid[2]>>
    BY <1>1 DEF RID
  <2>2. CASE q = rid
    BY <1>1, <1>3, <2>2, RowIs
  <2>3. CASE q[1] # rid[1]
    <3>1. g.pages[q[1]] = f.pages[q[1]]
      BY <2>1, <2>3 DEF Adds
    <3>2. QED
      BY <3>1 DEF TextsOk, At
  <2>4. CASE q[1] = rid[1] /\ q # rid
    <3>1. q[2] \in SlotNum \ {rid[2]}
      BY <2>1, <2>4
    <3>2. At(g, q) = At(f, q) \/ At(g, q) = NoRow
      BY <2>4, <3>1 DEF Adds, At
    <3>3. QED
      BY <1>3, <3>2 DEF TextsOk
  <2>5. QED
    BY <2>2, <2>3, <2>4
<1>5. ASSUME NEW p, Allocated(f, p), f.pages[p].cap = 0 PROVE Allocated(g, p) /\ g.pages[p].cap = 0
  <2>1. p \in PageNum /\ p # rid[1]
    BY <1>5, CapacityAssumption DEF Allocated, Adds
  <2>2. QED
    BY <1>2, <1>5, <2>1 DEF Adds
<1>6. ASSUME NEW q \in Scanned(g), At(g, q).txt # 0
      PROVE  Allocated(g, At(g, q).txt) /\ g.pages[At(g, q).txt].cap = 0
  <2>1. CASE q = rid
    BY <1>1, <1>2, <1>5, <1>6, <2>1
  <2>2. CASE q # rid
    BY <1>2, <1>5, <1>6, <2>2 DEF TextsOk
  <2>3. QED
    BY <2>1, <2>2
<1>7. ASSUME NEW q \in Scanned(g), NEW r \in Scanned(g), At(g, q).txt # 0, At(g, q).txt = At(g, r).txt
      PROVE  q = r
  <2>1. CASE q = rid \/ r = rid
    BY <1>1, <1>2, <1>7, <2>1
  <2>2. CASE q # rid /\ r # rid
    BY <1>2, <1>7, <2>2 DEF TextsOk
  <2>3. QED
    BY <2>1, <2>2
<1>8. QED
  BY <1>4, <1>6, <1>7 DEF TextsOk

\* As TextsOk, for the rows but the one at rid, whose text may be gone
TextsBut(f, rid) ==
  /\ \A q \in RID : At(f, q) # Garbage
  /\ \A q \in Scanned(f) \ {rid} : At(f, q).txt # 0 =>
       Allocated(f, At(f, q).txt) /\ f.pages[At(f, q).txt].cap = 0
  /\ \A q, r \in Scanned(f) \ {rid} : At(f, q).txt # 0 /\ At(f, q).txt = At(f, r).txt => q = r

LEMMA DropsTexts ==
  ASSUME NEW f, FileOk(f), NEW g, NEW rid, TextsBut(f, rid), Drops(f, g, rid)
  PROVE  TextsOk(g)
<1>1. f \in Files /\ g \in Files /\ rid \in RID /\ rid \in Scanned(f) /\ rid[1] \in PageNum
  BY DEF Drops, FileOk, RID, Scanned
<1>2. f.pages[rid[1]].cap = Capacity
  BY <1>1, ScannedIs
<1>3. /\ Scanned(g) = Scanned(f) \ {rid}
      /\ \A q \in Scanned(f) \ {rid} : At(g, q) = At(f, q)
      /\ \A p \in PageNum \ {rid[1]} : Allocated(g, p) <=> Allocated(f, p)
  BY <1>1, DropsScanned
<1>4. NoRow # Garbage
  <2>1. NoRow.id = 0 /\ Garbage.id = -1
    BY DEF NoRow, Garbage
  <2>2. QED
    BY <2>1
<1>5. ASSUME NEW q \in RID PROVE At(g, q) # Garbage
  <2>1. q[1] \in PageNum /\ q[2] \in SlotNum /\ q = <<q[1], q[2]>> /\ rid = <<rid[1], rid[2]>>
    BY <1>1 DEF RID
  <2>2. At(g, q) = At(f, q) \/ At(g, q) = NoRow
    <3>1. CASE q[1] # rid[1]
      <4>1. g.pages[q[1]] = f.pages[q[1]]
        BY <2>1, <3>1 DEF Drops
      <4>2. QED
        BY <4>1 DEF At
    <3>2. CASE q[1] = rid[1] /\ q[2] # rid[2]
      <4>1. q[2] \in SlotNum \ {rid[2]}
        BY <2>1, <3>2
      <4>2. g.pages[rid[1]].rows[q[2]] = f.pages[rid[1]].rows[q[2]]
        BY <4>1 DEF Drops
      <4>3. QED
        BY <3>2, <4>2 DEF At
    <3>3. CASE q = rid
      BY <3>3 DEF At, Drops
    <3>4. QED
      BY <2>1, <3>1, <3>2, <3>3
  <2>3. QED
    BY <1>4, <2>2 DEF TextsBut
<1>6. ASSUME NEW q \in Scanned(g), At(g, q).txt # 0
      PROVE  Allocated(g, At(g, q).txt) /\ g.pages[At(g, q).txt].cap = 0
  <2>1. q \in Scanned(f) \ {rid} /\ At(g, q) = At(f, q)
    BY <1>3
  <2>2. PICK p : p = At(f, q).txt
    OBVIOUS
  <2>3. p \in PageNum /\ f.pages[p].cap = 0 /\ Allocated(f, p)
    BY <1>6, <2>1, <2>2 DEF TextsBut, Allocated
  <2>4. p # rid[1]
    BY <1>2, <2>3, CapacityAssumption
  <2>5. Allocated(g, p) /\ g.pages[p].cap = 0
    BY <1>3, <2>3, <2>4 DEF Drops
  <2>6. QED
    BY <2>1, <2>2, <2>5
<1>7. \A q, r \in Scanned(g) : At(g, q).txt # 0 /\ At(g, q).txt = At(g, r).txt => q = r
  BY <1>3 DEF TextsBut
<1>8. QED
  BY <1>5, <1>6, <1>7 DEF TextsOk

LEMMA WritesTexts ==
  ASSUME NEW f, FileOk(f), TextsOk(f), NEW g, NEW rid, NEW row \in RowType, Writes(f, g, rid, row),
         row.txt = At(f, rid).txt
  PROVE  TextsOk(g)
<1>1. f \in Files /\ rid \in Scanned(f) /\ rid \in RID /\ At(g, rid) = row
  BY DEF Writes, FileOk, Scanned
<1>2. Scanned(g) = Scanned(f) /\ \A p : Allocated(g, p) <=> Allocated(f, p)
  BY <1>1, WritesScanned
<1>3. \A q \in RID : At(g, q) # Garbage
  BY <1>1, RowIs DEF Writes, TextsOk
<1>4. \A q \in Scanned(f) : q \in RID /\ At(g, q).txt = At(f, q).txt
  BY <1>1 DEF Writes, Scanned
<1>5. \A p \in PageNum : g.pages[p].cap = f.pages[p].cap
  BY DEF Writes
<1>6. \A q \in Scanned(g) : At(g, q).txt # 0 => Allocated(g, At(g, q).txt) /\ g.pages[At(g, q).txt].cap = 0
  BY <1>2, <1>4, <1>5 DEF TextsOk, Allocated
<1>7. \A q, r \in Scanned(g) : At(g, q).txt # 0 /\ At(g, q).txt = At(g, r).txt => q = r
  BY <1>2, <1>4 DEF TextsOk
<1>8. QED
  BY <1>3, <1>6, <1>7 DEF TextsOk

\* A text gets a page, or another text.
LEMMA PutsTexts ==
  ASSUME NEW f, FileOk(f), TextsOk(f), NEW g, NEW p, NEW x, Puts(f, g, p, x),
         ~Allocated(f, p) \/ f.pages[p].cap = 0, x.cap = 0, \A s \in SlotNum : x.rows[s] = NoRow
  PROVE  TextsOk(g)
<1>1. f \in Files /\ g \in Files /\ p \in PageNum /\ Allocated(g, p) /\ g.pages[p] = x
  BY DEF Puts, FileOk
<1>2. /\ Scanned(g) = Scanned(f)
      /\ \A rid \in Scanned(f) : At(g, rid) = At(f, rid)
      /\ \A q \in PageNum \ {p} : Allocated(g, q) <=> Allocated(f, q)
  BY <1>1, PutsScanned
<1>3. NoRow # Garbage
  <2>1. NoRow.id = 0 /\ Garbage.id = -1
    BY DEF NoRow, Garbage
  <2>2. QED
    BY <2>1
<1>4. ASSUME NEW q \in RID PROVE At(g, q) # Garbage
  <2>1. q[1] \in PageNum /\ q[2] \in SlotNum
    BY DEF RID
  <2>2. CASE q[1] = p
    BY <1>1, <1>3, <2>1, <2>2 DEF At
  <2>3. CASE q[1] # p
    BY <2>1, <2>3 DEF At, Puts, TextsOk
  <2>4. QED
    BY <2>2, <2>3
<1>5. ASSUME NEW q, Allocated(f, q), f.pages[q].cap = 0 PROVE Allocated(g, q) /\ g.pages[q].cap = 0
  BY <1>1, <1>2, <1>5 DEF Allocated, Puts
<1>6. \A q \in Scanned(g) : At(g, q).txt # 0 => Allocated(g, At(g, q).txt) /\ g.pages[At(g, q).txt].cap = 0
  BY <1>2, <1>5 DEF TextsOk
<1>7. \A q, r \in Scanned(g) : At(g, q).txt # 0 /\ At(g, q).txt = At(g, r).txt => q = r
  BY <1>2 DEF TextsOk
<1>8. QED
  BY <1>4, <1>6, <1>7 DEF TextsOk

\* The text of the row at rid is deleted.
LEMMA PutsTextsBut ==
  ASSUME NEW f, FileOk(f), TextsOk(f), NEW g, NEW p, NEW x, Puts(f, g, p, x),
         NEW rid \in Scanned(f), At(f, rid).txt = p, p # 0, \A s \in SlotNum : x.rows[s] = NoRow
  PROVE  TextsBut(g, rid)
<1>1. f \in Files /\ g \in Files /\ p \in PageNum /\ g.pages[p] = x /\ f.pages[p].cap = 0
  BY TextPage DEF Puts, FileOk
<1>2. /\ Scanned(g) = Scanned(f)
      /\ \A q \in Scanned(f) : At(g, q) = At(f, q)
      /\ \A q \in PageNum \ {p} : Allocated(g, q) <=> Allocated(f, q)
  BY <1>1, PutsScanned
<1>3. NoRow # Garbage
  <2>1. NoRow.id = 0 /\ Garbage.id = -1
    BY DEF NoRow, Garbage
  <2>2. QED
    BY <2>1
<1>4. ASSUME NEW q \in RID PROVE At(g, q) # Garbage
  <2>1. q[1] \in PageNum /\ q[2] \in SlotNum
    BY DEF RID
  <2>2. CASE q[1] = p
    BY <1>1, <1>3, <2>1, <2>2 DEF At
  <2>3. CASE q[1] # p
    BY <2>1, <2>3 DEF At, Puts, TextsOk
  <2>4. QED
    BY <2>2, <2>3
<1>5. ASSUME NEW q, q # p, Allocated(f, q), f.pages[q].cap = 0 PROVE Allocated(g, q) /\ g.pages[q].cap = 0
  BY <1>1, <1>2, <1>5 DEF Allocated, Puts
<1>6. \A q \in Scanned(f) \ {rid} : At(f, q).txt # p
  BY DEF TextsOk
<1>7. \A q \in Scanned(g) \ {rid} : At(g, q).txt # 0 =>
        Allocated(g, At(g, q).txt) /\ g.pages[At(g, q).txt].cap = 0
  BY <1>2, <1>5, <1>6 DEF TextsOk
<1>8. \A q, r \in Scanned(g) \ {rid} : At(g, q).txt # 0 /\ At(g, q).txt = At(g, r).txt => q = r
  BY <1>2 DEF TextsOk
<1>9. QED
  BY <1>4, <1>7, <1>8 DEF TextsBut
-----------------------------------------------------------------------------
(* The indexes *)

Ixs == [field : Fields, unique : BOOLEAN, entries : SUBSET ((AValues \cup BValues) \X RID)]

\* Entries are of the field's type, and a unique index has each value once.
IxOk(ixs) ==
  /\ ixs \in Seq(Ixs)
  /\ \A i \in DOMAIN ixs : ixs[i].entries \subseteq ValuesOf(ixs[i].field) \X RID
  /\ \A i \in DOMAIN ixs : ixs[i].unique => \A d, e \in ixs[i].entries : d[1] = e[1] => d = e

LEMMA IxParts ==
  ASSUME NEW ixs, IxOk(ixs)
  PROVE  /\ Len(ixs) \in Nat /\ DOMAIN ixs = 1 .. Len(ixs)
         /\ \A i \in DOMAIN ixs : /\ ixs[i] \in Ixs /\ ixs[i].field \in Fields
                                  /\ ixs[i].unique \in BOOLEAN
<1>1. Len(ixs) \in Nat /\ DOMAIN ixs = 1 .. Len(ixs) /\ \A i \in DOMAIN ixs : ixs[i] \in Ixs
  BY DEF IxOk
<1>2. QED
  BY <1>1 DEF Ixs

\* A field of a row that is not NULL has a value of the field's type.
LEMMA RowField ==
  ASSUME NEW row \in RowType, NEW field \in Fields, row[field] # Null
  PROVE  row[field] \in ValuesOf(field)
<1>1. CASE field = "a"
  BY <1>1, RowIs DEF ValuesOf
<1>2. CASE field = "b"
  BY <1>2, RowIs DEF ValuesOf
<1>3. QED
  BY <1>1, <1>2 DEF Fields

\* The first index that refuses the row, or fails
LEMMA AcceptLemma ==
  ASSUME NEW ixs, IxOk(ixs), NEW row, NEW rid, NEW broken, NEW n, n = Accepting(ixs, row, rid, broken)
  PROVE  /\ n \in 0 .. Len(ixs)
         /\ \A i \in DOMAIN ixs : i <= n /\ row[ixs[i].field] # Null => ~Refuses(ixs[i], row, rid)
         /\ n < Len(ixs) => n + 1 \in DOMAIN ixs /\ row[ixs[n + 1].field] # Null
<1>1. PICK S : S = {i \in DOMAIN ixs : row[ixs[i].field] # Null /\ (i = broken \/ Refuses(ixs[i], row, rid))}
  OBVIOUS
<1>2. n = FirstOf(S, Len(ixs) + 1) - 1
  BY <1>1 DEF Accepting
<1>3. Len(ixs) \in Nat /\ DOMAIN ixs = 1 .. Len(ixs)
  BY IxParts
<1>4. CASE S = {}
  <2>1. n = Len(ixs)
    BY <1>2, <1>3, <1>4 DEF FirstOf
  <2>2. QED
    BY <1>1, <1>3, <1>4, <2>1
<1>5. CASE S # {}
  <2>1. S \in SUBSET Nat /\ S \subseteq 1 .. Len(ixs)
    BY <1>1, <1>3
  <2>2. PICK m : m = Min(S)
    OBVIOUS
  <2>3. m \in S /\ \A y \in S : m <= y
    BY <1>5, <2>1, <2>2, MinLemma
  <2>4. n = m - 1
    BY <1>2, <1>5, <2>2 DEF FirstOf
  <2>5. m \in 1 .. Len(ixs)
    BY <2>1, <2>3
  <2>6. n \in 0 .. Len(ixs) /\ n + 1 = m
    BY <1>3, <2>4, <2>5
  <2>7. \A i \in DOMAIN ixs : i <= n => i \notin S
    BY <1>3, <2>3, <2>4, <2>5
  <2>8. QED
    BY <1>1, <1>3, <2>3, <2>5, <2>6, <2>7
<1>6. QED
  BY <1>4, <1>5

\* How many indexes give up the entry of the row
Removed(ixs, row, rid) == Removable(ixs, row, rid, FALSE)

\* All entries of a row whose entries are all there can be removed.
LEMMA RemoveLemma ==
  ASSUME NEW ixs, IxOk(ixs), NEW row, NEW rid, NEW k, k = Removed(ixs, row, rid)
  PROVE  /\ k \in 0 .. Len(ixs)
         /\ (\A i \in DOMAIN ixs : row[ixs[i].field] # Null => Entry(ixs[i], row, rid) \in ixs[i].entries)
              => k = Len(ixs)
<1>1. PICK S : S = {i \in DOMAIN ixs : row[ixs[i].field] # Null
                                       /\ Entry(ixs[i], row, rid) \notin ixs[i].entries}
  OBVIOUS
<1>2. PICK len \in Nat : len = Len(ixs) /\ DOMAIN ixs = 1 .. len
  BY IxParts
<1>3. k = FirstOf(S, len + 1) - 1
  BY <1>1, <1>2 DEF Removed, Removable
<1>4. CASE S = {}
  <2>1. k = (len + 1) - 1
    BY <1>3, <1>4 DEF FirstOf
  <2>2. k = len /\ k \in 0 .. len
    BY <2>1
  <2>3. QED
    BY <1>2, <2>2
<1>5. CASE S # {}
  <2>1. S \in SUBSET Nat /\ S \subseteq 1 .. len
    BY <1>1, <1>2
  <2>2. PICK m : m = Min(S)
    OBVIOUS
  <2>3. m \in 1 .. len
    BY <1>5, <2>1, <2>2, MinLemma
  <2>4. k = m - 1
    BY <1>3, <1>5, <2>2 DEF FirstOf
  <2>5. k \in 0 .. len
    BY <2>3, <2>4
  <2>6. ~ \A i \in DOMAIN ixs : row[ixs[i].field] # Null => Entry(ixs[i], row, rid) \in ixs[i].entries
    BY <1>1, <1>5
  <2>7. QED
    BY <1>2, <2>5, <2>6
<1>6. QED
  BY <1>4, <1>5

\* The same indexes, with other entries
SameIxs(ixs, jxs) ==
  /\ Len(jxs) = Len(ixs) /\ DOMAIN jxs = DOMAIN ixs
  /\ \A i \in DOMAIN ixs : jxs[i].field = ixs[i].field

\* The first n indexes got, or lost, the entry of the row.
Extended(ixs, jxs, row, rid, n) ==
  /\ SameIxs(ixs, jxs)
  /\ \A i \in DOMAIN ixs : jxs[i].entries =
       IF i <= n /\ row[ixs[i].field] # Null
       THEN ixs[i].entries \cup {<<row[ixs[i].field], rid>>} ELSE ixs[i].entries
Reduced(ixs, jxs, row, rid, n) ==
  /\ SameIxs(ixs, jxs)
  /\ \A i \in DOMAIN ixs : jxs[i].entries =
       IF i <= n THEN ixs[i].entries \ {<<row[ixs[i].field], rid>>} ELSE ixs[i].entries

LEMMA WithLemma ==
  ASSUME NEW ixs, IxOk(ixs), NEW row \in RowType, NEW rid \in RID, NEW n \in 0 .. Len(ixs),
         \A i \in DOMAIN ixs : i <= n /\ row[ixs[i].field] # Null => ~Refuses(ixs[i], row, rid),
         NEW jxs, jxs = WithEntries(ixs, row, rid, n)
  PROVE  IxOk(jxs) /\ Extended(ixs, jxs, row, rid, n)
<1>1. /\ Len(ixs) \in Nat /\ DOMAIN ixs = 1 .. Len(ixs)
      /\ \A i \in DOMAIN ixs : /\ ixs[i] \in Ixs /\ ixs[i].field \in Fields
                               /\ ixs[i].unique \in BOOLEAN
  BY IxParts
<1>2. jxs = [i \in 1 .. Len(ixs) |->
               IF i <= n /\ row[ixs[i].field] # Null
               THEN [ixs[i] EXCEPT !.entries = @ \cup {Entry(ixs[i], row, rid)}] ELSE ixs[i]]
  BY <1>1 DEF WithEntries
<1>3. ASSUME NEW i \in DOMAIN ixs
      PROVE  /\ jxs[i] \in Ixs /\ jxs[i].field = ixs[i].field /\ jxs[i].unique = ixs[i].unique
             /\ jxs[i].entries =
                  IF i <= n /\ row[ixs[i].field] # Null
                  THEN ixs[i].entries \cup {<<row[ixs[i].field], rid>>} ELSE ixs[i].entries
             /\ jxs[i].entries \subseteq ValuesOf(ixs[i].field) \X RID
  <2>1. ixs[i] \in Ixs /\ ixs[i].field \in Fields /\ ixs[i].entries \subseteq ValuesOf(ixs[i].field) \X RID
    BY <1>1 DEF IxOk
  <2>2. CASE i <= n /\ row[ixs[i].field] # Null
    <3>1. PICK e : e = <<row[ixs[i].field], rid>>
      OBVIOUS
    <3>2. jxs[i] = [ixs[i] EXCEPT !.entries = @ \cup {e}]
      BY <1>1, <1>2, <2>2, <3>1 DEF Entry
    <3>3. row[ixs[i].field] \in ValuesOf(ixs[i].field)
      BY <2>1, <2>2, RowField
    <3>4. e \in ValuesOf(ixs[i].field) \X RID /\ e \in (AValues \cup BValues) \X RID
      BY <3>1, <3>3 DEF ValuesOf
    <3>5. jxs[i] \in Ixs /\ jxs[i].field = ixs[i].field /\ jxs[i].unique = ixs[i].unique
          /\ jxs[i].entries = ixs[i].entries \cup {e}
      BY <2>1, <3>2, <3>4 DEF Ixs
    <3>6. QED
      BY <2>1, <2>2, <3>1, <3>4, <3>5
  <2>3. CASE ~(i <= n /\ row[ixs[i].field] # Null)
    <3>1. jxs[i] = ixs[i]
      BY <1>1, <1>2, <2>3
    <3>2. QED
      BY <2>1, <2>3, <3>1
  <2>4. QED
    BY <2>2, <2>3
<1>4. jxs \in Seq(Ixs) /\ Len(jxs) = Len(ixs) /\ DOMAIN jxs = DOMAIN ixs
  <2>1. PICK len \in Nat : len = Len(ixs)
    BY <1>1
  <2>2. jxs \in [1 .. len -> Ixs]
    BY <1>1, <1>2, <1>3, <2>1, Zenon
  <2>3. jxs \in Seq(Ixs) /\ Len(jxs) = len /\ DOMAIN jxs = 1 .. len
    BY <2>2
  <2>4. QED
    BY <1>1, <2>1, <2>3
<1>5. ASSUME NEW i \in DOMAIN ixs, jxs[i].unique, NEW d \in jxs[i].entries, NEW e \in jxs[i].entries,
             d[1] = e[1]
      PROVE  d = e
  <2>1. ixs[i].unique /\ \A b, c \in ixs[i].entries : b[1] = c[1] => b = c
    BY <1>3, <1>5 DEF IxOk
  <2>2. CASE i <= n /\ row[ixs[i].field] # Null
    <3>1. ~Refuses(ixs[i], row, rid)
      BY <2>2
    <3>2. \A b \in ixs[i].entries : b[1] # row[ixs[i].field]
      BY <2>1, <2>2, <3>1 DEF Refuses
    <3>3. PICK x : x = <<row[ixs[i].field], rid>>
      OBVIOUS
    <3>4. \A b \in jxs[i].entries : b \in ixs[i].entries \/ b = x
      BY <1>3, <2>2, <3>3
    <3>5. CASE d = x /\ e = x
      BY <3>5
    <3> x[1] = row[ixs[i].field]
      BY <3>3
    <3>6. CASE d \in ixs[i].entries /\ e \in ixs[i].entries
      BY <1>5, <2>1, <3>6
    <3>7. CASE (d = x /\ e \in ixs[i].entries) \/ (e = x /\ d \in ixs[i].entries)
      BY <1>5, <3>2, <3>3, <3>7
    <3>8. QED
      BY <1>5, <3>4, <3>5, <3>6, <3>7
  <2>3. CASE ~(i <= n /\ row[ixs[i].field] # Null)
    BY <1>3, <1>5, <2>1, <2>3
  <2>4. QED
    BY <2>2, <2>3
<1>6. IxOk(jxs)
  BY <1>3, <1>4, <1>5 DEF IxOk
<1>7. QED
  BY <1>3, <1>4, <1>6 DEF SameIxs, Extended

LEMMA WithoutLemma ==
  ASSUME NEW ixs, IxOk(ixs), NEW row, NEW rid, NEW n \in 0 .. Len(ixs),
         NEW jxs, jxs = WithoutEntries(ixs, row, rid, n)
  PROVE  IxOk(jxs) /\ Reduced(ixs, jxs, row, rid, n)
<1>1. /\ Len(ixs) \in Nat /\ DOMAIN ixs = 1 .. Len(ixs)
      /\ \A i \in DOMAIN ixs : /\ ixs[i] \in Ixs /\ ixs[i].field \in Fields
                               /\ ixs[i].unique \in BOOLEAN
  BY IxParts
<1>2. jxs = [i \in 1 .. Len(ixs) |->
               IF i <= n THEN [ixs[i] EXCEPT !.entries = @ \ {Entry(ixs[i], row, rid)}] ELSE ixs[i]]
  BY <1>1 DEF WithoutEntries
<1>3. ASSUME NEW i \in DOMAIN ixs
      PROVE  /\ jxs[i] \in Ixs /\ jxs[i].field = ixs[i].field /\ jxs[i].unique = ixs[i].unique
             /\ jxs[i].entries =
                  IF i <= n THEN ixs[i].entries \ {<<row[ixs[i].field], rid>>} ELSE ixs[i].entries
  <2>1. ixs[i] \in Ixs
    BY <1>1
  <2>2. CASE i <= n
    <3>1. PICK e : e = <<row[ixs[i].field], rid>>
      OBVIOUS
    <3>2. jxs[i] = [ixs[i] EXCEPT !.entries = @ \ {e}]
      BY <1>1, <1>2, <2>2, <3>1 DEF Entry
    <3>3. jxs[i] \in Ixs /\ jxs[i].field = ixs[i].field /\ jxs[i].unique = ixs[i].unique
          /\ jxs[i].entries = ixs[i].entries \ {e}
      BY <2>1, <3>2 DEF Ixs
    <3>4. QED
      BY <2>2, <3>1, <3>3
  <2>3. CASE ~(i <= n)
    <3>1. jxs[i] = ixs[i]
      BY <1>1, <1>2, <2>3
    <3>2. QED
      BY <2>1, <2>3, <3>1
  <2>4. QED
    BY <2>2, <2>3
<1>4. jxs \in Seq(Ixs) /\ Len(jxs) = Len(ixs) /\ DOMAIN jxs = DOMAIN ixs
  <2>1. PICK len \in Nat : len = Len(ixs)
    BY <1>1
  <2>2. jxs \in [1 .. len -> Ixs]
    BY <1>1, <1>2, <1>3, <2>1, Zenon
  <2>3. jxs \in Seq(Ixs) /\ Len(jxs) = len /\ DOMAIN jxs = 1 .. len
    BY <2>2
  <2>4. QED
    BY <1>1, <2>1, <2>3
<1>5. \A i \in DOMAIN ixs : jxs[i].entries \subseteq ixs[i].entries
  BY <1>3
<1>6. IxOk(jxs)
  BY <1>3, <1>4, <1>5 DEF IxOk
<1>7. QED
  BY <1>3, <1>4, <1>6 DEF SameIxs, Reduced
-----------------------------------------------------------------------------
(* Rows with an operation *)

\* A page of the insertions with room is the one that gets the row.
LEMMA Sticky ==
  ASSUME NEW f, FileOk(f), NEW row, NEW r, r = InsertRecord(f, row),
         f.cur # 0, f.pages[f.cur].cap = Capacity, NEW s \in SlotNum, f.pages[f.cur].rows[s] = NoRow
  PROVE  r.rid[1] = f.cur
<1>1. /\ f \in Files /\ Allocated(f, f.cur) /\ f.cur \in PageNum /\ f.pages[f.cur] \in Pages
      /\ f.count \in 1 .. MaxPage + 1
  BY FileParts DEF FileOk, Allocated
<1>2. ~IsFull(f.pages[f.cur])
  BY <1>1, NotFull
<1>3. PICK cur \in Nat, count \in Nat : cur = f.cur /\ count = f.count /\ cur < count
  BY <1>1, MaxPageAssumption DEF Allocated, PageNum
<1>4. PICK tried : tried = Tried(cur, count)
  OBVIOUS
<1>5. 0 \in DOMAIN tried /\ tried[0] = cur /\ DOMAIN tried \subseteq Nat
  <2>1. DOMAIN tried = 0 .. count - 1
    BY <1>4 DEF Tried
  <2>2. 0 \in 0 .. count - 1 /\ 0 .. count - 1 \subseteq Nat
    BY <1>3
  <2>3. tried[0] = (cur + (0 * (0 + 1)) \div 2) % count
    BY <1>4, <2>2, Zenon DEF Tried
  <2>4. (0 * (0 + 1)) \div 2 = 0
    OBVIOUS
  <2>5. tried[0] = cur % count
    BY <2>3, <2>4
  <2>6. cur % count = cur
    BY <1>3
  <2>7. QED
    BY <2>1, <2>2, <2>5, <2>6
<1>6. Fitting(f) = {i \in DOMAIN tried : Allocated(f, tried[i]) /\ ~IsFull(f.pages[tried[i]])}
  BY <1>3, <1>4 DEF Fitting
<1>7. 0 \in Fitting(f) /\ Fitting(f) \in SUBSET Nat
  BY <1>1, <1>2, <1>3, <1>5, <1>6
<1>8. Min(Fitting(f)) = 0
  <2>1. Min(Fitting(f)) \in Nat /\ Min(Fitting(f)) <= 0
    BY <1>7, MinLemma
  <2>2. QED
    BY <2>1
<1>9. RoomFor(f) = [f EXCEPT !.cur = cur]
  <2>1. RoomFor(f) = [f EXCEPT !.cur = tried[Min(Fitting(f))]]
    BY <1>3, <1>4, <1>7 DEF RoomFor
  <2>2. QED
    BY <1>5, <1>8, <2>1
<1>10. RoomFor(f).cur = cur
  BY <1>1, <1>9 DEF Files
<1>11. QED
  BY <1>3, <1>10 DEF InsertRecord

\* The row at rid, which has an operation, is there; or it was refused: then
\* the page is that of the insertions, and while a statement may come, the
\* next insertion will take its slot.
HeldIn(f, now, rid) ==
  /\ Allocated(f, rid[1]) /\ f.pages[rid[1]].cap = Capacity
  /\ At(f, rid) = NoRow =>
       /\ f.cur = rid[1]
       /\ now = "idle" => \A s \in SlotNum : s < rid[2] => f.pages[rid[1]].rows[s] # NoRow

LEMMA AddsHeld ==
  ASSUME NEW f, FileOk(f), NEW row, NEW r, r = InsertRecord(f, row), NEW g, NEW y,
         Adds(f, g, r.rid, y), NEW now
  PROVE  /\ HeldIn(g, now, r.rid)
         /\ \A q \in RID : HeldIn(f, "idle", q) => HeldIn(g, now, q)
<1>1. PICK rid : rid = r.rid
  OBVIOUS
<1>2. Adds(f, g, rid, y) /\ f \in Files
  BY <1>1 DEF FileOk
<1>3. HeldIn(g, now, rid)
  BY <1>2 DEF Adds, HeldIn
<1>4. ASSUME NEW q \in RID, q # rid, HeldIn(f, "idle", q) PROVE HeldIn(g, now, q)
  <2>1. /\ q[1] \in PageNum /\ q[2] \in SlotNum /\ q = <<q[1], q[2]>>
        /\ rid[1] \in PageNum /\ rid[2] \in SlotNum /\ rid = <<rid[1], rid[2]>>
    BY <1>2 DEF RID, Adds
  <2>2. Allocated(f, q[1]) /\ f.pages[q[1]].cap = Capacity
    BY <1>4 DEF HeldIn
  <2>3. CASE q[1] = rid[1]
    <3>1. /\ Allocated(g, q[1]) /\ g.pages[q[1]].cap = Capacity /\ At(f, rid) = NoRow
          /\ \A s \in SlotNum \ {rid[2]} : g.pages[rid[1]].rows[s] = f.pages[rid[1]].rows[s]
          /\ \A s \in SlotNum : s < rid[2] => g.pages[rid[1]].rows[s] # NoRow
      BY <1>2, <2>2, <2>3 DEF Adds
    <3>2. q[2] \in SlotNum \ {rid[2]}
      BY <1>4, <2>1, <2>3
    <3>3. At(g, q) = At(f, q)
      BY <2>3, <3>1, <3>2 DEF At
    <3>4. ASSUME At(f, q) = NoRow PROVE FALSE
      <4>1. \A s \in SlotNum : s < q[2] => f.pages[q[1]].rows[s] # NoRow
        BY <1>4, <3>4 DEF HeldIn
      <4>2. ~(rid[2] < q[2])
        BY <2>1, <2>3, <3>1, <4>1 DEF At
      <4>3. ~(q[2] < rid[2])
        BY <2>1, <2>3, <3>1, <3>3, <3>4 DEF At
      <4>4. QED
        BY <2>1, <3>2, <4>2, <4>3 DEF SlotNum
    <3>5. QED
      BY <3>1, <3>3, <3>4 DEF HeldIn
  <2>4. CASE q[1] # rid[1]
    <3>1. g.pages[q[1]] = f.pages[q[1]] /\ (q[1] < g.count <=> q[1] < f.count)
      BY <1>2, <2>1, <2>4 DEF Adds
    <3>2. Allocated(g, q[1]) /\ g.pages[q[1]].cap = Capacity /\ At(g, q) = At(f, q)
      BY <2>2, <3>1 DEF Allocated, At
    <3>3. ASSUME At(f, q) = NoRow PROVE FALSE
      <4>1. f.cur = q[1] /\ f.pages[f.cur].rows[q[2]] = NoRow
        BY <1>4, <3>3 DEF HeldIn, At
      <4>2. f.cur # 0
        BY <2>1, <4>1 DEF PageNum
      <4>3. rid[1] = f.cur
        BY <1>1, <2>1, <2>2, <4>1, <4>2, Sticky
      <4>4. QED
        BY <2>4, <4>1, <4>3
    <3>4. QED
      BY <3>2, <3>3 DEF HeldIn
  <2>5. QED
    BY <2>3, <2>4
<1>5. QED
  BY <1>1, <1>3, <1>4

\* At the end of a transaction a page is not disposed of under an operation.
LEMMA DropsHeld ==
  ASSUME NEW f \in Files, NEW g, NEW rid, Drops(f, g, rid), NEW now, now # "idle",
         NEW q \in RID, q # rid, HeldIn(f, now, q)
  PROVE  HeldIn(g, now, q)
<1>1. /\ q[1] \in PageNum /\ q[2] \in SlotNum /\ q = <<q[1], q[2]>>
      /\ rid[1] \in PageNum /\ rid[2] \in SlotNum /\ rid = <<rid[1], rid[2]>>
  BY DEF RID, Drops, Scanned
<1>2. /\ Allocated(f, q[1]) /\ f.pages[q[1]].cap = Capacity
      /\ At(f, q) = NoRow => f.cur = q[1]
  BY DEF HeldIn
<1>3. g.cur = f.cur /\ g.count = f.count /\ g.pages[q[1]].cap = Capacity
  BY <1>1, <1>2 DEF Drops
<1>4. CASE q[1] # rid[1]
  <2>1. g.pages[q[1]] = f.pages[q[1]]
    BY <1>1, <1>4 DEF Drops
  <2>2. Allocated(g, q[1]) /\ At(g, q) = At(f, q)
    BY <1>2, <1>3, <2>1 DEF Allocated, At
  <2>3. QED
    BY <1>2, <1>3, <2>2 DEF HeldIn
<1>5. CASE q[1] = rid[1]
  <2>1. q[2] \in SlotNum \ {rid[2]}
    BY <1>1, <1>5
  <2>2. CASE /\ g.pages[rid[1]].alloc = f.pages[rid[1]].alloc
             /\ \A s \in SlotNum \ {rid[2]} : g.pages[rid[1]].rows[s] = f.pages[rid[1]].rows[s]
    <3>1. Allocated(g, q[1]) /\ At(g, q) = At(f, q)
      BY <1>2, <1>3, <1>5, <2>1, <2>2 DEF Allocated, At
    <3>2. QED
      BY <1>2, <1>3, <3>1 DEF HeldIn
  <2>3. CASE f.cur # rid[1] /\ \A s \in SlotNum \ {rid[2]} : f.pages[rid[1]].rows[s] = NoRow
    <3>1. At(f, q) = NoRow
      BY <1>5, <2>1, <2>3 DEF At
    <3>2. QED
      BY <1>2, <1>5, <2>3, <3>1
  <2>4. QED
    BY <2>2, <2>3 DEF Drops
<1>6. QED
  BY <1>4, <1>5

LEMMA WritesHeld ==
  ASSUME NEW f \in Files, NEW g, NEW rid, NEW row \in RowType, Writes(f, g, rid, row),
         NEW now, NEW then, then = "idle" => now = "idle", NEW q \in RID, HeldIn(f, now, q)
  PROVE  HeldIn(g, then, q)
<1>1. /\ q[1] \in PageNum /\ q[2] \in SlotNum /\ rid \in RID /\ rid \in Scanned(f) /\ g.cur = f.cur
      /\ Allocated(f, q[1]) /\ f.pages[q[1]].cap = Capacity
  BY DEF RID, Writes, Scanned, HeldIn
<1>2. Allocated(g, q[1]) /\ g.pages[q[1]].cap = Capacity
  BY <1>1, WritesScanned DEF Writes
<1>3. \A z \in RID : At(f, z) # NoRow => At(g, z) # NoRow
  BY RowIs DEF Writes
<1>4. At(g, q) = NoRow => At(f, q) = NoRow
  BY <1>3
<1>5. ASSUME NEW s \in SlotNum, f.pages[q[1]].rows[s] # NoRow PROVE g.pages[q[1]].rows[s] # NoRow
  <2>1. <<q[1], s>> \in RID
    BY <1>1 DEF RID
  <2>2. QED
    BY <1>3, <1>5, <2>1 DEF At
<1>6. QED
  BY <1>1, <1>2, <1>4, <1>5 DEF HeldIn

LEMMA PutsHeld ==
  ASSUME NEW f \in Files, NEW g, NEW p, NEW x, Puts(f, g, p, x), ~Allocated(f, p) \/ f.pages[p].cap = 0,
         NEW now, NEW q \in RID, HeldIn(f, now, q)
  PROVE  HeldIn(g, now, q)
<1>1. q[1] \in PageNum \ {p}
  BY CapacityAssumption DEF RID, HeldIn
<1>2. g.pages[q[1]] = f.pages[q[1]] /\ (q[1] < g.count <=> q[1] < f.count) /\ g.cur = f.cur
  BY <1>1 DEF Puts
<1>3. QED
  BY <1>2 DEF HeldIn, Allocated, At
-----------------------------------------------------------------------------
(* What a change of one row leaves alone *)

TextIn(f, row) == IF row.txt = 0 THEN NoText ELSE f.pages[row.txt].text
ValueIn(f, rid) == ValueOf(At(f, rid), TextIn(f, At(f, rid)))

\* The rows but the one at rid, with their values
Keeps(f, g, rid) ==
  /\ \A q \in RID \ {rid} : q \in Scanned(g) <=> q \in Scanned(f)
  /\ \A q \in Scanned(f) \ {rid} : At(g, q) = At(f, q) /\ ValueIn(g, q) = ValueIn(f, q)

\* A row whose text's page has the same text keeps its value.
LEMMA SameValue ==
  ASSUME NEW f, NEW g, NEW q, At(g, q) = At(f, q),
         At(f, q).txt # 0 => g.pages[At(f, q).txt].text = f.pages[At(f, q).txt].text
  PROVE  ValueIn(g, q) = ValueIn(f, q)
<1>1. PICK row : row = At(f, q)
  OBVIOUS
<1>2. TextIn(g, row) = TextIn(f, row)
  BY <1>1 DEF TextIn
<1>3. QED
  BY <1>1, <1>2 DEF ValueIn

LEMMA KeepsTwice ==
  ASSUME NEW f, NEW g, NEW h, NEW rid, Keeps(f, g, rid), Keeps(g, h, rid)
  PROVE  Keeps(f, h, rid)
<1>1. \A q \in Scanned(f) \ {rid} : q \in Scanned(g) \ {rid}
  BY DEF Keeps, Scanned
<1>2. QED
  BY <1>1 DEF Keeps

LEMMA AddsKeeps ==
  ASSUME NEW f, FileOk(f), TextsOk(f), NEW g, NEW rid, NEW row, Adds(f, g, rid, row)
  PROVE  /\ Keeps(f, g, rid)
         /\ \A p : Allocated(f, p) /\ f.pages[p].cap = 0 => g.pages[p] = f.pages[p]
<1>1. f \in Files
  BY DEF FileOk
<1>2. /\ Scanned(g) \ {rid} = Scanned(f) /\ rid \notin Scanned(f)
      /\ \A q \in Scanned(f) : At(g, q) = At(f, q)
  BY <1>1, AddsScanned
<1>3. ASSUME NEW p, Allocated(f, p), f.pages[p].cap = 0 PROVE g.pages[p] = f.pages[p]
  <2>1. p \in PageNum /\ p # rid[1]
    BY <1>3, CapacityAssumption DEF Allocated, Adds
  <2>2. QED
    BY <2>1 DEF Adds
<1>4. \A q \in RID \ {rid} : q \in Scanned(g) <=> q \in Scanned(f)
  BY <1>2
<1>5. ASSUME NEW q \in Scanned(f) PROVE ValueIn(g, q) = ValueIn(f, q)
  <2>1. At(f, q).txt # 0 => g.pages[At(f, q).txt] = f.pages[At(f, q).txt]
    BY <1>3 DEF TextsOk
  <2>2. QED
    BY <1>2, <2>1, SameValue
<1>6. QED
  BY <1>2, <1>3, <1>4, <1>5 DEF Keeps

LEMMA DropsKeeps ==
  ASSUME NEW f \in Files, NEW g, NEW rid, TextsBut(f, rid), Drops(f, g, rid)
  PROVE  Keeps(f, g, rid)
<1>1. /\ Scanned(g) = Scanned(f) \ {rid}
      /\ \A q \in Scanned(f) \ {rid} : At(g, q) = At(f, q)
  BY DropsScanned
<1>2. ASSUME NEW q \in Scanned(f) \ {rid} PROVE ValueIn(g, q) = ValueIn(f, q)
  <2>1. At(f, q).txt # 0 => At(f, q).txt \in PageNum
    BY DEF TextsBut, Allocated
  <2>2. At(f, q).txt # 0 => g.pages[At(f, q).txt].text = f.pages[At(f, q).txt].text
    BY <2>1 DEF Drops
  <2>3. QED
    BY <1>1, <2>2, SameValue
<1>3. QED
  BY <1>1, <1>2 DEF Keeps

LEMMA WritesKeeps ==
  ASSUME NEW f \in Files, TextsOk(f), NEW g, NEW rid, NEW row \in RowType, Writes(f, g, rid, row)
  PROVE  /\ Keeps(f, g, rid)
         /\ \A p \in PageNum : g.pages[p].text = f.pages[p].text
<1>1. Scanned(g) = Scanned(f) /\ \A q \in Scanned(f) : q \in RID
  BY WritesScanned DEF Scanned
<1>2. \A p \in PageNum : g.pages[p].text = f.pages[p].text
  BY DEF Writes
<1>3. ASSUME NEW q \in Scanned(f) \ {rid} PROVE At(g, q) = At(f, q) /\ ValueIn(g, q) = ValueIn(f, q)
  <2>1. At(f, q).txt # 0 => At(f, q).txt \in PageNum
    BY DEF TextsOk, Allocated
  <2>2. At(g, q) = At(f, q)
    BY <1>1 DEF Writes
  <2>3. QED
    BY <1>2, <2>1, <2>2, SameValue
<1>4. QED
  BY <1>1, <1>2, <1>3 DEF Keeps

LEMMA PutsKeeps ==
  ASSUME NEW f \in Files, TextsOk(f), NEW g, NEW p, NEW x, Puts(f, g, p, x),
         ~Allocated(f, p) \/ f.pages[p].cap = 0, \A s \in SlotNum : x.rows[s] = NoRow,
         NEW rid, \A q \in Scanned(f) \ {rid} : At(f, q).txt # p
  PROVE  Keeps(f, g, rid)
<1>1. /\ Scanned(g) = Scanned(f)
      /\ \A q \in Scanned(f) : At(g, q) = At(f, q)
  BY PutsScanned
<1>2. ASSUME NEW q \in Scanned(f) \ {rid} PROVE ValueIn(g, q) = ValueIn(f, q)
  <2>1. At(f, q).txt # 0 => At(f, q).txt \in PageNum \ {p}
    BY DEF TextsOk, Allocated
  <2>2. At(f, q).txt # 0 => g.pages[At(f, q).txt].text = f.pages[At(f, q).txt].text
    BY <2>1 DEF Puts
  <2>3. QED
    BY <1>1, <2>2, SameValue
<1>3. QED
  BY <1>1, <1>2 DEF Keeps

\* The entries but those of the row at rid
IxKeeps(ixs, jxs, rid) ==
  /\ SameIxs(ixs, jxs)
  /\ \A i \in DOMAIN ixs : \A e : e[2] # rid => (e \in jxs[i].entries <=> e \in ixs[i].entries)

LEMMA WithKeeps ==
  ASSUME NEW ixs, NEW jxs, NEW row, NEW rid, NEW n, Extended(ixs, jxs, row, rid, n)
  PROVE  IxKeeps(ixs, jxs, rid)
<1>1. ASSUME NEW i \in DOMAIN ixs, NEW e, e[2] # rid PROVE e \in jxs[i].entries <=> e \in ixs[i].entries
  <2>1. PICK x : x = <<row[ixs[i].field], rid>>
    OBVIOUS
  <2>2. x[2] = rid
    BY <2>1
  <2>3. e # x
    BY <1>1, <2>2
  <2>4. jxs[i].entries = ixs[i].entries \cup {x} \/ jxs[i].entries = ixs[i].entries
    BY <2>1, Zenon DEF Extended
  <2>5. QED
    BY <2>3, <2>4
<1>2. QED
  BY <1>1 DEF IxKeeps, Extended

LEMMA WithoutKeeps ==
  ASSUME NEW ixs, NEW jxs, NEW row, NEW rid, NEW n, Reduced(ixs, jxs, row, rid, n)
  PROVE  IxKeeps(ixs, jxs, rid)
<1>1. ASSUME NEW i \in DOMAIN ixs, NEW e, e[2] # rid PROVE e \in jxs[i].entries <=> e \in ixs[i].entries
  <2>1. PICK x : x = <<row[ixs[i].field], rid>>
    OBVIOUS
  <2>2. x[2] = rid
    BY <2>1
  <2>3. e # x
    BY <1>1, <2>2
  <2>4. jxs[i].entries = ixs[i].entries \ {x} \/ jxs[i].entries = ixs[i].entries
    BY <2>1, Zenon DEF Reduced
  <2>5. QED
    BY <2>3, <2>4
<1>2. QED
  BY <1>1 DEF IxKeeps, Reduced

LEMMA IxKeepsTwice ==
  ASSUME NEW ixs, NEW jxs, NEW kxs, NEW rid, IxKeeps(ixs, jxs, rid), IxKeeps(jxs, kxs, rid)
  PROVE  IxKeeps(ixs, kxs, rid)
BY DEF IxKeeps, SameIxs
-----------------------------------------------------------------------------
(* Invariants of the rows, and the change of one of them *)

\* The indexes have the entries of the row at rid.
Covered(f, ixs, rid) ==
  \A i \in DOMAIN ixs : At(f, rid)[ixs[i].field] # Null =>
    <<At(f, rid)[ixs[i].field], rid>> \in ixs[i].entries
CoversAll(f, ixs) == \A rid \in Scanned(f) : Covered(f, ixs, rid)

LEMMA CoveredStep ==
  ASSUME NEW f, NEW g, NEW rid, Keeps(f, g, rid), NEW ixs, NEW jxs, IxKeeps(ixs, jxs, rid),
         NEW q \in Scanned(f) \ {rid}, Covered(f, ixs, q)
  PROVE  Covered(g, jxs, q)
<1>1. At(g, q) = At(f, q)
  BY DEF Keeps
<1>2. ASSUME NEW i \in DOMAIN jxs, At(g, q)[jxs[i].field] # Null
      PROVE  <<At(g, q)[jxs[i].field], q>> \in jxs[i].entries
  <2>1. i \in DOMAIN ixs /\ jxs[i].field = ixs[i].field
    BY DEF IxKeeps, SameIxs
  <2>2. PICK e : e = <<At(f, q)[ixs[i].field], q>>
    OBVIOUS
  <2>3. e[2] # rid
    BY <2>2
  <2>4. e \in ixs[i].entries
    BY <1>1, <1>2, <2>1, <2>2 DEF Covered
  <2>5. e \in jxs[i].entries
    BY <2>1, <2>3, <2>4 DEF IxKeeps
  <2>6. QED
    BY <1>1, <2>1, <2>2, <2>5
<1>3. QED
  BY <1>2 DEF Covered

LEMMA CoversStep ==
  ASSUME NEW f, NEW g, NEW rid, Keeps(f, g, rid), NEW ixs, NEW jxs, IxKeeps(ixs, jxs, rid),
         CoversAll(f, ixs), rid \in Scanned(g) => Covered(g, jxs, rid)
  PROVE  CoversAll(g, jxs)
<1>1. ASSUME NEW q \in Scanned(g), q # rid PROVE Covered(g, jxs, q)
  <2>1. q \in Scanned(f) \ {rid}
    BY <1>1 DEF Keeps, Scanned
  <2>2. QED
    BY <2>1, CoveredStep DEF CoversAll
<1>2. QED
  BY <1>1 DEF CoversAll

\* An entry is that of a row in the file.
EntryOf(f, ix, e) == e[1] # Null /\ e[2] \in Scanned(f) /\ At(f, e[2])[ix.field] = e[1]
NoneDangles(f, ixs) == \A i \in DOMAIN ixs : \A e \in ixs[i].entries : EntryOf(f, ixs[i], e)

LEMMA DanglesStep ==
  ASSUME NEW f, NEW g, NEW rid, Keeps(f, g, rid), NEW ixs, NEW jxs, IxKeeps(ixs, jxs, rid),
         NoneDangles(f, ixs),
         \A i \in DOMAIN jxs : \A e \in jxs[i].entries : e[2] = rid => EntryOf(g, jxs[i], e)
  PROVE  NoneDangles(g, jxs)
<1>1. ASSUME NEW i \in DOMAIN jxs, NEW e \in jxs[i].entries, e[2] # rid PROVE EntryOf(g, jxs[i], e)
  <2>1. i \in DOMAIN ixs /\ jxs[i].field = ixs[i].field /\ e \in ixs[i].entries
    BY <1>1 DEF IxKeeps, SameIxs
  <2>2. EntryOf(f, ixs[i], e)
    BY <2>1 DEF NoneDangles
  <2>3. e[2] \in Scanned(f) \ {rid} /\ e[2] \in RID
    BY <1>1, <2>2 DEF EntryOf, Scanned
  <2>4. e[2] \in Scanned(g) /\ At(g, e[2]) = At(f, e[2])
    BY <1>1, <2>3 DEF Keeps
  <2>5. QED
    BY <2>1, <2>2, <2>4 DEF EntryOf
<1>2. QED
  BY <1>1 DEF NoneDangles

\* What a change at k leaves of the map m, of operations or of values
MapKeep(m, w, k) ==
  /\ DOMAIN w \subseteq DOMAIN m \cup {k} /\ DOMAIN m \subseteq DOMAIN w \cup {k}
  /\ \A i \in DOMAIN m \ {k} : w[i] = m[i]

LEMMA SameMap ==
  ASSUME NEW m, NEW k
  PROVE  MapKeep(m, m, k)
BY DEF MapKeep

Sets(m, w, k, v) == MapKeep(m, w, k) /\ DOMAIN w = DOMAIN m \cup {k} /\ w[k] = v
Clears(m, w, k) == MapKeep(m, w, k) /\ DOMAIN w = DOMAIN m \ {k}

LEMMA WithMap ==
  ASSUME NEW m, NEW k, NEW v
  PROVE  Sets(m, With(m, k, v), k, v)
BY DEF MapKeep, With, Sets

LEMMA WithoutMap ==
  ASSUME NEW m, NEW k
  PROVE  Clears(m, Without(m, {k}), k)
BY DEF MapKeep, Without, Clears

\* A row marked as deleted has its operation.
Marked(f, o) == \A rid \in Scanned(f) : At(f, rid).del => rid \in DOMAIN o /\ o[rid] = "DELETE"

LEMMA MarkedStep ==
  ASSUME NEW f, NEW g, NEW rid, Keeps(f, g, rid), NEW o, NEW p, MapKeep(o, p, rid), Marked(f, o),
         rid \in Scanned(g) /\ At(g, rid).del => rid \in DOMAIN p /\ p[rid] = "DELETE"
  PROVE  Marked(g, p)
<1>1. ASSUME NEW q \in Scanned(g), q # rid, At(g, q).del PROVE q \in DOMAIN p /\ p[q] = "DELETE"
  <2>1. q \in Scanned(f) \ {rid} /\ At(g, q) = At(f, q)
    BY <1>1 DEF Keeps, Scanned
  <2>2. q \in DOMAIN o \ {rid} /\ o[q] = "DELETE"
    BY <1>1, <2>1 DEF Marked
  <2>3. QED
    BY <2>2 DEF MapKeep
<1>2. QED
  BY <1>1 DEF Marked

\* An inserted row has its entries, and a deleted row is there.
OwnRow(f, ixs, o, rid) ==
  IF o[rid] = "INSERT" THEN rid \in Scanned(f) => Covered(f, ixs, rid)
  ELSE rid \in Scanned(f) /\ At(f, rid).del
OwnRows(f, ixs, o) == \A rid \in DOMAIN o : OwnRow(f, ixs, o, rid)

LEMMA OwnStep ==
  ASSUME NEW f, NEW g, NEW rid, Keeps(f, g, rid), NEW ixs, NEW jxs, IxKeeps(ixs, jxs, rid),
         NEW o, NEW p, MapKeep(o, p, rid), DOMAIN o \subseteq RID, OwnRows(f, ixs, o),
         rid \in DOMAIN p => OwnRow(g, jxs, p, rid)
  PROVE  OwnRows(g, jxs, p)
<1>1. ASSUME NEW q \in DOMAIN p, q # rid PROVE OwnRow(g, jxs, p, q)
  <2>1. q \in DOMAIN o /\ p[q] = o[q] /\ q \in RID \ {rid}
    BY <1>1 DEF MapKeep
  <2>2. OwnRow(f, ixs, o, q)
    BY <2>1 DEF OwnRows
  <2>3. q \in Scanned(g) <=> q \in Scanned(f)
    BY <2>1 DEF Keeps
  <2>4. CASE o[q] = "INSERT"
    <3>1. ASSUME q \in Scanned(g) PROVE Covered(g, jxs, q)
      <4>1. q \in Scanned(f) \ {rid} /\ Covered(f, ixs, q)
        BY <1>1, <2>2, <2>3, <2>4, <3>1 DEF OwnRow
      <4>2. QED
        BY <4>1, CoveredStep
    <3>2. QED
      BY <2>1, <2>4, <3>1 DEF OwnRow
  <2>5. CASE o[q] # "INSERT"
    <3>1. q \in Scanned(f) \ {rid} /\ At(f, q).del
      BY <1>1, <2>2, <2>5 DEF OwnRow
    <3>2. At(g, q) = At(f, q)
      BY <3>1 DEF Keeps
    <3>3. QED
      BY <2>1, <2>3, <2>5, <3>1, <3>2 DEF OwnRow
  <2>6. QED
    BY <2>4, <2>5
<1>2. QED
  BY <1>1 DEF OwnRows

\* Rows have different numbers, up to n.
Ids(f, n) ==
  /\ \A q, r \in Scanned(f) : At(f, q).id = At(f, r).id => q = r
  /\ \A q \in Scanned(f) : At(f, q).id <= n

\* The row at rid, if there is one, has number id, and no other row has.
IdAt(f, rid, id) ==
  /\ rid \in Scanned(f) => At(f, rid).id = id
  /\ \A q \in Scanned(f) \ {rid} : At(f, q).id # id

LEMMA IdsStep ==
  ASSUME NEW f, NEW g, NEW rid, Keeps(f, g, rid), NEW n, NEW m, Ids(f, n),
         \A q \in Scanned(f) : At(f, q).id <= n => At(f, q).id <= m,
         NEW id, IdAt(f, rid, id), rid \in Scanned(g) => At(g, rid).id = id /\ id <= m
  PROVE  Ids(g, m) /\ IdAt(g, rid, id)
<1>1. ASSUME NEW q \in Scanned(g), q # rid
      PROVE  q \in Scanned(f) \ {rid} /\ At(g, q) = At(f, q) /\ At(g, q).id # id /\ At(g, q).id <= m
  <2>1. q \in Scanned(f) \ {rid} /\ At(g, q) = At(f, q)
    BY <1>1 DEF Keeps, Scanned
  <2>2. QED
    BY <2>1 DEF Ids, IdAt
<1>2. IdAt(g, rid, id)
  BY <1>1 DEF IdAt
<1>3. \A q \in Scanned(g) : At(g, q).id <= m
  BY <1>1
<1>4. ASSUME NEW q \in Scanned(g), NEW r \in Scanned(g), At(g, q).id = At(g, r).id PROVE q = r
  <2>1. CASE q = rid \/ r = rid
    BY <1>1, <1>4, <2>1
  <2>2. CASE q # rid /\ r # rid
    BY <1>1, <1>4, <2>2 DEF Ids
  <2>3. QED
    BY <2>1, <2>2
<1>5. QED
  BY <1>2, <1>3, <1>4 DEF Ids

Live(f, rid) == rid \in Scanned(f) /\ ~At(f, rid).del

\* t has the values of the rows that are not marked as deleted.
Shown(f, t) ==
  /\ \A id \in DOMAIN t : \E rid \in RID : Live(f, rid) /\ At(f, rid).id = id
  /\ \A rid \in RID : Live(f, rid) => At(f, rid).id \in DOMAIN t /\ t[At(f, rid).id] = ValueIn(f, rid)

LEMMA ShownStep ==
  ASSUME NEW f, NEW g, NEW rid \in RID, Keeps(f, g, rid), NEW t, NEW u, Shown(f, t),
         NEW id, IdAt(f, rid, id), MapKeep(t, u, id),
         Live(g, rid) => At(g, rid).id = id /\ id \in DOMAIN u /\ u[id] = ValueIn(g, rid),
         ~Live(g, rid) => id \notin DOMAIN u
  PROVE  Shown(g, u)
<1>1. ASSUME NEW q \in RID, q # rid
      PROVE  /\ Live(g, q) <=> Live(f, q)
             /\ Live(f, q) => At(g, q) = At(f, q) /\ ValueIn(g, q) = ValueIn(f, q) /\ At(f, q).id # id
  BY <1>1 DEF Keeps, Live, IdAt
<1>2. ASSUME NEW i \in DOMAIN u PROVE \E q \in RID : Live(g, q) /\ At(g, q).id = i
  <2>1. CASE i = id
    BY <2>1
  <2>2. CASE i # id
    <3>1. i \in DOMAIN t
      BY <2>2 DEF MapKeep
    <3>2. PICK q \in RID : Live(f, q) /\ At(f, q).id = i
      BY <3>1 DEF Shown
    <3>3. q # rid
      BY <2>2, <3>2 DEF IdAt, Live
    <3>4. QED
      BY <1>1, <3>2, <3>3
  <2>3. QED
    BY <2>1, <2>2
<1>3. ASSUME NEW q \in RID, Live(g, q)
      PROVE  At(g, q).id \in DOMAIN u /\ u[At(g, q).id] = ValueIn(g, q)
  <2>1. CASE q = rid
    BY <1>3, <2>1
  <2>2. CASE q # rid
    <3>1. /\ Live(f, q) /\ At(g, q) = At(f, q) /\ ValueIn(g, q) = ValueIn(f, q) /\ At(f, q).id # id
      BY <1>1, <1>3, <2>2
    <3>2. At(f, q).id \in DOMAIN t \ {id} /\ t[At(f, q).id] = ValueIn(f, q)
      BY <3>1 DEF Shown
    <3>3. QED
      BY <3>1, <3>2 DEF MapKeep
  <2>3. QED
    BY <2>1, <2>2
<1>4. QED
  BY <1>2, <1>3 DEF Shown

\* u has the values of the rows that are marked as deleted.
Undoable(f, u) ==
  \A rid \in Scanned(f) : At(f, rid).del =>
    At(f, rid).id \in DOMAIN u /\ u[At(f, rid).id] = ValueIn(f, rid)

LEMMA UndoStep ==
  ASSUME NEW f, NEW g, NEW rid, Keeps(f, g, rid), NEW t, NEW u, Undoable(f, t),
         NEW id, IdAt(f, rid, id), MapKeep(t, u, id),
         rid \in Scanned(g) /\ At(g, rid).del =>
           At(g, rid).id = id /\ id \in DOMAIN u /\ u[id] = ValueIn(g, rid)
  PROVE  Undoable(g, u)
<1>1. ASSUME NEW q \in Scanned(g), q # rid, At(g, q).del
      PROVE  At(g, q).id \in DOMAIN u /\ u[At(g, q).id] = ValueIn(g, q)
  <2>1. q \in Scanned(f) \ {rid}
    BY <1>1 DEF Keeps, Scanned
  <2>2. At(g, q) = At(f, q) /\ ValueIn(g, q) = ValueIn(f, q) /\ At(f, q).id # id
    BY <2>1 DEF Keeps, IdAt
  <2>3. At(f, q).id \in DOMAIN t \ {id} /\ t[At(f, q).id] = ValueIn(f, q)
    BY <1>1, <2>1, <2>2 DEF Undoable
  <2>4. QED
    BY <2>2, <2>3 DEF MapKeep
<1>2. QED
  BY <1>1 DEF Undoable
-----------------------------------------------------------------------------
(* The indexes of a new row *)

\* All indexes take the row.
FullyExtended(ixs, jxs, row, rid) ==
  \A i \in DOMAIN ixs : jxs[i].entries =
    IF row[ixs[i].field] # Null
    THEN ixs[i].entries \cup {<<row[ixs[i].field], rid>>} ELSE ixs[i].entries

LEMMA AllAccept ==
  ASSUME NEW ixs, IxOk(ixs), NEW row \in RowType, NEW rid \in RID, NEW broken,
         Accepting(ixs, row, rid, broken) = Len(ixs),
         NEW jxs, jxs = WithEntries(ixs, row, rid, Len(ixs))
  PROVE  /\ IxOk(jxs) /\ IxKeeps(ixs, jxs, rid)
         /\ FullyExtended(ixs, jxs, row, rid)
<1>1. PICK len \in Nat : len = Len(ixs) /\ DOMAIN ixs = 1 .. len
  BY IxParts
<1>2. \A i \in DOMAIN ixs : i <= len
  BY <1>1
<1>3. \A i \in DOMAIN ixs : i <= len /\ row[ixs[i].field] # Null => ~Refuses(ixs[i], row, rid)
  BY <1>1, AcceptLemma
<1>4. len \in 0 .. Len(ixs) /\ jxs = WithEntries(ixs, row, rid, len)
  BY <1>1
<1>5. IxOk(jxs) /\ Extended(ixs, jxs, row, rid, len)
  BY <1>3, <1>4, WithLemma
<1>6. IxKeeps(ixs, jxs, rid)
  BY <1>5, WithKeeps
<1>7. QED
  BY <1>2, <1>5, <1>6 DEF Extended, FullyExtended

\* The first n indexes take the row; none is changed if n is 0.
LEMMA SomeAccept ==
  ASSUME NEW ixs, IxOk(ixs), NEW row \in RowType, NEW rid \in RID, NEW broken,
         NEW n, n = Accepting(ixs, row, rid, broken),
         NEW jxs, jxs = WithEntries(ixs, row, rid, n)
  PROVE  /\ IxOk(jxs) /\ IxKeeps(ixs, jxs, rid) /\ n \in 0 .. Len(ixs)
         /\ \A i \in DOMAIN ixs : jxs[i].entries \subseteq ixs[i].entries \cup {<<row[ixs[i].field], rid>>}
         /\ n = 0 => \A i \in DOMAIN ixs : jxs[i].entries = ixs[i].entries
<1>1. n \in 0 .. Len(ixs)
  BY AcceptLemma
<1>2. \A i \in DOMAIN ixs : i <= n /\ row[ixs[i].field] # Null => ~Refuses(ixs[i], row, rid)
  BY AcceptLemma
<1>3. IxOk(jxs) /\ Extended(ixs, jxs, row, rid, n)
  BY <1>1, <1>2, WithLemma
<1>4. IxKeeps(ixs, jxs, rid)
  BY <1>3, WithKeeps
<1>5. \A i \in DOMAIN ixs : jxs[i].entries \subseteq ixs[i].entries \cup {<<row[ixs[i].field], rid>>}
  BY <1>3 DEF Extended
<1>6. ASSUME n = 0, NEW i \in DOMAIN ixs PROVE jxs[i].entries = ixs[i].entries
  <2>1. i \in 1 .. Len(ixs) /\ Len(ixs) \in Nat
    BY IxParts
  <2>2. ~(i <= n)
    BY <1>6, <2>1
  <2>3. QED
    BY <1>3, <2>2 DEF Extended
<1>7. QED
  BY <1>1, <1>3, <1>4, <1>5, <1>6

\* An index failed: the entries of the row are taken out of all indexes again.
LEMMA TakenBack ==
  ASSUME NEW ixs, IxOk(ixs), NEW row \in RowType, NEW rid \in RID, NEW broken,
         NEW n, n = Accepting(ixs, row, rid, broken),
         NEW more, more = WithEntries(ixs, row, rid, n),
         NEW jxs, jxs = WithoutEntries(more, row, rid, Removable(more, row, rid, TRUE))
  PROVE  /\ IxOk(jxs) /\ IxKeeps(ixs, jxs, rid)
         /\ \A i \in DOMAIN ixs : jxs[i].entries \subseteq ixs[i].entries
<1>1. /\ IxOk(more) /\ IxKeeps(ixs, more, rid)
      /\ \A i \in DOMAIN ixs : more[i].entries \subseteq ixs[i].entries \cup {<<row[ixs[i].field], rid>>}
  BY SomeAccept
<1>2. PICK len \in Nat : len = Len(more) /\ DOMAIN more = 1 .. len
  BY <1>1, IxParts
<1>3. len \in 0 .. Len(more) /\ jxs = WithoutEntries(more, row, rid, len)
  BY <1>2 DEF Removable
<1>4. IxOk(jxs) /\ Reduced(more, jxs, row, rid, len)
  BY <1>1, <1>3, WithoutLemma
<1>5. IxKeeps(more, jxs, rid)
  BY <1>4, WithoutKeeps
<1>6. ASSUME NEW i \in DOMAIN ixs PROVE jxs[i].entries \subseteq ixs[i].entries
  <2>1. i \in DOMAIN more /\ more[i].field = ixs[i].field
    BY <1>1 DEF IxKeeps, SameIxs
  <2>2. i <= len
    BY <1>2, <2>1
  <2>3. jxs[i].entries = more[i].entries \ {<<row[ixs[i].field], rid>>}
    BY <1>4, <2>1, <2>2 DEF Reduced
  <2>4. QED
    BY <1>1, <2>3
<1>7. QED
  BY <1>1, <1>4, <1>5, <1>6, IxKeepsTwice
-----------------------------------------------------------------------------
(* The indexes of a row that is rewritten or removed *)

\* All indexes give up the entries of the row at rid.
LEMMA AllGiveUp ==
  ASSUME NEW ixs, IxOk(ixs), NEW row, NEW rid, NEW k, k = Len(ixs),
         NEW jxs, jxs = WithoutEntries(ixs, row, rid, k)
  PROVE  /\ IxOk(jxs) /\ IxKeeps(ixs, jxs, rid)
         /\ \A i \in DOMAIN ixs : \A e \in jxs[i].entries :
              e \in ixs[i].entries /\ e # <<row[ixs[i].field], rid>>
<1>1. PICK len \in Nat : len = Len(ixs) /\ DOMAIN ixs = 1 .. len
  BY IxParts
<1>2. len \in 0 .. Len(ixs) /\ jxs = WithoutEntries(ixs, row, rid, len)
  BY <1>1
<1>3. IxOk(jxs) /\ Reduced(ixs, jxs, row, rid, len)
  BY <1>2, WithoutLemma
<1>4. IxKeeps(ixs, jxs, rid)
  BY <1>3, WithoutKeeps
<1>5. ASSUME NEW i \in DOMAIN ixs PROVE jxs[i].entries = ixs[i].entries \ {<<row[ixs[i].field], rid>>}
  <2>1. i <= len
    BY <1>1
  <2>2. QED
    BY <1>3, <2>1 DEF Reduced
<1>6. QED
  BY <1>3, <1>4, <1>5

\* Some indexes give up their entries.
LEMMA SomeGiveUp ==
  ASSUME NEW ixs, IxOk(ixs), NEW row, NEW rid, NEW k, k = Removed(ixs, row, rid),
         NEW jxs, jxs = WithoutEntries(ixs, row, rid, k)
  PROVE  IxOk(jxs) /\ IxKeeps(ixs, jxs, rid) /\ k \in 0 .. Len(ixs)
<1>1. k \in 0 .. Len(ixs)
  BY RemoveLemma
<1>2. IxOk(jxs) /\ Reduced(ixs, jxs, row, rid, k)
  BY <1>1, WithoutLemma
<1>3. QED
  BY <1>1, <1>2, WithoutKeeps

\* The entries of the old row are replaced by those of the new one.
LEMMA Replaced ==
  ASSUME NEW ixs, IxOk(ixs), NEW old, NEW row \in RowType, NEW rid \in RID, NEW k, k = Len(ixs),
         NEW less, less = WithoutEntries(ixs, old, rid, k),
         NEW n, n = Accepting(less, row, rid, 0),
         NEW jxs, jxs = WithEntries(less, row, rid, n)
  PROVE  /\ IxOk(jxs) /\ IxKeeps(ixs, jxs, rid) /\ n \in 0 .. Len(ixs)
         /\ n = Len(ixs) => \A i \in DOMAIN ixs : row[ixs[i].field] # Null =>
                              <<row[ixs[i].field], rid>> \in jxs[i].entries
         /\ n = Len(ixs) => \A i \in DOMAIN ixs : \A e \in jxs[i].entries :
              \/ row[ixs[i].field] # Null /\ e = <<row[ixs[i].field], rid>>
              \/ e \in ixs[i].entries /\ e # <<old[ixs[i].field], rid>>
<1>1. /\ IxOk(less) /\ IxKeeps(ixs, less, rid)
      /\ \A i \in DOMAIN ixs : \A e \in less[i].entries :
           e \in ixs[i].entries /\ e # <<old[ixs[i].field], rid>>
  BY AllGiveUp
<1>2. /\ Len(less) = Len(ixs) /\ DOMAIN less = DOMAIN ixs
      /\ \A i \in DOMAIN ixs : less[i].field = ixs[i].field
  BY <1>1 DEF IxKeeps, SameIxs
<1>3. IxOk(jxs) /\ IxKeeps(less, jxs, rid) /\ n \in 0 .. Len(less)
  BY <1>1, SomeAccept
<1>4. IxKeeps(ixs, jxs, rid)
  BY <1>1, <1>3, IxKeepsTwice
<1>5. ASSUME n = Len(ixs) PROVE FullyExtended(less, jxs, row, rid)
  <2>1. Accepting(less, row, rid, 0) = Len(less) /\ jxs = WithEntries(less, row, rid, Len(less))
    BY <1>2, <1>5
  <2>2. QED
    BY <1>1, <2>1, AllAccept
<1>6. ASSUME n = Len(ixs), NEW i \in DOMAIN ixs
      PROVE  jxs[i].entries = IF row[ixs[i].field] # Null
                              THEN less[i].entries \cup {<<row[ixs[i].field], rid>>} ELSE less[i].entries
  BY <1>2, <1>5, <1>6 DEF FullyExtended
<1>7. n \in 0 .. Len(ixs)
  BY <1>2, <1>3
<1>8. ASSUME n = Len(ixs), NEW i \in DOMAIN ixs, row[ixs[i].field] # Null
      PROVE  <<row[ixs[i].field], rid>> \in jxs[i].entries
  BY <1>6, <1>8
<1>9. ASSUME n = Len(ixs), NEW i \in DOMAIN ixs, NEW e \in jxs[i].entries
      PROVE  \/ row[ixs[i].field] # Null /\ e = <<row[ixs[i].field], rid>>
             \/ e \in ixs[i].entries /\ e # <<old[ixs[i].field], rid>>
  <2>1. CASE e \in less[i].entries
    BY <1>1, <1>9, <2>1
  <2>2. CASE e \notin less[i].entries
    BY <1>6, <1>9, <2>2
  <2>3. QED
    BY <2>1, <2>2
<1>10. QED
  BY <1>3, <1>4, <1>7, <1>8, <1>9
-----------------------------------------------------------------------------
(* Marks of deletion, and rows that are gone *)

\* Setting or clearing the mark of the row at rid
Stamped(f, rid, d) == [f EXCEPT !.pages[rid[1]].rows[rid[2]].del = d]

\* Only the mark is another.
SameButMark(f, g, rid) ==
  /\ At(g, rid).id = At(f, rid).id /\ At(g, rid).txt = At(f, rid).txt
  /\ \A field \in Fields : At(g, rid)[field] = At(f, rid)[field]

LEMMA StampLemma ==
  ASSUME NEW f, FileOk(f), NEW rid \in Scanned(f), At(f, rid) \in RowType, NEW d \in BOOLEAN,
         NEW g, g = Stamped(f, rid, d)
  PROVE  /\ FileOk(g) /\ At(g, rid) \in RowType /\ Writes(f, g, rid, At(g, rid))
         /\ At(g, rid).del = d /\ SameButMark(f, g, rid) /\ Scanned(g) = Scanned(f)
<1>1. PICK p \in PageNum, s \in SlotNum : rid = <<p, s>> /\ rid[1] = p /\ rid[2] = s
  BY DEF Scanned, RID
<1>2. PICK old : old = At(f, rid)
  OBVIOUS
<1>3. PICK row : row = [old EXCEPT !.del = d]
  OBVIOUS
<1>4. f \in Files
  BY DEF FileOk
<1>5. f.pages \in [PageNum -> Pages] /\ f.pages[p] \in Pages /\ f.pages[p].rows \in [SlotNum -> Cells]
  BY <1>4, FileParts
<1>6. g = PutRow(f, p, s, row)
  <2>1. old = f.pages[p].rows[s]
    BY <1>1, <1>2 DEF At
  <2>2. QED
    BY <1>1, <1>3, <1>4, <1>5, <2>1 DEF Stamped, PutRow, Files, Pages
<1>7. row \in RowType
  BY <1>2, <1>3 DEF RowType
<1>8. row.id = old.id /\ row.txt = old.txt /\ row.a = old.a /\ row.b = old.b
  BY <1>2, <1>3 DEF RowType
<1>9. row.del = d
  BY <1>2, <1>3 DEF RowType
<1>10. \A field \in Fields : row[field] = old[field]
  BY <1>8 DEF Fields
<1>11. Writes(f, g, rid, row)
  BY <1>1, <1>4, <1>6, <1>7, WriteLemma
<1>12. At(g, rid) = row
  BY <1>11 DEF Writes
<1>13. FileOk(g)
  BY <1>11, WritesOk
<1>14. Scanned(g) = Scanned(f)
  BY <1>4, <1>7, <1>11, WritesScanned
<1>15. QED
  BY <1>2, <1>7, <1>8, <1>9, <1>10, <1>11, <1>12, <1>13, <1>14 DEF SameButMark

\* The mark has no part in texts, values and entries.
LEMMA StampKeeps ==
  ASSUME NEW f, FileOk(f), TextsOk(f), NEW rid \in Scanned(f), At(f, rid) \in RowType, NEW d \in BOOLEAN,
         NEW g, g = Stamped(f, rid, d)
  PROVE  TextsOk(g) /\ Keeps(f, g, rid) /\ ValueIn(g, rid) = ValueIn(f, rid)
<1>1. /\ At(g, rid) \in RowType /\ Writes(f, g, rid, At(g, rid)) /\ SameButMark(f, g, rid)
  BY StampLemma
<1>2. PICK row : row = At(g, rid)
  OBVIOUS
<1>3. PICK old : old = At(f, rid)
  OBVIOUS
<1>4. row \in RowType /\ Writes(f, g, rid, row) /\ row.txt = old.txt /\ row.a = old.a /\ row.b = old.b
  BY <1>1, <1>2, <1>3 DEF SameButMark, Fields
<1>5. f \in Files
  BY DEF FileOk
<1>6. TextsOk(g)
  BY <1>3, <1>4, WritesTexts
<1>7. Keeps(f, g, rid) /\ \A p \in PageNum : g.pages[p].text = f.pages[p].text
  BY <1>4, <1>5, WritesKeeps
<1>8. TextIn(g, row) = TextIn(f, old)
  <2>1. old.txt # 0 => old.txt \in PageNum
    BY <1>3 DEF TextsOk, Allocated
  <2>2. QED
    BY <1>4, <1>7, <2>1 DEF TextIn
<1>9. ValueIn(g, rid) = ValueIn(f, rid)
  BY <1>2, <1>3, <1>4, <1>8 DEF ValueIn, ValueOf
<1>10. QED
  BY <1>6, <1>7, <1>9

LEMMA StampCovers ==
  ASSUME NEW f, NEW g, NEW rid \in Scanned(f), SameButMark(f, g, rid), NEW ixs, IxOk(ixs)
  PROVE  Covered(f, ixs, rid) => Covered(g, ixs, rid)
<1>1. \A i \in DOMAIN ixs : ixs[i].field \in Fields
  BY IxParts
<1>2. QED
  BY <1>1 DEF Covered, SameButMark

LEMMA StampDangles ==
  ASSUME NEW f, NEW g, NEW rid \in Scanned(g), SameButMark(f, g, rid), Keeps(f, g, rid),
         NEW ixs, IxOk(ixs), NoneDangles(f, ixs)
  PROVE  NoneDangles(g, ixs)
<1>1. \A i \in DOMAIN ixs : ixs[i].field \in Fields
  BY IxParts
<1>2. IxKeeps(ixs, ixs, rid)
  BY DEF IxKeeps, SameIxs
<1>3. \A i \in DOMAIN ixs : \A e \in ixs[i].entries : e[2] = rid => EntryOf(g, ixs[i], e)
  BY <1>1 DEF NoneDangles, EntryOf, SameButMark
<1>4. QED
  BY <1>2, <1>3, DanglesStep

\* The row at rid, and its text if h is without it, is deleted from f.
Leaves(f, g, rid) ==
  /\ TextsOk(g) /\ Keeps(f, g, rid) /\ rid \notin Scanned(g)
  /\ \A now, q : q \in RID \ {rid} /\ now # "idle" /\ HeldIn(f, now, q) => HeldIn(g, now, q)

LEMMA GoneLemma ==
  ASSUME NEW f, FileOk(f), NEW rid \in Scanned(f), NEW g, g = DeleteRecord(f, rid)
  PROVE  FileOk(g) /\ (TextsBut(f, rid) => Leaves(f, g, rid))
<1>1. f \in Files
  BY DEF FileOk
<1>2. Drops(f, g, rid)
  BY <1>1, DeleteLemma
<1>3. FileOk(g)
  BY <1>2, DropsOk
<1>4. ASSUME TextsBut(f, rid) PROVE Leaves(f, g, rid)
  <2>1. TextsOk(g) /\ Keeps(f, g, rid)
    BY <1>1, <1>2, <1>4, DropsTexts, DropsKeeps
  <2>2. rid \notin Scanned(g)
    BY <1>1, <1>2, DropsScanned
  <2>3. \A now, q : q \in RID \ {rid} /\ now # "idle" /\ HeldIn(f, now, q) => HeldIn(g, now, q)
    BY <1>1, <1>2, DropsHeld
  <2>4. QED
    BY <2>1, <2>2, <2>3 DEF Leaves
<1>5. QED
  BY <1>3, <1>4

LEMMA OneBut ==
  ASSUME NEW f, TextsOk(f), NEW rid
  PROVE  TextsBut(f, rid)
BY DEF TextsOk, TextsBut

\* commit_delete: the text goes first.
LEMMA GoneWithText ==
  ASSUME NEW f, FileOk(f), NEW rid \in Scanned(f), At(f, rid) \in RowType, NEW p, p = At(f, rid).txt,
         NEW h, h = IF Allocated(f, p) THEN DeleteText(f, p) ELSE f,
         NEW g, g = DeleteRecord(h, rid)
  PROVE  FileOk(g) /\ (TextsOk(f) => Leaves(f, g, rid))
<1>1. f \in Files /\ rid \in RID
  BY DEF FileOk, Scanned
<1>2. CASE ~Allocated(f, p)
  BY <1>2, GoneLemma, OneBut
<1>3. CASE Allocated(f, p)
  <2>1. h = PutPage(f, p, EmptyPage)
    BY <1>3 DEF DeleteText, PutPage
  <2>2. EmptyPage \in Pages /\ EmptyPage.alloc /\ \A s \in SlotNum : EmptyPage.rows[s] = NoRow
    BY NewPages
  <2>3. Puts(f, h, p, EmptyPage)
    BY <1>1, <1>3, <2>1, <2>2, PutHere
  <2>4. FileOk(h) /\ h \in Files
    BY <2>3, PutsOk DEF Puts
  <2>5. FileOk(g)
    <3>1. CASE rid \in Scanned(h)
      BY <2>4, <3>1, GoneLemma
    <3>2. CASE rid \notin Scanned(h)
      <4>1. ~Found(h, rid)
        BY <1>1, <2>4, <3>2, ScannedIs
      <4>2. QED
        BY <2>4, <4>1 DEF DeleteRecord
    <3>3. QED
      BY <3>1, <3>2
  <2>6. ASSUME TextsOk(f) PROVE Leaves(f, g, rid)
    <3>1. p # 0
      BY <1>3 DEF Allocated, PageNum
    <3>2. f.pages[p].cap = 0
      BY <2>6, <3>1 DEF TextsOk
    <3>3. TextsBut(h, rid)
      BY <2>2, <2>3, <2>6, <3>1, PutsTextsBut
    <3>4. Scanned(h) = Scanned(f)
      BY <1>1, <2>2, <2>3, <3>2, PutsScanned
    <3>5. Leaves(h, g, rid)
      BY <2>4, <3>3, <3>4, GoneLemma
    <3>6. \A q \in Scanned(f) \ {rid} : At(f, q).txt # p
      BY <2>6, <3>1 DEF TextsOk
    <3>7. Keeps(f, h, rid)
      BY <1>1, <2>2, <2>3, <2>6, <3>2, <3>6, PutsKeeps
    <3>8. Keeps(f, g, rid)
      BY <3>5, <3>7, KeepsTwice DEF Leaves
    <3>9. ASSUME NEW now, NEW q, q \in RID \ {rid}, now # "idle", HeldIn(f, now, q) PROVE HeldIn(g, now, q)
      <4>1. HeldIn(h, now, q)
        BY <1>1, <2>3, <3>2, <3>9, PutsHeld
      <4>2. QED
        BY <3>5, <3>9, <4>1 DEF Leaves
    <3>10. QED
      BY <3>5, <3>8, <3>9 DEF Leaves
  <2>7. QED
    BY <2>5, <2>6
<1>4. QED
  BY <1>2, <1>3
-----------------------------------------------------------------------------
(* A new index, and a restart *)

\* One index on its own, and the indexes with a new one
OneIx(ix) ==
  /\ ix \in Ixs /\ ix.entries \subseteq ValuesOf(ix.field) \X RID
  /\ ix.unique => \A d, e \in ix.entries : d[1] = e[1] => d = e
OneMore(ixs, ix) == Append(ixs, ix)

LEMMA AppendOk ==
  ASSUME NEW ixs, IxOk(ixs), NEW ix, OneIx(ix), NEW jxs, jxs = OneMore(ixs, ix)
  PROVE  /\ IxOk(jxs)
         /\ \A i \in DOMAIN jxs : (i \in DOMAIN ixs /\ jxs[i] = ixs[i]) \/ jxs[i] = ix
<1>1. ixs \in Seq(Ixs)
  BY DEF IxOk
<1>2. jxs = Append(ixs, ix) /\ ix \in Ixs /\ jxs \in Seq(Ixs)
  BY <1>1 DEF OneIx, OneMore
<1>3. ASSUME NEW i \in DOMAIN jxs PROVE (i \in DOMAIN ixs /\ jxs[i] = ixs[i]) \/ jxs[i] = ix
  <2>1. PICK len \in Nat : len = Len(ixs) /\ DOMAIN ixs = 1 .. len
    BY <1>1
  <2>2. DOMAIN jxs = 1 .. len + 1 /\ jxs[len + 1] = ix
    BY <1>1, <1>2, <2>1
  <2>3. CASE i = len + 1
    BY <2>2, <2>3
  <2>4. CASE i # len + 1
    <3>1. i \in 1 .. len
      BY <2>1, <2>2, <2>4
    <3>2. jxs[i] = ixs[i]
      BY <1>1, <1>2, <2>1, <3>1
    <3>3. QED
      BY <2>1, <3>1, <3>2
  <2>5. QED
    BY <2>3, <2>4
<1>4. \A i \in DOMAIN jxs : jxs[i].entries \subseteq ValuesOf(jxs[i].field) \X RID
  BY <1>3 DEF IxOk, OneIx
<1>5. \A i \in DOMAIN jxs : jxs[i].unique => \A d, e \in jxs[i].entries : d[1] = e[1] => d = e
  BY <1>3 DEF IxOk, OneIx
<1>6. QED
  BY <1>2, <1>3, <1>4, <1>5 DEF IxOk

\* Table::open: no index is unique any more.
NoneUnique(ixs) == [i \in DOMAIN ixs |-> [ixs[i] EXCEPT !.unique = FALSE]]

LEMMA OpenOk ==
  ASSUME NEW ixs, IxOk(ixs), NEW jxs, jxs = NoneUnique(ixs)
  PROVE  /\ IxOk(jxs) /\ DOMAIN jxs = DOMAIN ixs
         /\ \A i \in DOMAIN ixs : jxs[i].field = ixs[i].field /\ jxs[i].entries = ixs[i].entries
<1>1. PICK len \in Nat : DOMAIN ixs = 1 .. len
  BY IxParts
<1>2. DOMAIN jxs = 1 .. len
  BY <1>1 DEF NoneUnique
<1>3. ASSUME NEW i \in 1 .. len
      PROVE  /\ jxs[i] \in Ixs /\ jxs[i].field = ixs[i].field /\ jxs[i].entries = ixs[i].entries
             /\ ~jxs[i].unique
  <2>1. PICK x \in Ixs : x = ixs[i]
    BY <1>1, IxParts
  <2>2. jxs[i] = [x EXCEPT !.unique = FALSE]
    BY <1>1, <2>1 DEF NoneUnique
  <2>3. [x EXCEPT !.unique = FALSE] \in Ixs
    BY DEF Ixs
  <2>4. jxs[i].field = x.field /\ jxs[i].entries = x.entries
    BY <2>2 DEF Ixs
  <2>5. ~jxs[i].unique
    BY <2>2 DEF Ixs
  <2>6. QED
    BY <2>1, <2>2, <2>3, <2>4, <2>5
<1>4. jxs \in [1 .. len -> Ixs]
  <2>1. jxs = [i \in 1 .. len |-> jxs[i]]
    BY <1>1 DEF NoneUnique
  <2>2. QED
    BY <1>3, <2>1
<1>5. jxs \in Seq(Ixs)
  BY <1>4
<1>6. \A i \in DOMAIN jxs : jxs[i].entries \subseteq ValuesOf(jxs[i].field) \X RID
  BY <1>1, <1>2, <1>3 DEF IxOk
<1>7. \A i \in DOMAIN jxs : ~jxs[i].unique
  BY <1>2, <1>3
<1>8. QED
  BY <1>1, <1>2, <1>3, <1>5, <1>6, <1>7 DEF IxOk

\* The record file handler forgets its page.
LEMMA NoPage ==
  ASSUME NEW f, FileOk(f), NEW g, g = [f EXCEPT !.cur = 0]
  PROVE  /\ FileOk(g) /\ Scanned(g) = Scanned(f)
         /\ \A p : Allocated(g, p) <=> Allocated(f, p)
         /\ g.pages = f.pages
         /\ \A rid : At(g, rid) = At(f, rid) /\ ValueIn(g, rid) = ValueIn(f, rid)
<1>1. f \in Files
  BY DEF FileOk
<1>2. g.pages = f.pages /\ g.count = f.count /\ g.cur = 0
  BY <1>1 DEF Files
<1>3. g \in Files
  <2>1. g = [pages |-> g.pages, count |-> g.count, cur |-> g.cur]
    BY <1>1 DEF Files
  <2>2. 0 \in 0 .. MaxPage
    BY MaxPageAssumption
  <2>3. QED
    BY <1>1, <1>2, <2>1, <2>2 DEF Files
<1>4. \A p : Allocated(g, p) <=> Allocated(f, p)
  BY <1>2 DEF Allocated
<1>5. \A rid : At(g, rid) = At(f, rid)
  BY <1>2 DEF At
<1>6. \A rid : ValueIn(g, rid) = ValueIn(f, rid)
  BY <1>2, <1>5 DEF ValueIn, TextIn
<1>7. Scanned(g) = Scanned(f)
  BY <1>2, <1>4 DEF Scanned
<1>8. FileOk(g)
  BY <1>2, <1>3 DEF FileOk
<1>9. QED
  BY <1>2, <1>4, <1>5, <1>6, <1>7, <1>8

\* An empty file
LEMMA NewFileOk ==
  ASSUME NEW f, f = NewFile
  PROVE  FileOk(f) /\ Scanned(f) = {} /\ TextsOk(f)
<1>1. PICK x : x = [ZeroPage EXCEPT !.alloc = FALSE]
  OBVIOUS
<1>2. x \in Pages /\ ~x.alloc /\ x.rows = EmptySlots
  BY <1>1, NewPages DEF Pages, ZeroPage
<1>3. f = [pages |-> [p \in PageNum |-> x], count |-> 1, cur |-> 0]
  BY <1>1 DEF NewFile
<1>4. f \in Files
  <2>1. 1 \in 1 .. MaxPage + 1 /\ 0 \in 0 .. MaxPage
    BY MaxPageAssumption
  <2>2. QED
    BY <1>2, <1>3, <2>1 DEF Files
<1>5. \A p \in PageNum : f.pages[p] = x /\ ~(p < f.count)
  BY <1>3, MaxPageAssumption DEF PageNum
<1>6. FileOk(f)
  BY <1>3, <1>4, <1>5 DEF FileOk
<1>7. Scanned(f) = {}
  BY <1>5 DEF Scanned, RID, Allocated
<1>8. ASSUME NEW rid \in RID PROVE At(f, rid) # Garbage
  <2>1. rid[1] \in PageNum /\ rid[2] \in SlotNum
    BY DEF RID
  <2>2. At(f, rid) = NoRow
    BY <1>2, <1>5, <2>1 DEF At, EmptySlots
  <2>3. QED
    BY <2>2 DEF NoRow, Garbage
<1>9. QED
  BY <1>6, <1>7, <1>8 DEF TextsOk

-----------------------------------------------------------------------------
(* The invariant *)

Ended == {"commit", "rollback"}
Outcomes == {"idle", "damaged", "aborted"} \cup Ended

\* What holds whatever harm was done: the shapes of the variables, the page of
\* the insertions is there, a unique index has each value once, and outside a
\* transaction there are no operations.
Base ==
  /\ FileOk(file) /\ IxOk(indexes)
  /\ DOMAIN ops \subseteq RID /\ \A rid \in DOMAIN ops : ops[rid] \in {"INSERT", "DELETE"}
  /\ multi \in BOOLEAN /\ pc \in Outcomes
  /\ nextRow \in 0 .. MaxRow /\ DOMAIN told \subseteq 1 .. MaxRow
  /\ pc = "idle" /\ ~multi => DOMAIN ops = {}
  /\ pc \in Ended => ~multi

\* Has no harm of the set S been done?
Unhurt(S) == harm \cap S = {}

ForRows == {"text_reuse"}
ForOps == {"stale_op", "text_reuse"}
ForEntries == {"refused_update", "index_in_trx", "text_reuse"}
ForIndexes == {"refused_update", "refused_insert", "index_in_trx", "text_reuse"}
ForValues == {"refused_update", "null_update", "own_delete", "stale_op", "text_reuse", "update_kept"}

\* What the client was told, and what a rollback would give back to it
Told ==
  /\ Ids(file, nextRow) /\ Shown(file, told) /\ Undoable(file, undo)
  /\ OwnRows(file, indexes, ops)

RowsInv == Unhurt(ForRows) => TextsOk(file) /\ Marked(file, ops)
OpsInv == Unhurt(ForOps) => \A rid \in DOMAIN ops : HeldIn(file, pc, rid)
EntriesInv == Unhurt(ForEntries) => CoversAll(file, indexes)
IndexesInv == Unhurt(ForIndexes) => NoneDangles(file, indexes)
ValuesInv == Unhurt(ForValues) => Told

IInv == Base /\ RowsInv /\ OpsInv /\ EntriesInv /\ IndexesInv /\ ValuesInv
-----------------------------------------------------------------------------
(* Harm is never undone. *)

LEMMA StillUnhurt ==
  ASSUME harm \subseteq harm', NEW S, Unhurt(S)'
  PROVE  Unhurt(S)
BY DEF Unhurt

\* Harm h was done in a step that leaves S unhurt: it is not in S.
LEMMA NotHarmed ==
  ASSUME NEW h, h \in harm', NEW S, Unhurt(S)'
  PROVE  h \notin S
BY DEF Unhurt

\* S without harm is T without harm for a smaller T.
LEMMA UnhurtToo ==
  /\ Unhurt(ForOps) => Unhurt(ForRows)
  /\ Unhurt(ForEntries) => Unhurt(ForRows)
  /\ Unhurt(ForIndexes) => Unhurt(ForEntries) /\ Unhurt(ForRows)
  /\ Unhurt(ForValues) => Unhurt(ForOps) /\ Unhurt(ForRows)
BY DEF Unhurt, ForRows, ForOps, ForEntries, ForIndexes, ForValues

\* The state seen through the operators of the first part
LEMMA Views ==
  ASSUME Base
  PROVE  /\ file \in Files
         /\ \A rid : RowAt(rid) = At(file, rid)
         /\ \A rid : rid \in LiveRids <=> rid \in Scanned(file) /\ At(file, rid) # Garbage /\ ~At(file, rid).del
         /\ \A rid \in Scanned(file) : rid \in RID /\ At(file, rid) \in RowType \cup {Garbage}
<1>1. file \in Files
  BY DEF Base, FileOk
<1>2. \A rid : RowAt(rid) = At(file, rid)
  BY DEF RowAt, At
<1>3. \A rid : rid \in LiveRids <=> rid \in Scanned(file) /\ At(file, rid) # Garbage /\ ~At(file, rid).del
  BY <1>2 DEF LiveRids
<1>4. ASSUME NEW rid \in Scanned(file) PROVE rid \in RID /\ At(file, rid) \in RowType \cup {Garbage}
  <2>1. rid \in RID
    BY DEF Scanned
  <2>2. At(file, rid) \in Cells /\ At(file, rid) # NoRow
    BY <1>1, <2>1, FileParts, ScannedIs
  <2>3. QED
    BY <2>1, <2>2 DEF Cells
<1>5. QED
  BY <1>1, <1>2, <1>3, <1>4
-----------------------------------------------------------------------------
(* Steps that leave the rows and the indexes alone *)

\* The statement of a transaction ends where After says.
LEMMA AfterOk ==
  ASSUME Base, Ready, NEW rc \in {"commit", "rollback"}, After(rc)
  PROVE  pc = "idle" /\ pc' \in Outcomes /\ (pc' # "idle" => ~multi) /\ (pc' = "idle" => multi)
BY DEF After, Base, Outcomes, Ended, Ready

LEMMA QuietStep ==
  ASSUME IInv, UNCHANGED <<file, indexes, ops, told, harm, nextRow>>,
         multi' \in BOOLEAN, pc' \in Outcomes, pc' \in Ended => ~multi',
         pc' = "idle" /\ ~multi' => DOMAIN ops = {},
         pc' = "idle" => pc = "idle" \/ DOMAIN ops = {},
         undo' = undo \/ DOMAIN ops = {}
  PROVE  IInv'
<1>1. Base'
  BY DEF IInv, Base
<1>2. \A S : Unhurt(S)' <=> Unhurt(S)
  BY DEF Unhurt
<1>3. RowsInv' /\ EntriesInv' /\ IndexesInv'
  BY <1>2 DEF IInv, RowsInv, EntriesInv, IndexesInv
<1>4. OpsInv'
  <2>1. SUFFICES ASSUME Unhurt(ForOps), NEW rid \in DOMAIN ops PROVE HeldIn(file, pc', rid)
    BY <1>2 DEF OpsInv
  <2>2. HeldIn(file, pc, rid) /\ (pc' = "idle" => pc = "idle")
    BY <2>1 DEF IInv, OpsInv
  <2>3. QED
    BY <2>2 DEF HeldIn
<1>5. ValuesInv'
  <2>1. SUFFICES ASSUME Unhurt(ForValues) PROVE Told'
    BY <1>2 DEF ValuesInv
  <2>2. Told /\ Marked(file, ops)
    BY <2>1, UnhurtToo DEF IInv, ValuesInv, RowsInv
  <2>3. Undoable(file, undo')
    BY <2>2 DEF Told, Undoable, Marked
  <2>4. QED
    BY <2>2, <2>3 DEF Told
<1>6. QED
  BY <1>1, <1>3, <1>4, <1>5 DEF IInv

LEMMA InsertFailsStep ==
  ASSUME IInv, InsertFails
  PROVE  IInv'
<1>1. /\ Base /\ Ready /\ After("rollback")
      /\ UNCHANGED <<file, indexes, ops, told, harm, nextRow, undo, multi>>
  BY DEF IInv, InsertFails, trx
<1>2. pc = "idle" /\ pc' \in Outcomes /\ (pc' # "idle" => ~multi) /\ (pc' = "idle" => multi)
  BY <1>1, AfterOk
<1>3. multi \in BOOLEAN
  BY <1>1 DEF Base
<1>4. QED
  BY <1>1, <1>2, <1>3, QuietStep DEF Ended

\* The table is damaged, or the process ends: only the control state changes.
LEMMA StopStep ==
  ASSUME IInv, Ready, NEW how \in {"damaged", "aborted"}, Stops(how)
  PROVE  IInv'
<1>1. UNCHANGED <<file, indexes, ops, told, harm, nextRow, undo, multi>> /\ pc' = how
  BY DEF Stops, trx
<1>2. multi \in BOOLEAN
  BY DEF IInv, Base
<1>3. QED
  BY <1>1, <1>2, QuietStep DEF Outcomes, Ended

\* A ROLLBACK leaves the rows that the transaction updated as they are, while
\* the client gets back the values from before.
LEMMA KeptStep ==
  ASSUME IInv, End("rollback"), told' = Reverted(told), harm' = harm \cup {"update_kept"}
  PROVE  IInv'
<1>1. /\ Base /\ UNCHANGED <<file, indexes, ops, nextRow>> /\ multi' = FALSE
      /\ pc = "idle" /\ pc' = "rollback"
  BY DEF IInv, End, Ready
<1>2. DOMAIN told' = DOMAIN told
  BY DEF Reverted
<1>3. Base'
  BY <1>1, <1>2 DEF Base, Outcomes, Ended
<1>4. \A S : Unhurt(S)' => Unhurt(S)
  BY DEF Unhurt
<1>5. RowsInv' /\ EntriesInv' /\ IndexesInv'
  BY <1>1, <1>4 DEF IInv, RowsInv, EntriesInv, IndexesInv
<1>6. OpsInv'
  BY <1>1, <1>4 DEF IInv, OpsInv, HeldIn
<1>7. ValuesInv'
  BY DEF ValuesInv, Unhurt, ForValues
<1>8. QED
  BY <1>3, <1>5, <1>6, <1>7 DEF IInv

LEMMA ControlStep ==
  ASSUME IInv, Begin \/ End("commit") \/ End("rollback") \/ Finish
  PROVE  IInv'
<1>1. Base
  BY DEF IInv
<1>2. CASE Begin
  BY <1>1, <1>2, QuietStep DEF Begin, Ready, Base, Outcomes, Ended
<1>3. CASE End("commit") \/ End("rollback")
  <2>1. CASE UNCHANGED <<told, undo, harm>>
    BY <1>1, <1>3, <2>1, QuietStep DEF End, Ready, Base, Outcomes, Ended
  <2>2. CASE End("rollback") /\ told' = Reverted(told) /\ harm' = harm \cup {"update_kept"}
    BY <2>2, KeptStep
  <2>3. QED
    BY <1>3, <2>1, <2>2 DEF End
<1>4. CASE Finish
  <2>1. DOMAIN ops = {}
    BY <1>4 DEF Finish
  <2>2. ~multi /\ multi' = multi /\ pc' = "idle"
    BY <1>1, <1>4 DEF Finish, Base, Ended, trx
  <2>3. QED
    BY <1>1, <1>4, <2>1, <2>2, QuietStep DEF Finish, Base, Outcomes, Ended, trx
<1>5. QED
  BY <1>2, <1>3, <1>4
-----------------------------------------------------------------------------
(* INSERT *)

\* The number of a new row is that of no row, and of none the client knows.
LEMMA FreshId ==
  ASSUME Base, TextsOk(file), Ids(file, nextRow), NEW rid, rid \notin Scanned(file)
  PROVE  /\ IdAt(file, rid, nextRow + 1)
         /\ \A q \in Scanned(file) : At(file, q).id <= nextRow => At(file, q).id <= nextRow + 1
         /\ Shown(file, told) => nextRow + 1 \notin DOMAIN told
<1>1. nextRow \in Nat
  BY ValuesAssumption DEF Base
<1>2. ASSUME NEW q \in Scanned(file) PROVE At(file, q).id \in Nat /\ At(file, q).id <= nextRow
  <2>1. q \in RID /\ At(file, q) \in RowType
    BY Views DEF TextsOk
  <2>2. At(file, q).id \in 1 .. MaxRow
    BY <2>1, RowIs
  <2>3. QED
    BY <2>2, ValuesAssumption DEF Ids
<1>3. \A q \in Scanned(file) : At(file, q).id # nextRow + 1 /\ At(file, q).id <= nextRow + 1
  BY <1>1, <1>2
<1>4. ASSUME Shown(file, told), nextRow + 1 \in DOMAIN told PROVE FALSE
  <2>1. PICK q \in RID : Live(file, q) /\ At(file, q).id = nextRow + 1
    BY <1>4 DEF Shown
  <2>2. QED
    BY <1>3, <2>1 DEF Live
<1>5. QED
  BY <1>3, <1>4 DEF IdAt

\* A row was refused, or its operation was: nothing of it stays in the file.
LEMMA RefuseStep ==
  ASSUME IInv, pc = "idle", NEW row, NEW r, r = InsertRecord(file, row),
         Adds(file, file', r.rid, NoRow), IxOk(indexes'), IxKeeps(indexes, indexes', r.rid),
         ops' = ops \/ (r.rid \notin DOMAIN ops /\ ops' = With(ops, r.rid, "INSERT")),
         UNCHANGED <<told, undo, multi>>, nextRow < MaxRow, nextRow' = nextRow + 1,
         pc' \in Outcomes, pc' # "idle" => ~multi, pc' = "idle" => multi,
         harm \subseteq harm',
         Unhurt(ForIndexes)' => \A i \in DOMAIN indexes : indexes'[i].entries \subseteq indexes[i].entries
  PROVE  IInv'
<1>1. Base /\ FileOk(file) /\ file \in Files
  BY DEF IInv, Base, FileOk
<1>2. PICK rid : rid = r.rid
  OBVIOUS
<1>3. Adds(file, file', rid, NoRow) /\ IxKeeps(indexes, indexes', rid)
  BY <1>2
<1>4. /\ rid \in RID /\ rid \notin Scanned(file) /\ rid \notin Scanned(file')
      /\ Scanned(file') \ {rid} = Scanned(file)
  BY <1>1, <1>3, AddsScanned
<1>5. FileOk(file')
  BY <1>1, <1>3, AddsOk
<1>6. DOMAIN ops' \subseteq DOMAIN ops \cup {rid} /\ DOMAIN ops \subseteq DOMAIN ops' /\ MapKeep(ops, ops', rid)
      /\ (rid \in DOMAIN ops' => ops'[rid] = "INSERT" \/ (rid \in DOMAIN ops /\ ops'[rid] = ops[rid]))
  <2>1. CASE ops' = ops
    <3>1. MapKeep(ops, ops, rid)
      BY SameMap
    <3>2. QED
      BY <2>1, <3>1
  <2>2. CASE rid \notin DOMAIN ops /\ ops' = With(ops, rid, "INSERT")
    <3>1. Sets(ops, ops', rid, "INSERT")
      BY <2>2, WithMap
    <3>2. QED
      BY <3>1 DEF Sets
  <2>3. QED
    BY <1>2, <2>1, <2>2
<1>7. Base'
  <2>1. DOMAIN ops' \subseteq RID
    BY <1>1, <1>4, <1>6 DEF Base
  <2>2. \A q \in DOMAIN ops' : ops'[q] \in {"INSERT", "DELETE"}
    BY <1>1, <1>6 DEF Base, MapKeep
  <2>3. nextRow' \in 0 .. MaxRow
    BY <1>1, ValuesAssumption DEF Base
  <2>4. QED
    BY <1>1, <1>5, <2>1, <2>2, <2>3 DEF Base
<1>8. \A S : Unhurt(S)' => Unhurt(S)
  BY StillUnhurt
<1>9. ASSUME Unhurt(ForRows)
      PROVE  TextsOk(file) /\ Marked(file, ops) /\ Keeps(file, file', rid) /\ TextsOk(file') /\ Marked(file', ops')
  <2>1. TextsOk(file) /\ Marked(file, ops)
    BY <1>9 DEF IInv, RowsInv
  <2>2. Keeps(file, file', rid)
    BY <1>1, <1>3, <2>1, AddsKeeps
  <2>3. TextsOk(file')
    BY <1>1, <1>3, <2>1, AddsTexts
  <2>4. Marked(file', ops')
    BY <1>4, <1>6, <2>1, <2>2, MarkedStep
  <2>5. QED
    BY <2>1, <2>2, <2>3, <2>4
<1>10. RowsInv'
  BY <1>8, <1>9 DEF RowsInv
<1>11. OpsInv'
  <2>1. SUFFICES ASSUME Unhurt(ForOps), NEW q \in DOMAIN ops' PROVE HeldIn(file', pc', q)
    BY <1>8 DEF OpsInv
  <2>2. CASE q = rid
    BY <1>1, <1>2, <2>2, AddsHeld
  <2>3. CASE q # rid
    <3>1. q \in RID /\ HeldIn(file, "idle", q)
      BY <1>1, <1>6, <2>1, <2>3 DEF IInv, OpsInv, Base
    <3>2. QED
      BY <1>1, <3>1, AddsHeld
  <2>4. QED
    BY <2>2, <2>3
<1>12. EntriesInv'
  <2>1. SUFFICES ASSUME Unhurt(ForEntries) PROVE CoversAll(file', indexes')
    BY <1>8 DEF EntriesInv
  <2>2. Keeps(file, file', rid) /\ CoversAll(file, indexes)
    BY <1>9, <2>1, UnhurtToo DEF IInv, EntriesInv
  <2>3. QED
    BY <1>3, <1>4, <2>2, CoversStep
<1>13. IndexesInv'
  <2>1. SUFFICES ASSUME Unhurt(ForIndexes), Unhurt(ForIndexes)' PROVE NoneDangles(file', indexes')
    BY <1>8 DEF IndexesInv
  <2>2. Keeps(file, file', rid) /\ NoneDangles(file, indexes)
    BY <1>9, <2>1, UnhurtToo DEF IInv, IndexesInv
  <2>3. ASSUME NEW i \in DOMAIN indexes', NEW e \in indexes'[i].entries, e[2] = rid PROVE FALSE
    <3>1. i \in DOMAIN indexes /\ e \in indexes[i].entries
      BY <1>3, <2>1 DEF IxKeeps, SameIxs
    <3>2. QED
      BY <1>4, <2>2, <2>3, <3>1 DEF NoneDangles, EntryOf
  <2>4. QED
    BY <1>3, <2>2, <2>3, DanglesStep
<1>14. ValuesInv'
  <2>1. SUFFICES ASSUME Unhurt(ForValues) PROVE Told'
    BY <1>8 DEF ValuesInv
  <2>2. Keeps(file, file', rid) /\ Told /\ TextsOk(file)
    BY <1>9, <2>1, UnhurtToo DEF IInv, ValuesInv
  <2>3. PICK id : id = nextRow + 1
    OBVIOUS
  <2>4. /\ IdAt(file, rid, id) /\ id \notin DOMAIN told
        /\ \A q \in Scanned(file) : At(file, q).id <= nextRow => At(file, q).id <= id
    BY <1>1, <1>4, <2>2, <2>3, FreshId DEF Told
  <2>5. Ids(file', nextRow')
    BY <1>4, <2>2, <2>3, <2>4, IdsStep DEF Told
  <2>6. Shown(file', told') /\ Undoable(file', undo')
    <3>1. MapKeep(told, told', id) /\ MapKeep(undo, undo', id)
      BY SameMap
    <3>2. ~Live(file', rid)
      BY <1>4 DEF Live
    <3>3. QED
      BY <1>4, <2>2, <2>4, <3>1, <3>2, ShownStep, UndoStep DEF Told
  <2>7. OwnRows(file', indexes', ops')
    <3>1. ASSUME rid \in DOMAIN ops' PROVE OwnRow(file', indexes', ops', rid)
      <4>1. ops'[rid] = "INSERT"
        BY <1>4, <1>6, <2>2, <3>1 DEF Told, OwnRows, OwnRow
      <4>2. QED
        BY <1>4, <4>1 DEF OwnRow
    <3>2. DOMAIN ops \subseteq RID
      BY <1>1 DEF Base
    <3>3. QED
      BY <1>3, <1>6, <2>2, <3>1, <3>2, OwnStep DEF Told
  <2>8. QED
    BY <2>5, <2>6, <2>7 DEF Told
<1>15. QED
  BY <1>7, <1>10, <1>11, <1>12, <1>13, <1>14 DEF IInv

\* What getting a page for a text leaves of the file: f is the file, or the
\* file with that page.
Ahead(f, row, t) ==
  /\ TextsOk(f)
  /\ \A rid : rid \notin Scanned(file) => Keeps(file, f, rid)
  /\ \A q \in RID : HeldIn(file, "idle", q) => HeldIn(f, "idle", q)
  /\ IF row.txt = 0 THEN t = NoText
     ELSE /\ Allocated(f, row.txt) /\ f.pages[row.txt].cap = 0 /\ f.pages[row.txt].text = t
          /\ \A q \in Scanned(f) : At(f, q).txt # row.txt

\* A row that all indexes took stays.
LEMMA AcceptStep ==
  ASSUME IInv, pc = "idle", NEW f, FileOk(f), CanInsert(f), Scanned(f) = Scanned(file) \/ ~Unhurt(ForRows)',
         NEW row \in RowType, ~row.del, row.id = nextRow + 1, NEW t,
         Unhurt(ForRows)' => Ahead(f, row, t),
         NEW r, r = InsertRecord(f, row), file' = r.file,
         NEW broken, Accepting(indexes, row, r.rid, broken) = Len(indexes),
         indexes' = WithEntries(indexes, row, r.rid, Len(indexes)),
         \/ r.rid \notin DOMAIN ops /\ ops' = With(ops, r.rid, "INSERT")
         \/ ops' = ops /\ (r.rid \in DOMAIN ops => "stale_op" \in harm'),
         told' = With(told, row.id, ValueOf(row, t)),
         UNCHANGED <<undo, multi>>, nextRow < MaxRow, nextRow' = nextRow + 1,
         pc' \in Outcomes, pc' # "idle" => ~multi, pc' = "idle" => multi,
         harm \subseteq harm'
  PROVE  IInv'
<1>1. Base /\ FileOk(file) /\ file \in Files /\ f \in Files /\ IxOk(indexes) /\ nextRow \in Nat
  BY ValuesAssumption DEF IInv, Base, FileOk
<1>2. PICK rid : rid = r.rid
  OBVIOUS
<1>3. Adds(f, file', rid, row)
  BY <1>1, <1>2, InsertLemma
<1>4. row # NoRow /\ row.id \in 1 .. MaxRow
  BY RowIs
<1>5. /\ rid \in RID /\ rid \notin Scanned(f) /\ rid \in Scanned(file') /\ At(file', rid) = row
  <2>1. rid \in RID /\ rid \notin Scanned(f) /\ rid \in Scanned(file')
    BY <1>1, <1>3, <1>4, AddsScanned
  <2>2. At(file', rid) = row
    BY <1>3 DEF Adds
  <2>3. QED
    BY <2>1, <2>2
<1>6. FileOk(file')
  BY <1>3, AddsOk
<1>7. IxOk(indexes') /\ IxKeeps(indexes, indexes', rid) /\ FullyExtended(indexes, indexes', row, rid)
  BY <1>1, <1>2, <1>5, AllAccept
<1>8. /\ SameIxs(indexes, indexes')
       /\ \A i \in DOMAIN indexes : indexes'[i].entries =
            IF row[indexes[i].field] # Null
            THEN indexes[i].entries \cup {<<row[indexes[i].field], rid>>} ELSE indexes[i].entries
  BY <1>7 DEF FullyExtended, IxKeeps
<1>9. Covered(file', indexes', rid)
  <2>1. SUFFICES ASSUME NEW i \in DOMAIN indexes', row[indexes'[i].field] # Null
                 PROVE  <<row[indexes'[i].field], rid>> \in indexes'[i].entries
    BY <1>5 DEF Covered
  <2>2. i \in DOMAIN indexes /\ indexes'[i].field = indexes[i].field
    BY <1>8 DEF SameIxs
  <2>3. QED
    BY <1>8, <2>1, <2>2
<1>10. /\ DOMAIN ops' \subseteq DOMAIN ops \cup {rid} /\ DOMAIN ops \subseteq DOMAIN ops' /\ MapKeep(ops, ops', rid)
       /\ rid \in DOMAIN ops' => ops'[rid] = "INSERT" \/ (rid \in DOMAIN ops /\ ops' = ops /\ "stale_op" \in harm')
  <2>1. CASE ops' = ops /\ (r.rid \in DOMAIN ops => "stale_op" \in harm')
    <3>1. MapKeep(ops, ops, rid)
      BY SameMap
    <3>2. QED
      BY <1>2, <2>1, <3>1
  <2>2. CASE rid \notin DOMAIN ops /\ ops' = With(ops, rid, "INSERT")
    <3>1. Sets(ops, ops', rid, "INSERT")
      BY <2>2, WithMap
    <3>2. QED
      BY <3>1 DEF Sets
  <2>3. QED
    BY <1>2, <2>1, <2>2
<1>11. PICK id : id = row.id
  OBVIOUS
<1>12. /\ MapKeep(told, told', id) /\ DOMAIN told' = DOMAIN told \cup {id} /\ told'[id] = ValueOf(row, t)
  <2>1. Sets(told, told', id, ValueOf(row, t))
    BY <1>11, WithMap
  <2>2. QED
    BY <2>1 DEF Sets
<1>13. Base'
  <2>1. DOMAIN ops' \subseteq RID
    BY <1>1, <1>5, <1>10 DEF Base
  <2>2. \A q \in DOMAIN ops' : ops'[q] \in {"INSERT", "DELETE"}
    BY <1>1, <1>10 DEF Base, MapKeep
  <2>3. nextRow' \in 0 .. MaxRow
    BY <1>1, ValuesAssumption DEF Base
  <2>4. DOMAIN told' \subseteq 1 .. MaxRow
    BY <1>1, <1>4, <1>11, <1>12 DEF Base
  <2>5. QED
    BY <1>1, <1>6, <1>7, <2>1, <2>2, <2>3, <2>4 DEF Base
<1>14. \A S : Unhurt(S)' => Unhurt(S)
  BY StillUnhurt
<1>15. /\ Unhurt(ForOps)' => Unhurt(ForRows)'
       /\ Unhurt(ForEntries)' => Unhurt(ForRows)'
       /\ Unhurt(ForIndexes)' => Unhurt(ForRows)'
       /\ Unhurt(ForValues)' => Unhurt(ForOps)' /\ Unhurt(ForRows)'
  BY DEF Unhurt, ForRows, ForOps, ForEntries, ForIndexes, ForValues
<1>16. ASSUME Unhurt(ForRows)'
       PROVE  /\ TextsOk(file) /\ Keeps(file, file', rid) /\ rid \notin Scanned(file)
              /\ TextsOk(file') /\ Marked(file', ops')
              /\ ValueIn(file', rid) = ValueOf(row, t)
  <2>1. TextsOk(file) /\ Marked(file, ops) /\ Ahead(f, row, t) /\ TextsOk(f)
    BY <1>14, <1>16 DEF IInv, RowsInv, Ahead
  <2>2. rid \notin Scanned(file)
    BY <1>5, <1>16
  <2>3. /\ Keeps(f, file', rid)
        /\ \A p : Allocated(f, p) /\ f.pages[p].cap = 0 => file'.pages[p] = f.pages[p]
    BY <1>3, <2>1, AddsKeeps
  <2>4. Keeps(file, f, rid)
    BY <2>1, <2>2 DEF Ahead
  <2>5. Keeps(file, file', rid)
    BY <2>3, <2>4, KeepsTwice
  <2>6. row.txt # 0 => /\ Allocated(f, row.txt) /\ f.pages[row.txt].cap = 0
                       /\ \A q \in Scanned(f) : At(f, q).txt # row.txt
    BY <2>1 DEF Ahead
  <2>7. TextsOk(file')
    BY <1>3, <1>4, <2>1, <2>6, AddsTexts
  <2>8. Marked(file', ops')
    BY <1>5, <1>10, <2>1, <2>5, MarkedStep
  <2>9. TextIn(file', row) = t
    BY <2>1, <2>3, <2>6 DEF Ahead, TextIn
  <2>10. ValueIn(file', rid) = ValueOf(row, t)
    BY <1>5, <2>9 DEF ValueIn
  <2>11. QED
    BY <2>1, <2>2, <2>5, <2>7, <2>8, <2>10
<1>17. RowsInv'
  BY <1>16 DEF RowsInv
<1>18. OpsInv'
  <2>1. SUFFICES ASSUME Unhurt(ForOps)', NEW q \in DOMAIN ops' PROVE HeldIn(file', pc', q)
    BY DEF OpsInv
  <2>2. Adds(f, file', r.rid, row)
    BY <1>2, <1>3
  <2>3. CASE q = rid
    BY <1>1, <1>2, <2>2, <2>3, AddsHeld
  <2>4. CASE q # rid
    <3>1. q \in RID /\ HeldIn(file, "idle", q)
      BY <1>1, <1>10, <1>14, <2>1, <2>4 DEF IInv, OpsInv, Base
    <3>2. HeldIn(f, "idle", q)
      BY <1>15, <2>1, <3>1 DEF Ahead
    <3>3. QED
      BY <1>1, <2>2, <3>1, <3>2, AddsHeld
  <2>5. QED
    BY <2>3, <2>4
<1>19. EntriesInv'
  <2>1. SUFFICES ASSUME Unhurt(ForEntries)' PROVE CoversAll(file', indexes')
    BY DEF EntriesInv
  <2>2. Keeps(file, file', rid) /\ CoversAll(file, indexes)
    BY <1>14, <1>15, <1>16, <2>1 DEF IInv, EntriesInv
  <2>3. QED
    BY <1>7, <1>9, <2>2, CoversStep
<1>20. IndexesInv'
  <2>1. SUFFICES ASSUME Unhurt(ForIndexes)' PROVE NoneDangles(file', indexes')
    BY DEF IndexesInv
  <2>2. Keeps(file, file', rid) /\ NoneDangles(file, indexes) /\ rid \notin Scanned(file)
    BY <1>14, <1>15, <1>16, <2>1 DEF IInv, IndexesInv
  <2>3. ASSUME NEW i \in DOMAIN indexes', NEW e \in indexes'[i].entries, e[2] = rid
        PROVE  EntryOf(file', indexes'[i], e)
    <3>1. i \in DOMAIN indexes /\ indexes'[i].field = indexes[i].field
      BY <1>8 DEF SameIxs
    <3>2. e \notin indexes[i].entries
      BY <2>2, <2>3, <3>1 DEF NoneDangles, EntryOf
    <3>3. row[indexes[i].field] # Null /\ e = <<row[indexes[i].field], rid>>
      BY <1>8, <2>3, <3>1, <3>2
    <3>4. QED
      BY <1>5, <3>1, <3>3 DEF EntryOf
  <2>4. QED
    BY <1>7, <2>2, <2>3, DanglesStep
<1>21. ValuesInv'
  <2>1. SUFFICES ASSUME Unhurt(ForValues)' PROVE Told'
    BY DEF ValuesInv
  <2>2. /\ Keeps(file, file', rid) /\ TextsOk(file) /\ rid \notin Scanned(file) /\ Told
        /\ ValueIn(file', rid) = ValueOf(row, t)
    BY <1>14, <1>15, <1>16, <2>1 DEF IInv, ValuesInv
  <2>3. id = nextRow + 1
    BY <1>11
  <2>4. /\ IdAt(file, rid, id) /\ id \notin DOMAIN told
        /\ \A q \in Scanned(file) : At(file, q).id <= nextRow => At(file, q).id <= id
    BY <1>1, <2>2, <2>3, FreshId DEF Told
  <2>5. id <= nextRow'
    BY <1>1, <2>3
  <2>6. Ids(file', nextRow')
    BY <1>5, <1>11, <2>2, <2>3, <2>4, <2>5, IdsStep DEF Told
  <2>7. Shown(file', told') /\ Undoable(file', undo')
    <3>1. MapKeep(undo, undo', id)
      BY SameMap
    <3>2. Live(file', rid)
      BY <1>5 DEF Live
    <3>3. Shown(file', told')
      BY <1>5, <1>11, <1>12, <2>2, <2>4, <3>2, ShownStep DEF Told
    <3>4. QED
      BY <1>5, <2>2, <2>4, <3>1, <3>3, UndoStep DEF Told
  <2>8. OwnRows(file', indexes', ops')
    <3>1. ASSUME rid \in DOMAIN ops' PROVE OwnRow(file', indexes', ops', rid)
      <4>1. ops'[rid] = "INSERT"
        BY <1>10, <2>1, <3>1 DEF Unhurt, ForValues
      <4>2. QED
        BY <1>9, <4>1 DEF OwnRow
    <3>2. DOMAIN ops \subseteq RID
      BY <1>1 DEF Base
    <3>3. QED
      BY <1>7, <1>10, <2>2, <3>1, <3>2, OwnStep DEF Told
  <2>9. QED
    BY <2>6, <2>7, <2>8 DEF Told
<1>22. QED
  BY <1>13, <1>17, <1>18, <1>19, <1>20, <1>21 DEF IInv

\* A new row
LEMMA NewRowOk ==
  ASSUME Base, nextRow < MaxRow, NEW a \in AValues, NEW b \in BValues \cup {Null}, NEW txt \in 0 .. MaxPage,
         NEW row, row = NewRow(a, b, txt)
  PROVE  row \in RowType /\ ~row.del /\ row.id = nextRow + 1 /\ row.txt = txt
<1>1. nextRow + 1 \in 1 .. MaxRow
  BY ValuesAssumption DEF Base
<1>2. QED
  BY <1>1 DEF NewRow, RowType

LEMMA SameIndexes ==
  ASSUME NEW rid
  PROVE  IxKeeps(indexes, indexes, rid)
BY DEF IxKeeps, SameIxs

\* The outcomes of an insertion: its operation is refused; all indexes take the
\* row; an index refuses it; an index fails.
InsertOutcome(r, row, t, logged, file1, ixs1, ops1, told1, harm1) ==
  \/ /\ logged /\ r.rid \in DOMAIN ops
     /\ file1 = DeleteRecord(r.file, r.rid) /\ ixs1 = indexes /\ ops1 = ops /\ told1 = told /\ harm1 = harm
  \/ /\ ~(logged /\ r.rid \in DOMAIN ops)
     /\ \E broken \in 0 .. Len(indexes) : \E n :
          /\ n = Accepting(indexes, row, r.rid, broken)
          /\ ops1 = IF logged THEN With(ops, r.rid, "INSERT") ELSE ops
          /\ \/ /\ n = Len(indexes) /\ file1 = r.file
                /\ ixs1 = WithEntries(indexes, row, r.rid, n)
                /\ told1 = With(told, row.id, ValueOf(row, t))
                /\ harm1 = harm \cup (IF ~logged /\ r.rid \in DOMAIN ops THEN {"stale_op"} ELSE {})
             \/ /\ file1 = DeleteRecord(r.file, r.rid)
                /\ ixs1 = WithEntries(indexes, row, r.rid, n)
                /\ harm1 = harm \cup (IF n > 0 THEN {"refused_insert"} ELSE {})
                /\ told1 = told
             \/ /\ file1 = DeleteRecord(r.file, r.rid)
                /\ ixs1 = WithoutEntries(WithEntries(indexes, row, r.rid, n), row, r.rid,
                                         Removable(WithEntries(indexes, row, r.rid, n), row, r.rid, TRUE))
                /\ told1 = told /\ harm1 = harm

LEMMA InsertStep ==
  ASSUME IInv, NEW a \in AValues, NEW b \in BValues \cup {Null}, NEW logged \in BOOLEAN, Insert(a, b, logged)
  PROVE  IInv'
<1>1. Base /\ FileOk(file) /\ file \in Files /\ IxOk(indexes)
  BY DEF IInv, Base, FileOk
<1>2. PICK row : row = NewRow(a, b, 0)
  OBVIOUS
<1>3. PICK r : r = InsertRecord(file, row)
  OBVIOUS
<1>4. PICK rid : rid = r.rid
  OBVIOUS
<1>5. /\ Ready /\ nextRow < MaxRow /\ nextRow' = nextRow + 1 /\ CanInsert(file)
      /\ Insertion(file, row, NoText, logged) /\ UNCHANGED <<multi, undo>>
  BY <1>2 DEF Insert
<1>6. row \in RowType /\ ~row.del /\ row.id = nextRow + 1 /\ row.txt = 0
  BY <1>1, <1>2, <1>5, NewRowOk, MaxPageAssumption
<1>7. After("commit") \/ After("rollback")
  BY <1>5 DEF Insertion
<1>8. pc = "idle" /\ pc' \in Outcomes /\ (pc' # "idle" => ~multi) /\ (pc' = "idle" => multi)
  BY <1>1, <1>5, <1>7, AfterOk
<1>9. InsertOutcome(r, row, NoText, logged, file', indexes', ops', told', harm')
  BY <1>3, <1>5 DEF Insertion, InsertOutcome
<1>10. Adds(file, r.file, rid, row) /\ rid \in RID
  <2>1. Adds(file, r.file, rid, row)
    BY <1>1, <1>3, <1>4, <1>5, <1>6, InsertLemma
  <2>2. QED
    BY <2>1 DEF Adds
<1>11. ASSUME file' = DeleteRecord(r.file, rid) PROVE Adds(file, file', r.rid, NoRow)
  BY <1>1, <1>4, <1>6, <1>10, <1>11, Refusal
<1>12. CASE /\ file' = DeleteRecord(r.file, rid) /\ indexes' = indexes /\ ops' = ops /\ told' = told
            /\ harm' = harm
  <2>1. Adds(file, file', r.rid, NoRow)
    BY <1>11, <1>12
  <2>2. IxOk(indexes') /\ IxKeeps(indexes, indexes', r.rid)
    BY <1>1, <1>12, SameIndexes
  <2>3. /\ UNCHANGED <<told, undo, multi>> /\ ops' = ops /\ harm \subseteq harm'
        /\ \A i \in DOMAIN indexes : indexes'[i].entries \subseteq indexes[i].entries
    BY <1>5, <1>12
  <2>4. QED
    BY <1>3, <1>5, <1>8, <2>1, <2>2, <2>3, RefuseStep
<1>13. ASSUME NEW broken, NEW n, n = Accepting(indexes, row, rid, broken),
              ~(logged /\ rid \in DOMAIN ops),
              ops' = IF logged THEN With(ops, rid, "INSERT") ELSE ops,
              \/ /\ n = Len(indexes) /\ file' = r.file
                 /\ indexes' = WithEntries(indexes, row, rid, n)
                 /\ told' = With(told, row.id, ValueOf(row, NoText))
                 /\ harm' = harm \cup (IF ~logged /\ rid \in DOMAIN ops THEN {"stale_op"} ELSE {})
              \/ /\ file' = DeleteRecord(r.file, rid)
                 /\ indexes' = WithEntries(indexes, row, rid, n)
                 /\ harm' = harm \cup (IF n > 0 THEN {"refused_insert"} ELSE {})
                 /\ told' = told
              \/ /\ file' = DeleteRecord(r.file, rid)
                 /\ indexes' = WithoutEntries(WithEntries(indexes, row, rid, n), row, rid,
                                     Removable(WithEntries(indexes, row, rid, n), row, rid, TRUE))
                 /\ told' = told /\ harm' = harm
       PROVE  IInv'
  <2>1. \/ rid \notin DOMAIN ops /\ ops' = With(ops, rid, "INSERT")
        \/ ~logged /\ ops' = ops
    BY <1>13
  <2>2. CASE /\ n = Len(indexes) /\ file' = r.file
             /\ indexes' = WithEntries(indexes, row, rid, n)
             /\ told' = With(told, row.id, ValueOf(row, NoText))
             /\ harm' = harm \cup (IF ~logged /\ rid \in DOMAIN ops THEN {"stale_op"} ELSE {})
    <3>1. Unhurt(ForRows)' => Ahead(file, row, NoText)
      <4>1. SUFFICES ASSUME Unhurt(ForRows)' PROVE TextsOk(file)
        BY <1>6 DEF Ahead, Keeps
      <4>2. QED
        BY <2>2, <4>1, StillUnhurt DEF IInv, RowsInv
    <3>2. \/ r.rid \notin DOMAIN ops /\ ops' = With(ops, r.rid, "INSERT")
          \/ ops' = ops /\ (r.rid \in DOMAIN ops => "stale_op" \in harm')
      BY <1>4, <2>1, <2>2
    <3>3. /\ Accepting(indexes, row, r.rid, broken) = Len(indexes) /\ harm \subseteq harm'
          /\ indexes' = WithEntries(indexes, row, r.rid, Len(indexes))
      BY <1>4, <1>13, <2>2
    <3>4. UNCHANGED <<undo, multi>>
      BY <1>5
    <3>5. QED
      BY <1>1, <1>3, <1>5, <1>6, <1>8, <2>2, <3>1, <3>2, <3>3, <3>4, AcceptStep
  <2>3. ASSUME file' = DeleteRecord(r.file, rid), told' = told, harm \subseteq harm',
               IxOk(indexes'), IxKeeps(indexes, indexes', rid),
               Unhurt(ForIndexes)' => \A i \in DOMAIN indexes : indexes'[i].entries \subseteq indexes[i].entries
        PROVE  IInv'
    <3>1. Adds(file, file', r.rid, NoRow)
      BY <1>11, <2>3
    <3>2. ops' = ops \/ (r.rid \notin DOMAIN ops /\ ops' = With(ops, r.rid, "INSERT"))
      BY <1>4, <2>1
    <3>3. UNCHANGED <<told, undo, multi>> /\ IxKeeps(indexes, indexes', r.rid)
      BY <1>4, <1>5, <2>3
    <3>4. QED
      BY <1>3, <1>5, <1>8, <2>3, <3>1, <3>2, <3>3, RefuseStep
  <2>4. CASE /\ file' = DeleteRecord(r.file, rid)
             /\ indexes' = WithEntries(indexes, row, rid, n)
             /\ harm' = harm \cup (IF n > 0 THEN {"refused_insert"} ELSE {})
             /\ told' = told
    <3>1. /\ IxOk(indexes') /\ IxKeeps(indexes, indexes', rid) /\ n \in 0 .. Len(indexes)
          /\ n = 0 => \A i \in DOMAIN indexes : indexes'[i].entries = indexes[i].entries
      BY <1>1, <1>6, <1>10, <1>13, <2>4, SomeAccept
    <3>2. ASSUME Unhurt(ForIndexes)', NEW i \in DOMAIN indexes
          PROVE  indexes'[i].entries \subseteq indexes[i].entries
      <4>1. ~(n > 0)
        BY <2>4, <3>2 DEF Unhurt, ForIndexes
      <4>2. n = 0
        BY <3>1, <4>1
      <4>3. QED
        BY <3>1, <4>2
    <3>3. harm \subseteq harm'
      BY <2>4
    <3>4. QED
      BY <2>3, <2>4, <3>1, <3>2, <3>3
  <2>5. CASE /\ file' = DeleteRecord(r.file, rid)
             /\ indexes' = WithoutEntries(WithEntries(indexes, row, rid, n), row, rid,
                                 Removable(WithEntries(indexes, row, rid, n), row, rid, TRUE))
             /\ told' = told /\ harm' = harm
    <3>1. /\ IxOk(indexes') /\ IxKeeps(indexes, indexes', rid)
          /\ \A i \in DOMAIN indexes : indexes'[i].entries \subseteq indexes[i].entries
      BY <1>1, <1>6, <1>10, <1>13, <2>5, TakenBack
    <3>2. QED
      BY <2>3, <2>5, <3>1
  <2>6. QED
    BY <1>13, <2>2, <2>4, <2>5
<1>14. QED
  BY <1>4, <1>9, <1>12, <1>13 DEF InsertOutcome

\* The page that a text gets: a page of zeros, or a page of rows that was
\* disposed of.
LEMMA TextPagesOk ==
  ASSUME NEW f, FileOk(f), CanAllocate(f), NEW t \in Texts, NEW p, p = NextPage(f),
         NEW page \in TextPages(f, p, t)
  PROVE  /\ page \in Pages /\ page.alloc
         /\ \/ page.cap = 0 /\ page.text = t /\ \A s \in SlotNum : page.rows[s] = NoRow
            \/ page.cap = Capacity
<1>1. f \in Files
  BY DEF FileOk
<1>2. p \in PageNum /\ (p < f.count => ~f.pages[p].alloc)
  <2>1. PICK x : x = ZeroPage
    OBVIOUS
  <2>2. x \in Pages /\ x.alloc
    BY <2>1, NewPages
  <2>3. PICK g : g = WithPage(f, p, x)
    OBVIOUS
  <2>4. Puts(f, g, p, x) /\ (p < f.count => ~f.pages[p].alloc)
    BY <1>1, <2>2, <2>3, PutNew
  <2>5. QED
    BY <2>4 DEF Puts
<1>3. /\ f.pages[p] \in Pages /\ f.pages[p].rows \in [SlotNum -> Cells] /\ t \in Texts \cup {NoText}
      /\ ZeroPage \in Pages /\ ZeroPage.alloc /\ ZeroPage.cap = 0 /\ \A s \in SlotNum : ZeroPage.rows[s] = NoRow
  BY <1>1, <1>2, FileParts, NewPages
<1>4. CASE page = [ZeroPage EXCEPT !.text = t]
  BY <1>3, <1>4 DEF Pages
<1>5. CASE p < f.count /\ page = [f.pages[p] EXCEPT !.alloc = TRUE, !.text = t,
                 !.rows = [s \in SlotNum |-> IF @[s] = NoRow THEN NoRow ELSE Garbage]]
  <2>1. PICK rows : rows = [s \in SlotNum |-> IF f.pages[p].rows[s] = NoRow THEN NoRow ELSE Garbage]
    OBVIOUS
  <2>2. rows \in [SlotNum -> Cells]
    BY <2>1 DEF Cells
  <2>3. page = [f.pages[p] EXCEPT !.alloc = TRUE, !.text = t, !.rows = rows]
    BY <1>3, <1>5, <2>1 DEF Pages
  <2>4. page \in Pages /\ page.cap = f.pages[p].cap
    BY <1>3, <2>2, <2>3 DEF Pages
  <2>5. page.alloc
    BY <1>3, <2>3 DEF Pages
  <2>6. f.pages[p].cap = Capacity
    BY <1>2, <1>5 DEF FileOk
  <2>7. QED
    BY <2>4, <2>5, <2>6
<1>6. QED
  BY <1>4, <1>5 DEF TextPages

LEMMA InsertTextRowStep ==
  ASSUME IInv, NEW a \in AValues, NEW b \in BValues \cup {Null}, NEW t \in Texts, InsertTextRow(a, b, t)
  PROVE  IInv'
<1>1. Base /\ FileOk(file) /\ file \in Files /\ IxOk(indexes)
  BY DEF IInv, Base, FileOk
<1>2. PICK p : p = NextPage(file)
  OBVIOUS
<1>3. PICK page \in TextPages(file, p, t) :
        LET f == WithPage(file, p, page)
            row == NewRow(a, b, p)
            r == InsertRecord(f, row)
        IN
        /\ CanInsert(f)
        /\ r.rid \notin DOMAIN ops
        /\ Accepting(indexes, row, r.rid, 0) = Len(indexes)
        /\ file' = r.file
        /\ ops' = With(ops, r.rid, "INSERT")
        /\ indexes' = WithEntries(indexes, row, r.rid, Len(indexes))
        /\ told' = With(told, row.id, ValueOf(row, t))
        /\ harm' = harm \cup (IF page.cap > 0 THEN {"text_reuse"} ELSE {})
  BY <1>2 DEF InsertTextRow
<1>4. PICK f : f = WithPage(file, p, page)
  OBVIOUS
<1>5. PICK row : row = NewRow(a, b, p)
  OBVIOUS
<1>6. PICK r : r = InsertRecord(f, row)
  OBVIOUS
<1>7. /\ CanInsert(f) /\ r.rid \notin DOMAIN ops
      /\ Accepting(indexes, row, r.rid, 0) = Len(indexes) /\ file' = r.file
      /\ ops' = With(ops, r.rid, "INSERT") /\ indexes' = WithEntries(indexes, row, r.rid, Len(indexes))
      /\ told' = With(told, row.id, ValueOf(row, t))
      /\ harm' = harm \cup (IF page.cap > 0 THEN {"text_reuse"} ELSE {})
  BY <1>3, <1>4, <1>5, <1>6
<1>8. /\ Ready /\ nextRow < MaxRow /\ nextRow' = nextRow + 1 /\ CanAllocate(file) /\ After("commit")
      /\ UNCHANGED <<multi, undo>>
  BY DEF InsertTextRow
<1>9. pc = "idle" /\ pc' \in Outcomes /\ (pc' # "idle" => ~multi) /\ (pc' = "idle" => multi)
  BY <1>1, <1>8, AfterOk
<1>10. /\ page \in Pages /\ page.alloc
       /\ \/ page.cap = 0 /\ page.text = t /\ \A s \in SlotNum : page.rows[s] = NoRow
          \/ page.cap = Capacity
  BY <1>1, <1>2, <1>8, TextPagesOk
<1>11. Puts(file, f, p, page) /\ ~Allocated(file, p)
  BY <1>1, <1>2, <1>4, <1>8, <1>10, PutNew
<1>12. p \in PageNum /\ Allocated(f, p) /\ f.pages[p] = page /\ p # 0 /\ p \in 0 .. MaxPage
  <2>1. p \in PageNum /\ Allocated(f, p) /\ f.pages[p] = page
    BY <1>11 DEF Puts
  <2>2. QED
    BY <2>1, MaxPageAssumption DEF PageNum
<1>13. FileOk(f)
  BY <1>1, <1>11, PutsOk
<1>14. row \in RowType /\ ~row.del /\ row.id = nextRow + 1 /\ row.txt = p
  BY <1>1, <1>5, <1>8, <1>12, NewRowOk
<1>15. ASSUME Unhurt(ForRows)' PROVE Ahead(f, row, t) /\ Scanned(f) = Scanned(file)
  <2>1. page.cap = 0 /\ page.text = t /\ \A s \in SlotNum : page.rows[s] = NoRow
    BY <1>7, <1>10, <1>15, CapacityAssumption DEF Unhurt, ForRows
  <2>2. TextsOk(file)
    BY <1>7, <1>15, StillUnhurt DEF IInv, RowsInv
  <2>3. /\ Scanned(f) = Scanned(file)
        /\ \A q \in Scanned(file) : At(f, q) = At(file, q)
    BY <1>1, <1>11, <2>1, PutsScanned
  <2>4. TextsOk(f)
    BY <1>1, <1>11, <2>1, <2>2, PutsTexts
  <2>5. \A q \in Scanned(file) : At(file, q).txt # p
    BY <1>11, <1>12, <2>2 DEF TextsOk
  <2>6. \A rid : Keeps(file, f, rid)
    BY <1>1, <1>11, <2>1, <2>2, <2>5, PutsKeeps
  <2>7. \A q \in RID : HeldIn(file, "idle", q) => HeldIn(f, "idle", q)
    BY <1>1, <1>11, PutsHeld
  <2>8. \A q \in Scanned(f) : At(f, q).txt # p
    BY <2>3, <2>5
  <2>9. QED
    BY <1>12, <1>14, <2>1, <2>3, <2>4, <2>6, <2>7, <2>8 DEF Ahead
<1>16. harm \subseteq harm'
  BY <1>7
<1>17. Scanned(f) = Scanned(file) \/ ~Unhurt(ForRows)'
  BY <1>15
<1>18. QED
  BY <1>6, <1>7, <1>8, <1>9, <1>13, <1>14, <1>15, <1>16, <1>17, AcceptStep
-----------------------------------------------------------------------------
(* UPDATE *)

\* What rewriting a text leaves of the file: f is the file, or the file with
\* another text for the row at rid.
Beside(f, rid) ==
  /\ TextsOk(f) /\ Scanned(f) = Scanned(file) /\ Keeps(file, f, rid) /\ At(f, rid) = At(file, rid)
  /\ \A q \in RID : HeldIn(file, "idle", q) => HeldIn(f, "idle", q)

LEMMA SomeHeld ==
  ASSUME NEW f, NEW now, NEW then, then = "idle" => now = "idle", NEW rid, HeldIn(f, now, rid)
  PROVE  HeldIn(f, then, rid)
BY DEF HeldIn

LEMMA UpdatedStep ==
  ASSUME IInv, pc = "idle", NEW rid \in LiveRids, NEW old, old = RowAt(rid),
         NEW row \in RowType, row.id = old.id, row.txt = old.txt, ~row.del,
         NEW f, FileOk(f), Unhurt(ForRows) => Beside(f, rid),
         NEW told1, DOMAIN told1 = DOMAIN told, NEW hurt, Updated(rid, row, f, told1, hurt),
         (Unhurt(ForValues)' /\ old.id \in DOMAIN told /\ told[old.id] = ValueIn(file, rid))
           => MapKeep(told, told1, old.id) /\ told1[old.id] = ValueOf(row, TextIn(f, row)),
         UNCHANGED <<ops, multi, nextRow, undo>>,
         pc' \in Outcomes, pc' # "idle" => ~multi, pc' = "idle" => multi
  PROVE  IInv'
<1>1. Base /\ FileOk(file) /\ file \in Files /\ f \in Files /\ IxOk(indexes)
  BY DEF IInv, Base, FileOk
<1>2. /\ rid \in Scanned(file) /\ rid \in RID /\ old = At(file, rid) /\ old \in RowType /\ ~old.del
  BY <1>1, Views
<1>3. PICK k : k = Removed(indexes, old, rid)
  OBVIOUS
<1>4. PICK less : less = WithoutEntries(indexes, old, rid, k)
  OBVIOUS
<1>5. PICK n : n = Accepting(less, row, rid, 0)
  OBVIOUS
<1>6. /\ told' = told1
      /\ IF k < Len(indexes)
         THEN indexes' = less /\ file' = file /\ harm' = harm \cup {"refused_update"}
         ELSE /\ file' = UpdateRecord(f, rid, row)
              /\ indexes' = WithEntries(less, row, rid, n)
              /\ harm' = harm \cup hurt \cup (IF n < Len(indexes) THEN {"refused_update"} ELSE {})
  BY <1>3, <1>4, <1>5 DEF Updated, Removed
<1>7. harm \subseteq harm'
  BY <1>6
<1>8. \A S : Unhurt(S)' => Unhurt(S)
  BY <1>7, StillUnhurt
<1>9. IxOk(less) /\ IxKeeps(indexes, less, rid) /\ k \in 0 .. Len(indexes)
  BY <1>1, <1>3, <1>4, SomeGiveUp
<1>10. CASE k < Len(indexes)
  <2>1. indexes' = less /\ file' = file /\ "refused_update" \in harm'
    BY <1>6, <1>10
  <2>2. Base'
    BY <1>1, <1>6, <1>9, <2>1 DEF Base
  <2>3. RowsInv'
    BY <1>8, <2>1 DEF IInv, RowsInv
  <2>4. OpsInv'
    <3>1. SUFFICES ASSUME Unhurt(ForOps), NEW q \in DOMAIN ops PROVE HeldIn(file, pc', q)
      BY <1>8, <2>1 DEF OpsInv
    <3>2. HeldIn(file, pc, q)
      BY <3>1 DEF IInv, OpsInv
    <3>3. QED
      BY <3>2, SomeHeld
  <2>5. ~Unhurt(ForEntries)' /\ ~Unhurt(ForIndexes)' /\ ~Unhurt(ForValues)'
    BY <2>1 DEF Unhurt, ForEntries, ForIndexes, ForValues
  <2>6. QED
    BY <2>2, <2>3, <2>4, <2>5 DEF IInv, EntriesInv, IndexesInv, ValuesInv
<1>11. CASE ~(k < Len(indexes))
  <2>1. k = Len(indexes)
    <3>1. PICK len \in Nat : len = Len(indexes)
      BY <1>1, IxParts
    <3>2. k \in 0 .. len /\ ~(k < len)
      BY <1>9, <1>11, <3>1
    <3>3. k = len
      BY <3>2
    <3>4. QED
      BY <3>1, <3>3
  <2>2. /\ file' = UpdateRecord(f, rid, row) /\ indexes' = WithEntries(less, row, rid, n)
        /\ n < Len(indexes) => "refused_update" \in harm'
    BY <1>6, <1>11
  <2>3. /\ IxOk(indexes') /\ IxKeeps(indexes, indexes', rid) /\ n \in 0 .. Len(indexes)
        /\ n = Len(indexes) => \A i \in DOMAIN indexes : row[indexes[i].field] # Null =>
                                 <<row[indexes[i].field], rid>> \in indexes'[i].entries
        /\ n = Len(indexes) => \A i \in DOMAIN indexes : \A e \in indexes'[i].entries :
             \/ row[indexes[i].field] # Null /\ e = <<row[indexes[i].field], rid>>
             \/ e \in indexes[i].entries /\ e # <<old[indexes[i].field], rid>>
    BY <1>1, <1>2, <1>4, <1>5, <2>1, <2>2, Replaced
  <2>4. ASSUME rid \in Scanned(f) PROVE Writes(f, file', rid, row)
    <3>1. Found(f, rid)
      BY <1>1, <1>2, <2>4, ScannedIs
    <3>2. file' = PutRow(f, rid[1], rid[2], row)
      BY <2>2, <3>1 DEF UpdateRecord, PutRow
    <3>3. QED
      BY <1>1, <2>4, <3>2, WriteLemma
  <2>5. FileOk(file')
    <3>1. CASE rid \in Scanned(f)
      BY <2>4, <3>1, WritesOk
    <3>2. CASE rid \notin Scanned(f)
      <4>1. ~Found(f, rid)
        BY <1>1, <1>2, <3>2, ScannedIs
      <4>2. QED
        BY <2>2, <4>1 DEF UpdateRecord
    <3>3. QED
      BY <3>1, <3>2
  <2>6. Base'
    BY <1>1, <1>6, <2>3, <2>5 DEF Base
  <2>7. n < Len(indexes) \/ n = Len(indexes)
    <3>1. PICK len \in Nat : len = Len(indexes)
      BY <1>1, IxParts
    <3>2. n \in 0 .. len
      BY <2>3, <3>1
    <3>3. n < len \/ n = len
      BY <3>2
    <3>4. QED
      BY <3>1, <3>3
  <2>8. /\ Unhurt(ForEntries)' => n = Len(indexes)
        /\ Unhurt(ForIndexes)' => n = Len(indexes)
        /\ Unhurt(ForValues)' => n = Len(indexes)
    BY <2>2, <2>7 DEF Unhurt, ForEntries, ForIndexes, ForValues
  <2>9. ASSUME Unhurt(ForRows)
        PROVE  /\ TextsOk(file') /\ Marked(file', ops') /\ Keeps(file, file', rid)
               /\ Writes(f, file', rid, row) /\ Beside(f, rid)
               /\ rid \in Scanned(file') /\ At(file', rid) = row
               /\ ValueIn(file', rid) = ValueOf(row, TextIn(f, row))
    <3>1. Beside(f, rid) /\ TextsOk(f) /\ Keeps(file, f, rid) /\ rid \in Scanned(f) /\ At(f, rid) = old
      BY <1>2, <2>9 DEF Beside
    <3>2. Writes(f, file', rid, row) /\ At(file', rid) = row
      BY <2>4, <3>1 DEF Writes
    <3>3. TextsOk(file')
      BY <3>1, <3>2, WritesTexts
    <3>4. Keeps(f, file', rid) /\ \A p \in PageNum : file'.pages[p].text = f.pages[p].text
      BY <1>1, <3>1, <3>2, WritesKeeps
    <3>5. Keeps(file, file', rid)
      BY <3>1, <3>4, KeepsTwice
    <3>6. rid \in Scanned(file')
      BY <1>1, <3>1, <3>2, WritesScanned
    <3>7. Marked(file', ops')
      <4>1. Marked(file, ops) /\ MapKeep(ops, ops', rid)
        BY <2>9, SameMap DEF IInv, RowsInv
      <4>2. QED
        BY <3>2, <3>5, <4>1, MarkedStep
    <3>8. TextIn(file', row) = TextIn(f, row)
      <4>1. row.txt # 0 => row.txt \in PageNum
        BY <3>1 DEF TextsOk, Allocated
      <4>2. QED
        BY <3>4, <4>1 DEF TextIn
    <3>9. QED
      BY <3>1, <3>2, <3>3, <3>5, <3>6, <3>7, <3>8 DEF ValueIn
  <2>10. RowsInv'
    BY <1>8, <2>9 DEF RowsInv
  <2>11. OpsInv'
    <3>1. SUFFICES ASSUME Unhurt(ForOps), NEW q \in DOMAIN ops PROVE HeldIn(file', pc', q)
      BY <1>8 DEF OpsInv
    <3>2. q \in RID /\ HeldIn(file, "idle", q)
      BY <1>1, <3>1 DEF IInv, OpsInv, Base
    <3>3. Writes(f, file', rid, row) /\ HeldIn(f, "idle", q)
      BY <2>9, <3>1, <3>2, UnhurtToo DEF Beside
    <3>4. QED
      BY <1>1, <3>2, <3>3, WritesHeld
  <2>12. ASSUME Unhurt(ForRows), n = Len(indexes) PROVE Covered(file', indexes', rid)
    <3>1. SUFFICES ASSUME NEW i \in DOMAIN indexes', row[indexes'[i].field] # Null
                   PROVE  <<row[indexes'[i].field], rid>> \in indexes'[i].entries
      BY <2>9, <2>12 DEF Covered
    <3>2. i \in DOMAIN indexes /\ indexes'[i].field = indexes[i].field
      BY <2>3 DEF SameIxs, IxKeeps
    <3>3. QED
      BY <2>3, <2>12, <3>1, <3>2
  <2>13. EntriesInv'
    <3>1. SUFFICES ASSUME Unhurt(ForEntries)' PROVE CoversAll(file', indexes')
      BY DEF EntriesInv
    <3>2. CoversAll(file, indexes) /\ Keeps(file, file', rid) /\ Covered(file', indexes', rid)
      BY <1>8, <2>8, <2>9, <2>12, <3>1, UnhurtToo DEF IInv, EntriesInv
    <3>3. QED
      BY <2>3, <3>2, CoversStep
  <2>14. IndexesInv'
    <3>1. SUFFICES ASSUME Unhurt(ForIndexes)' PROVE NoneDangles(file', indexes')
      BY DEF IndexesInv
    <3>2. /\ NoneDangles(file, indexes) /\ Keeps(file, file', rid) /\ n = Len(indexes)
          /\ rid \in Scanned(file') /\ At(file', rid) = row
      BY <1>8, <2>8, <2>9, <3>1, UnhurtToo DEF IInv, IndexesInv
    <3>3. ASSUME NEW i \in DOMAIN indexes', NEW e \in indexes'[i].entries, e[2] = rid
          PROVE  EntryOf(file', indexes'[i], e)
      <4>1. i \in DOMAIN indexes /\ indexes'[i].field = indexes[i].field
        BY <2>3 DEF SameIxs, IxKeeps
      <4>2. ASSUME e \in indexes[i].entries, e # <<old[indexes[i].field], rid>> PROVE FALSE
        <5>1. At(file, rid)[indexes[i].field] = e[1]
          BY <3>2, <3>3, <4>1, <4>2 DEF NoneDangles, EntryOf
        <5>2. e \in ValuesOf(indexes[i].field) \X RID
          BY <1>1, <4>1, <4>2 DEF IxOk
        <5>3. e = <<e[1], e[2]>>
          BY <5>2
        <5>4. QED
          BY <1>2, <3>3, <4>2, <5>1, <5>3
      <4>3. row[indexes[i].field] # Null /\ e = <<row[indexes[i].field], rid>>
        BY <2>3, <3>2, <3>3, <4>1, <4>2
      <4>4. QED
        BY <3>2, <4>1, <4>3 DEF EntryOf
    <3>4. QED
      BY <2>3, <3>2, <3>3, DanglesStep
  <2>15. ValuesInv'
    <3>1. SUFFICES ASSUME Unhurt(ForValues)' PROVE Told'
      BY DEF ValuesInv
    <3>2. /\ Told /\ Keeps(file, file', rid) /\ n = Len(indexes)
          /\ rid \in Scanned(file') /\ At(file', rid) = row /\ Covered(file', indexes', rid)
          /\ ValueIn(file', rid) = ValueOf(row, TextIn(f, row))
      BY <1>8, <2>8, <2>9, <2>12, <3>1, UnhurtToo DEF IInv, ValuesInv
    <3>3. PICK id : id = old.id
      OBVIOUS
    <3>4. Live(file, rid) /\ Live(file', rid)
      BY <1>2, <3>2 DEF Live
    <3>5. IdAt(file, rid, id) /\ id <= nextRow
      BY <1>2, <3>2, <3>3 DEF IdAt, Told, Ids
    <3>6. id \in DOMAIN told /\ told[id] = ValueIn(file, rid)
      BY <1>2, <3>2, <3>3, <3>4 DEF Told, Shown
    <3>7. MapKeep(told, told', id) /\ id \in DOMAIN told' /\ told'[id] = ValueIn(file', rid)
      BY <1>6, <3>1, <3>2, <3>3, <3>6
    <3>8. Ids(file', nextRow')
      BY <3>2, <3>3, <3>5, IdsStep DEF Told
    <3>9. Shown(file', told')
      BY <1>2, <3>2, <3>3, <3>4, <3>5, <3>7, ShownStep DEF Told
    <3>10. Undoable(file', undo')
      <4>1. MapKeep(undo, undo', id)
        BY SameMap
      <4>2. QED
        BY <3>2, <3>5, <4>1, UndoStep DEF Told
    <3>11. OwnRows(file', indexes', ops')
      <4>1. ASSUME rid \in DOMAIN ops PROVE OwnRow(file', indexes', ops', rid)
        <5>1. ops[rid] = "INSERT"
          BY <1>2, <3>2, <4>1 DEF Told, OwnRows, OwnRow
        <5>2. QED
          BY <3>2, <5>1 DEF OwnRow
      <4>2. MapKeep(ops, ops', rid) /\ DOMAIN ops \subseteq RID
        BY <1>1, SameMap DEF Base
      <4>3. QED
        BY <2>3, <3>2, <4>1, <4>2, OwnStep DEF Told
    <3>12. QED
      BY <3>8, <3>9, <3>10, <3>11 DEF Told
  <2>16. QED
    BY <2>6, <2>10, <2>11, <2>13, <2>14, <2>15 DEF IInv
<1>12. QED
  BY <1>10, <1>11

LEMMA UpdateStep ==
  ASSUME IInv, NEW rid, NEW field \in Fields, NEW v \in ValuesOf(field), Update(rid, field, v)
  PROVE  IInv'
<1>1. Base /\ FileOk(file)
  BY DEF IInv, Base
<1>2. PICK old : old = RowAt(rid)
  OBVIOUS
<1>3. PICK row : row = IF old[field] = Null THEN old ELSE [old EXCEPT ![field] = v]
  OBVIOUS
<1>4. PICK told1 : told1 = IF old.id \in DOMAIN told THEN [told EXCEPT ![old.id][field] = v] ELSE told
  OBVIOUS
<1>5. PICK hurt : hurt = IF old[field] = Null THEN {"null_update"} ELSE {}
  OBVIOUS
<1>6. /\ Ready /\ rid \in LiveRids /\ Updated(rid, row, file, told1, hurt) /\ After("commit")
      /\ UNCHANGED <<ops, multi, nextRow, undo>>
  BY <1>2, <1>3, <1>4, <1>5 DEF Update, trx
<1>7. pc = "idle" /\ pc' \in Outcomes /\ (pc' # "idle" => ~multi) /\ (pc' = "idle" => multi)
  BY <1>1, <1>6, AfterOk
<1>8. old = At(file, rid) /\ old \in RowType /\ ~old.del
  BY <1>1, <1>2, <1>6, Views
<1>9. field = "a" \/ field = "b"
  BY DEF Fields
<1>10. row \in RowType /\ row.id = old.id /\ row.txt = old.txt /\ ~row.del
  <2>1. CASE old[field] = Null
    BY <1>3, <1>8, <2>1
  <2>2. CASE old[field] # Null /\ field = "a"
    <3>1. row = [old EXCEPT !.a = v] /\ v \in AValues
      BY <1>3, <2>2 DEF ValuesOf
    <3>2. row \in RowType
      BY <1>8, <3>1 DEF RowType
    <3>3. row.id = old.id /\ row.txt = old.txt /\ row.del = old.del
      BY <1>8, <3>1 DEF RowType
    <3>4. QED
      BY <1>8, <3>2, <3>3
  <2>3. CASE old[field] # Null /\ field = "b"
    <3>1. row = [old EXCEPT !.b = v] /\ v \in BValues \cup {Null}
      BY <1>3, <2>3 DEF ValuesOf
    <3>2. row \in RowType
      BY <1>8, <3>1 DEF RowType
    <3>3. row.id = old.id /\ row.txt = old.txt /\ row.del = old.del
      BY <1>8, <3>1 DEF RowType
    <3>4. QED
      BY <1>8, <3>2, <3>3
  <2>4. QED
    BY <1>9, <2>1, <2>2, <2>3
<1>11. Unhurt(ForRows) => Beside(file, rid)
  BY DEF IInv, RowsInv, Beside, Keeps
<1>12. DOMAIN told1 = DOMAIN told
  BY <1>4
<1>13. ASSUME Unhurt(ForValues)', old.id \in DOMAIN told, told[old.id] = ValueIn(file, rid)
       PROVE  MapKeep(told, told1, old.id) /\ told1[old.id] = ValueOf(row, TextIn(file, row))
  <2>1. old[field] # Null
    <3>1. SUFFICES ASSUME old[field] = Null PROVE FALSE
      OBVIOUS
    <3>2. hurt = {"null_update"}
      BY <1>5, <3>1
    <3>3. "refused_update" \in harm' \/ "null_update" \in harm'
      BY <1>6, <3>2 DEF Updated
    <3>4. QED
      BY <1>13, <3>3 DEF Unhurt, ForValues
  <2>2. PICK id : id = old.id
    OBVIOUS
  <2>3. PICK w : w = [told[id] EXCEPT ![field] = v]
    OBVIOUS
  <2>4. told1 = [told EXCEPT ![id] = w]
    BY <1>4, <1>13, <2>2, <2>3
  <2>5. MapKeep(told, told1, id) /\ told1[id] = w
    BY <1>13, <2>2, <2>4 DEF MapKeep
  <2>6. PICK txt : txt = TextIn(file, old)
    OBVIOUS
  <2>7. TextIn(file, row) = txt
    BY <1>10, <2>6 DEF TextIn
  <2>8. told[id] = [a |-> old.a, b |-> old.b, t |-> txt]
    BY <1>8, <1>13, <2>2, <2>6 DEF ValueIn, ValueOf
  <2>9. w = [a |-> row.a, b |-> row.b, t |-> txt]
    <3>1. CASE field = "a"
      <4>1. row = [old EXCEPT !.a = v]
        BY <1>3, <2>1, <3>1
      <4>2. row.a = v /\ row.b = old.b
        BY <1>8, <4>1 DEF RowType
      <4>3. PICK u : u = [a |-> old.a, b |-> old.b, t |-> txt]
        OBVIOUS
      <4>4. w = [u EXCEPT !.a = v]
        BY <2>3, <2>8, <3>1, <4>3
      <4>5. [u EXCEPT !.a = v] = [a |-> v, b |-> old.b, t |-> txt]
        BY <4>3
      <4>6. QED
        BY <4>2, <4>4, <4>5
    <3>2. CASE field = "b"
      <4>1. row = [old EXCEPT !.b = v]
        BY <1>3, <2>1, <3>2
      <4>2. row.b = v /\ row.a = old.a
        BY <1>8, <4>1 DEF RowType
      <4>3. PICK u : u = [a |-> old.a, b |-> old.b, t |-> txt]
        OBVIOUS
      <4>4. w = [u EXCEPT !.b = v]
        BY <2>3, <2>8, <3>2, <4>3
      <4>5. [u EXCEPT !.b = v] = [a |-> old.a, b |-> v, t |-> txt]
        BY <4>3
      <4>6. QED
        BY <4>2, <4>4, <4>5
    <3>3. QED
      BY <1>9, <3>1, <3>2
  <2>10. w = ValueOf(row, txt)
    BY <2>9 DEF ValueOf
  <2>11. QED
    BY <2>2, <2>5, <2>7, <2>10
<1>14. QED
  BY <1>1, <1>2, <1>6, <1>7, <1>10, <1>11, <1>12, <1>13, UpdatedStep

LEMMA UpdateTextOfStep ==
  ASSUME IInv, NEW rid, NEW t \in Texts, UpdateTextOf(rid, t)
  PROVE  IInv'
<1>1. Base /\ FileOk(file) /\ file \in Files
  BY DEF IInv, Base, FileOk
<1>2. PICK old : old = RowAt(rid)
  OBVIOUS
<1>3. PICK p : p = old.txt
  OBVIOUS
<1>4. PICK x : x = [ZeroPage EXCEPT !.text = t]
  OBVIOUS
<1>5. PICK f : f = PutPage(file, p, x)
  OBVIOUS
<1>6. PICK told1 : told1 = IF old.id \in DOMAIN told THEN [told EXCEPT ![old.id].t = t] ELSE told
  OBVIOUS
<1>7. /\ Ready /\ rid \in LiveRids /\ Allocated(file, p) /\ Updated(rid, old, f, told1, {}) /\ After("commit")
      /\ UNCHANGED <<ops, multi, nextRow, undo>>
  BY <1>2, <1>3, <1>4, <1>5, <1>6 DEF UpdateTextOf, UpdateText, PutPage, trx
<1>8. pc = "idle" /\ pc' \in Outcomes /\ (pc' # "idle" => ~multi) /\ (pc' = "idle" => multi)
  BY <1>1, <1>7, AfterOk
<1>9. old = At(file, rid) /\ old \in RowType /\ ~old.del /\ rid \in Scanned(file)
  BY <1>1, <1>2, <1>7, Views
<1>10. /\ x \in Pages /\ x.alloc /\ x.cap = 0 /\ x.text = t /\ \A s \in SlotNum : x.rows[s] = NoRow
  BY <1>4, NewPages DEF Pages
<1>11. Puts(file, f, p, x)
  BY <1>1, <1>5, <1>7, <1>10, PutHere
<1>12. FileOk(f)
  BY <1>1, <1>11, PutsOk
<1>13. p \in PageNum /\ p # 0 /\ f.pages[p] = x
  BY <1>7, <1>11 DEF Allocated, PageNum, Puts
<1>14. ASSUME Unhurt(ForRows) PROVE Beside(f, rid)
  <2>1. TextsOk(file)
    BY <1>14 DEF IInv, RowsInv
  <2>2. f.pages[p] = x /\ file.pages[p].cap = 0
    BY <1>3, <1>9, <1>13, <2>1 DEF TextsOk
  <2>3. /\ Scanned(f) = Scanned(file)
        /\ \A q \in Scanned(file) : At(f, q) = At(file, q)
    BY <1>1, <1>10, <1>11, <2>2, PutsScanned
  <2>4. TextsOk(f)
    BY <1>1, <1>10, <1>11, <2>1, <2>2, PutsTexts
  <2>5. \A q \in Scanned(file) \ {rid} : At(file, q).txt # p
    BY <1>3, <1>9, <1>13, <2>1 DEF TextsOk
  <2>6. Keeps(file, f, rid)
    BY <1>1, <1>10, <1>11, <2>1, <2>2, <2>5, PutsKeeps
  <2>7. \A q \in RID : HeldIn(file, "idle", q) => HeldIn(f, "idle", q)
    BY <1>1, <1>11, <2>2, PutsHeld
  <2>8. QED
    BY <1>9, <2>3, <2>4, <2>6, <2>7 DEF Beside
<1>15. DOMAIN told1 = DOMAIN told
  BY <1>6
<1>16. ASSUME old.id \in DOMAIN told, told[old.id] = ValueIn(file, rid)
       PROVE  MapKeep(told, told1, old.id) /\ told1[old.id] = ValueOf(old, TextIn(f, old))
  <2>1. PICK id : id = old.id
    OBVIOUS
  <2>2. PICK w : w = [told[id] EXCEPT !.t = t]
    OBVIOUS
  <2>3. told1 = [told EXCEPT ![id] = w]
    BY <1>6, <1>16, <2>1, <2>2
  <2>4. MapKeep(told, told1, id) /\ told1[id] = w
    BY <1>16, <2>1, <2>3 DEF MapKeep
  <2>5. TextIn(f, old) = t
    BY <1>3, <1>10, <1>13 DEF TextIn
  <2>6. PICK txt : txt = TextIn(file, old)
    OBVIOUS
  <2>7. told[id] = [a |-> old.a, b |-> old.b, t |-> txt]
    BY <1>9, <1>16, <2>1, <2>6 DEF ValueIn, ValueOf
  <2>8. w = ValueOf(old, t)
    BY <2>2, <2>7 DEF ValueOf
  <2>9. QED
    BY <2>1, <2>4, <2>5, <2>8
<1>17. QED
  BY <1>2, <1>7, <1>8, <1>9, <1>12, <1>14, <1>15, <1>16, UpdatedStep
-----------------------------------------------------------------------------
(* DELETE, and the end of a transaction *)

\* An operation goes, and the row with it stays as it is.
LEMMA ForgetStep ==
  ASSUME IInv, NEW rid, ops' = Without(ops, {rid}), UNCHANGED <<file, indexes, multi, nextRow, undo>>,
         harm \subseteq harm', DOMAIN told' \subseteq 1 .. MaxRow, Unhurt(ForValues)' => told' = told,
         Unhurt(ForRows) /\ rid \in Scanned(file) => ~At(file, rid).del,
         pc' \in Outcomes, pc' # "idle" => ~multi, pc' = "idle" => pc = "idle" /\ multi
  PROVE  IInv'
<1>1. Base /\ DOMAIN ops \subseteq RID
  BY DEF IInv, Base
<1>2. \A S : Unhurt(S)' => Unhurt(S)
  BY StillUnhurt
<1>3. MapKeep(ops, ops', rid) /\ DOMAIN ops' = DOMAIN ops \ {rid}
  <2>1. Clears(ops, ops', rid)
    BY WithoutMap
  <2>2. QED
    BY <2>1 DEF Clears
<1>4. Keeps(file, file', rid) /\ IxKeeps(indexes, indexes', rid)
  BY DEF Keeps, IxKeeps, SameIxs
<1>5. Base'
  <2>1. DOMAIN ops' \subseteq RID /\ \A q \in DOMAIN ops' : ops'[q] \in {"INSERT", "DELETE"}
    BY <1>1, <1>3 DEF Base, MapKeep
  <2>2. QED
    BY <1>1, <2>1 DEF Base
<1>6. RowsInv'
  <2>1. SUFFICES ASSUME Unhurt(ForRows) PROVE TextsOk(file') /\ Marked(file', ops')
    BY <1>2 DEF RowsInv
  <2>2. TextsOk(file) /\ Marked(file, ops)
    BY <2>1 DEF IInv, RowsInv
  <2>3. QED
    BY <1>3, <1>4, <2>1, <2>2, MarkedStep
<1>7. OpsInv'
  <2>1. SUFFICES ASSUME Unhurt(ForOps), NEW q \in DOMAIN ops' PROVE HeldIn(file, pc', q)
    BY <1>2 DEF OpsInv
  <2>2. HeldIn(file, pc, q)
    BY <1>3, <2>1 DEF IInv, OpsInv
  <2>3. QED
    BY <2>2, SomeHeld
<1>8. EntriesInv' /\ IndexesInv'
  BY <1>2 DEF IInv, EntriesInv, IndexesInv
<1>9. ValuesInv'
  <2>1. SUFFICES ASSUME Unhurt(ForValues)' PROVE Told'
    BY DEF ValuesInv
  <2>2. Told /\ told' = told
    BY <1>2, <2>1 DEF IInv, ValuesInv
  <2>3. OwnRows(file', indexes', ops')
    BY <1>1, <1>3, <1>4, <2>2, OwnStep DEF Told
  <2>4. QED
    BY <2>2, <2>3 DEF Told
<1>10. QED
  BY <1>5, <1>6, <1>7, <1>8, <1>9 DEF IInv

\* The stamp of a row is set by a deletion, or reset with its operation.
LEMMA StampStep ==
  ASSUME IInv, NEW rid \in Scanned(file), At(file, rid) \in RowType, NEW d \in BOOLEAN,
         file' = Stamped(file, rid, d), UNCHANGED <<indexes, multi, nextRow, harm>>,
         MapKeep(ops, ops', rid), d <=> rid \in DOMAIN ops', d => ops'[rid] = "DELETE",
         NEW id, id = At(file, rid).id, DOMAIN told' \subseteq 1 .. MaxRow,
         Unhurt(ForValues) =>
           /\ MapKeep(told, told', id) /\ MapKeep(undo, undo', id)
           /\ d => id \notin DOMAIN told' /\ id \in DOMAIN undo' /\ undo'[id] = ValueIn(file, rid)
           /\ ~d => id \in DOMAIN told' /\ told'[id] = ValueIn(file, rid),
         pc' \in Outcomes, pc' # "idle" => ~multi, pc' = "idle" => pc = "idle" /\ multi
  PROVE  IInv'
<1>1. Base /\ FileOk(file) /\ file \in Files /\ IxOk(indexes) /\ DOMAIN ops \subseteq RID
  BY DEF IInv, Base, FileOk
<1>2. rid \in RID
  BY DEF Scanned
<1>3. /\ FileOk(file') /\ At(file', rid) \in RowType /\ Writes(file, file', rid, At(file', rid))
      /\ At(file', rid).del = d /\ SameButMark(file, file', rid) /\ Scanned(file') = Scanned(file)
  BY <1>1, StampLemma
<1>4. \A S : Unhurt(S)' <=> Unhurt(S)
  BY DEF Unhurt
<1>5. IxKeeps(indexes, indexes', rid)
  BY DEF IxKeeps, SameIxs
<1>6. Base'
  <2>1. DOMAIN ops' \subseteq RID
    BY <1>1, <1>2 DEF MapKeep
  <2>2. \A q \in DOMAIN ops' : ops'[q] \in {"INSERT", "DELETE"}
    BY <1>1 DEF Base, MapKeep
  <2>3. QED
    BY <1>1, <1>3, <2>1, <2>2 DEF Base
<1>7. ASSUME Unhurt(ForRows)
      PROVE  /\ TextsOk(file') /\ Keeps(file, file', rid) /\ Marked(file', ops')
             /\ ValueIn(file', rid) = ValueIn(file, rid)
  <2>1. TextsOk(file) /\ Marked(file, ops)
    BY <1>7 DEF IInv, RowsInv
  <2>2. TextsOk(file') /\ Keeps(file, file', rid) /\ ValueIn(file', rid) = ValueIn(file, rid)
    BY <1>1, <2>1, StampKeeps
  <2>3. At(file', rid).del => rid \in DOMAIN ops' /\ ops'[rid] = "DELETE"
    BY <1>3
  <2>4. Marked(file', ops')
    BY <2>1, <2>2, <2>3, MarkedStep
  <2>5. QED
    BY <2>2, <2>4
<1>8. RowsInv'
  BY <1>4, <1>7 DEF RowsInv
<1>9. OpsInv'
  <2>1. SUFFICES ASSUME Unhurt(ForOps), NEW q \in DOMAIN ops' PROVE HeldIn(file', pc', q)
    BY <1>4 DEF OpsInv
  <2>2. CASE q = rid
    <3>1. file' \in Files
      BY <1>3 DEF FileOk
    <3>2. QED
      BY <1>2, <1>3, <2>2, <3>1, ScannedIs DEF HeldIn
  <2>3. CASE q # rid
    <3>1. q \in DOMAIN ops
      BY <2>1, <2>3 DEF MapKeep
    <3>2. q \in RID /\ HeldIn(file, pc, q)
      BY <1>1, <2>1, <3>1 DEF IInv, OpsInv
    <3>3. QED
      BY <1>1, <1>3, <3>2, WritesHeld
  <2>4. QED
    BY <2>2, <2>3
<1>10. EntriesInv'
  <2>1. SUFFICES ASSUME Unhurt(ForEntries) PROVE CoversAll(file', indexes)
    BY <1>4 DEF EntriesInv
  <2>2. CoversAll(file, indexes) /\ Keeps(file, file', rid)
    BY <1>7, <2>1, UnhurtToo DEF IInv, EntriesInv
  <2>3. Covered(file', indexes, rid)
    BY <1>1, <1>3, <2>2, StampCovers DEF CoversAll
  <2>4. QED
    BY <1>5, <2>2, <2>3, CoversStep
<1>11. IndexesInv'
  <2>1. SUFFICES ASSUME Unhurt(ForIndexes) PROVE NoneDangles(file', indexes)
    BY <1>4 DEF IndexesInv
  <2>2. NoneDangles(file, indexes) /\ Keeps(file, file', rid)
    BY <1>7, <2>1, UnhurtToo DEF IInv, IndexesInv
  <2>3. QED
    BY <1>1, <1>3, <2>2, StampDangles
<1>12. ValuesInv'
  <2>1. SUFFICES ASSUME Unhurt(ForValues) PROVE Told'
    BY <1>4 DEF ValuesInv
  <2>2. Told /\ Keeps(file, file', rid) /\ ValueIn(file', rid) = ValueIn(file, rid)
    BY <1>7, <2>1, UnhurtToo DEF IInv, ValuesInv
  <2>3. IdAt(file, rid, id) /\ id <= nextRow /\ At(file', rid).id = id
    BY <1>3, <2>2 DEF IdAt, Told, Ids, SameButMark
  <2>4. Ids(file', nextRow')
    BY <2>2, <2>3, IdsStep DEF Told
  <2>5. Live(file', rid) <=> ~d
    BY <1>3 DEF Live
  <2>6. Shown(file', told')
    BY <1>2, <2>1, <2>2, <2>3, <2>5, ShownStep DEF Told
  <2>7. Undoable(file', undo')
    BY <1>3, <2>1, <2>2, <2>3, UndoStep DEF Told
  <2>8. rid \in DOMAIN ops' => OwnRow(file', indexes', ops', rid)
    BY <1>3 DEF OwnRow
  <2>9. OwnRows(file', indexes', ops')
    BY <1>1, <1>5, <2>2, <2>8, OwnStep DEF Told
  <2>10. QED
    BY <2>4, <2>6, <2>7, <2>9 DEF Told
<1>13. QED
  BY <1>6, <1>8, <1>9, <1>10, <1>11, <1>12 DEF IInv

LEMMA DeleteStep ==
  ASSUME IInv, NEW rid, Delete(rid)
  PROVE  IInv'
<1>1. Base /\ DOMAIN told \subseteq 1 .. MaxRow
  BY DEF IInv, Base
<1>2. PICK id : id = RowAt(rid).id
  OBVIOUS
<1>3. /\ Ready /\ rid \in LiveRids /\ After("commit") /\ UNCHANGED <<indexes, multi, nextRow>>
      /\ told' = Without(told, {id})
  BY <1>2 DEF Delete
<1>4. pc = "idle" /\ pc' \in Outcomes /\ (pc' # "idle" => ~multi) /\ (pc' = "idle" => multi)
  BY <1>1, <1>3, AfterOk
<1>5. rid \in Scanned(file) /\ rid \in RID /\ At(file, rid) \in RowType /\ ~At(file, rid).del /\ RowAt(rid) = At(file, rid)
  BY <1>1, <1>3, Views
<1>6. MapKeep(told, told', id) /\ DOMAIN told' = DOMAIN told \ {id}
  <2>1. Clears(told, told', id)
    BY <1>3, WithoutMap
  <2>2. QED
    BY <2>1 DEF Clears
<1>7. DOMAIN told' \subseteq 1 .. MaxRow
  BY <1>1, <1>6
<1>8. CASE ops' = Without(ops, {rid}) /\ harm' = harm \cup {"own_delete"} /\ UNCHANGED <<file, undo>>
  <2>1. harm \subseteq harm' /\ ~Unhurt(ForValues)'
    BY <1>8 DEF Unhurt, ForValues
  <2>2. QED
    BY <1>3, <1>4, <1>5, <1>7, <1>8, <2>1, ForgetStep
<1>9. CASE /\ rid \notin DOMAIN ops /\ ops' = With(ops, rid, "DELETE") /\ file' = Stamped(file, rid, TRUE)
           /\ undo' = (IF id \in DOMAIN told THEN With(undo, id, told[id]) ELSE undo)
           /\ UNCHANGED harm
  <2>1. MapKeep(ops, ops', rid) /\ rid \in DOMAIN ops' /\ ops'[rid] = "DELETE"
    <3>1. Sets(ops, ops', rid, "DELETE")
      BY <1>9, WithMap
    <3>2. QED
      BY <3>1 DEF Sets
  <2>2. ASSUME Unhurt(ForValues)
        PROVE  MapKeep(undo, undo', id) /\ id \in DOMAIN undo' /\ undo'[id] = ValueIn(file, rid)
    <3>1. id \in DOMAIN told /\ told[id] = ValueIn(file, rid)
      BY <1>2, <1>5, <2>2 DEF IInv, ValuesInv, Told, Shown, Live
    <3>2. undo' = With(undo, id, told[id])
      BY <1>9, <3>1
    <3>3. Sets(undo, undo', id, told[id])
      BY <3>2, WithMap
    <3>4. QED
      BY <3>1, <3>3 DEF Sets
  <2>3. PICK d \in BOOLEAN : d /\ file' = Stamped(file, rid, d)
    BY <1>9
  <2>4. /\ d <=> rid \in DOMAIN ops'
        /\ d => ops'[rid] = "DELETE"
        /\ id = At(file, rid).id
    BY <1>2, <1>5, <2>1, <2>3
  <2>5. Unhurt(ForValues) =>
           /\ MapKeep(told, told', id) /\ MapKeep(undo, undo', id)
           /\ d => id \notin DOMAIN told' /\ id \in DOMAIN undo' /\ undo'[id] = ValueIn(file, rid)
           /\ ~d => id \in DOMAIN told' /\ told'[id] = ValueIn(file, rid)
    BY <1>6, <2>2, <2>3
  <2>6. QED
    BY <1>3, <1>4, <1>5, <1>7, <1>9, <2>1, <2>3, <2>4, <2>5, StampStep
<1>10. QED
  BY <1>2, <1>8, <1>9 DEF Delete, Stamped

\* A row goes with its operation, and with the entries that the indexes have.
LEMMA GoneStep ==
  ASSUME IInv, pc # "idle", UNCHANGED <<pc, multi, nextRow, undo, harm>>,
         NEW rid \in Scanned(file), ops' = Without(ops, {rid}),
         FileOk(file'), TextsOk(file) => Leaves(file, file', rid),
         NEW row, row = At(file, rid), NEW k, k = Removed(indexes, row, rid),
         indexes' = WithoutEntries(indexes, row, rid, k),
         DOMAIN told' \subseteq 1 .. MaxRow,
         Unhurt(ForValues) => MapKeep(told, told', row.id) /\ row.id \notin DOMAIN told'
  PROVE  IInv'
<1>1. Base /\ FileOk(file) /\ file \in Files /\ IxOk(indexes) /\ DOMAIN ops \subseteq RID
  BY DEF IInv, Base, FileOk
<1>2. rid \in RID
  BY DEF Scanned
<1>3. MapKeep(ops, ops', rid) /\ DOMAIN ops' = DOMAIN ops \ {rid}
  <2>1. Clears(ops, ops', rid)
    BY WithoutMap
  <2>2. QED
    BY <2>1 DEF Clears
<1>4. IxOk(indexes') /\ IxKeeps(indexes, indexes', rid)
  BY <1>1, SomeGiveUp
<1>5. \A S : Unhurt(S)' <=> Unhurt(S)
  BY DEF Unhurt
<1>6. Base'
  <2>1. DOMAIN ops' \subseteq RID /\ \A q \in DOMAIN ops' : ops'[q] \in {"INSERT", "DELETE"}
    BY <1>1, <1>3 DEF Base, MapKeep
  <2>2. QED
    BY <1>1, <1>4, <2>1 DEF Base
<1>7. ASSUME Unhurt(ForRows)
      PROVE  Leaves(file, file', rid) /\ Keeps(file, file', rid) /\ rid \notin Scanned(file')
             /\ TextsOk(file') /\ Marked(file', ops')
  <2>1. TextsOk(file) /\ Marked(file, ops)
    BY <1>7 DEF IInv, RowsInv
  <2>2. Leaves(file, file', rid) /\ Keeps(file, file', rid) /\ rid \notin Scanned(file') /\ TextsOk(file')
    BY <2>1 DEF Leaves
  <2>3. QED
    BY <1>3, <2>1, <2>2, MarkedStep
<1>8. RowsInv'
  BY <1>5, <1>7 DEF RowsInv
<1>9. OpsInv'
  <2>1. SUFFICES ASSUME Unhurt(ForOps), NEW q \in DOMAIN ops' PROVE HeldIn(file', pc, q)
    BY <1>5 DEF OpsInv
  <2>2. q \in RID \ {rid} /\ HeldIn(file, pc, q)
    BY <1>1, <1>3, <2>1 DEF IInv, OpsInv
  <2>3. QED
    BY <1>7, <2>1, <2>2, UnhurtToo DEF Leaves
<1>10. EntriesInv'
  <2>1. SUFFICES ASSUME Unhurt(ForEntries) PROVE CoversAll(file', indexes')
    BY <1>5 DEF EntriesInv
  <2>2. CoversAll(file, indexes) /\ Keeps(file, file', rid) /\ rid \notin Scanned(file')
    BY <1>7, <2>1, UnhurtToo DEF IInv, EntriesInv
  <2>3. QED
    BY <1>4, <2>2, CoversStep
<1>11. IndexesInv'
  <2>1. SUFFICES ASSUME Unhurt(ForIndexes) PROVE NoneDangles(file', indexes')
    BY <1>5 DEF IndexesInv
  <2>2. CoversAll(file, indexes) /\ NoneDangles(file, indexes) /\ Keeps(file, file', rid)
    BY <1>7, <2>1, UnhurtToo DEF IInv, EntriesInv, IndexesInv
  <2>3. k = Len(indexes)
    BY <1>1, <2>2, RemoveLemma DEF CoversAll, Covered, Entry
  <2>4. \A i \in DOMAIN indexes : \A e \in indexes'[i].entries :
          e \in indexes[i].entries /\ e # <<row[indexes[i].field], rid>>
    BY <1>1, <2>3, AllGiveUp
  <2>5. ASSUME NEW i \in DOMAIN indexes', NEW e \in indexes'[i].entries, e[2] = rid PROVE FALSE
    <3>1. i \in DOMAIN indexes /\ e \in indexes[i].entries /\ e # <<row[indexes[i].field], rid>>
      BY <1>4, <2>4, <2>5 DEF IxKeeps, SameIxs
    <3>2. row[indexes[i].field] = e[1]
      BY <2>2, <2>5, <3>1 DEF NoneDangles, EntryOf
    <3>3. e \in ValuesOf(indexes[i].field) \X RID
      BY <1>1, <3>1 DEF IxOk
    <3>4. e = <<e[1], e[2]>>
      BY <3>3
    <3>5. QED
      BY <2>5, <3>1, <3>2, <3>4
  <2>6. QED
    BY <1>4, <2>2, <2>5, DanglesStep
<1>12. ValuesInv'
  <2>1. SUFFICES ASSUME Unhurt(ForValues) PROVE Told'
    BY <1>5 DEF ValuesInv
  <2>2. Told /\ Keeps(file, file', rid) /\ rid \notin Scanned(file')
    BY <1>7, <2>1, UnhurtToo DEF IInv, ValuesInv
  <2>3. PICK id : id = row.id
    OBVIOUS
  <2>4. IdAt(file, rid, id)
    BY <2>2, <2>3 DEF IdAt, Told, Ids
  <2>5. Ids(file', nextRow')
    BY <2>2, <2>4, IdsStep DEF Told
  <2>6. ~Live(file', rid)
    BY <2>2 DEF Live
  <2>7. Shown(file', told')
    BY <1>2, <2>1, <2>2, <2>3, <2>4, <2>6, ShownStep DEF Told
  <2>8. Undoable(file', undo')
    <3>1. MapKeep(undo, undo', id)
      BY SameMap
    <3>2. QED
      BY <2>2, <2>4, <3>1, UndoStep DEF Told
  <2>9. OwnRows(file', indexes', ops')
    BY <1>1, <1>3, <1>4, <2>2, OwnStep DEF Told
  <2>10. QED
    BY <2>5, <2>7, <2>8, <2>9 DEF Told
<1>13. QED
  BY <1>6, <1>8, <1>9, <1>10, <1>11, <1>12 DEF IInv

\* A row that an index does not know stays when its insertion is rolled back:
\* its entries were hurt before.
LEMMA StuckStep ==
  ASSUME IInv, pc # "idle", UNCHANGED <<pc, multi, nextRow, undo, harm, file>>,
         NEW rid \in Scanned(file), rid \in DOMAIN ops, ops[rid] = "INSERT", ops' = Without(ops, {rid}),
         NEW row, row = At(file, rid), NEW k, k = Removed(indexes, row, rid), k # Len(indexes),
         indexes' = WithoutEntries(indexes, row, rid, k),
         DOMAIN told' \subseteq 1 .. MaxRow
  PROVE  IInv'
<1>1. Base /\ IxOk(indexes) /\ DOMAIN ops \subseteq RID
  BY DEF IInv, Base
<1>2. MapKeep(ops, ops', rid) /\ DOMAIN ops' = DOMAIN ops \ {rid}
  <2>1. Clears(ops, ops', rid)
    BY WithoutMap
  <2>2. QED
    BY <2>1 DEF Clears
<1>3. IxOk(indexes')
  BY <1>1, SomeGiveUp
<1>4. \A S : Unhurt(S)' <=> Unhurt(S)
  BY DEF Unhurt
<1>5. Base'
  <2>1. DOMAIN ops' \subseteq RID /\ \A q \in DOMAIN ops' : ops'[q] \in {"INSERT", "DELETE"}
    BY <1>1, <1>2 DEF Base, MapKeep
  <2>2. QED
    BY <1>1, <1>3, <2>1 DEF Base
<1>6. RowsInv'
  <2>1. SUFFICES ASSUME Unhurt(ForRows) PROVE TextsOk(file') /\ Marked(file', ops')
    BY <1>4 DEF RowsInv
  <2>2. TextsOk(file) /\ Marked(file, ops)
    BY <2>1 DEF IInv, RowsInv
  <2>3. Keeps(file, file', rid)
    BY DEF Keeps
  <2>4. ~At(file', rid).del
    BY <2>2 DEF Marked
  <2>5. QED
    BY <1>2, <2>2, <2>3, <2>4, MarkedStep
<1>7. OpsInv'
  BY <1>2, <1>4 DEF IInv, OpsInv
<1>8. ~Covered(file, indexes, rid)
  BY <1>1, RemoveLemma DEF Covered, Entry
<1>9. ~CoversAll(file, indexes) /\ ~OwnRows(file, indexes, ops)
  BY <1>8 DEF CoversAll, OwnRows, OwnRow
<1>10. ~Unhurt(ForEntries) /\ ~Unhurt(ForIndexes) /\ ~Unhurt(ForValues)
  BY <1>9, UnhurtToo DEF IInv, EntriesInv, ValuesInv, Told
<1>11. QED
  BY <1>4, <1>5, <1>6, <1>7, <1>10 DEF IInv, EntriesInv, IndexesInv, ValuesInv

\* The row of an operation that commit or rollback goes on with
LEMMA OperationRow ==
  ASSUME IInv, NEW rid \in DOMAIN ops, RowAt(rid) # Garbage
  PROVE  /\ RowAt(rid) = At(file, rid) /\ rid \in RID /\ ops[rid] \in {"INSERT", "DELETE"}
         /\ Found(file, rid) <=> rid \in Scanned(file)
         /\ At(file, rid) \in RowType \cup {NoRow}
         /\ rid \in Scanned(file) => At(file, rid) \in RowType
         /\ Unhurt(ForRows) /\ rid \in Scanned(file) => (At(file, rid).del => ops[rid] = "DELETE")
         /\ Unhurt(ForValues) /\ ops[rid] = "DELETE" => rid \in Scanned(file) /\ At(file, rid).del
         /\ Unhurt(ForValues) /\ rid \notin Scanned(file) => At(file, rid) = NoRow
<1>1. Base /\ file \in Files /\ rid \in RID /\ ops[rid] \in {"INSERT", "DELETE"}
  BY DEF IInv, Base, FileOk
<1>2. RowAt(rid) = At(file, rid)
  BY DEF RowAt, At
<1>3. Found(file, rid) <=> rid \in Scanned(file)
  BY <1>1, ScannedIs
<1>4. At(file, rid) \in RowType \cup {NoRow}
  BY <1>1, <1>2, FileParts DEF Cells
<1>5. rid \in Scanned(file) => At(file, rid) \in RowType
  BY <1>1, <1>4, ScannedIs
<1>6. Unhurt(ForRows) /\ rid \in Scanned(file) => (At(file, rid).del => ops[rid] = "DELETE")
  BY DEF IInv, RowsInv, Marked
<1>7. Unhurt(ForValues) /\ ops[rid] = "DELETE" => rid \in Scanned(file) /\ At(file, rid).del
  BY DEF IInv, ValuesInv, Told, OwnRows, OwnRow
<1>8. ASSUME Unhurt(ForValues), rid \notin Scanned(file) PROVE At(file, rid) = NoRow
  <2>1. HeldIn(file, pc, rid)
    BY <1>8, UnhurtToo DEF IInv, OpsInv
  <2>2. QED
    BY <1>1, <1>8, <2>1, ScannedIs DEF HeldIn
<1>9. QED
  BY <1>1, <1>2, <1>3, <1>4, <1>5, <1>6, <1>7, <1>8

\* What Unmark leaves
LEMMA UnmarkStep ==
  ASSUME IInv, NEW rid \in Scanned(file), At(file, rid) \in RowType, Unmark(rid), Found(file, rid),
         ops' = Without(ops, {rid}), UNCHANGED <<multi, nextRow, harm, pc, undo>>, pc # "idle", ~multi,
         NEW id, id = At(file, rid).id, DOMAIN told' \subseteq 1 .. MaxRow,
         Unhurt(ForValues) => MapKeep(told, told', id) /\ id \in DOMAIN told' /\ told'[id] = ValueIn(file, rid)
  PROVE  IInv'
<1>1. pc \in Outcomes /\ ~multi
  BY DEF IInv, Base
<1>2. PICK d \in BOOLEAN : ~d /\ d = FALSE
  OBVIOUS
<1>3. file' = Stamped(file, rid, d) /\ indexes' = indexes
  BY <1>2 DEF Unmark, Stamped
<1>4. MapKeep(ops, ops', rid) /\ rid \notin DOMAIN ops'
  <2>1. Clears(ops, ops', rid)
    BY WithoutMap
  <2>2. QED
    BY <2>1 DEF Clears
<1>5. MapKeep(undo, undo', id)
  BY SameMap
<1>6. Unhurt(ForValues) =>
         /\ MapKeep(told, told', id) /\ MapKeep(undo, undo', id)
         /\ d => id \notin DOMAIN told' /\ id \in DOMAIN undo' /\ undo'[id] = ValueIn(file, rid)
         /\ ~d => id \in DOMAIN told' /\ told'[id] = ValueIn(file, rid)
  BY <1>2, <1>5
<1>7. /\ d <=> rid \in DOMAIN ops'
      /\ d => ops'[rid] = "DELETE"
  BY <1>2, <1>4
<1>8. QED
  BY <1>1, <1>3, <1>4, <1>6, <1>7, StampStep

LEMMA CommitOneStep ==
  ASSUME IInv, CommitOne
  PROVE  IInv'
<1>1. PICK rid \in DOMAIN ops :
        /\ Defined(file, rid) /\ RowAt(rid) # Garbage
        /\ ops' = Without(ops, {rid})
        /\ IF ops[rid] = "INSERT" THEN Unmark(rid) ELSE CommitDelete(rid)
  BY DEF CommitOne
<1>2. /\ pc = "commit" /\ pc # "idle" /\ UNCHANGED <<multi, pc, nextRow, told, undo, harm>>
      /\ DOMAIN told' \subseteq 1 .. MaxRow /\ FileOk(file) /\ ~multi /\ pc' \in Outcomes /\ harm \subseteq harm'
  BY DEF CommitOne, IInv, Base, Ended
<1>3. /\ RowAt(rid) = At(file, rid) /\ rid \in RID /\ ops[rid] \in {"INSERT", "DELETE"}
      /\ Found(file, rid) <=> rid \in Scanned(file)
      /\ rid \in Scanned(file) => At(file, rid) \in RowType
      /\ Unhurt(ForRows) /\ rid \in Scanned(file) => (At(file, rid).del => ops[rid] = "DELETE")
      /\ Unhurt(ForValues) /\ ops[rid] = "DELETE" => rid \in Scanned(file) /\ At(file, rid).del
  BY <1>1, OperationRow
<1>4. PICK id : id = At(file, rid).id
  OBVIOUS
<1>5. CASE rid \notin Scanned(file)
  <2>1. UNCHANGED <<file, indexes>>
    BY <1>1, <1>3, <1>5 DEF Unmark, CommitDelete
  <2>2. QED
    BY <1>1, <1>2, <1>5, <2>1, ForgetStep
<1>6. CASE rid \in Scanned(file) /\ ops[rid] = "INSERT"
  <2>1. ASSUME Unhurt(ForValues)
        PROVE  MapKeep(told, told', id) /\ id \in DOMAIN told' /\ told'[id] = ValueIn(file, rid)
    <3>1. Live(file, rid)
      BY <1>3, <1>6, <2>1, UnhurtToo DEF Live
    <3>2. id \in DOMAIN told /\ told[id] = ValueIn(file, rid)
      BY <1>3, <1>4, <2>1, <3>1 DEF IInv, ValuesInv, Told, Shown
    <3>3. MapKeep(told, told, id)
      BY SameMap
    <3>4. QED
      BY <1>2, <3>2, <3>3
  <2>2. Unmark(rid) /\ Found(file, rid) /\ At(file, rid) \in RowType
    BY <1>1, <1>3, <1>6
  <2>3. QED
    BY <1>1, <1>2, <1>4, <1>6, <2>1, <2>2, UnmarkStep
<1>7. CASE rid \in Scanned(file) /\ ops[rid] = "DELETE"
  <2>1. PICK row : row = At(file, rid)
    OBVIOUS
  <2>2. PICK k : k = Removed(indexes, row, rid)
    OBVIOUS
  <2>3. PICK h : h = IF Allocated(file, row.txt) THEN DeleteText(file, row.txt) ELSE file
    OBVIOUS
  <2>4. CommitDelete(rid) /\ Found(file, rid) /\ At(file, rid) \in RowType
    BY <1>1, <1>3, <1>7
  <2>5. indexes' = WithoutEntries(indexes, row, rid, k) /\ file' = DeleteRecord(h, rid)
    BY <1>3, <2>1, <2>2, <2>3, <2>4 DEF CommitDelete, Removed
  <2>6. FileOk(file') /\ (TextsOk(file) => Leaves(file, file', rid))
    BY <1>2, <1>7, <2>1, <2>3, <2>4, <2>5, GoneWithText
  <2>7. ASSUME Unhurt(ForValues) PROVE MapKeep(told, told', row.id) /\ row.id \notin DOMAIN told'
    <3>1. At(file, rid).del
      BY <1>3, <1>7, <2>7
    <3>2. Ids(file, nextRow) /\ Shown(file, told)
      BY <2>7 DEF IInv, ValuesInv, Told
    <3>3. row.id \notin DOMAIN told
      <4>1. SUFFICES ASSUME row.id \in DOMAIN told PROVE FALSE
        OBVIOUS
      <4>2. PICK q \in RID : Live(file, q) /\ At(file, q).id = row.id
        BY <3>2, <4>1 DEF Shown
      <4>3. q = rid
        BY <1>7, <2>1, <3>2, <4>2 DEF Ids, Live
      <4>4. QED
        BY <3>1, <4>2, <4>3 DEF Live
    <3>4. MapKeep(told, told, row.id)
      BY SameMap
    <3>5. QED
      BY <1>2, <3>3, <3>4
  <2>8. QED
    BY <1>1, <1>2, <1>7, <2>1, <2>2, <2>5, <2>6, <2>7, GoneStep
<1>8. QED
  BY <1>3, <1>5, <1>6, <1>7

LEMMA RollbackOneStep ==
  ASSUME IInv, RollbackOne
  PROVE  IInv'
<1>1. PICK rid \in DOMAIN ops :
        /\ Defined(file, rid) /\ RowAt(rid) # Garbage
        /\ ops' = Without(ops, {rid})
        /\ IF ops[rid] = "INSERT" THEN RollbackInsert(rid) ELSE Unmark(rid)
        /\ told' = IF RowAt(rid) = NoRow THEN told
                   ELSE IF ops[rid] = "INSERT" THEN Without(told, {RowAt(rid).id})
                   ELSE IF RowAt(rid).id \in DOMAIN undo THEN With(told, RowAt(rid).id, undo[RowAt(rid).id])
                   ELSE told
  BY DEF RollbackOne
<1>2. /\ pc = "rollback" /\ pc # "idle" /\ UNCHANGED <<multi, pc, nextRow, undo, harm>>
      /\ DOMAIN told \subseteq 1 .. MaxRow /\ FileOk(file) /\ ~multi /\ pc' \in Outcomes /\ harm \subseteq harm'
  BY DEF RollbackOne, IInv, Base, Ended
<1>3. /\ RowAt(rid) = At(file, rid) /\ rid \in RID /\ ops[rid] \in {"INSERT", "DELETE"}
      /\ Found(file, rid) <=> rid \in Scanned(file)
      /\ At(file, rid) \in RowType \cup {NoRow}
      /\ rid \in Scanned(file) => At(file, rid) \in RowType
      /\ Unhurt(ForRows) /\ rid \in Scanned(file) => (At(file, rid).del => ops[rid] = "DELETE")
      /\ Unhurt(ForValues) /\ ops[rid] = "DELETE" => rid \in Scanned(file) /\ At(file, rid).del
      /\ Unhurt(ForValues) /\ rid \notin Scanned(file) => At(file, rid) = NoRow
  BY <1>1, OperationRow
<1>4. PICK row : row = At(file, rid)
  OBVIOUS
<1>5. PICK id : id = row.id
  OBVIOUS
<1>6. /\ row = NoRow => told' = told
      /\ row # NoRow /\ ops[rid] = "INSERT" => Clears(told, told', id)
      /\ row # NoRow /\ ops[rid] = "DELETE" => \/ id \in DOMAIN undo /\ Sets(told, told', id, undo[id])
                                               \/ id \notin DOMAIN undo /\ told' = told
  <2>1. told' = IF row = NoRow THEN told
                ELSE IF ops[rid] = "INSERT" THEN Without(told, {id})
                ELSE IF id \in DOMAIN undo THEN With(told, id, undo[id])
                ELSE told
    BY <1>1, <1>3, <1>4, <1>5
  <2>2. Clears(told, Without(told, {id}), id)
    BY WithoutMap
  <2>3. Sets(told, With(told, id, undo[id]), id, undo[id])
    BY WithMap
  <2>4. QED
    BY <2>1, <2>2, <2>3
<1>7. DOMAIN told' \subseteq 1 .. MaxRow
  <2>1. row # NoRow => id \in 1 .. MaxRow
    BY <1>3, <1>4, <1>5, RowIs
  <2>2. QED
    BY <1>2, <1>3, <1>6, <2>1 DEF Clears, Sets
<1>8. CASE rid \notin Scanned(file)
  <2>1. UNCHANGED <<file, indexes>>
    BY <1>1, <1>3, <1>8 DEF Unmark, RollbackInsert
  <2>2. Unhurt(ForValues) => told' = told
    BY <1>3, <1>4, <1>6, <1>8
  <2>3. Unhurt(ForValues)' => told' = told
    BY <1>2, <2>2 DEF Unhurt
  <2>4. QED
    BY <1>1, <1>2, <1>7, <1>8, <2>1, <2>3, ForgetStep
<1>9. CASE rid \in Scanned(file) /\ ops[rid] = "DELETE"
  <2>1. ASSUME Unhurt(ForValues)
        PROVE  MapKeep(told, told', id) /\ id \in DOMAIN told' /\ told'[id] = ValueIn(file, rid)
    <3>1. At(file, rid).del
      BY <1>3, <1>9, <2>1
    <3>2. id \in DOMAIN undo /\ undo[id] = ValueIn(file, rid)
      BY <1>4, <1>5, <1>9, <2>1, <3>1 DEF IInv, ValuesInv, Told, Undoable
    <3>3. row # NoRow
      BY <1>3, <1>4, <1>9, RowIs
    <3>4. Sets(told, told', id, undo[id])
      BY <1>6, <1>9, <3>2, <3>3
    <3>5. QED
      BY <3>2, <3>4 DEF Sets
  <2>2. Unmark(rid) /\ Found(file, rid) /\ At(file, rid) \in RowType
    BY <1>1, <1>3, <1>9
  <2>3. QED
    BY <1>1, <1>2, <1>4, <1>5, <1>7, <1>9, <2>1, <2>2, UnmarkStep
<1>10. CASE rid \in Scanned(file) /\ ops[rid] = "INSERT"
  <2>1. PICK k : k = Removed(indexes, row, rid)
    OBVIOUS
  <2>2. RollbackInsert(rid) /\ Found(file, rid)
    BY <1>1, <1>3, <1>10
  <2>3. /\ indexes' = WithoutEntries(indexes, row, rid, k)
        /\ file' = IF k = Len(indexes) THEN DeleteRecord(file, rid) ELSE file
    BY <1>3, <1>4, <2>1, <2>2 DEF RollbackInsert, Removed
  <2>4. CASE k = Len(indexes)
    <3>1. file' = DeleteRecord(file, rid)
      BY <2>3, <2>4
    <3>2. FileOk(file') /\ (TextsOk(file) => Leaves(file, file', rid))
      BY <1>2, <1>10, <3>1, GoneLemma, OneBut
    <3>3. row # NoRow
      BY <1>3, <1>4, <1>10, RowIs
    <3>4. MapKeep(told, told', row.id) /\ row.id \notin DOMAIN told'
      BY <1>5, <1>6, <1>10, <3>3 DEF Clears
    <3>5. QED
      BY <1>1, <1>2, <1>4, <1>7, <1>10, <2>1, <2>3, <3>2, <3>4, GoneStep
  <2>5. CASE k # Len(indexes)
    <3>1. file' = file
      BY <2>3, <2>5
    <3>2. QED
      BY <1>1, <1>2, <1>4, <1>7, <1>10, <2>1, <2>3, <2>5, <3>1, StuckStep
  <2>6. QED
    BY <2>4, <2>5
<1>11. QED
  BY <1>3, <1>8, <1>9, <1>10
-----------------------------------------------------------------------------
(* Indexes and restarts *)

LEMMA CreateIndexStep ==
  ASSUME IInv, NEW field \in Fields, NEW uniq \in BOOLEAN, CreateIndex(field, uniq)
  PROVE  IInv'
<1>1. Base /\ IxOk(indexes)
  BY DEF IInv, Base
<1>2. PICK rids : rids = {rid \in LiveRids : RowAt(rid)[field] # Null}
  OBVIOUS
<1>3. PICK entries : entries = {<<RowAt(rid)[field], rid>> : rid \in rids}
  OBVIOUS
<1>4. PICK ok : ok = (/\ ScanEnd(file) = "EOF"
                      /\ uniq => \A d, e \in entries : d[1] = e[1] => d = e)
  OBVIOUS
<1>5. PICK ix : ix = [field |-> field, unique |-> uniq, entries |-> entries]
  OBVIOUS
<1>6. /\ Ready
      /\ indexes' = IF ok THEN Append(indexes, ix) ELSE indexes
      /\ harm' = harm \cup (IF ok /\ \E rid \in DOMAIN ops : ops[rid] = "DELETE" THEN {"index_in_trx"} ELSE {})
      /\ After(IF ok THEN "commit" ELSE "rollback")
      /\ UNCHANGED <<file, ops, multi, nextRow, told, undo>>
  BY <1>2, <1>3, <1>4, <1>5 DEF CreateIndex, trx
<1>7. pc = "idle" /\ pc' \in Outcomes /\ (pc' # "idle" => ~multi) /\ (pc' = "idle" => multi)
  <2>1. PICK rc \in {"commit", "rollback"} : rc = IF ok THEN "commit" ELSE "rollback"
    OBVIOUS
  <2>2. After(rc)
    BY <1>6, <2>1
  <2>3. QED
    BY <1>1, <1>6, <2>2, AfterOk
<1>8. CASE ~ok
  <2>1. indexes' = indexes /\ harm' = harm /\ multi \in BOOLEAN
    BY <1>1, <1>6, <1>8 DEF Base
  <2>2. QED
    BY <1>6, <1>7, <2>1, QuietStep DEF Ended
<1>9. CASE ok
  <2>1. indexes' = Append(indexes, ix) /\ harm \subseteq harm'
    BY <1>6, <1>9
  <2>2. \A S : Unhurt(S)' => Unhurt(S)
    BY <2>1, StillUnhurt
  <2>3. ix.field = field /\ ix.unique = uniq /\ ix.entries = entries
    BY <1>5
  <2>4. ASSUME NEW e \in entries
        PROVE  /\ e \in ValuesOf(field) \X RID /\ e[1] # Null /\ e[2] \in Scanned(file)
               /\ At(file, e[2])[field] = e[1]
    <3>1. PICK rid \in LiveRids : RowAt(rid)[field] # Null /\ e = <<RowAt(rid)[field], rid>>
      BY <1>2, <1>3
    <3>2. rid \in Scanned(file) /\ rid \in RID /\ At(file, rid) \in RowType /\ RowAt(rid) = At(file, rid)
      BY <1>1, Views
    <3>3. At(file, rid)[field] \in ValuesOf(field)
      BY <3>1, <3>2, RowField
    <3>4. QED
      BY <3>1, <3>2, <3>3
  <2>5. ix \in Ixs
    <3>1. ValuesOf(field) \subseteq AValues \cup BValues
      BY DEF ValuesOf
    <3>2. entries \subseteq (AValues \cup BValues) \X RID
      BY <2>4, <3>1
    <3>3. QED
      BY <1>5, <3>2 DEF Ixs
  <2>6. /\ IxOk(indexes')
        /\ \A i \in DOMAIN indexes' : (i \in DOMAIN indexes /\ indexes'[i] = indexes[i]) \/ indexes'[i] = ix
    <3>1. ix.entries \subseteq ValuesOf(ix.field) \X RID
      BY <2>3, <2>4
    <3>2. ix.unique => \A d, e \in ix.entries : d[1] = e[1] => d = e
      BY <1>4, <1>9, <2>3
    <3>3. OneIx(ix)
      BY <2>5, <3>1, <3>2 DEF OneIx
    <3>4. indexes' = OneMore(indexes, ix)
      BY <2>1 DEF OneMore
    <3>5. QED
      BY <1>1, <3>3, <3>4, AppendOk
  <2>7. Base'
    BY <1>1, <1>6, <1>7, <2>6 DEF Base
  <2>8. RowsInv'
    BY <1>6, <2>2 DEF IInv, RowsInv
  <2>9. OpsInv'
    <3>1. SUFFICES ASSUME Unhurt(ForOps), NEW q \in DOMAIN ops PROVE HeldIn(file, pc', q)
      BY <1>6, <2>2 DEF OpsInv
    <3>2. HeldIn(file, "idle", q)
      BY <1>7, <3>1 DEF IInv, OpsInv
    <3>3. QED
      BY <3>2, SomeHeld
  <2>10. ASSUME Unhurt(ForRows), NEW q \in Scanned(file), ~At(file, q).del, Covered(file, indexes, q)
         PROVE  Covered(file, indexes', q)
    <3>1. q \in LiveRids /\ RowAt(q) = At(file, q)
      <4>1. q \in RID
        BY <1>1, Views
      <4>2. At(file, q) # Garbage
        BY <2>10, <4>1 DEF IInv, RowsInv, TextsOk
      <4>3. QED
        BY <1>1, <2>10, <4>2, Views
    <3>2. At(file, q)[field] # Null => <<At(file, q)[field], q>> \in ix.entries
      BY <1>2, <1>3, <2>3, <3>1
    <3>3. SUFFICES ASSUME NEW i \in DOMAIN indexes', At(file, q)[indexes'[i].field] # Null
                   PROVE  <<At(file, q)[indexes'[i].field], q>> \in indexes'[i].entries
      BY DEF Covered
    <3>4. CASE i \in DOMAIN indexes /\ indexes'[i] = indexes[i]
      BY <2>10, <3>3, <3>4 DEF Covered
    <3>5. CASE indexes'[i] = ix
      BY <2>3, <3>2, <3>3, <3>5
    <3>6. QED
      BY <2>6, <3>4, <3>5
  <2>11. EntriesInv'
    <3>1. SUFFICES ASSUME Unhurt(ForEntries)', NEW q \in Scanned(file) PROVE Covered(file, indexes', q)
      BY <1>6 DEF EntriesInv, CoversAll
    <3>2. \A rid \in DOMAIN ops : ops[rid] # "DELETE"
      BY <1>6, <1>9, <3>1 DEF Unhurt, ForEntries
    <3>3. Unhurt(ForEntries) /\ Unhurt(ForRows)
      BY <2>2, <3>1, UnhurtToo
    <3>4. Covered(file, indexes, q) /\ Marked(file, ops)
      BY <3>1, <3>3 DEF IInv, EntriesInv, RowsInv, CoversAll
    <3>5. ~At(file, q).del
      BY <3>1, <3>2, <3>4 DEF Marked
    <3>6. QED
      BY <2>10, <3>1, <3>3, <3>4, <3>5
  <2>12. IndexesInv'
    <3>1. SUFFICES ASSUME Unhurt(ForIndexes), NEW i \in DOMAIN indexes', NEW e \in indexes'[i].entries
                   PROVE  EntryOf(file, indexes'[i], e)
      BY <1>6, <2>2 DEF IndexesInv, NoneDangles
    <3>2. CASE i \in DOMAIN indexes /\ indexes'[i] = indexes[i]
      BY <3>1, <3>2 DEF IInv, IndexesInv, NoneDangles
    <3>3. CASE indexes'[i] = ix
      BY <2>3, <2>4, <3>1, <3>3 DEF EntryOf
    <3>4. QED
      BY <2>6, <3>2, <3>3
  <2>13. ValuesInv'
    <3>1. SUFFICES ASSUME Unhurt(ForValues) PROVE Told'
      BY <2>2 DEF ValuesInv
    <3>2. Told /\ Marked(file, ops) /\ Unhurt(ForRows)
      BY <3>1, UnhurtToo DEF IInv, ValuesInv, RowsInv
    <3>3. ASSUME NEW q \in DOMAIN ops PROVE OwnRow(file, indexes', ops, q)
      <4>1. OwnRow(file, indexes, ops, q)
        BY <3>2, <3>3 DEF Told, OwnRows
      <4>2. CASE ops[q] = "INSERT" /\ q \in Scanned(file)
        <5>1. Covered(file, indexes, q) /\ ~At(file, q).del
          BY <3>2, <4>1, <4>2 DEF OwnRow, Marked
        <5>2. Covered(file, indexes', q)
          BY <2>10, <3>2, <4>2, <5>1
        <5>3. QED
          BY <4>2, <5>2 DEF OwnRow
      <4>3. CASE ~(ops[q] = "INSERT" /\ q \in Scanned(file))
        BY <4>1, <4>3 DEF OwnRow
      <4>4. QED
        BY <4>2, <4>3
    <3>4. QED
      BY <1>6, <3>2, <3>3 DEF Told, OwnRows
  <2>14. QED
    BY <2>7, <2>8, <2>9, <2>11, <2>12, <2>13 DEF IInv
<1>10. QED
  BY <1>8, <1>9

LEMMA ReopenStep ==
  ASSUME IInv, Reopen
  PROVE  IInv'
<1>1. Base /\ FileOk(file) /\ IxOk(indexes)
  BY DEF IInv, Base
<1>2. /\ pc = "idle" /\ ~multi /\ UNCHANGED <<ops, multi, pc, nextRow, told, undo, harm>>
      /\ indexes' = NoneUnique(indexes)
      /\ file' = [file EXCEPT !.cur = 0]
  BY DEF Reopen, Ready, trx, NoneUnique
<1>3. DOMAIN ops = {}
  BY <1>1, <1>2 DEF Base
<1>4. /\ FileOk(file') /\ Scanned(file') = Scanned(file) /\ file'.pages = file.pages
      /\ \A p : Allocated(file', p) <=> Allocated(file, p)
      /\ \A rid : At(file', rid) = At(file, rid) /\ ValueIn(file', rid) = ValueIn(file, rid)
  BY <1>1, <1>2, NoPage
<1>5. /\ IxOk(indexes') /\ DOMAIN indexes' = DOMAIN indexes
      /\ \A i \in DOMAIN indexes : indexes'[i].field = indexes[i].field /\ indexes'[i].entries = indexes[i].entries
  BY <1>1, <1>2, OpenOk
<1>6. \A S : Unhurt(S)' <=> Unhurt(S)
  BY <1>2 DEF Unhurt
<1>7. Base'
  BY <1>1, <1>2, <1>4, <1>5 DEF Base
<1>8. RowsInv'
  <2>1. TextsOk(file) => TextsOk(file')
    BY <1>4 DEF TextsOk
  <2>2. Marked(file, ops) => Marked(file', ops')
    BY <1>2, <1>4 DEF Marked
  <2>3. QED
    BY <1>6, <2>1, <2>2 DEF IInv, RowsInv
<1>9. OpsInv'
  BY <1>2, <1>3 DEF OpsInv
<1>10. EntriesInv'
  <2>1. CoversAll(file, indexes) => CoversAll(file', indexes')
    BY <1>4, <1>5 DEF CoversAll, Covered
  <2>2. QED
    BY <1>6, <2>1 DEF IInv, EntriesInv
<1>11. IndexesInv'
  <2>1. NoneDangles(file, indexes) => NoneDangles(file', indexes')
    BY <1>4, <1>5 DEF NoneDangles, EntryOf
  <2>2. QED
    BY <1>6, <2>1 DEF IInv, IndexesInv
<1>12. ValuesInv'
  <2>1. SUFFICES ASSUME Told PROVE Told'
    BY <1>6 DEF IInv, ValuesInv
  <2>2. Ids(file', nextRow')
    BY <1>2, <1>4, <2>1 DEF Told, Ids
  <2>3. Shown(file', told')
    BY <1>2, <1>4, <2>1 DEF Told, Shown, Live
  <2>4. Undoable(file', undo')
    BY <1>2, <1>4, <2>1 DEF Told, Undoable
  <2>5. OwnRows(file', indexes', ops')
    BY <1>2, <1>3 DEF OwnRows
  <2>6. QED
    BY <2>2, <2>3, <2>4, <2>5 DEF Told
<1>13. QED
  BY <1>7, <1>8, <1>9, <1>10, <1>11, <1>12 DEF IInv
-----------------------------------------------------------------------------
(* The theorems *)

LEMMA InitIInv == Init => IInv
<1>1. SUFFICES ASSUME Init PROVE IInv
  OBVIOUS
<1>2. /\ indexes = <<>> /\ ops = <<>> /\ multi = FALSE /\ pc = "idle" /\ nextRow = 0
      /\ told = <<>> /\ undo = <<>> /\ harm = {}
  BY <1>1 DEF Init
<1>3. FileOk(file) /\ Scanned(file) = {} /\ TextsOk(file)
  BY <1>1, NewFileOk DEF Init
<1>4. DOMAIN indexes = {} /\ DOMAIN ops = {} /\ DOMAIN told = {}
  BY <1>2
<1>5. IxOk(indexes)
  <2>1. indexes \in Seq(Ixs)
    BY <1>2
  <2>2. QED
    BY <1>4, <2>1 DEF IxOk
<1>6. Base
  <2>1. nextRow \in 0 .. MaxRow
    BY <1>2, ValuesAssumption
  <2>2. multi \in BOOLEAN /\ pc \in Outcomes
    BY <1>2 DEF Outcomes
  <2>3. DOMAIN ops \subseteq RID /\ (\A rid \in DOMAIN ops : ops[rid] \in {"INSERT", "DELETE"})
        /\ DOMAIN told \subseteq 1 .. MaxRow
    BY <1>4
  <2>4. QED
    BY <1>2, <1>3, <1>4, <1>5, <2>1, <2>2, <2>3 DEF Base
<1>7. RowsInv
  BY <1>3 DEF RowsInv, Marked
<1>8. OpsInv /\ EntriesInv /\ IndexesInv
  BY <1>3, <1>4 DEF OpsInv, EntriesInv, IndexesInv, CoversAll, NoneDangles
<1>9. Told
  BY <1>3, <1>4 DEF Told, Ids, Shown, Undoable, OwnRows, Live
<1>10. QED
  BY <1>6, <1>7, <1>8, <1>9 DEF IInv, ValuesInv

LEMMA NextIInv == IInv /\ [Next]_vars => IInv'
<1>1. SUFFICES ASSUME IInv, [Next]_vars PROVE IInv'
  OBVIOUS
<1>2. ASSUME NEW a \in AValues, NEW b \in BValues \cup {Null}, NEW logged \in BOOLEAN, Insert(a, b, logged)
      PROVE  IInv'
  BY <1>1, <1>2, InsertStep
<1>3. ASSUME NEW a \in AValues, NEW b \in BValues \cup {Null}, NEW t \in Texts, InsertTextRow(a, b, t)
      PROVE  IInv'
  BY <1>1, <1>3, InsertTextRowStep
<1>4. CASE InsertFails
  BY <1>1, <1>4, InsertFailsStep
<1>5. ASSUME NEW rid \in RID, NEW field \in Fields, NEW v \in ValuesOf(field), Update(rid, field, v)
      PROVE  IInv'
  BY <1>1, <1>5, UpdateStep
<1>6. ASSUME NEW rid \in RID, NEW t \in Texts, UpdateTextOf(rid, t)
      PROVE  IInv'
  BY <1>1, <1>6, UpdateTextOfStep
<1>7. ASSUME NEW rid \in RID, Delete(rid)
      PROVE  IInv'
  BY <1>1, <1>7, DeleteStep
<1>8. CASE Begin \/ End("commit") \/ End("rollback") \/ Finish
  BY <1>1, <1>8, ControlStep
<1>9. CASE CommitOne
  BY <1>1, <1>9, CommitOneStep
<1>10. CASE RollbackOne
  BY <1>1, <1>10, RollbackOneStep
<1>11. ASSUME NEW field \in Fields, NEW uniq \in BOOLEAN, CreateIndex(field, uniq)
       PROVE  IInv'
  BY <1>1, <1>11, CreateIndexStep
<1>12. CASE Reopen
  BY <1>1, <1>12, ReopenStep
<1>13. CASE UNCHANGED vars
  <2>1. UNCHANGED <<file, indexes, ops, multi, pc, nextRow, told, undo, harm>>
    BY <1>13 DEF vars
  <2>2. /\ multi \in BOOLEAN /\ pc \in Outcomes /\ (pc \in Ended => ~multi)
        /\ (pc = "idle" /\ ~multi => DOMAIN ops = {})
    BY <1>1 DEF IInv, Base
  <2>3. QED
    BY <1>1, <2>1, <2>2, QuietStep
<1>14. ASSUME NEW a \in AValues, NEW b \in BValues \cup {Null}, NEW logged \in BOOLEAN, InsertTwice(a, b, logged)
       PROVE  IInv'
  BY <1>1, <1>14, StopStep DEF InsertTwice
<1>15. ASSUME NEW a \in AValues, NEW b \in BValues \cup {Null}, InsertTextAborts(a, b)
       PROVE  IInv'
  BY <1>1, <1>15, StopStep DEF InsertTextAborts
<1>16. ASSUME NEW rid \in RID, NEW field \in Fields, NEW v \in ValuesOf(field), UpdateTwice(rid, field, v)
       PROVE  IInv'
  BY <1>1, <1>16, StopStep DEF UpdateTwice
<1>17. QED
  BY <1>1, <1>2, <1>3, <1>4, <1>5, <1>6, <1>7, <1>8, <1>9, <1>10, <1>11, <1>12, <1>13, <1>14, <1>15, <1>16
  DEF Next

\* IInv holds in every state that a table, its transaction and its client can
\* reach, whatever the sizes of the pages and of the file.
THEOREM Inductive == Spec => []IInv
<1>1. Init => IInv
  BY InitIInv
<1>2. IInv /\ [Next]_vars => IInv'
  BY NextIInv
<1>3. QED
  BY <1>1, <1>2, PTL DEF Spec

\* The rows of the file, the entries of the indexes, the operations of the
\* transaction and the rows of the client keep their types.
THEOREM Typing == Spec => []TypeOK
<1>1. IInv => TypeOK
  <2>1. SUFFICES ASSUME Base PROVE TypeOK
    BY DEF IInv
  <2>2. file \in Files
    BY <2>1 DEF Base, FileOk
  <2>3. \A p \in PageNum : file.pages[p].rows \in [SlotNum -> Cells]
    BY <2>2, FileParts
  <2>4. \A p \in PageNum : \A s \in SlotNum : file.pages[p].rows[s] \in RowType \cup {NoRow, Garbage}
    BY <2>3 DEF Cells
  <2>5. file.count \in 1 .. MaxPage + 1 /\ file.cur \in 0 .. MaxPage
    BY <2>2, FileParts
  <2>6. \A i \in DOMAIN indexes : indexes[i].entries \subseteq ValuesOf(indexes[i].field) \X RID
    BY <2>1 DEF Base, IxOk
  <2>7. QED
    BY <2>1, <2>4, <2>5, <2>6 DEF Base, TypeOK, Outcomes, Ended
<1>2. QED
  BY <1>1, Inductive, PTL

\* RecordFileHandler::insert_record never goes on with a page that
\* delete_record disposed of, whatever harm was done to the table.
THEOREM PageStays == Spec => []CurrentPageStays
<1>1. IInv => CurrentPageStays
  BY DEF IInv, Base, FileOk, CurrentPageStays
<1>2. QED
  BY <1>1, Inductive, PTL

\* Trx::commit and Trx::rollback find the page of every row they have an
\* operation for, the rows that an index refused included, unless the slot of
\* an operation or a disposed page was used again.
THEOREM AllOperationsFound == Spec => []OperationsFound
<1>1. IInv => OperationsFound
  BY DEF IInv, OpsInv, OperationsFound, Unhurt, ForOps, HeldIn, Defined
<1>2. QED
  BY <1>1, Inductive, PTL

\* The indexes of a table have exactly the entries of the rows of its file
\* after every statement, commit, rollback and restart, as long as no index
\* refused an UPDATE or left the entry of a refused row, none was created next
\* to a deletion, and no text got a used page.
THEOREM IndexesAgree == Spec => []IndexAgrees
<1>1. IInv => IndexAgrees
  <2>1. SUFFICES ASSUME IInv, Unhurt(ForIndexes), NEW i \in DOMAIN indexes
                 PROVE  indexes[i].entries =
                          {<<RowAt(rid)[indexes[i].field], rid>> :
                             rid \in {r \in Scanned(file) : RowAt(r)[indexes[i].field] # Null}}
    BY DEF IndexAgrees, Unhurt, ForIndexes
  <2>2. CoversAll(file, indexes) /\ NoneDangles(file, indexes) /\ IxOk(indexes)
    BY <2>1, UnhurtToo DEF IInv, EntriesInv, IndexesInv, Base
  <2>3. \A rid : RowAt(rid) = At(file, rid)
    BY DEF RowAt, At
  <2>4. ASSUME NEW e \in indexes[i].entries
        PROVE  \E rid \in Scanned(file) : /\ RowAt(rid)[indexes[i].field] # Null
                                          /\ e = <<RowAt(rid)[indexes[i].field], rid>>
    <3>1. e[1] # Null /\ e[2] \in Scanned(file) /\ At(file, e[2])[indexes[i].field] = e[1]
      BY <2>1, <2>2, <2>4 DEF NoneDangles, EntryOf
    <3>2. e \in ValuesOf(indexes[i].field) \X RID
      BY <2>1, <2>2, <2>4 DEF IxOk
    <3>3. e = <<e[1], e[2]>>
      BY <3>2
    <3>4. QED
      BY <2>3, <3>1, <3>3
  <2>5. ASSUME NEW rid \in Scanned(file), RowAt(rid)[indexes[i].field] # Null
        PROVE  <<RowAt(rid)[indexes[i].field], rid>> \in indexes[i].entries
    BY <2>1, <2>2, <2>3, <2>5 DEF CoversAll, Covered
  <2>6. QED
    BY <2>4, <2>5
<1>2. QED
  BY <1>1, Inductive, PTL

\* Until the server restarts, two live rows of a table do not have the same
\* value in a field with a unique index (BplusTreeIndex::insert_entry), with
\* the exceptions above but for the refused row. Table::open makes the index
\* one that is not unique, and nothing is shown of the rows inserted then.
THEOREM UniqueKept == Spec => []UniqueRows
<1>1. IInv => UniqueRows
  <2>1. SUFFICES ASSUME IInv, Unhurt(ForEntries), NEW i \in DOMAIN indexes, indexes[i].unique,
                        NEW q \in LiveRids, NEW r \in LiveRids,
                        RowAt(q)[indexes[i].field] = RowAt(r)[indexes[i].field],
                        RowAt(q)[indexes[i].field] # Null
                 PROVE  q = r
    BY DEF UniqueRows, Unhurt, ForEntries
  <2>2. CoversAll(file, indexes) /\ IxOk(indexes) /\ Base
    BY <2>1 DEF IInv, EntriesInv, Base
  <2>3. q \in Scanned(file) /\ r \in Scanned(file) /\ RowAt(q) = At(file, q) /\ RowAt(r) = At(file, r)
    BY <2>1, <2>2, Views
  <2>4. PICK v : v = At(file, q)[indexes[i].field]
    OBVIOUS
  <2>5. <<v, q>> \in indexes[i].entries /\ <<v, r>> \in indexes[i].entries
    BY <2>1, <2>2, <2>3, <2>4 DEF CoversAll, Covered
  <2>6. \A d, e \in indexes[i].entries : d[1] = e[1] => d = e
    BY <2>1, <2>2 DEF IxOk
  <2>7. <<v, q>> = <<v, r>>
    BY <2>5, <2>6
  <2>8. QED
    BY <2>7
<1>2. QED
  BY <1>1, Inductive, PTL

\* Between two statements a scan finds the rows that the client was told are
\* in the table, each once, with its values and its text, also after
\* restarts and the rollback of insertions and deletions. The harms that
\* RowsKept names are left out: those of an UPDATE (which a ROLLBACK does not
\* undo), of the deletion of an own row, of LOAD DATA and of a text.
THEOREM AllRowsKept == Spec => []RowsKept
<1>1. IInv => RowsKept
  <2>1. SUFFICES ASSUME IInv, Unhurt(ForValues)
                 PROVE  /\ {RowAt(rid).id : rid \in LiveRids} = DOMAIN told
                        /\ \A rid \in LiveRids :
                             ValueOf(RowAt(rid), TextOf(RowAt(rid))) = told[RowAt(rid).id]
                        /\ \A q, r \in LiveRids : RowAt(q).id = RowAt(r).id => q = r
    BY DEF RowsKept, AsTold, Unhurt, ForValues
  <2>2. Base /\ Ids(file, nextRow) /\ Shown(file, told) /\ TextsOk(file)
    BY <2>1, UnhurtToo DEF IInv, ValuesInv, Told, RowsInv
  <2>3. \A rid : RowAt(rid) = At(file, rid)
    BY DEF RowAt, At
  <2>4. \A rid : rid \in LiveRids <=> rid \in RID /\ Live(file, rid)
    <3>1. \A rid \in Scanned(file) : rid \in RID /\ At(file, rid) # Garbage
      BY <2>2 DEF Scanned, TextsOk
    <3>2. QED
      BY <2>2, <3>1, Views DEF Live
  <2>5. {RowAt(rid).id : rid \in LiveRids} = DOMAIN told
    BY <2>2, <2>3, <2>4 DEF Shown
  <2>6. ASSUME NEW rid \in LiveRids PROVE ValueOf(RowAt(rid), TextOf(RowAt(rid))) = told[RowAt(rid).id]
    <3>1. ValueIn(file, rid) = told[RowAt(rid).id]
      BY <2>2, <2>3, <2>4, <2>6 DEF Shown
    <3>2. QED
      BY <2>3, <3>1 DEF ValueIn, TextIn, TextOf
  <2>7. \A q, r \in LiveRids : RowAt(q).id = RowAt(r).id => q = r
    BY <2>2, <2>3, <2>4 DEF Ids, Live
  <2>8. QED
    BY <2>5, <2>6, <2>7
<1>2. QED
  BY <1>1, Inductive, PTL
=============================================================================
