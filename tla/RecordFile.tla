----------------------------- MODULE RecordFile -----------------------------
(***************************************************************************)
(* The file of a table's records: RecordPageHandler, RecordFileHandler and *)
(* RecordFileScanner as operators on the file.                             *)
(*                                                                         *)
(* A page has the capacity its header says (0 on a page of zeros), a row   *)
(* or nothing in each slot, and perhaps a text, which shares its bytes     *)
(* with the slots. The handler keeps the page of the last insertion        *)
(* pinned (`cur'). Pages are kept by the page cache, which does not clear  *)
(* a page it hands out again.                                              *)
(*                                                                         *)
(* Bound: MaxPage pages besides the header page.                           *)
(***************************************************************************)
EXTENDS Integers, FiniteSets, FiniteSetsExt

CONSTANTS Capacity, \* rows of a page, page_record_capacity
          MaxPage   \* bound on the pages of the file

ASSUME CapacityAssumption == Capacity \in Nat \ {0}
ASSUME MaxPageAssumption == MaxPage \in Nat \ {0}

PageNum == 1 .. MaxPage
SlotNum == 1 .. Capacity
RID == PageNum \X SlotNum

NoRow == [id |-> 0]
Garbage == [id |-> -1]  \* a slot that bytes of a text are taken for
NoText == "none"

EmptySlots == [s \in SlotNum |-> NoRow]

\* A page of zeros, and init_empty_page
ZeroPage == [alloc |-> TRUE, cap |-> 0, rows |-> EmptySlots, text |-> NoText]
EmptyPage == [ZeroPage EXCEPT !.cap = Capacity]

NewFile == [pages |-> [p \in PageNum |-> [ZeroPage EXCEPT !.alloc = FALSE]],
            count |-> 1, cur |-> 0]

----------------------------------------------------------------------------
(* Pages *)

Allocated(f, p) == p \in PageNum /\ p < f.count /\ f.pages[p].alloc
Used(page) == {s \in SlotNum : page.rows[s] # NoRow}
IsFull(page) == Cardinality(Used(page)) >= page.cap

\* allocate_page takes the first free page, or makes the file longer
FreePages(f) == {p \in PageNum : p < f.count /\ ~f.pages[p].alloc}
CanAllocate(f) == FreePages(f) # {} \/ f.count <= MaxPage
NextPage(f) == IF FreePages(f) # {} THEN Min(FreePages(f)) ELSE f.count
WithPage(f, p, page) ==
  [f EXCEPT !.pages[p] = page, !.count = IF p < @ THEN @ ELSE p + 1]

\* RecordPageHandler::get_record: error code, and the row if there is none
Fetched(f, rid) ==
  LET page == f.pages[rid[1]] IN
  IF rid[2] > page.cap THEN [rc |-> "INVALIDRID"]
  ELSE IF page.rows[rid[2]] = NoRow THEN [rc |-> "NOT_EXIST"]
  ELSE [rc |-> "SUCCESS", row |-> page.rows[rid[2]]]

----------------------------------------------------------------------------
(* RecordFileHandler *)

\* get_record loses the error for a page that is not allocated: the caller
\* goes on with a record that was never set. `Defined' says that it was.
Defined(f, rid) == Allocated(f, rid[1])
Found(f, rid) == Defined(f, rid) /\ Fetched(f, rid).rc = "SUCCESS"

\* update_record
UpdateRecord(f, rid, row) ==
  IF Found(f, rid)
  THEN [f EXCEPT !.pages[rid[1]].rows[rid[2]] = row]
  ELSE f

\* Mutant: an empty page is disposed of although the insertions have it pinned.
DisposesPinned(f, rid) ==
  IF ~Found(f, rid) THEN f
  ELSE IF Used(f.pages[rid[1]]) = {rid[2]}
       THEN [f EXCEPT !.pages[rid[1]].alloc = FALSE]
       ELSE [f EXCEPT !.pages[rid[1]].rows[rid[2]] = NoRow]

\* delete_record: an empty page is disposed of, unless it is pinned by the
\* insertions. The frame is dropped, so that the file keeps an older image
\* of the page, here the one with the last row.
DeleteRecord(f, rid) ==
  LET page == f.pages[rid[1]] IN
  IF ~Found(f, rid) THEN f
  ELSE IF Used(page) = {rid[2]} /\ f.cur # rid[1]
       THEN [f EXCEPT !.pages[rid[1]].alloc = FALSE]
       ELSE [f EXCEPT !.pages[rid[1]].rows[rid[2]] = NoRow]

\* The pages insert_record tries, in order: the step grows by one each time,
\* so that some pages may be passed over.
Tried(start, count) == [i \in 0 .. count - 1 |-> (start + (i * (i + 1)) \div 2) % count]

\* Is the first page loaded at the first insertion there?
FirstPageMissing(f) == f.cur = 0 /\ f.count >= 2 /\ ~Allocated(f, 1)

\* The tries that find room. A disposed page is passed over: the handler still
\* shows the page tried before, which was full.
Fitting(f) ==
  LET start == IF f.cur = 0 /\ f.count >= 2 THEN 1 ELSE f.cur
      tried == Tried(start, f.count)
  IN {i \in DOMAIN tried : Allocated(f, tried[i]) /\ ~IsFull(f.pages[tried[i]])}

\* The file and the page with room that insert_record goes on with
RoomFor(f) ==
  LET start == IF f.cur = 0 /\ f.count >= 2 THEN 1 ELSE f.cur
      fit == Fitting(f)
  IN IF fit # {}
     THEN LET p == Tried(start, f.count)[Min(fit)] IN [f EXCEPT !.cur = p]
     ELSE [WithPage(f, NextPage(f), EmptyPage) EXCEPT !.cur = NextPage(f)]

\* May insert_record succeed? (The second conjunct is the bound.)
CanInsert(f) == ~FirstPageMissing(f) /\ (Fitting(f) # {} \/ CanAllocate(f))

\* insert_record: the file afterwards and the new row's RID. Writing a row on
\* a page that has a text destroys the text.
InsertRecord(f, row) ==
  LET g == RoomFor(f)
      slot == Min(SlotNum \ Used(g.pages[g.cur]))
  IN [file |-> [g EXCEPT !.pages[g.cur].rows[slot] = row, !.pages[g.cur].text = NoText],
      rid |-> <<g.cur, slot>>]

\* insert_text_data on page p: a page at the end of the file is zero, a page
\* that was disposed of keeps its header and the bits of its rows if that
\* image was ever written back.
TextPages(f, p, t) ==
  LET old == f.pages[p] IN
  {[ZeroPage EXCEPT !.text = t]} \cup
  (IF p < f.count
   THEN {[old EXCEPT !.alloc = TRUE, !.text = t,
                     !.rows = [s \in SlotNum |-> IF @[s] = NoRow THEN NoRow ELSE Garbage]]}
   ELSE {})

\* update_text_data clears the whole page first.
UpdateText(f, p, t) == [f EXCEPT !.pages[p] = [ZeroPage EXCEPT !.text = t]]

\* delete_text_data makes the page an empty page of rows.
DeleteText(f, p) == [f EXCEPT !.pages[p] = EmptyPage]

----------------------------------------------------------------------------
(* RecordFileScanner *)

\* The rows of a scan of the whole file
Scanned(f) ==
  {rid \in RID : Allocated(f, rid[1]) /\ f.pages[rid[1]].cap >= rid[2]
                 /\ f.pages[rid[1]].rows[rid[2]] # NoRow}

\* get_next_record returns what the last page tried returned, which is not
\* RECORD_EOF if that page is not allocated.
ScanEnd(f) ==
  IF f.count = 1 \/ Allocated(f, f.count - 1) THEN "EOF" ELSE "INVALID_PAGE_NUM"
=============================================================================
