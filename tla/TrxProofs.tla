----------------------------- MODULE TrxProofs -----------------------------
(***************************************************************************)
(* Proofs about Trx for any number of sessions, slots, transactions and    *)
(* rows: a removed row stays removed, stamps are tracked, and transactions *)
(* that do not overlap leave the table with what was committed.            *)
(***************************************************************************)
EXTENDS Trx, WellFoundedInduction, TLAPS

\* Ids are handed out in order, so no stamp is ahead of the counter and no
\* two open transactions have the same id.
IdsFresh ==
  /\ \A s \in Session : trxId[s] <= nextId
  /\ \A r \in Rid : mem[r].id <= nextId /\ disk[r].id <= nextId
  /\ \A s, u \in Session : Open(s) /\ trxId[s] = trxId[u] => s = u

\* A session without a transaction has done nothing.
ClosedEmpty ==
  \A s \in Session : ~Open(s) => ops[s] = NoOps /\ inserted[s] = {} /\ deleted[s] = {}

\* A clean frame has the rows of the file, whatever their stamps.
SameRows == ~dirty => \A r \in Rid : disk[r].row = mem[r].row

\* What the file would bring back on an eviction is tracked as well.
DiskTracked ==
  ~dirty => \A s \in Session, r \in Rid :
    (Open(s) /\ disk[r].id = trxId[s]) => (ops[s][r] # "NONE" \/ disk[r].row \in leaked)

\* No row is in two slots, and no row is ahead of the counter.
RowsOnce ==
  /\ \A r, q \in Rid : mem[r].row # NoRow /\ mem[r].row = mem[q].row => r = q
  /\ \A r \in Rid : mem[r].row <= nextRow
  /\ \A row \in committed : row <= nextRow
  /\ \A s \in Session : \A row \in inserted[s] : row <= nextRow

\* As long as transactions do not overlap, there is one at a time, and what
\* the client was told of its transaction is what its operations are for.
OneAtATime == \A s, u \in Session : Open(s) /\ Open(u) => s = u
OpsMatch ==
  \A s \in Session, r \in Rid :
    /\ ops[s][r] = "INSERT" => mem[r].row \in inserted[s] \cup {NoRow}
    /\ ops[s][r] = "DELETE" => mem[r].row \in deleted[s]
ToldMatch ==
  \A s \in Session :
    /\ \A row \in inserted[s] : /\ row \notin committed
                                /\ \E r \in Rid : ops[s][r] = "INSERT" /\ mem[r].row = row
    /\ \A row \in deleted[s] : \E r \in Rid : ops[s][r] = "DELETE" /\ mem[r].row = row
RowsKnown ==
  /\ \A r \in Rid : \/ mem[r].row \in committed \cup leaked \cup {NoRow}
                    \/ \E s \in Session : ops[s][r] = "INSERT"
  /\ \A row \in committed : \E r \in Rid : mem[r].row = row
NoOverlap == ~overlap => OneAtATime /\ OpsMatch /\ ToldMatch /\ RowsKnown

IInv ==
  /\ TypeOK /\ IdsFresh /\ ClosedEmpty /\ SameRows
  /\ StampsTracked /\ DiskTracked /\ RowsOnce /\ NoOverlap
-----------------------------------------------------------------------------
(* Slots *)

\* A slot without a row is free; a row and an id are numbers.
LEMMA SlotFacts ==
  ASSUME NEW slot \in Slot
  PROVE  /\ slot = Free <=> slot.row = NoRow
         /\ slot.row \in Row \cup {NoRow} /\ slot.row \in Nat
         /\ slot.id \in 0 .. MaxTrx /\ slot.id \in Nat /\ slot.del \in BOOLEAN
         /\ slot = Free => slot.id = 0
<1>1. CASE slot = Free
  BY <1>1, TrxAssumption DEF Free, NoRow
<1>2. CASE slot \in [row : Row, id : 0 .. MaxTrx, del : BOOLEAN]
  <2>1. slot.row \in Row /\ slot.id \in 0 .. MaxTrx /\ slot.del \in BOOLEAN
    BY <1>2
  <2>2. slot.row # NoRow /\ slot.row \in Nat /\ slot.id \in Nat
    BY <2>1, TrxAssumption DEF NoRow, Row
  <2>3. slot # Free
    BY <2>2 DEF Free
  <2>4. QED
    BY <2>1, <2>2, <2>3
<1>3. QED
  BY <1>1, <1>2 DEF Slot

\* commit_insert and rollback_delete keep the row and take its stamp.
LEMMA UnstampedLemma ==
  ASSUME NEW slot \in Slot
  PROVE  /\ Unstamped(slot) \in Slot
         /\ Unstamped(slot).row = slot.row
         /\ Unstamped(slot).id = 0
<1>1. CASE slot = Free
  BY <1>1, SlotFacts DEF Unstamped
<1>2. CASE slot # Free
  BY <1>2, TrxAssumption DEF Unstamped, Slot
<1>3. QED
  BY <1>1, <1>2

\* What commit makes of a slot: a row that was to be deleted is gone, every
\* other row stays, and no slot gets a stamp it did not have.
LEMMA CommitSlotLemma ==
  ASSUME NEW slot \in Slot, NEW op
  PROVE  LET n == CommitSlot(op, slot)
         IN  /\ n \in Slot /\ n.id \in {0, slot.id}
             /\ op = "DELETE" => n = Free
             /\ op # "DELETE" => n.row = slot.row
<1>1. CASE op = "INSERT"
  BY <1>1, UnstampedLemma DEF CommitSlot
<1>2. CASE op = "DELETE"
  BY <1>2 DEF CommitSlot, Free, Slot
<1>3. CASE op \notin {"INSERT", "DELETE"}
  BY <1>3 DEF CommitSlot
<1>4. QED
  BY <1>1, <1>2, <1>3

\* What rollback makes of a slot: an inserted row is gone, every other stays.
LEMMA RollbackSlotLemma ==
  ASSUME NEW slot \in Slot, NEW op
  PROVE  LET n == RollbackSlot(op, slot)
         IN  /\ n \in Slot /\ n.id \in {0, slot.id}
             /\ op = "INSERT" => n = Free
             /\ op # "INSERT" => n.row = slot.row
<1>1. CASE op = "DELETE"
  BY <1>1, UnstampedLemma DEF RollbackSlot
<1>2. CASE op = "INSERT"
  BY <1>2 DEF RollbackSlot, Free, Slot
<1>3. CASE op \notin {"INSERT", "DELETE"}
  BY <1>3 DEF RollbackSlot
<1>4. QED
  BY <1>1, <1>2, <1>3

\* A non-empty set of slots has a first one, which is the one next_unsetted_bit finds.
LEMMA FirstFreeLemma ==
  ASSUME FreeRids # {}
  PROVE  FirstFree \in Rid /\ mem[FirstFree] = Free
<1> DEFINE S == FreeRids
           R == {ss \in Nat \X Nat : ss[1] < ss[2]}
<1>1. S \subseteq Nat
  BY TrxAssumption DEF FreeRids, Rid
<1>2. IsWellFoundedOn(R, Nat)
  BY NatLessThanWellFounded, Zenon DEF OpToRel
<1> HIDE DEF R, S
<1>3. PICK p \in S : \A q \in S : ~(<<q, p>> \in R)
  BY <1>1, <1>2, WFMin DEF S
<1>4. \A q \in S : ~(q < p)
  BY <1>1, <1>3 DEF R
<1>5. \A q \in S : p <= q
  BY <1>1, <1>4
<1>6. FirstFree \in S
  BY <1>3, <1>5, Zenon DEF FirstFree, S
<1>7. QED
  BY <1>6 DEF S, FreeRids

-----------------------------------------------------------------------------
(* Starting a transaction *)

\* start_if_not_started leaves the session with an id that no stamp has yet,
\* unless it had one already.
LEMMA StartedLemma ==
  ASSUME IInv, NEW s \in Session, Started(s)
  PROVE  /\ trxId' \in [Session -> 0 .. MaxTrx] /\ nextId' \in 0 .. MaxTrx
         /\ nextId <= nextId' /\ trxId'[s] # 0 /\ trxId'[s] <= nextId'
         /\ \A u \in Session \ {s} : trxId'[u] = trxId[u]
         /\ \A u \in Session : trxId'[u] <= nextId'
         /\ IF trxId[s] = 0 THEN nextId < trxId'[s] ELSE trxId'[s] = trxId[s]
         /\ \A u, v \in Session : trxId'[u] # 0 /\ trxId'[u] = trxId'[v] => u = v
         /\ overlap' \in BOOLEAN /\ (~overlap' => ~overlap)
         /\ ~overlap' => OneAtATime'
<1>0. /\ trxId \in [Session -> 0 .. MaxTrx] /\ nextId \in 0 .. MaxTrx /\ overlap \in BOOLEAN
      /\ \A u \in Session : trxId[u] <= nextId
      /\ \A u, v \in Session : trxId[u] # 0 /\ trxId[u] = trxId[v] => u = v
  BY DEF IInv, TypeOK, IdsFresh, Open
<1>1. CASE trxId[s] = 0
  <2>1. /\ nextId < MaxTrx /\ nextId' = nextId + 1
        /\ trxId' = [trxId EXCEPT ![s] = nextId + 1]
        /\ overlap' = (overlap \/ \E u \in Session \ {s} : trxId[u] # 0)
    BY <1>1 DEF Started
  <2>2. nextId' \in 0 .. MaxTrx /\ nextId + 1 \in 0 .. MaxTrx
    BY <1>0, <2>1, TrxAssumption
  <2>3. /\ trxId' \in [Session -> 0 .. MaxTrx] /\ trxId'[s] = nextId + 1
        /\ \A u \in Session \ {s} : trxId'[u] = trxId[u]
    BY <1>0, <2>1, <2>2
  <2>4. \A u \in Session : trxId'[u] <= nextId'
    BY <1>0, <2>1, <2>3, TrxAssumption
  <2>5. ASSUME NEW u \in Session, NEW v \in Session, trxId'[u] # 0, trxId'[u] = trxId'[v]
        PROVE  u = v
    BY <1>0, <2>1, <2>3, <2>5, TrxAssumption
  <2>6. ASSUME ~overlap' PROVE OneAtATime'
    <3>1. \A u \in Session \ {s} : trxId[u] = 0
      BY <2>1, <2>6, Zenon
    <3>2. QED
      BY <3>1, <2>3 DEF OneAtATime, Open
  <2>7. overlap' \in BOOLEAN /\ (~overlap' => ~overlap)
    BY <1>0, <2>1
  <2>8. nextId <= nextId' /\ trxId'[s] # 0 /\ trxId'[s] <= nextId' /\ nextId < trxId'[s]
    BY <1>0, <2>1, <2>3
  <2>9. QED
    BY <1>1, <2>2, <2>3, <2>4, <2>5, <2>6, <2>7, <2>8
<1>2. CASE trxId[s] # 0
  <2>1. nextId' = nextId /\ trxId' = trxId /\ overlap' = overlap
    BY <1>2 DEF Started
  <2>2. ~overlap' => OneAtATime'
    BY <2>1 DEF IInv, NoOverlap, OneAtATime, Open
  <2>3. nextId <= nextId
    BY <1>0, TrxAssumption
  <2>4. QED
    BY <1>0, <1>2, <2>1, <2>2, <2>3
<1>3. QED
  BY <1>1, <1>2

-----------------------------------------------------------------------------
(* The steps *)

\* Init satisfies the invariant: the table is empty and nobody has a transaction.
LEMMA InitInv == Init => IInv
<1> SUFFICES ASSUME Init PROVE IInv
  OBVIOUS
<1>0. /\ mem = [r \in Rid |-> Free] /\ disk = mem /\ dirty = FALSE
      /\ trxId = [s \in Session |-> 0] /\ ops = [s \in Session |-> NoOps]
      /\ nextId = 0 /\ nextRow = 0 /\ inserted = [s \in Session |-> {}]
      /\ deleted = [s \in Session |-> {}] /\ committed = {} /\ leaked = {} /\ overlap = FALSE
  BY DEF Init
<1>1. TypeOK
  <2>1. mem \in [Rid -> Slot] /\ disk \in [Rid -> Slot]
    BY <1>0 DEF Slot
  <2>2. ops \in [Session -> [Rid -> {"NONE", "INSERT", "DELETE"}]]
    BY <1>0 DEF NoOps
  <2>3. nextId \in 0 .. MaxTrx /\ nextRow \in 0 .. MaxRow /\ trxId \in [Session -> 0 .. MaxTrx]
    BY <1>0, TrxAssumption
  <2>4. QED
    BY <1>0, <2>1, <2>2, <2>3 DEF Init, TypeOK
<1>2. IdsFresh /\ RowsOnce
  BY <1>0 DEF IdsFresh, RowsOnce, Open, Free, NoRow
<1>3. ClosedEmpty /\ SameRows
  BY <1>0 DEF ClosedEmpty, SameRows
<1>4. StampsTracked /\ DiskTracked
  BY <1>0 DEF StampsTracked, DiskTracked, Open
<1>5. NoOverlap
  BY <1>0 DEF NoOverlap, OneAtATime, OpsMatch, ToldMatch, RowsKnown, Open, NoOps, Free, NoRow
<1>6. QED
  BY <1>1, <1>2, <1>3, <1>4, <1>5 DEF IInv

\* A step that changes no row, stamp or operation preserves the invariant; it
\* may mark the page dirty.
LEMMA QuietLemma ==
  ASSUME IInv, TypeOK', dirty => dirty',
         UNCHANGED <<mem, disk, trxId, ops, nextId, nextRow,
                     inserted, deleted, committed, leaked, overlap>>
  PROVE  IInv'
<1>1. IdsFresh' /\ ClosedEmpty'
  BY DEF IInv, IdsFresh, ClosedEmpty, Open
<1>2. SameRows' /\ DiskTracked'
  BY DEF IInv, SameRows, DiskTracked, Open
<1>3. StampsTracked' /\ RowsOnce'
  BY DEF IInv, StampsTracked, RowsOnce, Open
<1>4. NoOverlap'
  BY DEF IInv, NoOverlap, OneAtATime, OpsMatch, ToldMatch, RowsKnown, Open
<1>5. QED
  BY <1>1, <1>2, <1>3, <1>4 DEF IInv

\* BEGIN preserves the invariant.
LEMMA BeginInv ==
  ASSUME IInv, NEW s \in Session, Begin(s)
  PROVE  IInv'
<1>1. TypeOK'
  BY DEF IInv, TypeOK, Begin, page, told
<1>2. QED
  BY <1>1, QuietLemma DEF Begin, page, told

\* Where After leads to.
LEMMA AfterLemma ==
  ASSUME TypeOK, NEW s \in Session, NEW rc \in {"commit", "rollback"}, After(s, rc)
  PROVE  pc' \in [Session -> {"idle", "commit", "rollback"}]
BY DEF TypeOK, After

\* UPDATE preserves the invariant: it changes the row in place.
LEMMA UpdateInv ==
  ASSUME IInv, NEW s \in Session, NEW r \in Rid, Update(s, r)
  PROVE  IInv'
<1>1. TypeOK'
  BY AfterLemma DEF IInv, TypeOK, Update, told
<1>2. QED
  BY <1>1, QuietLemma DEF Update, told

\* An eviction preserves the invariant: a clean frame comes back with the same
\* rows, and with stamps that are tracked.
LEMMA EvictInv ==
  ASSUME IInv, Evict
  PROVE  IInv'
<1>0. /\ TypeOK /\ dirty' = FALSE /\ mem' = disk' /\ disk' = IF dirty THEN mem ELSE disk
      /\ UNCHANGED <<trxId, ops, multi, pc, nextId, nextRow, inserted, deleted,
                     committed, leaked, overlap>>
  BY DEF IInv, Evict, told
<1>1. mem' \in [Rid -> Slot] /\ disk' \in [Rid -> Slot]
  BY <1>0 DEF TypeOK
<1>2. TypeOK'
  BY <1>0, <1>1 DEF TypeOK
<1>3. \A r \in Rid : mem'[r].row = mem[r].row
  BY <1>0 DEF IInv, SameRows
<1>4. IdsFresh'
  BY <1>0 DEF IInv, IdsFresh, Open
<1>5. ClosedEmpty' /\ SameRows'
  BY <1>0 DEF IInv, ClosedEmpty, SameRows, Open
<1>6. \A s \in Session, r \in Rid :
        (Open(s) /\ mem'[r].id = trxId[s]) => (ops[s][r] # "NONE" \/ mem'[r].row \in leaked)
  BY <1>0 DEF IInv, StampsTracked, DiskTracked
<1>7. StampsTracked' /\ DiskTracked'
  BY <1>0, <1>6 DEF StampsTracked, DiskTracked, Open
<1>8. RowsOnce'
  BY <1>0, <1>3 DEF IInv, RowsOnce
<1>9. NoOverlap'
  BY <1>0, <1>3 DEF IInv, NoOverlap, OneAtATime, OpsMatch, ToldMatch, RowsKnown, Open
<1>10. QED
  BY <1>2, <1>4, <1>5, <1>7, <1>8, <1>9 DEF IInv

\* Ending a transaction, for whatever reason, preserves the invariant but for
\* NoOverlap: its operations are gone with its id.
LEMMA CloseLemma ==
  ASSUME IInv, NEW s \in Session, Close(s),
         mem' \in [Rid -> Slot],
         \A r \in Rid : mem'[r].id \in {0, mem[r].id} /\ mem'[r].row \in {mem[r].row, NoRow},
         dirty' \in BOOLEAN,
         ~dirty' => ~dirty /\ \A r \in Rid : mem'[r].row = mem[r].row,
         committed' \subseteq committed \cup inserted[s],
         leaked' \subseteq leaked \cup inserted[s], leaked \subseteq leaked',
         UNCHANGED <<disk, nextId, nextRow, overlap>>
  PROVE  /\ TypeOK' /\ IdsFresh' /\ ClosedEmpty' /\ SameRows'
         /\ StampsTracked' /\ DiskTracked' /\ RowsOnce'
         /\ ~overlap => OneAtATime'
         /\ ops'[s] = NoOps /\ inserted'[s] = {} /\ deleted'[s] = {}
         /\ \A u \in Session \ {s} : /\ ops'[u] = ops[u] /\ inserted'[u] = inserted[u]
                                     /\ deleted'[u] = deleted[u]
<1>0. /\ TypeOK /\ IdsFresh
      /\ ops' = [ops EXCEPT ![s] = NoOps] /\ trxId' = [trxId EXCEPT ![s] = 0]
      /\ multi' = [multi EXCEPT ![s] = FALSE] /\ pc' = [pc EXCEPT ![s] = "idle"]
      /\ inserted' = [inserted EXCEPT ![s] = {}] /\ deleted' = [deleted EXCEPT ![s] = {}]
  BY DEF IInv, Close
<1>1. /\ ops'[s] = NoOps /\ inserted'[s] = {} /\ deleted'[s] = {} /\ trxId'[s] = 0
      /\ \A u \in Session \ {s} : /\ ops'[u] = ops[u] /\ inserted'[u] = inserted[u]
                                  /\ deleted'[u] = deleted[u] /\ trxId'[u] = trxId[u]
  BY <1>0 DEF TypeOK
<1>2. \A r \in Rid : /\ mem[r].id \in Nat /\ mem[r].row \in Nat
                     /\ mem'[r].id \in Nat /\ mem'[r].row \in Nat
  BY <1>0, SlotFacts DEF TypeOK
<1>3. TypeOK'
  <2>1. NoOps \in [Rid -> {"NONE", "INSERT", "DELETE"}] /\ 0 \in 0 .. MaxTrx
    BY TrxAssumption DEF NoOps
  <2>2. committed' \subseteq Row /\ leaked' \subseteq Row
    BY <1>0 DEF TypeOK
  <2>3. QED
    BY <1>0, <2>1, <2>2 DEF TypeOK
<1>4. IdsFresh'
  <2>1. \A u \in Session : trxId'[u] <= nextId'
    BY <1>0, <1>1, TrxAssumption DEF IdsFresh, TypeOK
  <2>2. ASSUME NEW r \in Rid PROVE mem'[r].id <= nextId' /\ disk'[r].id <= nextId'
    <3>1. nextId \in Nat /\ nextId' = nextId /\ disk' = disk
      BY <1>0, TrxAssumption DEF TypeOK
    <3>2. mem[r].id <= nextId /\ disk[r].id <= nextId /\ mem'[r].id \in {0, mem[r].id}
      BY <1>0 DEF IdsFresh
    <3>3. QED
      BY <3>1, <3>2
  <2>3. \A u, v \in Session : trxId'[u] # 0 /\ trxId'[u] = trxId'[v] => u = v
    BY <1>0, <1>1 DEF IdsFresh, Open
  <2>4. QED
    BY <2>1, <2>2, <2>3 DEF IdsFresh, Open
<1>5. ClosedEmpty'
  BY <1>1 DEF IInv, ClosedEmpty, Open, NoOps
<1>6. SameRows'
  BY DEF IInv, SameRows
<1>7. StampsTracked'
  <2> SUFFICES ASSUME NEW u \in Session, NEW r \in Rid, trxId'[u] # 0, mem'[r].id = trxId'[u]
               PROVE  ops'[u][r] # "NONE" \/ mem'[r].row \in leaked'
    BY DEF StampsTracked, Open
  <2>1. u # s /\ trxId'[u] = trxId[u] /\ ops'[u] = ops[u]
    BY <1>1
  <2>2. mem[r].id = trxId[u] /\ Open(u)
    BY <2>1 DEF Open
  <2>3. mem[r] \in Slot /\ mem'[r] \in Slot
    BY <1>0 DEF TypeOK
  <2>4. mem'[r].row = mem[r].row
    <3>1. mem'[r].id # 0
      OBVIOUS
    <3>2. mem'[r].row # NoRow
      BY <2>3, <3>1, SlotFacts
    <3>3. QED
      BY <3>2
  <2>5. QED
    BY <2>1, <2>2, <2>4 DEF IInv, StampsTracked
<1>8. DiskTracked'
  BY <1>1 DEF IInv, DiskTracked, Open
<1>9. RowsOnce'
  <2>0. RowsOnce /\ nextRow' = nextRow /\ nextRow \in Nat
    BY <1>0, TrxAssumption DEF IInv, TypeOK
  <2>1. ASSUME NEW r \in Rid, NEW q \in Rid, mem'[r].row # NoRow, mem'[r].row = mem'[q].row
        PROVE  r = q
    <3>1. mem[r].row = mem'[r].row /\ mem[q].row = mem'[q].row
      BY <2>1
    <3>2. QED
      BY <2>0, <2>1, <3>1 DEF RowsOnce
  <2>2. ASSUME NEW r \in Rid PROVE mem'[r].row <= nextRow
    <3>1. mem[r].row <= nextRow /\ mem'[r].row \in {mem[r].row, 0}
      BY <2>0 DEF RowsOnce, NoRow
    <3>2. QED
      BY <2>0, <3>1
  <2>3. \A row \in committed' : row <= nextRow
    BY <2>0 DEF RowsOnce
  <2>4. ASSUME NEW u \in Session, NEW row \in inserted'[u] PROVE row <= nextRow
    <3>1. u # s /\ row \in inserted[u]
      BY <1>1
    <3>2. QED
      BY <2>0, <3>1 DEF RowsOnce
  <2>5. QED
    BY <2>0, <2>1, <2>2, <2>3, <2>4 DEF RowsOnce
<1>10. ~overlap => OneAtATime'
  BY <1>1 DEF IInv, NoOverlap, OneAtATime, Open
<1>11. QED
  BY <1>1, <1>3, <1>4, <1>5, <1>6, <1>7, <1>8, <1>9, <1>10

\* delete_record marks the page dirty, so a row that goes leaves it dirty.
LEMMA DirtyLemma ==
  ASSUME TypeOK, mem' \in [Rid -> Slot], dirty' = DirtyAfter(mem'),
         \A r \in Rid : mem'[r] = Free \/ mem'[r].row = mem[r].row
  PROVE  /\ dirty' \in BOOLEAN
         /\ ~dirty' => ~dirty /\ \A r \in Rid : mem'[r].row = mem[r].row
<1>0. dirty \in BOOLEAN /\ dirty' = (dirty \/ \E r \in Rid : mem[r] # Free /\ mem'[r] = Free)
  BY DEF TypeOK, DirtyAfter
<1>1. dirty' \in BOOLEAN /\ (~dirty' => ~dirty /\ \A r \in Rid : mem[r] = Free \/ mem'[r] # Free)
  BY <1>0, Zenon
<1>2. \A r \in Rid : mem[r] = Free => mem[r].row = NoRow
  BY DEF Free
<1>3. \A r \in Rid : mem'[r] = Free => mem'[r].row = NoRow
  BY DEF Free
<1>4. QED
  BY <1>1, <1>2, <1>3, Zenon

\* COMMIT preserves the invariant.
LEMMA CommitInv ==
  ASSUME IInv, NEW s \in Session, Commit(s)
  PROVE  IInv'
<1>0. /\ TypeOK /\ Close(s)
      /\ mem' = [r \in Rid |-> CommitSlot(ops[s][r], mem[r])]
      /\ dirty' = DirtyAfter(mem')
      /\ committed' = (committed \cup inserted[s]) \ deleted[s]
      /\ UNCHANGED <<disk, nextId, nextRow, leaked, overlap>>
  BY DEF IInv, Commit
<1>1. /\ mem' \in [Rid -> Slot]
      /\ \A r \in Rid : /\ mem'[r].id \in {0, mem[r].id}
                        /\ ops[s][r] = "DELETE" => mem'[r] = Free
                        /\ ops[s][r] # "DELETE" => mem'[r].row = mem[r].row
  BY <1>0, CommitSlotLemma DEF TypeOK
<1>2. \A r \in Rid : /\ mem'[r].row \in {mem[r].row, NoRow}
                     /\ ops[s][r] = "DELETE" => mem'[r].row = NoRow
  BY <1>1 DEF Free
<1>3. dirty' \in BOOLEAN /\ (~dirty' => ~dirty /\ \A r \in Rid : mem'[r].row = mem[r].row)
  BY <1>0, <1>1, DirtyLemma
<1>4. /\ TypeOK' /\ IdsFresh' /\ ClosedEmpty' /\ SameRows'
      /\ StampsTracked' /\ DiskTracked' /\ RowsOnce'
      /\ ~overlap => OneAtATime'
      /\ ops'[s] = NoOps /\ inserted'[s] = {} /\ deleted'[s] = {}
      /\ \A u \in Session \ {s} : /\ ops'[u] = ops[u] /\ inserted'[u] = inserted[u]
                                  /\ deleted'[u] = deleted[u]
  BY <1>0, <1>1, <1>2, <1>3, CloseLemma
<1>5. ASSUME ~overlap PROVE OpsMatch' /\ ToldMatch' /\ RowsKnown'
  <2>0. OneAtATime /\ OpsMatch /\ ToldMatch /\ RowsKnown
    BY <1>5 DEF IInv, NoOverlap
  <2>1. CASE ~Open(s)
    <3>1. ops[s] = NoOps /\ inserted[s] = {} /\ deleted[s] = {}
      BY <2>1 DEF IInv, ClosedEmpty
    <3>2. \A u \in Session : ops'[u] = ops[u] /\ inserted'[u] = inserted[u] /\ deleted'[u] = deleted[u]
      BY <3>1, <1>4
    <3>3. committed' = committed /\ leaked' = leaked /\ \A r \in Rid : mem'[r].row = mem[r].row
      BY <3>1, <1>0, <1>1 DEF NoOps
    <3>4. OpsMatch' /\ RowsKnown'
      BY <2>0, <3>2, <3>3 DEF OpsMatch, RowsKnown
    <3>5. ToldMatch'
      BY <2>0, <3>2, <3>3 DEF ToldMatch
    <3>6. QED
      BY <3>4, <3>5
  <2>2. CASE Open(s)
    <3>1. \A u \in Session \ {s} : ops[u] = NoOps /\ inserted[u] = {} /\ deleted[u] = {}
      BY <2>0, <2>2 DEF IInv, ClosedEmpty, OneAtATime
    <3>2. \A u \in Session : ops'[u] = NoOps /\ inserted'[u] = {} /\ deleted'[u] = {}
      BY <3>1, <1>4
    <3>3. OpsMatch' /\ ToldMatch'
      BY <3>2 DEF OpsMatch, ToldMatch, NoOps
    <3>4. ASSUME NEW r \in Rid PROVE mem'[r].row \in committed' \cup leaked' \cup {NoRow}
      <4>1. CASE mem'[r].row = NoRow
        BY <4>1
      <4>2. CASE mem'[r].row # NoRow
        <5>1. mem'[r].row = mem[r].row /\ ops[s][r] # "DELETE"
          BY <4>2, <1>1, <1>2
        <5>2. mem[r].row \in committed \cup inserted[s] \cup leaked
          BY <2>0, <3>1, <4>2, <5>1 DEF RowsKnown, OpsMatch, NoOps
        <5>3. mem[r].row \notin deleted[s]
          BY <2>0, <4>2, <5>1 DEF ToldMatch, IInv, RowsOnce
        <5>4. QED
          BY <1>0, <5>1, <5>2, <5>3
      <4>3. QED
        BY <4>1, <4>2
    <3>5. ASSUME NEW row \in committed' PROVE \E r \in Rid : mem'[r].row = row
      <4>1. PICK r \in Rid : mem[r].row = row
        BY <1>0, <2>0 DEF RowsKnown, ToldMatch
      <4>2. ops[s][r] # "DELETE"
        BY <1>0, <2>0, <4>1 DEF OpsMatch
      <4>3. QED
        BY <1>1, <4>1, <4>2
    <3>6. QED
      BY <3>3, <3>4, <3>5 DEF RowsKnown
  <2>3. QED
    BY <2>1, <2>2
<1>6. QED
  BY <1>0, <1>4, <1>5 DEF IInv, NoOverlap

\* ROLLBACK preserves the invariant.
LEMMA RollbackInv ==
  ASSUME IInv, NEW s \in Session, Rollback(s)
  PROVE  IInv'
<1>0. /\ TypeOK /\ Close(s)
      /\ mem' = [r \in Rid |-> RollbackSlot(ops[s][r], mem[r])]
      /\ dirty' = DirtyAfter(mem')
      /\ UNCHANGED <<disk, nextId, nextRow, committed, leaked, overlap>>
  BY DEF IInv, Rollback
<1>1. /\ mem' \in [Rid -> Slot]
      /\ \A r \in Rid : /\ mem'[r].id \in {0, mem[r].id}
                        /\ ops[s][r] = "INSERT" => mem'[r] = Free
                        /\ ops[s][r] # "INSERT" => mem'[r].row = mem[r].row
  BY <1>0, RollbackSlotLemma DEF TypeOK
<1>2. \A r \in Rid : /\ mem'[r].row \in {mem[r].row, NoRow}
                     /\ ops[s][r] = "INSERT" => mem'[r].row = NoRow
  BY <1>1 DEF Free
<1>3. dirty' \in BOOLEAN /\ (~dirty' => ~dirty /\ \A r \in Rid : mem'[r].row = mem[r].row)
  BY <1>0, <1>1, DirtyLemma
<1>4. /\ TypeOK' /\ IdsFresh' /\ ClosedEmpty' /\ SameRows'
      /\ StampsTracked' /\ DiskTracked' /\ RowsOnce'
      /\ ~overlap => OneAtATime'
      /\ ops'[s] = NoOps /\ inserted'[s] = {} /\ deleted'[s] = {}
      /\ \A u \in Session \ {s} : /\ ops'[u] = ops[u] /\ inserted'[u] = inserted[u]
                                  /\ deleted'[u] = deleted[u]
  BY <1>0, <1>1, <1>2, <1>3, CloseLemma
<1>5. ASSUME ~overlap PROVE OpsMatch' /\ ToldMatch' /\ RowsKnown'
  <2>0. OneAtATime /\ OpsMatch /\ ToldMatch /\ RowsKnown
    BY <1>5 DEF IInv, NoOverlap
  <2>1. CASE ~Open(s)
    <3>1. ops[s] = NoOps /\ inserted[s] = {} /\ deleted[s] = {}
      BY <2>1 DEF IInv, ClosedEmpty
    <3>2. \A u \in Session : ops'[u] = ops[u] /\ inserted'[u] = inserted[u] /\ deleted'[u] = deleted[u]
      BY <3>1, <1>4
    <3>3. committed' = committed /\ leaked' = leaked /\ \A r \in Rid : mem'[r].row = mem[r].row
      BY <3>1, <1>0, <1>1 DEF NoOps
    <3>4. OpsMatch' /\ RowsKnown'
      BY <2>0, <3>2, <3>3 DEF OpsMatch, RowsKnown
    <3>5. ToldMatch'
      BY <2>0, <3>2, <3>3 DEF ToldMatch
    <3>6. QED
      BY <3>4, <3>5
  <2>2. CASE Open(s)
    <3>1. \A u \in Session \ {s} : ops[u] = NoOps /\ inserted[u] = {} /\ deleted[u] = {}
      BY <2>0, <2>2 DEF IInv, ClosedEmpty, OneAtATime
    <3>2. \A u \in Session : ops'[u] = NoOps /\ inserted'[u] = {} /\ deleted'[u] = {}
      BY <3>1, <1>4
    <3>3. OpsMatch' /\ ToldMatch'
      BY <3>2 DEF OpsMatch, ToldMatch, NoOps
    <3>4. ASSUME NEW r \in Rid PROVE mem'[r].row \in committed' \cup leaked' \cup {NoRow}
      <4>1. CASE mem'[r].row = NoRow
        BY <4>1
      <4>2. CASE mem'[r].row # NoRow
        <5>1. mem'[r].row = mem[r].row /\ ops[s][r] # "INSERT"
          BY <4>2, <1>1, <1>2
        <5>2. \A u \in Session : ops[u][r] # "INSERT"
          BY <3>1, <5>1 DEF NoOps
        <5>3. QED
          BY <1>0, <2>0, <5>1, <5>2 DEF RowsKnown
      <4>3. QED
        BY <4>1, <4>2
    <3>5. ASSUME NEW row \in committed' PROVE \E r \in Rid : mem'[r].row = row
      <4>1. PICK r \in Rid : mem[r].row = row
        BY <1>0, <2>0 DEF RowsKnown
      <4>2. row # NoRow
        BY <1>0, TrxAssumption DEF TypeOK, Row, NoRow
      <4>3. ops[s][r] # "INSERT"
        BY <1>0, <2>0, <4>1, <4>2 DEF OpsMatch, ToldMatch
      <4>4. QED
        BY <1>1, <4>1, <4>3
    <3>6. QED
      BY <3>3, <3>4, <3>5 DEF RowsKnown
  <2>3. QED
    BY <2>1, <2>2
<1>6. QED
  BY <1>0, <1>4, <1>5 DEF IInv, NoOverlap

\* A disconnect preserves the invariant: the rows the client inserted leak.
LEMMA DisconnectInv ==
  ASSUME IInv, NEW s \in Session, Disconnect(s)
  PROVE  IInv'
<1>0. /\ TypeOK /\ Close(s) /\ leaked' = leaked \cup inserted[s]
      /\ UNCHANGED <<mem, disk, dirty, nextId, nextRow, committed, overlap>>
  BY DEF IInv, Disconnect, page
<1>1. mem' \in [Rid -> Slot] /\ dirty' \in BOOLEAN
  BY <1>0 DEF TypeOK
<1>2. /\ TypeOK' /\ IdsFresh' /\ ClosedEmpty' /\ SameRows'
      /\ StampsTracked' /\ DiskTracked' /\ RowsOnce'
      /\ ~overlap => OneAtATime'
      /\ ops'[s] = NoOps /\ inserted'[s] = {} /\ deleted'[s] = {}
      /\ \A u \in Session \ {s} : /\ ops'[u] = ops[u] /\ inserted'[u] = inserted[u]
                                  /\ deleted'[u] = deleted[u]
  BY <1>0, <1>1, CloseLemma
<1>3. ASSUME ~overlap PROVE OpsMatch' /\ ToldMatch' /\ RowsKnown'
  <2>0. OpsMatch /\ ToldMatch /\ RowsKnown
    BY <1>3 DEF IInv, NoOverlap
  <2>1. OpsMatch'
    BY <1>0, <1>2, <2>0 DEF OpsMatch, NoOps
  <2>2. ToldMatch'
    BY <1>0, <1>2, <2>0 DEF ToldMatch
  <2>3. ASSUME NEW r \in Rid
        PROVE  \/ mem[r].row \in committed \cup leaked' \cup {NoRow}
               \/ \E u \in Session : ops'[u][r] = "INSERT"
    <3>1. CASE ops[s][r] = "INSERT"
      BY <1>0, <2>0, <3>1 DEF OpsMatch
    <3>2. CASE ops[s][r] # "INSERT"
      BY <1>0, <1>2, <2>0, <3>2 DEF RowsKnown
    <3>3. QED
      BY <3>1, <3>2
  <2>4. QED
    BY <1>0, <2>0, <2>1, <2>2, <2>3 DEF RowsKnown
<1>4. QED
  BY <1>0, <1>2, <1>3 DEF IInv, NoOverlap

\* Starting a transaction does not make an old stamp its own.
LEMMA StampsAfterStart ==
  ASSUME IInv, NEW s \in Session, Started(s), NEW u \in Session, NEW r \in Rid, trxId'[u] # 0
  PROVE  /\ mem[r].id = trxId'[u] => Open(u) /\ mem[r].id = trxId[u]
         /\ disk[r].id = trxId'[u] => Open(u) /\ disk[r].id = trxId[u]
<1>0. /\ mem[r].id <= nextId /\ disk[r].id <= nextId
      /\ mem[r].id \in Nat /\ disk[r].id \in Nat /\ nextId \in Nat
  BY SlotFacts, TrxAssumption DEF IInv, TypeOK, IdsFresh
<1>1. CASE u = s /\ trxId[s] = 0
  <2>1. nextId < trxId'[s] /\ trxId'[s] \in Nat
    BY <1>1, StartedLemma, TrxAssumption
  <2>2. QED
    BY <1>0, <1>1, <2>1
<1>2. CASE u # s \/ trxId[s] # 0
  <2>1. trxId'[u] = trxId[u]
    BY <1>2, StartedLemma
  <2>2. QED
    BY <2>1 DEF Open
<1>3. QED
  BY <1>1, <1>2

\* INSERT preserves the invariant, whether or not an index or an operation
\* left on the slot refuses the row.
LEMMA InsertInv ==
  ASSUME IInv, NEW s \in Session, Insert(s)
  PROVE  IInv'
<1> DEFINE r == FirstFree
           row == nextRow + 1
           new == [row |-> row, id |-> trxId[s], del |-> FALSE]
<1>0. /\ TypeOK /\ FreeRids # {} /\ nextRow < MaxRow /\ nextRow' = row /\ dirty' = TRUE
      /\ UNCHANGED <<disk, multi, deleted, committed, leaked>>
  BY DEF IInv, Insert
<1>1. r \in Rid /\ mem[r] = Free
  BY <1>0, FirstFreeLemma
<1>2. mem[r].row = NoRow /\ nextRow \in Nat /\ row \in Row /\ row # NoRow /\ nextRow' \in 0 .. MaxRow
  BY <1>0, <1>1, TrxAssumption DEF TypeOK, Row, NoRow, Free
<1>3. new \in Slot /\ new.row = row /\ new.id = trxId[s]
  BY <1>0, <1>2 DEF TypeOK, Slot
<1>4. \A q \in Rid : mem[q].row <= nextRow /\ mem[q].row \in Nat
  BY <1>0, SlotFacts DEF IInv, RowsOnce, TypeOK
<1>5. \A u \in Session : \A x \in inserted[u] \cup deleted[u] : x # NoRow /\ x \in Nat
  BY <1>0, TrxAssumption DEF TypeOK, Row, NoRow
<1>6. \A x \in committed : x # NoRow /\ x \in Nat /\ x <= nextRow
  BY <1>0, TrxAssumption DEF TypeOK, Row, NoRow, IInv, RowsOnce
<1> HIDE DEF r, row, new
<1>7. CASE /\ ops[s][r] # "NONE" /\ mem' = mem /\ After(s, "rollback")
           /\ UNCHANGED <<trxId, ops, nextId, inserted, overlap>>
  <2>1. TypeOK'
    <3>1. pc' \in [Session -> {"idle", "commit", "rollback"}]
      BY <1>0, <1>7, AfterLemma
    <3>2. QED
      BY <3>1, <1>0, <1>2, <1>7 DEF TypeOK
  <2>2. IdsFresh' /\ ClosedEmpty'
    BY <1>0, <1>7 DEF IInv, IdsFresh, ClosedEmpty, Open
  <2>3. SameRows' /\ DiskTracked'
    BY <1>0 DEF SameRows, DiskTracked
  <2>4. StampsTracked'
    BY <1>0, <1>7 DEF IInv, StampsTracked, Open
  <2>5. \A x \in Nat : x <= nextRow => x <= nextRow'
    BY <1>0, <1>2 DEF row
  <2>6. RowsOnce'
    <3>1. \A u \in Session : \A x \in inserted[u] : x <= nextRow
      BY DEF IInv, RowsOnce
    <3>2. QED
      BY <1>0, <1>4, <1>5, <1>6, <1>7, <2>5, <3>1 DEF IInv, RowsOnce
  <2>7. NoOverlap'
    BY <1>0, <1>7 DEF IInv, NoOverlap, OneAtATime, OpsMatch, ToldMatch, RowsKnown, Open
  <2>8. QED
    BY <2>1, <2>2, <2>3, <2>4, <2>6, <2>7 DEF IInv
<1>8. CASE /\ ops[s][r] = "NONE" /\ Started(s) /\ ops' = [ops EXCEPT ![s][r] = "INSERT"]
           /\ \/ /\ mem' = [mem EXCEPT ![r] = new]
                 /\ inserted' = [inserted EXCEPT ![s] = @ \cup {row}]
                 /\ After(s, "commit")
              \/ mem' = mem /\ After(s, "rollback") /\ UNCHANGED inserted
  <2>1. /\ trxId' \in [Session -> 0 .. MaxTrx] /\ nextId' \in 0 .. MaxTrx
        /\ nextId <= nextId' /\ trxId'[s] # 0 /\ trxId'[s] <= nextId'
        /\ \A u \in Session \ {s} : trxId'[u] = trxId[u]
        /\ \A u \in Session : trxId'[u] <= nextId'
        /\ \A u, v \in Session : trxId'[u] # 0 /\ trxId'[u] = trxId'[v] => u = v
        /\ overlap' \in BOOLEAN /\ (~overlap' => ~overlap)
        /\ ~overlap' => OneAtATime'
        /\ trxId[s] # 0 => trxId'[s] = trxId[s]
    BY <1>8, StartedLemma
  <2>2. /\ ops'[s][r] = "INSERT"
        /\ \A q \in Rid \ {r} : ops'[s][q] = ops[s][q]
        /\ \A u \in Session \ {s} : ops'[u] = ops[u]
        /\ ops' \in [Session -> [Rid -> {"NONE", "INSERT", "DELETE"}]]
    BY <1>0, <1>1, <1>8 DEF TypeOK
  <2>3. /\ mem' \in [Rid -> Slot] /\ \A q \in Rid \ {r} : mem'[q] = mem[q]
        /\ inserted' \in [Session -> SUBSET Row]
        /\ \A u \in Session \ {s} : inserted'[u] = inserted[u]
        /\ \/ mem'[r] = new /\ inserted'[s] = inserted[s] \cup {row}
           \/ mem'[r] = mem[r] /\ inserted'[s] = inserted[s]
        /\ pc' \in [Session -> {"idle", "commit", "rollback"}]
    <3>1. pc' \in [Session -> {"idle", "commit", "rollback"}]
      BY <1>0, <1>8, AfterLemma
    <3>2. mem \in [Rid -> Slot] /\ inserted \in [Session -> SUBSET Row]
      BY <1>0 DEF TypeOK
    <3>3. CASE /\ mem' = [mem EXCEPT ![r] = new]
               /\ inserted' = [inserted EXCEPT ![s] = @ \cup {row}]
      <4>1. inserted[s] \cup {row} \in SUBSET Row
        BY <1>2, <3>2
      <4>2. /\ inserted' \in [Session -> SUBSET Row]
            /\ inserted'[s] = inserted[s] \cup {row}
            /\ \A u \in Session \ {s} : inserted'[u] = inserted[u]
        BY <3>2, <3>3, <4>1
      <4>3. mem' \in [Rid -> Slot] /\ mem'[r] = new /\ \A q \in Rid \ {r} : mem'[q] = mem[q]
        BY <1>1, <1>3, <3>2, <3>3
      <4>4. QED
        BY <3>1, <4>2, <4>3
    <3>4. CASE mem' = mem /\ inserted' = inserted
      BY <3>1, <3>2, <3>4
    <3>5. QED
      BY <1>8, <3>3, <3>4
  <2>4. TypeOK'
    BY <1>0, <1>2, <2>1, <2>2, <2>3 DEF TypeOK
  <2>5. IdsFresh'
    <3>1. \A q \in Rid : mem[q].id <= nextId /\ mem[q].id \in Nat /\ disk[q].id <= nextId /\ disk[q].id \in Nat
      BY <1>0, SlotFacts DEF IInv, IdsFresh, TypeOK
    <3>2. trxId[s] <= nextId /\ trxId[s] \in Nat /\ nextId \in Nat /\ nextId' \in Nat
      BY <1>0, <2>1, TrxAssumption DEF IInv, IdsFresh, TypeOK
    <3>3. ASSUME NEW q \in Rid PROVE mem'[q].id <= nextId' /\ disk'[q].id <= nextId'
      <4>1. mem'[q].id \in {mem[q].id, trxId[s]} /\ disk' = disk /\ nextId <= nextId'
        BY <1>0, <1>3, <2>1, <2>3
      <4>2. QED
        BY <3>1, <3>2, <4>1
    <3>4. QED
      BY <2>1, <3>3 DEF IdsFresh, Open
  <2>6. ClosedEmpty'
    <3>1. ASSUME NEW u \in Session, trxId'[u] = 0
          PROVE  ops'[u] = NoOps /\ inserted'[u] = {} /\ deleted'[u] = {}
      <4>1. u # s /\ trxId[u] = 0
        BY <2>1, <3>1
      <4>2. QED
        BY <4>1, <1>0, <2>2, <2>3 DEF IInv, ClosedEmpty, Open
    <3>2. QED
      BY <3>1 DEF ClosedEmpty, Open, NoOps
  <2>7. SameRows' /\ DiskTracked'
    BY <1>0 DEF SameRows, DiskTracked
  <2>8. StampsTracked'
    <3> SUFFICES ASSUME NEW u \in Session, NEW q \in Rid, trxId'[u] # 0, mem'[q].id = trxId'[u]
                 PROVE  ops'[u][q] # "NONE" \/ mem'[q].row \in leaked'
      BY DEF StampsTracked, Open
    <3>1. CASE u = s /\ q = r
      BY <3>1, <2>2
    <3>2. CASE mem'[q] = mem[q] /\ (u # s \/ q # r)
      <4>1. Open(u) /\ mem[q].id = trxId[u]
        BY <1>8, <3>2, StampsAfterStart
      <4>2. ops'[u][q] = ops[u][q]
        BY <2>2, <3>2
      <4>3. QED
        BY <1>0, <3>2, <4>1, <4>2 DEF IInv, StampsTracked
    <3>3. CASE mem'[q] # mem[q] /\ u # s
      <4>1. mem'[q].id = trxId[s] /\ trxId'[u] = trxId[u]
        BY <1>3, <2>1, <2>3, <3>3
      <4>2. QED
        BY <3>3, <4>1 DEF IInv, IdsFresh, Open
    <3>4. QED
      BY <2>3, <3>1, <3>2, <3>3
  <2>9. RowsOnce'
    <3>0. nextRow' \in Nat /\ nextRow < nextRow' /\ row = nextRow'
      BY <1>0, <1>2 DEF row
    <3>1. \A q \in Rid : mem'[q].row <= nextRow'
      BY <1>2, <1>3, <1>4, <2>3, <3>0
    <3>2. ASSUME NEW q \in Rid, NEW p \in Rid, mem'[q].row # NoRow, mem'[q].row = mem'[p].row
          PROVE  q = p
      <4>1. CASE q # r /\ p # r
        BY <3>2, <4>1, <2>3 DEF IInv, RowsOnce
      <4>2. CASE q = r /\ p # r
        BY <3>0, <3>2, <4>2, <1>2, <1>3, <1>4, <2>3
      <4>3. CASE q # r /\ p = r
        BY <3>0, <3>2, <4>3, <1>2, <1>3, <1>4, <2>3
      <4>4. QED
        BY <4>1, <4>2, <4>3
    <3>3. \A u \in Session : \A x \in inserted'[u] : x <= nextRow'
      <4>1. \A u \in Session : \A x \in inserted[u] : x <= nextRow /\ x \in Nat
        BY <1>5 DEF IInv, RowsOnce
      <4>2. QED
        BY <1>2, <2>3, <3>0, <4>1
    <3>4. \A x \in committed' : x <= nextRow'
      BY <1>0, <1>2, <1>6, <3>0
    <3>5. QED
      BY <3>1, <3>2, <3>3, <3>4 DEF RowsOnce
  <2>10. ASSUME ~overlap' PROVE OpsMatch' /\ ToldMatch' /\ RowsKnown'
    <3>0. OpsMatch /\ ToldMatch /\ RowsKnown
      BY <2>1, <2>10 DEF IInv, NoOverlap
    <3>1. OpsMatch'
      <4> SUFFICES ASSUME NEW u \in Session, NEW q \in Rid
                   PROVE  /\ ops'[u][q] = "INSERT" => mem'[q].row \in inserted'[u] \cup {NoRow}
                          /\ ops'[u][q] = "DELETE" => mem'[q].row \in deleted'[u]
        BY DEF OpsMatch
      <4>1. CASE q # r
        <5>1. ops'[u][q] = ops[u][q] /\ mem'[q] = mem[q] /\ inserted[u] \subseteq inserted'[u]
          BY <4>1, <2>2, <2>3
        <5>2. QED
          BY <1>0, <3>0, <5>1 DEF OpsMatch
      <4>2. CASE q = r /\ u = s
        BY <4>2, <1>2, <1>3, <2>2, <2>3
      <4>3. CASE q = r /\ u # s
        <5>1. trxId'[u] = 0
          BY <2>1, <2>10, <4>3 DEF OneAtATime, Open
        <5>2. ops'[u] = NoOps
          BY <5>1, <2>6 DEF ClosedEmpty, Open, NoOps
        <5>3. QED
          BY <5>2 DEF NoOps
      <4>4. QED
        BY <4>1, <4>2, <4>3
    <3>2. ToldMatch'
      <4>1. ASSUME NEW u \in Session, NEW x \in inserted'[u]
            PROVE  /\ x \notin committed'
                   /\ \E q \in Rid : ops'[u][q] = "INSERT" /\ mem'[q].row = x
        <5>1. CASE x \in inserted[u]
          <6>1. PICK q \in Rid : ops[u][q] = "INSERT" /\ mem[q].row = x
            BY <5>1, <3>0 DEF ToldMatch
          <6>2. q # r
            BY <1>2, <1>5, <5>1, <6>1
          <6>3. ops'[u][q] = "INSERT" /\ mem'[q].row = x
            BY <6>1, <6>2, <2>2, <2>3
          <6>4. QED
            BY <1>0, <3>0, <5>1, <6>3 DEF ToldMatch
        <5>2. CASE x \notin inserted[u]
          <6>1. u = s /\ x = row /\ mem'[r] = new
            BY <5>2, <2>3
          <6>2. row \notin committed
            BY <1>2, <1>6 DEF row
          <6>3. QED
            BY <1>0, <1>1, <1>3, <2>2, <6>1, <6>2
        <5>3. QED
          BY <5>1, <5>2
      <4>2. ASSUME NEW u \in Session, NEW x \in deleted'[u]
            PROVE  \E q \in Rid : ops'[u][q] = "DELETE" /\ mem'[q].row = x
        <5>1. PICK q \in Rid : ops[u][q] = "DELETE" /\ mem[q].row = x
          BY <1>0, <3>0 DEF ToldMatch
        <5>2. q # r
          BY <1>0, <1>2, <1>5, <5>1
        <5>3. QED
          BY <5>1, <5>2, <2>2, <2>3
      <4>3. QED
        BY <4>1, <4>2 DEF ToldMatch
    <3>3. RowsKnown'
      <4>1. ASSUME NEW q \in Rid
            PROVE  \/ mem'[q].row \in committed' \cup leaked' \cup {NoRow}
                   \/ \E u \in Session : ops'[u][q] = "INSERT"
        <5>1. CASE q = r
          BY <5>1, <2>2
        <5>2. CASE q # r
          <6>1. mem'[q] = mem[q]
            BY <5>2, <2>3
          <6>2. \A u \in Session : ops'[u][q] = ops[u][q]
            BY <5>2, <2>2
          <6>3. \/ mem[q].row \in committed \cup leaked \cup {NoRow}
                \/ \E u \in Session : ops[u][q] = "INSERT"
            BY <3>0 DEF RowsKnown
          <6>4. committed' = committed /\ leaked' = leaked
            BY <1>0
          <6>5. QED
            BY <6>1, <6>2, <6>3, <6>4
        <5>3. QED
          BY <5>1, <5>2
      <4>2. ASSUME NEW x \in committed' PROVE \E q \in Rid : mem'[q].row = x
        <5>1. PICK q \in Rid : mem[q].row = x
          BY <1>0, <3>0 DEF RowsKnown
        <5>2. q # r
          BY <1>0, <1>2, <1>6, <5>1
        <5>3. QED
          BY <5>1, <5>2, <2>3
      <4>3. QED
        BY <4>1, <4>2 DEF RowsKnown
    <3>4. QED
      BY <3>1, <3>2, <3>3
  <2>11. QED
    BY <2>1, <2>4, <2>5, <2>6, <2>7, <2>8, <2>9, <2>10 DEF IInv, NoOverlap
<1>9. QED
  BY <1>7, <1>8 DEF Insert, r, row, new

\* DELETE preserves the invariant: the inserter's own row leaks, another one is stamped.
LEMMA DeleteInv ==
  ASSUME IInv, NEW s \in Session, NEW r \in Rid, Delete(s, r)
  PROVE  IInv'
<1> DEFINE row == mem[r].row
           new == [row |-> row, id |-> trxId'[s], del |-> TRUE]
<1>0. /\ TypeOK /\ mem[r] # Free /\ After(s, "commit")
      /\ UNCHANGED <<disk, dirty, multi, nextRow, committed>>
  BY DEF IInv, Delete
<1>1. mem[r] \in Slot /\ row \in Row /\ row # NoRow
  BY <1>0, SlotFacts DEF TypeOK
<1>2. pc' \in [Session -> {"idle", "commit", "rollback"}]
  BY <1>0, AfterLemma
<1> HIDE DEF row, new
<1>3. CASE /\ ops[s][r] = "INSERT"
           /\ ops' = [ops EXCEPT ![s][r] = "NONE"]
           /\ inserted' = [inserted EXCEPT ![s] = @ \ {row}]
           /\ leaked' = leaked \cup {row}
           /\ UNCHANGED <<mem, trxId, nextId, deleted, overlap>>
  <2>1. /\ ops'[s][r] = "NONE"
        /\ \A q \in Rid \ {r} : ops'[s][q] = ops[s][q]
        /\ \A u \in Session \ {s} : ops'[u] = ops[u]
        /\ ops' \in [Session -> [Rid -> {"NONE", "INSERT", "DELETE"}]]
        /\ inserted' \in [Session -> SUBSET Row]
        /\ inserted'[s] = inserted[s] \ {row}
        /\ \A u \in Session \ {s} : inserted'[u] = inserted[u]
    BY <1>0, <1>3 DEF TypeOK
  <2>2. TypeOK'
    BY <1>0, <1>1, <1>2, <1>3, <2>1 DEF TypeOK
  <2>3. Open(s)
    BY <1>3 DEF IInv, ClosedEmpty, NoOps
  <2>4. IdsFresh' /\ SameRows'
    BY <1>0, <1>3 DEF IInv, IdsFresh, SameRows, Open
  <2>5. ClosedEmpty'
    <3>1. ASSUME NEW u \in Session, trxId'[u] = 0
          PROVE  ops'[u] = NoOps /\ inserted'[u] = {} /\ deleted'[u] = {}
      <4>1. u # s /\ trxId[u] = 0
        BY <1>3, <2>3, <3>1 DEF Open
      <4>2. QED
        BY <4>1, <1>3, <2>1 DEF IInv, ClosedEmpty, Open
    <3>2. QED
      BY <3>1 DEF ClosedEmpty, Open, NoOps
  <2>6. StampsTracked'
    <3> SUFFICES ASSUME NEW u \in Session, NEW q \in Rid, trxId[u] # 0, mem[q].id = trxId[u]
                 PROVE  ops'[u][q] # "NONE" \/ mem[q].row \in leaked'
      BY <1>3 DEF StampsTracked, Open
    <3>1. CASE q = r
      BY <1>3, <3>1 DEF row
    <3>2. CASE q # r
      BY <1>3, <2>1, <3>2 DEF IInv, StampsTracked, Open
    <3>3. QED
      BY <3>1, <3>2
  <2>7. DiskTracked'
    <3> SUFFICES ASSUME ~dirty, NEW u \in Session, NEW q \in Rid, trxId[u] # 0, disk[q].id = trxId[u]
                 PROVE  ops'[u][q] # "NONE" \/ disk[q].row \in leaked'
      BY <1>0, <1>3 DEF DiskTracked, Open
    <3>1. CASE q = r
      BY <1>3, <3>1 DEF row, IInv, SameRows
    <3>2. CASE q # r
      BY <1>3, <2>1, <3>2 DEF IInv, DiskTracked, Open
    <3>3. QED
      BY <3>1, <3>2
  <2>8. RowsOnce'
    <3>1. \A u \in Session : inserted'[u] \subseteq inserted[u]
      BY <2>1
    <3>2. QED
      BY <1>0, <1>3, <3>1 DEF IInv, RowsOnce
  <2>9. ASSUME ~overlap' PROVE OneAtATime' /\ OpsMatch' /\ ToldMatch' /\ RowsKnown'
    <3>0. ~overlap /\ OneAtATime /\ OpsMatch /\ ToldMatch /\ RowsKnown
      BY <1>3, <2>9 DEF IInv, NoOverlap
    <3>1. OneAtATime'
      BY <1>3, <3>0 DEF OneAtATime, Open
    <3>2. OpsMatch'
      <4> SUFFICES ASSUME NEW u \in Session, NEW q \in Rid
                   PROVE  /\ ops'[u][q] = "INSERT" => mem[q].row \in inserted'[u] \cup {NoRow}
                          /\ ops'[u][q] = "DELETE" => mem[q].row \in deleted[u]
        BY <1>3 DEF OpsMatch
      <4>1. CASE u = s /\ q = r
        BY <2>1, <4>1
      <4>2. CASE u = s /\ q # r
        <5>1. mem[q].row = NoRow \/ mem[q].row # row
          BY <1>1, <4>2 DEF IInv, RowsOnce, row
        <5>2. QED
          BY <2>1, <3>0, <4>2, <5>1 DEF OpsMatch
      <4>3. CASE u # s
        BY <2>1, <3>0, <4>3 DEF OpsMatch
      <4>4. QED
        BY <4>1, <4>2, <4>3
    <3>3. ToldMatch'
      <4>1. ASSUME NEW u \in Session, NEW x \in inserted'[u]
            PROVE  /\ x \notin committed'
                   /\ \E q \in Rid : ops'[u][q] = "INSERT" /\ mem'[q].row = x
        <5>1. x \in inserted[u] /\ (u = s => x # row)
          BY <2>1
        <5>2. PICK q \in Rid : ops[u][q] = "INSERT" /\ mem[q].row = x
          BY <3>0, <5>1 DEF ToldMatch
        <5>3. ops'[u][q] = "INSERT"
          BY <2>1, <5>1, <5>2 DEF row
        <5>4. QED
          BY <1>0, <1>3, <3>0, <5>1, <5>2, <5>3 DEF ToldMatch
      <4>2. ASSUME NEW u \in Session, NEW x \in deleted'[u]
            PROVE  \E q \in Rid : ops'[u][q] = "DELETE" /\ mem'[q].row = x
        <5>1. PICK q \in Rid : ops[u][q] = "DELETE" /\ mem[q].row = x
          BY <1>3, <3>0 DEF ToldMatch
        <5>2. ops'[u][q] = "DELETE"
          BY <1>3, <2>1, <5>1
        <5>3. QED
          BY <1>3, <5>1, <5>2
      <4>3. QED
        BY <4>1, <4>2 DEF ToldMatch
    <3>4. RowsKnown'
      <4>1. ASSUME NEW q \in Rid
            PROVE  \/ mem'[q].row \in committed' \cup leaked' \cup {NoRow}
                   \/ \E u \in Session : ops'[u][q] = "INSERT"
        <5>1. CASE q = r
          BY <5>1, <1>3 DEF row
        <5>2. CASE q # r
          BY <5>2, <1>0, <1>3, <2>1, <3>0 DEF RowsKnown
        <5>3. QED
          BY <5>1, <5>2
      <4>2. \A x \in committed' : \E q \in Rid : mem'[q].row = x
        BY <1>0, <1>3, <3>0 DEF RowsKnown
      <4>3. QED
        BY <4>1, <4>2 DEF RowsKnown
    <3>5. QED
      BY <3>1, <3>2, <3>3, <3>4
  <2>10. QED
    BY <2>2, <2>4, <2>5, <2>6, <2>7, <2>8, <2>9 DEF IInv, NoOverlap
<1>4. CASE /\ ops[s][r] = "NONE" /\ Started(s)
           /\ mem' = [mem EXCEPT ![r] = new]
           /\ ops' = [ops EXCEPT ![s][r] = "DELETE"]
           /\ deleted' = [deleted EXCEPT ![s] = @ \cup {row}]
           /\ UNCHANGED <<inserted, leaked>>
  <2>1. /\ trxId' \in [Session -> 0 .. MaxTrx] /\ nextId' \in 0 .. MaxTrx
        /\ nextId <= nextId' /\ trxId'[s] # 0 /\ trxId'[s] <= nextId'
        /\ \A u \in Session \ {s} : trxId'[u] = trxId[u]
        /\ \A u \in Session : trxId'[u] <= nextId'
        /\ \A u, v \in Session : trxId'[u] # 0 /\ trxId'[u] = trxId'[v] => u = v
        /\ overlap' \in BOOLEAN /\ (~overlap' => ~overlap)
        /\ ~overlap' => OneAtATime'
    BY <1>4, StartedLemma
  <2>2. new \in Slot /\ new.row = row /\ new.id = trxId'[s]
    BY <1>1, <2>1 DEF new, Slot
  <2>3. /\ ops'[s][r] = "DELETE"
        /\ \A q \in Rid \ {r} : ops'[s][q] = ops[s][q]
        /\ \A u \in Session \ {s} : ops'[u] = ops[u]
        /\ ops' \in [Session -> [Rid -> {"NONE", "INSERT", "DELETE"}]]
        /\ deleted' \in [Session -> SUBSET Row]
        /\ deleted'[s] = deleted[s] \cup {row}
        /\ \A u \in Session \ {s} : deleted'[u] = deleted[u]
    BY <1>0, <1>1, <1>4 DEF TypeOK
  <2>4. /\ mem' \in [Rid -> Slot] /\ mem'[r] = new
        /\ \A q \in Rid \ {r} : mem'[q] = mem[q]
    BY <1>0, <1>4, <2>2 DEF TypeOK
  <2>5. \A q \in Rid : mem'[q].row = mem[q].row
    BY <2>2, <2>4 DEF row
  <2>6. TypeOK'
    BY <1>0, <1>2, <1>4, <2>1, <2>3, <2>4 DEF TypeOK
  <2>7. IdsFresh'
    <3>1. \A q \in Rid : mem[q].id <= nextId /\ mem[q].id \in Nat /\ disk[q].id <= nextId /\ disk[q].id \in Nat
      BY <1>0, SlotFacts DEF IInv, IdsFresh, TypeOK
    <3>2. nextId \in Nat /\ nextId' \in Nat /\ nextId <= nextId'
      BY <1>0, <2>1, TrxAssumption DEF TypeOK
    <3>3. ASSUME NEW q \in Rid PROVE mem'[q].id <= nextId' /\ disk'[q].id <= nextId'
      <4>1. mem'[q].id \in {mem[q].id, trxId'[s]} /\ disk' = disk /\ trxId'[s] <= nextId'
        BY <1>0, <2>1, <2>2, <2>4
      <4>2. QED
        BY <3>1, <3>2, <4>1
    <3>4. QED
      BY <2>1, <3>3 DEF IdsFresh, Open
  <2>8. ClosedEmpty'
    <3>1. ASSUME NEW u \in Session, trxId'[u] = 0
          PROVE  ops'[u] = NoOps /\ inserted'[u] = {} /\ deleted'[u] = {}
      <4>1. u # s /\ trxId[u] = 0
        BY <2>1, <3>1
      <4>2. QED
        BY <4>1, <1>4, <2>3 DEF IInv, ClosedEmpty, Open
    <3>2. QED
      BY <3>1 DEF ClosedEmpty, Open, NoOps
  <2>9. SameRows'
    BY <1>0, <2>5 DEF IInv, SameRows
  <2>10. StampsTracked'
    <3> SUFFICES ASSUME NEW u \in Session, NEW q \in Rid, trxId'[u] # 0, mem'[q].id = trxId'[u]
                 PROVE  ops'[u][q] # "NONE" \/ mem'[q].row \in leaked'
      BY DEF StampsTracked, Open
    <3>1. CASE q = r
      <4>1. u = s
        BY <2>1, <2>2, <2>4, <3>1
      <4>2. QED
        BY <2>3, <3>1, <4>1
    <3>2. CASE q # r
      <4>1. mem'[q] = mem[q] /\ ops'[u][q] = ops[u][q]
        BY <2>3, <2>4, <3>2
      <4>2. Open(u) /\ mem[q].id = trxId[u]
        BY <1>4, <4>1, StampsAfterStart
      <4>3. QED
        BY <1>4, <4>1, <4>2 DEF IInv, StampsTracked
    <3>3. QED
      BY <3>1, <3>2
  <2>11. DiskTracked'
    <3> SUFFICES ASSUME ~dirty, NEW u \in Session, NEW q \in Rid, trxId'[u] # 0, disk[q].id = trxId'[u]
                 PROVE  ops'[u][q] # "NONE" \/ disk[q].row \in leaked'
      BY <1>0 DEF DiskTracked, Open
    <3>1. Open(u) /\ disk[q].id = trxId[u]
      BY <1>4, StampsAfterStart
    <3>2. ops[u][q] # "NONE" \/ disk[q].row \in leaked
      BY <3>1 DEF IInv, DiskTracked
    <3>3. QED
      BY <1>4, <2>3, <3>2
  <2>12. RowsOnce'
    BY <1>0, <1>4, <2>5 DEF IInv, RowsOnce
  <2>13. ASSUME ~overlap' PROVE OpsMatch' /\ ToldMatch' /\ RowsKnown'
    <3>0. OpsMatch /\ ToldMatch /\ RowsKnown
      BY <2>1, <2>13 DEF IInv, NoOverlap
    <3>1. OpsMatch'
      <4> SUFFICES ASSUME NEW u \in Session, NEW q \in Rid
                   PROVE  /\ ops'[u][q] = "INSERT" => mem'[q].row \in inserted'[u] \cup {NoRow}
                          /\ ops'[u][q] = "DELETE" => mem'[q].row \in deleted'[u]
        BY DEF OpsMatch
      <4>1. CASE u = s /\ q = r
        BY <2>2, <2>3, <2>4, <4>1
      <4>2. CASE u # s \/ q # r
        <5>1. ops'[u][q] = ops[u][q] /\ deleted[u] \subseteq deleted'[u]
          BY <2>3, <4>2
        <5>2. QED
          BY <1>4, <2>5, <3>0, <5>1 DEF OpsMatch
      <4>3. QED
        BY <4>1, <4>2
    <3>2. ToldMatch'
      <4>1. ASSUME NEW u \in Session, NEW x \in inserted'[u]
            PROVE  /\ x \notin committed'
                   /\ \E q \in Rid : ops'[u][q] = "INSERT" /\ mem'[q].row = x
        <5>1. PICK q \in Rid : ops[u][q] = "INSERT" /\ mem[q].row = x
          BY <1>4, <3>0 DEF ToldMatch
        <5>2. ops'[u][q] = "INSERT"
          BY <1>4, <2>3, <5>1
        <5>3. QED
          BY <1>0, <1>4, <2>5, <3>0, <5>1, <5>2 DEF ToldMatch
      <4>2. ASSUME NEW u \in Session, NEW x \in deleted'[u]
            PROVE  \E q \in Rid : ops'[u][q] = "DELETE" /\ mem'[q].row = x
        <5>1. CASE x \in deleted[u]
          <6>1. PICK q \in Rid : ops[u][q] = "DELETE" /\ mem[q].row = x
            BY <3>0, <5>1 DEF ToldMatch
          <6>2. ops'[u][q] = "DELETE"
            BY <2>3, <6>1
          <6>3. QED
            BY <2>5, <6>1, <6>2
        <5>2. CASE x \notin deleted[u]
          BY <2>2, <2>3, <2>4, <5>2
        <5>3. QED
          BY <5>1, <5>2
      <4>3. QED
        BY <4>1, <4>2 DEF ToldMatch
    <3>3. RowsKnown'
      <4>1. ASSUME NEW q \in Rid
            PROVE  \/ mem'[q].row \in committed' \cup leaked' \cup {NoRow}
                   \/ \E u \in Session : ops'[u][q] = "INSERT"
        <5>1. mem[q].row \in committed \cup leaked \cup {NoRow} \/ \E u \in Session : ops[u][q] = "INSERT"
          BY <3>0 DEF RowsKnown
        <5>2. \A u \in Session : ops[u][q] = "INSERT" => ops'[u][q] = "INSERT"
          BY <1>4, <2>3
        <5>3. QED
          BY <1>0, <1>4, <2>5, <5>1, <5>2
      <4>2. \A x \in committed' : \E q \in Rid : mem'[q].row = x
        BY <1>0, <2>5, <3>0 DEF RowsKnown
      <4>3. QED
        BY <4>1, <4>2 DEF RowsKnown
    <3>4. QED
      BY <3>1, <3>2, <3>3
  <2>14. QED
    BY <2>1, <2>6, <2>7, <2>8, <2>9, <2>10, <2>11, <2>12, <2>13 DEF IInv, NoOverlap
<1>5. QED
  BY <1>3, <1>4 DEF Delete, row, new

-----------------------------------------------------------------------------
(* The invariant *)

LEMMA NextInv == IInv /\ [Next]_vars => IInv'
<1> SUFFICES ASSUME IInv, [Next]_vars PROVE IInv'
  OBVIOUS
<1>1. CASE UNCHANGED vars
  BY <1>1 DEF vars, IInv, TypeOK, IdsFresh, ClosedEmpty, SameRows, StampsTracked, DiskTracked,
     RowsOnce, NoOverlap, OneAtATime, OpsMatch, ToldMatch, RowsKnown, Open
<1>2. ASSUME NEW s \in Session, Begin(s) PROVE IInv'
  BY <1>2, BeginInv
<1>3. ASSUME NEW s \in Session, Commit(s) PROVE IInv'
  BY <1>3, CommitInv
<1>4. ASSUME NEW s \in Session, Rollback(s) PROVE IInv'
  BY <1>4, RollbackInv
<1>5. ASSUME NEW s \in Session, Disconnect(s) PROVE IInv'
  BY <1>5, DisconnectInv
<1>6. ASSUME NEW s \in Session, Insert(s) PROVE IInv'
  BY <1>6, InsertInv
<1>7. ASSUME NEW s \in Session, NEW r \in Rid, Delete(s, r) PROVE IInv'
  BY <1>7, DeleteInv
<1>8. ASSUME NEW s \in Session, NEW r \in Rid, Update(s, r) PROVE IInv'
  BY <1>8, UpdateInv
<1>9. CASE Evict
  BY <1>9, EvictInv
<1>10. QED
  BY <1>1, <1>2, <1>3, <1>4, <1>5, <1>6, <1>7, <1>8, <1>9 DEF Next

\* The invariant above holds in every state, for any number of sessions.
THEOREM Inductive == Spec => []IInv
<1>1. QED
  BY InitInv, NextInv, PTL DEF Spec

\* Every variable of the transactions has its type in every state.
THEOREM Typing == Spec => []TypeOK
<1>1. IInv => TypeOK
  BY DEF IInv
<1>2. QED
  BY <1>1, Inductive, PTL

\* A row with the stamp of an open transaction is one of its operations, so
\* that Trx::commit and Trx::rollback reach it, however statements of other
\* sessions and evictions of the page come between.
THEOREM Tracked == Spec => []StampsTracked
<1>1. IInv => StampsTracked
  BY DEF IInv
<1>2. QED
  BY <1>1, Inductive, PTL

LEMMA SettledLemma == IInv => Settled
<1> SUFFICES ASSUME IInv, ~overlap, \A s \in Session : ~Open(s)
             PROVE  /\ \A r \in Rid : mem[r] # Free => mem[r].row \in committed \cup leaked
                    /\ \A row \in committed : \E r \in Rid : mem[r].row = row
  BY DEF Settled
<1>1. RowsKnown
  BY DEF IInv, NoOverlap
<1>2. \A s \in Session, r \in Rid : ops[s][r] # "INSERT"
  BY DEF IInv, ClosedEmpty, NoOps
<1>3. ASSUME NEW r \in Rid, mem[r] # Free PROVE mem[r].row \in committed \cup leaked
  <2>1. mem[r].row # NoRow
    BY <1>3, SlotFacts DEF IInv, TypeOK
  <2>2. QED
    BY <1>1, <1>2, <2>1 DEF RowsKnown
<1>4. QED
  BY <1>1, <1>3 DEF RowsKnown

\* As long as transactions have not overlapped, and whenever none is open,
\* what Trx::is_visible shows a new transaction is committed or leaked, and
\* every committed row is on the page. It need not be visible: an eviction
\* without mark_dirty may have brought the stamp of its transaction back.
THEOREM SettledTable == Spec => []Settled
<1>1. QED
  BY SettledLemma, Inductive, PTL

\* A slot holds after a step the row it held, no row, or the row just inserted.
LEMMA RowsLemma ==
  ASSUME IInv, [Next]_vars, NEW r \in Rid
  PROVE  mem'[r].row \in {mem[r].row, NoRow, nextRow + 1}
<1>0. /\ mem \in [Rid -> Slot] /\ disk \in [Rid -> Slot]
  BY DEF IInv, TypeOK
<1>1. CASE mem' = mem
  BY <1>1
<1>2. ASSUME NEW s \in Session, Commit(s) PROVE mem'[r].row \in {mem[r].row, NoRow}
  <2>1. mem'[r] = CommitSlot(ops[s][r], mem[r])
    BY <1>2 DEF Commit
  <2>2. QED
    BY <1>0, <2>1, CommitSlotLemma, SlotFacts
<1>3. ASSUME NEW s \in Session, Rollback(s) PROVE mem'[r].row \in {mem[r].row, NoRow}
  <2>1. mem'[r] = RollbackSlot(ops[s][r], mem[r])
    BY <1>3 DEF Rollback
  <2>2. QED
    BY <1>0, <2>1, RollbackSlotLemma, SlotFacts
<1>4. ASSUME NEW s \in Session, Insert(s) PROVE mem'[r].row \in {mem[r].row, nextRow + 1}
  <2>1. \/ mem' = mem
        \/ mem' = [mem EXCEPT ![FirstFree] = [row |-> nextRow + 1, id |-> trxId[s], del |-> FALSE]]
    BY <1>4 DEF Insert
  <2>2. QED
    BY <1>0, <2>1
<1>5. ASSUME NEW s \in Session, NEW q \in Rid, Delete(s, q) PROVE mem'[r].row = mem[r].row
  <2>1. \/ mem' = mem
        \/ mem' = [mem EXCEPT ![q] = [row |-> mem[q].row, id |-> trxId'[s], del |-> TRUE]]
    BY <1>5 DEF Delete
  <2>2. QED
    BY <1>0, <2>1
<1>6. CASE Evict
  <2>1. mem' = mem \/ (~dirty /\ mem' = disk)
    BY <1>6 DEF Evict
  <2>2. QED
    BY <1>0, <2>1 DEF IInv, SameRows
<1>7. ASSUME NEW s \in Session, NEW q \in Rid, Begin(s) \/ Disconnect(s) \/ Update(s, q) PROVE mem' = mem
  BY <1>7 DEF Begin, Disconnect, Update, page
<1>8. ASSUME NEW s \in Session, Begin(s) \/ Disconnect(s) PROVE mem' = mem
  BY <1>8 DEF Begin, Disconnect, page
<1>9. CASE UNCHANGED vars
  BY <1>9 DEF vars
<1>10. QED
  BY <1>1, <1>2, <1>3, <1>4, <1>5, <1>6, <1>7, <1>8, <1>9 DEF Next

\* No step brings a removed row back: not a commit or a rollback of another
\* session, and not the eviction of a page whose stamps were never written.
THEOREM NoReturn == Spec => NoResurrection
<1>1. ASSUME IInv, [Next]_vars
      PROVE  [\A row \in 1 .. nextRow :
               (\A r \in Rid : mem[r].row # row) => \A r \in Rid : mem'[r].row # row]_vars
  <2>1. nextRow \in 0 .. MaxRow /\ nextRow \in Nat
    BY <1>1, TrxAssumption DEF IInv, TypeOK
  <2>2. ASSUME NEW row \in 1 .. nextRow, \A r \in Rid : mem[r].row # row, NEW r \in Rid
        PROVE  mem'[r].row # row
    <3>1. row # NoRow /\ row # nextRow + 1
      BY <2>1 DEF NoRow
    <3>2. QED
      BY <1>1, <2>2, <3>1, RowsLemma
  <2>3. QED
    BY <2>2
<1>2. QED
  BY <1>1, Inductive, PTL DEF Spec, NoResurrection
=============================================================================
