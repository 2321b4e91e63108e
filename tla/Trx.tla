-------------------------------- MODULE Trx --------------------------------
(***************************************************************************)
(* Transactions over one table: Trx, the Table operations it calls back,   *)
(* and the autocommit of DefaultStorageStage.  A row carries a stamp (the  *)
(* __trx field): a transaction id, 0 for none, and a deleted flag.  Rows   *)
(* live on a page of the cache; stamps are written in place without        *)
(* mark_dirty, so evicting the page may undo them.                         *)
(*                                                                         *)
(* Sessions are served by several SQL threads and nothing locks, so the    *)
(* statements of sessions interleave, and so does the commit that follows  *)
(* a statement outside BEGIN.                                              *)
(*                                                                         *)
(* Bounds: a statement touches one row, the rows are on one page, which    *)
(* always holds one more row that nobody touches, and an index fails only  *)
(* by refusing a duplicate key.  Each step below is atomic.                *)
(***************************************************************************)
EXTENDS Integers, FiniteSets

CONSTANTS
  Session,  \* connected clients
  NumSlots, \* bound: slots of the page
  MaxTrx,   \* bound: transaction ids handed out
  MaxRow    \* bound: rows ever inserted

ASSUME TrxAssumption == NumSlots \in Nat /\ MaxTrx \in Nat /\ MaxRow \in Nat

Rid   == 1 .. NumSlots
NoRow == 0
Row   == 1 .. MaxRow
Free  == [row |-> NoRow, id |-> 0, del |-> FALSE]
Slot  == [row : Row, id : 0 .. MaxTrx, del : BOOLEAN] \cup {Free}

VARIABLES
  mem,      \* the slots in the page's frame
  disk,     \* the slots in the file
  dirty,    \* the frame's dirty flag
  trxId,    \* Trx::trx_id_ of the session's transaction
  ops,      \* Trx::operations_
  multi,    \* Session::trx_multi_operation_mode_
  pc,       \* what the session's thread does next
  nextId,   \* the static counter of next_trx_id
  nextRow,  \* rows inserted so far
  \* What the clients were told; no code reads these.
  inserted, deleted,  \* rows of the open transaction of each session
  committed,          \* rows that are in the table
  leaked,             \* rows of a disconnected client, or deleted by their inserter
  overlap             \* have two transactions been open together?

page  == <<mem, disk, dirty>>
told  == <<inserted, deleted, committed, leaked, overlap>>
vars  == <<mem, disk, dirty, trxId, ops, multi, pc, nextId, nextRow,
           inserted, deleted, committed, leaked, overlap>>

-----------------------------------------------------------------------------
(* Trx *)

\* is_visible for a transaction with id t.
Visible(t, slot) ==
  IF slot.id \in {0, t} THEN ~slot.del ELSE slot.del

NoOps == [r \in Rid |-> "NONE"]

\* start_if_not_started
Started(s) ==
  IF trxId[s] = 0
  THEN /\ nextId < MaxTrx
       /\ nextId' = nextId + 1
       /\ trxId' = [trxId EXCEPT ![s] = nextId + 1]
       /\ overlap' = (overlap \/ \E u \in Session \ {s} : trxId[u] # 0)
  ELSE UNCHANGED <<nextId, trxId, overlap>>

\* Table::commit_insert, commit_delete, rollback_insert, rollback_delete: the
\* slot afterwards.  When get_record finds the slot empty the error is logged.
Unstamped(slot) == IF slot = Free THEN Free ELSE [row |-> slot.row, id |-> 0, del |-> FALSE]

\* Mutant: commit does not remove the deleted row.
StillMarked(op, slot) == IF op = "INSERT" THEN Unstamped(slot) ELSE slot

CommitSlot(op, slot) ==
  CASE op = "INSERT" -> Unstamped(slot)
    [] op = "DELETE" -> Free
    [] OTHER         -> slot

\* Mutant: the slot is freed but the stamp stays.
StampStays(op, slot) == IF op = "INSERT" THEN [slot EXCEPT !.row = NoRow] ELSE slot

RollbackSlot(op, slot) ==
  CASE op = "INSERT" -> Free
    [] op = "DELETE" -> Unstamped(slot)
    [] OTHER         -> slot

\* Mutant: removing a row does not mark the page dirty.
NeverDirty(m) == dirty

\* RecordPageHandler marks the page dirty when it deletes a row; writing a
\* stamp does not.
DirtyAfter(m) == dirty \/ \E r \in Rid : mem[r] # Free /\ m[r] = Free

-----------------------------------------------------------------------------
(* Statements *)

\* After a statement outside BEGIN the storage stage commits or rolls back.
After(s, rc) == pc' = [pc EXCEPT ![s] = IF multi[s] THEN "idle" ELSE rc]

Begin(s) ==
  /\ pc[s] = "idle" /\ ~multi[s]
  /\ multi' = [multi EXCEPT ![s] = TRUE]
  /\ UNCHANGED <<page, trxId, ops, pc, nextId, nextRow, told>>

\* next_unsetted_bit
FreeRids == {r \in Rid : mem[r] = Free}
FirstFree == CHOOSE r \in FreeRids : \A q \in FreeRids : r <= q

\* Table::insert_record: init_trx_info stamps the row with the id the
\* transaction has before it is started.  An operation left on the slot makes
\* Trx::insert_record fail; a unique index may refuse the row after it, which
\* leaves the operation behind.
Insert(s) ==
  LET row == nextRow + 1
      r   == FirstFree
  IN
  /\ pc[s] = "idle"
  /\ FreeRids # {}
  /\ nextRow < MaxRow
  /\ nextRow' = row
  /\ dirty' = TRUE
  /\ \/ /\ ops[s][r] = "NONE"
        /\ Started(s)
        /\ ops' = [ops EXCEPT ![s][r] = "INSERT"]
        /\ \/ /\ mem' = [mem EXCEPT ![r] = [row |-> row, id |-> trxId[s], del |-> FALSE]]
              /\ inserted' = [inserted EXCEPT ![s] = @ \cup {row}]
              /\ After(s, "commit")
           \/ mem' = mem /\ After(s, "rollback") /\ UNCHANGED inserted
     \/ /\ ops[s][r] # "NONE"
        /\ mem' = mem
        /\ After(s, "rollback")
        /\ UNCHANGED <<trxId, ops, nextId, inserted, overlap>>
  /\ UNCHANGED <<disk, multi, deleted, committed, leaked>>

\* Mutant: the operation is not logged.
DeleteUnlogged(s, r) ==
  /\ pc[s] = "idle"
  /\ mem[r] # Free /\ Visible(trxId[s], mem[r])
  /\ ops[s][r] = "NONE"
  /\ Started(s)
  /\ mem' = [mem EXCEPT ![r] = [row |-> mem[r].row, id |-> trxId'[s], del |-> TRUE]]
  /\ deleted' = [deleted EXCEPT ![s] = @ \cup {mem[r].row}]
  /\ After(s, "commit")
  /\ UNCHANGED <<disk, dirty, ops, multi, nextRow, inserted, committed, leaked>>

\* Table::delete_record on a visible row.  A row the transaction inserted
\* only loses its operation; a second delete fails and changes nothing.
Delete(s, r) ==
  LET row == mem[r].row
  IN
  /\ pc[s] = "idle"
  /\ mem[r] # Free /\ Visible(trxId[s], mem[r])
  /\ \/ /\ ops[s][r] = "INSERT"
        /\ ops' = [ops EXCEPT ![s][r] = "NONE"]
        /\ inserted' = [inserted EXCEPT ![s] = @ \ {row}]
        /\ leaked' = leaked \cup {row}
        /\ UNCHANGED <<mem, trxId, nextId, deleted, overlap>>
     \/ /\ ops[s][r] = "NONE"
        /\ Started(s)
        /\ mem' = [mem EXCEPT ![r] = [row |-> row, id |-> trxId'[s], del |-> TRUE]]
        /\ ops' = [ops EXCEPT ![s][r] = "DELETE"]
        /\ deleted' = [deleted EXCEPT ![s] = @ \cup {row}]
        /\ UNCHANGED <<inserted, leaked>>
  /\ After(s, "commit")
  /\ UNCHANGED <<disk, dirty, multi, nextRow, committed>>

\* Table::update_record writes the row in place, outside the transaction.
Update(s, r) ==
  /\ pc[s] = "idle"
  /\ mem[r] # Free /\ Visible(trxId[s], mem[r])
  /\ dirty' = TRUE
  /\ After(s, "commit")
  /\ UNCHANGED <<mem, disk, trxId, ops, multi, nextId, nextRow, told>>

\* operations_.clear(), trx_id_ = 0, and the session leaves BEGIN.
Close(s) ==
  /\ ops' = [ops EXCEPT ![s] = NoOps]
  /\ trxId' = [trxId EXCEPT ![s] = 0]
  /\ multi' = [multi EXCEPT ![s] = FALSE]
  /\ pc' = [pc EXCEPT ![s] = "idle"]
  /\ inserted' = [inserted EXCEPT ![s] = {}]
  /\ deleted' = [deleted EXCEPT ![s] = {}]

\* Trx::commit, for COMMIT or after a statement.
Commit(s) ==
  /\ pc[s] = "commit" \/ (pc[s] = "idle" /\ multi[s])
  /\ mem' = [r \in Rid |-> CommitSlot(ops[s][r], mem[r])]
  /\ dirty' = DirtyAfter(mem')
  /\ committed' = (committed \cup inserted[s]) \ deleted[s]
  /\ Close(s)
  /\ UNCHANGED <<disk, nextId, nextRow, leaked, overlap>>

\* Trx::rollback, for ROLLBACK or after a statement that failed.
Rollback(s) ==
  /\ pc[s] = "rollback" \/ (pc[s] = "idle" /\ multi[s])
  /\ mem' = [r \in Rid |-> RollbackSlot(ops[s][r], mem[r])]
  /\ dirty' = DirtyAfter(mem')
  /\ Close(s)
  /\ UNCHANGED <<disk, nextId, nextRow, committed, leaked, overlap>>

\* The client goes away: ~Session deletes the transaction as it is.
Disconnect(s) ==
  /\ pc[s] = "idle" /\ multi[s]
  /\ leaked' = leaked \cup inserted[s]
  /\ Close(s)
  /\ UNCHANGED <<page, nextId, nextRow, committed, overlap>>

\* The page cache takes the page's frame and reads the page back later.
Evict ==
  /\ disk' = IF dirty THEN mem ELSE disk
  /\ mem' = disk'
  /\ dirty' = FALSE
  /\ UNCHANGED <<trxId, ops, multi, pc, nextId, nextRow, told>>

-----------------------------------------------------------------------------
Init ==
  /\ mem = [r \in Rid |-> Free]
  /\ disk = mem
  /\ dirty = FALSE
  /\ trxId = [s \in Session |-> 0]
  /\ ops = [s \in Session |-> NoOps]
  /\ multi = [s \in Session |-> FALSE]
  /\ pc = [s \in Session |-> "idle"]
  /\ nextId = 0
  /\ nextRow = 0
  /\ inserted = [s \in Session |-> {}]
  /\ deleted = [s \in Session |-> {}]
  /\ committed = {}
  /\ leaked = {}
  /\ overlap = FALSE

Next ==
  \/ \E s \in Session :
       \/ Begin(s) \/ Commit(s) \/ Rollback(s) \/ Disconnect(s) \/ Insert(s)
       \/ \E r \in Rid : Delete(s, r) \/ Update(s, r)
  \/ Evict

Spec == Init /\ [][Next]_vars

-----------------------------------------------------------------------------
(* Properties *)

Open(s) == trxId[s] # 0

\* Every variable has its type.
TypeOK ==
  /\ mem \in [Rid -> Slot] /\ disk \in [Rid -> Slot] /\ dirty \in BOOLEAN
  /\ trxId \in [Session -> 0 .. MaxTrx]
  /\ ops \in [Session -> [Rid -> {"NONE", "INSERT", "DELETE"}]]
  /\ multi \in [Session -> BOOLEAN]
  /\ pc \in [Session -> {"idle", "commit", "rollback"}]
  /\ nextId \in 0 .. MaxTrx /\ nextRow \in 0 .. MaxRow
  /\ inserted \in [Session -> SUBSET Row] /\ deleted \in [Session -> SUBSET Row]
  /\ committed \subseteq Row /\ leaked \subseteq Row /\ overlap \in BOOLEAN

\* A row stamped with the id of an open transaction is one that transaction
\* has an operation for, so that commit or rollback will reach it; unless it
\* is a row the transaction inserted and deleted again.
StampsTracked ==
  \A s \in Session, r \in Rid :
    (Open(s) /\ mem[r].id = trxId[s]) => (ops[s][r] # "NONE" \/ mem[r].row \in leaked)

\* A row that was removed from the page stays removed, whatever is evicted.
NoResurrection ==
  [][\A row \in 1 .. nextRow :
       (\A r \in Rid : mem[r].row # row) => \A r \in Rid : mem'[r].row # row]_vars

\* As long as transactions do not overlap, and whenever none is open: a new
\* transaction sees only committed or leaked rows, and every committed row is
\* in the table.
Settled ==
  (~overlap /\ \A s \in Session : ~Open(s)) =>
    /\ \A r \in Rid : (mem[r] # Free /\ Visible(0, mem[r])) => mem[r].row \in committed \cup leaked
    /\ \A row \in committed : \E r \in Rid : mem[r].row = row
=============================================================================
