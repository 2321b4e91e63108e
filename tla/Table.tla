------------------------------- MODULE Table -------------------------------
(***************************************************************************)
(* One table: its record file, its indexes and the transaction of the      *)
(* session that uses it. A row has a field `a', which is never NULL, a     *)
(* field `b', which may be, and possibly a text, kept on a page of the     *)
(* record file whose number is in the row. An index is what IndexSet says: *)
(* a set of entries <<value, RID>>.                                        *)
(*                                                                         *)
(* Table::update_record tells the client SUCCESS whatever happened, and    *)
(* several operations leave the table damaged. `harm' says which of them   *)
(* happened, so that each property can say what it depends on.             *)
(*                                                                         *)
(* Bounds: a statement touches one row; one session; MaxRow rows.          *)
(***************************************************************************)
EXTENDS RecordFile, Sequences

CONSTANTS AValues,   \* the values of field a
          BValues,   \* the values of field b, which may also be NULL
          Texts,     \* the texts
          MaxRow,    \* bound: rows ever inserted
          MaxCost    \* bound: rows, restarts and damaging operations before the last statement

Null == "null"

ASSUME ValuesAssumption == Null \notin BValues /\ NoText \notin Texts /\ MaxRow \in Nat

VARIABLES
  hasText,   \* has the table a text field?
  file,      \* the record file with the state of its handler
  indexes,   \* Table::indexes_, each with its entries
  ops,       \* Trx::operations_: the rows it inserted and deleted
  multi,     \* Session::trx_multi_operation_mode_
  pc,        \* what the storage stage does next; "damaged" and "aborted" end it
  nextRow,   \* rows inserted so far
  reopened,  \* restarts so far
  \* What the client was told; no code reads these.
  told,      \* the rows it believes to be in the table
  undo,      \* the rows that a rollback would give back to it
  changed,   \* the rows an open transaction changed, as they were before it
  harm       \* which damaging operations happened

trx == <<ops, multi>>
vars == <<hasText, file, indexes, ops, multi, pc, nextRow, reopened, told, undo, changed, harm>>

Fields == {"a", "b"}
ValuesOf(field) == IF field = "a" THEN AValues ELSE BValues
RowType == [id : 1 .. MaxRow, a : AValues, b : BValues \cup {Null}, txt : 0 .. MaxPage, del : BOOLEAN]

RowAt(rid) == file.pages[rid[1]].rows[rid[2]]
LiveRids == {rid \in Scanned(file) : RowAt(rid) # Garbage /\ ~RowAt(rid).del}

----------------------------------------------------------------------------
(* Indexes *)

Entry(ix, row, rid) == <<row[ix.field], rid>>

\* Mutant: a unique index refuses only the same entry.
RefusesSame(ix, row, rid) == row[ix.field] # Null /\ Entry(ix, row, rid) \in ix.entries

\* Does BplusTreeIndex::insert_entry refuse the row?
Refuses(ix, row, rid) ==
  /\ row[ix.field] # Null
  /\ \/ ix.unique /\ \E e \in ix.entries : e[1] = row[ix.field]
     \/ Entry(ix, row, rid) \in ix.entries

FirstOf(S, otherwise) == IF S = {} THEN otherwise ELSE Min(S)

\* insert_entry_of_indexes: the first index that refuses ends it, as does the
\* failure of one, given by `broken'. Returns how many took the row.
Accepting(ixs, row, rid, broken) ==
  FirstOf({i \in DOMAIN ixs : row[ixs[i].field] # Null /\ (i = broken \/ Refuses(ixs[i], row, rid))},
          Len(ixs) + 1) - 1

\* A full leaf is not searched for the entry (insert_into_leaf_after_split): an
\* index that is not unique then takes an entry it has a second time.
TakenTwice(ixs, row, rid) ==
  LET n == Accepting(ixs, row, rid, 0)
  IN  n < Len(ixs) /\ ~ixs[n + 1].unique

\* Mutant: a row gets an entry for NULL.
EntriesForNull(ixs, row, rid, n) ==
  [i \in DOMAIN ixs |->
     IF i <= n THEN [ixs[i] EXCEPT !.entries = @ \cup {Entry(ixs[i], row, rid)}] ELSE ixs[i]]

WithEntries(ixs, row, rid, n) ==
  [i \in DOMAIN ixs |->
     IF i <= n /\ row[ixs[i].field] # Null
     THEN [ixs[i] EXCEPT !.entries = @ \cup {Entry(ixs[i], row, rid)}] ELSE ixs[i]]

\* delete_entry_of_indexes: an index without the entry ends it, since the
\* flag error_on_not_exists works the other way round.
Removable(ixs, row, rid, error_on_not_exists) ==
  IF error_on_not_exists THEN Len(ixs)
  ELSE FirstOf({i \in DOMAIN ixs : row[ixs[i].field] # Null
                                   /\ Entry(ixs[i], row, rid) \notin ixs[i].entries},
               Len(ixs) + 1) - 1

\* Mutant: the entries of the last index are left.
LeavesLast(ixs, row, rid, n) ==
  [i \in DOMAIN ixs |->
     IF i < n THEN [ixs[i] EXCEPT !.entries = @ \ {Entry(ixs[i], row, rid)}] ELSE ixs[i]]

WithoutEntries(ixs, row, rid, n) ==
  [i \in DOMAIN ixs |->
     IF i <= n THEN [ixs[i] EXCEPT !.entries = @ \ {Entry(ixs[i], row, rid)}] ELSE ixs[i]]

----------------------------------------------------------------------------
(* INSERT *)

ValueOf(row, t) == [a |-> row.a, b |-> row.b, t |-> t]
With(map, id, v) == [i \in DOMAIN map \cup {id} |-> IF i = id THEN v ELSE map[i]]
Without(map, ids) == [i \in DOMAIN map \ ids |-> map[i]]

\* The session's thread takes a statement.
Ready == pc = "idle" /\ nextRow + reopened + Cardinality(harm) <= MaxCost

After(rc) == pc' = IF multi THEN "idle" ELSE rc

\* An index holds an entry twice, or the process aborts: nothing that happens
\* afterwards is modelled.
Stops(how) ==
  /\ pc' = how
  /\ UNCHANGED <<file, indexes, trx, nextRow, reopened, hasText, told, undo, changed, harm>>

\* Table::insert_record(trx, record) into file f, by a transaction or for
\* LOAD DATA without one. A refused row is removed from the file, but not
\* from the indexes that took it, and its operation stays.
Insertion(f, row, t, logged) ==
  LET r == InsertRecord(f, row)
  IN
  IF logged /\ r.rid \in DOMAIN ops
  THEN /\ file' = DeleteRecord(r.file, r.rid)
       /\ After("rollback")
       /\ UNCHANGED <<indexes, ops, told, harm>>
  ELSE \E broken \in 0 .. Len(indexes) :
       LET n == Accepting(indexes, row, r.rid, broken)
       IN
       /\ ops' = IF logged THEN With(ops, r.rid, "INSERT") ELSE ops
       /\ \/ /\ n = Len(indexes)
             /\ file' = r.file
             /\ indexes' = WithEntries(indexes, row, r.rid, n)
             /\ told' = With(told, row.id, ValueOf(row, t))
             /\ After("commit")
             /\ harm' = harm \cup (IF ~logged /\ r.rid \in DOMAIN ops THEN {"stale_op"} ELSE {})
          \/ /\ n < Len(indexes) /\ Refuses(indexes[n + 1], row, r.rid) /\ broken # n + 1
             /\ file' = DeleteRecord(r.file, r.rid)
             /\ indexes' = WithEntries(indexes, row, r.rid, n)
             /\ After("rollback")
             /\ harm' = harm \cup (IF n > 0 THEN {"refused_insert"} ELSE {})
             /\ UNCHANGED told
          \/ /\ n < Len(indexes) /\ broken = n + 1
             /\ file' = DeleteRecord(r.file, r.rid)
             /\ indexes' = LET more == WithEntries(indexes, row, r.rid, n)
                           IN WithoutEntries(more, row, r.rid, Removable(more, row, r.rid, TRUE))
             /\ After("rollback")
             /\ UNCHANGED <<told, harm>>

\* make_record
NewRow(a, b, txt) == [id |-> nextRow + 1, a |-> a, b |-> b, txt |-> txt, del |-> FALSE]

\* Table::insert_record for INSERT and, without a transaction, LOAD DATA.
Insert(a, b, logged) ==
  /\ ~hasText
  /\ Ready /\ nextRow < MaxRow
  /\ nextRow' = nextRow + 1
  /\ CanInsert(file)
  /\ Insertion(file, NewRow(a, b, 0), NoText, logged)
  /\ UNCHANGED <<multi, reopened, hasText, undo, changed>>

InsertTwice(a, b, logged) ==
  LET r == InsertRecord(file, NewRow(a, b, 0))
  IN
  /\ ~hasText
  /\ Ready /\ nextRow < MaxRow
  /\ CanInsert(file)
  /\ logged => r.rid \notin DOMAIN ops
  /\ TakenTwice(indexes, NewRow(a, b, 0), r.rid)
  /\ Stops("damaged")

\* make_and_insert_text_record: the text gets a page first.
InsertTextRow(a, b, t) ==
  LET p == NextPage(file)
  IN
  /\ hasText
  /\ Ready /\ nextRow < MaxRow
  /\ nextRow' = nextRow + 1
  /\ CanAllocate(file)
  /\ \E page \in TextPages(file, p, t) :
       LET f == WithPage(file, p, page)
           row == NewRow(a, b, p)
           r == InsertRecord(f, row)
       IN
       /\ CanInsert(f)
       /\ r.rid \notin DOMAIN ops
       /\ Accepting(indexes, row, r.rid, 0) = Len(indexes)
       /\ file' = r.file
       /\ ops' = With(ops, r.rid, "INSERT")
       /\ indexes' = WithEntries(indexes, row, r.rid, Len(indexes))
       /\ told' = With(told, row.id, ValueOf(row, t))
       /\ harm' = harm \cup (IF page.cap > 0 THEN {"text_reuse"} ELSE {})
  /\ After("commit")
  /\ UNCHANGED <<multi, reopened, hasText, undo, changed>>

\* It asserts that insert_record succeeds: an index that refuses the row or
\* fails, or an operation left for the slot, ends the process.
InsertTextAborts(a, b) ==
  LET p == NextPage(file)
  IN
  /\ hasText
  /\ Ready /\ nextRow < MaxRow
  /\ CanAllocate(file)
  /\ \E t \in Texts : \E page \in TextPages(file, p, t) :
       LET f == WithPage(file, p, page)
           row == NewRow(a, b, p)
           r == InsertRecord(f, row)
       IN
       /\ CanInsert(f)
       /\ \/ r.rid \in DOMAIN ops
          \/ \E broken \in 0 .. Len(indexes) : Accepting(indexes, row, r.rid, broken) < Len(indexes)
  /\ Stops("aborted")

\* make_record refuses the values of a table without text field (their number
\* or a type is wrong, or field a is NULL), or the first page is not there.
InsertFails ==
  /\ Ready
  /\ ~hasText \/ FirstPageMissing(file)
  /\ After("rollback")
  /\ UNCHANGED <<file, indexes, trx, nextRow, reopened, hasText, told, undo, changed, harm>>

----------------------------------------------------------------------------
(* UPDATE *)

\* The transaction changes a row it did not insert: its value before the first
\* such change
Noted(rid, id) ==
  IF /\ multi /\ ~(rid \in DOMAIN ops /\ ops[rid] = "INSERT")
     /\ id \in DOMAIN told \ DOMAIN changed /\ told'[id] # told[id]
  THEN With(changed, id, told[id]) ELSE changed

\* update_record_one_attr: the entries go, the row is written in place, the
\* entries come back. The NULL bit is not cleared. What fails is not reported.
Updated(rid, row, f, told1, hurt) ==
  LET old == RowAt(rid)
      k == Removable(indexes, old, rid, FALSE)
      less == WithoutEntries(indexes, old, rid, k)
      n == Accepting(less, row, rid, 0)
  IN
  /\ told' = told1
  /\ IF k < Len(indexes)
     THEN indexes' = less /\ file' = file /\ harm' = harm \cup {"refused_update"}
     ELSE /\ file' = UpdateRecord(f, rid, row)
          /\ indexes' = WithEntries(less, row, rid, n)
          /\ harm' = harm \cup hurt \cup (IF n < Len(indexes) THEN {"refused_update"} ELSE {})

Update(rid, field, v) ==
  LET old == RowAt(rid)
      null == old[field] = Null
  IN
  /\ Ready
  /\ rid \in LiveRids
  /\ Updated(rid, IF null THEN old ELSE [old EXCEPT ![field] = v], file,
             IF old.id \in DOMAIN told THEN [told EXCEPT ![old.id][field] = v] ELSE told,
             IF null THEN {"null_update"} ELSE {})
  /\ changed' = Noted(rid, old.id)
  /\ After("commit")
  /\ UNCHANGED <<trx, nextRow, reopened, hasText, undo>>

UpdateTwice(rid, field, v) ==
  LET old == RowAt(rid)
      k == Removable(indexes, old, rid, FALSE)
  IN
  /\ Ready
  /\ rid \in LiveRids /\ old[field] # Null
  /\ k = Len(indexes)
  /\ TakenTwice(WithoutEntries(indexes, old, rid, k), [old EXCEPT ![field] = v], rid)
  /\ Stops("damaged")

\* update_record_text_attr rewrites the text's page as well.
UpdateTextOf(rid, t) ==
  LET old == RowAt(rid)
  IN
  /\ Ready
  /\ hasText /\ rid \in LiveRids /\ Allocated(file, old.txt)
  /\ Updated(rid, old, UpdateText(file, old.txt, t),
             IF old.id \in DOMAIN told THEN [told EXCEPT ![old.id].t = t] ELSE told, {})
  /\ changed' = Noted(rid, old.id)
  /\ After("commit")
  /\ UNCHANGED <<trx, nextRow, reopened, hasText, undo>>

----------------------------------------------------------------------------
(* DELETE *)

\* Trx::delete_record only marks the row; a row of the same transaction just
\* loses its operation.
Delete(rid) ==
  LET row == RowAt(rid)
  IN
  /\ Ready
  /\ rid \in LiveRids
  /\ \/ /\ rid \in DOMAIN ops /\ ops[rid] = "INSERT"
        /\ ops' = Without(ops, {rid})
        /\ harm' = harm \cup {"own_delete"}
        /\ UNCHANGED <<file, undo>>
     \/ /\ rid \notin DOMAIN ops
        /\ ops' = With(ops, rid, "DELETE")
        /\ file' = [file EXCEPT !.pages[rid[1]].rows[rid[2]].del = TRUE]
        /\ undo' = IF row.id \in DOMAIN told THEN With(undo, row.id, told[row.id]) ELSE undo
        /\ UNCHANGED harm
  /\ told' = Without(told, {row.id})
  /\ After("commit")
  /\ UNCHANGED <<indexes, multi, nextRow, reopened, hasText, changed>>

----------------------------------------------------------------------------
(* The end of a transaction: one operation at a time, in any order. What     *)
(* happens to a record that was never set is not modelled; OperationsFound    *)
(* is about that.                                                              *)

Begin ==
  /\ Ready /\ ~multi
  /\ multi' = TRUE
  /\ UNCHANGED <<file, indexes, ops, pc, nextRow, reopened, hasText, told, undo, changed, harm>>

\* The values that the client gets back with a ROLLBACK
Reverted(map) == [id \in DOMAIN map |-> IF id \in DOMAIN changed THEN changed[id] ELSE map[id]]

\* COMMIT and ROLLBACK, whose statement is `end'. The transaction has no
\* operation for an UPDATE, so that a ROLLBACK leaves it in the file.
End(end) ==
  /\ Ready /\ multi
  /\ multi' = FALSE
  /\ pc' = end
  /\ IF end = "rollback" /\ (Reverted(told) # told \/ Reverted(undo) # undo)
     THEN /\ told' = Reverted(told) /\ undo' = Reverted(undo)
          /\ harm' = harm \cup {"update_kept"}
     ELSE UNCHANGED <<told, undo, harm>>
  /\ UNCHANGED <<file, indexes, ops, nextRow, reopened, hasText, changed>>

\* Table::rollback_insert: the row stays if an index does not have its entry.
RollbackInsert(rid) ==
  LET row == RowAt(rid)
  IN
  IF Found(file, rid)
  THEN LET n == Removable(indexes, row, rid, FALSE)
       IN /\ indexes' = WithoutEntries(indexes, row, rid, n)
          /\ file' = IF n = Len(indexes) THEN DeleteRecord(file, rid) ELSE file
  ELSE UNCHANGED <<file, indexes>>

\* Table::rollback_delete and commit_insert reset the stamp of the row.
Unmark(rid) ==
  /\ file' = IF Found(file, rid)
             THEN [file EXCEPT !.pages[rid[1]].rows[rid[2]].del = FALSE] ELSE file
  /\ UNCHANGED indexes

\* Mutant: the row stays after a committed deletion.
OnlyUnmarks(rid) == Unmark(rid)

\* Table::commit_delete: what fails in the indexes is only logged.
CommitDelete(rid) ==
  LET row == RowAt(rid)
  IN
  IF Found(file, rid)
  THEN /\ indexes' = WithoutEntries(indexes, row, rid, Removable(indexes, row, rid, FALSE))
       /\ file' = DeleteRecord(IF Allocated(file, row.txt) THEN DeleteText(file, row.txt) ELSE file, rid)
  ELSE UNCHANGED <<file, indexes>>

\* One operation of Trx::commit
CommitOne ==
  /\ pc = "commit"
  /\ \E rid \in DOMAIN ops :
       /\ Defined(file, rid) /\ RowAt(rid) # Garbage
       /\ ops' = Without(ops, {rid})
       /\ IF ops[rid] = "INSERT" THEN Unmark(rid) ELSE CommitDelete(rid)
  /\ UNCHANGED <<multi, pc, nextRow, reopened, hasText, told, undo, changed, harm>>

\* One operation of Trx::rollback. The client gets back the rows it deleted,
\* and loses the rows it inserted.
RollbackOne ==
  /\ pc = "rollback"
  /\ \E rid \in DOMAIN ops :
       /\ Defined(file, rid) /\ RowAt(rid) # Garbage
       /\ ops' = Without(ops, {rid})
       /\ IF ops[rid] = "INSERT" THEN RollbackInsert(rid) ELSE Unmark(rid)
       /\ LET row == RowAt(rid)
          IN told' = IF row = NoRow THEN told
                     ELSE IF ops[rid] = "INSERT" THEN Without(told, {row.id})
                     ELSE IF row.id \in DOMAIN undo THEN With(told, row.id, undo[row.id])
                     ELSE told
  /\ UNCHANGED <<multi, pc, nextRow, reopened, hasText, undo, changed, harm>>

\* operations_.clear()
Finish ==
  /\ pc \in {"commit", "rollback"} /\ ops = <<>>
  /\ pc' = "idle"
  /\ undo' = <<>> /\ changed' = <<>>
  /\ UNCHANGED <<file, indexes, trx, nextRow, reopened, hasText, told, harm>>

----------------------------------------------------------------------------
(* Indexes and restarts *)

\* Table::create_index scans the whole table, and fails if the scan does, or
\* if the new unique index refuses a row. Rows marked as deleted are passed
\* over, although a rollback may bring them back.
CreateIndex(field, uniq) ==
  LET rids == {rid \in LiveRids : RowAt(rid)[field] # Null}
      entries == {<<RowAt(rid)[field], rid>> : rid \in rids}
      ok == /\ ScanEnd(file) = "EOF"
            /\ uniq => \A d, e \in entries : d[1] = e[1] => d = e
  IN
  /\ Ready
  /\ \A i \in DOMAIN indexes : indexes[i].field # field
  /\ indexes' = IF ok THEN Append(indexes, [field |-> field, unique |-> uniq, entries |-> entries])
                ELSE indexes
  /\ harm' = harm \cup (IF ok /\ \E rid \in DOMAIN ops : ops[rid] = "DELETE"
                        THEN {"index_in_trx"} ELSE {})
  /\ After(IF ok THEN "commit" ELSE "rollback")
  /\ UNCHANGED <<file, trx, nextRow, reopened, hasText, told, undo, changed>>

\* The server stops and starts again: Table::open forgets which indexes are
\* unique, and the record file handler has no page yet.
Reopen ==
  /\ Ready /\ ~multi
  /\ reopened' = reopened + 1
  /\ indexes' = [i \in DOMAIN indexes |-> [indexes[i] EXCEPT !.unique = FALSE]]
  /\ file' = [file EXCEPT !.cur = 0]
  /\ UNCHANGED <<hasText, trx, pc, nextRow, told, undo, changed, harm>>

----------------------------------------------------------------------------
Init ==
  /\ hasText \in BOOLEAN
  /\ file = NewFile /\ indexes = <<>> /\ ops = <<>> /\ multi = FALSE
  /\ pc = "idle" /\ nextRow = 0 /\ reopened = 0
  /\ told = <<>> /\ undo = <<>> /\ changed = <<>> /\ harm = {}

Next ==
  \/ \E a \in AValues, b \in BValues \cup {Null} :
       \/ \E logged \in BOOLEAN : Insert(a, b, logged) \/ InsertTwice(a, b, logged)
       \/ \E t \in Texts : InsertTextRow(a, b, t)
       \/ InsertTextAborts(a, b)
  \/ InsertFails
  \/ \E rid \in RID :
       \/ \E field \in Fields : \E v \in ValuesOf(field) : Update(rid, field, v) \/ UpdateTwice(rid, field, v)
       \/ \E t \in Texts : UpdateTextOf(rid, t)
       \/ Delete(rid)
  \/ Begin \/ End("commit") \/ End("rollback") \/ CommitOne \/ RollbackOne \/ Finish
  \/ \E field \in Fields, uniq \in BOOLEAN : CreateIndex(field, uniq)
  \/ Reopen

Spec == Init /\ [][Next]_vars

----------------------------------------------------------------------------
(* Properties *)

\* Every variable has its type.
TypeOK ==
  /\ \A p \in PageNum : \A s \in SlotNum : file.pages[p].rows[s] \in RowType \cup {NoRow, Garbage}
  /\ file.count \in 1 .. MaxPage + 1 /\ file.cur \in 0 .. MaxPage
  /\ \A i \in DOMAIN indexes : indexes[i].entries \subseteq ValuesOf(indexes[i].field) \X RID
  /\ DOMAIN ops \subseteq RID /\ pc \in {"idle", "commit", "rollback", "damaged", "aborted"}
  /\ DOMAIN told \subseteq 1 .. MaxRow

\* The page that insertions use is never disposed of under them.
CurrentPageStays == file.cur # 0 => Allocated(file, file.cur)

\* Commit and rollback never go on with a record that get_record did not set,
\* because its page is gone: a row with an operation keeps its page.
OperationsFound ==
  harm \cap {"stale_op", "text_reuse"} = {} => \A rid \in DOMAIN ops : Defined(file, rid)

\* Every index has exactly the entries of the rows in the file, the deleted
\* ones that are not committed yet included, unless a unique index refused an
\* UPDATE, an index before it had taken the row it refused, an index was
\* created next to an uncommitted deletion, or a text got a used page.
IndexAgrees ==
  harm \cap {"refused_update", "refused_insert", "index_in_trx", "text_reuse"} = {} =>
    \A i \in DOMAIN indexes :
      indexes[i].entries =
        {<<RowAt(rid)[indexes[i].field], rid>> :
           rid \in {r \in Scanned(file) : RowAt(r)[indexes[i].field] # Null}}

TextOf(row) == IF row.txt = 0 THEN NoText ELSE file.pages[row.txt].text

\* A scan finds the rows that the client was told are there, each once, with the
\* values it gave them and their texts.
AsTold ==
  /\ {RowAt(rid).id : rid \in LiveRids} = DOMAIN told
  /\ \A rid \in LiveRids : ValueOf(RowAt(rid), TextOf(RowAt(rid))) = told[RowAt(rid).id]
  /\ \A q, r \in LiveRids : RowAt(q).id = RowAt(r).id => q = r

\* Between two statements the table is as the client was told, unless an index
\* refused an UPDATE, it was of a field that is NULL, a transaction deleted a
\* row of its own, an operation or a text was left for a page in use, or a
\* transaction that had updated a row was rolled back.
RowsKept ==
  pc = "idle" /\ harm \cap {"refused_update", "null_update", "own_delete", "stale_op", "text_reuse",
                            "update_kept"} = {} => AsTold

\* Two rows do not share a value of an index that was created as unique since
\* the server started. Table::open makes every index of the meta file one that
\* is not unique, so after a restart nothing keeps the rows of an older index
\* apart.
UniqueRows ==
  harm \cap {"refused_update", "index_in_trx", "text_reuse"} = {} =>
    \A i \in DOMAIN indexes : indexes[i].unique =>
      \A q, r \in LiveRids :
        (RowAt(q)[indexes[i].field] = RowAt(r)[indexes[i].field]
         /\ RowAt(q)[indexes[i].field] # Null) => q = r
=============================================================================
