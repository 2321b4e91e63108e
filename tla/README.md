# A verification project for Atangyldb

Atangyldb is a relational database server in C++ (a MiniOB descendant). One
network thread accepts connections and puts each request on a queue; a pool of
threads carries a request through the stages of the SQL pipeline down to a
storage engine made of tables, record files, B+ tree indexes and a page cache.
This directory holds TLA+ models of the parts whose correctness depends on
order, interleaving or failure, the TLC runs that check them, and TLAPS proofs
about the page cache, the transactions, the SEDA core, the server, the catalog, the
table and the B+ tree.

Paths below are relative to `src/src/observer/`, or to `src/deps/common/` where
they begin with `seda/`.

## Inventory

| Component | State | Operations | Talks to | What is hard | What makes it correct |
|---|---|---|---|---|---|
| Page cache: `storage/default/disk_buffer_pool.*`, `lru_replacer.*` | frames, free list, LRU list, page table, open files, header page per file | create, drop, open, close file; get, allocate, dispose, unpin, mark dirty, force, flush all | read/write/open; called by record manager, B+ tree, handler | eviction, failed I/O half way through an operation, sync while pages are in use | a held page stays in its frame; frames are neither shared nor lost; only writers change pages |
| Transactions: `storage/trx/` | transaction id, set of operations per table; a stamp in every row | start, insert, delete, commit, rollback, visibility | Table calls it and is called back at commit | no locks, several SQL threads; stamps not marked dirty; stale operations | every stamp is resolved by its transaction; committed rows are there, removed rows stay removed |
| Session: `session/` | current transaction, BEGIN mode | statements, disconnect | connection, execute and storage stages | disconnect inside BEGIN; connection deleted while a worker answers | a session's transaction ends with it |
| SEDA core: `seda/stage.cpp`, `thread_pool.cpp`, `kill_thread.cpp`, `seda_config.cpp` | queue and owed events per stage; run queue, idle count, thread counts | connect, disconnect, add event, schedule, worker loop, kill threads | every stage | lost wake-ups, disconnect against add_event, shutdown | no event lost, a disconnected stage has no events of its own left, clean-up ends |
| Events and callbacks, timer and metrics stage, dispatcher: `seda/` | callback stack; timer queue and thread | done, timeouts, register, cancel | SEDA core | timer thread against cancel and shutdown | each timer fires or is cancelled, once |
| Record manager: `storage/common/record_manager.cpp` | page header and slot bitmap; current page | insert, update, delete, get, scan, text pages | page cache | page emptied and disposed of while referred to; errors reported as success | bitmap and record count agree; a scan sees each row once |
| Table, table metadata, database: `storage/common/table*.cpp`, `db.cpp`, `storage/default/default_handler.cpp` | record file, indexes, metadata file | create, drop, open, insert, update, delete, create index, sync | record manager, indexes, transactions | one step of several failing; crash between metadata and index | every row has its index entries and no entry is dangling |
| B+ tree: `storage/common/bplus_tree.cpp` | nodes on pages, header with the root | insert, delete, look up, scan | page cache | splitting, borrowing, merging; root change and reopen | it is an ordered set of (key, rid) |
| Conditions, comparators: `storage/common/condition_filter.cpp`, `util/comparator.cpp` | none | compare | Table, executors | NULL, int differences that wrap, which side is the column | a filter takes the rows its condition means |
| Query execution: `sql/executor/` | tuples; static sort columns | select, join, aggregate, subquery | Table | threads sharing the sort columns, filters left behind, empty sub-selects, assertions | equals the relational definition |
| Parser, resolver, optimizer, plan and query cache: `sql/` | none | generated parser; stages that forward the event | SEDA | nothing of its own | |
| Network server: `net/server.cpp` | connections, one mutex each | accept, receive, send, close, shutdown | session stage | a connection closed while its request is handled, requests in pieces or too early | answers come in turn, every request is answered, no freed connection is used |

A request travels like this: the network thread makes a SessionEvent and calls
`SessionStage.add_event`; a worker takes it and calls the `handle_event` of
ResolveStage, QueryCacheStage, PlanCacheStage, ParseStage, OptimizeStage,
ExecuteStage and DefaultStorageStage in its own thread, one inside the other;
the answer is sent from the callback of SessionStage. All workers share the
storage engine, which has no locks. `PROJECT.json` lists the hazards that follow
from this, each at the line where it bites.

## Modules

| Module | What it is |
|---|---|
| `DiskBufferPool` | the page cache, with the operating system's files and descriptors |
| `PageStore` | what the cache promises: pages that only writers change |
| `DiskBufferPoolProofs` | the proofs about `DiskBufferPool`, and that it implements `PageStore` |
| `Trx` | transactions over the rows of one page, with sessions, autocommit and eviction |
| `Seda` | stages, thread pool, start and clean-up |
| `BplusTree` | the B+ tree of an index, with its scanner |
| `IndexSet` | what an index promises: a set of entries and ordered scans of it |
| `RecordFile` | the record file of a table: pages, slots, text pages, as operators |
| `Table` | rows, indexes, texts and the transaction of one session; composes `RecordFile` with indexes as in `IndexSet` |
| `Catalog` | the tables of a database and their files: create, drop, create index, sync, crash, open |
| `Conditions` | values, conditions and filters, and what SQL says they mean |
| `Select` | `do_select`: scan, product, aggregates, order, expressions, on several threads |
| `Executor` | `do_select_v2`: joins and sub-selects beside a writer |
| `Server` | connections, the event loop and the way of a request through the stages |
| `TrxProofs`, `SedaProofs`, `ServerProofs`, `CatalogProofs` | the proofs about `Trx`, `Seda`, `Server` and `Catalog` |
| `TableProofs` | what the operators of `RecordFile` and `Table` do to a file, to the indexes and to the client's rows, and the proofs about `Table` |
| `SearchTrees` | lemmas about search trees in general: splitting, merging and reading them |
| `BplusTreeProofs` | the proofs about `BplusTree`, and that it implements `IndexSet` |
| `MC...` | symmetry sets, data and queries for TLC |

Operators marked "Mutant" are plausible mistakes in the definition after them;
substituting one for its definition makes the property it is paired with in
`PROJECT.json` fail. Nothing else refers to them.

### DiskBufferPool

One variable per member: `frames`, `freeList`, `lru` (front first), `pageTable`,
`openFile`, `freeIds`; `ph` are the callers' page handles and remember which
page was asked for; `files`, `disk` and `fdFile` are the operating system. Each
public operation is one action with all the calls it makes. `allocate_page` is
two actions, `ReusePage` and `ExtendFile`, for its two return paths. A page is a
value, but page 0 keeps its fields and its bitmap. `Fetch` is the body of
`get_this_page`, which `allocate_page` also calls after it has changed the
header. A page that a failed write skipped reads back as zeroes, page number
included.

`read` and `write` fail on a closed descriptor or beyond the end of the file,
and at any time if `ReadErrors` or `WriteErrors` is TRUE. `new Frame[size]` does
not initialize its memory; the array is large enough to come zeroed from the
kernel, and `Init` says so.

There are three specifications, because a successful `flush_all_pages` or
`close_file` damages the cache (see the runs): `Spec` has every operation but
those two when they succeed; `ShutdownSpec` has work, then sync and close, in any
order, with no further work once the cache is damaged; `SyncSpec` has
`flush_all_pages` in the middle of the work.

Not modelled: `force_page(-1)`, which nothing calls, and a `close(2)` that fails.

### Trx

A row has a stamp: a transaction id, 0 for none, and a delete mark. `mem` is the
page in its frame and `disk` the page in the file; inserting, updating and
removing a row marks the frame dirty, stamping does not; `Evict` writes a dirty
frame and reads the page back. `pc` separates a statement from the commit or
rollback that `DefaultStorageStage` adds outside BEGIN, so that another session
can come between. `inserted`, `deleted`, `committed`, `leaked` and `overlap` record what
clients were told and are read by properties only.

Bounds: a statement touches one row; rows are on one page, which always holds one more
row that nobody touches (so the page is not disposed of); an index only ever
fails by refusing a duplicate key; commit and rollback are atomic; transaction
ids do not wrap.

### Seda

Actions are critical sections. `Push` is `add_event` up to the unlock and
`Schedule` the call after it; a worker goes through `Pop`, `Remove`, a handler and
`Release`; the owner runs `SedaConfig::start`, then `cleanup`, which disconnects the
stages in name order, deletes them and kills the threads. A handler may call
another stage's `handle_event` in its own thread (`CallNext`), pass the event
on with `add_event` or `done` (`PassOn`) or return (`Finish`). Events may be added to a
stage before it is connected: `MetricsStage::initialize` does that. All stages
share one pool, since `SedaConfig::get_thread_pool` returns the default pool
whatever is configured. Condition variables may wake up without a signal. The
wait in `kill_threads` is not in a loop: after such a wake-up (`KillWakes`) it holds
`thread_mutex_` while it disconnects the kill stage, and the threads still to be
killed wait for that mutex (`KillStuck`, which `CleanupEnds` excepts).

`disconnect` waits for the events of its own queue only. A worker that came by
`CallNext` is `inside` a stage whose events are not the reason it is there, and the
stage's disconnect does not wait for it: clean-up takes the stages in name order,
DefaultStorageStage before ExecuteStage, which calls it.
`OwnEventsDone` says what does hold: such a worker still has an event of a stage
that is yet to be disconnected, so that none is in a handler when the stages are deleted.

### BplusTree and IndexSet

A node has the keys and pointers of the code's arrays; a key is a field value with
its record id. Every function of the handler that changes pages is an action, and
`call` is the call it makes as its last act. `scan` is the open scanner; an open
scanner pins its leaf, and `leaked` are pages that an error path left pinned.
An entry that is inserted although the tree has it is refused by a leaf with room,
which stays pinned (`RefuseExisting`); a full leaf is not searched, and holds it twice
afterwards. The code's own steps that damage the tree are `Lossy`: three of the four cases of
`redistribute_nodes`, a parent that cannot be split, a merge whose right node is
pinned, the second copy of an entry, and reopening after the root has split. `Spec` has
every other step and ends where one of these is due; `FullSpec` has those named in `Damages`
as well. An insertion that fails for lack of a page is answered with SUCCESS and changes
nothing (`InsertLost`): for the set of entries it is no step at all, so that the refinement
does not show it. `unique` is `unique_` in memory, which a restart clears.

`IndexSet` is the abstract index. The refinement maps the entries of the leaves
to its set, and the scanner to its cursor.

### RecordFile and Table

`RecordFile` is operators on a file: what `insert_record`, `update_record`,
`delete_record`, `get_record`, the scanner and the text functions do to pages that the
cache does not clear when it hands them out again. `Table` adds the indexes, the
operations of the session's transaction and what the client was told. Its
operations are whole statements on one row; commit and rollback go through the
operations one by one. `harm` names the operations that the code is known to
leave the table damaged by, and each property says which of them it needs absent:

- `refused_insert`: a duplicate key in a later index leaves the entry of an earlier one;
- `refused_update`: a duplicate key leaves the rewritten row without entries, and
  the client is told SUCCESS;
- `null_update`: an UPDATE of a NULL field leaves its NULL bit set;
- `own_delete`: a transaction deletes the row it inserted, and commit loses track;
- `stale_op`: a slot is used again while an operation for it is open;
- `index_in_trx`: CREATE INDEX skips rows that a transaction has marked deleted;
- `text_reuse`: a text is put on a page that still has the header of a page of rows;
- `update_kept`: a transaction that had updated a row is rolled back. An UPDATE is written
  in place and is no operation of the transaction, so it stays. `changed` remembers what the
  client expects back; `trx.h:59` promises rollback without this exception.

Two things end the model (`Stops`): an index that is not unique takes an entry a second time
because its leaf is full (`InsertTwice`, `UpdateTwice`; whether the leaf is full is left open),
and the assertion of `make_and_insert_text_record` (`InsertTextAborts`). `Reopen` clears
`unique`, as `Table::open` does, so after a restart `UniqueRows` says nothing about the
indexes that were there before.

### Catalog

The files of each table are variables (`meta`, `tmp`, `data`, `ix`), and every
statement is a sequence of steps on them, one system call or so each, so that
other sessions, refused calls and crashes come between. `tables` are the Table
objects, deleted or not; a step that follows a pointer to a deleted one ends in
"undefined". A new index file is "new" until `sync` writes its header. `acked` is what
clients were told; `spoiled` and `stray` say for which tables the code gives no
guarantee: a CREATE or DROP TABLE that failed or was cut, two statements on one
table at once, a crash before the first sync of an index, and a failed write that the code does
not notice. There are three of these: `Table::create` looks neither at `serialize` nor
at `close` (`WriteMetaLost`), `create_index` looks at `serialize` but not at `close`, and renames
the cut file over the good one (`WriteTmpLost`), and `DefaultHandler::destroy` does not look at
`sync` (`StopUnsynced`). In all of them the client has its SUCCESS. A call that fails and is
noticed is `CreateFails`, `DropFails`, `CreateIndexFails` or `SyncFails`. A CREATE INDEX that
fails may leave its index file and the temporary meta file, which DROP TABLE does not remove.
`unsafe` says what may lead to a deleted Table: a DROP TABLE that a call failed or a crash cut, or
two statements on one table.
`open_all_tables` stops at the first table it cannot open, so one such
table is enough to lose sight of the others; that is why `spoiled = {}` and
not "this table is not spoiled" is the condition. Concurrent changes of the
`unordered_map` itself are not modelled.

### Conditions, Select and Executor

Two tables t1(a, b) and t2(c), integers of `Width` bits that wrap, NULL in b and c. What
an expression calculates is a float in the code and a fraction here, so that 1/2 is not 0; the
rounding of floats is left out. Columns and tables that are not there, and columns of tables that
a statement does not read, are part of the queries: depending on the clause the code refuses
them, throws or fails an assertion.
`Conditions` has both sides: `DefaultConditionFilter`, the cartesian and the
expression filters as the code evaluates them, and `SqlHolds`, `SqlValue`,
`SqlAggregate` as the reference. `Select` runs the phases of `do_select` as
actions, so that two threads interleave between setting the static sort columns
and sorting. `Executor` builds and drains the executors of `do_select_v2`; the
writer inserts, commits or rolls back between their scans.
`AnswersMeanQuery` of both compares the rows of an answer, with
multiplicity, with the reference; `Excused` lists, statement by statement,
where the code's answer differs: an aggregate without GROUP BY over no rows, which answers
no row where SQL has one, integers further apart than an int can say, an
index condition with its column on the right, an expression in the WHERE clause of
an aggregate, NULL in a comparison of the executors,
an ON condition about the left table alone, columns of a join not in table
order, a correlation with another column than the compared one, a set of floats, and a
comparison with, or an aggregate in, a sub-select that is empty for some outer row (its
filters stay behind for the rows that follow). `AbortsOnlyOn` lists when an assertion or an
exception ends the server.

### Server

`sock` is what a client has sent and nobody has read, in pieces with or
without the terminating zero byte; `buf` is the buffer of the connection,
which `recv` clears before it takes the lock. A worker takes a
session event and goes through the stages on its own stack; the steps at which
it looks at the connection or the session are actions. A step that touches a
freed connection ends in "undefined", a write to a closed socket in "killed"
(SIGPIPE is not handled). `hasty` are clients that sent on before the server
had finished with them and `rude` those that left then. SIGTERM (`Shutdown`) ends the
model in "quit": `Server::shutdown` frees the event base under the running loop, and what
the threads do then is not followed. Not modelled:
allocation failures, Unix sockets, and the deletion of events: after
an answered request its session, SQL, plan and storage events are never
deleted, since `sev->done()` in `SessionStage::callback_event` is commented out and
`done_immediate` only pops a callback.

## Runs

| Run | Question | Result |
|---|---|---|
| `pool_core` | with failing reads and writes, does a held page stay, are the lists sound, does the header count its bitmap? | holds |
| `pool_store` | with more pages than frames and then sync and close, is a frame lost or a page changed behind the writers' back? | holds; the cache implements `PageStore` |
| `pool_sync` | does a held page stay when somebody syncs? | violated: `force_all_pages` frees pinned frames |
| `trx` | can every stamp be resolved, do removed rows stay removed, is a quiet table what was committed? | holds |
| `seda` | do the asserts hold, is a wake-up lost, is each event handled, does clean-up end? | holds, but for a clean-up stuck after a spurious wake-up of `kill_threads` |
| `btree` | do splits, merges and borrowing keep the tree well formed, does `find_leaf` reach every entry, are values unique, does a scan return what it should? | holds; the tree implements `IndexSet` |
| `btree_reopen` | does RECORD_INVALID_KEY mean that the value is not there? | violated: a reopened index starts at its first leaf again |
| `table` | are rows, index entries, texts and what the client was told in agreement, across restarts and after a damaging statement too? | holds, with the exceptions of `harm` |
| `select` | does SELECT answer what SQL means, is it sorted, when does it abort? | holds, with the exceptions of `Excused` |
| `executor` | do joins and sub-selects answer what SQL means, when do they abort? | holds, with the exceptions of `Excused` |
| `catalog` | is what was answered with SUCCESS there after a crash, are dropped names free, is a deleted Table used? | holds while no table is `spoiled`, or nothing is `unsafe` |
| `server` | do answers come in turn, what brings the server down, is every request answered? | holds, with the exceptions the properties name |

Every exception of `select`, `executor`, `catalog`, `server` and `table`
is one that TLC needs: without it a property is violated. The harm `stale_op`, and
`text_reuse` in the properties other than `IndexAgrees`, take more statements than the bounds
allow; there the proofs need the exception.

More is known and has no run of its own. Some hazards of `PROJECT.json` are marked there as not
covered: the code does the wrong thing, the model does it too, and the property excepts the case,
as with a lost insertion that is answered with SUCCESS, a UNIQUE index that is forgotten at a
restart (`storage/common/table.cpp:178`; nothing in the repository says that it is kept), integers
that overflow, or two statements that sort at once. 
The model also has behaviours in which code and comments disagree, and which the properties
except or which are outside them:

- `seda/stage.cpp:104` says that disconnect waits for the events being processed; a handler
  that another stage called directly (`sql/executor/execute_stage.cpp:308`) is not waited for
  (`CallNext`);
- `seda/thread_pool.cpp:96` says that `kill_threads` blocks until the threads are killed; its wait
  (`:129`) ends at the first wake-up (`KillWakes`);
- `storage/common/bplus_tree.h:69` says that RECORD_INVALID_KEY means that the value is not there. A full
  leaf takes an entry a second time (`bplus_tree.cpp:385`), the split may put one on each half,
  and only one is ever found: TLC shows it for `FullSpec` with `Damages = {"twice"}`;
- `storage/trx/trx.h:59` says that commit and rollback are supported; an UPDATE
  (`storage/common/table.cpp:697`) stays after a ROLLBACK (`update_kept`);
- `storage/common/table.cpp:72` says "delete table file" where the meta file of a failed CREATE TABLE stays,
  and `:603` that a failed CREATE INDEX has to be undone where nothing is (`spoiled`, `stray`);
- the first row of a transaction is stamped 0, "committed", before the transaction
  has an id (`storage/common/table.cpp:228`, `storage/trx/trx.cpp:221`);
- the stamp that commit clears comes back when the page is evicted, since nobody marks it dirty
  (`storage/trx/trx.cpp:79`);
- a disposed page's dirty frame is written after the page was freed
  (`storage/default/disk_buffer_pool.cpp:380`).

Bounds and why they are enough:

- `pool_core`: three frames, one file with three pages, two handles. One frame
  is the header's; failed writes lose the others, so eviction, an exhausted pool,
  a page held twice and a hole in the file all occur.
- `pool_store`: four pages in three frames, two values, so that a dirty page has to be
  evicted while another is held, and a stale page would show. `Undamaged` says
  which states still admit work; it is a guard of the specification and states
  the damage exactly.
- `trx`: two sessions, two slots, three transactions, three rows: slots are used
  again by other sessions while operations on them are open. `Settled` is only claimed
  while no two transactions overlapped; `trx.h` disclaims concurrency control, and
  with overlap the stale operations make it false.
- `seda`: two workers, one outside thread, two stages of which one calls the
  other, two events, one of which is passed on once.
- `btree`: order 3, so that a node holds two keys, and five entries on up to three
  levels: leaf and inner splits, a new root, leaf borrowing and merging that
  reaches the root all occur; two pairs of the five entries share a value.
- `table`: one row per page and two pages, so that pages are disposed of and used
  again, by a text too; two values of `a`, one and NULL of `b`, a text; three rows. Rows, restarts and damaging
  operations have one bound (`MaxCost`): three rows, or two and a restart, or two and
  statements after a damaging one, and so on. TLC has also checked the same with three pages
  (2,070,632 states).
- `select`, `executor`: up to two rows in t1 and one or two in t2, over
  integers of three bits, so that differences overflow; every comparison, aggregate
  and clause in some query, and columns and tables that are missing. Two threads sort, or a writer changes t2 between two scans.
- The violation runs have the bounds of the run they belong to, or smaller ones.
- `catalog`: two tables, two indexes, two sessions, five statements, two crashes
  or stops and one refused call: a statement can be cut, the server restarted, and
  the name used again.
- `server`: two clients with every kind of request between them, two workers, two
  requests in all, one refused call. Two requests are enough for one client to send the
  second before the first is answered, and for two clients to meet.

Deadlock checking is on for `trx`. It is off where the system may stop: the callers
of the page cache, the tree, the table and the catalog, a statement that is
done, a server without clients or a stopped one, and `seda` after clean-up (that
clean-up ends is a property there).

Fairness is used in `Seda` and `Server`. In `Server` the event loop serves every
ready connection in the end (strong fairness of `Accept` and `Recv` for each, as
libevent goes through all active events of a round before it polls again), it goes
on reading, and workers go on. Nothing is assumed of clients: `EveryRequestAnswered` has
as its hypothesis that nobody leaves a request half sent for ever.
In `Seda`, `Fairness` says that a thread that is able to
take its next step takes it: handlers return, and a mutex that is free is
granted. The pool's threads and the owner are operating system threads, and no
critical section waits inside but for the three waits that are modelled. No
fairness is assumed for adding events, starting clean-up or spurious wake-ups.

## Proofs

Eight modules hold proofs (`SearchTrees` has lemmas alone). Each theorem is for every value of the constants that
the module's `ASSUME` allows; TLC evaluates the assumptions in the runs and has
checked each inductive invariant but that of the tree, which speaks of all possible
spans, on small instances before it was proved. In each module the inductive invariant is
a theorem or lemma of its own (`Inductive`, `AlwaysInv`), and every other theorem follows
from it. A proof has one lemma per action, and lemmas for the operators
that several actions use.

| Module | Theorem | States |
|---|---|---|
| `DiskBufferPoolProofs` | `Typing` | `TypeOK` |
| | `FramesReusable` | `ReusableFrames` |
| | `PagesStay` | `PinnedPageStays` |
| | `HeadersCount` | `HeaderCounts` |
| | `FramesKept` | `FramesAccounted` |
| | `CacheCoherent` | `RInv`, the invariant of the refinement |
| | `Implements` | `ImplementsStore`, under `WorkSpec` |
| `TrxProofs` | `Typing` | `TypeOK` |
| | `Tracked` | `StampsTracked` |
| | `SettledTable` | `Settled` |
| | `NoReturn` | `NoResurrection`, an action property |
| `SedaProofs` | `Typing` | `TypeOK` |
| | `Owed` | `RefCounts` |
| | `AssertsHold` | `QueueCovered` |
| | `DisconnectIsFinal` | `OwnEventsDone` |
| | `NoLostWakeUp` | `SomebodyAwake` |
| `ServerProofs` | `Typing` | `TypeOK` |
| | `AnswersComeInTurn` | `AnswersInTurn` |
| | `ServerGoesOn` | `GoesOnUnless` |
| `CatalogProofs` | `Survives` | `SurvivesRestart` |
| | `DroppedIsGone` | `DropLeavesNothing` |
| `TableProofs` | `Typing` | `TypeOK` |
| | `PageStays` | `CurrentPageStays` |
| | `AllOperationsFound` | `OperationsFound` |
| | `IndexesAgree` | `IndexAgrees` |
| | `UniqueKept` | `UniqueRows` |
| | `AllRowsKept` | `RowsKept` |
| `BplusTreeProofs` | `TypeCorrect` | `TypeOK`, for exact keys |
| | `TreeWellFormed` | `WellFormed`, for exact keys |
| | `EveryKeyFindable` | `Findable`, for exact keys |
| | `UniqueKept` | `UniqueValues`, for exact keys |
| | `TreeImplementsIndex` | `ImplementsIndex`, the refinement of `IndexSet`, for exact keys |

### The page cache

Reads may fail; that writes do not (`~WriteErrors`) is a hypothesis of the
theorems. `Spec` has no successful `flush_all_pages` or `close_file`; with them the
theorems are false, as `pool_sync` shows.

None of the properties is inductive. That a held page stays needs to know that no
reusable frame is held, which is a matter of counting: `PinsHeld` says that a
frame has at least as many pins as handles, so a frame with pin count 0 is behind
no handle. Evicting and erasing need `TableMatches` (an entry's frame holds that
page). That the header is not evicted, overwritten by a caller, or written over
by the flush of another frame needs `HeadersMatch`, `HeaderEntries`, `HandlesMatch`
(callers hold data pages) and `DirtyFrames` (what a dirty frame will be written
over). Opening needs `DiskHeaders` and `DescriptorsMatch`. A failed read of a
data page of an open file comes only from the operating system, since `HeaderOk` says
that every page the header counts is on disk. `AllocLemma` and `InstallLemma` say what
taking and filling a frame does, `WithoutLemma`, `TailLemma`, `AppendLemma` and
`LruUnpinLemma` what happens to the lists. `FramesKept` follows from the lists being
short enough (`ListFits`): `LruUnpin` never has to drop the frame at the back.

The refinement is shown for `WorkSpec`, that is `FileStep` and
`PageStep` with neither reads nor writes failing, no `dispose_page` and no
`flush_all_pages` or `close_file`. Reads must succeed because a failed load erases the
page-table entry made of the new descriptor and the frame's old page number, which can be
that of a dirty page or of a header; the page then reads as it was on disk. A page that is
disposed of stays dirty in a free frame and is written later. `RInv` is what `IInv`
lacks: a dirty frame, an evictable frame and a frame behind a handle are the ones the
page table has for their page (`DirtyMapped`, `LruMapped`, `HandlesMapped`); mapped pages
belong to open descriptors (`EntriesOpen`), a clean one is what is on disk
(`CleanAgrees`); a file is open once (`OpenOnce`); the header is mapped, every page
it counts is allocated, and no other page is mapped (`HeadersMapped`); a file that is not
there is empty (`GoneIsEmpty`). `Views` then turns the refinement mapping into "what a dirty
frame has, else what is on disk", and each action is shown to change that as `PageStore` says or
not at all. TLC checked `RInv` and the refinement under `WorkSpec` with two files, four frames
and three pages (130,528 states) and with one file, three frames and four pages.

### Transactions

For any number of sessions, slots, ids and rows. `IdsFresh` (ids are
handed out in order and not shared) makes a stamp identify its transaction;
`ClosedEmpty` says that commit and rollback leave no operations behind. An
eviction brings back the stamps of the file, so what `StampsTracked` says of the
frame is also needed of the file (`DiskTracked`), and a clean frame has the file's
rows (`SameRows`). `Settled` is a statement about transactions that do not
overlap: `NoOverlap` relates the operations of the one open transaction, what its
client was told, the rows on the page and the committed rows. `RowsOnce` keeps two
slots from holding the same row. That every committed row is visible is not claimed: an eviction may
bring the stamp of its transaction back. `NoReturn` needs `SameRows` for evictions.

### SEDA

For any number of workers, outside threads, stages and events. `RefCounts` is
inductive only with what each thread may be doing (`Places`), the order in which the
owner connects and disconnects (`Phases`, `Owing`) and the kill events
(`KillCounts`). `Counted` and `Supplied` are `RefCounts` and `QueueCovered` for the pool's
own stage too. `SomebodyAwake` follows from a count: while a thread sleeps, the run
queue has no more entries than there are threads that will come for one (`WakeUps`), with
`Idles` for what `n_idles_` counts. The lemmas of the section "Counting" say how a
cardinality changes when one thread moves.

### Server

For finitely many clients and any number of threads, requests and refused calls. `Orderly` follows a request of
a client that sends one at a time: it is in the socket, being read, in the
queue, or with one worker (`OnePlace`), and what was answered so far is in turn (`InTurn`).
`CalmUp` says that, as long as nobody is hasty or rude, nothing is refused and the server was not told to quit, a connection in
use is not freed and a client that has left has nothing on its way.

### Catalog

For any number of tables, sessions, statements, crashes and refused calls, and finitely
many indexes. While no table is `spoiled`, a name is `Absent` or `Present`: a name in the map
has a live Table whose meta file lists what the Table lists, and all its files, up
to the step its one statement has come to (`Making`, `Dropping`, `Adding`); a name that is not
has no file but those of a CREATE TABLE under way and stray index files. While
the server is down, each table is nothing or opens (`AtRest`), which is what makes
`open_all_tables` reach the last one. `Alone` says that two statements on one table are both
CREATE TABLE and that only one of them got the meta file. TLC checked the invariant with two
tables, two indexes and two sessions, that is with the bounds of `catalog`.

### Table

For any page capacity, number of pages, rows, values, texts, indexes, statements and
restarts, and with damage anywhere in a behaviour: each part of `IInv` is conditional on
the harm it depends on, so that what one statement breaks leaves the other parts proved.
`Base` holds whatever happened. The parts and why they are needed:

- `RowsInv`: no slot holds bytes of a text, a row's text is on an allocated page that no other
  row has and that is no page of rows (`TextsOk`), and a stamped row has a DELETE in the
  transaction (`Marked`). Pages of rows have capacity `Capacity` and text pages 0, and a
  disposed page keeps its capacity, so that using one again for a text shows (`FileOk`).
- `OpsInv` (`HeldIn`): an operation whose row an index refused has an empty slot, and only
  the pin of the insertions keeps its page from being disposed of. So between statements that
  slot is the first free one of the current page, which is where the next row goes (`Sticky`,
  `AddsHeld`); while a transaction ends, it is enough that the page is current.
- `EntriesInv` and `IndexesInv`: every row has its entries (`Covered`), and every entry has its
  row. They depend on different harm: a refused row leaves an entry behind but
  takes none away, which is why `UniqueRows` holds where `IndexAgrees` does not. That deleting
  removes all the entries needs `RemoveLemma`: the first missing entry ends the removal.
- `ValuesInv`: row numbers are different and not used up (`Ids`), the client's rows are the live rows
  (`Shown`), what a rollback gives back is what is stamped (`Undoable`), and every operation has
  its row, a DELETE a stamped one and an INSERT one with entries (`OwnRows`), so that the rollback of
  an insertion does not stop halfway.

Every statement but CREATE INDEX changes one row. The first part of `TableProofs` says so once for each
operator of the file and of the indexes (`Adds`, `Drops`, `Writes`, `Puts`; `Keeps` and `IxKeeps` for the other
rows), and then for each part of the invariant what has to be shown of the one row
(`MarkedStep`, `CoversStep`, `DanglesStep`, `IdsStep`, `ShownStep`, `UndoStep`, `OwnStep`). TLC checked `IInv` with the
bounds of `table`.

### B+ tree

For any order from 3 on, any set of entries, any number of pages and any interleaving of
scans, insertions and deletions. `Eps = 1`, that is exact comparison of keys, is a
hypothesis: integers, strings and dates are compared so. The tolerance of `float_compare` is not
transitive, so that the keys of a FLOAT column have no order that a tree could keep.
The theorems are about `Spec`; the steps in `Lossy` make all of them false. An entry that is there already is
refused in `Spec` when its leaf has room, and `Spec` ends when the leaf is full.

No property says what the inner nodes have to do with the leaves, or what the tree is while a
split or a merge is on its way up. `Tree` says the first. Every node has a
height and a span, the set of keys that are looked for below it: the root's span is all keys, a
child's span is what the parent's separators leave it (`Slot`), and a node's keys are in its span. The
chain of the leaves goes from span to next span, and a rank falls along it, so that it ends. Heights,
spans and ranks are not in the code; `Sound` says that there are some. For the second, `Whole` is the tree as the
pending call will leave it: with the new child in its parent, with a new root above
two halves, or with the merged node out of its parent. That tree is `Sound`, and `IInv` says besides
what the call is about (`CallFits`), which nodes are how short of keys (`Sizes`: one node at most, by
one key, and its sibling has just or more than enough), that pins and scans are on leaves
(`ScanFits`; an inner page is never pinned, so that disposing of the old root cannot fail), and that a unique index has each
value once (`DistinctValues`).

The proof is about trees first, in `SearchTrees`. `SplitLeaf` and `SplitInner` say that a node cut in two under a parent that
gets the separator leaves a tree, `MergeLeaf` and `MergeInner` the converse, `GrowTree` and `ShrinkTree` do it for the root;
borrowing is a merge followed by a cut one place further on (`ShiftedSound`). Each gives the new heights, spans and
ranks. Then `FindLeafIs`, `FirstLeafIs` and `ChainIs` say what the recursive functions of the model compute on a tree: a
descent follows falling heights and a walk falling ranks. These are inductions over data. The library's
induction theorems cannot be used with the installed provers, but that a nonempty set of numbers has a least one can be
(`LeastNat`), and from it follows the rule in terms of sets (`Induction`); a recursive function is shown to exist
by collecting its values up to a height or a rank (`DescentExists`, `WalkExists`).

The refinement needs one more invariant, of the scanner. `ScanInv` says that a scan under which nothing
changed has returned exactly the entries that satisfy and lie behind its position, the page and place it goes on from
(`SeenAt`; `PlacesOrder` says that places and keys have the same order), and that its next page is
the one after the page it has loaded. `ScanStarts` shows it for what `find_first_index_satisfied` finds,
`ReturnsNext` and `TurnsPage` for an entry that is returned and a page that is left. An entry that is returned is
therefore the least of those to come, and nothing is left when there is no next page. The set of entries is `LeafKeys`: the
lemma of each action that moves keys also says what becomes of it (`GainsKey`, `LosesKey`, or the
same set), and `NextIndex` maps every action to a step of `IndexSet` or to none.

### Only model-checked

The refinement `ImplementsStore` across flush and close (`ShutdownSpec`), and the page cache with
failing writes. `DefinedUnless` of the catalog. `Select` and `Executor`: what they
and their reference compute are folds over sequences and sets, and to show that two of them agree is an induction
over data. Liveness (`EventsHandled`, `CleanupEnds`,
`EveryRequestAnswered`) is outside what the prover handles.

## Plan

What could be added, most useful first:

1. `Catalog` over `Table`: rows across a crash, which needs the page cache's
   order of writes.
2. `TimerStage`: timer queue, cancel, the timer thread against disconnect.
3. `Table` with two sessions, as `Trx` has them, and the indexes of `BplusTree`.

Proofs to come: `ImplementsStore` under `ShutdownSpec`; dropping `~WriteErrors` from the page cache (holes stay mapped and pinned,
so `HeaderOk` must allow a counted page that is not on disk).

## Not modelled

The lexer and grammar are generated, and `parse.cpp` fills in their records; the
resolver, optimizer and cache stages only forward the event. The timer stage serves the
metrics report alone; the event dispatcher is not used; `storage/mem` is a stub. Logging,
configuration, metrics, strings, dates and the layout of answers are I/O and
formatting. LOAD DATA, multi-column indexes and several databases are
left out. `PROJECT.json` says for each component what is modelled.
