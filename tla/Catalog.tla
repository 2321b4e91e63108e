------------------------------- MODULE Catalog -------------------------------
(***************************************************************************)
(* The tables of a database and their files: DefaultHandler, Db, and the   *)
(* part of Table and TableMeta that creates, opens and drops. A table t is *)
(* a meta file t.table (JSON: the fields and the indexes), a data file     *)
(* t.data and a file t-i.index for every index i; CREATE INDEX writes the  *)
(* new meta file as t.table.tmp and renames it.                            *)
(*                                                                         *)
(* Statements of several sessions run on the storage threads without any   *)
(* lock, one step on the files at a time; the server may crash between any *)
(* two of them, and the operating system may refuse a call, whether or not *)
(* the code looks at its result. Each index is on a field of its own.      *)
(***************************************************************************)
EXTENDS Naturals, Sequences, FiniteSets, SequencesExt

CONSTANTS Tables, Indexes, Sessions,
          MaxStatements, \* bound on CREATE TABLE, DROP TABLE and CREATE INDEX
          MaxCrashes,    \* bound on crashes and orderly stops
          MaxFaults      \* bound on calls the operating system refuses

ASSUME IndexesAssumption == IsFiniteSet(Indexes)

VARIABLES
  meta,     \* t.table: not there, empty or cut off, or the names of its indexes
  tmp,      \* t.table.tmp, likewise
  data,     \* t.data: "none", "empty", or "file" once it has its header page
  ix,       \* t-i.index: "none", "new" while its header is only in memory, or "file"
  tables,   \* every Table object made for t since the server started, freed or not
  opened,   \* Db::opened_tables_: which of them is in the map, 0 for no entry
  st,       \* the statement of each session
  up,       \* "up", "down", or "undefined" after an access to a deleted Table
  ran, crashes, faults,
  acked,    \* history: what meta should be, after what was answered with SUCCESS
  spoiled,  \* history: tables whose files a failure, a crash or a race may have left apart
  stray,    \* history: index files that a CREATE INDEX left behind
  unsafe    \* history: what may leave a deleted Table in the map: a "race", or a
            \* DROP TABLE that a call "failed" or a crash "cut"

files == <<meta, tmp, data, ix>>
memory == <<tables, opened>>
counts == <<ran, crashes, faults>>
history == <<acked, spoiled, stray, unsafe>>
vars == <<files, memory, st, up, counts, history>>

Idle == [at |-> "idle"]
NoFile == [is |-> "none", indexes |-> {}]
EmptyFile == [is |-> "empty", indexes |-> {}]
Json(indexes) == [is |-> "json", indexes |-> indexes]

Init ==
  /\ meta = [t \in Tables |-> NoFile]
  /\ tmp = [t \in Tables |-> NoFile]
  /\ data = [t \in Tables |-> "none"]
  /\ ix = [t \in Tables |-> [i \in Indexes |-> "none"]]
  /\ tables = [t \in Tables |-> <<>>]
  /\ opened = [t \in Tables |-> 0]
  /\ st = [s \in Sessions |-> Idle]
  /\ up = "up"
  /\ ran = 0 /\ crashes = 0 /\ faults = 0
  /\ acked = [t \in Tables |-> NoFile]
  /\ spoiled = {}
  /\ stray = {} /\ unsafe = {}

----------------------------------------------------------------------------
(* The steps of statements *)

\* A Table: indexes_, the indexes in table_meta_, and whether its data file is open
Object(indexes, listed, open) ==
  [indexes |-> indexes, listed |-> listed, open |-> open, deleted |-> FALSE]
This(s) == tables[st[s].t][st[s].g]
Alter(s, object) == tables' = [tables EXCEPT ![st[s].t][st[s].g] = object]

\* Another statement on the table is not finished; two CREATE TABLE are kept
\* apart by O_EXCL.
Races(s, t, op) ==
  \E r \in Sessions \ {s} : st[r].at # "idle" /\ st[r].t = t /\ ~(op = "create" /\ st[r].op = "create")

Start(s, statement) ==
  /\ up = "up" /\ st[s] = Idle /\ ran < MaxStatements
  /\ ran' = ran + 1
  /\ st' = [st EXCEPT ![s] = statement]
  /\ IF Races(s, statement.t, statement.op)
     THEN spoiled' = spoiled \cup {statement.t} /\ unsafe' = unsafe \cup {"race"}
     ELSE UNCHANGED <<spoiled, unsafe>>

Goto(s, at) == st' = [st EXCEPT ![s].at = at]
End(s) == st' = [st EXCEPT ![s] = Idle]
Spoil(s) == spoiled' = spoiled \cup {st[s].t}
Fault == faults < MaxFaults /\ faults' = faults + 1
At(s, op, at) == up = "up" /\ st[s].at = at /\ st[s].op = op
Undefined == up' = "undefined"

\* db->create_table when opened_tables_ has no such table; good says whether
\* TableMeta::init takes the attributes.
CreateTable(s, t) ==
  /\ opened[t] = 0
  /\ \E good \in BOOLEAN :
       Start(s, [op |-> "create", at |-> "meta", t |-> t, good |-> good])
  /\ UNCHANGED <<files, memory, up, crashes, faults, acked, stray>>

\* open(path, O_CREAT | O_EXCL), and TableMeta::init, which may fail after it
CreateMeta(s) ==
  /\ At(s, "create", "meta")
  /\ LET t == st[s].t
     IN  IF meta[t] # NoFile THEN End(s) /\ UNCHANGED <<meta, spoiled>>
         ELSE /\ meta' = [meta EXCEPT ![t] = EmptyFile]
              /\ IF st[s].good THEN Goto(s, "write") /\ UNCHANGED spoiled
                 ELSE End(s) /\ Spoil(s)
  /\ UNCHANGED <<tmp, data, ix, memory, up, counts, acked, stray, unsafe>>

\* TableMeta::serialize
WriteMeta(s) ==
  /\ At(s, "create", "write")
  /\ meta' = [meta EXCEPT ![st[s].t] = Json({})]
  /\ Goto(s, "data")
  /\ UNCHANGED <<tmp, data, ix, memory, up, counts, history>>

\* The write is refused: neither the result of serialize nor that of close is
\* looked at, and the statement goes on.
WriteMetaLost(s) ==
  /\ At(s, "create", "write")
  /\ Fault
  /\ Goto(s, "data") /\ Spoil(s)
  /\ UNCHANGED <<files, memory, up, ran, crashes, acked, stray, unsafe>>

\* DiskBufferPool::create_file, up to the header page
CreateData(s) ==
  /\ At(s, "create", "data")
  /\ IF data[st[s].t] # "none" THEN End(s) /\ Spoil(s) /\ UNCHANGED data
     ELSE /\ data' = [data EXCEPT ![st[s].t] = "empty"]
          /\ Goto(s, "open")
          /\ UNCHANGED spoiled
  /\ UNCHANGED <<meta, tmp, ix, memory, up, counts, acked, stray, unsafe>>

\* The header page is written, init_record_handler opens the file, opened_tables_ gets the table, and the client its SUCCESS.
Register(s) ==
  /\ At(s, "create", "open")
  /\ LET t == st[s].t
     IN  /\ data' = [data EXCEPT ![t] = "file"]
         /\ tables' = [tables EXCEPT ![t] = Append(@, Object(<<>>, {}, TRUE))]
         /\ opened' = [opened EXCEPT ![t] = Len(tables'[t])]
         /\ acked' = [acked EXCEPT ![t] = Json({})]
  /\ End(s)
  /\ UNCHANGED <<meta, tmp, ix, up, counts, spoiled, stray, unsafe>>

\* A call of CREATE TABLE fails: the open of the meta file, create_file or
\* init_record_handler; what was created stays.
CreateFails(s) ==
  /\ up = "up" /\ st[s].at \in {"write", "data", "open"} /\ st[s].op = "create"
  /\ Fault
  /\ End(s) /\ Spoil(s)
  /\ UNCHANGED <<files, memory, up, ran, crashes, acked, stray, unsafe>>

----------------------------------------------------------------------------

DropTable(s, t) ==
  /\ opened[t] # 0
  /\ Start(s, [op |-> "drop", at |-> "data", t |-> t, g |-> opened[t], k |-> 1])
  /\ acked' = [acked EXCEPT ![t] = NoFile]
  /\ UNCHANGED <<files, memory, up, crashes, faults, stray>>

\* Db::drop_table deletes a table that could not be dropped and leaves it in the map.
DropRefused(s) == End(s) /\ Spoil(s) /\ Alter(s, [This(s) EXCEPT !.deleted = TRUE])

\* close_file and drop_file of the data file
DropData(s) ==
  /\ At(s, "drop", "data")
  /\ IF This(s).deleted THEN Undefined /\ UNCHANGED <<data, tables, st, spoiled>>
     ELSE /\ IF ~This(s).open \/ data[st[s].t] = "none" THEN DropRefused(s) /\ UNCHANGED data
             ELSE /\ data' = [data EXCEPT ![st[s].t] = "none"]
                  /\ Alter(s, [This(s) EXCEPT !.open = FALSE])
                  /\ Goto(s, "index")
                  /\ UNCHANGED spoiled
          /\ UNCHANGED up
  /\ UNCHANGED <<meta, tmp, ix, opened, counts, acked, stray, unsafe>>

\* Mutant: the index is closed and its file stays.
ClosesOnly(t, i) == UNCHANGED ix

UnlinkIndex(t, i) == ix' = [ix EXCEPT ![t][i] = "none"]

\* The next of indexes_ is closed and its file dropped.
DropIndex(s) ==
  /\ At(s, "drop", "index")
  /\ LET t == st[s].t
         k == st[s].k
     IN  CASE This(s).deleted -> Undefined /\ UNCHANGED <<ix, tables, st, spoiled>>
           [] ~This(s).deleted /\ k > Len(This(s).indexes) ->
                Goto(s, "meta") /\ UNCHANGED <<ix, tables, up, spoiled>>
           [] OTHER ->
                /\ IF ix[t][This(s).indexes[k]] = "none" THEN DropRefused(s) /\ UNCHANGED ix
                   ELSE /\ UnlinkIndex(t, This(s).indexes[k])
                        /\ st' = [st EXCEPT ![s].k = @ + 1]
                        /\ UNCHANGED <<tables, spoiled>>
                /\ UNCHANGED up
  /\ UNCHANGED <<meta, tmp, data, opened, counts, acked, stray, unsafe>>

\* Mutant: the Table is deleted and the name stays in the map.
DeletesOnly(s, t) == Alter(s, [This(s) EXCEPT !.deleted = TRUE]) /\ UNCHANGED opened

\* The name leaves the map; the Table is not deleted.
Erase(s, t) == opened' = [opened EXCEPT ![t] = 0] /\ UNCHANGED tables

\* unlink of the meta file
DropMeta(s) ==
  /\ At(s, "drop", "meta")
  /\ LET t == st[s].t
     IN  IF meta[t] # NoFile
         THEN /\ meta' = [meta EXCEPT ![t] = NoFile]
              /\ Erase(s, t)
              /\ End(s)
              /\ UNCHANGED <<up, spoiled>>
         ELSE /\ IF This(s).deleted THEN Undefined /\ UNCHANGED <<tables, st, spoiled>>
                 ELSE DropRefused(s) /\ UNCHANGED up
              /\ UNCHANGED <<meta, opened>>
  /\ UNCHANGED <<tmp, data, ix, counts, acked, stray, unsafe>>

DropFails(s) ==
  /\ up = "up" /\ st[s].at # "idle" /\ st[s].op = "drop"
  /\ ~This(s).deleted /\ Fault
  /\ DropRefused(s)
  /\ unsafe' = unsafe \cup {"failed"}
  /\ UNCHANGED <<files, opened, up, ran, crashes, acked, stray>>

----------------------------------------------------------------------------

CreateIndex(s, t, i) ==
  /\ opened[t] # 0
  /\ \E dup \in BOOLEAN :
       Start(s, [op |-> "index", at |-> "file", t |-> t, g |-> opened[t], i |-> i, dup |-> dup])
  /\ UNCHANGED <<files, memory, up, crashes, faults, acked, stray>>

\* The checks of table_meta_, and BplusTreeIndex::create
CreateIndexFile(s) ==
  /\ At(s, "index", "file")
  /\ LET t == st[s].t
         i == st[s].i
     IN  IF This(s).deleted THEN Undefined /\ UNCHANGED <<ix, st>>
         ELSE /\ IF i \in This(s).listed \/ ix[t][i] # "none" THEN End(s) /\ UNCHANGED ix
                 ELSE ix' = [ix EXCEPT ![t][i] = "new"] /\ Goto(s, "fill")
              /\ UNCHANGED up
  /\ UNCHANGED <<meta, tmp, data, memory, counts, history>>

\* The records go into the index; with a duplicate key, or with the data file
\* closed meanwhile, the index file is dropped again.
FillIndex(s) ==
  /\ At(s, "index", "fill")
  /\ LET t == st[s].t
         i == st[s].i
     IN  IF This(s).deleted THEN Undefined /\ UNCHANGED <<ix, tables, st>>
         ELSE /\ IF st[s].dup \/ ~This(s).open
                 THEN ix' = [ix EXCEPT ![t][i] = "none"] /\ End(s) /\ UNCHANGED tables
                 ELSE /\ Alter(s, [This(s) EXCEPT !.indexes = Append(@, i)])
                      /\ Goto(s, "tmp")
                      /\ UNCHANGED ix
              /\ UNCHANGED up
  /\ UNCHANGED <<meta, tmp, data, opened, counts, history>>

\* Mutant: the new meta data is written over the meta file itself.
WritesInPlace(s, t, content) == meta' = [meta EXCEPT ![t] = EmptyFile] /\ tmp' = [tmp EXCEPT ![t] = content]

\* fs.open(tmp_file, trunc) and serialize
WriteNew(s, t, content) == tmp' = [tmp EXCEPT ![t] = content] /\ UNCHANGED meta

\* add_index to a copy of table_meta_, which goes into the temporary file
WriteTmp(s) ==
  /\ At(s, "index", "tmp")
  /\ IF This(s).deleted THEN Undefined /\ UNCHANGED <<tmp, meta, st>>
     ELSE LET copy == This(s).listed \cup {st[s].i}
          IN  /\ WriteNew(s, st[s].t, Json(copy))
              /\ st' = [st EXCEPT ![s] = [op |-> "index", at |-> "rename", t |-> @.t, g |-> @.g, i |-> @.i, copy |-> copy]]
              /\ UNCHANGED up
  /\ UNCHANGED <<data, ix, memory, counts, history>>

\* A buffered write is refused when the file is closed, which is not looked at:
\* the file is cut off, and the statement goes on.
WriteTmpLost(s) ==
  /\ At(s, "index", "tmp") /\ ~This(s).deleted /\ Fault
  /\ tmp' = [tmp EXCEPT ![st[s].t] = EmptyFile]
  /\ st' = [st EXCEPT ![s] = [op |-> "index", at |-> "rename", t |-> @.t, g |-> @.g, i |-> @.i,
                              copy |-> This(s).listed \cup {@.i}]]
  /\ Spoil(s)
  /\ UNCHANGED <<meta, data, ix, memory, up, ran, crashes, acked, stray, unsafe>>

\* rename(tmp_file, meta_file), and table_meta_.swap with the copy, whatever it has become meanwhile
Rename(s) ==
  /\ At(s, "index", "rename")
  /\ LET t == st[s].t
         i == st[s].i
     IN  IF This(s).deleted THEN Undefined /\ UNCHANGED <<meta, tmp, tables, st, acked, stray>>
         ELSE /\ IF tmp[t] = NoFile
                 THEN End(s) /\ stray' = stray \cup {<<t, i>>} /\ UNCHANGED <<meta, tmp, tables, acked>>
                 ELSE /\ meta' = [meta EXCEPT ![t] = tmp[t]]
                      /\ tmp' = [tmp EXCEPT ![t] = NoFile]
                      /\ Alter(s, [This(s) EXCEPT !.listed = st[s].copy])
                      /\ acked' = IF acked[t] = NoFile THEN acked ELSE [acked EXCEPT ![t].indexes = @ \cup {i}]
                      /\ End(s)
                      /\ UNCHANGED stray
              /\ UNCHANGED up
  /\ UNCHANGED <<data, ix, opened, counts, spoiled, unsafe>>

\* A call of CREATE INDEX fails: before the fill the new file stays; after it
\* the index also stays in indexes_, and the temporary file may be there, cut
\* off if serialize fails and whole if rename does.
CreateIndexFails(s) ==
  /\ up = "up" /\ st[s].at \in {"fill", "tmp", "rename"} /\ st[s].op = "index"
  /\ ~This(s).deleted /\ Fault
  /\ \/ tmp' = tmp
     \/ st[s].at = "tmp" /\ tmp' = [tmp EXCEPT ![st[s].t] = EmptyFile]
  /\ stray' = stray \cup {<<st[s].t, st[s].i>>}
  /\ End(s)
  /\ UNCHANGED <<meta, data, ix, memory, up, ran, crashes, acked, spoiled, unsafe>>

----------------------------------------------------------------------------
(* SYNC, the end of the server and its start *)

Entries == {t \in Tables : opened[t] # 0}
Entry(t) == tables[t][opened[t]]

\* Table::sync writes the header of every index of the table.
Synced(done) ==
  [t \in Tables |-> [i \in Indexes |->
     IF t \in done /\ ix[t][i] = "new" /\ (\E k \in DOMAIN Entry(t).indexes : Entry(t).indexes[k] = i)
     THEN "file" ELSE ix[t][i]]]

\* A write is refused on the way: the headers written until then stay.
SyncCut ==
  \E part \in SUBSET {ti \in Tables \X Indexes : Synced(Entries)[ti[1]][ti[2]] # ix[ti[1]][ti[2]]} :
    ix' = [t \in Tables |-> [i \in Indexes |-> IF <<t, i>> \in part THEN "file" ELSE ix[t][i]]]

\* Db::sync goes through the map in some order and stops at the first table
\* that it cannot sync.
SyncInto(result) ==
  \E done \in SUBSET {t \in Entries : Entry(t).open /\ ~Entry(t).deleted} :
    /\ done = Entries \/ \E t \in Entries \ done : ~Entry(t).open
    /\ result = Synced(done)

Dangling == \E t \in Entries : Entry(t).deleted

Sync ==
  /\ up = "up"
  /\ IF Dangling THEN Undefined /\ UNCHANGED ix ELSE SyncInto(ix') /\ UNCHANGED up
  /\ ix' # ix \/ up' # up
  /\ UNCHANGED <<meta, tmp, data, memory, st, counts, history>>

SyncFails ==
  /\ up = "up" /\ ~Dangling /\ Fault
  /\ SyncCut /\ ix' # ix
  /\ UNCHANGED <<meta, tmp, data, memory, st, up, ran, crashes, history>>

Forget ==
  /\ tables' = [t \in Tables |-> <<>>]
  /\ opened' = [t \in Tables |-> 0]
  /\ st' = [s \in Sessions |-> Idle]
  /\ crashes < MaxCrashes /\ crashes' = crashes + 1

\* DefaultHandler::destroy: sync, and every Db and Table is deleted.
Stop ==
  /\ up = "up" /\ \A s \in Sessions : st[s] = Idle
  /\ IF Dangling THEN Undefined /\ UNCHANGED <<ix, memory, st, crashes>>
     ELSE SyncInto(ix') /\ up' = "down" /\ Forget
  /\ UNCHANGED <<meta, tmp, data, ran, faults, history>>

\* The sync fails, and destroy does not look at its result.
StopUnsynced ==
  /\ up = "up" /\ \A s \in Sessions : st[s] = Idle
  /\ ~Dangling /\ Fault
  /\ SyncCut /\ up' = "down" /\ Forget
  /\ spoiled' = spoiled \cup {t \in Tables : \E i \in meta[t].indexes : ix'[t][i] = "new"}
  /\ UNCHANGED <<meta, tmp, data, ran, acked, stray, unsafe>>

\* Tables that a crash leaves apart: a CREATE TABLE or DROP TABLE is cut after
\* its first step, or the header of an index in the meta file is not written.
CutBy(s) == /\ st[s].at # "idle" /\ st[s].op \in {"create", "drop"}
            /\ st[s].at # (IF st[s].op = "create" THEN "meta" ELSE "data")
Unsynced(t) == \E i \in meta[t].indexes : ix[t][i] = "new"
DropCut == \E s \in Sessions : CutBy(s) /\ st[s].op = "drop"

Crash ==
  /\ up = "up"
  /\ up' = "down"
  /\ Forget
  /\ spoiled' = spoiled \cup {st[s].t : s \in {r \in Sessions : CutBy(r)}}
                        \cup {t \in Tables : Unsynced(t)}
  /\ stray' = stray \cup {ti \in Tables \X Indexes :
                            /\ ix[ti[1]][ti[2]] # "none"
                            /\ ti[2] \notin meta[ti[1]].indexes}
  /\ unsafe' = IF DropCut THEN unsafe \cup {"cut"} ELSE unsafe
  /\ UNCHANGED <<files, ran, faults, acked>>

\* TableMeta::deserialize takes the whole of what serialize wrote, and no empty or cut file.
Parses(t) == meta[t].is = "json"

\* Table::open: the meta file parses, every index file opens; without an index
\* the data file has to open too.
Opens(t) ==
  /\ Parses(t)
  /\ \A i \in meta[t].indexes : ix[t][i] = "file"
  /\ meta[t].indexes = {} => data[t] = "file"

\* open_all_tables takes the meta files in some order and stops at the first
\* one it cannot open.
OpenAllTables ==
  LET found == {t \in Tables : meta[t] # NoFile}
  IN  \E done \in SUBSET {t \in found : Opens(t)} :
        /\ done = found \/ \E t \in found \ done : ~Opens(t)
        /\ opened' = [t \in Tables |-> IF t \in done THEN 1 ELSE 0]
        /\ tables' = [t \in Tables |->
             IF t \in done THEN <<Object(SetToSeq(meta[t].indexes), meta[t].indexes, data[t] = "file")>>
             ELSE <<>>]

\* open_db: the server starts, whether or not all tables were opened.
Open ==
  /\ up = "down"
  /\ up' = "up"
  /\ OpenAllTables
  /\ UNCHANGED <<files, st, counts, history>>

----------------------------------------------------------------------------

Next ==
  \/ \E s \in Sessions :
       \/ \E t \in Tables : CreateTable(s, t) \/ DropTable(s, t)
                            \/ \E i \in Indexes : CreateIndex(s, t, i)
       \/ CreateMeta(s) \/ WriteMeta(s) \/ WriteMetaLost(s) \/ CreateData(s) \/ Register(s) \/ CreateFails(s)
       \/ DropData(s) \/ DropIndex(s) \/ DropMeta(s) \/ DropFails(s)
       \/ CreateIndexFile(s) \/ FillIndex(s) \/ WriteTmp(s) \/ WriteTmpLost(s) \/ Rename(s)
       \/ CreateIndexFails(s)
  \/ Sync \/ SyncFails \/ Stop \/ StopUnsynced \/ Crash \/ Open

Spec == Init /\ [][Next]_vars

----------------------------------------------------------------------------
(* Properties *)

\* Whatever crashes, a table whose CREATE TABLE was answered with SUCCESS, and
\* its acknowledged indexes, are there whenever the server is up, unless some
\* table's files were left apart: by a CREATE TABLE or DROP TABLE that failed
\* or was cut, by two statements on the same table at once, by a crash or a
\* failed sync at the stop before an index was synced once, or by a write to a
\* meta file that was refused and not noticed. A CREATE INDEX that is cut or
\* answered with an error does no harm (Table::create_index, Db::open_all_tables).
SurvivesRestart ==
  up = "up" /\ spoiled = {} =>
    \A t \in Tables : acked[t] # NoFile =>
      /\ opened[t] # 0 /\ Entry(t).open
      /\ acked[t].indexes \subseteq Entry(t).listed
      /\ \A i \in Entry(t).listed : \E k \in DOMAIN Entry(t).indexes : Entry(t).indexes[k] = i

\* No statement is working on t, and t is not a table.
Unused(t) == opened[t] = 0 /\ \A s \in Sessions : st[s].at = "idle" \/ st[s].t # t

\* A name that is not a table has no file left, so that CREATE TABLE can take
\* it again. The exceptions are the same, and the index files, with the
\* temporary meta file, that a CREATE INDEX left (Table::drop, Table::create).
DropLeavesNothing ==
  up = "up" /\ spoiled = {} =>
    \A t \in Tables : Unused(t) =>
      /\ meta[t] = NoFile /\ data[t] = "none"
      /\ \A i \in Indexes : ix[t][i] # "none" => <<t, i>> \in stray
      /\ tmp[t] # NoFile => \E i \in Indexes : <<t, i>> \in stray

\* No statement meets a deleted Table, however CREATE TABLE and CREATE INDEX
\* fail or are cut and wherever the server crashes, as long as no DROP TABLE is
\* refused a call or cut by the crash, and no two statements are on the same
\* table at once (Db::drop_table).
DefinedUnless == up = "undefined" => unsafe # {}
=============================================================================
