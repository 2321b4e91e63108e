--------------------------- MODULE CatalogProofs ---------------------------
(***************************************************************************)
(* Proofs about Catalog for any number of tables, indexes, sessions,       *)
(* statements, crashes and faults: as long as no table was spoiled, what   *)
(* was acknowledged survives restarts, and a dropped table leaves no file. *)
(***************************************************************************)
EXTENDS Catalog, FiniteSetTheorems, SequenceTheorems, TLAPS

MetaFile == [is : {"none", "empty", "json"}, indexes : SUBSET Indexes]
Objects == [indexes : Seq(Indexes), listed : SUBSET Indexes, open : BOOLEAN, deleted : BOOLEAN]

Creates == [op : {"create"}, at : {"meta", "write", "data", "open"}, t : Tables, good : BOOLEAN]
Drops   == [op : {"drop"}, at : {"data", "index", "meta"}, t : Tables, g : Nat, k : Nat \ {0}]
Adds    == [op : {"index"}, at : {"file", "fill", "tmp"}, t : Tables, g : Nat, i : Indexes,
            dup : BOOLEAN]
Renames == [op : {"index"}, at : {"rename"}, t : Tables, g : Nat, i : Indexes,
            copy : SUBSET Indexes]

\* Every variable has its type.
Types ==
  /\ meta \in [Tables -> MetaFile]
  /\ tmp \in [Tables -> MetaFile]
  /\ data \in [Tables -> {"none", "empty", "file"}]
  /\ ix \in [Tables -> [Indexes -> {"none", "new", "file"}]]
  /\ tables \in [Tables -> Seq(Objects)]
  /\ opened \in [Tables -> Nat]
  /\ st \in [Sessions -> {Idle} \cup Creates \cup Drops \cup Adds \cup Renames]
  /\ acked \in [Tables -> MetaFile]
  /\ up \in {"up", "down"}

\* The sessions with a statement on t
Busy(t) == {s \in Sessions : st[s] # Idle /\ st[s].t = t}

\* Two statements on one table are both CREATE TABLE, and only one of them has
\* made the meta file.
Alone(t) ==
  \A r, s \in Busy(t) : r # s =>
    /\ st[r].op = "create" /\ st[s].op = "create"
    /\ st[r].at = "meta" \/ st[s].at = "meta"

\* What a CREATE TABLE has made so far
Making(s, t) ==
  /\ st[s].op = "create"
  /\ st[s].at = "write" => meta[t] = EmptyFile /\ data[t] = "none"
  /\ st[s].at = "data" => meta[t] = Json({}) /\ data[t] = "none"
  /\ st[s].at = "open" => meta[t] = Json({}) /\ data[t] = "empty"

\* A name that is not in the map
Absent(t) ==
  /\ acked[t] = NoFile
  /\ \A i \in Indexes : ix[t][i] # "none" => <<t, i>> \in stray
  /\ \A s \in Busy(t) : Making(s, t)
  /\ (\A s \in Busy(t) : st[s].at = "meta") => meta[t] = NoFile /\ data[t] = "none"

\* The indexes of a Table, listed or not
Names(object) == {object.indexes[k] : k \in DOMAIN object.indexes}

\* The files of a table that no DROP TABLE has begun to remove
Whole(t) ==
  /\ data[t] = "file" /\ Entry(t).open
  /\ \A k \in DOMAIN Entry(t).indexes : ix[t][Entry(t).indexes[k]] # "none"

\* How far the DROP TABLE of s on t is
Dropping(s, t) ==
  /\ st[s].g = opened[t] /\ acked[t] = NoFile
  /\ st[s].at = "data" => st[s].k = 1 /\ Whole(t)
  /\ st[s].at # "data" => data[t] = "none"
  /\ st[s].at = "meta" => st[s].k > Len(Entry(t).indexes)
  /\ \A k \in DOMAIN Entry(t).indexes : ix[t][Entry(t).indexes[k]] = "none" <=> k < st[s].k

\* How far the CREATE INDEX of s on t is
Adding(s, t) ==
  /\ st[s].g = opened[t]
  /\ st[s].at = "fill" => st[s].i \notin Names(Entry(t)) /\ ix[t][st[s].i] # "none"
  /\ st[s].at \in {"tmp", "rename"} => st[s].i \in Names(Entry(t)) \ Entry(t).listed
  /\ st[s].at = "rename" => /\ tmp[t] = Json(st[s].copy)
                            /\ st[s].copy = Entry(t).listed \cup {st[s].i}

\* A CREATE INDEX for i on t has come to one of the places
AddsAt(t, i, places) == \E s \in Busy(t) : st[s].op = "index" /\ st[s].i = i /\ st[s].at \in places

\* A table in the map
Present(t) ==
  /\ opened[t] \in DOMAIN tables[t] /\ ~Entry(t).deleted
  /\ meta[t] = Json(Entry(t).listed)
  /\ acked[t] = NoFile \/ acked[t] = meta[t]
  /\ \A j, k \in DOMAIN Entry(t).indexes : Entry(t).indexes[j] = Entry(t).indexes[k] => j = k
  /\ Entry(t).listed \subseteq Names(Entry(t))
  /\ \A i \in Names(Entry(t)) \ Entry(t).listed :
       <<t, i>> \in stray \/ AddsAt(t, i, {"tmp", "rename"})
  /\ \A i \in Indexes : ix[t][i] # "none" =>
       i \in Names(Entry(t)) \/ <<t, i>> \in stray \/ AddsAt(t, i, {"fill"})
  /\ \A s \in Busy(t) : /\ st[s].op = "create" => st[s].at = "meta"
                        /\ st[s].op = "drop" => Dropping(s, t)
                        /\ st[s].op = "index" => Adding(s, t)
  /\ (\A s \in Busy(t) : st[s].op # "drop") => Whole(t)

\* The files of t while the server is down: nothing, or a table that opens
AtRest(t) ==
  /\ \/ meta[t] = NoFile /\ data[t] = "none" /\ acked[t] = NoFile
     \/ /\ meta[t].is = "json" /\ data[t] = "file"
        /\ \A i \in meta[t].indexes : ix[t][i] = "file"
        /\ acked[t] = NoFile \/ acked[t] = meta[t]
  /\ \A i \in Indexes \ meta[t].indexes : ix[t][i] # "none" => <<t, i>> \in stray

UpOk(t) == Alone(t) /\ (opened[t] = 0 => Absent(t)) /\ (opened[t] # 0 => Present(t))

Sound ==
  /\ Types
  /\ up = "up" => \A t \in Tables : UpOk(t)
  /\ up = "down" => (\A s \in Sessions : st[s] = Idle) /\ \A t \in Tables : AtRest(t)

\* Spoiled tables stay spoiled: the invariant is about runs without any.
IInv == spoiled = {} => Sound

-----------------------------------------------------------------------------
(* The operators *)

\* The contents of a meta file are told apart by their kind.
LEMMA FileKinds ==
  /\ NoFile \in MetaFile /\ EmptyFile \in MetaFile
  /\ NoFile.indexes = {} /\ EmptyFile # NoFile
  /\ \A S \in SUBSET Indexes : /\ Json(S) \in MetaFile /\ Json(S).indexes = S /\ Json(S).is = "json"
                               /\ Json(S) # NoFile /\ Json(S) # EmptyFile
  /\ \A f \in MetaFile : f.is = "json" => f = Json(f.indexes) /\ f # NoFile
BY DEF MetaFile, NoFile, EmptyFile, Json

\* What the statement of a session is.
LEMMA Statements ==
  ASSUME Types, NEW s \in Sessions, st[s].at # "idle"
  PROVE  /\ st[s] # Idle /\ st[s].t \in Tables /\ s \in Busy(st[s].t)
         /\ st[s].op \in {"create", "drop", "index"}
         /\ st[s].op = "create" => st[s] \in Creates
         /\ st[s].op = "drop" => st[s] \in Drops
         /\ st[s].op = "index" => (st[s].at # "rename" /\ st[s] \in Adds)
                                  \/ (st[s].at = "rename" /\ st[s] \in Renames)
<1>1. st[s] # Idle
  BY DEF Idle
<1>2. st[s] \in Creates \cup Drops \cup Adds \cup Renames
  BY <1>1 DEF Types
<1>3. QED
  BY <1>1, <1>2 DEF Creates, Drops, Adds, Renames, Busy

\* A session is busy with a table if and only if its statement is not idle.
LEMMA BusyWith ==
  ASSUME Types, NEW t \in Tables, NEW s \in Busy(t)
  PROVE  s \in Sessions /\ st[s].at # "idle" /\ st[s].t = t
<1>1. s \in Sessions /\ st[s] # Idle /\ st[s].t = t
  BY DEF Busy
<1>2. st[s] \in Creates \cup Drops \cup Adds \cup Renames
  BY <1>1 DEF Types
<1>3. QED
  BY <1>1, <1>2 DEF Creates, Drops, Adds, Renames

\* The statement of s becomes x, on the same table.
LEMMA Moves ==
  ASSUME Types, NEW t \in Tables, NEW s \in Busy(t), NEW x, x # Idle, x.t = t,
         st' = [st EXCEPT ![s] = x]
  PROVE  /\ Busy(t)' = Busy(t) /\ st'[s] = x
         /\ \A r \in Busy(t) \ {s} : st'[r] = st[r]
         /\ \A u \in Tables \ {t} : Busy(u)' = Busy(u) /\ \A r \in Busy(u) : st'[r] = st[r]
<1>1. s \in Sessions /\ st[s] # Idle /\ st[s].t = t
  BY DEF Busy
<1>2. st'[s] = x /\ \A r \in Sessions \ {s} : st'[r] = st[r]
  BY <1>1 DEF Types
<1>3. Busy(t)' = Busy(t)
  BY <1>1, <1>2 DEF Busy
<1>4. ASSUME NEW u \in Tables \ {t}
      PROVE  Busy(u)' = Busy(u) /\ \A r \in Busy(u) : st'[r] = st[r]
  BY <1>1, <1>2 DEF Busy
<1>5. QED
  BY <1>1, <1>2, <1>3, <1>4 DEF Busy

\* The statement of s ends.
LEMMA Ends ==
  ASSUME Types, NEW t \in Tables, NEW s \in Busy(t), End(s)
  PROVE  /\ Busy(t)' = Busy(t) \ {s}
         /\ \A r \in Busy(t) \ {s} : st'[r] = st[r]
         /\ \A u \in Tables \ {t} : Busy(u)' = Busy(u) /\ \A r \in Busy(u) : st'[r] = st[r]
<1>1. s \in Sessions /\ st[s] # Idle /\ st[s].t = t
  BY DEF Busy
<1>2. st'[s] = Idle /\ \A r \in Sessions \ {s} : st'[r] = st[r]
  BY <1>1 DEF Types, End
<1>3. Busy(t)' = Busy(t) \ {s}
  BY <1>1, <1>2 DEF Busy
<1>4. ASSUME NEW u \in Tables \ {t}
      PROVE  Busy(u)' = Busy(u) /\ \A r \in Busy(u) : st'[r] = st[r]
  BY <1>1, <1>2 DEF Busy
<1>5. QED
  BY <1>1, <1>2, <1>3, <1>4 DEF Busy

\* A session that was idle gets the statement x on t.
LEMMA Begins ==
  ASSUME Types, NEW t \in Tables, NEW s \in Sessions, NEW x, x # Idle, x.t = t, Start(s, x)
  PROVE  /\ s \notin Busy(t) /\ Busy(t)' = Busy(t) \cup {s} /\ st'[s] = x
         /\ \A r \in Busy(t) : st'[r] = st[r]
         /\ \A u \in Tables \ {t} : Busy(u)' = Busy(u) /\ \A r \in Busy(u) : st'[r] = st[r]
<1>1. st[s] = Idle /\ st' = [st EXCEPT ![s] = x]
  BY DEF Start
<1>2. st'[s] = x /\ \A r \in Sessions \ {s} : st'[r] = st[r]
  BY <1>1 DEF Types
<1>3. Busy(t)' = Busy(t) \cup {s} /\ s \notin Busy(t)
  BY <1>1, <1>2 DEF Busy
<1>4. ASSUME NEW u \in Tables \ {t}
      PROVE  Busy(u)' = Busy(u) /\ \A r \in Busy(u) : st'[r] = st[r]
  BY <1>1, <1>2 DEF Busy
<1>5. QED
  BY <1>2, <1>3, <1>4 DEF Busy

\* The Table of a table in the map
LEMMA EntryType ==
  ASSUME Types, NEW t \in Tables, Present(t)
  PROVE  /\ opened[t] \in DOMAIN tables[t]
         /\ Entry(t) \in Objects
         /\ Entry(t).indexes \in Seq(Indexes)
         /\ DOMAIN Entry(t).indexes = 1 .. Len(Entry(t).indexes) /\ Len(Entry(t).indexes) \in Nat
         /\ Entry(t).listed \subseteq Indexes
         /\ Names(Entry(t)) \subseteq Indexes
<1>1. opened[t] \in DOMAIN tables[t] /\ tables[t] \in Seq(Objects)
  BY DEF Present, Types
<1>2. PICK e : e = Entry(t)
  OBVIOUS
<1>3. e \in Objects
  BY <1>1, <1>2 DEF Entry
<1>4. e.indexes \in Seq(Indexes) /\ e.listed \subseteq Indexes
  BY <1>3 DEF Objects
<1>5. Names(e) \subseteq Indexes
  BY <1>4 DEF Names
<1>6. QED
  BY <1>1, <1>2, <1>3, <1>4, <1>5

\* Nothing that the invariant says of t changes.
Untouched(t) ==
  /\ meta'[t] = meta[t] /\ tmp'[t] = tmp[t] /\ data'[t] = data[t]
  /\ \A i \in Indexes : ix'[t][i] = "none" <=> ix[t][i] = "none"
  /\ tables'[t] = tables[t] /\ opened'[t] = opened[t] /\ acked'[t] = acked[t]
  /\ stray \subseteq stray'
  /\ Busy(t)' = Busy(t) /\ \A s \in Busy(t) : st'[s] = st[s]

\* A table that a step leaves alone stays sound.
LEMMA StaysOk ==
  ASSUME Types, NEW t \in Tables, UpOk(t), Untouched(t)
  PROVE  UpOk(t)'
<1>0. /\ Busy(t)' = Busy(t) /\ opened'[t] = opened[t] /\ Entry(t)' = Entry(t)
      /\ \A s \in Busy(t) : st'[s] = st[s]
  BY DEF Untouched, Entry
<1>1. Alone(t)'
  BY <1>0 DEF UpOk, Alone
<1>2. CASE opened[t] = 0
  <2>1. Absent(t)
    BY <1>2 DEF UpOk
  <2>2. \A s \in Busy(t) : Making(s, t)'
    BY <1>0, <2>1 DEF Absent, Making, Untouched
  <2>3. /\ acked'[t] = NoFile
        /\ \A i \in Indexes : ix'[t][i] # "none" => <<t, i>> \in stray'
        /\ (\A s \in Busy(t) : st'[s].at = "meta") => meta'[t] = NoFile /\ data'[t] = "none"
    BY <1>0, <2>1 DEF Absent, Untouched
  <2>4. QED
    BY <1>0, <1>1, <1>2, <2>2, <2>3 DEF UpOk, Absent
<1>3. CASE opened[t] # 0
  <2>1. Present(t)
    BY <1>3 DEF UpOk
  <2>2. PICK e : e = Entry(t)
    OBVIOUS
  <2>3. opened[t] \in DOMAIN tables[t] /\ e \in Objects /\ Names(Entry(t)) \subseteq Indexes
    BY <2>1, <2>2, EntryType
  <2>4. \A k \in DOMAIN e.indexes : e.indexes[k] \in Indexes
    BY <2>3 DEF Objects
  <2>5. Whole(t)' <=> Whole(t)
    <3>1. \A k \in DOMAIN e.indexes : ix'[t][e.indexes[k]] = "none" <=> ix[t][e.indexes[k]] = "none"
      BY <2>4 DEF Untouched
    <3>2. QED
      BY <1>0, <2>2, <3>1 DEF Whole, Untouched
  <2>6. ASSUME NEW s \in Busy(t), st[s].op = "drop" PROVE Dropping(s, t)'
    <3>1. Dropping(s, t)
      BY <2>1, <2>6 DEF Present
    <3>2. QED
      BY <3>1, <1>0, <2>2, <2>4, <2>5 DEF Dropping, Untouched
  <2>7. ASSUME NEW s \in Busy(t), st[s].op = "index" PROVE Adding(s, t)'
    <3>1. Adding(s, t)
      BY <2>1, <2>7 DEF Present
    <3>2. st[s].i \in Indexes
      BY <2>7, BusyWith, Statements DEF Adds, Renames
    <3>3. QED
      BY <3>1, <3>2, <1>0 DEF Adding, Untouched, Names
  <2>8. \A i, places : AddsAt(t, i, places)' = AddsAt(t, i, places)
    BY <1>0 DEF AddsAt
  <2>9. /\ opened'[t] \in DOMAIN tables'[t] /\ ~Entry(t)'.deleted
        /\ meta'[t] = Json(Entry(t)'.listed)
        /\ acked'[t] = NoFile \/ acked'[t] = meta'[t]
    BY <1>0, <2>1 DEF Present, Untouched
  <2>10. Names(Entry(t))' = Names(Entry(t))
    BY <1>0 DEF Names
  <2>11. /\ \A j, k \in DOMAIN Entry(t)'.indexes : Entry(t)'.indexes[j] = Entry(t)'.indexes[k] => j = k
         /\ Entry(t)'.listed \subseteq Names(Entry(t))'
    BY <1>0, <2>1, <2>10 DEF Present
  <2>12. \A i \in Names(Entry(t))' \ Entry(t)'.listed :
           <<t, i>> \in stray' \/ AddsAt(t, i, {"tmp", "rename"})'
    BY <1>0, <2>1, <2>8, <2>10 DEF Present, Untouched
  <2>13. \A i \in Indexes : ix'[t][i] # "none" =>
           i \in Names(Entry(t))' \/ <<t, i>> \in stray' \/ AddsAt(t, i, {"fill"})'
    BY <2>1, <2>8, <2>10 DEF Present, Untouched
  <2>14. \A s \in Busy(t)' : st'[s].op = "create" => st'[s].at = "meta"
    BY <1>0, <2>1 DEF Present
  <2>15. (\A s \in Busy(t)' : st'[s].op # "drop") => Whole(t)'
    BY <1>0, <2>1, <2>5 DEF Present
  <2>16. Present(t)'
    BY <1>0, <2>6, <2>7, <2>9, <2>11, <2>12, <2>13, <2>14, <2>15 DEF Present
  <2>17. QED
    BY <1>0, <1>1, <1>3, <2>16 DEF UpOk
<1>4. QED
  BY <1>2, <1>3

-----------------------------------------------------------------------------
(* The statements begin *)

\* A table that stays unspoiled gets a statement only when nobody is busy with
\* it, or when all of them are CREATE TABLE.
LEMMA StartsAlone ==
  ASSUME Types, NEW t \in Tables, NEW s \in Sessions, NEW x, x.t = t, Start(s, x), spoiled' = {}
  PROVE  /\ spoiled = {} /\ up = "up" /\ st[s] = Idle /\ st' = [st EXCEPT ![s] = x]
         /\ \A r \in Busy(t) : x.op = "create" /\ st[r].op = "create"
<1>1. up = "up" /\ st[s] = Idle /\ st' = [st EXCEPT ![s] = x]
  BY DEF Start
<1>2. spoiled = {} /\ ~Races(s, t, x.op)
  BY DEF Start
<1>3. ASSUME NEW r \in Busy(t) PROVE x.op = "create" /\ st[r].op = "create"
  <2>1. r \in Sessions /\ st[r].at # "idle" /\ st[r].t = t
    BY BusyWith
  <2>2. r # s
    BY <1>1 DEF Busy
  <2>3. QED
    BY <1>2, <2>1, <2>2 DEF Races
<1>4. QED
  BY <1>1, <1>2, <1>3

\* CREATE TABLE begins.
LEMMA CreateTableSound ==
  ASSUME IInv, NEW s \in Sessions, NEW t \in Tables, CreateTable(s, t), spoiled' = {}
  PROVE  Sound'
<1>1. PICK good \in BOOLEAN :
        Start(s, [op |-> "create", at |-> "meta", t |-> t, good |-> good])
  BY DEF CreateTable
<1>2. PICK x : x = [op |-> "create", at |-> "meta", t |-> t, good |-> good]
  OBVIOUS
<1>3. x \in Creates /\ x.t = t /\ x # Idle /\ x.op = "create" /\ x.at = "meta"
  BY <1>2 DEF Creates, Idle
<1>4. Start(s, x)
  BY <1>1, <1>2
<1>5. spoiled = {}
  BY <1>4 DEF Start
<1>6. Types /\ up = "up" /\ UpOk(t) /\ \A u \in Tables : UpOk(u)
  BY <1>4, <1>5 DEF IInv, Sound, Start
<1>7. /\ st[s] = Idle /\ st' = [st EXCEPT ![s] = x]
      /\ \A r \in Busy(t) : st[r].op = "create"
  BY <1>3, <1>4, <1>6, StartsAlone
<1>8. /\ Busy(t)' = Busy(t) \cup {s} /\ st'[s] = x
      /\ \A r \in Busy(t) : st'[r] = st[r]
      /\ \A u \in Tables \ {t} : Busy(u)' = Busy(u) /\ \A r \in Busy(u) : st'[r] = st[r]
  BY <1>3, <1>4, <1>6, Begins
<1>9. UNCHANGED <<meta, tmp, data, ix, tables, opened, up, acked, stray>> /\ opened[t] = 0
  BY DEF CreateTable, files, memory
<1>10. Types'
  BY <1>3, <1>6, <1>7, <1>9 DEF Types
<1>11. ASSUME NEW u \in Tables \ {t} PROVE UpOk(u)'
  BY <1>6, <1>8, <1>9, StaysOk DEF Untouched
<1>12. Alone(t)'
  BY <1>3, <1>6, <1>7, <1>8 DEF UpOk, Alone
<1>13. Absent(t)'
  <2>1. Absent(t)
    BY <1>6, <1>9 DEF UpOk
  <2>2. Making(s, t)'
    BY <1>3, <1>8 DEF Making
  <2>3. \A r \in Busy(t) : Making(r, t)'
    BY <1>8, <1>9, <2>1 DEF Absent, Making
  <2>4. QED
    BY <1>8, <1>9, <2>1, <2>2, <2>3 DEF Absent
<1>14. UpOk(t)'
  BY <1>9, <1>12, <1>13 DEF UpOk
<1>15. QED
  BY <1>6, <1>9, <1>10, <1>11, <1>14 DEF Sound

\* DROP TABLE begins.
LEMMA DropTableSound ==
  ASSUME IInv, NEW s \in Sessions, NEW t \in Tables, DropTable(s, t), spoiled' = {}
  PROVE  Sound'
<1>1. PICK x : x = [op |-> "drop", at |-> "data", t |-> t, g |-> opened[t], k |-> 1]
  OBVIOUS
<1>2. Start(s, x)
  BY <1>1 DEF DropTable
<1>3. spoiled = {}
  BY <1>2 DEF Start
<1>4. Types /\ up = "up" /\ UpOk(t) /\ \A u \in Tables : UpOk(u)
  BY <1>2, <1>3 DEF IInv, Sound, Start
<1>5. /\ x \in Drops /\ x # Idle /\ x.t = t /\ x.op = "drop" /\ x.at = "data"
      /\ x.g = opened[t] /\ x.k = 1
  BY <1>1, <1>4 DEF Drops, Idle, Types
<1>6. st[s] = Idle /\ st' = [st EXCEPT ![s] = x] /\ Busy(t) = {}
  BY <1>2, <1>4, <1>5, StartsAlone
<1>7. /\ Busy(t)' = {s} /\ st'[s] = x
      /\ \A u \in Tables \ {t} : Busy(u)' = Busy(u) /\ \A r \in Busy(u) : st'[r] = st[r]
  <2>1. /\ Busy(t)' = Busy(t) \cup {s} /\ st'[s] = x
        /\ \A u \in Tables \ {t} : Busy(u)' = Busy(u) /\ \A r \in Busy(u) : st'[r] = st[r]
    BY <1>2, <1>4, <1>5, Begins
  <2>2. QED
    BY <1>6, <2>1
<1>8. /\ UNCHANGED <<meta, tmp, data, ix, tables, opened, up, stray>> /\ opened[t] # 0
      /\ acked' = [acked EXCEPT ![t] = NoFile]
  BY DEF DropTable, files, memory
<1>9. Types'
  <2>1. /\ st' \in [Sessions -> {Idle} \cup Creates \cup Drops \cup Adds \cup Renames]
        /\ acked' \in [Tables -> MetaFile]
    BY <1>4, <1>5, <1>6, <1>8, FileKinds DEF Types
  <2>2. QED
    BY <1>4, <1>8, <2>1 DEF Types
<1>10. acked'[t] = NoFile /\ \A u \in Tables \ {t} : acked'[u] = acked[u]
  BY <1>4, <1>8 DEF Types
<1>11. ASSUME NEW u \in Tables \ {t} PROVE UpOk(u)'
  BY <1>4, <1>7, <1>8, <1>10, StaysOk DEF Untouched
<1>12. Alone(t)'
  BY <1>7 DEF Alone
<1>13. Present(t) /\ Whole(t) /\ Entry(t)' = Entry(t)
  BY <1>4, <1>6, <1>8 DEF UpOk, Present, Entry
<1>14. Whole(t)'
  BY <1>8, <1>13 DEF Whole
<1>15. \A k \in DOMAIN Entry(t).indexes : k \in Nat /\ k >= 1
  BY <1>4, <1>13, EntryType
<1>16. Dropping(s, t)'
  <2>1. \A k \in DOMAIN Entry(t).indexes : ix[t][Entry(t).indexes[k]] # "none" /\ ~(k < 1)
    BY <1>13, <1>15 DEF Whole
  <2>2. QED
    BY <1>5, <1>7, <1>8, <1>10, <1>13, <1>14, <2>1 DEF Dropping
<1>17. Present(t)'
  <2>1. \A i, places : ~AddsAt(t, i, places)
    BY <1>6 DEF AddsAt
  <2>2. Names(Entry(t))' = Names(Entry(t))
    BY <1>13 DEF Names
  <2>3. /\ opened'[t] \in DOMAIN tables'[t] /\ ~Entry(t)'.deleted
        /\ meta'[t] = Json(Entry(t)'.listed)
        /\ acked'[t] = NoFile
    BY <1>8, <1>10, <1>13 DEF Present
  <2>4. /\ \A j, k \in DOMAIN Entry(t)'.indexes : Entry(t)'.indexes[j] = Entry(t)'.indexes[k] => j = k
        /\ Entry(t)'.listed \subseteq Names(Entry(t))'
    BY <1>13, <2>2 DEF Present
  <2>5. \A i \in Names(Entry(t))' \ Entry(t)'.listed : <<t, i>> \in stray'
    BY <1>8, <1>13, <2>1, <2>2 DEF Present
  <2>6. \A i \in Indexes : ix'[t][i] # "none" => i \in Names(Entry(t))' \/ <<t, i>> \in stray'
    BY <1>8, <1>13, <2>1, <2>2 DEF Present
  <2>7. \A r \in Busy(t)' : r = s /\ st'[r].op = "drop"
    BY <1>5, <1>7
  <2>8. QED
    BY <1>16, <1>14, <2>3, <2>4, <2>5, <2>6, <2>7 DEF Present
<1>18. QED
  BY <1>4, <1>8, <1>9, <1>11, <1>12, <1>17 DEF Sound, UpOk

\* CREATE INDEX begins.
LEMMA CreateIndexSound ==
  ASSUME IInv, NEW s \in Sessions, NEW t \in Tables, NEW i \in Indexes,
         CreateIndex(s, t, i), spoiled' = {}
  PROVE  Sound'
<1>0. PICK dup \in BOOLEAN :
        Start(s, [op |-> "index", at |-> "file", t |-> t, g |-> opened[t], i |-> i, dup |-> dup])
  BY DEF CreateIndex
<1>1. PICK x : x = [op |-> "index", at |-> "file", t |-> t, g |-> opened[t], i |-> i, dup |-> dup]
  OBVIOUS
<1>2. Start(s, x)
  BY <1>0, <1>1
<1>3. spoiled = {}
  BY <1>2 DEF Start
<1>4. Types /\ up = "up" /\ UpOk(t) /\ \A u \in Tables : UpOk(u)
  BY <1>2, <1>3 DEF IInv, Sound, Start
<1>5. /\ x \in Adds /\ x # Idle /\ x.t = t /\ x.op = "index" /\ x.at = "file"
      /\ x.g = opened[t]
  BY <1>1, <1>4 DEF Adds, Idle, Types
<1>6. st[s] = Idle /\ st' = [st EXCEPT ![s] = x] /\ Busy(t) = {}
  BY <1>2, <1>4, <1>5, StartsAlone
<1>7. /\ Busy(t)' = {s} /\ st'[s] = x
      /\ \A u \in Tables \ {t} : Busy(u)' = Busy(u) /\ \A r \in Busy(u) : st'[r] = st[r]
  <2>1. /\ Busy(t)' = Busy(t) \cup {s} /\ st'[s] = x
        /\ \A u \in Tables \ {t} : Busy(u)' = Busy(u) /\ \A r \in Busy(u) : st'[r] = st[r]
    BY <1>2, <1>4, <1>5, Begins
  <2>2. QED
    BY <1>6, <2>1
<1>8. /\ UNCHANGED <<meta, tmp, data, ix, tables, opened, up, acked, stray>> /\ opened[t] # 0
  BY DEF CreateIndex, files, memory
<1>9. Types'
  BY <1>4, <1>5, <1>6, <1>8 DEF Types
<1>11. ASSUME NEW u \in Tables \ {t} PROVE UpOk(u)'
  BY <1>4, <1>7, <1>8, StaysOk DEF Untouched
<1>12. Alone(t)'
  BY <1>7 DEF Alone
<1>13. Present(t) /\ Whole(t) /\ Entry(t)' = Entry(t)
  BY <1>4, <1>6, <1>8 DEF UpOk, Present, Entry
<1>14. Whole(t)'
  BY <1>8, <1>13 DEF Whole
<1>16. Adding(s, t)'
  BY <1>5, <1>7, <1>8 DEF Adding
<1>17. Present(t)'
  <2>1. \A j, places : ~AddsAt(t, j, places)
    BY <1>6 DEF AddsAt
  <2>2. Names(Entry(t))' = Names(Entry(t))
    BY <1>13 DEF Names
  <2>3. /\ opened'[t] \in DOMAIN tables'[t] /\ ~Entry(t)'.deleted
        /\ meta'[t] = Json(Entry(t)'.listed)
        /\ acked'[t] = NoFile \/ acked'[t] = meta'[t]
    BY <1>8, <1>13 DEF Present
  <2>4. /\ \A j, k \in DOMAIN Entry(t)'.indexes : Entry(t)'.indexes[j] = Entry(t)'.indexes[k] => j = k
        /\ Entry(t)'.listed \subseteq Names(Entry(t))'
    BY <1>13, <2>2 DEF Present
  <2>5. \A j \in Names(Entry(t))' \ Entry(t)'.listed : <<t, j>> \in stray'
    BY <1>8, <1>13, <2>1, <2>2 DEF Present
  <2>6. \A j \in Indexes : ix'[t][j] # "none" => j \in Names(Entry(t))' \/ <<t, j>> \in stray'
    BY <1>8, <1>13, <2>1, <2>2 DEF Present
  <2>7. \A r \in Busy(t)' : r = s /\ st'[r].op = "index"
    BY <1>5, <1>7
  <2>8. QED
    BY <1>16, <1>14, <2>3, <2>4, <2>5, <2>6, <2>7 DEF Present
<1>18. QED
  BY <1>4, <1>8, <1>9, <1>11, <1>12, <1>17 DEF Sound, UpOk

-----------------------------------------------------------------------------
(* CREATE TABLE *)

\* The state in which a session takes a step of its statement.
LEMMA Taking ==
  ASSUME IInv, spoiled = {}, up = "up", NEW s \in Sessions, st[s].at # "idle"
  PROVE  /\ Types /\ st[s].t \in Tables /\ s \in Busy(st[s].t)
         /\ \A u \in Tables : UpOk(u)
BY Statements DEF IInv, Sound

\* CREATE TABLE goes on at another place.
LEMMA CreateMoves ==
  ASSUME Types, NEW s \in Sessions, NEW t \in Tables, s \in Busy(t), st[s].op = "create",
         NEW at \in {"meta", "write", "data", "open"}, Goto(s, at)
  PROVE  /\ st' \in [Sessions -> {Idle} \cup Creates \cup Drops \cup Adds \cup Renames]
         /\ Busy(t)' = Busy(t) /\ st'[s].op = "create" /\ st'[s].at = at
         /\ \A r \in Busy(t) \ {s} : st'[r] = st[r]
         /\ \A u \in Tables \ {t} : Busy(u)' = Busy(u) /\ \A r \in Busy(u) : st'[r] = st[r]
<1>1. st[s].at # "idle" /\ st[s].t = t
  BY BusyWith
<1>2. st[s] \in Creates
  BY <1>1, Statements
<1>3. PICK x : x = [st[s] EXCEPT !.at = at]
  OBVIOUS
<1>4. x \in Creates /\ x.t = t /\ x.op = "create" /\ x.at = at /\ x # Idle
  <2>1. x \in Creates /\ x.t = t /\ x.op = "create" /\ x.at = at
    BY <1>1, <1>2, <1>3 DEF Creates
  <2>2. QED
    BY <2>1 DEF Idle
<1>5. st' = [st EXCEPT ![s] = x]
  BY <1>3 DEF Goto
<1>6. st' \in [Sessions -> {Idle} \cup Creates \cup Drops \cup Adds \cup Renames]
  BY <1>4, <1>5 DEF Types
<1>7. QED
  BY <1>4, <1>5, <1>6, Moves

\* The others that are making the table are still before their first step.
LEMMA OthersWait ==
  ASSUME Types, NEW t \in Tables, UpOk(t), NEW s \in Busy(t),
         st[s].op = "create", st[s].at # "meta"
  PROVE  /\ opened[t] = 0 /\ Absent(t) /\ Making(s, t)
         /\ \A r \in Busy(t) \ {s} : st[r].op = "create" /\ st[r].at = "meta"
<1>1. opened[t] = 0
  BY DEF UpOk, Present
<1>2. Absent(t)
  BY <1>1 DEF UpOk
<1>3. QED
  BY <1>1, <1>2 DEF UpOk, Alone, Absent

\* A CREATE TABLE that has made its meta file goes on.
LEMMA MakerMoves ==
  ASSUME Types, NEW t \in Tables, NEW s \in Busy(t), opened[t] = 0, Absent(t),
         \A r \in Busy(t) \ {s} : st[r].op = "create" /\ st[r].at = "meta",
         Busy(t)' = Busy(t), st'[s].op = "create", st'[s].at # "meta",
         \A r \in Busy(t) \ {s} : st'[r] = st[r],
         Making(s, t)',
         UNCHANGED <<ix, opened, acked, stray>>
  PROVE  UpOk(t)'
<1>1. Alone(t)'
  BY DEF Alone
<1>2. \A r \in Busy(t) \ {s} : Making(r, t)'
  BY DEF Making
<1>3. Absent(t)'
  BY <1>2 DEF Absent
<1>4. QED
  BY <1>1, <1>3 DEF UpOk

\* The meta file is made, or it is there already.
LEMMA CreateMetaSound ==
  ASSUME IInv, NEW s \in Sessions, CreateMeta(s), spoiled' = {}
  PROVE  Sound'
<1>1. PICK t : t = st[s].t
  OBVIOUS
<1>2. up = "up" /\ st[s].at = "meta" /\ st[s].op = "create" /\ st[s].at # "idle"
  BY DEF CreateMeta, At
<1>3. spoiled = {}
  BY DEF CreateMeta, Spoil
<1>4. Types /\ t \in Tables /\ s \in Busy(t) /\ \A u \in Tables : UpOk(u)
  BY <1>1, <1>2, <1>3, Taking
<1>5. UNCHANGED <<tmp, data, ix, tables, opened, up, acked, stray>>
  BY DEF CreateMeta, memory
<1>6. CASE meta[t] # NoFile
  <2>1. End(s) /\ UNCHANGED meta
    BY <1>1, <1>6 DEF CreateMeta
  <2>2. /\ Busy(t)' = Busy(t) \ {s}
        /\ \A r \in Busy(t) \ {s} : st'[r] = st[r]
        /\ \A u \in Tables \ {t} : Busy(u)' = Busy(u) /\ \A r \in Busy(u) : st'[r] = st[r]
    BY <1>4, <2>1, Ends
  <2>3. Types'
    BY <1>4, <1>5, <2>1 DEF Types, End
  <2>4. ASSUME NEW u \in Tables \ {t} PROVE UpOk(u)'
    BY <1>4, <1>5, <2>1, <2>2, StaysOk DEF Untouched
  <2>5. Alone(t)'
    BY <1>4, <2>2 DEF UpOk, Alone
  <2>6. ASSUME opened[t] = 0 PROVE UpOk(t)'
    <3>1. Absent(t)
      BY <1>4, <2>6 DEF UpOk
    <3>2. \A r \in Busy(t) \ {s} : Making(r, t)'
      BY <1>5, <2>1, <2>2, <3>1 DEF Absent, Making
    <3>3. (\A r \in Busy(t) \ {s} : st'[r].at = "meta") => meta[t] = NoFile /\ data[t] = "none"
      BY <1>2, <2>2, <3>1 DEF Absent
    <3>4. Absent(t)'
      BY <1>5, <2>1, <2>2, <3>1, <3>2, <3>3 DEF Absent
    <3>5. QED
      BY <1>5, <2>5, <2>6, <3>4 DEF UpOk
  <2>7. ASSUME opened[t] # 0 PROVE UpOk(t)'
    <3>1. Present(t) /\ Entry(t)' = Entry(t) /\ Names(Entry(t))' = Names(Entry(t))
      BY <1>4, <1>5, <2>7 DEF UpOk, Entry, Names
    <3>2. \A r \in Busy(t) : st[r].op = "create"
      BY <1>2, <1>4 DEF UpOk, Alone
    <3>3. \A i, places : ~AddsAt(t, i, places)
      BY <3>2 DEF AddsAt
    <3>4. Whole(t)
      BY <3>1, <3>2 DEF Present
    <3>5. Whole(t)'
      BY <1>5, <3>1, <3>4 DEF Whole
    <3>6. \A r \in Busy(t)' : st'[r].op = "create" /\ st'[r].at = "meta"
      BY <2>2, <3>1, <3>2 DEF Present
    <3>7. /\ opened'[t] \in DOMAIN tables'[t] /\ ~Entry(t)'.deleted
          /\ meta'[t] = Json(Entry(t)'.listed)
          /\ acked'[t] = NoFile \/ acked'[t] = meta'[t]
          /\ \A j, k \in DOMAIN Entry(t)'.indexes : Entry(t)'.indexes[j] = Entry(t)'.indexes[k] => j = k
          /\ Entry(t)'.listed \subseteq Names(Entry(t))'
      BY <1>5, <2>1, <3>1 DEF Present
    <3>8. /\ \A i \in Names(Entry(t))' \ Entry(t)'.listed : <<t, i>> \in stray'
          /\ \A i \in Indexes : ix'[t][i] # "none" => i \in Names(Entry(t))' \/ <<t, i>> \in stray'
      BY <1>5, <3>1, <3>3 DEF Present
    <3>9. Present(t)'
      BY <3>5, <3>6, <3>7, <3>8 DEF Present
    <3>10. QED
      BY <1>5, <2>5, <2>7, <3>9 DEF UpOk
  <2>8. QED
    BY <1>2, <1>5, <2>3, <2>4, <2>6, <2>7 DEF Sound
<1>7. CASE meta[t] = NoFile
  <2>1. Goto(s, "write") /\ meta' = [meta EXCEPT ![t] = EmptyFile]
    BY <1>1, <1>7 DEF CreateMeta, Spoil
  <2>2. /\ st' \in [Sessions -> {Idle} \cup Creates \cup Drops \cup Adds \cup Renames]
        /\ Busy(t)' = Busy(t) /\ st'[s].op = "create" /\ st'[s].at = "write"
        /\ \A r \in Busy(t) \ {s} : st'[r] = st[r]
        /\ \A u \in Tables \ {t} : Busy(u)' = Busy(u) /\ \A r \in Busy(u) : st'[r] = st[r]
    BY <1>2, <1>4, <2>1, CreateMoves
  <2>3. Types'
    BY <1>4, <1>5, <2>1, <2>2, FileKinds DEF Types
  <2>4. meta'[t] = EmptyFile /\ \A u \in Tables \ {t} : meta'[u] = meta[u]
    BY <1>4, <2>1 DEF Types
  <2>5. ASSUME NEW u \in Tables \ {t} PROVE UpOk(u)'
    BY <1>4, <1>5, <2>2, <2>4, StaysOk DEF Untouched
  <2>6. opened[t] = 0
    <3>1. SUFFICES ASSUME opened[t] # 0 PROVE FALSE
      OBVIOUS
    <3>2. Present(t)
      BY <1>4, <3>1 DEF UpOk
    <3>3. Entry(t).listed \subseteq Indexes /\ meta[t] = Json(Entry(t).listed)
      BY <1>4, <3>2, EntryType DEF Present
    <3>4. QED
      BY <1>7, <3>3, FileKinds
  <2>7. Absent(t)
    BY <1>4, <2>6 DEF UpOk
  <2>8. ASSUME NEW r \in Busy(t) PROVE st[r].op = "create" /\ st[r].at = "meta"
    <3>1. Making(r, t)
      BY <2>7 DEF Absent
    <3>2. st[r] \in Creates
      BY <1>4, <3>1, BusyWith, Statements DEF Making
    <3>3. Json({}) # NoFile /\ EmptyFile # NoFile
      BY FileKinds
    <3>4. QED
      BY <1>7, <3>1, <3>2, <3>3 DEF Making, Creates
  <2>9. data[t] = "none"
    BY <2>7, <2>8 DEF Absent
  <2>10. Making(s, t)'
    BY <1>5, <2>2, <2>4, <2>9 DEF Making
  <2>11. UpOk(t)'
    BY <1>4, <1>5, <2>2, <2>6, <2>7, <2>8, <2>10, MakerMoves
  <2>12. QED
    BY <1>2, <1>5, <2>3, <2>5, <2>11 DEF Sound
<1>8. QED
  BY <1>6, <1>7

\* The meta file is written, or the data file is made.
LEMMA WriteMetaSound ==
  ASSUME IInv, NEW s \in Sessions, WriteMeta(s) \/ CreateData(s), spoiled' = {}
  PROVE  Sound'
<1>1. PICK t : t = st[s].t
  OBVIOUS
<1>2. up = "up" /\ st[s].at \in {"write", "data"} /\ st[s].op = "create" /\ st[s].at # "idle"
  BY DEF WriteMeta, CreateData, At
<1>3. spoiled = {}
  BY DEF WriteMeta, CreateData, Spoil, history
<1>4. Types /\ t \in Tables /\ s \in Busy(t) /\ \A u \in Tables : UpOk(u)
  BY <1>1, <1>2, <1>3, Taking
<1>5. UNCHANGED <<tmp, ix, tables, opened, up, acked, stray>>
  BY DEF WriteMeta, CreateData, memory, history
<1>6. /\ opened[t] = 0 /\ Absent(t) /\ Making(s, t)
      /\ \A r \in Busy(t) \ {s} : st[r].op = "create" /\ st[r].at = "meta"
  BY <1>2, <1>4, OthersWait
<1>7. PICK at \in {"data", "open"} :
        /\ Goto(s, at)
        /\ at = "data" => meta' = [meta EXCEPT ![t] = Json({})] /\ data' = data /\ data[t] = "none"
        /\ at = "open" => data' = [data EXCEPT ![t] = "empty"] /\ meta' = meta /\ meta[t] = Json({})
  BY <1>1, <1>2, <1>6 DEF WriteMeta, CreateData, Spoil, Making, At
<1>8. /\ st' \in [Sessions -> {Idle} \cup Creates \cup Drops \cup Adds \cup Renames]
      /\ Busy(t)' = Busy(t) /\ st'[s].op = "create" /\ st'[s].at = at
      /\ \A r \in Busy(t) \ {s} : st'[r] = st[r]
      /\ \A u \in Tables \ {t} : Busy(u)' = Busy(u) /\ \A r \in Busy(u) : st'[r] = st[r]
  BY <1>2, <1>4, <1>7, CreateMoves
<1>9. Types'
  <2>1. Json({}) \in MetaFile
    BY FileKinds
  <2>2. meta' \in [Tables -> MetaFile] /\ data' \in [Tables -> {"none", "empty", "file"}]
    BY <1>4, <1>7, <2>1 DEF Types
  <2>3. QED
    BY <1>4, <1>5, <1>8, <2>2 DEF Types
<1>10. /\ at = "data" => meta'[t] = Json({}) /\ data'[t] = "none"
       /\ at = "open" => meta'[t] = Json({}) /\ data'[t] = "empty"
       /\ \A u \in Tables \ {t} : meta'[u] = meta[u] /\ data'[u] = data[u]
  BY <1>4, <1>7 DEF Types
<1>11. ASSUME NEW u \in Tables \ {t} PROVE UpOk(u)'
  BY <1>4, <1>5, <1>8, <1>10, StaysOk DEF Untouched
<1>12. Making(s, t)'
  BY <1>8, <1>10 DEF Making
<1>13. UpOk(t)'
  BY <1>4, <1>5, <1>6, <1>8, <1>12, MakerMoves
<1>14. QED
  BY <1>2, <1>5, <1>9, <1>11, <1>13 DEF Sound

\* The table is registered and the client told so.
LEMMA RegisterSound ==
  ASSUME IInv, NEW s \in Sessions, Register(s), spoiled' = {}
  PROVE  Sound'
<1>1. PICK t : t = st[s].t
  OBVIOUS
<1>2. up = "up" /\ st[s].at = "open" /\ st[s].op = "create" /\ st[s].at # "idle"
  BY DEF Register, At
<1>3. spoiled = {}
  BY DEF Register
<1>4. Types /\ t \in Tables /\ s \in Busy(t) /\ \A u \in Tables : UpOk(u)
  BY <1>1, <1>2, <1>3, Taking
<1>5. UNCHANGED <<meta, tmp, ix, up, stray>> /\ End(s)
  BY DEF Register
<1>6. /\ opened[t] = 0 /\ Absent(t) /\ Making(s, t)
      /\ \A r \in Busy(t) \ {s} : st[r].op = "create" /\ st[r].at = "meta"
  BY <1>2, <1>4, OthersWait
<1>7. PICK e : e = Object(<<>>, {}, TRUE)
  OBVIOUS
<1>8. /\ e \in Objects /\ e.indexes = <<>> /\ e.listed = {} /\ e.open /\ ~e.deleted
      /\ Names(e) = {} /\ DOMAIN e.indexes = {}
  BY <1>7 DEF Object, Objects, Names
<1>9. /\ data' = [data EXCEPT ![t] = "file"]
      /\ tables' = [tables EXCEPT ![t] = Append(tables[t], e)]
      /\ opened' = [opened EXCEPT ![t] = Len(tables'[t])]
      /\ acked' = [acked EXCEPT ![t] = Json({})]
  BY <1>1, <1>7 DEF Register
<1>10. tables[t] \in Seq(Objects) /\ tables'[t] = Append(tables[t], e)
  BY <1>4, <1>9 DEF Types
<1>11. /\ tables'[t] \in Seq(Objects) /\ Len(tables'[t]) = Len(tables[t]) + 1 /\ Len(tables[t]) \in Nat
       /\ DOMAIN tables'[t] = 1 .. Len(tables[t]) + 1
       /\ tables'[t][Len(tables[t]) + 1] = e
  BY <1>8, <1>10
<1>12. opened'[t] = Len(tables[t]) + 1 /\ opened'[t] \in Nat /\ opened'[t] # 0
  BY <1>4, <1>9, <1>11 DEF Types
<1>13. Entry(t)' = e /\ opened'[t] \in DOMAIN tables'[t]
  BY <1>11, <1>12 DEF Entry
<1>14. /\ data'[t] = "file" /\ acked'[t] = Json({})
       /\ \A u \in Tables \ {t} : /\ data'[u] = data[u] /\ acked'[u] = acked[u]
                                  /\ tables'[u] = tables[u] /\ opened'[u] = opened[u]
  BY <1>4, <1>9 DEF Types
<1>15. /\ Busy(t)' = Busy(t) \ {s}
       /\ \A r \in Busy(t) \ {s} : st'[r] = st[r]
       /\ \A u \in Tables \ {t} : Busy(u)' = Busy(u) /\ \A r \in Busy(u) : st'[r] = st[r]
  BY <1>4, <1>5, Ends
<1>16. Types'
  <2>1. st' \in [Sessions -> {Idle} \cup Creates \cup Drops \cup Adds \cup Renames]
    BY <1>4, <1>5 DEF Types, End
  <2>2. tables' \in [Tables -> Seq(Objects)] /\ opened' \in [Tables -> Nat]
    BY <1>4, <1>9, <1>10, <1>11, <1>12 DEF Types
  <2>3. QED
    BY <1>4, <1>5, <1>9, <2>1, <2>2, FileKinds DEF Types
<1>17. ASSUME NEW u \in Tables \ {t} PROVE UpOk(u)'
  BY <1>4, <1>5, <1>14, <1>15, StaysOk DEF Untouched
<1>18. \A r \in Busy(t)' : st'[r].op = "create" /\ st'[r].at = "meta"
  BY <1>6, <1>15
<1>19. Alone(t)'
  BY <1>18 DEF Alone
<1>20. Present(t)'
  <2>1. Names(Entry(t))' = {} /\ Entry(t)'.listed = {} /\ ~Entry(t)'.deleted /\ Entry(t)'.open
        /\ DOMAIN Entry(t)'.indexes = {}
    BY <1>8, <1>13 DEF Names
  <2>2. meta'[t] = Json({}) /\ acked'[t] = Json({})
    BY <1>2, <1>5, <1>6, <1>14 DEF Making
  <2>3. Whole(t)'
    BY <1>14, <2>1 DEF Whole
  <2>4. \A i \in Indexes : ix'[t][i] # "none" => <<t, i>> \in stray'
    BY <1>5, <1>6 DEF Absent
  <2>5. QED
    BY <1>13, <1>18, <2>1, <2>2, <2>3, <2>4 DEF Present
<1>21. QED
  BY <1>2, <1>5, <1>12, <1>16, <1>17, <1>19, <1>20 DEF Sound, UpOk

-----------------------------------------------------------------------------
(* DROP TABLE *)

\* A DROP TABLE or CREATE INDEX is alone with its table, which is in the map.
LEMMA Sole ==
  ASSUME IInv, spoiled = {}, up = "up", NEW s \in Sessions, st[s].at # "idle",
         NEW t, t = st[s].t, st[s].op # "create"
  PROVE  /\ Types /\ t \in Tables /\ \A u \in Tables : UpOk(u)
         /\ Busy(t) = {s} /\ opened[t] # 0 /\ Present(t)
         /\ st[s].op = "drop" => st[s] \in Drops /\ Dropping(s, t)
         /\ st[s].op = "index" => Adding(s, t)
         /\ This(s) = Entry(t) /\ st[s].g = opened[t]
         /\ ~Entry(t).deleted
<1>1. Types /\ t \in Tables /\ s \in Busy(t) /\ \A u \in Tables : UpOk(u)
  BY Taking
<1>2. Busy(t) = {s}
  BY <1>1 DEF UpOk, Alone
<1>3. opened[t] # 0
  BY <1>1 DEF UpOk, Absent, Making
<1>4. Present(t)
  BY <1>1, <1>3 DEF UpOk
<1>5. st[s].op \in {"create", "drop", "index"} /\ (st[s].op = "drop" => st[s] \in Drops)
  BY <1>1, Statements
<1>6. /\ st[s].op = "drop" => Dropping(s, t)
      /\ st[s].op = "index" => Adding(s, t)
  BY <1>1, <1>4 DEF Present
<1>7. st[s].g = opened[t]
  BY <1>5, <1>6 DEF Dropping, Adding
<1>8. This(s) = Entry(t)
  BY <1>7 DEF This, Entry
<1>9. QED
  BY <1>1, <1>2, <1>3, <1>4, <1>5, <1>6, <1>7, <1>8 DEF Present

\* The Table in the map is changed to o.
LEMMA Altered ==
  ASSUME Types, NEW t \in Tables, Present(t), NEW s \in Sessions, st[s].t = t, st[s].g = opened[t],
         NEW o \in Objects, Alter(s, o), opened' = opened
  PROVE  /\ tables' \in [Tables -> Seq(Objects)]
         /\ Entry(t)' = o /\ opened'[t] \in DOMAIN tables'[t]
         /\ \A u \in Tables \ {t} : tables'[u] = tables[u]
<1>1. PICK g : g = opened[t]
  OBVIOUS
<1>2. g \in DOMAIN tables[t] /\ tables[t] \in Seq(Objects) /\ tables \in [Tables -> Seq(Objects)]
  BY <1>1, EntryType DEF Types
<1>3. tables' = [tables EXCEPT ![t] = [tables[t] EXCEPT ![g] = o]]
  BY <1>1 DEF Alter
<1>4. PICK q : q = [tables[t] EXCEPT ![g] = o]
  OBVIOUS
<1>5. q \in Seq(Objects) /\ DOMAIN q = DOMAIN tables[t] /\ q[g] = o
  BY <1>2, <1>4
<1>6. tables' = [tables EXCEPT ![t] = q]
  BY <1>3, <1>4
<1>7. tables' \in [Tables -> Seq(Objects)] /\ tables'[t] = q
      /\ \A u \in Tables \ {t} : tables'[u] = tables[u]
  BY <1>2, <1>5, <1>6
<1>8. QED
  BY <1>1, <1>2, <1>5, <1>7 DEF Entry

\* DROP TABLE goes on with the statement x.
LEMMA DropMoves ==
  ASSUME Types, NEW s \in Sessions, NEW t \in Tables, Busy(t) = {s}, NEW x \in Drops, x.t = t,
         st' = [st EXCEPT ![s] = x]
  PROVE  /\ st' \in [Sessions -> {Idle} \cup Creates \cup Drops \cup Adds \cup Renames]
         /\ Busy(t)' = {s} /\ st'[s] = x
         /\ \A u \in Tables \ {t} : Busy(u)' = Busy(u) /\ \A r \in Busy(u) : st'[r] = st[r]
         /\ Alone(t)'
         /\ \A i, places : ~AddsAt(t, i, places)'
<1>1. x # Idle /\ x.op = "drop"
  BY DEF Drops, Idle
<1>2. /\ Busy(t)' = {s} /\ st'[s] = x
      /\ \A u \in Tables \ {t} : Busy(u)' = Busy(u) /\ \A r \in Busy(u) : st'[r] = st[r]
  BY <1>1, Moves
<1>3. st' \in [Sessions -> {Idle} \cup Creates \cup Drops \cup Adds \cup Renames]
  BY DEF Types
<1>4. Alone(t)' /\ \A i, places : ~AddsAt(t, i, places)'
  BY <1>1, <1>2 DEF Alone, AddsAt
<1>5. QED
  BY <1>2, <1>3, <1>4

\* The data file goes.
LEMMA DropDataSound ==
  ASSUME IInv, NEW s \in Sessions, DropData(s), spoiled' = {}
  PROVE  Sound'
<1>1. PICK t : t = st[s].t
  OBVIOUS
<1>2. up = "up" /\ st[s].at = "data" /\ st[s].op = "drop" /\ st[s].at # "idle"
  BY DEF DropData, At
<1>3. spoiled = {}
  BY DEF DropData, DropRefused, Spoil
<1>4. /\ Types /\ t \in Tables /\ \A u \in Tables : UpOk(u)
      /\ Busy(t) = {s} /\ opened[t] # 0 /\ Present(t)
      /\ st[s] \in Drops /\ Dropping(s, t)
      /\ This(s) = Entry(t) /\ st[s].g = opened[t] /\ ~Entry(t).deleted
  BY <1>1, <1>2, <1>3, Sole
<1>5. Whole(t) /\ st[s].k = 1
  BY <1>2, <1>4 DEF Dropping
<1>6. Entry(t).open /\ data[t] = "file"
  BY <1>5 DEF Whole
<1>7. /\ data' = [data EXCEPT ![t] = "none"]
      /\ Alter(s, [Entry(t) EXCEPT !.open = FALSE])
      /\ Goto(s, "index")
      /\ UNCHANGED <<meta, tmp, ix, opened, acked, stray, up>>
  BY <1>1, <1>4, <1>6 DEF DropData
<1>8. PICK o : o = [Entry(t) EXCEPT !.open = FALSE]
  OBVIOUS
<1>9. /\ o \in Objects /\ o.indexes = Entry(t).indexes /\ o.listed = Entry(t).listed
      /\ o.deleted = Entry(t).deleted
  <2>1. Entry(t) \in Objects
    BY <1>4, EntryType
  <2>2. QED
    BY <1>8, <2>1 DEF Objects
<1>10. /\ tables' \in [Tables -> Seq(Objects)]
       /\ Entry(t)' = o /\ opened'[t] \in DOMAIN tables'[t]
       /\ \A u \in Tables \ {t} : tables'[u] = tables[u]
  BY <1>1, <1>4, <1>7, <1>8, <1>9, Altered
<1>11. PICK x : x = [st[s] EXCEPT !.at = "index"]
  OBVIOUS
<1>12. x \in Drops /\ x.t = t /\ x.at = "index" /\ x.g = st[s].g /\ x.k = 1
  BY <1>1, <1>4, <1>5, <1>11 DEF Drops
<1>13. st' = [st EXCEPT ![s] = x]
  BY <1>7, <1>11 DEF Goto
<1>14. /\ st' \in [Sessions -> {Idle} \cup Creates \cup Drops \cup Adds \cup Renames]
       /\ Busy(t)' = {s} /\ st'[s] = x
       /\ \A u \in Tables \ {t} : Busy(u)' = Busy(u) /\ \A r \in Busy(u) : st'[r] = st[r]
       /\ Alone(t)' /\ \A i, places : ~AddsAt(t, i, places)'
  BY <1>4, <1>12, <1>13, DropMoves
<1>15. Types'
  BY <1>4, <1>7, <1>10, <1>14 DEF Types
<1>16. data'[t] = "none" /\ \A u \in Tables \ {t} : data'[u] = data[u]
  BY <1>4, <1>7 DEF Types
<1>17. ASSUME NEW u \in Tables \ {t} PROVE UpOk(u)'
  BY <1>4, <1>7, <1>10, <1>14, <1>16, StaysOk DEF Untouched
<1>18. Dropping(s, t)'
  <2>1. \A k \in DOMAIN o.indexes : ix'[t][o.indexes[k]] = "none" <=> k < 1
    BY <1>4, <1>5, <1>7, <1>9 DEF Dropping
  <2>2. acked'[t] = NoFile
    BY <1>4, <1>7 DEF Dropping
  <2>3. QED
    BY <1>4, <1>7, <1>10, <1>12, <1>14, <1>16, <2>1, <2>2 DEF Dropping
<1>19. Present(t)'
  <2>1. Names(Entry(t))' = Names(Entry(t))
    BY <1>9, <1>10 DEF Names
  <2>2. \A i, places : AddsAt(t, i, places) = FALSE
    BY <1>2, <1>4 DEF AddsAt
  <2>3. /\ ~Entry(t)'.deleted /\ meta'[t] = Json(Entry(t)'.listed) /\ acked'[t] = NoFile
    BY <1>4, <1>7, <1>9, <1>10 DEF Present, Dropping
  <2>4. /\ \A j, k \in DOMAIN Entry(t)'.indexes : Entry(t)'.indexes[j] = Entry(t)'.indexes[k] => j = k
        /\ Entry(t)'.listed \subseteq Names(Entry(t))'
    BY <1>4, <1>9, <1>10, <2>1 DEF Present
  <2>5. /\ \A i \in Names(Entry(t))' \ Entry(t)'.listed : <<t, i>> \in stray'
        /\ \A i \in Indexes : ix'[t][i] # "none" => i \in Names(Entry(t))' \/ <<t, i>> \in stray'
    BY <1>4, <1>7, <1>9, <1>10, <2>1, <2>2 DEF Present
  <2>6. \A r \in Busy(t)' : r = s /\ st'[r].op = "drop"
    BY <1>12, <1>14 DEF Drops
  <2>7. QED
    BY <1>10, <1>14, <1>18, <2>3, <2>4, <2>5, <2>6 DEF Present
<1>20. QED
  BY <1>2, <1>4, <1>7, <1>14, <1>15, <1>17, <1>19 DEF Sound, UpOk

\* One index file goes, or all of them are gone.
LEMMA DropIndexSound ==
  ASSUME IInv, NEW s \in Sessions, DropIndex(s), spoiled' = {}
  PROVE  Sound'
<1>1. PICK t : t = st[s].t
  OBVIOUS
<1>2. up = "up" /\ st[s].at = "index" /\ st[s].op = "drop" /\ st[s].at # "idle"
  BY DEF DropIndex, At
<1>3. spoiled = {}
  BY DEF DropIndex, DropRefused, Spoil
<1>4. /\ Types /\ t \in Tables /\ \A u \in Tables : UpOk(u)
      /\ Busy(t) = {s} /\ opened[t] # 0 /\ Present(t)
      /\ st[s] \in Drops /\ Dropping(s, t)
      /\ This(s) = Entry(t) /\ st[s].g = opened[t] /\ ~Entry(t).deleted
  BY <1>1, <1>2, <1>3, Sole
<1>5. PICK e, k : e = Entry(t).indexes /\ k = st[s].k
  OBVIOUS
<1>6. /\ e \in Seq(Indexes) /\ DOMAIN e = 1 .. Len(e) /\ Len(e) \in Nat /\ k \in Nat \ {0}
      /\ \A i, j \in DOMAIN e : e[i] = e[j] => i = j
      /\ \A j \in DOMAIN e : ix[t][e[j]] = "none" <=> j < k
      /\ acked[t] = NoFile /\ data[t] = "none"
  BY <1>2, <1>4, <1>5, EntryType DEF Present, Dropping, Drops
<1>7. UNCHANGED <<meta, tmp, data, opened, acked, stray>>
  BY DEF DropIndex
<1>8. UNCHANGED <<tables, up>>
      /\ \/ k > Len(e) /\ Goto(s, "meta") /\ UNCHANGED ix
         \/ /\ ~(k > Len(e)) /\ ix[t][e[k]] # "none"
            /\ UnlinkIndex(t, e[k]) /\ st' = [st EXCEPT ![s].k = @ + 1]
  <2>1. CASE k > Len(e)
    BY <1>1, <1>4, <1>5, <2>1 DEF DropIndex
  <2>2. CASE ~(k > Len(e))
    <3>1. /\ \/ ix[t][e[k]] = "none" /\ DropRefused(s)
             \/ /\ ix[t][e[k]] # "none" /\ UnlinkIndex(t, e[k])
                /\ st' = [st EXCEPT ![s].k = @ + 1] /\ UNCHANGED <<tables, spoiled>>
          /\ UNCHANGED up
      BY <1>1, <1>4, <1>5, <2>2 DEF DropIndex
    <3>2. ~DropRefused(s)
      BY DEF DropRefused, Spoil
    <3>3. QED
      BY <2>2, <3>1, <3>2
  <2>3. QED
    BY <2>1, <2>2
<1>9. PICK x \in Drops :
        /\ st' = [st EXCEPT ![s] = x] /\ x.t = t /\ x.g = st[s].g
        /\ \/ x.at = "meta" /\ x.k = k /\ k > Len(e) /\ UNCHANGED ix
           \/ x.at = "index" /\ x.k = k + 1 /\ k \in DOMAIN e /\ UnlinkIndex(t, e[k])
  <2>1. CASE k > Len(e) /\ Goto(s, "meta") /\ UNCHANGED ix
    <3>1. PICK x : x = [st[s] EXCEPT !.at = "meta"]
      OBVIOUS
    <3>2. x \in Drops /\ x.t = t /\ x.g = st[s].g /\ x.at = "meta" /\ x.k = k
      BY <1>1, <1>4, <1>5, <3>1 DEF Drops
    <3>3. st' = [st EXCEPT ![s] = x]
      BY <2>1, <3>1 DEF Goto
    <3>4. QED
      BY <2>1, <3>2, <3>3
  <2>2. CASE ~(k > Len(e)) /\ ix[t][e[k]] # "none" /\ UnlinkIndex(t, e[k]) /\ st' = [st EXCEPT ![s].k = @ + 1]
    <3>1. PICK x : x = [st[s] EXCEPT !.k = k + 1]
      OBVIOUS
    <3>2. x \in Drops /\ x.t = t /\ x.g = st[s].g /\ x.at = "index" /\ x.k = k + 1
      BY <1>1, <1>2, <1>4, <1>5, <1>6, <3>1 DEF Drops
    <3>3. st' = [st EXCEPT ![s] = x]
      BY <1>5, <2>2, <3>1
    <3>4. k \in DOMAIN e
      BY <1>6, <2>2
    <3>5. QED
      BY <2>2, <3>2, <3>3, <3>4
  <2>3. QED
    BY <1>8, <2>1, <2>2
<1>10. /\ st' \in [Sessions -> {Idle} \cup Creates \cup Drops \cup Adds \cup Renames]
       /\ Busy(t)' = {s} /\ st'[s] = x
       /\ \A u \in Tables \ {t} : Busy(u)' = Busy(u) /\ \A r \in Busy(u) : st'[r] = st[r]
       /\ Alone(t)' /\ \A i, places : ~AddsAt(t, i, places)'
  BY <1>4, <1>9, DropMoves
<1>11. /\ ix' \in [Tables -> [Indexes -> {"none", "new", "file"}]]
       /\ \A u \in Tables \ {t} : ix'[u] = ix[u]
       /\ \A i \in Indexes : ix'[t][i] # "none" => ix[t][i] # "none"
  <2>1. CASE UNCHANGED ix
    BY <1>4, <2>1 DEF Types
  <2>2. CASE k \in DOMAIN e /\ UnlinkIndex(t, e[k])
    <3>1. PICK i \in Indexes : i = e[k]
      BY <1>6, <2>2
    <3>2. ix' = [ix EXCEPT ![t][i] = "none"]
      BY <2>2, <3>1 DEF UnlinkIndex
    <3>3. QED
      BY <1>4, <3>2 DEF Types
  <2>3. QED
    BY <1>9, <2>1, <2>2
<1>12. \A j \in DOMAIN e : ix'[t][e[j]] = "none" <=> j < x.k
  <2>1. CASE x.k = k /\ UNCHANGED ix
    BY <1>6, <2>1
  <2>2. CASE x.k = k + 1 /\ k \in DOMAIN e /\ UnlinkIndex(t, e[k])
    <3>1. \A j \in DOMAIN e : e[j] \in Indexes
      BY <1>6
    <3>2. ix'[t][e[k]] = "none"
      BY <1>4, <2>2, <3>1 DEF Types, UnlinkIndex
    <3>3. \A j \in DOMAIN e \ {k} : ix'[t][e[j]] = ix[t][e[j]]
      BY <1>4, <1>6, <2>2, <3>1 DEF Types, UnlinkIndex
    <3>4. QED
      BY <1>6, <2>2, <3>2, <3>3
  <2>3. QED
    BY <1>9, <2>1, <2>2
<1>13. Types'
  BY <1>4, <1>7, <1>8, <1>10, <1>11 DEF Types
<1>14. ASSUME NEW u \in Tables \ {t} PROVE UpOk(u)'
  BY <1>4, <1>7, <1>8, <1>10, <1>11, StaysOk DEF Untouched
<1>15. Entry(t)' = Entry(t)
  BY <1>7, <1>8 DEF Entry
<1>16. Dropping(s, t)'
  BY <1>4, <1>5, <1>6, <1>7, <1>9, <1>10, <1>12, <1>15 DEF Dropping
<1>17. Present(t)'
  <2>1. Names(Entry(t))' = Names(Entry(t))
    BY <1>15 DEF Names
  <2>2. \A i, places : AddsAt(t, i, places) = FALSE
    BY <1>2, <1>4 DEF AddsAt
  <2>3. /\ ~Entry(t)'.deleted /\ meta'[t] = Json(Entry(t)'.listed) /\ acked'[t] = NoFile
        /\ opened'[t] \in DOMAIN tables'[t]
    BY <1>4, <1>6, <1>7, <1>8, <1>15 DEF Present
  <2>4. /\ \A i, j \in DOMAIN Entry(t)'.indexes : Entry(t)'.indexes[i] = Entry(t)'.indexes[j] => i = j
        /\ Entry(t)'.listed \subseteq Names(Entry(t))'
    BY <1>4, <1>15, <2>1 DEF Present
  <2>5. /\ \A i \in Names(Entry(t))' \ Entry(t)'.listed : <<t, i>> \in stray'
        /\ \A i \in Indexes : ix'[t][i] # "none" => i \in Names(Entry(t))' \/ <<t, i>> \in stray'
    BY <1>4, <1>7, <1>11, <1>15, <2>1, <2>2 DEF Present
  <2>6. \A r \in Busy(t)' : r = s /\ st'[r].op = "drop"
    BY <1>9, <1>10 DEF Drops
  <2>7. QED
    BY <1>10, <1>16, <2>3, <2>4, <2>5, <2>6 DEF Present
<1>18. QED
  BY <1>2, <1>4, <1>7, <1>8, <1>10, <1>13, <1>14, <1>17 DEF Sound, UpOk

\* The meta file goes and the name leaves the map: no file is left.
LEMMA DropMetaSound ==
  ASSUME IInv, NEW s \in Sessions, DropMeta(s), spoiled' = {}
  PROVE  Sound'
<1>1. PICK t : t = st[s].t
  OBVIOUS
<1>2. up = "up" /\ st[s].at = "meta" /\ st[s].op = "drop" /\ st[s].at # "idle"
  BY DEF DropMeta, At
<1>3. spoiled = {}
  BY DEF DropMeta, DropRefused, Spoil
<1>4. /\ Types /\ t \in Tables /\ \A u \in Tables : UpOk(u)
      /\ Busy(t) = {s} /\ opened[t] # 0 /\ Present(t)
      /\ st[s] \in Drops /\ Dropping(s, t)
      /\ This(s) = Entry(t) /\ st[s].g = opened[t] /\ ~Entry(t).deleted
  BY <1>1, <1>2, <1>3, Sole
<1>5. PICK e, k : e = Entry(t).indexes /\ k = st[s].k
  OBVIOUS
<1>6. /\ e \in Seq(Indexes) /\ DOMAIN e = 1 .. Len(e) /\ Len(e) \in Nat /\ k \in Nat
      /\ k > Len(e)
      /\ \A j \in DOMAIN e : ix[t][e[j]] = "none" <=> j < k
      /\ acked[t] = NoFile /\ data[t] = "none"
  BY <1>2, <1>4, <1>5, EntryType DEF Present, Dropping, Drops
<1>7. meta[t] # NoFile
  BY <1>4, EntryType, FileKinds DEF Present
<1>8. /\ meta' = [meta EXCEPT ![t] = NoFile]
      /\ opened' = [opened EXCEPT ![t] = 0]
      /\ End(s)
      /\ UNCHANGED <<tables, up, tmp, data, ix, acked, stray>>
  BY <1>1, <1>7 DEF DropMeta, Erase
<1>9. /\ Busy(t)' = {}
      /\ \A u \in Tables \ {t} : Busy(u)' = Busy(u) /\ \A r \in Busy(u) : st'[r] = st[r]
  BY <1>4, <1>8, Ends
<1>10. /\ meta'[t] = NoFile /\ opened'[t] = 0
       /\ \A u \in Tables \ {t} : meta'[u] = meta[u] /\ opened'[u] = opened[u]
  BY <1>4, <1>8 DEF Types
<1>11. Types'
  <2>1. st' \in [Sessions -> {Idle} \cup Creates \cup Drops \cup Adds \cup Renames]
    BY <1>4, <1>8 DEF Types, End
  <2>2. QED
    BY <1>4, <1>8, <2>1, FileKinds DEF Types
<1>12. ASSUME NEW u \in Tables \ {t} PROVE UpOk(u)'
  BY <1>4, <1>8, <1>9, <1>10, StaysOk DEF Untouched
<1>13. ASSUME NEW i \in Indexes, ix[t][i] # "none" PROVE <<t, i>> \in stray
  <2>1. ~AddsAt(t, i, {"fill"})
    BY <1>2, <1>4 DEF AddsAt
  <2>2. i \notin Names(Entry(t))
    <3>1. SUFFICES ASSUME NEW j \in DOMAIN e, i = e[j] PROVE FALSE
      BY <1>5 DEF Names
    <3>2. j < k
      BY <1>6
    <3>3. QED
      BY <1>6, <1>13, <3>1, <3>2
  <2>3. QED
    BY <1>4, <1>13, <2>1, <2>2 DEF Present
<1>14. Absent(t)' /\ Alone(t)'
  BY <1>6, <1>8, <1>9, <1>10, <1>13 DEF Absent, Alone
<1>15. QED
  BY <1>2, <1>8, <1>10, <1>11, <1>12, <1>14 DEF Sound, UpOk

-----------------------------------------------------------------------------
(* CREATE INDEX *)

\* The state in which CREATE INDEX takes a step.
LEMMA AddState ==
  ASSUME IInv, spoiled = {}, up = "up", NEW s \in Sessions, st[s].at # "idle",
         NEW t, t = st[s].t, st[s].op = "index", NEW i, i = st[s].i
  PROVE  /\ Types /\ t \in Tables /\ \A u \in Tables : UpOk(u)
         /\ Busy(t) = {s} /\ opened[t] # 0 /\ Present(t) /\ Whole(t)
         /\ (st[s].at # "rename" /\ st[s] \in Adds) \/ (st[s].at = "rename" /\ st[s] \in Renames)
         /\ Adding(s, t) /\ i \in Indexes
         /\ This(s) = Entry(t) /\ st[s].g = opened[t] /\ ~Entry(t).deleted
<1>1. /\ Types /\ t \in Tables /\ \A u \in Tables : UpOk(u)
      /\ Busy(t) = {s} /\ opened[t] # 0 /\ Present(t) /\ Adding(s, t)
      /\ This(s) = Entry(t) /\ st[s].g = opened[t] /\ ~Entry(t).deleted
  BY Sole
<1>2. (st[s].at # "rename" /\ st[s] \in Adds) \/ (st[s].at = "rename" /\ st[s] \in Renames)
  BY <1>1, Statements
<1>3. i \in Indexes
  BY <1>2 DEF Adds, Renames
<1>4. Whole(t)
  BY <1>1 DEF Present
<1>5. QED
  BY <1>1, <1>2, <1>3, <1>4

\* CREATE INDEX goes on with the statement x.
LEMMA AddMoves ==
  ASSUME Types, NEW s \in Sessions, NEW t \in Tables, Busy(t) = {s}, NEW x \in Adds \cup Renames,
         x.t = t, st' = [st EXCEPT ![s] = x]
  PROVE  /\ st' \in [Sessions -> {Idle} \cup Creates \cup Drops \cup Adds \cup Renames]
         /\ Busy(t)' = {s} /\ st'[s] = x /\ x.op = "index"
         /\ \A u \in Tables \ {t} : Busy(u)' = Busy(u) /\ \A r \in Busy(u) : st'[r] = st[r]
         /\ Alone(t)'
<1>1. x # Idle /\ x.op = "index"
  BY DEF Adds, Renames, Idle
<1>2. /\ Busy(t)' = {s} /\ st'[s] = x
      /\ \A u \in Tables \ {t} : Busy(u)' = Busy(u) /\ \A r \in Busy(u) : st'[r] = st[r]
  BY <1>1, Moves
<1>3. st' \in [Sessions -> {Idle} \cup Creates \cup Drops \cup Adds \cup Renames]
  BY DEF Types
<1>4. Alone(t)'
  BY <1>1, <1>2 DEF Alone
<1>5. QED
  BY <1>1, <1>2, <1>3, <1>4

\* The only statement on t ends.
LEMMA SoleEnds ==
  ASSUME Types, NEW s \in Sessions, NEW t \in Tables, Busy(t) = {s}, End(s)
  PROVE  /\ st' \in [Sessions -> {Idle} \cup Creates \cup Drops \cup Adds \cup Renames]
         /\ Busy(t)' = {} /\ Alone(t)'
         /\ \A u \in Tables \ {t} : Busy(u)' = Busy(u) /\ \A r \in Busy(u) : st'[r] = st[r]
<1>1. /\ Busy(t)' = {}
      /\ \A u \in Tables \ {t} : Busy(u)' = Busy(u) /\ \A r \in Busy(u) : st'[r] = st[r]
  BY Ends
<1>2. st' \in [Sessions -> {Idle} \cup Creates \cup Drops \cup Adds \cup Renames]
  BY DEF Types, End
<1>3. QED
  BY <1>1, <1>2 DEF Alone

\* The Table keeps its indexes, and CREATE INDEX has ended or is at a place
\* where its file is not among them.
LEMMA SameTable ==
  ASSUME Types, NEW t \in Tables, Present(t), Entry(t)' = Entry(t), Whole(t)',
         UNCHANGED <<meta, opened, acked, tables>>,
         \A r \in Busy(t)' : st'[r].op = "index" /\ Adding(r, t)',
         \A i \in Names(Entry(t)) \ Entry(t).listed :
           <<t, i>> \in stray' \/ AddsAt(t, i, {"tmp", "rename"})',
         \A i \in Indexes : ix'[t][i] # "none" =>
           i \in Names(Entry(t)) \/ <<t, i>> \in stray' \/ AddsAt(t, i, {"fill"})'
  PROVE  Present(t)'
<1>1. Names(Entry(t))' = Names(Entry(t))
  BY DEF Names
<1>2. /\ opened'[t] \in DOMAIN tables'[t] /\ ~Entry(t)'.deleted
      /\ meta'[t] = Json(Entry(t)'.listed)
      /\ acked'[t] = NoFile \/ acked'[t] = meta'[t]
      /\ \A j, k \in DOMAIN Entry(t)'.indexes : Entry(t)'.indexes[j] = Entry(t)'.indexes[k] => j = k
      /\ Entry(t)'.listed \subseteq Names(Entry(t))'
  BY <1>1 DEF Present
<1>3. QED
  BY <1>1, <1>2 DEF Present

\* The index file is made, unless the index exists.
LEMMA CreateIndexFileSound ==
  ASSUME IInv, NEW s \in Sessions, CreateIndexFile(s), spoiled' = {}
  PROVE  Sound'
<1>1. PICK t, i : t = st[s].t /\ i = st[s].i
  OBVIOUS
<1>2. up = "up" /\ st[s].at = "file" /\ st[s].op = "index" /\ st[s].at # "idle"
  BY DEF CreateIndexFile, At
<1>3. spoiled = {}
  BY DEF CreateIndexFile, history
<1>4. /\ Types /\ t \in Tables /\ \A u \in Tables : UpOk(u)
      /\ Busy(t) = {s} /\ opened[t] # 0 /\ Present(t) /\ Whole(t)
      /\ st[s] \in Adds /\ i \in Indexes
      /\ This(s) = Entry(t) /\ st[s].g = opened[t] /\ ~Entry(t).deleted
  BY <1>1, <1>2, <1>3, AddState
<1>0. /\ \A j : AddsAt(t, j, {"tmp", "rename"}) <=> j = i /\ st[s].at \in {"tmp", "rename"}
      /\ \A j : AddsAt(t, j, {"fill"}) <=> j = i /\ st[s].at = "fill"
  BY <1>1, <1>2, <1>4 DEF AddsAt
<1>5. UNCHANGED <<meta, tmp, data, tables, opened, acked, stray, up>>
  BY <1>4 DEF CreateIndexFile, memory, history
<1>6. Entry(t)' = Entry(t)
  BY <1>5 DEF Entry
<1>7. \A j \in Names(Entry(t)) \ Entry(t).listed : <<t, j>> \in stray
  BY <1>0, <1>2, <1>4 DEF Present
<1>8. CASE End(s) /\ UNCHANGED ix
  <2>1. /\ st' \in [Sessions -> {Idle} \cup Creates \cup Drops \cup Adds \cup Renames]
        /\ Busy(t)' = {} /\ Alone(t)'
        /\ \A u \in Tables \ {t} : Busy(u)' = Busy(u) /\ \A r \in Busy(u) : st'[r] = st[r]
    BY <1>4, <1>8, SoleEnds
  <2>2. Types'
    BY <1>4, <1>5, <1>8, <2>1 DEF Types
  <2>3. ASSUME NEW u \in Tables \ {t} PROVE UpOk(u)'
    BY <1>4, <1>5, <1>8, <2>1, StaysOk DEF Untouched
  <2>4. Whole(t)'
    BY <1>4, <1>5, <1>6, <1>8 DEF Whole
  <2>5. \A j \in Indexes : ix'[t][j] # "none" => j \in Names(Entry(t)) \/ <<t, j>> \in stray'
    BY <1>0, <1>2, <1>4, <1>5, <1>8 DEF Present
  <2>6. Present(t)'
    BY <1>4, <1>5, <1>6, <1>7, <2>1, <2>4, <2>5, SameTable
  <2>7. QED
    BY <1>2, <1>4, <1>5, <2>1, <2>2, <2>3, <2>6 DEF Sound, UpOk
<1>9. CASE ix[t][i] = "none" /\ ix' = [ix EXCEPT ![t][i] = "new"] /\ Goto(s, "fill")
  <2>1. PICK x : x = [st[s] EXCEPT !.at = "fill"]
    OBVIOUS
  <2>2. x \in Adds /\ x.t = t /\ x.i = i /\ x.g = opened[t] /\ x.at = "fill"
    BY <1>1, <1>4, <2>1 DEF Adds
  <2>3. st' = [st EXCEPT ![s] = x]
    BY <1>9, <2>1 DEF Goto
  <2>4. /\ st' \in [Sessions -> {Idle} \cup Creates \cup Drops \cup Adds \cup Renames]
        /\ Busy(t)' = {s} /\ st'[s] = x /\ x.op = "index" /\ Alone(t)'
        /\ \A u \in Tables \ {t} : Busy(u)' = Busy(u) /\ \A r \in Busy(u) : st'[r] = st[r]
    BY <1>4, <2>2, <2>3, AddMoves
  <2>0. AddsAt(t, i, {"fill"})'
    BY <2>2, <2>4 DEF AddsAt
  <2>5. /\ ix' \in [Tables -> [Indexes -> {"none", "new", "file"}]]
        /\ ix'[t][i] = "new" /\ \A j \in Indexes \ {i} : ix'[t][j] = ix[t][j]
        /\ \A u \in Tables \ {t} : ix'[u] = ix[u]
    BY <1>4, <1>9 DEF Types
  <2>6. Types'
    BY <1>4, <1>5, <2>4, <2>5 DEF Types
  <2>7. ASSUME NEW u \in Tables \ {t} PROVE UpOk(u)'
    BY <1>4, <1>5, <2>4, <2>5, StaysOk DEF Untouched
  <2>8. i \notin Names(Entry(t))
    BY <1>4, <1>9 DEF Whole, Names
  <2>9. Names(Entry(t)) \subseteq Indexes
    BY <1>4, EntryType
  <2>10. \A k \in DOMAIN Entry(t).indexes : Entry(t).indexes[k] \in Indexes \ {i}
    BY <2>8, <2>9 DEF Names
  <2>11. Whole(t)'
    BY <1>4, <1>5, <1>6, <2>5, <2>10 DEF Whole
  <2>12. Names(Entry(t))' = Names(Entry(t))
    BY <1>6 DEF Names
  <2>13. Adding(s, t)'
    BY <1>5, <2>2, <2>4, <2>5, <2>8, <2>12 DEF Adding
  <2>14. \A j \in Indexes : ix'[t][j] # "none" =>
           j \in Names(Entry(t)) \/ <<t, j>> \in stray' \/ AddsAt(t, j, {"fill"})'
    <3>1. \A j \in Indexes \ {i} : ix[t][j] # "none" => j \in Names(Entry(t)) \/ <<t, j>> \in stray
      BY <1>0, <1>2, <1>4 DEF Present
    <3>2. QED
      BY <1>5, <2>0, <2>5, <3>1
  <2>15. Present(t)'
    BY <1>4, <1>5, <1>6, <1>7, <2>4, <2>11, <2>13, <2>14, SameTable
  <2>16. QED
    BY <1>2, <1>4, <1>5, <2>4, <2>6, <2>7, <2>15 DEF Sound, UpOk
<1>10. QED
  BY <1>1, <1>4, <1>8, <1>9 DEF CreateIndexFile

\* The records go into the index, or the index file is dropped.
LEMMA FillIndexSound ==
  ASSUME IInv, NEW s \in Sessions, FillIndex(s), spoiled' = {}
  PROVE  Sound'
<1>1. PICK t, i : t = st[s].t /\ i = st[s].i
  OBVIOUS
<1>2. up = "up" /\ st[s].at = "fill" /\ st[s].op = "index" /\ st[s].at # "idle"
  BY DEF FillIndex, At
<1>3. spoiled = {}
  BY DEF FillIndex, history
<1>4. /\ Types /\ t \in Tables /\ \A u \in Tables : UpOk(u)
      /\ Busy(t) = {s} /\ opened[t] # 0 /\ Present(t) /\ Whole(t)
      /\ st[s] \in Adds /\ Adding(s, t) /\ i \in Indexes
      /\ This(s) = Entry(t) /\ st[s].g = opened[t] /\ ~Entry(t).deleted
  BY <1>1, <1>2, <1>3, AddState
<1>0. /\ \A j : AddsAt(t, j, {"tmp", "rename"}) <=> j = i /\ st[s].at \in {"tmp", "rename"}
      /\ \A j : AddsAt(t, j, {"fill"}) <=> j = i /\ st[s].at = "fill"
  BY <1>1, <1>2, <1>4 DEF AddsAt
<1>5. UNCHANGED <<meta, tmp, data, opened, acked, stray, up>>
  BY <1>4 DEF FillIndex, history
<1>6. i \notin Names(Entry(t)) /\ ix[t][i] # "none" /\ Names(Entry(t)) \subseteq Indexes
  BY <1>1, <1>2, <1>4, EntryType DEF Adding
<1>7. \A j \in Names(Entry(t)) \ Entry(t).listed : <<t, j>> \in stray
  BY <1>0, <1>2, <1>4 DEF Present
<1>8. \A j \in Indexes \ {i} : ix[t][j] # "none" => j \in Names(Entry(t)) \/ <<t, j>> \in stray
  BY <1>0, <1>2, <1>4 DEF Present
<1>9. CASE ix' = [ix EXCEPT ![t][i] = "none"] /\ End(s) /\ UNCHANGED tables
  <2>1. /\ st' \in [Sessions -> {Idle} \cup Creates \cup Drops \cup Adds \cup Renames]
        /\ Busy(t)' = {} /\ Alone(t)'
        /\ \A u \in Tables \ {t} : Busy(u)' = Busy(u) /\ \A r \in Busy(u) : st'[r] = st[r]
    BY <1>4, <1>9, SoleEnds
  <2>2. /\ ix' \in [Tables -> [Indexes -> {"none", "new", "file"}]]
        /\ ix'[t][i] = "none" /\ \A j \in Indexes \ {i} : ix'[t][j] = ix[t][j]
        /\ \A u \in Tables \ {t} : ix'[u] = ix[u]
    BY <1>4, <1>9 DEF Types
  <2>3. Types'
    BY <1>4, <1>5, <1>9, <2>1, <2>2 DEF Types
  <2>4. ASSUME NEW u \in Tables \ {t} PROVE UpOk(u)'
    BY <1>4, <1>5, <1>9, <2>1, <2>2, StaysOk DEF Untouched
  <2>5. Entry(t)' = Entry(t)
    BY <1>5, <1>9 DEF Entry
  <2>6. \A k \in DOMAIN Entry(t).indexes : Entry(t).indexes[k] \in Indexes \ {i}
    BY <1>6 DEF Names
  <2>7. Whole(t)'
    BY <1>4, <1>5, <2>2, <2>5, <2>6 DEF Whole
  <2>8. \A j \in Indexes : ix'[t][j] # "none" => j \in Names(Entry(t)) \/ <<t, j>> \in stray'
    BY <1>5, <1>8, <2>2
  <2>9. Present(t)'
    BY <1>4, <1>5, <1>7, <1>9, <2>1, <2>5, <2>7, <2>8, SameTable
  <2>10. QED
    BY <1>2, <1>4, <1>5, <2>1, <2>3, <2>4, <2>9 DEF Sound, UpOk
<1>10. CASE /\ Alter(s, [Entry(t) EXCEPT !.indexes = Append(@, i)])
            /\ Goto(s, "tmp") /\ UNCHANGED ix
  <2>1. PICK x : x = [st[s] EXCEPT !.at = "tmp"]
    OBVIOUS
  <2>2. x \in Adds /\ x.t = t /\ x.i = i /\ x.g = opened[t] /\ x.at = "tmp"
    BY <1>1, <1>4, <2>1 DEF Adds
  <2>3. st' = [st EXCEPT ![s] = x]
    BY <1>10, <2>1 DEF Goto
  <2>4. /\ st' \in [Sessions -> {Idle} \cup Creates \cup Drops \cup Adds \cup Renames]
        /\ Busy(t)' = {s} /\ st'[s] = x /\ x.op = "index" /\ Alone(t)'
        /\ \A u \in Tables \ {t} : Busy(u)' = Busy(u) /\ \A r \in Busy(u) : st'[r] = st[r]
    BY <1>4, <2>2, <2>3, AddMoves
  <2>0. AddsAt(t, i, {"tmp", "rename"})'
    BY <2>2, <2>4 DEF AddsAt
  <2>5. PICK e : e = Entry(t).indexes
    OBVIOUS
  <2>6. e \in Seq(Indexes) /\ DOMAIN e = 1 .. Len(e) /\ Len(e) \in Nat /\ Entry(t) \in Objects
    BY <1>4, <2>5, EntryType
  <2>7. PICK o : o = [Entry(t) EXCEPT !.indexes = Append(e, i)]
    OBVIOUS
  <2>8. /\ o \in Objects /\ o.indexes = Append(e, i) /\ o.listed = Entry(t).listed
        /\ o.open = Entry(t).open /\ o.deleted = Entry(t).deleted
    <3>0. i \in Indexes /\ e \in Seq(Indexes)
      BY <1>4, <2>6
    <3>1. PICK q \in Seq(Indexes) : q = Append(e, i)
      BY <3>0, AppendProperties
    <3>2. o = [Entry(t) EXCEPT !.indexes = q]
      BY <2>7, <3>1
    <3>3. QED
      BY <2>6, <3>1, <3>2 DEF Objects
  <2>9. /\ tables' \in [Tables -> Seq(Objects)]
        /\ Entry(t)' = o /\ opened'[t] \in DOMAIN tables'[t]
        /\ \A u \in Tables \ {t} : tables'[u] = tables[u]
    BY <1>1, <1>4, <1>5, <1>10, <2>5, <2>7, <2>8, Altered
  <2>10. /\ DOMAIN Append(e, i) = 1 .. Len(e) + 1 /\ Append(e, i)[Len(e) + 1] = i
         /\ \A k \in 1 .. Len(e) : Append(e, i)[k] = e[k]
    BY <1>4, <2>6
  <2>11. \A k \in 1 .. Len(e) : e[k] \in Names(Entry(t)) /\ e[k] # i
    BY <1>6, <2>5, <2>6 DEF Names
  <2>12. Names(o) = Names(Entry(t)) \cup {i}
    <3>1. ASSUME NEW j \in Names(o) PROVE j \in Names(Entry(t)) \cup {i}
      <4>1. PICK k \in 1 .. Len(e) + 1 : j = Append(e, i)[k]
        BY <2>8, <2>10 DEF Names
      <4>2. k \in 1 .. Len(e) \/ k = Len(e) + 1
        BY <2>6
      <4>3. QED
        BY <2>10, <2>11, <4>1, <4>2
    <3>2. ASSUME NEW j \in Names(Entry(t)) PROVE j \in Names(o)
      <4>1. PICK k \in 1 .. Len(e) : j = e[k]
        BY <2>5, <2>6 DEF Names
      <4>2. k \in DOMAIN o.indexes /\ o.indexes[k] = j
        BY <2>6, <2>8, <2>10, <4>1
      <4>3. QED
        BY <4>2 DEF Names
    <3>3. i \in Names(o)
      BY <2>6, <2>8, <2>10 DEF Names
    <3>4. QED
      BY <3>1, <3>2, <3>3
  <2>13. \A j, k \in DOMAIN o.indexes : o.indexes[j] = o.indexes[k] => j = k
    <3>1. \A j, k \in 1 .. Len(e) : e[j] = e[k] => j = k
      BY <1>4, <2>5, <2>6 DEF Present
    <3>2. \A k \in 1 .. Len(e) + 1 : k \in 1 .. Len(e) \/ k = Len(e) + 1
      BY <2>6
    <3>3. QED
      BY <2>8, <2>10, <2>11, <3>1, <3>2
  <2>14. Types'
    BY <1>4, <1>5, <1>10, <2>4, <2>9 DEF Types
  <2>15. ASSUME NEW u \in Tables \ {t} PROVE UpOk(u)'
    BY <1>4, <1>5, <1>10, <2>4, <2>9, StaysOk DEF Untouched
  <2>16. Whole(t)'
    <3>1. \A j \in Names(Entry(t)) \cup {i} : ix[t][j] # "none"
      BY <1>4, <1>6 DEF Whole, Names
    <3>2. \A k \in DOMAIN o.indexes : o.indexes[k] \in Names(o)
      BY DEF Names
    <3>3. QED
      BY <1>4, <1>5, <1>10, <2>8, <2>9, <2>12, <3>1, <3>2 DEF Whole
  <2>17. Names(Entry(t))' = Names(Entry(t)) \cup {i}
    BY <2>9, <2>12 DEF Names
  <2>18. Adding(s, t)'
    <3>1. i \notin Entry(t)'.listed
      BY <1>4, <1>6, <2>8, <2>9 DEF Present
    <3>2. QED
      BY <1>5, <2>2, <2>4, <2>17, <3>1 DEF Adding
  <2>19. Present(t)'
    <3>1. /\ ~Entry(t)'.deleted /\ meta'[t] = Json(Entry(t)'.listed)
          /\ acked'[t] = NoFile \/ acked'[t] = meta'[t]
          /\ Entry(t)'.listed \subseteq Names(Entry(t))'
      BY <1>4, <1>5, <2>8, <2>9, <2>17 DEF Present
    <3>2. \A j, k \in DOMAIN Entry(t)'.indexes : Entry(t)'.indexes[j] = Entry(t)'.indexes[k] => j = k
      BY <2>9, <2>13
    <3>3. \A j \in Names(Entry(t))' \ Entry(t)'.listed :
            <<t, j>> \in stray' \/ AddsAt(t, j, {"tmp", "rename"})'
      BY <1>5, <1>7, <2>0, <2>8, <2>9, <2>17
    <3>4. \A j \in Indexes : ix'[t][j] # "none" => j \in Names(Entry(t))' \/ <<t, j>> \in stray'
      BY <1>5, <1>8, <1>10, <2>17
    <3>5. QED
      BY <2>2, <2>4, <2>9, <2>16, <2>18, <3>1, <3>2, <3>3, <3>4 DEF Present
  <2>20. QED
    BY <1>2, <1>4, <1>5, <2>4, <2>14, <2>15, <2>19 DEF Sound, UpOk
<1>11. QED
  BY <1>1, <1>4, <1>9, <1>10 DEF FillIndex

\* The meta data with the new index go to the temporary file.
LEMMA WriteTmpSound ==
  ASSUME IInv, NEW s \in Sessions, WriteTmp(s), spoiled' = {}
  PROVE  Sound'
<1>1. PICK t, i : t = st[s].t /\ i = st[s].i
  OBVIOUS
<1>2. up = "up" /\ st[s].at = "tmp" /\ st[s].op = "index" /\ st[s].at # "idle"
  BY DEF WriteTmp, At
<1>3. spoiled = {}
  BY DEF WriteTmp, history
<1>4. /\ Types /\ t \in Tables /\ \A u \in Tables : UpOk(u)
      /\ Busy(t) = {s} /\ opened[t] # 0 /\ Present(t) /\ Whole(t)
      /\ st[s] \in Adds /\ Adding(s, t) /\ i \in Indexes
      /\ This(s) = Entry(t) /\ st[s].g = opened[t] /\ ~Entry(t).deleted
  BY <1>1, <1>2, <1>3, AddState
<1>5. PICK copy : copy = Entry(t).listed \cup {i}
  OBVIOUS
<1>6. copy \in SUBSET Indexes
  BY <1>4, <1>5, EntryType
<1>7. PICK x : x = [op |-> "index", at |-> "rename", t |-> t, g |-> opened[t], i |-> i, copy |-> copy]
  OBVIOUS
<1>8. /\ tmp' = [tmp EXCEPT ![t] = Json(copy)] /\ st' = [st EXCEPT ![s] = x]
      /\ UNCHANGED <<meta, data, ix, tables, opened, acked, stray, up>>
  BY <1>1, <1>4, <1>5, <1>7 DEF WriteTmp, WriteNew, memory, history
<1>9. /\ x \in Renames /\ x.t = t /\ x.i = i /\ x.g = opened[t] /\ x.at = "rename" /\ x.copy = copy
  <2>1. opened[t] \in Nat
    BY <1>4 DEF Types
  <2>2. QED
    BY <1>4, <1>6, <1>7, <2>1 DEF Renames
<1>10. /\ st' \in [Sessions -> {Idle} \cup Creates \cup Drops \cup Adds \cup Renames]
       /\ Busy(t)' = {s} /\ st'[s] = x /\ x.op = "index" /\ Alone(t)'
       /\ \A u \in Tables \ {t} : Busy(u)' = Busy(u) /\ \A r \in Busy(u) : st'[r] = st[r]
  BY <1>4, <1>8, <1>9, AddMoves
<1>11. /\ tmp' \in [Tables -> MetaFile] /\ tmp'[t] = Json(copy)
       /\ \A u \in Tables \ {t} : tmp'[u] = tmp[u]
  BY <1>4, <1>6, <1>8, FileKinds DEF Types
<1>12. Types'
  BY <1>4, <1>8, <1>10, <1>11 DEF Types
<1>13. ASSUME NEW u \in Tables \ {t} PROVE UpOk(u)'
  BY <1>4, <1>8, <1>10, <1>11, StaysOk DEF Untouched
<1>14. Entry(t)' = Entry(t) /\ Names(Entry(t))' = Names(Entry(t)) /\ i \in Names(Entry(t)) \ Entry(t).listed
  BY <1>1, <1>2, <1>4, <1>8 DEF Entry, Names, Adding
<1>15. Whole(t)'
  BY <1>4, <1>8, <1>14 DEF Whole
<1>16. Adding(s, t)'
  BY <1>5, <1>8, <1>9, <1>10, <1>11, <1>14 DEF Adding
<1>17. AddsAt(t, i, {"tmp", "rename"})'
  BY <1>9, <1>10 DEF AddsAt
<1>18. \A j \in Names(Entry(t)) \ Entry(t).listed :
         <<t, j>> \in stray' \/ AddsAt(t, j, {"tmp", "rename"})'
  <2>1. \A j : AddsAt(t, j, {"tmp", "rename"}) => j = i
    BY <1>1, <1>4 DEF AddsAt
  <2>2. QED
    BY <1>4, <1>8, <1>17, <2>1 DEF Present
<1>19. \A j \in Indexes : ix'[t][j] # "none" => j \in Names(Entry(t)) \/ <<t, j>> \in stray'
  <2>1. \A j : ~AddsAt(t, j, {"fill"})
    BY <1>2, <1>4 DEF AddsAt
  <2>2. QED
    BY <1>4, <1>8, <2>1 DEF Present
<1>20. Present(t)'
  BY <1>4, <1>8, <1>10, <1>14, <1>15, <1>16, <1>18, <1>19, SameTable
<1>21. QED
  BY <1>2, <1>4, <1>8, <1>10, <1>12, <1>13, <1>20 DEF Sound, UpOk

\* The temporary file becomes the meta file, and the client is told so.
LEMMA RenameSound ==
  ASSUME IInv, NEW s \in Sessions, Rename(s), spoiled' = {}
  PROVE  Sound'
<1>1. PICK t, i : t = st[s].t /\ i = st[s].i
  OBVIOUS
<1>2. up = "up" /\ st[s].at = "rename" /\ st[s].op = "index" /\ st[s].at # "idle"
  BY DEF Rename, At
<1>3. spoiled = {}
  BY DEF Rename
<1>4. /\ Types /\ t \in Tables /\ \A u \in Tables : UpOk(u)
      /\ Busy(t) = {s} /\ opened[t] # 0 /\ Present(t) /\ Whole(t)
      /\ Adding(s, t) /\ i \in Indexes
      /\ This(s) = Entry(t) /\ st[s].g = opened[t] /\ ~Entry(t).deleted
  BY <1>1, <1>2, <1>3, AddState
<1>5. PICK copy : copy = st[s].copy
  OBVIOUS
<1>6. /\ tmp[t] = Json(copy) /\ copy = Entry(t).listed \cup {i} /\ i \in Names(Entry(t))
  BY <1>1, <1>2, <1>4, <1>5 DEF Adding
<1>7. copy \in SUBSET Indexes /\ Entry(t).listed \subseteq Indexes
  BY <1>4, <1>6, EntryType
<1>8. tmp[t] # NoFile
  BY <1>6, <1>7, FileKinds
<1>9. /\ meta' = [meta EXCEPT ![t] = Json(copy)]
      /\ tmp' = [tmp EXCEPT ![t] = NoFile]
      /\ Alter(s, [Entry(t) EXCEPT !.listed = copy])
      /\ acked' = IF acked[t] = NoFile THEN acked ELSE [acked EXCEPT ![t].indexes = @ \cup {i}]
      /\ End(s)
      /\ UNCHANGED <<data, ix, opened, stray, up>>
  BY <1>1, <1>4, <1>5, <1>6, <1>8 DEF Rename
<1>10. /\ st' \in [Sessions -> {Idle} \cup Creates \cup Drops \cup Adds \cup Renames]
       /\ Busy(t)' = {} /\ Alone(t)'
       /\ \A u \in Tables \ {t} : Busy(u)' = Busy(u) /\ \A r \in Busy(u) : st'[r] = st[r]
  BY <1>4, <1>9, SoleEnds
<1>11. PICK o : o = [Entry(t) EXCEPT !.listed = copy]
  OBVIOUS
<1>12. /\ o \in Objects /\ o.indexes = Entry(t).indexes /\ o.listed = copy
       /\ o.open = Entry(t).open /\ o.deleted = Entry(t).deleted
  <2>1. Entry(t) \in Objects
    BY <1>4, EntryType
  <2>2. QED
    BY <1>7, <1>11, <2>1 DEF Objects
<1>13. /\ tables' \in [Tables -> Seq(Objects)]
       /\ Entry(t)' = o /\ opened'[t] \in DOMAIN tables'[t]
       /\ \A u \in Tables \ {t} : tables'[u] = tables[u]
  BY <1>1, <1>4, <1>9, <1>11, <1>12, Altered
<1>14. /\ meta' \in [Tables -> MetaFile] /\ meta'[t] = Json(copy)
       /\ tmp' \in [Tables -> MetaFile]
       /\ \A u \in Tables \ {t} : meta'[u] = meta[u] /\ tmp'[u] = tmp[u]
  BY <1>4, <1>7, <1>9, FileKinds DEF Types
<1>15. /\ acked' \in [Tables -> MetaFile]
       /\ acked'[t] = NoFile \/ acked'[t] = Json(copy)
       /\ \A u \in Tables \ {t} : acked'[u] = acked[u]
  <2>1. CASE acked[t] = NoFile
    BY <1>4, <1>9, <2>1 DEF Types
  <2>2. CASE acked[t] # NoFile
    <3>1. acked[t] = Json(Entry(t).listed)
      BY <1>4, <2>2 DEF Present
    <3>2. acked' = [acked EXCEPT ![t] = [acked[t] EXCEPT !.indexes = acked[t].indexes \cup {i}]]
      BY <1>9, <2>2
    <3>3. [acked[t] EXCEPT !.indexes = acked[t].indexes \cup {i}] = Json(copy)
      BY <1>6, <3>1 DEF Json
    <3>4. QED
      BY <1>4, <1>7, <3>2, <3>3, FileKinds DEF Types
  <2>3. QED
    BY <2>1, <2>2
<1>16. Types'
  BY <1>4, <1>9, <1>10, <1>13, <1>14, <1>15 DEF Types
<1>17. ASSUME NEW u \in Tables \ {t} PROVE UpOk(u)'
  BY <1>4, <1>9, <1>10, <1>13, <1>14, <1>15, StaysOk DEF Untouched
<1>18. Names(Entry(t))' = Names(Entry(t))
  BY <1>12, <1>13 DEF Names
<1>19. Whole(t)'
  BY <1>4, <1>9, <1>12, <1>13 DEF Whole
<1>20. Present(t)'
  <2>1. /\ ~Entry(t)'.deleted /\ meta'[t] = Json(Entry(t)'.listed)
        /\ acked'[t] = NoFile \/ acked'[t] = meta'[t]
        /\ Entry(t)'.listed \subseteq Names(Entry(t))'
    BY <1>4, <1>6, <1>12, <1>13, <1>14, <1>15, <1>18 DEF Present
  <2>2. \A j, k \in DOMAIN Entry(t)'.indexes : Entry(t)'.indexes[j] = Entry(t)'.indexes[k] => j = k
    BY <1>4, <1>12, <1>13 DEF Present
  <2>3. \A j : (AddsAt(t, j, {"tmp", "rename"}) => j = i) /\ ~AddsAt(t, j, {"fill"})
    BY <1>1, <1>2, <1>4 DEF AddsAt
  <2>4. \A j \in Names(Entry(t))' \ Entry(t)'.listed : <<t, j>> \in stray'
    BY <1>4, <1>6, <1>9, <1>12, <1>13, <1>18, <2>3 DEF Present
  <2>5. \A j \in Indexes : ix'[t][j] # "none" => j \in Names(Entry(t))' \/ <<t, j>> \in stray'
    BY <1>4, <1>9, <1>18, <2>3 DEF Present
  <2>6. QED
    BY <1>10, <1>13, <1>19, <2>1, <2>2, <2>4, <2>5 DEF Present
<1>21. QED
  BY <1>2, <1>4, <1>9, <1>10, <1>16, <1>17, <1>20 DEF Sound, UpOk

\* A CREATE INDEX that fails leaves a stray file and does no other harm.
LEMMA CreateIndexFailsSound ==
  ASSUME IInv, NEW s \in Sessions, CreateIndexFails(s), spoiled' = {}
  PROVE  Sound'
<1>1. PICK t, i : t = st[s].t /\ i = st[s].i
  OBVIOUS
<1>2. up = "up" /\ st[s].op = "index" /\ st[s].at \in {"fill", "tmp", "rename"} /\ st[s].at # "idle"
  BY DEF CreateIndexFails
<1>3. spoiled = {}
  BY DEF CreateIndexFails
<1>4. /\ Types /\ t \in Tables /\ \A u \in Tables : UpOk(u)
      /\ Busy(t) = {s} /\ opened[t] # 0 /\ Present(t) /\ Whole(t) /\ i \in Indexes
  BY <1>1, <1>2, <1>3, AddState
<1>5. /\ stray' = stray \cup {<<t, i>>} /\ End(s)
      /\ UNCHANGED <<meta, data, ix, tables, opened, acked, up>>
      /\ tmp' = tmp \/ tmp' = [tmp EXCEPT ![t] = EmptyFile]
  BY <1>1 DEF CreateIndexFails, memory
<1>0. tmp' \in [Tables -> MetaFile] /\ \A u \in Tables \ {t} : tmp'[u] = tmp[u]
  BY <1>4, <1>5, FileKinds DEF Types
<1>6. /\ st' \in [Sessions -> {Idle} \cup Creates \cup Drops \cup Adds \cup Renames]
      /\ Busy(t)' = {} /\ Alone(t)'
      /\ \A u \in Tables \ {t} : Busy(u)' = Busy(u) /\ \A r \in Busy(u) : st'[r] = st[r]
  BY <1>4, <1>5, SoleEnds
<1>7. Types'
  BY <1>0, <1>4, <1>5, <1>6 DEF Types
<1>8. ASSUME NEW u \in Tables \ {t} PROVE UpOk(u)'
  BY <1>0, <1>4, <1>5, <1>6, StaysOk DEF Untouched
<1>9. Entry(t)' = Entry(t)
  BY <1>5 DEF Entry
<1>10. Whole(t)'
  BY <1>4, <1>5, <1>9 DEF Whole
<1>11. \A j, places : AddsAt(t, j, places) => <<t, j>> \in stray'
  BY <1>1, <1>4, <1>5 DEF AddsAt
<1>12. \A j \in Names(Entry(t)) \ Entry(t).listed : <<t, j>> \in stray'
  BY <1>4, <1>5, <1>11 DEF Present
<1>13. \A j \in Indexes : ix'[t][j] # "none" => j \in Names(Entry(t)) \/ <<t, j>> \in stray'
  BY <1>4, <1>5, <1>11 DEF Present
<1>14. Present(t)'
  BY <1>4, <1>5, <1>6, <1>9, <1>10, <1>12, <1>13, SameTable
<1>15. QED
  BY <1>2, <1>4, <1>5, <1>6, <1>7, <1>8, <1>14 DEF Sound, UpOk

-----------------------------------------------------------------------------
(* SYNC, the end of the server and its start *)

\* No table in the map was deleted.
LEMMA NoDangling ==
  ASSUME Sound, up = "up"
  PROVE  ~Dangling
<1>1. ASSUME NEW t \in Entries PROVE ~Entry(t).deleted
  <2>1. t \in Tables /\ opened[t] # 0
    BY DEF Entries
  <2>2. Present(t)
    BY <2>1 DEF Sound, UpOk
  <2>3. QED
    BY <2>2 DEF Present
<1>2. QED
  BY <1>1 DEF Dangling

\* Writing the headers makes no file and removes none.
LEMMA SyncKeepsFiles ==
  ASSUME Types, NEW done, ix' = Synced(done)
  PROVE  /\ ix' \in [Tables -> [Indexes -> {"none", "new", "file"}]]
         /\ \A t \in Tables : \A i \in Indexes : ix'[t][i] = "none" <=> ix[t][i] = "none"
<1>1. \A t \in Tables : \A i \in Indexes : ix[t][i] \in {"none", "new", "file"}
  BY DEF Types
<1>2. \A t \in Tables : \A i \in Indexes :
        Synced(done)[t][i] \in {"none", "new", "file"}
        /\ (Synced(done)[t][i] = "none" <=> ix[t][i] = "none")
  BY <1>1 DEF Synced
<1>3. Synced(done) \in [Tables -> [Indexes -> {"none", "new", "file"}]]
  BY <1>2 DEF Synced
<1>4. QED
  BY <1>2, <1>3

\* SYNC.
LEMMA SyncSound ==
  ASSUME IInv, Sync, spoiled' = {}
  PROVE  Sound'
<1>1. /\ UNCHANGED <<meta, tmp, data, tables, opened, st, acked, spoiled, stray>>
      /\ up = "up"
  BY DEF Sync, memory, history
<1>2. Sound /\ Types /\ \A t \in Tables : UpOk(t)
  BY <1>1 DEF IInv, Sound
<1>3. ~Dangling
  BY <1>1, <1>2, NoDangling
<1>4. up' = "up" /\ \E done : ix' = Synced(done)
  BY <1>1, <1>3 DEF Sync, SyncInto
<1>5. PICK done : ix' = Synced(done)
  BY <1>4
<1>6. /\ ix' \in [Tables -> [Indexes -> {"none", "new", "file"}]]
      /\ \A t \in Tables : \A i \in Indexes : ix'[t][i] = "none" <=> ix[t][i] = "none"
  BY <1>2, <1>5, SyncKeepsFiles
<1>7. Types'
  BY <1>1, <1>2, <1>4, <1>6 DEF Types
<1>8. ASSUME NEW t \in Tables PROVE UpOk(t)'
  <2>1. Busy(t)' = Busy(t)
    BY <1>1 DEF Busy
  <2>2. Untouched(t)
    BY <1>1, <1>6, <2>1 DEF Untouched
  <2>3. QED
    BY <1>2, <2>2, StaysOk
<1>9. QED
  BY <1>4, <1>7, <1>8 DEF Sound

\* A part of the headers is written.
LEMMA CutKeepsFiles ==
  ASSUME Types, SyncCut
  PROVE  /\ ix' \in [Tables -> [Indexes -> {"none", "new", "file"}]]
         /\ \A t \in Tables : \A i \in Indexes : ix'[t][i] = "none" <=> ix[t][i] = "none"
<1>1. PICK part \in SUBSET {ti \in Tables \X Indexes : Synced(Entries)[ti[1]][ti[2]] # ix[ti[1]][ti[2]]} :
        ix' = [t \in Tables |-> [i \in Indexes |-> IF <<t, i>> \in part THEN "file" ELSE ix[t][i]]]
  BY DEF SyncCut
<1>2. \A t \in Tables : \A i \in Indexes : ix[t][i] \in {"none", "new", "file"}
  BY DEF Types
<1>3. \A t \in Tables : \A i \in Indexes : <<t, i>> \in part => ix[t][i] # "none"
  BY <1>1 DEF Synced
<1>4. \A t \in Tables : \A i \in Indexes :
        /\ ix'[t][i] \in {"none", "new", "file"}
        /\ ix'[t][i] = "none" <=> ix[t][i] = "none"
  BY <1>1, <1>2, <1>3
<1>5. QED
  BY <1>1, <1>4

\* SYNC is refused a write.
LEMMA SyncFailsSound ==
  ASSUME IInv, SyncFails, spoiled' = {}
  PROVE  Sound'
<1>1. /\ UNCHANGED <<meta, tmp, data, tables, opened, st, up, acked, spoiled, stray>>
      /\ up = "up" /\ SyncCut
  BY DEF SyncFails, memory, history
<1>2. Types /\ \A t \in Tables : UpOk(t)
  BY <1>1 DEF IInv, Sound
<1>3. /\ ix' \in [Tables -> [Indexes -> {"none", "new", "file"}]]
      /\ \A t \in Tables : \A i \in Indexes : ix'[t][i] = "none" <=> ix[t][i] = "none"
  BY <1>1, <1>2, CutKeepsFiles
<1>4. Types'
  BY <1>1, <1>2, <1>3 DEF Types
<1>5. ASSUME NEW t \in Tables PROVE UpOk(t)'
  <2>1. Busy(t)' = Busy(t)
    BY <1>1 DEF Busy
  <2>2. Untouched(t)
    BY <1>1, <1>3, <2>1 DEF Untouched
  <2>3. QED
    BY <1>2, <2>2, StaysOk
<1>6. QED
  BY <1>1, <1>4, <1>5 DEF Sound

\* The server is down, and the files keep their types.
LEMMA Forgotten ==
  ASSUME Types, Forget, up' = "down", meta' = meta, tmp' = tmp, data' = data, acked' = acked,
         ix' \in [Tables -> [Indexes -> {"none", "new", "file"}]]
  PROVE  Types' /\ \A s \in Sessions : st'[s] = Idle
<1>1. /\ tables' \in [Tables -> Seq(Objects)] /\ opened' \in [Tables -> Nat]
      /\ st' = [s \in Sessions |-> Idle]
  BY DEF Forget
<1>2. QED
  BY <1>1 DEF Types

\* What an orderly stop leaves, with every header written or some of them.
LEMMA StoppedSound ==
  ASSUME Sound, up = "up", \A s \in Sessions : st[s] = Idle, Forget, up' = "down",
         UNCHANGED <<meta, tmp, data, acked, stray>>,
         ix' \in [Tables -> [Indexes -> {"none", "new", "file"}]],
         \A t \in Tables : \A i \in Indexes : ix'[t][i] = "none" <=> ix[t][i] = "none",
         \A t \in Tables : opened[t] # 0 => \A i \in meta[t].indexes : ix'[t][i] # "new"
  PROVE  Sound'
<1>1. Types /\ \A t \in Tables : UpOk(t)
  BY DEF Sound
<1>2. \A t \in Tables : Busy(t) = {}
  BY DEF Busy
<1>3. Types' /\ \A s \in Sessions : st'[s] = Idle
  BY <1>1, Forgotten
<1>4. ASSUME NEW t \in Tables, opened[t] = 0 PROVE AtRest(t)'
  <2>1. Absent(t) /\ Busy(t) = {}
    BY <1>1, <1>2, <1>4 DEF UpOk
  <2>2. meta[t] = NoFile /\ data[t] = "none" /\ acked[t] = NoFile
    BY <2>1 DEF Absent
  <2>3. \A i \in Indexes : ix'[t][i] # "none" => <<t, i>> \in stray'
    BY <2>1 DEF Absent
  <2>4. QED
    BY <2>2, <2>3 DEF AtRest
<1>5. ASSUME NEW t \in Tables, opened[t] # 0 PROVE AtRest(t)'
  <2>1. Present(t) /\ Whole(t) /\ Busy(t) = {}
    BY <1>1, <1>2, <1>5 DEF UpOk, Present
  <2>2. Names(Entry(t)) \subseteq Indexes /\ Entry(t).listed \subseteq Indexes
    BY <1>1, <2>1, EntryType
  <2>3. meta[t] = Json(Entry(t).listed) /\ (acked[t] = NoFile \/ acked[t] = meta[t])
    BY <2>1 DEF Present
  <2>4. meta[t].is = "json" /\ meta[t].indexes = Entry(t).listed
    BY <2>2, <2>3, FileKinds
  <2>5. data[t] = "file"
    BY <2>1 DEF Whole
  <2>6. ASSUME NEW i \in Entry(t).listed PROVE ix'[t][i] = "file"
    <3>1. i \in Indexes /\ i \in Names(Entry(t))
      BY <2>1, <2>2 DEF Present
    <3>2. PICK k \in DOMAIN Entry(t).indexes : Entry(t).indexes[k] = i
      BY <3>1 DEF Names
    <3>3. ix[t][i] # "none"
      BY <2>1, <3>2 DEF Whole
    <3>4. ix'[t][i] \in {"none", "new", "file"} /\ ix'[t][i] # "none" /\ ix'[t][i] # "new"
      BY <1>5, <2>4, <3>1, <3>3
    <3>5. QED
      BY <3>4
  <2>7. ASSUME NEW i \in Indexes \ Entry(t).listed, ix'[t][i] # "none" PROVE <<t, i>> \in stray'
    <3>1. ix[t][i] # "none"
      BY <2>7
    <3>2. \A places : ~AddsAt(t, i, places)
      BY <2>1 DEF AddsAt
    <3>3. QED
      BY <2>1, <2>7, <3>1, <3>2 DEF Present
  <2>8. QED
    BY <2>3, <2>4, <2>5, <2>6, <2>7 DEF AtRest
<1>6. QED
  BY <1>3, <1>4, <1>5 DEF Sound

\* DefaultHandler::destroy.
LEMMA StopSound ==
  ASSUME IInv, Stop, spoiled' = {}
  PROVE  Sound'
<1>1. /\ UNCHANGED <<meta, tmp, data, acked, spoiled, stray>>
      /\ up = "up" /\ \A s \in Sessions : st[s] = Idle
  BY DEF Stop, history
<1>2. Sound /\ Types /\ \A t \in Tables : UpOk(t)
  BY <1>1 DEF IInv, Sound
<1>3. ~Dangling
  BY <1>1, <1>2, NoDangling
<1>4. SyncInto(ix') /\ up' = "down" /\ Forget
  BY <1>3 DEF Stop
<1>5. ASSUME NEW t \in Tables, opened[t] # 0 PROVE Present(t) /\ Whole(t)
  <2>1. Busy(t) = {}
    BY <1>1 DEF Busy
  <2>2. QED
    BY <1>2, <1>5, <2>1 DEF UpOk, Present
<1>6. ix' = Synced(Entries)
  <2>1. \A t \in Entries : Entry(t).open
    BY <1>5 DEF Entries, Whole
  <2>2. QED
    BY <1>4, <2>1 DEF SyncInto
<1>7. /\ ix' \in [Tables -> [Indexes -> {"none", "new", "file"}]]
      /\ \A t \in Tables : \A i \in Indexes : ix'[t][i] = "none" <=> ix[t][i] = "none"
  BY <1>2, <1>6, SyncKeepsFiles
<1>8. ASSUME NEW t \in Tables, opened[t] # 0, NEW i \in meta[t].indexes PROVE ix'[t][i] # "new"
  <2>1. Present(t)
    BY <1>5, <1>8
  <2>2. Entry(t).listed \subseteq Indexes
    BY <1>2, <2>1, EntryType
  <2>3. i \in Names(Entry(t)) /\ i \in Indexes
    BY <1>8, <2>1, <2>2, FileKinds DEF Present
  <2>4. PICK k \in DOMAIN Entry(t).indexes : Entry(t).indexes[k] = i
    BY <2>3 DEF Names
  <2>5. t \in Entries
    BY <1>8 DEF Entries
  <2>6. Synced(Entries)[t][i] = IF ix[t][i] = "new" THEN "file" ELSE ix[t][i]
    BY <2>3, <2>4, <2>5 DEF Synced
  <2>7. QED
    BY <1>6, <2>6
<1>9. QED
  BY <1>1, <1>2, <1>4, <1>7, <1>8, StoppedSound

\* A stop whose sync is refused a write, when no header is missing that an
\* opened table needs.
LEMMA StopUnsyncedSound ==
  ASSUME IInv, StopUnsynced, spoiled' = {}
  PROVE  Sound'
<1>1. /\ UNCHANGED <<meta, tmp, data, acked, stray>>
      /\ up = "up" /\ \A s \in Sessions : st[s] = Idle
      /\ SyncCut /\ up' = "down" /\ Forget
      /\ spoiled' = spoiled \cup {t \in Tables : \E i \in meta[t].indexes : ix'[t][i] = "new"}
  BY DEF StopUnsynced
<1>2. Sound /\ Types
  BY <1>1 DEF IInv, Sound
<1>3. /\ ix' \in [Tables -> [Indexes -> {"none", "new", "file"}]]
      /\ \A t \in Tables : \A i \in Indexes : ix'[t][i] = "none" <=> ix[t][i] = "none"
  BY <1>1, <1>2, CutKeepsFiles
<1>4. \A t \in Tables : \A i \in meta[t].indexes : ix'[t][i] # "new"
  BY <1>1
<1>5. QED
  BY <1>1, <1>2, <1>3, <1>4, StoppedSound

\* The server crashes.
LEMMA CrashSound ==
  ASSUME IInv, Crash, spoiled' = {}
  PROVE  Sound'
<1>1. /\ UNCHANGED <<meta, tmp, data, ix, acked>> /\ up = "up" /\ up' = "down" /\ Forget
      /\ spoiled' = spoiled \cup {st[s].t : s \in {r \in Sessions : CutBy(r)}}
                        \cup {t \in Tables : Unsynced(t)}
      /\ stray' = stray \cup {ti \in Tables \X Indexes :
                                /\ ix[ti[1]][ti[2]] # "none"
                                /\ ti[2] \notin meta[ti[1]].indexes}
  BY DEF Crash, files
<1>2. spoiled = {} /\ \A s \in Sessions : ~CutBy(s)
  BY <1>1
<1>3. \A t \in Tables : ~Unsynced(t)
  BY <1>1
<1>4. Types /\ \A t \in Tables : UpOk(t)
  BY <1>1, <1>2 DEF IInv, Sound
<1>5. Types' /\ \A s \in Sessions : st'[s] = Idle
  <2>1. ix' \in [Tables -> [Indexes -> {"none", "new", "file"}]]
    BY <1>1, <1>4 DEF Types
  <2>2. QED
    BY <1>1, <1>4, <2>1, Forgotten
<1>6. ASSUME NEW t \in Tables, NEW i \in Indexes \ meta[t].indexes, ix[t][i] # "none"
      PROVE  <<t, i>> \in stray'
  BY <1>1, <1>6
<1>7. ASSUME NEW t \in Tables, opened[t] = 0 PROVE AtRest(t)'
  <2>1. Absent(t)
    BY <1>4, <1>7 DEF UpOk
  <2>2. ASSUME NEW s \in Busy(t) PROVE st[s].at = "meta"
    <3>1. s \in Sessions /\ st[s].at # "idle"
      BY <1>4, BusyWith
    <3>2. st[s].op = "create"
      BY <2>1 DEF Absent, Making
    <3>3. QED
      BY <1>2, <3>1, <3>2 DEF CutBy
  <2>3. meta[t] = NoFile /\ data[t] = "none" /\ acked[t] = NoFile
    BY <2>1, <2>2 DEF Absent
  <2>4. QED
    BY <1>1, <1>6, <2>3 DEF AtRest
<1>8. ASSUME NEW t \in Tables, opened[t] # 0 PROVE AtRest(t)'
  <2>1. Present(t)
    BY <1>4, <1>8 DEF UpOk
  <2>2. Whole(t)
    <3>1. ASSUME NEW s \in Busy(t), st[s].op = "drop" PROVE Whole(t)
      <4>1. s \in Sessions /\ st[s].at # "idle"
        BY <1>4, BusyWith
      <4>2. st[s].at = "data"
        BY <1>2, <3>1, <4>1 DEF CutBy
      <4>3. QED
        BY <2>1, <3>1, <4>2 DEF Present, Dropping
    <3>2. QED
      BY <2>1, <3>1 DEF Present
  <2>3. Names(Entry(t)) \subseteq Indexes /\ Entry(t).listed \subseteq Indexes
    BY <1>4, <2>1, EntryType
  <2>4. meta[t] = Json(Entry(t).listed) /\ (acked[t] = NoFile \/ acked[t] = meta[t])
    BY <2>1 DEF Present
  <2>5. meta[t].is = "json" /\ meta[t].indexes = Entry(t).listed
    BY <2>3, <2>4, FileKinds
  <2>6. data[t] = "file"
    BY <2>2 DEF Whole
  <2>7. ASSUME NEW i \in meta[t].indexes PROVE ix[t][i] = "file"
    <3>1. i \in Indexes /\ i \in Names(Entry(t))
      BY <2>1, <2>3, <2>5 DEF Present
    <3>2. PICK k \in DOMAIN Entry(t).indexes : Entry(t).indexes[k] = i
      BY <3>1 DEF Names
    <3>3. ix[t][i] # "none"
      BY <2>2, <3>2 DEF Whole
    <3>4. ix[t][i] \in {"none", "new", "file"}
      BY <1>4, <3>1 DEF Types
    <3>5. ix[t][i] # "new"
      BY <1>3 DEF Unsynced
    <3>6. QED
      BY <3>3, <3>4, <3>5
  <2>8. QED
    BY <1>1, <1>6, <2>4, <2>5, <2>6, <2>7 DEF AtRest
<1>9. QED
  BY <1>1, <1>5, <1>7, <1>8 DEF Sound

\* The sequence that stands for the list of indexes in a meta file has each of
\* them once.
LEMMA Listing ==
  ASSUME NEW S \in SUBSET Indexes
  PROVE  /\ SetToSeq(S) \in Seq(Indexes)
         /\ \A j, k \in DOMAIN SetToSeq(S) : SetToSeq(S)[j] = SetToSeq(S)[k] => j = k
         /\ {SetToSeq(S)[k] : k \in DOMAIN SetToSeq(S)} = S
<1>1. IsFiniteSet(S)
  BY IndexesAssumption, FS_Subset
<1>2. PICK n \in Nat : n = Cardinality(S)
  BY <1>1, FS_CardinalityType
<1>3. PICK f : f \in Bijection(1 .. n, S)
  <2>1. ExistsBijection(1 .. n, S)
    BY <1>1, <1>2, FS_CardinalityType
  <2>2. QED
    BY <2>1 DEF ExistsBijection
<1>4. f \in [1 .. n -> S] /\ IsInjective(f)
  BY <1>3 DEF Bijection, Injection, IsInjective
<1>5. SetToSeq(S) \in [1 .. n -> S] /\ IsInjective(SetToSeq(S))
  BY <1>2, <1>4 DEF SetToSeq
<1>6. PICK q : q = SetToSeq(S)
  OBVIOUS
<1>7. q \in [1 .. n -> S] /\ \A j, k \in 1 .. n : q[j] = q[k] => j = k
  BY <1>5, <1>6 DEF IsInjective
<1>8. q \in Surjection(1 .. n, S)
  <2>1. q \in Injection(1 .. n, S)
    BY <1>7 DEF Injection, IsInjective
  <2>2. IsFiniteSet(1 .. n) /\ Cardinality(1 .. n) = n
    BY <1>2, FS_Interval
  <2>3. QED
    BY <1>1, <1>2, <2>1, <2>2, FS_Injection
<1>9. {q[k] : k \in 1 .. n} = S
  BY <1>7, <1>8 DEF Surjection
<1>10. q \in Seq(Indexes)
  BY <1>7
<1>11. QED
  BY <1>6, <1>7, <1>9, <1>10

\* The server starts.
LEMMA OpenSound ==
  ASSUME IInv, Open, spoiled' = {}
  PROVE  Sound'
<1>1. /\ UNCHANGED <<meta, tmp, data, ix, st, acked, spoiled, stray>>
      /\ up = "down" /\ up' = "up" /\ OpenAllTables
  BY DEF Open, files, history
<1>2. Types /\ (\A s \in Sessions : st[s] = Idle) /\ \A t \in Tables : AtRest(t)
  BY <1>1 DEF IInv, Sound
<1>3. \A t \in Tables : meta[t] # NoFile =>
        /\ meta[t].is = "json" /\ data[t] = "file"
        /\ \A i \in meta[t].indexes : ix[t][i] = "file"
        /\ acked[t] = NoFile \/ acked[t] = meta[t]
  BY <1>2 DEF AtRest
<1>4. \A t \in Tables : meta[t] # NoFile => Opens(t)
  BY <1>3 DEF Opens, Parses
<1>5. /\ opened' = [t \in Tables |-> IF meta[t] # NoFile THEN 1 ELSE 0]
      /\ tables' = [t \in Tables |->
           IF meta[t] # NoFile
           THEN <<Object(SetToSeq(meta[t].indexes), meta[t].indexes, data[t] = "file")>>
           ELSE <<>>]
  BY <1>1, <1>4 DEF OpenAllTables
<1>6. \A t \in Tables : Busy(t)' = {}
  BY <1>1, <1>2 DEF Busy
<1>7. ASSUME NEW t \in Tables
      PROVE  Object(SetToSeq(meta[t].indexes), meta[t].indexes, data[t] = "file") \in Objects
  <2>1. meta[t].indexes \in SUBSET Indexes
    BY <1>2 DEF Types, MetaFile
  <2>2. SetToSeq(meta[t].indexes) \in Seq(Indexes)
    BY <2>1, Listing
  <2>3. (data[t] = "file") \in BOOLEAN
    OBVIOUS
  <2>4. QED
    BY <2>1, <2>2, <2>3 DEF Object, Objects
<1>8. opened' \in [Tables -> Nat] /\ tables' \in [Tables -> Seq(Objects)]
  BY <1>5, <1>7
<1>9. Types'
  BY <1>1, <1>2, <1>8 DEF Types
<1>10. \A t \in Tables : Alone(t)'
  BY <1>6 DEF Alone
<1>11. ASSUME NEW t \in Tables, meta[t] = NoFile PROVE UpOk(t)'
  <2>1. opened'[t] = 0
    BY <1>5, <1>11
  <2>2. meta[t].indexes = {} /\ meta[t].is # "json"
    BY <1>11 DEF NoFile
  <2>3. /\ data[t] = "none" /\ acked[t] = NoFile
        /\ \A i \in Indexes : ix[t][i] # "none" => <<t, i>> \in stray
    BY <1>2, <2>2 DEF AtRest
  <2>4. Absent(t)'
    BY <1>1, <1>6, <1>11, <2>3 DEF Absent
  <2>5. QED
    BY <1>10, <2>1, <2>4 DEF UpOk
<1>12. ASSUME NEW t \in Tables, meta[t] # NoFile PROVE UpOk(t)'
  <2>1. PICK S \in SUBSET Indexes : S = meta[t].indexes
    BY <1>2 DEF Types, MetaFile
  <2>2. PICK q : q = SetToSeq(S)
    OBVIOUS
  <2>3. /\ q \in Seq(Indexes) /\ {q[k] : k \in DOMAIN q} = S
        /\ \A j, k \in DOMAIN q : q[j] = q[k] => j = k
    BY <2>2, Listing
  <2>4. /\ meta[t] = Json(S) /\ data[t] = "file" /\ \A i \in S : ix[t][i] = "file"
        /\ acked[t] = NoFile \/ acked[t] = meta[t]
    BY <1>2, <1>3, <1>12, <2>1, FileKinds DEF Types
  <2>5. PICK e : e = [indexes |-> q, listed |-> S, open |-> TRUE, deleted |-> FALSE]
    OBVIOUS
  <2>6. opened'[t] = 1 /\ tables'[t] = <<e>>
    BY <1>5, <1>12, <2>1, <2>2, <2>4, <2>5 DEF Object
  <2>7. opened'[t] \in DOMAIN tables'[t] /\ Entry(t)' = e
    BY <2>6 DEF Entry
  <2>8. e.indexes = q /\ e.listed = S /\ e.open /\ ~e.deleted
    BY <2>5
  <2>9. Names(Entry(t))' = S
    BY <2>3, <2>7, <2>8 DEF Names
  <2>10. Whole(t)'
    BY <1>1, <2>3, <2>4, <2>7, <2>8 DEF Whole
  <2>11. \A i \in Indexes : ix'[t][i] # "none" => i \in S \/ <<t, i>> \in stray'
    BY <1>1, <1>2, <2>1 DEF AtRest
  <2>12. Present(t)'
    BY <1>1, <1>6, <2>3, <2>4, <2>7, <2>8, <2>9, <2>10, <2>11 DEF Present
  <2>13. QED
    BY <1>10, <2>6, <2>12 DEF UpOk
<1>13. QED
  BY <1>1, <1>9, <1>11, <1>12 DEF Sound

-----------------------------------------------------------------------------
(* The invariant *)

\* At the start there is no table.
LEMMA InitIInv == Init => IInv
<1>1. SUFFICES ASSUME Init PROVE Sound
  BY DEF IInv
<1>2. Types
  BY <1>1, FileKinds DEF Init, Types
<1>3. ASSUME NEW t \in Tables PROVE UpOk(t)
  <2>1. Busy(t) = {}
    BY <1>1 DEF Init, Busy
  <2>2. opened[t] = 0 /\ Absent(t)
    BY <1>1, <2>1 DEF Init, Absent
  <2>3. QED
    BY <2>1, <2>2 DEF UpOk, Alone
<1>4. QED
  BY <1>1, <1>2, <1>3 DEF Init, Sound

\* A spoiled table stays spoiled, and a statement that fails halfway spoils one.
LEMMA FailuresSpoil ==
  ASSUME NEW s \in Sessions, CreateFails(s) \/ DropFails(s) \/ WriteMetaLost(s) \/ WriteTmpLost(s)
  PROVE  spoiled' # {}
BY DEF CreateFails, DropFails, WriteMetaLost, WriteTmpLost, DropRefused, Spoil

LEMMA StepIInv == IInv /\ [Next]_vars => IInv'
<1>1. SUFFICES ASSUME IInv, [Next]_vars, spoiled' = {} PROVE Sound'
  BY DEF IInv
<1>2. ASSUME NEW s \in Sessions, NEW t \in Tables, CreateTable(s, t) \/ DropTable(s, t)
      PROVE  Sound'
  BY <1>1, <1>2, CreateTableSound, DropTableSound
<1>3. ASSUME NEW s \in Sessions, NEW t \in Tables, NEW i \in Indexes, CreateIndex(s, t, i)
      PROVE  Sound'
  BY <1>1, <1>3, CreateIndexSound
<1>4. ASSUME NEW s \in Sessions, CreateMeta(s) \/ WriteMeta(s) \/ CreateData(s) \/ Register(s)
      PROVE  Sound'
  BY <1>1, <1>4, CreateMetaSound, WriteMetaSound, RegisterSound
<1>5. ASSUME NEW s \in Sessions, CreateFails(s) \/ DropFails(s) \/ WriteMetaLost(s) \/ WriteTmpLost(s)
      PROVE  Sound'
  BY <1>1, <1>5, FailuresSpoil
<1>6. ASSUME NEW s \in Sessions, DropData(s) \/ DropIndex(s) \/ DropMeta(s)
      PROVE  Sound'
  BY <1>1, <1>6, DropDataSound, DropIndexSound, DropMetaSound
<1>7. ASSUME NEW s \in Sessions, CreateIndexFile(s) \/ FillIndex(s) \/ WriteTmp(s) \/ Rename(s)
                                 \/ CreateIndexFails(s)
      PROVE  Sound'
  BY <1>1, <1>7, CreateIndexFileSound, FillIndexSound, WriteTmpSound, RenameSound,
     CreateIndexFailsSound
<1>8. CASE Sync \/ SyncFails \/ Stop \/ StopUnsynced \/ Crash \/ Open
  BY <1>1, <1>8, SyncSound, SyncFailsSound, StopSound, StopUnsyncedSound, CrashSound, OpenSound
<1>9. CASE UNCHANGED vars
  <2>1. UNCHANGED <<meta, tmp, data, ix, tables, opened, st, up, acked, spoiled, stray>>
    BY <1>9 DEF vars, files, memory, history
  <2>2. Sound
    BY <1>1, <2>1 DEF IInv
  <2>3. Types' /\ (up' = up)
    BY <2>1, <2>2 DEF Sound, Types
  <2>4. \A t \in Tables : AtRest(t) => AtRest(t)'
    BY <2>1 DEF AtRest
  <2>5. ASSUME NEW t \in Tables, UpOk(t) PROVE UpOk(t)'
    <3>1. Busy(t)' = Busy(t)
      BY <2>1 DEF Busy
    <3>2. Untouched(t)
      BY <2>1, <3>1 DEF Untouched
    <3>3. QED
      BY <2>2, <2>5, <3>2, StaysOk DEF Sound
  <2>6. QED
    BY <2>1, <2>2, <2>3, <2>4, <2>5 DEF Sound
<1>10. QED
  BY <1>1, <1>2, <1>3, <1>4, <1>5, <1>6, <1>7, <1>8, <1>9 DEF Next

-----------------------------------------------------------------------------
(* The temporary meta file *)

\* A CREATE INDEX on t is about to rename the temporary file.
Renaming(t) == \E s \in Busy(t) : st[s].op = "index" /\ st[s].at = "rename"

\* Where a temporary meta file may be
Leftover ==
  spoiled = {} => \A t \in Tables : tmp[t] # NoFile => (\E i \in Indexes : <<t, i>> \in stray) \/ Renaming(t)

\* A step that moves no temporary file and no statement that waits for its rename.
LEMMA LeftoverStays ==
  ASSUME Leftover, spoiled = {}, NEW t \in Tables, tmp'[t] = tmp[t], stray \subseteq stray',
         \A s \in Sessions : st[s].t = t /\ st[s].at = "rename" => st'[s] = st[s]
  PROVE  tmp'[t] # NoFile => (\E i \in Indexes : <<t, i>> \in stray') \/ Renaming(t)'
<1>1. SUFFICES ASSUME tmp[t] # NoFile PROVE (\E i \in Indexes : <<t, i>> \in stray') \/ Renaming(t)'
  OBVIOUS
<1>2. (\E i \in Indexes : <<t, i>> \in stray) \/ Renaming(t)
  BY <1>1 DEF Leftover
<1>3. CASE Renaming(t)
  <2>1. PICK s \in Busy(t) : st[s].op = "index" /\ st[s].at = "rename"
    BY <1>3 DEF Renaming
  <2>2. s \in Sessions /\ st'[s] = st[s] /\ s \in Busy(t)'
    BY <2>1 DEF Busy
  <2>3. QED
    BY <2>1, <2>2 DEF Renaming
<1>4. QED
  BY <1>2, <1>3

\* The steps of a statement that is at another place
LEMMA LeftoverElsewhere ==
  ASSUME Leftover, IInv, spoiled' = {}, spoiled = {}, NEW s \in Sessions, NEW x,
         st' = [st EXCEPT ![s] = x], st[s].at # "rename", tmp' = tmp, stray' = stray
  PROVE  Leftover'
<1>1. \A r \in Sessions : st[r].at = "rename" => st'[r] = st[r]
  BY DEF IInv, Sound, Types
<1>2. QED
  BY <1>1, LeftoverStays DEF Leftover

LEMMA LeftoverSteps ==
  ASSUME Leftover, IInv, IInv', [Next]_vars, spoiled' = {}
  PROVE  Leftover'
<1>1. ASSUME NEW s \in Sessions, NEW t \in Tables, CreateTable(s, t) \/ DropTable(s, t)
      PROVE  Leftover'
  <2>1. PICK x : Start(s, x) /\ tmp' = tmp /\ stray' = stray
    BY <1>1 DEF CreateTable, DropTable, files
  <2>2. st[s] = Idle /\ st' = [st EXCEPT ![s] = x] /\ spoiled = {}
    BY <2>1 DEF Start
  <2>3. st[s].at # "rename"
    BY <2>2 DEF Idle
  <2>4. QED
    BY <2>1, <2>2, <2>3, LeftoverElsewhere
<1>2. ASSUME NEW s \in Sessions, NEW t \in Tables, NEW i \in Indexes, CreateIndex(s, t, i)
      PROVE  Leftover'
  <2>1. PICK x : Start(s, x) /\ tmp' = tmp /\ stray' = stray
    BY <1>2 DEF CreateIndex, files
  <2>2. st[s] = Idle /\ st' = [st EXCEPT ![s] = x] /\ spoiled = {}
    BY <2>1 DEF Start
  <2>3. st[s].at # "rename"
    BY <2>2 DEF Idle
  <2>4. QED
    BY <2>1, <2>2, <2>3, LeftoverElsewhere
<1>3. ASSUME NEW s \in Sessions, CreateMeta(s) \/ WriteMeta(s) \/ CreateData(s) \/ Register(s)
      PROVE  Leftover'
  <2>1. /\ tmp' = tmp /\ stray' = stray /\ spoiled \subseteq spoiled' /\ st[s].at # "rename"
        /\ \E x : st' = [st EXCEPT ![s] = x]
    BY <1>3 DEF CreateMeta, WriteMeta, CreateData, Register, At, End, Goto, Spoil, history
  <2>2. QED
    BY <2>1, LeftoverElsewhere
<1>4. ASSUME NEW s \in Sessions, CreateFails(s) \/ DropFails(s) \/ WriteMetaLost(s) \/ WriteTmpLost(s)
      PROVE  Leftover'
  BY <1>4, FailuresSpoil
<1>5. ASSUME NEW s \in Sessions, DropData(s) \/ DropIndex(s) \/ DropMeta(s)
      PROVE  Leftover'
  <2>1. /\ tmp' = tmp /\ stray' = stray /\ st[s].at # "rename" /\ up = "up"
    BY <1>5 DEF DropData, DropIndex, DropMeta, At
  <2>2. spoiled = {}
    BY <1>5 DEF DropData, DropIndex, DropMeta, DropRefused, Spoil
  <2>3. \A r \in Sessions : st[r].at = "rename" => st'[r] = st[r]
    <3>1. st' = st \/ \E x : st' = [st EXCEPT ![s] = x]
      BY <1>5 DEF DropData, DropIndex, DropMeta, DropRefused, Goto, End
    <3>2. QED
      BY <2>1, <2>2, <3>1 DEF IInv, Sound, Types
  <2>4. QED
    BY <2>1, <2>2, <2>3, LeftoverStays DEF Leftover
<1>6. ASSUME NEW s \in Sessions, CreateIndexFile(s) \/ FillIndex(s)
      PROVE  Leftover'
  <2>1. /\ tmp' = tmp /\ stray' = stray /\ spoiled = {} /\ st[s].at # "rename"
    BY <1>6 DEF CreateIndexFile, FillIndex, At, history
  <2>2. \A r \in Sessions : st[r].at = "rename" => st'[r] = st[r]
    <3>1. st' = st \/ \E x : st' = [st EXCEPT ![s] = x]
      BY <1>6 DEF CreateIndexFile, FillIndex, Goto, End
    <3>2. QED
      BY <2>1, <3>1 DEF IInv, Sound, Types
  <2>3. QED
    BY <2>1, <2>2, LeftoverStays DEF Leftover
<1>7. ASSUME NEW s \in Sessions, WriteTmp(s) \/ Rename(s) \/ CreateIndexFails(s)
      PROVE  Leftover'
  <2>1. /\ up = "up" /\ spoiled = {} /\ st[s].op = "index" /\ st[s].at \in {"fill", "tmp", "rename"}
    BY <1>7 DEF WriteTmp, Rename, CreateIndexFails, At, history
  <2>2. PICK t, i : t = st[s].t /\ i = st[s].i
    OBVIOUS
  <2>3. /\ Types /\ t \in Tables /\ Busy(t) = {s} /\ Adding(s, t) /\ i \in Indexes
        /\ This(s) = Entry(t) /\ st[s].g = opened[t] /\ ~Entry(t).deleted /\ Present(t)
    BY <2>1, <2>2, AddState
  <2>4. /\ stray \subseteq stray' /\ \A u \in Tables \ {t} : tmp'[u] = tmp[u]
        /\ \A r \in Sessions \ {s} : st'[r] = st[r]
    BY <1>7, <2>2, <2>3 DEF WriteTmp, WriteNew, Rename, CreateIndexFails, End, history, Types
  <2>5. \A u \in Tables \ {t} : tmp'[u] # NoFile => (\E j \in Indexes : <<u, j>> \in stray') \/ Renaming(u)'
    BY <2>1, <2>2, <2>4, LeftoverStays
  <2>6. CASE WriteTmp(s)
    <3>1. st'[s].op = "index" /\ st'[s].at = "rename" /\ st'[s].t = t
      BY <2>2, <2>3, <2>6 DEF WriteTmp, Types
    <3>2. st'[s] # Idle
      BY <3>1 DEF Idle
    <3>3. Renaming(t)'
      BY <3>1, <3>2 DEF Renaming, Busy
    <3>4. QED
      BY <2>5, <3>3 DEF Leftover
  <2>7. CASE Rename(s)
    <3>1. tmp'[t] = NoFile \/ <<t, i>> \in stray'
      BY <2>2, <2>3, <2>7 DEF Rename, Types
    <3>2. QED
      BY <2>3, <2>5, <3>1 DEF Leftover
  <2>8. CASE CreateIndexFails(s)
    <3>1. <<t, i>> \in stray'
      BY <2>2, <2>8 DEF CreateIndexFails
    <3>2. QED
      BY <2>3, <2>5, <3>1 DEF Leftover
  <2>9. QED
    BY <1>7, <2>6, <2>7, <2>8
<1>8. CASE Sync \/ SyncFails \/ UNCHANGED vars
  <2>1. tmp' = tmp /\ stray' = stray /\ st' = st /\ spoiled' = spoiled
    BY <1>8 DEF Sync, SyncFails, vars, files, history
  <2>2. QED
    BY <2>1, LeftoverStays DEF Leftover
<1>9. CASE Stop \/ StopUnsynced \/ Open
  <2>1. tmp' = tmp /\ stray' = stray /\ spoiled = {}
    BY <1>9 DEF Stop, StopUnsynced, Open, files, history
  <2>2. \A s \in Sessions : st[s] = Idle
    BY <1>9, <2>1 DEF Stop, StopUnsynced, Open, IInv, Sound
  <2>3. \A t \in Tables : ~Renaming(t)
    BY <2>2 DEF Renaming, Busy
  <2>4. QED
    BY <2>1, <2>3 DEF Leftover
<1>10. CASE Crash
  <2>1. /\ tmp' = tmp /\ spoiled = {} /\ up = "up"
        /\ stray' = stray \cup {ti \in Tables \X Indexes :
                                  /\ ix[ti[1]][ti[2]] # "none"
                                  /\ ti[2] \notin meta[ti[1]].indexes}
    BY <1>10 DEF Crash, files
  <2>2. ASSUME NEW t \in Tables, Renaming(t) PROVE \E i \in Indexes : <<t, i>> \in stray'
    <3>1. PICK s \in Busy(t) : st[s].op = "index" /\ st[s].at = "rename"
      BY <2>2 DEF Renaming
    <3>2. s \in Sessions /\ st[s].t = t
      BY <3>1 DEF Busy
    <3>3. PICK i : i = st[s].i
      OBVIOUS
    <3>4. /\ Types /\ Present(t) /\ Whole(t) /\ Adding(s, t) /\ i \in Indexes
      BY <2>1, <3>1, <3>2, <3>3, AddState
    <3>5. i \in Names(Entry(t)) /\ i \notin Entry(t).listed /\ Entry(t).listed \subseteq Indexes
      BY <3>1, <3>3, <3>4, EntryType DEF Adding
    <3>6. ix[t][i] # "none"
      BY <3>4, <3>5 DEF Whole, Names
    <3>7. i \notin meta[t].indexes
      BY <3>4, <3>5, FileKinds DEF Present
    <3>8. QED
      BY <2>1, <3>4, <3>6, <3>7
  <2>3. QED
    BY <2>1, <2>2 DEF Leftover
<1>11. QED
  BY <1>1, <1>2, <1>3, <1>4, <1>5, <1>6, <1>7, <1>8, <1>9, <1>10 DEF Next

-----------------------------------------------------------------------------
(* The theorems *)

\* The inductive invariant: as long as no table is spoiled, every name in the
\* map has its Table and all its files up to the step its statement has come
\* to, every other name has none, and while the server is down the files of
\* every table are nothing or a table that opens (Db, Table).
THEOREM Inductive == Spec => []IInv
<1>1. Init => IInv
  BY InitIInv
<1>2. IInv /\ [Next]_vars => IInv'
  BY StepIInv
<1>3. QED
  BY <1>1, <1>2, PTL DEF Spec

\* What CREATE TABLE and CREATE INDEX answered with SUCCESS is there whenever
\* the server is up, however often it stopped or crashed and whatever calls a
\* CREATE INDEX was refused and noticed, unless some table was spoiled
\* (Table::create_index, Db::open_all_tables).
THEOREM Survives == Spec => []SurvivesRestart
<1>1. IInv => SurvivesRestart
  <2>1. SUFFICES ASSUME IInv, up = "up", spoiled = {}, NEW t \in Tables, acked[t] # NoFile
                 PROVE  /\ opened[t] # 0 /\ Entry(t).open
                        /\ acked[t].indexes \subseteq Entry(t).listed
                        /\ \A i \in Entry(t).listed :
                             \E k \in DOMAIN Entry(t).indexes : Entry(t).indexes[k] = i
    BY DEF SurvivesRestart
  <2>2. Types /\ UpOk(t)
    BY <2>1 DEF IInv, Sound
  <2>3. opened[t] # 0
    BY <2>1, <2>2 DEF UpOk, Absent
  <2>4. Present(t)
    BY <2>2, <2>3 DEF UpOk
  <2>5. Entry(t).open
    <3>1. \A s \in Busy(t) : st[s].op # "drop"
      BY <2>1, <2>4 DEF Present, Dropping
    <3>2. QED
      BY <2>4, <3>1 DEF Present, Whole
  <2>6. acked[t].indexes \subseteq Entry(t).listed
    <3>1. acked[t] = Json(Entry(t).listed) /\ Entry(t).listed \subseteq Indexes
      BY <2>1, <2>2, <2>4, EntryType DEF Present
    <3>2. QED
      BY <3>1, FileKinds
  <2>7. \A i \in Entry(t).listed : \E k \in DOMAIN Entry(t).indexes : Entry(t).indexes[k] = i
    BY <2>4 DEF Present, Names
  <2>8. QED
    BY <2>3, <2>5, <2>6, <2>7
<1>2. QED
  BY <1>1, Inductive, PTL

\* A name that is not a table, and that no statement is working on, has no
\* meta file, no data file and no index file or temporary meta file that a
\* CREATE INDEX did not leave, unless some table was spoiled (Table::drop,
\* Table::create).
THEOREM DroppedIsGone == Spec => []DropLeavesNothing
<1>1. IInv /\ Leftover => DropLeavesNothing
  <2>1. SUFFICES ASSUME IInv, Leftover, up = "up", spoiled = {}, NEW t \in Tables, Unused(t)
                 PROVE  /\ meta[t] = NoFile /\ data[t] = "none"
                        /\ \A i \in Indexes : ix[t][i] # "none" => <<t, i>> \in stray
                        /\ tmp[t] # NoFile => \E i \in Indexes : <<t, i>> \in stray
    BY DEF DropLeavesNothing
  <2>2. Types /\ Absent(t)
    BY <2>1 DEF IInv, Sound, UpOk, Unused
  <2>3. Busy(t) = {}
    BY <2>1, <2>2, BusyWith DEF Unused
  <2>4. tmp[t] # NoFile => \E i \in Indexes : <<t, i>> \in stray
    BY <2>1, <2>3 DEF Leftover, Renaming
  <2>5. QED
    BY <2>2, <2>3, <2>4 DEF Absent
<1>2. Init => Leftover
  BY DEF Init, Leftover
<1>3. Leftover /\ IInv /\ IInv' /\ [Next]_vars => Leftover'
  <2>1. CASE spoiled' = {}
    BY <2>1, LeftoverSteps
  <2>2. QED
    BY <2>1 DEF Leftover
<1>4. Spec => []Leftover
  BY <1>2, <1>3, Inductive, PTL DEF Spec
<1>5. QED
  BY <1>1, <1>4, Inductive, PTL
=============================================================================
