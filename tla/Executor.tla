------------------------------ MODULE Executor ------------------------------
(***************************************************************************)
(* SELECT with a join or a sub-select: ExecuteStage::do_select_v2, the     *)
(* executors that ExecutorBuilder builds for it, and a writer that inserts *)
(* into t2 meanwhile. Two shapes of statements are modelled:               *)
(*                                                                         *)
(*   join   SELECT out or aggs FROM t1 JOIN t2 ON on WHERE where GROUP BY  *)
(*   sub    SELECT out FROM t1 WHERE where AND side comp (SELECT fn(sel)   *)
(*          or sel FROM from WHERE inner), or the sub-select on the left;  *)
(*          from is t2 if it is a table, sel without fn is not of t1, and  *)
(*          every inner condition has a column of t2 and may have one of   *)
(*          t1                                                             *)
(*                                                                         *)
(* The executors run without a transaction, so that they see every row     *)
(* there is; a scan with Filter takes no index.                            *)
(***************************************************************************)
EXTENDS Conditions

CONSTANTS Statements,  \* what the sessions ask
          Data,        \* what the tables may hold
          Inserts      \* the rows the writer may insert into t2

VARIABLES rows,     \* the rows of the tables, committed or not
          writer,   \* "none", or "pending" while its insert is not committed, or "ended"
          st,       \* the statement that is executed: where it is, and its tuples
          read      \* history: what the scans of a table found there

vars == <<rows, writer, st, read>>

Init ==
  /\ rows \in Data
  /\ writer = "none"
  /\ st = [at |-> "idle"]
  /\ read = [t \in Tables |-> {}]

----------------------------------------------------------------------------
(* Another session *)

\* INSERT; the row is last in the table.
Insert ==
  /\ writer = "none" /\ st.at # "done"
  /\ \E row \in Inserts : rows' = [rows EXCEPT !["t2"] = Append(@, row)]
  /\ writer' = "pending"
  /\ UNCHANGED <<st, read>>

\* COMMIT or ROLLBACK
Finish ==
  /\ writer = "pending" /\ st.at # "done"
  /\ rows' \in {rows, [rows EXCEPT !["t2"] = Front(@)]}
  /\ writer' = "ended"
  /\ UNCHANGED <<st, read>>

----------------------------------------------------------------------------
(* Filters *)

Sides(c) == {c.left, c.right}
Constant(c) == \A s \in Sides(c) : ~IsAttr(s)
Unnamed(s) == IsAttr(s) /\ s.tab = ""

\* Filter::from_condition for a table: the conditions all of whose columns
\* are of the table; one without a table is taken for one of its own.
OfTable(conds, t) ==
  SelectSeq(conds, LAMBDA c : ~Constant(c) /\ \A s \in Sides(c) : IsAttr(s) => s.tab \in {t, ""})

\* With attr_only, the conditions between columns
BetweenColumns(conds) == SelectSeq(conds, LAMBDA c : \A s \in Sides(c) : IsAttr(s))

\* ban_all: a condition between values is false
BanAll(conds) ==
  \E c \in Range(conds) : /\ Constant(c) /\ Null \notin {c.left.val, c.right.val}
                          /\ ~CompareResult(Compare(c.left.val, c.right.val), c.comp)

\* The conditions before the one that bans all
Considered(conds) ==
  LET bans == {k \in DOMAIN conds : BanAll(<<conds[k]>>)}
  IN IF bans = {} THEN conds ELSE SubSeq(conds, 1, Min(bans) - 1)

\* bind_table: the columns exist and the types agree
Bound(t, c) == \A s \in Sides(c) : IF IsAttr(s) THEN s.col \in Range(Columns(t)) ELSE s.val # Null

\* The conditions that stop the server while the executors are built: NULL as
\* one of two values has no TupleValue, and the filters of a join are built
\* without a table that could own a column.
NoValue(conds) == \E c \in Range(Considered(conds)) : Constant(c) /\ Null \in {c.left.val, c.right.val}
NoOwner(conds) ==
  \E c \in Range(Considered(conds)) : Unnamed(c.left) \/ (IsAttr(c.left) /\ Unnamed(c.right))

\* pre_check for the select list and the conditions of WHERE. The columns of ON
\* must name a table of the statement; a sub-select, aggregates and GROUP BY
\* are not looked at.
PreCheck(s) ==
  LET sides == UNION {Sides(c) : c \in Range(s.where)} \cup (IF s.kind = "sub" THEN {s.side} ELSE {})
      ts == IF s.kind = "join" THEN <<"t1", "t2">> ELSE <<"t1">>
  IN /\ \A attr \in Range(s.out) \cup {x \in sides : IsAttr(x)} : Owned(ts, attr) \in Range(Fields(ts))
     /\ s.kind = "join" => \A c \in Range(s.on) : \A x \in Sides(c) : IsAttr(x) => x.tab \in Tables

----------------------------------------------------------------------------
(* The columns of aggregates, of GROUP BY and of a sub-select *)

\* A column without a table belongs to relations[0], here t.
Resolved(t, attr) == IF attr.tab = "" THEN [attr EXCEPT !.tab = t] ELSE attr
IsThere(t, attr) == Resolved(t, attr) \in Range(Fields(<<"t1", "t2">>))

\* build_agg_output_schema, whose error code nobody looks at. A star or a column
\* that its table does not have cuts it short, before anything is stored; a
\* table that is not there, and then a column of GROUP BY that is not, stops
\* the server.
BuildAgg(t, aggs, group) ==
  LET bad == {k \in DOMAIN aggs : ~IsThere(t, aggs[k].attr)}
      first == aggs[Min(bad)].attr
  IN CASE bad # {} -> IF first.col = "*" \/ Resolved(t, first).tab \in Tables THEN "cut" ELSE "aborts"
       [] \E k \in DOMAIN group : ~IsThere(t, group[k]) -> "aborts"
       [] OTHER -> "built"

\* ExecutorBuilder::build for a sub-select: from_table, and schema_add_field
\* without an aggregate
BuildSub(s) ==
  CASE s.from \notin Tables -> "aborts"
    [] s.fn # "NONE" -> BuildAgg("t2", <<[fn |-> s.fn, attr |-> s.sel]>>, <<>>)
    [] IsThere("t2", s.sel) -> "built"
    [] OTHER -> "aborts"

\* Filter::filter of a record: a NULL column holds whatever bytes are there.
Verdicts(c, row) ==
  LET l == InRecord(c.left, row)
      r == InRecord(c.right, row)
  IN IF Null \in {l, r} THEN BOOLEAN ELSE {CompareResult(Compare(l, r), c.comp)}

\* What ScanExecutor::next may return for the table t
Scans(t, conds) ==
  LET maybe == {k \in DOMAIN rows[t] : \A c \in Range(conds) : TRUE \in Verdicts(c, rows[t][k])}
      sure == {k \in maybe : \A c \in Range(conds) : FALSE \notin Verdicts(c, rows[t][k])}
      taken(S) == SetToSortSeq(sure \cup S, <)
  IN {[k \in DOMAIN taken(S) |-> ToTuple(t, rows[t][taken(S)[k]])] : S \in SUBSET (maybe \ sure)}

Reads(t) == read' = [read EXCEPT ![t] = @ \cup {rows[t]}]

Ends(result) == st' = [at |-> "done", stmt |-> st.stmt, result |-> result]

----------------------------------------------------------------------------
(* Joins *)

\* The filters of the join executor
JoinFilters(s) == BetweenColumns(s.on) \o BetweenColumns(s.where)

\* Filter::filter of two tuples, for the filters in turn: NULL has no order.
Joins(conds, tuple) ==
  LET Value(s) == InTuple(<<"t1", "t2">>, s, tuple)
      met(k) == CASE Null \in {Value(conds[k].left), Value(conds[k].right)} -> Aborted
                  [] CompareResult(Compare(Value(conds[k].left), Value(conds[k].right)), conds[k].comp) -> Result(TRUE)
                  [] OTHER -> Result(FALSE)
      stop == {k \in DOMAIN conds : met(k) # Result(TRUE)}
  IN IF stop = {} THEN Result(TRUE) ELSE met(Min(stop))

\* The columns of the output, those of the left table first
JoinColumns(out) == SelectSeq(out, LAMBDA a : a.tab \in {"t1", ""}) \o SelectSeq(out, LAMBDA a : a.tab = "t2")

\* MakeKey and MakeVal, and the groups. A row without columns cannot be printed.
Grouped(s, tuples) ==
  LET At(attr, tuple) == InTuple(<<"t1", "t2">>, attr, tuple)
      Key(tuple) == [k \in DOMAIN s.group |-> At(s.group[k], tuple)]
      keys == SetToSeq({Key(tuple) : tuple \in Range(tuples)})
  IN CASE tuples = <<>> -> Result(<<>>)
       [] BuildAgg("t1", s.aggs, s.group) = "cut" -> Aborted
       [] \E k \in DOMAIN keys : Null \in Range(keys[k]) -> Aborted
       [] OTHER -> Result([k \in DOMAIN keys |->
            LET S == SelectSeq(tuples, LAMBDA tuple : Key(tuple) = keys[k])
            IN keys[k] \o [i \in DOMAIN s.aggs |->
                             Aggregated(s.aggs[i].fn, [j \in DOMAIN S |-> At(s.aggs[i].attr, S[j])])]])

\* NestLoopJoinExecutor::next, then AggExecutor::next if there are aggregates
JoinAnswer(s, left, right) ==
  LET pairs == Product(<<left, right>>)
      met == [k \in DOMAIN pairs |-> Joins(JoinFilters(s), pairs[k])]
      kept == SetToSortSeq({k \in DOMAIN pairs : met[k] = Result(TRUE)}, <)
      tuples == [k \in DOMAIN kept |-> pairs[kept[k]]]
      columns == JoinColumns(s.out)
  IN CASE Aborted \in Range(met) -> Aborted
       [] s.aggs # <<>> -> Grouped(s, tuples)
       [] OTHER -> Result([k \in DOMAIN tuples |->
                             [i \in DOMAIN columns |-> InTuple(<<"t1", "t2">>, columns[i], tuples[k])]])

----------------------------------------------------------------------------
(* Sub-selects *)

\* The inner conditions between a column of t1 and one of t2:
\* build_multi_table_conditions
Correlated(s) == SelectSeq(s.inner, LAMBDA c : \A x \in Sides(c) : IsAttr(x) /\ {y.tab : y \in Sides(c)} = {"t1", "t2"})

\* add_multi_table_filter: the column of t1, whichever it is, becomes the
\* value of the outer row.
Substituted(c, v) == IF c.left.tab = "t1" THEN [c EXCEPT !.left = Val(v)] ELSE [c EXCEPT !.right = Val(v)]

\* The values of the sub-select, from the tuples of t2
SubValues(s, tuples) ==
  LET values == [k \in DOMAIN tuples |-> tuples[k][1]]
  IN IF s.fn = "NONE" THEN values
     ELSE IF values = <<>> THEN <<>>
     ELSE <<Aggregated(s.fn, values)>>

\* ValueHash: an int and a float that are equal have the same hash only if
\* they are 0, and so has NULL.
IsFloat(s) == s.fn \in {"SUM", "COUNT", "AVG"}
Member(s, v, values) == \E k \in DOMAIN values : values[k] = v /\ (v = 0 \/ ~IsFloat(s))
Clash(u, v) == {u, v} \subseteq {Null, 0} /\ Null \in {u, v}
SetAborts(values) == \E i, j \in DOMAIN values : i # j /\ Clash(values[i], values[j])

\* The comparison, with the sub-select on the right
OpOf(s) == IF s.subLeft THEN SymmetricOp(s.comp) ELSE s.comp
IsIn(s) == s.comp \in {"IN", "NOT_IN"}

Compares(s, v, w) ==
  IF Null \in {v, w} THEN Aborted
  ELSE Result(CompareResult(IF IsFloat(s) THEN v - w ELSE Compare(v, w), OpOf(s)))

\* Mutant: the first value of an empty sub-select is compared.
ReadsNothing(s, v, values) ==
  CASE IsIn(s) /\ (SetAborts(values) \/ (\E k \in DOMAIN values : Clash(v, values[k]))) -> Aborted
    [] IsIn(s) -> Result(Member(s, v, values) = (s.comp = "IN"))
    [] values = <<>> -> Aborted
    [] OTHER -> Compares(s, v, values[1])

\* Whether an outer row with the value v stays
Decide(s, v, values) ==
  CASE IsIn(s) /\ (SetAborts(values) \/ (\E k \in DOMAIN values : Clash(v, values[k]))) -> Aborted
    [] IsIn(s) -> Result(Member(s, v, values) = (s.comp = "IN"))
    [] values = <<>> -> Result(FALSE)
    [] OTHER -> Compares(s, v, values[1])

\* SubQueryExecutor::next asks a comparison for one aggregate, and finds none
\* that was not stored.
SubRefused(s) == ~IsIn(s) /\ (s.fn = "NONE" \/ BuildSub(s) = "cut")

\* An aggregate that was not stored has no column to read, and MakeVal throws
\* for a column of another table.
NoColumn(s, tuples) ==
  tuples # <<>> /\ s.fn # "NONE" /\ (BuildSub(s) = "cut" \/ Resolved("t2", s.sel).tab # "t2")

Project(s, tuples) ==
  [k \in DOMAIN tuples |-> [i \in DOMAIN s.out |-> InTuple(<<"t1">>, s.out[i], tuples[k])]]

----------------------------------------------------------------------------
(* Executing a statement *)

\* ExecutorBuilder::build
BuildAborts(s) ==
  \/ NoValue(s.where)
  \/ s.kind = "join" /\ (NoValue(s.on) \/ (~BanAll(s.on) /\ NoOwner(s.where)))
  \/ s.kind = "join" /\ BuildAgg("t1", s.aggs, s.group) = "aborts"
  \/ s.kind = "sub" /\ BuildSub(s) = "aborts"

\* Executor::init
InitFails(s) ==
  \/ /\ ~BanAll(s.where)
     /\ \E c \in Range(OfTable(s.where, "t1")) : ~Bound("t1", c)
  \/ /\ s.kind = "join" /\ ~BanAll(s.on) /\ ~BanAll(s.where)
     /\ \E c \in Range(OfTable(s.on \o s.where, "t2")) : ~Bound("t2", c)
  \/ s.kind = "sub" /\ \E c \in Range(OfTable(s.inner, "t2")) : ~Bound("t2", c)

\* handle_request as far as the executor's first table
Begin(s) ==
  /\ st.at = "idle"
  /\ st' = IF ~PreCheck(s) THEN [at |-> "done", stmt |-> s, result |-> Failed]
           ELSE IF BuildAborts(s) THEN [at |-> "done", stmt |-> s, result |-> Aborted]
           ELSE IF InitFails(s) \/ (s.kind = "sub" /\ (IsAttr(s.side) \/ BanAll(s.where)) /\ SubRefused(s))
           THEN [at |-> "done", stmt |-> s, result |-> Failed]
           ELSE [at |-> IF s.kind = "sub" /\ IsVal(s.side) /\ ~BanAll(s.where) THEN "constant" ELSE "left", stmt |-> s]
  /\ UNCHANGED <<rows, writer, read>>

\* from_condition for a value and a sub-select: the sub-select is executed
\* while the executors are built, and the condition is gone or bans all rows.
\* Its first row is read even if there is none.
Constantly ==
  /\ st.at = "constant"
  /\ Reads("t2")
  /\ \E tuples \in Scans("t2", OfTable(st.stmt.inner, "t2")) :
       LET values == SubValues(st.stmt, tuples)
           met == Compares(st.stmt, st.stmt.side.val, values[1])
       IN CASE tuples = <<>> \/ NoColumn(st.stmt, tuples) -> Ends(Aborted)
            [] tuples # <<>> /\ met = Aborted -> Ends(Aborted)
            [] tuples # <<>> /\ met = Result(FALSE) ->
                 IF SubRefused(st.stmt) THEN Ends(Failed) ELSE Ends(Result(<<>>))
            [] OTHER -> st' = [st EXCEPT !.at = "left"]
  /\ UNCHANGED <<rows, writer>>

\* ScanExecutor::next of t1
ScanLeft ==
  /\ st.at = "left"
  /\ LET s == st.stmt
         banned == BanAll(s.where) \/ (s.kind = "join" /\ BanAll(s.on))
     IN IF banned THEN Ends(Result(<<>>)) /\ UNCHANGED read
        ELSE /\ Reads("t1")
             /\ \E tuples \in Scans("t1", OfTable(s.where, "t1")) :
                  CASE s.kind = "join" -> st' = [at |-> "right", stmt |-> s, left |-> tuples]
                    [] s.kind = "sub" /\ (IsVal(s.side) \/ tuples = <<>>) -> Ends(Result(Project(s, tuples)))
                    [] OTHER -> st' = [at |-> IF Correlated(s) = <<>> THEN "probe" ELSE "row",
                                       stmt |-> s, left |-> tuples, kept |-> <<>>, filters |-> <<>>]
  /\ UNCHANGED <<rows, writer>>

\* ScanExecutor::next of t2, and the join
Join ==
  /\ st.at = "right"
  /\ Reads("t2")
  /\ \E right \in Scans("t2", OfTable(st.stmt.on \o st.stmt.where, "t2")) :
       Ends(JoinAnswer(st.stmt, st.left, right))
  /\ UNCHANGED <<rows, writer>>

OuterValue(tuple) == InTuple(<<"t1">>, st.stmt.side, tuple)

\* A sub-select that does not depend on the outer row is executed once.
Probe ==
  /\ st.at = "probe"
  /\ Reads("t2")
  /\ \E tuples \in Scans("t2", OfTable(st.stmt.inner, "t2")) :
       LET values == SubValues(st.stmt, tuples)
           met == [k \in DOMAIN st.left |-> Decide(st.stmt, OuterValue(st.left[k]), values)]
           kept == SetToSortSeq({k \in DOMAIN st.left : met[k] = Result(TRUE)}, <)
       IN IF Aborted \in Range(met) \/ NoColumn(st.stmt, tuples) THEN Ends(Aborted)
          ELSE Ends(Result(Project(st.stmt, [k \in DOMAIN kept |-> st.left[kept[k]]])))
  /\ UNCHANGED <<rows, writer>>

\* Mutant: no filter is ever removed.
KeepsFilters(filters, own, decided) == filters \o own

\* remove_multi_table_filter, which a comparison with an empty sub-select
\* does not reach
Remaining(filters, own, decided) == IF decided THEN filters ELSE filters \o own

\* The next outer row of a sub-select that depends on it. A row of t2 that
\* the filters left behind let pass meets the row's own filters, and a NULL
\* value has no type a column could be compared with.
Row ==
  /\ st.at = "row" /\ st.left # <<>>
  /\ Reads("t2")
  /\ LET s == st.stmt
         v == OuterValue(Head(st.left))
         own == [k \in DOMAIN Correlated(s) |-> Substituted(Correlated(s)[k], v)]
     IN \E before \in Scans("t2", st.filters) :
        IF v = Null /\ before # <<>> THEN Ends(Aborted)
        ELSE \E tuples \in IF v = Null THEN {<<>>} ELSE Scans("t2", st.filters \o own \o OfTable(s.inner, "t2")) :
               LET values == SubValues(s, tuples)
                   met == Decide(s, v, values)
                   decided == IsIn(s) \/ values # <<>>
               IN IF met = Aborted \/ NoColumn(s, tuples) THEN Ends(Aborted)
                  ELSE st' = [st EXCEPT !.left = Tail(@),
                                        !.kept = IF met = Result(TRUE) THEN Append(@, Head(st.left)) ELSE @,
                                        !.filters = Remaining(@, own, decided)]
  /\ UNCHANGED <<rows, writer>>

LastRow ==
  /\ st.at = "row" /\ st.left = <<>>
  /\ Ends(Result(Project(st.stmt, st.kept)))
  /\ UNCHANGED <<rows, writer, read>>

Next ==
  \/ Insert
  \/ Finish
  \/ \E s \in Statements : Begin(s)
  \/ Constantly
  \/ ScanLeft
  \/ Join
  \/ Probe
  \/ Row
  \/ LastRow

Spec == Init /\ [][Next]_vars

----------------------------------------------------------------------------
(* What the statements mean, over the rows that were read *)

Seen == [t \in Tables |-> IF read[t] = {} THEN rows[t] ELSE CHOOSE r \in read[t] : TRUE]

Holds(conds, env) == \A c \in Range(conds) : SqlHolds(c, env)

JoinMatches(s) ==
  {at \in Places(<<"t1", "t2">>, Seen) : Holds(s.on, EnvAt(at, Seen)) /\ Holds(s.where, EnvAt(at, Seen))}

JoinMeans(s, answer) ==
  LET V(attr, at) == SqlValue(attr, EnvAt(at, Seen))
      key(at) == [k \in DOMAIN s.group |-> V(s.group[k], at)]
      group(K) == {at \in JoinMatches(s) : key(at) = K}
      row(K) == K \o [k \in DOMAIN s.aggs |-> SqlAggregate(s.aggs[k].fn, group(K), LAMBDA at : V(s.aggs[k].attr, at))]
      out(at) == [k \in DOMAIN s.out |-> V(s.out[k], at)]
      keys == IF s.group = <<>> THEN {<<>>} ELSE {key(at) : at \in JoinMatches(s)}
  IN IF s.aggs = <<>> THEN Occurrences(answer) = Counted(JoinMatches(s), out)
     ELSE Range(answer) = {row(K) : K \in keys} /\ Len(answer) = Cardinality(keys)

\* The rows of t2 the sub-select takes for a row of t1
InnerRows(s, row) ==
  {k \in DOMAIN Seen.t2 : Holds(s.inner, [t1 |-> row, t2 |-> Seen.t2[k]])}

SubHolds(s, row) ==
  LET v == SqlValue(s.side, [t1 |-> row])
      inner == InnerRows(s, row)
      w == SqlAggregate(s.fn, inner, LAMBDA k : Seen.t2[k].c)
      set == IF s.fn = "NONE" THEN {Seen.t2[k].c : k \in inner} ELSE {w}
  IN CASE s.comp = "IN" -> v \in set \ {Null}
       [] s.comp = "NOT_IN" -> set = {} \/ (v # Null /\ set \cap {v, Null} = {})
       [] s.subLeft -> SqlCompares(Whole(w), s.comp, Whole(v))
       [] OTHER -> SqlCompares(Whole(v), s.comp, Whole(w))

SubMeans(s, answer) ==
  LET kept == {k \in DOMAIN Seen.t1 : Holds(s.where, [t1 |-> Seen.t1[k]]) /\ SubHolds(s, Seen.t1[k])}
  IN Occurrences(answer) =
       Counted(kept, LAMBDA k : [i \in DOMAIN s.out |-> SqlValue(s.out[i], [t1 |-> Seen.t1[k]])])

\* The columns and the integers a statement compares
Conds(s) == Range(s.where) \cup IF s.kind = "join" THEN Range(s.on) ELSE Range(s.inner)
Compared(s) == UNION {Sides(c) : c \in Conds(s)} \cup IF s.kind = "join" THEN {} ELSE {s.side, Attr("t2", "c")}
Values(s) == UNION {IF IsVal(x) THEN {x.val} ELSE {row[x.col] : row \in Range(Seen[HomeOf(x)])} : x \in Compared(s)}

HasNull(s) == Null \in Values(s)
Overflows(s) == \E x, y \in Values(s) \ {Null} : ~InRange(x - y)

\* What a join is not held to: its columns when a later one belongs to t1, a
\* condition of ON about t1 alone, which nobody evaluates, and aggregates
\* without GROUP BY of no rows, which answer no row instead of one.
JoinExcused(s) ==
  \/ s.aggs # <<>> /\ s.group = <<>> /\ JoinMatches(s) = {}
  \/ s.aggs = <<>> /\ JoinColumns(s.out) # s.out
  \/ \E c \in Range(s.on) : {x.tab : x \in {y \in Sides(c) : IsAttr(y)}} = {"t1"}
                            /\ \E x \in Sides(c) : IsVal(x)

\* What a sub-select is not held to: a correlation with another column than
\* the one that is compared, a set of floats, a comparison or an aggregate for
\* which some row of t1 has no inner row.
SubExcused(s) ==
  \/ \E c \in Range(Correlated(s)) : s.side \notin Sides(c)
  \/ IsIn(s) /\ IsFloat(s)
  \/ (~IsIn(s) \/ s.fn # "NONE") /\ \E row \in Range(Seen.t1) : InnerRows(s, row) = {}

Excused(s) ==
  HasNull(s) \/ Overflows(s) \/ IF s.kind = "join" THEN JoinExcused(s) ELSE SubExcused(s)

----------------------------------------------------------------------------
(* Properties *)

\* What a join or a sub-select answers (do_select_v2) is what its clauses ask
\* for, over the rows its scans found, committed or not, as long as every
\* scan of a table found the same.
AnswersMeanQuery ==
  st.at = "done" /\ st.result.is = "value" /\ (\A t \in Tables : Cardinality(read[t]) <= 1)
  /\ ~Excused(st.stmt) =>
    IF st.stmt.kind = "join" THEN JoinMeans(st.stmt, st.result.val) ELSE SubMeans(st.stmt, st.result.val)

\* Does the scan of a sub-select that is compared with a value find no row?
FindsNothing(s) ==
  \A row \in Range(Seen.t2) : \E c \in Range(OfTable(s.inner, "t2")) : FALSE \in Verdicts(c, row)

\* Without NULL in what it compares or groups by, a statement stops the server
\* only when a condition of a join leaves out the table; when it counts rows
\* with a star, or aggregates, groups by or selects in a sub-select what is not
\* there, or aggregates what the sub-select does not read; or when a value is
\* compared with a sub-select that finds no row while the executors are built.
AbortsOnlyOn ==
  st.at = "done" /\ st.result = Aborted =>
    LET s == st.stmt
        null(attr) == \E row \in Range(Seen[HomeOf(attr)]) : row[attr.col] = Null
    IN \/ HasNull(s)
       \/ s.kind = "join" /\ \/ NoOwner(s.where)
                             \/ \E k \in DOMAIN s.aggs : ~IsThere("t1", s.aggs[k].attr)
                             \/ \E k \in DOMAIN s.group : ~IsThere("t1", s.group[k]) \/ null(s.group[k])
       \/ s.kind = "sub" /\ \/ s.from # "t2" \/ Resolved("t2", s.sel) # Attr("t2", "c")
                            \/ IsVal(s.side) /\ FindsNothing(s)
=============================================================================
