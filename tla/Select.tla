------------------------------- MODULE Select -------------------------------
(***************************************************************************)
(* SELECT without joins and sub-selects: ExecuteStage::do_select, run by   *)
(* several SQL threads. A statement scans its tables, combines them, then  *)
(* aggregates, or sorts and prints. The comparison that std::sort calls    *)
(* finds its columns through static pointers that all threads share.       *)
(*                                                                         *)
(* A query is a record: rels (the tables), out (the columns asked for),    *)
(* exps (the expressions asked for; they are printed after the columns),   *)
(* conds (the WHERE clause), order (ORDER BY), aggs (the aggregates),      *)
(* group (GROUP BY). The tables do not change while it runs.               *)
(***************************************************************************)
EXTENDS Conditions

CONSTANTS Workers,        \* the SQL threads
          Nobody,         \* not a worker
          QueriesOf(_),   \* the queries of the sessions a worker serves
          Data            \* what the tables may hold

VARIABLES data,     \* the rows of the tables
          indexed,  \* whether there is an index on t1.b
          job,      \* per worker: its query, what it does and its tuples
          sortBy,   \* TupleSortUtil: whose columns the static pointers name
          overlap,  \* history: the workers another one disturbed while sorting
          aborted   \* the query whose assertion stopped the server

vars == <<data, indexed, job, sortBy, overlap, aborted>>

Idle == [at |-> "idle"]
None == [is |-> "none"]

Init ==
  /\ data \in Data
  /\ indexed \in BOOLEAN
  /\ job = [w \in Workers |-> Idle]
  /\ sortBy = Nobody
  /\ overlap = {}
  /\ aborted = None

Running == aborted = None

Answer(w, result) == job' = [job EXCEPT ![w] = [at |-> "done", query |-> @.query, result |-> result]]

\* An assertion failed.
Abort(w) == /\ aborted' = job[w].query
            /\ UNCHANGED <<data, indexed, job, sortBy, overlap>>

----------------------------------------------------------------------------
(* Checking the statement and reading its tables *)

\* pre_check: a table must be named when there are several, and must have the
\* columns asked for and compared; expressions are not looked at.
Known(ts, attr) ==
  /\ attr.tab # "" \/ Len(ts) = 1
  /\ Owned(ts, attr) \in Range(Fields(ts))

Sides(q) == {c.left : c \in Range(q.conds)} \cup {c.right : c \in Range(q.conds)}

PreCheck(q) == \A attr \in Range(q.out) \cup {s \in Sides(q) : IsAttr(s)} : Known(q.rels, attr)

\* match_table
MatchTable(q, attr, t) == attr.tab = t \/ (attr.tab = "" /\ Len(q.rels) = 1)

\* create_selection_executor: the conditions that concern only the table t
OfTable(q, t) ==
  SelectSeq(q.conds, LAMBDA c : /\ ~HasExp(c)
                                /\ \A s \in {c.left, c.right} : IsAttr(s) => MatchTable(q, s, t))

Accepted(q) ==
  /\ PreCheck(q)
  /\ \A t \in Range(q.rels) : \A c \in Range(OfTable(q, t)) : ~Refused(c)

Begin(w, q) ==
  /\ Running /\ job[w].at = "idle"
  /\ IF Accepted(q)
     THEN job' = [job EXCEPT ![w] = [at |-> "scan", query |-> q, sets |-> <<>>]]
     ELSE job' = [job EXCEPT ![w] = [at |-> "done", query |-> q, result |-> Failed]]
  /\ UNCHANGED <<data, indexed, sortBy, overlap, aborted>>

\* The rows a scan visits. find_index_for_scan reads is_null of a column's
\* side, which nobody sets, so that it may skip any condition it could use.
Visits(q, t) ==
  LET usable == {c \in Range(OfTable(q, t)) : indexed /\ t = "t1" /\ ForIndex(c, "b")}
  IN {data[t]} \cup {ByIndex(data[t], "b", c) : c \in usable}

Kept(rows, conds) == SelectSeq(rows, LAMBDA row : \A c \in Range(conds) : RecordFilter(c, row))

\* SelectExeNode::execute of the next table
Scan(w) ==
  /\ Running /\ job[w].at = "scan"
  /\ LET q == job[w].query
         t == q.rels[Len(job[w].sets) + 1]
     IN \E rows \in Visits(q, t) :
          LET kept == Kept(rows, OfTable(q, t))
              sets == Append(job[w].sets, [k \in DOMAIN kept |-> ToTuple(t, kept[k])])
          IN job' = [job EXCEPT ![w].sets = sets,
                                ![w].at = IF Len(sets) < Len(q.rels) THEN "scan" ELSE "combine"]
  /\ UNCHANGED <<data, indexed, sortBy, overlap, aborted>>

\* cartesianExeNode: the conditions between columns, on the tuples of all tables
Combined(q, sets) ==
  IF Len(sets) = 1 THEN sets[1]
  ELSE SelectSeq(Product(sets), LAMBDA tuple :
                   \A c \in Range(q.conds) :
                     IsAttr(c.left) /\ IsAttr(c.right) => CartesianFilter(q.rels, c, tuple))

Combine(w) ==
  /\ Running /\ job[w].at = "combine"
  /\ LET q == job[w].query
     IN job' = [job EXCEPT ![w] = [at |-> CASE q.aggs # <<>> -> "aggregate"
                                            [] q.order # <<>> -> "order"
                                            [] OTHER -> "output",
                                   query |-> q,
                                   tuples |-> Combined(q, job[w].sets)]]
  /\ UNCHANGED <<data, indexed, sortBy, overlap, aborted>>

----------------------------------------------------------------------------
(* Aggregates *)

\* Without a table an attribute of an aggregate, of GROUP BY and of ORDER BY
\* is looked for in relations[0], the last table of the statement.
InLast(q, attr) == IF attr.tab = "" THEN [attr EXCEPT !.tab = Last(q.rels)] ELSE attr

\* No table of the database has the column; or only one that the statement
\* does not read.
Missing(q, attr) == InLast(q, attr) \notin Range(Fields(<<"t1", "t2">>))
Elsewhere(q, attr) == ~Missing(q, attr) /\ InLast(q, attr) \notin Range(Fields(q.rels))
At(q, attr, tuple) == InTuple(q.rels, InLast(q, attr), tuple)

\* MakeVal: a star counts as the value 1
ValueOf(q, agg, tuple) == IF agg.attr.col = "*" THEN 1 ELSE At(q, agg.attr, tuple)

\* MakeKey
KeyOf(q, tuple) == [k \in DOMAIN q.group |-> At(q, q.group[k], tuple)]

\* AggregationExeNode::execute; the rows come in the order of the keys
Groups(q, tuples) ==
  LET keys == SetToSeq({KeyOf(q, tuple) : tuple \in Range(tuples)})
      Member(key) == SelectSeq(tuples, LAMBDA tuple : KeyOf(q, tuple) = key)
  IN [k \in DOMAIN keys |->
        LET S == Member(keys[k])
        IN keys[k] \o [i \in DOMAIN q.aggs |->
                         Aggregated(q.aggs[i].fn, [j \in DOMAIN S |-> ValueOf(q, q.aggs[i], S[j])])]]

\* aggreDesc_check_and_set asserts that there is the table
Checked(q, agg) ==
  CASE agg.attr.col = "*" -> IF agg.fn = "COUNT" THEN Result(TRUE) ELSE Failed
    [] InLast(q, agg.attr).tab \notin Tables -> Aborted
    [] Missing(q, agg.attr) -> Failed
    [] OTHER -> Result(TRUE)

\* MakeKey and MakeVal for a tuple: a column that was not read throws. Keys
\* are compared, also with themselves, and NULL cannot be.
Ungroupable(q, tuple) ==
  \/ \E attr \in Range(q.group) \cup {q.aggs[k].attr : k \in DOMAIN q.aggs} : Elsewhere(q, attr)
  \/ Null \in Range(KeyOf(q, tuple))

\* create_aggregation_executor, where the first aggregate that is refused
\* decides, and the execution of its node
GroupsOrStops(q, tuples) ==
  LET bad == {k \in DOMAIN q.aggs : Checked(q, q.aggs[k]) # Result(TRUE)}
  IN CASE bad # {} -> Checked(q, q.aggs[Min(bad)])
       [] \E attr \in Range(q.group) : Missing(q, attr) -> Aborted
       [] \E tuple \in Range(tuples) : Ungroupable(q, tuple) -> Aborted
       [] OTHER -> Result(Groups(q, tuples))

Aggregate(w) ==
  /\ Running /\ job[w].at = "aggregate"
  /\ LET result == GroupsOrStops(job[w].query, job[w].tuples)
     IN IF result = Aborted THEN Abort(w)
        ELSE Answer(w, result) /\ UNCHANGED <<data, indexed, sortBy, overlap, aborted>>

----------------------------------------------------------------------------
(* Sorting *)

\* The workers between TupleSortUtil::set and the end of their std::sort
Sorting == {w \in Workers : job[w].at = "sort"}

\* create_orderby_executor, whose error fails an assertion, and
\* TupleSortUtil::set
SetOrder(w) ==
  /\ Running /\ job[w].at = "order"
  /\ IF \E k \in DOMAIN job[w].query.order : Missing(job[w].query, job[w].query.order[k].attr)
     THEN Abort(w)
     ELSE /\ sortBy' = w
          /\ overlap' = overlap \cup Sorting
          /\ job' = [job EXCEPT ![w].at = "sort"]
          /\ UNCHANGED <<data, indexed, aborted>>

\* Mutant: the order of the first column decides alone.
FirstColumnOnly(q, x, y) ==
  LET a == q.order[1].attr
      diff == Compare(At(q, a, x), At(q, a, y))
  IN IF q.order[1].desc THEN diff > 0 ELSE diff < 0

\* TupleSortUtil::cmp: x goes before y
Cmp(q, x, y) ==
  \E k \in DOMAIN q.order :
    LET diff(j) == Compare(At(q, q.order[j].attr, x), At(q, q.order[j].attr, y))
    IN /\ \A j \in 1 .. k - 1 : diff(j) = 0
       /\ IF q.order[k].desc THEN diff(k) > 0 ELSE diff(k) < 0

Orders(tuples) == {[k \in DOMAIN tuples |-> tuples[p[k]]] :
                     p \in {f \in [DOMAIN tuples -> DOMAIN tuples] : IsInjective(f)}}

SortedBy(q, tuples) == \A i, j \in DOMAIN tuples : i < j => ~Cmp(q, tuples[j], tuples[i])

\* std::sort compares every tuple with a neighbour. NULL cannot be compared,
\* and a column that was not read throws.
Uncomparable(q, tuples) ==
  \E i, j \in DOMAIN tuples, k \in DOMAIN q.order :
    LET v(n, m) == At(q, q.order[m].attr, tuples[n])
    IN /\ i # j
       /\ \A m \in 1 .. k - 1 : v(i, m) = v(j, m) /\ v(i, m) # Null
       /\ ~Elsewhere(q, q.order[k].attr) => v(i, k) = Null

\* OrderByExeNode::execute. Sorting by another statement's columns, which may
\* be gone, orders the tuples in any way or stops the server.
Sort(w) ==
  /\ Running /\ job[w].at = "sort"
  /\ LET q == job[w].query
         tuples == job[w].tuples
     IN \/ /\ \/ sortBy # w /\ Len(tuples) > 1
              \/ sortBy = w /\ Uncomparable(q, tuples)
           /\ Abort(w)
        \/ /\ sortBy = w => ~Uncomparable(q, tuples)
           /\ \E order \in Orders(tuples) :
                /\ sortBy = w => SortedBy(q, order)
                /\ job' = [job EXCEPT ![w].tuples = order, ![w].at = "output"]
           /\ UNCHANGED <<data, indexed, sortBy, overlap, aborted>>

----------------------------------------------------------------------------
(* Printing *)

\* Mutant: the expressions are calculated before the filters are tried.
CalculatesFirst(q, tuple) ==
  LET calc == [k \in DOMAIN q.exps |-> Calculate(q.rels, q.exps[k], tuple)]
      met == {ExpressionFilter(q.rels, c, tuple) : c \in Range(SelectSeq(q.conds, HasExp))}
  IN CASE Aborted \in met \/ (\E k \in DOMAIN calc : calc[k].is # "value") -> Aborted
       [] met \subseteq {Result(TRUE)} ->
            Result([k \in DOMAIN q.out |-> InTuple(q.rels, q.out[k], tuple)]
                   \o [k \in DOMAIN calc |-> calc[k].val])
       [] OTHER -> Failed

\* One tuple in ExpExeNode::execute: left out, printed or the end. The
\* filters are tried in turn, and one that fails leaves the tuple out.
Printed(q, tuple) ==
  LET exp == SelectSeq(q.conds, HasExp)
      met(k) == ExpressionFilter(q.rels, exp[k], tuple)
      stop == {k \in DOMAIN exp : met(k) # Result(TRUE)}
      first == CHOOSE k \in stop : \A j \in stop : k <= j
      calc == [k \in DOMAIN q.exps |-> Calculate(q.rels, q.exps[k], tuple)]
  IN CASE stop # {} -> IF met(first) = Aborted THEN Aborted ELSE Failed
       [] stop = {} /\ \E k \in DOMAIN calc : calc[k].is # "value" -> Aborted
       [] OTHER -> Result([k \in DOMAIN q.out |-> InTuple(q.rels, q.out[k], tuple)]
                          \o [k \in DOMAIN calc |-> calc[k].val])

\* create_output_executor, create_expression_executor and ExpExeNode::execute
Output(w) ==
  /\ Running /\ job[w].at = "output"
  /\ LET q == job[w].query
         printed == [k \in DOMAIN job[w].tuples |-> Printed(q, job[w].tuples[k])]
         kept == SelectSeq(printed, LAMBDA p : p # Failed)
     IN IF Aborted \in Range(printed) THEN Abort(w)
        ELSE /\ Answer(w, Result([k \in DOMAIN kept |-> kept[k].val]))
             /\ UNCHANGED <<data, indexed, sortBy, overlap, aborted>>

Next == \E w \in Workers :
          \/ \E q \in QueriesOf(w) : Begin(w, q)
          \/ Scan(w)
          \/ Combine(w)
          \/ Aggregate(w)
          \/ SetOrder(w)
          \/ Sort(w)
          \/ Output(w)

Spec == Init /\ [][Next]_vars

----------------------------------------------------------------------------
(* What the statements mean *)

\* The rows, one of every table, that satisfy the WHERE clause
Matches(q) ==
  {at \in Places(q.rels, data) : \A c \in Range(q.conds) : SqlHolds(c, EnvAt(at, data))}

SqlColumns(q, at) ==
  [k \in DOMAIN q.out |-> SqlValue(q.out[k], EnvAt(at, data))]
  \o [k \in DOMAIN q.exps |-> SqlValue(q.exps[k], EnvAt(at, data))]

SqlKey(q, at) == [k \in DOMAIN q.group |-> SqlValue(q.group[k], EnvAt(at, data))]

\* The row of a group of matches
SqlGroup(q, S) ==
  [k \in DOMAIN q.aggs |->
     LET v(at) == IF q.aggs[k].attr.col = "*" THEN 1 ELSE SqlValue(q.aggs[k].attr, EnvAt(at, data))
     IN SqlAggregate(q.aggs[k].fn, S, v)]

\* An aggregate without GROUP BY has one group, even if nothing matches.
SqlGroups(q) ==
  LET keys == IF q.group = <<>> THEN {<<>>} ELSE {SqlKey(q, at) : at \in Matches(q)}
  IN {key \o SqlGroup(q, {at \in Matches(q) : SqlKey(q, at) = key}) : key \in keys}

\* What the answer is not held to: two compared integers further apart than
\* an int can say, an index used for a condition with its column on the
\* right, an expression in the WHERE clause of an aggregate, which nobody
\* evaluates, and an aggregate without GROUP BY of no rows, which answers no
\* row instead of one.
Ints(q) ==
  (UNION {Range(ToTuple(t, row)) : <<t, row>> \in UNION {{t} \X Range(data[t]) : t \in Range(q.rels)}}
   \cup {s.val : s \in {x \in Sides(q) : IsVal(x)}}) \ {Null}
Overflows(q) == \E x, y \in Ints(q) : ~InRange(x - y)
Mirrored(q) == indexed /\ \E c \in Range(q.conds) : IsAttr(c.right) /\ ForIndex(c, "b")
                                                   /\ c.comp # SymmetricOp(c.comp)
Unfiltered(q) == q.aggs # <<>> /\ \E c \in Range(q.conds) : HasExp(c)
EmptyAggregate(q) == q.aggs # <<>> /\ q.group = <<>> /\ Matches(q) = {}
Excused(q) == Overflows(q) \/ Mirrored(q) \/ Unfiltered(q) \/ EmptyAggregate(q)

Done(w) == job[w].at = "done" /\ job[w].result.is = "value"

----------------------------------------------------------------------------
(* Properties *)

\* The rows a SELECT answers (do_select) are those its clauses ask for, each
\* as often as the tables hold it, with or without an index.
AnswersMeanQuery ==
  \A w \in Workers :
    Done(w) /\ ~Excused(job[w].query) =>
      LET q == job[w].query
          rows == job[w].result.val
      IN IF q.aggs = <<>>
         THEN Occurrences(rows) = Counted(Matches(q), LAMBDA at : SqlColumns(q, at))
         ELSE Range(rows) = SqlGroups(q) /\ Len(rows) = Cardinality(SqlGroups(q))

\* A statement that sorted (OrderByExeNode) while no other one set the static
\* columns of TupleSortUtil has its tuples in the order it asked for: the
\* first ORDER BY column in which two tuples differ decides.
SortedUndisturbed ==
  \A w \in Workers :
    job[w].at = "output" /\ w \notin overlap /\ ~Overflows(job[w].query) =>
      LET q == job[w].query
          v(i, k) == At(q, q.order[k].attr, job[w].tuples[i])
      IN \A i, j \in DOMAIN job[w].tuples : i < j =>
           \A k \in DOMAIN q.order :
             (\A m \in 1 .. k - 1 : v(i, m) = v(j, m)) =>
               IF q.order[k].desc THEN v(i, k) >= v(j, k) ELSE v(i, k) <= v(j, k)

\* The server stops only for a statement that sorts or groups by a column that
\* is NULL somewhere, that sorts, groups or aggregates by a column that is not
\* there or that it does not read, that compares an expression with a column,
\* calculates with NULL or with a column that is not there or lacks its table,
\* or divides a row it should print by zero, or that sorted while another one
\* did.
AbortsOnlyOn ==
  LET q == aborted
      keys == {q.order[k].attr : k \in DOMAIN q.order} \cup Range(q.group)
      conds == {c \in Range(q.conds) : HasExp(c)}
      exps == Range(q.exps) \cup {s \in Sides(q) : IsExp(s)}
      operands == {e.l : e \in exps} \cup {e.r : e \in exps}
      null(attr) == \E k \in DOMAIN data[HomeOf(attr)] : data[HomeOf(attr)][k][attr.col] = Null
  IN aborted # None =>
       \/ \E attr \in keys : Missing(q, attr) \/ Elsewhere(q, attr) \/ null(attr)
       \/ \E k \in DOMAIN q.aggs : \/ Elsewhere(q, q.aggs[k].attr)
                                  \/ InLast(q, q.aggs[k].attr).tab \notin Tables
       \/ \E c \in conds : \E s \in {c.left, c.right} : IsAttr(s) \/ (IsVal(s) /\ s.val = Null)
       \/ \E s \in operands : IsAttr(s) /\ (~Known(q.rels, s) \/ null(s))
       \/ \E e \in Range(q.exps), at \in Matches(q) :
            e.node = "DIVN" /\ SqlValue(e.r, EnvAt(at, data)) = 0
       \/ overlap # {}
=============================================================================
