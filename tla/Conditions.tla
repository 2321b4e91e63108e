----------------------------- MODULE Conditions -----------------------------
(***************************************************************************)
(* Values, conditions and the filters built from them: what SQL says a     *)
(* condition means, and what DefaultConditionFilter, the cartesian filters *)
(* and the expression filters do. Both ways of executing a SELECT use      *)
(* these.                                                                  *)
(*                                                                         *)
(* There are two tables, t1(a, b) and t2(c). Values are integers of Width  *)
(* bits, and NULL in the columns b and c. A tuple is a sequence of values. *)
(* A side of a condition is an attribute (its table "" when the statement  *)
(* does not name it), a value or an expression.                            *)
(***************************************************************************)
EXTENDS Integers, FiniteSets, SequencesExt

CONSTANTS Null,    \* NullValue, and a value with isnull
          AInts,   \* the values of column a
          BInts,   \* the values of columns b and c, besides Null
          Width    \* the bits of an int

MinInt == -(2 ^ (Width - 1))

ASSUME WidthAssumption == Width \in Nat \ {0}
ASSUME IntsAssumption ==
  /\ AInts \cup BInts \subseteq MinInt .. -MinInt - 1
  /\ Null \notin AInts \cup BInts

Tables == {"t1", "t2"}
Columns(t) == IF t = "t1" THEN <<"a", "b">> ELSE <<"c">>
RowType(t) == IF t = "t1" THEN [a : AInts, b : BInts \cup {Null}] ELSE [c : BInts \cup {Null}]

Attr(t, c) == [kind |-> "attr", tab |-> t, col |-> c]
Val(v) == [kind |-> "val", val |-> v]
Exp(l, node, r) == [kind |-> "exp", l |-> l, node |-> node, r |-> r]
Cond(l, comp, r) == [left |-> l, comp |-> comp, right |-> r]

IsAttr(side) == side.kind = "attr"
IsVal(side) == side.kind = "val"
IsExp(side) == side.kind = "exp"
HasExp(c) == IsExp(c.left) \/ IsExp(c.right)

----------------------------------------------------------------------------
(* Comparing *)

InRange(n) == n \in MinInt .. -MinInt - 1
Wrapped(n) == ((n - MinInt) % (2 ^ Width)) + MinInt

\* IntValue::compare: the sign of a difference that may overflow
Compare(x, y) == Wrapped(x - y)

\* compare_result
CompareResult(cmp, comp) ==
  CASE comp = "EQUAL_TO"    -> cmp = 0
    [] comp = "LESS_EQUAL"  -> cmp <= 0
    [] comp = "NOT_EQUAL"   -> cmp # 0
    [] comp = "LESS_THAN"   -> cmp < 0
    [] comp = "GREAT_EQUAL" -> cmp >= 0
    [] comp = "GREAT_THAN"  -> cmp > 0
    [] OTHER                -> FALSE

\* symmetric_op
SymmetricOp(comp) ==
  CASE comp = "LESS_EQUAL"  -> "GREAT_EQUAL"
    [] comp = "GREAT_EQUAL" -> "LESS_EQUAL"
    [] comp = "LESS_THAN"   -> "GREAT_THAN"
    [] comp = "GREAT_THAN"  -> "LESS_THAN"
    [] OTHER                -> comp

----------------------------------------------------------------------------
(* DefaultConditionFilter, on a record *)

InRecord(side, row) == IF IsAttr(side) THEN row[side.col] ELSE side.val

\* init refuses IS and IS NOT with anything but NULL.
Refused(c) ==
  c.comp \in {"IS", "IS_NOT"} /\ ~(IsVal(c.right) /\ c.right.val = Null)

\* Mutant: two NULLs are equal.
NullsEqual(c, row) ==
  LET l == InRecord(c.left, row)
      r == InRecord(c.right, row)
  IN IF l = Null \/ r = Null
     THEN (l = r /\ c.comp \in {"IS", "EQUAL_TO"}) \/ (c.comp = "IS_NOT" /\ l # Null)
     ELSE CompareResult(Compare(l, r), c.comp)

\* filter
RecordFilter(c, row) ==
  LET l == InRecord(c.left, row)
      r == InRecord(c.right, row)
  IN IF l = Null \/ r = Null
     THEN \/ c.comp = "IS" /\ l = Null /\ r = Null
          \/ c.comp = "IS_NOT" /\ l # Null /\ r = Null
     ELSE CompareResult(Compare(l, r), c.comp)

\* The conditions find_index_for_scan can use for an index on column col.
ForIndex(c, col) ==
  /\ c.comp \notin {"IS", "IS_NOT"}
  /\ \/ IsAttr(c.left) /\ IsVal(c.right) /\ c.left.col = col /\ c.right.val # Null
     \/ IsVal(c.left) /\ IsAttr(c.right) /\ c.right.col = col /\ c.left.val # Null

IndexValue(c) == IF IsVal(c.right) THEN c.right.val ELSE c.left.val

\* scan_record_by_index with the condition c: its operator is given to the
\* index as if the column stood on the left. Rows with NULL have no entry.
ByIndex(rows, col, c) ==
  LET hit == {i \in DOMAIN rows : rows[i][col] # Null
                                  /\ CompareResult(rows[i][col] - IndexValue(c), c.comp)}
      order == SetToSortSeq(hit, LAMBDA i, j : \/ rows[i][col] < rows[j][col]
                                               \/ rows[i][col] = rows[j][col] /\ i < j)
  IN [k \in DOMAIN order |-> rows[order[k]]]

\* TupleRecordConverter::add_record
ToTuple(t, row) == [k \in DOMAIN Columns(t) |-> row[Columns(t)[k]]]

----------------------------------------------------------------------------
(* Tuples of several tables *)

\* create_field_index: the tables ts of a statement and their columns, in
\* the order of its tuples
Fields(ts) == FlattenSeq([k \in DOMAIN ts |-> [j \in DOMAIN Columns(ts[k]) |-> Attr(ts[k], Columns(ts[k])[j])]])

\* An attribute without a table belongs to the only table.
Owned(ts, attr) == IF attr.tab = "" THEN [attr EXCEPT !.tab = ts[1]] ELSE attr

FieldIndex(ts, attr) == CHOOSE k \in DOMAIN Fields(ts) : Fields(ts)[k] = Owned(ts, attr)

InTuple(ts, attr, tuple) == tuple[FieldIndex(ts, attr)]

\* DefaultCartesianFilter::filter
CartesianFilter(ts, c, tuple) ==
  LET l == InTuple(ts, c.left, tuple)
      r == InTuple(ts, c.right, tuple)
  IN l # Null /\ r # Null /\ CompareResult(Compare(l, r), c.comp)

\* TupleSetDescartesIterator
Product(sets) ==
  FoldLeft(LAMBDA acc, s :
             FlattenSeq([i \in DOMAIN acc |-> [j \in DOMAIN s |-> acc[i] \o s[j]]]),
           <<<<>>>>, sets)

----------------------------------------------------------------------------
(* Expressions. What a step returns is a value, or that it failed, or that *)
(* an assertion stopped the server.                                        *)

Result(v) == [is |-> "value", val |-> v]
Failed == [is |-> "failed"]
Aborted == [is |-> "aborted"]

\* What is calculated is a float: here a fraction in lowest terms, so that the
\* rounding of a float is left out.
Fraction(n, d) ==
  LET m == IF d < 0 THEN -n ELSE n
      e == IF d < 0 THEN -d ELSE d
      g == Max({k \in 1 .. e : m % k = 0 /\ e % k = 0})
  IN <<m \div g, e \div g>>

Difference(x, y) == x[1] * y[2] - y[1] * x[2]

Arithmetic(node, l, r) ==
  CASE node = "DIVN" -> Fraction(l, r)
    [] node = "MULN" -> Fraction(l * r, 1)
    [] node = "SUBN" -> Fraction(l - r, 1)
    [] OTHER -> Fraction(l + r, 1)

\* A leaf of AstUtil::Calculate. The only table of a statement owns every
\* column; with several, a column without a table or that nobody has stops the
\* server. NULL is not a number.
Leaf(ts, side, tuple) ==
  LET attr == IF Len(ts) = 1 THEN [side EXCEPT !.tab = ts[1]] ELSE side
  IN CASE IsVal(side) -> Result(side.val)
       [] attr \notin Range(Fields(ts)) -> Aborted
       [] InTuple(ts, attr, tuple) = Null -> Aborted
       [] OTHER -> Result(InTuple(ts, attr, tuple))

\* AstUtil::Calculate for two leaves
Calculate(ts, e, tuple) ==
  LET l == Leaf(ts, e.l, tuple)
      r == Leaf(ts, e.r, tuple)
  IN CASE Aborted \in {l, r} -> Aborted
       [] e.node = "DIVN" /\ r = Result(0) -> Failed
       [] OTHER -> Result(Arithmetic(e.node, l.val, r.val))

\* One side in DefaultExpressionFilter::filter. Nobody sets is_attr, so an
\* attribute is taken for a value without a type.
ExpressionSide(ts, side, tuple) ==
  CASE IsExp(side) -> Calculate(ts, side, tuple)
    [] IsVal(side) /\ side.val # Null -> Result(Fraction(side.val, 1))
    [] OTHER -> Aborted

\* DefaultExpressionFilter::filter
ExpressionFilter(ts, c, tuple) ==
  LET l == ExpressionSide(ts, c.left, tuple)
      r == ExpressionSide(ts, c.right, tuple)
  IN CASE l \in {Aborted, Failed} -> l
       [] r \in {Aborted, Failed} -> r
       [] OTHER -> Result(CompareResult(Difference(l.val, r.val), c.comp))

----------------------------------------------------------------------------
(* Aggregates *)

\* CombineAggregateValues for a value that is not NULL; an average is the
\* sum and the count
CombineAggregateValues(fn, acc, v) ==
  CASE fn = "COUNT" -> acc + 1
    [] acc = Null -> IF fn = "AVG" THEN <<v, 1>> ELSE v
    [] fn = "SUM" -> acc + v
    [] fn = "AVG" -> <<acc[1] + v, acc[2] + 1>>
    [] fn = "MAX" -> IF Compare(v, acc) > 0 THEN v ELSE acc
    [] OTHER -> IF Compare(v, acc) < 0 THEN v ELSE acc

\* GenerateInitialAggregateValue, then InsertCombine for every value
Aggregated(fn, values) ==
  FoldLeft(LAMBDA acc, v : IF v = Null THEN acc ELSE CombineAggregateValues(fn, acc, v),
           IF fn = "COUNT" THEN 0 ELSE Null, values)

----------------------------------------------------------------------------
(* What SQL means: an environment gives the row of every table.            *)

HomeOf(attr) == CHOOSE t \in Tables : attr.col \in Range(Columns(t))

SqlLeaf(side, env) == IF IsAttr(side) THEN env[HomeOf(side)][side.col] ELSE side.val

SqlValue(side, env) ==
  IF ~IsExp(side) THEN SqlLeaf(side, env)
  ELSE LET l == SqlLeaf(side.l, env)
           r == SqlLeaf(side.r, env)
       IN IF l = Null \/ r = Null \/ (side.node = "DIVN" /\ r = 0) THEN Null
          ELSE Arithmetic(side.node, l, r)

\* A value as a fraction, if it is not one or NULL
Whole(v) == IF v = Null THEN Null ELSE Fraction(v, 1)
SqlNumber(side, env) == IF IsExp(side) THEN SqlValue(side, env) ELSE Whole(SqlValue(side, env))

SqlCompares(l, comp, r) ==
  CASE comp = "IS" -> l = Null /\ r = Null
    [] comp = "IS_NOT" -> l # Null /\ r = Null
    [] OTHER -> l # Null /\ r # Null /\ CompareResult(Difference(l, r), comp)

SqlHolds(c, env) == SqlCompares(SqlNumber(c.left, env), c.comp, SqlNumber(c.right, env))

\* The choices of a row of every table
Places(ts, data) ==
  {at \in [Range(ts) -> UNION {DOMAIN data[t] : t \in Range(ts)}] :
     \A t \in Range(ts) : at[t] \in DOMAIN data[t]}

EnvAt(at, data) == [t \in DOMAIN at |-> data[t][at[t]]]

\* The aggregate of the values v of the rows S
SqlAggregate(fn, S, v(_)) ==
  LET known == {e \in S : v(e) # Null}
      sum == FoldSet(LAMBDA e, n : n + v(e), 0, known)
      values == {v(e) : e \in known}
  IN CASE fn = "COUNT" -> Cardinality(known)
       [] known = {} -> Null
       [] fn = "SUM" -> sum
       [] fn = "AVG" -> <<sum, Cardinality(known)>>
       [] fn = "MAX" -> Max(values)
       [] OTHER -> Min(values)

\* How often the elements of a sequence occur
Occurrences(s) == [x \in Range(s) |-> Cardinality({i \in DOMAIN s : s[i] = x})]

\* How often f has its values on S
Counted(S, f(_)) == [x \in {f(e) : e \in S} |-> Cardinality({e \in S : f(e) = x})]
=============================================================================
