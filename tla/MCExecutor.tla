----------------------------- MODULE MCExecutor -----------------------------
(* Joins and sub-selects for model checking. *)
EXTENDS Executor

CONSTANTS MaxT1, MaxT2   \* how many rows the tables have at first at most

MCBInts == {-1, 1}
SeqOfAtMost(S, n) == UNION {[1 .. k -> S] : k \in 0 .. n}
MCData == [t1 : SeqOfAtMost(RowType("t1"), MaxT1), t2 : SeqOfAtMost(RowType("t2"), MaxT2)]
MCInserts == [c : {-1, 1}]

A == Attr("t1", "a")
B == Attr("t1", "b")
C == Attr("t2", "c")
Agg(fn, attr) == [fn |-> fn, attr |-> attr]

JoinOf(out, on, where, aggs, group) ==
  [kind |-> "join", out |-> out, on |-> on, where |-> where, aggs |-> aggs, group |-> group]
SubOf(where, side, comp, subLeft, fn, inner) ==
  [kind |-> "sub", out |-> <<A, B>>, where |-> where, side |-> side, comp |-> comp, subLeft |-> subLeft,
   fn |-> fn, sel |-> C, from |-> "t2", inner |-> inner]
SubWith(comp, fn, sel, from) == [SubOf(<<>>, B, comp, FALSE, fn, <<>>) EXCEPT !.sel = sel, !.from = from]
Star == Attr("", "*")
Z == Attr("", "z")

On == <<Cond(B, "EQUAL_TO", C)>>
Joined ==
  {JoinOf(<<A, C>>, on, where, <<>>, <<>>) :
     on \in {On, <<Cond(A, "GREAT_THAN", C)>>, <<Cond(C, "LESS_THAN", Val(1)), Cond(B, "GREAT_EQUAL", C)>>},
     where \in {<<>>, <<Cond(A, "NOT_EQUAL", Val(0))>>, <<Cond(Val(0), "LESS_THAN", C)>>}}
  \cup {JoinOf(<<A, B, C>>, On, <<where>>, <<>>, <<>>) :
          where \in {Cond(Val(1), "LESS_THAN", Val(0)), Cond(Val(0), "EQUAL_TO", Val(0)), Cond(B, "IS", Val(Null)),
                     Cond(Attr("", "a"), "EQUAL_TO", Val(0)), Cond(Val(0), "EQUAL_TO", Attr("", "a")),
                     Cond(Attr("", "z"), "EQUAL_TO", Val(0)), Cond(A, "GREAT_THAN", C)}}
  \cup {JoinOf(<<C, A>>, On, <<>>, <<>>, <<>>), JoinOf(<<A>>, <<Cond(A, "EQUAL_TO", Val(0))>>, <<>>, <<>>, <<>>),
        JoinOf(<<>>, On, <<>>, <<Agg("SUM", C), Agg("MAX", A)>>, <<B>>), JoinOf(<<>>, <<>>, <<>>, <<Agg("AVG", C)>>, <<A>>),
        JoinOf(<<A>>, <<Cond(Z, "EQUAL_TO", C)>>, <<>>, <<>>, <<>>),
        JoinOf(<<>>, <<Cond(A, "GREAT_THAN", C)>>, <<>>, <<Agg("SUM", A)>>, <<B>>),
        JoinOf(<<>>, On, <<>>, <<Agg("COUNT", C), Agg("SUM", Attr("", "a"))>>, <<>>)}
  \cup {JoinOf(<<>>, On, <<>>, <<Agg("COUNT", attr)>>, <<>>) : attr \in {Star, Z, Attr("t3", "c")}}
  \cup {JoinOf(<<>>, On, <<>>, <<Agg("SUM", C)>>, <<attr>>) : attr \in {Z, Attr("t3", "c")}}

Subs ==
  {SubOf(<<>>, B, comp, FALSE, "NONE", inner) : comp \in {"IN", "NOT_IN", "EQUAL_TO"}, inner \in {<<>>, <<Cond(C, "LESS_THAN", Val(1))>>}}
  \cup {SubOf(<<Cond(A, "GREAT_EQUAL", Val(0))>>, B, comp, left, fn, <<>>) :
          comp \in {"EQUAL_TO", "LESS_THAN"}, left \in BOOLEAN, fn \in {"MAX", "SUM", "COUNT"}}
  \cup {SubOf(<<>>, B, comp, FALSE, "MIN", <<Cond(B, "GREAT_EQUAL", C)>>) : comp \in {"EQUAL_TO", "GREAT_THAN"}}
  \cup {SubOf(<<>>, B, comp, FALSE, "NONE", <<Cond(C, "GREAT_EQUAL", B)>>) : comp \in {"IN", "NOT_IN"}}
  \cup {SubOf(<<Cond(B, "GREAT_THAN", Val(0))>>, A, "NOT_IN", FALSE, "NONE", <<>>),
        SubOf(<<>>, B, "EQUAL_TO", FALSE, "MAX", <<Cond(A, "GREAT_THAN", C)>>), SubOf(<<>>, B, "IN", FALSE, "SUM", <<>>),
        SubOf(<<>>, Attr("t1", "z"), "IN", FALSE, "NONE", <<>>),
        SubOf(<<>>, Val(1), "EQUAL_TO", FALSE, "MAX", <<>>), SubOf(<<>>, Val(0), "LESS_THAN", TRUE, "NONE", <<>>),
        SubOf(<<>>, B, "IN", FALSE, "NONE", <<Cond(C, "EQUAL_TO", Val(Null))>>)}

Misnamed ==
  {SubWith(comp, "COUNT", Star, "t2") : comp \in {"LESS_THAN", "IN"}}
  \cup {SubWith("IN", fn, Z, "t2") : fn \in {"NONE", "MAX"}}
  \cup {SubWith("EQUAL_TO", "MAX", sel, "t2") : sel \in {Z, A, Attr("t3", "c")}}
  \cup {SubWith("NOT_IN", "MAX", Attr("", "c"), "t2"), SubWith("IN", "NONE", C, "t3")}

MCStatements == Joined \cup Subs \cup Misnamed
=============================================================================
