------------------------------ MODULE MCSelect ------------------------------
(* SELECT for model checking: one thread runs every query, the other sorts. *)
EXTENDS Select

CONSTANTS MaxT1, MaxT2   \* how many rows the tables have at most

MCBInts == {-1, 1}

SeqOfAtMost(S, n) == UNION {[1 .. k -> S] : k \in 0 .. n}
MCData == [t1 : SeqOfAtMost(RowType("t1"), MaxT1), t2 : SeqOfAtMost(RowType("t2"), MaxT2)]

A == Attr("t1", "a")
B == Attr("t1", "b")
C == Attr("t2", "c")
UA == Attr("", "a")
UB == Attr("", "b")
UZ == Attr("", "z")
Star == Attr("", "*")

Query(rels, out, exps, conds, order, aggs, group) ==
  [rels |-> rels, out |-> out, exps |-> exps, conds |-> conds, order |-> order, aggs |-> aggs, group |-> group]
Plain(conds) == Query(<<"t1">>, <<UA, UB>>, <<>>, conds, <<>>, <<>>, <<>>)
Ordered(rels, order) == Query(rels, <<A>>, <<>>, <<>>, order, <<>>, <<>>)
Grouped(rels, conds, aggs, group) == Query(rels, <<>>, <<>>, conds, <<>>, aggs, group)
By(attr, desc) == [attr |-> attr, desc |-> desc]
Agg(fn, attr) == [fn |-> fn, attr |-> attr]

Comps == {"EQUAL_TO", "LESS_EQUAL", "NOT_EQUAL", "LESS_THAN", "GREAT_EQUAL", "GREAT_THAN"}

Filtered ==
  {Plain(<<Cond(UB, comp, Val(1))>>) : comp \in Comps}
  \cup {Plain(<<Cond(Val(1), comp, UB)>>) : comp \in {"EQUAL_TO", "LESS_THAN", "GREAT_EQUAL"}}
  \cup {Plain(<<Cond(UA, comp, UB)>>) : comp \in {"EQUAL_TO", "LESS_THAN"}}
  \cup {Plain(<<Cond(UB, comp, Val(v))>>) : comp \in {"IS", "IS_NOT", "EQUAL_TO"}, v \in {Null, 1}}
  \cup {Plain(<<>>), Plain(<<Cond(UZ, "EQUAL_TO", Val(1))>>), Plain(<<Cond(Val(1), "LESS_THAN", Val(0))>>),
        Plain(<<Cond(UA, "GREAT_THAN", Val(0)), Cond(UB, "LESS_THAN", Val(1))>>),
        Plain(<<Cond(UB, "GREAT_THAN", Val(-1)), Cond(UB, "LESS_EQUAL", Val(1))>>)}

Joined ==
  {Query(<<"t1", "t2">>, <<C, A>>, <<>>, <<Cond(B, comp, C)>>, <<>>, <<>>, <<>>) : comp \in {"EQUAL_TO", "LESS_THAN"}}
  \cup {Query(<<"t2", "t1">>, <<A, C>>, <<>>, <<Cond(B, "EQUAL_TO", C), Cond(A, "NOT_EQUAL", Val(0))>>, <<>>, <<>>, <<>>),
        Query(<<"t1", "t2">>, <<A, B, C>>, <<>>, <<>>, <<>>, <<>>, <<>>),
        Query(<<"t1", "t2">>, <<UA>>, <<>>, <<>>, <<>>, <<>>, <<>>)}

Calculated ==
  {Query(<<"t1">>, <<UA>>, <<Exp(UB, "DIVN", UA)>>, conds, <<>>, <<>>, <<>>) :
     conds \in {<<>>, <<Cond(UA, "NOT_EQUAL", Val(0))>>,
                <<Cond(Exp(UA, "MULN", Val(1)), "GREAT_THAN", Val(0))>>}}
  \cup {Query(<<"t1">>, <<UA>>, <<>>, <<cond>>, <<>>, <<>>, <<>>) :
          cond \in {Cond(Exp(UA, "ADDN", UB), "GREAT_THAN", Val(0)), Cond(Val(0), "LESS_EQUAL", Exp(UA, "SUBN", Val(1))),
                    Cond(Exp(UB, "DIVN", UA), "NOT_EQUAL", Val(0)), Cond(Exp(UA, "ADDN", Val(1)), "EQUAL_TO", UB), Cond(Exp(UA, "ADDN", Val(1)), "EQUAL_TO", Val(Null)),
                    Cond(Exp(UZ, "ADDN", Val(1)), "EQUAL_TO", Val(1)), Cond(Exp(UB, "DIVN", UA), "LESS_THAN", Exp(UA, "DIVN", Val(2)))}}
  \cup {Query(<<"t1", "t2">>, <<C>>, <<Exp(attr, "ADDN", Val(1))>>, <<>>, <<>>, <<>>, <<>>) : attr \in {UA, A}}

Sorted ==
  {Ordered(<<"t1">>, order) : order \in {<<By(UA, FALSE)>>, <<By(UB, TRUE)>>, <<By(UB, FALSE), By(UA, TRUE)>>,
                                         <<By(UA, TRUE), By(UB, FALSE)>>, <<By(UZ, FALSE)>>,
                                         <<By(UA, TRUE), By(C, FALSE)>>}}
  \cup {Ordered(<<"t1", "t2">>, <<By(UA, FALSE)>>), Ordered(<<"t2", "t1">>, <<By(UA, FALSE), By(C, TRUE)>>)}

Summed ==
  {Grouped(<<"t1">>, <<>>, <<Agg(fn, UB)>>, <<>>) : fn \in {"COUNT", "SUM", "AVG", "MAX", "MIN"}}
  \cup {Grouped(<<"t1">>, <<>>, <<Agg("COUNT", Star), Agg("SUM", UA)>>, group) : group \in {<<UA>>, <<UB>>, <<UB, UA>>, <<UZ>>}}
  \cup {Grouped(<<"t1">>, <<Cond(UA, "GREAT_THAN", Val(0))>>, <<Agg("MAX", UB)>>, <<UA>>),
        Grouped(<<"t1">>, <<Cond(Exp(UA, "ADDN", Val(1)), "GREAT_THAN", Val(1))>>, <<Agg("COUNT", Star)>>, <<UA>>),
        Grouped(<<"t1", "t2">>, <<Cond(B, "EQUAL_TO", C)>>, <<Agg("SUM", A), Agg("MIN", C)>>, <<B>>),
        Grouped(<<"t1", "t2">>, <<>>, <<Agg("SUM", UA)>>, <<>>),
        Grouped(<<"t1">>, <<>>, <<Agg("MAX", Star)>>, <<>>), Grouped(<<"t1">>, <<>>, <<Agg("SUM", UA)>>, <<C>>)}
  \cup {Grouped(<<"t1">>, <<>>, <<Agg("SUM", attr)>>, <<>>) : attr \in {C, Attr("t3", "a"), Attr("t1", "z")}}

MCQueriesOf(w) ==
  IF w = "w1" THEN Filtered \cup Joined \cup Calculated \cup Sorted \cup Summed
  ELSE {Ordered(<<"t1">>, <<By(UA, TRUE)>>)}
=============================================================================
