----------------------------- MODULE MCExecutor -----------------------------
\* Instances of Executor: small tables t(k, a) and u(k, b), and the
\* queries that are run on them.
EXTENDS Executor

tk == Col("t", "k")
ta == Col("t", "a")
uk == Col("u", "k")
ub == Col("u", "b")
one == Lit(Integer(1))
two == Lit(Integer(2))

\* Tables of at most "max" rows, the values of whose columns are in A and B.
Rows(A, B, max) == UNION {[1..n -> {<<x, y>> : x \in A, y \in B}] : n \in 0..max}
Table(x, y, rows) == [cols |-> <<<<x>>, <<y>>>>, rows |-> rows]
Keys == {Null, Integer(1), Integer(2)}

-----------------------------------------------------------------------------
\* One table t, and one u: joins, predicates, groups, subqueries, CTEs.
SmallTables ==
    {[t |-> Table("k", "a", tr), u |-> Table("k", "b", ur)] :
        tr \in Rows(Keys, {Null, Integer(1)}, 2), ur \in Rows({Null, Integer(1)}, {Integer(1), Integer(2)}, 2)}

T == Select(<<Item(tk), Item(ta)>>, Tab("t"))
U == Select(<<Item(uk), Item(ub)>>, Tab("u"))
TU == Select(<<Item(tk), Item(ta), Item(uk), Item(ub)>>, Tab("t"))
onKey == Op2("=", tk, uk)

CoreQueries == <<
    Join1(TU, JoinOn("inner", Tab("u"), onKey)),
    Join1(TU, JoinOn("left", Tab("u"), And(onKey, Op2("<", ta, ub)))),
    Join1(TU, JoinOn("right", Tab("u"), Or(onKey, IsNullE(ta, FALSE)))),
    Join1(TU, JoinOn("full", Tab("u"), onKey)),
    Join1(Join1(Select(<<Item(tk), Item(uk), Item(Col("w", "a"))>>, Tab("t")),
                JoinOn("left", Tab("u"), onKey)),
          JoinOn("full", TabAs("t", "w"), Op2("=", ub, Col("w", "k")))),
    Where(Join1(TU, JoinOn("cross", Tab("u"), NoExpr)), Or(Op2("<", tk, uk), Op2("<>", ta, ub))),
    Where(T, Or(Op2("<", tk, one), And(IsNullE(ta, TRUE), In(tk, <<two, ta>>)))),
    Where(T, Between(tk, one, Coalesce(<<ta, two>>))),
    Where(T, InSub(tk, Where(Select(<<Item(uk)>>, Tab("u")), And(Op2("=", ub, two), IsNullE(uk, TRUE))))),
    Where(T, And(Exists(U, FALSE), Op2("<=", ta, Scalar(Select(<<Item(Agg("max", ub))>>, Tab("u")))))),
    GroupBy(Select(<<Item(tk), Item(CountAll), Item(Agg("count", ta)), Item(Agg("sum", ta)),
                     Item(AggDistinct("count", ta))>>, Tab("t")), <<tk>>),
    Hav(GroupBy(Join1(Select(<<Item(ub), Item(Agg("min", tk))>>, Tab("t")), JoinOn("cross", Tab("u"), NoExpr)), <<ub>>), Op2("<", one, CountAll)),
    Select(<<Item(CountAll), Item(Agg("max", tk)), Item(Agg("sum", ta))>>, Tab("t")),
    Dist(Select(<<Item(Case(<<<<Op2("=", tk, one), ta>>, <<IsNullE(tk, TRUE), two>>>>, NoExpr))>>, Tab("t"))),
    SetOp("union", FALSE, T, U), SetOp("union", TRUE, T, U),
    SetOp("intersect", FALSE, T, U), SetOp("except", FALSE, T, U)
>>

-----------------------------------------------------------------------------
\* CTEs and derived tables: names that hide tables, in and out of scope.
A1 == Where(Select(<<As(tk, "k"), As(ta, "a")>>, Tab("t")), Op2("=", ta, one))
FromT == Select(<<Item(Col("t", "k"))>>, Tab("t"))

ScopeQueries == <<
    \* a CTE named t over the table t, read twice
    With(<<Cte("t", A1)>>, Join1(Select(<<Item(tk), Item(Col("x", "a"))>>, Tab("t")),
                                 JoinOn("inner", TabAs("t", "x"), Op2("=", tk, Col("x", "k"))))),
    \* a derived table whose own CTE hides t, beside the table t
    Join1(Select(<<Item(Col("d", "k")), Item(tk)>>, Derived(With(<<Cte("t", A1)>>, FromT), "d")),
          JoinOn("left", Tab("t"), Op2("=", Col("d", "k"), tk))),
    \* a subquery in WHERE whose own CTE hides t
    Where(T, And(IsNullE(tk, TRUE),
                 InSub(tk, With(<<Cte("t", Where(A1, IsNullE(tk, TRUE)))>>, FromT)))),
    \* CTEs over CTEs, and a CTE in a set operation's side that comes last
    With(<<Cte("c", A1), Cte("d", Select(<<As(Col("c", "k"), "k")>>, Tab("c")))>>,
         Select(<<Item(Agg("count", Col("d", "k")))>>, Tab("d"))),
    SetOp("union", TRUE, FromT, With(<<Cte("t", A1)>>, FromT)),
    \* columns by way of a wildcard, and no FROM
    Select(<<Item(Col("d", "k"))>>,
           Derived(Where(Join1(Select(<<Star, StarOf("u")>>, Tab("t")), JoinUsing("inner", Tab("u"), <<"k">>)),
                         IsNullE(uk, TRUE)), "d")),
    Where(Join1(Select(<<Item(ta), Item(ub)>>, Tab("t")), JoinUsing("natural", Tab("u"), <<>>)),
          IsNullE(uk, TRUE)),
    Select(<<As(one, "x"), Item(Scalar(Select(<<Item(CountAll)>>, Tab("u"))))>>, NoSource),
    \* what cannot be executed
    Select(<<Star>>, Tab("missing")), Select(<<Star>>, [kind |-> "function"]),
    Select(<<Star>>, [Tab("t") EXCEPT !.kind = "temporal"]),
    Join1(T, JoinOn("lateral", Tab("u"), onKey)), [kind |-> "other", limit |-> NoExpr, offset |-> NoExpr],
    Where(T, Op2("<", one, Op2("/", ta, Lit(Integer(0))))),
    Join1(TU, JoinOn("right", Tab("u"), Op2("<", uk, Op2("/", ta, Lit(Integer(0))))))
>>

-----------------------------------------------------------------------------
\* ORDER BY, LIMIT, OFFSET, set operations of different widths.
SortTables ==
    {[t |-> Table("k", "a", tr), u |-> Table("k", "b", <<<<Integer(1), Integer(2)>>>>)] :
        tr \in Rows(Keys, {Integer(1), Integer(2)}, 3)}

Numbers == <<NoExpr, Lit(Null), Lit(Integer(0)), Lit(Integer(1)), Lit(Integer(2)),
             Lit(Integer(7)), Lit(Integer(-1)), Lit(Integer(-2))>>
ByName(name, asc) == [pos |-> 0, e |-> Col("", name), asc |-> asc, nulls |-> "default"]

\* One query for each LIMIT and OFFSET.
Windows == [n \in 1..64 |->
    LimitBy(OrderBy(T, <<Desc(1), ByName("a", TRUE)>>),
            Numbers[((n - 1) % 8) + 1], Numbers[((n - 1) \div 8) + 1])]

SortQueries == <<
    LimitBy(OrderBy(Dist(FromT), <<ByName("k", TRUE)>>), two, one),
    LimitBy([SetOp("union", TRUE, T, U) EXCEPT !.order = <<Asc(2)>>], two, NoExpr),
    [SetOp("union", TRUE, FromT, T) EXCEPT !.order = <<ByName("k", TRUE)>>],
    [SetOp("union", TRUE, T, FromT) EXCEPT !.order = <<ByName("a", TRUE)>>]
>>

-----------------------------------------------------------------------------
\* One column of integers and floats, NaN among them, in every hash table.
MixedTables ==
    {[t |-> [cols |-> <<<<"k">>>>, rows |-> tr]] :
        tr \in UNION {[1..n -> {<<Null>>, <<Integer(1)>>, <<Float(1)>>, <<NaN>>}] : n \in 0..4}}

MixedQueries == <<
    Dist(FromT),
    GroupBy(Select(<<Item(Agg("max", tk)), Item(AggDistinct("sum", tk)), Item(CountAll)>>, Tab("t")), <<tk>>),
    SetOp("union", FALSE, FromT, FromT), SetOp("intersect", TRUE, FromT, FromT),
    SetOp("except", FALSE, FromT, FromT)
>>

-----------------------------------------------------------------------------
\* Arithmetic at the ends of i64, which is -8..7 here.
EdgeTables ==
    {[t |-> Table("k", "a", tr)] :
        tr \in Rows({Integer(-8), Integer(-1), Integer(7), Null},
                   {Integer(-8), Integer(-1), Integer(0), Integer(3)}, 2)}

Of(e) == Select(<<Item(e)>>, Tab("t"))
zero == Lit(Integer(0))
Arithmetics == <<
    Of(Op2("+", tk, ta)), Of(Op2("-", tk, ta)), Of(Op2("*", tk, ta)),
    Of(Op2("/", tk, ta)), Of(Op2("%", tk, ta)), Of(Neg(tk)),
    \* of what has wrapped around, behind a test, in a list, a group's condition
    Of(Op2("/", Nested(Op2("+", tk, one)), ta)),
    Where(T, And(Op2("<>", ta, zero), Op2("<", zero, Op2("/", tk, ta)))),
    Where(T, In(ta, <<two, tk, Op2("*", tk, two)>>)),
    Hav(GroupBy(Select(<<Item(CountAll), Item(ta)>>, Tab("t")), <<ta>>), Op2("<", Neg(tk), CountAll)),
    Of(Case(<<<<Op2("<", ta, zero), Op2("%", tk, ta)>>>>, Neg(ta))),
    \* of an aggregate's argument, and of an aggregate that has none
    Of(Agg("sum", tk)), Of(Agg("max", Op2("-", tk, one))), Of(AggOfNothing("sum")),
    GroupBy(Select(<<Item(AggOfNothing("max"))>>, Tab("t")), <<tk>>),
    Where(T, Op2("<", zero, Agg("sum", tk)))
>>

Over(queries, tables, seed, build) ==
    [n \in DOMAIN queries |-> [query |-> queries[n], tables |-> tables, seeds |-> seed, builds |-> build]]

\* Only the mixed tables have equal values whose hashes may differ, and only at
\* the ends of i64 are there numbers that do not fit.
MCCases ==
    Over(CoreQueries \o ScopeQueries, SmallTables, {FALSE}, {TRUE})
    \o Over(Windows \o SortQueries, SortTables, {FALSE}, {TRUE})
    \o Over(MixedQueries, MixedTables, BOOLEAN, {TRUE})
    \o Over(Arithmetics, EdgeTables, {FALSE}, BOOLEAN)
=============================================================================
