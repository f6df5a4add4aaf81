---------------------------- MODULE MCOptimizer ----------------------------
\* Instances of Optimizer: SELECTs over a table t(k, a), derived tables d and
\* joins with u(k, b) and a derived table e; and SELECTs without qualifiers.
EXTENDS Optimizer

dk == Col("d", "k")
dx == Col("d", "x")
uk == Col("u", "k")
ub == Col("u", "b")
one == Lit(Integer(1))
two == Lit(Integer(2))

\* Conditions are sequences of conjuncts here.
Of(cols, src) == [Select(cols, src) EXCEPT !.where = <<>>]
Filtered(s, ps) == [s EXCEPT !.where = ps]
Inner(src, ps) == JoinOn("inner", src, ps)
Joins(s, js) == [s EXCEPT !.joins = js]

-----------------------------------------------------------------------------
\* Derived tables with columns k and x: what pushes into them, and what not.
tk == Col("t", "k")
ta == Col("t", "a")
Plain == Of(<<As(tk, "k"), As(ta, "x")>>, Tab("t"))
Grouped == GroupBy(Of(<<As(tk, "k"), As(Agg("count", ta), "x")>>, Tab("t")), <<tk>>)
Derivations == {
    Filtered(Plain, <<Op2("<", ta, two)>>),
    Of(<<As(Coalesce(<<ta, tk>>), "k"), As(tk, "x")>>, Tab("t")),
    Grouped,
    Dist(Plain),
    [Plain EXCEPT !.order = <<Asc(2)>>, !.limit = one],
    [Plain EXCEPT !.fetch = one],
    Of(<<As(tk, "k"), As(Call("rank", <<ta>>, TRUE), "x")>>, Tab("t")),
    Of(<<Star, As(ta, "x")>>, Tab("t")),
    [SetOp("union", TRUE, Plain, Plain) EXCEPT !.limit = two],
    Filtered(Of(<<As(Col("e", "k"), "k"), As(Col("e", "x"), "x")>>, Derived(Plain, "e")),
             <<Op2("=", Col("e", "k"), one)>>)
}

Lateral(src) == [kind |-> "lateral", alias |-> src.alias, src |-> src]

\* FROM d, the joins, and the WHERE clause over d and u.
DerivedSources == {Derived(q, "d") : q \in Derivations}
onKey == Op2("=", dk, uk)
UJoin(type) == JoinOn(type, Tab("u"), <<onKey>>)
OfU == Filtered(Of(<<As(uk, "k"), As(ub, "b")>>, Tab("u")), <<IsNullE(uk, TRUE)>>)
JoinLists == {
    <<>>, <<UJoin("inner")>>, <<UJoin("left")>>,
    <<Inner(Derived(OfU, "u"), <<onKey>>)>>,
    <<Inner(Derived([OfU EXCEPT !.limit = one], "u"), <<onKey>>)>>,
    <<Inner(Tab("u"), <<onKey>>), JoinOn("left", TabAs("t", "w"), <<Op2("=", ub, Col("w", "a"))>>)>>
}

UsesOnly(ps, aliases) == \A i \in DOMAIN ps : ReferencedTables(ps[i]) \subseteq aliases
Conjuncts == {
    Op2("=", dk, one), Op2("<", dx, two), IsNullE(dx, FALSE), Op2("<=", uk, one),
    Op2("=", dx, ub), Or(Op2("=", dk, two), Op2("=", dx, one)), In(one, <<one, two>>),
    Exists(Select(<<Star>>, Tab("u")), FALSE), Call("random", <<dk>>, FALSE)
}
Seconds == {Op2("<", dx, two), Op2("=", dx, ub), Op2("<=", uk, one)}
Wheres == {<<>>} \cup {<<p>> : p \in Conjuncts} \cup {<<p, r>> : p \in Conjuncts, r \in Seconds}

Statements(sources, joinLists) ==
    {Filtered(Joins(Of(<<Item(dk), Item(dx)>>, src), js), ps) :
        src \in sources, js \in joinLists, ps \in Wheres}
Bound(s) == UsesOnly(s.where, {s.from.alias} \cup {s.joins[i].src.alias : i \in DOMAIN s.joins})

Pushdowns ==
    {s \in Statements(DerivedSources, JoinLists) \cup Statements({Lateral(Derived(Plain, "d"))}, {<<>>}) : Bound(s)}
    \cup {[Of(<<Item(dk)>>, Tab("d")) EXCEPT
              !.ctes = <<Cte("d", Filtered(Of(<<As(dk, "k")>>, Derived(Plain, "d")), <<Op2("=", dk, one)>>))>>,
              !.where = <<Op2("<", dk, two)>>]}
\* A derived table before a RIGHT JOIN, and an inner join before a FULL one.
Outer ==
    {s \in Statements({Derived(Plain, "d")},
                      {<<UJoin("right")>>,
                       <<UJoin("inner"), JoinOn("full", TabAs("t", "w"), <<Op2("=", ub, Col("w", "a"))>>)>>}) :
        Bound(s)}

-----------------------------------------------------------------------------
\* Conditions on columns k and x with constants to fold, Booleans to simplify and
\* subqueries to unnest.
three == Lit(Integer(3))
U == Select(<<Item(uk), Item(ub)>>, Tab("u"))
UKeys == Where(Select(<<Item(uk)>>, Tab("u")), IsNullE(uk, TRUE))
UValues == Select(<<Item(ub)>>, Tab("u"))
NotIn(e, sub) == [InSub(e, sub) EXCEPT !.neg = TRUE]
Folded(k, x) == {
    Op2("=", Op2("+", k, one), Op2("*", Nested(two), one)), Op2("<", Neg(one), Nested(Op2("-", two, one))),
    Nested(Op2(">", one, two)), Op2(">=", x, Op2("%", three, two)), Not(Nested(Op2("=", one, Op2("/", two, two)))),
    Not(Not(Op2("<>", k, one))), Or(Nested(Truth(FALSE)), Op2("=", k, two)), Or(IsNullE(x, FALSE), Op2("<=", one, two))}
Subqueries(k, x) == {
    InSub(k, UKeys), NotIn(Coalesce(<<k, two>>), UValues), Nested(And(InSub(x, UValues), Op2("=", k, one))),
    InSub(x, Select(<<Item(Agg("max", ub))>>, Tab("u"))), Or(InSub(k, UKeys), IsNullE(x, FALSE)), Exists(U, FALSE),
    Not(Exists(Where(U, Op2("=", ub, three)), FALSE)), Exists(Where(U, And(Op2("<", uk, k), Op2("=", ub, one))), FALSE),
    InSub(k, [SetOp("union", FALSE, UKeys, UValues) EXCEPT !.limit = two])}
Projecting(k, x, src) == Select(<<Item(k), Item(x), As(Nested(Op2("+", one, two)), "y")>>, src)
Passed(k, x, src) ==
    {Where(Projecting(k, x, src), c) : c \in Folded(k, x) \cup Subqueries(k, x)} \cup
    {Where(Projecting(k, x, src), And(c, d)) : c \in Folded(k, x) \cup Subqueries(k, x), d \in Subqueries(k, x)}
Others == {
    Where(Join1(Projecting(tk, ub, Tab("t")), JoinOn("left", Tab("u"), Op2("=", tk, uk))), InSub(ub, UValues)),
    Hav(GroupBy(Select(<<Item(tk), Item(CountAll)>>, Tab("t")), <<tk>>), And(Op2("=", one, one), Op2("<", one, CountAll))),
    Hav(GroupBy(Select(<<Item(tk)>>, Tab("t")), <<tk>>), Op2("=", one, one)),
    Where(Select(<<As(one, "k")>>, NoSource), Op2("=", one, two))}

-----------------------------------------------------------------------------
\* Statements without qualifiers, to be qualified by a schema, which is put together of the
\* tables t and u, u in another database, and tables that have the same names.
ck == Col("", "k")
ca == Col("", "a")
cb == Col("", "b")
cx == Col("", "x")
Renamed == Select(<<As(ck, "k"), As(ca, "x")>>, Tab("t"))
BOf(cond) == Where(Select(<<Item(cb)>>, Tab("u")), cond)
OnKeys == Op2("=", tk, uk)
TJoinU(cols, type, on) == Join1(Select(cols, Tab("t")), JoinOn(type, Tab("u"), on))
NoStars == {
    OrderBy(Where(Select(<<Item(ck), As(Op2("+", ca, one), "x")>>, TabAs("t", "v")), Between(ca, one, two)), <<[Asc(0) EXCEPT !.e = cx]>>),
    OrderBy(Select(<<Item(ck), Item(ca)>>, Tab("t")), <<[Desc(0) EXCEPT !.e = ca], Asc(1)>>),
    Hav(GroupBy(Select(<<Item(ck), Item(Agg("count", ca))>>, Tab("t")), <<ck>>), Op2("<", one, Agg("max", ca))),
    Where(TJoinU(<<Item(ca), Item(cb)>>, "inner", Op2("=", tk, cb)), And(Op2("<", ca, two), Op2("=", cb, one))),
    Where(TJoinU(<<Item(ca), Item(uk)>>, "left", OnKeys), IsNullE(cb, FALSE)),
    Join1(Select(<<Item(ck), Item(cb)>>, Tab("t")), JoinUsing("inner", Tab("u"), <<"k">>)),
    Where(Select(<<Item(ck), Item(cx)>>, Derived(Renamed, "d")), In(cx, <<one, two>>)),
    Where(Join1(Select(<<Item(cx), Item(cb)>>, Derived(Renamed, "d")), JoinOn("inner", Tab("u"), Op2("=", dk, uk))), Op2("=", cx, one)),
    Select(<<Item(cx)>>, Derived(SetOp("union", TRUE, Select(<<As(ck, "x")>>, Tab("t")), BOf(Truth(TRUE))), "d")),
    With(<<Cte("d", Renamed)>>, Where(Select(<<Item(ck), Item(cx)>>, TabAs("d", "e")), Op2("<", cx, two))),
    With(<<Cte("u", Renamed)>>, TJoinU(<<Item(ca), Item(cx)>>, "inner", OnKeys)),
    With(<<Cte("d", Renamed)>>, Where(Select(<<Item(ca)>>, Tab("t")), InSub(ck, Where(Select(<<Item(cx)>>, Tab("d")), IsNullE(cx, TRUE))))),
    Where(Select(<<Item(ca)>>, Tab("t")), InSub(ck, BOf(IsNullE(ck, TRUE)))),
    Where(Select(<<Item(ca)>>, Tab("t")), Exists(BOf(Op2("=", ca, cb)), FALSE)),
    Select(<<Item(ck), As(Scalar(Select(<<Item(Agg("max", cb))>>, Tab("u"))), "m")>>, Tab("t")),
    Select(<<As(Case(<<<<Not(IsNullE(cx, FALSE)), Neg(ck)>>>>, Coalesce(<<ck, cx>>)), "c")>>, Derived(Renamed, "d")),
    Where(Select(<<Item(cb)>>, TabOf(<<"main">>, "u")), Nested(Op2("=", ck, one)))}
Stars == {
    Where(Select(<<Star>>, Tab("t")), Op2("=", ck, one)),
    TJoinU(<<StarOf("t"), Item(cb)>>, "left", OnKeys),
    Where(Select(<<Item(ck), Item(ca)>>, Derived(Select(<<Star>>, Tab("t")), "d")), Op2("=", ca, one)),
    With(<<Cte("u", Renamed)>>, Select(<<Star>>, Tab("u"))),
    Where(Select(<<Star>>, Derived(Renamed, "d")), InSub(cx, Where(Select(<<Item(ck)>>, TabOf(<<"c", "main">>, "u")), IsNullE(ck, TRUE))))}
MCUnqualified == NoStars \cup Stars
MCRegistrations == {
    [path |-> <<"t">>, columns |-> <<"k", "a">>], [path |-> <<"t">>, columns |-> <<"k", "b">>],
    [path |-> <<"c", "main", "u">>, columns |-> <<"k", "b">>], [path |-> <<"other", "u">>, columns |-> <<"k", "a">>]}

MCOriginals ==
    {Concrete(s) : s \in Pushdowns} \cup Passed(tk, ta, Tab("t")) \cup
    Passed(dk, dx, Derived(Concrete(Plain), "d")) \cup Others
MCOuterOriginals == {Concrete(s) : s \in Outer}
MCExistsOriginals == {Where(Projecting(tk, ta, Tab("t")), Exists(Where(U, Op2("=", tk, uk)), FALSE))}
InputsOf(originals) == {Split(UnnestSubqueries(SimplifyBooleans(FoldConstants(s)))) : s \in originals}
MCInputs == InputsOf(Originals)

-----------------------------------------------------------------------------
TableNames == [t |-> {"k", "a"}, u |-> {"k", "b"}]
Tables == {[t |-> [cols |-> <<<<"k">>, <<"a">>>>, rows |-> tr],
            u |-> [cols |-> <<<<"k">>, <<"b">>>>, rows |-> ur]] :
    tr \in {<<>>, <<<<Integer(1), Integer(1)>>, <<Integer(2), Null>>>>,
            <<<<Integer(2), Integer(1)>>, <<Integer(1), Integer(2)>>, <<Null, Integer(1)>>>>},
    ur \in {<<<<Integer(2), Integer(1)>>>>, <<<<Integer(1), Integer(1)>>, <<Integer(1), Integer(2)>>, <<Null, Integer(1)>>>>}}
Answer(stmt, db) ==
    LET res == X!Execute(stmt, X!Env(db, [name \in {} |-> <<>>], FALSE, TRUE)) IN [pc |-> res.pc, out |-> res.out]

TableColumns == [t |-> <<"k", "a">>, u |-> <<"k", "b">>]
\* What the schema finds for the tables of the statement are their columns, or nothing, which
\* leaves no columns for a wildcard.
TablesRead ==
    UNION {{src \in TableSources(s.query) : \A i \in DOMAIN s.scope : s.scope[i].name # src.name} : s \in Scoped(original, <<>>)}
Truthful == \A src \in TablesRead : FindTable(TablePath(src)) \subseteq {TableColumns[src.name]}
Complete == \A src \in TablesRead : FindTable(TablePath(src)) # {}
HasStar == \E q \in Queries(original) : \E i \in DOMAIN q.cols : q.cols[i].kind # "expr"
Trusted == original \in Unqualified => Truthful /\ (HasStar => Complete)

\* What the executor answers to the statement as it came, it answers to the statement after
\* every pass and at every moment of the last, row for row in the same order: qualifiers,
\* constants, conditions that are left out, subqueries that become joins and conjuncts that
\* move do not change the answer, as long as the schema tells the truth.
SameRows ==
    Form # original /\ Trusted =>
        \A db \in Tables :
            LET answer == [stmt \in {original, Form} |-> Answer(stmt, db)]
            IN  answer[original].pc = "done" => answer[Form] = answer[original]

Sql == INSTANCE SqlSemantics
Means(stmt, db) == Sql!BagOf(Sql!Meaning(stmt, [db |-> db, ctes |-> [name \in {} |-> <<>>], outer |-> <<>>]))
\* No function is called that the semantics does not know.
Meaningful == \A q \in Queries(original) : \A x \in NodesOf(q) : x.op # "call"

\* Nor do they change what SQL means by the statement: every pass and the whole pushdown keep
\* the bag of rows that the three-valued semantics gives, and nothing is borrowed
\* of the executor's ways with NULLs and missing names.
SameMeaning ==
    Form # original /\ pc \in {"recurse", "done"} /\ Trusted /\ Meaningful =>
        \A db \in Tables : Cardinality({Means(stmt, db) : stmt \in {original, Form}}) = 1

\* Whatever the passes make of a statement, every column it names is one that a source of
\* its query gives, and no two sources of a query go by one name: the aliases of unnested
\* subqueries are all different and the columns of the joins' conditions are there.
NamesResolve == Trusted => Unresolved(Form, <<>>, TableNames) = {}

\* A schema that knows the tables is enough: of the columns without a qualifier precisely
\* those get one that a single source of their query gives, through CTEs, derived tables and
\* the subqueries of conditions; those that several or none give stay as they are.
Loose(stmt) ==
    UNION {{[name |-> c.name, sources |-> Cardinality({src \in ToSet(Sources(s.query)) :
                                              src.kind # "none" /\ c.name \in Gives(src, s.scope, TableNames)})] :
               c \in {c \in NodesOf(s.query) : c.op = "col" /\ c.tab = ""}} : s \in Scoped(stmt, <<>>)}
ColumnsQualified ==
    pass = "fold" /\ original \in Unqualified /\ Truthful /\ Complete /\ ~HasStar =>
        Loose(tree) = {c \in Loose(original) : c.sources # 1}
=============================================================================
