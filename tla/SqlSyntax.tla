----------------------------- MODULE SqlSyntax -----------------------------
(***************************************************************************)
(* Queries as the executor and the optimizer see them (src/ast/types.rs),  *)
(* with names in lower case and every table with its alias.  A query is    *)
(* the record of a SELECT or of a set operation; a clause that is not      *)
(* there is NoExpr (an expression), NoSource (FROM) or <<>>.               *)
(***************************************************************************)
EXTENDS SqlValues

NoExpr == [op |-> "none"]
NoSource == [kind |-> "none"]
Given(e) == e.op # "none"

\* Expressions
Col(t, n) == [op |-> "col", tab |-> t, name |-> n]
Lit(x) == [op |-> "lit", val |-> x]
Op2(f, l, r) == [op |-> "bin", f |-> f, l |-> l, r |-> r]
And(l, r) == [op |-> "logic", f |-> "and", l |-> l, r |-> r]
Or(l, r) == [op |-> "logic", f |-> "or", l |-> l, r |-> r]
Not(e) == [op |-> "not", e |-> e]
Neg(e) == [op |-> "neg", e |-> e]
Nested(e) == [op |-> "nested", e |-> e]
IsNullE(e, neg) == [op |-> "isnull", e |-> e, neg |-> neg]
In(e, list) == [op |-> "in", e |-> e, list |-> list, neg |-> FALSE]
InSub(e, sub) == [op |-> "insub", e |-> e, sub |-> sub, neg |-> FALSE]
Exists(sub, neg) == [op |-> "exists", sub |-> sub, neg |-> neg]
Scalar(sub) == [op |-> "scalar", sub |-> sub]
Between(e, lo, hi) == [op |-> "between", e |-> e, lo |-> lo, hi |-> hi, neg |-> FALSE]
Case(whens, else) == [op |-> "case", whens |-> whens, else |-> else]
Coalesce(list) == [op |-> "coalesce", list |-> list]
Agg(f, arg) == [op |-> "agg", f |-> f, arg |-> arg, distinct |-> FALSE]
AggDistinct(f, arg) == [op |-> "agg", f |-> f, arg |-> arg, distinct |-> TRUE]
CountAll == Agg("count", [op |-> "star"])
AggOfNothing(f) == Agg(f, NoExpr)

\* Clauses
Item(e) == [kind |-> "expr", e |-> e, alias |-> ""]
As(e, name) == [kind |-> "expr", e |-> e, alias |-> name]
Star == [kind |-> "star"]
StarOf(t) == [kind |-> "qstar", tab |-> t]
TabAs(n, alias) == [kind |-> "table", path |-> <<>>, name |-> n, alias |-> alias]
Tab(n) == TabAs(n, n)
TabOf(path, n) == [Tab(n) EXCEPT !.path = path]   \* path: the schema, or the catalog and the schema
Derived(query, alias) == [kind |-> "subquery", query |-> query, alias |-> alias]
JoinOn(type, src, on) == [type |-> type, src |-> src, on |-> on, using |-> <<>>]
JoinUsing(type, src, names) == [type |-> type, src |-> src, on |-> NoExpr, using |-> names]
CteOf(name, columns, query) == [name |-> name, columns |-> columns, query |-> query]
Cte(name, query) == CteOf(name, <<>>, query)
Asc(n) == [pos |-> n, e |-> Lit(Integer(n)), asc |-> TRUE, nulls |-> "default"]
Desc(n) == [pos |-> n, e |-> Lit(Integer(n)), asc |-> FALSE, nulls |-> "default"]

\* SELECT cols FROM src, and what is added to it
Select(cols, src) ==
    [kind |-> "select", ctes |-> <<>>, from |-> src, joins |-> <<>>, where |-> NoExpr,
     cols |-> cols, group |-> <<>>, having |-> NoExpr, distinct |-> FALSE,
     order |-> <<>>, limit |-> NoExpr, offset |-> NoExpr, fetch |-> NoExpr]
Where(s, e) == [s EXCEPT !.where = e]
Join1(s, j) == [s EXCEPT !.joins = Append(@, j)]
GroupBy(s, by) == [s EXCEPT !.group = by]
Hav(s, e) == [s EXCEPT !.having = e]
Dist(s) == [s EXCEPT !.distinct = TRUE]
With(ctes, s) == [s EXCEPT !.ctes = ctes]
OrderBy(s, o) == [s EXCEPT !.order = o]
LimitBy(s, lim, off) == [s EXCEPT !.limit = lim, !.offset = off]
SetOp(op, all, l, r) ==
    [kind |-> "setop", op |-> op, all |-> all, left |-> l, right |-> r,
     order |-> <<>>, limit |-> NoExpr, offset |-> NoExpr]
=============================================================================
