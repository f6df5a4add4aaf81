------------------------------ MODULE Execution ------------------------------
(***************************************************************************)
(* The in-memory query executor (src/executor/engine.rs and eval.rs) as    *)
(* functions: the stages execute_select takes a query through, each from   *)
(* context to context, over operators that evaluate expressions and        *)
(* aggregates, and Execute, which runs a whole (nested) query.             *)
(***************************************************************************)
EXTENDS SqlSyntax, RowWindow

NoGroup == [grouped |-> FALSE, rows |-> <<>>]
InGroup(rows) == [grouped |-> TRUE, rows |-> rows]

\* What evaluation sees: the tables, the CTEs registered so far, the hasher,
\* and whether the build checks integers for overflow.
Env(tables, ctes, looksAlike, checked) ==
    [db |-> tables, ctes |-> ctes, tags |-> looksAlike, checks |-> checked]

\* The outcome of a stage: rows, or how it ended.
Ok(rows) == [st |-> "ok", rows |-> rows]
Ended(bad) == [st |-> IF bad.t = "panic" THEN "panicked" ELSE "failed", rows |-> <<>>]

\* A condition's verdict, unless its evaluation ends the query.
Verdict(x) == IF Bad(x) THEN x ELSE Bool(Truthy(x))

\* The values of a sequence of evaluations, unless one of them ends the query.
Collect(xs, rows) == IF AnyBad(xs) THEN Ended(FirstBad(xs)) ELSE Ok(rows)

RECURSIVE Eval(_, _, _, _), Execute(_, _)

-----------------------------------------------------------------------------
(***************************************************************************)
(* Expressions                                                             *)
(***************************************************************************)
\* What an operation on i64 gives whose exact result is n: n if it fits; if not,
\* a panic in a build that checks, else what is left of n modulo 2^64.
Fits(n, checked) ==
    IF n \in I64 THEN Integer(n)
    ELSE IF checked THEN Panicked ELSE Integer(Usize(n + Half) - Half)

\* "f as i64": a float too large becomes the nearest i64.
Saturated(n) == IF n < -Half THEN -Half ELSE IF n >= Half THEN Half - 1 ELSE n
AsI64(x) == Saturated(ToI64(x))

\* eval_binary_op for operands that are there; AND and OR are EvalLogic.
\* Integer division truncates, and i64::MIN / -1 and i64::MIN % -1 panic in any
\* build; a float is exact where the quotient is whole.
Quotient(a, b) ==
    LET magnitude(n) == IF n < 0 THEN -n ELSE n
        n == magnitude(a) \div magnitude(b)
    IN  IF (a < 0) = (b < 0) THEN n ELSE -n

\* A mutant: no look at a divisor of zero.
DivideUnguarded(l, r) ==
    IF {l.t, r.t} # {"int"} THEN Null
    ELSE IF r.v = 0 THEN Panicked ELSE Fits(Quotient(l.v, r.v), TRUE)

Divide(l, r) ==
    CASE "str" \in {l.t, r.t} -> Null
      [] r.t # "nan" /\ r.v = 0 -> Failed
      [] "nan" \in {l.t, r.t} -> NaN
      [] {l.t, r.t} = {"int"} -> Fits(Quotient(l.v, r.v), TRUE)
      [] OTHER -> Float(Quotient(l.v, r.v))

Remainder(l, r) ==
    LET a == AsI64(l)  b == AsI64(r)
    IN  CASE "str" \in {l.t, r.t} -> Null
          [] b = 0 -> Failed
          [] a = -Half /\ b = -1 -> Panicked
          [] OTHER -> Integer(a - b * Quotient(a, b))

\* eval_arithmetic
Arithmetic(f, l, r, checked) ==
    LET n == CASE f = "+" -> l.v + r.v [] f = "-" -> l.v - r.v [] f = "*" -> l.v * r.v
    IN  IF "str" \in {l.t, r.t} THEN Null
        ELSE IF "nan" \in {l.t, r.t} THEN NaN
        ELSE IF {l.t, r.t} = {"int"} THEN Fits(n, checked) ELSE Float(n)

BinaryOp(f, l, r, checked) ==
    IF IsNull(l) \/ IsNull(r) THEN Null
    ELSE CASE f = "="  -> Bool(SameValue(l, r))
           [] f = "<>" -> Bool(~SameValue(l, r))
           [] f = "<"  -> Bool(Less(l, r))
           [] f = "<=" -> Bool(Comparable(l, r) /\ ~Greater(l, r))
           [] f = ">"  -> Bool(Greater(l, r))
           [] f = ">=" -> Bool(Comparable(l, r) /\ ~Less(l, r))
           [] f = "/"  -> Divide(l, r)
           [] f = "%"  -> Remainder(l, r)
           [] OTHER -> Arithmetic(f, l, r, checked)

Minus(x, checked) ==
    CASE x.t \in {"null", "nan"} -> x
      [] x.t = "int" -> Fits(-x.v, checked)
      [] x.t = "float" -> Float(-x.v)
      [] OTHER -> Failed

\* The short cut of AND and OR, whose result is a Boolean even for NULLs.
EvalLogic(e, row, group, env) ==
    LET Ev(y) == Eval(y, row, group, env)
        l == Ev(e.l) IN
    IF Bad(l) \/ Truthy(l) = (e.f = "or")
    THEN IF Bad(l) THEN l ELSE Bool(e.f = "or")
    ELSE Verdict(Ev(e.r))

\* IN over a list: an item whose evaluation fails is simply not the value, and
\* those after the first that is are not evaluated.
EvalInList(e, row, group, env) ==
    LET Ev(y) == Eval(y, row, group, env)
        x == Ev(e.e)
        item == [i \in DOMAIN e.list |-> Ev(e.list[i])]
        n == SelectInSeq(item, LAMBDA y : y = Panicked \/ SameValue(y, x))
    IN  CASE Bad(x) -> x
          [] n > 0 /\ item[n] = Panicked -> Panicked
          [] OTHER -> Bool((n > 0) # e.neg)

\* Subqueries are executed on their own: they do not see the row.  What comes
\* of the result where x is on the left of IN.
OfResult(e, x, res) ==
    LET first == IF res.out = <<>> \/ res.out[1] = <<>> THEN Null ELSE res.out[1][1]
        found == \E i \in DOMAIN res.out : res.out[i] # <<>> /\ SameValue(res.out[i][1], x)
    IN  CASE Bad(x) -> x
          [] res.pc = "failed" -> Failed
          [] res.pc = "panicked" -> Panicked
          [] e.op = "insub" -> Bool(found # e.neg)
          [] e.op = "exists" -> Bool((res.out # <<>>) # e.neg)
          [] OTHER -> first

EvalBetween(e, row, group, env) ==
    LET Ev(y) == Eval(y, row, group, env)
        x == <<Ev(e.e), Ev(e.lo), Ev(e.hi)>>
        inRange == /\ Comparable(x[1], x[2]) /\ ~Less(x[1], x[2])
                   /\ Comparable(x[1], x[3]) /\ ~Greater(x[1], x[3])
    IN  IF AnyBad(x) THEN FirstBad(x) ELSE Bool(inRange # e.neg)

\* The first of a searched CASE's branches that holds, and the first
\* argument of COALESCE that is there: what follows is not evaluated.
EvalCase(e, row, group, env) ==
    LET Ev(y) == Eval(y, row, group, env)
        n == SelectInSeq(e.whens, LAMBDA w : Bad(Ev(w[1])) \/ Truthy(Ev(w[1])))
    IN  IF n = 0 THEN Ev(e.else)
        ELSE IF Bad(Ev(e.whens[n][1])) THEN Ev(e.whens[n][1]) ELSE Ev(e.whens[n][2])

EvalCoalesce(e, row, group, env) ==
    LET Ev(y) == Eval(y, row, group, env)
        n == SelectInSeq(e.list, LAMBDA x : ~IsNull(Ev(x)))
    IN  IF n = 0 THEN Null ELSE Ev(e.list[n])

Sum(xs) ==
    LET numbers == SelectSeq(xs, HasNumber)
        sum == FoldLeft(LAMBDA n, x : n + x.v, 0, numbers)  \* a float
    IN  IF \E i \in DOMAIN xs : xs[i].t = "nan" THEN NaN
        ELSE IF numbers = <<>> THEN Null
        ELSE IF \A i \in DOMAIN xs : xs[i].t = "int" THEN Integer(Saturated(sum))
        ELSE Float(sum)

Extreme(f, xs) ==
    LET better(x, m) == IF f = "min" THEN Less(x, m) ELSE Greater(x, m)
    IN  FoldLeft(LAMBDA m, x : IF IsNull(m) \/ better(x, m) THEN x ELSE m, Null, xs)

DistinctValues(xs, looksAlike) ==
    LET once == KeepFirst([i \in DOMAIN xs |-> <<xs[i]>>], looksAlike)
    IN  [i \in DOMAIN once |-> once[i][1]]

\* Over the argument's values, of which NULLs do not count.  Only COUNT
\* and SUM look at DISTINCT.
AggregateOf(e, all, looksAlike) ==
    LET there == SelectSeq(all, LAMBDA x : ~IsNull(x))
        xs == IF e.distinct THEN DistinctValues(there, looksAlike) ELSE there
    IN  CASE e.f = "count" /\ e.arg.op = "star" -> Integer(Len(all))
          [] AnyBad(all) -> FirstBad(all)
          [] e.f = "count" -> Integer(Len(xs))
          [] e.f = "sum" -> Sum(xs)
          [] e.f \in {"min", "max"} -> Extreme(e.f, there)
          [] OTHER -> Failed

\* COUNT, SUM, MIN and MAX over the rows of a group.  A call without an argument
\* looks for it on the first row, as args[0]; COUNT() is COUNT(*) to the parser.
EvalAggregate(e, rows, env) ==
    LET value(row) == IF Given(e.arg) THEN Eval(e.arg, row, NoGroup, env) ELSE Panicked
    IN  AggregateOf(e, [i \in DOMAIN rows |-> value(rows[i])], env.tags)

\* A typed aggregate outside a group is NULL; one left untyped for lack of an
\* argument is no scalar function.
AggregateAlone(e) == IF Given(e.arg) /\ e.f \in {"count", "sum", "min", "max"} THEN Null ELSE Failed

\* eval_expr_impl, for the kinds of expression the queries are made of.
Eval(e, row, group, env) ==
    LET Ev(x) == Eval(x, row, group, env) IN
    CASE e.op = "col" -> IF e.tab = "" THEN Get(row, e.name)
                         ELSE GetQualified(row, e.tab, e.name)
      [] e.op = "lit" -> e.val
      [] e.op = "star" -> Null
      [] e.op = "none" -> Null
      [] e.op = "logic" -> EvalLogic(e, row, group, env)
      [] e.op = "bin" -> LET x == <<Ev(e.l), Ev(e.r)>> IN
                         IF AnyBad(x) THEN FirstBad(x) ELSE BinaryOp(e.f, x[1], x[2], env.checks)
      [] e.op = "not" -> LET x == Ev(e.e) IN IF Bad(x) THEN x ELSE Bool(~Truthy(x))
      [] e.op = "neg" -> LET x == Ev(e.e) IN IF Bad(x) THEN x ELSE Minus(x, env.checks)
      [] e.op = "nested" -> Ev(e.e)
      [] e.op = "isnull" -> LET x == Ev(e.e) IN IF Bad(x) THEN x ELSE Bool(IsNull(x) # e.neg)
      [] e.op = "in" -> EvalInList(e, row, group, env)
      [] e.op = "between" -> EvalBetween(e, row, group, env)
      [] e.op = "case" -> EvalCase(e, row, group, env)
      [] e.op = "coalesce" -> EvalCoalesce(e, row, group, env)
      [] e.op \in {"insub", "exists", "scalar"} ->
            OfResult(e, IF e.op = "insub" THEN Ev(e.e) ELSE Null, Execute(e.sub, env))
      [] e.op = "agg" -> IF group.grouped THEN EvalAggregate(e, group.rows, env)
                        ELSE AggregateAlone(e)
      [] OTHER -> Failed

EvalRow(e, row, env) == Eval(e, row, NoGroup, env)

RECURSIVE ContainsAggregate(_)
\* expr_contains_aggregate: it does not look into predicates and COALESCE.
ContainsAggregate(e) ==
    CASE e.op = "agg" -> TRUE
      [] e.op \in {"bin", "logic"} -> ContainsAggregate(e.l) \/ ContainsAggregate(e.r)
      [] e.op \in {"not", "neg", "nested"} -> ContainsAggregate(e.e)
      [] e.op = "case" -> \/ ContainsAggregate(e.else)
                          \/ \E i \in DOMAIN e.whens : \E j \in 1..2 : ContainsAggregate(e.whens[i][j])
      [] OTHER -> FALSE

-----------------------------------------------------------------------------
(***************************************************************************)
(* FROM and the joins                                                      *)
(***************************************************************************)
\* table_to_rows and result_to_rows: every column becomes alias.column.
AliasRows(table, alias) ==
    [i \in DOMAIN table.rows |->
        [cols |-> [j \in DOMAIN table.cols |-> <<alias>> \o table.cols[j]],
         vals |-> table.rows[i]]]

DerivedRows(res, alias) ==
    IF res.pc # "done" THEN [st |-> res.pc, rows |-> <<>>]
    ELSE Ok(AliasRows([cols |-> res.cols, rows |-> res.out], alias))

\* A mutant: tables first.
ResolveTablesFirst(src, env) ==
    CASE src.kind = "table" /\ src.name \in DOMAIN env.db ->
            Ok(AliasRows(env.db[src.name], src.alias))
      [] src.kind = "table" /\ src.name \in DOMAIN env.ctes ->
            Ok(AliasRows(env.ctes[src.name], src.alias))
      [] src.kind = "subquery" ->
            DerivedRows(Execute(src.query, env), src.alias)
      [] OTHER -> Ended(Failed)

\* resolve_table_source: a CTE hides the table of its name; a derived table
\* runs in a context of its own, on a copy of the CTEs.  A table with a temporal
\* clause, one that is not there and any other source is an error.
Resolve(src, env) ==
    CASE src.kind = "table" /\ src.name \in DOMAIN env.ctes ->
            Ok(AliasRows(env.ctes[src.name], src.alias))
      [] src.kind = "table" /\ src.name \in DOMAIN env.db \ DOMAIN env.ctes ->
            Ok(AliasRows(env.db[src.name], src.alias))
      [] src.kind = "subquery" ->
            DerivedRows(Execute(src.query, env), src.alias)
      [] OTHER -> Ended(Failed)

Columns(rows) == IF rows = <<>> THEN <<>> ELSE rows[1].cols

\* USING: of the columns with that name, the first two are compared.
UsingMatches(m, names) ==
    \A k \in DOMAIN names :
        LET at == SelectSeq([i \in DOMAIN m.cols |-> i], LAMBDA i : Last(m.cols[i]) = names[k])
        IN  Len(at) >= 2 => SameValue(m.vals[at[1]], m.vals[at[2]])

\* join_matches
Matches(m, join, env) ==
    IF Given(join.on)
    THEN Verdict(EvalRow(join.on, m, env))
    ELSE Bool(UsingMatches(m, join.using))

\* natural_join is an inner join USING the names both first rows have.
NaturalNames(left, right) ==
    LET name(cols) == [i \in DOMAIN cols |-> Last(cols[i])]
    IN  SelectSeq(name(Columns(left)), LAMBDA n : Contains(name(Columns(right)), n))

(***************************************************************************)
(* The nested loop of inner_join, left_join, right_join and full_join: the *)
(* outer loop is over the left rows, but over the right rows of a RIGHT    *)
(* JOIN.  An outer row that no inner row matched is kept beside a row of   *)
(* NULLs in the columns of the inner side's first row; FULL then adds the  *)
(* right rows that were never matched.                                     *)
(***************************************************************************)
Pair(type, o, i) == IF type = "right" THEN Merge(i, o) ELSE Merge(o, i)

Verdicts(outer, inner, join, env) ==
    [a \in DOMAIN outer |->
        [b \in DOMAIN inner |-> Matches(Pair(join.type, outer[a], inner[b]), join, env)]]

JoinedRows(outer, inner, type, verdict) ==
    LET matched(a) == SelectSeq([b \in DOMAIN inner |-> b], LAMBDA b : Truthy(verdict[a][b]))
        padded(a) == IF type = "inner" THEN <<>>
                     ELSE <<Pair(type, outer[a], NullRow(Columns(inner)))>>
        ofOuter(a) == IF matched(a) = <<>> THEN padded(a)
                      ELSE [n \in DOMAIN matched(a) |-> Pair(type, outer[a], inner[matched(a)[n]])]
        never == SelectSeq([b \in DOMAIN inner |-> b],
                           LAMBDA b : \A a \in DOMAIN outer : ~Truthy(verdict[a][b]))
        rest == IF type # "full" THEN <<>>
                ELSE [n \in DOMAIN never |-> Merge(NullRow(Columns(outer)), inner[never[n]])]
    IN  Collect(FlattenSeq(verdict),
                FlattenSeq([a \in DOMAIN outer |-> ofOuter(a)]) \o rest)

NestedLoop(left, right, join, env) ==
    LET outer == IF join.type = "right" THEN right ELSE left
        inner == IF join.type = "right" THEN left ELSE right
    IN  JoinedRows(outer, inner, join.type, Verdicts(outer, inner, join, env))

\* CROSS and NATURAL joins are inner ones.
InnerJoin(join, names) == [join EXCEPT !.type = "inner", !.on = NoExpr, !.using = names]
AsLoop(join, left, right) ==
    CASE join.type = "cross" -> InnerJoin(join, <<>>)
      [] join.type = "natural" -> InnerJoin(join, NaturalNames(left, right))
      [] OTHER -> join

Supported(join) == join.type \in {"inner", "left", "right", "full", "cross", "natural"}

\* execute_join, once its right side has been resolved.
JoinTo(left, right, join, env) ==
    IF right.st # "ok" THEN right
    ELSE IF Supported(join)
    THEN NestedLoop(left, right.rows, AsLoop(join, left, right.rows), env)
    ELSE Ended(Failed)

Join(left, join, env) == JoinTo(left, Resolve(join.src, env), join, env)

\* The same loops in steps are JoinLoops, which gives the places of the rows.
FindingOf(v) ==
    CASE v.t = "panic" -> "panicked" [] v.t = "error" -> "failed"
      [] Truthy(v) -> "yes" [] OTHER -> "no"

LoopJob(left, right, join, env) ==
    [left |-> Len(left), right |-> Len(right), type |-> join.type,
     on |-> [p \in (DOMAIN left) \X (DOMAIN right) |->
                FindingOf(Matches(Merge(left[p[1]], right[p[2]]), join, env))]]

RowsAt(places, left, right) ==
    LET side(rows, n) == IF n = 0 THEN NullRow(Columns(rows)) ELSE rows[n]
    IN  [k \in DOMAIN places |-> Merge(side(left, places[k][1]), side(right, places[k][2]))]

-----------------------------------------------------------------------------
(***************************************************************************)
(* WHERE, GROUP BY, the select list                                        *)
(***************************************************************************)
\* A mutant: a row whose condition is unknown stays.
FilterUnknown(rows, e, env) ==
    Ok(SelectSeq(rows, LAMBDA r : LET x == EvalRow(e, r, env) IN IsNull(x) \/ Truthy(x)))

\* filter_rows, by the value of the condition for each row.
Holding(rows, x) ==
    LET kept == SelectSeq([i \in DOMAIN rows |-> i], LAMBDA i : Truthy(x[i]))
    IN  Collect(x, [n \in DOMAIN kept |-> rows[kept[n]]])

Filter(rows, e, env) == Holding(rows, [i \in DOMAIN rows |-> EvalRow(e, rows[i], env)])

\* The key of a row, in the order of GROUP BY.
KeyOf(row, by, env) == [k \in DOMAIN by |-> EvalRow(by[k], row, env)]

\* A mutant: NULL is not found again either.
GroupsNullApart(rows, by, env) ==
    IF \E i \in DOMAIN rows : AnyBad(KeyOf(rows[i], by, env)) \/ Null \in ToSet(KeyOf(rows[i], by, env))
    THEN Ended(Panicked)
    ELSE Ok([i \in DOMAIN rows |-> <<rows[i]>>])

\* group_rows: one group for each key, in the order of the keys' first rows.
\* A key that is not equal to itself is never found again: remove().unwrap().
GroupsOf(rows, key, looksAlike) ==
    LET leader(i) == \A j \in 1..(i - 1) : ~SameKey(key[i], key[j], looksAlike)
        leaders == SelectSeq([i \in DOMAIN rows |-> i], leader)
        members(l) == SelectSeq([i \in DOMAIN rows |-> i],
                                LAMBDA i : SameKey(key[i], key[l], looksAlike))
        groups == [n \in DOMAIN leaders |->
                      [m \in DOMAIN members(leaders[n]) |-> rows[members(leaders[n])[m]]]]
        lost == \E i \in DOMAIN rows : ~SameRow(key[i], key[i])
    IN  Collect(FlattenSeq(key) \o (IF lost THEN <<Panicked>> ELSE <<>>), groups)

Groups(rows, by, env) == GroupsOf(rows, [i \in DOMAIN rows |-> KeyOf(rows[i], by, env)], env.tags)

\* The same loop in steps is GroupLoops, which gives the places of the rows.
KeyJob(use, key, looksAlike) ==
    [use |-> use, rows |-> Len(key),
     key |-> [i \in DOMAIN key |-> Collect(key[i], <<>>).st],
     like |-> [p \in (DOMAIN key) \X (DOMAIN key) |-> SameKey(key[p[1]], key[p[2]], looksAlike)]]
GroupJob(rows, by, env) == KeyJob("group", [i \in DOMAIN rows |-> KeyOf(rows[i], by, env)], env.tags)
DistinctJob(rows, looksAlike) == KeyJob("distinct", rows, looksAlike)
RowsIn(places, rows) == [k \in DOMAIN places |-> [m \in DOMAIN places[k] |-> rows[places[k][m]]]]

\* HAVING: a group whose condition cannot be evaluated is left out, but a panic
\* is nobody's to leave out.
Having(groups, e, env) ==
    LET condition(g) == Verdict(Eval(e, IF g = <<>> THEN EmptyRow ELSE g[1], InGroup(g), env))
        verdict == [n \in DOMAIN groups |-> condition(groups[n])]
        kept == SelectSeq([n \in DOMAIN groups |-> n], LAMBDA n : verdict[n] = Bool(TRUE))
    IN  IF Contains(verdict, Panicked) THEN Ended(Panicked)
        ELSE Ok([k \in DOMAIN kept |-> groups[kept[k]]])

\* The columns a wildcard stands for: all of them, or those of one table.
Expands(item, col) == item.kind = "star" \/ (Len(col) > 1 /\ col[1] = item.tab)

\* compute_column_names and expr_to_name
ExprName(e) ==
    CASE e.op = "col" -> IF e.tab = "" THEN <<e.name>> ELSE <<e.tab, e.name>>
      [] e.op = "agg" -> <<e.f>>
      [] OTHER -> <<"?column?">>

ColumnNames(items, sample) ==
    LET named(item) ==
          IF item.kind = "expr"
          THEN << IF item.alias = "" THEN ExprName(item.e) ELSE <<item.alias>> >>
          ELSE LET at == SelectSeq(sample.cols, LAMBDA col : Expands(item, col))
               IN  [n \in DOMAIN at |-> <<Last(at[n])>>]
    IN  FlattenSeq([k \in DOMAIN items |-> named(items[k])])

\* evaluate_select_items for one row, and for the first row of one group.
ItemValues(items, row, group, env) ==
    LET values(item) ==
          IF item.kind = "expr" THEN <<Eval(item.e, row, group, env)>>
          ELSE LET at == SelectSeq([i \in DOMAIN row.cols |-> i],
                                   LAMBDA i : Expands(item, row.cols[i]))
               IN  [n \in DOMAIN at |-> Cell(row, at[n])]
    IN  FlattenSeq([k \in DOMAIN items |-> values(items[k])])

Aggregates(sel) ==
    \/ sel.group # <<>>
    \/ \E k \in DOMAIN sel.cols : sel.cols[k].kind = "expr" /\ ContainsAggregate(sel.cols[k].e)

\* GROUP BY, HAVING and the select list.  HAVING is only looked at when
\* there is a GROUP BY or an aggregate in the select list.
Projected(out, names) == Collect(FlattenSeq(out), out) @@ [cols |-> names]

ProjectUnits(sel, units, grouped, env) ==
    LET head(u) == IF u = <<>> THEN EmptyRow ELSE u[1]
    IN  Projected([n \in DOMAIN units |->
                      ItemValues(sel.cols, head(units[n]),
                                 IF grouped THEN InGroup(units[n]) ELSE NoGroup, env)],
                  ColumnNames(sel.cols, IF units = <<>> THEN EmptyRow ELSE head(units[1])))

ProjectKept(sel, kept, env) ==
    IF kept.st # "ok" THEN kept @@ [cols |-> <<>>] ELSE ProjectUnits(sel, kept.rows, TRUE, env)

ProjectGroups(sel, groups, env) ==
    ProjectKept(sel, IF groups.st = "ok" /\ Given(sel.having)
                     THEN Having(groups.rows, sel.having, env) ELSE groups, env)

ProjectBy(sel, rows, groups, env) ==
    IF Aggregates(sel) THEN ProjectGroups(sel, groups, env)
    ELSE ProjectUnits(sel, [i \in DOMAIN rows |-> <<rows[i]>>], FALSE, env)

Project(sel, rows, env) ==
    ProjectBy(sel, rows, IF sel.group = <<>> THEN Ok(<<rows>>) ELSE Groups(rows, sel.group, env), env)

-----------------------------------------------------------------------------
(***************************************************************************)
(* ORDER BY, LIMIT and OFFSET: they work on the result, not on its source. *)
(***************************************************************************)
\* A sort key is a position in the row or an expression over the result's
\* columns, which a position that the row lacks is too: a number.  item.nulls (NULLS FIRST or LAST) is not looked at.
SortKey(cols, vals, item, env) ==
    IF item.pos \in DOMAIN vals THEN vals[item.pos]
    ELSE EvalRow(item.e, [cols |-> cols, vals |-> vals], env)

SortBefore(x, y, order) ==
    LET less(k) == IF order[k].asc THEN Less(x[k], y[k]) ELSE Greater(x[k], y[k])
        more(k) == IF order[k].asc THEN Greater(x[k], y[k]) ELSE Less(x[k], y[k])
    IN  \E k \in DOMAIN order :
            less(k) /\ \A j \in 1..(k - 1) : ~less(j) /\ ~more(j)

\* sort_result: sort_by keeps rows that compare as equal in their order.
Sorted(out, key, order) ==
    LET before(i, j) == \/ SortBefore(key[i], key[j], order)
                        \/ ~SortBefore(key[j], key[i], order) /\ i < j
        at == [n \in DOMAIN out |-> CHOOSE i \in DOMAIN out :
                  Cardinality({j \in DOMAIN out : before(j, i)}) = n - 1]
    IN  Collect(FlattenSeq(key), [n \in DOMAIN out |-> out[at[n]]])

Sort(cols, out, order, env) ==
    Sorted(out, [i \in DOMAIN out |-> [k \in DOMAIN order |-> SortKey(cols, out[i], order[k], env)]],
           order)

\* A mutant: LIMIT counts from the first row.
LimitFromFirst(out, limit, offset, env) ==
    LET start == IF Given(offset) THEN Usize(ToI64(EvalRow(offset, EmptyRow, env))) ELSE 0
        end == IF Given(limit) THEN Usize(ToI64(EvalRow(limit, EmptyRow, env))) ELSE Len(out)
    IN  Ok(SubSeq(out, start + 1, IF end < Len(out) THEN end ELSE Len(out)))

\* apply_limit_offset: rows[start..end], in either kind of build.
Slice(out, start, end) ==
    IF BadSlice(start, end) THEN Ended(Panicked) ELSE Ok(SubSeq(out, start + 1, end))

Window(out, limit, offset, most, skip) ==
    LET start == IF Given(offset) THEN WindowStart(AsI64(skip), Len(out)) ELSE 0
        end == IF Given(limit) THEN WindowEnd(start, AsI64(most), Len(out)) ELSE Len(out)
    IN  IF AnyBad(<<skip, most>>) THEN Ended(FirstBad(<<skip, most>>)) ELSE Slice(out, start, end)

Limit(out, limit, offset, env) ==
    Window(out, limit, offset, EvalRow(limit, EmptyRow, env), EvalRow(offset, EmptyRow, env))

\* The rows of a set operation: neither ALL nor the widths are looked at by the
\* membership tests.  The right side's table and that of the rows seen so far
\* have seeds of their own.
Combine(op, all, left, right, tagsOfRight, tagsOfSeen) ==
    LET has(r) == \E i \in DOMAIN right : SameKey(r, right[i], tagsOfRight)
        rows == CASE op = "union" -> left \o right
                  [] op = "intersect" -> SelectSeq(left, has)
                  [] op = "except" -> SelectSeq(left, LAMBDA r : ~has(r))
    IN  IF all THEN rows ELSE KeepFirst(rows, tagsOfSeen)

-----------------------------------------------------------------------------
(***************************************************************************)
(* The stages of a query: each takes the context to where the next starts. *)
(***************************************************************************)
Final == {"done", "failed", "panicked"}

Context(ctes) ==
    [pc |-> "start", ctes |-> ctes, n |-> 0, rows |-> <<>>, cols |-> <<>>, out |-> <<>>]
EnvOf(tables, looksAlike, checked, x) == Env(tables, x.ctes, looksAlike, checked)

\* A stage that failed ends the query; otherwise it goes on at "next".
Advance(x, stage, next) ==
    IF stage.st # "ok" THEN [x EXCEPT !.pc = stage.st, !.rows = <<>>, !.out = <<>>]
    ELSE [x EXCEPT !.pc = next]
WithRows(x, stage, next) == [Advance(x, stage, next) EXCEPT !.rows = stage.rows]
WithOut(x, stage, next) == [Advance(x, stage, next) EXCEPT !.out = stage.rows]

\* One CTE: its query runs in this very context, so that the CTEs it
\* registers itself stay registered.
Registered(x, name, res) ==
    IF res.pc # "done" THEN [Context(res.ctes) EXCEPT !.pc = res.pc]
    ELSE [x EXCEPT !.n = @ + 1,
                   !.ctes = (name :> [cols |-> res.cols, rows |-> res.out]) @@ res.ctes]

CteStage(sel, x, env) ==
    Registered(x, sel.ctes[x.n + 1].name, Execute(sel.ctes[x.n + 1].query, env))

FromStage(sel, x, env) ==
    [WithRows(x, IF sel.from = NoSource THEN Ok(<<EmptyRow>>) ELSE Resolve(sel.from, env), "join")
        EXCEPT !.n = 0]

JoinStage(sel, x, env) ==
    [WithRows(x, Join(x.rows, sel.joins[x.n + 1], env), "join") EXCEPT !.n = @ + 1]

WhereStage(sel, x, env) ==
    WithRows(x, IF Given(sel.where) THEN Filter(x.rows, sel.where, env) ELSE Ok(x.rows), "project")

WithResult(x, result) ==
    [WithOut(x, result, "distinct") EXCEPT !.cols = result.cols, !.rows = <<>>]
ProjectStage(sel, x, env) == WithResult(x, Project(sel, x.rows, env))

DistinctStage(sel, x, env) ==
    WithOut(x, Ok(IF sel.distinct THEN KeepFirst(x.out, env.tags) ELSE x.out), "order")

OrderStage(stmt, x, env) ==
    WithOut(x, IF stmt.order = <<>> THEN Ok(x.out) ELSE Sort(x.cols, x.out, stmt.order, env), "limit")

LimitStage(stmt, x, env) ==
    WithOut(x, IF Given(stmt.limit) \/ Given(stmt.offset)
               THEN Limit(x.out, stmt.limit, stmt.offset, env) ELSE Ok(x.out), "done")

\* Both sides of a set operation run in this very context, the left one first.
Combined(stmt, x, l, r, ofRight, ofSeen) ==
    IF r.pc # "done" THEN [Context(r.ctes) EXCEPT !.pc = r.pc]
    ELSE [x EXCEPT !.pc = "order", !.ctes = r.ctes, !.cols = l.cols,
                   !.out = Combine(stmt.op, stmt.all, l.out, r.out, ofRight, ofSeen)]

AfterLeft(stmt, x, l, env, ofSeen) ==
    Combined(stmt, x, l,
             IF l.pc # "done" THEN l ELSE Execute(stmt.right, [env EXCEPT !.ctes = l.ctes]),
             env.tags, ofSeen)

CombineStage(stmt, x, env, ofSeen) == AfterLeft(stmt, x, Execute(stmt.left, env), env, ofSeen)

\* Where the context stands: "start" until the CTEs are done, then "from".
Stage(stmt, x, env) ==
    CASE x.pc = "start" /\ stmt.kind = "setop" -> CombineStage(stmt, x, env, env.tags)
      [] x.pc = "start" /\ stmt.kind = "select" ->
            IF x.n < Len(stmt.ctes) THEN CteStage(stmt, x, env) ELSE FromStage(stmt, x, env)
      [] x.pc = "join" ->
            IF x.n < Len(stmt.joins) THEN JoinStage(stmt, x, env) ELSE WhereStage(stmt, x, env)
      [] x.pc = "project" -> ProjectStage(stmt, x, env)
      [] x.pc = "distinct" -> DistinctStage(stmt, x, env)
      [] x.pc = "order" -> OrderStage(stmt, x, env)
      [] x.pc = "limit" -> LimitStage(stmt, x, env)
      [] OTHER -> [x EXCEPT !.pc = "failed"]

RECURSIVE RunFrom(_, _, _)
RunFrom(stmt, x, env) ==
    IF x.pc \in Final THEN x
    ELSE RunFrom(stmt, Stage(stmt, x, EnvOf(env.db, env.tags, env.checks, x)), env)

\* A whole query, nested in another one.
Execute(stmt, env) == RunFrom(stmt, Context(env.ctes), env)
==============================================================================
