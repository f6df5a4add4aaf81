---------------------------- MODULE SqlSemantics ----------------------------
(***************************************************************************)
(* What SQL says a query means, to hold the executor against: predicates   *)
(* in three-valued logic, and relations as families of rows over a set of  *)
(* identities, with no loops, no order of rows and no contexts.  Queries   *)
(* are the records of module SqlSyntax; names resolve to one column, and   *)
(* rows of one column are of one type.  A scope has the tables, the CTEs   *)
(* and the row of the query around a subquery.                             *)
(***************************************************************************)
EXTENDS SqlValues

TRUE3 == Bool(TRUE)
FALSE3 == Bool(FALSE)

Not3(x) == IF IsNull(x) THEN Null ELSE Bool(x = FALSE3)
And3(X) == IF FALSE3 \in X THEN FALSE3 ELSE IF Null \in X THEN Null ELSE TRUE3
Or3(X) == IF TRUE3 \in X THEN TRUE3 ELSE IF Null \in X THEN Null ELSE FALSE3
Negated(neg, x) == IF neg THEN Not3(x) ELSE x

Compare3(f, x, y) ==
    IF IsNull(x) \/ IsNull(y) THEN Null
    ELSE Bool(CASE f = "="  -> SameValue(x, y)
                [] f = "<>" -> ~SameValue(x, y)
                [] f = "<"  -> Less(x, y)
                [] f = ">"  -> Less(y, x)
                [] f = "<=" -> ~Less(y, x)
                [] f = ">=" -> ~Less(x, y))
\* Arithmetic on integers of any size.  What is left of a division is less than
\* the divisor and has the dividend's sign; a division by zero has no value.
Rest3(x, y) ==
    LET size(n) == IF n < 0 THEN -n ELSE n
    IN  CHOOSE r \in (-size(y))..size(y) :
            size(r) < size(y) /\ r * x >= 0 /\ (x - r) % size(y) = 0
Compute3(f, x, y) ==
    IF IsNull(x) \/ IsNull(y) \/ (f \in {"/", "%"} /\ y.v = 0) THEN Null
    ELSE Integer(CASE f = "+" -> x.v + y.v [] f = "-" -> x.v - y.v [] f = "*" -> x.v * y.v
                   [] f = "%" -> Rest3(x.v, y.v)
                   [] f = "/" -> CHOOSE n \in (-(x.v * x.v))..(x.v * x.v) : n * y.v = x.v - Rest3(x.v, y.v))

\* A relation: column names, and rows (sequences of values) by identity.
Relation(cols, rows) == [cols |-> cols, rows |-> rows]
RowsOf(rel) == {rel.rows[i] : i \in DOMAIN rel.rows}
BagOf(rel) == [v \in RowsOf(rel) |-> Cardinality({i \in DOMAIN rel.rows : rel.rows[i] = v})]
Occurrences(bag, V) == FoldFunctionOnSet(+, 0, bag, V)
BagOfSeq(s) == [v \in ToSet(s) |-> Cardinality({i \in DOMAIN s : s[i] = v})]

RECURSIVE Meaning(_, _), Value3(_, _, _, _)

\* An aggregate over a family of source rows, by the argument's value on each:
\* NULLs do not count, and DISTINCT counts equal values once.
AggregateOf3(e, value) ==
    LET at == {i \in DOMAIN value : ~IsNull(value[i])}
        ids == IF ~e.distinct THEN at
               ELSE {CHOOSE i \in at : value[i] = v : v \in {value[i] : i \in at}}
        sum == FoldFunctionOnSet(+, 0, [i \in at |-> value[i].v], ids)
        best(f) == CHOOSE v \in {value[i] : i \in at} :
                      \A i \in at : Compare3("<=", IF f = "min" THEN v ELSE value[i],
                                                   IF f = "min" THEN value[i] ELSE v) = TRUE3
    IN  CASE e.arg.op = "star" -> Integer(Cardinality(DOMAIN value))
          [] e.f = "count" -> Integer(Cardinality(ids))
          [] at = {} -> Null
          [] e.f = "sum" -> Integer(sum)
          [] OTHER -> best(e.f)

FirstColumn(rel) == {v[1] : v \in RowsOf(rel)}
Only(V) == IF V = {} THEN Null ELSE CHOOSE v \in V : TRUE

Among3(x, V) == Or3({Compare3("=", x, v) : v \in V})

\* The value of a subquery's rows: x [NOT] IN, [NOT] EXISTS, or the only row's value.
OfRelation(e, x, rel) ==
    CASE e.op = "insub" -> Negated(e.neg, Among3(x, FirstColumn(rel)))
      [] e.op = "exists" -> Bool((RowsOf(rel) # {}) # e.neg)
      [] OTHER -> Only(FirstColumn(rel))

\* The value of an expression on a source row: a function from the pairs
\* <<table, column>> in scope.  Conditions are Bool or, for unknown, Null.
Value3(e, row, family, scope) ==
    LET Of(x) == Value3(x, row, family, scope)
        named(r) == {k \in DOMAIN r : k[2] = e.name /\ e.tab \in {"", k[1]}}
        among(r) == r[CHOOSE k \in named(r) : TRUE]
        within == [scope EXCEPT !.outer = row @@ @]
    IN  CASE e.op = "col" -> IF named(row) # {} THEN among(row) ELSE among(scope.outer)
          [] e.op = "lit" -> e.val
          [] e.op \in {"none", "star"} -> Null
          [] e.op = "logic" -> IF e.f = "and" THEN And3({Of(e.l), Of(e.r)}) ELSE Or3({Of(e.l), Of(e.r)})
          [] e.op = "bin" -> IF e.f \in {"+", "-", "*", "/", "%"} THEN Compute3(e.f, Of(e.l), Of(e.r))
                             ELSE Compare3(e.f, Of(e.l), Of(e.r))
          [] e.op = "neg" -> Compute3("-", Integer(0), Of(e.e))
          [] e.op = "nested" -> Of(e.e)
          [] e.op = "not" -> Not3(Of(e.e))
          [] e.op = "isnull" -> Bool(IsNull(Of(e.e)) # e.neg)
          [] e.op = "in" -> Negated(e.neg, Among3(Of(e.e), {Of(x) : x \in ToSet(e.list)}))
          [] e.op \in {"insub", "exists", "scalar"} ->
                OfRelation(e, IF e.op = "insub" THEN Of(e.e) ELSE Null, Meaning(e.sub, within))
          [] e.op = "between" -> Negated(e.neg, And3({Compare3("<=", Of(e.lo), Of(e.e)),
                                                       Compare3("<=", Of(e.e), Of(e.hi))}))
          [] e.op = "case" -> LET n == SelectInSeq(e.whens, LAMBDA w : Of(w[1]) = TRUE3)
                              IN  IF n = 0 THEN Of(e.else) ELSE Of(e.whens[n][2])
          [] e.op = "coalesce" -> LET n == SelectInSeq(e.list, LAMBDA x : ~IsNull(Of(x)))
                                  IN  IF n = 0 THEN Null ELSE Of(e.list[n])
          [] e.op = "agg" -> AggregateOf3(e, [i \in DOMAIN family |-> Value3(e.arg, family[i], <<>>, scope)])

-----------------------------------------------------------------------------
\* A source of FROM as a family of source rows, and the columns it gives; no
\* FROM is one row without columns.
SourceRelation(src, scope) ==
    CASE src.kind = "none" -> Relation(<<>>, <<<<>>>>)
      [] src.kind = "subquery" -> Meaning(src.query, scope)
      [] src.name \in DOMAIN scope.ctes -> scope.ctes[src.name]
      [] OTHER -> LET table == scope.db[src.name]
                  IN  Relation(table.cols, [i \in {<<n>> : n \in DOMAIN table.rows} |-> table.rows[i[1]]])

NamesIn(alias, rel) == {<<alias, Last(rel.cols[j])>> : j \in DOMAIN rel.cols}
Columns3(src, scope) == NamesIn(src.alias, SourceRelation(src, scope))

FamilyOf(alias, rel) ==
    [i \in DOMAIN rel.rows |->
        [k \in NamesIn(alias, rel) |->
            rel.rows[i][CHOOSE j \in DOMAIN rel.cols : Last(rel.cols[j]) = k[2]]]]
Source(src, scope) == FamilyOf(src.alias, SourceRelation(src, scope))

Nulls(columns) == [k \in columns |-> Null]

\* Every column on the left with a USING name equals the right one.
Agree(names, l, r) ==
    \A k \in DOMAIN l, m \in DOMAIN r :
        k[2] = m[2] /\ k[2] \in names => Compare3("=", l[k], r[m]) = TRUE3

(***************************************************************************)
(* The source of the first n joins of a query.  A joined row is identified *)
(* by the pair of its halves' identities, <<>> standing for a half of      *)
(* NULLs: a left row that goes with no right row, or the other way round.  *)
(***************************************************************************)
RECURSIVE Joined(_, _, _), JoinedColumns(_, _, _)
JoinedColumns(sel, n, scope) ==
    IF n = 0 THEN Columns3(sel.from, scope)
    ELSE JoinedColumns(sel, n - 1, scope) \cup Columns3(sel.joins[n].src, scope)

CommonNames(join, lcols, rcols) ==
    IF join.type # "natural" THEN ToSet(join.using)
    ELSE {k[2] : k \in lcols} \cap {k[2] : k \in rcols}

\* The pairs of a left and a right row that go together.
Couples(join, L, R, names, scope) ==
    {ij \in (DOMAIN L) \X (DOMAIN R) :
        IF join.on.op # "none" THEN Value3(join.on, L[ij[1]] @@ R[ij[2]], <<>>, scope) = TRUE3
        ELSE Agree(names, L[ij[1]], R[ij[2]])}

\* They, and those the type of the join keeps alone.
Paired(type, L, R, lcols, rcols, both) ==
    LET lonely == {<<i, <<>>>> : i \in DOMAIN L \ {ij[1] : ij \in both}}
        stray == {<<<<>>, j>> : j \in DOMAIN R \ {ij[2] : ij \in both}}
        ids == both \cup (IF type \in {"left", "full"} THEN lonely ELSE {})
                    \cup (IF type \in {"right", "full"} THEN stray ELSE {})
    IN  [ij \in ids |-> (IF ij[1] = <<>> THEN Nulls(lcols) ELSE L[ij[1]]) @@
                        (IF ij[2] = <<>> THEN Nulls(rcols) ELSE R[ij[2]])]

JoinedWith(join, L, R, lcols, rcols, scope) ==
    Paired(join.type, L, R, lcols, rcols,
           Couples(join, L, R, CommonNames(join, lcols, rcols), scope))

Joined(sel, n, scope) ==
    IF n = 0 THEN Source(sel.from, scope)
    ELSE JoinedWith(sel.joins[n], Joined(sel, n - 1, scope), Source(sel.joins[n].src, scope),
                    JoinedColumns(sel, n - 1, scope), Columns3(sel.joins[n].src, scope), scope)

\* One row for each different row.
Once(rel) ==
    LET ids == {CHOOSE i \in DOMAIN rel.rows : rel.rows[i] = v : v \in RowsOf(rel)}
    IN  Relation(rel.cols, [i \in ids |-> rel.rows[i]])
OnceIf(distinct, rel) == IF distinct THEN Once(rel) ELSE rel

Name3(item) == IF item.alias # "" THEN <<item.alias>>
               ELSE IF item.e.op = "col" THEN <<item.e.name>> ELSE <<"?">>

\* The select list, * and t.* replaced by the columns they stand for.
Items(sel, scope) ==
    LET sources == <<sel.from>> \o [n \in DOMAIN sel.joins |-> sel.joins[n].src]
        column(alias, name) ==
            [kind |-> "expr", e |-> [op |-> "col", tab |-> alias, name |-> name], alias |-> ""]
        columns(src) == LET cols == SourceRelation(src, scope).cols
                        IN  [j \in DOMAIN cols |-> column(src.alias, Last(cols[j]))]
        all(item) == SelectSeq(sources, LAMBDA src : item.kind = "star" \/ item.tab = src.alias)
    IN  FlattenSeq([k \in DOMAIN sel.cols |->
            LET item == sel.cols[k] IN
            IF item.kind = "expr" THEN <<item>>
            ELSE FlattenSeq([n \in DOMAIN all(item) |-> columns(all(item)[n])])])

Family(source, g) == [i \in g |-> source[i]]
Head3(source, g) == IF g = {} THEN <<>> ELSE source[CHOOSE i \in g : TRUE]

\* What each row of the result is made of: a row, or a group of them.
Units(sel, items, source, kept, scope) ==
    LET key == [i \in kept |-> [k \in DOMAIN sel.group |-> Value3(sel.group[k], source[i], <<>>, scope)]]
        groups == IF sel.group = <<>> THEN {kept}
                  ELSE {{i \in kept : key[i] = key[j]} : j \in kept}
        having(g) == sel.having.op # "none" =>
                         Value3(sel.having, Head3(source, g), Family(source, g), scope) = TRUE3
    IN  IF sel.group # <<>> \/ sel.having.op # "none" \/ \E k \in DOMAIN items : items[k].e.op = "agg"
        THEN {g \in groups : having(g)}
        ELSE {{i} : i \in kept}

Where3(sel, source, scope) ==
    {i \in DOMAIN source : sel.where.op # "none" => Value3(sel.where, source[i], <<>>, scope) = TRUE3}

Selected(sel, items, source, scope) ==
    Relation([k \in DOMAIN items |-> Name3(items[k])],
             [id \in {<<g>> : g \in Units(sel, items, source, Where3(sel, source, scope), scope)} |->
                 [k \in DOMAIN items |->
                     Value3(items[k].e, Head3(source, id[1]), Family(source, id[1]), scope)]])

\* A select without its ORDER BY and LIMIT.
SelectMeaning(sel, scope) ==
    OnceIf(sel.distinct, Selected(sel, Items(sel, scope), Joined(sel, Len(sel.joins), scope), scope))

\* The CTEs of a query are in scope for those after them and for its body.
RECURSIVE ScopeAfter(_, _, _)
ScopeAfter(ctes, n, scope) ==
    IF n = 0 THEN scope
    ELSE LET before == ScopeAfter(ctes, n - 1, scope)
         IN  [before EXCEPT !.ctes = (ctes[n].name :> Meaning(ctes[n].query, before)) @@ @]

SetRelation(op, l, r) ==
    LET ids == ({1} \X (DOMAIN l.rows)) \cup ({2} \X (DOMAIN r.rows))
        leftIn(V) == [i \in {i \in DOMAIN l.rows : l.rows[i] \in V} |-> l.rows[i]]
        rows == CASE op = "union" -> [id \in ids |-> IF id[1] = 1 THEN l.rows[id[2]] ELSE r.rows[id[2]]]
                  [] op = "intersect" -> leftIn(RowsOf(r))
                  [] op = "except" -> leftIn(RowsOf(l) \ RowsOf(r))
    IN  Relation(l.cols, rows)

\* The rows a query returns, up to their order and a LIMIT.
Meaning(stmt, scope) ==
    IF stmt.kind = "setop"
    THEN OnceIf(~stmt.all, SetRelation(stmt.op, Meaning(stmt.left, scope), Meaning(stmt.right, scope)))
    ELSE SelectMeaning(stmt, ScopeAfter(stmt.ctes, Len(stmt.ctes), scope))

-----------------------------------------------------------------------------
\* ORDER BY over result rows: a key is a position or the name of a column,
\* NULLs are the smallest values unless NULLS FIRST or LAST is asked for.
KeyAt(cols, item) == IF item.pos > 0 THEN item.pos
                     ELSE CHOOSE j \in DOMAIN cols : Last(cols[j]) = item.e.name

Precedes(cols, v, w, order) ==
    LET at(k) == KeyAt(cols, order[k])
        less(x, y, k) == IF order[k].asc THEN Less(x[at(k)], y[at(k)]) ELSE Less(y[at(k)], x[at(k)])
    IN  \E k \in DOMAIN order :
            less(v, w, k) /\ \A j \in 1..(k - 1) : ~less(w, v, j) /\ ~less(v, w, j)
=============================================================================
