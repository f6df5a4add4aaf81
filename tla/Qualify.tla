------------------------------ MODULE Qualify ------------------------------
(***************************************************************************)
(* qualify_columns (src/optimizer/qualify_columns.rs): the columns of a    *)
(* statement get the aliases of their tables, and wildcards become lists   *)
(* of columns.  known has the columns of the tables that the schema found, *)
(* by path, and ctes those of the CTEs in scope, by name.                  *)
(***************************************************************************)
EXTENDS SqlSyntax

RECURSIVE SourceColumns(_, _, _), OutputColumns(_, _, _), QualifySource(_, _, _),
          QualifyExpr(_, _, _, _), QualifyInner(_, _, _), QualifyColumns(_, _)

Nothing == [name \in {} |-> <<>>]
Sources(sel) == <<sel.from>> \o [i \in DOMAIN sel.joins |-> sel.joins[i].src]

\* build_table_path
TablePath(src) == Append(src.path, src.name)

\* collect_source_columns: what a source adds to the map of columns by alias.  A table with
\* the name of a CTE is the CTE, whatever its database.
SourceColumns(src, known, ctes) ==
    CASE src.kind = "table" /\ src.name \in DOMAIN ctes -> src.alias :> ctes[src.name]
      [] src.kind = "table" /\ src.name \notin DOMAIN ctes /\ TablePath(src) \in DOMAIN known ->
            src.alias :> known[TablePath(src)]
      [] src.kind = "subquery" /\ src.alias # "" -> src.alias :> OutputColumns(src.query, known, ctes)
      [] src.kind = "lateral" -> SourceColumns(src.src, known, ctes)
      [] OTHER -> Nothing

\* resolve_source_columns
ResolveSources(sel, known, ctes) ==
    FoldLeft(LAMBDA map, src : SourceColumns(src, known, ctes) @@ map, Nothing, Sources(sel))

\* for_each_source_ordered: the columns of FROM, then those of the joins.
AllColumns(sel, map) ==
    FlattenSeq([i \in DOMAIN Sources(sel) |->
        LET src == Sources(sel)[i]
        IN  IF src.kind # "none" /\ src.alias \in DOMAIN map THEN map[src.alias] ELSE <<>>])

\* expr_output_name
OutputNameOf(e) == CASE e.op = "col" -> e.name [] e.op = "call" -> e.class [] OTHER -> "_col"
NameOfItem(item) == IF item.alias # "" THEN item.alias ELSE OutputNameOf(item.e)

\* extract_output_columns: the CTEs of the subquery itself are not among ctes.
ItemColumns(item, sel, map) ==
    CASE item.kind = "star" -> AllColumns(sel, map)
      [] item.kind = "qstar" -> IF item.tab \in DOMAIN map THEN map[item.tab] ELSE <<>>
      [] item.kind = "expr" -> <<NameOfItem(item)>>
OutputColumns(stmt, known, ctes) ==
    IF stmt.kind = "setop" THEN OutputColumns(stmt.left, known, ctes)
    ELSE LET map == ResolveSources(stmt, known, ctes)
         IN  FlattenSeq([k \in DOMAIN stmt.cols |-> ItemColumns(stmt.cols[k], stmt, map)])

\* A mutant: the CTEs around a derived table or subquery are forgotten.
CteColumnsAlone(sel, known, outer) ==
    FoldLeft(LAMBDA map, cte : (cte.name :> OutputColumns(cte.query, known, map)) @@ map, Nothing, sel.ctes)
\* Step 1 of qualify_select: every CTE sees those before it.
CteColumns(sel, known, outer) ==
    LET columns(cte, before) ==
            IF cte.columns # <<>> THEN cte.columns ELSE OutputColumns(cte.query, known, before)
    IN  FoldLeft(LAMBDA map, cte : (cte.name :> columns(cte, map)) @@ map, outer, sel.ctes)

\* resolve_column: the source that has the column, if it is the only one.
Owners(name, map) == {alias \in DOMAIN map : Contains(map[alias], name)}
ResolvedColumn(e, map) ==
    IF e.tab = "" /\ Cardinality(Owners(e.name, map)) = 1
    THEN [e EXCEPT !.tab = CHOOSE alias \in Owners(e.name, map) : TRUE] ELSE e

-----------------------------------------------------------------------------
\* qualify_expr, over the nodes that Expr::transform goes to; subqueries know their own
\* sources and the CTEs.
QualifyExpr(e, map, known, ctes) ==
    LET Q(x) == QualifyExpr(x, map, known, ctes)
        each(s) == [i \in DOMAIN s |-> Q(s[i])]
    IN  CASE e.op = "col" -> ResolvedColumn(e, map)
          [] e.op \in {"bin", "logic"} -> [e EXCEPT !.l = Q(@), !.r = Q(@)]
          [] e.op \in {"not", "neg", "nested", "isnull"} -> [e EXCEPT !.e = Q(@)]
          [] e.op = "between" -> [e EXCEPT !.e = Q(@), !.lo = Q(@), !.hi = Q(@)]
          [] e.op = "in" -> [e EXCEPT !.e = Q(@), !.list = each(@)]
          [] e.op = "case" -> [e EXCEPT !.whens = [i \in DOMAIN @ |-> each(@[i])], !.else = Q(@)]
          [] e.op \in {"coalesce", "call"} -> [e EXCEPT !.list = each(@)]
          [] e.op = "agg" -> [e EXCEPT !.arg = Q(@)]
          [] e.op = "insub" -> [e EXCEPT !.e = Q(@), !.sub = QualifyInner(@, known, ctes)]
          [] e.op \in {"exists", "scalar"} -> [e EXCEPT !.sub = QualifyInner(@, known, ctes)]
          [] OTHER -> e

\* Step 5: the columns of * without and those of t.* with a qualifier; the t.* of an
\* unknown t stays.
QualifyItem(item, sel, map, known, ctes) ==
    LET columns(names, tab) == [i \in DOMAIN names |-> Item(Col(tab, names[i]))]
    IN  CASE item.kind = "star" -> columns(AllColumns(sel, map), "")
          [] item.kind = "qstar" -> IF item.tab \in DOMAIN map THEN columns(map[item.tab], item.tab) ELSE <<item>>
          [] item.kind = "expr" -> <<[item EXCEPT !.e = QualifyExpr(@, map, known, ctes)]>>

\* qualify_table_source
QualifySource(src, known, ctes) ==
    CASE src.kind = "subquery" -> [src EXCEPT !.query = QualifyInner(@, known, ctes)]
      [] src.kind = "lateral" -> [src EXCEPT !.src = QualifySource(@, known, ctes)]
      [] OTHER -> src

\* qualify_select.  The bodies of the CTEs are qualified as statements of their own, in
\* which no CTE is in scope (step 2).
QualifySelect(sel, known, outer) ==
    LET ctes == CteColumns(sel, known, outer)
        inner == [sel EXCEPT
                     !.ctes = [i \in DOMAIN @ |-> [@[i] EXCEPT !.query = QualifyColumns(@, known)]],
                     !.from = QualifySource(@, known, ctes),
                     !.joins = [i \in DOMAIN @ |-> [@[i] EXCEPT !.src = QualifySource(@, known, ctes)]]]
        map == ResolveSources(inner, known, ctes)
        Q(e) == QualifyExpr(e, map, known, ctes)
    IN  [inner EXCEPT
            !.cols = FlattenSeq([k \in DOMAIN @ |-> QualifyItem(@[k], inner, map, known, ctes)]),
            !.where = Q(@), !.having = Q(@),
            !.group = [k \in DOMAIN @ |-> Q(@[k])],
            !.order = [k \in DOMAIN @ |-> [@[k] EXCEPT !.e = Q(@)]],
            !.joins = [k \in DOMAIN @ |-> [@[k] EXCEPT !.on = Q(@)]]]

\* qualify_columns_inner
QualifyInner(stmt, known, ctes) ==
    IF stmt.kind = "select" THEN QualifySelect(stmt, known, ctes)
    ELSE [stmt EXCEPT !.left = QualifyInner(@, known, ctes), !.right = QualifyInner(@, known, ctes)]

\* qualify_columns
QualifyColumns(stmt, known) == QualifyInner(stmt, known, Nothing)
=============================================================================
