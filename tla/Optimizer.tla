------------------------------ MODULE Optimizer ------------------------------
(***************************************************************************)
(* optimize (src/optimizer/mod.rs) on a SELECT: four passes, the last of   *)
(* which, the pushdown of predicates, goes on in the steps of Pushdown.    *)
(* Before it a caller may build a schema and have the columns qualified.   *)
(***************************************************************************)
EXTENDS OptimizerPasses, Qualify, Schema

CONSTANTS
    Originals,    \* the SELECTs that are optimized as they were parsed
    Unqualified   \* those that are qualified first

\* The SELECTs of a statement, those of its CTEs, derived tables and subqueries among them,
\* each with the CTEs in its scope; and the paths of the tables they read.
RECURSIVE Scoped(_, _)
Expressions(q) ==
    {q.where, q.having} \cup {q.joins[i].on : i \in DOMAIN q.joins} \cup ToSet(q.group)
    \cup {q.cols[k].e : k \in {k \in DOMAIN q.cols : q.cols[k].kind = "expr"}} \cup {q.order[k].e : k \in DOMAIN q.order}
NodesOf(q) == UNION {Nodes(e) : e \in Expressions(q)}
Scoped(q, ctes) ==
    LET scope == ctes \o q.ctes
        derived == {src.query : src \in {src \in ToSet(Sources(q)) : src.kind = "subquery"}}
        subqueries == {x.sub : x \in {x \in NodesOf(q) : x.op \in {"insub", "exists", "scalar"}}}
    IN  IF q.kind = "setop" THEN Scoped(q.left, ctes) \cup Scoped(q.right, ctes)
        ELSE {[query |-> q, scope |-> scope]}
             \cup UNION {Scoped(inner, scope) : inner \in derived \cup subqueries}
             \cup UNION {Scoped(q.ctes[i].query, ctes \o SubSeq(q.ctes, 1, i - 1)) : i \in DOMAIN q.ctes}
Queries(stmt) == {s.query : s \in Scoped(stmt, <<>>)}

TableSources(q) == {src \in ToSet(Sources(q)) : src.kind = "table"}
TablePaths(stmt) == {TablePath(src) : src \in UNION {TableSources(q) : q \in Queries(stmt)}}

-----------------------------------------------------------------------------
VARIABLES original, pass, tree
optimizerVars == <<original, pass, tree, tables, vars>>

OptimizerInit ==
    /\ \/ original \in Originals /\ pass = "fold"
       \/ original \in Unqualified /\ pass = "schema"
    /\ tree = original
    /\ SchemaInit
    /\ input = Split(original) /\ sel = input
    /\ pc = "recurse" /\ n = 0 /\ remaining = <<>>

BuildSchema ==
    /\ pass = "schema"
    /\ ChangeSchema
    /\ UNCHANGED <<original, pass, tree, vars>>

\* What the schema finds under the paths of a statement.  The order of its hash maps, which
\* chooses among several tables, stays the same for a whole pass.
Findings(stmt) ==
    LET paths == {path \in TablePaths(stmt) : FindTable(path) # {}}
    IN  {known \in [paths -> UNION {FindTable(path) : path \in paths}] :
            \A path \in paths : known[path] \in FindTable(path)}

QualifyingPass ==
    /\ pass = "schema"
    /\ \E known \in Findings(tree) : tree' = QualifyColumns(tree, known)
    /\ pass' = "fold"
    /\ UNCHANGED <<original, tables, vars>>

FoldingPass ==
    /\ pass = "fold"
    /\ tree' = FoldConstants(tree)
    /\ pass' = "simplify"
    /\ UNCHANGED <<original, tables, vars>>

SimplifyingPass ==
    /\ pass = "simplify"
    /\ tree' = SimplifyBooleans(tree)
    /\ pass' = "unnest"
    /\ UNCHANGED <<original, tables, vars>>

UnnestingPass ==
    /\ pass = "unnest"
    /\ tree' = UnnestSubqueries(tree)
    /\ pass' = "pushdown"
    /\ input' = Split(tree') /\ sel' = input'
    /\ UNCHANGED <<original, tables, pc, n, remaining>>

PushdownPass ==
    /\ pass = "pushdown"
    /\ Next
    /\ UNCHANGED <<original, pass, tree, tables>>

OptimizerNext == BuildSchema \/ QualifyingPass \/ FoldingPass \/ SimplifyingPass \/ UnnestingPass \/ PushdownPass
OptimizerSpec == OptimizerInit /\ [][OptimizerNext]_optimizerVars

-----------------------------------------------------------------------------
\* The statement as it stands.
Form == IF pass = "pushdown" THEN Concrete(Current) ELSE tree

\* The columns of the result of a query and of a source, by those of the real tables and by the CTEs in scope.
RECURSIVE Outputs(_, _, _), Gives(_, _, _), Unresolved(_, _, _)
Outputs(q, ctes, real) ==
    LET scope == ctes \o q.ctes
        ofItem(item) ==
            CASE item.kind # "expr" ->
                    UNION {Gives(src, scope, real) : src \in {src \in ToSet(Sources(q)) : item.kind = "star" \/ src.alias = item.tab}}
              [] item.kind = "expr" /\ item.alias # "" -> {item.alias}
              [] OTHER -> IF item.e.op = "col" THEN {item.e.name} ELSE {}
    IN  IF q.kind = "setop" THEN Outputs(q.left, ctes, real) ELSE UNION {ofItem(item) : item \in ToSet(q.cols)}
Gives(src, ctes, real) ==
    LET cte == SelectLastInSeq(ctes, LAMBDA c : src.kind = "table" /\ c.name = src.name)
    IN  CASE src.kind = "subquery" -> Outputs(src.query, ctes, real)
          [] src.kind = "lateral" -> Gives(src.src, ctes, real)
          [] src.kind = "table" /\ cte # 0 -> Outputs(ctes[cte].query, SubSeq(ctes, 1, cte - 1), real)
          [] src.kind = "table" /\ cte = 0 -> real[src.name]

\* The qualified columns of a query and of its derived tables that are not of exactly one
\* source, or that the source does not have.
Unresolved(q, ctes, real) ==
    LET scope == ctes \o q.ctes
        conditions == {q.where, q.having} \cup {q.joins[i].on : i \in DOMAIN q.joins}
        items == {item.e : item \in {item \in ToSet(q.cols) : item.kind = "expr"}}
        used == {x \in UNION {Nodes(e) : e \in conditions \cup items} : IsQualified(x)}
        of(x) == SelectSeq(Sources(q), LAMBDA src : src.kind # "none" /\ src.alias = x.tab)
    IN  IF q.kind = "setop" THEN Unresolved(q.left, ctes, real) \cup Unresolved(q.right, ctes, real)
        ELSE {x \in used : ~(Len(of(x)) = 1 /\ x.name \in Gives(of(x)[1], scope, real))}
             \cup UNION {Unresolved(src.query, scope, real) : src \in {src \in ToSet(Sources(q)) : src.kind = "subquery"}}
=============================================================================
