---------------------------- MODULE PushdownTrees ----------------------------
(***************************************************************************)
(* The pass of module Pushdown on whole trees: what it needs to know about *)
(* expressions, its recursion into nested statements, and the optimized    *)
(* statement as a query that the executor runs.                            *)
(***************************************************************************)
EXTENDS Pushdown, SqlSyntax

\* i64 as wide as TLC's own integers allow: no statement here comes near its ends.
X == INSTANCE Execution WITH Half <- 2^29

\* A call of a function the executor does not know: class is "aggregate" or
\* "random" for the names the pass lists, over says whether it has an OVER.
Call(class, args, over) == [op |-> "call", class |-> class, list |-> args, over |-> over]

RECURSIVE Nodes(_), Replace(_, _, _), PushedStatement(_), PushedSource(_),
          SplitConjunction(_), Split(_), SplitSource(_), Concrete(_), ConcreteSource(_)

\* walk: an expression and those in it, subqueries' own ones left out.
Children(e) ==
    CASE e.op \in {"bin", "logic"} -> <<e.l, e.r>>
      [] e.op \in {"not", "neg", "nested", "isnull", "insub"} -> <<e.e>>
      [] e.op = "between" -> <<e.e, e.lo, e.hi>>
      [] e.op = "in" -> <<e.e>> \o e.list
      [] e.op \in {"coalesce", "call"} -> e.list
      [] e.op = "agg" -> <<e.arg>>
      [] e.op = "case" -> FlattenSeq(e.whens) \o <<e.else>>
      [] OTHER -> <<>>
Nodes(e) == {e} \cup UNION {Nodes(Children(e)[i]) : i \in DOMAIN Children(e)}

MCColumnsOf(e) == {<<x.tab, x.name>> : x \in {x \in Nodes(e) : x.op = "col"}}

\* is_pushable.  COUNT, SUM, MIN and MAX are typed functions to the parser,
\* which is_aggregate_function's names do not catch: only other aggregates do.
MCIsPushable(e) ==
    \A x \in Nodes(e) :
        /\ x.op \notin {"exists", "insub", "scalar"}
        /\ x.op = "call" => ~x.over /\ x.class \notin {"aggregate", "random"}

MCContainsWindow(e) == \E x \in Nodes(e) : x.op = "call" /\ x.over

\* transform with the function that replaces the columns of an alias.
Replace(e, alias, map) ==
    LET R(x) == Replace(x, alias, map)
        each(s) == [i \in DOMAIN s |-> R(s[i])]
    IN  CASE e.op = "col" -> IF e.tab = alias THEN map[e.name] ELSE e
          [] e.op \in {"bin", "logic"} -> [e EXCEPT !.l = R(@), !.r = R(@)]
          [] e.op \in {"not", "neg", "nested", "isnull"} -> [e EXCEPT !.e = R(@)]
          [] e.op = "between" -> [e EXCEPT !.e = R(@), !.lo = R(@), !.hi = R(@)]
          [] e.op = "in" -> [e EXCEPT !.e = R(@), !.list = each(@)]
          [] e.op \in {"coalesce", "call"} -> [e EXCEPT !.list = each(@)]
          [] e.op = "agg" -> [e EXCEPT !.arg = R(@)]
          [] e.op = "case" -> [e EXCEPT !.whens = [i \in DOMAIN @ |-> each(@[i])], !.else = R(@)]
          [] OTHER -> e
MCSubstitute(e, alias, map) == Replace(e, alias, map)

\* One turn of the loop of pushdown_select.
Place(at, p) ==
    IF GoesToFrom(at.sel, p) THEN [at EXCEPT !.sel = IntoFrom(@, p)]
    ELSE IF Stays(at.sel, p) THEN [at EXCEPT !.remaining = Append(@, p)]
    ELSE [at EXCEPT !.sel = IntoJoin(@, p, CHOOSE i \in DOMAIN at.sel.joins : FirstJoin(at.sel, p, i))]

\* pushdown_predicates of a nested statement: only SELECTs are rewritten, and
\* the recursion goes into derived tables, through LATERAL and PIVOT too.
PushedStatement(stmt) ==
    IF stmt.kind # "select" THEN stmt
    ELSE LET base == [stmt EXCEPT
                 !.from = PushedSource(@),
                 !.joins = [i \in DOMAIN @ |-> [@[i] EXCEPT !.src = PushedSource(@)]],
                 !.ctes = [i \in DOMAIN @ |-> [@[i] EXCEPT !.query = PushedStatement(@)]]]
             end == FoldLeft(Place, [sel |-> base, remaining |-> <<>>], stmt.where)
         IN  [end.sel EXCEPT !.where = end.remaining]

PushedSource(src) ==
    CASE src.kind = "subquery" -> [src EXCEPT !.query = PushedStatement(@)]
      [] src.kind \in {"lateral", "pivot"} -> [src EXCEPT !.src = PushedSource(@)]
      [] OTHER -> src

MCRecurseIntoSource(src) == PushedSource(src)
MCPushdownPredicates(stmt) == PushedStatement(stmt)

-----------------------------------------------------------------------------
\* conjoin, and a statement with it: the query the executor runs.
Conjunction(ps) == IF ps = <<>> THEN NoExpr ELSE FoldLeft(And, Head(ps), Tail(ps))

\* split_conjunction: a pair of parentheses is taken off an AND only.
SplitConjunction(e) ==
    CASE e.op = "none" -> <<>>
      [] e.op = "logic" /\ e.f = "and" -> SplitConjunction(e.l) \o SplitConjunction(e.r)
      [] e.op = "nested" /\ e.e.op = "logic" /\ e.e.f = "and" -> SplitConjunction(e.e)
      [] OTHER -> <<e>>

\* The whole statement with its conditions as trees: what the executor runs.
Concrete(stmt) ==
    IF stmt.kind = "setop" THEN [stmt EXCEPT !.left = Concrete(@), !.right = Concrete(@)]
    ELSE [stmt EXCEPT
             !.from = ConcreteSource(@),
             !.joins = [i \in DOMAIN @ |-> [@[i] EXCEPT !.src = ConcreteSource(@), !.on = Conjunction(@)]],
             !.ctes = [i \in DOMAIN @ |-> [@[i] EXCEPT !.query = Concrete(@)]],
             !.where = Conjunction(@)]
ConcreteSource(src) ==
    CASE src.kind = "subquery" -> [src EXCEPT !.query = Concrete(@)]
      [] src.kind = "lateral" -> [src EXCEPT !.src = ConcreteSource(@)]
      [] OTHER -> src

\* The whole statement with its conditions as conjuncts: what Pushdown works on.
Split(stmt) ==
    IF stmt.kind = "setop" THEN [stmt EXCEPT !.left = Split(@), !.right = Split(@)]
    ELSE [stmt EXCEPT
             !.from = SplitSource(@),
             !.joins = [i \in DOMAIN @ |-> [@[i] EXCEPT !.src = SplitSource(@), !.on = SplitConjunction(@)]],
             !.ctes = [i \in DOMAIN @ |-> [@[i] EXCEPT !.query = Split(@)]],
             !.where = SplitConjunction(@)]
SplitSource(src) ==
    CASE src.kind = "subquery" -> [src EXCEPT !.query = Split(@)]
      [] src.kind = "lateral" -> [src EXCEPT !.src = SplitSource(@)]
      [] OTHER -> src

\* The statement as it stands, the conjuncts not yet placed back in WHERE.
Current ==
    IF pc = "place" THEN [sel EXCEPT !.where = remaining \o SubSeq(Predicates, n + 1, Len(Predicates))]
    ELSE sel
=============================================================================
