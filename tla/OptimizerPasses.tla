--------------------------- MODULE OptimizerPasses ---------------------------
(***************************************************************************)
(* What optimize does to a SELECT before the pushdown of predicates:       *)
(* fold_constants and simplify_booleans (src/optimizer/mod.rs) and         *)
(* unnest_subqueries (src/optimizer/unnest_subqueries.rs).  None of them   *)
(* goes into nested statements.                                            *)
(***************************************************************************)
EXTENDS PushdownTrees

RECURSIVE Fold(_), Simplify(_), Unnest(_, _), Conditions(_), Strip(_, _)

\* Parentheses around a literal are taken off.
Parenthesised(e) == IF e.op = "lit" THEN e ELSE Nested(e)

-----------------------------------------------------------------------------
(***************************************************************************)
(* fold_constants                                                          *)
(***************************************************************************)
\* A number that is no whole number, by the whole number below it.
Fraction(below) == [t |-> "fraction", v |-> below]
IsNumber(e) == e.op = "lit" /\ Numeric(e.val)

\* The calculation is in f64, and a whole result is written as an integer.
FoldedOperation(e) ==
    LET x == e.l.val.v
        y == e.r.val.v
        even == X!Remainder(e.l.val, e.r.val).v = 0
    IN  CASE ~IsNumber(e.l) \/ ~IsNumber(e.r) -> e
          [] e.f = "+" -> Lit(Integer(x + y))
          [] e.f = "-" -> Lit(Integer(x - y))
          [] e.f = "*" -> Lit(Integer(x * y))
          [] e.f \in {"/", "%"} /\ y = 0 -> e
          [] e.f = "/" -> Lit(IF even THEN Integer(X!Quotient(x, y)) ELSE Fraction(X!Quotient(x, y)))
          [] e.f = "%" -> Lit(X!Remainder(e.l.val, e.r.val))
          [] e.f = "=" -> Lit(Bool(x = y))
          [] e.f = "<>" -> Lit(Bool(x # y))
          [] e.f = "<" -> Lit(Bool(x < y))
          [] e.f = ">" -> Lit(Bool(x > y))
          [] e.f = "<=" -> Lit(Bool(x <= y))
          [] e.f = ">=" -> Lit(Bool(x >= y))

\* fold_expr: operations, unary minus and parentheses; what is in NOT, BETWEEN, IN, CASE
\* or a call stays as it is.
Fold(e) ==
    CASE e.op = "bin" -> FoldedOperation([e EXCEPT !.l = Fold(@), !.r = Fold(@)])
      [] e.op = "logic" -> [e EXCEPT !.l = Fold(@), !.r = Fold(@)]
      [] e.op = "neg" -> LET x == Fold(e.e) IN IF IsNumber(x) THEN Lit(Integer(-x.val.v)) ELSE Neg(x)
      [] e.op = "nested" -> Parenthesised(Fold(e.e))
      [] OTHER -> e

FoldItem(item) == IF item.kind = "expr" THEN [item EXCEPT !.e = Fold(@)] ELSE item
FoldConstants(s) ==
    [s EXCEPT !.where = Fold(@), !.having = Fold(@), !.cols = [k \in DOMAIN @ |-> FoldItem(@[k])]]

-----------------------------------------------------------------------------
(***************************************************************************)
(* simplify_booleans                                                       *)
(***************************************************************************)
IsBoolean(e) == e.op = "lit" /\ e.val.t = "bool"
Truth(b) == Lit(Bool(b))
\* A mutant: what is left out decides.
SimplifiedLogicSwapped(e) ==
    LET neutral == Truth(e.f = "and")
    IN  IF neutral \in {e.l, e.r} THEN neutral ELSE e

\* TRUE is what AND can leave out and what decides an OR, FALSE the other way round.
SimplifiedLogic(e) ==
    LET neutral == Truth(e.f = "and")
        decisive == Truth(e.f = "or")
    IN  CASE e.l = neutral -> e.r
          [] e.l # neutral /\ e.r = neutral -> e.l
          [] e.l # neutral /\ e.r # neutral /\ decisive \in {e.l, e.r} -> decisive
          [] OTHER -> e

\* simplify_bool_expr
Simplify(e) ==
    CASE e.op = "logic" -> SimplifiedLogic([e EXCEPT !.l = Simplify(@), !.r = Simplify(@)])
      [] e.op = "not" ->
            LET x == Simplify(e.e)
            IN  CASE IsBoolean(x) -> Truth(x # Truth(TRUE))
                  [] x.op = "not" -> x.e
                  [] OTHER -> Not(x)
      [] e.op = "nested" -> Parenthesised(Simplify(e.e))
      [] OTHER -> e

\* A condition that is TRUE is no condition.
Dropped(e) == IF e = Truth(TRUE) THEN NoExpr ELSE e
SimplifyItem(item) == IF item.kind = "expr" THEN [item EXCEPT !.e = Simplify(@)] ELSE item
SimplifyBooleans(s) ==
    [s EXCEPT !.cols = [k \in DOMAIN @ |-> SimplifyItem(@[k])],
              !.where = Dropped(Simplify(@)), !.having = Dropped(Simplify(@))]

-----------------------------------------------------------------------------
(***************************************************************************)
(* unnest_subqueries                                                       *)
(***************************************************************************)
\* The conditions under the ANDs, parentheses not taken off.
Conditions(e) ==
    IF e.op = "logic" /\ e.f = "and" THEN Conditions(e.l) \o Conditions(e.r) ELSE <<e>>
IsQualified(e) == e.op = "col" /\ e.tab # ""
\* is_cross_table_predicate
CrossesTables(e) ==
    Cardinality({x.tab : x \in {x \in Nodes(e) : IsQualified(x)}}) > 1

\* A CorrelationPredicate: two columns of different tables are equal.  Which of the
\* two is the outer one is not asked: it is the left one.
IsCorrelation(e) ==
    e.op = "bin" /\ e.f = "=" /\ IsQualified(e.l) /\ IsQualified(e.r) /\ e.l.tab # e.r.tab
OuterCol(p) == p.l
InnerCol(p) == p.r
Correlations(where) == SelectSeq(Conditions(where), IsCorrelation)
\* Comparisons between tables that an equality cannot replace.
IsOtherCorrelation(e) ==
    e.op = "bin" /\ e.f \in {"=", "<>", "<", ">", "<=", ">="} /\ ~IsCorrelation(e) /\ CrossesTables(e)

\* What is left of a condition, NoExpr where nothing is.
Both(l, r) == IF ~Given(l) THEN r ELSE IF ~Given(r) THEN l ELSE And(l, r)
\* strip_correlation_predicates
Strip(e, preds) ==
    CASE e.op = "logic" /\ e.f = "and" -> Both(Strip(e.l, preds), Strip(e.r, preds))
      [] e.op = "bin" /\ e.f = "=" /\ \E i \in DOMAIN preds : {e.l, e.r} = {OuterCol(preds[i]), InnerCol(preds[i])} -> NoExpr
      [] OTHER -> e

\* A mutant: the counter does not count.
NextAliasAgain(joins) == "_u" \o ToString(0)
\* AliasGen: a join is made for every alias it gives.
NextAlias(joins) == "_u" \o ToString(Len(joins))

\* try_unnest_exists: a SELECT with a correlation, and none but equalities.
UnnestsExists(sub) ==
    /\ sub.kind = "select" /\ Given(sub.where)
    /\ Correlations(sub.where) # <<>>
    /\ \A i \in DOMAIN Conditions(sub.where) : ~IsOtherCorrelation(Conditions(sub.where)[i])
\* build_join_on
JoinOnAll(preds, alias) ==
    Conjunction([i \in DOMAIN preds |-> Op2("=", OuterCol(preds[i]), [InnerCol(preds[i]) EXCEPT !.tab = alias])])
\* build_derived_table_from_exists
FromExists(sub, alias) ==
    Derived([sub EXCEPT !.where = Strip(@, Correlations(@)), !.distinct = TRUE,
                        !.cols = <<As(Lit(Integer(1)), "_sentinel")>>], alias)

\* try_unnest_in_subquery: a SELECT of one item.
UnnestsIn(sub) == sub.kind = "select" /\ Len(sub.cols) = 1
\* A mutant: rows multiply.
FromInRepeated(sub, alias) ==
    Derived([sub EXCEPT !.cols = IF @[1].kind = "expr" THEN <<[@[1] EXCEPT !.alias = "_col0"]>> ELSE @], alias)
\* build_derived_table_from_in: an item that is a wildcard gets no alias.
FromIn(sub, alias) ==
    Derived([sub EXCEPT !.distinct = TRUE,
                        !.cols = IF @[1].kind = "expr" THEN <<[@[1] EXCEPT !.alias = "_col0"]>> ELSE @], alias)

\* The join that a subquery becomes: an inner one, or a left one whose partners are rejected.
Unnested(joins, src, on, negated, key) ==
    [left |-> IF negated THEN IsNullE(Col(src.alias, key), FALSE) ELSE NoExpr,
     joins |-> Append(joins, JoinOn(IF negated THEN "left" ELSE "inner", src, on))]
UnnestedExists(joins, sub, negated) ==
    LET alias == NextAlias(joins)
    IN  Unnested(joins, FromExists(sub, alias), JoinOnAll(Correlations(sub.where), alias), negated, "_sentinel")
UnnestedIn(joins, e) ==
    LET alias == NextAlias(joins)
    IN  Unnested(joins, FromIn(e.sub, alias), Op2("=", e.e, Col(alias, "_col0")), e.neg, "_col0")

\* unnest_expr: what is left of the condition, and the joins so far.
Unnest(e, joins) ==
    CASE e.op = "logic" /\ e.f = "and" ->
            LET l == Unnest(e.l, joins)
                r == Unnest(e.r, l.joins)
            IN  [left |-> Both(l.left, r.left), joins |-> r.joins]
      [] e.op = "exists" /\ UnnestsExists(e.sub) -> UnnestedExists(joins, e.sub, e.neg)
      [] e.op = "not" /\ e.e.op = "exists" /\ ~e.e.neg /\ UnnestsExists(e.e.sub) ->
            UnnestedExists(joins, e.e.sub, TRUE)
      [] e.op = "insub" /\ UnnestsIn(e.sub) -> UnnestedIn(joins, e)
      [] e.op = "nested" ->
            LET inner == Unnest(e.e, joins)
            IN  [inner EXCEPT !.left = IF @.op \in {"none", "col"} THEN @ ELSE Parenthesised(@)]
      [] OTHER -> [left |-> e, joins |-> joins]

\* unnest_select.  Aliases are counted from 0 in every statement.
UnnestSubqueries(s) ==
    LET result == Unnest(s.where, <<>>)
    IN  [s EXCEPT !.where = result.left, !.joins = @ \o result.joins]
=============================================================================
