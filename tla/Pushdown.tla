------------------------------ MODULE Pushdown ------------------------------
(***************************************************************************)
(* The predicate pushdown of the optimizer                                 *)
(* (src/optimizer/pushdown_predicates.rs): pushdown_select takes the WHERE *)
(* clause of one SELECT apart and moves each conjunct into the derived     *)
(* table of FROM, into an inner join, or back.                             *)
(*                                                                         *)
(* A statement is a record like those of SqlSyntax, but a condition (WHERE *)
(* and ON) is the sequence of its conjuncts: split_conjunction flattens    *)
(* the tree of ANDs, parenthesised ones too, and conjoin builds it again.  *)
(* The alias of a LATERAL or PIVOT source is in its record, as             *)
(* source_alias finds it.                                                  *)
(***************************************************************************)
EXTENDS Integers, Sequences

CONSTANTS
    Inputs,             \* the SELECT statements to optimize
    ColumnsOf(_),       \* the columns in an expression, <<qualifier or "", name>>
    IsPushable(_),      \* has no aggregate, window, random function or subquery
    ContainsWindow(_),
    Substitute(_, _, _),\* an expression with the columns of one alias replaced
    RecurseIntoSource(_),   \* a source whose derived tables went through the pass
    PushdownPredicates(_)   \* a whole statement after the pass

\* What the types of the code say of a statement: records with the fields
\* the pass reads, conditions and joins that are sequences.
IsSequence(w) == w \in Seq({w[k] : k \in DOMAIN w})
IsRecord(r, fields) == r = [f \in DOMAIN r |-> r[f]] /\ fields \subseteq DOMAIN r
IsTarget(s) ==
    /\ IsRecord(s, {"kind", "where", "cols", "group", "distinct", "limit", "offset", "fetch"})
    /\ IsSequence(s.where)
IsSource(src) ==
    src.kind = "subquery" =>
        /\ IsRecord(src, {"kind", "alias", "query"})
        /\ src.query.kind = "select" => IsTarget(src.query)
IsJoin(join) ==
    IsRecord(join, {"type", "src", "on"}) /\ IsSequence(join.on) /\ IsSource(join.src)
IsStatement(s) ==
    /\ IsRecord(s, {"from", "joins", "ctes", "where"})
    /\ IsSequence(s.where) /\ IsSequence(s.joins)
    /\ IsSource(s.from) /\ \A i \in DOMAIN s.joins : IsJoin(s.joins[i])

VARIABLES
    input,      \* the statement as it came
    sel,        \* the statement being rewritten
    pc,         \* "recurse", "take", "place" or "done"
    n,          \* how many conjuncts of the WHERE clause are placed
    remaining   \* those that stay
vars == <<input, sel, pc, n, remaining>>

Predicates == input.where

-----------------------------------------------------------------------------
(***************************************************************************)
(* Where a conjunct may go                                                 *)
(***************************************************************************)
ReferencedTables(p) == {col[1] : col \in ColumnsOf(p)} \ {""}

\* A mutant: LIMIT, OFFSET and FETCH FIRST are overlooked.
IsSafeTargetWithLimit(s) ==
    /\ ~s.distinct
    /\ \A k \in DOMAIN s.cols : s.cols[k].kind = "expr" => ~ContainsWindow(s.cols[k].e)

\* is_pushdown_safe_target
IsSafeTarget(s) ==
    /\ ~s.distinct
    /\ \A bound \in {s.limit, s.offset, s.fetch} : bound.op = "none"
    /\ \A k \in DOMAIN s.cols : s.cols[k].kind = "expr" => ~ContainsWindow(s.cols[k].e)

\* build_column_map: the items that have a name of their own, the last of
\* each name.  A wildcard gives none.
OutputName(item) == IF item.alias # "" THEN item.alias ELSE item.e.name
NamedItems(s) ==
    {k \in DOMAIN s.cols :
        s.cols[k].kind = "expr" /\ (s.cols[k].alias # "" \/ s.cols[k].e.op = "col")}
ColumnMap(s) ==
    [name \in {OutputName(s.cols[k]) : k \in NamedItems(s)} |->
        LET at == {k \in NamedItems(s) : OutputName(s.cols[k]) = name}
        IN  s.cols[CHOOSE k \in at : \A j \in at : j <= k].e]

\* The first half of rewrite_predicate_for_derived_table: the derived table
\* gives every column the conjunct uses and, where it groups, groups by it.
CanRewrite(p, alias, s) ==
    LET map == ColumnMap(s)
        used == {col[2] : col \in {col \in ColumnsOf(p) : col[1] = alias}}
        inner(name) == IF map[name].op = "col" THEN map[name].name ELSE name
        grouped == {s.group[k].name : k \in {k \in DOMAIN s.group : s.group[k].op = "col"}}
    IN  /\ used \subseteq DOMAIN map
        /\ s.group # <<>> => {inner(name) : name \in used} \subseteq grouped

\* try_push_into_source: whether it pushes, and what it makes of the source.
TakesPredicate(src, p) ==
    /\ src.kind = "subquery"
    /\ src.alias # ""
    /\ ReferencedTables(p) = {src.alias}
    /\ src.query.kind = "select"
    /\ IsSafeTarget(src.query)
    /\ CanRewrite(p, src.alias, src.query)

Rewritten(src, p) == Substitute(p, src.alias, ColumnMap(src.query))
WithWhere(src, w) == [src EXCEPT !.query.where = w]
PushIntoSource(src, p) == WithWhere(src, Append(src.query.where, Rewritten(src, p)))

\* A mutant: any join will do.
AnyJoinTakesPredicate(join, p) == join.src.alias # "" /\ ReferencedTables(p) = {join.src.alias}

\* try_push_into_join: into its derived table or else into its ON.
JoinTakesPredicate(join, p) ==
    /\ join.type \in {"inner", "cross"}
    /\ join.src.alias # ""
    /\ ReferencedTables(p) = {join.src.alias}

\* A mutant: the join's derived table is always asked to take it.
PushIntoJoinSource(join, p) ==
    IF join.src.kind = "subquery"
    THEN IF TakesPredicate(join.src, p) THEN [join EXCEPT !.src = PushIntoSource(@, p)] ELSE join
    ELSE [join EXCEPT !.on = Append(@, p)]
PushIntoJoin(join, p) ==
    IF TakesPredicate(join.src, p) THEN [join EXCEPT !.src = PushIntoSource(@, p)]
    ELSE [join EXCEPT !.on = Append(@, p)]

\* The passes over the parts come first, with or without a WHERE clause.
Recursed(s) ==
    [s EXCEPT !.from = RecurseIntoSource(@),
              !.joins = [i \in DOMAIN @ |-> [@[i] EXCEPT !.src = RecurseIntoSource(@)]],
              !.ctes = [i \in DOMAIN @ |-> [@[i] EXCEPT !.query = PushdownPredicates(@)]]]

GoesToFrom(s, p) == IsPushable(p) /\ TakesPredicate(s.from, p)
FirstJoin(s, p, i) ==
    /\ IsPushable(p) /\ ~TakesPredicate(s.from, p)
    /\ i \in DOMAIN s.joins /\ JoinTakesPredicate(s.joins[i], p)
    /\ \A j \in 1..(i - 1) : ~JoinTakesPredicate(s.joins[j], p)
Stays(s, p) == ~GoesToFrom(s, p) /\ \A i \in DOMAIN s.joins : ~FirstJoin(s, p, i)

IntoFrom(s, p) == [s EXCEPT !.from = PushIntoSource(@, p)]
IntoJoin(s, p, i) == [s EXCEPT !.joins[i] = PushIntoJoin(@, p)]

\* The inputs, and what the recursion makes of their parts, are statements.
ASSUME InputAssumption == \A s \in Inputs : IsStatement(s) /\ IsStatement(Recursed(s))

-----------------------------------------------------------------------------
Init ==
    /\ input \in Inputs
    /\ sel = input
    /\ pc = "recurse"
    /\ n = 0
    /\ remaining = <<>>

RecurseIntoParts ==
    /\ pc = "recurse"
    /\ sel' = Recursed(sel)
    /\ pc' = "take"
    /\ UNCHANGED <<input, n, remaining>>

NoWhere ==
    /\ pc = "take" /\ sel.where = <<>>
    /\ pc' = "done"
    /\ UNCHANGED <<input, sel, n, remaining>>

TakeWhere ==
    /\ pc = "take" /\ sel.where # <<>>
    /\ sel' = [sel EXCEPT !.where = <<>>]
    /\ pc' = "place"
    /\ UNCHANGED <<input, n, remaining>>

\* The conjunct whose turn it is.
Placing == pc = "place" /\ n < Len(Predicates)
Predicate == Predicates[n + 1]

PushToFrom ==
    /\ Placing /\ GoesToFrom(sel, Predicate)
    /\ sel' = IntoFrom(sel, Predicate)
    /\ n' = n + 1
    /\ UNCHANGED <<input, pc, remaining>>

PushToJoin ==
    /\ Placing
    /\ \E i \in DOMAIN sel.joins :
          FirstJoin(sel, Predicate, i) /\ sel' = IntoJoin(sel, Predicate, i)
    /\ n' = n + 1
    /\ UNCHANGED <<input, pc, remaining>>

\* A mutant: the conjunct is pushed back twice.
Twice(s, p) == s \o <<p, p>>
PushBack(s, p) == Append(s, p)

\* Both the conjuncts that are not pushable and those nothing takes.
KeepHere ==
    /\ Placing /\ Stays(sel, Predicate)
    /\ remaining' = PushBack(remaining, Predicate)
    /\ n' = n + 1
    /\ UNCHANGED <<input, sel, pc>>

Conjoin ==
    /\ pc = "place" /\ n = Len(Predicates)
    /\ sel' = [sel EXCEPT !.where = remaining]
    /\ pc' = "done"
    /\ UNCHANGED <<input, n, remaining>>

Finished == pc = "done" /\ UNCHANGED vars

Next ==
    \/ RecurseIntoParts \/ NoWhere \/ TakeWhere
    \/ PushToFrom \/ PushToJoin \/ KeepHere
    \/ Conjoin \/ Finished

Spec == Init /\ [][Next]_vars

-----------------------------------------------------------------------------
(***************************************************************************)
(* Properties                                                              *)
(***************************************************************************)
Placed == {Predicates[m] : m \in 1..n}
Base == Recursed(input)

\* Every conjunct is handled once, and none twice.
TypeOK ==
    /\ pc \in {"recurse", "take", "place", "done"}
    /\ n \in 0..Len(Predicates)
    /\ Len(remaining) \in 0..n
    /\ DOMAIN sel.joins = DOMAIN input.joins

\* Conjunct p filters the rows of the derived table src.
InSource(src, p) ==
    /\ src.kind = "subquery" /\ src.query.kind = "select"
    /\ ReferencedTables(p) = {src.alias} /\ CanRewrite(p, src.alias, src.query)
    /\ \E k \in DOMAIN src.query.where : src.query.where[k] = Rewritten(src, p)

\* Conjunct p filters the rows of a join, in its ON or in its derived table.
InJoin(join, p) ==
    \/ InSource(join.src, p)
    \/ /\ ReferencedTables(p) = {join.src.alias}
       /\ \E k \in DOMAIN join.on : join.on[k] = p

\* No conjunct of the WHERE clause gets lost on the way: each one handled so
\* far stays, or is in the derived table or the inner join whose columns it
\* is about, there rewritten as the select list says; and the WHERE clause ends
\* up with those that stay.  (The loop takes every conjunct through functions
\* that may refuse it half-way.)
ConjunctsKept ==
    /\ \A p \in Placed :
          \/ \E k \in DOMAIN remaining : remaining[k] = p
          \/ InSource(sel.from, p)
          \/ \E i \in DOMAIN sel.joins :
                sel.joins[i].type \in {"inner", "cross"} /\ InJoin(sel.joins[i], p)
    /\ pc = "done" => n = Len(Predicates) /\ sel.where = remaining

\* What may be added for one alias: pushable conjuncts about it alone.
Movable(placed, alias) == {p \in placed : IsPushable(p) /\ ReferencedTables(p) = {alias}}

\* A condition with conjuncts of "added" after the old ones.
GrownBy(new, old, added) ==
    /\ Len(old) <= Len(new)
    /\ \A k \in 1..Len(old) : new[k] = old[k]
    /\ \A k \in (Len(old) + 1)..Len(new) : new[k] \in added

\* A source is the old one but for the WHERE of a derived table that may be
\* filtered from outside.
SourceGrown(new, old, placed) ==
    \/ new = old
    \/ /\ old.kind = "subquery" /\ old.query.kind = "select" /\ IsSafeTarget(old.query)
       /\ new = WithWhere(old, new.query.where)
       /\ GrownBy(new.query.where, old.query.where,
                  {Rewritten(old, p) : p \in {p \in Movable(placed, old.alias) : TakesPredicate(old, p)}})

JoinGrown(new, old, placed) ==
    \/ new = old
    \/ /\ old.type \in {"inner", "cross"}
       /\ new = [old EXCEPT !.src = new.src, !.on = new.on]
       /\ SourceGrown(new.src, old.src, placed)
       /\ GrownBy(new.on, old.on, Movable(placed, old.src.alias))

\* The pass adds pushable conjuncts about one source to that source, and does
\* nothing else: LEFT, RIGHT and FULL joins, and what LIMIT, OFFSET, FETCH
\* FIRST, DISTINCT or a window function shields, are as the recursion left
\* them, and so are all the clauses but FROM, the joins and WHERE.
OnlyConjunctsMove ==
    pc # "recurse" =>
        /\ sel = [Base EXCEPT !.from = sel.from, !.joins = sel.joins, !.where = sel.where]
        /\ SourceGrown(sel.from, Base.from, Placed)
        /\ DOMAIN sel.joins = DOMAIN Base.joins
        /\ \A i \in DOMAIN Base.joins : JoinGrown(sel.joins[i], Base.joins[i], Placed)
=============================================================================
