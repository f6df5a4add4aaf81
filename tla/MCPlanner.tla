----------------------------- MODULE MCPlanner -----------------------------
(***************************************************************************)
(* Small statements for the planner: every combination of the clauses of a *)
(* SELECT over one table, every nesting of sources, joins and set          *)
(* operations three levels deep, and a few SELECT DISTINCT over one table  *)
(* whose plans are evaluated.                                              *)
(***************************************************************************)
EXTENDS Planner, Bags

CONSTANT None

MCNode == 1 .. 13

Table == [kind |-> "Table", temporal |-> FALSE]
OldTable == [kind |-> "Table", temporal |-> TRUE]
Ref(kind, n) == [kind |-> kind, source |-> n]

\* SELECT <item> FROM from JOIN joins, without any other clause.
Plain(from, joins) ==
  [kind |-> "Select", from |-> from, joins |-> joins, where |-> FALSE,
   group_by |-> FALSE, having |-> FALSE, distinct |-> FALSE,
   order_by |-> FALSE, bounds |-> {}, columns |-> <<"scalar">>]

UnionOf(left, right, ordered, bounds) ==
  [kind |-> "SetOperation", left |-> left, right |-> right,
   order_by |-> ordered, bounds |-> bounds]

\* The statement of an arena whose root is 1: its nodes are those the root
\* reaches (a holder's number is below that of what it holds).
Statement(ast) ==
  LET below[n \in MCNode] ==
        {n} \cup UNION {below[Parts(ast[n])[p]] : p \in DOMAIN Parts(ast[n])}
  IN  [ast |-> ast, root |-> 1, nodes |-> below[1]]

\* Every clause on and off over a table, a function or nothing.
ClauseQueries ==
  {Statement(
            <<[kind |-> "Select", from |-> from, joins |-> <<>>,
               where |-> w, group_by |-> g, having |-> h, distinct |-> d,
               order_by |-> o, bounds |-> b, columns |-> c],
              Table, Table, Table, Table, Table, Table, Table, Table, Table,
              Table, Table, Table>>) :
     from \in {2, None}, w, g, h, d, o \in BOOLEAN,
     b \in {{}, {"limit"}, {"offset"}, {"fetch_first"}, {"limit", "offset"}},
     c \in {<<>>, <<"wildcard">>, <<"scalar", "aggregate">>}}

Roots == {Plain(2, <<>>), Plain(2, <<3>>), Plain(2, <<3, 4>>), Plain(None, <<3>>),
          UnionOf(5, 6, FALSE, {}), UnionOf(5, 6, TRUE, {"offset"}),
          [Plain(2, <<3>>) EXCEPT !.where = TRUE, !.distinct = TRUE],
          [kind |-> "Other"]}

Leaves == {Table, OldTable, [kind |-> "TableFunction"], [kind |-> "Unnest"]}

\* Each node has one holder at most: 1 holds 2, 3 and 4 or 5 and 6; 2 holds 5
\* or 9, 3 holds 6 or 8; 5 holds 7 and 10 or 11 and 12; 6 holds 8; 12 holds 13.
SourceQueries ==
  {Statement(
            <<r, s2, s3, Table, s5, Plain(8, <<>>), s7, Table, Table,
              Ref("Pivot", 13), Plain(None, <<>>), Plain(13, <<>>), Table>>) :
     r \in Roots,
     s2 \in {Table, Ref("Subquery", 5), Ref("Lateral", 9), Ref("Pivot", 9)},
     s3 \in {Table, Ref("Subquery", 6), Ref("Pivot", 8)},
     s5 \in {Plain(None, <<>>), Plain(7, <<>>), Plain(7, <<10>>),
             UnionOf(11, 12, TRUE, {"limit"}), [kind |-> "Other"]},
     s7 \in Leaves}

MCQueries == ClauseQueries \cup SourceQueries

-----------------------------------------------------------------------------
(* The rows of plans over one table of two columns, with <<1, 1>> and <<1, 2>>. *)

DistinctQueries ==
  {Statement(
            [n \in MCNode |->
               IF n = 1 THEN [Plain(2, <<>>) EXCEPT !.distinct = TRUE,
                                !.order_by = o, !.where = w, !.columns = c]
               ELSE Table]) :
     o, w \in BOOLEAN,
     c \in {<<"wildcard">>, <<"scalar">>, <<"scalar", "scalar">>}}

TableRows == SetToBag({<<1, 1>>, <<1, 2>>})

\* A SELECT list of one item keeps the first column, any other list both.
ProjectRow(n, row) ==
  IF query.ast[n].columns = <<"scalar">> THEN <<row[1]>> ELSE row

\* The rows each step yields, as the Step documentation describes it; the
\* filters of these statements keep every row and a sort changes none.
Rows ==
  LET rows[j \in 0 .. Len(steps) - 1] ==
        LET s == steps[j + 1]
            in == rows[s.dependencies[1]]
        IN  CASE s.kind = "Scan" -> TableRows
              [] s.kind = "Distinct" -> SetToBag(BagToSet(in))
              [] s.kind = "Project" ->
                   BagOfAll(LAMBDA row : ProjectRow(s.of, row), in)
              [] OTHER -> in
  IN  rows[root]

\* The step at Plan::root produces the final result (docs/reference.md:2101),
\* so for SELECT DISTINCT that result has no repeated row.
DistinctResult ==
  outcome = "ok" => \A row \in BagToSet(Rows) : CopiesIn(row, Rows) = 1

=============================================================================
