----------------------------- MODULE Transpiler -----------------------------
(***************************************************************************)
(* transpile_statements of src/lib.rs (and transpile, its case of one      *)
(* statement): a text is parsed in the dialect it is read in, then every   *)
(* statement is transformed for the dialect it is written in, validated    *)
(* and generated.  A refusal ends the call with nothing.  Whoever called   *)
(* reads what was written; Reread stands for that.                         *)
(*                                                                         *)
(* A text is a sequence of words; Lexed joins the words of the generator   *)
(* the way the lexer takes them apart again.                               *)
(***************************************************************************)
EXTENDS StatementGrammar, StatementWriter, DialectTransforms

CONSTANT Requests   \* [text, from, to]: the texts and the dialects they are read and written in

VARIABLES
    request,   \* the arguments of the call
    stage,     \* what comes next
    stmts,     \* the statements parsed
    results,   \* the texts of those that are done
    tree,      \* the statement at work
    again      \* the texts as read in the dialect they were written in
vars == <<request, stage, stmts, results, tree, again>>

-----------------------------------------------------------------------------
(* What a target dialect cannot say is refused between transformation and  *)
(* generation.  The walk that looks for it is the code's own, with the     *)
(* parts it does not reach (validate_dialect_support).                     *)

\* temporal_supported.
Supporters(clause) ==
    CASE Kind(clause) = "TimeTravel" -> {"snowflake"}
      [] Kind(clause) = "AsOf" -> {"tsql", "bigquery", "hive"}
      [] Kind(clause) \in {"FromTo", "BetweenAnd", "ContainedIn", "AllTimes"} -> {"tsql"}
      [] Kind(clause) \in {"Flashback", "Versions"} -> {"oracle"}
      [] Kind(clause) = "VersionOf" -> {"databricks", "spark"}
      [] Kind(clause) = "SystemVersion" -> {"hive"}

\* unsupported_in_expr looks at the queries of an expression; the clauses come as
\* <<"read", clause>>, those of a table that is written to as <<"written", clause>>.
QueriesOf(e) == {n[Query[Kind(n)]] : n \in {m \in Nodes(e) : Len(m) > 1 /\ Kind(m) \in DOMAIN Query}}
Direct(table) ==
    CASE Kind(table) = "TableAs" -> IF table[2][3] = None THEN {} ELSE {<<"written", table[2][3]>>}
      [] OTHER -> IF table[3] = None THEN {} ELSE {<<"written", table[3]>>}
RECURSIVE TemporalsOf(_)
InExpr(e) == UNION {TemporalsOf(q) : q \in QueriesOf(e)}
InAll(trees) == UNION {InExpr(trees[i]) : i \in DOMAIN trees}
RECURSIVE InTables(_)
InTables(source) ==   \* unsupported_in_source
    CASE source = None -> {}
      [] Kind(source) = "Table" -> IF source[3] = None THEN {} ELSE {<<"read", source[3]>>} \cup InAll(Tail(source[3]))
      [] Kind(source) = "Derived" -> TemporalsOf(source[2])
      [] Kind(source) \in {"TableAs", "Aliased", "Lateral", "Pivot", "Unpivot"} -> InTables(source[2])
      [] OTHER -> {}
OfCondition(join) == InExpr(join[4])   \* mutant: the source of a join is forgotten
OfJoin(join) == InTables(join[3]) \cup InExpr(join[4])
OfCtes(with) == IF with = None THEN {} ELSE UNION {TemporalsOf(Items(with[3])[i][5]) : i \in 1..Len(Items(with[3]))}
\* A WHEN clause of a MERGE.
OfClause(when) ==
    InExpr(when[3]) \cup (IF Kind(when[4]) = "update" THEN InExpr(when[4][2])
                          ELSE IF Kind(when[4]) = "insert" THEN InExpr(when[4][3]) ELSE {})
TemporalsOf(s) ==
    CASE s = None -> {}
      [] Kind(s) = "Select" ->
            OfCtes(s[2]) \cup InTables(s[6]) \cup UNION {OfJoin(Items(s[7])[i]) : i \in 1..Len(Items(s[7]))} \cup
            InAll(<<s[4], s[5], s[8], s[9], s[10], s[11], s[13], s[14], s[15], s[16]>>)
      [] Kind(s) = "SetOperation" -> TemporalsOf(s[2]) \cup TemporalsOf(s[5])
      [] Kind(s) = "Insert" ->
            Direct(s[2]) \cup
            (CASE Kind(s[4]) = "Values" -> InExpr(s[4][2]) [] Len(s[4]) = 1 -> {} [] OTHER -> TemporalsOf(s[4])) \cup
            (IF s[5] = None THEN {} ELSE InExpr(s[5][3])) \cup InExpr(s[6])
      [] Kind(s) = "Update" -> Direct(s[2]) \cup InTables(s[4]) \cup InAll(<<s[3], s[5], s[6]>>)
      [] Kind(s) = "Delete" -> Direct(s[2]) \cup InTables(s[3]) \cup InAll(<<s[4], s[5]>>)
      [] Kind(s) = "Merge" ->
            Direct(s[2]) \cup InTables(s[3]) \cup InAll(<<s[4], s[6]>>) \cup
            UNION {OfClause(Items(s[5])[i]) : i \in 1..Len(Items(s[5]))}
      [] Kind(s) = "CreateTable" -> Direct(s[4]) \cup TemporalsOf(s[8])
      [] Kind(s) = "CreateView" -> Direct(s[5]) \cup TemporalsOf(s[7])
      [] Kind(s) = "Explain" -> TemporalsOf(s[3])
      [] OTHER -> {}
Temporal(s, d) == \E found \in TemporalsOf(s) : found[1] = "written" \/ d \notin Supporters(found[2])

\* An array constructor has no form in T-SQL: the columns and the WHERE clause of the
\* outermost SELECT are searched for one.
HasArray(e) == \E n \in Nodes(e) : Len(n) > 1 /\ Kind(n) = "ArrayLiteral"
Array(s, d) == d \in TSql /\ Kind(s) = "Select" /\ (HasArray(s[5]) \/ HasArray(s[8]))

Refused(s, d) == Temporal(s, d) \/ Array(s, d)

-----------------------------------------------------------------------------
RECURSIVE Written(_, _)
Written(pieces, d) ==
    IF pieces = <<>> THEN <<>>
    ELSE IF Kind(Head(pieces)) = "word" THEN <<Head(pieces)[2]>> \o Written(Tail(pieces), d)
    ELSE Written(Pieces(Head(pieces), d), d) \o Written(Tail(pieces), d)
\* The lexer on what is written: two minus signs that touch begin a comment.
Lexed(words) ==
    LET opens(i) == words[i] = "-." /\ i < Len(words) /\ words[i + 1] \in {"-.", "-"}
        comments == {i \in 1..Len(words) : opens(i)}
        kept == IF comments = {} THEN words
                ELSE SubSeq(words, 1, (CHOOSE i \in comments : \A j \in comments : i <= j) - 1)
    IN [i \in DOMAIN kept |-> IF kept[i] = "-." THEN "-" ELSE kept[i]]
Generate(t, d) == Lexed(Written(<<t>>, d))
ParseStatements(text, d) == Parse("Statements", Grammar, text, d)
RECURSIVE Script(_)
Script(texts) == IF Len(texts) <= 1 THEN FlattenSeq(texts) ELSE Head(texts) \o <<";">> \o Script(Tail(texts))

----------------------------------------------------------------------------
Init ==
    /\ request \in Requests
    /\ stage = "parse"
    /\ stmts = List(<<>>) /\ results = <<>>
    /\ tree = None /\ again = None

\* parse_statements(sql, read_dialect)?
ParseText ==
    /\ stage = "parse"
    /\ LET parsed == ParseStatements(request.text, request.from)
       IN /\ stage' = IF parsed = None THEN "failed" ELSE "next"
          /\ stmts' = IF parsed = None THEN stmts ELSE parsed
    /\ UNCHANGED <<request, results, tree, again>>

\* for stmt in &stmts
NextStatement ==
    /\ stage = "next" /\ Len(results) < Len(Items(stmts))
    /\ tree' = Items(stmts)[Len(results) + 1]
    /\ stage' = IF request.from = request.to THEN "validate" ELSE "clauses"
    /\ UNCHANGED <<request, stmts, results, again>>

\* The three passes of dialects::transform.
TransformClauses ==
    /\ stage = "clauses"
    /\ tree' = Statement(tree, request.to)
    /\ stage' = "keys"
    /\ UNCHANGED <<request, stmts, results, again>>
FixGroupBy ==
    /\ stage = "keys"
    /\ tree' = ForTSql(tree, request.to)
    /\ stage' = "blocks"
    /\ UNCHANGED <<request, stmts, results, again>>
TransformNestedBlocks ==
    /\ stage = "blocks"
    /\ tree' = ForOracle(tree, request.to)
    /\ stage' = "validate"
    /\ UNCHANGED <<request, stmts, results, again>>

\* validate_dialect_support(&transformed, write_dialect)?
Validate ==
    /\ stage = "validate"
    /\ stage' = IF Refused(tree, request.to) THEN "failed" ELSE "generate"
    /\ UNCHANGED <<request, stmts, results, tree, again>>
\* results.push(generate(&transformed, write_dialect))
GenerateText ==
    /\ stage = "generate"
    /\ results' = Append(results, Generate(tree, request.to))
    /\ tree' = None
    /\ stage' = "next"
    /\ UNCHANGED <<request, stmts, again>>

\* Ok(results), and the reader of the texts.
Return ==
    /\ stage = "next" /\ Len(results) = Len(Items(stmts))
    /\ stage' = "returned"
    /\ UNCHANGED <<request, stmts, results, tree, again>>
Reread ==
    /\ stage = "returned"
    /\ again' = ParseStatements(Script(results), request.to)
    /\ stage' = "reread"
    /\ UNCHANGED <<request, stmts, results, tree>>

Next ==
    \/ ParseText \/ NextStatement \/ TransformClauses \/ FixGroupBy \/ TransformNestedBlocks
    \/ Validate \/ GenerateText \/ Return \/ Reread
Spec == Init /\ [][Next]_vars

----------------------------------------------------------------------------
\* What the properties speak of: the trees within a tree, and its query blocks in the
\* order of the text.  The SELECT NULL by which T-SQL orders nothing is no block.
RECURSIVE Trees(_), BlocksOf(_)
IsBlock(t) == Kind(t) = "Select" /\ Len(t) > 1
Trees(t) == {t} \cup IF Kind(t) = "raw" THEN {} ELSE UNION {Trees(t[i]) : i \in 2..Len(t)}
BlocksOf(trees) ==
    IF trees = <<>> THEN <<>>
    ELSE LET t == Head(trees)
             within == IF Kind(t) = "raw" \/ t = NullQuery THEN <<>> ELSE BlocksOf(Tail(t))
         IN (IF IsBlock(t) /\ t # NullQuery THEN <<t>> ELSE <<>>) \o within \o BlocksOf(Tail(trees))

\* The rows a block keeps of what it selects: how many, after how many, in which order.
CountOf(s) ==
    LET counts == SelectSeq(<<TopOf(s), LimitOf(s), FetchOf(s)>>, LAMBDA n : n # None)
    IN IF counts = <<>> THEN None ELSE Head(counts)
Ordering(s) == IF s[13] = AnyOrder THEN List(<<>>) ELSE s[13]
WindowOf(s) ==
    <<CountOf(s), OffsetOf(s), IF CountOf(s) = None /\ OffsetOf(s) = None THEN List(<<>>) ELSE Ordering(s)>>
WindowsOf(blocks) == [i \in DOMAIN blocks |-> WindowOf(blocks[i])]

\* The form of a query block in T-SQL and in Oracle: its row limit is TOP, or OFFSET with
\* FETCH, for T-SQL and FETCH for Oracle; in T-SQL no block below the outermost is ordered
\* without a row limit and no GROUP BY key names outer columns only.
TSqlBlock(s, nested) ==
    /\ LimitOf(s) = None
    /\ FetchOf(s) # None => OffsetOf(s) # None /\ OrderOf(s) # <<>>
    /\ nested /\ OrderOf(s) # <<>> => TopOf(s) # None \/ OffsetOf(s) # None
    /\ \A i \in 1..Len(Items(s[9])) : ~PureOuter(Items(s[9])[i], Locals(s))
OracleBlock(s) == LimitOf(s) = None /\ TopOf(s) = None
\* The FILTER of an aggregate of one argument; other typed functions keep theirs, as a
\* comment at dialects/mod.rs:1289 says.
FilterOf(t) ==
    CASE Len(t) > 1 /\ Kind(t) = "Function" -> t[7]
      [] Len(t) > 1 /\ Kind(t) = "TypedFunction" /\ Kind(t[2]) \in Filterable -> t[3]
      [] OTHER -> None
Suits(t) ==
    /\ FilterOf(t) = None
    /\ IsBlock(t) => IF request.to = "oracle" THEN OracleBlock(t) ELSE TSqlBlock(t, t # tree)
WrittenAnew == stage = "validate" /\ request.from # request.to /\ request.to \in TSql \cup {"oracle"}

\* The parts of a tree that the walk over the nested blocks does not go into.
Aside ==
    [Insert |-> {2, 3, 5, 6}, Values |-> {2}, Update |-> 2..6, Delete |-> 2..5, Merge |-> 2..6, CreateTable |-> 2..7,
     AlterTable |-> {3}, Select |-> {3, 4, 12, 14, 15, 16, 17}, SetOperation |-> 6..9, Table |-> {3}, TableFunction |-> {3},
     Unnest |-> {2}, Pivot |-> 3..5, Unpivot |-> 3..5, Function |-> {5, 6, 8}, TypedFunction |-> {4}, SimilarTo |-> 2..5]
RECURSIVE Reached(_)
Reached(t) ==
    {t} \cup IF Kind(t) = "raw" THEN {}
             ELSE UNION {Reached(t[i]) : i \in (2..Len(t)) \ (IF Kind(t) \in DOMAIN Aside THEN Aside[Kind(t)] ELSE {})}

\* Where a statement is written for T-SQL or Oracle, every query block in the parts of SELECTs,
\* set operations, INSERT, CREATE and EXPLAIN that the walk goes into has the form of its target,
\* however deep it stands, and no aggregate there has a FILTER.  Not so what stands in Aside: see
\* EveryBlockSuitsTarget.
BlocksSuitTarget == WrittenAnew => \A t \in Reached(tree) : Suits(t)

\* "Recursively apply the CR-031 nested-block transforms to every query block reachable from
\* `stmt`" (dialects/mod.rs:1119): so do the blocks in the parts that are Aside.
EveryBlockSuitsTarget == WrittenAnew => \A t \in Trees(tree) : Suits(t)

\* No statement is written with a temporal clause that its target does not know, wherever
\* in the statement the clause stands: the walk of validate_dialect_support finds them all.
TemporalKinds == {"TimeTravel", "AsOf", "FromTo", "BetweenAnd", "ContainedIn", "AllTimes",
                  "Flashback", "Versions", "VersionOf", "SystemVersion"}
TemporalsKnown ==
    stage = "generate" =>
        \A t \in Trees(tree) : Len(t) > 1 /\ Kind(t) \in TemporalKinds => request.to \in Supporters(t)

\* The transformation settles: a second one finds nothing to do.  A division is not
\* guarded twice, a row limit not lowered to another form, an interval not added again.
Settles ==
    stage = "validate" /\ request.from # request.to => Transform(tree, request.from, request.to) = tree

\* Every query block keeps its row window through all dialects: read back in the target,
\* the text has the same blocks, each with the count, the offset and the order that the
\* source text gave it.
LimitsKept ==
    stage = "reread" => again # None /\ WindowsOf(BlocksOf(<<again>>)) = WindowsOf(BlocksOf(<<stmts>>))

\* A text that was written is read back, statement for statement, to what is written as
\* the same text: no statement is split, joined or changed by its own words.
WritesStably ==
    stage = "reread" =>
        /\ again # None
        /\ [i \in DOMAIN Items(again) |-> Generate(Items(again)[i], request.to)] = results

\* Within one dialect the text that is written says what was read.  The text for MySQL or
\* SQLite, which bind operators in their own ways, of operators and columns read in another
\* dialect says the same operations, parentheses aside.
ReadsBack == stage = "reread" /\ request.from = request.to => again = stmts
RECURSIVE Unnested(_)
Unnested(t) == IF Kind(t) = "Nested" THEN Unnested(t[2]) ELSE [i \in DOMAIN t |-> IF i = 1 THEN t[i] ELSE Unnested(t[i])]
OnlyOperators == \A t \in Trees(stmts) : Len(t) = 1 \/ Kind(t) \in BinaryOps \cup {"list", "Select", "item", "Column", "Nested"}
GroupingKept ==
    stage = "reread" /\ request.to \in Precedences /\ OnlyOperators =>
        again # None /\ Unnested(again) = Unnested(stmts)

\* What an ORDER BY behind the last SELECT of a set operation orders is the whole result,
\* as the comment at sql_parser.rs:2100 says: the text of the target has one too.
Depth(words, at) ==
    Cardinality({i \in 1..at : words[i] = "("}) - Cardinality({i \in 1..at : words[i] = ")"})
OrderedAsWhole(words) ==
    \E i \in 1..Len(words) - 1 : words[i] = "ORDER" /\ words[i + 1] = "BY" /\ Depth(words, i) = 0
WholeOrderKept ==
    stage = "returned" /\ OrderedAsWhole(request.text) => OrderedAsWhole(results[1])
=============================================================================
