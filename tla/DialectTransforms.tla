------------------------- MODULE DialectTransforms -------------------------
(***************************************************************************)
(* src/dialects/mod.rs: the rewriting of a statement for a target dialect  *)
(* between parser and generator.  transform_expr follows the operators and *)
(* calls of the clauses transform_statement names; two walks reach every   *)
(* query block of a statement, for T-SQL and Oracle only.  Quoting is left *)
(* out.                                                                    *)
(***************************************************************************)
EXTENDS ExprWriter, TimeFormats

NamedFor(name, t) == [dialects |-> t, name |-> name]
\* map_function_name: the first row that has the target gives the name.
NowTargets == {"ansi", "bigquery", "snowflake", "oracle", "clickhouse", "exasol", "teradata", "druid", "dremio",
               "tableau"} \cup PrestoFamily \cup HiveFamily
Substrs == MySql \cup {"sqlite", "oracle"} \cup HiveFamily
IfNulls == MySql \cup {"sqlite"}
Randoms == {"postgres", "sqlite", "duckdb"}
AnyDialect == {}
NullRows == <<NamedFor("ISNULL", TSql), NamedFor("IFNULL", IfNulls), NamedFor("COALESCE", AnyDialect)>>
FunctionNames ==
    [NOW |-> <<NamedFor("GETDATE", TSql), NamedFor("CURRENT_TIMESTAMP", NowTargets)>>,
     GETDATE |-> <<NamedFor("GETDATE", TSql), NamedFor("NOW", PostgresFamily \cup {"mysql", "duckdb", "sqlite"}),
                   NamedFor("CURRENT_TIMESTAMP", AnyDialect)>>,
     LEN |-> <<NamedFor("LEN", TSql \cup {"bigquery", "snowflake"}), NamedFor("LENGTH", AnyDialect)>>,
     LENGTH |-> <<NamedFor("LEN", TSql)>>,
     SUBSTR |-> <<NamedFor("SUBSTR", Substrs), NamedFor("SUBSTRING", AnyDialect)>>,
     SUBSTRING |-> <<NamedFor("SUBSTR", Substrs)>>,
     IFNULL |-> NullRows, ISNULL |-> NullRows,
     NVL |-> <<NamedFor("NVL", {"oracle", "snowflake"})>> \o NullRows,
     RANDOM |-> <<NamedFor("RANDOM", Randoms), NamedFor("RAND", AnyDialect)>>,
     RAND |-> <<NamedFor("RANDOM", Randoms)>>,
     POSITION |-> <<NamedFor("CHARINDEX", TSql)>>,
     CHARINDEX |-> <<NamedFor("POSITION", PostgresFamily)>>]
FunctionName(name, d) ==
    LET rows == IF name \in DOMAIN FunctionNames
                THEN SelectSeq(FunctionNames[name], LAMBDA r : r.dialects = AnyDialect \/ d \in r.dialects) ELSE <<>>
    IN IF rows = <<>> THEN name ELSE Head(rows).name

\* map_data_type.
TSqlTypes == [TEXT |-> <<"VARCHAR", <<"MAX">>>>, BOOLEAN |-> <<"BIT", None>>, BYTEA |-> <<"VARBINARY", None>>,
              JSON |-> <<"VARCHAR", None>>, JSONB |-> <<"VARCHAR", None>>, UUID |-> <<"UNIQUEIDENTIFIER">>,
              SERIAL |-> <<"INT">>, BIGSERIAL |-> <<"BIGINT">>, SMALLSERIAL |-> <<"SMALLINT">>,
              TIMESTAMP |-> <<"DATETIME2">>]
TypeFor(t, d) ==
    CASE d \in TSql /\ Kind(t) \in DOMAIN TSqlTypes -> TSqlTypes[Kind(t)]
      [] Kind(t) = "TEXT" /\ d \in {"bigquery"} \cup HiveFamily -> <<"STRING">>
      [] Kind(t) = "STRING" /\ d \in PostgresFamily \cup MySql \cup {"sqlite"} -> <<"TEXT">>
      [] Kind(t) = "INT" /\ d = "bigquery" -> <<"BIGINT">>
      [] Kind(t) = "FLOAT" /\ d = "bigquery" -> <<"DOUBLE">>
      [] Kind(t) = "BYTEA" /\ d \in Substrs -> <<"BLOB">>
      [] Kind(t) \in {"BLOB", "VARBINARY"} /\ d \in PostgresFamily -> <<"BYTEA">>
      [] OTHER -> t

\* transform_limit.
NullQuery == <<"Select", None, None, None, List(<<<<"item", <<"NULL">>, None>>>>), None, List(<<>>), None, List(<<>>),
               None, None, List(<<>>), List(<<>>), None, None, None, None>>
AnyOrder == List(<<<<"order", <<"Subquery", NullQuery>>, None, None>>>>)
TopOf(s) == s[4]
LimitOf(s) == s[14]
OffsetOf(s) == s[15]
FetchOf(s) == s[16]
OrderOf(s) == Items(s[13])
Rated(top) == Kind(top) = "Top"   \* PERCENT, WITH TIES
TSqlRows(s) ==
    LET paged == IF LimitOf(s) = None THEN s
                 ELSE IF OffsetOf(s) = None THEN [s EXCEPT ![14] = None, ![4] = LimitOf(s)]
                 ELSE [s EXCEPT ![14] = None, ![16] = LimitOf(s), ![13] = IF OrderOf(s) = <<>> THEN AnyOrder ELSE @]
    IN IF OffsetOf(s) = None /\ FetchOf(paged) # None THEN [paged EXCEPT ![16] = None, ![4] = FetchOf(paged)]
       ELSE paged
OracleRows(s) ==
    LET fetched == IF LimitOf(s) = None THEN s ELSE [s EXCEPT ![14] = None, ![16] = LimitOf(s)]
    IN IF TopOf(s) = None THEN fetched ELSE [fetched EXCEPT ![4] = None, ![16] = TopOf(s)]
OtherRows(s) ==
    LET topped == IF TopOf(s) = None \/ Rated(TopOf(s)) THEN s
                  ELSE [s EXCEPT ![4] = None, ![14] = IF @ = None THEN TopOf(s) ELSE @]
    IN [topped EXCEPT ![16] = None, ![14] = IF @ = None THEN FetchOf(s) ELSE @]
RowsFor(s, d) == CASE d \in TSql -> TSqlRows(s) [] d = "oracle" -> OracleRows(s) [] OTHER -> OtherRows(s)

----------------------------------------------------------------------------
\* x + INTERVAL n unit.  A quantity within the string, '7 days', is looked up.
Quantities == ("'1 day'" :> <<1, "DAY">>) @@ ("'2 weeks'" :> <<2, "WEEK">>) @@ ("'1 microsecond'" :> <<1, "MICROSECOND">>)
Counts == ("1" :> 1) @@ ("2" :> 2) @@ ("'1'" :> 1) @@ ("'2'" :> 2)
DateParts == {"YEAR", "QUARTER", "MONTH", "WEEK", "DAY", "HOUR", "MINUTE", "SECOND", "MILLISECOND", "MICROSECOND"}
IntervalValue(e) ==   \* parse_interval_value: <<count, part>>; <<>> where there is none
    CASE Kind(e) # "Interval" -> <<>>
      [] Kind(e[2]) \in DOMAIN Quantities -> Quantities[Kind(e[2])]
      [] Kind(e[2]) \in DOMAIN Counts /\ e[3] # None /\ Kind(e[3]) \in DateParts -> <<Counts[Kind(e[2])], Kind(e[3])>>
      [] OTHER -> <<>>
PlainCall(name, args) == <<"Function", <<name>>, List(args), None, List(<<>>), None, None, None>>
Amount(n) == IF n < 0 THEN <<"Minus", <<ToString(-n)>>>> ELSE <<ToString(n)>>
DateAddCall(value, sign, e) ==
    PlainCall("DATEADD", <<<<"Column", None, <<value[2]>>>>, Amount(sign * value[1]), e>>)
OracleUnits == [YEAR |-> <<"YM", "'YEAR'", 1>>, MONTH |-> <<"YM", "'MONTH'", 1>>, QUARTER |-> <<"YM", "'MONTH'", 3>>,
                DAY |-> <<"DS", "'DAY'", 1>>, WEEK |-> <<"DS", "'DAY'", 7>>, HOUR |-> <<"DS", "'HOUR'", 1>>,
                MINUTE |-> <<"DS", "'MINUTE'", 1>>, SECOND |-> <<"DS", "'SECOND'", 1>>]
OracleInterval(value) ==
    LET unit == OracleUnits[value[2]]
    IN PlainCall(IF unit[1] = "YM" THEN "NUMTOYMINTERVAL" ELSE "NUMTODSINTERVAL", <<Amount(unit[3] * value[1]), <<unit[2]>>>>)
Lowers(value) == value # <<>> /\ value[2] \in DOMAIN OracleUnits
Shifted(op, left, right, d) ==
    LET of == IntervalValue(right)
        mirrored == op = "+" /\ IntervalValue(left) # <<>>
    IN CASE d \in TSql /\ of # <<>> -> DateAddCall(of, IF op = "-" THEN -1 ELSE 1, left)
         [] d \in TSql /\ of = <<>> /\ mirrored -> DateAddCall(IntervalValue(left), 1, right)
         [] d = "oracle" /\ Lowers(of) -> <<op, left, OracleInterval(of)>>
         [] d = "oracle" /\ Kind(right) # "Interval" /\ mirrored /\ Lowers(IntervalValue(left)) ->
               <<op, OracleInterval(IntervalValue(left)), right>>
         [] OTHER -> <<op, left, right>>

\* x / y.
IsZero(e) == e = <<"0">>
ZeroGuardedByCall(e) ==   \* mutant: only the call NULLIF(x, 0) is known, not its own form
    Kind(e) = "Function" /\ e[2] = <<"NULLIF">> /\ Len(Items(e[3])) = 2 /\ IsZero(Items(e[3])[2])
ZeroGuarded(e) ==
    \/ Kind(e) = "NullIf" /\ IsZero(e[3])
    \/ Kind(e) = "Function" /\ e[2] = <<"NULLIF">> /\ Len(Items(e[3])) = 2 /\ IsZero(Items(e[3])[2])
RECURSIVE NumericLiteral(_)
NumericLiteral(e) ==
    Kind(e) \in Numbers \/ (Kind(e) \in {"Nested", "Minus", "Plus"} /\ NumericLiteral(e[2]))
SafeDivision(op, left, right) ==
    IF ZeroGuarded(right) \/ NumericLiteral(right) THEN <<op, left, right>>
    ELSE <<op, left, <<"NullIf", right, <<"0">>>>>>
Operation(op, left, right, d) ==
    CASE op \in {"+", "-"} /\ d \in TSql \cup {"oracle"} -> Shifted(op, left, right, d)
      [] op \in {"/", "%"} /\ d \in TSql -> SafeDivision(op, left, right)
      [] OTHER -> <<op, left, right>>
RECURSIVE ConcatArgs(_)
ConcatArgs(e) == IF Kind(e) = "||" THEN ConcatArgs(e[2]) \o ConcatArgs(e[3]) ELSE <<e>>

\* ILIKE and SIMILAR TO.  The patterns with | and parentheses are looked up.
ILikes == PostgresFamily \cup PrestoFamily \cup HiveFamily \cup
          {"duckdb", "snowflake", "clickhouse", "starrocks", "exasol", "druid", "dremio"}
Lowered(e) == <<"TypedFunction", <<"Lower", e>>, None, None>>
Simplified == "'(s|u)'" :> "'s%u'"
LikePattern(e) == IF Kind(e) \in DOMAIN Simplified THEN <<Simplified[Kind(e)]>> ELSE e

----------------------------------------------------------------------------
\* The parts Expr::transform goes into, by kind; lists are gone through.
ExprParts ==
    [Function |-> {3, 7}, TypedFunction |-> {2, 3}, Nested |-> {2}, Cast |-> {2}, TryCast |-> {2}, Between |-> {2, 4, 5},
     Case |-> {2, 3, 4}, when |-> {2, 3}, IsTrue |-> {2}, IsFalse |-> {2}, IsNull |-> {2}, AnyOp |-> {2}, AllOp |-> {2},
     InList |-> {2, 4}, InSubquery |-> {2}, Like |-> {2, 4, 5}, ILike |-> {2, 4, 5}, Extract |-> {3}, Interval |-> {2},
     ArrayLiteral |-> {2}, Tuple |-> {2}, NullIf |-> {2, 3}, AtTimeZone |-> {2, 3}, ArrayIndex |-> {2, 3},
     JsonAccess |-> {2, 3}, Cube |-> {2}, Rollup |-> {2}, GroupingSets |-> {2}, order |-> {2}] @@
    [op \in BinaryOps |-> {2, 3}] @@ [op \in DOMAIN PrefixWords |-> {2}]
Parts(t) ==
    CASE Len(t) = 1 -> {}
      [] Kind(t) \in DOMAIN ExprParts -> ExprParts[Kind(t)]
      [] Kind(t) = "list" -> 2..Len(t)
      [] OTHER -> {}
TypedParts(f) == 2..Len(f)
\* walk and find_all: the expressions within one.
Inner(e) ==
    CASE Kind(e) = "TypedFunction" -> {e[2][i] : i \in TypedParts(e[2])} \cup {e[3]}
      [] Kind(e) \in {"Like", "ILike", "SimilarTo"} -> {e[2], e[4]}
      [] Kind(e) \in {"item", "set"} -> {e[IF Kind(e) = "item" THEN 2 ELSE 3]}
      [] OTHER -> {e[i] : i \in Parts(e)}
RECURSIVE Nodes(_)
Nodes(e) == {e} \cup UNION {Nodes(part) : part \in Inner(e)}
ColumnsOf(e) == {n \in Nodes(e) : Len(n) > 1 /\ Kind(n) = "Column"}


\* What is done at a node: "rewrite" is transform_expr, "filter" is lower_agg_filter_node,
\* "keys" and "rows" go into the query of the node.
RECURSIVE Deep(_, _, _), Rewrite(_, _), QueryBlocks(_, _, _, _)
Child(job, t, i, d) ==
    IF i = 2 /\ Kind(t) = "TypedFunction"
    THEN [j \in DOMAIN t[2] |-> IF j \in TypedParts(t[2]) THEN Deep(job, t[2][j], d) ELSE t[2][j]]
    ELSE IF Kind(t) \in {"AnyOp", "AllOp"} THEN <<t[2][1], Deep(job, t[2][2], d), Deep(job, t[2][3], d)>>
    ELSE Deep(job, t[i], d)
Query == [Subquery |-> 2, Exists |-> 2, InSubquery |-> 4]
Truths(pred, e) == <<"Case", None, List(<<<<"when", pred, e>>>>), None>>
Filterable == {"Count", "Sum", "Avg", "Min", "Max", "ArrayAgg", "ApproxDistinct", "Variance", "VariancePop", "Stddev",
               "StddevPop"}
One == <<"1">>
Counted(e) == IF e = <<"*">> THEN One ELSE e
Unfiltered(t) ==
    CASE Kind(t) = "Function" /\ t[7] # None ->
            LET args == Items(t[3])
            IN [t EXCEPT ![7] = None,
                         ![3] = List(IF args = <<>> THEN <<Truths(t[7], One)>>
                                     ELSE <<Truths(t[7], Counted(Head(args)))>> \o Tail(args))]
      [] Kind(t) = "TypedFunction" /\ t[3] # None /\ Kind(t[2]) \in Filterable ->
            [t EXCEPT ![3] = None, ![2] = [@ EXCEPT ![2] = Truths(t[3], IF Kind(t[2]) = "Count" THEN Counted(@) ELSE @)]]
      [] OTHER -> t
AtNode(job, t, d) ==
    CASE job = "rewrite" -> Rewrite(t, d)
      [] job = "filter" -> Unfiltered(t)
      [] Len(t) > 1 /\ Kind(t) \in DOMAIN Query -> [t EXCEPT ![Query[Kind(t)]] = QueryBlocks(job, @, d, TRUE)]
      [] OTHER -> t
Deep(job, t, d) ==
    IF Kind(t) \in {"list", "when", "order"}
    THEN [i \in DOMAIN t |-> IF i \in Parts(t) THEN Deep(job, t[i], d) ELSE t[i]]
    ELSE AtNode(job, [i \in DOMAIN t |-> IF i \in Parts(t) THEN Child(job, t, i, d) ELSE t[i]], d)

\* transform_format_expr: a format that is a literal is converted, any other is rewritten
\* like any expression.
IsLiteral(e) == Kind(e) \in Strings
Inside(literal) == SubSeq(literal, 2, Len(literal) - 1)
Formatted(e, d) == IF IsLiteral(e) THEN <<"'" \o FormatFor(Inside(Kind(e)), d) \o "'">> ELSE Rewrite(e, d)

\* transform_expr; the parts of a typed function are rewritten from the leaves up, so more
\* than once.
TypedFor(f, d) ==
    IF Kind(f) \in {"TimeToStr", "StrToTime"} THEN <<f[1], Rewrite(f[2], d), Formatted(f[3], d)>>
    ELSE [j \in DOMAIN f |-> IF j \in TypedParts(f) THEN Deep("rewrite", f[j], d) ELSE f[j]]
EachOf(list, d) == List([i \in 1..Len(Items(list)) |-> Rewrite(Items(list)[i], d)])
Rewrite(e, d) ==
    CASE Len(e) = 1 -> e
      [] Kind(e) = "Function" ->
            [e EXCEPT ![2] = <<FunctionName(Kind(@), d)>>, ![3] = EachOf(@, d), ![7] = Rewrite(@, d)]
      [] Kind(e) = "TypedFunction" ->
            [e EXCEPT ![2] = TypedFor(@, d), ![3] = Rewrite(@, d)]
      [] Kind(e) = "ILike" /\ d \notin ILikes ->
            <<"Like", Lowered(Rewrite(e[2], d)), e[3], Lowered(Rewrite(e[4], d)), e[5]>>
      [] Kind(e) = "SimilarTo" /\ d \in TSql ->
            <<"Like", Rewrite(e[2], d), e[3], LikePattern(Rewrite(e[4], d)), e[5]>>
      [] Kind(e) \in {"Cast", "TryCast"} -> [e EXCEPT ![2] = Rewrite(@, d), ![3] = TypeFor(@, d)]
      [] Kind(e) = "||" /\ d \in TSql ->
            PlainCall("CONCAT", [i \in 1..Len(ConcatArgs(e)) |-> Rewrite(ConcatArgs(e)[i], d)])
      [] Kind(e) \in BinaryOps -> Operation(Kind(e), Rewrite(e[2], d), Rewrite(e[3], d), d)
      [] Kind(e) \in DOMAIN PrefixWords \cup {"Nested"} -> <<Kind(e), Rewrite(e[2], d)>>
      [] OTHER -> e

----------------------------------------------------------------------------
\* transform_statement: the clauses it goes into.
RewriteItem(item, d) == IF Kind(item) = "item" THEN [item EXCEPT ![2] = Rewrite(@, d)] ELSE item
OverItems(list, d) == List([i \in 1..Len(Items(list)) |-> RewriteItem(Items(list)[i], d)])
OverRows(list, d) == List([i \in 1..Len(Items(list)) |-> EachOf(Items(list)[i], d)])
OverSets(list, d) == List([i \in 1..Len(Items(list)) |-> [Items(list)[i] EXCEPT ![3] = Rewrite(@, d)]])
ColumnFor(c, d) == [c EXCEPT ![3] = TypeFor(@, d), ![5] = Rewrite(@, d)]
ConstraintFor(c, d) == IF Kind(c) = "CHECK" THEN [c EXCEPT ![3] = Rewrite(@, d)] ELSE c
\* No parser makes an AlterColumnType, whose type would be mapped too.
ActionFor(a, d) == IF Kind(a) = "add column" THEN [a EXCEPT ![2] = ColumnFor(@, d)] ELSE a
RECURSIVE Statement(_, _)
Statement(s, d) ==
    CASE Kind(s) = "Select" ->
            [RowsFor(s, d) EXCEPT ![5] = OverItems(@, d), ![8] = Rewrite(@, d), ![9] = EachOf(@, d), ![10] = Rewrite(@, d)]
      [] Kind(s) = "Insert" ->
            [s EXCEPT ![4] = IF Kind(@) = "Values" THEN <<"Values", OverRows(@[2], d)>> ELSE @, ![6] = OverItems(@, d)]
      [] Kind(s) = "Update" -> [s EXCEPT ![3] = OverSets(@, d), ![5] = Rewrite(@, d), ![6] = OverItems(@, d)]
      [] Kind(s) = "Delete" -> [s EXCEPT ![4] = Rewrite(@, d), ![5] = OverItems(@, d)]
      [] Kind(s) = "CreateTable" ->
            [s EXCEPT ![5] = List([i \in 1..Len(Items(@)) |-> ColumnFor(Items(@)[i], d)]),
                      ![6] = List([i \in 1..Len(Items(@)) |-> ConstraintFor(Items(@)[i], d)]),
                      ![7] = OverSets(@, d), ![8] = Statement(@, d)]
      [] Kind(s) = "AlterTable" -> [s EXCEPT ![3] = List([i \in 1..Len(Items(@)) |-> ActionFor(Items(@)[i], d)])]
      [] OTHER -> s

----------------------------------------------------------------------------
\* fix_group_by_outer_refs_select: a key of columns of outer queries only becomes the
\* local column that the WHERE clause equates it with, or is dropped.
LastName(name) == IF Kind(name) = "Dotted" THEN name[3] ELSE name
RECURSIVE LocalNames(_), Equated(_, _, _)
LocalNames(source) ==
    CASE source = None -> {}
      [] Kind(source) = "Table" -> {LastName(source[2])}
      [] Kind(source) \in {"TableAs", "Aliased"} -> {source[3]} \cup LocalNames(source[2])
      [] Kind(source) = "Unnest" -> {source[3]} \ {None}
      [] Kind(source) \in {"Lateral", "Pivot", "Unpivot"} -> LocalNames(source[2])
      [] OTHER -> {}
Locals(s) == LocalNames(s[6]) \cup UNION {LocalNames(Items(s[7])[i][3]) : i \in 1..Len(Items(s[7]))}
PureOuter(key, locals) ==
    ColumnsOf(key) # {} /\ \A c \in ColumnsOf(key) : c[2] # None /\ c[2] \notin locals
LocalColumn(e, locals) == Len(e) > 1 /\ Kind(e) = "Column" /\ e[2] \in locals
SameColumn(e, key) == Len(e) > 1 /\ Kind(e) = "Column" /\ e = key
Equated(where, key, locals) ==
    CASE where # None /\ Kind(where) = "AND" ->
            IF Equated(where[2], key, locals) # None THEN Equated(where[2], key, locals) ELSE Equated(where[3], key, locals)
      [] Kind(where) = "Nested" -> Equated(where[2], key, locals)
      [] Kind(where) = "=" ->
            IF SameColumn(where[2], key) /\ LocalColumn(where[3], locals) THEN where[3]
            ELSE IF SameColumn(where[3], key) /\ LocalColumn(where[2], locals) THEN where[2] ELSE None
      [] OTHER -> None
LocalKeys(s) ==
    LET locals == Locals(s)
        key(k) == IF PureOuter(k, locals) THEN Equated(s[8], k, locals) ELSE k
    IN [s EXCEPT ![9] = List(Without(None, [i \in 1..Len(Items(@)) |-> key(Items(@)[i])]))]

\* transform_nested_select: row limits of nested blocks, ORDER BY without effect, FILTER.
UnorderedBeforeTop(s, d) ==   \* mutant: the TOP that LIMIT has become is not taken for a row limit
    IF d \in TSql /\ LimitOf(s) = None /\ OffsetOf(s) = None /\ FetchOf(s) = None
    THEN [s EXCEPT ![13] = List(<<>>)] ELSE s
Unordered(s, d) ==
    IF d \in TSql /\ TopOf(s) = None /\ LimitOf(s) = None /\ OffsetOf(s) = None /\ FetchOf(s) = None
    THEN [s EXCEPT ![13] = List(<<>>)] ELSE s
DeepItem(job, item, d) == IF Kind(item) = "item" THEN [item EXCEPT ![2] = Deep(job, @, d)] ELSE item
DeepItems(job, list, d) == List([i \in 1..Len(Items(list)) |-> DeepItem(job, Items(list)[i], d)])
WithoutFilters(s, d) ==
    [s EXCEPT ![5] = DeepItems("filter", @, d), ![10] = Deep("filter", @, d), ![11] = Deep("filter", @, d),
              ![13] = Deep("filter", @, d)]
NestedRows(s, d, nested) ==
    WithoutFilters(IF nested THEN Unordered(RowsFor(s, d), d) ELSE s, d)

\* The two walks over the query blocks.
RECURSIVE InSource(_, _, _)
InSource(job, source, d) ==
    CASE source = None -> None
      [] Kind(source) = "Derived" -> [source EXCEPT ![2] = QueryBlocks(job, @, d, TRUE)]
      [] Kind(source) \in {"Aliased", "TableAs", "Lateral", "Pivot", "Unpivot"} -> [source EXCEPT ![2] = InSource(job, @, d)]
      [] OTHER -> source
InConditions(job, list, d) ==   \* mutant: the ON of a join is visited, its source is forgotten
    List([i \in 1..Len(Items(list)) |-> [Items(list)[i] EXCEPT ![4] = Deep(job, @, d)]])
InJoins(job, list, d) ==
    List([i \in 1..Len(Items(list)) |-> [Items(list)[i] EXCEPT ![3] = InSource(job, @, d), ![4] = Deep(job, @, d)]])
InCtes(job, with, d) ==
    IF with = None THEN None
    ELSE [with EXCEPT ![3] = List([i \in 1..Len(Items(@)) |-> [Items(@)[i] EXCEPT ![5] = QueryBlocks(job, @, d, TRUE)]])]
InSelect(job, s, d) ==
    [s EXCEPT ![2] = InCtes(job, @, d), ![6] = InSource(job, @, d), ![7] = InJoins(job, @, d),
              ![5] = DeepItems(job, @, d), ![8] = Deep(job, @, d), ![9] = IF job = "rows" THEN Deep(job, @, d) ELSE @,
              ![10] = Deep(job, @, d), ![11] = Deep(job, @, d), ![13] = Deep(job, @, d)]
QueryBlocks(job, s, d, nested) ==
    CASE s = None -> None
      [] Kind(s) = "Select" ->
            IF job = "keys" THEN LocalKeys(InSelect(job, s, d)) ELSE NestedRows(InSelect(job, s, d), d, nested)
      [] Kind(s) = "SetOperation" -> [s EXCEPT ![2] = QueryBlocks(job, @, d, TRUE), ![5] = QueryBlocks(job, @, d, TRUE)]
      [] Kind(s) = "Insert" -> [s EXCEPT ![4] = IF Kind(@) = "Values" THEN @ ELSE QueryBlocks(job, @, d, TRUE)]
      [] Kind(s) = "CreateTable" -> [s EXCEPT ![8] = QueryBlocks(job, @, d, TRUE)]
      [] Kind(s) = "CreateView" -> [s EXCEPT ![7] = QueryBlocks(job, @, d, TRUE)]
      [] Kind(s) = "Explain" -> [s EXCEPT ![3] = QueryBlocks(job, @, d, TRUE)]
      [] OTHER -> s

\* transform.
ForTSql(s, d) == IF d \in TSql THEN QueryBlocks("keys", s, d, FALSE) ELSE s
ForOracle(s, d) == IF d \in TSql \cup {"oracle"} THEN QueryBlocks("rows", s, d, FALSE) ELSE s
Transform(s, from, to) == IF from = to THEN s ELSE ForOracle(ForTSql(Statement(s, to), to), to)
=============================================================================
