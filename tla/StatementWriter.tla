--------------------------- MODULE StatementWriter ---------------------------
(***************************************************************************)
(* The statements as src/generator/sql_generator.rs writes them in a       *)
(* dialect, in the pieces of ExprWriter.                                   *)
(***************************************************************************)
EXTENDS ExprWriter

Clause(words, part) == If(part, Ws(words) \o <<part>>)
Filtered(word, part) == If(part, <<W(word), Cond(part)>>)
IfAny(list, pieces) == IF Items(list) = <<>> THEN <<>> ELSE pieces
InParens(list) == Word("(") \o Listed(list) \o Word(")")
Columns(list) == IfAny(list, InParens(list))
AsAlias(alias, d) == IF d = "oracle" THEN <<alias>> ELSE <<W("AS"), alias>>

\* gen_select and gen_ctes.  The expression after TOP is written as it was read.
CteUnnamed(c) ==   \* mutant: the column names of a CTE are lost
    <<c[2]>> \o Word("AS") \o
    (IF c[4] = None THEN <<>> ELSE IF Kind(c[4]) = "NOT" THEN Ws(<<"NOT", "MATERIALIZED">>) ELSE Word("MATERIALIZED")) \o
    <<W("("), c[5], W(")")>>
CtePieces(c) ==
    <<c[2]>> \o Columns(c[3]) \o Word("AS") \o
    (IF c[4] = None THEN <<>> ELSE IF Kind(c[4]) = "NOT" THEN Ws(<<"NOT", "MATERIALIZED">>) ELSE Word("MATERIALIZED")) \o
    <<W("("), c[5], W(")")>>
WithPieces(with) == If(with, Word("WITH") \o If(with[2], Word("RECURSIVE")) \o Listed(with[3]))
TopPieces(top) ==
    IF top = None \/ Kind(top) # "Top" THEN Clause(<<"TOP">>, top)
    ELSE <<W("TOP"), top[2]>> \o (CASE Kind(top[3]) = "PERCENT" -> Word("PERCENT") [] Kind(top[3]) = "TIES" -> Ws(<<"WITH", "TIES">>)
                                    [] OTHER -> Ws(<<"PERCENT", "WITH", "TIES">>))
FromPieces(from, d) ==
    IF from = None /\ d = "oracle" THEN Ws(<<"FROM", "DUAL">>) ELSE Clause(<<"FROM">>, from)
OptionPieces(options, d) ==   \* gen_query_options
    IF d \in TSql THEN If(options, Ws(<<"OPTION", "(">> \o Tail(options)) \o Word(")")) ELSE <<>>
SelectPieces(s, d) ==
    WithPieces(s[2]) \o Word("SELECT") \o If(s[3], Word("DISTINCT")) \o TopPieces(s[4]) \o Listed(s[5]) \o
    FromPieces(s[6], d) \o Items(s[7]) \o Filtered("WHERE", s[8]) \o
    IfAny(s[9], Ws(<<"GROUP", "BY">>) \o Listed(s[9])) \o Filtered("HAVING", s[10]) \o Filtered("QUALIFY", s[11]) \o
    IfAny(s[12], Word("WINDOW") \o Listed(s[12])) \o OrderedBy(s[13]) \o Clause(<<"LIMIT">>, s[14]) \o
    Clause(<<"OFFSET">>, s[15]) \o If(s[15], IF d \in TSql \cup {"oracle"} THEN Word("ROWS") ELSE <<>>) \o
    Clause(<<"FETCH", IF d \in TSql THEN "NEXT" ELSE "FIRST">>, s[16]) \o If(s[16], Ws(<<"ROWS", "ONLY">>)) \o
    OptionPieces(s[17], d)
ItemPieces(item) == <<item[2]>> \o Clause(<<"AS">>, item[3])
\* gen_set_operation: no parentheses, whatever the operands are.
SetOperationPieces(s, d) ==
    <<s[2], s[3]>> \o If(s[4], Word("ALL")) \o <<s[5]>> \o OrderedBy(s[6]) \o Clause(<<"LIMIT">>, s[7]) \o
    Clause(<<"OFFSET">>, s[8]) \o OptionPieces(s[9], d)

\* gen_table_source, gen_table_temporal_clause and gen_join.
PivotPieces(p) ==
    <<p[2], W(IF Kind(p) = "Pivot" THEN "PIVOT" ELSE "UNPIVOT"), W("("), p[3], W("FOR"), p[4], W("IN"), W("(")>> \o
    Listed(p[5]) \o Ws(<<")", ")">>)
JoinPieces(j) ==
    <<j[2], W("JOIN"), j[3]>> \o Filtered("ON", j[4]) \o IfAny(j[5], Word("USING") \o InParens(j[5]))
SystemTimeWords == <<"FOR", "SYSTEM_TIME">>
TemporalPieces(t) ==
    CASE Kind(t) = "TimeTravel" -> <<t[2], W("("), t[3], W("="), W(">"), t[4], W(")")>>
      [] Kind(t) = "AsOf" -> Clause(SystemTimeWords \o <<"AS", "OF">>, t[2])
      [] Kind(t) = "FromTo" -> Clause(SystemTimeWords \o <<"FROM">>, t[2]) \o <<W("TO"), t[3]>>
      [] Kind(t) = "BetweenAnd" -> Clause(SystemTimeWords \o <<"BETWEEN">>, t[2]) \o <<W("AND"), t[3]>>
      [] Kind(t) = "ContainedIn" -> Ws(SystemTimeWords \o <<"CONTAINED", "IN", "(">>) \o <<t[2], W(","), t[3], W(")")>>
      [] Kind(t) = "AllTimes" -> Ws(SystemTimeWords \o <<"ALL">>)
      [] Kind(t) = "Flashback" -> Ws(<<"AS", "OF">>) \o Tail(t)
      [] Kind(t) = "Versions" -> Ws(<<"VERSIONS", "BETWEEN">>) \o <<t[2], t[3], W("AND"), t[4]>>
      [] Kind(t) = "VersionOf" -> <<t[2], W("AS"), W("OF"), t[3]>>
      [] Kind(t) = "SystemVersion" -> Clause(<<"FOR", "SYSTEM_VERSION", "AS", "OF">>, t[2])
SourcePieces(s, d) ==
    CASE Kind(s) = "Table" -> <<s[2]>> \o If(s[3], TemporalPieces(s[3]))
      [] Kind(s) \in {"TableAs", "Aliased"} -> <<s[2]>> \o AsAlias(s[3], d)
      [] Kind(s) = "Derived" -> <<W("("), s[2], W(")")>>
      [] Kind(s) = "TableFunction" -> <<s[2]>> \o InParens(s[3])
      [] Kind(s) = "Lateral" -> <<W("LATERAL"), s[2]>>
      [] Kind(s) = "Unnest" ->
            Ws(<<"UNNEST", "(">>) \o <<s[2], W(")")>> \o If(s[3], AsAlias(s[3], d)) \o If(s[4], Ws(<<"WITH", "OFFSET">>))
      [] Kind(s) \in {"Pivot", "Unpivot"} -> PivotPieces(s)
      [] Kind(s) = "join" -> JoinPieces(s)

----------------------------------------------------------------------------
\* INSERT, UPDATE, DELETE and MERGE.  The T-SQL family has an OUTPUT clause for RETURNING.
SetPieces(set) == <<set[2], W("="), set[3]>>
Output(items, prefix) ==
    LET column(item) == CASE Kind(item) = "item" /\ Kind(item[2]) = "Column" -> item[2][3]
                          [] Kind(item) = "item" -> item[2] [] OTHER -> item
        piece(item) == <<W(prefix), W("."), column(item)>>
        commas == [i \in 1..Len(items) |-> (IF i = 1 THEN <<>> ELSE Word(",")) \o piece(items[i])]
    IN Word("OUTPUT") \o FlattenSeq(commas)
ReturningPieces(list) == IfAny(list, Word("RETURNING") \o Listed(list))
OutputPieces(list, prefix) == IfAny(list, Output(Items(list), prefix))
SourceOf(source) ==
    CASE Kind(source) = "Values" ->
            LET rows == Items(source[2])
                row(i) == (IF i = 1 THEN <<>> ELSE Word(",")) \o InParens(rows[i])
            IN Word("VALUES") \o FlattenSeq([i \in 1..Len(rows) |-> row(i)])
      [] Kind(source) = "DEFAULT VALUES" -> Ws(<<"DEFAULT", "VALUES">>)
      [] OTHER -> <<source>>
ConflictPieces(c) ==
    Ws(<<"ON", "CONFLICT">>) \o Columns(c[2]) \o Word("DO") \o
    (IF Kind(c[3]) = "NOTHING" THEN <<c[3]>> ELSE Ws(<<"UPDATE", "SET">>) \o Listed(c[3]))
InsertPieces(s, d) ==
    Ws(<<"INSERT", "INTO">>) \o <<s[2]>> \o Columns(s[3]) \o (IF d \in TSql THEN OutputPieces(s[6], "INSERTED") ELSE <<>>) \o
    SourceOf(s[4]) \o Opt(s[5]) \o (IF d \in TSql THEN <<>> ELSE ReturningPieces(s[6]))
UpdatePieces(s, d) ==
    <<W("UPDATE"), s[2], W("SET")>> \o Listed(s[3]) \o Clause(<<"FROM">>, s[4]) \o Filtered("WHERE", s[5]) \o
    (IF d \in TSql THEN OutputPieces(s[6], "INSERTED") ELSE ReturningPieces(s[6]))
DeletePieces(s, d) ==
    Ws(<<"DELETE", "FROM">>) \o <<s[2]>> \o Clause(<<"USING">>, s[3]) \o
    (IF d \in TSql THEN OutputPieces(s[5], "DELETED") ELSE <<>>) \o Filtered("WHERE", s[4]) \o
    (IF d \in TSql THEN <<>> ELSE ReturningPieces(s[5]))
ActionPieces(a) ==
    CASE Kind(a) = "update" -> Ws(<<"UPDATE", "SET">>) \o Listed(a[2])
      [] Kind(a) = "insert" -> Word("INSERT") \o Columns(a[2]) \o Word("VALUES") \o InParens(a[3])
      [] Kind(a) = "INSERT ROW" -> Ws(<<"INSERT", "ROW">>)
      [] OTHER -> <<a>>
KindWords == ("MATCHED" :> <<"MATCHED">>) @@ ("NOT MATCHED" :> <<"NOT", "MATCHED">>) @@
             ("NOT MATCHED BY SOURCE" :> <<"NOT", "MATCHED", "BY", "SOURCE">>)
WhenClause(w) ==
    Word("WHEN") \o Ws(KindWords[Kind(w[2])]) \o Filtered("AND", w[3]) \o Word("THEN") \o ActionPieces(w[4])
MergePieces(s) ==
    Ws(<<"MERGE", "INTO">>) \o <<s[2], W("USING"), s[3], W("ON"), s[4]>> \o FlattenSeq([i \in 1..Len(s[5]) - 1 |-> WhenClause(s[5][i + 1])]) \o
    IfAny(s[6], Word("OUTPUT") \o Listed(s[6]))

----------------------------------------------------------------------------
\* CREATE, DROP, ALTER and the small statements.
Flagged(flag, words) == If(flag, Ws(words))
NamedConstraint(c) == If(c[2], <<W("CONSTRAINT"), c[2]>>)
ActionWords == ("SET NULL" :> <<"SET", "NULL">>) @@ ("SET DEFAULT" :> <<"SET", "DEFAULT">>) @@ ("NO ACTION" :> <<"NO", "ACTION">>) @@
               [CASCADE |-> <<"CASCADE">>, RESTRICT |-> <<"RESTRICT">>]
OnPieces(word, action) == If(action, Ws(<<"ON", word>> \o ActionWords[Kind(action)]))
ConstraintPieces(c) ==
    NamedConstraint(c) \o
    CASE Kind(c) = "PRIMARY KEY" -> Ws(<<"PRIMARY", "KEY">>) \o InParens(c[3])
      [] Kind(c) = "UNIQUE" -> Word("UNIQUE") \o InParens(c[3])
      [] Kind(c) = "CHECK" -> Ws(<<"CHECK", "(">>) \o <<c[3], W(")")>>
      [] Kind(c) = "FOREIGN KEY" ->
            Ws(<<"FOREIGN", "KEY">>) \o InParens(c[3]) \o <<W("REFERENCES"), c[4]>> \o InParens(c[5]) \o
            OnPieces("DELETE", c[6]) \o OnPieces("UPDATE", c[7])
ColumnPieces(c) ==
    <<c[2], <<"type", c[3]>>>> \o Flagged(c[6], <<"PRIMARY", "KEY">>) \o Flagged(c[7], <<"UNIQUE">>) \o
    Flagged(c[8], <<"AUTOINCREMENT">>) \o If(c[4], (IF Kind(c[4]) = "NOT" THEN Word("NOT") ELSE <<>>) \o Word("NULL")) \o
    Clause(<<"DEFAULT">>, c[5]) \o Clause(<<"COLLATE">>, c[9])
QueryPieces(s, d) ==   \* the query of a CREATE TABLE AS and its data clause
    LET parens == s[9] # None /\ d \in {"generic", "ansi", "teradata"}
    IN IfAny(s[7], Word("WITH") \o InParens(s[7])) \o Word("AS") \o
       (IF parens THEN <<W("("), s[8], W(")")>> ELSE <<s[8]>>) \o
       If(s[9], Word("WITH") \o (IF Kind(s[9]) = "NO" THEN Word("NO") ELSE <<>>) \o Word("DATA"))
CreatePieces(s, d) ==
    Word("CREATE") \o Flagged(s[2], <<"TEMPORARY">>) \o Word("TABLE") \o Flagged(s[3], <<"IF", "NOT", "EXISTS">>) \o <<s[4]>> \o
    (IF s[8] # None THEN QueryPieces(s, d) ELSE Word("(") \o Commas(Items(s[5]) \o Items(s[6])) \o Word(")"))
ViewPieces(s) ==
    Word("CREATE") \o Flagged(s[2], <<"OR", "REPLACE">>) \o Flagged(s[3], <<"MATERIALIZED">>) \o Word("VIEW") \o
    Flagged(s[4], <<"IF", "NOT", "EXISTS">>) \o <<s[5]>> \o Columns(s[6]) \o <<W("AS"), s[7]>>
AlterPieces(a) ==
    CASE Kind(a) = "add column" -> <<W("ADD"), W("COLUMN"), a[2]>>
      [] Kind(a) = "add constraint" -> <<W("ADD"), a[2]>>
      [] Kind(a) = "drop column" ->
            Ws(<<"DROP", "COLUMN">>) \o Flagged(a[2], <<"IF", "EXISTS">>) \o (IF Kind(a[3]) = "" THEN <<>> ELSE <<a[3]>>)
      [] Kind(a) = "rename column" -> <<W("RENAME"), W("COLUMN"), a[2], W("TO"), a[3]>>
      [] Kind(a) = "rename table" -> <<W("RENAME"), W("TO"), a[2]>>
TransactionWords == [BEGIN |-> <<"BEGIN">>, COMMIT |-> <<"COMMIT">>, ROLLBACK |-> <<"ROLLBACK">>, SAVEPOINT |-> <<"SAVEPOINT">>] @@
                    ("ROLLBACK TO SAVEPOINT" :> <<"ROLLBACK", "TO", "SAVEPOINT">>)
SmallPieces(s) ==
    CASE Kind(s) = "DropTable" ->
            Ws(<<"DROP", "TABLE">>) \o Flagged(s[2], <<"IF", "EXISTS">>) \o <<s[3]>> \o Flagged(s[4], <<"CASCADE">>)
      [] Kind(s) = "DropView" ->
            Word("DROP") \o Flagged(s[2], <<"MATERIALIZED">>) \o Word("VIEW") \o Flagged(s[3], <<"IF", "EXISTS">>) \o <<s[4]>>
      [] Kind(s) = "AlterTable" -> <<W("ALTER"), W("TABLE"), s[2]>> \o Listed(s[3])
      [] Kind(s) = "Truncate" -> <<W("TRUNCATE"), W("TABLE"), s[2]>>
      [] Kind(s) = "Transaction" -> Ws(TransactionWords[Kind(s[2])]) \o Opt(s[3])
      [] Kind(s) = "Explain" -> Word("EXPLAIN") \o Flagged(s[2], <<"ANALYZE">>) \o <<s[3]>>
      [] Kind(s) = "Use" -> <<W("USE"), s[2]>>
      [] Kind(s) = "Command" -> <<s[2], s[3]>>   \* gen_command

----------------------------------------------------------------------------
\* gen_statement and gen_expr.
Temporals == {"TimeTravel", "AsOf", "FromTo", "BetweenAnd", "ContainedIn", "AllTimes", "Flashback", "Versions",
              "VersionOf", "SystemVersion"}
Sources == {"Table", "TableAs", "Aliased", "Derived", "TableFunction", "Lateral", "Unnest", "Pivot", "Unpivot", "join"}
Small == {"DropTable", "DropView", "AlterTable", "Truncate", "Transaction", "Explain", "Use", "Command"}
Alterations == {"add column", "add constraint", "drop column", "rename column", "rename table"}
Constraints == {"PRIMARY KEY", "UNIQUE", "CHECK", "FOREIGN KEY"}
Groupings == [Cube |-> "CUBE", Rollup |-> "ROLLUP"]
Pieces(t, d) ==
    CASE Kind(t) = "raw" -> Ws(Tail(t))
      [] Len(t) = 1 -> ExprPieces(t, d)
      [] Kind(t) = "Select" -> SelectPieces(t, d)
      [] Kind(t) = "cte" -> CtePieces(t)
      [] Kind(t) = "item" -> ItemPieces(t)
      [] Kind(t) = "window" -> <<t[2], W("AS"), W("(")>> \o WindowPieces(t[3]) \o Word(")")
      [] Kind(t) = "SetOperation" -> SetOperationPieces(t, d)
      [] Kind(t) \in Sources -> SourcePieces(t, d)
      [] Kind(t) = "set" -> SetPieces(t)
      [] Kind(t) = "conflict" -> ConflictPieces(t)
      [] Kind(t) = "Insert" -> InsertPieces(t, d)
      [] Kind(t) = "Update" -> UpdatePieces(t, d)
      [] Kind(t) = "Delete" -> DeletePieces(t, d)
      [] Kind(t) = "Merge" -> MergePieces(t)
      [] Kind(t) = "CreateTable" -> CreatePieces(t, d)
      [] Kind(t) = "CreateView" -> ViewPieces(t)
      [] Kind(t) = "column" -> ColumnPieces(t)
      [] Kind(t) \in Constraints -> ConstraintPieces(t)
      [] Kind(t) \in Alterations -> AlterPieces(t)
      [] Kind(t) \in Small -> SmallPieces(t)
      [] Kind(t) \in DOMAIN Groupings -> Ws(<<Groupings[Kind(t)]>>) \o InParens(t[2])
      [] Kind(t) = "GroupingSets" -> Ws(<<"GROUPING", "SETS">>) \o InParens(t[2])
      [] OTHER -> ExprPieces(t, d)
=============================================================================
