--------------------------- MODULE StatementGrammar ---------------------------
(***************************************************************************)
(* The statements of src/parser/sql_parser.rs: the dispatch on their first *)
(* token, the commands that are kept as text, and the stream of statements *)
(* between semicolons.                                                     *)
(***************************************************************************)
EXTENDS DdlGrammar

\* match_command_keyword: a sample of the words that start a command.
CommandWords ==
    {"GO", "DECLARE", "LOAD", "REM", "RESET", "PRAGMA", "VACUUM", "CALL", "LOCK", "UNLOCK", "COPY", "COMMENT", "DESCRIBE",
     "PREPARE", "EXECUTE", "RENAME", "RAISE", "FOR", "WHILE", "LOOP", "RETURN", "REPEAT", "EXIT", "CONTINUE", "PRINT", "EXEC",
     "OPEN", "CLOSE", "START", "SIGNAL", "DBCC", "SUMMARIZE"}
Verbs ==
    {"SET", "SHOW", "DESC", "ANALYZE", "CHECK", "GRANT", "REVOKE", "IF", "ELSE", "END", "CASE", "WHEN", "THEN", "DO", "TABLE",
     "VALUES", "PIVOT", "UNPIVOT", "FETCH"} \cup CommandWords
\* parse_command_kind: the first token is dropped and a word put in its place.
CommandOf(kind) == Advance & Push(<<kind>>) & RawTail & Make("Command", 2)
DeclaredTypes ==
    Types \cup {"NUMBER", "VARCHAR2", "NVARCHAR2", "PLS_INTEGER", "BINARY_INTEGER", "CLOB", "LONG", "RAW", "RECORD", "%"}
AfterType == {":", ";", Eof, "%", "(", "NOT", "DEFAULT", "CONSTANT"} \ Reserved

\* <<"Transaction", what, name>>; CHAIN is dropped.
Chain == Option("AND", Advance & MayBe("NOT") & MayBe("NO") & MayBe("CHAIN"))
Work == Advance & MayBe("TRANSACTION") & MayBe("WORK")
TransactionRule ==
    Cases(<<When(At("BEGIN"), Work & Push(<<"BEGIN">>) & Push(None)),
            When(At("COMMIT"), Work & Chain & Push(<<"COMMIT">>) & Push(None)),
            When(At("ROLLBACK"),
                 Work & Cases(<<When(At("TO"), Advance & MayBe("SAVEPOINT") & Push(<<"ROLLBACK TO SAVEPOINT">>) & Name)>>,
                              Chain & Push(<<"ROLLBACK">>) & Push(None)))>>,
          Tok("SAVEPOINT") & Push(<<"SAVEPOINT">>) & Name) & Make("Transaction", 2)
Blocks == {"IF", "CASE", "SELECT", "INSERT", "UPDATE", "DELETE"}

\* <<"Explain", analyze, statement>>: the options are dropped.
Explained == {"SELECT", "WITH", "INSERT", "UPDATE", "DELETE", "MERGE", "CREATE", "DROP", "ALTER", "TRUNCATE", "(", ";", Eof}
ExplainOptions ==
    LET value == Cases(<<When(Within(Numbers \cup Strings), Advance)>>, MayBeName)
    IN Loop(<<When(At("VERBOSE"), Advance), When(At("FORMAT"), Advance & MayBe("=") & value)>>) &
       Loop(<<When(Within(Explained), Miss), When(Identified(1, Always), Advance & Option("=", Advance & value) & MayBe(",")),
              When(Named(1, Always), Advance)>>)
ExplainRule ==
    Advance & Flag("ANALYZE") & Cases(<<When(At("("), Advance & Parens)>>, ExplainOptions) & Call("Query") & Make("Explain", 2)
\* <<"Use", name>>
UseName == Cases(<<When(At("DEFAULT"), Shift)>>, Name)
UseRule ==
    Advance & MayBeAny({"DATABASE", "SCHEMA", "CATALOG", "WAREHOUSE", "ROLE"}) &
    Cases(<<When(Ahead(<<{"IDENTIFIER"}, {"("}>>), Shift & Advance & Parens)>>, UseName) &
    Loop(<<When(At("."), Advance & UseName & Make("Dotted", 2))>>) & Make("Use", 1)

\* A statement from FROM on: Hive's FROM t INSERT .. and FROM t SELECT .. are commands.
FromRule ==
    Probe(Advance & Swallow({";", ")", "INSERT", "SELECT"}, {"("}, {")"}) &
          Cases(<<When(Within({"INSERT", "SELECT"}), Nothing)>>, Fail), Verb,
          Rescue(Push(None) & Call("Select"), Verb) & Cases(<<When(After({"Select"}, Always), Call("SetOperation"))>>, Nothing))

\* parse_statement_inner
Labels == {"BEGIN", "IF", "CASE", "WHILE", "LOOP", "FOR", "REPEAT"}
QueryRule ==
    Cases(<<When(Named(1, Ahead(<<{}, {":"}, Labels>>)), Advances(2))>>, Nothing) &
    Cases(<<When(At("WITH"), WithRule), When(At("SELECT"), Push(None) & Call("Select") & Call("SetOperation")),
            When(Ahead(<<{"("}, {"SELECT", "WITH", "FROM", "VALUES", "TABLE", "("}>>),
                 Advance & Call("Query") & Tok(")") & Call("SetOperation")),
            When(Within({"INSERT", "REPLACE"}), Call("Insert")), When(At("UPDATE"), Call("Update")),
            When(At("DELETE"), Call("Delete")), When(At("MERGE"), Call("Merge")), When(At("CREATE"), CreateRule),
            When(At("DROP"), DropRule), When(At("ALTER"), AlterRule), When(At("TRUNCATE"), TruncateRule),
            When(Ahead(<<{"BEGIN"}, Blocks>>), Verb), When(Identified(2, At("BEGIN")), Verb),
            When(Within({"BEGIN", "COMMIT", "ROLLBACK", "SAVEPOINT"}), TransactionRule), When(At("EXPLAIN"), ExplainRule),
            When(At("USE"), UseRule), When(At("FROM"), FromRule), When(Within(Verbs), Verb),
            When(Identified(1, Ahead(<<{}, {":"}, {"="}>>)), CommandOf("ASSIGN")),
            When(Identified(1, Ahead(<<{}, DeclaredTypes, AfterType>>)), CommandOf("PLSQL_DECL"))>>, Fail)

\* parse_statement_in_stream: what follows a statement.
QueryOptions ==
    LET option == Ahead(<<{"OPTION"}, {"("}>>)
        slots == [Select |-> 17, SetOperation |-> 9]
    IN Cases(<<When(After(DOMAIN slots, Ahead(<<{"OPTION"}, {"("}, {")"}>>)), Advances(3)),
               When(After(DOMAIN slots, option),
                    Advances(2) & Capture({")"}, {"("}, {")"}) &
                    Cases(<<When(At(")"), Advance & Attach(slots))>>, Pop))>>, Nothing)
StreamRule ==
    Call("Query") & QueryOptions &
    Cases(<<When(Ahead(<<{"WITH"}, {"TOTALS", "TIES", "FILL", "ROLLUP", "CUBE"}>>),
                 Advances(2) & Swallow({";", "SETTINGS", "FORMAT"}, {}, {}))>>, Nothing) &
    Cases(<<When(Within({"SETTINGS", "FORMAT"}), Swallow({";"}, {}, {}))>>, Nothing) &
    Cases(<<When(Ahead(<<{"|"}, {">"}>>), Swallow({";"}, {}, {}))>>, Nothing) & Loop(<<When(At(";"), Advance)>>)
\* parse_statements: nothing asks for a semicolon between two statements.
StatementsRule ==
    Mark & Loop(<<When(At(";"), Advance), When(At(Eof), Miss), When(Always, Call("Stream"))>>) & Collect

\* The rules by the names they are called by.
Grammar ==
    [Expr |-> ExprRule, Or |-> OrRule, And |-> AndRule, Not |-> NotRule,
     Comparison |-> ComparisonRule, Addition |-> AdditionRule, Arithmetic |-> ArithmeticRule(0),
     Above1 |-> ArithmeticRule(1), Above2 |-> ArithmeticRule(2), Above3 |-> ArithmeticRule(3),
     Above4 |-> ArithmeticRule(4), Above5 |-> ArithmeticRule(5), Above6 |-> ArithmeticRule(6),
     Multiplication |-> MultiplicationRule, Unary |-> UnaryRule, Primary |-> PrimaryRule,
     WindowSpec |-> WindowSpecRule, FrameBound |-> FrameBoundRule, BracketItems |-> ArrayItems("]"),
     Named |-> NamedRule, NamePart |-> NamePartRule, Qualified |-> QualifiedRule, TryCast |-> TryCastRule,
     Call |-> CallRule, Argument |-> ArgumentRule, OrderItem |-> OrderItemRule, OrderItems |-> OrderItemsRule,
     DataType |-> DataTypeRule, Cte |-> CteRule, Bindings |-> BindingsRule, Select |-> SelectRule,
     SetOperation |-> SetOperationRule, SelectItem |-> SelectItemRule, GroupElement |-> GroupElementRule,
     Alias |-> AliasRule, TableSource |-> TableSourceRule, BaseSource |-> BaseSourceRule, Pivot |-> PivotRule,
     Temporal |-> TemporalRule, Joins |-> JoinsRule, Insert |-> InsertRule, Update |-> UpdateRule, Delete |-> DeleteRule,
     Merge |-> MergeRule, Query |-> QueryRule, Stream |-> StreamRule, Statements |-> StatementsRule]
=============================================================================
