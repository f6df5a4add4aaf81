---------------------------- MODULE SourceGrammar ----------------------------
(***************************************************************************)
(* The sources of FROM in src/parser/sql_parser.rs: tables with their      *)
(* temporal clauses, derived tables, table functions, PIVOT and the joins. *)
(* A source with an alias is <<"Aliased", source, alias>>, a table with    *)
(* one is <<"TableAs", table, alias>>.                                     *)
(***************************************************************************)
EXTENDS QueryGrammar

\* TABLESAMPLE, SAMPLE, PARTITION (..) and the hints of indexes are dropped.
Sample ==
    Option("TABLESAMPLE",
        Lost & Advance & Cases(<<When(Identified(1, Always), Advance)>>, Nothing) & MayBeParens &
        Option("REPEATABLE", Advance & MayBeParens) &
        Cases(<<When(After({"Table"}, Always), Aliased("TableAs", FALSE))>>, Nothing))
LateSample ==
    Option("SAMPLE",
        Lost & Advance & Cases(<<When(Within(Numbers), Advance & Option("/", Advance & MayBeAny(Numbers)))>>, Nothing) &
        Option("OFFSET", Advance & MayBeAny(Numbers)))
TableSourceRule == Call("BaseSource") & MayBe("*") & Sample & Call("Pivot") & LateSample

ValuesFunction == Push(<<"VALUES">>) & Empty & Make("TableFunction", 2) & Aliased("Aliased", TRUE)
BareValues == Lost & Advance & MayBeParens & Loop(<<When(Ahead(<<{","}, {"("}>>), Advances(2) & Parens)>>) & ValuesFunction
\* <<"Unnest", expr, alias, with_offset>>: an alias of the offset is the source's where it
\* has none, and dropped otherwise.
WithOffset ==
    Cases(<<When(Ahead(<<{"WITH"}, {"OFFSET", "ORDINALITY"}>>),
                 Advances(2) & Cases(<<When(NoAlias, Pop & Call("Alias")), When(Named(1, Always), Advance)>>, Nothing) &
                 Push(Yes))>>, Push(None))
UnnestSource ==
    Advance & Tok("(") & Call("Expr") & Loop(<<When(At(","), Advance & Call("Expr") & Pop)>>) & Tok(")") &
    Call("Alias") & WithOffset & Swap & Cases(<<When(NoAlias, Nothing)>>, NameList) & Swap & Make("Unnest", 3)

\* ( .. ): a query, rows, or a join of which the first table is kept.
Queries == {"SELECT", "WITH", "EXPLAIN", "FROM", "DESCRIBE", "SHOW", "TABLE"}
DerivedQuery == Call("Query") & Call("SetOperation")
JoinedAlias ==
    Call("Alias") &
    Cases(<<When(NoAlias, Pop)>>,
          Swap & Cases(<<When(After({"Table"}, Always), Swap & Make("TableAs", 2)),
                         When(After({"TableAs"}, Always), Swap & Attach([TableAs |-> 3]))>>, Swap & Pop))
JoinedTables ==
    Lost & Advance & Call("TableSource") & Lax(Call("Joins")) &
    Loop(<<When(At(","), Advance & Call("TableSource") & Pop & Lax(Call("Joins")))>>) & Tok(")") & JoinedAlias
ParenSource ==
    Cases(<<When(Ahead(<<{}, Queries>>),
                 Advance & DerivedQuery & Tok(")") & Make("Derived", 1) & Aliased("Aliased", TRUE)),
            When(Ahead(<<{}, {"VALUES"}>>), Lost & Advance & Parens & ValuesFunction),
            When(Ahead(<<{}, {"("}>>),
                 Rescue(Advance & DerivedQuery & Cases(<<When(At(")"), Advance)>>, Miss) & Make("Derived", 1),
                        JoinedTables) &
                 Cases(<<When(After({"Derived"}, Always), Aliased("Aliased", TRUE))>>, Nothing))>>, JoinedTables)

----------------------------------------------------------------------------
\* A table, or a function where a parenthesis follows the name.
TableName ==
    Cases(<<When(Ahead(<<{"@"}, {"@"}>>), Advances(2) & Shift & Make("@@", 1)),
            When(Identified(2, At("@")), Advance & Shift & Make("@", 1))>>,
          Name & Loop(<<When(At("."), Advance & Name & Make("Dotted", 2))>>))
Partition == Cases(<<When(Ahead(<<{"PARTITION"}, {"("}>>), Advances(2) & Parens)>>, Nothing)
OpaqueTables == {"GRAPH_TABLE", "XMLTABLE", "JSON_TABLE", "OPENJSON", "OPENROWSET", "OPENXML"}
FunctionSource ==
    Cases(<<When(After(OpaqueTables, Always), Advance & Parens & Empty)>>,
          Advance & Cases(<<When(At("ON"), Swallow({")"}, {"("}, {")"}) & Empty), When(At(")"), Empty)>>,
                          LooseList(Call("Expr"))) & Tok(")")) &
    Make("TableFunction", 2) & Aliased("Aliased", TRUE)
IndexHints ==
    Loop(<<When(Ahead(<<{"USE", "IGNORE", "FORCE"}, {"INDEX", "KEY"}>>),
                Advances(2) &
                Option("FOR", Advance & Cases(<<When(Within({"JOIN", "ORDER", "GROUP"}), Advance & MayBe("BY"))>>, Nothing)) &
                MayBeParens)>>)
\* A temporal clause after the alias is an error.
TableOrFunction ==
    TableName & Cases(<<When(Ahead(<<{"PARTITION"}, {"("}>>), Advances(2) & Swallow({")"}, {}, {}) & MayBe(")"))>>, Nothing) &
    Cases(<<When(At("("), FunctionSource)>>,
          Call("Temporal") & Make("Table", 2) & Aliased("TableAs", FALSE) &
          Cases(<<When(After({"TableAs"}, Always),
                       Call("Temporal") & Cases(<<When(NoAlias, Pop)>>, Fail) & NameList)>>, Nothing) &
          IndexHints & Option("FINAL", Lost & Advance) & Partition)
BaseSourceRule ==
    Cases(<<When(At("LATERAL"), Advance & Call("TableSource") & Make("Lateral", 1)), When(At("VALUES"), BareValues),
            When(At("UNNEST"), UnnestSource), When(At("("), ParenSource)>>, TableOrFunction)

\* parse_table_temporal_clause: a clause or None.
Point == Call("Addition")
Selectors == {"OFFSET", "TIMESTAMP", "STATEMENT", "STREAM"}
KindOfTime == Cases(<<When(Within({"SCN", "TIMESTAMP"}), Shift)>>, Fail)
SystemTime ==
    Cases(<<When(At("AS"), Advance & Tok("OF") & Point & Make("AsOf", 1)),
            When(At("FROM"), Advance & Point & Tok("TO") & Point & Make("FromTo", 2)),
            When(At("BETWEEN"), Advance & Point & Tok("AND") & Point & Make("BetweenAnd", 2)),
            When(At("CONTAINED"), Advance & Tok("IN") & Tok("(") & Call("Expr") & Tok(",") & Call("Expr") &
                                  Tok(")") & Make("ContainedIn", 2)),
            When(At("ALL"), Shift & Make("AllTimes", 1))>>, Fail)
TemporalRule ==
    Cases(<<When(Ahead(<<{"AT", "BEFORE"}, {"("}>>),
                 Shift & Advance & Cases(<<When(Within(Selectors), Shift)>>, Fail) & Tok("=") & Tok(">") &
                 Call("Expr") & Tok(")") & Make("TimeTravel", 3)),
            When(Ahead(<<{"FOR"}, {"SYSTEM_TIME"}>>), Advances(2) & SystemTime),
            When(Ahead(<<{"FOR"}, {"SYSTEM_VERSION"}>>),
                 Advances(2) & Tok("AS") & Tok("OF") & Point & Make("SystemVersion", 1)),
            When(Ahead(<<{"AS"}, {"OF"}, {"SCN", "TIMESTAMP"}>>), Advances(2) & Shift & Point & Make("Flashback", 2)),
            When(Ahead(<<{"VERSIONS"}, {"BETWEEN"}>>),
                 Advances(2) & KindOfTime & Point & Tok("AND") & Point & Make("Versions", 3)),
            When(Ahead(<<{"VERSION", "TIMESTAMP"}, {"AS"}, {"OF"}>>),
                 Shift & Advances(2) & Point & Make("VersionOf", 2))>>, Push(None))

----------------------------------------------------------------------------
\* PIVOT (aggregate FOR column IN (values)) and UNPIVOT; of several aggregates and
\* columns the first is kept.
DroppedName == Cases(<<When(Ahead(<<{"AS"}, Strings \cup Numbers>>), Advances(2)),
                       When(Identified(2, At("AS")), Advances(2))>>, Nothing)
PivotColumn == Cases(<<When(At("("), Advance & Name & Loop(<<When(At(","), Advance & Name & Pop)>>) & Tok(")"))>>, Name)
PivotValue ==
    Call("Expr") & Cases(<<When(Ahead(<<{"AS"}, DOMAIN Unquoted>>), Advance & Leaf(Unquoted)),
                           When(Ahead(<<{"AS"}, Numbers>>), Advance & Shift)>>, MayBe("AS") & Call("Alias")) &
    Make("item", 2)
PivotValues == Tok("IN") & Tok("(") & ListOf(PivotValue) & Tok(")") & Tok(")")
PivotRule ==
    Cases(<<When(At("PIVOT"),
                 Advance & Tok("(") & Call("Expr") & DroppedName &
                 Loop(<<When(At(","), Advance & Call("Expr") & Pop & DroppedName)>>) & Tok("FOR") & PivotColumn &
                 PivotValues & Make("Pivot", 4) & Aliased("Aliased", FALSE)),
            When(At("UNPIVOT"),
                 Advance & Cases(<<When(Ahead(<<{"INCLUDE", "EXCLUDE"}, {"NULLS"}>>), Advances(2))>>, Nothing) &
                 Tok("(") & PivotColumn & Tok("FOR") & Name & PivotValues & Make("Unpivot", 4) &
                 Aliased("Aliased", FALSE))>>, Nothing)

\* parse_joins: <<"join", type, source, on, using>>.
Joined(type, source) == Push(<<type>>) & source & Push(None) & Empty & Make("join", 4)
ViewFunction ==
    Name & Cases(<<When(At("("), Advance & Cases(<<When(At(")"), Empty)>>, ListOf(Call("Expr"))) & Tok(")"))>>, Empty) &
    Make("TableFunction", 2) & Aliased("Aliased", FALSE) & MayBe("AS") &
    Cases(<<When(Named(1, Always), Advance & Loop(<<When(Named(2, At(",")), Advances(2)), When(At(","), Advance & Miss)>>))>>,
          Nothing)
ArraySource ==
    Joined("CROSS", Cases(<<When(At("["), Call("Primary") & Call("Alias") & Push(None) & Make("Unnest", 3))>>,
                          Call("TableSource")))
Sides == {"INNER", "LEFT", "RIGHT", "FULL", "CROSS"}
\* The strictness of a join is dropped: SEMI and ANTI joins are read as plain ones.
Strictness ==
    LET words == {"SEMI", "ANTI", "ASOF"}
    IN Try(MayBe("GLOBAL") &
           Cases(<<When(Within({"ALL", "ANY"}), Advance),
                   When(Within(words \cup {"PASTE"}), Advance & MayBeAny(words))>>, Nothing) &
           Cases(<<When(Within(Sides \cup {"JOIN"}), Nothing)>>, Miss), Nothing)
Side(type, words) == When(At(type), Advance & words & Tok("JOIN") & Push(<<type>>))
Strict == MayBe("OUTER") & MayBeAny({"SEMI", "ANTI"}) & MayBeAny({"ANY", "ALL"}) & MayBe("OUTER")
NaturalSide(type) == When(At(type), Advance & MayBe("OUTER") & Tok("JOIN") & Push(<<type>>))
JoinType ==
    Cases(<<When(At(","), Advance & Push(<<"CROSS">>)),
            When(At("NATURAL"), Lost & Advance & Cases(<<NaturalSide("LEFT"), NaturalSide("RIGHT"), NaturalSide("FULL")>>,
                                                MayBe("INNER") & Tok("JOIN") & Push(<<"INNER">>))),
            When(At("STRAIGHT_JOIN"), Lost & Advance & Push(<<"INNER">>)), When(At("JOIN"), Advance & Push(<<"INNER">>)), Side("INNER", Nothing),
            Side("LEFT", Strict), Side("RIGHT", Strict), Side("FULL", MayBe("OUTER")),
            When(Ahead(<<{"CROSS"}, {"APPLY"}>>), Advances(2) & Push(<<"CROSS">>)), Side("CROSS", Nothing),
            When(Ahead(<<{"OUTER"}, {"APPLY"}>>), Advances(2) & Push(<<"LEFT">>)), When(At("OUTER"), Advance & Miss)>>, Miss)
JoinCondition ==
    Cases(<<When(At("ON"), Advance & Call("Expr") & Empty),
            When(Ahead(<<{"USING"}, {"("}>>), Push(None) & Advances(2) & ListOf(Name) & Tok(")")),
            When(At("USING"), Push(None) & Advance & Mark & Name &
                              Loop(<<When(Named(2, At(",")), Advance & Name), When(At(","), Advance & Miss)>>) & Collect)>>,
          Push(None) & Empty)
JoinsRule ==
    Mark &
    Loop(<<When(Ahead(<<{"LATERAL"}, {"VIEW"}>>), Advances(2) & MayBe("OUTER") & Joined("CROSS", ViewFunction)),
           When(Ahead(<<{"ARRAY"}, {"JOIN"}>>), Advances(2) & ArraySource & More(ArraySource)),
           When(Ahead(<<{"LEFT"}, {"ARRAY"}, {"JOIN"}>>), Advances(3) & ArraySource & More(ArraySource)),
           When(Always, Strictness & JoinType & Call("TableSource") & JoinCondition & Make("join", 4))>>) & Collect
=============================================================================
