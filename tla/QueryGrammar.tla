---------------------------- MODULE QueryGrammar ----------------------------
(***************************************************************************)
(* The queries of src/parser/sql_parser.rs: WITH, SELECT and its clauses,  *)
(* the sources of FROM and the set operations.  Syntax that the tree has   *)
(* no place for is read and dropped, as in the code.                       *)
(***************************************************************************)
EXTENDS PrimaryGrammar

Parens == Swallow({")"}, {"("}, {")"}) & MayBe(")")
MayBeParens == Option("(", Advance & Parens)
ByWords == {"ROLLUP", "CUBE"}
SetOperators == {"UNION", "INTERSECT", "EXCEPT"}

\* parse_optional_alias: an alias or None.
AsWords == {"TRUE", "FALSE", "NULL", "MATCHED", "OR", "AND", "USING", "WHEN", "WHERE", "ASC", "DESC",
            "LIMIT", "GROUP", "HAVING", "ON", "INTO", "FROM", "ORDER", "LIKE"}
NeverAliases ==
    {"GROUP", "ORDER", "LEFT", "RIGHT", "PIVOT", "UNPIVOT", "PREWHERE", "SETTINGS", "FORMAT", "SAMPLE",
     "OFFSET", "FOR", "OPTION", "MATCH_RECOGNIZE", "SORT", "DISTRIBUTE", "CLUSTER", "GLOBAL",
     "PREFERRING", "FORCE", "STRAIGHT_JOIN", "DISTRIBUTED", "VALUE", "PARTITION"}
AliasRule ==
    Cases(<<When(Identified(3, Ahead(<<{"AS"}, {"@", ":"}>>)),
                 Advances(2) & Shift & Make("@", 1)),
            When(Ahead(<<{"AS"}, AsWords>>), Advance & Shift),
            When(Ahead(<<{"AS"}, DOMAIN Unquoted>>), Advance & Leaf(Unquoted)),
            When(At("AS"), Advance & Name), When(Within(NeverAliases), Push(None)),
            When(Named(1, Always), Shift)>>, Push(None))
NoAlias == After({Kind(None)}, Always)
\* The positional names after an alias, `t(a, b)`, are dropped.
NameList == Option("(", Try(Advance & Cases(<<When(Named(1, Always), Advance)>>, Miss) &
                            Loop(<<When(Named(2, At(",")), Advances(2))>>) &
                            Cases(<<When(At(")"), Advance)>>, Miss), Nothing))
Aliased(kind, names) ==
    Call("Alias") & Cases(<<When(NoAlias, Pop)>>, Make(kind, 2) & (IF names THEN NameList ELSE Nothing))

----------------------------------------------------------------------------
\* WITH: <<"With", recursive, ctes>>; scalar bindings and other forms leave None.
IsBinding(yes, no) ==
    LET body == Tok("(") & Cases(<<When(Named(1, Always), Advance)>>, Fail) &
                Loop(<<When(Named(2, At(",")), Advances(2))>>) & Tok(")") &
                Cases(<<When(At("USING"), Nothing),
                        When(Ahead(<<{"AS"}, {"(", "MATERIALIZED", "NOT"}>>), Nothing)>>, Fail)
    IN Cases(<<When(Within({"(", "[", "-", "+"} \cup Numbers \cup Strings), yes),
               When(Named(1, Ahead(<<{}, {"("}>>)), Probe(Advance & body, no, yes)),
               When(Named(1, Ahead(<<{}, {"AS"}>>)), no), When(Named(1, Always), yes)>>, no)
Bodies == {"SELECT", "INSERT", "UPDATE", "DELETE", "MERGE"}
CteList == ListOf(Call("Cte"))
BindingsRule ==
    Call("Expr") & Pop & Tok("AS") &
    Cases(<<When(Within({",", ";", Eof} \cup Bodies), Nothing)>>, Advance) &
    Cases(<<When(At(","), Advance & IsBinding(Call("Bindings"), CteList & Make("With", 2)))>>,
          Pop & Push(None))
CteRule ==
    Name & Cases(<<When(At("("), Advance & ListOf(Name) & Tok(")"))>>, Empty) &
    Cases(<<When(Ahead(<<{"USING"}, {"KEY"}>>), Advances(2) & MayBeParens)>>, Nothing) & Tok("AS") &
    Cases(<<When(At("MATERIALIZED"), Shift),
            When(Ahead(<<{"NOT"}, {"MATERIALIZED"}>>), Advances(2) & Push(<<"NOT">>))>>, Push(None)) &
    Tok("(") & Call("Query") & Tok(")") & Make("cte", 4)
SearchAndCycle ==
    Loop(<<When(At("SEARCH"),
                Advance & MayBeAny({"DEPTH", "BREADTH"}) & MayBe("FIRST") & MayBe("BY") &
                Swallow({";", "SET"}, {}, {}) & Option("SET", Advance & MayBeName)),
           When(At("CYCLE"), Advance & Swallow(Bodies \cup {"WITH", ";"}, {}, {}))>>)
Star == List(<<<<"*">>>>)
\* A SELECT of everything: the clauses after the columns.
NoFilters == Push(None) & Empty & Push(None) & Push(None) & Empty & Empty & Push(None) & Push(None) &
             Push(None) & Push(None)
NoClauses == Push(None) & Empty & NoFilters
WithBody ==
    Cases(<<When(Within({"SELECT", "FROM"}), Call("Select") & Call("SetOperation")),
            When(At("TABLE"), Advance & Swallow({";"}, {}, {}) & Push(None) & Push(None) & Push(Star) &
                              NoClauses & Make("Select", 16)),
            When(At("INSERT"), Pop & Call("Insert")), When(At("UPDATE"), Pop & Call("Update")),
            When(At("DELETE"), Pop & Call("Delete")), When(At("MERGE"), Pop & Call("Merge"))>>, Fail)
WithRule ==
    Tok("WITH") & Flag("RECURSIVE") &
    Cases(<<When(At("XMLNAMESPACES"), Pop & Lost & Advance & MayBeParens & Push(None))>>,
          IsBinding(Lost & Call("Bindings"), CteList & Make("With", 2) & SearchAndCycle)) & WithBody

----------------------------------------------------------------------------
\* The columns: <<"item", expr, alias>>, or a wildcard whose modifiers are dropped.
PatternWords == {"LIKE", "ILIKE", "GLOB", "REGEXP", "RLIKE", "IREGEXP", "SIMILAR"}
Pattern == Cases(<<When(Within(Strings), Advance & Option("ESCAPE", Advance & MayBeAny(Strings)))>>, Nothing)
StarModifiers ==
    LET drop == Lost & Advance & Cases(<<When(At("("), Advance & Parens)>>, MayBeName)
    IN Loop(<<When(Ahead(<<PatternWords, Strings>>), Lost & Advance & Pattern),
              When(Ahead(<<{"SIMILAR"}, {"TO"}>>), Lost & Advances(2) & Pattern),
              When(Within({"EXCLUDE", "RENAME"}), drop),
              When(Ahead(<<{"REPLACE", "EXCEPT"}, {"("}>>), drop)>>)
TransformWords == {"USING", "AS", "ROW", "FORMAT", "WITH", "BY", "MAP", "NULL", "(", ")", "="} \cup Strings
TransformTail ==
    Loop(<<When(Within(TransformWords), Advance), When(Identified(1, Always), Advance)>>)
PlainItem ==
    Cases(<<When(Ahead(<<{"TRANSFORM"}, {"("}>>),
                 Call("Expr") &
                 Cases(<<When(After({"Function"}, Always), TransformTail & Push(None))>>, Call("Alias")) &
                 Make("item", 2))>>,
          Call("Expr") & Cases(<<When(After({"QualifiedWildcard"}, Always), StarModifiers)>>,
                               Call("Alias") & Make("item", 2)))
SelectItemRule ==
    Cases(<<When(At("*"), Shift & StarModifiers), When(Ahead(<<{}, {":"}, {":"}>>), PlainItem),
            When(Named(1, Ahead(<<{}, {":"}>>)),
                 Rescue(Shift & Advance & Call("Expr") & Swap & Make("item", 2), PlainItem))>>, PlainItem)
AfterItems == {"FROM", "WHERE", "GROUP", "ORDER", "LIMIT", "HAVING", "QUALIFY", Eof, ";", ")"} \cup SetOperators
SelectItems ==
    Mark & Call("SelectItem") & Loop(<<When(Ahead(<<{","}, AfterItems>>), Advance & Miss),
                                       When(At(","), Advance & Call("SelectItem"))>>) & Collect

\* GROUP BY.
Cube(kind) ==
    Advance & Tok("(") & Cases(<<When(At(")"), Empty)>>, ListOf(Call("GroupElement"))) & Tok(")") & Make(kind, 1)
Grouped ==
    Call("Expr") &
    Cases(<<When(Ahead(<<{","}, {")"}>>), Advances(2) & Make("Nested", 1)),
            When(At(","), Make("list", 1) & Loop(<<When(Ahead(<<{","}, {")"}>>), Advance & Miss),
                     When(At(","), Advance & Call("Expr") & Make("list", 1) & Extend)>>) &
                 Tok(")") & Make("Tuple", 1))>>, Tok(")") & Make("Nested", 1))
GroupElementRule == Cases(<<When(At("("), Advance & Grouped)>>, Call("Expr") & SwallowedAlias)
GroupingSet ==
    Cases(<<When(At("CUBE"), Cube("Cube")), When(At("ROLLUP"), Cube("Rollup")),
            When(Ahead(<<{"("}, {")"}>>), Advances(2) & Empty & Make("Tuple", 1)),
            When(At("("), Advance & Grouped)>>, Call("Expr"))
GroupItem ==
    Cases(<<When(At("CUBE"), Cube("Cube")), When(At("ROLLUP"), Cube("Rollup")),
            When(Ahead(<<{"GROUPING"}, {"SETS"}>>),
                 Advances(2) & Tok("(") & ListOf(GroupingSet) & Tok(")") & Make("GroupingSets", 1))>>,
          Call("Expr")) & SwallowedAlias & MayBeAny({"ASC", "DESC"})
AfterAll == {",", ";", Eof, ")", "HAVING", "ORDER", "LIMIT", "OFFSET", "WINDOW", "QUALIFY"} \cup SetOperators
GroupBy ==
    Advance & Tok("BY") &
    Cases(<<When(Ahead(<<{"ALL"}, AfterAll>>), Advance & Push(Star))>>, MayBe("ALL") & ListOf(GroupItem)) &
    Cases(<<When(Ahead(<<{"WITH"}, ByWords \cup {"TOTALS"}>>), Lost & Advances(2))>>, Nothing) &
    Option("GROUPING", Lost & Advance & MayBe("SETS") & MayBeParens)

----------------------------------------------------------------------------
\* parse_select_body; the With tree is on the stack.  <<"Select", with, distinct, top,
\* columns, from, joins, where, group_by, having, qualify, windows, order_by, limit,
\* offset, fetch_first, query_options>>.
Hints == {"HIGH_PRIORITY", "STRAIGHT_JOIN", "SQL_SMALL_RESULT", "SQL_BIG_RESULT", "SQL_BUFFER_RESULT",
          "SQL_CACHE", "SQL_NO_CACHE", "SQL_CALC_FOUND_ROWS"}
Distinct ==
    Loop(<<When(Within(Hints), Lost & Advance)>>) &
    Cases(<<When(Within({"DISTINCTROW", "DISTINCT"}),
                 Advance & Push(Yes) & Option("ON", Lost & Advance & Tok("(") & Parens))>>,
          MayBe("ALL") & Push(None)) &
    Cases(<<When(Ahead(<<{"AS"}, {"STRUCT", "VALUE"}>>), Lost & Advances(2))>>, Nothing)
TopRows == Part("TOP", Call("Primary") &
    Cases(<<When(Ahead(<<{"PERCENT"}, {"WITH"}, {"TIES"}>>), Advances(3) & Push(<<"PERCENT TIES">>) & Make("Top", 2)),
            When(At("PERCENT"), Shift & Make("Top", 2)),
            When(Ahead(<<{"WITH"}, {"TIES"}>>), Advance & Shift & Make("Top", 2))>>, Nothing))
Where ==
    Cases(<<When(At("PREWHERE"), Advance & Call("Expr") &
                 Option("WHERE", Advance & Call("Expr") & SwallowedAlias & Make("AND", 2)))>>,
          Part("WHERE", Call("Expr") & SwallowedAlias)) &
    Option("PREFERRING", Lost & Advance & Swallow({";", "GROUP", "ORDER", "HAVING", "QUALIFY", "LIMIT", ")"}
                                           \cup SetOperators, {}, {}))
Windows == Cases(<<When(At("WINDOW"),
    Advance & ListOf(Name & Tok("AS") & Tok("(") & Call("WindowSpec") & Tok(")") & Make("window", 2)))>>, Empty)
OrderBy == Cases(<<When(At("ORDER"), Advance & Tok("BY") & Call("OrderItems"))>>, Empty)
SortBy == Loop(<<When(Ahead(<<{"SORT", "DISTRIBUTE", "CLUSTER"}, {"BY"}>>),
                      Lost & Advances(2) & Call("OrderItems") & Pop)>>)
\* LIMIT and OFFSET leave two trees; LIMIT a, b is LIMIT b OFFSET a.
Rows == MayBeAny({"ROWS", "ROW"})
LateLimit == Swap & Cases(<<When(After({Kind(None)}, At("LIMIT")), Pop & Advance & Call("Expr"))>>, Nothing) & Swap
Limits ==
    Cases(<<When(At("LIMIT"),
                 Advance & Call("Expr") & Part(",", Call("Expr")) &
                 Cases(<<When(NoAlias, Nothing)>>, Swap) &
                 Option("BY", Lost & Advance & AliasedList & Pop & Option("LIMIT", Advance & Call("Expr") & Pop)))>>,
          Push(None) & Push(None)) &
    Option("OFFSET", Pop & Advance & Call("Expr") & Rows) & LateLimit
Fetch == Part("FETCH", MayBeAny({"FIRST", "NEXT"}) & Call("Expr") & Rows & MayBe("ONLY"))
Postfixed == Cases(<<When(Ahead(<<{"WITH"}, {"TOTALS", "TIES", "FILL"} \cup ByWords>>), Lost & Advances(2))>>, Nothing)
Trailer == Cases(<<When(Within({"SETTINGS", "FORMAT", "INTO"}), Lost & Swallow({";", ")"}, {"("}, {")"}))>>, Nothing)
FromClause == Part("FROM", Call("TableSource"))
SelectRule ==
    Cases(<<When(At("FROM"), Distinct & TopRows & Push(Star))>>, Tok("SELECT") & Distinct & TopRows & SelectItems) &
    FromClause & Call("Joins") & Where & Cases(<<When(At("GROUP"), GroupBy)>>, Empty) &
    Part("HAVING", Call("Expr") & SwallowedAlias) & Part("QUALIFY", Call("Expr")) & Windows & OrderBy &
    SortBy & Limits & Fetch & Postfixed & Trailer & Push(None) & Make("Select", 16)

\* maybe_parse_set_operation: <<"SetOperation", left, op, all, right, order_by, limit,
\* offset, query_options>>; the right side is read to its end first.
Bare == Empty & Push(None) & Push(None) & Push(None) & Make("SetOperation", 8)
SetOperationRule ==
    Cases(<<When(Within(SetOperators),
                 Shift & Flag("ALL") & MayBe("DISTINCT") & Option("BY", Lost & Advance & MayBe("NAME")) &
                 Call("Query") &
                 Cases(<<When(Within(SetOperators), Bare & Call("SetOperation"))>>,
                       OrderBy & Part("LIMIT", Call("Expr")) & Part("OFFSET", Call("Expr") & Rows) &
                       LateLimit & Push(None) & Make("SetOperation", 8))),
            When(At("MINUS"), Advance & Push(<<"EXCEPT">>) & Flag("ALL") & MayBe("DISTINCT") &
                              Call("Query") & Bare)>>, Nothing)
=============================================================================
