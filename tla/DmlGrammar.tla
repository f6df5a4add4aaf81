----------------------------- MODULE DmlGrammar -----------------------------
(***************************************************************************)
(* INSERT, UPDATE, DELETE and MERGE of src/parser/sql_parser.rs.  An       *)
(* assignment is <<"set", target, expr>>.                                  *)
(***************************************************************************)
EXTENDS SourceGrammar

\* parse_table_ref and parse_table_ref_no_alias: the table without a temporal clause.
PlainTable == TableName & Push(None) & Make("Table", 2)
TableRef == PlainTable & Aliased("TableAs", FALSE)
MoreTables == Loop(<<When(At(","), Advance & TableRef & Pop)>>)

DottedName == Name & Loop(<<When(At("."), Advance & Name & Make("Dotted", 2))>>)
Assignment(target) == target & Tok("=") & Call("Expr") & Make("set", 2)
Condition == Part("WHERE", Call("Expr"))
Preferring(stop) == Option("PREFERRING", Advance & Swallow({";", ")", "RETURNING"} \cup stop, {}, {}))
\* MySQL's ORDER BY and LIMIT of an UPDATE or a DELETE are dropped.
DroppedOrder ==
    Option("ORDER", Advance & Tok("BY") & Call("OrderItems") & Pop) & Option("LIMIT", Advance & Call("Expr") & Pop)
Returning == Cases(<<When(At("RETURNING"), Advance & SelectItems)>>, Empty)

----------------------------------------------------------------------------
\* <<"Insert", table, columns, source, on_conflict, returning>>; REPLACE, the words for
\* conflicts and OVERWRITE are dropped.
InsertWords ==
    Option("OR", Advance & MayBeAny({"REPLACE", "IGNORE", "FAIL", "ABORT"})) &
    Loop(<<When(Within({"IGNORE", "LOW_PRIORITY", "DELAYED", "HIGH_PRIORITY"}), Advance)>>) & MayBe("INTO") &
    Option("OVERWRITE",
        Advance & MayBe("LOCAL") &
        Option("DIRECTORY", Advance & MayBeAny(Strings) & Swallow({"SELECT", "WITH", "(", "VALUES", ";"}, {}, {}))) &
    MayBe("TABLE")
\* parse_dotted_name
ColumnName ==
    Name & Loop(<<When(Ahead(<<{"."}, {"*"}>>), Advance & Shift & Make("Dotted", 2) & Miss),
                  When(Ahead(<<{"."}, {"INT", "BIGINT", "TEXT", "DATE", "TIMESTAMP"}>>), Advance & Name & Make("Dotted", 2)),
                  When(Identified(2, At(".")), Advance & Name & Make("Dotted", 2))>>)
InsertColumns ==
    Cases(<<When(Ahead(<<{"("}, {"SELECT", "WITH"}>>), Empty),
            When(At("("), Rescue(Advance & ListOf(ColumnName) & Tok(")"), Advance & Parens & Empty))>>, Empty)
Setting ==
    MayBeAny({"-", "+"}) & Cases(<<When(Within(Numbers \cup Strings), Advance)>>, MayBeName) &
    Cases(<<When(At(","), Advance)>>, Miss)
Settings ==
    Option("SETTINGS", Advance & Loop(<<When(Named(1, Ahead(<<{}, {"="}>>)), Advances(2) & Setting),
                                        When(Named(1, Always), Advance & Miss)>>))
Row == Tok("(") & Cases(<<When(At(")"), Empty)>>, LooseList(Call("Expr"))) & Tok(")")
ValueRows ==
    Advance & Mark & Row & Loop(<<When(At("("), Row), When(Ahead(<<{","}, {"("}>>), Advance & Row),
                                  When(At(","), Advance & Miss)>>) & Collect & Make("Values", 1)
\* INSERT .. SET keeps the values and drops the names of their columns.
SetRow == Advance & ListOf(Name & Pop & Tok("=") & Call("Expr")) & Make("list", 1) & Make("Values", 1)
Default == Push(<<"DEFAULT VALUES">>)
InsertSource ==
    Cases(<<When(Within({"VALUES", "VALUE"}), ValueRows), When(Within({"SELECT", "WITH", "("}), Call("Query")),
            When(At("DEFAULT"), Advance & Tok("VALUES") & Default), When(At("SET"), SetRow),
            When(At("FROM"), Push(None) & Push(None) & Push(None) & Push(Star) & FromClause & Call("Joins") &
                             NoFilters & Make("Select", 16)),
            When(At("FORMAT"), Advance & Lax(Name) & Swallow({";"}, {}, {}) & Default)>>, Fail)
RowAlias ==
    Cases(<<When(Ahead(<<{"AS"}, Signs \cup Numbers \cup {Eof}>>), Nothing), When(At("AS"), Advances(2) & MayBeParens)>>,
          Nothing)
OnDuplicate ==
    LET assignment == Lax(Name) & Cases(<<When(At("="), Advance)>>, Miss) & Lax(Call("Expr")) &
                      Cases(<<When(At(","), Advance)>>, Miss)
    IN Cases(<<When(Ahead(<<{"ON"}, {"DUPLICATE"}>>),
                    Advances(2) & MayBe("KEY") & Option("UPDATE", Advance & Loop(<<When(Always, assignment)>>)))>>, Nothing)
RawItem == Cases(<<When(Within({",", ")", Eof}), Fail)>>, Capture({",", ")"}, {"(", "["}, {")", "]"}))
\* <<"conflict", columns, assignments or NOTHING>>: the predicate of DO UPDATE is dropped.
Conflict ==
    Advances(2) & Cases(<<When(At("("), Advance & ListOf(RawItem) & Tok(")"))>>, Empty) & Tok("DO") &
    Cases(<<When(At("NOTHING"), Shift)>>, Tok("UPDATE") & Tok("SET") & ListOf(Assignment(Name))) &
    Option("WHERE", Advance & Call("Expr") & Pop) & Make("conflict", 2)
OnConflict == Cases(<<When(Ahead(<<{"ON"}, {"CONFLICT"}>>), Conflict), When(At("ON"), Advance & Push(None))>>, Push(None))
InsertRule ==
    AnyOf({"INSERT", "REPLACE"}) & InsertWords & TableRef & Option("PARTITION", Advance & MayBeParens) &
    InsertColumns & Settings & InsertSource & RowAlias & OnDuplicate & OnConflict & Returning & Make("Insert", 5)

----------------------------------------------------------------------------
\* <<"Update", table, assignments, from, where, returning>>; of several tables the first
\* is kept, the subscript of a target is dropped and a tuple of targets gets one name.
PlainSet ==
    DottedName & Loop(<<When(At("["), Advance & Swallow({"]"}, {"["}, {"]"}) & MayBe("]"))>>) &
    Tok("=") & Call("Expr") & Make("set", 2)
UpdateSet ==
    Cases(<<When(At("("), Try(Advance & Parens & Cases(<<When(At("="), Advance)>>, Miss) & Push(<<"__tuple__">>) &
                              Call("Expr") & Make("set", 2), PlainSet))>>, PlainSet)
UpdateRule ==
    Tok("UPDATE") & TableRef & MoreTables &
    Cases(<<When(Ahead(<<{"FOR"}, {"PORTION"}>>), Swallow({"SET", ";"}, {}, {}))>>, Nothing) & Partition &
    Lax(Call("Joins")) & Tok("SET") & ListOf(UpdateSet) & FromClause & Condition & Preferring({}) &
    DroppedOrder & Returning & Make("Update", 5)

\* <<"Delete", table, using, where, returning>>.
DeleteTarget ==
    LET part == MayBe(".") & MayBeName
        tables == Cases(<<When(Named(1, Always), Advance)>>, Miss) & part &
                  Loop(<<When(Named(2, At(",")), Advances(2) & part), When(At(","), Advance & Miss)>>) &
                  Cases(<<When(At("FROM"), Advance)>>, Miss)
        target == TableRef & Partition
    IN Cases(<<When(At("FROM"), Advance & target)>>,
             Try(tables & target & Swallow({"WHERE", "USING", "RETURNING", ";"}, {}, {}), target))
DeleteRule ==
    Tok("DELETE") & DeleteTarget & Part("USING", Call("TableSource")) & Preferring({"WHERE"}) & Condition &
    DroppedOrder & Returning & Make("Delete", 4)

----------------------------------------------------------------------------
\* <<"Merge", target, source, on, clauses, output>> of <<"when", kind, condition, action>>;
\* RETURNING and the names of a USING are dropped.
MergeKind ==
    Cases(<<When(At("NOT"),
                 Advance & Tok("MATCHED") &
                 Cases(<<When(Ahead(<<{"BY"}, {"SOURCE"}>>), Advances(2) & Push(<<"NOT MATCHED BY SOURCE">>)),
                         When(At("BY"), Advance & MayBe("TARGET") & Push(<<"NOT MATCHED">>))>>, Push(<<"NOT MATCHED">>)))>>,
          Tok("MATCHED") & Push(<<"MATCHED">>))
MergeInsert ==
    Cases(<<When(At("("), Advance & ListOf(Name) & Tok(")"))>>, Empty) & Tok("VALUES") & Tok("(") &
    LooseList(Call("Expr")) & Tok(")") & Make("insert", 2)
MergeAction ==
    Cases(<<When(At("UPDATE"), Advance & Tok("SET") & ListOf(Assignment(DottedName)) & Make("update", 1)),
            When(Ahead(<<{"INSERT"}, {"ROW"}>>), Advances(2) & Push(<<"INSERT ROW">>)),
            When(At("INSERT"), Advance & MergeInsert), When(At("DELETE"), Shift)>>, Fail)
MergeClause == Advance & MergeKind & Part("AND", Call("Expr")) & Tok("THEN") & MergeAction & Make("when", 3)
MergeRule ==
    Tok("MERGE") & MayBe("INTO") & TableRef & Tok("USING") & Call("TableSource") &
    Cases(<<When(At("USING"), Advance & Tok("(") & ListOf(Name) & Pop & Tok(")") & Push(<<"TRUE">>))>>,
          Tok("ON") & Call("Expr")) &
    Cases(<<When(At("WHEN"), Mark & Loop(<<When(At("WHEN"), MergeClause)>>) & Collect)>>, Fail) &
    Cases(<<When(At("OUTPUT"), Advance & SelectItems)>>, Empty) & Option("RETURNING", Advance & SelectItems & Pop) &
    Make("Merge", 5)
=============================================================================
