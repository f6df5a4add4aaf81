----------------------------- MODULE DdlGrammar -----------------------------
(***************************************************************************)
(* CREATE, DROP, ALTER and TRUNCATE of src/parser/sql_parser.rs.  What the *)
(* parser cannot read is a command: <<"Command", verb, tokens>>.           *)
(***************************************************************************)
EXTENDS DmlGrammar

RawTail == Capture({";", ")", "]"}, {"(", "["}, {")", "]"})
Verb == Shift & RawTail & Make("Command", 2)

IfNotExists == Cases(<<When(At("IF"), Advance & Tok("NOT") & Tok("EXISTS") & Push(Yes))>>, Push(None))
IfExists == Cases(<<When(At("IF"), Advance & Tok("EXISTS") & Push(Yes))>>, Push(None))
NamesInParens == Tok("(") & ListOf(Name) & Tok(")")

\* Constraints: <<kind, name, ...>>.
ConstraintModifiers ==
    Loop(<<When(Ahead(<<{"NOT"}, {"VALID", "ENFORCED", "DEFERRABLE"}>>), Advances(2)),
           When(Within({"ENFORCED", "DEFERRABLE", "CLUSTERED", "NONCLUSTERED", "INVISIBLE", "VISIBLE"}), Advance),
           When(At("INITIALLY"), Advance & MayBeName), When(Ahead(<<{"NO"}, {"INHERIT"}>>), Advances(2))>>)
IndexScope == MayBeAny({"GLOBAL", "LOCAL"}) & Option("USING", Advance & MayBeName)
AnIdentifier == Cases(<<When(Identified(1, Always), Advance)>>, Fail)
ReferentialAction ==
    Cases(<<When(Within({"CASCADE", "RESTRICT"}), Shift),
            When(Ahead(<<{"SET"}, {"NULL"}>>), Advances(2) & Push(<<"SET NULL">>)),
            When(Ahead(<<{"SET"}, {"DEFAULT"}>>), Advances(2) & Push(<<"SET DEFAULT">>)),
            When(At("NO"), Advance & AnIdentifier & Push(<<"NO ACTION">>))>>, Fail)
\* ON DELETE and ON UPDATE in any order, the last of each.
ReferentialActions ==
    Push(None) & Push(None) &
    Loop(<<When(Ahead(<<{"ON"}, {"DELETE"}>>), Advances(2) & Swap & Pop & ReferentialAction & Swap),
           When(Ahead(<<{"ON"}, {"UPDATE"}>>), Pop & Advances(2) & ReferentialAction)>>)
ConstraintWords == {"PRIMARY", "UNIQUE", "FOREIGN", "CHECK", "CONSTRAINT"}
Constraint ==
    Part("CONSTRAINT", Name) &
    Cases(<<When(At("PRIMARY"), Advance & Tok("KEY") & NamesInParens & IndexScope & ConstraintModifiers & Make("PRIMARY KEY", 2)),
            When(At("UNIQUE"),
                 Advance & MayBeAny({"INDEX", "KEY"}) & MayBeName & NamesInParens & IndexScope & ConstraintModifiers &
                 Make("UNIQUE", 2)),
            When(At("FOREIGN"),
                 Advance & Tok("KEY") & NamesInParens & Tok("REFERENCES") & TableRef & NamesInParens &
                 Option("MATCH", Advance & MayBeName) & ReferentialActions & ConstraintModifiers & Make("FOREIGN KEY", 6)),
            When(At("CHECK"), Advance & Tok("(") & Call("Expr") & Tok(")") & ConstraintModifiers & Make("CHECK", 2))>>, Fail)

\* <<"column", name, type, nullable, default, primary_key, unique, auto_increment, collation>>.
\* COMMENT is an identifier to the lexer, so no column has a comment and the word ends the
\* definition.  Generated columns, storage and references are dropped.
Nullable == [column |-> 4]
Collation == [column |-> 9]
NextValue ==
    Advances(4) & Push(<<"NEXT_VALUE_FOR">>) & Push(None) & DottedName & Make("Column", 2) & Make("list", 1) & Plain
StorageWords == {"STORED", "VIRTUAL", "PERSISTENT", "PERSISTED"}
ColumnWords ==
    StorageWords \cup {"CODEC", "TTL", "ALIAS", "EPHEMERAL", "ENCODE", "ENCRYPT", "MASKED", "INVISIBLE", "VISIBLE",
                       "ENFORCED", "OPTIONS", "COMPRESSION", "SORTKEY", "DISTKEY", "CHARSET", "SRID", "FORMAT", "TAG",
                       "MASKING"}
Generated ==
    Advance & MayBe("ALWAYS") &
    Option("AS", Advance & Cases(<<When(At("IDENTITY"), Advance), When(At("ROW"), Advance & MayBeName)>>, Nothing)) &
    MayBeParens
\* `while !self.match_token(RParen) { self.advance(); }` does not end where none follows.
Reference == Advance & TableRef & Pop & Option("(", Advance & Swallow({")"}, {}, {}) & Tok(")"))
ColumnDef ==
    Name & Call("DataType") & Push(None) & Push(None) & Push(None) & Push(None) & Push(None) & Push(None) & Make("column", 8) &
    Loop(<<When(At("NOT"), Advance & Tok("NULL") & Push(<<"NOT">>) & Attach(Nullable)),
           When(At("NULL"), Advance & Push(Yes) & Attach(Nullable)),
           When(Ahead(<<{"AS"}, {"("}>>), Advances(2) & Parens & MayBeAny(StorageWords)),
           When(Ahead(<<{"DEFAULT"}, {"NEXT"}, {"VALUE"}, {"FOR"}>>), NextValue & Attach([column |-> 5])),
           When(At("DEFAULT"), Advance & Call("Expr") & Attach([column |-> 5])),
           When(At("PRIMARY"), Advance & Tok("KEY") & Push(Yes) & Attach([column |-> 6])),
           When(At("UNIQUE"), Advance & Push(Yes) & Attach([column |-> 7])),
           When(Within({"AUTO_INCREMENT", "AUTOINCREMENT"}), Advance & Push(Yes) & Attach([column |-> 8])),
           When(At("COLLATE"), Advance & Name & Attach(Collation)), When(At("REFERENCES"), Reference),
           When(At("GENERATED"), Generated),
           When(Within(ColumnWords), Advance & Cases(<<When(At("("), Advance & Parens)>>, Swallow({")", ","}, {"("}, {")"})))>>)

----------------------------------------------------------------------------
\* <<"CreateTable", temporary, if_not_exists, table, columns, constraints, with_properties,
\* as_select, with_data>>: OR REPLACE and MATERIALIZED are dropped.
Properties == Tok("WITH") & Tok("(") & ListOf(Name & Tok("=") & Call("Expr") & Make("set", 2)) & Tok(")") & Tok("AS")
DataClause ==
    Cases(<<When(Ahead(<<{"WITH"}, {"DATA"}, {";", Eof}>>), Advances(2) & Push(Yes)),
            When(Ahead(<<{"WITH"}, {"NO"}, {"DATA"}, {";", Eof}>>), Advances(3) & Push(<<"NO">>))>>, Push(None))
\* With properties or a data clause the query has to be one the tree keeps, to its end.
Structured(marked) ==
    IF marked THEN Fail
    ELSE Swap & Cases(<<When(After({"Select", "SetOperation"}, Within({";", Eof})), Swap)>>, Fail)
Distributed ==
    Option("DISTRIBUTED", Advance & Cases(<<When(At("BY"), Advance & MayBeParens)>>, MayBeName))
AsSelect(marked) ==
    Whole(Cases(<<When(At("WITH"), Properties & Call("Query") & DataClause & Structured(marked))>>,
                Tok("AS") & Empty & Call("Query") & DataClause & Cases(<<When(NoAlias, Nothing)>>, Structured(marked)))) &
    Distributed
Element == Cases(<<When(Within(ConstraintWords), Constraint), When(At(")"), Nothing)>>, ColumnDef)
Elements ==
    Tok("(") & Mark & Element & More(Element) & Collect & Parted("column") & Tok(")") & Swallow({";", ")"}, {"("}, {")"}) &
    Empty & Push(None) & Push(None)
CreateTable(marked) ==
    IfNotExists & PlainTable &
    Cases(<<When(Within({"AS", "WITH"}), Empty & Empty & AsSelect(marked))>>, Elements) & Make("CreateTable", 8)
\* <<"CreateView", or_replace, materialized, if_not_exists, name, columns, query>>:
\* TEMPORARY is dropped.
CreateView ==
    IfNotExists & PlainTable & Cases(<<When(At("("), NamesInParens)>>, Empty) & Tok("AS") & Call("Query") & Make("CreateView", 6)
IfSet(b) == Push(IF b THEN Yes ELSE None)
Created(or_replace, materialized) ==
    Cases(<<When(At("VIEW"), Advance & Pop & IfSet(or_replace) & IfSet(materialized) & CreateView)>>,
          Tok("TABLE") & CreateTable(or_replace \/ materialized))
AfterCreate(or_replace) ==
    Cases(<<When(Within({"TEMPORARY", "TEMP"}), Advance & Push(Yes))>>, Push(None)) &
    Cases(<<When(At("MATERIALIZED"), Advance & Created(or_replace, TRUE))>>, Created(or_replace, FALSE))
CreateRule ==
    Rescue(Tok("CREATE") & Cases(<<When(At("OR"), Advance & Tok("REPLACE") & AfterCreate(TRUE))>>, AfterCreate(FALSE)), Verb)

----------------------------------------------------------------------------
\* DROP of a table or a view, of several the first; of anything else a command.
DropView == Advance & IfExists & TableRef & MoreTables & MayBeAny({"CASCADE", "RESTRICT"}) & Make("DropView", 3)
DropTable ==
    Advance & IfExists & TableRef & MoreTables & Flag("CASCADE") &
    Loop(<<When(Within({"FORCE", "PURGE", "RESTRICT"}), Advance)>>) & Make("DropTable", 3)
DropRule ==
    Tok("DROP") &
    Cases(<<When(Ahead(<<{"MATERIALIZED"}, {"VIEW"}>>), Advance & Push(Yes) & DropView), When(At("MATERIALIZED"), Fail),
            When(At("VIEW"), Push(None) & DropView), When(At("TABLE"), DropTable)>>,
          Push(<<"DROP">>) & RawTail & Make("Command", 2))

\* <<"AlterTable", table, actions>>.  An action with no form of its own is read as the
\* DROP COLUMN of an empty name.
ToComma == Swallow({";", ","}, {"("}, {")"})
NoColumn == ToComma & Push(None) & Push(<<"">>) & Make("drop column", 2)
AddAction ==
    Advance &
    Cases(<<When(Within(ConstraintWords), Constraint & ConstraintModifiers & Make("add constraint", 1)),
            When(Within({"EXCLUDE", "INDEX", "KEY", "PROJECTION", "STATISTICS", "COLUMNS"}), NoColumn)>>,
          MayBe("COLUMN") & ColumnDef &
          Cases(<<When(At("AFTER"), Advance & MayBeName), When(At("FIRST"), Advance)>>, Nothing) & Make("add column", 1))
DropAction ==
    Advance & Cases(<<When(Ahead(<<{"IF"}, {"EXISTS"}, {"PARTITION"}>>), Advances(2))>>, Nothing) &
    Cases(<<When(Within({"INDEX", "PRIMARY", "FOREIGN", "CONSTRAINT", "CHECK", "PARTITION", "UNIQUE", "KEY", "FEATURE",
                         "PROJECTION", "STATISTICS", "DISTRIBUTION"}), NoColumn)>>,
          MayBe("COLUMN") & IfExists & Name &
          Loop(<<When(Named(2, At(".")), Advance & Shift & Make("Dotted", 2)), When(At("."), Advance & Miss)>>) &
          Make("drop column", 2))
AlterAction ==
    Cases(<<When(At("PARTITION"), NoColumn), When(At("ADD"), AddAction), When(At("DROP"), DropAction),
            When(Ahead(<<{"RENAME"}, {"COLUMN"}>>), Advances(2) & Name & AnIdentifier & Name & Make("rename column", 2)),
            When(Ahead(<<{"RENAME"}, {"TO"}>>), Advances(2) & DottedName & Make("rename table", 1))>>, Fail)
AlterRule == Rescue(Tok("ALTER") & Tok("TABLE") & PlainTable & ListOf(AlterAction) & Make("AlterTable", 2), Verb)
TruncateRule ==
    Rescue(Tok("TRUNCATE") & MayBe("TABLE") & TableRef & Make("Truncate", 1) & Swallow({";"}, {}, {}), Verb)
=============================================================================
