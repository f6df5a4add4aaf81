--------------------------- MODULE PrimaryGrammar ---------------------------
(***************************************************************************)
(* The operands of an expression in src/parser/sql_parser.rs:              *)
(* parse_primary with the arguments of calls, the types of casts, the      *)
(* fields of dates and the lists of expressions.                           *)
(***************************************************************************)
EXTENDS ExprGrammar

\* The words of parse_datetime_field, the units of MySQL with their first component.
Field(f, names) == [n \in names |-> <<f>>]
FieldWords ==
    Field("YEAR", {"YEAR", "YEARS", "YEAR_MONTH"}) @@ Field("QUARTER", {"QUARTER", "QUARTERS"}) @@
    Field("MONTH", {"MONTH", "MONTHS"}) @@ Field("WEEK", {"WEEK", "WEEKS"}) @@
    Field("DAY", {"DAY", "DAYS", "DAY_HOUR", "DAY_MINUTE", "DAY_SECOND", "DAY_MICROSECOND"}) @@
    Field("DOW", {"DOW", "DAYOFWEEK"}) @@ Field("DOY", {"DOY", "DAYOFYEAR"}) @@
    Field("HOUR", {"HOUR", "HOURS", "HOUR_MINUTE", "HOUR_SECOND", "HOUR_MICROSECOND"}) @@
    Field("MINUTE", {"MINUTE", "MINUTES", "MINUTE_SECOND", "MINUTE_MICROSECOND"}) @@
    Field("SECOND", {"SECOND", "SECONDS", "SECOND_MICROSECOND"}) @@
    Field("MILLISECOND", {"MILLISECOND", "MILLISECONDS", "MS"}) @@
    Field("MICROSECOND", {"MICROSECOND", "MICROSECONDS", "US"}) @@
    Field("NANOSECOND", {"NANOSECOND", "NANOSECONDS", "NS"}) @@
    Field("EPOCH", {"EPOCH"}) @@ Field("TIMEZONE", {"TIMEZONE"}) @@
    Field("TIMEZONE_HOUR", {"TIMEZONE_HOUR"}) @@ Field("TIMEZONE_MINUTE", {"TIMEZONE_MINUTE"})
MayBeField == Cases(<<When(Within(DOMAIN FieldWords), Leaf(FieldWords))>>, Push(None))
\* A unit TO a smaller one, where the two are a unit; else the first stays.
Spans == <<<<"YEAR", "MONTH">>, <<"DAY", "HOUR">>, <<"DAY", "MINUTE">>, <<"DAY", "SECOND">>,
           <<"HOUR", "MINUTE">>, <<"HOUR", "SECOND">>, <<"MINUTE", "SECOND">>>>
WordsOf(field) == {w \in DOMAIN FieldWords : FieldWords[w] = <<field>>}
Span(i) == When(After({Spans[i][1]}, Ahead(<<{"TO"}, WordsOf(Spans[i][2])>>)),
                Advances(2) & Pop & Push(<<Spans[i][1], "TO", Spans[i][2]>>))
Digits == Cases(<<When(Ahead(<<{"("}, Numbers, {")"}>>), Advances(3))>>, Nothing)
IntervalRule ==
    Advance & Call("Addition") & MayBeField & Digits &
    Cases([i \in DOMAIN Spans |-> Span(i)] \o
          <<When(Ahead(<<{"TO"}, DOMAIN FieldWords>>), Advances(2))>>, Nothing) &
    Digits & Make("Interval", 2)

\* EXTRACT(field FROM e) and CAST(e AS type), whose time zone and format are dropped.
DroppedZone == Cases(<<When(TimeZoneAhead, Advances(3) & Lax(Call("Expr")))>>, Nothing)
ExtractRule ==
    Advance & Tok("(") & Leaf(FieldWords) & Tok("FROM") & Call("Expr") & DroppedZone & Tok(")") &
    Make("Extract", 2)
Unquoted == ("'s'" :> <<"S">>) @@ ("'u'" :> <<"U">>)
CastRule ==
    Advance & Tok("(") & Call("Expr") &
    Cases(<<When(Ahead(<<{","}, DOMAIN Unquoted>>), Advance & Leaf(Unquoted)),
            When(Within({"AS", ","}), Advance & Call("DataType"))>>, Fail) &
    Option("FORMAT", Advance & Lax(Call("Expr")) & DroppedZone) & Tok(")") & Make("Cast", 2)
CaseRule ==
    Advance & Cases(<<When(At("WHEN"), Push(None))>>, Call("Expr")) & Mark &
    Loop(<<When(At("WHEN"), Advance & Call("Expr") & Tok("THEN") & Call("Expr") & Make("when", 2))>>) &
    Collect & Part("ELSE", Call("Expr")) & Tok("END") & Make("Case", 3)
Exists(n, negated) ==
    Advances(n) & Tok("(") & Call("Query") & Tok(")") & Push(negated) & Make("Exists", 2)

----------------------------------------------------------------------------
\* Literals.  Of the strings that stand side by side the texts have 's' and 'u'.
NumberSuffixes == {"F", "L", "D", "BD"}
NumberRule ==
    Shift & Cases(<<When(Identified(2, At(".")), Nothing),
                    When(Ahead(<<{"."}, Numbers \cup {"*"}>>), Nothing),
                    When(At("."), Advance)>>, Nothing) & MayBeAny(NumberSuffixes)
TimeUnits == {"YEAR", "MONTH", "DAY", "HOUR", "MINUTE", "SECOND"}
Precision(pair) ==
    Option("(", Advance &
        Cases(<<When(Within(Numbers), Advance &
                     IF pair THEN Cases(<<When(Ahead(<<{","}, Numbers>>), Advances(2))>>, MayBe(","))
                     ELSE Nothing)>>, Nothing) & MayBe(")"))
StringRule ==
    Cases(<<When(Before({"INTERVAL"}, Ahead(<<{}, TimeUnits>>)), Shift),
            When(Ahead(<<{}, TimeUnits>>),
                 Shift & Advance & Precision(TRUE) &
                 Option("TO", Advance &
                        Cases(<<When(Within(TimeUnits), Advance & Precision(FALSE))>>, Nothing)) &
                 Push(<<"INTERVAL">>) & Make("Cast", 2)),
            When(Ahead(<<{"'s'"}, {"'u'"}>>), Advances(2) & Push(<<"'su'">>))>>, Shift)
DefaultRule ==
    Cases(<<When(Ahead(<<{}, {"("}>>), Shift & Advance & Arguments & Tok(")") & Plain)>>, Shift)
\* @name and :name are one parameter, whatever word follows.
ParameterWords ==
    {"LIMIT", "HAVING", "WHERE", "FROM", "SELECT", "INSERT", "UPDATE", "DELETE", "UNION",
     "INTERSECT", "EXCEPT", "JOIN", "INNER", "CROSS", "ON", "AS", "DISTINCT", "DEFAULT", "NULL",
     "TRUE", "FALSE", "DATE", "TIME", "TIMESTAMP", "END", "INT"} \cup Numbers
ParameterName == Cases(<<When(Named(1, Always), Shift), When(Within(ParameterWords), Shift)>>,
                       Push(None))
ParameterRule ==
    Cases(<<When(Ahead(<<{"@"}, {"@"}>>), Advances(2) & ParameterName & Make("@@", 1)),
            When(At("@"), Advance & ParameterName & Make("@", 1)),
            When(At(":"), Advance & ParameterName & Make(":", 1))>>, Shift)
\* {k: v} and MAP {k: v} are calls of their values.
Braces(name, item) ==
    Push(<<name>>) & Advance & Cases(<<When(At("}"), Empty)>>, Mark & item & More(item) & Collect) &
    Tok("}") & Plain
StructItem ==
    Cases(<<When(Named(1, Ahead(<<{}, {":"}>>)), Advances(2)),
            When(Ahead(<<Strings, {":"}>>), Advances(2))>>, Nothing) & Call("Expr")
MapItem == Try(Call("Expr") & Pop & Cases(<<When(At(":"), Advance & Call("Expr"))>>, Miss),
               Call("Expr"))
ArrayItems(close) ==
    Cases(<<When(At(close), Empty)>>, ListOf(Call("Expr") & Option("AS", Advance & MayBeName))) &
    (IF close = "]" THEN Option("FOR", Swallow({"]"}, {"[", "("}, {"]", ")"})) ELSE Nothing) &
    Tok(close) & Make("ArrayLiteral", 1)
ArrayRule ==
    Cases(<<When(Ahead(<<{}, {"["}>>), Advances(2) & Call("BracketItems")),
            When(Ahead(<<{}, {"("}, {"SELECT", "WITH"}>>), Advances(2) & Subquery & Tok(")")),
            When(Ahead(<<{}, {"("}>>), Advances(2) & ArrayItems(")"))>>, Push(None) & Shift & Make("Column", 2))
TupleItem == Call("Expr") & SwallowedAlias
ParenRule ==
    Advance &
    Cases(<<When(QueryAhead, Subquery & Tok(")"))>>,
          TupleItem &
          Cases(<<When(At(","), Make("list", 1) &
                       Loop(<<When(Ahead(<<{","}, {")"}>>), Advance & Miss),
                              When(At(","), Advance & TupleItem & Make("list", 1) & Extend)>>) &
                       Tok(")") & Make("Tuple", 1))>>,
                Tok(")") & Make("Nested", 1)))

----------------------------------------------------------------------------
\* DATE 'x' and its like, TYPE 'x', the bare CURRENT_DATE; other words are names.
TimestampOf(zone) == <<"TIMESTAMP", None, zone>>
BareTypes == [t \in Types |-> <<t>>] 
BareType == ("DECIMAL" :> <<"DECIMAL", None, None>>) @@ ("VARCHAR" :> <<"VARCHAR", None>>) @@
            ("CHAR" :> <<"CHAR", None>>) @@ ("TIME" :> <<"TIME", None>>) @@
            ("TIMESTAMP" :> TimestampOf(None)) @@ ("TIMESTAMPTZ" :> TimestampOf(Yes)) @@ BareTypes
TypedLiteral == Leaf(BareType) & Shift & Swap & Make("Cast", 2)
ZoneWords(words) == Ahead(<<{"TIME", "TIMESTAMP"}>> \o words \o <<{"TIME"}, {"ZONE"}>>)
\* The words of a zone are dropped from a literal that is not one, too.
Zoned(words, zone) ==
    When(ZoneWords(words),
         Shift & Advances(2) & (IF Len(words) = 2 THEN Advances(2) ELSE Advance) &
         Cases(<<When(After({"TIMESTAMP"}, Within(Strings)),
                      Pop & Shift & Push(TimestampOf(zone)) & Make("Cast", 2)),
                 When(Within(Strings), Pop & Shift & Push(BareType["TIME"]) & Make("Cast", 2))>>,
               Call("Named")))
Curated == {"BOX", "POINT", "INET", "CIDR", "MONEY", "OID", "XML", "BIT", "BOOL", "INT4", "INT8"}
Niladics == ("CURRENT_DATE" :> <<"CurrentDate">>) @@ ("CURRENT_TIME" :> <<"CurrentTime">>) @@
            ("CURRENT_TIMESTAMP" :> <<"CurrentTimestamp">>) @@
            ("LOCALTIMESTAMP" :> <<"CurrentTimestamp">>)
TypedCall == Push(None) & Push(None) & Make("TypedFunction", 3)
NameForms ==
    <<Zoned(<<{"WITH"}, {"LOCAL"}>>, Yes), Zoned(<<{"WITH"}>>, Yes), Zoned(<<{"WITHOUT"}>>, None),
      When(Ahead(<<Types, Strings>>), TypedLiteral),
      When(Ahead(<<Curated, Strings>>), Shift & Shift & Swap & Make("Cast", 2)),
      When(Ahead(<<DOMAIN Niladics, {"("}>>), Shift & Call("Named")),
      When(Within(DOMAIN Niladics), Leaf(Niladics) & TypedCall),
      When(Named(1, Always), Shift & Call("Named")), When(Within(Types), Shift & Call("Named"))>>
\* The name is on the stack.
NamedRule ==
    Cases(<<When(After({"TRY_CAST", "SAFE_CAST"}, At("(")), Advance & Call("TryCast")),
            When(At("("), Advance & Call("Call")),
            When(Ahead(<<{"."}, {"*"}>>), Advances(2) & Make("QualifiedWildcard", 1)),
            When(At("."), Advance & Call("NamePart") & Call("Qualified"))>>,
          Push(None) & Swap & Make("Column", 2))
NamePartRule == MayBe("^") & MayBe(":") & Cases(<<When(Within(Numbers \cup {"NULL"}), Shift)>>, Name)
\* a.b.c: all but the last name are the table.
QualifiedRule ==
    Cases(<<When(Ahead(<<{"."}, {"*"}>>), Advances(2) & Make("Dotted", 2) & Make("QualifiedWildcard", 1)),
            When(At("."), Advance & Make("Dotted", 2) & Call("NamePart") & Call("Qualified")),
            When(At("("), Advance & Make("Dotted", 2) & Arguments & Tok(")") & Plain)>>,
          Make("Column", 2))
\* TRY_CAST(e AS type); read again as a call where no AS follows.
TryCastRule ==
    Try(Pop & Call("Expr") &
        Cases(<<When(At("AS"), Advance & Call("DataType") & Tok(")") & Make("TryCast", 2))>>, Miss),
        Call("Call"))

----------------------------------------------------------------------------
\* Calls.  The standard forms are tried on the words that follow the parenthesis, and
\* given up where their word does not come.
Closed == Collect & Tok(")") & Plain
ForLength == Option("FOR", Advance & Call("Expr"))
SubstringForm ==
    Mark & Call("Expr") &
    Cases(<<When(At("FROM"), Advance & Call("Expr") & ForLength),
            When(At("FOR"), Advance & Call("Expr"))>>, Miss) & Closed
TrimWords == [w \in {"LEADING", "TRAILING", "BOTH"} |-> <<w>>]
TrimForm ==
    Pop & Cases(<<When(Within(DOMAIN TrimWords), Leaf(TrimWords))>>, Push(<<"BOTH">>)) &
    Cases(<<When(At("FROM"), Push(None))>>, Call("Expr")) &
    Cases(<<When(At("FROM"), Advance)>>, Miss) & Call("Expr") & Tok(")") & Make("Trim", 3) & TypedCall
PositionForm ==
    Mark & Call("Expr") & Cases(<<When(At("IN"), Advance & Call("Expr"))>>, Miss) & Closed
OverlayForm ==
    Mark & Call("Expr") & Cases(<<When(At("PLACING"), Advance & Call("Expr"))>>, Miss) &
    Cases(<<When(At("FROM"), Advance & Call("Expr"))>>, Miss) & ForLength & Closed
\* Only here an argument is no Argument: GROUP_CONCAT(e, .. ORDER BY .. SEPARATOR ..).
GroupConcat(distinct) ==
    Pop & Cases(<<When(At(")"), Empty & Push(distinct) & Empty & Push(None))>>,
                ListOf(Call("Expr")) & Push(distinct) &
                Cases(<<When(At("ORDER"), Advance & Tok("BY") & Call("OrderItems"))>>, Empty) &
                Part("SEPARATOR", Call("Expr"))) &
    Tok(")") & Make("GroupConcat", 4) & TypedCall
\* A call's arguments and the clauses after them; distinct is on the stack.
CallTail ==
    Cases(<<When(At(")"), Empty), When(At("*"), Advance & Push(List(<<<<"*">>>>)))>>,
          ListOf(Call("Argument"))) & Swap &
    Cases(<<When(At("ORDER"), Advance & Tok("BY") & Call("OrderItems"))>>, Empty) &
    Option("LIMIT", Advance & Lax(Call("Expr"))) & MayBe("EXPORT_STATE") & Tok(")") &
    Cases(<<When(At("WITHIN"), Advance & Tok("GROUP") & Tok("(") & Tok("ORDER") & Tok("BY") & Pop &
                               Call("OrderItems") & Tok(")") & Push(Yes))>>, Push(None)) & Called
CallRule ==
    LET form(names, f) == When(After(names, Always), Try(f, Push(None) & CallTail))
    IN Cases(<<When(After({"GROUP_CONCAT"}, At("DISTINCT")), Advance & GroupConcat(Yes)),
               When(At("DISTINCT"), Advance & Push(Yes) & CallTail)>>,
             MayBe("ALL") &
             Cases(<<When(After({"GROUP_CONCAT"}, Always), GroupConcat(None)),
                     When(At(")"), Push(None) & CallTail),
                     form({"SUBSTRING", "SUBSTR"}, SubstringForm), form({"TRIM"}, TrimForm),
                     form({"POSITION"}, PositionForm), form({"OVERLAY"}, OverlayForm)>>,
                   Push(None) & CallTail))
\* A reserved word before a parenthesis is the name of a function.
KeywordCall == Shift & Advance & Arguments & Tok(")") & Plain

PrimaryRule ==
    Cases(<<When(Ahead(<<{"."}, {"1"}>>), Advances(2) & Push(<<"0.1">>)),
            When(Within(Numbers), NumberRule), When(Within(Strings), StringRule),
            When(At("DEFAULT"), DefaultRule), When(Within({"TRUE", "FALSE", "NULL", "*"}), Shift),
            When(Ahead(<<{"VALUES"}, {"("}>>), KeywordCall), When(At("VALUES"), Column),
            When(Within({"?", "@", ":"}), ParameterRule), When(At("{"), Braces("STRUCT", StructItem)),
            When(Ahead(<<{"CAST"}, {"("}>>), CastRule), When(At("EXTRACT"), ExtractRule),
            When(At("CASE"), CaseRule), When(At("EXISTS"), Exists(1, None)),
            When(Ahead(<<{"NOT"}, {"EXISTS"}>>), Exists(2, Yes)), When(At("INTERVAL"), IntervalRule),
            When(At("("), ParenRule), When(Ahead(<<{"MAP"}, {"{"}>>), Advance & Braces("MAP", MapItem)),
            When(At("ARRAY"), ArrayRule), When(At("["), Advance & Call("BracketItems"))>> \o NameForms \o
          <<When(Ahead(<<Reserved, {"("}>>), KeywordCall)>>, Fail)

----------------------------------------------------------------------------
\* parse_function_arg.  What follows the expression is read and dropped: key and alias,
\* PARTITION BY and ORDER BY, the modifiers of the JSON functions.
Behaviour(words) ==
    Try(words & Cases(<<When(Ahead(<<{"ON"}, {"ERROR", "EMPTY"}>>), Advances(2))>>, Miss), Miss)
BehaviourWords == {"ERROR", "NULL", "EMPTY", "TRUE", "FALSE", "UNKNOWN"}
OnEmpty == Ahead(<<{"ON"}, {"EMPTY", "ERROR"}>>)
Opaque == Swallow({",", ")", "]"}, {"(", "["}, {")", "]"})
Modifiers ==
    Option("RETURNING", Advance & Cases(<<When(Named(1, Always), Lax(Call("DataType"))),
                                          When(Within(Types), Lax(Call("DataType")))>>, Nothing)) &
    Option("PASSING", Advance & ListOf(Call("Expr") & SwallowedAlias) & Pop) &
    Loop(<<When(At("DEFAULT"), Behaviour(Advance & Lax(Call("Expr")))),
           When(Within(BehaviourWords), Behaviour(Advance & MayBeAny({"ARRAY", "OBJECT"})))>>) &
    Option("USING", Advance & MayBeName) &
    Loop(<<When(Within({"DEFAULT", "FORMAT"}), Opaque), When(OnEmpty, Opaque)>>)
KeyedValue ==
    Pop & Advance & Call("Expr") &
    Cases(<<When(Ahead(<<{"FORMAT"}, {"JSON"}>>), Advances(2))>>, Nothing)
Positional ==
    Call("Expr") &
    Cases(<<When(Ahead(<<{":"}, {":", "="}>>), Nothing), When(At(":"), KeyedValue)>>, Nothing) &
    SwallowedAlias &
    Cases(<<When(Ahead(<<{"PARTITION"}, {"BY"}>>), Advances(2) & ListOf(Call("Expr")) & Pop)>>, Nothing) &
    Cases(<<When(Ahead(<<{"ORDER"}, {"BY"}>>), Advances(2) & Call("OrderItems") & Pop)>>, Nothing) &
    Cases(<<When(NullsAhead, Advances(2))>>, Nothing) & Modifiers
ArgumentRule ==
    LET words == Types \cup {"RECURSIVE"}
    IN Cases(<<When(At("ON"), Swallow({",", ")"}, {"("}, {")"}) & Push(<<"NULL">>)),
               When(Named(1, Ahead(<<{}, {":"}, {"="}>>)), Advances(3) & Call("Expr")),
               When(Ahead(<<words, {":"}, {"="}>>), Advances(3) & Call("Expr")),
               When(Named(1, Ahead(<<{}, {"->>"}>>)), Advances(2) & Call("Expr")),
               When(Ahead(<<words, {"->>"}>>), Advances(2) & Call("Expr")),
               When(QueryAhead, Subquery)>>, Positional)

\* ORDER BY items: <<"order", expr, descending, nulls>>.
Direction == Cases(<<When(At("DESC"), Advance & Push(Yes))>>, MayBe("ASC") & Push(None))
NullsOrder ==
    Cases(<<When(Ahead(<<{"NULLS"}, {"FIRST"}>>), Advances(2) & Push(<<"FIRST">>)),
            When(Identified(2, At("NULLS")), Advances(2) & Push(<<"LAST">>)),
            When(At("NULLS"), Fail)>>, Push(None))
OrderItemRule ==
    Cases(<<When(Ahead(<<{"BINARY"}, {",", ";", Eof, ")"}>>), Nothing), When(At("BINARY"), Advance)>>,
          Nothing) & Call("Expr") & SwallowedAlias & Direction & NullsOrder & Make("order", 3)
OrderItemsRule ==
    Cases(<<When(At("ALL"), Advance & Push(<<"*">>) & Direction & Push(None) & Make("order", 3) &
                            Make("list", 1))>>, ListOf(Call("OrderItem")))

----------------------------------------------------------------------------
\* parse_data_type: <<name, parameter, ...>>; a type with no case of its own is unknown.
Digit == Cases(<<When(Within(Numbers), Shift)>>, Fail)
\* `(n)`; max is what `(MAX)` stands for.
Length(max) ==
    Cases(<<When(Ahead(<<{"("}, {"MAX"}>>), Advances(2) & Tok(")") & Push(max)),
            When(At("("), Advance & Digit & Tok(")"))>>, Push(None))
OracleLength ==
    Cases(<<When(At("("), Advance & Digit & MayBeAny({"CHAR", "BYTE"}) & Tok(")"))>>, Push(None))
PrecisionAndScale ==
    Cases(<<When(At("("), Advance & Digit & Part(",", Digit) & Tok(")"))>>, Push(None) & Push(None))
Sized(type, params, n) == When(At(type), Advance & params & Make(type, n))
Zone ==
    Cases(<<When(At("WITH"), Advance & MayBe("LOCAL") & MayBe("TIME") & MayBe("ZONE") & Push(Yes)),
            When(At("WITHOUT"), Advance & MayBe("TIME") & MayBe("ZONE") & Push(None))>>, Push(None))
\* The fields of a structured type are dropped.
Body == Cases(<<When(At("<"), Advance & Swallow({">"}, {"<"}, {">"}) & MayBe(">")),
                When(At("("), Advance & Swallow({")"}, {"("}, {")"}) & MayBe(")"))>>, Nothing)
KeywordTypes ==
    <<Sized("DECIMAL", PrecisionAndScale, 2), Sized("VARCHAR", Length(<<"MAX">>), 1), Sized("CHAR", Length(None), 1),
      Sized("TIME", Length(None), 1),
      When(At("TIMESTAMP"), Advance & Length(None) & Zone & Make("TIMESTAMP", 2)),
      When(At("TIMESTAMPTZ"), Advance & Length(None) & Push(Yes) & Make("TIMESTAMP", 2)),
      When(At("DOUBLE"), Shift & MayBe("PRECISION")),
      When(Ahead(<<{"ARRAY"}, {"<"}>>), Advances(2) & Call("DataType") & Tok(">") & Make("ARRAY", 1)),
      When(At("ARRAY"), Advance & Push(None) & Make("ARRAY", 1)),
      When(Within({"STRUCT", "MAP"}), Shift & Body)>>
NamedTypes ==
    <<Sized("NUMBER", PrecisionAndScale, 2), Sized("NVARCHAR", Length(<<"MAX">>), 1), Sized("NCHAR", Length(None), 1),
      Sized("BINARY", Length(None), 1), Sized("VARBINARY", Length(None), 1), Sized("BIT", Length(None), 1),
      Sized("VARCHAR2", OracleLength, 1), Sized("NVARCHAR2", OracleLength, 1),
      When(Within({"DEC", "FIXED"}), Advance & PrecisionAndScale & Make("DECIMAL", 2))>>
\* After the type: array bounds, and a parameter list that is dropped where it is closed.
Bounds ==
    Loop(<<When(At("["), Advance & MayBeAny(Numbers) & Tok("]") & Make("ARRAY", 1))>>) &
    Option("(", Try(Advance & Swallow({")"}, {"("}, {")"}) &
                    Cases(<<When(At(")"), Advance)>>, Miss), Nothing))
DataTypeRule ==
    Cases(<<When(At("?"), Shift),
            When(Ahead(<<{"BIT"}, {"VARYING"}>>), Advances(2) & Length(None) & Make("VARBINARY", 1)),
            When(Within(Signs \cup Strings \cup {Eof}), Fail)>>,
          Cases(KeywordTypes \o NamedTypes, Shift) & Bounds)
=============================================================================
