---------------------------- MODULE ExprGrammar ----------------------------
(***************************************************************************)
(* The expressions of src/parser/sql_parser.rs, one rule of Descent for    *)
(* each parsing function or for each branch of a long one.  The queries    *)
(* inside expressions are the rule Query of QueryGrammar.                  *)
(***************************************************************************)
EXTENDS Descent

Precedences == {"mysql", "sqlite"}   \* the dialects of src/precedence.rs

Binary(op, rule) == Advance & Call(rule) & Make(op, 2)
\* Expr::Function { name, args, .. } of the name and the list of arguments on the stack.
Plain == Push(None) & Empty & Push(None) & Push(None) & Push(None) & Make("Function", 7)
Column == Push(None) & Name & Make("Column", 2)
\* `if self.match_token(As) && self.is_name_token() { self.advance() }`
SwallowedAlias == Option("AS", Advance & MayBeName)
QueryAhead == Within({"SELECT", "WITH"})
Subquery == Call("Query") & Make("Subquery", 1)
Arguments == Cases(<<When(At(")"), Empty)>>, ListOf(Call("Argument")))
TimeZoneAhead == Ahead(<<{"AT"}, {"TIME"}, {"ZONE"}>>)
Advances(n) == CASE n = 1 -> Advance [] n = 2 -> Advance & Advance
                 [] n = 3 -> Advance & Advance & Advance [] n = 4 -> Advance & Advance & Advance & Advance

----------------------------------------------------------------------------
\* parse_postfix: what follows a primary, which is on the stack.
JsonAccess == Push(None) & Make("JsonAccess", 3)
JsonText == Push(Yes) & Make("JsonAccess", 3)
Cast == Call("DataType") & Make("Cast", 2)
\* [i], [], and slices, whose other bounds are dropped.
UpTo == Cases(<<When(Within({"]", ":"}), Nothing)>>, Call("Expr") & Pop)
Step2 == Option(":", Advance & Cases(<<When(At("]"), Nothing)>>, Call("Expr") & Pop))
Subscript ==
    Advance &
    Cases(<<When(At("]"), Advance & Push(<<"NULL">>)),
            When(At(":"), Advance & UpTo & Step2 & Tok("]") & Push(<<"NULL">>))>>,
          Call("Expr") & Option(":", Advance & UpTo & Step2) & Tok("]")) &
    Make("ArrayIndex", 2)
HashPath(op) == Advance & Call("Primary") & Loop(<<When(At("::"), Advance & Cast)>>) & Make(op, 2)
PathPart == Shift & JsonAccess
\* expr.method(args) is method(expr, args); f(a)(b) is f(a, b).
Method == Advance & Name & Swap & Make("list", 1) & Tok("(") & Arguments & Tok(")") & Extend & Plain
Reapplied == Advance & Arguments & Tok(")") & Graft
OperatorPostfixes ==
    <<When(At("::"), Advance & Cast),
      When(At("["), Subscript),
      When(At("->"), Advance & Call("Primary") & JsonAccess),
      When(At("->>"), Advance & Call("Primary") & JsonText),
      When(At("#>"), HashPath("#>")), When(At("#>>"), HashPath("#>>")),
      When(After({"Column", "JsonAccess", "Cast", "ArrayIndex"}, Identified(2, At(":"))),
           Advance & PathPart)>>
WordPostfixes ==
    <<When(At("COLLATE"), Advance & Cases(<<When(Within(Strings), Advance)>>, MayBeName)),
      When(TimeZoneAhead, Advances(3) & Call("Primary") & Make("AtTimeZone", 2)),
      When(After({"Function", "TypedFunction"}, At("EXPORT_STATE")), Advance)>>
DotPostfixes ==
    <<When(Ahead(<<{"."}, {":", "^"}>>),
           Advance & MayBe("^") & MayBe(":") &
           Cases(<<When(Named(1, Always), PathPart), When(Within(Types \cup {"NULL"}), PathPart)>>,
                 Fail)),
      When(Ahead(<<{"."}, Numbers>>), Advance & Shift & Make("ArrayIndex", 2)),
      When(Identified(2, Ahead(<<{"."}, {}, {"("}>>)), Method),
      When(Identified(2, At(".")), Advance & PathPart),
      When(After({"Function"}, At("(")), Reapplied)>>
Postfixes == OperatorPostfixes \o WordPostfixes \o DotPostfixes
\* IGNORE NULLS goes unread; OVER and FILTER are for functions, and dropped elsewhere.
NullsAhead == Ahead(<<{"IGNORE", "RESPECT"}, {"NULL", "NULLS"}>>)
Over ==
    Advance &
    Cases(<<When(At("("), Advance & Call("WindowSpec") & Tok(")"))>>,
          Name & Empty & Empty & Push(None) & Make("WindowSpec", 4)) &
    Attach([Function |-> 8, TypedFunction |-> 4])
Filter == Advance & Tok("(") & Tok("WHERE") & Call("Expr") & Tok(")") &
          Attach([Function |-> 7, TypedFunction |-> 3])
PostfixRule ==
    Call("Primary") & Loop(Postfixes) &
    Cases(<<When(NullsAhead, Advances(2))>>, Nothing) &
    Option("OVER", Over) & Option("FILTER", Filter & Option("OVER", Over))

----------------------------------------------------------------------------
\* Arithmetic.  An operand is read in place, what follows an operator by a call.
Prefix(kind) == Advance & Call("Unary") & Make(kind, 1)
UnaryRule == Cases(<<When(At("-"), Prefix("Minus")), When(At("+"), Prefix("Plus")),
                     When(At("~"), Prefix("BitwiseNot"))>>, PostfixRule)
MultiplicationRule ==
    UnaryRule &
    Loop(<<When(Ahead(<<{"/"}, {"/"}>>), Advance & Binary("/", "Unary")),
           When(Ahead(<<{"&"}, {"&", "<", ">"}>>), Miss),
           When(Within({"*", "/", "%", "&"}), Infix("Unary")),
           When(At("DIV"), Binary("/", "Unary")), When(At("MOD"), Binary("%", "Unary"))>>)
DoubleAnd == In({"mysql"}, Ahead(<<{"&"}, {"&"}>>))
\* sqlite and mysql climb the levels of arithmetic_precedence, the loosest
\* first; the rule Above(n) reads the operators that bind tighter than level n.
ArithmeticLevels ==
    [sqlite |-> <<{"|", "&", "<<", ">>"}, {"+", "-", "^"}, {"*", "/", "%"}, {"||"}>>,
     mysql |-> <<{"|"}, {"&"}, {"<<", ">>"}, {"+", "-"}, {"*", "/", "%"}, {"^"}>>]
Above(n) == <<"Arithmetic", "Above1", "Above2", "Above3", "Above4", "Above5", "Above6">>[n + 1]
LevelsAbove(n, d) ==
    LET levels == ArithmeticLevels[d]
        times == CHOOSE l \in DOMAIN levels : "*" \in levels[l]
        above == SubSeq(levels, n + 1, Len(levels))
        operators == [i \in DOMAIN above |-> When(In({d}, Within(above[i])), Infix(Above(n + i)))]
        words == <<When(In({d}, At("DIV")), Binary("/", Above(times))),
                   When(In({d}, At("MOD")), Binary("%", Above(times)))>>
    IN operators \o IF times > n THEN words ELSE <<>>
ArithmeticRule(n) ==
    UnaryRule & Loop(<<When(DoubleAnd, Miss)>> \o
                         LevelsAbove(n, "sqlite") \o LevelsAbove(n, "mysql"))
\* The other dialects; a sign before the end of an operand is skipped.
AdditionRule ==
    Cases(<<When(In(Precedences, Always), Call("Arithmetic"))>>,
          MultiplicationRule &
          Loop(<<When(Ahead(<<{"|"}, {">"}>>), Miss), When(Ahead(<<{"^"}, {"@"}>>), Miss),
                 When(Ahead(<<{"<<", ">>"}, {"|"}>>), Miss),
                 When(Ahead(<<{"+", "-"}, {",", ")", "]", ";", Eof}>>), Advance),
                 When(Within({"+", "-", "||", "|", "^", "<<", ">>"}), Infix("Multiplication"))>>))

----------------------------------------------------------------------------
\* parse_comparison: each case reads one predicate whose left side is on the stack.
\* Operators of PostgreSQL that are read as `=`.
AsEqual(n) == Advances(n) & Call("Addition") & Make("=", 2)
ForeignComparisons ==
    <<When(At("OVERLAPS"), AsEqual(1)),
      When(Ahead(<<{"MEMBER"}, {"OF"}>>), AsEqual(2)),
      When(Ahead(<<{"<"}, {"->"}>>), AsEqual(2)),
      When(Ahead(<<{"&"}, {"&"}>>), AsEqual(2)),
      When(Ahead(<<{"&"}, {"<", ">"}, {"|"}>>), AsEqual(3)),
      When(Ahead(<<{"&"}, {"<", ">"}>>), AsEqual(2)),
      When(Ahead(<<{"@"}, {"@", "?"}>>), AsEqual(2)),
      When(Ahead(<<{"|"}, {">"}>>), AsEqual(2)),
      When(Ahead(<<{"<"}, {"|"}>>), AsEqual(2)),
      When(Ahead(<<{"<<", ">>"}, {"|"}>>), AsEqual(2)),
      When(Ahead(<<{"^"}, {"@"}>>), AsEqual(2)),
      When(Ahead(<<{"<="}, {">"}>>), AsEqual(2))>>
Typed3(variant) == Make(variant, 3) & Push(None) & Push(None) & Make("TypedFunction", 3)
Regexp == Cases(<<When(At("*"), Advance & Call("Addition") & Push(<<"'i'">>))>>,
                Call("Addition") & Push(None)) & Typed3("RegexpLike")
TildeComparisons ==
    <<When(At("!~"), Advance & Regexp & Make("NOT", 1)),
      When(Ahead(<<{"~"}, {"=", "<", ">", "<=", ">=", "~"}>>),
           Advances(2) & MayBe("*") & Call("Addition") & Make("=", 2)),
      When(At("~"), Advance & Regexp)>>
\* A comparison, or one with a quantifier: ANY (SOME) and ALL.
Quantified(op, kind) ==
    Advance & Tok("(") & Cases(<<When(QueryAhead, Subquery)>>, Call("Expr")) & Tok(")") &
    Make(op, 2) & Make(kind, 1)
Comparison(op) ==
    When(At(op), Advance & (IF op = "=" THEN MayBe("=") ELSE Nothing) &
                 Cases(<<When(Within({"ANY", "SOME"}), Quantified(op, "AnyOp")),
                         When(At("ALL"), Quantified(op, "AllOp"))>>,
                       Call("Addition") & Make(op, 2)))
PlainComparisons ==
    LET ops == <<"=", "<>", "<", ">", "<=", ">=", "@>", "<@">>
    IN [i \in DOMAIN ops |-> Comparison(ops[i])]
\* IS [NOT] TRUE, FALSE, DISTINCT FROM, JSON .., NULL: IS NOT DISTINCT FROM is read as =,
\* IS DISTINCT FROM as <>, IS JSON and IS DOCUMENT as IS NULL.
DistinctFrom(op) == Advance & Tok("FROM") & Pop & Call("Addition") & Make(op, 2)
IsOf(negated) ==
    Push(negated) &
    Cases(<<When(At("TRUE"), Advance & Make("IsTrue", 2)),
            When(At("FALSE"), Advance & Make("IsFalse", 2)),
            When(At("DISTINCT"), DistinctFrom(IF negated = Yes THEN "=" ELSE "<>")),
            When(Within({"JSON", "DOCUMENT", "UNKNOWN"}),
                 Advance & MayBeAny({"VALUE", "OBJECT", "SCALAR"}) &
                 Option("WITHOUT", Advance & Option("UNIQUE", Advance & MayBe("KEYS"))) &
                 Make("IsNull", 2))>>,
          Tok("NULL") & Make("IsNull", 2))
IsPredicate == Advance & Cases(<<When(At("NOT"), Advance & IsOf(Yes))>>, IsOf(None))
\* IN, after which negated is on the stack.
InPredicate ==
    Advance &
    Cases(<<When(Ahead(<<{"("}, {"SELECT", "WITH"}>>),
                 Advance & Call("Query") &
                 Cases(<<When(Named(1, Always), Advance)>>, SwallowedAlias) &
                 Tok(")") & Make("InSubquery", 3)),
            When(At("("), Advance & LooseList(Call("Expr")) & Tok(")") & Make("InList", 3))>>,
          Mark & Call("Primary") & Collect & Make("InList", 3))
PatternPredicate(kind) == Advance & Call("Addition") & Part("ESCAPE", Call("Primary")) & Make(kind, 4)
SimilarTo ==
    Advance & Tok("TO") & Call("Addition") & Part("ESCAPE", Call("Primary")) & Make("SimilarTo", 4)
RangePredicate == Advance & Call("Addition") & Tok("AND") & Call("Addition") & Make("Between", 4)
RegexpWords == {"REGEXP", "RLIKE", "GLOB", "IREGEXP"}
WordAsLike == Advance & Call("Addition") & Push(None) & Make("Like", 4)
Predicates ==
    <<When(At("IS"), IsPredicate),
      When(At("IN"), Push(None) & InPredicate),
      When(At("LIKE"), Push(None) & PatternPredicate("Like")),
      When(At("ILIKE"), Push(None) & PatternPredicate("ILike")),
      When(At("BETWEEN"), Push(None) & RangePredicate),
      When(Ahead(<<{"NOT"}, {"IN"}>>), Advance & Push(Yes) & InPredicate),
      When(Ahead(<<{"NOT"}, {"LIKE"}>>), Advance & Push(Yes) & PatternPredicate("Like")),
      When(Ahead(<<{"NOT"}, {"ILIKE"}>>), Advance & Push(Yes) & PatternPredicate("ILike")),
      When(Ahead(<<{"NOT"}, {"BETWEEN"}>>), Advance & Push(Yes) & RangePredicate),
      When(At("SIMILAR"), Push(None) & SimilarTo),
      When(Ahead(<<{"NOT"}, {"SIMILAR"}>>), Push(Yes) & Advance & SimilarTo),
      When(Within(RegexpWords), Push(None) & WordAsLike),
      When(Ahead(<<{"NOT"}, RegexpWords>>), Push(Yes) & Advance & WordAsLike)>>
ComparisonRule ==
    AdditionRule &
    Loop(<<When(DoubleAnd, Miss), When(Ahead(<<{"GLOBAL"}, {"IN", "NOT"}>>), Advance)>> \o
         ForeignComparisons \o TildeComparisons \o PlainComparisons \o Predicates)

----------------------------------------------------------------------------
\* NOT, AND, OR; then parse_expr.
NotRule == Cases(<<When(At("NOT"), Advance & Call("Not") & Make("NOT", 1))>>, ComparisonRule)
AndRule == NotRule & Loop(<<When(At("AND"), Infix("Not")),
                                When(DoubleAnd, Advance & Binary("AND", "Not"))>>)
OrRule == AndRule & Loop(<<When(At("OR"), Infix("And")),
                               When(In({"mysql"}, At("||")), Binary("OR", "And"))>>)
\* The operand (none) and the one WHEN of a CASE, of a condition and a result.
Whens(n) == Make("when", n) & Make("list", 1) & Push(None) & Swap
\* A name of an argument, `name := e`, `name => e`, is dropped; so is `name ->>`.
PositionalRule ==
    Cases(<<When(Named(1, Ahead(<<{}, {":"}, {"="}>>)), Advances(3)),
            When(Named(1, Ahead(<<{}, {"->>"}>>)), Advances(2)),
            When(Named(1, Ahead(<<{}, {"="}, {">"}>>)), Advances(3))>>, Nothing) &
    OrRule &
    Cases(<<When(Ahead(<<{":"}, {"="}>>), Advances(2) & Call("Expr") & Make("=", 2)),
            When(At("?"), Advance & OrRule &
                          Cases(<<When(At(":"), Advance & Whens(2) & Call("Expr") & Make("Case", 3))>>,
                                Pop))>>, Nothing)
\* parse_expr.  DuckDB's `lambda x, y: body` is given up when no colon follows the names.
LambdaRule ==
    Try(Advance & Push(<<"lambda">>) & Mark &
        Cases(<<When(Named(1, Always), Column)>>, Miss) &
        Loop(<<When(Named(2, At(",")), Advance & Column)>>) &
        Cases(<<When(At(":"), Advance & Call("Expr") & Collect & Plain)>>, Miss),
        PositionalRule)
ExprRule == Cases(<<When(At("lambda"), LambdaRule)>>, PositionalRule)

----------------------------------------------------------------------------
\* <<"WindowSpec", window_ref, partition_by, order_by, frame>>.
FrameStarts == {"PARTITION", "ORDER", "ROWS", "RANGE"}
WindowRef ==
    Cases(<<When(Within(FrameStarts), Push(None)),
            When(Named(1, Ahead(<<{}, FrameStarts \cup {")"}>>)), Name)>>, Push(None))
AliasedList == Mark & Call("Expr") & SwallowedAlias &
               Loop(<<When(Ahead(<<{","}, {")", "]"}>>), Advance & Miss),
                      When(At(","), Advance & Call("Expr") & SwallowedAlias)>>) & Collect
Frame ==
    LET Exclusion == Option("EXCLUDE",
            Advance & Cases(<<When(At("CURRENT"), Advance & MayBe("ROW")),
                              When(At("NO"), Advance & MayBe("OTHERS"))>>,
                            MayBeAny({"GROUP", "TIES"})))
    IN Shift & Cases(<<When(At("BETWEEN"), Advance & Call("FrameBound") & Tok("AND") &
                                          Call("FrameBound"))>>,
                     Call("FrameBound") & Push(None)) & Exclusion & Make("Frame", 3)
WindowSpecRule ==
    WindowRef &
    Cases(<<When(Within({"PARTITION", "DISTRIBUTE", "CLUSTER"}), Advance & Tok("BY") & AliasedList)>>,
          Empty) &
    Cases(<<When(Within({"ORDER", "SORT"}), Advance & Tok("BY") & Call("OrderItems"))>>, Empty) &
    Cases(<<When(Within({"ROWS", "RANGE"}), Frame)>>, Push(None)) & Make("WindowSpec", 4)
FrameSide == Cases(<<When(At("PRECEDING"), Advance & Make("Preceding", 1))>>,
                   Tok("FOLLOWING") & Make("Following", 1))
FrameBoundRule ==
    Cases(<<When(At("CURRENT"), Advance & MayBe("ROW") & Push(<<"CurrentRow">>)),
            When(At("UNBOUNDED"), Advance & Push(None) & FrameSide)>>,
          Call("Expr") & FrameSide)
=============================================================================
