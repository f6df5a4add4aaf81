----------------------------- MODULE ExprWriter -----------------------------
(***************************************************************************)
(* The expressions and types as src/generator/sql_generator.rs writes them *)
(* in a dialect.  A tree is written as its pieces: words, trees to write   *)
(* in turn, <<"type", t>> for a data type and <<"condition", e>> for an    *)
(* expression where a condition is expected.  Quoting and layout are left  *)
(* out; the one space that matters is the missing one after a unary minus, *)
(* whose word is "-.".                                                     *)
(***************************************************************************)
EXTENDS PrimaryGrammar, SequencesExt

PostgresFamily == {"postgres", "redshift", "materialize", "risingwave"}
If(part, pieces) == IF part = None THEN <<>> ELSE pieces
Word(text) == <<W(text)>>
Listed(list) == Commas(Items(list))
Opt(part) == If(part, <<part>>)

\* gen_data_type: <<name, parameter, ...>>.
Params(list) ==
    LET given == Without(None, list) IN IF given = <<>> THEN <<>> ELSE Word("(") \o Commas(given) \o Word(")")
TSqlOr(type, d) == IF d \in TSql THEN type[1] ELSE type[2]
OracleTypes == ("BIGINT" :> <<"NUMBER", "(", "19", ")">>) @@ ("DOUBLE" :> <<"BINARY_DOUBLE">>) @@
               ("TEXT" :> <<"VARCHAR2", "(", "4000", ")">>) @@
               ("STRING" :> <<"VARCHAR2", "(", "4000", ")">>)
Large(t, d) ==
    IF d \in TSql THEN Ws(<<Kind(t), "(", "MAX", ")">>)
    ELSE IF d # "oracle" THEN Word("TEXT")
    ELSE IF Kind(t) = "VARCHAR" THEN Ws(OracleTypes["TEXT"]) ELSE Ws(<<"NVARCHAR2", "(", "2000", ")">>)
TypeName(t, d) ==
    CASE Kind(t) = "NCHAR" -> TSqlOr(<<"NCHAR", "CHAR">>, d)
      [] Kind(t) = "NVARCHAR" -> TSqlOr(<<"NVARCHAR", "VARCHAR">>, d)
      [] Kind(t) = "VARCHAR2" -> IF d = "oracle" THEN "VARCHAR2" ELSE "VARCHAR"
      [] Kind(t) = "NVARCHAR2" -> IF d = "oracle" THEN "NVARCHAR2" ELSE TSqlOr(<<"NVARCHAR", "VARCHAR">>, d)
      [] OTHER -> Kind(t)
TypePieces(t, d) ==
    CASE Kind(t) \in {"VARCHAR", "NVARCHAR"} /\ t[2] = <<"MAX">> -> Large(t, d)
      [] d = "oracle" /\ Kind(t) \in DOMAIN OracleTypes -> Ws(OracleTypes[Kind(t)])
      [] d = "oracle" /\ t = <<"VARCHAR", None>> -> Ws(OracleTypes["TEXT"])
      [] d \in TSql /\ t = <<"VARBINARY", None>> -> Ws(<<"VARBINARY", "(", "MAX", ")">>)
      [] Kind(t) = "TIMESTAMP" ->
            Word("TIMESTAMP") \o Params(<<t[2]>>) \o If(t[3], Ws(<<"WITH", "TIME", "ZONE">>))
      [] Kind(t) = "ARRAY" ->
            IF t[2] = None THEN Word("ARRAY")
            ELSE IF d \in PostgresFamily THEN <<<<"type", t[2]>>>> \o Ws(<<"[", "]">>)
            ELSE Ws(<<"ARRAY", "<">>) \o <<<<"type", t[2]>>>> \o Word(">")
      [] OTHER -> Word(TypeName(t, d)) \o Params(Tail(t))

----------------------------------------------------------------------------
\* Operators.  sqlite and mysql put parentheses where the target binds differently.
BinaryOps == {"+", "-", "*", "/", "%", "=", "<>", "<", ">", "<=", ">=", "AND", "OR", "||", "&", "|",
              "^", "<<", ">>", "#>", "#>>", "@>", "<@"}
Compared == {"=", "<>", "<", ">", "<=", ">="}
Connectives == {"AND", "OR"}
Binds(op, d) ==   \* binary_precedence; 0 where it has none
    LET levels == ArithmeticLevels[d]
        at == {l \in DOMAIN levels : op \in levels[l]}
    IN IF at # {} THEN 10 * (CHOOSE l \in at : TRUE)
       ELSE CASE op = "OR" -> 1 [] op = "AND" -> 3 [] op \in Compared -> 5 [] OTHER -> 0
WrapsLooser(child, parent, right, d) ==   \* mutant: an operand on the right binds like one on the left
    /\ d \in Precedences /\ Kind(child) \in BinaryOps
    /\ \/ Binds(parent, d) = 0 \/ Binds(Kind(child), d) = 0
       \/ Binds(Kind(child), d) < Binds(parent, d)
Wraps(child, parent, right, d) ==
    /\ d \in Precedences /\ Kind(child) \in BinaryOps
    /\ \/ Binds(parent, d) = 0 \/ Binds(Kind(child), d) = 0
       \/ Binds(Kind(child), d) < Binds(parent, d)
       \/ right /\ Binds(Kind(child), d) = Binds(parent, d)
Operand(child, parent, right, d) ==
    IF Wraps(child, parent, right, d) THEN <<W("("), child, W(")")>> ELSE <<child>>
BinaryAsRead(e, d) ==   \* mutant: || has the same meaning in every dialect
    Operand(e[2], Kind(e), FALSE, d) \o Word(Kind(e)) \o Operand(e[3], Kind(e), TRUE, d)
BinaryPieces(e, d) ==
    IF d = "mysql" /\ Kind(e) = "||" THEN Calling("CONCAT", <<e[2], e[3]>>)
    ELSE Operand(e[2], Kind(e), FALSE, d) \o Word(Kind(e)) \o Operand(e[3], Kind(e), TRUE, d)
\* <<"AnyOp", <<op, left, right>>>>; the parentheses stand for those of a subquery.
QuantifiedPieces(e) ==
    LET right == e[2][3]
    IN <<e[2][2]>> \o Ws(<<Kind(e[2]), IF Kind(e) = "AnyOp" THEN "ANY" ELSE "ALL", "(">>) \o
       <<IF Kind(right) = "Subquery" THEN right[2] ELSE right>> \o Word(")")
PrefixWords == [NOT |-> "NOT", Minus |-> "-.", Plus |-> "+", BitwiseNot |-> "~"]

\* gen_condition: where a bare boolean is no condition.
Predicates0 == {"Between", "IsNull", "IsTrue", "IsFalse", "InList", "InSubquery", "Like", "ILike",
                "SimilarTo", "Exists", "AnyOp", "AllOp"}
Cond(e) == <<"condition", e>>
ConditionPieces(e, d) ==
    CASE d \notin TSql \cup {"oracle"} -> <<e>>
      [] Kind(e) \in Connectives -> <<Cond(e[2]), W(Kind(e)), Cond(e[3])>>
      [] Kind(e) = "NOT" -> <<W("NOT"), Cond(e[2])>>
      [] Kind(e) = "Nested" -> <<W("("), Cond(e[2]), W(")")>>
      [] Kind(e) \in Compared \cup Predicates0 -> <<e>>
      [] Kind(e) = "TRUE" -> Ws(<<"1", "=", "1">>)
      [] Kind(e) = "FALSE" -> Ws(<<"1", "=", "0">>)
      [] OTHER -> <<e>> \o IF d \in TSql THEN Ws(<<"=", "1">>) ELSE <<>>

----------------------------------------------------------------------------
\* Predicates, whose second part is negated; CASE; windows.
Not(negated) == If(negated, Word("NOT"))
Escape(e) == If(e[5], <<W("ESCAPE"), e[5]>>)
PredicatePieces(e) ==
    CASE Kind(e) = "Between" -> <<e[2]>> \o Not(e[3]) \o <<W("BETWEEN"), e[4], W("AND"), e[5]>>
      [] Kind(e) = "InList" -> <<e[2]>> \o Not(e[3]) \o Ws(<<"IN", "(">>) \o Listed(e[4]) \o Word(")")
      [] Kind(e) = "InSubquery" -> <<e[2]>> \o Not(e[3]) \o Ws(<<"IN", "(">>) \o <<e[4], W(")")>>
      [] Kind(e) = "Like" -> <<e[2]>> \o Not(e[3]) \o <<W("LIKE"), e[4]>> \o Escape(e)
      [] Kind(e) = "ILike" -> <<e[2]>> \o Not(e[3]) \o <<W("ILIKE"), e[4]>> \o Escape(e)
      [] Kind(e) = "SimilarTo" ->
            <<e[2]>> \o Not(e[3]) \o <<W("SIMILAR"), W("TO"), e[4]>> \o Escape(e)
      [] Kind(e) = "Exists" -> Not(e[3]) \o Ws(<<"EXISTS", "(">>) \o <<e[2], W(")")>>
      [] Kind(e) = "IsNull" -> <<e[2], W("IS")>> \o Not(e[3]) \o Word("NULL")
      [] Kind(e) = "IsTrue" -> <<e[2], W("IS")>> \o Not(e[3]) \o Word("TRUE")
      [] Kind(e) = "IsFalse" -> <<e[2], W("IS")>> \o Not(e[3]) \o Word("FALSE")
PredicateKinds == Predicates0 \ {"AnyOp", "AllOp"}
\* The condition of a CASE without operand is a condition, that of one with an operand is not.
WhenPieces(c) ==
    LET when(w) == <<W("WHEN"), IF c[2] = None THEN Cond(w[2]) ELSE w[2], W("THEN"), w[3]>>
    IN FoldLeft(LAMBDA ps, w : ps \o when(w), <<>>, Items(c[3]))
CasePieces(c) ==
    Word("CASE") \o Opt(c[2]) \o WhenPieces(c) \o If(c[4], <<W("ELSE"), c[4]>>) \o Word("END")

OrderPieces(item) ==
    <<item[2]>> \o If(item[3], Word("DESC")) \o If(item[4], Ws(<<"NULLS">>) \o <<item[4]>>)
OrderedBy(list) == IF Items(list) = <<>> THEN <<>> ELSE Ws(<<"ORDER", "BY">>) \o Listed(list)
BoundPieces(b) ==
    IF Len(b) = 1 THEN Ws(<<"CURRENT", "ROW">>)
    ELSE (IF b[2] = None THEN Word("UNBOUNDED") ELSE <<b[2]>>) \o
         Word(IF Kind(b) = "Preceding" THEN "PRECEDING" ELSE "FOLLOWING")
FramePieces(f) ==
    <<f[2]>> \o (IF f[4] = None THEN BoundPieces(f[3])
                 ELSE Word("BETWEEN") \o BoundPieces(f[3]) \o Word("AND") \o BoundPieces(f[4]))
WindowPieces(w) ==   \* gen_window_spec
    Opt(w[2]) \o
    (IF Items(w[3]) = <<>> THEN <<>> ELSE Ws(<<"PARTITION", "BY">>) \o Listed(w[3])) \o
    OrderedBy(w[4]) \o If(w[5], FramePieces(w[5]))
OverPieces(filter, over) ==
    If(filter, Ws(<<"FILTER", "(", "WHERE">>) \o <<filter, W(")")>>) \o
    If(over, Word("OVER") \o
             IF over[2] # None /\ Items(over[3]) = <<>> /\ Items(over[4]) = <<>> /\ over[5] = None
             THEN <<over[2]>> ELSE Word("(") \o WindowPieces(over) \o Word(")"))
\* <<"Function", name, args, distinct, order_by, within_group, filter, over>>.
FunctionPieces(f) ==
    <<f[2], W("(")>> \o If(f[4], Word("DISTINCT")) \o Listed(f[3]) \o
    (IF f[6] = None THEN OrderedBy(f[5]) ELSE <<>>) \o Word(")") \o
    (IF f[6] # None /\ Items(f[5]) # <<>>
     THEN Ws(<<"WITHIN", "GROUP", "(">>) \o OrderedBy(f[5]) \o Word(")") ELSE <<>>) \o
    OverPieces(f[7], f[8])

----------------------------------------------------------------------------
\* Casts and dates.  PostgreSQL's postfix cast has no parentheses.
LiteralTypes == {"DATE", "TIMESTAMP", "TIME"}
CastPieces(e, d) ==
    CASE Kind(e[2]) \in Strings /\ Kind(e[3]) \in LiteralTypes /\ d \notin MySql \cup TSql ->
            <<W(Kind(e[3])), e[2]>>
      [] d = "oracle" /\ e[3] \in {<<"CLOB">>, <<"NCLOB">>} ->
            Calling(IF Kind(e[3]) = "CLOB" THEN "TO_CLOB" ELSE "TO_NCLOB", <<e[2]>>)
      [] d \in PostgresFamily -> <<e[2], W("::"), <<"type", e[3]>>>>
      [] OTHER -> Ws(<<"CAST", "(">>) \o <<e[2], W("AS"), <<"type", e[3]>>, W(")")>>
DatePart == [YEAR |-> "YEAR", DOY |-> "DAYOFYEAR", WEEK |-> "ISO_WEEK"]
OracleFormats == [QUARTER |-> "'Q'", WEEK |-> "'IW'", DOY |-> "'DDD'"]
ExtractPieces(e, d) ==   \* <<"Extract", field, expr>>
    LET field == Kind(e[2])
    IN CASE d \in TSql /\ field = "EPOCH" ->
               Ws(<<"DATEDIFF", "(", "SECOND", ",", "'1970-01-01'", ",">>) \o <<e[3], W(")")>>
         [] d \in TSql /\ field = "DOW" ->
               Ws(<<"(", "DATEPART", "(", "WEEKDAY", ",">>) \o <<e[3]>> \o
               Ws(<<")", "+", "@", "@", "DATEFIRST", "-", "1", ")", "%", "7">>)
         [] d \in TSql ->
               Calling("DATEPART", <<W(IF field \in DOMAIN DatePart THEN DatePart[field] ELSE field), e[3]>>)
         [] d = "oracle" /\ field \in DOMAIN OracleFormats ->
               Ws(<<"TO_NUMBER", "(", "TO_CHAR", "(">>) \o <<e[3]>> \o
               Ws(<<",", OracleFormats[field], ")", ")">>)
         [] d = "oracle" /\ field = "DOW" ->
               Ws(<<"MOD", "(", "TRUNC", "(">>) \o <<e[3]>> \o
               Ws(<<")", "-", "DATE", "'1970-01-04'", ",", "7", ")">>)
         [] OTHER -> Ws(<<"EXTRACT", "(", field, "FROM">>) \o <<e[3], W(")")>>
ZonePieces(e, d) ==
    IF d = "oracle"
    THEN Ws(<<"FROM_TZ", "(", "CAST", "(">>) \o <<e[2]>> \o Ws(<<"AS", "TIMESTAMP", ")", ",">>) \o
         <<e[3], W(")")>>
    ELSE <<e[2]>> \o Ws(<<"AT", "TIME", "ZONE">>) \o <<e[3]>>

Booleans(t, d) == IF d \in TSql \cup {"oracle"} /\ t \in {"TRUE", "FALSE"}
                  THEN IF t = "TRUE" THEN "1" ELSE "0" ELSE t
ExprPieces(e, d) ==
    CASE Len(e) = 1 -> Word(Booleans(Kind(e), d))
      [] Kind(e) = "type" -> TypePieces(e[2], d)
      [] Kind(e) = "condition" -> ConditionPieces(e[2], d)
      [] Kind(e) = "Column" -> If(e[2], <<e[2], W(".")>>) \o <<e[3]>>
      [] Kind(e) = "Dotted" -> <<e[2], W("."), e[3]>>
      [] Kind(e) = "QualifiedWildcard" -> <<e[2], W("."), W("*")>>
      [] Kind(e) \in {"@", "@@", ":"} -> Word(Kind(e)) \o Opt(e[2])
      [] Kind(e) \in BinaryOps -> BinaryPieces(e, d)
      [] Kind(e) \in DOMAIN PrefixWords -> <<W(PrefixWords[Kind(e)]), e[2]>>
      [] Kind(e) \in {"AnyOp", "AllOp"} -> QuantifiedPieces(e)
      [] Kind(e) \in PredicateKinds -> PredicatePieces(e)
      [] Kind(e) = "Case" -> CasePieces(e)
      [] Kind(e) \in {"Nested", "Subquery"} -> <<W("("), e[2], W(")")>>
      [] Kind(e) = "Tuple" -> Word("(") \o Listed(e[2]) \o Word(")")
      [] Kind(e) = "ArrayLiteral" -> Ws(<<"ARRAY", "[">>) \o Listed(e[2]) \o Word("]")
      [] Kind(e) = "ArrayIndex" -> <<e[2], W("["), e[3], W("]")>>
      [] Kind(e) = "JsonAccess" -> <<e[2], W(IF e[4] = None THEN "->" ELSE "->>"), e[3]>>
      [] Kind(e) = "Function" -> FunctionPieces(e)
      [] Kind(e) = "TypedFunction" -> TypedPieces(e[2], d) \o OverPieces(e[3], e[4])
      [] Kind(e) = "Cast" -> CastPieces(e, d)
      [] Kind(e) = "TryCast" ->
            Ws(<<"TRY_CAST", "(">>) \o <<e[2], W("AS"), <<"type", e[3]>>, W(")")>>
      [] Kind(e) = "Extract" -> ExtractPieces(e, d)
      [] Kind(e) = "Interval" -> <<W("INTERVAL"), e[2]>> \o If(e[3], Ws(e[3]))
      [] Kind(e) = "AtTimeZone" -> ZonePieces(e, d)
      [] Kind(e) = "NullIf" -> Calling("NULLIF", <<e[2], e[3]>>)
      [] Kind(e) = "order" -> OrderPieces(e)
=============================================================================
