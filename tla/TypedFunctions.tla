--------------------------- MODULE TypedFunctions ---------------------------
(***************************************************************************)
(* The functions the AST has a variant for.  Typed is the parser's         *)
(* try_typed_function, which reads the calls of many names as one variant; *)
(* TypedPieces is the generator's gen_typed_function, which spells a       *)
(* variant as the target dialect does.                                     *)
(*                                                                         *)
(* A function is <<variant, part, ...>>, a part a tree or None.  What is   *)
(* written is a sequence of pieces: words, and the trees still to write.   *)
(***************************************************************************)
EXTENDS Integers, Sequences, TLC

None == <<"none">>
Kind(tree) == tree[1]
W(text) == <<"word", text>>
Ws(texts) == [i \in DOMAIN texts |-> W(texts[i])]
Commas(trees) ==
    [i \in 1..2 * Len(trees) - 1 |-> IF i % 2 = 1 THEN trees[(i + 1) \div 2] ELSE W(",")]
Calling(name, args) == Ws(<<name, "(">>) \o Commas(args) \o Ws(<<")">>)
Without(t, trees) == SelectSeq(trees, LAMBDA x : x # t)

----------------------------------------------------------------------------
\* Reading.  Every name of an entry makes its variant: so many arguments it must have, so
\* many it may have; it drops the rest.
Each(names, variant, needs, may) == [n \in names |-> <<variant, needs, may>>]
DateNames ==
    Each({"STR_TO_TIME", "STR_TO_DATE", "TO_TIMESTAMP", "PARSE_TIMESTAMP", "PARSE_DATETIME"},
         "StrToTime", 2, 0) @@
    Each({"TIME_TO_STR", "DATE_FORMAT", "FORMAT_TIMESTAMP", "FORMAT_DATETIME", "TO_CHAR"},
         "TimeToStr", 2, 0) @@
    Each({"TS_OR_DS_TO_DATE"}, "TsOrDsToDate", 1, 0) @@
    Each({"CURRENT_DATE"}, "CurrentDate", 0, 0) @@
    Each({"CURRENT_TIME", "CURTIME"}, "CurrentTime", 0, 0) @@
    Each({"CURRENT_TIMESTAMP", "NOW", "GETDATE", "SYSDATE"}, "CurrentTimestamp", 0, 0) @@
    Each({"YEAR"}, "Year", 1, 0) @@ Each({"MONTH"}, "Month", 1, 0) @@
    Each({"DAY", "DAYOFMONTH"}, "Day", 1, 0)
StringNames ==
    Each({"SUBSTRING", "SUBSTR"}, "Substring", 2, 1) @@
    Each({"UPPER", "UCASE"}, "Upper", 1, 0) @@ Each({"LOWER", "LCASE"}, "Lower", 1, 0) @@
    Each({"REGEXP_LIKE", "RLIKE"}, "RegexpLike", 2, 1) @@
    Each({"REGEXP_EXTRACT", "REGEXP_SUBSTR"}, "RegexpExtract", 2, 1) @@
    Each({"REGEXP_REPLACE"}, "RegexpReplace", 3, 1) @@
    Each({"SPLIT", "STRING_SPLIT"}, "Split", 2, 0) @@ Each({"INITCAP"}, "Initcap", 1, 0) @@
    Each({"LENGTH", "LEN", "CHAR_LENGTH", "CHARACTER_LENGTH"}, "Length", 1, 0) @@
    Each({"REPLACE"}, "Replace", 3, 0) @@ Each({"REVERSE"}, "Reverse", 1, 0) @@
    Each({"LEFT"}, "Left", 2, 0) @@ Each({"RIGHT"}, "Right", 2, 0) @@
    Each({"LPAD"}, "Lpad", 2, 1) @@ Each({"RPAD"}, "Rpad", 2, 1)
AggregateNames ==
    Each({"MIN"}, "Min", 1, 0) @@ Each({"MAX"}, "Max", 1, 0) @@
    Each({"APPROX_DISTINCT", "APPROX_COUNT_DISTINCT"}, "ApproxDistinct", 1, 0) @@
    Each({"VARIANCE", "VAR_SAMP", "VAR"}, "Variance", 1, 0) @@
    Each({"VAR_POP"}, "VariancePop", 1, 0) @@
    Each({"STDDEV", "STDDEV_SAMP"}, "Stddev", 1, 0) @@ Each({"STDDEV_POP"}, "StddevPop", 1, 0)
CollectionNames ==
    Each({"ARRAY_CONTAINS"}, "ArrayContains", 2, 0) @@
    Each({"ARRAY_SIZE", "ARRAY_LENGTH", "CARDINALITY"}, "ArraySize", 1, 0) @@
    Each({"EXPLODE"}, "Explode", 1, 0) @@ Each({"FLATTEN"}, "Flatten", 1, 0) @@
    Each({"GENERATE_SERIES", "SEQUENCE"}, "GenerateSeries", 2, 1) @@
    Each({"JSON_EXTRACT", "JSON_VALUE"}, "JSONExtract", 2, 0) @@
    Each({"JSON_EXTRACT_SCALAR"}, "JSONExtractScalar", 2, 0) @@
    Each({"PARSE_JSON", "JSON_PARSE"}, "ParseJSON", 1, 0) @@
    Each({"JSON_FORMAT", "TO_JSON", "TO_JSON_STRING"}, "JSONFormat", 1, 0)
WindowNames ==
    Each({"ROW_NUMBER"}, "RowNumber", 0, 0) @@ Each({"RANK"}, "Rank", 0, 0) @@
    Each({"DENSE_RANK"}, "DenseRank", 0, 0) @@ Each({"NTILE"}, "NTile", 1, 0) @@
    Each({"LEAD"}, "Lead", 1, 2) @@ Each({"LAG"}, "Lag", 1, 2) @@
    Each({"FIRST_VALUE"}, "FirstValue", 1, 0) @@ Each({"LAST_VALUE"}, "LastValue", 1, 0)
MathNames ==
    Each({"ABS"}, "Abs", 1, 0) @@ Each({"CEIL", "CEILING"}, "Ceil", 1, 0) @@
    Each({"FLOOR"}, "Floor", 1, 0) @@ Each({"ROUND"}, "Round", 1, 1) @@
    Each({"LOG"}, "Log", 1, 1) @@ Each({"LN"}, "Ln", 1, 0) @@
    Each({"POW", "POWER"}, "Pow", 2, 0) @@ Each({"SQRT"}, "Sqrt", 1, 0) @@
    Each({"MOD"}, "Mod", 2, 0)
ConversionNames ==
    Each({"HEX", "TO_HEX"}, "Hex", 1, 0) @@ Each({"UNHEX", "FROM_HEX"}, "Unhex", 1, 0) @@
    Each({"MD5"}, "Md5", 1, 0) @@ Each({"SHA", "SHA1"}, "Sha", 1, 0)
ByPosition == DateNames @@ StringNames @@ AggregateNames @@ CollectionNames @@
              WindowNames @@ MathNames @@ ConversionNames

\* Variants that take all arguments, those that know DISTINCT, and the trims.
Lists == [n \in {"ARRAY_CONCAT", "ARRAY_CAT"} |-> "ArrayConcat"] @@
         [n \in {"GREATEST"} |-> "Greatest"] @@ [n \in {"LEAST"} |-> "Least"]
DistinctNames == [n \in {"SUM"} |-> "Sum"] @@ [n \in {"AVG"} |-> "Avg"] @@
                 [n \in {"ARRAY_AGG", "LIST", "COLLECT_LIST"} |-> "ArrayAgg"]
TrimTypes == [n \in {"TRIM"} |-> "BOTH"] @@ [n \in {"LTRIM"} |-> "LEADING"] @@
             [n \in {"RTRIM"} |-> "TRAILING"]

\* expr_to_datetime_field: a bare column or a string with the name of a field.
Fields == {"YEAR", "QUARTER", "MONTH", "WEEK", "DAY", "HOUR", "MINUTE", "SECOND", "MILLISECOND", "MICROSECOND"}
Quoted(field) == "'" \o field \o "'"
FieldOf(tree) ==
    CASE \E f \in Fields : tree \in {<<"Column", None, <<f>>>>, <<Quoted(f)>>} ->
            <<CHOOSE f \in Fields : tree \in {<<"Column", None, <<f>>>>, <<Quoted(f)>>}>>
      [] OTHER -> None

Arg(args, i) == IF i <= Len(args) THEN args[i] ELSE None
UnitLast(variant, args) == <<variant, args[1], args[2], FieldOf(Arg(args, 3))>>
UnitFirst(variant, args) ==
    IF Len(args) = 2 THEN <<variant, args[1], args[2], None>>
    ELSE IF variant = "DateAdd" THEN <<variant, args[3], args[2], FieldOf(args[1])>>
    ELSE <<variant, args[2], args[3], FieldOf(args[1])>>
DateUnits == [n \in {"DATE_ADD", "TIMESTAMPADD"} |-> "DateAdd"] @@
             [n \in {"DATE_DIFF", "TIMESTAMPDIFF"} |-> "DateDiff"] @@
             [n \in {"DATE_SUB", "DATESUB"} |-> "DateSub"]
DateUnitsFirst == [n \in {"DATEADD"} |-> "DateAdd"] @@ [n \in {"DATEDIFF"} |-> "DateDiff"]
Truncations == {"DATE_TRUNC", "DATETRUNC"}
Shas == {"SHA2", "SHA256", "SHA512"}

\* Where try_typed_function answers; elsewhere the call keeps its name.
IsTyped(name, args) ==
    \/ name \in DOMAIN ByPosition /\ Len(args) >= ByPosition[name][2]
    \/ name \in DOMAIN Lists \cup {"COUNT"}
    \/ name \in DOMAIN DistinctNames \cup DOMAIN TrimTypes \cup Shas \cup {"CONCAT_WS"}
       /\ Len(args) >= 1
    \/ name \in DOMAIN DateUnits \cup DOMAIN DateUnitsFirst /\ Len(args) >= 2
    \/ name \in Truncations /\ Len(args) >= 2 /\ \E i \in 1..2 : FieldOf(args[i]) # None

Typed(name, args, distinct) ==
    CASE name \in DOMAIN ByPosition ->
            [i \in 1..1 + ByPosition[name][2] + ByPosition[name][3] |->
                IF i = 1 THEN ByPosition[name][1] ELSE Arg(args, i - 1)]
      [] name \in DOMAIN Lists -> <<Lists[name]>> \o args
      [] name = "CONCAT_WS" -> <<"ConcatWs">> \o args
      [] name = "COUNT" ->
            <<"Count", IF args = <<>> THEN <<"*">> ELSE args[1], distinct>>
      [] name \in DOMAIN DistinctNames -> <<DistinctNames[name], args[1], distinct>>
      [] name \in DOMAIN TrimTypes -> <<"Trim", <<TrimTypes[name]>>, Arg(args, 2), args[1]>>
      [] name \in DOMAIN DateUnits -> UnitLast(DateUnits[name], args)
      [] name \in DOMAIN DateUnitsFirst -> UnitFirst(DateUnitsFirst[name], args)
      [] name \in Truncations ->
            IF FieldOf(args[1]) # None THEN <<"DateTrunc", FieldOf(args[1]), args[2]>>
            ELSE <<"DateTrunc", FieldOf(args[2]), args[1]>>
      [] name \in Shas -> <<"Sha2", args[1], IF Len(args) = 1 THEN <<"256">> ELSE args[2]>>

----------------------------------------------------------------------------
\* Writing.  The dialects gen_typed_function tells apart, with the families it names.
TSql == {"tsql", "fabric"}
MySql == {"mysql", "singlestore", "doris", "starrocks"}
HiveFamily == {"hive", "spark", "databricks"}
PrestoFamily == {"presto", "trino", "athena"}

\* f(part, ...), whose absent parts are left out, with its DISTINCT.
Call0(name, parts) == Calling(name, Without(None, parts))
CallDistinct(name, f) ==
    Ws(<<name, "(">>) \o (IF f[3] = None THEN <<>> ELSE Ws(<<"DISTINCT">>)) \o
    <<f[2]>> \o Ws(<<")">>)
OrDay(unit) == W(IF unit = None THEN "DAY" ELSE unit[1])
Unit(unit) == IF unit = None THEN <<>> ELSE <<W(unit[1])>>
Niladic(name) == Ws(<<name, "(", ")">>)
CastTo(pieces, type) == Ws(<<"CAST", "(">>) \o pieces \o Ws(<<"AS", type, ")">>)
FieldCall(field, f, d) ==
    IF d \in TSql THEN Calling(field, <<f[2]>>)
    ELSE Ws(<<"EXTRACT", "(", field, "FROM">>) \o <<f[2]>> \o Ws(<<")">>)

\* <<"DateAdd", expr, interval, unit>>, <<"DateSub", ...>>, <<"DateDiff", start, end, unit>>.
DateAddPieces(f, d) ==
    CASE d \in TSql \cup {"snowflake"} -> Calling("DATEADD", <<OrDay(f[4]), f[3], f[2]>>)
      [] d = "bigquery" ->
            Ws(<<"DATE_ADD", "(">>) \o <<f[2]>> \o Ws(<<",", "INTERVAL">>) \o
            <<f[3], OrDay(f[4])>> \o Ws(<<")">>)
      [] OTHER -> Calling("DATE_ADD", <<f[2], f[3]>> \o Unit(f[4]))
DateSubPieces(f, d) ==
    CASE d \in TSql \cup {"snowflake"} ->
            Ws(<<"DATEADD", "(">>) \o <<OrDay(f[4])>> \o Ws(<<",", "-.", "(">>) \o <<f[3]>> \o
            Ws(<<")", ",">>) \o <<f[2]>> \o Ws(<<")">>)
      [] d = "bigquery" ->
            Ws(<<"DATE_SUB", "(">>) \o <<f[2]>> \o Ws(<<",", "INTERVAL">>) \o
            <<f[3], OrDay(f[4])>> \o Ws(<<")">>)
      [] OTHER -> Calling("DATE_SUB", <<f[2], f[3]>> \o Unit(f[4]))
DateDiffPieces(f, d) ==
    CASE d \in TSql \cup {"snowflake"} -> Calling("DATEDIFF", <<OrDay(f[4]), f[2], f[3]>>)
      [] d = "bigquery" -> Calling("DATE_DIFF", <<f[3], f[2], OrDay(f[4])>>)
      [] OTHER -> Calling("DATEDIFF", <<f[2], f[3]>> \o Unit(f[4]))
DateTruncPieces(f, d) ==
    CASE d \in TSql -> Calling("DATETRUNC", <<W(f[2][1]), f[3]>>)
      [] d = "oracle" -> Calling("TRUNC", <<f[3], W(Quoted(f[2][1]))>>)
      [] OTHER -> Calling("DATE_TRUNC", <<W(Quoted(f[2][1])), f[3]>>)
NowPieces(f, d) ==
    CASE Kind(f) = "CurrentTimestamp" ->
            IF d \in TSql THEN Niladic("GETDATE")
            ELSE IF d = "oracle" THEN Ws(<<"CURRENT_TIMESTAMP">>)
            ELSE IF d \in MySql \cup {"postgres", "duckdb", "sqlite", "redshift"}
            THEN Niladic("NOW") ELSE Niladic("CURRENT_TIMESTAMP")
      [] Kind(f) = "CurrentDate" ->
            IF d \in TSql THEN CastTo(Niladic("GETDATE"), "DATE")
            ELSE IF d \in MySql \cup HiveFamily THEN Niladic("CURRENT_DATE")
            ELSE Ws(<<"CURRENT_DATE">>)
      [] OTHER ->
            IF d \in TSql THEN CastTo(Niladic("GETDATE"), "TIME")
            ELSE IF d \in MySql \cup HiveFamily THEN Niladic("CURRENT_TIME")
            ELSE Ws(<<"CURRENT_TIME">>)

\* <<"Trim", type, chars, expr>>: LTRIM and RTRIM where the dialect has no TRIM(.. FROM ..).
TrimPieces(f, d) ==
    IF d \in {"snowflake", "bigquery", "sqlite", "duckdb"} \/ (d \in TSql \cup {"hive"} /\ f[3] = None)
    THEN Call0(CHOOSE n \in DOMAIN TrimTypes : TrimTypes[n] = Kind(f[2]), <<f[4], f[3]>>)
    ELSE Ws(<<"TRIM", "(">>) \o
         (IF f[2] = <<"BOTH">> THEN <<>> ELSE <<W(Kind(f[2]))>>) \o
         (IF f[3] = None THEN <<>> ELSE <<f[3]>>) \o
         (IF f[3] = None /\ f[2] = <<"BOTH">> THEN <<>> ELSE Ws(<<"FROM">>)) \o
         <<f[4]>> \o Ws(<<")">>)

\* The names of the variants that are written as a call of their parts in order, by dialect.
DateSpelling(variant, d) ==
    CASE variant = "StrToTime" ->
            IF d \in MySql THEN "STR_TO_DATE"
            ELSE IF d = "bigquery" THEN "PARSE_TIMESTAMP" ELSE "TO_TIMESTAMP"
      [] variant = "TimeToStr" ->
            IF d \in MySql \cup HiveFamily THEN "DATE_FORMAT"
            ELSE IF d = "bigquery" THEN "FORMAT_TIMESTAMP"
            ELSE IF d \in TSql THEN "FORMAT" ELSE "TO_CHAR"
StringSpelling(variant, d) ==
    CASE variant = "Substring" ->
            IF d \in {"oracle", "sqlite"} \cup HiveFamily \cup MySql THEN "SUBSTR" ELSE "SUBSTRING"
      [] variant = "RegexpExtract" ->
            IF d \in {"bigquery"} \cup HiveFamily THEN "REGEXP_EXTRACT" ELSE "REGEXP_SUBSTR"
      [] variant = "Split" -> IF d \in TSql THEN "STRING_SPLIT" ELSE "SPLIT"
      [] variant = "Length" -> IF d \in TSql \cup {"bigquery", "snowflake"} THEN "LEN" ELSE "LENGTH"
AggregateSpelling(variant, d) ==
    CASE variant = "ArrayAgg" ->
            IF d = "duckdb" THEN "LIST" ELSE IF d \in HiveFamily THEN "COLLECT_LIST" ELSE "ARRAY_AGG"
      [] variant = "ApproxDistinct" ->
            IF d \in HiveFamily \cup PrestoFamily THEN "APPROX_DISTINCT" ELSE "APPROX_COUNT_DISTINCT"
      [] variant = "Variance" -> IF d \in TSql \cup {"oracle"} THEN "VAR" ELSE "VARIANCE"
      [] variant = "VariancePop" -> IF d \in TSql THEN "VARP" ELSE "VAR_POP"
      [] variant = "Stddev" -> IF d \in TSql THEN "STDEV" ELSE "STDDEV"
      [] variant = "StddevPop" -> IF d \in TSql THEN "STDEVP" ELSE "STDDEV_POP"
CollectionSpelling(variant, d) ==
    CASE variant = "ArrayConcat" ->
            IF d \in {"postgres", "redshift", "duckdb"} THEN "ARRAY_CAT" ELSE "ARRAY_CONCAT"
      [] variant = "ArraySize" ->
            IF d \in {"postgres", "redshift"} THEN "ARRAY_LENGTH"
            ELSE IF d \in HiveFamily THEN "SIZE" ELSE "ARRAY_SIZE"
      [] variant = "JSONExtract" ->
            IF d \in TSql \cup {"oracle"} THEN "JSON_VALUE" ELSE "JSON_EXTRACT"
      [] variant = "JSONExtractScalar" ->
            IF d \in TSql \cup {"oracle"} THEN "JSON_VALUE" ELSE "JSON_EXTRACT_SCALAR"
      [] variant = "ParseJSON" -> IF d = "bigquery" THEN "JSON_PARSE" ELSE "PARSE_JSON"
      [] variant = "JSONFormat" -> IF d = "bigquery" THEN "TO_JSON_STRING" ELSE "JSON_FORMAT"
MathSpelling(variant, d) ==
    CASE variant = "Ceil" -> IF d \in TSql THEN "CEILING" ELSE "CEIL"
      [] variant = "Pow" -> IF d \in TSql \cup {"oracle"} THEN "POWER" ELSE "POW"
      [] variant = "Hex" -> IF d \in PrestoFamily THEN "TO_HEX" ELSE "HEX"
      [] variant = "Unhex" -> IF d \in PrestoFamily THEN "FROM_HEX" ELSE "UNHEX"
      [] variant = "Sha" -> IF d \in MySql THEN "SHA1" ELSE "SHA"
\* The rest has one name everywhere.
OneStringName ==
    [Upper |-> "UPPER", Lower |-> "LOWER", RegexpLike |-> "REGEXP_LIKE", RegexpReplace |-> "REGEXP_REPLACE",
     ConcatWs |-> "CONCAT_WS", Initcap |-> "INITCAP", Replace |-> "REPLACE", Reverse |-> "REVERSE", Left |-> "LEFT",
     Right |-> "RIGHT", Lpad |-> "LPAD", Rpad |-> "RPAD"]
OneAggregateName == [Count |-> "COUNT", Sum |-> "SUM", Avg |-> "AVG", Min |-> "MIN", Max |-> "MAX"]
OneCollectionName ==
    [ArrayContains |-> "ARRAY_CONTAINS", Explode |-> "EXPLODE", Flatten |-> "FLATTEN", GenerateSeries |-> "GENERATE_SERIES"]
OneWindowName ==
    [RowNumber |-> "ROW_NUMBER", Rank |-> "RANK", DenseRank |-> "DENSE_RANK", NTile |-> "NTILE", Lead |-> "LEAD",
     Lag |-> "LAG", FirstValue |-> "FIRST_VALUE", LastValue |-> "LAST_VALUE"]
OneMathName ==
    [Abs |-> "ABS", Floor |-> "FLOOR", Round |-> "ROUND", Log |-> "LOG", Ln |-> "LN", Sqrt |-> "SQRT",
     Greatest |-> "GREATEST", Least |-> "LEAST", Mod |-> "MOD", Md5 |-> "MD5", Sha2 |-> "SHA2"]
OneName == OneStringName @@ OneAggregateName @@ OneCollectionName @@ OneWindowName @@ OneMathName
Spelling(variant, d) ==
    CASE variant \in DOMAIN OneName -> OneName[variant]
      [] variant \in {"StrToTime", "TimeToStr"} -> DateSpelling(variant, d)
      [] variant \in {"Substring", "RegexpExtract", "Split", "Length"} -> StringSpelling(variant, d)
      [] variant \in {"Ceil", "Pow", "Hex", "Unhex", "Sha"} -> MathSpelling(variant, d)
      [] variant \in {"ArrayConcat", "ArraySize", "JSONExtract", "JSONExtractScalar", "ParseJSON",
                      "JSONFormat"} -> CollectionSpelling(variant, d)
      [] OTHER -> AggregateSpelling(variant, d)

\* <<"Round", expr, decimals>> and <<"Log", expr, base>> have a form of their own.
MathPieces(f, d) ==
    IF Kind(f) = "Log" /\ f[3] # None /\ d \in {"postgres", "duckdb"}
    THEN Calling("LOG", <<f[3], f[2]>>)
    ELSE IF Kind(f) = "Round" /\ f[3] = None /\ d = "tsql"
    THEN Calling("ROUND", <<f[2], <<"0">>>>)
    ELSE Call0(Spelling(Kind(f), d), Tail(f))

\* <<"GroupConcat", exprs, distinct, order_by, separator>>.
GroupConcatPieces(f, d) ==
    LET distinct == IF f[3] = None THEN <<>> ELSE Ws(<<"DISTINCT">>)
        exprs == Commas(Tail(f[2]))
        separator == IF f[5] = None THEN W("','") ELSE f[5]
        order == IF Tail(f[4]) = <<>> THEN <<>> ELSE Ws(<<"ORDER", "BY">>) \o Commas(Tail(f[4]))
    IN CASE d \in {"postgres", "redshift", "bigquery", "duckdb"} \cup TSql ->
               Ws(<<"STRING_AGG", "(">>) \o distinct \o exprs \o <<W(","), separator>> \o order \o
               Ws(<<")">>)
         [] d \in {"oracle", "snowflake"} ->
               Ws(<<"LISTAGG", "(">>) \o distinct \o exprs \o <<W(","), separator, W(")")>> \o
               (IF order = <<>> THEN <<>>
                ELSE Ws(<<"WITHIN", "GROUP", "(">>) \o order \o Ws(<<")">>))
         [] d = "sqlite" ->
               Ws(<<"GROUP_CONCAT", "(">>) \o exprs \o
               (IF f[5] = None THEN <<>> ELSE <<W(","), f[5]>>) \o Ws(<<")">>)
         [] OTHER ->
               Ws(<<"GROUP_CONCAT", "(">>) \o distinct \o exprs \o order \o
               (IF f[5] = None THEN <<>> ELSE <<W("SEPARATOR"), f[5]>>) \o Ws(<<")">>)

TypedPieces(f, d) ==
    CASE Kind(f) = "DateAdd" -> DateAddPieces(f, d)
      [] Kind(f) = "DateSub" -> DateSubPieces(f, d)
      [] Kind(f) = "DateDiff" -> DateDiffPieces(f, d)
      [] Kind(f) = "DateTrunc" -> DateTruncPieces(f, d)
      [] Kind(f) \in {"CurrentDate", "CurrentTime", "CurrentTimestamp"} -> NowPieces(f, d)
      [] Kind(f) = "TsOrDsToDate" ->
            IF d \in MySql THEN Calling("DATE", <<f[2]>>) ELSE CastTo(<<f[2]>>, "DATE")
      [] Kind(f) = "Year" -> FieldCall("YEAR", f, d)
      [] Kind(f) = "Month" -> FieldCall("MONTH", f, d)
      [] Kind(f) = "Day" -> FieldCall("DAY", f, d)
      [] Kind(f) = "Trim" -> TrimPieces(f, d)
      [] Kind(f) \in {"Count", "Sum", "Avg", "ArrayAgg"} -> CallDistinct(Spelling(Kind(f), d), f)
      [] Kind(f) = "GroupConcat" -> GroupConcatPieces(f, d)
      [] OTHER -> MathPieces(f, d)
=============================================================================
