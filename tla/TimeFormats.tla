---------------------------- MODULE TimeFormats ----------------------------
(***************************************************************************)
(* src/dialects/time.rs: date and time formats, their specifiers in the    *)
(* seven styles of the dialects, and the conversion of a format from one   *)
(* style to another; and detect_format_style of src/dialects/mod.rs, which *)
(* guesses the style a format is in.                                       *)
(***************************************************************************)
EXTENDS Integers, Sequences, TLC

Styles == <<"Strftime", "Mysql", "Postgres", "Snowflake", "Java", "Tsql", "ClickHouse">>
StyleIndex(style) == CHOOSE i \in DOMAIN Styles : Styles[i] = style
StyleFor(d) ==   \* TimeFormatStyle::for_dialect
    CASE d \in {"mysql", "doris", "singlestore", "starrocks"} -> "Mysql"
      [] d \in {"postgres", "oracle", "redshift", "materialize", "risingwave", "exasol", "teradata"} -> "Postgres"
      [] d = "snowflake" -> "Snowflake"
      [] d \in {"hive", "spark", "databricks", "presto", "trino", "athena"} -> "Java"
      [] d \in {"tsql", "fabric"} -> "Tsql"
      [] d = "clickhouse" -> "ClickHouse"
      [] OTHER -> "Strftime"

\* build_format_mappings: a component's specifier in every style, "" where it has none.
Mappings ==
    <<<<"%Y", "%Y", "YYYY", "YYYY", "yyyy", "yyyy", "%Y">>, <<"%y", "%y", "YY", "YY", "yy", "yy", "%y">>,
      <<"%m", "%m", "MM", "MM", "MM", "MM", "%m">>, <<"%b", "%b", "Mon", "MON", "MMM", "MMM", "%b">>,
      <<"%B", "%M", "Month", "MMMM", "MMMM", "MMMM", "%B">>, <<"%d", "%d", "DD", "DD", "dd", "dd", "%d">>,
      <<"%e", "%e", "FMDD", "DD", "d", "d", "%e">>, <<"%j", "%j", "DDD", "DDD", "DDD", "", "%j">>,
      <<"%a", "%a", "Dy", "DY", "EEE", "ddd", "%a">>, <<"%A", "%W", "Day", "DY", "EEEE", "dddd", "%A">>,
      <<"%w", "%w", "D", "D", "e", "", "%w">>, <<"%u", "%u", "ID", "ID", "u", "", "%u">>,
      <<"%W", "%v", "IW", "WW", "ww", "ww", "%V">>, <<"%U", "%U", "WW", "WW", "ww", "ww", "%U">>,
      <<"%H", "%H", "HH24", "HH24", "HH", "HH", "%H">>, <<"%I", "%h", "HH12", "HH12", "hh", "hh", "%I">>,
      <<"%M", "%i", "MI", "MI", "mm", "mm", "%M">>, <<"%S", "%s", "SS", "SS", "ss", "ss", "%S">>,
      <<"%f", "%f", "US", "FF6", "SSSSSS", "ffffff", "%f">>, <<"%p", "%p", "AM", "AM", "a", "tt", "%p">>,
      <<"%z", "", "OF", "TZH:TZM", "Z", "zzz", "%z">>, <<"%Z", "", "TZ", "TZR", "z", "", "%Z">>,
      <<"%%", "%%", "", "", "", "", "%%">>>>
SpecIn(m, style) == Mappings[m][StyleIndex(style)]

\* The specifiers each scanner tries, in its order.
PostgresSpecs == <<"YYYY", "MMMM", "Month", "Mon", "MM", "DDD", "DD", "Day", "Dy", "D", "HH24", "HH12", "HH", "MI", "SS",
                   "US", "AM", "PM", "TZH:TZM", "TZR", "TZ", "OF", "IW", "WW", "YY", "ID", "FMDD">>
SnowflakeShortFirst ==   \* mutant: DD is tried before DDD
    <<"YYYY", "MMMM", "MON", "MM", "DD", "DDD", "DY", "D", "HH24", "HH12", "HH", "MI", "SS", "FF6", "FF3",
      "FF", "AM", "PM", "TZH:TZM", "TZR", "WW", "YY", "ID">>
SnowflakeSpecs == <<"YYYY", "MMMM", "MON", "MM", "DDD", "DD", "DY", "D", "HH24", "HH12", "HH", "MI", "SS", "FF6", "FF3",
                    "FF", "AM", "PM", "TZH:TZM", "TZR", "WW", "YY", "ID">>
JavaSpecs == <<"yyyy", "YYYY", "yy", "YY", "MMMM", "MMM", "MM", "M", "dd", "d", "DDD", "EEEE", "EEE", "e", "u", "HH",
               "hh", "H", "h", "mm", "m", "ss", "s", "SSSSSS", "SSS", "SS", "S", "a", "Z", "z", "ww">>
Percent == {"Strftime", "Mysql", "ClickHouse"}
SpecsOf(source) ==
    CASE source = "Postgres" -> PostgresSpecs [] source = "Snowflake" -> SnowflakeSpecs [] OTHER -> JavaSpecs

\* eq_ignore_ascii_case and starts_with, over the letters of the specifiers.
Letters == "abcdefghijklmnopqrstuvwxyz"
Capitals == "ABCDEFGHIJKLMNOPQRSTUVWXYZ"
Char(s, i) == SubSeq(s, i, i)
UpperChar(c) == IF \E i \in 1..26 : Char(Letters, i) = c THEN Char(Capitals, CHOOSE i \in 1..26 : Char(Letters, i) = c) ELSE c
SameChar(a, b, folding) == a = b \/ (folding /\ UpperChar(a) = UpperChar(b))
StartsWith(text, at, spec, folding) ==
    /\ at + Len(spec) - 1 <= Len(text)
    /\ \A i \in 1..Len(spec) : SameChar(Char(text, at + i - 1), Char(spec, i), folding)
Same(a, b, folding) == Len(a) = Len(b) /\ StartsWith(a, 1, b, folding)

\* The first mapping with this specifier; 0 where there is none.
FirstMapping(spec, source, folding) ==
    LET found == {m \in DOMAIN Mappings : Same(SpecIn(m, source), spec, folding)}
    IN IF found = {} THEN 0 ELSE CHOOSE m \in found : \A n \in found : m <= n
Mapped(spec, source, target, folding) ==
    LET m == FirstMapping(spec, source, folding)
    IN IF m = 0 \/ SpecIn(m, target) = "" THEN spec ELSE SpecIn(m, target)
FirstSpec(text, at, source, folding) ==
    LET specs == SpecsOf(source)
        fit == {i \in DOMAIN specs : StartsWith(text, at, specs[i], folding)}
    IN IF fit = {} THEN "" ELSE specs[CHOOSE i \in fit : \A j \in fit : i <= j]
\* The end of a quoted literal.
CloseOf(text, at, quote) ==
    LET ends == {i \in at + 1..Len(text) : Char(text, i) = quote}
    IN IF ends = {} THEN Len(text) ELSE CHOOSE i \in ends : \A j \in ends : i <= j

\* convert_strftime_style, convert_postgres_style, convert_snowflake_style and
\* convert_java_style from position `at` on.  A T-SQL format is scanned with the Java
\* specifiers, though its own are others.
QuoteOf(source) == IF source \in {"Java", "Tsql"} THEN "'" ELSE "\""
Folds(source) == source \in {"Postgres", "Snowflake"}
RECURSIVE Convert(_, _, _, _)
ConvertPercent(text, at, source, target) ==
    IF at = Len(text) THEN "%"
    ELSE Mapped(SubSeq(text, at, at + 1), source, target, FALSE) \o Convert(text, at + 2, source, target)
ConvertWord(text, at, spec, source, target) ==
    IF spec = "" THEN Char(text, at) \o Convert(text, at + 1, source, target)
    ELSE Mapped(spec, source, target, Folds(source)) \o Convert(text, at + Len(spec), source, target)
Convert(text, at, source, target) ==
    CASE at > Len(text) -> ""
      [] source \in Percent /\ Char(text, at) = "%" -> ConvertPercent(text, at, source, target)
      [] source \in Percent -> Char(text, at) \o Convert(text, at + 1, source, target)
      [] Char(text, at) = QuoteOf(source) ->
            SubSeq(text, at, CloseOf(text, at, QuoteOf(source))) \o
            Convert(text, CloseOf(text, at, QuoteOf(source)) + 1, source, target)
      [] OTHER -> ConvertWord(text, at, FirstSpec(text, at, source, Folds(source)), source, target)
FormatTime(text, source, target) == IF source = target THEN text ELSE Convert(text, 1, source, target)

\* format_time_with_warnings: the specifiers it warns of.  A percent sign begins a
\* specifier when those just before it pair up.
SignsBefore(text, at) ==
    LET runs == {i \in 1..at : \A j \in i..at - 1 : Char(text, j) = "%"}
    IN at - CHOOSE i \in runs : \A j \in runs : i <= j
OpensAlways(text, at) == Char(text, at) = "%"   \* mutant: the second sign of %% begins a specifier
Opens(text, at) == Char(text, at) = "%" /\ SignsBefore(text, at) % 2 = 0
Unknown(spec, source, target) ==
    LET m == FirstMapping(spec, source, FALSE) IN m # 0 /\ SpecIn(m, target) = ""
Warned(text, source, target) ==
    IF source \notin Percent THEN {}
    ELSE {spec \in {SubSeq(text, i, i + 1) : i \in {j \in 1..Len(text) - 1 : Opens(text, j)}} :
            Unknown(spec, source, target)}

\* detect_format_style.
Includes(text, part) == \E i \in 1..Len(text) : StartsWith(text, i, part, FALSE)
DetectByYear(text) ==   \* mutant: the spelling of the year alone tells Postgres from Java
    CASE Includes(text, "%") -> IF Includes(text, "%i") THEN "Mysql" ELSE "Strftime"
      [] ~Includes(text, "YYYY") /\ ~Includes(text, "yyyy") -> "Strftime"
      [] Includes(text, "MM") /\ Includes(text, "DD") -> "Postgres"
      [] OTHER -> "Java"
DetectStyle(text) ==
    CASE Includes(text, "%") -> IF Includes(text, "%i") THEN "Mysql" ELSE "Strftime"
      [] ~Includes(text, "YYYY") /\ ~Includes(text, "yyyy") -> "Strftime"
      [] Includes(text, "HH24") \/ Includes(text, "MI") \/ Includes(text, "SS") -> "Postgres"
      [] Includes(text, "mm") /\ Includes(text, "ss") -> "Java"
      [] Includes(text, "FF") -> "Snowflake"
      [] Includes(text, "MM") /\ Includes(text, "DD") -> "Postgres"
      [] OTHER -> "Java"
\* transform_format_expr.
FormatFor(text, d) ==
    IF DetectStyle(text) = StyleFor(d) THEN text ELSE FormatTime(text, DetectStyle(text), StyleFor(d))

\* TsqlStyleCode::to_format_pattern.
StylePatterns ==
    (100 :> "%b %d %Y %I:%M%p") @@ (101 :> "%m/%d/%Y") @@ (102 :> "%Y.%m.%d") @@ (103 :> "%d/%m/%Y") @@
    (104 :> "%d.%m.%Y") @@ (105 :> "%d-%m-%Y") @@ (106 :> "%d %b %Y") @@ (107 :> "%b %d, %Y") @@ (108 :> "%H:%M:%S") @@
    (110 :> "%m-%d-%Y") @@ (111 :> "%Y/%m/%d") @@ (112 :> "%Y%m%d") @@ (114 :> "%H:%M:%S:%f") @@
    (120 :> "%Y-%m-%d %H:%M:%S") @@ (121 :> "%Y-%m-%d %H:%M:%S.%f") @@ (126 :> "%Y-%m-%dT%H:%M:%S.%f") @@
    (127 :> "%Y-%m-%dT%H:%M:%S.%fZ")
=============================================================================
