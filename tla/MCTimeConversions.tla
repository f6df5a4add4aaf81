------------------------- MODULE MCTimeConversions -------------------------
\* Instances of TimeConversions: every pair of components with a dash between them,
\* timestamps, and formats with literals.
EXTENDS TimeConversions

C(m) == <<"component", m>>
L(t) == <<"literal", t>>
Pairs == {<<C(m), L("-"), C(n)>> : m, n \in DOMAIN Mappings}
Dates == {<<C(1), L(s), C(3), L(s), C(6)>> : s \in {"-", "/", ""}} \cup {<<C(3), L("/"), C(6), L("/"), C(1)>>}
InOrder(ms) == SelectSeq(<<3, 6, 15, 17, 18>>, LAMBDA m : m \in ms)
Spaced(ms) == <<C(1)>> \o FlattenSeq([i \in DOMAIN ms |-> <<L(" "), C(ms[i])>>])
Numbered == {Spaced(InOrder(ms)) : ms \in SUBSET Numeric}
Times == {<<C(15), L(s), C(17), L(s), C(18)>> : s \in {":", ""}}
Timestamps == {d \o <<L(" ")>> \o t : d \in Dates, t \in Times}
Literals == {<<C(23), C(1)>>, <<C(23), L("z")>>, <<C(23), C(23), C(17)>>, <<L(", "), C(9), L(" "), C(6), L(" "), C(4), L(" "), C(1)>>,
             <<C(16), L(":"), C(17), C(20)>>, <<C(1), L("-"), C(13), L("-"), C(12)>>}
MCFormats == Pairs \cup Numbered \cup Dates \cup Times \cup Timestamps \cup Literals
MCReadable == {"Strftime", "Mysql", "Postgres", "Snowflake", "Java", "ClickHouse"}
=============================================================================
