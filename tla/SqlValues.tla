------------------------------ MODULE SqlValues ------------------------------
\* The values and rows of the in-memory executor (src/executor/mod.rs).
\* A value is a tag and a number: the number stands for the integer, for a
\* float that is a whole number, for a Boolean (0, 1) or for a string (0 is the
\* empty one, and the numbers are in the strings' order).  NaN is a float too.
\* A column name is the sequence of its parts between dots, in lower case.
EXTENDS Integers, Sequences, SequencesExt

Null == [t |-> "null", v |-> 0]
Integer(n) == [t |-> "int", v |-> n]
Float(n) == [t |-> "float", v |-> n]
Bool(b) == [t |-> "bool", v |-> IF b THEN 1 ELSE 0]
Str(n) == [t |-> "str", v |-> n]
NaN == [t |-> "nan", v |-> 0]

\* What takes the place of a value when there is none: Err, or a panic.
Failed == [t |-> "error", v |-> 0]
Panicked == [t |-> "panic", v |-> 0]
Bad(x) == x.t \in {"error", "panic"}

\* The first failure in the order of evaluation, if any.
FirstBad(xs) == LET i == SelectInSeq(xs, Bad) IN xs[i]
AnyBad(xs) == \E i \in DOMAIN xs : Bad(xs[i])

IsNull(x) == x.t = "null"
Numeric(x) == x.t \in {"int", "float"}
Floating(x) == x.t \in {"float", "nan"}

Truthy(x) == x.t = "nan" \/ (x.t # "null" /\ x.v # 0)

\* to_f64 and to_i64 of what is not a number: the strings are not numerals.
HasNumber(x) == x.t \in {"int", "float", "bool"}
ToI64(x) == IF HasNumber(x) THEN x.v ELSE 0

\* PartialEq: an integer equals the float of the same number, NaN equals nothing.
SameValue(a, b) ==
    /\ a.v = b.v
    /\ a.t # "nan"
    /\ a.t = b.t \/ (Numeric(a) /\ Numeric(b))

\* PartialOrd, which has no answer between a string and a number, say.
Comparable(a, b) ==
    \/ IsNull(a) \/ IsNull(b)
    \/ Numeric(a) /\ Numeric(b)
    \/ a.t = b.t /\ a.t # "nan"

Less(a, b) == Comparable(a, b) /\ ~IsNull(b) /\ (IsNull(a) \/ a.v < b.v)
Greater(a, b) == Less(b, a)

SameRow(r, s) == Len(r) = Len(s) /\ \A i \in DOMAIN r : SameValue(r[i], s[i])

(***************************************************************************)
(* Equality inside a HashSet or HashMap.  The hash of a value covers its   *)
(* variant, so Int(1) and Float(1.0), which are equal, have unrelated      *)
(* hashes: they are taken for one key only if the table's short tags of    *)
(* them happen to agree, which the hasher's random seed decides ("tags").  *)
(***************************************************************************)
SameKeyByHash(r, s, tags) ==
    tags \/ (SameRow(r, s) /\ \A i \in DOMAIN r : r[i].t = s[i].t)
SameKey(r, s, tags) ==
    /\ SameRow(r, s)
    /\ tags \/ \A i \in DOMAIN r : r[i].t = s[i].t

\* retain(|row| seen.insert(row)): the first of each key stays.
KeepFirst(rows, tags) ==
    LET first(i) == \A j \in 1..(i - 1) : ~SameKey(rows[i], rows[j], tags)
        kept == SelectSeq([i \in DOMAIN rows |-> i], first)
    IN  [n \in DOMAIN kept |-> rows[kept[n]]]

(***************************************************************************)
(* RowContext                                                              *)
(***************************************************************************)
EmptyRow == [cols |-> <<>>, vals |-> <<>>]
Merge(l, r) == [cols |-> l.cols \o r.cols, vals |-> l.vals \o r.vals]
NullRowBare(cols) == [cols |-> <<>>, vals |-> <<>>]
NullRow(cols) == [cols |-> cols, vals |-> [i \in DOMAIN cols |-> Null]]

\* values[i] of a row shorter than its column list is an index out of bounds.
Cell(row, i) == IF i \in DOMAIN row.vals THEN row.vals[i] ELSE Panicked

First(S) == CHOOSE i \in S : \A j \in S : i <= j

\* get: the name itself first, then any column it is the last part of.
Get(row, name) ==
    LET exact == {i \in DOMAIN row.cols : row.cols[i] = <<name>>}
        suffix == {i \in DOMAIN row.cols :
                      Len(row.cols[i]) > 1 /\ Last(row.cols[i]) = name}
    IN  IF exact # {} THEN Cell(row, First(exact))
        ELSE IF suffix # {} THEN Cell(row, First(suffix))
        ELSE Null

\* get_qualified: table.name, or whatever get(name) answers.
GetQualified(row, table, name) ==
    LET exact == {i \in DOMAIN row.cols : row.cols[i] = <<table, name>>}
    IN  IF exact # {} THEN Cell(row, First(exact)) ELSE Get(row, name)
=============================================================================
