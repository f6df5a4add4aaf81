------------------------------ MODULE Descent ------------------------------
(***************************************************************************)
(* The recursive descent of src/parser/sql_parser.rs: a cursor on a vector *)
(* of tokens, moved by peek, advance, expect and match_token, with         *)
(* positions that are saved and gone back to.  A parsing function is a     *)
(* value of the small language below, and Run is what it does to the       *)
(* parser.  The trees under construction are a stack; what a loop reads    *)
(* onto (`left`, `expr`) is its last element.                              *)
(*                                                                         *)
(* A tree is <<kind, child, ...>>, a leaf is <<text>>, an absent part None.*)
(***************************************************************************)
EXTENDS Integers, Sequences, TypedFunctions

Yes == <<"yes">>
List(trees) == <<"list">> \o trees
Items(list) == Tail(list)

Eof == "<eof>"

\* The classes of tokens the parser tells apart.  A word that is in none of them is
\* an Identifier, so are the keywords the lexer has no token type for (TO, ZONE, ...).
Reserved ==
    {"ALTER", "AND", "AS", "ASC", "AUTO_INCREMENT", "AUTOINCREMENT", "BEGIN", "BETWEEN", "BY", "CASCADE", "CASE", "CHECK", "COMMIT",
     "CONSTRAINT", "CREATE", "CROSS", "DEFAULT", "DELETE", "DESC", "DISTINCT", "DO", "DROP", "ELSE",
     "END", "EXCEPT", "EXISTS", "EXTRACT", "FALSE", "FETCH", "FOLLOWING", "FOREIGN", "FROM",
     "FULL", "GRANT", "HAVING", "IF", "IGNORE", "ILIKE", "IN", "INNER", "INSERT", "INTERSECT",
     "INTO", "IS", "JOIN", "LATERAL", "LIKE", "LIMIT", "MATCHED", "MATERIALIZED", "NOT", "NOTHING",
     "NULL", "ON", "OR", "OUTER", "OVER", "PRECEDING", "PRIMARY", "QUALIFY", "RECURSIVE",
     "REFERENCES", "RESTRICT", "RETURNING", "REVOKE", "ROLLBACK", "SAVEPOINT", "SELECT", "SET",
     "SOME", "TABLESAMPLE", "THEN", "TOP", "TRANSACTION", "TRUE", "TRUNCATE", "UNBOUNDED", "UNION",
     "UNIQUE", "UPDATE", "USE", "USING", "VALUES", "WHEN", "WHERE", "WINDOW", "WITH"}
\* Keywords with a token type of their own that is_name_token takes for names.
NameWords ==
    {"ALL", "ANALYZE", "ANY", "CAST", "COLLATE", "CONFLICT", "CUBE", "DATABASE", "DAY", "ESCAPE",
     "EXPLAIN", "FILTER", "FIRST", "GROUP", "GROUPING", "HOUR", "INDEX", "INTERVAL", "KEY", "LEFT",
     "MERGE", "MINUTE", "MONTH", "NEXT", "NULLS", "OFFSET", "ONLY", "ORDER", "PARTITION", "PIVOT",
     "RANGE", "REPLACE", "RESPECT", "RIGHT", "ROLLUP", "ROWS", "SCHEMA", "SECOND", "SETS", "SHOW",
     "TABLE", "TEMP", "TEMPORARY", "TEXT", "UNNEST", "UNPIVOT", "VIEW", "YEAR"}
Types == {"ARRAY", "BIGINT", "BOOLEAN", "CHAR", "DATE", "DECIMAL", "DOUBLE", "INT", "INTERVAL",
          "JSON", "MAP", "STRUCT", "TEXT", "TIME", "TIMESTAMP", "TIMESTAMPTZ", "VARCHAR"}
\* The literals of the instances and those the generator writes.
Numbers == {"0", "1", "2", "3", "7", "14", "19", "256", "2000", "4000", "0.1"}
Strings == {"'s'", "'u'", "'su'", "','", "'i'", "'1'", "'2'", "'YEAR'", "'MONTH'", "'DAY'", "'HOUR'", "'1 day'", "'2 weeks'",
            "'YYYY-MM-DD'", "'%Y-%m-%d'", "'yyyy-MM-dd'"}
Signs == {"(", ")", "[", "]", "{", "}", ",", ".", ";", ":", "::", "+", "-", "-.", "*", "/", "%",
          "||", "&", "|", "^", "<<", ">>", "~", "!~", "=", "<>", "<", ">", "<=", ">=", "->", "->>",
          "#>", "#>>", "@>", "<@", "@", "?"}
Words(ts) == ts \ (Signs \cup Numbers \cup Strings \cup {Eof})
IsIdentifier(t) == t \notin Reserved \cup NameWords \cup Types \cup Numbers \cup Strings
                            \cup Signs \cup {Eof}
IsName(t) == t \in NameWords \/ IsIdentifier(t)
IsNameOrType(t) == IsName(t) \/ t \in Types
\* expect_name_with_quote takes more words for names than is_name_token.
Nameable(t) == IsNameOrType(t) \/
               t \in {"BEGIN", "DEFAULT", "IGNORE", "LIMIT", "RECURSIVE", "VALUES"}

\* The language.  A case is <<what must be ahead, the parser to run>>; what is ahead
\* is a condition on the next tokens ({}: any token), on the dialect, on the branch just
\* read and on the token before.
Ahead(ts) == [next |-> ts, names |-> {}, identifiers |-> {}, dialects |-> {}, left |-> {},
              before |-> {}]
Always == Ahead(<<>>)
At(t) == Ahead(<<{t}>>)
Within(ts) == Ahead(<<ts>>)
In(dialects, ahead) == [ahead EXCEPT !.dialects = dialects]
After(kinds, ahead) == [ahead EXCEPT !.left = kinds]
Before(ts, ahead) == [ahead EXCEPT !.before = ts]
\* The n-th of the tokens ahead has to be a name, an Identifier.
Named(n, ahead) == [ahead EXCEPT !.names = {n}]
Identified(n, ahead) == [ahead EXCEPT !.identifiers = {n}]
When(ahead, g) == <<ahead, g>>

AnyOf(ts) == <<[op |-> "tok", is |-> ts]>>
Tok(t) == AnyOf({t})
\* A token with a tree of its own.
Leaf(trees) == <<[op |-> "leaf", is |-> trees]>>
Name == <<[op |-> "name"]>>
Advance == <<[op |-> "advance"]>>
Shift == <<[op |-> "shift"]>>        \* any token, kept as a leaf
f & g == f \o g
Nothing == <<>>
Cases(cs, else) == <<[op |-> "cases", of |-> cs, else |-> else, again |-> FALSE]>>
Loop(cs) == <<[op |-> "cases", of |-> cs, else |-> Nothing, again |-> TRUE]>>
Call(rule) == <<[op |-> "call", rule |-> rule]>>
Infix(rule) == <<[op |-> "infix", rule |-> rule]>>
Push(tree) == <<[op |-> "push", tree |-> tree]>>
Make(kind, n) == <<[op |-> "make", kind |-> kind, n |-> n]>>
Swap == <<[op |-> "swap"]>>
Pop == <<[op |-> "pop"]>>
Mark == <<[op |-> "mark"]>>
Collect == <<[op |-> "collect"]>>
\* The items of the list on top go to the end of the list below it.
Extend == <<[op |-> "extend"]>>
\* The tree on top becomes the child of the one below it that slots gives for its kind;
\* other trees stay as they are.
Attach(slots) == <<[op |-> "attach", slots |-> slots]>>
\* The items of the list on top go to the arguments of the call below it.
Graft == <<[op |-> "graft"]>>
\* The call of what name, arguments, distinct, order_by and within_group are on the stack.
Called == <<[op |-> "called"]>>
\* The list on top becomes two: its trees of kind first, then the others.
Parted(kind) == <<[op |-> "parted", kind |-> kind]>>
Fail == <<[op |-> "fail"]>>
Miss == <<[op |-> "miss"]>>
\* `self.unmodeled_syntax += 1`: what is read next has no place in the tree.  The count
\* stays when the position goes back; Whole is an error where it grew.
Lost == <<[op |-> "lost"]>>
Whole(g) == <<[op |-> "whole", of |-> g]>>
\* `saved = self.pos; ...; self.pos = saved`: where `first` misses, `else` is run from
\* the saved position.  An error in `first` is not caught.
Try(first, else) == <<[op |-> "try", first |-> first, else |-> else, caught |-> FALSE]>>
\* The same where the code also goes back after an error.
Rescue(first, else) == <<[op |-> "try", first |-> first, else |-> else, caught |-> TRUE]>>
\* `let _ = self.parse_...()`: an error is dropped, the position stays where it struck.
Lax(g) == <<[op |-> "lax", of |-> g]>>
\* The code looks ahead with a loop of its own: `look` decides, and moves nothing.
Probe(look, then, else) == <<[op |-> "probe", look |-> look, then |-> then, else |-> else]>>
\* Skips tokens up to one of `stop` outside the brackets in `open` and `close`, or keeps
\* them as the tree <<"raw", token, ...>>.
Until(stop, open, close, keep) ==
    <<[op |-> "until", stop |-> stop, open |-> open, close |-> close, keep |-> keep]>>
Swallow(stop, open, close) == Until(stop, open, close, FALSE)
Capture(stop, open, close) == Until(stop, open, close, TRUE)

Option(t, g) == Cases(<<When(At(t), g)>>, Nothing)
MayBe(t) == Option(t, Advance)
MayBeAny(ts) == Cases(<<When(Within(ts), Advance)>>, Nothing)
MayBeName == Cases(<<When(Named(1, Always), Advance)>>, Nothing)
\* An optional part: its tree or None.
Part(t, g) == Cases(<<When(At(t), Advance & g)>>, Push(None))
Flag(t) == Part(t, Push(Yes))
More(g) == Loop(<<When(At(","), Advance & g)>>)
ListOf(g) == Mark & g & More(g) & Collect
\* A list that forgives a comma before its end.
LooseList(g) == Mark & g & Loop(<<When(Ahead(<<{","}, {")", "]"}>>), Advance & Miss),
                                  When(At(","), Advance & g)>>) & Collect
Empty == Push(List(<<>>))

----------------------------------------------------------------------------
\* The token at position i.
Peek(s, i) == IF i \in 1..Len(s.text) THEN s.text[i] ELSE Eof

Top(st) == st[Len(st)]
Under(st) == st[Len(st) - 1]
Rest(st, n) == SubSeq(st, 1, Len(st) - n)
Topmost(st, n) == SubSeq(st, Len(st) - n + 1, Len(st))
MarkTree == <<"mark">>
LastMark(st) == CHOOSE i \in 1..Len(st) :
                    st[i] = MarkTree /\ \A j \in i + 1..Len(st) : st[j] # MarkTree

Holds(ahead, s) ==
    /\ ahead.dialects = {} \/ s.dialect \in ahead.dialects
    /\ \A i \in 1..Len(ahead.next) :
           ahead.next[i] = {} \/ Peek(s, s.at + i - 1) \in ahead.next[i]
    /\ ahead.left = {} \/ (s.st # <<>> /\ Kind(Top(s.st)) \in ahead.left)
    /\ \A i \in ahead.names : IsName(Peek(s, s.at + i - 1))
    /\ \A i \in ahead.identifiers : IsIdentifier(Peek(s, s.at + i - 1))
    /\ ahead.before = {} \/ Peek(s, s.at - 1) \in ahead.before

RECURSIVE FirstOf(_, _, _)
FirstOf(cs, i, s) ==
    IF i > Len(cs) THEN 0
    ELSE IF Holds(cs[i][1], s) THEN i ELSE FirstOf(cs, i + 1, s)

Step(s) == [s EXCEPT !.at = @ + 1]
Put(s, tree) == [s EXCEPT !.st = Append(@, tree)]
Stopped(s, how) == [s EXCEPT !.is = how]
Made(s, kind, n) == [s EXCEPT !.st = Append(Rest(@, n), <<kind>> \o Topmost(@, n))]
Attached(st, slots) ==
    Append(Rest(st, 2), IF Kind(Under(st)) \in DOMAIN slots
                        THEN [Under(st) EXCEPT ![slots[Kind(Under(st))]] = Top(st)]
                        ELSE Under(st))
\* A call with an ORDER BY of its own keeps its name, any other may be a typed function.
CallOf(p) ==   \* name, arguments, distinct, order_by, within_group
    IF Items(p[4]) = <<>> /\ p[5] = None /\ IsTyped(Kind(p[1]), Items(p[2]))
    THEN <<"TypedFunction", Typed(Kind(p[1]), Items(p[2]), p[3]), None, None>>
    ELSE <<"Function">> \o p \o <<None, None>>

\* The index of the first token from i on that is in stop and outside brackets.
RECURSIVE EndOf(_, _, _, _)
EndOf(text, i, g, depth) ==
    IF i > Len(text) \/ (depth = 0 /\ text[i] \in g.stop) THEN i
    ELSE EndOf(text, i + 1, g, IF text[i] \in g.open THEN depth + 1
                               ELSE IF text[i] \in g.close /\ depth > 0 THEN depth - 1 ELSE depth)

RECURSIVE Run(_, _, _, _)
RunAll(p, s) == Run(p, 1, Len(p), s)
AfterTry(g, r, s) ==
    IF r.is = "miss" \/ (g.caught /\ r.is = "error")
    THEN RunAll(g.else, [s EXCEPT !.lost = r.lost]) ELSE r
AfterWhole(r, s) == IF r.is = "ok" /\ r.lost # s.lost THEN Stopped(r, "error") ELSE r
UpToEnd(g, end, s) ==
    [s EXCEPT !.at = end, !.st = IF g.keep THEN Append(@, <<"raw">> \o SubSeq(s.text, s.at, end - 1)) ELSE @]
\* The case to run, of a loop with the rest of the loop; a miss ends the loop.
Choice(g, i) ==
    CASE i = 0 -> g.else
      [] i > 0 /\ g.again -> <<[op |-> "again", body |-> g.of[i][2], loop |-> <<g>>]>>
      [] OTHER -> g.of[i][2]
AfterBody(g, r) ==
    IF r.is = "miss" THEN [r EXCEPT !.is = "ok"] ELSE Run(g.loop, 1, 1, r)

\* The instructions i to j of a parser, half by half to keep the evaluation shallow;
\* nothing runs after an error or a miss.
Run(p, i, j, s) ==
    LET g == p[i] IN
    CASE s.is # "ok" \/ i > j -> s
      [] i < j -> Run(p, (i + j) \div 2 + 1, j, Run(p, i, (i + j) \div 2, s))
      [] g.op = "cases" -> LET c == Choice(g, FirstOf(g.of, 1, s)) IN Run(c, 1, Len(c), s)
      [] g.op = "again" ->
            AfterBody(g, Run(g.body, 1, Len(g.body), s))
      [] g.op = "call" -> Run(s.grammar[g.rule], 1, Len(s.grammar[g.rule]), s)
      [] g.op = "tok" ->
            IF Peek(s, s.at) \in g.is THEN Step(s) ELSE Stopped(s, "error")
      [] g.op = "leaf" ->
            IF Peek(s, s.at) \in DOMAIN g.is THEN Put(Step(s), g.is[s.text[s.at]])
            ELSE Stopped(s, "error")
      [] g.op = "name" ->
            IF Nameable(Peek(s, s.at)) THEN Put(Step(s), <<s.text[s.at]>>)
            ELSE Stopped(s, "error")
      [] g.op = "advance" -> Step(s)
      [] g.op = "shift" -> Put(Step(s), <<Peek(s, s.at)>>)
      [] g.op = "infix" ->
            Run(Call(g.rule) & Make(Peek(s, s.at), 2), 1, 2, Step(s))
      [] g.op = "push" -> Put(s, g.tree)
      [] g.op = "make" -> Made(s, g.kind, g.n)
      [] g.op = "swap" -> [s EXCEPT !.st = Rest(@, 2) \o <<Top(@), Under(@)>>]
      [] g.op = "pop" -> [s EXCEPT !.st = Rest(@, 1)]
      [] g.op = "mark" -> Put(s, MarkTree)
      [] g.op = "collect" ->
            [s EXCEPT !.st = SubSeq(@, 1, LastMark(@) - 1) \o
                             <<List(SubSeq(@, LastMark(@) + 1, Len(@)))>>]
      [] g.op = "extend" -> [s EXCEPT !.st = Append(Rest(@, 2), Under(@) \o Items(Top(@)))]
      [] g.op = "attach" -> [s EXCEPT !.st = Attached(@, g.slots)]
      [] g.op = "graft" ->
            [s EXCEPT !.st = Append(Rest(@, 2), [Under(@) EXCEPT ![3] = @ \o Items(Top(s.st))])]
      [] g.op = "called" -> [s EXCEPT !.st = Append(Rest(@, 5), CallOf(Topmost(@, 5)))]
      [] g.op = "parted" ->
            [s EXCEPT !.st = Rest(@, 1) \o
                             <<List(SelectSeq(Items(Top(@)), LAMBDA t : Kind(t) = g.kind)),
                               List(SelectSeq(Items(Top(@)), LAMBDA t : Kind(t) # g.kind))>>]
      [] g.op = "lost" -> [s EXCEPT !.lost = @ + 1]
      [] g.op = "whole" -> AfterWhole(RunAll(g.of, s), s)
      [] g.op = "fail" -> Stopped(s, "error")
      [] g.op = "miss" -> Stopped(s, "miss")
      [] g.op = "try" ->
            AfterTry(g, Run(g.first, 1, Len(g.first), s), s)
      [] g.op = "lax" ->
            [RunAll(g.of, s) EXCEPT !.is = "ok", !.st = s.st]
      [] g.op = "probe" ->
            RunAll(IF RunAll(g.look, s).is = "ok" THEN g.then ELSE g.else, s)
      [] g.op = "until" -> UpToEnd(g, EndOf(s.text, s.at, g, 0), s)

\* A rule read from the start of the text to its end; None where that fails.
Parse(rule, grammar, text, dialect) ==
    LET r == RunAll(Call(rule), [grammar |-> grammar, text |-> text, dialect |-> dialect,
                              at |-> 1, st |-> <<>>, is |-> "ok", lost |-> 0])
    IN IF r.is = "ok" /\ r.at > Len(text) /\ Len(r.st) = 1 THEN Top(r.st) ELSE None
=============================================================================
