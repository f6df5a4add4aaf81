------------------------- MODULE MCDialectRegistry -------------------------
(* One custom dialect, which its two plugins and its users write in two ways,  *)
(* and a built-in one.  WalkScript is SELECT DATE_TRUNC('day', "x") ILIKE ..;  *)
(* DropScript is a statement without expressions.                              *)
EXTENDS DialectRegistry

CONSTANTS t1, t2, p1, p2, s0, s1, fun, col, lit, lik

\* "Mine" is mine to the registry; ansi is built in.
MCLower == [s \in Spelling |-> IF s = "Mine" THEN "mine" ELSE s]
MCNameOf == [p \in Plugin |-> IF p = p1 /\ "Mine" \in Spelling THEN "Mine" ELSE "mine"]
\* p1 has a name of its own for DATE_TRUNC; p2 rewrites it itself, and its destructor panics.
MCRenames == [p \in Plugin |-> IF p = p1 THEN {fun} ELSE {}]
MCReplaces == [p \in Plugin |-> IF p = p2 THEN {fun} ELSE {}]
MCIlike == {p1}
MCPanics == {p2}
MCKind == [n \in Node |-> CASE n = fun -> "typed" [] n = lik -> "ilike" [] n = col -> "column" [] n = lit -> "literal"]
MCKids == [n \in Node |-> CASE n = lik -> <<fun>> [] n = fun -> <<col>> [] OTHER -> <<>>]
\* A DATE_TRUNC with another name has its unit as a literal.
MCArgs == [n \in Node |-> IF n = fun THEN <<lit, col>> ELSE <<>>]
MCQuoted == [n \in Node |-> IF n = col THEN 1 ELSE 0]
MCBody == [s \in Statement |-> IF s = s1 THEN <<Questions("node", lik)>> ELSE <<>>]
DropScript == <<Questions("statement", s0)>>
WalkScript == <<Questions("statement", s1)>>
=============================================================================
