------------------------------ MODULE JoinLoops ------------------------------
(***************************************************************************)
(* The loops of inner_join, left_join, right_join and full_join            *)
(* (src/executor/engine.rs), one step for each pair of rows.  A row stands *)
(* for its place in its table, a joined row is <<left, right>>, where 0 is *)
(* the row of NULLs.  What join_matches finds for a pair is given.         *)
(***************************************************************************)
EXTENDS Naturals, Sequences, Functions

JoinTypes == {"inner", "left", "right", "full"}
Fatal == {"failed", "panicked"}
Finding == {"yes", "no"} \cup Fatal

\* No call: otherwise the numbers of rows, the kind of join, and the finding
\* for each pair of rows.
NoJob == [left |-> 0, right |-> 0, type |-> "inner", on |-> <<>>]

VARIABLES
    job,            \* the arguments of the call
    phase,          \* "idle", in a loop, or how the call ends
    outer, inner,   \* the rows the two loops are at
    matched,        \* has the outer row matched?
    right_matched,  \* full_join: has a right row matched?
    result          \* the joined rows
joinVars == <<job, phase, outer, inner, matched, right_matched, result>>

-----------------------------------------------------------------------------
\* right_join has the loop over the right rows outside.
OuterRows == IF job.type = "right" THEN job.right ELSE job.left
InnerRows == IF job.type = "right" THEN job.left ELSE job.right
Merged(o, i) == IF job.type = "right" THEN <<i, o>> ELSE <<o, i>>

JoinInit ==
    /\ job = NoJob /\ phase = "idle" /\ outer = 0 /\ inner = 0
    /\ matched = FALSE /\ right_matched = <<>> /\ result = <<>>

BeginLoops(j) ==
    /\ phase = "idle"
    /\ job' = j /\ phase' = "loop" /\ outer' = 1 /\ inner' = 1
    /\ matched' = FALSE /\ right_matched' = [r \in 1..j.right |-> FALSE]
    /\ result' = <<>>

\* A turn of the inner loop, by what join_matches finds.
InnerTurn(finding) ==
    /\ phase = "loop" /\ outer <= OuterRows /\ inner <= InnerRows
    /\ job.on[Merged(outer, inner)] = finding

AddMatch ==
    /\ InnerTurn("yes")
    /\ result' = Append(result, Merged(outer, inner))
    /\ matched' = TRUE
    /\ right_matched' = IF job.type = "full" THEN [right_matched EXCEPT ![inner] = TRUE]
                        ELSE right_matched
    /\ inner' = inner + 1
    /\ UNCHANGED <<job, phase, outer>>

SkipPair ==
    /\ InnerTurn("no")
    /\ inner' = inner + 1
    /\ UNCHANGED <<job, phase, outer, matched, right_matched, result>>

\* The error of a condition ends the call.
FailLoops ==
    \E finding \in Fatal :
        /\ InnerTurn(finding)
        /\ phase' = finding /\ result' = <<>>
        /\ UNCHANGED <<job, outer, inner, matched, right_matched>>

\* A mutant: the flag of a row is kept for the next one.
EndTurnKeepingFlag ==
    /\ phase = "loop" /\ outer <= OuterRows /\ inner > InnerRows
    /\ result' = IF matched \/ job.type = "inner" THEN result
                 ELSE Append(result, Merged(outer, 0))
    /\ outer' = outer + 1 /\ inner' = 1
    /\ UNCHANGED <<job, phase, matched, right_matched>>

\* The end of a turn of the outer loop, whose row may be kept beside NULLs;
\* `matched` is declared anew for the next row.
EndTurn ==
    /\ phase = "loop" /\ outer <= OuterRows /\ inner > InnerRows
    /\ result' = IF matched \/ job.type = "inner" THEN result
                 ELSE Append(result, Merged(outer, 0))
    /\ outer' = outer + 1 /\ inner' = 1 /\ matched' = FALSE
    /\ UNCHANGED <<job, phase, right_matched>>

EndLoop ==
    /\ phase = "loop" /\ outer > OuterRows
    /\ phase' = IF job.type = "full" THEN "rest" ELSE "done"
    /\ UNCHANGED <<job, outer, inner, matched, right_matched, result>>

\* The second loop of full_join: the right rows that never matched.
RestTurn ==
    /\ phase = "rest" /\ inner <= job.right
    /\ result' = IF right_matched[inner] THEN result ELSE Append(result, <<0, inner>>)
    /\ inner' = inner + 1
    /\ UNCHANGED <<job, phase, outer, matched, right_matched>>

EndRest ==
    /\ phase = "rest" /\ inner > job.right
    /\ phase' = "done"
    /\ UNCHANGED <<job, outer, inner, matched, right_matched, result>>

LoopStep == AddMatch \/ SkipPair \/ FailLoops \/ EndTurn \/ EndLoop \/ RestTurn \/ EndRest

\* The caller takes the result.
Return ==
    /\ phase \in {"done"} \cup Fatal
    /\ job' = NoJob /\ phase' = "idle" /\ outer' = 0 /\ inner' = 0
    /\ matched' = FALSE /\ right_matched' = <<>> /\ result' = <<>>

JoinNext ==
    \/ \E l, r \in Nat, type \in JoinTypes : \E on \in [(1..l) \X (1..r) -> Finding] :
          BeginLoops([left |-> l, right |-> r, type |-> type, on |-> on])
    \/ LoopStep
    \/ Return

JoinSpec == JoinInit /\ [][JoinNext]_joinVars

-----------------------------------------------------------------------------
LoopsTypeOK ==
    /\ job.left \in Nat /\ job.right \in Nat /\ job.type \in JoinTypes
    /\ job.on \in [(1..job.left) \X (1..job.right) -> Finding]
    /\ phase \in {"idle", "loop", "rest", "done"} \cup Fatal
    /\ outer \in 0..(OuterRows + 1) /\ inner \in Nat
    /\ matched \in BOOLEAN /\ right_matched \in [1..job.right -> BOOLEAN]
    /\ result \in Seq((0..job.left) \X (0..job.right))

\* The rows of the join, without any loop: the pairs that match, and of an
\* outer join the rows of the sides it keeps that are in none of them.
MatchingPairs == {p \in (1..job.left) \X (1..job.right) : job.on[p] = "yes"}
PaddedLeft ==
    {p \in (1..job.left) \X {0} :
        job.type \in {"left", "full"} /\ \A r \in 1..job.right : <<p[1], r>> \notin MatchingPairs}
PaddedRight ==
    {p \in {0} \X (1..job.right) :
        job.type \in {"right", "full"} /\ \A l \in 1..job.left : <<l, p[2]>> \notin MatchingPairs}
JoinedPairs == MatchingPairs \cup PaddedLeft \cup PaddedRight

\* The order of the loops, the right rows of a FULL JOIN without a match last.
OuterOf(p) == IF job.type = "right" THEN p[2] ELSE p[1]
InnerOf(p) == IF job.type = "right" THEN p[1] ELSE p[2]
ComesBefore(p, r) ==
    \/ OuterOf(p) # 0 /\ OuterOf(r) = 0
    \/ /\ (OuterOf(p) = 0) = (OuterOf(r) = 0)
       /\ \/ OuterOf(p) < OuterOf(r)
          \/ OuterOf(p) = OuterOf(r) /\ InnerOf(p) < InnerOf(r)

\* The matched flags and the second loop of full_join make no difference: a
\* call that ends has precisely the rows of the join, each once and in the
\* order of the loops; it ends with an error exactly when the condition does
\* for some pair, and then with the error of the first such pair.
JoinsAsSets ==
    /\ phase = "done" =>
          /\ Range(result) = JoinedPairs
          /\ \A m, n \in DOMAIN result : m < n => ComesBefore(result[m], result[n])
          /\ \A p \in DOMAIN job.on : job.on[p] \notin Fatal
    /\ phase \in Fatal =>
          \E p \in DOMAIN job.on :
              /\ job.on[p] = phase
              /\ \A r \in DOMAIN job.on : ComesBefore(r, p) => job.on[r] \notin Fatal
=============================================================================
