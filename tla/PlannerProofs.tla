--------------------------- MODULE PlannerProofs ---------------------------
(***************************************************************************)
(* What the planner guarantees for every statement, of any size and        *)
(* nesting: its type invariant, the shape of the plan (Topological,        *)
(* ReadOnce, OneSink), that the root is the step plan_statement returned,  *)
(* and that building is a behaviour of PlanDag.                            *)
(*                                                                         *)
(* The inductive invariant says where every StepId is: the ids nobody has  *)
(* read are exactly the ones the active calls hold, no two calls hold the  *)
(* same one, and the id last produced is the last step of the vector.      *)
(***************************************************************************)
EXTENDS Planner, SequenceTheorems, TLAPS

\* A call holds no step until it leaves its first stage.
StageOK ==
  \A i \in DOMAIN stack : (stack[i].current = NoStep) <=> (stack[i].at = "enter")

\* No id is held twice.
HeldOnce ==
  /\ \A i, j \in DOMAIN stack :
        i # j /\ stack[i].current # NoStep => stack[i].current # stack[j].current
  /\ \A i \in DOMAIN stack :
        stack[i].current # NoStep => stack[i].current # ret

\* The ids held are steps, and exactly the steps nobody has read.
HeldIsOpen ==
  \A i \in Int :
    i \in Held <=> (/\ i \in 0 .. Len(steps) - 1
                    /\ \A j \in DOMAIN steps : i \notin Inputs(j))

\* The newest id is where the recursion is.
Newest ==
  /\ ret # NoStep => ret = Len(steps) - 1
  /\ ret = NoStep /\ stack # <<>> /\ Top.current # NoStep
        => Top.current = Len(steps) - 1

\* How the calls end.
Ending ==
  /\ outcome = "running" /\ stack = <<>> => ret # NoStep
  /\ outcome = "ok" => stack = <<>> /\ ret # NoStep /\ root = ret
  /\ outcome # "ok" => root = NoStep
  /\ outcome = "err" => stack = <<>> /\ ret = NoStep

IInv ==
  /\ TypeOK
  /\ StageOK
  /\ HeldOnce
  /\ HeldIsOpen
  /\ Newest
  /\ Ending
  /\ Topological
  /\ ReadOnce
-----------------------------------------------------------------------------
(* The actions, by what they do to the ids: f is the frame that replaces    *)
(* the innermost call, c a call it makes.                                  *)

\* The ids the innermost call holds, its own and the one just returned.
Own == {Top.current, ret} \ {NoStep}

\* The frame f holds the one id that the innermost call held, if any.
Carries(f) ==
  /\ f \in Frame
  /\ f.current = NoStep <=> f.at = "enter"
  /\ \/ ret = NoStep /\ f.current = Top.current
     \/ Top.current = NoStep /\ f.current = ret

Relabel(f) ==
  /\ Carries(f)
  /\ stack' = Append(Below, f) /\ ret' = NoStep /\ steps' = steps

Descend(f, c) ==
  /\ Carries(f)
  /\ c \in Frame /\ c.at = "enter" /\ c.current = NoStep
  /\ stack' = Append(Append(Below, f), c) /\ ret' = NoStep /\ steps' = steps

GiveBack ==
  /\ ret = NoStep /\ Top.current # NoStep
  /\ stack' = Below /\ ret' = Top.current /\ steps' = steps

Ids(d) == {d[k] : k \in DOMAIN d}

\* A step over all the ids the innermost call holds.
Adds(d) ==
  /\ d \in Seq(Nat)
  /\ Ids(d) = Own
  /\ Len(d) <= 2
  /\ Len(d) = 2 => d[1] # d[2]
  /\ \E kind \in StepKind : AddStep(kind, d)

Extend(f, d) ==
  /\ Adds(d)
  /\ f \in Frame /\ f.at # "enter" /\ f.current = Len(steps)
  /\ stack' = Append(Below, f) /\ ret' = NoStep

Finish(d) ==
  /\ Adds(d)
  /\ stack' = Below /\ ret' = Len(steps)

Running == outcome = "running" /\ stack # <<>> /\ Keep

Move == /\ Running
        /\ \/ \E f \in Frame : Relabel(f)
           \/ \E f, c \in Frame : Descend(f, c)
           \/ GiveBack
           \/ \E f \in Frame, d \in Seq(Nat) : Extend(f, d)
           \/ \E d \in Seq(Nat) : Finish(d)

-----------------------------------------------------------------------------
(* Facts about the stack and the steps. *)

LEMMA BelowFacts ==
  ASSUME TypeOK, stack # <<>>
  PROVE  /\ Len(stack) \in Nat \ {0}
         /\ DOMAIN stack = 1 .. Len(stack)
         /\ Top \in Frame
         /\ Below \in Seq(Frame)
         /\ Len(Below) = Len(stack) - 1
         /\ \A i \in 1 .. Len(stack) - 1 : Below[i] = stack[i]
<1>1. stack \in Seq(Frame)
  BY DEF TypeOK
<1>2. Len(stack) \in Nat \ {0} /\ DOMAIN stack = 1 .. Len(stack)
  BY <1>1, EmptySeq, LenProperties
<1>3. \A i \in 1 .. Len(stack) : stack[i] \in Frame
  BY <1>1, ElementOfSeq
<1>4. Top \in Frame
  BY <1>2, <1>3 DEF Top
<1>5. /\ SubSeq(stack, 1, Len(stack) - 1) \in Seq(Frame)
      /\ Len(SubSeq(stack, 1, Len(stack) - 1)) = Len(stack) - 1
      /\ \A i \in 1 .. Len(stack) - 1 : SubSeq(stack, 1, Len(stack) - 1)[i] = stack[i]
  <2> DEFINE n == Len(stack) - 1
  <2>1. n \in Nat /\ \A i \in 1 .. n : stack[i] \in Frame
    BY <1>2, <1>3
  <2>2. /\ SubSeq(stack, 1, n) \in Seq(Frame)
        /\ Len(SubSeq(stack, 1, n)) = IF 1 <= n THEN n-1+1 ELSE 0
        /\ \A i \in 1 .. n-1+1 : SubSeq(stack, 1, n)[i] = stack[1+i-1]
    <3> HIDE DEF n
    <3> QED BY <2>1, SubSeqProperties
  <2>3. /\ Len(SubSeq(stack, 1, n)) = n
        /\ \A i \in 1 .. n : SubSeq(stack, 1, n)[i] = stack[i]
    <3> HIDE DEF n
    <3>1. n - 1 + 1 = n /\ (~(1 <= n) => n = 0) /\ \A i \in 1 .. n : 1 + i - 1 = i
      BY <2>1
    <3> QED BY <2>1, <2>2, <3>1
  <2> QED BY <2>2, <2>3
<1> QED BY <1>2, <1>4, <1>5 DEF Below

\* A record of a query's AST has the shape its kind says.
LEMMA AstFacts ==
  ASSUME TypeOK, stack # <<>>
  PROVE  /\ Ast.kind = "Select" => Ast \in SelectRec
         /\ Ast.kind = "SetOperation" => Ast \in SetOperationRec
         /\ Ast.kind \in {"Subquery", "Lateral", "Pivot"} => Ast.source \in Node
<1>1. Top.node \in Node /\ query \in [ast : [Node -> NodeRec], root : Node, nodes : SUBSET Node]
  BY BelowFacts, QueriesAssumption DEF TypeOK, Frame
<1>2. Ast \in NodeRec
  BY <1>1 DEF Ast
<1> QED
  BY <1>2 DEF NodeRec, SelectRec, SetOperationRec, OtherRec, TableSourceRec

LEMMA FrameFacts ==
  ASSUME TypeOK, stack # <<>>
  PROVE  /\ \A a \in Stage, c \in Nat \cup {NoStep}, j \in Nat :
              /\ Here(a, c, j) \in Frame
              /\ Here(a, c, j).at = a
              /\ Here(a, c, j).current = c
         /\ \A n \in Node : /\ Call(n) \in Frame
                            /\ Call(n).at = "enter"
                            /\ Call(n).current = NoStep
         /\ Top.current \in Nat \cup {NoStep}
         /\ Top.joined \in Nat
         /\ Top.node \in Node
         /\ Top.at \in Stage
  BY BelowFacts DEF Frame, Here, Call, Stage

\* The innermost call, seen through the invariant.
LEMMA TopFacts ==
  ASSUME TypeOK, StageOK, HeldOnce, stack # <<>>
  PROVE  /\ Top.current = NoStep <=> Top.at = "enter"
         /\ Top.current # NoStep => Top.current # ret
  BY BelowFacts DEF StageOK, HeldOnce, Top

LEMMA LiteralIds ==
  ASSUME NEW a \in Nat, NEW b \in Nat
  PROVE  /\ <<>> \in Seq(Nat) /\ Len(<<>>) = 0 /\ Ids(<<>>) = {}
         /\ <<a>> \in Seq(Nat) /\ Len(<<a>>) = 1 /\ Ids(<<a>>) = {a}
         /\ <<a, b>> \in Seq(Nat) /\ Len(<<a, b>>) = 2 /\ Ids(<<a, b>>) = {a, b}
         /\ <<a, b>>[1] = a /\ <<a, b>>[2] = b
<1>1. Ids(<<>>) = {}
  BY DEF Ids
<1>2. Ids(<<a>>) = {a}
  BY DOMAIN <<a>> = {1} DEF Ids
<1>3. Ids(<<a, b>>) = {a, b}
  BY DOMAIN <<a, b>> = {1, 2} DEF Ids
<1> QED BY <1>1, <1>2, <1>3

\* A step over what the innermost call holds, for each of the four cases.
LEMMA AddsFacts ==
  ASSUME TypeOK, StageOK, HeldOnce, stack # <<>>, NEW kind \in StepKind
  PROVE  /\ Top.current = NoStep /\ ret = NoStep /\ AddStep(kind, <<>>)
              => Adds(<<>>)
         /\ Top.current # NoStep /\ ret = NoStep /\ AddStep(kind, <<Top.current>>)
              => Adds(<<Top.current>>)
         /\ Top.current = NoStep /\ ret # NoStep /\ AddStep(kind, <<ret>>)
              => Adds(<<ret>>)
         /\ Top.current # NoStep /\ ret # NoStep /\ AddStep(kind, <<Top.current, ret>>)
              => Adds(<<Top.current, ret>>)
<1>1. /\ Top.current \in Nat \cup {NoStep} /\ ret \in Nat \cup {NoStep}
      /\ Top.current # NoStep => Top.current # ret
  BY FrameFacts, TopFacts DEF TypeOK
<1>2. CASE Top.current = NoStep /\ ret = NoStep
  <2>1. Own = {}
    BY <1>2 DEF Own
  <2>2. <<>> \in Seq(Nat) /\ Ids(<<>>) = Own /\ Len(<<>>) = 0
    BY <2>1, LiteralIds, 0 \in Nat
  <2>3. ASSUME AddStep(kind, <<>>)
        PROVE  Adds(<<>>)
    BY <2>2, <2>3 DEF Adds
  <2> QED BY <1>2, <2>3
<1>3. CASE Top.current # NoStep /\ ret = NoStep
  <2>1. Top.current \in Nat /\ Own = {Top.current}
    BY <1>1, <1>3 DEF Own
  <2>2. /\ <<Top.current>> \in Seq(Nat) /\ Ids(<<Top.current>>) = Own
        /\ Len(<<Top.current>>) = 1
    BY <2>1, LiteralIds
  <2>3. ASSUME AddStep(kind, <<Top.current>>)
        PROVE  Adds(<<Top.current>>)
    BY <1>1, <1>3, <2>2, <2>3 DEF Adds
  <2> QED BY <1>3, <2>3
<1>4. CASE Top.current = NoStep /\ ret # NoStep
  <2>1. ret \in Nat /\ Own = {ret}
    BY <1>1, <1>4 DEF Own
  <2>2. /\ <<ret>> \in Seq(Nat) /\ Ids(<<ret>>) = Own
        /\ Len(<<ret>>) = 1
    BY <2>1, LiteralIds
  <2>3. ASSUME AddStep(kind, <<ret>>)
        PROVE  Adds(<<ret>>)
    BY <1>1, <1>4, <2>2, <2>3 DEF Adds
  <2> QED BY <1>4, <2>3
<1>5. CASE Top.current # NoStep /\ ret # NoStep
  <2>1. Top.current \in Nat /\ ret \in Nat /\ Own = {Top.current, ret}
    BY <1>1, <1>5 DEF Own
  <2>2. /\ <<Top.current, ret>> \in Seq(Nat) /\ Ids(<<Top.current, ret>>) = Own
        /\ Len(<<Top.current, ret>>) = 2
        /\ <<Top.current, ret>>[1] = Top.current /\ <<Top.current, ret>>[2] = ret
    BY <2>1, LiteralIds
  <2>3. ASSUME AddStep(kind, <<Top.current, ret>>)
        PROVE  Adds(<<Top.current, ret>>)
    BY <1>1, <1>5, <2>2, <2>3 DEF Adds
  <2> QED BY <1>5, <2>3
<1> QED BY <1>2, <1>3, <1>4, <1>5

\* Every action but Reject and Build is one of the moves.
LEMMA ActionsAreMoves ==
  ASSUME TypeOK, StageOK, HeldOnce, Advance, ~Reject, ~Build
  PROVE  Move
<1> DEFINE Act == PlanSelect \/ PlanSetOperation \/ PlanTableSource
<1>1. stack # <<>> /\ Running
  BY DEF Advance, PlanSelect, PlanSetOperation, PlanTableSource, Running, At,
         Returned, VirtualScan, CallFromSource, TakeFromSource, CallJoinSource,
         AddJoin, EndJoins, AddWhere, AddAggregate, AddHaving, AddDistinct,
         AddSort, AddLimit, AddProject, CallLeft, CallRight, AddSetOperation,
         AddSetSort, AddSetLimit, ScanSource, PlanInner, CallPivotSource,
         AddPivotProject, Clause
<1>2. /\ Top.current \in Nat \cup {NoStep} /\ ret \in Nat \cup {NoStep}
      /\ Top.current = NoStep <=> Top.at = "enter"
      /\ Top.joined \in Nat /\ Len(steps) \in Nat /\ Len(steps) # NoStep
  BY <1>1, FrameFacts, TopFacts, LenProperties DEF TypeOK, NoStep
\* The four ways an action goes on.
<1>3. ASSUME NEW a \in Stage, NEW c \in Nat \cup {NoStep}, NEW j \in Nat,
             c = NoStep <=> a = "enter",
             \/ ret = NoStep /\ c = Top.current
             \/ Top.current = NoStep /\ c = ret
      PROVE  /\ Carries(Here(a, c, j))
             /\ Continue(c, a, j) /\ UNCHANGED steps => Move
             /\ \A n \in Node :
                  j = Top.joined /\ CallFrom(a, c, n) /\ UNCHANGED steps => Move
  <2> DEFINE f == Here(a, c, j)
  <2>1. Carries(f) /\ f \in Frame
    BY <1>1, <1>3, FrameFacts DEF Carries
  <2>2. ASSUME Continue(c, a, j), UNCHANGED steps
        PROVE  Move
    <3>1. stack' = Append(Below, f) /\ ret' = NoStep /\ steps' = steps
      BY <2>2 DEF Continue
    <3> HIDE DEF f
    <3> QED BY <1>1, <2>1, <3>1 DEF Move, Relabel
  <2>3. ASSUME NEW n \in Node, j = Top.joined, CallFrom(a, c, n), UNCHANGED steps
        PROVE  Move
    <3> DEFINE g == Call(n)
    <3>1. /\ stack' = Append(Append(Below, f), g) /\ ret' = NoStep /\ steps' = steps
          /\ g \in Frame /\ g.at = "enter" /\ g.current = NoStep
      BY <1>1, <2>3, FrameFacts DEF CallFrom
    <3> HIDE DEF f, g
    <3> QED BY <1>1, <2>1, <3>1 DEF Move, Descend
  <2> QED BY <2>1, <2>2, <2>3
<1>4. ASSUME NEW d \in Seq(Nat), Adds(d), NEW a \in Stage, a # "enter", NEW j \in Nat,
             Continue(Len(steps), a, j)
      PROVE  Move
  <2> DEFINE f == Here(a, Len(steps), j)
  <2>1. /\ stack' = Append(Below, f) /\ ret' = NoStep
        /\ f \in Frame /\ f.at = a /\ f.current = Len(steps)
    BY <1>1, <1>2, <1>4, FrameFacts DEF Continue
  <2> HIDE DEF f
  <2> QED BY <1>1, <1>4, <2>1 DEF Move, Extend
<1>5. ASSUME NEW d \in Seq(Nat), Adds(d), Return(Len(steps))
      PROVE  Move
  BY <1>1, <1>5 DEF Move, Finish, Return
<1>6. ASSUME ret = NoStep, Top.current # NoStep, UNCHANGED steps, Return(Top.current)
      PROVE  Move
  BY <1>1, <1>6 DEF Move, GiveBack, Return
\* What the stages say about the ids.
<1>7. ASSUME NEW kind, NEW stage, At(kind, stage)
      PROVE  /\ ret = NoStep /\ Top.at = stage /\ Ast.kind = kind
             /\ stage = "enter" => Top.current = NoStep
             /\ stage # "enter" => Top.current \in Nat /\ Top.current # NoStep
  BY <1>2, <1>7 DEF At
<1>8. ASSUME NEW kind, NEW stage, Returned(kind, stage)
      PROVE  /\ ret \in Nat /\ ret # NoStep /\ Top.at = stage /\ Ast.kind = kind
             /\ stage = "enter" => Top.current = NoStep
             /\ stage # "enter" => Top.current \in Nat /\ Top.current # NoStep
  BY <1>2, <1>8 DEF Returned
<1>9. \A d \in Seq(Nat) : Adds(d) => d \in Seq(Nat)
  OBVIOUS
<1>10. ASSUME NEW kind, NEW a \in Stage, NEW b \in Stage, NEW step \in StepKind,
              NEW p \in BOOLEAN, a # "enter", b # "enter", Clause(kind, a, p, step, b)
       PROVE  Move
  <2>1. ret = NoStep /\ Top.current \in Nat /\ Top.current # NoStep
    BY <1>7, <1>10 DEF Clause
  <2>2. CASE p
    <3>1. AddStep(step, <<Top.current>>) /\ Continue(Len(steps), b, Top.joined)
      BY <1>10, <2>2 DEF Clause, NewStep
    <3>2. Adds(<<Top.current>>) /\ <<Top.current>> \in Seq(Nat)
      BY <1>1, <2>1, <3>1, AddsFacts DEF Adds
    <3> QED BY <1>2, <1>4, <1>10, <3>1, <3>2 DEF Adds, AddStep, Continue
  <2>3. CASE ~p
    <3>1. UNCHANGED steps /\ Continue(Top.current, b, Top.joined)
      BY <1>10, <2>3 DEF Clause
    <3> QED BY <1>2, <1>3, <1>10, <2>1, <3>1 DEF Continue
  <2> QED BY <2>2, <2>3
<1>11. Stage = {"enter", "joins", "where", "aggregate", "having", "distinct",
               "sort", "limit", "project", "right"}
  BY DEF Stage
\* plan_select
<1>20. ASSUME VirtualScan PROVE Move
  <2>1. ret = NoStep /\ Top.current = NoStep
    BY <1>7, <1>20 DEF VirtualScan
  <2>2. AddStep("Scan", <<>>) /\ Continue(Len(steps), "joins", 0)
    BY <1>20 DEF VirtualScan, NewStep
  <2>3. Adds(<<>>) /\ <<>> \in Seq(Nat)
    BY <1>1, <2>1, <2>2, AddsFacts DEF Adds, StepKind
  <2> QED BY <1>4, <1>11, <2>2, <2>3
<1>21. ASSUME CallFromSource PROVE Move
  <2>1. ret = NoStep /\ Top.current = NoStep /\ Ast.kind = "Select"
    BY <1>7, <1>21 DEF CallFromSource
  <2>2. Ast.from \in Node
    BY <1>1, <1>21, <2>1, AstFacts DEF SelectRec, CallFromSource
  <2>3. CallFrom("enter", NoStep, Ast.from) /\ UNCHANGED steps
    BY <1>21 DEF CallFromSource
  <2> QED BY <1>2, <1>3, <1>11, <2>1, <2>2, <2>3 DEF CallFrom
<1>22. ASSUME TakeFromSource PROVE Move
  <2>1. ret \in Nat /\ ret # NoStep /\ Top.current = NoStep
    BY <1>8, <1>22 DEF TakeFromSource
  <2>2. Continue(ret, "joins", 0) /\ UNCHANGED steps
    BY <1>22 DEF TakeFromSource
  <2> QED BY <1>2, <1>3, <1>11, <2>1, <2>2
<1>23. ASSUME CallJoinSource PROVE Move
  <2>1. ret = NoStep /\ Top.current \in Nat /\ Top.current # NoStep /\ Ast.kind = "Select"
    BY <1>7, <1>23 DEF CallJoinSource
  <2>2. Ast.joins[Top.joined + 1] \in Node
    <3>1. Ast.joins \in Seq(Node)
      BY <1>1, <2>1, AstFacts DEF SelectRec
    <3>2. Top.joined + 1 \in 1 .. Len(Ast.joins)
      BY <1>2, <1>23, <3>1, LenProperties DEF CallJoinSource
    <3> QED BY <3>1, <3>2, ElementOfSeq
  <2>3. CallFrom("joins", Top.current, Ast.joins[Top.joined + 1]) /\ UNCHANGED steps
    BY <1>23 DEF CallJoinSource
  <2> QED BY <1>2, <1>3, <1>11, <2>1, <2>2, <2>3 DEF CallFrom
<1>24. ASSUME AddJoin PROVE Move
  <2>1. ret # NoStep /\ Top.current # NoStep
    BY <1>8, <1>24 DEF AddJoin
  <2>2. /\ AddStep("Join", <<Top.current, ret>>)
        /\ Continue(Len(steps), "joins", Top.joined + 1)
    BY <1>24 DEF AddJoin, NewStep
  <2>3. Adds(<<Top.current, ret>>) /\ <<Top.current, ret>> \in Seq(Nat)
    BY <1>1, <2>1, <2>2, AddsFacts DEF Adds, StepKind
  <2>4. Top.joined + 1 \in Nat
    BY <1>2
  <2> QED BY <1>4, <1>11, <2>2, <2>3, <2>4 DEF Continue
<1>25. ASSUME EndJoins PROVE Move
  <2>1. ret = NoStep /\ Top.current \in Nat /\ Top.current # NoStep
    BY <1>7, <1>25 DEF EndJoins
  <2>2. Continue(Top.current, "where", Top.joined) /\ UNCHANGED steps
    BY <1>25 DEF EndJoins
  <2> QED BY <1>2, <1>3, <1>11, <2>1, <2>2
<1>26. ASSUME NEW a \in Stage, a # "enter", NEW kind, At(kind, a), NEW p \in BOOLEAN,
              NEW step \in StepKind,
              IF p THEN AddStep(step, <<Top.current>>) /\ Return(Len(steps))
                   ELSE UNCHANGED steps /\ Return(Top.current)
       PROVE  Move
  <2>1. ret = NoStep /\ Top.current \in Nat /\ Top.current # NoStep
    BY <1>7, <1>26
  <2>2. CASE p
    <3>1. Adds(<<Top.current>>) /\ <<Top.current>> \in Seq(Nat)
      BY <1>1, <1>26, <2>1, <2>2, AddsFacts DEF Adds
    <3> QED BY <1>5, <1>26, <2>2, <3>1
  <2>3. CASE ~p
    BY <1>6, <1>26, <2>1, <2>3
  <2> QED BY <2>2, <2>3
<1>27. ASSUME AddProject PROVE Move
  BY <1>26, <1>27, <1>11 DEF AddProject, NewStep, StepKind
\* plan_set_operation
<1>30. ASSUME CallLeft PROVE Move
  <2>1. ret = NoStep /\ Top.current = NoStep /\ Ast.kind = "SetOperation"
    BY <1>7, <1>30 DEF CallLeft
  <2>2. Ast.left \in Node
    BY <1>1, <2>1, AstFacts DEF SetOperationRec
  <2>3. CallFrom("enter", NoStep, Ast.left) /\ UNCHANGED steps
    BY <1>30 DEF CallLeft
  <2> QED BY <1>2, <1>3, <1>11, <2>1, <2>2, <2>3 DEF CallFrom
<1>31. ASSUME CallRight PROVE Move
  <2>1. ret \in Nat /\ ret # NoStep /\ Top.current = NoStep /\ Ast.kind = "SetOperation"
    BY <1>8, <1>31 DEF CallRight
  <2>2. Ast.right \in Node
    BY <1>1, <2>1, AstFacts DEF SetOperationRec
  <2>3. CallFrom("right", ret, Ast.right) /\ UNCHANGED steps
    BY <1>31 DEF CallRight
  <2> QED BY <1>2, <1>3, <1>11, <2>1, <2>2, <2>3 DEF CallFrom
<1>32. ASSUME AddSetOperation PROVE Move
  <2>1. ret # NoStep /\ Top.current # NoStep
    BY <1>8, <1>32 DEF AddSetOperation
  <2>2. /\ AddStep("SetOperation", <<Top.current, ret>>)
        /\ Continue(Len(steps), "sort", 0)
    BY <1>32 DEF AddSetOperation, NewStep
  <2>3. Adds(<<Top.current, ret>>) /\ <<Top.current, ret>> \in Seq(Nat)
    BY <1>1, <2>1, <2>2, AddsFacts DEF Adds, StepKind
  <2> QED BY <1>2, <1>4, <1>11, <2>2, <2>3
<1>33. ASSUME AddSetLimit PROVE Move
  BY <1>26, <1>33, <1>11 DEF AddSetLimit, NewStep, StepKind
\* plan_table_source
<1>40. ASSUME ScanSource PROVE Move
  <2>1. ret = NoStep /\ Top.current = NoStep
    BY <1>7, <1>40 DEF ScanSource
  <2>2. AddStep("Scan", <<>>) /\ Return(Len(steps))
    BY <1>40 DEF ScanSource, NewStep
  <2>3. Adds(<<>>) /\ <<>> \in Seq(Nat)
    BY <1>1, <2>1, <2>2, AddsFacts DEF Adds, StepKind
  <2> QED BY <1>5, <2>2, <2>3
<1>41. ASSUME PlanInner PROVE Move
  <2>1. ret = NoStep /\ Top.current = NoStep /\ Ast.kind \in {"Subquery", "Lateral"}
    BY <1>7, <1>41 DEF PlanInner
  <2>2. Ast.source \in Node
    BY <1>1, <2>1, AstFacts
  <2> DEFINE f == Call(Ast.source)
  <2>3. /\ f \in Frame /\ f.at = "enter" /\ f.current = NoStep
        /\ stack' = Append(Below, f) /\ ret' = NoStep /\ steps' = steps
    BY <1>1, <1>41, <2>2, FrameFacts DEF PlanInner, TailCall
  <2> HIDE DEF f
  <2> QED BY <1>1, <2>1, <2>3 DEF Move, Relabel, Carries
<1>42. ASSUME CallPivotSource PROVE Move
  <2>1. ret = NoStep /\ Top.current = NoStep /\ Ast.kind = "Pivot"
    BY <1>7, <1>42 DEF CallPivotSource
  <2>2. Ast.source \in Node
    BY <1>1, <2>1, AstFacts
  <2>3. CallFrom("enter", NoStep, Ast.source) /\ UNCHANGED steps
    BY <1>42 DEF CallPivotSource
  <2> QED BY <1>2, <1>3, <1>11, <2>1, <2>2, <2>3 DEF CallFrom
<1>43. ASSUME AddPivotProject PROVE Move
  <2>1. ret # NoStep /\ Top.current = NoStep
    BY <1>8, <1>43 DEF AddPivotProject
  <2>2. AddStep("Project", <<ret>>) /\ Return(Len(steps))
    BY <1>43 DEF AddPivotProject, NewStep
  <2>3. Adds(<<ret>>) /\ <<ret>> \in Seq(Nat)
    BY <1>1, <2>1, <2>2, AddsFacts DEF Adds, StepKind
  <2> QED BY <1>5, <2>2, <2>3
<1>44. CASE PlanSetOperation
  <2>1. ASSUME AddSetSort PROVE Move
    <3>1. Ast.order_by \in BOOLEAN
      BY <1>1, <1>7, <2>1, AstFacts DEF AddSetSort, Clause, SetOperationRec
    <3> QED BY <1>10, <1>11, <2>1, <3>1 DEF AddSetSort, StepKind
  <2> QED BY <1>44, <1>30, <1>31, <1>32, <1>33, <2>1 DEF PlanSetOperation
<1>45. CASE PlanTableSource
  BY <1>45, <1>40, <1>41, <1>42, <1>43 DEF PlanTableSource
<1>46. CASE PlanSelect
  <2>1. ASSUME Ast.kind = "Select"
        PROVE  /\ Ast.where \in BOOLEAN /\ Ast.group_by \in BOOLEAN
               /\ Ast.having \in BOOLEAN /\ Ast.distinct \in BOOLEAN
               /\ Ast.order_by \in BOOLEAN
    BY <1>1, <2>1, AstFacts DEF SelectRec
  <2>2. ASSUME AddWhere PROVE Move
    BY <1>10, <1>11, <2>1, <2>2 DEF AddWhere, Clause, At, StepKind
  <2>3. ASSUME AddAggregate PROVE Move
    BY <1>10, <1>11, <2>1, <2>3 DEF AddAggregate, StepKind
  <2>4. ASSUME AddHaving PROVE Move
    BY <1>10, <1>11, <2>1, <2>4 DEF AddHaving, Clause, At, StepKind
  <2>5. ASSUME AddDistinct PROVE Move
    BY <1>10, <1>11, <2>1, <2>5 DEF AddDistinct, Clause, At, StepKind
  <2>6. ASSUME AddSort PROVE Move
    BY <1>10, <1>11, <2>1, <2>6 DEF AddSort, Clause, At, StepKind
  <2>7. ASSUME AddLimit PROVE Move
    BY <1>10, <1>11, <2>7 DEF AddLimit, StepKind
  <2> QED BY <1>46, <1>20, <1>21, <1>22, <1>23, <1>24, <1>25, <1>27,
             <2>2, <2>3, <2>4, <2>5, <2>6, <2>7 DEF PlanSelect
<1> QED BY <1>44, <1>45, <1>46 DEF Advance

-----------------------------------------------------------------------------
(* The moves preserve the invariant: first what they do to the steps. *)

LEMMA SameSteps ==
  ASSUME IInv, steps' = steps, Held' = Held
  PROVE  HeldIsOpen' /\ Topological' /\ ReadOnce'
<1>1. \A j \in DOMAIN steps : Inputs(j)' = Inputs(j)
  BY DEF Inputs
<1> QED BY <1>1 DEF IInv, HeldIsOpen, Topological, ReadOnce

LEMMA OneMoreStep ==
  ASSUME IInv, NEW d \in Seq(Nat), Adds(d), Held' = (Held \ Own) \cup {Len(steps)},
         Own \subseteq Held, stack # <<>>
  PROVE  /\ HeldIsOpen' /\ Topological' /\ ReadOnce'
         /\ steps' \in Seq(StepRec) /\ Len(steps') = Len(steps) + 1
<1>1. PICK kind \in StepKind : AddStep(kind, d)
  BY DEF Adds
<1> DEFINE s == [kind |-> kind, of |-> Top.node, dependencies |-> d]
<1>2. s \in StepRec /\ s.dependencies = d /\ steps' = Append(steps, s)
  BY <1>1, FrameFacts DEF AddStep, StepRec, IInv
<1> HIDE DEF s
<1>3. PICK n \in Nat : n = Len(steps) /\ DOMAIN steps = 1 .. n
  BY LenProperties DEF IInv, TypeOK
<1>4. /\ steps' \in Seq(StepRec) /\ Len(steps') = n + 1
      /\ \A j \in 1 .. n : steps'[j] = steps[j]
      /\ steps'[n + 1] = s
  BY <1>2, <1>3, AppendProperties DEF IInv, TypeOK
<1>5. DOMAIN steps' = 1 .. n + 1
  BY <1>4, LenProperties
<1>6. \A j \in 1 .. n : Inputs(j)' = Inputs(j)
  BY <1>4 DEF Inputs
<1>7. Inputs(n + 1)' = Own
  BY <1>2, <1>4 DEF Inputs, Adds, Ids
<1>8. /\ \A i \in Int : i \in Held <=> (/\ i \in 0 .. n - 1
                                        /\ \A j \in 1 .. n : i \notin Inputs(j))
      /\ \A j \in 1 .. n : \A i \in Inputs(j) : 0 <= i /\ i < j - 1
      /\ \A j, k \in 1 .. n : j # k => Inputs(j) \cap Inputs(k) = {}
  BY <1>3 DEF IInv, HeldIsOpen, Topological, ReadOnce
<1>9. Own \subseteq Int
  BY FrameFacts DEF Own, IInv, TypeOK, NoStep
<1>20. /\ \A i \in Own : i \in Int /\ 0 <= i /\ i < n
       /\ \A i \in Own : \A j \in 1 .. n : i \notin Inputs(j)
  BY <1>3, <1>8, <1>9
<1>21. \A j \in 1 .. n + 1 : j \in 1 .. n \/ j = n + 1
  BY <1>3
<1>10. Topological'
  <2> SUFFICES ASSUME NEW j \in 1 .. n + 1, NEW i \in Inputs(j)'
               PROVE  0 <= i /\ i < j - 1
    BY <1>5 DEF Topological
  <2>1. CASE j \in 1 .. n
    BY <2>1, <1>6, <1>8
  <2>2. CASE j = n + 1
    <3>1. i \in Own
      BY <2>2, <1>7
    <3> QED BY <2>2, <3>1, <1>20
  <2> QED BY <2>1, <2>2, <1>21
<1>11. ReadOnce'
  <2> SUFFICES ASSUME NEW j \in 1 .. n + 1, NEW k \in 1 .. n + 1, j # k
               PROVE  Inputs(j)' \cap Inputs(k)' = {}
    BY <1>5 DEF ReadOnce
  <2>1. CASE j \in 1 .. n /\ k \in 1 .. n
    BY <2>1, <1>6, <1>8
  <2>2. CASE j = n + 1 /\ k \in 1 .. n
    <3>1. Inputs(j)' = Own /\ Inputs(k)' = Inputs(k)
      BY <2>2, <1>6, <1>7
    <3> QED BY <2>2, <3>1, <1>20
  <2>3. CASE j \in 1 .. n /\ k = n + 1
    <3>1. Inputs(k)' = Own /\ Inputs(j)' = Inputs(j)
      BY <2>3, <1>6, <1>7
    <3> QED BY <2>3, <3>1, <1>20
  <2> QED BY <2>1, <2>2, <2>3, <1>21
<1>22. Len(steps') - 1 = n
  BY <1>4
<1>12. HeldIsOpen'
  <2> SUFFICES ASSUME NEW i \in Int
               PROVE  i \in Held' <=> (/\ i \in 0 .. n
                                       /\ \A j \in 1 .. n + 1 : i \notin Inputs(j)')
    BY <1>5, <1>22 DEF HeldIsOpen
  <2>1. (\A j \in 1 .. n + 1 : i \notin Inputs(j)')
          <=> (i \notin Own /\ \A j \in 1 .. n : i \notin Inputs(j))
    <3>1. n + 1 \in 1 .. n + 1 /\ \A j \in 1 .. n : j \in 1 .. n + 1
      BY <1>3
    <3> QED BY <1>21, <1>6, <1>7, <3>1
  <2>2. CASE i = n
    <3>1. i \notin Own
      BY <1>20, <2>2
    <3>2. \A j \in 1 .. n : i \notin Inputs(j)
      BY <1>3, <1>8, <2>2
    <3> QED BY <1>3, <2>1, <2>2, <3>1, <3>2
  <2>3. CASE i # n
    <3>1. i \in Held' <=> i \in Held /\ i \notin Own
      BY <1>3, <2>3
    <3> QED BY <1>3, <1>8, <2>1, <2>3, <3>1
  <2> QED BY <2>2, <2>3
<1> QED BY <1>3, <1>4, <1>10, <1>11, <1>12

-----------------------------------------------------------------------------
(* What the moves do to the stack.  n is the depth before the move. *)

LEMMA StackReplace ==
  ASSUME TypeOK, stack # <<>>, NEW f \in Frame, stack' = Append(Below, f),
         NEW n \in Nat, n = Len(stack)
  PROVE  /\ stack' \in Seq(Frame) /\ stack' # <<>>
         /\ n >= 1 /\ DOMAIN stack = 1 .. n /\ DOMAIN stack' = 1 .. n
         /\ \A i \in 1 .. n - 1 : stack'[i] = stack[i]
         /\ stack'[n] = f /\ Top' = f
<1>1. /\ Below \in Seq(Frame) /\ Len(Below) = n - 1 /\ n >= 1
      /\ DOMAIN stack = 1 .. n
      /\ \A i \in 1 .. n - 1 : Below[i] = stack[i]
  BY BelowFacts
<1>2. /\ stack' \in Seq(Frame) /\ stack' # <<>> /\ Len(stack') = n
      /\ \A i \in 1 .. n - 1 : stack'[i] = Below[i]
      /\ stack'[n] = f
  BY <1>1, AppendProperties
<1>3. DOMAIN stack' = 1 .. n
  BY <1>2, LenProperties
<1> QED BY <1>1, <1>2, <1>3 DEF Top

LEMMA StackPush ==
  ASSUME TypeOK, stack # <<>>, NEW f \in Frame, NEW c \in Frame,
         stack' = Append(Append(Below, f), c), NEW n \in Nat, n = Len(stack)
  PROVE  /\ stack' \in Seq(Frame) /\ stack' # <<>>
         /\ n >= 1 /\ DOMAIN stack = 1 .. n /\ DOMAIN stack' = 1 .. n + 1
         /\ \A i \in 1 .. n - 1 : stack'[i] = stack[i]
         /\ stack'[n] = f /\ stack'[n + 1] = c /\ Top' = c
<1> DEFINE t == Append(Below, f)
<1>1. /\ Below \in Seq(Frame) /\ Len(Below) = n - 1 /\ n >= 1
      /\ DOMAIN stack = 1 .. n
      /\ \A i \in 1 .. n - 1 : Below[i] = stack[i]
  BY BelowFacts
<1>2. /\ t \in Seq(Frame) /\ Len(t) = n
      /\ \A i \in 1 .. n - 1 : t[i] = Below[i]
      /\ t[n] = f
  BY <1>1, AppendProperties
<1>3. stack' = Append(t, c)
  OBVIOUS
<1> HIDE DEF t
<1>4. /\ stack' \in Seq(Frame) /\ stack' # <<>> /\ Len(stack') = n + 1
      /\ \A i \in 1 .. n : stack'[i] = t[i]
      /\ stack'[n + 1] = c
  BY <1>2, <1>3, AppendProperties
<1>5. DOMAIN stack' = 1 .. n + 1
  BY <1>4, LenProperties
<1>6. \A i \in 1 .. n - 1 : i \in 1 .. n
  OBVIOUS
<1> QED BY <1>1, <1>2, <1>4, <1>5, <1>6 DEF Top

LEMMA StackPop ==
  ASSUME TypeOK, stack # <<>>, stack' = Below, NEW n \in Nat, n = Len(stack)
  PROVE  /\ stack' \in Seq(Frame)
         /\ n >= 1 /\ DOMAIN stack = 1 .. n /\ DOMAIN stack' = 1 .. n - 1
         /\ \A i \in 1 .. n - 1 : stack'[i] = stack[i]
<1>1. /\ Below \in Seq(Frame) /\ Len(Below) = n - 1 /\ n >= 1
      /\ DOMAIN stack = 1 .. n
      /\ \A i \in 1 .. n - 1 : Below[i] = stack[i]
  BY BelowFacts
<1> QED BY <1>1, LenProperties

\* The invariant's part about the stack and the returned id.
StackInv == StageOK /\ HeldOnce

\* The ids held, by the innermost call and by the calls below it.
Lower(n) == {stack[i].current : i \in 1 .. n - 1} \ {NoStep}

LEMMA HeldSplit ==
  ASSUME TypeOK, stack # <<>>, NEW n \in Nat, n = Len(stack)
  PROVE  Held = Own \cup Lower(n)
<1>1. n >= 1 /\ DOMAIN stack = 1 .. n
  BY BelowFacts
<1>2. \A i \in 1 .. n : i = n \/ i \in 1 .. n - 1
  BY <1>1
<1>3. \A i \in 1 .. n - 1 : i \in 1 .. n
  OBVIOUS
<1> QED BY <1>1, <1>2, <1>3 DEF Held, Own, Lower, Top

LEMMA RelabelStack ==
  ASSUME IInv, Running, NEW f \in Frame, Relabel(f)
  PROVE  /\ stack' \in Seq(Frame) /\ ret' = NoStep /\ stack' # <<>>
         /\ StackInv' /\ Held' = Held
         /\ Top'.current # NoStep => Top'.current = Len(steps) - 1
<1>1. PICK n \in Nat : n = Len(stack)
  BY BelowFacts DEF IInv, Running
<1>2. /\ stack' \in Seq(Frame) /\ stack' # <<>>
      /\ n >= 1 /\ DOMAIN stack = 1 .. n /\ DOMAIN stack' = 1 .. n
      /\ \A i \in 1 .. n - 1 : stack'[i] = stack[i]
      /\ stack'[n] = f /\ Top' = f
  BY <1>1, StackReplace DEF IInv, Running, Relabel
<1>3. /\ Carries(f) /\ ret' = NoStep
      /\ stack[n] = Top
  BY <1>1 DEF Relabel, Top
<1>4. StageOK'
  BY <1>2, <1>3 DEF IInv, StageOK, Carries
<1>5. HeldOnce'
  <2>1. HeldOnce
    BY DEF IInv
  <2> QED BY <1>2, <1>3, <2>1 DEF HeldOnce, Carries
<1>6. Held' = Held
  BY <1>2, <1>3 DEF Held, Carries
<1>7. f.current # NoStep => f.current = Len(steps) - 1
  BY <1>3 DEF Carries, IInv, Newest, Running
<1> QED BY <1>2, <1>3, <1>4, <1>5, <1>6, <1>7 DEF StackInv

LEMMA DescendStack ==
  ASSUME IInv, Running, NEW f \in Frame, NEW c \in Frame, Descend(f, c)
  PROVE  /\ stack' \in Seq(Frame) /\ ret' = NoStep /\ stack' # <<>>
         /\ StackInv' /\ Held' = Held
         /\ Top'.current = NoStep
<1>1. PICK n \in Nat : n = Len(stack)
  BY BelowFacts DEF IInv, Running
<1>2. /\ stack' \in Seq(Frame) /\ stack' # <<>>
      /\ n >= 1 /\ DOMAIN stack = 1 .. n /\ DOMAIN stack' = 1 .. n + 1
      /\ \A i \in 1 .. n - 1 : stack'[i] = stack[i]
      /\ stack'[n] = f /\ stack'[n + 1] = c /\ Top' = c
  BY <1>1, StackPush DEF IInv, Running, Descend
<1>3. /\ Carries(f) /\ ret' = NoStep /\ c.at = "enter" /\ c.current = NoStep
      /\ stack[n] = Top
  BY <1>1 DEF Descend, Top
<1>4. StageOK'
  BY <1>2, <1>3 DEF IInv, StageOK, Carries
<1>5. HeldOnce'
  <2>1. HeldOnce
    BY DEF IInv
  <2> QED BY <1>2, <1>3, <2>1 DEF HeldOnce, Carries
<1>6. Held' = Held
  BY <1>2, <1>3 DEF Held, Carries
<1> QED BY <1>2, <1>3, <1>4, <1>5, <1>6 DEF StackInv

LEMMA GiveBackStack ==
  ASSUME IInv, Running, GiveBack
  PROVE  /\ stack' \in Seq(Frame) /\ ret' \in Nat /\ ret' # NoStep
         /\ StackInv' /\ Held' = Held
         /\ ret' = Len(steps) - 1
<1>1. PICK n \in Nat : n = Len(stack)
  BY BelowFacts DEF IInv, Running
<1>2. /\ stack' \in Seq(Frame)
      /\ n >= 1 /\ DOMAIN stack = 1 .. n /\ DOMAIN stack' = 1 .. n - 1
      /\ \A i \in 1 .. n - 1 : stack'[i] = stack[i]
  BY <1>1, StackPop DEF IInv, Running, GiveBack
<1>3. /\ ret = NoStep /\ ret' = Top.current /\ Top.current # NoStep
      /\ stack[n] = Top /\ Top.current \in Nat \cup {NoStep}
  BY <1>1, FrameFacts DEF GiveBack, Top, IInv, Running
<1>4. StageOK'
  BY <1>2, <1>3 DEF IInv, StageOK
<1>5. HeldOnce'
  <2>1. HeldOnce
    BY DEF IInv
  <2> QED BY <1>2, <1>3, <2>1 DEF HeldOnce
<1>6. Held' = Held
  BY <1>2, <1>3 DEF Held
<1>7. ret' = Len(steps) - 1
  BY <1>3 DEF IInv, Newest, Running
<1> QED BY <1>2, <1>3, <1>4, <1>5, <1>6, <1>7 DEF StackInv

\* Ids held are older than the step being added.
LEMMA HeldOlder ==
  ASSUME IInv, stack # <<>>
  PROVE  /\ Len(steps) \in Nat /\ Len(steps) # NoStep
         /\ Own \subseteq Held
         /\ \A i \in Held : i < Len(steps)
         /\ \A i \in DOMAIN stack : stack[i].current # Len(steps)
         /\ ret # Len(steps)
<1>1. Len(steps) \in Nat /\ Len(steps) # NoStep
  BY LenProperties DEF IInv, TypeOK, NoStep
<1>2. Own \subseteq Held
  BY BelowFacts, HeldSplit DEF IInv
<1>3. \A i \in DOMAIN stack : stack[i].current \in Int
  <2>1. \A i \in DOMAIN stack : stack[i] \in Frame
    BY ElementOfSeq, LenProperties DEF IInv, TypeOK
  <2> QED BY <2>1 DEF Frame, NoStep
<1>4. ret \in Int
  BY DEF IInv, TypeOK, NoStep
<1>5. \A i \in Held : i \in Int
  BY <1>3, <1>4 DEF Held
<1>6. \A i \in Held : i < Len(steps)
  BY <1>1, <1>5 DEF IInv, HeldIsOpen
<1>7. /\ \A i \in DOMAIN stack : stack[i].current = NoStep \/ stack[i].current \in Held
      /\ ret = NoStep \/ ret \in Held
  BY DEF Held
<1> QED BY <1>1, <1>2, <1>3, <1>4, <1>6, <1>7

LEMMA ExtendStack ==
  ASSUME IInv, Running, NEW f \in Frame, NEW d \in Seq(Nat), Extend(f, d)
  PROVE  /\ stack' \in Seq(Frame) /\ ret' = NoStep /\ stack' # <<>>
         /\ StackInv' /\ Held' = (Held \ Own) \cup {Len(steps)}
         /\ Top'.current = Len(steps)
<1>1. PICK n \in Nat : n = Len(stack)
  BY BelowFacts DEF IInv, Running
<1>2. /\ stack' \in Seq(Frame) /\ stack' # <<>>
      /\ n >= 1 /\ DOMAIN stack = 1 .. n /\ DOMAIN stack' = 1 .. n
      /\ \A i \in 1 .. n - 1 : stack'[i] = stack[i]
      /\ stack'[n] = f /\ Top' = f
  BY <1>1, StackReplace DEF IInv, Running, Extend
<1>3. /\ ret' = NoStep /\ f.current = Len(steps) /\ f.at # "enter"
      /\ stack[n] = Top /\ Len(steps) # NoStep
      /\ \A i \in DOMAIN stack : stack[i].current # Len(steps)
  BY <1>1, HeldOlder DEF Extend, Top, IInv, Running
<1>4. StageOK'
  BY <1>2, <1>3 DEF IInv, StageOK
<1>5. HeldOnce'
  <2>1. HeldOnce
    BY DEF IInv
  <2> QED BY <1>2, <1>3, <2>1 DEF HeldOnce
<1>6. Held' = (Held \ Own) \cup {Len(steps)}
  <2>1. Held' = Lower(n) \cup {Len(steps)}
    <3>1. \A i \in 1 .. n : i = n \/ i \in 1 .. n - 1
      BY <1>2
    <3>2. \A x : x \in Held' <=> x # NoStep /\ \E i \in 1 .. n : x = stack'[i].current
      BY <1>2, <1>3 DEF Held
    <3>3. \A x : x \in Lower(n) <=> x # NoStep /\ \E i \in 1 .. n - 1 : x = stack'[i].current
      BY <1>2 DEF Lower
    <3>4. n \in 1 .. n /\ \A i \in 1 .. n - 1 : i \in 1 .. n
      BY <1>2
    <3>5. \A x : x \in Held' <=> x \in Lower(n) \/ x = Len(steps)
      BY <1>2, <1>3, <3>1, <3>2, <3>3, <3>4
    <3> QED BY <3>5
  <2>2. Held = Own \cup Lower(n)
    BY <1>1, HeldSplit DEF IInv, Running
  <2>3. Own \cap Lower(n) = {}
    BY <1>2, <1>3 DEF Own, Lower, IInv, HeldOnce
  <2> QED BY <2>1, <2>2, <2>3
<1> QED BY <1>2, <1>3, <1>4, <1>5, <1>6 DEF StackInv

LEMMA FinishStack ==
  ASSUME IInv, Running, NEW d \in Seq(Nat), Finish(d)
  PROVE  /\ stack' \in Seq(Frame) /\ ret' = Len(steps)
         /\ StackInv' /\ Held' = (Held \ Own) \cup {Len(steps)}
<1>1. PICK n \in Nat : n = Len(stack)
  BY BelowFacts DEF IInv, Running
<1>2. /\ stack' \in Seq(Frame)
      /\ n >= 1 /\ DOMAIN stack = 1 .. n /\ DOMAIN stack' = 1 .. n - 1
      /\ \A i \in 1 .. n - 1 : stack'[i] = stack[i]
  BY <1>1, StackPop DEF IInv, Running, Finish
<1>3. /\ ret' = Len(steps)
      /\ stack[n] = Top /\ Len(steps) # NoStep
      /\ \A i \in DOMAIN stack : stack[i].current # Len(steps)
  BY <1>1, HeldOlder DEF Finish, Top, IInv, Running
<1>4. StageOK'
  BY <1>2 DEF IInv, StageOK
<1>5. HeldOnce'
  <2>1. HeldOnce
    BY DEF IInv
  <2>2. \A i \in 1 .. n - 1 : i \in 1 .. n
    BY <1>2
  <2> QED BY <1>2, <1>3, <2>1, <2>2 DEF HeldOnce
<1>6. Held' = (Held \ Own) \cup {Len(steps)}
  <2>1. Held' = Lower(n) \cup {Len(steps)}
    BY <1>2, <1>3 DEF Held, Lower
  <2>2. Held = Own \cup Lower(n)
    BY <1>1, HeldSplit DEF IInv, Running
  <2>3. Own \cap Lower(n) = {}
    BY <1>2, <1>3 DEF Own, Lower, IInv, HeldOnce
  <2> QED BY <2>1, <2>2, <2>3
<1> QED BY <1>2, <1>3, <1>4, <1>5, <1>6 DEF StackInv

-----------------------------------------------------------------------------
(* The invariant is inductive. *)

LEMMA InitInv == Init => IInv
<1> SUFFICES ASSUME Init PROVE IInv
  OBVIOUS
<1>1. query.root \in Node /\ Call(query.root) \in Frame
      /\ Call(query.root).at = "enter" /\ Call(query.root).current = NoStep
  BY QueriesAssumption DEF Init, Call, Frame, Stage
<1> DEFINE c == Call(query.root)
<1>2. /\ steps = <<>> /\ stack = <<c>> /\ ret = NoStep /\ outcome = "running"
      /\ root = NoStep /\ query \in Queries
  BY DEF Init
<1>3. c \in Frame /\ c.at = "enter" /\ c.current = NoStep
  BY <1>1
<1> HIDE DEF c
<1>4. DOMAIN stack = {1} /\ stack[1] = c /\ stack \in Seq(Frame) /\ stack # <<>>
      /\ Len(stack) = 1
  BY <1>2, <1>3
<1>5. DOMAIN steps = {} /\ steps \in Seq(StepRec) /\ Len(steps) = 0
  BY <1>2
<1>6. TypeOK
  BY <1>2, <1>4, <1>5 DEF TypeOK
<1>7. StageOK /\ HeldOnce
  BY <1>3, <1>4 DEF StageOK, HeldOnce
<1>8. Held = {}
  BY <1>2, <1>3, <1>4 DEF Held
<1>9. HeldIsOpen
  BY <1>5, <1>8 DEF HeldIsOpen
<1>10. Newest /\ Ending
  BY <1>2, <1>3, <1>4 DEF Newest, Ending, Top
<1>11. Topological /\ ReadOnce
  BY <1>5 DEF Topological, ReadOnce
<1> QED BY <1>6, <1>7, <1>9, <1>10, <1>11 DEF IInv

LEMMA MoveInv ==
  ASSUME IInv, Move
  PROVE  IInv'
<1>1. Running /\ stack # <<>> /\ outcome = "running" /\ outcome' = outcome
      /\ query' = query /\ root' = root
  BY DEF Move, Running, Keep
\* Moves that leave the steps alone.
<1>2. ASSUME steps' = steps, Held' = Held, stack' \in Seq(Frame),
             ret' \in Nat \cup {NoStep}, StackInv', Newest',
             stack' = <<>> => ret' # NoStep
      PROVE  IInv'
  <2>1. TypeOK'
    BY <1>1, <1>2 DEF IInv, TypeOK
  <2>2. Ending'
    BY <1>1, <1>2 DEF IInv, Ending
  <2> QED BY <1>2, <2>1, <2>2, SameSteps DEF IInv, StackInv
\* Moves that add a step.
<1>3. ASSUME NEW d \in Seq(Nat), Adds(d), Held' = (Held \ Own) \cup {Len(steps)},
             stack' \in Seq(Frame), StackInv',
             \/ ret' = Len(steps)
             \/ ret' = NoStep /\ stack' # <<>> /\ Top'.current = Len(steps)
      PROVE  IInv'
  <2>1. /\ HeldIsOpen' /\ Topological' /\ ReadOnce'
        /\ steps' \in Seq(StepRec) /\ Len(steps') = Len(steps) + 1
        /\ Len(steps) \in Nat /\ Len(steps) # NoStep
    BY <1>1, <1>3, OneMoreStep, HeldOlder
  <2>2. TypeOK'
    BY <1>1, <1>3, <2>1 DEF IInv, TypeOK
  <2>3. Ending'
    BY <1>1, <1>3, <2>1 DEF IInv, Ending
  <2>4. Len(steps') - 1 = Len(steps)
    BY <2>1
  <2>5. Newest'
    BY <1>3, <2>1, <2>4 DEF Newest
  <2> QED BY <1>3, <2>1, <2>2, <2>3, <2>5 DEF IInv, StackInv
<1>4. ASSUME NEW f \in Frame, Relabel(f) PROVE IInv'
  <2>1. Newest'
    BY <1>1, <1>4, RelabelStack DEF Newest, Relabel
  <2> QED BY <1>1, <1>2, <1>4, <2>1, RelabelStack DEF Relabel
<1>5. ASSUME NEW f \in Frame, NEW c \in Frame, Descend(f, c) PROVE IInv'
  <2>1. Newest'
    BY <1>1, <1>5, DescendStack DEF Newest
  <2> QED BY <1>1, <1>2, <1>5, <2>1, DescendStack DEF Descend
<1>6. ASSUME GiveBack PROVE IInv'
  <2>1. Newest'
    BY <1>1, <1>6, GiveBackStack DEF Newest, GiveBack
  <2> QED BY <1>1, <1>2, <1>6, <2>1, GiveBackStack DEF GiveBack
<1>7. ASSUME NEW f \in Frame, NEW d \in Seq(Nat), Extend(f, d) PROVE IInv'
  <2>1. Adds(d)
    BY <1>7 DEF Extend
  <2> QED BY <1>1, <1>3, <1>7, <2>1, ExtendStack
<1>8. ASSUME NEW d \in Seq(Nat), Finish(d) PROVE IInv'
  <2>1. Adds(d)
    BY <1>8 DEF Finish
  <2> QED BY <1>1, <1>3, <1>8, <2>1, FinishStack
<1> QED BY <1>4, <1>5, <1>6, <1>7, <1>8 DEF Move

LEMMA RejectInv ==
  ASSUME IInv, Reject
  PROVE  IInv' /\ Held' = {}
<1>1. /\ steps' = <<>> /\ stack' = <<>> /\ ret' = NoStep /\ outcome' = "err"
      /\ query' = query /\ root' = root /\ outcome = "running"
  BY DEF Reject, At
<1>2. DOMAIN steps' = {} /\ DOMAIN stack' = {} /\ Len(steps') = 0
      /\ steps' \in Seq(StepRec) /\ stack' \in Seq(Frame)
  BY <1>1
<1>3. TypeOK'
  BY <1>1, <1>2 DEF IInv, TypeOK
<1>4. Held' = {}
  BY <1>1, <1>2 DEF Held
<1>5. HeldIsOpen'
  BY <1>2, <1>4 DEF HeldIsOpen
<1>6. StageOK' /\ HeldOnce' /\ Topological' /\ ReadOnce'
  BY <1>2 DEF StageOK, HeldOnce, Topological, ReadOnce
<1>7. Newest' /\ Ending'
  BY <1>1 DEF Newest, Ending, IInv
<1> QED BY <1>3, <1>4, <1>5, <1>6, <1>7 DEF IInv

LEMMA BuildInv ==
  ASSUME IInv, Build
  PROVE  /\ IInv' /\ Held' = Held /\ Held = {Len(steps) - 1}
         /\ root' = Len(steps) - 1
<1>1. /\ steps' = steps /\ stack' = stack /\ ret' = ret /\ outcome' = "ok"
      /\ query' = query /\ outcome = "running" /\ stack = <<>>
      /\ root' = IF steps = <<>> THEN 0 ELSE Len(steps) - 1
  BY DEF Build
<1>2. ret # NoStep /\ ret = Len(steps) - 1 /\ ret \in Nat
  BY <1>1 DEF IInv, Ending, Newest, TypeOK
<1>3. steps # <<>>
  BY <1>2
<1>4. root' = ret'
  BY <1>1, <1>2, <1>3
<1>5. Held' = Held /\ Held = {ret}
  <2>1. DOMAIN stack = {}
    BY <1>1
  <2> QED BY <1>1, <1>2, <2>1 DEF Held
<1>6. TypeOK'
  BY <1>1, <1>2, <1>4 DEF IInv, TypeOK
<1>7. StageOK' /\ HeldOnce' /\ Newest'
  BY <1>1 DEF IInv, StageOK, HeldOnce, Newest
<1>8. Ending'
  BY <1>1, <1>2, <1>4 DEF IInv, Ending
<1> QED BY <1>1, <1>2, <1>3, <1>5, <1>6, <1>7, <1>8, SameSteps DEF IInv

LEMMA StutterInv ==
  ASSUME IInv, UNCHANGED vars
  PROVE  IInv' /\ Held' = Held
<1> USE DEF vars
<1>1. Held' = Held
  BY DEF Held
<1>2. TypeOK' /\ StageOK' /\ HeldOnce' /\ Newest' /\ Ending'
  BY DEF IInv, TypeOK, StageOK, HeldOnce, Newest, Ending, Top
<1> QED BY <1>1, <1>2, SameSteps DEF IInv

\* Every step of the specification is a move, a refusal, the end or a stutter.
LEMMA StepCases ==
  ASSUME IInv, [Next]_vars
  PROVE  Move \/ Reject \/ Build \/ UNCHANGED vars
BY ActionsAreMoves DEF IInv, Next, Finished

LEMMA StepInv ==
  ASSUME IInv, [Next]_vars
  PROVE  IInv'
BY StepCases, MoveInv, RejectInv, BuildInv, StutterInv

\* The invariant holds in every state of every plan_* recursion.
THEOREM Inductive == Spec => []IInv
BY InitInv, StepInv, PTL DEF Spec

\* The state has the builder's types, whatever the statement.
THEOREM TypeCorrect == Spec => []TypeOK
<1>1. IInv => TypeOK
  BY DEF IInv
<1> QED BY <1>1, Inductive, PTL

\* Plan::steps is in topological order at every moment.
THEOREM AlwaysTopological == Spec => []Topological
<1>1. IInv => Topological
  BY DEF IInv
<1> QED BY <1>1, Inductive, PTL

\* No step's rows are read by two steps.
THEOREM AlwaysReadOnce == Spec => []ReadOnce
<1>1. IInv => ReadOnce
  BY DEF IInv
<1> QED BY <1>1, Inductive, PTL

\* build()'s last step is the step plan_statement returned.
THEOREM RootIsTheResult == Spec => []RootIsResult
<1>1. IInv => RootIsResult
  BY DEF IInv, Ending, RootIsResult
<1> QED BY <1>1, Inductive, PTL

\* In a finished plan the root is the one step nothing reads.
THEOREM OnlyTheRootIsUnread == Spec => []OneSink
<1>1. ASSUME IInv PROVE OneSink
  <2> SUFFICES ASSUME outcome = "ok", NEW i \in 0 .. Len(steps) - 1
               PROVE  (i = root) <=> (\A j \in DOMAIN steps : i \notin Inputs(j))
    BY DEF OneSink
  <2>1. DOMAIN stack = {} /\ root = ret /\ ret # NoStep
    BY <1>1 DEF IInv, Ending
  <2>2. Held = {root}
    BY <2>1 DEF Held
  <2>3. i \in Int
    BY <1>1, LenProperties DEF IInv, TypeOK
  <2> QED BY <1>1, <2>2, <2>3 DEF IInv, HeldIsOpen
<1> QED BY <1>1, Inductive, PTL

-----------------------------------------------------------------------------
(* The planner implements PlanDag. *)

LEMMA DagInit == Init => Dag!Init
<1> SUFFICES ASSUME Init PROVE Dag!Init
  OBVIOUS
<1>1. steps = <<>> /\ outcome = "running" /\ root = -1
  BY DEF Init, NoStep
<1>2. Held = {}
  <2>1. stack = <<Call(query.root)>> /\ ret = NoStep
    BY DEF Init
  <2>2. DOMAIN stack = {1} /\ stack[1].current = NoStep
    BY <2>1 DEF Call
  <2> QED BY <2>1, <2>2 DEF Held
<1>3. [j \in DOMAIN steps |-> steps[j].dependencies] = <<>>
  BY <1>1
<1> QED BY <1>1, <1>2, <1>3 DEF Dag!Init

\* A step the planner adds is a step PlanDag may add.
LEMMA DagGrow ==
  ASSUME IInv, stack # <<>>, outcome = "running", NEW d \in Seq(Nat), Adds(d),
         Held' = (Held \ Own) \cup {Len(steps)},
         outcome' = outcome, root' = root
  PROVE  Dag!Next
<1> DEFINE deps == [j \in DOMAIN steps |-> steps[j].dependencies]
<1>1. PICK kind \in StepKind : AddStep(kind, d)
  BY DEF Adds
<1> DEFINE s == [kind |-> kind, of |-> Top.node, dependencies |-> d]
<1>2. s \in StepRec /\ s.dependencies = d /\ steps' = Append(steps, s)
  BY <1>1, FrameFacts DEF AddStep, StepRec, IInv
<1> HIDE DEF s
<1>3. steps \in Seq(StepRec)
  BY DEF IInv, TypeOK
<1>4. PICK n \in Nat : n = Len(steps) /\ DOMAIN steps = 1 .. n
  BY <1>3, LenProperties
<1>5. /\ steps' \in Seq(StepRec) /\ DOMAIN steps' = 1 .. n + 1
      /\ \A j \in 1 .. n : steps'[j] = steps[j]
      /\ steps'[n + 1] = s
  <2>1. /\ steps' \in Seq(StepRec) /\ Len(steps') = n + 1
        /\ \A j \in 1 .. n : steps'[j] = steps[j]
        /\ steps'[n + 1] = s
    BY <1>2, <1>3, <1>4, AppendProperties
  <2> QED BY <2>1, LenProperties
<1>10. deps \in Seq(Seq(Nat)) /\ Len(deps) = n
  <2>1. \A j \in 1 .. n : steps[j].dependencies \in Seq(Nat)
    <3>1. \A j \in 1 .. n : steps[j] \in StepRec
      BY <1>3, <1>4, ElementOfSeq
    <3> QED BY <3>1 DEF StepRec
  <2>2. deps \in [1 .. n -> Seq(Nat)]
    BY <1>4, <2>1
  <2>3. deps \in Seq(Seq(Nat))
    BY <2>2, SeqDef
  <2> QED BY <2>2, <2>3, LenProperties
<1>11. deps' = Append(deps, d)
  <2> DEFINE e == [j \in 1 .. n + 1 |-> steps'[j].dependencies]
             a == Append(deps, d)
  <2>1. deps' = e
    BY <1>5
  <2>2. e \in Seq(Seq(Nat)) /\ Len(e) = n + 1
    <3>1. \A j \in 1 .. n + 1 : steps'[j].dependencies \in Seq(Nat)
      <4>1. \A j \in 1 .. n + 1 : steps'[j] \in StepRec
        BY <1>5, LenProperties, ElementOfSeq
      <4> QED BY <4>1 DEF StepRec
    <3>2. e \in [1 .. n + 1 -> Seq(Nat)]
      BY <3>1
    <3>3. e \in Seq(Seq(Nat))
      BY <3>2, SeqDef
    <3> QED BY <3>2, <3>3, LenProperties
  <2>3. /\ a \in Seq(Seq(Nat)) /\ Len(a) = n + 1
        /\ \A j \in 1 .. n : a[j] = deps[j]
        /\ a[n + 1] = d
    BY <1>10, AppendProperties
  <2>4. \A j \in 1 .. n + 1 : e[j] = a[j]
    <3> SUFFICES ASSUME NEW j \in 1 .. n + 1 PROVE e[j] = a[j]
      OBVIOUS
    <3>1. CASE j \in 1 .. n
      BY <1>4, <1>5, <2>3, <3>1
    <3>2. CASE j = n + 1
      BY <1>2, <1>5, <2>3, <3>2
    <3>3. j \in 1 .. n \/ j = n + 1
      OBVIOUS
    <3> QED BY <3>1, <3>2, <3>3
  <2> HIDE DEF e, a
  <2>5. e = a
    BY <2>2, <2>3, <2>4, SeqEqual
  <2> QED BY <2>1, <2>5 DEF a
<1>6. /\ Ids(d) = Own /\ Len(d) <= 2 /\ (Len(d) = 2 => d[1] # d[2])
      /\ Own \subseteq Held
  BY HeldOlder DEF Adds
<1>7. Dag!Grow(d)
  BY <1>4, <1>10, <1>11, <1>6 DEF Dag!Grow, Dag!Taken, Ids
<1>8. d \in Dag!Inputs
  <2>1. DOMAIN d = 1 .. Len(d) /\ Len(d) \in 0 .. 2
    <3>1. DOMAIN d = 1 .. Len(d) /\ Len(d) \in Nat
      BY LenProperties
    <3>2. Len(d) <= 2
      BY <1>6
    <3> QED BY <3>1, <3>2
  <2>2. \A k \in 1 .. Len(d) : d[k] \in Held
    BY <1>6, <2>1 DEF Ids
  <2>3. CASE Len(d) = 0
    BY <2>3 DEF Dag!Inputs
  <2>4. CASE Len(d) = 1
    <3>1. d = <<d[1]>>
      BY <2>4
    <3> QED BY <2>2, <2>4, <3>1 DEF Dag!Inputs
  <2>5. CASE Len(d) = 2
    <3>1. d = <<d[1], d[2]>>
      BY <2>5
    <3> QED BY <2>2, <2>5, <3>1 DEF Dag!Inputs
  <2> QED BY <2>1, <2>3, <2>4, <2>5
<1> QED BY <1>7, <1>8 DEF Dag!Next

LEMMA DagStutter ==
  ASSUME steps' = steps, Held' = Held, outcome' = outcome, root' = root
  PROVE  UNCHANGED Dag!vars
BY DEF Dag!vars

LEMMA DagDepsLen ==
  ASSUME IInv
  PROVE  Len([j \in DOMAIN steps |-> steps[j].dependencies]) = Len(steps)
<1>1. PICK n \in Nat : n = Len(steps) /\ DOMAIN steps = 1 .. n
  BY LenProperties DEF IInv, TypeOK
<1> DEFINE deps == [j \in DOMAIN steps |-> steps[j].dependencies]
<1>2. \A j \in 1 .. n : steps[j] \in StepRec
  BY <1>1, ElementOfSeq DEF IInv, TypeOK
<1>3. deps \in [1 .. n -> Seq(Nat)]
  BY <1>1, <1>2 DEF StepRec
<1>4. deps \in Seq(Seq(Nat))
  BY <1>3, SeqDef
<1> QED BY <1>1, <1>3, <1>4, LenProperties

LEMMA DagMove ==
  ASSUME IInv, Move
  PROVE  Dag!Next \/ UNCHANGED Dag!vars
<1>1. Running /\ stack # <<>> /\ outcome = "running" /\ outcome' = outcome
      /\ root' = root
  BY DEF Move, Running, Keep
<1>2. ASSUME NEW f \in Frame, Relabel(f) PROVE UNCHANGED Dag!vars
  BY <1>1, <1>2, RelabelStack, DagStutter DEF Relabel
<1>3. ASSUME NEW f \in Frame, NEW c \in Frame, Descend(f, c) PROVE UNCHANGED Dag!vars
  BY <1>1, <1>3, DescendStack, DagStutter DEF Descend
<1>4. ASSUME GiveBack PROVE UNCHANGED Dag!vars
  BY <1>1, <1>4, GiveBackStack, DagStutter DEF GiveBack
<1>5. ASSUME NEW f \in Frame, NEW d \in Seq(Nat), Extend(f, d) PROVE Dag!Next
  <2>1. Adds(d)
    BY <1>5 DEF Extend
  <2> QED BY <1>1, <1>5, <2>1, ExtendStack, DagGrow
<1>6. ASSUME NEW d \in Seq(Nat), Finish(d) PROVE Dag!Next
  <2>1. Adds(d)
    BY <1>6 DEF Finish
  <2> QED BY <1>1, <1>6, <2>1, FinishStack, DagGrow
<1> QED BY <1>2, <1>3, <1>4, <1>5, <1>6 DEF Move

LEMMA DagStep ==
  ASSUME IInv, [Next]_vars
  PROVE  [Dag!Next]_(Dag!vars)
<1>1. CASE Move
  BY <1>1, DagMove
<1>2. CASE Reject
  <2>1. /\ steps' = <<>> /\ outcome' = "err" /\ root' = root /\ outcome = "running"
        /\ Held' = {}
    BY <1>2, RejectInv DEF Reject, At
  <2>2. [j \in DOMAIN steps |-> steps[j].dependencies]' = <<>>
    BY <2>1
  <2>3. Dag!Abandon
    BY <2>1, <2>2 DEF Dag!Abandon
  <2> QED BY <2>3 DEF Dag!Next
<1>3. CASE Build
  <2>1. /\ steps' = steps /\ outcome' = "ok" /\ outcome = "running"
        /\ Held' = Held /\ Held = {Len(steps) - 1} /\ root' = Len(steps) - 1
    BY <1>3, BuildInv DEF Build
  <2>2. Dag!Publish
    BY <2>1, DagDepsLen DEF Dag!Publish
  <2> QED BY <2>2 DEF Dag!Next
<1>4. CASE UNCHANGED vars
  BY <1>4, StutterInv, DagStutter DEF vars
<1> QED BY <1>1, <1>2, <1>3, <1>4, StepCases

\* Building a plan, whatever the statement, is growing a PlanDag: each step
\* takes over ids nobody has taken, and only a plan with one open step, its
\* last, is handed out.
THEOREM PlannerImplementsDag == Spec => ImplementsDag
<1>1. Spec => Init /\ [][Next]_vars
  BY PTL DEF Spec
<1> QED BY <1>1, DagInit, DagStep, Inductive, PTL DEF ImplementsDag, Dag!Spec
=============================================================================
