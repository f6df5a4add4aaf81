----------------------- MODULE PlannerCoverageProofs -----------------------
(***************************************************************************)
(* The planner leaves nothing out and adds nothing, for every statement:   *)
(* the plan has the steps each node asks for (CoversQuery), and a part the *)
(* planner does not support fails the whole plan (FailsClosed).            *)
(*                                                                         *)
(* The inductive invariant is a ledger: a mark for each node of the arena, *)
(* unseen, being planned by the call that is at a stage, or done.  A mark  *)
(* says how many steps of each kind the node has so far and which of its   *)
(* parts were handed to a call.  When no call is left every mark is unseen *)
(* or done, and the done ones are the whole statement.                     *)
(***************************************************************************)
EXTENDS PlannerProofs, FiniteSetTheorems

\* How far the planning of a node is: the stage of its call, the joins it has
\* planned, and whether a call it made at that stage is under way or has just
\* returned.
MarkRec == [at : Stage \cup {"unseen", "done"}, joined : Nat, calling : BOOLEAN]

Unseen == [at |-> "unseen", joined |-> 0, calling |-> FALSE]
Entered == [at |-> "enter", joined |-> 0, calling |-> FALSE]
Done == [at |-> "done", joined |-> 0, calling |-> FALSE]
Mark(f, calling) == [at |-> f.at, joined |-> f.joined, calling |-> calling]

\* The part at place p was handed to a call.
Called(m, p) ==
  \/ m.at = "enter" /\ m.calling /\ p = 0
  \/ m.at = "joins" /\ p <= m.joined + One(m.calling)
  \/ m.at \notin {"unseen", "enter", "joins"}

\* The order of the stages.
Rank(at) ==
  CASE at \in {"unseen", "enter"} -> 0
    [] at \in {"joins", "right"} -> 1
    [] at = "where" -> 2
    [] at = "aggregate" -> 3
    [] at = "having" -> 4
    [] at = "distinct" -> 5
    [] at = "sort" -> 6
    [] at = "limit" -> 7
    [] at = "project" -> 8
    [] at = "done" -> 9

\* How many steps of a kind a node with the AST record a has at a mark.
SelectAdded(a, m, kind) ==
  LET past(r, b) == One(Rank(m.at) > r /\ b) IN
  CASE kind = "Scan" -> past(0, a.from = NoNode)
    [] kind = "Join" -> IF m.at = "joins" THEN m.joined
                        ELSE IF Rank(m.at) > 1 THEN Len(a.joins) ELSE 0
    [] kind = "Filter" -> past(2, a.where) + past(4, a.having)
    [] kind = "Aggregate" -> past(3, a.group_by \/ has_aggregates(a.columns))
    [] kind = "Distinct" -> past(5, a.distinct)
    [] kind = "Sort" -> past(6, a.order_by)
    [] kind = "Limit" -> past(7, a.bounds # {})
    [] kind = "Project" -> past(8, a.columns # <<>>)
    [] OTHER -> 0

SetOperationAdded(a, m, kind) ==
  LET past(r, b) == One(Rank(m.at) > r /\ b) IN
  CASE kind = "SetOperation" -> past(1, TRUE)
    [] kind = "Sort" -> past(6, a.order_by)
    [] kind = "Limit" -> past(7, a.bounds # {})
    [] OTHER -> 0

Added(n, m, kind) ==
  LET a == query.ast[n] IN
  CASE a.kind = "Select" -> SelectAdded(a, m, kind)
    [] a.kind = "SetOperation" -> SetOperationAdded(a, m, kind)
    [] OTHER -> IF m.at = "done" THEN Wanted(n, kind) ELSE 0

\* What the stage of a call says about its node.
Fits(n, m) ==
  LET a == query.ast[n] IN
  /\ a.kind = "Select" /\ m.at = "enter" /\ m.calling => a.from # NoNode
  /\ a.kind = "Select" /\ m.at = "joins" => m.joined + One(m.calling) <= Len(a.joins)
  /\ m.at = "done" => ~Rejected(n)

\* The steps of a kind that come from a node.
StepsOf(n, kind) == {j \in DOMAIN steps : steps[j].of = n /\ steps[j].kind = kind}

\* A call under the innermost one waits for the call it made.
Waiting(i) == i # Len(stack) \/ ret # NoStep

\* The calls plan different nodes, and their nodes have the marks of the calls.
Calls(log) ==
  /\ \A i \in DOMAIN stack :
       /\ stack[i].node \in query.nodes
       /\ log[stack[i].node] = Mark(stack[i], Waiting(i))
  /\ \A i, j \in DOMAIN stack : i # j => stack[i].node # stack[j].node
  /\ \A n \in Node : log[n].at \notin {"unseen", "done"}
                       => \E i \in DOMAIN stack : stack[i].node = n

\* The nodes seen are the root and the parts the calls were made for.
Visits(log) ==
  /\ log[query.root].at # "unseen"
  /\ \A n \in Node \ query.nodes : log[n] = Unseen
  /\ \A n \in query.nodes : \A p \in DOMAIN Parts(query.ast[n]) :
       log[Parts(query.ast[n])[p]].at # "unseen" <=> Called(log[n], p)

\* The steps of each node are those its mark says.
Counts(log) ==
  \A n \in Node, kind \in StepKind : Cardinality(StepsOf(n, kind)) = Added(n, log[n], kind)

Ledger(log) ==
  /\ log \in [Node -> MarkRec]
  /\ Calls(log)
  /\ Visits(log)
  /\ Counts(log)
  /\ \A n \in Node : Fits(n, log[n])

CInv ==
  /\ outcome = "running" => \E log : Ledger(log)
  /\ FailsClosed
  /\ CoversQuery

-----------------------------------------------------------------------------
(* The actions, by what they do to the mark of the innermost call's node.  *)

TopMark == Mark(Top, ret # NoStep)

\* The steps added are those the change of the mark stands for.
Counted(m2) ==
  \/ /\ steps' = steps
     /\ \A k \in StepKind : Added(Top.node, m2, k) = Added(Top.node, TopMark, k)
  \/ \E step \in StepKind, d \in Seq(Nat) :
       /\ AddStep(step, d)
       /\ \A k \in StepKind :
            Added(Top.node, m2, k) = Added(Top.node, TopMark, k) + One(k = step)

\* The change of the mark hands the parts at the places P to calls.
HandsOver(m2, P) ==
  /\ P \subseteq DOMAIN Parts(Ast)
  /\ \A p \in DOMAIN Parts(Ast) : Called(m2, p) <=> (Called(TopMark, p) \/ p \in P)
  /\ \A p \in P : ~Called(TopMark, p)

\* The call goes on; it returns; it makes a call; another call takes its place.
GoesOn(m2) ==
  \E f \in Frame : /\ f.node = Top.node /\ m2 = Mark(f, FALSE)
                   /\ stack' = Append(Below, f) /\ ret' = NoStep
Leaves(m2) == m2 = Done /\ stack' = Below /\ ret' # NoStep
Enters(m2, c) ==
  \E f \in Frame : /\ f.node = Top.node /\ m2 = Mark(f, TRUE)
                   /\ stack' = Append(Append(Below, f), Call(c)) /\ ret' = NoStep
GivesWay(m2, c) == m2 = Done /\ stack' = Append(Below, Call(c)) /\ ret' = NoStep

Marks(m2, P) ==
  /\ m2.at # "unseen" /\ Fits(Top.node, m2)
  /\ Counted(m2) /\ HandsOver(m2, P)
  /\ \/ P = {} /\ (GoesOn(m2) \/ Leaves(m2))
     \/ \E p \in P : P = {p} /\ (\/ Enters(m2, Parts(Ast)[p])
                                 \/ GivesWay(m2, Parts(Ast)[p]))

\* Facts about marks.
LEMMA RankFacts ==
  /\ Rank("unseen") = 0 /\ Rank("enter") = 0 /\ Rank("joins") = 1
  /\ Rank("right") = 1 /\ Rank("where") = 2 /\ Rank("aggregate") = 3
  /\ Rank("having") = 4 /\ Rank("distinct") = 5 /\ Rank("sort") = 6
  /\ Rank("limit") = 7 /\ Rank("project") = 8 /\ Rank("done") = 9
BY DEF Rank

LEMMA MarkFacts ==
  ASSUME NEW f \in Frame, NEW c \in BOOLEAN
  PROVE  /\ Mark(f, c) \in MarkRec /\ Mark(f, c).at = f.at
         /\ Mark(f, c).joined = f.joined /\ Mark(f, c).calling = c
         /\ f.at \notin {"unseen", "done"}
         /\ Done \in MarkRec /\ Entered \in MarkRec /\ Unseen \in MarkRec
BY DEF Mark, MarkRec, Frame, Stage, Done, Entered, Unseen

\* A node nobody planned and one whose call has just begun have no step and
\* have handed over nothing.
LEMMA NothingYet ==
  ASSUME NEW n, NEW m \in MarkRec, m.at = "unseen" \/ m = Entered
  PROVE  /\ \A k \in StepKind : Added(n, m, k) = 0
         /\ \A p : ~Called(m, p)
         /\ Fits(n, m)
<1>1. /\ m.at = "unseen" \/ m.at = "enter"
      /\ m.at = "enter" => ~m.calling
      /\ Rank(m.at) = 0
  BY RankFacts DEF Entered
<1>2. \A p : ~Called(m, p)
  BY <1>1 DEF Called
<1>3. Fits(n, m)
  BY <1>1 DEF Fits
<1>4. ASSUME NEW a, NEW k \in StepKind
      PROVE  SelectAdded(a, m, k) = 0 /\ SetOperationAdded(a, m, k) = 0
  BY <1>1 DEF SelectAdded, SetOperationAdded, One
<1>5. ASSUME NEW k \in StepKind
      PROVE  Added(n, m, k) = 0
  BY <1>1, <1>4 DEF Added
<1> QED BY <1>2, <1>3, <1>5

\* The statement's nodes, as its assumptions give them.
LEMMA Owned ==
  ASSUME TypeOK
  PROVE  /\ query.nodes \subseteq Node /\ query.root \in query.nodes
         /\ query.ast \in [Node -> NodeRec]
         /\ Whole(query, query.nodes)
         /\ \A V \in SUBSET query.nodes :
              query.root \in V /\ Whole(query, V) => V = query.nodes
         /\ \A n \in query.nodes : \A p \in DOMAIN Parts(query.ast[n]) :
              /\ Parts(query.ast[n])[p] # query.root
              /\ \A m \in query.nodes : \A r \in DOMAIN Parts(query.ast[m]) :
                   Parts(query.ast[m])[r] = Parts(query.ast[n])[p] => m = n /\ r = p
<1>1. query \in Queries /\ query \in [ast : [Node -> NodeRec], root : Node, nodes : SUBSET Node]
  BY QueriesAssumption DEF TypeOK
<1>2. /\ query.root \in query.nodes
      /\ Whole(query, query.nodes)
      /\ \A V \in SUBSET query.nodes :
           query.root \in V /\ Whole(query, V) => V = query.nodes
  BY <1>1, TreesAssumption
<1>3. \A n \in query.nodes : \A p \in DOMAIN Parts(query.ast[n]) :
              /\ Parts(query.ast[n])[p] # query.root
              /\ \A m \in query.nodes : \A r \in DOMAIN Parts(query.ast[m]) :
                   Parts(query.ast[m])[r] = Parts(query.ast[n])[p] => m = n /\ r = p
  BY <1>1, TreesAssumption
<1> QED BY <1>1, <1>2, <1>3

\* The places of the parts.
LEMMA PartsFacts ==
  ASSUME TypeOK, stack # <<>>
  PROVE  /\ Ast.kind = "Select" =>
              /\ DOMAIN Parts(Ast) = (IF Ast.from = NoNode THEN 1 ELSE 0) .. Len(Ast.joins)
              /\ Len(Ast.joins) \in Nat
              /\ Ast.from # NoNode => Parts(Ast)[0] = Ast.from
              /\ \A p \in 1 .. Len(Ast.joins) : Parts(Ast)[p] = Ast.joins[p]
         /\ Ast.kind = "SetOperation" =>
              /\ DOMAIN Parts(Ast) = {0, 1}
              /\ Parts(Ast)[0] = Ast.left /\ Parts(Ast)[1] = Ast.right
         /\ Ast.kind \in {"Subquery", "Lateral", "Pivot"} =>
              DOMAIN Parts(Ast) = {0} /\ Parts(Ast)[0] = Ast.source
         /\ Ast.kind \notin {"Select", "SetOperation", "Subquery", "Lateral", "Pivot"} =>
              DOMAIN Parts(Ast) = {}
<1>1. ASSUME Ast.kind = "Select"
      PROVE  /\ DOMAIN Parts(Ast) = (IF Ast.from = NoNode THEN 1 ELSE 0) .. Len(Ast.joins)
             /\ Len(Ast.joins) \in Nat
             /\ Ast.from # NoNode => Parts(Ast)[0] = Ast.from
             /\ \A p \in 1 .. Len(Ast.joins) : Parts(Ast)[p] = Ast.joins[p]
  <2>1. Len(Ast.joins) \in Nat
    BY <1>1, AstFacts, LenProperties DEF SelectRec
  <2>2. Parts(Ast) = [p \in (IF Ast.from = NoNode THEN 1 ELSE 0) .. Len(Ast.joins) |->
                       IF p = 0 THEN Ast.from ELSE Ast.joins[p]]
    BY <1>1 DEF Parts
  <2> QED BY <2>1, <2>2
<1>2. ASSUME Ast.kind = "SetOperation"
      PROVE  /\ DOMAIN Parts(Ast) = {0, 1}
             /\ Parts(Ast)[0] = Ast.left /\ Parts(Ast)[1] = Ast.right
  BY <1>2 DEF Parts
<1>3. ASSUME Ast.kind \in {"Subquery", "Lateral", "Pivot"}
      PROVE  DOMAIN Parts(Ast) = {0} /\ Parts(Ast)[0] = Ast.source
  BY <1>3 DEF Parts
<1>4. ASSUME Ast.kind \notin {"Select", "SetOperation", "Subquery", "Lateral", "Pivot"}
      PROVE  DOMAIN Parts(Ast) = {}
  BY <1>4 DEF Parts
<1> QED BY <1>1, <1>2, <1>3, <1>4

-----------------------------------------------------------------------------
(* A move changes the mark of the node t the innermost call plans, and      *)
(* enters the nodes S it hands to a call.                                  *)

Moved(log, new, t, m2, S) ==
  /\ new \in [Node -> MarkRec]
  /\ new[t] = m2
  /\ \A n \in Node \ {t} : n \notin S => new[n] = log[n]
  /\ \A n \in S : new[n] = Entered /\ log[n].at = "unseen" /\ n # t

\* There is such a ledger.
LEMMA MoveExists ==
  ASSUME NEW log \in [Node -> MarkRec], NEW t \in Node, NEW m2 \in MarkRec,
         NEW S \in SUBSET Node, \A n \in S : log[n].at = "unseen" /\ n # t
  PROVE  \E new : Moved(log, new, t, m2, S)
<1> DEFINE new == [n \in Node |-> IF n = t THEN m2 ELSE IF n \in S THEN Entered ELSE log[n]]
<1>1. Entered \in MarkRec
  BY DEF Entered, MarkRec, Stage
<1>2. new \in [Node -> MarkRec]
  BY <1>1
<1>3. new[t] = m2
  OBVIOUS
<1>4. \A n \in Node \ {t} : n \notin S => new[n] = log[n]
  OBVIOUS
<1>5. \A n \in S : new[n] = Entered /\ log[n].at = "unseen" /\ n # t
  OBVIOUS
<1> HIDE DEF new
<1> QED BY <1>2, <1>3, <1>4, <1>5 DEF Moved

LEMMA VisitsKept ==
  ASSUME TypeOK, query' = query, NEW log, NEW new, NEW t \in query.nodes,
         NEW m2 \in MarkRec, NEW P,
         log \in [Node -> MarkRec], Visits(log),
         log[t].at # "unseen", m2.at # "unseen",
         P \subseteq DOMAIN Parts(query.ast[t]),
         \A p \in DOMAIN Parts(query.ast[t]) : Called(m2, p) <=> (Called(log[t], p) \/ p \in P),
         Moved(log, new, t, m2, {Parts(query.ast[t])[p] : p \in P})
  PROVE  Visits(new)'
<1> DEFINE S == {Parts(query.ast[t])[p] : p \in P}
           part(n, p) == Parts(query.ast[n])[p]
           places(n) == DOMAIN Parts(query.ast[n])
<1>1. /\ query.nodes \subseteq Node /\ query.root \in query.nodes
      /\ \A n \in query.nodes : \A p \in places(n) : part(n, p) \in query.nodes
      /\ \A n \in query.nodes : \A p \in places(n) :
           \A m \in query.nodes : \A r \in places(m) :
             part(m, r) = part(n, p) => m = n /\ r = p
  BY Owned DEF Whole
<1>2. S \subseteq query.nodes
  BY <1>1
<1>3. /\ new \in [Node -> MarkRec] /\ new[t] = m2
      /\ \A n \in Node \ {t} : n \notin S => new[n] = log[n]
      /\ \A n \in S : new[n] = Entered /\ log[n].at = "unseen" /\ n # t
  BY DEF Moved
<1>4. /\ log[query.root].at # "unseen"
      /\ \A n \in Node \ query.nodes : log[n] = Unseen
      /\ \A n \in query.nodes : \A p \in places(n) :
           log[part(n, p)].at # "unseen" <=> Called(log[n], p)
  BY DEF Visits
<1>5. \A n \in query.nodes : \A p \in places(n) : part(n, p) \in S => n = t /\ p \in P
  BY <1>1
<1>6. \A p \in P : part(t, p) \in S
  OBVIOUS
<1> HIDE DEF S, part, places
<1>7. \A n \in query.nodes : new[n].at # "unseen" <=> log[n].at # "unseen" \/ n \in S
  BY <1>1, <1>3 DEF Entered
<1>8. ASSUME NEW n \in query.nodes, NEW p \in places(n)
      PROVE  new[part(n, p)].at # "unseen" <=> Called(new[n], p)
  <2>1. part(n, p) \in query.nodes
    BY <1>1, <1>8
  <2>2. CASE n = t
    <3>1. Called(m2, p) <=> Called(log[t], p) \/ p \in P
      BY <1>8, <2>2 DEF places
    <3> QED BY <1>3, <1>4, <1>5, <1>6, <1>7, <2>1, <2>2, <3>1
  <2>3. CASE n \in S
    <3>1. n # t /\ part(n, p) \notin S
      BY <1>3, <1>5, <2>3
    <3>2. log[n] \in MarkRec /\ log[n].at = "unseen" /\ Entered \in MarkRec
      BY <1>1, <1>3, <2>3 DEF MarkRec, Entered, Stage
    <3>3. ~Called(log[n], p) /\ ~Called(Entered, p)
      BY <3>2, NothingYet
    <3> QED BY <1>3, <1>4, <1>7, <2>1, <2>3, <3>1, <3>3
  <2>4. CASE n # t /\ n \notin S
    <3>1. part(n, p) \notin S /\ new[n] = log[n]
      BY <1>1, <1>3, <1>5, <2>4
    <3> QED BY <1>4, <1>7, <2>1, <3>1
  <2> QED BY <2>2, <2>3, <2>4
<1>9. \A n \in Node \ query.nodes : new[n] = Unseen
  BY <1>2, <1>3, <1>4
<1>10. new[query.root].at # "unseen"
  BY <1>1, <1>4, <1>7
<1> QED BY <1>8, <1>9, <1>10 DEF Visits, part, places

\* One more step is one more step of its node and kind.
LEMMA StepsCounted ==
  ASSUME TypeOK, NEW n, NEW kind
  PROVE  IsFiniteSet(StepsOf(n, kind)) /\ Cardinality(StepsOf(n, kind)) \in Nat
<1>1. PICK l \in Nat : l = Len(steps) /\ DOMAIN steps = 1 .. l
  BY LenProperties DEF TypeOK
<1>2. IsFiniteSet(1 .. l)
  BY FS_Interval, <1>1
<1>3. StepsOf(n, kind) \subseteq 1 .. l
  BY <1>1 DEF StepsOf
<1> QED BY <1>2, <1>3, FS_Subset, FS_CardinalityType

LEMMA OneMoreOf ==
  ASSUME TypeOK, stack # <<>>, NEW step \in StepKind, NEW d \in Seq(Nat),
         AddStep(step, d), NEW t, t = Top.node, NEW n, NEW kind
  PROVE  Cardinality(StepsOf(n, kind)')
           = Cardinality(StepsOf(n, kind)) + One(n = t /\ kind = step)
<1> DEFINE s == [kind |-> step, of |-> t, dependencies |-> d]
<1>1. s \in StepRec /\ s.kind = step /\ s.of = t /\ steps' = Append(steps, s)
  BY FrameFacts DEF AddStep, StepRec
<1> HIDE DEF s
<1>2. PICK l \in Nat : l = Len(steps) /\ DOMAIN steps = 1 .. l
  BY LenProperties DEF TypeOK
<1>3. /\ steps' \in Seq(StepRec) /\ Len(steps') = l + 1
      /\ \A j \in 1 .. l : steps'[j] = steps[j]
      /\ steps'[l + 1] = s
  BY <1>1, <1>2, AppendProperties DEF TypeOK
<1>4. DOMAIN steps' = 1 .. l + 1 /\ 1 .. l + 1 = (1 .. l) \cup {l + 1} /\ l + 1 \notin 1 .. l
  BY <1>2, <1>3, LenProperties
<1>5. StepsOf(n, kind)' = {j \in DOMAIN steps' : steps'[j].of = n /\ steps'[j].kind = kind}
  BY DEF StepsOf
<1>6. IsFiniteSet(StepsOf(n, kind)) /\ Cardinality(StepsOf(n, kind)) \in Nat
      /\ l + 1 \notin StepsOf(n, kind)
  <2>1. IsFiniteSet(StepsOf(n, kind)) /\ Cardinality(StepsOf(n, kind)) \in Nat
    BY StepsCounted
  <2>2. l + 1 \notin StepsOf(n, kind)
    BY <1>2, <1>4 DEF StepsOf
  <2> QED BY <2>1, <2>2
<1>7. CASE n = t /\ kind = step
  <2>1. StepsOf(n, kind)' = StepsOf(n, kind) \cup {l + 1}
    BY <1>1, <1>2, <1>3, <1>4, <1>5, <1>7 DEF StepsOf
  <2>2. Cardinality(StepsOf(n, kind) \cup {l + 1}) = Cardinality(StepsOf(n, kind)) + 1
    <3> DEFINE A == StepsOf(n, kind)
    <3> HIDE DEF A
    <3> QED BY <1>6, FS_AddElement DEF A
  <2> QED BY <1>7, <2>1, <2>2 DEF One
<1>8. CASE ~(n = t /\ kind = step)
  <2>1. StepsOf(n, kind)' = StepsOf(n, kind)
    BY <1>1, <1>2, <1>3, <1>4, <1>5, <1>8 DEF StepsOf
  <2> QED BY <1>6, <1>8, <2>1 DEF One
<1> QED BY <1>7, <1>8

LEMMA CountsKept ==
  ASSUME TypeOK, stack # <<>>, query' = query, NEW log, NEW new, NEW t \in Node,
         t = Top.node, NEW m2 \in MarkRec, NEW S \in SUBSET Node,
         log \in [Node -> MarkRec], Counts(log), log[t] = TopMark,
         Counted(m2), Moved(log, new, t, m2, S)
  PROVE  Counts(new)'
<1>1. ASSUME NEW n \in Node, NEW kind \in StepKind
      PROVE  Cardinality(StepsOf(n, kind)) = Added(n, log[n], kind)
             /\ Cardinality(StepsOf(n, kind)) \in Nat
  BY <1>1, StepsCounted DEF Counts
<1>2. ASSUME NEW n \in Node, NEW kind \in StepKind, n # t
      PROVE  Added(n, new[n], kind) = Added(n, log[n], kind)
  <2>1. CASE n \in S
    <3>1. new[n] = Entered /\ log[n].at = "unseen" /\ new[n] \in MarkRec /\ log[n] \in MarkRec
      BY <2>1 DEF Moved
    <3> QED BY <1>2, <3>1, NothingYet
  <2>2. CASE n \notin S
    BY <1>2, <2>2 DEF Moved
  <2> QED BY <2>1, <2>2
<1>3. ASSUME NEW n \in Node, NEW kind \in StepKind
      PROVE  Cardinality(StepsOf(n, kind)') = Added(n, new[n], kind)
  <2>1. new[t] = m2
    BY DEF Moved
  <2>2. CASE steps' = steps /\ \A k \in StepKind : Added(t, m2, k) = Added(t, TopMark, k)
    <3>1. StepsOf(n, kind)' = StepsOf(n, kind)
      BY <2>2 DEF StepsOf
    <3> QED BY <1>1, <1>2, <1>3, <2>1, <2>2, <3>1
  <2>3. CASE \E step \in StepKind, d \in Seq(Nat) :
               /\ AddStep(step, d)
               /\ \A k \in StepKind : Added(t, m2, k) = Added(t, TopMark, k) + One(k = step)
    <3>1. PICK step \in StepKind, d \in Seq(Nat) :
               /\ AddStep(step, d)
               /\ \A k \in StepKind : Added(t, m2, k) = Added(t, TopMark, k) + One(k = step)
      BY <2>3
    <3>2. Cardinality(StepsOf(n, kind)')
            = Cardinality(StepsOf(n, kind)) + One(n = t /\ kind = step)
      BY <3>1, OneMoreOf
    <3>3. CASE n = t
      <4>1. One(n = t /\ kind = step) = One(kind = step)
        BY <3>3 DEF One
      <4> QED BY <1>1, <1>3, <2>1, <3>1, <3>2, <3>3, <4>1
    <3>4. CASE n # t
      <4>1. One(n = t /\ kind = step) = 0
        BY <3>4 DEF One
      <4> QED BY <1>1, <1>2, <1>3, <3>2, <3>4, <4>1
    <3> QED BY <3>3, <3>4
  <2> QED BY <2>2, <2>3 DEF Counted
<1>4. \A n, m, k : Added(n, m, k)' = Added(n, m, k)
  BY DEF Added, Wanted
<1>5. \A n \in Node, kind \in StepKind : Cardinality(StepsOf(n, kind)') = Added(n, new[n], kind)'
  BY <1>3, <1>4
<1> QED BY <1>5 DEF Counts

-----------------------------------------------------------------------------
(* The marks of the calls, through each of the four moves.                 *)

LEMMA SameLength ==
  ASSUME NEW a \in Nat, NEW b \in Nat, 1 .. a = 1 .. b
  PROVE  a = b
<1>1. ~(a < b)
  <2> SUFFICES ASSUME a < b PROVE FALSE
    OBVIOUS
  <2>1. b \in 1 .. b /\ b \notin 1 .. a
    OBVIOUS
  <2> QED BY <2>1
<1>2. ~(b < a)
  <2> SUFFICES ASSUME b < a PROVE FALSE
    OBVIOUS
  <2>1. a \in 1 .. a /\ a \notin 1 .. b
    OBVIOUS
  <2> QED BY <2>1
<1> QED BY <1>1, <1>2

LEMMA TopMarked ==
  ASSUME TypeOK, stack # <<>>, NEW log, Ledger(log)
  PROVE  /\ Top.node \in query.nodes /\ Top.node \in Node
         /\ log[Top.node] = TopMark /\ TopMark \in MarkRec
         /\ TopMark.at = Top.at /\ TopMark.joined = Top.joined
         /\ TopMark.calling = (ret # NoStep)
         /\ TopMark.at \notin {"unseen", "done"}
         /\ Fits(Top.node, TopMark)
<1>1. Len(stack) \in DOMAIN stack /\ Top \in Frame
  BY BelowFacts
<1>2. /\ Top.node \in query.nodes
      /\ log[Top.node] = Mark(Top, Waiting(Len(stack)))
  BY <1>1 DEF Ledger, Calls, Top
<1>3. Waiting(Len(stack)) = (ret # NoStep)
  BY DEF Waiting
<1>4. log[Top.node] = TopMark
  BY <1>2, <1>3 DEF TopMark
<1>5. Top.node \in Node
  BY <1>1 DEF Frame
<1>6. Fits(Top.node, TopMark)
  BY <1>4, <1>5 DEF Ledger
<1>7. /\ TopMark \in MarkRec /\ TopMark.at = Top.at /\ TopMark.joined = Top.joined
      /\ TopMark.calling = (ret # NoStep)
      /\ TopMark.at \notin {"unseen", "done"}
  BY <1>1, MarkFacts DEF TopMark
<1> QED BY <1>2, <1>4, <1>5, <1>6, <1>7

\* The n - 1 calls under the innermost one keep their marks.
LowerKept(n, new, S) ==
  /\ \A i \in 1 .. n - 1 :
       /\ stack[i].node \in query.nodes /\ stack[i].node # Top.node
       /\ stack[i].node \notin S
       /\ new[stack[i].node] = Mark(stack[i], TRUE)
  /\ \A i, j \in 1 .. n - 1 : i # j => stack[i].node # stack[j].node
  /\ \A x \in Node : x # Top.node /\ x \notin S /\ new[x].at \notin {"unseen", "done"}
                      => \E i \in 1 .. n - 1 : stack[i].node = x

LEMMA LowerCalls ==
  ASSUME TypeOK, stack # <<>>, NEW log, Ledger(log), NEW new, NEW m2, NEW S,
         Moved(log, new, Top.node, m2, S), NEW n \in Nat, n = Len(stack)
  PROVE  LowerKept(n, new, S)
<1>1. n >= 1 /\ DOMAIN stack = 1 .. n /\ Top = stack[n]
  BY BelowFacts DEF Top
<1>2. /\ \A i \in 1 .. n :
           /\ stack[i].node \in query.nodes
           /\ log[stack[i].node] = Mark(stack[i], Waiting(i))
      /\ \A i, j \in 1 .. n : i # j => stack[i].node # stack[j].node
      /\ \A x \in Node : log[x].at \notin {"unseen", "done"}
                          => \E i \in 1 .. n : stack[i].node = x
  BY <1>1 DEF Ledger, Calls
<1>3. /\ \A x \in Node \ {Top.node} : x \notin S => new[x] = log[x]
      /\ \A x \in S : log[x].at = "unseen"
  BY DEF Moved
<1>4. ASSUME NEW i \in 1 .. n - 1
      PROVE  /\ stack[i].node \in query.nodes /\ stack[i].node # Top.node
             /\ stack[i].node \notin S
             /\ new[stack[i].node] = Mark(stack[i], TRUE)
  <2>1. i \in 1 .. n /\ n \in 1 .. n /\ i # n /\ stack[i] \in Frame
    BY <1>1, ElementOfSeq DEF TypeOK
  <2>2. Waiting(i) = TRUE
    BY <2>1 DEF Waiting
  <2>3. log[stack[i].node] = Mark(stack[i], TRUE) /\ stack[i].node # Top.node
    BY <1>1, <1>2, <2>1, <2>2
  <2>4. log[stack[i].node].at # "unseen"
    BY <2>1, <2>3 DEF Mark, Frame, Stage
  <2>5. stack[i].node \in Node
    BY <2>1 DEF Frame
  <2> QED BY <1>2, <1>3, <2>1, <2>3, <2>4, <2>5
<1>5. \A i \in 1 .. n - 1 : i \in 1 .. n
  OBVIOUS
<1>6. ASSUME NEW x \in Node, x # Top.node, x \notin S, new[x].at \notin {"unseen", "done"}
      PROVE  \E i \in 1 .. n - 1 : stack[i].node = x
  <2>1. PICK i \in 1 .. n : stack[i].node = x
    BY <1>2, <1>3, <1>6
  <2>2. i # n
    BY <1>1, <1>6, <2>1
  <2> QED BY <2>1, <2>2
<1> QED BY <1>2, <1>4, <1>5, <1>6 DEF LowerKept

LEMMA CallsGoOn ==
  ASSUME TypeOK, stack # <<>>, query' = query, NEW log, Ledger(log), NEW new,
         NEW m2, NEW S, S = {}, Moved(log, new, Top.node, m2, S), GoesOn(m2)
  PROVE  Calls(new)'
<1>1. PICK f \in Frame : /\ f.node = Top.node /\ m2 = Mark(f, FALSE)
                         /\ stack' = Append(Below, f) /\ ret' = NoStep
  BY DEF GoesOn
<1>2. PICK n \in Nat : n = Len(stack)
  BY BelowFacts
<1>20. LowerKept(n, new, S)
  BY <1>2, LowerCalls
<1>3. /\ stack' \in Seq(Frame)
      /\ n >= 1 /\ DOMAIN stack' = 1 .. n
      /\ \A i \in 1 .. n - 1 : stack'[i] = stack[i]
      /\ stack'[n] = f
  BY <1>1, <1>2, StackReplace
<1>4. Len(stack') = n
  BY <1>3, SameLength, LenProperties
<1>5. \A i \in 1 .. n : Waiting(i)' = (i # n)
  BY <1>1, <1>4 DEF Waiting
<1>6. \A i \in 1 .. n : i = n \/ (i \in 1 .. n - 1 /\ i # n)
  BY <1>3
<1>7. new[Top.node] = m2 /\ Top.node \in query.nodes
  BY TopMarked DEF Moved
<1>8. ASSUME NEW i \in 1 .. n
      PROVE  /\ stack'[i].node \in query.nodes
             /\ new[stack'[i].node] = Mark(stack'[i], Waiting(i)')
  <2>1. CASE i = n
    BY <1>1, <1>3, <1>5, <1>7, <2>1
  <2>2. CASE i \in 1 .. n - 1 /\ i # n
    <3>1. Waiting(i)' = TRUE /\ stack'[i] = stack[i]
      BY <1>3, <1>5, <1>8, <2>2
    <3> QED BY <2>2, <3>1, <1>20 DEF LowerKept
  <2> QED BY <1>6, <2>1, <2>2
<1>12. \A i \in 1 .. n - 1 : stack'[i].node # Top.node
  BY <1>3, <1>20 DEF LowerKept
<1>13. \A i, j \in 1 .. n - 1 : i # j => stack'[i].node # stack'[j].node
  BY <1>3, <1>20 DEF LowerKept
<1>9. ASSUME NEW i \in 1 .. n, NEW j \in 1 .. n, i # j
      PROVE  stack'[i].node # stack'[j].node
  <2>1. stack'[n].node = Top.node
    BY <1>1, <1>3
  <2> QED BY <1>6, <1>9, <1>12, <1>13, <2>1
<1>10. ASSUME NEW x \in Node, new[x].at \notin {"unseen", "done"}
       PROVE  \E i \in 1 .. n : stack'[i].node = x
  <2>1. CASE x = Top.node
    <3>1. n \in 1 .. n /\ stack'[n].node = x
      BY <1>1, <1>3, <2>1
    <3> QED BY <3>1
  <2>2. CASE x # Top.node
    <3>1. PICK i \in 1 .. n - 1 : stack[i].node = x
      BY <1>10, <2>2, <1>20 DEF LowerKept
    <3>2. i \in 1 .. n /\ stack'[i].node = x
      BY <1>3, <3>1
    <3> QED BY <3>2
  <2> QED BY <2>1, <2>2
<1> QED BY <1>3, <1>8, <1>9, <1>10 DEF Calls

LEMMA CallsLeave ==
  ASSUME TypeOK, stack # <<>>, query' = query, NEW log, Ledger(log), NEW new,
         NEW m2, NEW S, S = {}, Moved(log, new, Top.node, m2, S), Leaves(m2)
  PROVE  Calls(new)'
<1>1. m2 = Done /\ stack' = Below /\ ret' # NoStep
  BY DEF Leaves
<1>2. PICK n \in Nat : n = Len(stack)
  BY BelowFacts
<1>20. LowerKept(n, new, S)
  BY <1>2, LowerCalls
<1>3. /\ stack' \in Seq(Frame)
      /\ n >= 1 /\ DOMAIN stack' = 1 .. n - 1
      /\ \A i \in 1 .. n - 1 : stack'[i] = stack[i]
  BY <1>1, <1>2, StackPop
<1>4. \A i \in 1 .. n - 1 : Waiting(i)' = TRUE
  BY <1>1 DEF Waiting
<1>5. \A i \in 1 .. n - 1 : /\ stack'[i].node \in query.nodes
                            /\ new[stack'[i].node] = Mark(stack'[i], Waiting(i)')
  BY <1>3, <1>4, <1>20 DEF LowerKept
<1>6. \A i, j \in 1 .. n - 1 : i # j => stack'[i].node # stack'[j].node
  BY <1>3, <1>20 DEF LowerKept
<1>7. ASSUME NEW x \in Node, new[x].at \notin {"unseen", "done"}
      PROVE  \E i \in 1 .. n - 1 : stack'[i].node = x
  <2>1. x # Top.node
    BY <1>1, <1>7 DEF Moved, Done
  <2> QED BY <1>3, <1>7, <2>1, <1>20 DEF LowerKept
<1> QED BY <1>3, <1>5, <1>6, <1>7 DEF Calls

LEMMA CallsEnter ==
  ASSUME TypeOK, stack # <<>>, query' = query, NEW log, Ledger(log), NEW new,
         NEW m2, NEW c \in query.nodes, NEW S, S = {c},
         Moved(log, new, Top.node, m2, S), Enters(m2, c)
  PROVE  Calls(new)'
<1> DEFINE g == Call(c)
<1>1. PICK f \in Frame : /\ f.node = Top.node /\ m2 = Mark(f, TRUE)
                         /\ stack' = Append(Append(Below, f), g) /\ ret' = NoStep
  BY DEF Enters
<1>2. PICK n \in Nat : n = Len(stack)
  BY BelowFacts
<1>20. LowerKept(n, new, S)
  BY <1>2, LowerCalls
<1>0. c \in Node
  BY Owned
<1>11. g \in Frame /\ g.node = c /\ Mark(g, FALSE) = Entered
  BY <1>0, FrameFacts DEF Call, Mark, Entered
<1> HIDE DEF g
<1>3. /\ stack' \in Seq(Frame)
      /\ n >= 1 /\ DOMAIN stack' = 1 .. n + 1
      /\ \A i \in 1 .. n - 1 : stack'[i] = stack[i]
      /\ stack'[n] = f /\ stack'[n + 1] = g
  BY <1>1, <1>2, <1>11, StackPush
<1>4. Len(stack') = n + 1
  BY <1>3, SameLength, LenProperties
<1>5. \A i \in 1 .. n + 1 : Waiting(i)' = (i # n + 1)
  BY <1>1, <1>4 DEF Waiting
<1>6. \A i \in 1 .. n + 1 : \/ i = n + 1
                            \/ i = n /\ i # n + 1
                            \/ i \in 1 .. n - 1 /\ i # n + 1 /\ i # n
  BY <1>3
<1>7. /\ new[Top.node] = m2 /\ Top.node \in query.nodes
      /\ new[c] = Entered /\ c # Top.node
  BY TopMarked DEF Moved
<1>8. ASSUME NEW i \in 1 .. n + 1
      PROVE  /\ stack'[i].node \in query.nodes
             /\ new[stack'[i].node] = Mark(stack'[i], Waiting(i)')
  <2>1. CASE i = n + 1
    <3>1. Waiting(i)' = FALSE /\ stack'[i] = g
      BY <1>3, <1>5, <1>8, <2>1
    <3> QED BY <1>7, <1>11, <3>1
  <2>2. CASE i = n /\ i # n + 1
    <3>1. Waiting(i)' = TRUE /\ stack'[i] = f
      BY <1>3, <1>5, <1>8, <2>2
    <3> QED BY <1>1, <1>7, <3>1
  <2>3. CASE i \in 1 .. n - 1 /\ i # n + 1 /\ i # n
    <3>1. Waiting(i)' = TRUE /\ stack'[i] = stack[i]
      BY <1>3, <1>5, <1>8, <2>3
    <3> QED BY <2>3, <3>1, <1>20 DEF LowerKept
  <2> QED BY <1>6, <2>1, <2>2, <2>3
<1>12. \A i \in 1 .. n - 1 : stack'[i].node # Top.node /\ stack'[i].node # c
  BY <1>3, <1>20 DEF LowerKept
<1>13. \A i, j \in 1 .. n - 1 : i # j => stack'[i].node # stack'[j].node
  BY <1>3, <1>20 DEF LowerKept
<1>9. ASSUME NEW i \in 1 .. n + 1, NEW j \in 1 .. n + 1, i # j
      PROVE  stack'[i].node # stack'[j].node
  <2>1. stack'[n].node = Top.node /\ stack'[n + 1].node = c
    BY <1>1, <1>3, <1>11
  <2> QED BY <1>6, <1>7, <1>9, <1>12, <1>13, <2>1
<1>10. ASSUME NEW x \in Node, new[x].at \notin {"unseen", "done"}
       PROVE  \E i \in 1 .. n + 1 : stack'[i].node = x
  <2>1. CASE x = Top.node
    <3>1. n \in 1 .. n + 1 /\ stack'[n].node = x
      BY <1>1, <1>3, <2>1
    <3> QED BY <3>1
  <2>2. CASE x = c
    <3>1. n + 1 \in 1 .. n + 1 /\ stack'[n + 1].node = x
      BY <1>3, <1>11, <2>2
    <3> QED BY <3>1
  <2>3. CASE x # Top.node /\ x # c
    <3>1. PICK i \in 1 .. n - 1 : stack[i].node = x
      BY <1>10, <2>3, <1>20 DEF LowerKept
    <3>2. i \in 1 .. n + 1 /\ stack'[i].node = x
      BY <1>3, <3>1
    <3> QED BY <3>2
  <2> QED BY <2>1, <2>2, <2>3
<1> QED BY <1>3, <1>8, <1>9, <1>10 DEF Calls

LEMMA CallsGiveWay ==
  ASSUME TypeOK, stack # <<>>, query' = query, NEW log, Ledger(log), NEW new,
         NEW m2, NEW c \in query.nodes, NEW S, S = {c},
         Moved(log, new, Top.node, m2, S), GivesWay(m2, c)
  PROVE  Calls(new)'
<1> DEFINE g == Call(c)
<1>1. m2 = Done /\ stack' = Append(Below, g) /\ ret' = NoStep
  BY DEF GivesWay
<1>2. PICK n \in Nat : n = Len(stack)
  BY BelowFacts
<1>20. LowerKept(n, new, S)
  BY <1>2, LowerCalls
<1>0. c \in Node
  BY Owned
<1>11. g \in Frame /\ g.node = c /\ Mark(g, FALSE) = Entered
  BY <1>0, FrameFacts DEF Call, Mark, Entered
<1> HIDE DEF g
<1>3. /\ stack' \in Seq(Frame)
      /\ n >= 1 /\ DOMAIN stack' = 1 .. n
      /\ \A i \in 1 .. n - 1 : stack'[i] = stack[i]
      /\ stack'[n] = g
  BY <1>1, <1>2, <1>11, StackReplace
<1>4. Len(stack') = n
  BY <1>3, SameLength, LenProperties
<1>5. \A i \in 1 .. n : Waiting(i)' = (i # n)
  BY <1>1, <1>4 DEF Waiting
<1>6. \A i \in 1 .. n : i = n \/ (i \in 1 .. n - 1 /\ i # n)
  BY <1>3
<1>7. new[Top.node] = Done /\ new[c] = Entered
  BY <1>1 DEF Moved
<1>8. ASSUME NEW i \in 1 .. n
      PROVE  /\ stack'[i].node \in query.nodes
             /\ new[stack'[i].node] = Mark(stack'[i], Waiting(i)')
  <2>1. CASE i = n
    <3>1. Waiting(i)' = FALSE /\ stack'[i] = g
      BY <1>3, <1>5, <1>8, <2>1
    <3> QED BY <1>7, <1>11, <3>1
  <2>2. CASE i \in 1 .. n - 1 /\ i # n
    <3>1. Waiting(i)' = TRUE /\ stack'[i] = stack[i]
      BY <1>3, <1>5, <1>8, <2>2
    <3> QED BY <2>2, <3>1, <1>20 DEF LowerKept
  <2> QED BY <1>6, <2>1, <2>2
<1>12. \A i \in 1 .. n - 1 : stack'[i].node # c
  BY <1>3, <1>20 DEF LowerKept
<1>13. \A i, j \in 1 .. n - 1 : i # j => stack'[i].node # stack'[j].node
  BY <1>3, <1>20 DEF LowerKept
<1>9. ASSUME NEW i \in 1 .. n, NEW j \in 1 .. n, i # j
      PROVE  stack'[i].node # stack'[j].node
  <2>1. stack'[n].node = c
    BY <1>3, <1>11
  <2> QED BY <1>6, <1>9, <1>12, <1>13, <2>1
<1>10. ASSUME NEW x \in Node, new[x].at \notin {"unseen", "done"}
       PROVE  \E i \in 1 .. n : stack'[i].node = x
  <2>1. x # Top.node
    BY <1>7, <1>10 DEF Done
  <2>2. CASE x = c
    <3>1. n \in 1 .. n /\ stack'[n].node = x
      BY <1>3, <1>11, <2>2
    <3> QED BY <3>1
  <2>3. CASE x # c
    <3>1. PICK i \in 1 .. n - 1 : stack[i].node = x
      BY <1>10, <2>1, <2>3, <1>20 DEF LowerKept
    <3>2. i \in 1 .. n /\ stack'[i].node = x
      BY <1>3, <3>1
    <3> QED BY <3>2
  <2> QED BY <2>2, <2>3
<1> QED BY <1>3, <1>8, <1>9, <1>10 DEF Calls

\* Every move keeps the ledger.
LEMMA LedgerKept ==
  ASSUME TypeOK, stack # <<>>, query' = query, NEW log, Ledger(log),
         NEW m2 \in MarkRec, NEW P, Marks(m2, P)
  PROVE  \E new : Ledger(new)'
<1> DEFINE S == {Parts(Ast)[p] : p \in P}
<1>1. PICK t : t = Top.node
  OBVIOUS
<1>2. /\ t \in query.nodes /\ t \in Node
      /\ log[t] = TopMark /\ log \in [Node -> MarkRec]
      /\ TopMark.at \notin {"unseen", "done"}
  BY <1>1, TopMarked DEF Ledger
<1>3. /\ m2.at # "unseen" /\ Fits(t, m2) /\ Counted(m2) /\ HandsOver(m2, P)
  BY <1>1 DEF Marks
<1>4. Ast = query.ast[t]
  BY <1>1 DEF Ast
<1>5. /\ S \subseteq query.nodes /\ query.nodes \subseteq Node
      /\ \A n \in S : log[n].at = "unseen" /\ n # t
  <2>1. query.nodes \subseteq Node /\ Whole(query, query.nodes)
    BY Owned
  <2>2. ASSUME NEW p \in P
        PROVE  /\ p \in DOMAIN Parts(query.ast[t]) /\ ~Called(log[t], p)
               /\ Parts(query.ast[t])[p] \in query.nodes
    BY <1>2, <1>3, <1>4, <2>1, <2>2 DEF Whole, HandsOver
  <2>3. ASSUME NEW p \in P
        PROVE  log[Parts(query.ast[t])[p]].at = "unseen"
    BY <1>2, <2>2, <2>3 DEF Ledger, Visits
  <2>4. log[t].at # "unseen"
    BY <1>2
  <2> QED BY <1>4, <2>1, <2>2, <2>3, <2>4
<1>6. PICK new : Moved(log, new, t, m2, S)
  <2> HIDE DEF S
  <2>1. S \in SUBSET Node
    BY <1>5
  <2> QED BY <1>2, <1>5, <2>1, MoveExists
<1>7. Visits(new)'
  BY <1>2, <1>3, <1>4, <1>6, VisitsKept DEF Ledger, HandsOver
<1>8. Counts(new)'
  <2> HIDE DEF S
  <2>1. S \in SUBSET Node
    BY <1>5
  <2> QED BY <1>1, <1>2, <1>3, <1>6, <2>1, CountsKept DEF Ledger
<1>9. Calls(new)'
  <2>1. CASE P = {} /\ GoesOn(m2)
    <3>1. S = {}
      BY <2>1
    <3> HIDE DEF S
    <3> QED BY <1>1, <1>6, <2>1, <3>1, CallsGoOn
  <2>2. CASE P = {} /\ Leaves(m2)
    <3>1. S = {}
      BY <2>2
    <3> HIDE DEF S
    <3> QED BY <1>1, <1>6, <2>2, <3>1, CallsLeave
  <2>3. CASE \E p \in P : P = {p} /\ Enters(m2, Parts(Ast)[p])
    <3>1. PICK p \in P : P = {p} /\ Enters(m2, Parts(Ast)[p])
      BY <2>3
    <3>2. PICK c : c = Parts(Ast)[p]
      OBVIOUS
    <3>3. S = {c} /\ c \in query.nodes /\ Enters(m2, c)
      BY <1>5, <3>1, <3>2
    <3> HIDE DEF S
    <3> QED BY <1>1, <1>6, <3>3, CallsEnter
  <2>4. CASE \E p \in P : P = {p} /\ GivesWay(m2, Parts(Ast)[p])
    <3>1. PICK p \in P : P = {p} /\ GivesWay(m2, Parts(Ast)[p])
      BY <2>4
    <3>2. PICK c : c = Parts(Ast)[p]
      OBVIOUS
    <3>3. S = {c} /\ c \in query.nodes /\ GivesWay(m2, c)
      BY <1>5, <3>1, <3>2
    <3> HIDE DEF S
    <3> QED BY <1>1, <1>6, <3>3, CallsGiveWay
  <2> QED BY <2>1, <2>2, <2>3, <2>4 DEF Marks
<1>10. new \in [Node -> MarkRec]
  BY <1>6 DEF Moved
<1>11. ASSUME NEW n \in Node
       PROVE  Fits(n, new[n])'
  <2>1. Fits(n, new[n])' = Fits(n, new[n])
    BY DEF Fits, Rejected
  <2>2. CASE n = t
    BY <1>3, <1>6, <2>1, <2>2 DEF Moved
  <2>3. CASE n \in S
    <3>1. new[n] = Entered /\ Entered \in MarkRec
      BY <1>6, <2>3 DEF Moved, Entered, MarkRec, Stage
    <3> QED BY <2>1, <3>1, NothingYet
  <2>4. CASE n # t /\ n \notin S
    BY <1>6, <2>1, <2>4 DEF Moved, Ledger
  <2> QED BY <2>2, <2>3, <2>4
<1>12. Ledger(new)'
  BY <1>7, <1>8, <1>9, <1>10, <1>11 DEF Ledger
<1> QED BY <1>12

-----------------------------------------------------------------------------
(* Every action but Reject and Build is a move of the innermost call's mark. *)

\* The steps a clause of a node at stage `at` adds are those the next stage
\* counts.
ClauseCounts(kind, at, present, step, next) ==
  \A m, m2 \in MarkRec : m.at = at /\ m2.at = next =>
    \A k \in StepKind : Added(Top.node, m2, k) = Added(Top.node, m, k) + One(present /\ k = step)

LEMMA SelectClauses ==
  ASSUME Ast.kind = "Select", stack # <<>>, TypeOK
  PROVE  /\ ClauseCounts("Select", "where", Ast.where, "Filter", "aggregate")
         /\ ClauseCounts("Select", "aggregate", Ast.group_by \/ has_aggregates(Ast.columns),
                         "Aggregate", "having")
         /\ ClauseCounts("Select", "having", Ast.having, "Filter", "distinct")
         /\ ClauseCounts("Select", "distinct", Ast.distinct, "Distinct", "sort")
         /\ ClauseCounts("Select", "sort", Ast.order_by, "Sort", "limit")
         /\ ClauseCounts("Select", "limit", Ast.bounds # {}, "Limit", "project")
         /\ ClauseCounts("Select", "project", Ast.columns # <<>>, "Project", "done")
<1>1. \A m, k : Added(Top.node, m, k) = SelectAdded(Ast, m, k)
  BY DEF Added, Ast
<1>2. ASSUME NEW m \in MarkRec, NEW m2 \in MarkRec, NEW k \in StepKind
      PROVE  /\ m.at = "where" /\ m2.at = "aggregate" =>
                  SelectAdded(Ast, m2, k) = SelectAdded(Ast, m, k) + One(Ast.where /\ k = "Filter")
             /\ m.at = "having" /\ m2.at = "distinct" =>
                  SelectAdded(Ast, m2, k) = SelectAdded(Ast, m, k) + One(Ast.having /\ k = "Filter")
  <2>1. Len(Ast.joins) \in Nat
    BY PartsFacts
  <2> QED BY <2>1, RankFacts DEF SelectAdded, One, StepKind
<1>3. ASSUME NEW m \in MarkRec, NEW m2 \in MarkRec, NEW k \in StepKind
      PROVE  /\ m.at = "aggregate" /\ m2.at = "having" =>
                  SelectAdded(Ast, m2, k) = SelectAdded(Ast, m, k)
                    + One((Ast.group_by \/ has_aggregates(Ast.columns)) /\ k = "Aggregate")
             /\ m.at = "distinct" /\ m2.at = "sort" =>
                  SelectAdded(Ast, m2, k) = SelectAdded(Ast, m, k) + One(Ast.distinct /\ k = "Distinct")
  <2>1. Len(Ast.joins) \in Nat
    BY PartsFacts
  <2> QED BY <2>1, RankFacts DEF SelectAdded, One, StepKind
<1>4. ASSUME NEW m \in MarkRec, NEW m2 \in MarkRec, NEW k \in StepKind,
             m.at = "sort", m2.at = "limit"
      PROVE  SelectAdded(Ast, m2, k) = SelectAdded(Ast, m, k) + One(Ast.order_by /\ k = "Sort")
  <2>1. Len(Ast.joins) \in Nat
    BY PartsFacts
  <2>2. Rank(m.at) = 6 /\ Rank(m2.at) = 7 /\ m.at # "joins" /\ m2.at # "joins"
    BY <1>4, RankFacts
  <2>3. CASE k = "Sort"
    BY <2>2, <2>3 DEF SelectAdded, One
  <2>4. CASE k # "Sort"
    <3>1. SelectAdded(Ast, m2, k) = SelectAdded(Ast, m, k)
      BY <2>2, <2>4 DEF SelectAdded, One
    <3>2. SelectAdded(Ast, m, k) \in Nat
      BY <2>1, <2>2 DEF SelectAdded, One, StepKind
    <3> QED BY <2>4, <3>1, <3>2 DEF One
  <2> QED BY <2>3, <2>4
<1>5. ASSUME NEW m \in MarkRec, NEW m2 \in MarkRec, NEW k \in StepKind,
             m.at = "limit", m2.at = "project"
      PROVE  SelectAdded(Ast, m2, k) = SelectAdded(Ast, m, k) + One(Ast.bounds # {} /\ k = "Limit")
  <2>1. Len(Ast.joins) \in Nat
    BY PartsFacts
  <2>2. Rank(m.at) = 7 /\ Rank(m2.at) = 8 /\ m.at # "joins" /\ m2.at # "joins"
    BY <1>5, RankFacts
  <2>3. CASE k = "Limit"
    BY <2>2, <2>3 DEF SelectAdded, One
  <2>4. CASE k # "Limit"
    <3>1. SelectAdded(Ast, m2, k) = SelectAdded(Ast, m, k)
      BY <2>2, <2>4 DEF SelectAdded, One
    <3>2. SelectAdded(Ast, m, k) \in Nat
      BY <2>1, <2>2 DEF SelectAdded, One, StepKind
    <3> QED BY <2>4, <3>1, <3>2 DEF One
  <2> QED BY <2>3, <2>4
<1>6. ASSUME NEW m \in MarkRec, NEW m2 \in MarkRec, NEW k \in StepKind,
             m.at = "project", m2.at = "done"
      PROVE  SelectAdded(Ast, m2, k) = SelectAdded(Ast, m, k) + One(Ast.columns # <<>> /\ k = "Project")
  <2>1. Len(Ast.joins) \in Nat
    BY PartsFacts
  <2>2. Rank(m.at) = 8 /\ Rank(m2.at) = 9 /\ m.at # "joins" /\ m2.at # "joins"
    BY <1>6, RankFacts
  <2>3. CASE k = "Project"
    BY <2>2, <2>3 DEF SelectAdded, One
  <2>4. CASE k # "Project"
    <3>1. SelectAdded(Ast, m2, k) = SelectAdded(Ast, m, k)
      BY <2>2, <2>4 DEF SelectAdded, One
    <3>2. SelectAdded(Ast, m, k) \in Nat
      BY <2>1, <2>2 DEF SelectAdded, One, StepKind
    <3> QED BY <2>4, <3>1, <3>2 DEF One
  <2> QED BY <2>3, <2>4
<1> QED BY <1>1, <1>2, <1>3, <1>4, <1>5, <1>6 DEF ClauseCounts

LEMMA SetOperationClauses ==
  ASSUME Ast.kind = "SetOperation", stack # <<>>, TypeOK
  PROVE  /\ ClauseCounts("SetOperation", "right", TRUE, "SetOperation", "sort")
         /\ ClauseCounts("SetOperation", "sort", Ast.order_by, "Sort", "limit")
         /\ ClauseCounts("SetOperation", "limit", Ast.bounds # {}, "Limit", "done")
         /\ ClauseCounts("SetOperation", "enter", FALSE, "Scan", "right")
<1>1. \A m, k : Added(Top.node, m, k) = SetOperationAdded(Ast, m, k)
  BY DEF Added, Ast
<1>2. ASSUME NEW m \in MarkRec, NEW m2 \in MarkRec, NEW k \in StepKind
      PROVE  /\ m.at = "right" /\ m2.at = "sort" =>
                  SetOperationAdded(Ast, m2, k)
                    = SetOperationAdded(Ast, m, k) + One(TRUE /\ k = "SetOperation")
             /\ m.at = "sort" /\ m2.at = "limit" =>
                  SetOperationAdded(Ast, m2, k)
                    = SetOperationAdded(Ast, m, k) + One(Ast.order_by /\ k = "Sort")
             /\ m.at = "limit" /\ m2.at = "done" =>
                  SetOperationAdded(Ast, m2, k)
                    = SetOperationAdded(Ast, m, k) + One(Ast.bounds # {} /\ k = "Limit")
             /\ m.at = "enter" /\ m2.at = "right" =>
                  SetOperationAdded(Ast, m2, k)
                    = SetOperationAdded(Ast, m, k) + One(FALSE /\ k = "Scan")
  BY RankFacts DEF SetOperationAdded, One, StepKind
<1> QED BY <1>1, <1>2 DEF ClauseCounts

\* What a SELECT has before and after its joins.
LEMMA EarlyCounts ==
  ASSUME Ast.kind = "Select", stack # <<>>, TypeOK, NEW m \in MarkRec, NEW k \in StepKind
  PROVE  /\ m.at = "enter" => Added(Top.node, m, k) = 0
         /\ m.at = "joins" =>
              Added(Top.node, m, k) = One(k = "Scan" /\ Ast.from = NoNode)
                                        + (IF k = "Join" THEN m.joined ELSE 0)
         /\ m.at = "where" =>
              Added(Top.node, m, k) = One(k = "Scan" /\ Ast.from = NoNode)
                                        + (IF k = "Join" THEN Len(Ast.joins) ELSE 0)
<1>1. Added(Top.node, m, k) = SelectAdded(Ast, m, k)
  BY DEF Added, Ast
<1>2. Len(Ast.joins) \in Nat /\ m.joined \in Nat
  BY PartsFacts DEF MarkRec
<1>3. CASE m.at = "enter"
  <2>1. Rank(m.at) = 0 /\ m.at # "joins"
    BY <1>3, RankFacts
  <2> QED BY <1>1, <1>3, <2>1 DEF SelectAdded, One, StepKind
<1>4. CASE m.at = "joins"
  <2>1. Rank(m.at) = 1
    BY <1>4, RankFacts
  <2> QED BY <1>1, <1>2, <1>4, <2>1 DEF SelectAdded, One, StepKind
<1>5. CASE m.at = "where"
  <2>1. Rank(m.at) = 2 /\ m.at # "joins" /\ m.at # "enter"
    BY <1>5, RankFacts
  <2>2. CASE k = "Join"
    <3>1. SelectAdded(Ast, m, k) = Len(Ast.joins)
      BY <2>1, <2>2 DEF SelectAdded
    <3> QED BY <1>1, <1>2, <1>5, <2>1, <2>2, <3>1 DEF One
  <2>3. CASE k # "Join"
    <3>1. SelectAdded(Ast, m, k) = One(k = "Scan" /\ Ast.from = NoNode)
      BY <2>1, <2>3 DEF SelectAdded, One, StepKind
    <3> QED BY <1>1, <1>5, <2>1, <2>3, <3>1 DEF One
  <2> QED BY <2>2, <2>3
<1> QED BY <1>3, <1>4, <1>5

\* A call goes on at another stage, having made no call it did not tell.
LEMMA GoingOn ==
  ASSUME TypeOK, stack # <<>>, NEW a \in Stage, NEW j \in Nat,
         NEW c \in Nat \cup {NoStep}, NEW m2, m2 = [at |-> a, joined |-> j, calling |-> FALSE],
         Continue(c, a, j), Fits(Top.node, m2), Counted(m2), HandsOver(m2, {})
  PROVE  \E m \in MarkRec : \E P : Marks(m, P)
<1> DEFINE f == Here(a, c, j)
<1>1. f \in Frame /\ f.node = Top.node /\ m2 = Mark(f, FALSE)
  BY FrameFacts DEF Here, Mark
<1>2. stack' = Append(Below, f) /\ ret' = NoStep
  BY DEF Continue
<1> HIDE DEF f
<1>3. m2 \in MarkRec /\ m2.at # "unseen"
  BY <1>1 DEF MarkRec, Stage
<1>4. GoesOn(m2)
  BY <1>1, <1>2 DEF GoesOn
<1>5. Marks(m2, {})
  BY <1>3, <1>4 DEF Marks
<1> QED BY <1>3, <1>5

LEMMA Leaving ==
  ASSUME TypeOK, stack # <<>>, NEW id \in Nat, id # NoStep, Return(id),
         Fits(Top.node, Done), Counted(Done), HandsOver(Done, {})
  PROVE  \E m \in MarkRec : \E P : Marks(m, P)
<1>1. Leaves(Done)
  BY DEF Leaves, Return
<1>2. Done \in MarkRec /\ Done.at # "unseen"
  BY DEF Done, MarkRec
<1>3. Marks(Done, {})
  BY <1>1, <1>2 DEF Marks
<1> QED BY <1>2, <1>3

LEMMA Entering ==
  ASSUME TypeOK, stack # <<>>, NEW a \in Stage, NEW c \in Nat \cup {NoStep},
         NEW m2, m2 = [at |-> a, joined |-> Top.joined, calling |-> TRUE],
         NEW p \in DOMAIN Parts(Ast), CallFrom(a, c, Parts(Ast)[p]),
         Fits(Top.node, m2), Counted(m2), HandsOver(m2, {p})
  PROVE  \E m \in MarkRec : \E P : Marks(m, P)
<1> DEFINE f == Here(a, c, Top.joined)
<1>1. f \in Frame /\ f.node = Top.node /\ m2 = Mark(f, TRUE)
  BY FrameFacts DEF Here, Mark
<1>2. stack' = Append(Append(Below, f), Call(Parts(Ast)[p])) /\ ret' = NoStep
  BY DEF CallFrom
<1> HIDE DEF f
<1>3. m2 \in MarkRec /\ m2.at # "unseen"
  <2>1. Top.joined \in Nat
    BY FrameFacts
  <2> QED BY <2>1 DEF MarkRec, Stage
<1>4. Enters(m2, Parts(Ast)[p])
  BY <1>1, <1>2 DEF Enters
<1>5. Marks(m2, {p})
  BY <1>3, <1>4 DEF Marks
<1> QED BY <1>3, <1>5

LEMMA GivingWay ==
  ASSUME TypeOK, stack # <<>>, NEW p \in DOMAIN Parts(Ast), TailCall(Parts(Ast)[p]),
         Fits(Top.node, Done), Counted(Done), HandsOver(Done, {p})
  PROVE  \E m \in MarkRec : \E P : Marks(m, P)
<1>1. GivesWay(Done, Parts(Ast)[p])
  BY DEF GivesWay, TailCall
<1>2. Done \in MarkRec /\ Done.at # "unseen"
  BY DEF Done, MarkRec
<1>3. Marks(Done, {p})
  BY <1>1, <1>2 DEF Marks
<1> QED BY <1>2, <1>3

\* A clause adds its step when it is there, and the next mark counts it.
LEMMA ClauseCounted ==
  ASSUME TypeOK, stack # <<>>, NEW kind, NEW at, NEW present \in BOOLEAN,
         NEW step \in StepKind, NEW next,
         ClauseCounts(kind, at, present, step, next),
         \A k \in StepKind : Added(Top.node, TopMark, k) \in Int,
         TopMark \in MarkRec, TopMark.at = at, NEW m2 \in MarkRec, m2.at = next,
         NEW d \in Seq(Nat),
         IF present THEN AddStep(step, d) ELSE UNCHANGED steps
  PROVE  Counted(m2)
<1>1. \A k \in StepKind :
        Added(Top.node, m2, k) = Added(Top.node, TopMark, k) + One(present /\ k = step)
  BY DEF ClauseCounts
<1>2. CASE present
  <2>1. \A k \in StepKind : One(present /\ k = step) = One(k = step)
    BY <1>2 DEF One
  <2> QED BY <1>1, <1>2, <2>1 DEF Counted
<1>3. CASE ~present
  <2>1. steps' = steps
    BY <1>3
  <2>2. \A k \in StepKind : Added(Top.node, m2, k) = Added(Top.node, TopMark, k) + 0
    BY <1>1, <1>3 DEF One
  <2> QED BY <2>1, <2>2 DEF Counted
<1> QED BY <1>2, <1>3

LEMMA ActionsMark ==
  ASSUME TypeOK, StageOK, NEW log, Ledger(log), Advance, ~Reject, ~Build
  PROVE  \E m \in MarkRec : \E P : Marks(m, P)
<1> DEFINE Moves == \E m \in MarkRec : \E P : Marks(m, P)
           at(a, j) == [at |-> a, joined |-> j, calling |-> FALSE]
           calling(a) == [at |-> a, joined |-> Top.joined, calling |-> TRUE]
           T == Top.node
<1>1. stack # <<>>
  BY DEF Advance, PlanSelect, PlanSetOperation, PlanTableSource, At,
         Returned, VirtualScan, CallFromSource, TakeFromSource, CallJoinSource,
         AddJoin, EndJoins, AddWhere, AddAggregate, AddHaving, AddDistinct,
         AddSort, AddLimit, AddProject, CallLeft, CallRight, AddSetOperation,
         AddSetSort, AddSetLimit, ScanSource, PlanInner, CallPivotSource,
         AddPivotProject, Clause
<1>2. /\ T \in Node
      /\ TopMark \in MarkRec /\ TopMark.at = Top.at /\ TopMark.joined = Top.joined
      /\ TopMark.calling = (ret # NoStep)
      /\ Fits(T, TopMark)
  BY <1>1, TopMarked
<1>3. /\ Top.joined \in Nat /\ Len(steps) \in Nat /\ NoStep \notin Nat
      /\ ret \in Nat \cup {NoStep} /\ Top.current \in Nat \cup {NoStep}
      /\ Top.current = NoStep <=> Top.at = "enter"
  <2>1. Top.current = NoStep <=> Top.at = "enter"
    BY <1>1, BelowFacts DEF StageOK, Top
  <2> QED BY <1>1, <2>1, FrameFacts, LenProperties DEF TypeOK, NoStep
<1>4. \A k \in StepKind : Added(T, TopMark, k) \in Int
  <2> SUFFICES ASSUME NEW k \in StepKind PROVE Added(T, TopMark, k) \in Int
    OBVIOUS
  <2>1. log[T] = TopMark
    BY <1>1, TopMarked
  <2>2. Cardinality(StepsOf(T, k)) = Added(T, TopMark, k)
    BY <1>2, <2>1 DEF Ledger, Counts
  <2>3. Cardinality(StepsOf(T, k)) \in Nat
    BY StepsCounted
  <2> QED BY <2>2, <2>3
<1>5. Stage = {"enter", "joins", "where", "aggregate", "having", "distinct",
               "sort", "limit", "project", "right"}
  BY DEF Stage
<1>6. query.ast[T] = Ast
  BY DEF Ast
<1>7. ASSUME NEW a \in Stage, NEW j \in Nat
      PROVE  at(a, j) \in MarkRec
  BY DEF MarkRec
<1>8. Done \in MarkRec /\ Done.at = "done"
  BY DEF MarkRec, Done
<1>9. \A x \in Nat : <<x>> \in Seq(Nat)
  BY LiteralIds
<1>10. \A x, y \in Nat : <<x, y>> \in Seq(Nat)
  BY LiteralIds
<1>11. ~\E p : p \in {}
  OBVIOUS
\* What the guards say.
<1>12. ASSUME NEW kind, NEW stage, At(kind, stage)
       PROVE  /\ ret = NoStep /\ TopMark.at = stage /\ Ast.kind = kind
              /\ TopMark.calling = FALSE
              /\ stage # "enter" => Top.current \in Nat
  BY <1>2, <1>3, <1>12 DEF At
<1>13. ASSUME NEW kind, NEW stage, Returned(kind, stage)
       PROVE  /\ ret \in Nat /\ TopMark.at = stage /\ Ast.kind = kind
              /\ TopMark.calling = TRUE
              /\ stage # "enter" => Top.current \in Nat
  BY <1>2, <1>3, <1>13 DEF Returned
\* At a late stage every part was handed over.
<1>14. ASSUME NEW m, m.at \notin {"unseen", "enter", "joins"},
              TopMark.at \notin {"unseen", "enter", "joins"}
       PROVE  HandsOver(m, {})
  BY <1>14 DEF HandsOver, Called
<1>15. ASSUME NEW m, m.at \in {"right", "where", "aggregate", "having", "distinct",
                               "sort", "limit", "project"}
       PROVE  Fits(T, m)
  BY <1>15 DEF Fits
<1>16. Ast.kind \notin {"Other", "Table"} => Fits(T, Done)
  BY <1>6 DEF Fits, Rejected, Done
<1>20. ASSUME NEW kind, NEW a \in Stage, NEW b \in Stage, NEW step \in StepKind, NEW p \in BOOLEAN,
              a \notin {"enter", "joins"}, b \notin {"enter", "joins"},
              Ast.kind = kind => ClauseCounts(kind, a, p, step, b),
              Clause(kind, a, p, step, b)
       PROVE  Moves
  <2>1. /\ TopMark.at = a /\ Ast.kind = kind /\ Top.current \in Nat
    BY <1>12, <1>20 DEF Clause
  <2> DEFINE m2 == at(b, Top.joined)
  <2>2. m2 \in MarkRec /\ m2.at = b
    BY <1>3, <1>7
  <2>3. /\ IF p THEN AddStep(step, <<Top.current>>) ELSE UNCHANGED steps
        /\ \E c \in Nat \cup {NoStep} : Continue(c, b, Top.joined)
    BY <1>3, <1>20, <2>1 DEF Clause, NewStep
  <2>4. HandsOver(m2, {}) /\ Fits(T, m2)
    BY <1>5, <1>14, <1>15, <1>20, <2>1, <2>2
  <2>5. Counted(m2)
    <3>1. ClauseCounts(kind, a, p, step, b) /\ <<Top.current>> \in Seq(Nat)
      BY <1>9, <1>20, <2>1
    <3> HIDE DEF m2
    <3> QED BY <1>1, <1>2, <1>4, <2>1, <2>2, <2>3, <3>1, ClauseCounted
  <2>6. PICK c \in Nat \cup {NoStep} : Continue(c, b, Top.joined)
    BY <2>3
  <2> QED BY <1>1, <1>3, <2>4, <2>5, <2>6, GoingOn
<1>21. ASSUME NEW kind, NEW a \in Stage, NEW step \in StepKind, NEW p \in BOOLEAN,
              kind \in {"Select", "SetOperation"},
              a \notin {"enter", "joins"}, At(kind, a),
              Ast.kind = kind => ClauseCounts(kind, a, p, step, "done"),
              IF p THEN AddStep(step, <<Top.current>>) /\ Return(Len(steps))
                   ELSE UNCHANGED steps /\ Return(Top.current)
       PROVE  Moves
  <2>1. /\ TopMark.at = a /\ Ast.kind = kind /\ Top.current \in Nat
    BY <1>12, <1>21
  <2>2. /\ IF p THEN AddStep(step, <<Top.current>>) ELSE UNCHANGED steps
        /\ \E id \in Nat : id # NoStep /\ Return(id)
    BY <1>3, <1>21, <2>1
  <2>3. HandsOver(Done, {}) /\ Fits(T, Done)
    BY <1>5, <1>8, <1>14, <1>16, <1>21, <2>1
  <2>4. Counted(Done)
    <3>1. ClauseCounts(kind, a, p, step, "done") /\ <<Top.current>> \in Seq(Nat)
      BY <1>9, <1>21, <2>1
    <3> QED BY <1>1, <1>2, <1>4, <1>8, <2>1, <2>2, <3>1, ClauseCounted
  <2>5. PICK id \in Nat : id # NoStep /\ Return(id)
    BY <2>2
  <2> QED BY <1>1, <2>3, <2>4, <2>5, Leaving
\* plan_select
<1>30. ASSUME VirtualScan PROVE Moves
  <2>1. /\ Ast.kind = "Select" /\ TopMark.at = "enter" /\ ~TopMark.calling
        /\ Ast.from = NoNode /\ AddStep("Scan", <<>>) /\ Continue(Len(steps), "joins", 0)
    BY <1>12, <1>30 DEF VirtualScan, NewStep
  <2> DEFINE m2 == at("joins", 0)
  <2>2. m2 \in MarkRec /\ m2.at = "joins" /\ m2.joined = 0 /\ ~m2.calling
    BY <1>5, <1>7
  <2>3. DOMAIN Parts(Ast) = 1 .. Len(Ast.joins) /\ Len(Ast.joins) \in Nat
    BY <1>1, <2>1, PartsFacts
  <2>4. HandsOver(m2, {})
    <3> SUFFICES ASSUME NEW p \in DOMAIN Parts(Ast)
                 PROVE  ~Called(m2, p) /\ ~Called(TopMark, p)
      BY DEF HandsOver
    <3>1. p \in Int /\ p >= 1
      BY <2>3
    <3> QED BY <2>1, <2>2, <3>1 DEF Called, One
  <2>5. Fits(T, m2)
    BY <1>6, <2>2, <2>3 DEF Fits, One
  <2>6. \A k \in StepKind : Added(T, m2, k) = Added(T, TopMark, k) + One(k = "Scan")
    <3> SUFFICES ASSUME NEW k \in StepKind
                 PROVE  Added(T, m2, k) = Added(T, TopMark, k) + One(k = "Scan")
      OBVIOUS
    <3>1. Added(T, TopMark, k) = 0
      BY <1>1, <1>2, <2>1, EarlyCounts
    <3>2. Added(T, m2, k) = One(k = "Scan" /\ Ast.from = NoNode) + (IF k = "Join" THEN 0 ELSE 0)
      BY <1>1, <2>1, <2>2, EarlyCounts
    <3> QED BY <2>1, <3>1, <3>2 DEF One
  <2>7. Counted(m2)
    <3>1. <<>> \in Seq(Nat) /\ "Scan" \in StepKind
      BY DEF StepKind
    <3> QED BY <2>1, <2>6, <3>1 DEF Counted
  <2> QED BY <1>1, <1>3, <1>5, <2>1, <2>4, <2>5, <2>7, GoingOn
<1>31. ASSUME CallFromSource PROVE Moves
  <2>1. /\ Ast.kind = "Select" /\ TopMark.at = "enter" /\ ~TopMark.calling
        /\ Ast.from # NoNode /\ CallFrom("enter", NoStep, Ast.from) /\ steps' = steps
    BY <1>12, <1>31 DEF CallFromSource
  <2> DEFINE m2 == calling("enter")
  <2>2. m2 \in MarkRec /\ m2.at = "enter" /\ m2.calling
    BY <1>3, <1>5 DEF MarkRec
  <2>3. /\ DOMAIN Parts(Ast) = 0 .. Len(Ast.joins) /\ Len(Ast.joins) \in Nat
        /\ Parts(Ast)[0] = Ast.from
    BY <1>1, <2>1, PartsFacts
  <2>4. 0 \in DOMAIN Parts(Ast) /\ HandsOver(m2, {0})
    BY <2>1, <2>2, <2>3 DEF HandsOver, Called
  <2>5. Fits(T, m2)
    BY <1>6, <2>1, <2>2 DEF Fits
  <2>6. Counted(m2)
    BY <1>1, <1>2, <2>1, <2>2, EarlyCounts DEF Counted
  <2> QED BY <1>1, <1>3, <1>5, <2>1, <2>3, <2>4, <2>5, <2>6, Entering
<1>32. ASSUME TakeFromSource PROVE Moves
  <2>1. /\ Ast.kind = "Select" /\ TopMark.at = "enter" /\ TopMark.calling
        /\ ret \in Nat /\ Continue(ret, "joins", 0) /\ steps' = steps
    BY <1>13, <1>32 DEF TakeFromSource
  <2> DEFINE m2 == at("joins", 0)
  <2>2. m2 \in MarkRec /\ m2.at = "joins" /\ m2.joined = 0 /\ ~m2.calling
    BY <1>5, <1>7
  <2>3. Ast.from # NoNode
    BY <1>2, <1>6, <2>1 DEF Fits
  <2>4. DOMAIN Parts(Ast) = 0 .. Len(Ast.joins) /\ Len(Ast.joins) \in Nat
    BY <1>1, <2>1, <2>3, PartsFacts
  <2>5. HandsOver(m2, {})
    <3> SUFFICES ASSUME NEW p \in DOMAIN Parts(Ast)
                 PROVE  Called(m2, p) <=> Called(TopMark, p)
      BY DEF HandsOver
    <3>1. p \in Int /\ p >= 0
      BY <2>4
    <3> QED BY <2>1, <2>2, <3>1 DEF Called, One
  <2>6. Fits(T, m2)
    BY <1>6, <2>2, <2>4 DEF Fits, One
  <2>7. \A k \in StepKind : Added(T, m2, k) = Added(T, TopMark, k)
    <3> SUFFICES ASSUME NEW k \in StepKind
                 PROVE  Added(T, m2, k) = Added(T, TopMark, k)
      OBVIOUS
    <3>1. Added(T, TopMark, k) = 0
      BY <1>1, <1>2, <2>1, EarlyCounts
    <3>2. Added(T, m2, k) = One(k = "Scan" /\ Ast.from = NoNode) + (IF k = "Join" THEN 0 ELSE 0)
      BY <1>1, <2>1, <2>2, EarlyCounts
    <3> QED BY <2>3, <3>1, <3>2 DEF One
  <2>8. Counted(m2)
    BY <2>1, <2>7 DEF Counted
  <2> QED BY <1>1, <1>3, <1>5, <2>1, <2>5, <2>6, <2>8, GoingOn
<1>33. ASSUME CallJoinSource PROVE Moves
  <2>1. /\ Ast.kind = "Select" /\ TopMark.at = "joins" /\ ~TopMark.calling
        /\ Top.joined < Len(Ast.joins) /\ Top.current \in Nat
        /\ CallFrom("joins", Top.current, Ast.joins[Top.joined + 1]) /\ steps' = steps
    <3>1. At("Select", "joins")
      BY <1>33 DEF CallJoinSource
    <3>2. Ast.kind = "Select" /\ TopMark.at = "joins" /\ ~TopMark.calling
      BY <1>12, <3>1
    <3>3. Top.current \in Nat
      BY <1>2, <1>3, <3>2
    <3> QED BY <1>33, <3>2, <3>3 DEF CallJoinSource
  <2> DEFINE m2 == calling("joins")
             p == Top.joined + 1
  <2>2. m2 \in MarkRec /\ m2.at = "joins" /\ m2.calling /\ m2.joined = TopMark.joined
    BY <1>2, <1>3, <1>5 DEF MarkRec
  <2>3. /\ DOMAIN Parts(Ast) \subseteq Int /\ p \in DOMAIN Parts(Ast)
        /\ Parts(Ast)[p] = Ast.joins[p] /\ Len(Ast.joins) \in Nat
    <3>1. /\ DOMAIN Parts(Ast) = (IF Ast.from = NoNode THEN 1 ELSE 0) .. Len(Ast.joins)
          /\ Len(Ast.joins) \in Nat
          /\ \A q \in 1 .. Len(Ast.joins) : Parts(Ast)[q] = Ast.joins[q]
      BY <1>1, <2>1, PartsFacts
    <3>2. p \in 1 .. Len(Ast.joins)
      BY <1>3, <2>1, <3>1
    <3> QED BY <3>1, <3>2
  <2>4. HandsOver(m2, {p})
    <3>1. ASSUME NEW q \in DOMAIN Parts(Ast)
          PROVE  /\ Called(m2, q) <=> q <= Top.joined + 1
                 /\ Called(TopMark, q) <=> q <= Top.joined
      BY <1>2, <1>3, <2>1, <2>2, <2>3 DEF Called, One
    <3> HIDE DEF m2
    <3>2. \A q \in DOMAIN Parts(Ast) :
            Called(m2, q) <=> (Called(TopMark, q) \/ q \in {p})
      BY <1>3, <2>3, <3>1
    <3>3. ~Called(TopMark, p)
      BY <1>3, <2>3, <3>1
    <3> HIDE DEF p
    <3> QED BY <2>3, <3>2, <3>3 DEF HandsOver
  <2>5. Fits(T, m2)
    BY <1>2, <1>3, <1>6, <2>1, <2>2, <2>3 DEF Fits, One
  <2>6. Counted(m2)
    BY <1>1, <1>2, <2>1, <2>2, EarlyCounts DEF Counted
  <2> HIDE DEF p
  <2> QED BY <1>1, <1>3, <1>5, <2>1, <2>3, <2>4, <2>5, <2>6, Entering DEF p
<1>34. ASSUME AddJoin PROVE Moves
  <2>1. /\ Ast.kind = "Select" /\ TopMark.at = "joins" /\ TopMark.calling
        /\ ret \in Nat /\ Top.current \in Nat
        /\ AddStep("Join", <<Top.current, ret>>)
        /\ Continue(Len(steps), "joins", Top.joined + 1)
    <3>1. Returned("Select", "joins")
      BY <1>34 DEF AddJoin
    <3>2. Ast.kind = "Select" /\ TopMark.at = "joins" /\ TopMark.calling /\ ret \in Nat
      BY <1>13, <3>1
    <3>3. Top.current \in Nat
      BY <1>2, <1>3, <3>2
    <3> QED BY <1>34, <3>2, <3>3 DEF AddJoin, NewStep
  <2> DEFINE m2 == at("joins", Top.joined + 1)
  <2>2. /\ m2 \in MarkRec /\ m2.at = "joins" /\ m2.joined = Top.joined + 1 /\ ~m2.calling
        /\ Top.joined + 1 \in Nat
    BY <1>3, <1>5, <1>7
  <2>3. Top.joined + 1 <= Len(Ast.joins) /\ Len(Ast.joins) \in Nat
    BY <1>1, <1>2, <1>6, <2>1, PartsFacts DEF Fits, One
  <2>4. HandsOver(m2, {})
    <3>1. \A p \in DOMAIN Parts(Ast) : p \in Int
      BY <1>1, <2>1, PartsFacts
    <3>2. ASSUME NEW p \in DOMAIN Parts(Ast)
          PROVE  Called(m2, p) <=> Called(TopMark, p)
      BY <1>2, <1>3, <2>1, <2>2, <3>1 DEF Called, One
    <3> QED BY <3>2 DEF HandsOver
  <2>5. Fits(T, m2)
    BY <1>6, <2>2, <2>3 DEF Fits, One
  <2>6. \A k \in StepKind : Added(T, m2, k) = Added(T, TopMark, k) + One(k = "Join")
    <3> SUFFICES ASSUME NEW k \in StepKind
                 PROVE  Added(T, m2, k) = Added(T, TopMark, k) + One(k = "Join")
      OBVIOUS
    <3>1. Added(T, TopMark, k) = One(k = "Scan" /\ Ast.from = NoNode)
                                   + (IF k = "Join" THEN Top.joined ELSE 0)
      BY <1>1, <1>2, <2>1, EarlyCounts
    <3>2. Added(T, m2, k) = One(k = "Scan" /\ Ast.from = NoNode)
                              + (IF k = "Join" THEN Top.joined + 1 ELSE 0)
      BY <1>1, <2>1, <2>2, EarlyCounts
    <3> QED BY <1>3, <3>1, <3>2 DEF One
  <2>7. Counted(m2)
    <3>1. <<Top.current, ret>> \in Seq(Nat) /\ "Join" \in StepKind
      BY <1>10, <2>1 DEF StepKind
    <3> QED BY <2>1, <2>6, <3>1 DEF Counted
  <2> QED BY <1>1, <1>3, <1>5, <2>1, <2>2, <2>4, <2>5, <2>7, GoingOn
<1>35. ASSUME EndJoins PROVE Moves
  <2>1. /\ Ast.kind = "Select" /\ TopMark.at = "joins" /\ ~TopMark.calling
        /\ Top.current \in Nat /\ Top.joined >= Len(Ast.joins)
        /\ Continue(Top.current, "where", Top.joined) /\ steps' = steps
    <3>1. At("Select", "joins")
      BY <1>35 DEF EndJoins
    <3>2. Ast.kind = "Select" /\ TopMark.at = "joins" /\ ~TopMark.calling
      BY <1>12, <3>1
    <3>3. Top.current \in Nat
      BY <1>2, <1>3, <3>2
    <3> QED BY <1>35, <3>2, <3>3 DEF EndJoins
  <2> DEFINE m2 == at("where", Top.joined)
  <2>2. m2 \in MarkRec /\ m2.at = "where"
    BY <1>3, <1>5, <1>7
  <2>3. /\ Top.joined = Len(Ast.joins) /\ Len(Ast.joins) \in Nat
        /\ \A p \in DOMAIN Parts(Ast) : p \in Int /\ p <= Len(Ast.joins)
    <3>1. /\ Len(Ast.joins) \in Nat
          /\ \A p \in DOMAIN Parts(Ast) : p \in Int /\ p <= Len(Ast.joins)
      BY <1>1, <2>1, PartsFacts
    <3>2. Top.joined <= Len(Ast.joins)
      BY <1>2, <1>3, <1>6, <2>1, <3>1 DEF Fits, One
    <3> QED BY <1>3, <2>1, <3>1, <3>2
  <2>4. HandsOver(m2, {})
    <3>1. ASSUME NEW p \in DOMAIN Parts(Ast)
          PROVE  Called(m2, p) /\ Called(TopMark, p)
      BY <1>2, <1>3, <2>1, <2>2, <2>3 DEF Called, One
    <3> QED BY <3>1 DEF HandsOver
  <2>5. Fits(T, m2)
    BY <1>15, <2>2
  <2>6. Counted(m2)
    BY <1>1, <1>2, <2>1, <2>2, <2>3, EarlyCounts DEF Counted
  <2> QED BY <1>1, <1>3, <1>5, <2>1, <2>4, <2>5, <2>6, GoingOn
<1>36. ASSUME Ast.kind = "Select"
       PROVE  /\ Ast.where \in BOOLEAN /\ Ast.having \in BOOLEAN
              /\ Ast.distinct \in BOOLEAN /\ Ast.order_by \in BOOLEAN
  BY <1>1, <1>36, AstFacts DEF SelectRec
<1>37. PlanSelect => Moves
  <2>1. ASSUME NEW a, NEW p, NEW step, NEW b, Clause("Select", a, p, step, b)
        PROVE  Ast.kind = "Select"
    BY <2>1 DEF Clause, At
  <2>2. ASSUME AddWhere PROVE Moves
    <3>1. Ast.kind = "Select" /\ Ast.where \in BOOLEAN
      BY <1>36, <2>1, <2>2 DEF AddWhere
    <3>2. Clause("Select", "where", Ast.where, "Filter", "aggregate")
      BY <2>2 DEF AddWhere
    <3>3. ClauseCounts("Select", "where", Ast.where, "Filter", "aggregate")
      BY <1>1, <3>1, SelectClauses
    <3>4. PICK p \in BOOLEAN : /\ Clause("Select", "where", p, "Filter", "aggregate")
                               /\ ClauseCounts("Select", "where", p, "Filter", "aggregate")
      BY <3>1, <3>2, <3>3, Zenon
    <3> QED BY <1>5, <1>20, <3>4 DEF StepKind
  <2>3. ASSUME AddAggregate PROVE Moves
    BY <1>1, <1>5, <1>20, <2>3, SelectClauses DEF AddAggregate, StepKind
  <2>4. ASSUME AddHaving PROVE Moves
    <3>1. Ast.kind = "Select" /\ Ast.having \in BOOLEAN
      BY <1>36, <2>1, <2>4 DEF AddHaving
    <3>2. Clause("Select", "having", Ast.having, "Filter", "distinct")
      BY <2>4 DEF AddHaving
    <3>3. ClauseCounts("Select", "having", Ast.having, "Filter", "distinct")
      BY <1>1, <3>1, SelectClauses
    <3>4. PICK p \in BOOLEAN : /\ Clause("Select", "having", p, "Filter", "distinct")
                               /\ ClauseCounts("Select", "having", p, "Filter", "distinct")
      BY <3>1, <3>2, <3>3, Zenon
    <3> QED BY <1>5, <1>20, <3>4 DEF StepKind
  <2>5. ASSUME AddDistinct PROVE Moves
    <3>1. Ast.kind = "Select" /\ Ast.distinct \in BOOLEAN
      BY <1>36, <2>1, <2>5 DEF AddDistinct
    <3>2. Clause("Select", "distinct", Ast.distinct, "Distinct", "sort")
      BY <2>5 DEF AddDistinct
    <3>3. ClauseCounts("Select", "distinct", Ast.distinct, "Distinct", "sort")
      BY <1>1, <3>1, SelectClauses
    <3>4. PICK p \in BOOLEAN : /\ Clause("Select", "distinct", p, "Distinct", "sort")
                               /\ ClauseCounts("Select", "distinct", p, "Distinct", "sort")
      BY <3>1, <3>2, <3>3, Zenon
    <3> QED BY <1>5, <1>20, <3>4 DEF StepKind
  <2>6. ASSUME AddSort PROVE Moves
    <3>1. Ast.kind = "Select" /\ Ast.order_by \in BOOLEAN
      BY <1>36, <2>1, <2>6 DEF AddSort
    <3>2. Clause("Select", "sort", Ast.order_by, "Sort", "limit")
      BY <2>6 DEF AddSort
    <3>3. ClauseCounts("Select", "sort", Ast.order_by, "Sort", "limit")
      BY <1>1, <3>1, SelectClauses
    <3>4. PICK p \in BOOLEAN : /\ Clause("Select", "sort", p, "Sort", "limit")
                               /\ ClauseCounts("Select", "sort", p, "Sort", "limit")
      BY <3>1, <3>2, <3>3, Zenon
    <3> QED BY <1>5, <1>20, <3>4 DEF StepKind
  <2>7. ASSUME AddLimit PROVE Moves
    BY <1>1, <1>5, <1>20, <2>7, SelectClauses DEF AddLimit, StepKind
  <2>8. ASSUME AddProject PROVE Moves
    BY <1>1, <1>5, <1>21, <2>8, SelectClauses DEF AddProject, NewStep, StepKind
  <2> QED BY <1>30, <1>31, <1>32, <1>33, <1>34, <1>35,
             <2>2, <2>3, <2>4, <2>5, <2>6, <2>7, <2>8 DEF PlanSelect
\* plan_set_operation
<1>40. ASSUME CallLeft PROVE Moves
  <2>1. /\ Ast.kind = "SetOperation" /\ TopMark.at = "enter" /\ ~TopMark.calling
        /\ CallFrom("enter", NoStep, Ast.left) /\ steps' = steps
    BY <1>12, <1>40 DEF CallLeft
  <2> DEFINE m2 == calling("enter")
  <2>2. m2 \in MarkRec /\ m2.at = "enter" /\ m2.calling
    BY <1>3, <1>5 DEF MarkRec
  <2>3. DOMAIN Parts(Ast) = {0, 1} /\ Parts(Ast)[0] = Ast.left
    BY <1>1, <2>1, PartsFacts
  <2>4. 0 \in DOMAIN Parts(Ast) /\ HandsOver(m2, {0})
    BY <2>1, <2>2, <2>3 DEF HandsOver, Called
  <2>5. Fits(T, m2)
    BY <1>6, <2>1, <2>2 DEF Fits
  <2>6. Counted(m2)
    <3>1. ASSUME NEW k \in StepKind, NEW m, m.at = "enter"
          PROVE  Added(T, m, k) = 0
      BY <1>6, <2>1, <3>1, RankFacts DEF Added, SetOperationAdded, One
    <3> QED BY <2>1, <2>2, <3>1 DEF Counted
  <2> QED BY <1>1, <1>3, <1>5, <2>1, <2>3, <2>4, <2>5, <2>6, Entering
<1>41. ASSUME CallRight PROVE Moves
  <2>1. /\ Ast.kind = "SetOperation" /\ TopMark.at = "enter" /\ TopMark.calling
        /\ ret \in Nat /\ CallFrom("right", ret, Ast.right) /\ steps' = steps
    BY <1>13, <1>41 DEF CallRight
  <2> DEFINE m2 == calling("right")
  <2>2. m2 \in MarkRec /\ m2.at = "right" /\ m2.calling
    BY <1>3, <1>5 DEF MarkRec
  <2>3. DOMAIN Parts(Ast) = {0, 1} /\ Parts(Ast)[1] = Ast.right
    BY <1>1, <2>1, PartsFacts
  <2>4. 1 \in DOMAIN Parts(Ast) /\ HandsOver(m2, {1})
    BY <2>1, <2>2, <2>3 DEF HandsOver, Called
  <2>5. Fits(T, m2)
    BY <1>15, <2>2
  <2>6. Counted(m2)
    <3>1. ASSUME NEW k \in StepKind, NEW m, m.at \in {"enter", "right"}
          PROVE  Added(T, m, k) = 0
      BY <1>6, <2>1, <3>1, RankFacts DEF Added, SetOperationAdded, One
    <3> QED BY <2>1, <2>2, <3>1 DEF Counted
  <2> QED BY <1>1, <1>3, <1>5, <2>1, <2>3, <2>4, <2>5, <2>6, Entering
<1>42. ASSUME AddSetOperation PROVE Moves
  <2>1. /\ Ast.kind = "SetOperation" /\ TopMark.at = "right"
        /\ Top.current \in Nat /\ ret \in Nat
        /\ AddStep("SetOperation", <<Top.current, ret>>)
        /\ Continue(Len(steps), "sort", 0)
    <3>1. Returned("SetOperation", "right")
      BY <1>42 DEF AddSetOperation
    <3>2. Ast.kind = "SetOperation" /\ TopMark.at = "right" /\ ret \in Nat
      BY <1>13, <3>1
    <3>3. Top.current \in Nat
      BY <1>2, <1>3, <3>2
    <3> QED BY <1>42, <3>2, <3>3 DEF AddSetOperation, NewStep
  <2> DEFINE m2 == at("sort", 0)
  <2>2. m2 \in MarkRec /\ m2.at = "sort"
    BY <1>5, <1>7
  <2>3. HandsOver(m2, {}) /\ Fits(T, m2)
    BY <1>14, <1>15, <2>1, <2>2
  <2>4. Counted(m2)
    <3>1. /\ ClauseCounts("SetOperation", "right", TRUE, "SetOperation", "sort")
          /\ <<Top.current, ret>> \in Seq(Nat) /\ "SetOperation" \in StepKind
      BY <1>1, <1>10, <2>1, SetOperationClauses DEF StepKind
    <3> HIDE DEF m2
    <3> QED BY <1>1, <1>2, <1>4, <2>1, <2>2, <3>1, ClauseCounted
  <2> QED BY <1>1, <1>3, <1>5, <2>1, <2>3, <2>4, GoingOn
<1>43. ASSUME AddSetSort PROVE Moves
  <2>1. Ast.kind = "SetOperation"
    BY <1>43 DEF AddSetSort, Clause, At
  <2>2. Ast.order_by \in BOOLEAN
    BY <1>1, <2>1, AstFacts DEF SetOperationRec
  <2>3. Clause("SetOperation", "sort", Ast.order_by, "Sort", "limit")
    BY <1>43 DEF AddSetSort
  <2>4. ClauseCounts("SetOperation", "sort", Ast.order_by, "Sort", "limit")
    BY <1>1, <2>1, SetOperationClauses
  <2>5. PICK p \in BOOLEAN : /\ Clause("SetOperation", "sort", p, "Sort", "limit")
                             /\ ClauseCounts("SetOperation", "sort", p, "Sort", "limit")
    BY <2>2, <2>3, <2>4, Zenon
  <2> QED BY <1>5, <1>20, <2>5 DEF StepKind
<1>44. ASSUME AddSetLimit PROVE Moves
  BY <1>1, <1>5, <1>21, <1>44, SetOperationClauses DEF AddSetLimit, NewStep, StepKind
<1>45. PlanSetOperation => Moves
  BY <1>40, <1>41, <1>42, <1>43, <1>44 DEF PlanSetOperation
\* plan_table_source
<1>50. ASSUME NEW m \in MarkRec, NEW k \in StepKind,
              Ast.kind \notin {"Select", "SetOperation"}
       PROVE  /\ m.at = "enter" => Added(T, m, k) = 0
              /\ m.at = "done" => Added(T, m, k) = Wanted(T, k)
  BY <1>6, <1>50 DEF Added
<1>51. ASSUME ScanSource PROVE Moves
  <2>1. /\ Ast.kind \in {"Table", "TableFunction", "Unnest"} /\ TopMark.at = "enter"
        /\ Ast.kind = "Table" => ~Ast.temporal
        /\ AddStep("Scan", <<>>) /\ Return(Len(steps))
    <3>1. \/ At("Table", "enter") /\ ~Ast.temporal
          \/ At("TableFunction", "enter") \/ At("Unnest", "enter")
      BY <1>51 DEF ScanSource
    <3>2. /\ Ast.kind \in {"Table", "TableFunction", "Unnest"} /\ TopMark.at = "enter"
          /\ Ast.kind = "Table" => ~Ast.temporal
      <4>1. CASE At("Table", "enter") /\ ~Ast.temporal
        BY <1>12, <4>1
      <4>2. CASE At("TableFunction", "enter")
        <5>1. Ast.kind = "TableFunction" /\ TopMark.at = "enter"
          BY <1>12, <4>2
        <5> QED BY <5>1
      <4>3. CASE At("Unnest", "enter")
        <5>1. Ast.kind = "Unnest" /\ TopMark.at = "enter"
          BY <1>12, <4>3
        <5> QED BY <5>1
      <4> QED BY <3>1, <4>1, <4>2, <4>3
    <3> QED BY <1>51, <3>2 DEF ScanSource, NewStep
  <2>2. DOMAIN Parts(Ast) = {}
    BY <1>1, <2>1, PartsFacts
  <2>3. HandsOver(Done, {})
    BY <2>2 DEF HandsOver
  <2>4. Fits(T, Done)
    BY <1>6, <1>8, <2>1 DEF Fits, Rejected
  <2>5. \A k \in StepKind : Added(T, Done, k) = Added(T, TopMark, k) + One(k = "Scan")
    <3> SUFFICES ASSUME NEW k \in StepKind
                 PROVE  Added(T, Done, k) = Added(T, TopMark, k) + One(k = "Scan")
      OBVIOUS
    <3>1. Added(T, TopMark, k) = 0 /\ Added(T, Done, k) = Wanted(T, k)
      BY <1>2, <1>8, <1>50, <2>1
    <3>2. Wanted(T, k) = One(k = "Scan")
      BY <1>6, <2>1 DEF Wanted
    <3> QED BY <3>1, <3>2 DEF One
  <2>6. Counted(Done)
    <3>1. <<>> \in Seq(Nat) /\ "Scan" \in StepKind
      BY DEF StepKind
    <3> QED BY <2>1, <2>5, <3>1 DEF Counted
  <2>7. Len(steps) # NoStep
    BY <1>3
  <2> QED BY <1>1, <1>3, <2>1, <2>3, <2>4, <2>6, <2>7, Leaving
<1>52. ASSUME PlanInner PROVE Moves
  <2>1. /\ Ast.kind \in {"Subquery", "Lateral"} /\ TopMark.at = "enter" /\ ~TopMark.calling
        /\ TailCall(Ast.source) /\ steps' = steps
    BY <1>12, <1>52 DEF PlanInner
  <2>2. DOMAIN Parts(Ast) = {0} /\ Parts(Ast)[0] = Ast.source
    BY <1>1, <2>1, PartsFacts
  <2>3. 0 \in DOMAIN Parts(Ast) /\ HandsOver(Done, {0})
    BY <1>8, <2>1, <2>2 DEF HandsOver, Called
  <2>4. Fits(T, Done)
    BY <1>16, <2>1
  <2>5. \A k \in StepKind : Added(T, Done, k) = Added(T, TopMark, k)
    <3> SUFFICES ASSUME NEW k \in StepKind
                 PROVE  Added(T, Done, k) = Added(T, TopMark, k)
      OBVIOUS
    <3>1. Added(T, TopMark, k) = 0 /\ Added(T, Done, k) = Wanted(T, k)
      BY <1>2, <1>8, <1>50, <2>1
    <3>2. Wanted(T, k) = 0
      BY <1>6, <2>1 DEF Wanted
    <3> QED BY <3>1, <3>2
  <2>6. Counted(Done)
    BY <2>1, <2>5 DEF Counted
  <2> QED BY <1>1, <2>1, <2>2, <2>3, <2>4, <2>6, GivingWay
<1>53. ASSUME CallPivotSource PROVE Moves
  <2>1. /\ Ast.kind = "Pivot" /\ TopMark.at = "enter" /\ ~TopMark.calling
        /\ CallFrom("enter", NoStep, Ast.source) /\ steps' = steps
    BY <1>12, <1>53 DEF CallPivotSource
  <2> DEFINE m2 == calling("enter")
  <2>2. m2 \in MarkRec /\ m2.at = "enter" /\ m2.calling
    BY <1>3, <1>5 DEF MarkRec
  <2>3. DOMAIN Parts(Ast) = {0} /\ Parts(Ast)[0] = Ast.source
    BY <1>1, <2>1, PartsFacts
  <2>4. 0 \in DOMAIN Parts(Ast) /\ HandsOver(m2, {0})
    BY <2>1, <2>2, <2>3 DEF HandsOver, Called
  <2>5. Fits(T, m2)
    BY <1>6, <2>1, <2>2 DEF Fits
  <2>6. Counted(m2)
    BY <1>2, <1>50, <2>1, <2>2 DEF Counted
  <2> QED BY <1>1, <1>3, <1>5, <2>1, <2>3, <2>4, <2>5, <2>6, Entering
<1>54. ASSUME AddPivotProject PROVE Moves
  <2>1. /\ Ast.kind = "Pivot" /\ TopMark.at = "enter" /\ TopMark.calling
        /\ ret \in Nat /\ AddStep("Project", <<ret>>) /\ Return(Len(steps))
    BY <1>13, <1>54 DEF AddPivotProject, NewStep
  <2>2. DOMAIN Parts(Ast) = {0}
    BY <1>1, <2>1, PartsFacts
  <2>3. HandsOver(Done, {})
    BY <1>8, <2>1, <2>2 DEF HandsOver, Called
  <2>4. Fits(T, Done)
    BY <1>16, <2>1
  <2>5. \A k \in StepKind : Added(T, Done, k) = Added(T, TopMark, k) + One(k = "Project")
    <3> SUFFICES ASSUME NEW k \in StepKind
                 PROVE  Added(T, Done, k) = Added(T, TopMark, k) + One(k = "Project")
      OBVIOUS
    <3>1. Added(T, TopMark, k) = 0 /\ Added(T, Done, k) = Wanted(T, k)
      BY <1>2, <1>8, <1>50, <2>1
    <3>2. Wanted(T, k) = One(k = "Project")
      BY <1>6, <2>1 DEF Wanted
    <3> QED BY <3>1, <3>2 DEF One
  <2>6. Counted(Done)
    <3>1. <<ret>> \in Seq(Nat) /\ "Project" \in StepKind
      BY <1>9, <2>1 DEF StepKind
    <3> QED BY <2>1, <2>5, <3>1 DEF Counted
  <2>7. Len(steps) # NoStep
    BY <1>3
  <2> QED BY <1>1, <1>3, <2>1, <2>3, <2>4, <2>6, <2>7, Leaving
<1>55. PlanTableSource => Moves
  BY <1>51, <1>52, <1>53, <1>54 DEF PlanTableSource
<1> QED BY <1>37, <1>45, <1>55 DEF Advance

-----------------------------------------------------------------------------
(* The invariant. *)

\* At the start only the root has a mark.
LEMMA CoverInit ==
  ASSUME Init
  PROVE  CInv
<1>0. TypeOK /\ stack # <<>>
  BY InitInv DEF IInv, Init
<1>1. PICK r : r = query.root
  OBVIOUS
<1>2. r \in query.nodes /\ r \in Node /\ query.nodes \subseteq Node
  BY <1>0, <1>1, Owned
<1> DEFINE new == [n \in Node |-> IF n = r THEN Entered ELSE Unseen]
<1>3. /\ Entered \in MarkRec /\ Unseen \in MarkRec
      /\ Entered.at = "enter" /\ Unseen.at = "unseen"
  BY DEF Entered, Unseen, MarkRec, Stage
<1>4. /\ new \in [Node -> MarkRec] /\ new[r] = Entered
      /\ \A n \in Node : n # r => new[n] = Unseen
  BY <1>2, <1>3
<1> HIDE DEF new
<1>5. Calls(new)
  <2>1. /\ stack = <<Call(r)>> /\ Len(stack) = 1 /\ DOMAIN stack = {1} /\ ret = NoStep
        /\ stack[1] = Call(r) /\ Call(r).node = r
    BY <1>1 DEF Init, Call
  <2>2. Mark(Call(r), FALSE) = Entered
    BY DEF Mark, Call, Entered
  <2>3. Waiting(1) = FALSE
    BY <2>1 DEF Waiting
  <2> QED BY <1>2, <1>3, <1>4, <2>1, <2>2, <2>3 DEF Calls
<1>6. Visits(new)
  <2>1. ASSUME NEW n \in query.nodes, NEW p \in DOMAIN Parts(query.ast[n])
        PROVE  new[Parts(query.ast[n])[p]].at # "unseen" <=> Called(new[n], p)
    <3>1. /\ Parts(query.ast[n])[p] # r
          /\ Parts(query.ast[n])[p] \in Node
      BY <1>0, <1>1, Owned DEF Whole
    <3>2. ~Called(new[n], p)
      BY <1>2, <1>3, <1>4, NothingYet
    <3> QED BY <1>3, <1>4, <3>1, <3>2
  <2> QED BY <1>1, <1>2, <1>3, <1>4, <2>1 DEF Visits
<1>7. /\ Counts(new)
      /\ \A n \in Node : Fits(n, new[n])
  <2>1. \A n \in Node : new[n] \in MarkRec /\ (new[n].at = "unseen" \/ new[n] = Entered)
    BY <1>3, <1>4
  <2>2. \A n, k : StepsOf(n, k) = {}
    BY DEF StepsOf, Init
  <2>3. \A n, k : Cardinality(StepsOf(n, k)) = 0
    BY <2>2, FS_EmptySet
  <2>4. \A n \in Node : /\ \A k \in StepKind : Added(n, new[n], k) = 0
                        /\ Fits(n, new[n])
    BY <2>1, NothingYet
  <2> QED BY <2>3, <2>4 DEF Counts
<1>8. Ledger(new)
  BY <1>4, <1>5, <1>6, <1>7 DEF Ledger
<1>9. FailsClosed /\ CoversQuery
  BY DEF Init, FailsClosed, CoversQuery
<1> QED BY <1>8, <1>9 DEF CInv

\* When no call is left the ledger covers the statement.
LEMMA CoverBuild ==
  ASSUME TypeOK, stack = <<>>, NEW log, Ledger(log)
  PROVE  /\ \A n \in query.nodes : ~Rejected(n)
         /\ \A n \in Node, kind \in StepKind :
              Cardinality(StepsOf(n, kind)) = IF n \in query.nodes THEN Wanted(n, kind) ELSE 0
<1> DEFINE V == {n \in query.nodes : log[n].at # "unseen"}
<1>1. query.nodes \subseteq Node /\ log \in [Node -> MarkRec]
  BY Owned DEF Ledger
<1>2. \A n \in Node : log[n].at \in {"unseen", "done"}
  BY DEF Ledger, Calls
<1>3. V = query.nodes
  <2>1. query.root \in V
    BY Owned DEF Ledger, Visits
  <2>2. ASSUME NEW n \in V, NEW p \in DOMAIN Parts(query.ast[n])
        PROVE  Parts(query.ast[n])[p] \in V
    <3>1. log[n].at = "done"
      BY <1>1, <1>2
    <3>2. Called(log[n], p)
      BY <3>1 DEF Called
    <3>3. Parts(query.ast[n])[p] \in query.nodes
      BY Owned DEF Whole
    <3> QED BY <3>2, <3>3 DEF Ledger, Visits
  <2>3. Whole(query, V) /\ V \in SUBSET query.nodes
    BY <2>2 DEF Whole
  <2> HIDE DEF V
  <2> QED BY <2>1, <2>3, Owned
<1>4. \A n \in query.nodes : log[n] \in MarkRec /\ log[n].at = "done"
  BY <1>1, <1>2, <1>3
<1>5. \A n \in query.nodes : ~Rejected(n)
  BY <1>1, <1>4 DEF Ledger, Fits
<1>6. ASSUME NEW n \in Node, NEW kind \in StepKind
      PROVE  Cardinality(StepsOf(n, kind)) = IF n \in query.nodes THEN Wanted(n, kind) ELSE 0
  <2>1. Cardinality(StepsOf(n, kind)) = Added(n, log[n], kind)
    BY DEF Ledger, Counts
  <2>2. CASE n \in query.nodes
    <3>1. log[n].at = "done" /\ Rank(log[n].at) = 9
      BY <1>4, <2>2, RankFacts
    <3>2. query.ast[n].kind = "Select" =>
            SelectAdded(query.ast[n], log[n], kind) = Wanted(n, kind)
      BY <3>1 DEF SelectAdded, Wanted, One, StepKind
    <3>3. query.ast[n].kind = "SetOperation" =>
            SetOperationAdded(query.ast[n], log[n], kind) = Wanted(n, kind)
      BY <3>1 DEF SetOperationAdded, Wanted, One, StepKind
    <3>4. Added(n, log[n], kind) = Wanted(n, kind)
      BY <3>1, <3>2, <3>3 DEF Added
    <3> QED BY <2>1, <2>2, <3>4
  <2>3. CASE n \notin query.nodes
    <3>1. log[n] = Unseen /\ Unseen.at = "unseen" /\ Unseen \in MarkRec
      BY <1>1, <2>3 DEF Ledger, Visits, Unseen, MarkRec
    <3>2. Added(n, log[n], kind) = 0
      BY <3>1, NothingYet
    <3> QED BY <2>1, <2>3, <3>2
  <2> QED BY <2>2, <2>3
<1> QED BY <1>5, <1>6

\* A refused part is one of the statement's.
LEMMA CoverReject ==
  ASSUME TypeOK, CInv, Reject
  PROVE  CInv'
<1>1. /\ outcome = "running" /\ stack # <<>> /\ Rejected(Top.node)
  BY DEF Reject, At, Rejected, Ast
<1>2. PICK log : Ledger(log)
  BY <1>1 DEF CInv
<1>3. Top.node \in query.nodes
  BY <1>1, <1>2, TopMarked
<1>4. outcome' = "err" /\ steps' = <<>> /\ query' = query
  BY DEF Reject
<1>5. \E n \in query.nodes : Rejected(n)'
  BY <1>1, <1>3, <1>4 DEF Rejected
<1>6. FailsClosed' /\ CoversQuery'
  BY <1>4, <1>5 DEF FailsClosed, CoversQuery
<1> QED BY <1>4, <1>6 DEF CInv

LEMMA CoverStep ==
  ASSUME TypeOK, StageOK, CInv, [Next]_vars
  PROVE  CInv'
<1>1. CASE Reject
  BY <1>1, CoverReject
<1>2. CASE Build
  <2>1. /\ outcome = "running" /\ stack = <<>> /\ outcome' = "ok"
        /\ query' = query /\ steps' = steps
    BY <1>2 DEF Build
  <2>2. PICK log : Ledger(log)
    BY <2>1 DEF CInv
  <2>3. /\ \A n \in query.nodes : ~Rejected(n)
        /\ \A n \in Node, kind \in StepKind :
             Cardinality(StepsOf(n, kind)) = IF n \in query.nodes THEN Wanted(n, kind) ELSE 0
    BY <2>1, <2>2, CoverBuild
  <2>4. FailsClosed'
    BY <2>1, <2>3 DEF FailsClosed, Rejected
  <2>5. CoversQuery'
    BY <2>1, <2>3 DEF CoversQuery, StepsOf, Wanted
  <2> QED BY <2>1, <2>4, <2>5 DEF CInv
<1>3. CASE Advance /\ ~Reject /\ ~Build
  <2>1. Running
    BY <1>3 DEF Advance, PlanSelect, PlanSetOperation, PlanTableSource, Running, At,
         Returned, VirtualScan, CallFromSource, TakeFromSource, CallJoinSource,
         AddJoin, EndJoins, AddWhere, AddAggregate, AddHaving, AddDistinct,
         AddSort, AddLimit, AddProject, CallLeft, CallRight, AddSetOperation,
         AddSetSort, AddSetLimit, ScanSource, PlanInner, CallPivotSource,
         AddPivotProject, Clause
  <2>2. outcome = "running" /\ outcome' = outcome /\ query' = query /\ stack # <<>>
    BY <2>1 DEF Running, Keep
  <2>3. PICK log : Ledger(log)
    BY <2>2 DEF CInv
  <2>4. PICK m2 \in MarkRec : \E P : Marks(m2, P)
    BY <1>3, <2>3, ActionsMark
  <2>5. PICK P : Marks(m2, P)
    BY <2>4
  <2>6. \E new : Ledger(new)'
    BY <2>2, <2>3, <2>5, LedgerKept
  <2>7. FailsClosed' /\ CoversQuery'
    BY <2>2 DEF FailsClosed, CoversQuery
  <2> QED BY <2>6, <2>7 DEF CInv
<1>4. CASE UNCHANGED vars
  <2>1. /\ query' = query /\ steps' = steps /\ stack' = stack /\ ret' = ret
        /\ outcome' = outcome
    BY <1>4 DEF vars
  <2>2. \A log : Ledger(log) => Ledger(log)'
    BY <2>1 DEF Ledger, Calls, Visits, Counts, Waiting, StepsOf, Added, Wanted, Fits, Rejected
  <2>3. FailsClosed' = FailsClosed /\ CoversQuery' = CoversQuery
    BY <2>1 DEF FailsClosed, CoversQuery, Rejected, Wanted
  <2> QED BY <2>1, <2>2, <2>3 DEF CInv
<1> QED BY <1>1, <1>2, <1>3, <1>4 DEF Next, Finished

\* In every reachable state of the planner a ledger accounts for each node of
\* the statement, or the outcome is as FailsClosed and CoversQuery say.
THEOREM Accounted == Spec => []CInv
<1>1. Init => CInv
  BY CoverInit
<1>2. IInv /\ CInv /\ [Next]_vars => CInv'
  BY CoverStep DEF IInv
<1> QED BY <1>1, <1>2, Inductive, PTL DEF Spec

\* A statement with an unsupported part anywhere inside gives an error and no
\* plan, and no other statement does (plan_statement and plan_table_source
\* refuse with `?` from any depth).
THEOREM AlwaysFailsClosed == Spec => []FailsClosed
<1>1. CInv => FailsClosed
  BY DEF CInv
<1> QED BY <1>1, Accounted, PTL

\* A finished plan has the steps each node of the statement asks for, at any
\* depth, and no other step (PlanBuilder::steps).
THEOREM AlwaysCoversQuery == Spec => []CoversQuery
<1>1. CInv => CoversQuery
  BY DEF CInv
<1> QED BY <1>1, Accounted, PTL

=============================================================================
