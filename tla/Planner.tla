------------------------------ MODULE Planner ------------------------------
(***************************************************************************)
(* The logical planner, src/src/planner/mod.rs.                            *)
(*                                                                         *)
(* `plan` walks a statement by recursive descent (plan_statement,          *)
(* plan_select, plan_set_operation, plan_table_source) and appends the     *)
(* steps it needs to one vector, PlanBuilder.steps; every call returns the *)
(* StepId of the step that produces the rows of what it planned.  The      *)
(* recursion is modelled by its call stack: one frame per active call, and *)
(* a register `ret` for the StepId a call has just returned.               *)
(*                                                                         *)
(* The statement is an arena of AST nodes, `query.ast`, in which a Box is  *)
(* the node it points to; `query.nodes` are those the statement owns.  Of  *)
(* an expression only its presence is kept, and of a SELECT item whether   *)
(* has_aggregates counts it.                                               *)
(***************************************************************************)
EXTENDS Integers, Sequences, FiniteSets

CONSTANTS
  Node,       \* the nodes of the AST arena
  NoNode,     \* Option::None, where the AST has an optional node
  Queries     \* the statements handed to `plan`

NoStep == -1  \* no StepId: a call that has not produced a step yet

SelectRec ==
  [kind : {"Select"}, from : Node \cup {NoNode}, joins : Seq(Node),
   where : BOOLEAN, group_by : BOOLEAN, having : BOOLEAN, distinct : BOOLEAN,
   order_by : BOOLEAN, bounds : SUBSET {"limit", "offset", "fetch_first"},
   columns : Seq({"wildcard", "scalar", "aggregate"})]

SetOperationRec ==
  [kind : {"SetOperation"}, left : Node, right : Node,
   order_by : BOOLEAN, bounds : SUBSET {"limit", "offset"}]

\* Statements the planner rejects: INSERT, CREATE TABLE, ...
OtherRec == [kind : {"Other"}]

TableSourceRec ==
       [kind : {"Table"}, temporal : BOOLEAN]
  \cup [kind : {"TableFunction", "Unnest"}]
  \cup [kind : {"Subquery", "Lateral", "Pivot"}, source : Node]

NodeRec == SelectRec \cup SetOperationRec \cup OtherRec \cup TableSourceRec

ASSUME QueriesAssumption ==
  /\ NoNode \notin Node
  /\ Queries \subseteq [ast : [Node -> NodeRec], root : Node, nodes : SUBSET Node]

\* The nodes a node holds, each by the place it has in its holder: FROM is 0
\* and the joins follow, the left operand is 0 and the right one 1.
Parts(a) ==
  CASE a.kind = "Select" ->
         [p \in (IF a.from = NoNode THEN 1 ELSE 0) .. Len(a.joins) |->
            IF p = 0 THEN a.from ELSE a.joins[p]]
    [] a.kind = "SetOperation" ->
         [p \in {0, 1} |-> IF p = 0 THEN a.left ELSE a.right]
    [] a.kind \in {"Subquery", "Lateral", "Pivot"} -> [p \in {0} |-> a.source]
    [] OTHER -> <<>>

\* V has every part of its members.
Whole(q, V) ==
  \A n \in V : \A p \in DOMAIN Parts(q.ast[n]) : Parts(q.ast[n])[p] \in V

\* A statement owns its parts through Boxes: `nodes` is the root and what it
\* holds, directly or not, and nothing else; a node has one holder, the root
\* none.
ASSUME TreesAssumption ==
  \A q \in Queries :
    /\ q.root \in q.nodes
    /\ Whole(q, q.nodes)
    /\ \A V \in SUBSET q.nodes : q.root \in V /\ Whole(q, V) => V = q.nodes
    /\ \A n \in q.nodes : \A p \in DOMAIN Parts(q.ast[n]) :
         /\ Parts(q.ast[n])[p] # q.root
         /\ \A m \in q.nodes : \A r \in DOMAIN Parts(q.ast[m]) :
              Parts(q.ast[m])[r] = Parts(q.ast[n])[p] => m = n /\ r = p

VARIABLES
  query,      \* the statement being planned
  steps,      \* PlanBuilder.steps; StepId(i) is steps[i + 1]
  stack,      \* the active plan_* calls, the innermost last
  ret,        \* the StepId the last call returned, until its caller takes it
  outcome,    \* "running", then "ok" or "err"
  root        \* Plan.root once the plan is built

vars == <<query, steps, stack, ret, outcome, root>>

StepKind == {"Scan", "Join", "Filter", "Aggregate", "Distinct", "Sort",
             "Limit", "Project", "SetOperation"}

\* A step: its kind, the AST node it comes from and its dependencies.
StepRec == [kind : StepKind, of : Node, dependencies : Seq(Nat)]

Stage == {"enter", "joins", "where", "aggregate", "having", "distinct",
          "sort", "limit", "project", "right"}

\* A call: what it plans, how far it is, its local `current` (`left` in
\* plan_set_operation) and the number of joins it has planned.
Frame == [node : Node, at : Stage, current : Nat \cup {NoStep}, joined : Nat]

Call(n) == [node |-> n, at |-> "enter", current |-> NoStep, joined |-> 0]

Top == stack[Len(stack)]
Ast == query.ast[Top.node]
Below == SubSeq(stack, 1, Len(stack) - 1)

Init ==
  /\ query \in Queries
  /\ steps = <<>>
  /\ stack = <<Call(query.root)>>
  /\ ret = NoStep
  /\ outcome = "running"
  /\ root = NoStep

-----------------------------------------------------------------------------
(* Moves every action is made of.                                          *)

AddStep(kind, dependencies) ==
  steps' = Append(steps, [kind |-> kind, of |-> Top.node,
                          dependencies |-> dependencies])

\* Mutant of NewStep: the id is taken after the push.
NewStepAfterPush == Len(steps) + 1

NewStep == Len(steps)

\* The innermost call at another stage, with another current step.
Here(at, current, joined) ==
  [node |-> Top.node, at |-> at, current |-> current, joined |-> joined]

\* Go on in the innermost call.
Continue(current, at, joined) ==
  stack' = Append(Below, Here(at, current, joined)) /\ ret' = NoStep

\* Call plan_* for node n from stage `at` of the innermost call.
CallFrom(at, current, n) ==
  /\ stack' = Append(Append(Below, Here(at, current, Top.joined)), Call(n))
  /\ ret' = NoStep

\* A call whose body is another call: `self.plan_statement(query)`.
TailCall(n) == stack' = Append(Below, Call(n)) /\ ret' = NoStep

Return(id) == stack' = Below /\ ret' = id

\* The innermost call plans a node of a kind and is at a stage, and no call
\* it made has returned to it.
At(kind, stage) ==
  /\ outcome = "running"
  /\ stack # <<>>
  /\ ret = NoStep
  /\ Ast.kind = kind
  /\ Top.at = stage

\* The same, when the call it made at that stage has returned `ret`.
Returned(kind, stage) ==
  /\ outcome = "running"
  /\ stack # <<>>
  /\ ret # NoStep
  /\ Ast.kind = kind
  /\ Top.at = stage

Keep == UNCHANGED <<query, outcome, root>>

\* An optional clause: a step over `current` when the clause is there.
Clause(kind, stage, present, step, next) ==
  /\ At(kind, stage)
  /\ IF present
     THEN /\ AddStep(step, <<Top.current>>)
          /\ Continue(NewStep, next, Top.joined)
     ELSE /\ UNCHANGED steps
          /\ Continue(Top.current, next, Top.joined)
  /\ Keep

-----------------------------------------------------------------------------
(* plan_select *)

\* SELECT without FROM: a virtual one-row scan.
VirtualScan ==
  /\ At("Select", "enter")
  /\ Ast.from = NoNode
  /\ AddStep("Scan", <<>>)
  /\ Continue(NewStep, "joins", 0)
  /\ Keep

CallFromSource ==
  /\ At("Select", "enter")
  /\ Ast.from # NoNode
  /\ CallFrom("enter", NoStep, Ast.from)
  /\ UNCHANGED steps /\ Keep

TakeFromSource ==
  /\ Returned("Select", "enter")
  /\ Continue(ret, "joins", 0)
  /\ UNCHANGED steps /\ Keep

CallJoinSource ==
  /\ At("Select", "joins")
  /\ Top.joined < Len(Ast.joins)
  /\ CallFrom("joins", Top.current, Ast.joins[Top.joined + 1])
  /\ UNCHANGED steps /\ Keep

\* Mutants of AddJoin: `current` is not moved to the join; the right input is
\* not read.
AddJoinKeepingCurrent ==
  /\ Returned("Select", "joins")
  /\ AddStep("Join", <<Top.current, ret>>)
  /\ Continue(Top.current, "joins", Top.joined + 1)
  /\ Keep

AddJoinLeftOnly ==
  /\ Returned("Select", "joins")
  /\ AddStep("Join", <<Top.current>>)
  /\ Continue(NewStep, "joins", Top.joined + 1)
  /\ Keep

AddJoin ==
  /\ Returned("Select", "joins")
  /\ AddStep("Join", <<Top.current, ret>>)
  /\ Continue(NewStep, "joins", Top.joined + 1)
  /\ Keep

EndJoins ==
  /\ At("Select", "joins")
  /\ Top.joined >= Len(Ast.joins)
  /\ Continue(Top.current, "where", Top.joined)
  /\ UNCHANGED steps /\ Keep

has_aggregates(items) == \E i \in DOMAIN items : items[i] = "aggregate"

AddWhere     == Clause("Select", "where", Ast.where, "Filter", "aggregate")
AddAggregate == Clause("Select", "aggregate",
                       Ast.group_by \/ has_aggregates(Ast.columns),
                       "Aggregate", "having")
AddHaving    == Clause("Select", "having", Ast.having, "Filter", "distinct")
AddDistinct  == Clause("Select", "distinct", Ast.distinct, "Distinct", "sort")
AddSort      == Clause("Select", "sort", Ast.order_by, "Sort", "limit")

\* Mutant of AddLimit: FETCH FIRST is forgotten.
AddLimitNoFetch == Clause("Select", "limit",
                          Ast.bounds \cap {"limit", "offset"} # {},
                          "Limit", "project")

AddLimit     == Clause("Select", "limit", Ast.bounds # {}, "Limit", "project")

\* Mutant of AddProject: the call returns the id from before the step.
AddProjectReturningInput ==
  /\ At("Select", "project")
  /\ IF Ast.columns # <<>>
     THEN AddStep("Project", <<Top.current>>)
     ELSE UNCHANGED steps
  /\ Return(Top.current)
  /\ Keep

\* select_items_to_projections maps every item, so the step is missing only
\* when the SELECT list is empty.  The call then returns.
AddProject ==
  /\ At("Select", "project")
  /\ IF Ast.columns # <<>>
     THEN AddStep("Project", <<Top.current>>) /\ Return(NewStep)
     ELSE UNCHANGED steps /\ Return(Top.current)
  /\ Keep

-----------------------------------------------------------------------------
(* plan_set_operation *)

CallLeft ==
  /\ At("SetOperation", "enter")
  /\ CallFrom("enter", NoStep, Ast.left)
  /\ UNCHANGED steps /\ Keep

\* Mutant of CallRight: the id of the left operand is lost.
CallRightDroppingLeft ==
  /\ Returned("SetOperation", "enter")
  /\ CallFrom("right", NoStep, Ast.right)
  /\ UNCHANGED steps /\ Keep

CallRight ==
  /\ Returned("SetOperation", "enter")
  /\ CallFrom("right", ret, Ast.right)
  /\ UNCHANGED steps /\ Keep

AddSetOperation ==
  /\ Returned("SetOperation", "right")
  /\ AddStep("SetOperation", <<Top.current, ret>>)
  /\ Continue(NewStep, "sort", 0)
  /\ Keep

AddSetSort == Clause("SetOperation", "sort", Ast.order_by, "Sort", "limit")

AddSetLimit ==
  /\ At("SetOperation", "limit")
  /\ IF Ast.bounds # {}
     THEN AddStep("Limit", <<Top.current>>) /\ Return(NewStep)
     ELSE UNCHANGED steps /\ Return(Top.current)
  /\ Keep

-----------------------------------------------------------------------------
(* plan_table_source, and the dispatch of plan_statement *)

\* Mutant of ScanSource: the temporal clause is not looked at.
ScanAnySource ==
  /\ \/ At("Table", "enter")
     \/ At("TableFunction", "enter")
     \/ At("Unnest", "enter")
  /\ AddStep("Scan", <<>>)
  /\ Return(NewStep)
  /\ Keep

\* A table, a table function or UNNEST is a scan without dependencies.
ScanSource ==
  /\ \/ At("Table", "enter") /\ ~Ast.temporal
     \/ At("TableFunction", "enter")
     \/ At("Unnest", "enter")
  /\ AddStep("Scan", <<>>)
  /\ Return(NewStep)
  /\ Keep

\* Mutant of PlanInner: the call plans its own argument again.
PlanInnerAgain ==
  /\ At("Subquery", "enter") \/ At("Lateral", "enter")
  /\ TailCall(Top.node)
  /\ UNCHANGED steps /\ Keep

\* A derived table and LATERAL are whatever they contain; the alias is lost.
PlanInner ==
  /\ At("Subquery", "enter") \/ At("Lateral", "enter")
  /\ TailCall(Ast.source)
  /\ UNCHANGED steps /\ Keep

CallPivotSource ==
  /\ At("Pivot", "enter")
  /\ CallFrom("enter", NoStep, Ast.source)
  /\ UNCHANGED steps /\ Keep

AddPivotProject ==
  /\ Returned("Pivot", "enter")
  /\ AddStep("Project", <<ret>>)
  /\ Return(NewStep)
  /\ Keep

\* Statements other than queries and tables with a temporal clause are
\* refused; `?` leaves every call and the builder is dropped.
Reject ==
  /\ \/ At("Other", "enter")
     \/ At("Table", "enter") /\ Ast.temporal
  /\ outcome' = "err"
  /\ steps' = <<>> /\ stack' = <<>> /\ ret' = NoStep
  /\ UNCHANGED <<query, root>>

\* PlanBuilder::build takes the last step for the root, not the StepId that
\* plan_statement returned.
Build ==
  /\ outcome = "running" /\ stack = <<>>
  /\ outcome' = "ok"
  /\ root' = IF steps = <<>> THEN 0 ELSE Len(steps) - 1
  /\ UNCHANGED <<query, steps, stack, ret>>

Finished == outcome # "running" /\ UNCHANGED vars

PlanSelect == \/ VirtualScan \/ CallFromSource \/ TakeFromSource
              \/ CallJoinSource \/ AddJoin \/ EndJoins
              \/ AddWhere \/ AddAggregate \/ AddHaving \/ AddDistinct
              \/ AddSort \/ AddLimit \/ AddProject
PlanSetOperation == \/ CallLeft \/ CallRight \/ AddSetOperation
                    \/ AddSetSort \/ AddSetLimit
PlanTableSource == ScanSource \/ PlanInner \/ CallPivotSource \/ AddPivotProject

Advance == PlanSelect \/ PlanSetOperation \/ PlanTableSource \/ Reject \/ Build
Next == Advance \/ Finished

\* The builder runs to its end once called: it waits for nobody.
Spec == Init /\ [][Next]_vars /\ WF_vars(Advance)

-----------------------------------------------------------------------------
(* Properties *)

\* What a step reads: the ids among its dependencies.
Inputs(j) == {steps[j].dependencies[k] : k \in DOMAIN steps[j].dependencies}

\* The ids some active call still holds and will use or return.
Held == ({ret} \cup {stack[i].current : i \in DOMAIN stack}) \ {NoStep}

\* Type invariant: steps, frames and the returned id have the shape the
\* builder gives them.
TypeOK ==
  /\ query \in Queries
  /\ steps \in Seq(StepRec)
  /\ stack \in Seq(Frame)
  /\ ret \in Nat \cup {NoStep}
  /\ outcome \in {"running", "ok", "err"}
  /\ root \in Nat \cup {NoStep}

\* "All steps in topological order" (Plan::steps): a step reads only steps
\* that stand before it in the vector, whatever call they came from.
Topological ==
  \A j \in DOMAIN steps : \A d \in Inputs(j) : 0 <= d /\ d < j - 1

\* No two steps read the same rows: plan_select threads `current` through its
\* clauses and no call uses an id it already gave to a step.
ReadOnce ==
  \A j, k \in DOMAIN steps : j # k => Inputs(j) \cap Inputs(k) = {}

\* The root is the only step nothing reads: no step the builder added is left
\* out of the final result.
OneSink ==
  outcome = "ok" =>
    \A i \in 0 .. Len(steps) - 1 :
      (i = root) <=> (\A j \in DOMAIN steps : i \notin Inputs(j))

\* build() ignores the id plan_statement returned and takes the last step of
\* the vector; they are the same step, whatever the statement's nesting.
RootIsResult == outcome = "ok" => root = ret

Rejected(n) ==
  LET a == query.ast[n] IN
  a.kind = "Other" \/ (a.kind = "Table" /\ a.temporal)

\* A statement with an unsupported part anywhere inside, however deep, gives
\* an error and no plan, and no other statement does
\* (test_temporal_table_scan_fails_closed, test_ddl_rejected).
FailsClosed ==
  /\ outcome = "ok" => \A n \in query.nodes : ~Rejected(n)
  /\ outcome = "err" => /\ \E n \in query.nodes : Rejected(n)
                        /\ steps = <<>>

One(b) == IF b THEN 1 ELSE 0

\* How many steps of a kind the clauses of a node ask for.
Wanted(n, kind) ==
  LET a == query.ast[n] IN
  CASE a.kind = "Select" ->
         (CASE kind = "Scan" -> One(a.from = NoNode)
            [] kind = "Join" -> Len(a.joins)
            [] kind = "Filter" -> One(a.where) + One(a.having)
            [] kind = "Aggregate" -> One(a.group_by \/ has_aggregates(a.columns))
            [] kind = "Distinct" -> One(a.distinct)
            [] kind = "Sort" -> One(a.order_by)
            [] kind = "Limit" -> One(a.bounds # {})
            [] kind = "Project" -> One(a.columns # <<>>)
            [] OTHER -> 0)
    [] a.kind = "SetOperation" ->
         (CASE kind = "SetOperation" -> 1
            [] kind = "Sort" -> One(a.order_by)
            [] kind = "Limit" -> One(a.bounds # {})
            [] OTHER -> 0)
    [] a.kind \in {"Table", "TableFunction", "Unnest"} -> One(kind = "Scan")
    [] a.kind = "Pivot" -> One(kind = "Project")
    [] OTHER -> 0

\* The plan has a step for every clause of every SELECT, set operation and
\* source below the statement, at any depth, and no other step.
CoversQuery ==
  outcome = "ok" =>
    \A n \in Node, kind \in StepKind :
      Cardinality({j \in DOMAIN steps : steps[j].of = n /\ steps[j].kind = kind})
        = IF n \in query.nodes THEN Wanted(n, kind) ELSE 0

\* Planning ends, with a plan or with an error.
Terminates == <>(outcome # "running")

\* The planner builds a plan in the sense of PlanDag: the open steps are the
\* ids its active calls hold.
Dag == INSTANCE PlanDag WITH
         deps <- [j \in DOMAIN steps |-> steps[j].dependencies],
         open <- Held,
         status <- outcome,
         final <- root

\* The implementation of PlanDag, as a property of a run.
ImplementsDag == Dag!Spec

=============================================================================
