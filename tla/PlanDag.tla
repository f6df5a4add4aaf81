------------------------------ MODULE PlanDag ------------------------------
(***************************************************************************)
(* What a plan is (src/src/planner/mod.rs, Plan), whatever query it comes  *)
(* from: a vector of steps that grows at its end, in which a step takes    *)
(* over the rows of steps nobody has taken yet, and which is handed out    *)
(* only when a single step is left to read, the last one.                  *)
(***************************************************************************)
EXTENDS Integers, Sequences

VARIABLES
  deps,     \* deps[i + 1]: the inputs of step i
  open,     \* the steps whose rows no step has taken
  status,   \* "running", "ok" or "err"
  final     \* the step that produces the plan's rows

vars == <<deps, open, status, final>>

Taken(inputs) == {inputs[k] : k \in DOMAIN inputs}

Init ==
  /\ deps = <<>>
  /\ open = {}
  /\ status = "running"
  /\ final = -1

\* A step is added over at most two different open steps.
Grow(inputs) ==
  /\ status = "running"
  /\ Len(inputs) = 2 => inputs[1] # inputs[2]
  /\ Taken(inputs) \subseteq open
  /\ deps' = Append(deps, inputs)
  /\ open' = (open \ Taken(inputs)) \cup {Len(deps)}
  /\ UNCHANGED <<status, final>>

Publish ==
  /\ status = "running"
  /\ open = {Len(deps) - 1}
  /\ status' = "ok"
  /\ final' = Len(deps) - 1
  /\ UNCHANGED <<deps, open>>

Abandon ==
  /\ status = "running"
  /\ deps' = <<>> /\ open' = {} /\ status' = "err"
  /\ UNCHANGED final

Inputs == {<<>>} \cup {<<i>> : i \in open} \cup (open \X open)

Next == (\E inputs \in Inputs : Grow(inputs)) \/ Publish \/ Abandon

Spec == Init /\ [][Next]_vars
=============================================================================
