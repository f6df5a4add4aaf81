-------------------------- MODULE DialectRegistry --------------------------
(* The registry of custom dialects (dialects/plugin.rs) and the transforms    *)
(* that read it, run by several threads.                                      *)
(*                                                                            *)
(* The registry is a HashMap behind a std Mutex.  Every public operation      *)
(* takes the lock, works on the map and releases the lock when its guard      *)
(* goes out of scope.  transform() takes the lock once for EVERY question it  *)
(* asks of the target dialect, and runs the plugin's answer without the lock: *)
(* other threads, and the plugin itself, can change the registry in between.  *)
(* A plugin lives as long as some Arc to it; letting go of the last one runs  *)
(* its destructor, which for a replaced or removed plugin is under the lock.  *)
(*                                                                            *)
(* A HashMap update is not one step of the machine: while one is under way    *)
(* the entry is Torn.                                                         *)
EXTENDS Naturals, Sequences, FiniteSets

CONSTANTS Thread, Spelling, Plugin, NoThread, NoPlugin, NoName, NoCall, Pending,
          Lower,        \* Lower[s]: str::to_lowercase of the name s
          BuiltinName,  \* the spellings Dialect::from_str knows
          NameOf,       \* NameOf[p]: what p.name() returns
          Replaces,     \* Replaces[p]: nodes and statements p's transform_expr and
                        \* transform_statement answer Some for
          Renames,      \* Renames[p]: the typed functions p's map_function_name has names for
          Ilike,        \* the plugins whose supports_ilike() is Some(true)
          Panics,       \* the plugins whose destructor panics
          Node, Kind, Kids, Quoted,   \* expressions: kind, children, quoted parts; the
                                      \* children of a typed function in the order in which
                                      \* transform_children comes to them, after theirs
          Args,                       \* Args[n]: what is visited of a typed function with a new name
          Statement, Body,            \* statements and the lookups their walk starts with
          Script                      \* the statements of one transpile_ext call

Torn == "torn"

Ops == {"get", "resolve", "names", "register", "unregister"}
Call == [op : Ops, key : Spelling \cup {NoName}, plugin : Plugin \cup {NoPlugin}]

\* A question the walk asks of the target dialect, and where.
Site == [what : {"statement"}, at : Statement]
          \cup [what : {"node", "function", "ilike", "quote"}, at : Node]
          \cup [what : {"type"}, at : Node \cup Statement]

InSection == {"section", "midway", "drop", "release"}
PC == InSection \cup {"idle", "wait", "answered", "walk", "hook"}

ASSUME RegistryAssumption ==
    /\ Lower \in [Spelling -> Spelling]
    /\ \A s \in Spelling : Lower[Lower[s]] = Lower[s]
    /\ NameOf \in [Plugin -> Spelling]
    /\ NoThread \notin Thread /\ NoPlugin \notin Plugin /\ Torn \notin Plugin
    /\ Kids \in [Node -> Seq(Node)] /\ Args \in [Node -> Seq(Node)] /\ Kind \in [Node -> STRING] /\ Quoted \in [Node -> Nat]
    /\ Body \in [Statement -> Seq(Site)] /\ Script \in Seq(Site)
    /\ Node \cap Statement = {} /\ Panics \subseteq Plugin
    /\ NoPlugin # Torn /\ NoName \notin Spelling /\ Spelling \cap Plugin = {}
    /\ \A c \in Call : c # NoCall
    /\ \A r \in SUBSET (Plugin \cup Spelling) : r # Pending

VARIABLES
    dialects,   \* the HashMap, by name
    holder,     \* the thread that has the MutexGuard
    poisoned,   \* the Mutex's poison flag
    fresh,      \* plugin objects not yet given to register()
    dropped,    \* plugin objects whose destructor has run
    pc,         \* where each thread is
    call,       \* the registry operation it is in
    got,        \* that operation's answer
    old,        \* the value insert() or remove() has taken out of the map
    target,     \* the custom dialect its transform writes, NoName when in none
    todo,       \* the questions the transform has left to ask
    arc,        \* the Arc it holds while the plugin's hook runs
    seen,       \* the answers it has had, repetitions left out
    since,      \* how long past was when it began
    past        \* past[k]: every value the entry of k has had

calls == <<call, got, old>>
walks == <<target, todo, arc, seen, since>>
vars == <<dialects, holder, poisoned, fresh, dropped, pc, calls, walks, past>>

Init ==
    /\ dialects = [s \in Spelling |-> NoPlugin]
    /\ holder = NoThread
    /\ poisoned = FALSE
    /\ fresh = Plugin
    /\ dropped = {}
    /\ pc = [t \in Thread |-> "idle"]
    /\ call = [t \in Thread |-> NoCall]
    /\ got = [t \in Thread |-> {}]
    /\ old = [t \in Thread |-> NoPlugin]
    /\ target = [t \in Thread |-> NoName]
    /\ todo = [t \in Thread |-> <<>>]
    /\ arc = [t \in Thread |-> NoPlugin]
    /\ seen = [t \in Thread |-> <<>>]
    /\ since = [t \in Thread |-> 0]
    /\ past = [s \in Spelling |-> <<NoPlugin>>]

-----------------------------------------------------------------------------
(* Arcs.                                                                      *)

\* The Arcs thread t keeps alive: of its hook, of a returned get, of the
\* argument of register, of the entry it is taking out.
Arcs(t) == ({arc[t], old[t]} \cup got[t]
              \cup (IF call[t] = NoCall THEN {} ELSE {call[t].plugin})) \cap Plugin

InMap == {dialects[s] : s \in Spelling} \cap Plugin

\* The Arcs outside thread t.
OtherArcsMapOnly(t) == InMap
OtherArcs(t) == InMap \cup UNION {Arcs(u) : u \in Thread \ {t}}

\* t lets go of the Arcs P but for those to plugins in Q: the destructor of a
\* plugin nothing else refers to runs.
DropArcs(t, P, Q) == dropped' = dropped \cup (P \ (Q \cup OtherArcs(t)))

-----------------------------------------------------------------------------
(* One operation of the registry: lock(), the map, the destructor of what came *)
(* out of it, and the guard's release.                                        *)

\* The thread calls op: from idle, or from inside a plugin's hook.
Invoke(t, c) ==
    /\ pc' = [pc EXCEPT ![t] = "wait"]
    /\ call' = [call EXCEPT ![t] = c]
    /\ UNCHANGED <<got, old>>

Request(op, s, p) == [op |-> op, key |-> s, plugin |-> p]

\* register, get, unregister and registered_names, and resolve_dialect for a
\* name that no built-in dialect has.
CallRegistry(t) ==
    /\ pc[t] \in {"idle", "hook"}
    /\ \/ \E p \in fresh :
            /\ Invoke(t, Request("register", NameOf[p], p))
            /\ fresh' = fresh \ {p}
       \/ \E s \in Spelling :
            /\ \/ Invoke(t, Request("get", s, NoPlugin))
               \/ Invoke(t, Request("unregister", s, NoPlugin))
               \/ pc[t] = "idle" /\ s \notin BuiltinName
                    /\ Invoke(t, Request("resolve", s, NoPlugin))
            /\ UNCHANGED fresh
       \/ Invoke(t, Request("names", NoName, NoPlugin)) /\ UNCHANGED fresh
    /\ UNCHANGED <<dialects, holder, poisoned, dropped, walks, past>>

\* self.dialects.lock(), when the lock is free and not poisoned.
AcquireTaken(t) ==
    /\ pc[t] = "wait"
    /\ ~poisoned
    /\ holder' = t
    /\ pc' = [pc EXCEPT ![t] = "section"]
    /\ UNCHANGED <<dialects, poisoned, fresh, dropped, calls, walks, past>>
Acquire(t) ==
    /\ pc[t] = "wait"
    /\ holder = NoThread
    /\ ~poisoned
    /\ holder' = t
    /\ pc' = [pc EXCEPT ![t] = "section"]
    /\ UNCHANGED <<dialects, poisoned, fresh, dropped, calls, walks, past>>

\* A panic of t unwinds out of the operation, and out of the hook and the
\* transform around it: every Arc t has is let go.  (A destructor that panics
\* during the unwinding aborts the process; nothing is left to say of it.)
Unwind(t) ==
    /\ pc' = [pc EXCEPT ![t] = "idle"]
    /\ call' = [call EXCEPT ![t] = NoCall]
    /\ got' = [got EXCEPT ![t] = {}]
    /\ old' = [old EXCEPT ![t] = NoPlugin]
    /\ target' = [target EXCEPT ![t] = NoName]
    /\ todo' = [todo EXCEPT ![t] = <<>>]
    /\ arc' = [arc EXCEPT ![t] = NoPlugin]
    /\ seen' = [seen EXCEPT ![t] = <<>>]
    /\ since' = [since EXCEPT ![t] = 0]
    /\ DropArcs(t, Arcs(t), {})

\* .expect("dialect registry lock poisoned") panics.
FindPoisoned(t) ==
    /\ pc[t] = "wait"
    /\ holder = NoThread
    /\ poisoned
    /\ Unwind(t)
    /\ UNCHANGED <<dialects, holder, poisoned, fresh, past>>

\* Every operation looks under the name in lower case.
KeyAsWritten(t) == call[t].key
Key(t) == Lower[call[t].key]

Some(x) == {x} \ {NoPlugin}

\* map.get(..).cloned(); resolve_dialect asks only is_some(), and keeps from
\* when its answer dates.
LookupCached(t) ==
    /\ pc[t] = "section"
    /\ call[t].op \in {"get", "resolve"}
    /\ got' = [got EXCEPT ![t] =
         Some(IF Len(past[Key(t)]) > 1 THEN past[Key(t)][2] ELSE NoPlugin)]
    /\ pc' = [pc EXCEPT ![t] = "release"]
    /\ since' = [since EXCEPT ![t] = IF call[t].op = "resolve" THEN Len(past[Key(t)]) ELSE @]
    /\ UNCHANGED <<dialects, holder, poisoned, fresh, dropped, call, old,
                   target, todo, arc, seen, past>>
LookupSentinel(t) ==
    /\ pc[t] = "section"
    /\ call[t].op \in {"get", "resolve"}
    /\ got' = [got EXCEPT ![t] = {dialects[Key(t)]}]
    /\ pc' = [pc EXCEPT ![t] = "release"]
    /\ since' = [since EXCEPT ![t] = IF call[t].op = "resolve" THEN Len(past[Key(t)]) ELSE @]
    /\ UNCHANGED <<dialects, holder, poisoned, fresh, dropped, call, old,
                   target, todo, arc, seen, past>>
Lookup(t) ==
    /\ pc[t] = "section"
    /\ call[t].op \in {"get", "resolve"}
    /\ got' = [got EXCEPT ![t] = Some(dialects[Key(t)])]
    /\ pc' = [pc EXCEPT ![t] = "release"]
    /\ since' = [since EXCEPT ![t] = IF call[t].op = "resolve" THEN Len(past[Key(t)]) ELSE @]
    /\ UNCHANGED <<dialects, holder, poisoned, fresh, dropped, call, old,
                   target, todo, arc, seen, past>>

\* map.keys().cloned().
ListNames(t) ==
    /\ pc[t] = "section"
    /\ call[t].op = "names"
    /\ got' = [got EXCEPT ![t] = {s \in Spelling : dialects[s] # NoPlugin}]
    /\ pc' = [pc EXCEPT ![t] = "release"]
    /\ UNCHANGED <<dialects, holder, poisoned, fresh, dropped, call, old, walks, past>>

\* map.insert(..) and map.remove(..) on a name that is there begin.
BeginUpdate(t) ==
    /\ pc[t] = "section"
    /\ \/ call[t].op = "register"
       \/ call[t].op = "unregister" /\ dialects[Key(t)] # NoPlugin
    /\ old' = [old EXCEPT ![t] = dialects[Key(t)]]
    /\ dialects' = [dialects EXCEPT ![Key(t)] = Torn]
    /\ pc' = [pc EXCEPT ![t] = "midway"]
    /\ UNCHANGED <<holder, poisoned, fresh, dropped, call, got, walks, past>>

\* map.remove(..) finds nothing.
RemoveNothing(t) ==
    /\ pc[t] = "section"
    /\ call[t].op = "unregister"
    /\ dialects[Key(t)] = NoPlugin
    /\ got' = [got EXCEPT ![t] = {}]
    /\ pc' = [pc EXCEPT ![t] = "release"]
    /\ UNCHANGED <<dialects, holder, poisoned, fresh, dropped, call, old, walks, past>>

\* The entry has its new value; the old one is a temporary of the statement.
\* The Arc to the new plugin has moved into the map.
EndUpdate(t) ==
    /\ pc[t] = "midway"
    /\ LET v == call[t].plugin
       IN  /\ dialects' = [dialects EXCEPT ![Key(t)] = v]
           /\ past' = [past EXCEPT ![Key(t)] = Append(@, v)]
    /\ call' = [call EXCEPT ![t].plugin = NoPlugin]
    /\ got' = [got EXCEPT ![t] = IF call[t].op = "unregister" THEN {Key(t)} ELSE {}]
    /\ pc' = [pc EXCEPT ![t] = "drop"]
    /\ UNCHANGED <<holder, poisoned, fresh, dropped, old, walks>>

\* The temporary is let go before the guard: a destructor that runs here runs
\* under the lock, and poisons it if it panics.
DropOldPanic(t) ==
    /\ pc[t] = "drop"
    /\ old[t] \in Panics \ (OtherArcs(t) \cup {arc[t]})
    /\ poisoned' = TRUE
    /\ holder' = NoThread
    /\ Unwind(t)
    /\ UNCHANGED <<dialects, fresh, past>>

DropOld(t) ==
    /\ pc[t] = "drop"
    /\ old[t] \notin Panics \ (OtherArcs(t) \cup {arc[t]})
    /\ DropArcs(t, {old[t]} \ {NoPlugin}, {arc[t]})
    /\ old' = [old EXCEPT ![t] = NoPlugin]
    /\ pc' = [pc EXCEPT ![t] = "release"]
    /\ UNCHANGED <<dialects, holder, poisoned, fresh, call, got, walks, past>>

\* The guard goes out of scope.
ReleaseWhenFound(t) ==
    /\ pc[t] = "release"
    /\ IF call[t].op = "get" /\ got[t] = {}
       THEN pc' = [pc EXCEPT ![t] = "section"] /\ UNCHANGED holder
       ELSE pc' = [pc EXCEPT ![t] = "answered"] /\ holder' = NoThread
    /\ UNCHANGED <<dialects, poisoned, fresh, dropped, calls, walks, past>>
Release(t) ==
    /\ pc[t] = "release"
    /\ pc' = [pc EXCEPT ![t] = "answered"]
    /\ holder' = NoThread
    /\ UNCHANGED <<dialects, poisoned, fresh, dropped, calls, walks, past>>

-----------------------------------------------------------------------------
(* transform() into a custom dialect, and transpile_statements_ext around it.  *)

Questions(what, n) == [what |-> what, at |-> n]

Nodes(ns) == [i \in DOMAIN ns |-> Questions("node", ns[i])]

\* The questions the walk asks of a node, in order, once no plugin has
\* replaced the node.  Children of ILIKE are visited only if it is rewritten.
Visit(n) ==
    CASE Kind[n] = "function" -> <<Questions("function", n)>> \o Nodes(Kids[n])
      [] Kind[n] = "cast"     -> Nodes(Kids[n]) \o <<Questions("type", n)>>
      [] Kind[n] = "typed"    -> <<Questions("function", n)>>
      [] Kind[n] = "ilike"    -> <<Questions("ilike", n)>>
      [] Kind[n] = "operator" -> Nodes(Kids[n])
      [] Kind[n] = "column"   -> [i \in 1..Quoted[n] |-> Questions("quote", n)]
      [] OTHER                -> <<>>

\* What the answer of plugin p (NoPlugin: none is registered) to the first
\* question leaves to ask.  A typed function that p renames is made anew of
\* the arguments typed_function_args knows.
Remaining(q, p) ==
    CASE q.what \in {"statement", "node"} /\ p # NoPlugin /\ q.at \in Replaces[p] -> <<>>
      [] q.what = "statement" -> Body[q.at]
      [] q.what = "node"      -> Visit(q.at)
      [] q.what = "ilike" /\ p \notin Ilike -> Nodes(Kids[q.at])
      [] q.what = "function" /\ Kind[q.at] = "typed"
            -> Nodes(IF p # NoPlugin /\ q.at \in Renames[p] THEN Args[q.at] ELSE Kids[q.at])
      [] OTHER -> <<>>

\* transpile_ext or transpile_statements_ext with a custom dialect to write,
\* made by DialectRef::custom.
Transpile(t) ==
    /\ pc[t] = "idle"
    /\ \E s \in Spelling :
         /\ target' = [target EXCEPT ![t] = Lower[s]]
         /\ since' = [since EXCEPT ![t] = Len(past[Lower[s]])]
    /\ todo' = [todo EXCEPT ![t] = Script]
    /\ pc' = [pc EXCEPT ![t] = "walk"]
    /\ UNCHANGED <<dialects, holder, poisoned, fresh, dropped, calls, arc, seen, past>>

\* The same with the DialectRef that resolve_dialect has just returned.
TranspileResolved(t) ==
    /\ pc[t] = "answered"
    /\ call[t].op = "resolve"
    /\ got[t] # {}
    /\ got[t] \cap Panics \subseteq OtherArcs(t)
    /\ target' = [target EXCEPT ![t] = Key(t)]
    /\ seen' = [seen EXCEPT ![t] = <<CHOOSE p \in got[t] : TRUE>>]
    /\ todo' = [todo EXCEPT ![t] = Script]
    /\ pc' = [pc EXCEPT ![t] = "walk"]
    /\ call' = [call EXCEPT ![t] = NoCall]
    /\ got' = [got EXCEPT ![t] = {}]
    /\ DropArcs(t, got[t], {})
    /\ UNCHANGED <<dialects, holder, poisoned, fresh, old, arc, since, past>>

\* The next question: DialectRegistry::global().get(name).
AskPlugin(t) ==
    /\ pc[t] = "walk"
    /\ todo[t] # <<>>
    /\ Invoke(t, Request("get", target[t], NoPlugin))
    /\ UNCHANGED <<dialects, holder, poisoned, fresh, dropped, walks, past>>

\* The last answer is in: the SQL is generated and returned.  Or the text does
\* not parse, or what a statement has become is refused: the call ends before
\* the next statement.
FinishTranspile(t) ==
    /\ pc[t] = "walk"
    /\ todo[t] # <<>> => Head(todo[t]).what = "statement"
    /\ todo' = [todo EXCEPT ![t] = <<>>]
    /\ pc' = [pc EXCEPT ![t] = "idle"]
    /\ target' = [target EXCEPT ![t] = NoName]
    /\ seen' = [seen EXCEPT ![t] = <<>>]
    /\ since' = [since EXCEPT ![t] = 0]
    /\ UNCHANGED <<dialects, holder, poisoned, fresh, dropped, calls, arc, past>>

\* seen with one more answer.
Noting(t, v) == IF seen[t] # <<>> /\ seen[t][Len(seen[t])] = v THEN seen[t]
                ELSE Append(seen[t], v)

\* The walk has its answer to a question: the plugin's hook runs, without the
\* lock, on the Arc that get cloned; with no plugin the default applies.
Receive(t) ==
    /\ pc[t] = "answered"
    /\ target[t] # NoName
    /\ arc[t] = NoPlugin
    /\ \/ \E p \in got[t] \cap Plugin :
            /\ arc' = [arc EXCEPT ![t] = p]
            /\ pc' = [pc EXCEPT ![t] = "hook"]
            /\ seen' = [seen EXCEPT ![t] = Noting(t, p)]
            /\ UNCHANGED todo
       \/ /\ got[t] = {}
          /\ todo' = [todo EXCEPT ![t] = Remaining(Head(@), NoPlugin) \o Tail(@)]
          /\ pc' = [pc EXCEPT ![t] = "walk"]
          /\ seen' = [seen EXCEPT ![t] = Noting(t, NoPlugin)]
          /\ UNCHANGED arc
    /\ call' = [call EXCEPT ![t] = NoCall]
    /\ got' = [got EXCEPT ![t] = {}]
    /\ UNCHANGED <<dialects, holder, poisoned, fresh, dropped, old, target, since, past>>

\* The hook returns and the Arc is let go; if that runs a destructor that
\* panics, the transform unwinds, but the lock is not held.
HookReturns(t) ==
    /\ pc[t] = "hook"
    /\ IF arc[t] \in Panics \ OtherArcs(t)
       THEN Unwind(t)
       ELSE /\ todo' = [todo EXCEPT ![t] = Remaining(Head(@), arc[t]) \o Tail(@)]
            /\ DropArcs(t, {arc[t]}, {})
            /\ arc' = [arc EXCEPT ![t] = NoPlugin]
            /\ pc' = [pc EXCEPT ![t] = "walk"]
            /\ UNCHANGED <<calls, target, seen, since>>
    /\ UNCHANGED <<dialects, holder, poisoned, fresh, past>>

\* The hook panics.
HookPanicsPoison(t) ==
    /\ pc[t] = "hook"
    /\ Unwind(t)
    /\ poisoned' = TRUE
    /\ UNCHANGED <<dialects, holder, fresh, past>>
HookPanics(t) ==
    /\ pc[t] = "hook"
    /\ Unwind(t)
    /\ UNCHANGED <<dialects, holder, poisoned, fresh, past>>

\* An operation called by the thread's own code, or by a hook, is answered:
\* the caller lets go of the Arc a get returned.
Return(t) ==
    /\ pc[t] = "answered"
    /\ target[t] = NoName \/ arc[t] # NoPlugin
    /\ IF got[t] \cap Panics \subseteq OtherArcs(t) \cup {arc[t]}
       THEN /\ pc' = [pc EXCEPT ![t] = IF target[t] = NoName THEN "idle" ELSE "hook"]
            /\ call' = [call EXCEPT ![t] = NoCall]
            /\ got' = [got EXCEPT ![t] = {}]
            /\ since' = [since EXCEPT ![t] = IF target[t] = NoName THEN 0 ELSE @]
            /\ DropArcs(t, got[t] \cap Plugin, {arc[t]})
            /\ UNCHANGED <<old, target, todo, arc, seen>>
       ELSE Unwind(t)
    /\ UNCHANGED <<dialects, holder, poisoned, fresh, past>>

-----------------------------------------------------------------------------

\* What a thread does once it has the lock.
Section(t) == \/ Lookup(t) \/ ListNames(t) \/ BeginUpdate(t) \/ RemoveNothing(t)
              \/ EndUpdate(t) \/ DropOld(t) \/ DropOldPanic(t) \/ Release(t)

Next == \E t \in Thread :
           \/ CallRegistry(t)
           \/ Acquire(t)
           \/ FindPoisoned(t)
           \/ Section(t)
           \/ Transpile(t)
           \/ TranspileResolved(t)
           \/ AskPlugin(t)
           \/ FinishTranspile(t)
           \/ Receive(t)
           \/ HookReturns(t)
           \/ HookPanics(t)
           \/ Return(t)

Spec == Init /\ [][Next]_vars

\* A thread that has the lock runs on.  Nothing is assumed of who gets the lock
\* (std's Mutex is not fair) nor of what callers and plugins choose to do.
FairSpec == Spec /\ \A t \in Thread : WF_vars(Section(t))

-----------------------------------------------------------------------------
(* Properties.                                                                *)

\* Type correctness: the map holds plugins under names, the guard is a
\* thread's, and every thread is at a point of an operation or of a walk.
TypeOK ==
    /\ dialects \in [Spelling -> Plugin \cup {NoPlugin, Torn}]
    /\ holder \in Thread \cup {NoThread}
    /\ poisoned \in BOOLEAN
    /\ fresh \subseteq Plugin
    /\ dropped \subseteq Plugin
    /\ pc \in [Thread -> PC]
    /\ call \in [Thread -> Call \cup {NoCall}]
    /\ got \in [Thread -> SUBSET (Plugin \cup Spelling)]
    /\ old \in [Thread -> Plugin \cup {NoPlugin}]
    /\ target \in [Thread -> Spelling \cup {NoName}]
    /\ todo \in [Thread -> Seq(Site)]
    /\ arc \in [Thread -> Plugin \cup {NoPlugin}]
    /\ seen \in [Thread -> Seq(Plugin \cup {NoPlugin})]
    /\ since \in [Thread -> Nat]
    /\ past \in [Spelling -> Seq(Plugin \cup {NoPlugin})]

\* The map is only touched by the thread that has the guard, and an entry is
\* half-written only while that thread is inside insert() or remove().  No
\* plugin hook runs, and no caller is given an answer, under the lock: a hook
\* may call the registry, and unregister its own dialect, without waiting for
\* itself.
OneWriter ==
    /\ \A t \in Thread : pc[t] \in InSection <=> holder = t
    /\ \A s \in Spelling : dialects[s] = Torn =>
          \E t \in Thread : pc[t] = "midway" /\ Key(t) = s

\* A plugin's destructor has run exactly if register() has had the plugin and
\* neither the map nor any thread still has an Arc to it: replacing or
\* unregistering a dialect neither frees a plugin whose hook is running nor
\* leaks one, whatever panics.
DroppedWhenUnused ==
    dropped = Plugin \ (fresh \cup InMap \cup UNION {Arcs(t) : t \in Thread})

\* The answers one transform has had from the registry are values that its
\* target's entry had, since the transform began (or since resolve_dialect
\* found the dialect), in the order the entry had them.  In particular a
\* transform mixes two plugins, or a plugin and the defaults, only if the
\* dialect was registered or unregistered while it ran.
AnswersFromHistory ==
    \A t \in Thread : target[t] # NoName =>
        LET values == past[target[t]]
        IN  \E f \in [1..Len(seen[t]) -> since[t]..Len(values)] :
               /\ \A i \in 1..Len(seen[t]) : seen[t][i] = values[f[i]]
               /\ \A i, j \in 1..Len(seen[t]) : i < j => f[i] < f[j]

\* Only a destructor that panics under the lock poisons the registry: then the
\* plugin has been replaced or removed, and no thread used it any more.  A hook
\* that panics, or a destructor run by a transform, leaves the registry usable.
PoisonedByDestructor ==
    [][poisoned' # poisoned =>
         \E t \in Thread : /\ holder = t
                           /\ old[t] \in Panics \cap (dropped' \ dropped)
                           /\ \A s \in Spelling : dialects[s] # old[t]]_vars

\* The lock is always released: no operation keeps or waits for anything
\* while it has the guard.
LockReleased == \A t \in Thread : holder = t ~> holder # t

Atomic == INSTANCE AtomicRegistry WITH
    entries <- [s \in Spelling |->
                  IF dialects[s] = Torn THEN old[holder] ELSE dialects[s]],
    broken <- poisoned,
    request <- call,
    reply <- [t \in Thread |-> IF pc[t] \in {"drop", "release", "answered"}
                               THEN got[t] ELSE Pending]

\* Every operation takes effect in one step between its call and its return
\* (the registry is linearizable): what "thread-safe registry" promises.
ImplementsAtomic == Atomic!ASpec
=============================================================================
