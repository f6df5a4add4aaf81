----------------------- MODULE DialectRegistryProofs -----------------------
(* Theorems about DialectRegistry, for any threads, names, plugins and         *)
(* statements.                                                                *)
EXTENDS DialectRegistry, SequenceTheorems, TLAPS

\* What a thread's place in the code says about its call and its walk.
CallInv(t) ==
    /\ (call[t] = NoCall) <=> pc[t] \in {"idle", "walk", "hook"}
    /\ call[t] # NoCall => /\ call[t] \in Call
                           /\ call[t].op # "names" => call[t].key \in Spelling
                           /\ call[t].op # "register" => call[t].plugin = NoPlugin
    /\ pc[t] \in {"midway", "drop"} => call[t].op \in {"register", "unregister"}
    /\ pc[t] = "midway" /\ call[t].op = "unregister" => old[t] # NoPlugin
    /\ pc[t] \in {"release", "answered"} /\ call[t].op \in {"get", "resolve"}
          => got[t] \subseteq Plugin
WalkInv(t) ==
    /\ pc[t] = "idle" => target[t] = NoName
    /\ pc[t] \in {"walk", "hook"} => target[t] \in Spelling
    /\ pc[t] = "hook" => arc[t] \in Plugin
    /\ target[t] # NoName /\ pc[t] # "walk" => todo[t] # <<>>
    /\ call[t] # NoCall /\ call[t].op = "resolve" => target[t] = NoName

Phases == \A t \in Thread : CallInv(t) /\ WalkInv(t)

\* The lock: who is in a section has it, and a half-written entry is the one
\* the thread in the middle of an update is writing.
Locking ==
    /\ \A t \in Thread : pc[t] \in InSection <=> holder = t
    /\ \A s \in Spelling : dialects[s] = Torn =>
          \E t \in Thread : pc[t] = "midway" /\ Key(t) = s
    /\ \A t \in Thread : pc[t] = "midway" => dialects[Key(t)] = Torn
    /\ poisoned => holder = NoThread

IInv == TypeOK /\ Phases /\ Locking

-----------------------------------------------------------------------------

LEMMA KeyInSpelling ==
    ASSUME TypeOK, Phases, NEW t \in Thread, call[t] # NoCall, call[t].op # "names"
    PROVE  Key(t) \in Spelling
BY RegistryAssumption DEF Phases, CallInv, Key

\* While a thread works on the map, no entry is half-written.
LEMMA NotTorn ==
    ASSUME TypeOK, Locking, NEW t \in Thread, pc[t] = "section", NEW s \in Spelling
    PROVE  dialects[s] \in Plugin \cup {NoPlugin}
<1>1. holder = t
  BY DEF Locking, InSection
<1>2. SUFFICES ASSUME dialects[s] = Torn PROVE FALSE
  BY DEF TypeOK
<1>3. PICK u \in Thread : pc[u] = "midway"
  BY <1>2 DEF Locking
<1>4. holder = u
  BY <1>3 DEF Locking, InSection
<1> QED
  BY <1>1, <1>3, <1>4

LEMMA RequestType ==
    \A op \in Ops, s \in Spelling \cup {NoName}, p \in Plugin \cup {NoPlugin} :
        Request(op, s, p) \in Call
BY DEF Request, Call

\* What is left to ask after an answer is again a sequence of questions.
LEMMA RemainingType ==
    ASSUME NEW q \in Site, NEW p \in Plugin \cup {NoPlugin}
    PROVE  Remaining(q, p) \in Seq(Site)
<1>. DEFINE R1 == [what : {"statement"}, at : Statement]
            R2 == [what : {"node", "function", "ilike", "quote"}, at : Node]
            R3 == [what : {"type"}, at : Node \cup Statement]
<1>1. q \in R1 \/ q \in R2 \/ q \in R3
  BY DEF Site
<1>2. q.what = "statement" => q.at \in Statement
  BY <1>1
<1>3. q.what \in {"node", "ilike", "function"} => q.at \in Node
  BY <1>1
<1>4. <<>> \in Seq(Site)
  OBVIOUS
<1>5. ASSUME NEW ns \in Seq(Node)
      PROVE  Nodes(ns) \in Seq(Site)
  <2>1. PICK k \in Nat : DOMAIN ns = 1..k
    OBVIOUS
  <2>2. \A i \in 1..k : ns[i] \in Node
    BY <2>1
  <2>3. \A i \in 1..k : Questions("node", ns[i]) \in R2
    BY <2>2 DEF Questions
  <2>4. \A i \in 1..k : Questions("node", ns[i]) \in Site
    BY <2>3 DEF Site
  <2> QED
    BY <2>1, <2>4, SeqDef DEF Nodes
<1>6. ASSUME NEW n \in Node
      PROVE  Nodes(Kids[n]) \in Seq(Site) /\ Nodes(Args[n]) \in Seq(Site)
  BY <1>5, RegistryAssumption
<1>7. ASSUME NEW n \in Node
      PROVE  Visit(n) \in Seq(Site)
  <2>1. Nodes(Kids[n]) \in Seq(Site)
    BY <1>6
  <2>2. /\ <<Questions("function", n)>> \in Seq(Site)
        /\ <<Questions("type", n)>> \in Seq(Site)
        /\ <<Questions("ilike", n)>> \in Seq(Site)
    BY DEF Questions, Site
  <2>3. [i \in 1..Quoted[n] |-> Questions("quote", n)] \in Seq(Site)
    <3>1. Quoted[n] \in Nat
      BY RegistryAssumption
    <3>2. Questions("quote", n) \in Site
      BY DEF Questions, Site
    <3> QED
      BY <3>1, <3>2, SeqDef
  <2>4. /\ <<Questions("function", n)>> \o Nodes(Kids[n]) \in Seq(Site)
        /\ Nodes(Kids[n]) \o <<Questions("type", n)>> \in Seq(Site)
    BY <2>1, <2>2, ConcatProperties
  <2> QED
    BY <2>1, <2>2, <2>3, <2>4, <1>4 DEF Visit
<1>8. q.what = "statement" => Body[q.at] \in Seq(Site)
  BY <1>2, RegistryAssumption
<1>9. q.what = "node" => Visit(q.at) \in Seq(Site)
  BY <1>3, <1>7
<1>10. q.what \in {"ilike", "function"} => Nodes(Kids[q.at]) \in Seq(Site) /\ Nodes(Args[q.at]) \in Seq(Site)
  BY <1>3, <1>6
<1> QED
  BY <1>4, <1>8, <1>9, <1>10 DEF Remaining

\* The questions a transform has left after the first is answered.
LEMMA NextTodo ==
    ASSUME NEW s \in Seq(Site), s # <<>>, NEW p \in Plugin \cup {NoPlugin}
    PROVE  Remaining(Head(s), p) \o Tail(s) \in Seq(Site)
<1>1. Head(s) \in Site /\ Tail(s) \in Seq(Site)
  BY HeadTailProperties
<1> QED
  BY <1>1, RemainingType, ConcatProperties

LEMMA NotingType ==
    ASSUME TypeOK, NEW t \in Thread, NEW v \in Plugin \cup {NoPlugin}
    PROVE  Noting(t, v) \in Seq(Plugin \cup {NoPlugin})
BY AppendProperties DEF TypeOK, Noting

\* What unwinding leaves behind.
LEMMA UnwindType ==
    ASSUME TypeOK, NEW t \in Thread, Unwind(t)
    PROVE  /\ pc' \in [Thread -> PC]
           /\ call' \in [Thread -> Call \cup {NoCall}]
           /\ got' \in [Thread -> SUBSET (Plugin \cup Spelling)]
           /\ old' \in [Thread -> Plugin \cup {NoPlugin}]
           /\ target' \in [Thread -> Spelling \cup {NoName}]
           /\ todo' \in [Thread -> Seq(Site)]
           /\ arc' \in [Thread -> Plugin \cup {NoPlugin}]
           /\ seen' \in [Thread -> Seq(Plugin \cup {NoPlugin})]
           /\ since' \in [Thread -> Nat]
           /\ dropped' \subseteq Plugin
<1>1. pc' \in [Thread -> PC]
  BY DEF TypeOK, Unwind, PC
<1>2. dropped' \subseteq Plugin
  BY DEF TypeOK, Unwind, DropArcs, Arcs
<1>3. <<>> \in Seq(Site) /\ <<>> \in Seq(Plugin \cup {NoPlugin})
  OBVIOUS
<1> QED
  BY <1>1, <1>2, <1>3 DEF TypeOK, Unwind

-----------------------------------------------------------------------------

\* Every step keeps the types.
LEMMA TypeStep == IInv /\ [Next]_vars => TypeOK'
<1>. SUFFICES ASSUME TypeOK, Phases, Locking, [Next]_vars PROVE TypeOK'
  BY DEF IInv
<1>. USE DEF calls, walks
<1>1. CASE UNCHANGED vars
  BY <1>1 DEF TypeOK, vars
<1>2. ASSUME NEW t \in Thread, CallRegistry(t)
      PROVE  TypeOK'
  <2>1. /\ pc' \in [Thread -> PC]
        /\ call' \in [Thread -> Call \cup {NoCall}]
        /\ fresh' \subseteq Plugin
    <3>1. CASE \E p \in fresh :
            /\ Invoke(t, Request("register", NameOf[p], p))
            /\ fresh' = fresh \ {p}
      BY <3>1, RegistryAssumption DEF TypeOK, Invoke, Request, Call, Ops, PC
    <3>2. CASE (\E s \in Spelling :
            /\ \/ Invoke(t, Request("get", s, NoPlugin))
               \/ Invoke(t, Request("unregister", s, NoPlugin))
               \/ pc[t] = "idle" /\ s \notin BuiltinName
                    /\ Invoke(t, Request("resolve", s, NoPlugin))
            /\ UNCHANGED fresh)
      <4>1. PICK s \in Spelling, op \in Ops : Invoke(t, Request(op, s, NoPlugin))
        BY <3>2 DEF Ops
      <4>2. Request(op, s, NoPlugin) \in Call
        BY RequestType
      <4> QED
        BY <3>2, <4>1, <4>2 DEF TypeOK, Invoke, PC
    <3>3. CASE Invoke(t, Request("names", NoName, NoPlugin)) /\ UNCHANGED fresh
      BY <3>3 DEF TypeOK, Invoke, Request, Call, Ops, PC
    <3> QED
      BY <1>2, <3>1, <3>2, <3>3 DEF CallRegistry
  <2>2. UNCHANGED <<got, old>>
    BY <1>2 DEF CallRegistry, Invoke
  <2> QED
    BY <1>2, <2>1, <2>2 DEF TypeOK, CallRegistry
<1>3. ASSUME NEW t \in Thread, Acquire(t)
      PROVE  TypeOK'
  BY <1>3 DEF TypeOK, Acquire, PC, InSection
<1>4. ASSUME NEW t \in Thread, FindPoisoned(t)
      PROVE  TypeOK'
  <2>1. UNCHANGED <<dialects, holder, poisoned, fresh, past>> /\ Unwind(t)
    BY <1>4 DEF FindPoisoned
  <2> QED
    BY <2>1, UnwindType DEF TypeOK
<1>5. ASSUME NEW t \in Thread, Section(t)
      PROVE  TypeOK'
  <2>1. CASE Lookup(t)
    <3>1. Key(t) \in Spelling
      BY <2>1, KeyInSpelling DEF Lookup, Phases, CallInv
    <3>2. past[Key(t)] \in Seq(Plugin \cup {NoPlugin})
      BY <3>1 DEF TypeOK
    <3>3. Len(past[Key(t)]) \in Nat
      BY <3>2, LenProperties
    <3>4. since' \in [Thread -> Nat]
      BY <2>1, <3>3 DEF TypeOK, Lookup
    <3>5. Some(dialects[Key(t)]) \subseteq Plugin
      <4>1. dialects[Key(t)] \in Plugin \cup {NoPlugin}
        BY <3>1, <2>1, NotTorn DEF Lookup
      <4> QED
        BY <4>1 DEF Some
    <3> QED
      BY <2>1, <3>4, <3>5 DEF TypeOK, Lookup, PC, InSection
  <2>2. CASE ListNames(t)
    BY <2>2 DEF TypeOK, ListNames, PC, InSection
  <2>3. CASE BeginUpdate(t)
    <3>1. Key(t) \in Spelling
      BY <2>3, KeyInSpelling DEF BeginUpdate, Phases, CallInv
    <3>2. dialects[Key(t)] \in Plugin \cup {NoPlugin}
      BY <2>3, <3>1, NotTorn DEF BeginUpdate
    <3> QED
      BY <2>3, <3>1, <3>2 DEF TypeOK, BeginUpdate, PC, InSection
  <2>4. CASE RemoveNothing(t)
    BY <2>4 DEF TypeOK, RemoveNothing, PC, InSection
  <2>5. CASE EndUpdate(t)
    <3>0. call[t] # NoCall /\ call[t].op # "names"
      BY <2>5 DEF EndUpdate, Phases, CallInv
    <3>1. Key(t) \in Spelling
      BY <3>0, KeyInSpelling
    <3>2. call[t] \in Call
      BY <3>0 DEF Phases, CallInv
    <3>3. call[t].plugin \in Plugin \cup {NoPlugin} /\ [call[t] EXCEPT !.plugin = NoPlugin] \in Call
      BY <3>2 DEF Call
    <3>4. Append(past[Key(t)], call[t].plugin) \in Seq(Plugin \cup {NoPlugin})
      BY <3>1, <3>3, AppendProperties DEF TypeOK
    <3>5. past' \in [Spelling -> Seq(Plugin \cup {NoPlugin})] /\ dialects' \in [Spelling -> Plugin \cup {NoPlugin, Torn}]
      BY <2>5, <3>3, <3>4 DEF EndUpdate, TypeOK
    <3>6. call' \in [Thread -> Call \cup {NoCall}] /\ got' \in [Thread -> SUBSET (Plugin \cup Spelling)]
      BY <2>5, <3>1, <3>3 DEF EndUpdate, TypeOK
    <3> QED
      BY <2>5, <3>5, <3>6 DEF TypeOK, EndUpdate, PC, InSection
  <2>6. CASE DropOld(t)
    BY <2>6 DEF TypeOK, DropOld, DropArcs, PC, InSection
  <2>7. CASE DropOldPanic(t)
    <3>1. UNCHANGED <<dialects, fresh, past>> /\ Unwind(t) /\ poisoned' = TRUE /\ holder' = NoThread
      BY <2>7 DEF DropOldPanic
    <3> QED
      BY <3>1, UnwindType DEF TypeOK
  <2>8. CASE Release(t)
    BY <2>8 DEF TypeOK, Release, PC
  <2> QED
    BY <1>5, <2>1, <2>2, <2>3, <2>4, <2>5, <2>6, <2>7, <2>8 DEF Section
<1>6. ASSUME NEW t \in Thread, Transpile(t)
      PROVE  TypeOK'
  <2>1. PICK s \in Spelling : /\ target' = [target EXCEPT ![t] = Lower[s]]
                             /\ since' = [since EXCEPT ![t] = Len(past[Lower[s]])]
    BY <1>6 DEF Transpile
  <2>2. Lower[s] \in Spelling /\ past[Lower[s]] \in Seq(Plugin \cup {NoPlugin})
    BY RegistryAssumption DEF TypeOK
  <2>3. Len(past[Lower[s]]) \in Nat
    BY <2>2, LenProperties
  <2>4. todo' \in [Thread -> Seq(Site)]
    BY <1>6, RegistryAssumption DEF Transpile, TypeOK
  <2> QED
    BY <1>6, <2>1, <2>2, <2>3, <2>4 DEF TypeOK, Transpile, PC
<1>7. ASSUME NEW t \in Thread, TranspileResolved(t)
      PROVE  TypeOK'
  <2>1. Key(t) \in Spelling
    BY <1>7, KeyInSpelling DEF TranspileResolved, Phases, CallInv
  <2>2. got[t] \subseteq Plugin /\ got[t] # {}
    BY <1>7 DEF TranspileResolved, Phases, CallInv
  <2>3. (CHOOSE p \in got[t] : TRUE) \in Plugin
    BY <2>2
  <2>4. seen' \in [Thread -> Seq(Plugin \cup {NoPlugin})]
    BY <1>7, <2>3 DEF TypeOK, TranspileResolved
  <2>5. todo' \in [Thread -> Seq(Site)]
    BY <1>7, RegistryAssumption DEF TranspileResolved, TypeOK
  <2> QED
    BY <1>7, <2>1, <2>2, <2>4, <2>5 DEF TypeOK, TranspileResolved, DropArcs, PC
<1>8. ASSUME NEW t \in Thread, AskPlugin(t)
      PROVE  TypeOK'
  <2>1. target[t] \in Spelling
    BY <1>8 DEF AskPlugin, Phases, WalkInv
  <2> QED
    BY <1>8, <2>1 DEF TypeOK, AskPlugin, Invoke, Request, Call, Ops, PC
<1>9. ASSUME NEW t \in Thread, FinishTranspile(t)
      PROVE  TypeOK'
  <2>1. <<>> \in Seq(Plugin \cup {NoPlugin}) /\ <<>> \in Seq(Site)
    OBVIOUS
  <2> QED
    BY <1>9, <2>1 DEF TypeOK, FinishTranspile, PC
<1>10. ASSUME NEW t \in Thread, Receive(t)
       PROVE  TypeOK'
  <2>1. todo[t] # <<>> /\ todo[t] \in Seq(Site)
    BY <1>10 DEF Receive, Phases, WalkInv, TypeOK
  <2>2. Remaining(Head(todo[t]), NoPlugin) \o Tail(todo[t]) \in Seq(Site)
    BY <2>1, NextTodo
  <2>3. todo' \in [Thread -> Seq(Site)]
    BY <1>10, <2>2 DEF TypeOK, Receive
  <2>4. \A v \in Plugin \cup {NoPlugin} : Noting(t, v) \in Seq(Plugin \cup {NoPlugin})
    BY NotingType
  <2>5. seen' \in [Thread -> Seq(Plugin \cup {NoPlugin})] /\ arc' \in [Thread -> Plugin \cup {NoPlugin}]
    <3>1. CASE \E p \in got[t] \cap Plugin :
                 /\ arc' = [arc EXCEPT ![t] = p]
                 /\ seen' = [seen EXCEPT ![t] = Noting(t, p)]
      BY <3>1, <2>4 DEF TypeOK
    <3>2. CASE arc' = arc /\ seen' = [seen EXCEPT ![t] = Noting(t, NoPlugin)]
      BY <3>2, <2>4 DEF TypeOK
    <3> QED
      BY <1>10, <3>1, <3>2 DEF Receive
  <2> QED
    BY <1>10, <2>3, <2>5 DEF TypeOK, Receive, PC
<1>11. ASSUME NEW t \in Thread, HookReturns(t)
       PROVE  TypeOK'
  <2>0. UNCHANGED <<dialects, holder, poisoned, fresh, past>>
    BY <1>11 DEF HookReturns
  <2>1. CASE Unwind(t)
    BY <2>0, <2>1, UnwindType DEF TypeOK
  <2>2. CASE ~Unwind(t)
    <3>1. todo[t] # <<>> /\ todo[t] \in Seq(Site) /\ arc[t] \in Plugin
      <4>1. /\ todo[t] \in Seq(Site) /\ arc[t] \in Plugin /\ target[t] \in Spelling
            /\ target[t] # NoName => todo[t] # <<>>
        BY <1>11 DEF HookReturns, Phases, WalkInv, TypeOK
      <4>2. NoName \notin Spelling
        BY RegistryAssumption
      <4> QED
        BY <4>1, <4>2
    <3>2. Remaining(Head(todo[t]), arc[t]) \o Tail(todo[t]) \in Seq(Site)
      BY <3>1, NextTodo
    <3>3. /\ todo' = [todo EXCEPT ![t] = Remaining(Head(@), arc[t]) \o Tail(@)]
          /\ DropArcs(t, {arc[t]}, {})
          /\ arc' = [arc EXCEPT ![t] = NoPlugin]
          /\ pc' = [pc EXCEPT ![t] = "walk"]
          /\ UNCHANGED <<calls, target, seen, since>>
      BY <1>11, <2>2 DEF HookReturns
    <3>4. todo' \in [Thread -> Seq(Site)]
      BY <3>2, <3>3 DEF TypeOK
    <3> QED
      BY <2>0, <3>1, <3>3, <3>4 DEF TypeOK, DropArcs, PC
  <2> QED
    BY <2>1, <2>2
<1>12. ASSUME NEW t \in Thread, HookPanics(t)
       PROVE  TypeOK'
  <2>1. UNCHANGED <<dialects, holder, poisoned, fresh, past>> /\ Unwind(t)
    BY <1>12 DEF HookPanics
  <2> QED
    BY <2>1, UnwindType DEF TypeOK
<1>13. ASSUME NEW t \in Thread, Return(t)
       PROVE  TypeOK'
  <2>0. UNCHANGED <<dialects, holder, poisoned, fresh, past>>
    BY <1>13 DEF Return
  <2>1. CASE Unwind(t)
    BY <2>0, <2>1, UnwindType DEF TypeOK
  <2>2. CASE ~Unwind(t)
    <3>1. /\ pc' = [pc EXCEPT ![t] = IF target[t] = NoName THEN "idle" ELSE "hook"]
          /\ call' = [call EXCEPT ![t] = NoCall]
          /\ got' = [got EXCEPT ![t] = {}]
          /\ since' = [since EXCEPT ![t] = IF target[t] = NoName THEN 0 ELSE @]
          /\ DropArcs(t, got[t] \cap Plugin, {arc[t]})
          /\ UNCHANGED <<old, target, todo, arc, seen>>
      BY <1>13, <2>2 DEF Return
    <3> QED
      BY <2>0, <3>1 DEF TypeOK, DropArcs, PC
  <2> QED
    BY <2>1, <2>2
<1> QED
  BY <1>1, <1>2, <1>3, <1>4, <1>5, <1>6, <1>7, <1>8, <1>9, <1>10, <1>11, <1>12, <1>13 DEF Next

-----------------------------------------------------------------------------

\* The other threads: a step of t leaves them where they are.
Still(u) == UNCHANGED <<pc[u], call[u], got[u], old[u], target[u], todo[u], arc[u]>>

LEMMA StillPhase ==
    ASSUME NEW u \in Thread, CallInv(u), WalkInv(u), Still(u)
    PROVE  CallInv(u)' /\ WalkInv(u)'
BY DEF CallInv, WalkInv, Still

LEMMA StillOthers ==
    ASSUME TypeOK, NEW t \in Thread, NEW u \in Thread \ {t},
           \/ CallRegistry(t) \/ Acquire(t) \/ FindPoisoned(t) \/ Section(t)
           \/ Transpile(t) \/ TranspileResolved(t) \/ AskPlugin(t) \/ FinishTranspile(t)
           \/ Receive(t) \/ HookReturns(t) \/ HookPanics(t) \/ Return(t)
    PROVE  Still(u)
<1>. USE DEF calls, walks, TypeOK, Still
<1>1. CASE Unwind(t)
  BY <1>1 DEF Unwind
<1>2. CASE CallRegistry(t)
  BY <1>2 DEF CallRegistry, Invoke
<1>3. CASE Acquire(t)
  BY <1>3 DEF Acquire
<1>4. CASE Section(t)
  <2>1. CASE Lookup(t)
    BY <2>1 DEF Lookup
  <2>2. CASE ListNames(t)
    BY <2>2 DEF ListNames
  <2>3. CASE BeginUpdate(t)
    BY <2>3 DEF BeginUpdate
  <2>4. CASE RemoveNothing(t)
    BY <2>4 DEF RemoveNothing
  <2>5. CASE EndUpdate(t)
    BY <2>5 DEF EndUpdate
  <2>6. CASE DropOld(t)
    BY <2>6 DEF DropOld
  <2>7. CASE Release(t)
    BY <2>7 DEF Release
  <2>8. CASE DropOldPanic(t)
    BY <2>8, <1>1 DEF DropOldPanic
  <2> QED
    BY <1>4, <2>1, <2>2, <2>3, <2>4, <2>5, <2>6, <2>7, <2>8 DEF Section
<1>5. CASE Transpile(t)
  BY <1>5 DEF Transpile, Invoke
<1>6. CASE TranspileResolved(t)
  BY <1>6 DEF TranspileResolved, Invoke
<1>7. CASE AskPlugin(t)
  BY <1>7 DEF AskPlugin, Invoke
<1>8. CASE FinishTranspile(t)
  BY <1>8 DEF FinishTranspile, Invoke
<1>9. CASE Receive(t)
  BY <1>9 DEF Receive, Invoke
<1>10. CASE HookReturns(t)
  BY <1>1, <1>10 DEF HookReturns
<1>11. CASE Return(t)
  BY <1>1, <1>11 DEF Return
<1> QED
  BY <1>1, <1>2, <1>3, <1>4, <1>5, <1>6, <1>7, <1>8, <1>9, <1>10, <1>11 DEF FindPoisoned, HookPanics

LEMMA UnwindPhase ==
    ASSUME TypeOK, NEW t \in Thread, Unwind(t)
    PROVE  CallInv(t)' /\ WalkInv(t)'
<1>1. pc'[t] = "idle" /\ call'[t] = NoCall /\ target'[t] = NoName
  BY DEF TypeOK, Unwind
<1> QED
  BY <1>1 DEF CallInv, WalkInv

\* The thread that moves is again at a place its variables agree with.
LEMMA OwnPhase ==
    ASSUME IInv, NEW t \in Thread,
           \/ CallRegistry(t) \/ Acquire(t) \/ FindPoisoned(t) \/ Section(t)
           \/ Transpile(t) \/ TranspileResolved(t) \/ AskPlugin(t) \/ FinishTranspile(t)
           \/ Receive(t) \/ HookReturns(t) \/ HookPanics(t) \/ Return(t)
    PROVE  CallInv(t)' /\ WalkInv(t)'
<1>0. TypeOK /\ CallInv(t) /\ WalkInv(t)
  BY DEF IInv, Phases
<1>. USE DEF calls, walks
<1>1. CASE Unwind(t)
  BY <1>0, <1>1, UnwindPhase
<1>2. CASE CallRegistry(t)
  <2>1. PICK c \in Call : /\ pc' = [pc EXCEPT ![t] = "wait"]
                          /\ call' = [call EXCEPT ![t] = c]
                          /\ c.op # "names" => c.key \in Spelling
                          /\ c.op # "register" => c.plugin = NoPlugin
                          /\ c.op = "resolve" => pc[t] = "idle"
    <3>. DEFINE Registers == \E p \in fresh : Invoke(t, Request("register", NameOf[p], p))
                Looks == \E s \in Spelling : \E op \in {"get", "unregister", "resolve"} :
                            Invoke(t, Request(op, s, NoPlugin)) /\ (op = "resolve" => pc[t] = "idle")
                Lists == Invoke(t, Request("names", NoName, NoPlugin))
    <3>1. CASE Registers
      <4>1. PICK p \in Plugin : Invoke(t, Request("register", NameOf[p], p))
        BY <3>1, <1>0 DEF TypeOK
      <4>2. NameOf[p] \in Spelling
        BY RegistryAssumption
      <4>3. Request("register", NameOf[p], p) \in Call
        BY <4>2, RequestType DEF Ops
      <4> QED
        BY <4>1, <4>2, <4>3 DEF Invoke, Request
    <3>2. CASE Looks
      <4>1. PICK s \in Spelling, op \in {"get", "unregister", "resolve"} :
               Invoke(t, Request(op, s, NoPlugin)) /\ (op = "resolve" => pc[t] = "idle")
        BY <3>2
      <4>2. Request(op, s, NoPlugin) \in Call
        BY RequestType DEF Ops
      <4> QED
        BY <4>1, <4>2 DEF Invoke, Request
    <3>3. CASE Lists
      <4>1. Request("names", NoName, NoPlugin) \in Call
        BY RequestType DEF Ops
      <4> QED
        BY <3>3, <4>1 DEF Invoke, Request
    <3>4. Registers \/ Looks \/ Lists
      BY <1>2, Zenon DEF CallRegistry
    <3>. HIDE DEF Registers, Looks, Lists
    <3> QED
      BY <3>1, <3>2, <3>3, <3>4
  <2>2. pc[t] \in {"idle", "hook"} /\ UNCHANGED walks
    BY <1>2 DEF CallRegistry
  <2>3. c # NoCall
    BY RegistryAssumption
  <2> QED
    BY <1>0, <2>1, <2>2, <2>3 DEF TypeOK, CallInv, WalkInv
<1>3. CASE Acquire(t)
  BY <1>0, <1>3 DEF TypeOK, CallInv, WalkInv, Acquire
<1>4. CASE Section(t)
  <2>1. CASE Lookup(t)
    <3>1. Key(t) \in Spelling
      BY <1>0, <2>1, KeyInSpelling DEF Lookup, CallInv, IInv
    <3>2. dialects[Key(t)] \in Plugin \cup {NoPlugin}
      BY <2>1, <3>1, NotTorn DEF Lookup, IInv
    <3>3. Some(dialects[Key(t)]) \subseteq Plugin
      BY <3>2 DEF Some
    <3> QED
      BY <1>0, <2>1, <3>3 DEF TypeOK, CallInv, WalkInv, Lookup
  <2>2. CASE ListNames(t)
    BY <1>0, <2>2 DEF TypeOK, CallInv, WalkInv, ListNames
  <2>3. CASE BeginUpdate(t)
    BY <1>0, <2>3 DEF TypeOK, CallInv, WalkInv, BeginUpdate
  <2>4. CASE RemoveNothing(t)
    BY <1>0, <2>4 DEF TypeOK, CallInv, WalkInv, RemoveNothing
  <2>5. CASE EndUpdate(t)
    <3>1. call[t] \in Call /\ call[t].op \in {"register", "unregister"} /\ call[t].key \in Spelling
      BY <1>0, <2>5 DEF CallInv, EndUpdate
    <3>2. call'[t] = [call[t] EXCEPT !.plugin = NoPlugin] /\ pc'[t] = "drop" /\ UNCHANGED walks
      BY <1>0, <2>5 DEF TypeOK, EndUpdate
    <3>3. /\ call'[t] \in Call /\ call'[t].op = call[t].op
          /\ call'[t].key = call[t].key /\ call'[t].plugin = NoPlugin
      BY <3>1, <3>2 DEF Call
    <3>4. call'[t] # NoCall
      BY <3>3, RegistryAssumption
    <3> QED
      BY <1>0, <2>5, <3>1, <3>2, <3>3, <3>4 DEF CallInv, WalkInv, EndUpdate
  <2>6. CASE DropOld(t)
    BY <1>0, <2>6 DEF TypeOK, CallInv, WalkInv, DropOld
  <2>7. CASE Release(t)
    BY <1>0, <2>7 DEF TypeOK, CallInv, WalkInv, Release
  <2> QED
    BY <1>1, <1>4, <2>1, <2>2, <2>3, <2>4, <2>5, <2>6, <2>7 DEF Section, DropOldPanic
<1>5. CASE Transpile(t)
  <2>1. PICK s \in Spelling : target' = [target EXCEPT ![t] = Lower[s]]
    BY <1>5 DEF Transpile
  <2>2. Lower[s] \in Spelling
    BY RegistryAssumption
  <2> QED
    BY <1>0, <1>5, <2>1, <2>2 DEF TypeOK, CallInv, WalkInv, Transpile
<1>6. CASE TranspileResolved(t)
  <2>1. Key(t) \in Spelling
    BY <1>0, <1>6, KeyInSpelling DEF TranspileResolved, CallInv, IInv
  <2> QED
    BY <1>0, <1>6, <2>1 DEF TypeOK, CallInv, WalkInv, TranspileResolved
<1>7. CASE AskPlugin(t)
  <2>1. target[t] \in Spelling
    BY <1>0, <1>7 DEF WalkInv, AskPlugin
  <2>2. Request("get", target[t], NoPlugin) \in Call
    BY <2>1, RequestType DEF Ops
  <2>3. call'[t] = Request("get", target[t], NoPlugin) /\ pc'[t] = "wait"
    BY <1>0, <1>7 DEF TypeOK, AskPlugin, Invoke
  <2>4. call'[t] # NoCall
    BY <2>2, <2>3, RegistryAssumption
  <2> QED
    BY <1>0, <1>7, <2>1, <2>2, <2>3, <2>4 DEF CallInv, WalkInv, AskPlugin, Request
<1>8. CASE FinishTranspile(t)
  BY <1>0, <1>8 DEF TypeOK, CallInv, WalkInv, FinishTranspile
<1>9. CASE Receive(t)
  <2>1. PICK p \in Plugin \cup {NoPlugin} :
           \/ p \in Plugin /\ arc' = [arc EXCEPT ![t] = p] /\ pc' = [pc EXCEPT ![t] = "hook"] /\ UNCHANGED todo
           \/ pc' = [pc EXCEPT ![t] = "walk"]
    BY <1>9 DEF Receive
  <2>2. target[t] \in Spelling /\ call'[t] = NoCall /\ target' = target
    BY <1>0, <1>9 DEF Receive, TypeOK
  <2>3. call[t] # NoCall /\ (pc'[t] = "hook" => todo'[t] # <<>>) /\ pc'[t] \in {"walk", "hook"}
    BY <1>0, <1>9, <2>1, <2>2 DEF Receive, TypeOK, CallInv, WalkInv
  <2>4. pc'[t] = "hook" => arc'[t] \in Plugin
    BY <1>0, <2>1 DEF TypeOK
  <2> QED
    BY <2>2, <2>3, <2>4 DEF CallInv, WalkInv
<1>10. CASE HookReturns(t)
  <2>1. CASE ~Unwind(t)
    <3>1. call[t] = NoCall /\ target[t] \in Spelling
      BY <1>0, <1>10 DEF HookReturns, CallInv, WalkInv
    <3>2. pc'[t] = "walk" /\ UNCHANGED <<calls, target>>
      BY <1>0, <1>10, <2>1 DEF HookReturns, TypeOK
    <3> QED
      BY <3>1, <3>2 DEF CallInv, WalkInv
  <2> QED
    BY <1>1, <2>1
<1>11. CASE Return(t)
  <2>1. CASE ~Unwind(t)
    <3>1. /\ pc'[t] = IF target[t] = NoName THEN "idle" ELSE "hook"
          /\ call'[t] = NoCall
          /\ UNCHANGED <<target, todo, arc>>
      BY <1>0, <1>11, <2>1 DEF Return, TypeOK
    <3>2. pc[t] = "answered" /\ (target[t] = NoName \/ arc[t] # NoPlugin)
      BY <1>11 DEF Return
    <3>3. target[t] # NoName => target[t] \in Spelling /\ arc[t] \in Plugin /\ todo[t] # <<>>
      BY <1>0, <3>2 DEF TypeOK, WalkInv
    <3> QED
      BY <3>1, <3>3, RegistryAssumption DEF CallInv, WalkInv
  <2> QED
    BY <1>1, <2>1
<1> QED
  BY <1>1, <1>2, <1>3, <1>4, <1>5, <1>6, <1>7, <1>8, <1>9, <1>10, <1>11 DEF FindPoisoned, HookPanics

LEMMA PhasesStep == IInv /\ [Next]_vars => Phases'
<1>. SUFFICES ASSUME IInv, [Next]_vars, NEW u \in Thread PROVE CallInv(u)' /\ WalkInv(u)'
  BY DEF Phases
<1>0. TypeOK /\ CallInv(u) /\ WalkInv(u)
  BY DEF IInv, Phases
<1>1. CASE UNCHANGED vars
  <2>1. Still(u)
    BY <1>1 DEF vars, calls, walks, Still
  <2> QED
    BY <1>0, <2>1, StillPhase
<1>2. ASSUME NEW t \in Thread,
             \/ CallRegistry(t) \/ Acquire(t) \/ FindPoisoned(t) \/ Section(t)
             \/ Transpile(t) \/ TranspileResolved(t) \/ AskPlugin(t) \/ FinishTranspile(t)
             \/ Receive(t) \/ HookReturns(t) \/ HookPanics(t) \/ Return(t)
      PROVE  CallInv(u)' /\ WalkInv(u)'
  <2>1. CASE u = t
    BY <1>2, <2>1, OwnPhase
  <2>2. CASE u # t
    <3>1. u \in Thread \ {t}
      BY <2>2
    <3>2. Still(u)
      BY <1>0, <1>2, <3>1, StillOthers
    <3> QED
      BY <1>0, <3>2, StillPhase
  <2> QED
    BY <2>1, <2>2
<1> QED
  BY <1>1, <1>2 DEF Next

-----------------------------------------------------------------------------

\* A step outside the lock leaves the lock and the map as they are.
LEMMA OutsideLock ==
    ASSUME Locking, NEW t \in Thread,
           \A u \in Thread \ {t} : Still(u),
           UNCHANGED <<dialects, holder, poisoned>>,
           pc[t] \notin InSection, pc'[t] \notin InSection
    PROVE  Locking'
<1>1. \A u \in Thread : pc'[u] \in InSection <=> pc[u] \in InSection
  BY DEF Still
<1>2. \A u \in Thread : pc'[u] = "midway" <=> pc[u] = "midway"
  BY DEF Still, InSection
<1>3. \A u \in Thread : pc[u] = "midway" => Key(u)' = Key(u)
  BY DEF Still, InSection, Key
<1> QED
  BY <1>1, <1>2, <1>3 DEF Locking

LEMMA LockingStep == IInv /\ [Next]_vars => Locking'
<1>. SUFFICES ASSUME IInv, [Next]_vars PROVE Locking'
  OBVIOUS
<1>0. TypeOK /\ Locking /\ Phases
  BY DEF IInv
<1>1. CASE UNCHANGED vars
  BY <1>0, <1>1 DEF vars, calls, Locking, Key
<1>2. ASSUME NEW t \in Thread,
             \/ CallRegistry(t) \/ FindPoisoned(t)
             \/ Transpile(t) \/ TranspileResolved(t) \/ AskPlugin(t) \/ FinishTranspile(t)
             \/ Receive(t) \/ HookReturns(t) \/ HookPanics(t) \/ Return(t)
      PROVE  Locking'
  <2>1. \A u \in Thread \ {t} : Still(u)
    BY <1>0, <1>2, StillOthers
  <2>2. UNCHANGED <<dialects, holder, poisoned>>
    BY <1>2 DEF CallRegistry, FindPoisoned, Transpile, TranspileResolved, AskPlugin,
                FinishTranspile, Receive, HookReturns, HookPanics, Return
  <2>3. pc[t] \notin InSection
    BY <1>2 DEF CallRegistry, FindPoisoned, Transpile, TranspileResolved, AskPlugin,
                FinishTranspile, Receive, HookReturns, HookPanics, Return, InSection
  <2>4. pc'[t] \notin InSection
    <3>1. Unwind(t) => pc'[t] = "idle"
      BY <1>0 DEF TypeOK, Unwind
    <3>2. (CallRegistry(t) \/ AskPlugin(t)) => pc'[t] = "wait"
      BY <1>0 DEF TypeOK, CallRegistry, AskPlugin, Invoke
    <3>3. (Transpile(t) \/ TranspileResolved(t)) => pc'[t] = "walk"
      BY <1>0 DEF TypeOK, Transpile, TranspileResolved
    <3>4. FinishTranspile(t) => pc'[t] = "idle"
      BY <1>0 DEF TypeOK, FinishTranspile
    <3>5. Receive(t) => pc'[t] \in {"hook", "walk"}
      BY <1>0 DEF TypeOK, Receive
    <3>6. HookReturns(t) => Unwind(t) \/ pc'[t] = "walk"
      BY <1>0 DEF TypeOK, HookReturns
    <3>7. Return(t) => Unwind(t) \/ pc'[t] \in {"idle", "hook"}
      BY <1>0 DEF TypeOK, Return
    <3>8. (FindPoisoned(t) \/ HookPanics(t)) => Unwind(t)
      BY DEF FindPoisoned, HookPanics
    <3> QED
      BY <1>2, <3>1, <3>2, <3>3, <3>4, <3>5, <3>6, <3>7, <3>8 DEF InSection
  <2> QED
    BY <1>0, <2>1, <2>2, <2>3, <2>4, OutsideLock
<1>3. ASSUME NEW t \in Thread, Acquire(t)
      PROVE  Locking'
  <2>1. \A u \in Thread : pc[u] \notin InSection
    BY <1>0, <1>3, RegistryAssumption DEF Locking, Acquire
  <2>2. \A u \in Thread : pc'[u] \in InSection <=> u = t
    BY <1>0, <1>3, <2>1 DEF TypeOK, Acquire, InSection
  <2>3. \A u \in Thread : pc[u] # "midway" /\ pc'[u] # "midway"
    BY <1>0, <1>3, <2>1 DEF TypeOK, Acquire, InSection
  <2> QED
    BY <1>0, <1>3, <2>2, <2>3 DEF Locking, Acquire
<1>4. ASSUME NEW t \in Thread, Section(t)
      PROVE  Locking'
  <2>0. pc[t] \in InSection /\ holder = t /\ ~poisoned
    <3>1. pc[t] \in InSection
      BY <1>4 DEF Section, Lookup, ListNames, BeginUpdate, RemoveNothing, EndUpdate, DropOld,
                  DropOldPanic, Release, InSection
    <3> QED
      BY <1>0, <3>1, RegistryAssumption DEF Locking
  <2>1. \A u \in Thread \ {t} : Still(u)
    BY <1>0, <1>4, StillOthers
  <2>2. \A u \in Thread \ {t} : pc[u] \notin InSection /\ pc'[u] \notin InSection
    BY <1>0, <2>0, <2>1 DEF Locking, Still
  <2>3. \A u \in Thread \ {t} : pc[u] # "midway" /\ pc'[u] # "midway"
    BY <2>2 DEF InSection
  <2>4. CASE Lookup(t) \/ ListNames(t) \/ RemoveNothing(t)
    <3>1. pc[t] = "section" /\ pc'[t] = "release" /\ UNCHANGED <<dialects, holder, poisoned>>
      BY <1>0, <2>4 DEF TypeOK, Lookup, ListNames, RemoveNothing
    <3>2. \A s \in Spelling : dialects[s] # Torn
      BY <1>0, <2>3, <3>1 DEF Locking
    <3> QED
      BY <2>0, <2>2, <2>3, <3>1, <3>2 DEF Locking, InSection
  <2>5. CASE BeginUpdate(t)
    <3>1. /\ pc[t] = "section" /\ pc'[t] = "midway" /\ UNCHANGED <<holder, poisoned, call>>
          /\ dialects' = [dialects EXCEPT ![Key(t)] = Torn]
      BY <1>0, <2>5 DEF TypeOK, BeginUpdate
    <3>2. \A s \in Spelling : dialects[s] # Torn
      BY <1>0, <2>3, <3>1 DEF Locking
    <3>3. Key(t) \in Spelling /\ Key(t)' = Key(t)
      BY <1>0, <2>5, <3>1, KeyInSpelling DEF BeginUpdate, Phases, CallInv, Key
    <3>4. \A s \in Spelling : dialects'[s] = Torn <=> s = Key(t)
      BY <1>0, <3>1, <3>2, <3>3 DEF TypeOK
    <3> QED
      BY <2>0, <2>2, <2>3, <3>1, <3>3, <3>4 DEF Locking, InSection
  <2>6. CASE EndUpdate(t)
    <3>1. /\ pc[t] = "midway" /\ pc'[t] = "drop" /\ UNCHANGED <<holder, poisoned>>
          /\ dialects' = [dialects EXCEPT ![Key(t)] = call[t].plugin]
      BY <1>0, <2>6 DEF TypeOK, EndUpdate
    <3>2. call[t] # NoCall /\ call[t].op # "names"
      BY <1>0, <3>1 DEF Phases, CallInv
    <3>3. Key(t) \in Spelling /\ call[t].plugin # Torn
      BY <1>0, <3>2, KeyInSpelling, RegistryAssumption DEF Phases, CallInv, Call
    <3>4. \A s \in Spelling : dialects[s] = Torn => s = Key(t)
      BY <1>0, <2>3, <3>1 DEF Locking
    <3>5. \A s \in Spelling : dialects'[s] # Torn
      BY <1>0, <3>1, <3>3, <3>4 DEF TypeOK
    <3> QED
      BY <2>0, <2>2, <2>3, <3>1, <3>5 DEF Locking, InSection
  <2>7. CASE DropOld(t)
    <3>1. pc[t] = "drop" /\ pc'[t] = "release" /\ UNCHANGED <<dialects, holder, poisoned>>
      BY <1>0, <2>7 DEF TypeOK, DropOld
    <3>2. \A s \in Spelling : dialects[s] # Torn
      BY <1>0, <2>3, <3>1 DEF Locking
    <3> QED
      BY <2>0, <2>2, <2>3, <3>1, <3>2 DEF Locking, InSection
  <2>8. CASE DropOldPanic(t) \/ Release(t)
    <3>1. /\ pc[t] \in {"drop", "release"} /\ pc'[t] \in {"idle", "answered"}
          /\ dialects' = dialects /\ holder' = NoThread
      BY <1>0, <2>8 DEF TypeOK, DropOldPanic, Release, Unwind
    <3>2. \A s \in Spelling : dialects[s] # Torn
      BY <1>0, <2>3, <3>1 DEF Locking
    <3> QED
      BY <2>0, <2>2, <2>3, <3>1, <3>2, RegistryAssumption DEF Locking, InSection
  <2> QED
    BY <1>4, <2>4, <2>5, <2>6, <2>7, <2>8 DEF Section
<1> QED
  BY <1>1, <1>2, <1>3, <1>4 DEF Next

-----------------------------------------------------------------------------

LEMMA InitIInv == Init => IInv
<1>. SUFFICES ASSUME Init PROVE IInv
  OBVIOUS
<1>. USE RegistryAssumption DEF Init
<1>1. TypeOK
  <2>1. /\ <<NoPlugin>> \in Seq(Plugin \cup {NoPlugin})
        /\ <<>> \in Seq(Plugin \cup {NoPlugin})
        /\ <<>> \in Seq(Site)
    OBVIOUS
  <2>2. pc \in [Thread -> PC]
    BY DEF PC
  <2>3. todo \in [Thread -> Seq(Site)] /\ seen \in [Thread -> Seq(Plugin \cup {NoPlugin})]
    BY <2>1
  <2>4. past \in [Spelling -> Seq(Plugin \cup {NoPlugin})]
    BY <2>1
  <2> QED
    BY <2>2, <2>3, <2>4 DEF TypeOK
<1>2. Phases
  BY DEF Phases, CallInv, WalkInv
<1>3. Locking
  BY DEF Locking, InSection
<1> QED
  BY <1>1, <1>2, <1>3 DEF IInv

\* IInv is inductive.
THEOREM Inductive == Spec => []IInv
<1>1. IInv /\ [Next]_vars => IInv'
  BY TypeStep, PhasesStep, LockingStep DEF IInv
<1> QED
  BY <1>1, InitIInv, PTL DEF Spec

\* The registry and the transforms are type-correct.
THEOREM TypeCorrect == Spec => []TypeOK
<1>1. IInv => TypeOK
  BY DEF IInv
<1> QED
  BY <1>1, Inductive, PTL

\* The map is only ever touched under the lock, and no hook or caller runs
\* while its thread has the lock: Mutex<HashMap<..>> in plugin.rs does its job.
THEOREM AlwaysOneWriter == Spec => []OneWriter
<1>1. IInv => OneWriter
  BY DEF IInv, Locking, OneWriter
<1> QED
  BY <1>1, Inductive, PTL

-----------------------------------------------------------------------------
(* The registry implements AtomicRegistry: an operation takes effect when it   *)
(* has read the map, or when its update of the map ends.                       *)

\* The abstract map and answers, as DialectRegistry's INSTANCE defines them.
Entries == [s \in Spelling |-> IF dialects[s] = Torn THEN old[holder] ELSE dialects[s]]
Replies == [t \in Thread |-> IF pc[t] \in {"drop", "release", "answered"} THEN got[t] ELSE Pending]

\* With no update under way the abstract map is the concrete one.
LEMMA WholeMap ==
    ASSUME TypeOK, \A s \in Spelling : dialects[s] # Torn
    PROVE  Entries = dialects
BY DEF TypeOK, Entries

\* A step that does not change the map, nor where the entry in flight is, does
\* not change the abstract map.
LEMMA SameMap ==
    ASSUME IInv, NEW t \in Thread, pc[t] # "midway",
           \A u \in Thread \ {t} : Still(u), UNCHANGED <<dialects, holder>>
    PROVE  Entries' = Entries
<1>1. \A s \in Spelling : dialects[s] = Torn => holder \in Thread /\ pc[holder] = "midway"
  BY DEF IInv, Locking, InSection
<1>2. \A s \in Spelling : dialects[s] = Torn => old'[holder] = old[holder]
  BY <1>1 DEF Still
<1> QED
  BY <1>2 DEF Entries

\* What a step of t shows of its answer.
LEMMA OneReply ==
    ASSUME TypeOK, TypeOK', NEW t \in Thread, \A u \in Thread \ {t} : Still(u)
    PROVE  Replies' = [Replies EXCEPT ![t] =
              IF pc'[t] \in {"drop", "release", "answered"} THEN got'[t] ELSE Pending]
BY DEF Still, Replies

\* What a step of t shows of its call.
LEMMA OneRequest ==
    ASSUME TypeOK, TypeOK', NEW t \in Thread, \A u \in Thread \ {t} : Still(u)
    PROVE  call' = [call EXCEPT ![t] = call'[t]]
BY DEF Still, TypeOK

\* An answer is a set of plugins and names, so it is not Pending.
LEMMA Answered ==
    ASSUME TypeOK, NEW t \in Thread
    PROVE  /\ got[t] # Pending
           /\ Replies[t] # Pending <=> pc[t] \in {"drop", "release", "answered"}
           /\ pc[t] \in {"drop", "release", "answered"} => Replies[t] = got[t]
BY RegistryAssumption DEF TypeOK, Replies

\* The initial states agree.
LEMMA AtomicInit == Init => Atomic!AInit
<1>. SUFFICES ASSUME Init PROVE Atomic!AInit
  OBVIOUS
<1>1. \A s \in Spelling : dialects[s] = NoPlugin /\ dialects[s] # Torn
  BY RegistryAssumption DEF Init
<1> QED
  BY <1>1 DEF Init, Atomic!AInit

\* Calling the registry is Ask.
LEMMA AskStep ==
    ASSUME IInv, IInv', NEW t \in Thread, CallRegistry(t) \/ AskPlugin(t),
           \A u \in Thread \ {t} : Still(u)
    PROVE  Atomic!ANext
<1>. USE DEF calls, walks
<1>0. TypeOK /\ TypeOK'
  BY DEF IInv
<1>1. pc[t] \in {"idle", "hook", "walk"} /\ UNCHANGED <<dialects, holder, poisoned>>
  BY DEF CallRegistry, AskPlugin
<1>2. pc'[t] = "wait"
  BY <1>0 DEF CallRegistry, AskPlugin, Invoke, TypeOK
<1>3. call[t] = NoCall
  BY <1>1 DEF IInv, Phases, CallInv
<1>4. Entries' = Entries
  BY <1>1, SameMap
<1>5. Replies' = Replies
  <2>1. Replies[t] = Pending
    BY <1>1 DEF Replies
  <2>2. Replies' = [Replies EXCEPT ![t] = Pending]
    BY <1>0, <1>2, OneReply
  <2> QED
    BY <2>1, <2>2 DEF Replies
<1>6. PICK c \in Call : call' = [call EXCEPT ![t] = c]
  <2>1. call'[t] \in Call
    <3>1. call'[t] # NoCall
      BY <1>2 DEF IInv, Phases, CallInv
    <3> QED
      BY <1>0, <3>1 DEF TypeOK
  <2> QED
    BY <1>0, <2>1, OneRequest
<1> QED
  BY <1>1, <1>3, <1>4, <1>5, <1>6 DEF Atomic!ANext, Atomic!Ask, Entries, Replies, Call, Ops

\* Steps the caller does not see: taking and releasing the lock, beginning an
\* update, letting go of what came out, and the transform between two questions.
LEMMA SilentStep ==
    ASSUME IInv, IInv', NEW t \in Thread,
           \/ Acquire(t) \/ BeginUpdate(t) \/ DropOld(t) \/ Release(t)
           \/ Transpile(t) \/ FinishTranspile(t) \/ HookReturns(t) \/ HookPanics(t),
           \A u \in Thread \ {t} : Still(u)
    PROVE  UNCHANGED <<Entries, poisoned, call, Replies>>
<1>. USE DEF calls, walks
<1>0. TypeOK /\ TypeOK'
  BY DEF IInv
<1>1. poisoned' = poisoned
  BY DEF Acquire, BeginUpdate, DropOld, Release, Transpile, FinishTranspile, HookReturns, HookPanics
<1>2. CASE Acquire(t) \/ Release(t)
  <2>1. UNCHANGED <<dialects, calls>>
    BY <1>2 DEF Acquire, Release
  <2>2. \A u \in Thread : pc[u] # "midway"
    BY <1>2, RegistryAssumption DEF IInv, Locking, InSection, Acquire, Release
  <2>3. \A s \in Spelling : dialects[s] # Torn
    BY <2>2 DEF IInv, Locking
  <2>4. Entries' = Entries
    BY <1>0, <2>1, <2>3, WholeMap DEF Entries
  <2>5. pc'[t] \in {"drop", "release", "answered"} <=> pc[t] \in {"drop", "release", "answered"}
    BY <1>0, <1>2 DEF TypeOK, Acquire, Release
  <2>6. Replies' = Replies
    BY <2>1, <2>5 DEF Still, Replies
  <2> QED
    BY <1>1, <2>1, <2>4, <2>6
<1>3. CASE BeginUpdate(t)
  <2>1. holder = t /\ Key(t) \in Spelling
    BY <1>0, <1>3, KeyInSpelling DEF IInv, Locking, Phases, CallInv, InSection, BeginUpdate
  <2>2. \A s \in Spelling : dialects[s] \in Plugin \cup {NoPlugin}
    BY <1>3, NotTorn DEF IInv, BeginUpdate
  <2>3. \A s \in Spelling : dialects[s] # Torn
    BY <2>2, RegistryAssumption
  <2>4. Entries = dialects
    BY <1>0, <2>3, WholeMap
  <2>5. /\ dialects' = [dialects EXCEPT ![Key(t)] = Torn]
        /\ old'[t] = dialects[Key(t)] /\ UNCHANGED <<holder, call, got>>
    BY <1>0, <1>3 DEF TypeOK, BeginUpdate
  <2>6. \A s \in Spelling : (IF dialects'[s] = Torn THEN old'[holder'] ELSE dialects'[s]) = dialects[s]
    BY <1>0, <2>1, <2>3, <2>5 DEF TypeOK
  <2>7. Entries' = dialects
    BY <1>0, <2>6 DEF Entries, TypeOK
  <2>8. pc[t] = "section" /\ pc'[t] = "midway"
    BY <1>0, <1>3 DEF TypeOK, BeginUpdate
  <2>9. Replies' = Replies
    BY <2>5, <2>8 DEF Still, Replies
  <2> QED
    BY <1>1, <2>4, <2>5, <2>7, <2>9
<1>4. CASE DropOld(t)
  <2>1. UNCHANGED <<dialects, holder, call, got>> /\ pc[t] = "drop" /\ pc'[t] = "release"
    BY <1>0, <1>4 DEF DropOld, TypeOK
  <2>2. Entries' = Entries
    BY <2>1, SameMap
  <2>3. Replies' = Replies
    BY <2>1 DEF Still, Replies
  <2> QED
    BY <1>1, <2>1, <2>2, <2>3
<1>5. CASE Transpile(t) \/ FinishTranspile(t) \/ HookReturns(t) \/ HookPanics(t)
  <2>1. UNCHANGED <<dialects, holder>> /\ pc[t] \in {"idle", "walk", "hook"}
    BY <1>5 DEF Transpile, FinishTranspile, HookReturns, HookPanics
  <2>2. Entries' = Entries
    BY <2>1, SameMap
  <2>3. call[t] = NoCall
    BY <2>1 DEF IInv, Phases, CallInv
  <2>4. pc'[t] \in {"idle", "walk"} /\ call'[t] = NoCall
    <3>1. Unwind(t) => pc'[t] = "idle" /\ call'[t] = NoCall
      BY <1>0 DEF TypeOK, Unwind
    <3>2. (Transpile(t) \/ FinishTranspile(t)) => pc'[t] \in {"idle", "walk"} /\ call'[t] = NoCall
      BY <1>0, <2>3 DEF TypeOK, Transpile, FinishTranspile
    <3>3. HookReturns(t) => Unwind(t) \/ (pc'[t] = "walk" /\ call'[t] = NoCall)
      BY <1>0, <2>3 DEF TypeOK, HookReturns
    <3>4. HookPanics(t) => Unwind(t)
      BY DEF HookPanics
    <3> QED
      BY <1>5, <3>1, <3>2, <3>3, <3>4
  <2>5. Replies' = Replies
    BY <2>1, <2>4 DEF Still, Replies
  <2>6. call' = call
    <3>1. call' = [call EXCEPT ![t] = NoCall]
      BY <1>0, <2>4, OneRequest
    <3> QED
      BY <1>0, <2>3, <3>1 DEF TypeOK
  <2> QED
    BY <1>1, <2>2, <2>5, <2>6
<1> QED
  BY <1>2, <1>3, <1>4, <1>5

\* A step that answers is Serve.
LEMMA ServeStep ==
    ASSUME IInv, IInv', NEW t \in Thread,
           Lookup(t) \/ ListNames(t) \/ RemoveNothing(t) \/ EndUpdate(t),
           \A u \in Thread \ {t} : Still(u)
    PROVE  Atomic!Serve(t)
<1>. USE DEF calls, walks
<1>0. TypeOK /\ TypeOK'
  BY DEF IInv
<1>1. pc[t] \in {"section", "midway"} /\ UNCHANGED poisoned
  BY DEF Lookup, ListNames, RemoveNothing, EndUpdate
<1>2. call[t] # NoCall /\ holder = t /\ ~poisoned
  <2>1. call[t] # NoCall
    BY <1>1 DEF IInv, Phases, CallInv
  <2>2. holder = t
    BY <1>1 DEF IInv, Locking, InSection
  <2> QED
    BY <2>1, <2>2, RegistryAssumption DEF IInv, Locking
<1>3. Replies[t] = Pending
  BY <1>1 DEF Replies
<1>4. pc'[t] \in {"drop", "release", "answered"}
  BY <1>0 DEF Lookup, ListNames, RemoveNothing, EndUpdate, TypeOK
<1>5. Replies' = [Replies EXCEPT ![t] = got'[t]]
  BY <1>0, <1>4, OneReply
<1>6. CASE pc[t] = "section"
  <2>1. \A s \in Spelling : dialects[s] \in Plugin \cup {NoPlugin}
    BY <1>0, <1>6, NotTorn DEF IInv
  <2>2. \A s \in Spelling : dialects[s] # Torn
    BY <2>1, RegistryAssumption
  <2>3. dialects' = dialects /\ call' = call
    BY <1>6 DEF Lookup, ListNames, RemoveNothing, EndUpdate
  <2>4. Entries = dialects /\ Entries' = dialects
    BY <1>0, <2>2, <2>3, WholeMap DEF Entries
  <2>5. call[t].op # "register"
    BY <1>6, <1>2 DEF Lookup, ListNames, RemoveNothing, EndUpdate
  <2>6. call' = [call EXCEPT ![t].plugin = NoPlugin]
    <3>1. call[t] \in Call /\ call[t].plugin = NoPlugin
      BY <1>2, <2>5 DEF IInv, Phases, CallInv
    <3>2. [call[t] EXCEPT !.plugin = NoPlugin] = call[t]
      BY <3>1 DEF Call
    <3> QED
      BY <1>0, <2>3, <3>2 DEF TypeOK
  <2>7. CASE Lookup(t)
    <3>1. got'[t] = Some(dialects[Key(t)]) /\ call[t].op \in {"get", "resolve"}
      BY <1>0, <2>7 DEF Lookup, TypeOK
    <3> QED
      BY <1>1, <1>2, <1>3, <1>5, <2>4, <2>6, <3>1
         DEF Atomic!Serve, Atomic!Option, Entries, Replies, Some, Key
  <2>8. CASE ListNames(t)
    <3>1. got'[t] = {s \in Spelling : dialects[s] # NoPlugin} /\ call[t].op = "names"
      BY <1>0, <2>8 DEF ListNames, TypeOK
    <3>2. got'[t] = {s \in Spelling : Entries[s] # NoPlugin}
      BY <2>4, <3>1
    <3>3. Atomic!Registered = {s \in Spelling : Entries[s] # NoPlugin}
      BY DEF Atomic!Registered, Entries
    <3> QED
      BY <1>1, <1>2, <1>3, <1>5, <2>4, <2>6, <3>1, <3>2, <3>3
         DEF Atomic!Serve, Entries, Replies
  <2>9. CASE RemoveNothing(t)
    <3>1. got'[t] = {} /\ call[t].op = "unregister" /\ dialects[Key(t)] = NoPlugin
      BY <1>0, <2>9 DEF RemoveNothing, TypeOK
    <3>2. Key(t) \in Spelling
      BY <1>0, <1>2, <3>1, KeyInSpelling DEF IInv
    <3>3. Entries' = [Entries EXCEPT ![Key(t)] = NoPlugin]
      BY <1>0, <2>4, <3>1, <3>2 DEF TypeOK
    <3> QED
      BY <1>1, <1>2, <1>3, <1>5, <2>4, <2>6, <3>1, <3>3
         DEF Atomic!Serve, Entries, Replies, Key
  <2> QED
    BY <1>6, <2>7, <2>8, <2>9 DEF EndUpdate
<1>7. CASE pc[t] = "midway"
  <2>1. EndUpdate(t)
    BY <1>7 DEF Lookup, ListNames, RemoveNothing
  <2>2. call[t] \in Call /\ call[t].op \in {"register", "unregister"}
    BY <1>2, <1>7 DEF IInv, Phases, CallInv
  <2>3. Key(t) \in Spelling /\ call[t].plugin \in Plugin \cup {NoPlugin}
    BY <1>0, <1>2, <2>2, KeyInSpelling DEF IInv, Call
  <2>4. \A s \in Spelling : dialects[s] = Torn => s = Key(t)
    BY <1>2, <1>7 DEF IInv, Locking, InSection
  <2>5. dialects[Key(t)] = Torn
    BY <1>7 DEF IInv, Locking
  <2>6. /\ dialects' = [dialects EXCEPT ![Key(t)] = call[t].plugin]
        /\ call' = [call EXCEPT ![t].plugin = NoPlugin]
        /\ got'[t] = IF call[t].op = "unregister" THEN {Key(t)} ELSE {}
    BY <1>0, <2>1 DEF EndUpdate, TypeOK
  <2>7. \A s \in Spelling : dialects'[s] # Torn
    BY <1>0, <2>3, <2>4, <2>6, RegistryAssumption DEF TypeOK
  <2>8. Entries' = [Entries EXCEPT ![Key(t)] = call[t].plugin]
    <3>1. \A s \in Spelling : s # Key(t) => dialects'[s] = Entries[s]
      BY <1>0, <2>4, <2>6 DEF TypeOK, Entries
    <3>2. dialects'[Key(t)] = call[t].plugin
      BY <1>0, <2>3, <2>6 DEF TypeOK
    <3>3. Entries' = [s \in Spelling |-> dialects'[s]]
      BY <2>7 DEF Entries
    <3> QED
      BY <3>1, <3>2, <3>3, <2>3 DEF Entries
  <2>9. CASE call[t].op = "register"
    BY <1>1, <1>2, <1>3, <1>5, <2>6, <2>8, <2>9
       DEF Atomic!Serve, Entries, Replies, Key
  <2>10. CASE call[t].op = "unregister"
    <3>1. old[t] # NoPlugin /\ call[t].plugin = NoPlugin
      BY <1>2, <1>7, <2>10 DEF IInv, Phases, CallInv
    <3>2. Entries[Key(t)] # NoPlugin
      BY <1>2, <2>3, <2>5, <3>1 DEF Entries
    <3> QED
      BY <1>1, <1>2, <1>3, <1>5, <2>6, <2>8, <2>10, <3>1, <3>2
         DEF Atomic!Serve, Entries, Replies, Key
  <2> QED
    BY <2>2, <2>9, <2>10
<1> QED
  BY <1>1, <1>6, <1>7

\* A step that gives the answer to the caller is Finish, one that finds the
\* lock poisoned is Refuse, and a destructor's panic under the lock is Break.
LEMMA LeaveStep ==
    ASSUME IInv, IInv', NEW t \in Thread,
           \/ TranspileResolved(t) \/ Receive(t) \/ Return(t)
           \/ FindPoisoned(t) \/ DropOldPanic(t),
           \A u \in Thread \ {t} : Still(u)
    PROVE  Atomic!Finish(t) \/ Atomic!Refuse(t) \/ Atomic!Break(t)
<1>. USE DEF calls, walks
<1>0. TypeOK /\ TypeOK'
  BY DEF IInv
<1>1. dialects' = dialects
  BY DEF TranspileResolved, Receive, Return, FindPoisoned, DropOldPanic
<1>2. call'[t] = NoCall /\ pc'[t] \in {"idle", "walk", "hook"}
  <2>1. Unwind(t) => pc'[t] = "idle" /\ call'[t] = NoCall
    BY <1>0 DEF TypeOK, Unwind
  <2>2. TranspileResolved(t) => pc'[t] = "walk" /\ call'[t] = NoCall
    BY <1>0 DEF TypeOK, TranspileResolved
  <2>3. Receive(t) => pc'[t] \in {"walk", "hook"} /\ call'[t] = NoCall
    BY <1>0 DEF TypeOK, Receive
  <2>4. Return(t) => Unwind(t) \/ (pc'[t] \in {"idle", "hook"} /\ call'[t] = NoCall)
    BY <1>0 DEF TypeOK, Return
  <2>5. (FindPoisoned(t) \/ DropOldPanic(t)) => Unwind(t)
    BY DEF FindPoisoned, DropOldPanic
  <2> QED
    BY <2>1, <2>2, <2>3, <2>4, <2>5
<1>3. call' = [call EXCEPT ![t] = NoCall]
  BY <1>0, <1>2, OneRequest
<1>4. Replies' = [Replies EXCEPT ![t] = Pending]
  BY <1>0, <1>2, OneReply
<1>5. CASE TranspileResolved(t) \/ Receive(t) \/ Return(t) \/ FindPoisoned(t)
  <2>1. pc[t] \in {"answered", "wait"} /\ UNCHANGED <<dialects, holder, poisoned>>
    BY <1>5 DEF TranspileResolved, Receive, Return, FindPoisoned
  <2>2. Entries' = Entries
    BY <2>1, SameMap
  <2>3. CASE FindPoisoned(t)
    <3>1. pc[t] = "wait" /\ poisoned
      BY <2>3 DEF FindPoisoned
    <3>2. call[t] # NoCall /\ Replies[t] = Pending
      BY <3>1 DEF IInv, Phases, CallInv, Replies
    <3> QED
      BY <1>3, <1>4, <2>1, <2>2, <3>1, <3>2 DEF Atomic!Refuse, Atomic!Leave, Entries, Replies
  <2>4. CASE TranspileResolved(t) \/ Receive(t) \/ Return(t)
    <3>1. pc[t] = "answered"
      BY <2>4 DEF TranspileResolved, Receive, Return
    <3>2. Replies[t] # Pending
      BY <1>0, <3>1, Answered
    <3> QED
      BY <1>3, <1>4, <2>1, <2>2, <3>2 DEF Atomic!Finish, Atomic!Leave, Entries, Replies
  <2> QED
    BY <1>5, <2>3, <2>4
<1>6. CASE DropOldPanic(t)
  <2>1. pc[t] = "drop" /\ poisoned' = TRUE
    BY <1>6 DEF DropOldPanic
  <2>2. holder = t
    BY <2>1 DEF IInv, Locking, InSection
  <2>3. \A s \in Spelling : dialects[s] # Torn
    BY <2>1, <2>2 DEF IInv, Locking, InSection
  <2>4. Entries' = Entries
    BY <1>0, <1>1, <2>3, WholeMap DEF Entries
  <2>5. Replies[t] # Pending
    BY <1>0, <2>1, Answered
  <2>6. call[t].op \in {"register", "unregister"}
    BY <2>1 DEF IInv, Phases, CallInv
  <2> QED
    BY <1>3, <1>4, <2>1, <2>4, <2>5, <2>6 DEF Atomic!Break, Atomic!Leave, Entries, Replies
<1> QED
  BY <1>5, <1>6

LEMMA AtomicStep ==
    IInv /\ IInv' /\ [Next]_vars => [Atomic!ANext]_(Atomic!avars)
<1>. SUFFICES ASSUME IInv, IInv', [Next]_vars
              PROVE  Atomic!ANext \/ UNCHANGED Atomic!avars
  OBVIOUS
<1>1. CASE UNCHANGED vars
  BY <1>1 DEF vars, calls, walks, Atomic!avars
<1>2. ASSUME NEW t \in Thread,
             \/ CallRegistry(t) \/ Acquire(t) \/ FindPoisoned(t) \/ Section(t)
             \/ Transpile(t) \/ TranspileResolved(t) \/ AskPlugin(t) \/ FinishTranspile(t)
             \/ Receive(t) \/ HookReturns(t) \/ HookPanics(t) \/ Return(t)
      PROVE  Atomic!ANext \/ UNCHANGED Atomic!avars
  <2>0. \A u \in Thread \ {t} : Still(u)
    BY <1>2, StillOthers DEF IInv
  <2>1. CASE CallRegistry(t) \/ AskPlugin(t)
    BY <2>0, <2>1, AskStep
  <2>2. CASE \/ Acquire(t) \/ BeginUpdate(t) \/ DropOld(t) \/ Release(t)
             \/ Transpile(t) \/ FinishTranspile(t) \/ HookReturns(t) \/ HookPanics(t)
    <3>1. UNCHANGED <<Entries, poisoned, call, Replies>>
      BY <2>0, <2>2, SilentStep
    <3> QED
      BY <3>1 DEF Atomic!avars, Entries, Replies
  <2>3. CASE Lookup(t) \/ ListNames(t) \/ RemoveNothing(t) \/ EndUpdate(t)
    <3>1. Atomic!Serve(t)
      BY <2>0, <2>3, ServeStep
    <3> QED
      BY <3>1 DEF Atomic!ANext
  <2>4. CASE \/ TranspileResolved(t) \/ Receive(t) \/ Return(t)
             \/ FindPoisoned(t) \/ DropOldPanic(t)
    <3>1. Atomic!Finish(t) \/ Atomic!Refuse(t) \/ Atomic!Break(t)
      BY <2>0, <2>4, LeaveStep
    <3> QED
      BY <3>1 DEF Atomic!ANext
  <2> QED
    BY <1>2, <2>1, <2>2, <2>3, <2>4 DEF Section
<1> QED
  BY <1>1, <1>2 DEF Next

\* The registry is linearizable: whatever threads and plugins do, its operations
\* behave as if each had worked on the whole map in one step between its call
\* and its return ("thread-safe registry").
THEOREM RegistryIsAtomic == Spec => ImplementsAtomic
<1>1. IInv /\ [Next]_vars => IInv'
  BY TypeStep, PhasesStep, LockingStep DEF IInv
<1> QED
  BY <1>1, InitIInv, AtomicInit, AtomicStep, PTL DEF Spec, ImplementsAtomic, Atomic!ASpec
=============================================================================
