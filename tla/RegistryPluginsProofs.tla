----------------------- MODULE RegistryPluginsProofs -----------------------
(* Theorems about DialectRegistry, for any threads, names, plugins and         *)
(* statements: who keeps a plugin object alive and when its destructor runs,   *)
(* and that what a transform hears of its dialect is a part of that dialect's  *)
(* history.                                                                    *)
EXTENDS DialectRegistryProofs, SequenceTheorems

HasAnswer(t) == pc[t] \in {"drop", "release", "answered"}

\* What a thread has in hand at each point of an operation and of a walk: an
\* answer once it has one, the entry it has taken out while it updates the map,
\* and the Arc of the hook it is in.
Hands(t) ==
    /\ ~HasAnswer(t) => got[t] = {}
    /\ pc[t] \notin {"midway", "drop"} => old[t] = NoPlugin
    /\ HasAnswer(t) => call[t].plugin = NoPlugin
    /\ HasAnswer(t) /\ call[t].op \notin {"get", "resolve"} => got[t] \subseteq Spelling
    /\ HasAnswer(t) /\ call[t].op \in {"get", "resolve"} => \A p, q \in got[t] : p = q
    /\ target[t] = NoName \/ pc[t] = "walk" => arc[t] = NoPlugin
    /\ target[t] # NoName /\ arc[t] = NoPlugin /\ call[t] # NoCall => call[t].op = "get"

AllHands == \A t \in Thread : Hands(t)

\* A plugin that register() has not had is nowhere.
FreshUnshared == fresh \cap (InMap \cup UNION {Arcs(t) : t \in Thread}) = {}

Steps(t) ==
    \/ CallRegistry(t) \/ Acquire(t) \/ FindPoisoned(t) \/ Section(t)
    \/ Transpile(t) \/ TranspileResolved(t) \/ AskPlugin(t) \/ FinishTranspile(t)
    \/ Receive(t) \/ HookReturns(t) \/ HookPanics(t) \/ Return(t)

-----------------------------------------------------------------------------
\* The hands of the thread that moves and of the others.

LEMMA HandsOfOthers ==
    ASSUME NEW u \in Thread, Hands(u), Still(u)
    PROVE  Hands(u)'
BY DEF Hands, Still, HasAnswer

LEMMA HandsUnwound ==
    ASSUME TypeOK, NEW t \in Thread, Unwind(t)
    PROVE  Hands(t)'
<1>1. /\ pc'[t] = "idle" /\ call'[t] = NoCall /\ got'[t] = {}
      /\ old'[t] = NoPlugin /\ target'[t] = NoName /\ arc'[t] = NoPlugin
  BY DEF TypeOK, Unwind
<1> QED
  BY <1>1 DEF Hands, HasAnswer

LEMMA OwnHands ==
    ASSUME IInv, NEW t \in Thread, Hands(t), Steps(t)
    PROVE  Hands(t)'
<1>0. TypeOK /\ CallInv(t) /\ WalkInv(t)
  BY DEF IInv, Phases
<1>. USE DEF calls, walks
<1>1. CASE Unwind(t)
  BY <1>0, <1>1, HandsUnwound
<1>2. CASE CallRegistry(t)
  <2>1. /\ pc[t] \in {"idle", "hook"} /\ pc'[t] = "wait"
        /\ UNCHANGED <<got, old, target, arc>>
    BY <1>0, <1>2 DEF CallRegistry, Invoke, TypeOK
  <2>2. target[t] # NoName => arc[t] # NoPlugin
    BY <1>0, <2>1, RegistryAssumption DEF WalkInv
  <2> QED
    BY <2>1, <2>2 DEF Hands, HasAnswer
<1>3. CASE Acquire(t)
  BY <1>0, <1>3 DEF TypeOK, Hands, HasAnswer, Acquire
<1>4. CASE Lookup(t)
  <2>1. call[t].plugin = NoPlugin
    BY <1>0, <1>4 DEF CallInv, Lookup
  <2>2. \A p, q \in got'[t] : p = q
    BY <1>0, <1>4 DEF TypeOK, Lookup, Some
  <2> QED
    BY <1>0, <1>4, <2>1, <2>2 DEF TypeOK, Hands, HasAnswer, Lookup
<1>5. CASE ListNames(t)
  <2>1. call[t].plugin = NoPlugin
    BY <1>0, <1>5 DEF CallInv, ListNames
  <2> QED
    BY <1>0, <1>5, <2>1 DEF TypeOK, Hands, HasAnswer, ListNames
<1>6. CASE BeginUpdate(t)
  BY <1>0, <1>6 DEF TypeOK, Hands, HasAnswer, BeginUpdate
<1>7. CASE RemoveNothing(t)
  <2>1. call[t].plugin = NoPlugin
    BY <1>0, <1>7 DEF CallInv, RemoveNothing
  <2> QED
    BY <1>0, <1>7, <2>1 DEF TypeOK, Hands, HasAnswer, RemoveNothing
<1>8. CASE EndUpdate(t)
  <2>1. call[t] \in Call /\ call[t] # NoCall /\ call[t].op \in {"register", "unregister"}
    BY <1>0, <1>8 DEF CallInv, EndUpdate
  <2>2. Key(t) \in Spelling
    BY <1>0, <2>1, KeyInSpelling DEF IInv
  <2>3. call'[t] = [call[t] EXCEPT !.plugin = NoPlugin] /\ pc'[t] = "drop"
    BY <1>0, <1>8 DEF TypeOK, EndUpdate
  <2>4. call'[t].plugin = NoPlugin /\ call'[t].op = call[t].op
    BY <2>1, <2>3 DEF Call
  <2>5. got'[t] \subseteq Spelling
    BY <1>0, <1>8, <2>2 DEF TypeOK, EndUpdate
  <2> QED
    BY <1>8, <2>1, <2>3, <2>4, <2>5 DEF Hands, HasAnswer, EndUpdate
<1>9. CASE DropOld(t)
  BY <1>0, <1>9 DEF TypeOK, Hands, HasAnswer, DropOld
<1>10. CASE Release(t)
  BY <1>0, <1>10 DEF TypeOK, Hands, HasAnswer, Release
<1>11. CASE Transpile(t)
  BY <1>0, <1>11 DEF TypeOK, CallInv, WalkInv, Hands, HasAnswer, Transpile
<1>12. CASE TranspileResolved(t)
  <2>1. target[t] = NoName
    BY <1>0, <1>12 DEF TranspileResolved, CallInv, WalkInv
  <2> QED
    BY <1>0, <1>12, <2>1 DEF TypeOK, Hands, HasAnswer, TranspileResolved
<1>13. CASE AskPlugin(t)
  <2>1. call'[t].op = "get" /\ pc'[t] = "wait"
    BY <1>0, <1>13 DEF TypeOK, AskPlugin, Invoke, Request
  <2> QED
    BY <1>0, <1>13, <2>1 DEF TypeOK, Hands, HasAnswer, AskPlugin, Invoke
<1>14. CASE FinishTranspile(t)
  BY <1>0, <1>14 DEF TypeOK, CallInv, Hands, HasAnswer, FinishTranspile
<1>15. CASE Receive(t)
  BY <1>0, <1>15 DEF TypeOK, Hands, HasAnswer, Receive
<1>16. CASE HookReturns(t) /\ ~Unwind(t)
  <2>1. /\ arc'[t] = NoPlugin /\ pc'[t] = "walk"
        /\ UNCHANGED <<call, got, old, target>>
    BY <1>0, <1>16 DEF TypeOK, HookReturns
  <2>2. pc[t] = "hook" /\ call[t] = NoCall
    BY <1>0, <1>16 DEF HookReturns, CallInv
  <2> QED
    BY <2>1, <2>2 DEF Hands, HasAnswer
<1>17. CASE Return(t) /\ ~Unwind(t)
  <2>1. /\ pc'[t] = (IF target[t] = NoName THEN "idle" ELSE "hook")
        /\ call'[t] = NoCall /\ got'[t] = {}
        /\ UNCHANGED <<old, target, arc>> /\ pc[t] = "answered"
    BY <1>0, <1>17 DEF TypeOK, Return
  <2> QED
    BY <2>1 DEF Hands, HasAnswer
<1> QED
  BY <1>1, <1>2, <1>3, <1>4, <1>5, <1>6, <1>7, <1>8, <1>9, <1>10, <1>11, <1>12, <1>13,
     <1>14, <1>15, <1>16, <1>17 DEF Steps, Section, FindPoisoned, DropOldPanic, HookPanics

LEMMA HandsStep == IInv /\ AllHands /\ [Next]_vars => AllHands'
<1>. SUFFICES ASSUME IInv, AllHands, [Next]_vars, NEW u \in Thread PROVE Hands(u)'
  BY DEF AllHands
<1>1. CASE UNCHANGED vars
  BY <1>1, HandsOfOthers DEF vars, calls, walks, AllHands, Still
<1>2. ASSUME NEW t \in Thread, Steps(t) PROVE Hands(u)'
  <2>1. CASE u = t
    BY <1>2, <2>1, OwnHands DEF AllHands
  <2>2. CASE u # t
    <3>1. Still(u)
      BY <1>2, <2>2, StillOthers DEF Steps, IInv
    <3> QED
      BY <3>1, HandsOfOthers DEF AllHands
  <2> QED
    BY <2>1, <2>2
<1> QED
  BY <1>1, <1>2 DEF Next, Steps

-----------------------------------------------------------------------------
\* The plugins of the threads other than t, of the whole program but t, and of all.
Others(t) == UNION {Arcs(u) : u \in Thread \ {t}}
Elsewhere(t) == InMap \cup Others(t)

\* Ownership, from the point of view of one thread.
Owned(t) ==
    /\ fresh \cap (Elsewhere(t) \cup Arcs(t)) = {}
    /\ dropped = Plugin \ (fresh \cup Elsewhere(t) \cup Arcs(t))

LEMMA OwnedByAll ==
    ASSUME NEW t \in Thread
    PROVE  Owned(t) <=> FreshUnshared /\ DroppedWhenUnused
<1>1. UNION {Arcs(u) : u \in Thread} = Others(t) \cup Arcs(t)
  BY DEF Others
<1> QED
  BY <1>1 DEF Owned, Elsewhere, FreshUnshared, DroppedWhenUnused

LEMMA OthersStay ==
    ASSUME NEW t \in Thread, \A u \in Thread \ {t} : Still(u)
    PROVE  Others(t)' = Others(t)
<1>1. \A u \in Thread \ {t} : Arcs(u)' = Arcs(u)
  BY DEF Arcs, Still
<1> QED
  BY <1>1 DEF Others

LEMMA ArcsArePlugins == \A t \in Thread : Arcs(t) \subseteq Plugin
BY DEF Arcs

\* The three kinds of steps of t.  A plugin changes hands between t and the map ...
LEMMA Keeping ==
    ASSUME NEW t \in Thread, Owned(t), Others(t)' = Others(t),
           UNCHANGED <<fresh, dropped>>,
           InMap' \cup Arcs(t)' = InMap \cup Arcs(t)
    PROVE  Owned(t)'
BY DEF Owned, Elsewhere

\* ... or comes from the caller of register() ...
LEMMA Giving ==
    ASSUME NEW t \in Thread, Owned(t), Others(t)' = Others(t), InMap' = InMap,
           NEW p \in fresh, fresh' = fresh \ {p}, Arcs(t)' = Arcs(t) \cup {p},
           UNCHANGED dropped
    PROVE  Owned(t)'
BY DEF Owned, Elsewhere

\* ... or t lets go of some, and those of them that nobody else has are destroyed.
LEMMA LettingGo ==
    ASSUME NEW t \in Thread, Owned(t), Others(t)' = Others(t), InMap' = InMap,
           UNCHANGED fresh, Arcs(t)' \subseteq Arcs(t),
           dropped' = dropped \cup ((Arcs(t) \ Arcs(t)') \ Elsewhere(t))
    PROVE  Owned(t)'
<1>1. Elsewhere(t)' = Elsewhere(t)
  BY DEF Elsewhere
<1> QED
  BY <1>1, ArcsArePlugins DEF Owned

LEMMA Unwinding ==
    ASSUME TypeOK, NEW t \in Thread, Owned(t), Others(t)' = Others(t), Unwind(t),
           UNCHANGED <<dialects, fresh>>
    PROVE  Owned(t)'
<1>1. Arcs(t)' = {}
  <2>1. call'[t] = NoCall /\ got'[t] = {} /\ old'[t] = NoPlugin /\ arc'[t] = NoPlugin
    BY DEF TypeOK, Unwind
  <2> QED
    BY <2>1, RegistryAssumption DEF Arcs
<1>2. dropped' = dropped \cup (Arcs(t) \ Elsewhere(t))
  BY DEF Unwind, DropArcs, OtherArcs, Elsewhere, Others
<1>3. InMap' = InMap
  BY DEF InMap
<1> QED
  BY <1>1, <1>2, <1>3, LettingGo

LEMMA OwnedStep ==
    ASSUME IInv, AllHands, NEW t \in Thread, Owned(t), Steps(t)
    PROVE  Owned(t)'
<1>0. TypeOK /\ CallInv(t) /\ WalkInv(t) /\ Hands(t)
  BY DEF IInv, Phases, AllHands
<1>. USE DEF calls, walks
<1>1. Others(t)' = Others(t)
  <2>1. \A u \in Thread \ {t} : Still(u)
    BY StillOthers DEF Steps, IInv
  <2> QED
    BY <2>1, OthersStay
<1>2. dialects' = dialects => InMap' = InMap
  BY DEF InMap
<1>3. CASE Unwind(t) /\ UNCHANGED <<dialects, fresh>>
  BY <1>0, <1>1, <1>3, Unwinding
<1>4. CASE CallRegistry(t)
  <2>1. /\ pc[t] \in {"idle", "hook"} /\ call[t] = NoCall
        /\ UNCHANGED <<dialects, dropped, got, old, arc>>
    BY <1>0, <1>4 DEF CallRegistry, Invoke, CallInv
  <2>2. CASE \E p \in fresh : Invoke(t, Request("register", NameOf[p], p)) /\ fresh' = fresh \ {p}
    <3>1. PICK p \in fresh : Invoke(t, Request("register", NameOf[p], p)) /\ fresh' = fresh \ {p}
      BY <2>2
    <3>2. call'[t].plugin = p /\ call'[t] # NoCall /\ p \in Plugin
      <4>1. call'[t] = Request("register", NameOf[p], p) /\ p \in Plugin
        BY <1>0, <3>1 DEF TypeOK, Invoke
      <4>2. Request("register", NameOf[p], p) \in Call
        BY <4>1, RequestType, RegistryAssumption DEF Ops
      <4> QED
        BY <4>1, <4>2, RegistryAssumption DEF Request
    <3>3. Arcs(t)' = Arcs(t) \cup {p}
      BY <2>1, <3>2 DEF Arcs
    <3> QED
      BY <1>1, <1>2, <2>1, <3>1, <3>3, Giving
  <2>3. CASE fresh' = fresh /\ call'[t].plugin = NoPlugin
    <3>1. Arcs(t)' = Arcs(t)
      BY <2>1, <2>3, RegistryAssumption DEF Arcs
    <3> QED
      BY <1>1, <1>2, <2>1, <2>3, <3>1, Keeping
  <2>4. \/ \E p \in fresh : Invoke(t, Request("register", NameOf[p], p)) /\ fresh' = fresh \ {p}
        \/ fresh' = fresh /\ call'[t].plugin = NoPlugin
    BY <1>0, <1>4 DEF TypeOK, CallRegistry, Invoke, Request
  <2> QED
    BY <2>2, <2>3, <2>4
<1>5. CASE \/ Acquire(t) \/ Release(t) \/ Transpile(t) \/ FinishTranspile(t)
  <2>1. UNCHANGED <<dialects, fresh, dropped, call, got, old, arc>>
    BY <1>5 DEF Acquire, Release, Transpile, FinishTranspile
  <2>2. Arcs(t)' = Arcs(t)
    BY <2>1 DEF Arcs
  <2> QED
    BY <1>1, <1>2, <2>1, <2>2, Keeping
<1>6. CASE AskPlugin(t)
  <2>1. UNCHANGED <<dialects, fresh, dropped, got, old, arc>> /\ call[t] = NoCall
    BY <1>0, <1>6 DEF AskPlugin, Invoke, CallInv
  <2>2. call'[t].plugin = NoPlugin
    BY <1>0, <1>6 DEF TypeOK, AskPlugin, Invoke, Request
  <2>3. Arcs(t)' = Arcs(t)
    BY <2>1, <2>2, RegistryAssumption DEF Arcs
  <2> QED
    BY <1>1, <1>2, <2>1, <2>3, Keeping
<1>7. CASE Lookup(t)
  <2>1. UNCHANGED <<dialects, fresh, dropped, call, old, arc>> /\ got[t] = {}
    BY <1>0, <1>7 DEF Lookup, Hands, HasAnswer
  <2>2. Key(t) \in Spelling
    BY <1>0, <1>7, KeyInSpelling DEF Lookup, CallInv, IInv
  <2>3. got'[t] \cap Plugin \subseteq InMap
    BY <1>0, <1>7, <2>2 DEF TypeOK, Lookup, Some, InMap
  <2>4. Arcs(t)' = Arcs(t) \cup (got'[t] \cap Plugin)
    BY <2>1 DEF Arcs
  <2>5. InMap' \cup Arcs(t)' = InMap \cup Arcs(t)
    BY <1>2, <2>1, <2>3, <2>4
  <2> QED
    BY <1>1, <2>1, <2>5, Keeping
<1>8. CASE ListNames(t) \/ RemoveNothing(t)
  <2>1. UNCHANGED <<dialects, fresh, dropped, call, old, arc>> /\ got[t] = {}
    BY <1>0, <1>8 DEF ListNames, RemoveNothing, Hands, HasAnswer
  <2>2. got'[t] \subseteq Spelling
    BY <1>0, <1>8 DEF TypeOK, ListNames, RemoveNothing
  <2>3. Arcs(t)' = Arcs(t)
    BY <2>1, <2>2, RegistryAssumption DEF Arcs
  <2> QED
    BY <1>1, <1>2, <2>1, <2>3, Keeping
<1>9. CASE BeginUpdate(t)
  <2>1. /\ UNCHANGED <<fresh, dropped, call, got, arc>> /\ old[t] = NoPlugin
        /\ call[t].op \in {"register", "unregister"}
    BY <1>0, <1>9 DEF BeginUpdate, Hands
  <2>2. Key(t) \in Spelling
    BY <1>0, <1>9, <2>1, KeyInSpelling DEF BeginUpdate, CallInv, IInv
  <2>3. old'[t] = dialects[Key(t)] /\ dialects' = [dialects EXCEPT ![Key(t)] = Torn]
    BY <1>0, <1>9 DEF TypeOK, BeginUpdate
  <2>4. Arcs(t)' = Arcs(t) \cup ({dialects[Key(t)]} \cap Plugin)
    BY <2>1, <2>3, RegistryAssumption DEF Arcs
  <2>5. InMap = InMap' \cup ({dialects[Key(t)]} \cap Plugin)
    BY <1>0, <2>2, <2>3, RegistryAssumption DEF TypeOK, InMap
  <2> QED
    BY <1>1, <2>1, <2>4, <2>5, Keeping
<1>10. CASE EndUpdate(t)
  <2>1. /\ UNCHANGED <<fresh, dropped, old, arc>> /\ got[t] = {}
        /\ call[t] \in Call /\ call[t] # NoCall /\ call[t].op \in {"register", "unregister"}
    BY <1>0, <1>10 DEF EndUpdate, Hands, HasAnswer, CallInv
  <2>2. Key(t) \in Spelling
    BY <1>0, <2>1, KeyInSpelling DEF IInv
  <2>3. /\ dialects' = [dialects EXCEPT ![Key(t)] = call[t].plugin]
        /\ call'[t] = [call[t] EXCEPT !.plugin = NoPlugin]
        /\ got'[t] \subseteq Spelling
    BY <1>0, <1>10, <2>2 DEF TypeOK, EndUpdate
  <2>4. dialects[Key(t)] = Torn
    BY <1>10 DEF EndUpdate, IInv, Locking
  <2>5. call'[t].plugin = NoPlugin
    BY <2>1, <2>3 DEF Call
  <2>6. Arcs(t) = Arcs(t)' \cup ({call[t].plugin} \cap Plugin)
    BY <2>1, <2>3, <2>5, RegistryAssumption DEF Arcs
  <2>7. InMap' = InMap \cup ({call[t].plugin} \cap Plugin)
    BY <1>0, <2>2, <2>3, <2>4, RegistryAssumption DEF TypeOK, InMap
  <2> QED
    BY <1>1, <2>1, <2>6, <2>7, Keeping
<1>11. CASE DropOld(t)
  <2>1. UNCHANGED <<dialects, fresh, call, got, arc>> /\ pc[t] = "drop"
    BY <1>11 DEF DropOld
  <2>2. got[t] \subseteq Spelling /\ call[t].plugin = NoPlugin
    BY <1>0, <2>1 DEF Hands, HasAnswer, CallInv
  <2>3. old'[t] = NoPlugin
    BY <1>0, <1>11 DEF TypeOK, DropOld
  <2>4. Arcs(t) = {arc[t], old[t]} \cap Plugin /\ Arcs(t)' = {arc[t]} \cap Plugin
    BY <2>1, <2>2, <2>3, RegistryAssumption DEF Arcs
  <2>5. dropped' = dropped \cup ((Arcs(t) \ Arcs(t)') \ Elsewhere(t))
    BY <1>0, <1>11, <2>4, RegistryAssumption DEF TypeOK, DropOld, DropArcs, OtherArcs, Elsewhere, Others
  <2> QED
    BY <1>1, <1>2, <2>1, <2>4, <2>5, LettingGo
<1>12. CASE TranspileResolved(t)
  <2>1. UNCHANGED <<dialects, fresh, old, arc>> /\ pc[t] = "answered" /\ call[t].op = "resolve"
    BY <1>12 DEF TranspileResolved
  <2>2. arc[t] = NoPlugin /\ old[t] = NoPlugin /\ call[t].plugin = NoPlugin /\ got[t] \subseteq Plugin
    BY <1>0, <2>1 DEF Hands, HasAnswer, CallInv, WalkInv
  <2>3. got'[t] = {} /\ call'[t] = NoCall
    BY <1>0, <1>12 DEF TypeOK, TranspileResolved
  <2>4. Arcs(t) = got[t] /\ Arcs(t)' = {}
    BY <2>1, <2>2, <2>3, RegistryAssumption DEF Arcs
  <2>5. dropped' = dropped \cup ((Arcs(t) \ Arcs(t)') \ Elsewhere(t))
    BY <1>12, <2>4 DEF TranspileResolved, DropArcs, OtherArcs, Elsewhere, Others
  <2> QED
    BY <1>1, <1>2, <2>1, <2>4, <2>5, LettingGo
<1>13. CASE Receive(t)
  <2>1. /\ UNCHANGED <<dialects, fresh, dropped, old>> /\ pc[t] = "answered"
        /\ target[t] # NoName /\ arc[t] = NoPlugin
    BY <1>13 DEF Receive
  <2>2. /\ call[t].op = "get" /\ call[t].plugin = NoPlugin /\ old[t] = NoPlugin
        /\ got[t] \subseteq Plugin /\ \A p, q \in got[t] : p = q
    BY <1>0, <2>1 DEF Hands, HasAnswer, CallInv
  <2>3. got'[t] = {} /\ call'[t] = NoCall /\ (arc'[t] \in got[t] \/ (got[t] = {} /\ arc'[t] = NoPlugin))
    BY <1>0, <1>13, <2>1 DEF TypeOK, Receive
  <2>4. Arcs(t) = got[t] /\ Arcs(t)' = got[t]
    BY <2>1, <2>2, <2>3, RegistryAssumption DEF Arcs
  <2> QED
    BY <1>1, <1>2, <2>1, <2>4, Keeping
<1>14. CASE HookReturns(t) /\ ~Unwind(t)
  <2>1. /\ UNCHANGED <<dialects, fresh, call, got, old>> /\ pc[t] = "hook" /\ arc'[t] = NoPlugin
        /\ DropArcs(t, {arc[t]}, {})
    BY <1>0, <1>14 DEF TypeOK, HookReturns
  <2>2. arc[t] \in Plugin /\ call[t] = NoCall /\ got[t] = {} /\ old[t] = NoPlugin
    BY <1>0, <2>1 DEF Hands, HasAnswer, CallInv, WalkInv
  <2>3. Arcs(t) = {arc[t]} /\ Arcs(t)' = {}
    BY <2>1, <2>2, RegistryAssumption DEF Arcs
  <2>4. dropped' = dropped \cup ((Arcs(t) \ Arcs(t)') \ Elsewhere(t))
    BY <2>1, <2>3 DEF DropArcs, OtherArcs, Elsewhere, Others
  <2> QED
    BY <1>1, <1>2, <2>1, <2>3, <2>4, LettingGo
<1>15. CASE Return(t) /\ ~Unwind(t)
  <2>1. /\ UNCHANGED <<dialects, fresh, old, arc>> /\ pc[t] = "answered"
        /\ call'[t] = NoCall /\ got'[t] = {} /\ DropArcs(t, got[t] \cap Plugin, {arc[t]})
    BY <1>0, <1>15 DEF TypeOK, Return
  <2>2. old[t] = NoPlugin /\ call[t].plugin = NoPlugin
    BY <1>0, <2>1 DEF Hands, HasAnswer
  <2>3. Arcs(t) = ({arc[t]} \cup got[t]) \cap Plugin /\ Arcs(t)' = {arc[t]} \cap Plugin
    BY <2>1, <2>2, RegistryAssumption DEF Arcs
  <2>4. dropped' = dropped \cup ((Arcs(t) \ Arcs(t)') \ Elsewhere(t))
    BY <2>1, <2>3 DEF DropArcs, OtherArcs, Elsewhere, Others
  <2> QED
    BY <1>1, <1>2, <2>1, <2>3, <2>4, LettingGo
<1>16. CASE FindPoisoned(t) \/ DropOldPanic(t) \/ HookPanics(t) \/ ((HookReturns(t) \/ Return(t)) /\ Unwind(t))
  BY <1>3, <1>16 DEF FindPoisoned, DropOldPanic, HookPanics, HookReturns, Return
<1> QED
  BY <1>4, <1>5, <1>6, <1>7, <1>8, <1>9, <1>10, <1>11, <1>12, <1>13, <1>14, <1>15, <1>16
     DEF Steps, Section

\* The inductive invariant of ownership.
RInv == IInv /\ AllHands /\ FreshUnshared /\ DroppedWhenUnused

LEMMA RInvStep == RInv /\ [Next]_vars => RInv'
<1>. SUFFICES ASSUME RInv, [Next]_vars PROVE RInv'
  OBVIOUS
<1>1. IInv' /\ AllHands'
  BY TypeStep, PhasesStep, LockingStep, HandsStep DEF IInv, RInv
<1>2. CASE UNCHANGED vars
  <2>1. UNCHANGED <<fresh, dropped, dialects, call, got, old, arc>>
    BY <1>2 DEF vars, calls, walks
  <2>2. InMap' = InMap /\ \A t \in Thread : Arcs(t)' = Arcs(t)
    BY <2>1 DEF InMap, Arcs
  <2> QED
    BY <1>1, <2>1, <2>2 DEF RInv, FreshUnshared, DroppedWhenUnused
<1>3. ASSUME NEW t \in Thread, Steps(t) PROVE RInv'
  <2>1. Owned(t)
    BY OwnedByAll DEF RInv
  <2>2. Owned(t)'
    BY <1>3, <2>1, OwnedStep DEF RInv
  <2>3. FreshUnshared' /\ DroppedWhenUnused'
    <3>1. UNION {Arcs(u)' : u \in Thread} = Others(t)' \cup Arcs(t)'
      BY DEF Others
    <3> QED
      BY <2>2, <3>1 DEF Owned, Elsewhere, FreshUnshared, DroppedWhenUnused
  <2> QED
    BY <1>1, <2>3 DEF RInv
<1> QED
  BY <1>2, <1>3 DEF Next, Steps

LEMMA InitRInv == Init => RInv
<1>. SUFFICES ASSUME Init PROVE RInv
  OBVIOUS
<1>1. AllHands
  BY DEF Init, AllHands, Hands, HasAnswer
<1>2. InMap = {} /\ \A t \in Thread : Arcs(t) = {}
  BY RegistryAssumption DEF Init, InMap, Arcs
<1> QED
  BY <1>1, <1>2, InitIInv DEF Init, RInv, FreshUnshared, DroppedWhenUnused

THEOREM OwnershipInductive == Spec => []RInv
<1> QED
  BY InitRInv, RInvStep, PTL DEF Spec

\* A plugin's destructor runs exactly when neither the map nor any thread has the
\* plugin any more: the registry neither frees a plugin in use nor leaks one, whatever panics.
THEOREM AlwaysDroppedWhenUnused == Spec => []DroppedWhenUnused
<1>1. RInv => DroppedWhenUnused
  BY DEF RInv
<1> QED
  BY <1>1, OwnershipInductive, PTL

\* Only a destructor under the lock poisons the registry, of a plugin that has just been
\* replaced or removed and that nobody uses.
THEOREM OnlyDestructorsPoison == Spec => PoisonedByDestructor
<1>1. ASSUME RInv, Next, poisoned' # poisoned
      PROVE  \E t \in Thread : /\ holder = t
                               /\ old[t] \in Panics \cap (dropped' \ dropped)
                               /\ \A s \in Spelling : dialects[s] # old[t]
  <2>. USE DEF calls, walks
  <2>1. PICK t \in Thread : Steps(t)
    BY <1>1 DEF Next, Steps
  <2>2. DropOldPanic(t)
    BY <1>1, <2>1 DEF Steps, Section, CallRegistry, Acquire, FindPoisoned, Lookup, ListNames, BeginUpdate,
       RemoveNothing, EndUpdate, DropOld, Release, Transpile, TranspileResolved, AskPlugin,
       FinishTranspile, Receive, HookReturns, HookPanics, Return
  <2>3. pc[t] = "drop" /\ old[t] \in Panics /\ old[t] \notin OtherArcs(t) /\ Unwind(t)
    BY <2>2 DEF DropOldPanic
  <2>4. holder = t
    BY <1>1, <2>3 DEF RInv, IInv, Locking, InSection
  <2>5. old[t] \in Arcs(t)
    BY <2>3, RegistryAssumption DEF Arcs
  <2>6. old[t] \notin dropped
    BY <1>1, <2>5 DEF RInv, DroppedWhenUnused
  <2>7. old[t] \in dropped'
    BY <2>3, <2>5 DEF Unwind, DropArcs
  <2>8. \A s \in Spelling : dialects[s] # old[t]
    BY <2>3, RegistryAssumption DEF OtherArcs, InMap
  <2> QED
    BY <2>3, <2>4, <2>6, <2>7, <2>8
<1>2. RInv /\ [Next]_vars =>
        [poisoned' # poisoned =>
           \E t \in Thread : /\ holder = t
                             /\ old[t] \in Panics \cap (dropped' \ dropped)
                             /\ \A s \in Spelling : dialects[s] # old[t]]_vars
  BY <1>1
<1> QED
  BY <1>2, OwnershipInductive, PTL DEF Spec, PoisonedByDestructor

-----------------------------------------------------------------------------
\* What one transform hears of its dialect.

Value == Plugin \cup {NoPlugin}

\* e is what somebody who looked at h now and then, from place b on, can have noted.
Embedded(e, b, h) ==
    \E f \in [1..Len(e) -> b..Len(h)] :
       /\ \A i \in 1..Len(e) : e[i] = h[f[i]]
       /\ \A i, j \in 1..Len(e) : i < j => f[i] < f[j]

\* The transform of t has its answer from the map, and not yet noted it.
Listening(t) == /\ target[t] # NoName /\ arc[t] = NoPlugin
                /\ pc[t] \in {"release", "answered"}
Answer(t) == IF got[t] = {} THEN NoPlugin ELSE CHOOSE p \in got[t] : TRUE
Heard(t) == IF Listening(t) THEN Noting(t, Answer(t)) ELSE seen[t]

\* An entry of the map has the last value of its history.
Recorded(s) == /\ past[s] # <<>>
               /\ dialects[s] # Torn => dialects[s] = past[s][Len(past[s])]

\* A transform asks only of its target, and what it has heard it heard in order
\* and since it began; what resolve_dialect has found was there when it looked.
Hears(t) ==
    /\ target[t] = NoName => seen[t] = <<>>
    /\ target[t] # NoName /\ arc[t] = NoPlugin /\ call[t] # NoCall
          => call[t].key = target[t]
    /\ target[t] # NoName => /\ Lower[target[t]] = target[t]
                             /\ since[t] \in 1..Len(past[target[t]])
                             /\ Embedded(Heard(t), since[t], past[target[t]])

Resolved(t) ==
    /\ pc[t] \in {"release", "answered"}
    /\ call[t].op = "resolve"
    /\ got[t] # {}
FoundWhenResolved(t) ==
    Resolved(t) => /\ since[t] \in 1..Len(past[Key(t)])
                   /\ got[t] = {past[Key(t)][since[t]]}

HInv == /\ \A s \in Spelling : Recorded(s)
        /\ \A t \in Thread : Hears(t) /\ FoundWhenResolved(t)

-----------------------------------------------------------------------------
\* Notes and history, as sequences.

LEMMA NothingNoted ==
    ASSUME NEW b \in Nat, NEW h \in Seq(Value)
    PROVE  Embedded(<<>>, b, h)
<1>1. PICK f \in [1..Len(<<>>) -> b..Len(h)] : TRUE
  <2>1. \A i \in 1..Len(<<>>) : b \in b..Len(h)
    OBVIOUS
  <2>2. [i \in 1..Len(<<>>) |-> b] \in [1..Len(<<>>) -> b..Len(h)]
    BY <2>1
  <2> QED
    BY <2>2
<1>2. 1..Len(<<>>) = {}
  OBVIOUS
<1> QED
  BY <1>1, <1>2 DEF Embedded

LEMMA OneNoted ==
    ASSUME NEW b \in Nat, NEW h \in Seq(Value), b \in 1..Len(h)
    PROVE  Embedded(<<h[b]>>, b, h)
<1>. DEFINE f == [i \in 1..1 |-> b]
<1>1. f \in [1..Len(<<h[b]>>) -> b..Len(h)]
  OBVIOUS
<1>2. /\ \A i \in 1..Len(<<h[b]>>) : <<h[b]>>[i] = h[f[i]]
      /\ \A i, j \in 1..Len(<<h[b]>>) : i < j => f[i] < f[j]
  OBVIOUS
<1> QED
  BY <1>1, <1>2 DEF Embedded

\* The history goes on.
LEMMA HistoryGrows ==
    ASSUME NEW e \in Seq(Value), NEW b \in Nat \ {0}, NEW h \in Seq(Value),
           NEW v \in Value, Embedded(e, b, h)
    PROVE  Embedded(e, b, Append(h, v))
<1>1. PICK f \in [1..Len(e) -> b..Len(h)] :
         /\ \A i \in 1..Len(e) : e[i] = h[f[i]]
         /\ \A i, j \in 1..Len(e) : i < j => f[i] < f[j]
  BY DEF Embedded
<1>2. Len(h) \in Nat /\ Len(Append(h, v)) = Len(h) + 1
  OBVIOUS
<1>3. f \in [1..Len(e) -> b..Len(Append(h, v))]
  BY <1>2
<1>4. \A i \in 1..Len(e) : Append(h, v)[f[i]] = h[f[i]]
  BY <1>2
<1> QED
  BY <1>1, <1>3, <1>4 DEF Embedded

\* What an embedded sequence begins with is embedded.
LEMMA NotedBefore ==
    ASSUME NEW e \in Seq(Value), NEW v \in Value, NEW b \in Nat, NEW h \in Seq(Value),
           Embedded(Append(e, v), b, h)
    PROVE  Embedded(e, b, h)
<1>1. Len(Append(e, v)) = Len(e) + 1 /\ \A i \in 1..Len(e) : Append(e, v)[i] = e[i]
  OBVIOUS
<1>2. PICK g \in [1..Len(e) + 1 -> b..Len(h)] :
         /\ \A i \in 1..Len(e) + 1 : Append(e, v)[i] = h[g[i]]
         /\ \A i, j \in 1..Len(e) + 1 : i < j => g[i] < g[j]
  BY <1>1 DEF Embedded
<1>. DEFINE f == [i \in 1..Len(e) |-> g[i]]
<1>3. f \in [1..Len(e) -> b..Len(h)]
  OBVIOUS
<1>4. \A i \in 1..Len(e) : e[i] = h[f[i]]
  BY <1>1, <1>2
<1>5. \A i, j \in 1..Len(e) : i < j => f[i] < f[j]
  BY <1>2
<1> QED
  BY <1>3, <1>4, <1>5 DEF Embedded

\* The last value of the history is noted, unless it is the last note.
LEMMA LastNoted ==
    ASSUME NEW e \in Seq(Value), NEW b \in Nat, NEW h \in Seq(Value),
           b \in 1..Len(h), Embedded(e, b, h),
           e = <<>> \/ e[Len(e)] # h[Len(h)]
    PROVE  Embedded(Append(e, h[Len(h)]), b, h)
<1>1. PICK f \in [1..Len(e) -> b..Len(h)] :
         /\ \A i \in 1..Len(e) : e[i] = h[f[i]]
         /\ \A i, j \in 1..Len(e) : i < j => f[i] < f[j]
  BY DEF Embedded
<1>. DEFINE n == Len(e)
            d == Append(e, h[Len(h)])
            g == [i \in 1..n + 1 |-> IF i = n + 1 THEN Len(h) ELSE f[i]]
<1>2. n \in Nat /\ Len(h) \in Nat /\ Len(d) = n + 1 /\ d[n + 1] = h[Len(h)]
      /\ \A i \in 1..n : d[i] = e[i]
  OBVIOUS
<1>3. \A i \in 1..n : f[i] \in b..Len(h) /\ f[i] < Len(h)
  <2>. SUFFICES ASSUME NEW i \in 1..n PROVE f[i] \in b..Len(h) /\ f[i] < Len(h)
    OBVIOUS
  <2>1. n \in 1..n /\ e # <<>>
    BY <1>2
  <2>2. f[n] # Len(h)
    BY <1>1, <2>1
  <2>3. f[n] \in b..Len(h) /\ f[i] \in b..Len(h)
    BY <2>1
  <2>4. i = n \/ f[i] < f[n]
    BY <1>1, <1>2, <2>1
  <2> QED
    BY <1>2, <2>2, <2>3, <2>4
<1>4. g \in [1..Len(d) -> b..Len(h)]
  BY <1>2, <1>3
<1>5. \A i \in 1..Len(d) : d[i] = h[g[i]]
  BY <1>1, <1>2
<1>6. \A i, j \in 1..Len(d) : i < j => g[i] < g[j]
  BY <1>1, <1>2, <1>3
<1>. HIDE DEF g, d
<1> QED
  BY <1>4, <1>5, <1>6 DEF Embedded, d

-----------------------------------------------------------------------------
\* The history only grows, and only the thread that moves hears anything.

Grows == \A s \in Spelling : \/ past'[s] = past[s]
                             \/ \E v \in Value : past'[s] = Append(past[s], v)

LEMMA HistoryOnlyGrows ==
    ASSUME IInv, NEW t \in Thread, Steps(t)
    PROVE  Grows
<1>1. CASE EndUpdate(t)
  <2>1. TypeOK /\ CallInv(t)
    BY DEF IInv, Phases
  <2>2. call[t] \in Call /\ call[t] # NoCall /\ call[t].op # "names"
    BY <1>1, <2>1 DEF EndUpdate, CallInv
  <2>3. Key(t) \in Spelling /\ call[t].plugin \in Value
    BY <2>1, <2>2, KeyInSpelling DEF IInv, Call, Value
  <2>4. past' = [past EXCEPT ![Key(t)] = Append(@, call[t].plugin)]
    BY <1>1 DEF EndUpdate
  <2> QED
    BY <2>1, <2>3, <2>4 DEF Grows, TypeOK
<1>2. CASE UNCHANGED past
  BY <1>2 DEF Grows
<1> QED
  BY <1>1, <1>2 DEF Steps, Section, CallRegistry, Acquire, FindPoisoned, Lookup, ListNames,
     BeginUpdate, RemoveNothing, DropOld, DropOldPanic, Release, Transpile, TranspileResolved,
     AskPlugin, FinishTranspile, Receive, HookReturns, HookPanics, Return, walks

\* The other threads hear nothing.
LEMMA OthersHearNothing ==
    ASSUME TypeOK, NEW t \in Thread, NEW u \in Thread \ {t}, Steps(t)
    PROVE  UNCHANGED <<seen[u], since[u]>>
<1>. USE DEF walks, TypeOK
<1>1. CASE Unwind(t)
  BY <1>1 DEF Unwind
<1>2. CASE Lookup(t)
  BY <1>2 DEF Lookup
<1>3. CASE Transpile(t) \/ TranspileResolved(t) \/ FinishTranspile(t)
  BY <1>3 DEF Transpile, TranspileResolved, FinishTranspile
<1>4. CASE Receive(t)
  BY <1>4 DEF Receive
<1>5. CASE Return(t)
  BY <1>1, <1>5 DEF Return
<1>6. CASE UNCHANGED <<seen, since>>
  BY <1>6
<1> QED
  BY <1>1, <1>2, <1>3, <1>4, <1>5, <1>6 DEF Steps, Section, CallRegistry, Acquire, FindPoisoned,
     ListNames, BeginUpdate, RemoveNothing, EndUpdate, DropOld, DropOldPanic, Release, AskPlugin,
     HookReturns, HookPanics

LEMMA EmbeddedLater ==
    ASSUME TypeOK, Grows, NEW s \in Spelling, NEW e \in Seq(Value),
           NEW b \in 1..Len(past[s]), Embedded(e, b, past[s])
    PROVE  b \in 1..Len(past'[s]) /\ Embedded(e, b, past'[s])
<1>1. past[s] \in Seq(Value)
  BY DEF TypeOK, Value
<1>2. CASE past'[s] = past[s]
  BY <1>2
<1>3. ASSUME NEW v \in Value, past'[s] = Append(past[s], v)
      PROVE  b \in 1..Len(past'[s]) /\ Embedded(e, b, past'[s])
  <2>1. Len(past'[s]) = Len(past[s]) + 1 /\ Len(past[s]) \in Nat /\ b \in Nat \ {0}
    BY <1>1, <1>3
  <2> QED
    BY <1>1, <1>3, <2>1, HistoryGrows
<1> QED
  BY <1>2, <1>3 DEF Grows

LEMMA PlaceLater ==
    ASSUME TypeOK, Grows, NEW s \in Spelling, NEW i \in 1..Len(past[s])
    PROVE  i \in 1..Len(past'[s]) /\ past'[s][i] = past[s][i]
<1>1. past[s] \in Seq(Value)
  BY DEF TypeOK, Value
<1>2. CASE past'[s] = past[s]
  BY <1>2
<1>3. ASSUME NEW v \in Value, past'[s] = Append(past[s], v)
      PROVE  i \in 1..Len(past'[s]) /\ past'[s][i] = past[s][i]
  BY <1>1, <1>3
<1> QED
  BY <1>2, <1>3 DEF Grows

LEMMA HeardType ==
    ASSUME IInv, AllHands, NEW t \in Thread
    PROVE  Heard(t) \in Seq(Value) /\ (Listening(t) => Answer(t) \in Value)
<1>0. TypeOK /\ CallInv(t) /\ Hands(t)
  BY DEF IInv, Phases, AllHands
<1>1. CASE Listening(t)
  <2>1. call[t].op = "get" /\ got[t] \subseteq Plugin
    BY <1>0, <1>1 DEF Listening, CallInv, Hands
  <2>2. Answer(t) \in Value
    BY <2>1 DEF Answer, Value
  <2> QED
    BY <1>0, <1>1, <2>2, NotingType DEF Heard, Value
<1>2. CASE ~Listening(t)
  BY <1>0, <1>2 DEF Heard, TypeOK, Value
<1> QED
  BY <1>1, <1>2

\* A transform that hears nothing more.
LEMMA HearsOn ==
    ASSUME IInv, AllHands, Grows, NEW u \in Thread, Hears(u),
           UNCHANGED <<seen[u], since[u], target[u]>>,
           Heard(u)' = Heard(u),
           target[u] # NoName /\ arc'[u] = NoPlugin /\ call'[u] # NoCall => call'[u].key = target[u]
    PROVE  Hears(u)'
<1>1. CASE target[u] = NoName
  BY <1>1 DEF Hears
<1>2. CASE target[u] # NoName
  <2>1. target[u] \in Spelling /\ TypeOK
    BY <1>2 DEF IInv, TypeOK
  <2>2. Heard(u) \in Seq(Value)
    BY HeardType
  <2>3. /\ since[u] \in 1..Len(past[target[u]])
        /\ Embedded(Heard(u), since[u], past[target[u]])
    BY <1>2 DEF Hears
  <2>4. /\ since[u] \in 1..Len(past'[target[u]])
        /\ Embedded(Heard(u), since[u], past'[target[u]])
    BY <2>1, <2>2, <2>3, EmbeddedLater
  <2> QED
    BY <1>2, <2>4 DEF Hears
<1> QED
  BY <1>1, <1>2

LEMMA FoundStays ==
    ASSUME IInv, Grows, NEW u \in Thread, FoundWhenResolved(u),
           Resolved(u)' => Resolved(u) /\ UNCHANGED <<got[u], since[u]>> /\ Key(u)' = Key(u)
    PROVE  FoundWhenResolved(u)'
<1>. SUFFICES ASSUME Resolved(u)'
     PROVE  since'[u] \in 1..Len(past'[Key(u)']) /\ got'[u] = {past'[Key(u)'][since'[u]]}
  BY DEF FoundWhenResolved
<1>1. TypeOK /\ CallInv(u) /\ Phases
  BY DEF IInv, Phases
<1>2. Key(u) \in Spelling
  BY <1>1, KeyInSpelling DEF Resolved, CallInv
<1>3. since[u] \in 1..Len(past[Key(u)]) /\ got[u] = {past[Key(u)][since[u]]}
  BY DEF FoundWhenResolved
<1>4. /\ since[u] \in 1..Len(past'[Key(u)])
      /\ past'[Key(u)][since[u]] = past[Key(u)][since[u]]
  BY <1>1, <1>2, <1>3, PlaceLater
<1> QED
  BY <1>3, <1>4

LEMMA OthersHear ==
    ASSUME IInv, AllHands, Grows, NEW u \in Thread, Hears(u), FoundWhenResolved(u),
           Still(u), UNCHANGED <<seen[u], since[u]>>
    PROVE  Hears(u)' /\ FoundWhenResolved(u)'
<1>1. Heard(u)' = Heard(u)
  BY DEF Heard, Listening, Noting, Answer, Still
<1>2. Hears(u)'
  <2>1. target[u] # NoName /\ arc'[u] = NoPlugin /\ call'[u] # NoCall
          => call'[u].key = target[u]
    BY DEF Hears, Still
  <2> QED
    BY <1>1, <2>1, HearsOn DEF Still
<1>3. Resolved(u)' => Resolved(u) /\ UNCHANGED <<got[u], since[u]>> /\ Key(u)' = Key(u)
  BY DEF Resolved, Still, Key
<1> QED
  BY <1>2, <1>3, FoundStays

-----------------------------------------------------------------------------
\* The thread that moves.

LEMMA RecordedStep ==
    ASSUME IInv, \A s \in Spelling : Recorded(s), NEW t \in Thread, Steps(t)
    PROVE  \A s \in Spelling : Recorded(s)'
<1>0. TypeOK /\ CallInv(t)
  BY DEF IInv, Phases
<1>1. CASE BeginUpdate(t)
  <2>1. past' = past /\ dialects' = [dialects EXCEPT ![Key(t)] = Torn]
    BY <1>1 DEF BeginUpdate, walks
  <2> QED
    BY <1>0, <2>1 DEF TypeOK, Recorded
<1>2. CASE EndUpdate(t)
  <2>1. call[t] \in Call /\ call[t] # NoCall /\ call[t].op # "names"
    BY <1>0, <1>2 DEF EndUpdate, CallInv
  <2>2. Key(t) \in Spelling /\ call[t].plugin \in Value
    BY <1>0, <2>1, KeyInSpelling DEF IInv, Call, Value
  <2>3. /\ past' = [past EXCEPT ![Key(t)] = Append(@, call[t].plugin)]
        /\ dialects' = [dialects EXCEPT ![Key(t)] = call[t].plugin]
    BY <1>2 DEF EndUpdate
  <2>. SUFFICES ASSUME NEW s \in Spelling PROVE Recorded(s)'
    OBVIOUS
  <2>4. CASE s = Key(t)
    <3>1. past'[s] = Append(past[s], call[t].plugin) /\ dialects'[s] = call[t].plugin
      BY <1>0, <2>3, <2>4 DEF TypeOK
    <3>2. past[s] \in Seq(Value)
      BY <1>0 DEF TypeOK, Value
    <3>3. /\ past'[s] # <<>> /\ Len(past'[s]) = Len(past[s]) + 1
          /\ past'[s][Len(past[s]) + 1] = call[t].plugin
      BY <2>2, <3>1, <3>2
    <3> QED
      BY <3>1, <3>3 DEF Recorded
  <2>5. CASE s # Key(t)
    BY <1>0, <2>3, <2>5 DEF TypeOK, Recorded
  <2> QED
    BY <2>4, <2>5
<1>3. CASE UNCHANGED <<dialects, past>>
  BY <1>3 DEF Recorded
<1> QED
  BY <1>1, <1>2, <1>3 DEF Steps, Section, CallRegistry, Acquire, FindPoisoned, Lookup, ListNames,
     RemoveNothing, DropOld, DropOldPanic, Release, Transpile, TranspileResolved,
     AskPlugin, FinishTranspile, Receive, HookReturns, HookPanics, Return, walks

\* A thread outside any transform and any resolve_dialect has heard nothing.
LEMMA HearsNothing ==
    ASSUME NEW t \in Thread, target'[t] = NoName, seen'[t] = <<>>, ~Resolved(t)'
    PROVE  Hears(t)' /\ FoundWhenResolved(t)'
BY DEF Hears, FoundWhenResolved

\* An operation that is not, or not yet, an answer to the transform.
LEMMA HearsElsewhere ==
    ASSUME IInv, AllHands, Grows, NEW t \in Thread, Hears(t),
           UNCHANGED <<seen[t], since[t], target[t]>>,
           ~Listening(t), ~Listening(t)',
           target[t] # NoName /\ arc'[t] = NoPlugin /\ call'[t] # NoCall => call'[t].key = target[t]
    PROVE  Hears(t)'
<1>1. Heard(t)' = Heard(t)
  BY DEF Heard
<1> QED
  BY <1>1, HearsOn

LEMMA LookupHears ==
    ASSUME IInv, AllHands, \A s \in Spelling : Recorded(s), NEW t \in Thread,
           Hears(t), Lookup(t)
    PROVE  Hears(t)' /\ FoundWhenResolved(t)'
<1>0. TypeOK /\ CallInv(t) /\ WalkInv(t) /\ Hands(t) /\ Locking
  BY DEF IInv, Phases, AllHands
<1>1. /\ pc[t] = "section" /\ call[t].op \in {"get", "resolve"} /\ call[t] # NoCall
      /\ pc'[t] = "release"
      /\ UNCHANGED <<call, target, arc, seen, past>>
  BY <1>0 DEF Lookup, TypeOK, CallInv
<1>2. Key(t) \in Spelling
  BY <1>1, KeyInSpelling DEF IInv
<1>. DEFINE v == dialects[Key(t)]
            h == past[Key(t)]
<1>3. v \in Value
  BY <1>0, <1>1, <1>2, NotTorn DEF Value
<1>4. h \in Seq(Value) /\ h # <<>> /\ v = h[Len(h)] /\ Len(h) \in 1..Len(h)
  <2>1. v # Torn
    BY <1>3, RegistryAssumption DEF Value
  <2>2. h \in Seq(Value) /\ h # <<>>
    BY <1>0, <1>2 DEF TypeOK, Value, Recorded
  <2> QED
    BY <1>2, <2>1, <2>2 DEF Recorded
<1>5. got'[t] = Some(v)
  BY <1>0 DEF Lookup, TypeOK
<1>. HIDE DEF v, h
<1>6. Answer(t)' = v
  BY <1>3, <1>5, RegistryAssumption DEF Answer, Some, Value
<1>7. Hears(t)'
  <2>1. CASE target[t] = NoName
    BY <1>1, <2>1 DEF Hears
  <2>2. CASE target[t] # NoName
    <3>1. call[t].op = "get" /\ since'[t] = since[t]
      BY <1>0, <1>1, <2>2 DEF WalkInv, Lookup, TypeOK
    <3>2. Heard(t) = seen[t]
      BY <1>1 DEF Heard, Listening
    <3>3. CASE arc[t] # NoPlugin
      <4>1. Heard(t)' = seen[t]
        BY <1>1, <3>3 DEF Heard, Listening
      <4> QED
        BY <1>1, <2>2, <3>1, <3>2, <3>3, <4>1 DEF Hears
    <3>4. CASE arc[t] = NoPlugin
      <4>1. call[t].key = target[t] /\ Lower[target[t]] = target[t]
        BY <1>1, <2>2, <3>4 DEF Hears
      <4>2. h = past[target[t]]
        BY <4>1 DEF Key, h
      <4>3. since[t] \in 1..Len(h) /\ Embedded(seen[t], since[t], h)
        BY <2>2, <3>2, <4>2 DEF Hears
      <4>4. Heard(t)' = IF seen[t] # <<>> /\ seen[t][Len(seen[t])] = v THEN seen[t]
                        ELSE Append(seen[t], v)
        BY <1>1, <1>6, <2>2, <3>4 DEF Heard, Listening, Noting
      <4>5. seen[t] \in Seq(Value) /\ since[t] \in Nat
        BY <1>0 DEF TypeOK, Value
      <4>6. Embedded(Heard(t)', since[t], h)
        BY <1>4, <4>3, <4>4, <4>5, LastNoted
      <4> QED
        BY <1>1, <2>2, <3>1, <4>1, <4>2, <4>3, <4>6 DEF Hears
    <3> QED
      BY <3>3, <3>4
  <2> QED
    BY <2>1, <2>2
<1>8. FoundWhenResolved(t)'
  <2>. SUFFICES ASSUME Resolved(t)'
       PROVE  since'[t] \in 1..Len(past'[Key(t)']) /\ got'[t] = {past'[Key(t)'][since'[t]]}
    BY DEF FoundWhenResolved
  <2>1. call[t].op = "resolve" /\ got'[t] # {}
    BY <1>1 DEF Resolved
  <2>2. Key(t)' = Key(t)
    BY <1>1 DEF Key
  <2>3. since'[t] = Len(h)
    BY <1>0, <2>1 DEF Lookup, TypeOK, h
  <2>4. got'[t] = {v}
    BY <1>5, <2>1 DEF Some
  <2> QED
    BY <1>1, <1>4, <2>2, <2>3, <2>4 DEF h
<1> QED
  BY <1>7, <1>8

LEMMA OwnHears ==
    ASSUME IInv, AllHands, \A s \in Spelling : Recorded(s), Grows, NEW t \in Thread,
           Hears(t), FoundWhenResolved(t), Steps(t)
    PROVE  Hears(t)' /\ FoundWhenResolved(t)'
<1>0. TypeOK /\ CallInv(t) /\ WalkInv(t) /\ Hands(t)
  BY DEF IInv, Phases, AllHands
<1>. USE DEF calls, walks
<1>1. CASE Unwind(t)
  <2>1. target'[t] = NoName /\ seen'[t] = <<>> /\ got'[t] = {}
    BY <1>0, <1>1 DEF Unwind, TypeOK
  <2> QED
    BY <2>1, HearsNothing DEF Resolved
<1>2. CASE CallRegistry(t)
  <2>1. /\ pc[t] \in {"idle", "hook"} /\ pc'[t] = "wait"
        /\ UNCHANGED <<target, arc, seen, since>>
    BY <1>0, <1>2 DEF CallRegistry, Invoke, TypeOK
  <2>2. target[t] # NoName => arc[t] # NoPlugin
    BY <1>0, <2>1, RegistryAssumption DEF WalkInv
  <2>3. Hears(t)'
    BY <2>1, <2>2, HearsElsewhere DEF Listening
  <2> QED
    BY <2>1, <2>3 DEF FoundWhenResolved, Resolved
<1>3. CASE Acquire(t)
  <2>1. pc[t] = "wait" /\ pc'[t] = "section" /\ UNCHANGED <<call, target, arc, seen, since>>
    BY <1>0, <1>3 DEF Acquire, TypeOK
  <2>2. Hears(t)'
    BY <2>1, HearsElsewhere DEF Listening, Hears
  <2> QED
    BY <2>1, <2>2 DEF FoundWhenResolved, Resolved
<1>4. CASE Lookup(t)
  BY <1>4, LookupHears
<1>5. CASE \/ ListNames(t) \/ BeginUpdate(t) \/ RemoveNothing(t) \/ EndUpdate(t) \/ DropOld(t)
  <2>1. /\ pc[t] \in {"section", "midway", "drop"}
        /\ UNCHANGED <<target, arc, seen, since>>
        /\ call[t] # NoCall /\ call[t].op \in {"names", "register", "unregister"}
    BY <1>0, <1>5
       DEF CallInv, ListNames, BeginUpdate, RemoveNothing, EndUpdate, DropOld
  <2>2. call'[t].op = call[t].op
    <3>1. call[t] \in Call
      BY <1>0, <2>1 DEF CallInv
    <3>2. call'[t] = call[t] \/ call'[t] = [call[t] EXCEPT !.plugin = NoPlugin]
      BY <1>0, <1>5 DEF TypeOK, ListNames, BeginUpdate, RemoveNothing, EndUpdate, DropOld
    <3> QED
      BY <3>1, <3>2 DEF Call
  <2>3. target[t] = NoName \/ arc[t] # NoPlugin
    BY <1>0, <2>1 DEF Hands
  <2>4. Hears(t)'
    BY <2>1, <2>3, HearsElsewhere DEF Listening
  <2> QED
    BY <2>1, <2>2, <2>4 DEF FoundWhenResolved, Resolved
<1>6. CASE Release(t)
  <2>1. /\ pc[t] = "release" /\ pc'[t] = "answered"
        /\ UNCHANGED <<call, got, target, arc, seen, since>>
    BY <1>0, <1>6 DEF Release, TypeOK
  <2>2. Heard(t)' = Heard(t)
    BY <2>1 DEF Heard, Listening, Noting, Answer
  <2>3. Hears(t)'
    <3>1. target[t] # NoName /\ arc'[t] = NoPlugin /\ call'[t] # NoCall
            => call'[t].key = target[t]
      BY <2>1 DEF Hears
    <3> QED
      BY <2>1, <2>2, <3>1, HearsOn
  <2>4. Resolved(t)' => Resolved(t) /\ UNCHANGED <<got[t], since[t]>> /\ Key(t)' = Key(t)
    BY <2>1 DEF Resolved, Key
  <2> QED
    BY <2>3, <2>4, FoundStays
<1>7. CASE Transpile(t)
  <2>1. PICK s \in Spelling : /\ target' = [target EXCEPT ![t] = Lower[s]]
                              /\ since' = [since EXCEPT ![t] = Len(past[Lower[s]])]
    BY <1>7 DEF Transpile
  <2>2. /\ target'[t] = Lower[s] /\ since'[t] = Len(past[Lower[s]])
        /\ seen'[t] = <<>> /\ pc'[t] = "walk" /\ call'[t] = NoCall /\ past' = past
    BY <1>0, <1>7, <2>1 DEF Transpile, TypeOK, CallInv, WalkInv, Hears
  <2>3. Lower[s] \in Spelling /\ Lower[Lower[s]] = Lower[s]
    BY RegistryAssumption
  <2>4. past[Lower[s]] \in Seq(Value) /\ past[Lower[s]] # <<>>
    BY <1>0, <2>3 DEF TypeOK, Value, Recorded
  <2>5. since'[t] \in 1..Len(past[Lower[s]])
    BY <2>2, <2>4
  <2>6. Embedded(<<>>, since'[t], past[Lower[s]])
    BY <2>4, <2>5, NothingNoted
  <2>7. Heard(t)' = <<>>
    BY <2>2 DEF Heard, Listening
  <2>8. target'[t] # NoName
    BY <2>2, <2>3, RegistryAssumption
  <2>9. Hears(t)'
    BY <2>2, <2>3, <2>5, <2>6, <2>7, <2>8 DEF Hears
  <2> QED
    BY <2>2, <2>9 DEF FoundWhenResolved, Resolved
<1>8. CASE TranspileResolved(t)
  <2>1. /\ Resolved(t) /\ target' = [target EXCEPT ![t] = Key(t)]
        /\ pc'[t] = "walk" /\ call'[t] = NoCall
        /\ UNCHANGED <<since, past>>
        /\ seen'[t] = <<CHOOSE p \in got[t] : TRUE>>
    BY <1>0, <1>8 DEF TranspileResolved, TypeOK, Resolved
  <2>2. call[t] \in Call /\ call[t] # NoCall /\ call[t].key \in Spelling /\ call[t].op = "resolve"
    BY <1>0, <2>1 DEF CallInv, Resolved
  <2>3. Key(t) \in Spelling /\ Lower[Key(t)] = Key(t) /\ target'[t] = Key(t)
    BY <1>0, <2>1, <2>2, RegistryAssumption DEF Key, TypeOK
  <2>. DEFINE h == past[Key(t)]
  <2>4. since[t] \in 1..Len(h) /\ got[t] = {h[since[t]]}
    BY <2>1 DEF FoundWhenResolved
  <2>5. h \in Seq(Value) /\ since[t] \in Nat
    BY <1>0, <2>3 DEF TypeOK, Value
  <2>. HIDE DEF h
  <2>6. seen'[t] = <<h[since[t]]>>
    BY <2>1, <2>4
  <2>7. Embedded(seen'[t], since[t], h)
    BY <2>4, <2>5, <2>6, OneNoted
  <2>8. Heard(t)' = seen'[t] /\ target'[t] # NoName
    BY <2>1, <2>3, RegistryAssumption DEF Heard, Listening
  <2>9. Hears(t)'
    BY <2>1, <2>3, <2>4, <2>7, <2>8 DEF Hears, h
  <2> QED
    BY <2>1, <2>9 DEF FoundWhenResolved, Resolved
<1>9. CASE AskPlugin(t)
  <2>1. /\ pc[t] = "walk" /\ pc'[t] = "wait" /\ UNCHANGED <<target, arc, seen, since>>
        /\ call'[t].key = target[t]
    BY <1>0, <1>9 DEF AskPlugin, Invoke, Request, TypeOK
  <2>2. Hears(t)'
    BY <2>1, HearsElsewhere DEF Listening
  <2> QED
    BY <2>1, <2>2 DEF FoundWhenResolved, Resolved
<1>10. CASE FinishTranspile(t)
  <2>1. target'[t] = NoName /\ seen'[t] = <<>> /\ pc'[t] = "idle"
    BY <1>0, <1>10 DEF FinishTranspile, TypeOK
  <2> QED
    BY <2>1, HearsNothing DEF Resolved
<1>11. CASE Receive(t)
  <2>1. /\ Listening(t) /\ pc'[t] \in {"hook", "walk"} /\ call'[t] = NoCall
        /\ UNCHANGED <<target, since, past>>
    BY <1>0, <1>11 DEF Receive, Listening, TypeOK
  <2>2. seen'[t] = Noting(t, Answer(t))
    <3>1. call[t].op = "get"
      BY <1>0, <2>1 DEF Listening, CallInv, Hands
    <3>2. CASE got[t] = {}
      BY <1>0, <1>11, <3>2 DEF Receive, Answer, TypeOK
    <3>3. ASSUME NEW p \in got[t] \cap Plugin, seen' = [seen EXCEPT ![t] = Noting(t, p)]
          PROVE  seen'[t] = Noting(t, Answer(t))
      <4>1. Answer(t) = p
        BY <1>0, <2>1, <3>1, <3>3 DEF Answer, Hands, HasAnswer, Listening
      <4> QED
        BY <1>0, <3>3, <4>1 DEF TypeOK
    <3> QED
      BY <1>11, <3>2, <3>3 DEF Receive
  <2>3. Heard(t)' = Heard(t)
    BY <2>1, <2>2 DEF Heard, Listening
  <2>4. Hears(t)'
    BY <2>1, <2>3 DEF Hears, Listening
  <2> QED
    BY <2>1, <2>4 DEF FoundWhenResolved, Resolved
<1>12. CASE HookReturns(t) /\ ~Unwind(t)
  <2>1. /\ pc[t] = "hook" /\ pc'[t] = "walk"
        /\ UNCHANGED <<call, target, seen, since>> /\ call[t] = NoCall
    BY <1>0, <1>12 DEF HookReturns, TypeOK, CallInv
  <2>2. Hears(t)'
    BY <2>1, HearsElsewhere DEF Listening
  <2> QED
    BY <2>1, <2>2 DEF FoundWhenResolved, Resolved
<1>13. CASE Return(t) /\ ~Unwind(t)
  <2>1. /\ pc'[t] \in {"idle", "hook"} /\ call'[t] = NoCall
        /\ target[t] = NoName \/ arc[t] # NoPlugin
        /\ target[t] # NoName => since'[t] = since[t]
        /\ UNCHANGED <<target, arc, seen>>
    BY <1>0, <1>13 DEF Return, TypeOK
  <2>2. Hears(t)'
    <3>1. CASE target[t] = NoName
      BY <2>1, <3>1 DEF Hears
    <3>2. CASE target[t] # NoName
      BY <2>1, <3>2, HearsElsewhere DEF Listening
    <3> QED
      BY <3>1, <3>2
  <2> QED
    BY <2>1, <2>2 DEF FoundWhenResolved, Resolved
<1> QED
  BY <1>1, <1>2, <1>3, <1>4, <1>5, <1>6, <1>7, <1>8, <1>9, <1>10, <1>11, <1>12, <1>13
     DEF Steps, Section, FindPoisoned, DropOldPanic, HookPanics

LEMMA InitHInv == Init => HInv
<1>. SUFFICES ASSUME Init PROVE HInv
  OBVIOUS
<1>1. \A s \in Spelling : Recorded(s)
  BY DEF Init, Recorded
<1>2. \A t \in Thread : Hears(t) /\ FoundWhenResolved(t)
  BY DEF Init, Hears, FoundWhenResolved, Resolved
<1> QED
  BY <1>1, <1>2 DEF HInv

LEMMA HInvStep == IInv /\ AllHands /\ HInv /\ [Next]_vars => HInv'
<1>. SUFFICES ASSUME IInv, AllHands, HInv, [Next]_vars PROVE HInv'
  OBVIOUS
<1>1. CASE UNCHANGED vars
  <2>1. \A s \in Spelling : Recorded(s)'
    BY <1>1 DEF vars, Recorded, HInv
  <2>2. Grows /\ \A u \in Thread : Still(u) /\ UNCHANGED <<seen[u], since[u]>>
    BY <1>1 DEF vars, calls, walks, Grows, Still
  <2>3. \A u \in Thread : Hears(u)' /\ FoundWhenResolved(u)'
    BY <2>2, OthersHear DEF HInv
  <2> QED
    BY <2>1, <2>3 DEF HInv
<1>2. ASSUME NEW t \in Thread, Steps(t) PROVE HInv'
  <2>1. Grows /\ \A s \in Spelling : Recorded(s)'
    BY <1>2, HistoryOnlyGrows, RecordedStep DEF HInv
  <2>2. Hears(t)' /\ FoundWhenResolved(t)'
    BY <1>2, <2>1, OwnHears DEF HInv
  <2>3. ASSUME NEW u \in Thread \ {t} PROVE Hears(u)' /\ FoundWhenResolved(u)'
    <3>1. Still(u) /\ UNCHANGED <<seen[u], since[u]>>
      BY <1>2, StillOthers, OthersHearNothing DEF Steps, IInv
    <3> QED
      BY <2>1, <3>1, OthersHear DEF HInv
  <2> QED
    BY <2>1, <2>2, <2>3 DEF HInv
<1> QED
  BY <1>1, <1>2 DEF Next, Steps

THEOREM HistoryInductive == Spec => []HInv
<1>1. Init /\ [][Next]_vars /\ []RInv => []HInv
  <2>1. IInv /\ AllHands /\ HInv /\ [Next]_vars => HInv'
    BY HInvStep
  <2>2. RInv => IInv /\ AllHands
    BY DEF RInv
  <2> QED
    BY <2>1, <2>2, InitHInv, PTL
<1> QED
  BY <1>1, OwnershipInductive, PTL DEF Spec

\* What a transform has heard of its dialect is part of the dialect's history since
\* the transform began, in order: it mixes two plugins, or a plugin and the defaults,
\* only if the dialect was registered or unregistered meanwhile.
THEOREM AlwaysAnswersFromHistory == Spec => []AnswersFromHistory
<1>1. ASSUME IInv, AllHands, HInv PROVE AnswersFromHistory
  <2>1. ASSUME NEW t \in Thread, target[t] # NoName
        PROVE  Embedded(seen[t], since[t], past[target[t]])
    <3>. DEFINE h == past[target[t]]
    <3>1. TypeOK /\ target[t] \in Spelling
      BY <1>1, <2>1 DEF IInv, TypeOK
    <3>2. h \in Seq(Value) /\ seen[t] \in Seq(Value) /\ since[t] \in Nat
      BY <3>1 DEF TypeOK, Value
    <3>3. Embedded(Heard(t), since[t], h)
      BY <1>1, <2>1 DEF HInv, Hears
    <3>. HIDE DEF h
    <3>4. \/ Heard(t) = seen[t]
          \/ Answer(t) \in Value /\ Heard(t) = Append(seen[t], Answer(t))
      BY <1>1, HeardType DEF Heard, Noting
    <3>5. Embedded(seen[t], since[t], h)
      BY <3>2, <3>3, <3>4, NotedBefore
    <3> QED
      BY <3>5 DEF h
  <2> QED
    BY <2>1 DEF AnswersFromHistory, Embedded
<1>2. RInv => IInv /\ AllHands
  BY DEF RInv
<1> QED
  BY <1>1, <1>2, OwnershipInductive, HistoryInductive, PTL
=============================================================================
