--------------------------- MODULE AtomicRegistry ---------------------------
(* What DialectRegistry promises its callers: one map from canonical dialect  *)
(* names to plugins, on which every call takes effect in a single step        *)
(* between its invocation and its return.  The map can break (a destructor    *)
(* panicked while it was being changed); from then on every call that has not *)
(* taken effect fails, and no call takes effect any more.                     *)
EXTENDS Naturals

CONSTANTS Thread,      \* the callers
          Spelling,    \* the names callers write
          Lower,       \* Lower[s]: the canonical spelling of s
          Plugin,      \* plugin objects
          NoPlugin,    \* no plugin under a name
          NoName,      \* the key of a call that takes none
          NoCall,      \* the thread is not in a call
          Pending      \* the call has not taken effect

VARIABLES entries,     \* the map
          broken,      \* the map has been lost
          request,     \* the call a thread is in
          reply        \* its answer, or Pending

avars == <<entries, broken, request, reply>>

\* The names under which a plugin is registered.
Registered == {s \in Spelling : entries[s] # NoPlugin}

\* Some(x) and None, as sets.
Option(x) == {x} \ {NoPlugin}

AInit == /\ entries = [s \in Spelling |-> NoPlugin]
         /\ broken = FALSE
         /\ request = [t \in Thread |-> NoCall]
         /\ reply = [t \in Thread |-> Pending]

Ask(t, c) == /\ request[t] = NoCall
             /\ request' = [request EXCEPT ![t] = c]
             /\ UNCHANGED <<entries, broken, reply>>

\* The call takes effect.
Serve(t) ==
    /\ request[t] # NoCall
    /\ reply[t] = Pending
    /\ ~broken
    /\ LET c == request[t]
           k == Lower[c.key]
       IN  \/ /\ c.op \in {"get", "resolve"}
              /\ reply' = [reply EXCEPT ![t] = Option(entries[k])]
              /\ UNCHANGED entries
           \/ /\ c.op = "names"
              /\ reply' = [reply EXCEPT ![t] = Registered]
              /\ UNCHANGED entries
           \/ /\ c.op = "register"
              /\ reply' = [reply EXCEPT ![t] = {}]
              /\ entries' = [entries EXCEPT ![k] = c.plugin]
           \/ /\ c.op = "unregister"
              /\ reply' = [reply EXCEPT ![t] = IF entries[k] = NoPlugin THEN {} ELSE {k}]
              /\ entries' = [entries EXCEPT ![k] = NoPlugin]
    /\ request' = [request EXCEPT ![t].plugin = NoPlugin]   \* it belongs to the map
    /\ UNCHANGED broken

Leave(t) == /\ request' = [request EXCEPT ![t] = NoCall]
            /\ reply' = [reply EXCEPT ![t] = Pending]
            /\ UNCHANGED entries

Finish(t) == reply[t] # Pending /\ Leave(t) /\ UNCHANGED broken

\* A change that has taken effect fails while it lets go of what it replaced.
Break(t) == /\ reply[t] # Pending
            /\ request[t].op \in {"register", "unregister"}
            /\ broken' = TRUE
            /\ Leave(t)

Refuse(t) == /\ broken
             /\ request[t] # NoCall
             /\ reply[t] = Pending
             /\ Leave(t)
             /\ UNCHANGED broken

ANext == \E t \in Thread :
            \/ \E op \in {"get", "resolve", "names", "register", "unregister"} :
                 \E s \in Spelling \cup {NoName} : \E p \in Plugin \cup {NoPlugin} :
                    Ask(t, [op |-> op, key |-> s, plugin |-> p])
            \/ Serve(t)
            \/ Finish(t)
            \/ Break(t)
            \/ Refuse(t)

ASpec == AInit /\ [][ANext]_avars
=============================================================================
