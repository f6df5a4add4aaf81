------------------------------ MODULE GroupLoops ------------------------------
(***************************************************************************)
(* The loops of group_rows and of DISTINCT (src/executor/engine.rs) over a *)
(* hash table of keys, one step for each row.  A row stands for its place. *)
(* Which keys the table takes for the same is given: nothing is asked of   *)
(* it but that the order of two keys makes no difference, and that a key   *)
(* which is not even like itself, as one with a NaN, is like no other.     *)
(***************************************************************************)
EXTENDS Naturals, Sequences, Functions

BadKey == {"failed", "panicked"}
KeyFate == {"ok"} \cup BadKey
KeyUses == {"group", "distinct"}
Likeness(n) ==
    {like \in [(1..n) \X (1..n) -> BOOLEAN] :
        \A i, j \in 1..n : like[<<i, j>>] => like[<<j, i>>] /\ like[<<i, i>>]}

\* No call: otherwise what for, the number of rows, whether the key of each
\* can be evaluated, and the likeness of their keys.
NoKeys == [use |-> "group", rows |-> 0, key |-> <<>>, like |-> <<>>]

VARIABLES
    keyed,    \* the arguments of the call
    pass,     \* "idle", in a loop, or how the call ends
    row,      \* the row the first loop is at
    order,    \* the rows whose keys were new: the `order` of group_rows, what DISTINCT keeps
    groups,   \* the hash table: the rows of each key, by the first of them
    parts     \* the groups taken out of the table
groupVars == <<keyed, pass, row, order, groups, parts>>

-----------------------------------------------------------------------------
\* The entries that a look-up of a row's key may find.
Found(i) == {l \in DOMAIN groups : keyed.like[<<i, l>>]}

KeysInit ==
    /\ keyed = NoKeys /\ pass = "idle" /\ row = 0
    /\ order = <<>> /\ groups = <<>> /\ parts = <<>>

BeginKeys(k) ==
    /\ pass = "idle"
    /\ keyed' = k /\ pass' = "scan" /\ row' = 1
    /\ order' = <<>> /\ groups' = <<>> /\ parts' = <<>>

Scans(fate) == pass = "scan" /\ row <= keyed.rows /\ keyed.key[row] = fate

\* The error of a key's expression ends the call.
FailKey ==
    \E fate \in BadKey :
        /\ Scans(fate)
        /\ pass' = fate
        /\ UNCHANGED <<keyed, row, order, groups, parts>>

\* order.push(key); entry(key).or_default().push(row).  A HashSet has the key only.
NewKey ==
    /\ Scans("ok") /\ Found(row) = {}
    /\ order' = Append(order, row)
    /\ groups' = [l \in DOMAIN groups \cup {row} |-> IF l = row THEN <<row>> ELSE groups[l]]
    /\ row' = row + 1
    /\ UNCHANGED <<keyed, pass, parts>>

\* A mutant: the row takes the place of those of its key.
KnownKeyAfresh ==
    /\ Scans("ok")
    /\ \E l \in Found(row) : groups' = [groups EXCEPT ![l] = <<row>>]
    /\ row' = row + 1
    /\ UNCHANGED <<keyed, pass, order, parts>>

KnownKey ==
    /\ Scans("ok")
    /\ \E l \in Found(row) : groups' = [groups EXCEPT ![l] = Append(@, row)]
    /\ row' = row + 1
    /\ UNCHANGED <<keyed, pass, order, parts>>

EndScan ==
    /\ pass = "scan" /\ row > keyed.rows
    /\ pass' = IF keyed.use = "group" THEN "collect" ELSE "done"
    /\ UNCHANGED <<keyed, row, order, groups, parts>>

\* groups.remove(&key).unwrap() for each key in order.
Collects == pass = "collect" /\ Len(parts) < Len(order)
NextKey == order[Len(parts) + 1]

TakeGroup ==
    /\ Collects
    /\ \E l \in Found(NextKey) :
          /\ parts' = Append(parts, groups[l])
          /\ groups' = [m \in DOMAIN groups \ {l} |-> groups[m]]
    /\ UNCHANGED <<keyed, pass, row, order>>

LoseGroup ==
    /\ Collects /\ Found(NextKey) = {}
    /\ pass' = "panicked"
    /\ UNCHANGED <<keyed, row, order, groups, parts>>

EndCollect ==
    /\ pass = "collect" /\ Len(parts) = Len(order)
    /\ pass' = "done"
    /\ UNCHANGED <<keyed, row, order, groups, parts>>

KeyStep == FailKey \/ NewKey \/ KnownKey \/ EndScan \/ TakeGroup \/ LoseGroup \/ EndCollect

\* The caller takes the result.
ReturnKeys ==
    /\ pass \in {"done"} \cup BadKey
    /\ keyed' = NoKeys /\ pass' = "idle" /\ row' = 0
    /\ order' = <<>> /\ groups' = <<>> /\ parts' = <<>>

KeysNext ==
    \/ \E use \in KeyUses, n \in Nat : \E key \in [1..n -> KeyFate], like \in Likeness(n) :
          BeginKeys([use |-> use, rows |-> n, key |-> key, like |-> like])
    \/ KeyStep
    \/ ReturnKeys

KeysSpec == KeysInit /\ [][KeysNext]_groupVars

-----------------------------------------------------------------------------
KeysTypeOK ==
    /\ keyed.use \in KeyUses /\ keyed.rows \in Nat
    /\ keyed.key \in [1..keyed.rows -> KeyFate] /\ keyed.like \in Likeness(keyed.rows)
    /\ pass \in {"idle", "scan", "collect", "done"} \cup BadKey
    /\ row \in 0..(keyed.rows + 1)
    /\ order \in Seq(1..keyed.rows)
    /\ DOMAIN groups \subseteq 1..keyed.rows
    /\ \A l \in DOMAIN groups : groups[l] \in Seq(1..keyed.rows)
    /\ parts \in Seq(Seq(1..keyed.rows))

Alike(i, j) == keyed.like[<<i, j>>]
Ascending(s) == \A m, n \in DOMAIN s : m < n => s[m] < s[n]
Transitive ==
    \A i, j, k \in 1..keyed.rows : Alike(i, j) /\ Alike(j, k) => Alike(i, k)

\* The rows kept have new keys, and a row that is not kept is like an earlier one that is.
KeepsOneOfEach ==
    /\ Ascending(order)
    /\ \A k, m \in DOMAIN order : k # m => ~Alike(order[k], order[m])
    /\ \A i \in (1..keyed.rows) \ Range(order) :
          \E k \in DOMAIN order : order[k] < i /\ Alike(i, order[k])

\* The parts are a partition of the rows, in the order of their first rows, and their rows
\* in the order of the table.  Two rows are in one part exactly if they are alike, as far
\* as likeness is transitive at all.
PartitionsRows ==
    /\ DOMAIN parts = DOMAIN order
    /\ \A k \in DOMAIN parts : parts[k] # <<>> /\ parts[k][1] = order[k] /\ Ascending(parts[k])
    /\ \A i \in 1..keyed.rows : \E k \in DOMAIN parts : i \in Range(parts[k])
    /\ \A k, m \in DOMAIN parts : k # m => Range(parts[k]) \cap Range(parts[m]) = {}
    /\ \A k \in DOMAIN parts : \A i \in Range(parts[k]) : Alike(i, order[k])
    /\ Transitive =>
          \A k, m \in DOMAIN parts : \A i \in Range(parts[k]), j \in Range(parts[m]) :
              Alike(i, j) <=> k = m

\* The hash table, the list of keys in order, and the removal of one after the other lose
\* no row and mix no keys.  A call fails with the error of the first key that has one, and
\* otherwise panics only for a key that is not equal to itself, which it then never misses.
GroupsAsClasses ==
    /\ pass = "done" =>
          /\ \A i \in 1..keyed.rows : keyed.key[i] = "ok"
          /\ KeepsOneOfEach
          /\ keyed.use = "group" => PartitionsRows /\ \A i \in 1..keyed.rows : Alike(i, i)
    /\ pass \in BadKey =>
          \/ \E i \in 1..keyed.rows :
                keyed.key[i] = pass /\ \A j \in 1..(i - 1) : keyed.key[j] = "ok"
          \/ /\ pass = "panicked" /\ keyed.use = "group"
             /\ \A i \in 1..keyed.rows : keyed.key[i] = "ok"
             /\ \E i \in 1..keyed.rows : ~Alike(i, i)
=============================================================================
