--------------------------- MODULE GroupLoopsProofs ---------------------------
(***************************************************************************)
(* Grouping and DISTINCT lose no row and mix no keys, for any number of    *)
(* rows, keys that fail, and every likeness of keys.                       *)
(***************************************************************************)
EXTENDS GroupLoops, TLAPS

Busy == {"scan", "collect", "done"}

\* The group of the k-th key: in the parts, or in the table still.
GroupOf(k) == IF k <= Len(parts) THEN parts[k] ELSE groups[order[k]]

\* The rows whose keys are like that of l.
Peers(call, l) == {i \in 1..call.rows : call.like[<<i, l>>]}

\* A group that begins with the row l has rows before r, in order, all of them peers of l
\* but for l itself, which may be unlike even itself.
IsGroup(peers, g, l, r) ==
    /\ g # <<>> /\ g[1] = l /\ Ascending(g)
    /\ \A m \in DOMAIN g : g[m] < r /\ (m > 1 => g[m] \in peers)

\* Where the loops are.
Places ==
    /\ pass = "scan" => row >= 1 /\ parts = <<>>
    /\ pass \in {"collect", "done"} => row = keyed.rows + 1 /\ Len(parts) <= Len(order)
    /\ pass = "collect" => keyed.use = "group"
    /\ pass = "done" /\ keyed.use = "group" => Len(parts) = Len(order)

\* The keys in order, and the table: it has those that are not taken out.  Only a key
\* that is equal to itself can be.
Keys ==
    pass \in Busy =>
        /\ Ascending(order)
        /\ \A k \in DOMAIN order : order[k] < row
        /\ \A k, m \in DOMAIN order : k # m => ~Alike(order[k], order[m])
        /\ DOMAIN groups = {order[k] : k \in (Len(parts) + 1)..Len(order)}
        /\ \A k \in DOMAIN parts : Alike(order[k], order[k])

\* The rows come past are in one group each.
Grouped ==
    pass \in Busy =>
        /\ \A k \in DOMAIN order : IsGroup(Peers(keyed, order[k]), GroupOf(k), order[k], row)
        /\ \A i \in 1..(row - 1) : \E k \in DOMAIN order : i \in Range(GroupOf(k))
        /\ \A k, m \in DOMAIN order : k # m => Range(GroupOf(k)) \cap Range(GroupOf(m)) = {}

\* No key come past has failed, and why a call failed.
Fates ==
    /\ pass \in Busy => \A i \in 1..(row - 1) : keyed.key[i] = "ok"
    /\ pass \in BadKey =>
          \/ /\ row \in 1..keyed.rows /\ keyed.key[row] = pass
             /\ \A i \in 1..(row - 1) : keyed.key[i] = "ok"
          \/ /\ pass = "panicked" /\ keyed.use = "group"
             /\ \A i \in 1..keyed.rows : keyed.key[i] = "ok"
             /\ \E i \in 1..keyed.rows : ~Alike(i, i)

IInv == KeysTypeOK /\ Places /\ Keys /\ Grouped /\ Fates

-----------------------------------------------------------------------------
(* Facts about calls, sequences and groups.                                *)

LEMMA Appended ==
  ASSUME NEW S, NEW s \in Seq(S), NEW p \in S
  PROVE  /\ Append(s, p) \in Seq(S)
         /\ DOMAIN s = 1..Len(s) /\ Len(s) \in Nat
         /\ DOMAIN Append(s, p) = 1..(Len(s) + 1)
         /\ Len(Append(s, p)) = Len(s) + 1
         /\ \A n \in 1..Len(s) : Append(s, p)[n] = s[n]
         /\ Append(s, p)[Len(s) + 1] = p
OBVIOUS

\* What a call under way is about.
LEMMA CallFacts ==
  ASSUME KeysTypeOK
  PROVE  /\ keyed.rows \in Nat /\ row \in Nat /\ row <= keyed.rows + 1
         /\ Len(order) \in Nat /\ DOMAIN order = 1..Len(order)
         /\ \A k \in DOMAIN order : order[k] \in 1..keyed.rows
         /\ Len(parts) \in Nat /\ DOMAIN parts = 1..Len(parts)
         /\ \A k \in DOMAIN parts : parts[k] \in Seq(1..keyed.rows)
<1>1. keyed.rows \in Nat /\ row \in 0..(keyed.rows + 1)
  BY DEF KeysTypeOK
<1>2. order \in Seq(1..keyed.rows) /\ parts \in Seq(Seq(1..keyed.rows))
  BY DEF KeysTypeOK
<1> QED BY <1>1, <1>2

LEMMA Likenesses ==
  ASSUME KeysTypeOK
  PROVE  /\ \A i, j \in 1..keyed.rows : Alike(i, j) \in BOOLEAN
         /\ \A i, j \in 1..keyed.rows : Alike(i, j) => Alike(j, i) /\ Alike(i, i)
<1>1. keyed.like \in Likeness(keyed.rows)
  BY DEF KeysTypeOK
<1>2. /\ keyed.like \in [(1..keyed.rows) \X (1..keyed.rows) -> BOOLEAN]
      /\ \A i, j \in 1..keyed.rows :
            keyed.like[<<i, j>>] => keyed.like[<<j, i>>] /\ keyed.like[<<i, i>>]
  BY <1>1 DEF Likeness
<1> QED BY <1>2 DEF Alike

LEMMA SeqRange ==
  ASSUME NEW S, NEW s \in Seq(S), NEW i \in Range(s)
  PROVE  i \in S
<1>1. \A m \in DOMAIN s : s[m] \in S
  OBVIOUS
<1> QED BY <1>1 DEF Range

\* A row of an ascending sequence has one place in it.
LEMMA OnePlace ==
  ASSUME NEW n \in Nat, NEW s \in Seq(1..n), Ascending(s),
         NEW k \in DOMAIN s, NEW m \in DOMAIN s, s[k] = s[m]
  PROVE  k = m
<1>1. k \in Nat /\ m \in Nat /\ s[k] \in Nat /\ s[m] \in Nat
  OBVIOUS
<1>2. (k < m => s[k] < s[m]) /\ (m < k => s[m] < s[k])
  BY DEF Ascending
<1> QED BY <1>1, <1>2

\* A group of one row, and one that a row is added to.
LEMMA NewGroup ==
  ASSUME NEW r \in Nat
  PROVE  (\A peers : IsGroup(peers, <<r>>, r, r + 1)) /\ Range(<<r>>) = {r}
<1>1. <<r>> # <<>> /\ DOMAIN <<r>> = {1} /\ <<r>>[1] = r
  OBVIOUS
<1>2. Ascending(<<r>>)
  BY <1>1 DEF Ascending
<1>3. Range(<<r>>) = {r}
  BY <1>1 DEF Range
<1> QED BY <1>1, <1>2, <1>3 DEF IsGroup

LEMMA GrownGroup ==
  ASSUME NEW n \in Nat, NEW peers, NEW g \in Seq(1..n), NEW l,
         NEW r \in 1..n, IsGroup(peers, g, l, r), r \in peers,
         NEW h \in Seq(1..n), Len(h) = Len(g) + 1, h[Len(g) + 1] = r,
         \A m \in 1..Len(g) : h[m] = g[m]
  PROVE  IsGroup(peers, h, l, r + 1)
<1>1. /\ DOMAIN g = 1..Len(g) /\ Len(g) \in Nat /\ DOMAIN h = 1..(Len(g) + 1)
      /\ \A m \in 1..Len(g) : h[m] = g[m]
      /\ h[Len(g) + 1] = r
      /\ \A m \in 1..Len(g) : g[m] \in 1..n
  OBVIOUS
<1>2. /\ g # <<>> /\ g[1] = l /\ Ascending(g)
      /\ \A m \in DOMAIN g : g[m] < r /\ (m > 1 => g[m] \in peers)
  BY DEF IsGroup
<1>3. 1 \in 1..Len(g) /\ h # <<>>
  BY <1>1, <1>2
<1>4. ASSUME NEW m \in DOMAIN h
      PROVE  h[m] < r + 1 /\ (m > 1 => h[m] \in peers)
  <2>1. CASE m \in 1..Len(g)
    BY <1>1, <1>2, <2>1
  <2>2. CASE m = Len(g) + 1
    BY <1>1, <2>2
  <2> QED BY <1>1, <2>1, <2>2
<1>5. ASSUME NEW k \in DOMAIN h, NEW m \in DOMAIN h, k < m
      PROVE  h[k] < h[m]
  <2>1. k \in 1..Len(g) /\ h[k] = g[k]
    BY <1>1, <1>5
  <2>2. CASE m \in 1..Len(g)
    BY <1>1, <1>2, <1>5, <2>1, <2>2 DEF Ascending
  <2>3. CASE m = Len(g) + 1
    BY <1>1, <1>2, <2>1, <2>3
  <2> QED BY <1>1, <2>2, <2>3
<1>6. Ascending(h)
  BY <1>5 DEF Ascending
<1> QED BY <1>1, <1>2, <1>3, <1>4, <1>6 DEF IsGroup

\* A group stays one when more rows have come past.
LEMMA OlderGroup ==
  ASSUME NEW n \in Nat, NEW peers, NEW g \in Seq(1..n), NEW l,
         NEW r \in Nat, IsGroup(peers, g, l, r)
  PROVE  IsGroup(peers, g, l, r + 1) /\ \A i \in Range(g) : i < r /\ i \in 1..n
<1>1. /\ g # <<>> /\ g[1] = l /\ Ascending(g)
      /\ \A m \in DOMAIN g : g[m] < r /\ (m > 1 => g[m] \in peers)
  BY DEF IsGroup
<1>2. \A m \in DOMAIN g : g[m] \in 1..n
  OBVIOUS
<1>3. \A m \in DOMAIN g : g[m] < r + 1
  <2> SUFFICES ASSUME NEW m \in DOMAIN g PROVE g[m] < r + 1
    OBVIOUS
  <2>1. g[m] < r
    BY <1>1
  <2>2. g[m] \in 1..n
    OBVIOUS
  <2> QED BY <2>1, <2>2
<1>4. \A i \in Range(g) : i < r /\ i \in 1..n
  BY <1>1, <1>2 DEF Range
<1> QED BY <1>1, <1>3, <1>4 DEF IsGroup

\* What depends on the arguments of the call only.
LEMMA KeyedKept ==
  ASSUME keyed' = keyed
  PROVE  \A i, j : Alike(i, j)' <=> Alike(i, j)
BY DEF Alike

\* Every key in order has its group.
LEMMA GroupTypes ==
  ASSUME KeysTypeOK, Keys, pass \in Busy, NEW k \in DOMAIN order
  PROVE  /\ GroupOf(k) \in Seq(1..keyed.rows)
         /\ k > Len(parts) => order[k] \in DOMAIN groups
<1>1. k \in 1..Len(order) /\ Len(parts) \in Nat /\ Len(order) \in Nat
  BY CallFacts
<1>2. CASE k <= Len(parts)
  BY <1>1, <1>2, CallFacts DEF GroupOf
<1>3. CASE k > Len(parts)
  <2>1. order[k] \in DOMAIN groups
    BY <1>1, <1>3 DEF Keys
  <2>2. groups[order[k]] \in Seq(1..keyed.rows)
    BY <2>1 DEF KeysTypeOK
  <2> QED BY <1>1, <1>3, <2>1, <2>2 DEF GroupOf
<1> QED BY <1>1, <1>2, <1>3

-----------------------------------------------------------------------------
(* The steps.                                                              *)

\* The row whose key is evaluated.
LEMMA ScanFacts ==
  ASSUME KeysTypeOK, Places, NEW fate, Scans(fate)
  PROVE  /\ row \in 1..keyed.rows /\ keyed.key[row] = fate
         /\ pass = "scan" /\ parts = <<>> /\ Len(parts) = 0
BY CallFacts DEF Scans, Places

LEMMA TypesKept ==
  ASSUME KeysTypeOK, Places, KeyStep
  PROVE  KeysTypeOK'
<1>1. keyed' = keyed
  BY DEF KeyStep, FailKey, NewKey, KnownKey, EndScan, TakeGroup, LoseGroup, EndCollect
<1>2. /\ (keyed.use \in KeyUses /\ keyed.rows \in Nat)'
      /\ (keyed.key \in [1..keyed.rows -> KeyFate] /\ keyed.like \in Likeness(keyed.rows))'
  BY <1>1 DEF KeysTypeOK
<1>3. /\ keyed.rows \in Nat /\ row \in 0..(keyed.rows + 1)
      /\ order \in Seq(1..keyed.rows) /\ parts \in Seq(Seq(1..keyed.rows))
      /\ DOMAIN groups \subseteq 1..keyed.rows
      /\ \A l \in DOMAIN groups : groups[l] \in Seq(1..keyed.rows)
  BY DEF KeysTypeOK
<1>4. CASE FailKey
  BY <1>1, <1>2, <1>3, <1>4 DEF FailKey, KeysTypeOK, BadKey
<1>5. CASE NewKey
  <2>1. row \in 1..keyed.rows
    BY <1>5, ScanFacts DEF NewKey
  <2>2. (order \in Seq(1..keyed.rows))'
    BY <1>1, <1>3, <1>5, <2>1, Appended DEF NewKey
  <2>3. /\ DOMAIN groups' = DOMAIN groups \cup {row}
        /\ \A l \in DOMAIN groups' : groups'[l] = IF l = row THEN <<row>> ELSE groups[l]
    BY <1>5 DEF NewKey
  <2>4. (DOMAIN groups \subseteq 1..keyed.rows)'
    BY <1>1, <1>3, <2>1, <2>3
  <2>5. <<row>> \in Seq(1..keyed.rows)
    BY <2>1
  <2>6. \A l \in DOMAIN groups' : groups'[l] \in Seq(1..keyed.rows)
    BY <1>3, <2>3, <2>5
  <2>7. row' \in 0..(keyed.rows + 1) /\ pass' = pass /\ parts' = parts
    BY <1>3, <1>5, <2>1 DEF NewKey
  <2> QED BY <1>1, <1>2, <1>3, <2>2, <2>4, <2>6, <2>7 DEF KeysTypeOK
<1>6. CASE KnownKey
  <2>1. row \in 1..keyed.rows
    BY <1>6, ScanFacts DEF KnownKey
  <2>2. PICK l \in Found(row) : groups' = [groups EXCEPT ![l] = Append(@, row)]
    BY <1>6 DEF KnownKey
  <2>3. l \in DOMAIN groups /\ Append(groups[l], row) \in Seq(1..keyed.rows)
    BY <1>3, <2>1, Appended DEF Found
  <2>4. /\ DOMAIN groups' = DOMAIN groups
        /\ \A m \in DOMAIN groups' : groups'[m] \in Seq(1..keyed.rows)
    BY <1>3, <2>2, <2>3
  <2>5. row' \in 0..(keyed.rows + 1) /\ pass' = pass /\ order' = order /\ parts' = parts
    BY <1>3, <1>6, <2>1 DEF KnownKey
  <2> QED BY <1>1, <1>2, <1>3, <2>4, <2>5 DEF KeysTypeOK
<1>7. CASE EndScan
  BY <1>1, <1>2, <1>3, <1>7 DEF EndScan, KeysTypeOK
<1>8. CASE TakeGroup
  <2>1. PICK l \in Found(NextKey) : /\ parts' = Append(parts, groups[l])
                                    /\ groups' = [m \in DOMAIN groups \ {l} |-> groups[m]]
    BY <1>8 DEF TakeGroup
  <2>2. (parts \in Seq(Seq(1..keyed.rows)))'
    BY <1>1, <1>3, <2>1, Appended DEF Found
  <2>3. /\ DOMAIN groups' \subseteq DOMAIN groups
        /\ \A m \in DOMAIN groups' : groups'[m] = groups[m]
    BY <2>1
  <2> QED BY <1>1, <1>2, <1>3, <1>8, <2>2, <2>3 DEF TakeGroup, KeysTypeOK
<1>9. CASE LoseGroup
  BY <1>1, <1>2, <1>3, <1>9 DEF LoseGroup, KeysTypeOK, BadKey
<1>10. CASE EndCollect
  BY <1>1, <1>2, <1>3, <1>10 DEF EndCollect, KeysTypeOK
<1> QED BY <1>4, <1>5, <1>6, <1>7, <1>8, <1>9, <1>10 DEF KeyStep

\* What the invariant says while the rows are come past.
LEMMA ScanHolds ==
  ASSUME IInv, NEW fate, Scans(fate)
  PROVE  /\ \A i \in 1..(row - 1) : keyed.key[i] = "ok"
         /\ Ascending(order) /\ \A k \in DOMAIN order : order[k] < row
         /\ \A k, m \in DOMAIN order : k # m => ~Alike(order[k], order[m])
         /\ DOMAIN groups = {order[k] : k \in DOMAIN order}
         /\ \A k \in DOMAIN order : /\ GroupOf(k) = groups[order[k]]
                                    /\ GroupOf(k) \in Seq(1..keyed.rows)
                                    /\ IsGroup(Peers(keyed, order[k]), GroupOf(k), order[k], row)
         /\ \A i \in 1..(row - 1) : \E k \in DOMAIN order : i \in Range(GroupOf(k))
         /\ \A k, m \in DOMAIN order : k # m => Range(GroupOf(k)) \cap Range(GroupOf(m)) = {}
<1>1. KeysTypeOK /\ pass = "scan" /\ pass \in Busy /\ parts = <<>> /\ Len(parts) = 0
  BY ScanFacts DEF IInv, Busy
<1>2. \A k \in DOMAIN order : GroupOf(k) = groups[order[k]] /\ GroupOf(k) \in Seq(1..keyed.rows)
  <2> SUFFICES ASSUME NEW k \in DOMAIN order
               PROVE  GroupOf(k) = groups[order[k]] /\ GroupOf(k) \in Seq(1..keyed.rows)
    OBVIOUS
  <2>1. k \in 1..Len(order) /\ Len(order) \in Nat
    BY <1>1, CallFacts
  <2>2. GroupOf(k) = groups[order[k]]
    BY <1>1, <2>1 DEF GroupOf
  <2> QED BY <1>1, <2>2, GroupTypes DEF IInv
<1>3. (Len(parts) + 1)..Len(order) = DOMAIN order
  BY <1>1, CallFacts
<1> QED BY <1>1, <1>2, <1>3 DEF IInv, Keys, Grouped, Fates

LEMMA FailKeyKeeps == IInv /\ FailKey => IInv'
<1> SUFFICES ASSUME IInv, FailKey PROVE IInv'
  OBVIOUS
<1>1. PICK fate \in BadKey : Scans(fate) /\ pass' = fate
  BY DEF FailKey
<1>2. /\ row \in 1..keyed.rows /\ keyed.key[row] = fate
      /\ \A i \in 1..(row - 1) : keyed.key[i] = "ok"
  BY <1>1, ScanFacts, ScanHolds DEF IInv
<1>3. keyed' = keyed /\ row' = row
  BY DEF FailKey
<1>4. KeysTypeOK'
  BY TypesKept DEF IInv, KeyStep
<1>5. Places' /\ Keys' /\ Grouped'
  BY <1>1 DEF Places, Keys, Grouped, BadKey, Busy
<1>6. Fates'
  BY <1>1, <1>2, <1>3 DEF Fates, BadKey, Busy
<1> QED BY <1>4, <1>5, <1>6 DEF IInv

LEMMA NewKeyKeeps == IInv /\ NewKey => IInv'
<1> SUFFICES ASSUME IInv, NewKey PROVE IInv'
  OBVIOUS
<1>0. PICK n \in Nat : n = Len(order)
  BY CallFacts DEF IInv
<1>1. /\ row \in 1..keyed.rows /\ keyed.key[row] = "ok" /\ keyed.rows \in Nat
      /\ pass = "scan" /\ parts = <<>> /\ Len(parts) = 0
      /\ DOMAIN order = 1..n /\ \A k \in 1..n : order[k] \in 1..keyed.rows
  BY <1>0, ScanFacts, CallFacts DEF IInv, NewKey
<1>2. /\ keyed' = keyed /\ pass' = pass /\ parts' = parts /\ row' = row + 1
      /\ order' = Append(order, row) /\ Found(row) = {}
      /\ groups' = [l \in DOMAIN groups \cup {row} |-> IF l = row THEN <<row>> ELSE groups[l]]
  BY DEF NewKey
<1>3. KeysTypeOK /\ KeysTypeOK'
  BY TypesKept DEF IInv, KeyStep
<1>4. /\ \A i \in 1..(row - 1) : keyed.key[i] = "ok"
      /\ Ascending(order) /\ \A k \in 1..n : order[k] < row
      /\ \A k, m \in 1..n : k # m => ~Alike(order[k], order[m])
      /\ DOMAIN groups = {order[k] : k \in 1..n}
      /\ \A k \in 1..n : /\ GroupOf(k) = groups[order[k]]
                         /\ GroupOf(k) \in Seq(1..keyed.rows)
                         /\ IsGroup(Peers(keyed, order[k]), GroupOf(k), order[k], row)
      /\ \A i \in 1..(row - 1) : \E k \in 1..n : i \in Range(GroupOf(k))
      /\ \A k, m \in 1..n : k # m => Range(GroupOf(k)) \cap Range(GroupOf(m)) = {}
  BY <1>1, ScanHolds DEF NewKey
<1>5. /\ DOMAIN order' = 1..(n + 1) /\ Len(order') = n + 1
      /\ \A k \in 1..n : order'[k] = order[k]
      /\ order'[n + 1] = row
  <2>1. order \in Seq(1..keyed.rows)
    BY <1>3 DEF KeysTypeOK
  <2> QED BY <1>0, <1>1, <1>2, <2>1, Appended
<1>6. \A k \in 1..n : ~Alike(order[k], row) /\ ~Alike(row, order[k])
  <2> SUFFICES ASSUME NEW k \in 1..n PROVE ~Alike(order[k], row) /\ ~Alike(row, order[k])
    OBVIOUS
  <2>1. order[k] \in DOMAIN groups
    BY <1>4
  <2>2. ~Alike(row, order[k])
    BY <1>2, <2>1 DEF Found, Alike
  <2> QED BY <1>1, <1>3, <2>2, Likenesses
<1>7. /\ \A k \in 1..n : GroupOf(k)' = GroupOf(k)
      /\ GroupOf(n + 1)' = <<row>>
  <2>1. ASSUME NEW k \in 1..n PROVE groups'[order[k]] = groups[order[k]]
    <3>1. order[k] \in DOMAIN groups
      BY <1>4
    <3>2. order[k] < row
      BY <1>4
    <3>3. order[k] # row
      BY <1>1, <3>2
    <3> QED BY <1>2, <3>1, <3>3
  <2>2. groups'[row] = <<row>>
    BY <1>2
  <2>3. \A k \in 1..(n + 1) : GroupOf(k)' = groups'[order'[k]]
    BY <1>1, <1>2 DEF GroupOf
  <2>4. ASSUME NEW k \in 1..n PROVE GroupOf(k)' = GroupOf(k)
    <3>1. k \in 1..(n + 1) /\ order'[k] = order[k]
      BY <1>5
    <3>2. GroupOf(k) = groups[order[k]]
      BY <1>4
    <3> QED BY <2>1, <2>3, <3>1, <3>2
  <2>5. n + 1 \in 1..(n + 1)
    OBVIOUS
  <2> QED BY <1>5, <2>2, <2>3, <2>4, <2>5
<1>8. Places'
  BY <1>1, <1>2 DEF Places
<1>9. Keys'
  <2>1. Ascending(order')
    <3> SUFFICES ASSUME NEW k \in 1..(n + 1), NEW m \in 1..(n + 1), k < m
                 PROVE  order'[k] < order'[m]
      BY <1>5 DEF Ascending
    <3>1. k \in 1..n /\ order'[k] = order[k]
      BY <1>1, <1>5
    <3>2. CASE m \in 1..n
      BY <1>1, <1>4, <1>5, <3>1, <3>2 DEF Ascending
    <3>3. CASE m = n + 1
      BY <1>4, <1>5, <3>1, <3>3
    <3> QED BY <1>1, <3>2, <3>3
  <2>2. ASSUME NEW k \in 1..(n + 1) PROVE order'[k] < row'
    <3>1. CASE k \in 1..n
      BY <1>1, <1>2, <1>4, <1>5, <3>1
    <3>2. CASE k = n + 1
      BY <1>1, <1>2, <1>5, <3>2
    <3> QED BY <1>1, <3>1, <3>2
  <2>3. ASSUME NEW k \in 1..(n + 1), NEW m \in 1..(n + 1), k # m
        PROVE  ~Alike(order'[k], order'[m])
    <3>1. k \in 1..n \/ k = n + 1
      BY <1>1
    <3>2. m \in 1..n \/ m = n + 1
      BY <1>1
    <3> QED BY <1>4, <1>5, <1>6, <2>3, <3>1, <3>2
  <2>4. DOMAIN groups' = {order'[k] : k \in (Len(parts') + 1)..Len(order')}
    <3>1. (Len(parts') + 1)..Len(order') = 1..(n + 1)
      BY <1>1, <1>2, <1>5
    <3>2. DOMAIN groups' = {order[k] : k \in 1..n} \cup {row}
      BY <1>2, <1>4
    <3>3. {order'[k] : k \in 1..(n + 1)} = {order[k] : k \in 1..n} \cup {row}
      BY <1>1, <1>5
    <3> QED BY <3>1, <3>2, <3>3
  <2>5. DOMAIN parts' = {}
    BY <1>1, <1>2
  <2> QED BY <1>2, <1>5, <2>1, <2>2, <2>3, <2>4, <2>5, KeyedKept DEF Keys, Ascending
<1>10. Grouped'
  <2>1. ASSUME NEW k \in 1..(n + 1) PROVE IsGroup(Peers(keyed', order'[k]), GroupOf(k)', order'[k], row')
    <3>1. CASE k \in 1..n
      <4>1. /\ GroupOf(k) \in Seq(1..keyed.rows)
            /\ IsGroup(Peers(keyed, order[k]), GroupOf(k), order[k], row)
        BY <1>4, <3>1
      <4>2. keyed.rows \in Nat /\ row \in Nat
        BY <1>1
      <4>3. IsGroup(Peers(keyed, order[k]), GroupOf(k), order[k], row + 1)
        BY <4>1, <4>2, OlderGroup
      <4> QED BY <1>2, <1>5, <1>7, <3>1, <4>3
    <3>2. CASE k = n + 1
      BY <1>1, <1>2, <1>5, <1>7, <3>2, NewGroup
    <3> QED BY <1>1, <3>1, <3>2
  <2>2. ASSUME NEW i \in 1..(row' - 1) PROVE \E k \in 1..(n + 1) : i \in Range(GroupOf(k)')
    <3>1. CASE i \in 1..(row - 1)
      <4>1. PICK k \in 1..n : i \in Range(GroupOf(k))
        BY <1>4, <3>1
      <4> QED BY <1>1, <1>7, <4>1
    <3>2. CASE i = row
      <4>1. i \in Range(GroupOf(n + 1)')
        BY <1>1, <1>7, <3>2, NewGroup
      <4> QED BY <1>1, <4>1
    <3> QED BY <1>1, <1>2, <3>1, <3>2
  <2>3. \A k \in 1..n : row \notin Range(GroupOf(k))
    <3> SUFFICES ASSUME NEW k \in 1..n, row \in Range(GroupOf(k)) PROVE FALSE
      OBVIOUS
    <3>1. GroupOf(k) \in Seq(1..keyed.rows) /\ IsGroup(Peers(keyed, order[k]), GroupOf(k), order[k], row)
      BY <1>4
    <3>2. keyed.rows \in Nat /\ row \in Nat
      BY <1>1
    <3>3. \A i \in Range(GroupOf(k)) : i < row
      BY <3>1, <3>2, OlderGroup
    <3> QED BY <3>2, <3>3
  <2>4. ASSUME NEW k \in 1..(n + 1), NEW m \in 1..(n + 1), k # m
        PROVE  Range(GroupOf(k)') \cap Range(GroupOf(m)') = {}
    <3>1. Range(GroupOf(n + 1)') = {row}
      BY <1>1, <1>7, NewGroup
    <3>2. k \in 1..n \/ k = n + 1
      BY <1>1
    <3>3. m \in 1..n \/ m = n + 1
      BY <1>1
    <3> QED BY <1>4, <1>7, <2>3, <2>4, <3>1, <3>2, <3>3
  <2> QED BY <1>2, <1>5, <2>1, <2>2, <2>4 DEF Grouped
<1>11. Fates'
  <2>1. ASSUME NEW i \in 1..(row' - 1) PROVE keyed.key[i] = "ok"
    BY <1>1, <1>2, <1>4
  <2> QED BY <1>1, <1>2, <2>1 DEF Fates, BadKey
<1> QED BY <1>3, <1>8, <1>9, <1>10, <1>11 DEF IInv

LEMMA KnownKeyKeeps == IInv /\ KnownKey => IInv'
<1> SUFFICES ASSUME IInv, KnownKey PROVE IInv'
  OBVIOUS
<1>0. PICK n \in Nat : n = Len(order)
  BY CallFacts DEF IInv
<1>1. /\ row \in 1..keyed.rows /\ keyed.key[row] = "ok" /\ keyed.rows \in Nat
      /\ pass = "scan" /\ parts = <<>> /\ Len(parts) = 0
      /\ DOMAIN order = 1..n /\ \A k \in 1..n : order[k] \in 1..keyed.rows
  BY <1>0, ScanFacts, CallFacts DEF IInv, KnownKey
<1>2. /\ keyed' = keyed /\ pass' = pass /\ parts' = parts /\ order' = order /\ row' = row + 1
  BY DEF KnownKey
<1>3. KeysTypeOK /\ KeysTypeOK'
  BY TypesKept DEF IInv, KeyStep
<1>4. /\ \A i \in 1..(row - 1) : keyed.key[i] = "ok"
      /\ Ascending(order) /\ \A k \in 1..n : order[k] < row
      /\ \A k, m \in 1..n : k # m => ~Alike(order[k], order[m])
      /\ DOMAIN groups = {order[k] : k \in 1..n}
      /\ \A k \in 1..n : /\ GroupOf(k) = groups[order[k]]
                         /\ GroupOf(k) \in Seq(1..keyed.rows)
                         /\ IsGroup(Peers(keyed, order[k]), GroupOf(k), order[k], row)
      /\ \A i \in 1..(row - 1) : \E k \in 1..n : i \in Range(GroupOf(k))
      /\ \A k, m \in 1..n : k # m => Range(GroupOf(k)) \cap Range(GroupOf(m)) = {}
  BY <1>1, ScanHolds DEF KnownKey
\* The key the row is like, and its group.
<1>5. PICK l \in Found(row) : groups' = [groups EXCEPT ![l] = Append(@, row)]
  BY DEF KnownKey
<1>6. l \in DOMAIN groups /\ keyed.like[<<row, l>>]
  BY <1>5 DEF Found
<1>7. PICK f \in 1..n : l = order[f]
  BY <1>4, <1>6
<1>8. \A k \in 1..n : k # f => order[k] # l
  <2>1. order \in Seq(1..keyed.rows)
    BY <1>3 DEF KeysTypeOK
  <2> QED BY <1>1, <1>4, <1>7, <2>1, OnePlace
<1>9. \A k \in 1..n : GroupOf(k)' = IF k = f THEN Append(GroupOf(k), row) ELSE GroupOf(k)
  <2> SUFFICES ASSUME NEW k \in 1..n
               PROVE  GroupOf(k)' = IF k = f THEN Append(GroupOf(k), row) ELSE GroupOf(k)
    OBVIOUS
  <2>1. GroupOf(k)' = groups'[order[k]]
    BY <1>1, <1>2 DEF GroupOf
  <2>2. GroupOf(k) = groups[order[k]] /\ order[k] \in DOMAIN groups
    BY <1>4
  <2>3. CASE k = f
    BY <1>5, <1>6, <1>7, <2>1, <2>2, <2>3
  <2>4. CASE k # f
    BY <1>5, <1>8, <2>1, <2>2, <2>4
  <2> QED BY <2>3, <2>4
<1>10. /\ \A k \in 1..n : IsGroup(Peers(keyed, order[k]), GroupOf(k)', order[k], row + 1)
       /\ \A k \in 1..n : Range(GroupOf(k)') = IF k = f THEN Range(GroupOf(k)) \cup {row}
                                               ELSE Range(GroupOf(k))
       /\ \A k \in 1..n : row \notin Range(GroupOf(k))
  <2> SUFFICES ASSUME NEW k \in 1..n
               PROVE  /\ IsGroup(Peers(keyed, order[k]), GroupOf(k)', order[k], row + 1)
                      /\ Range(GroupOf(k)') = IF k = f THEN Range(GroupOf(k)) \cup {row}
                                              ELSE Range(GroupOf(k))
                      /\ row \notin Range(GroupOf(k))
    OBVIOUS
  <2>1. GroupOf(k) \in Seq(1..keyed.rows) /\ IsGroup(Peers(keyed, order[k]), GroupOf(k), order[k], row)
    BY <1>4
  <2>2. keyed.rows \in Nat /\ row \in Nat /\ row \in 1..keyed.rows
    BY <1>1
  <2>3. /\ IsGroup(Peers(keyed, order[k]), GroupOf(k), order[k], row + 1)
        /\ \A i \in Range(GroupOf(k)) : i < row
    BY <2>1, <2>2, OlderGroup
  <2>4. row \notin Range(GroupOf(k))
    BY <2>2, <2>3
  <2>5. CASE k = f
    <3>1. row \in Peers(keyed, order[k])
      BY <1>1, <1>6, <1>7, <2>5 DEF Peers
    <3>2. GroupOf(k)' = Append(GroupOf(k), row)
      BY <1>9, <2>5
    <3>3. /\ GroupOf(k)' \in Seq(1..keyed.rows)
          /\ Len(GroupOf(k)') = Len(GroupOf(k)) + 1 /\ GroupOf(k)'[Len(GroupOf(k)) + 1] = row
          /\ \A m \in 1..Len(GroupOf(k)) : GroupOf(k)'[m] = GroupOf(k)[m]
      BY <2>1, <2>2, <3>2, Appended
    <3>4. IsGroup(Peers(keyed, order[k]), GroupOf(k)', order[k], row + 1)
      BY <2>1, <2>2, <3>1, <3>3, GrownGroup
    <3>5. PICK g, h : g = GroupOf(k) /\ h = GroupOf(k)'
      OBVIOUS
    <3>6. PICK j \in Nat : j = Len(g)
      BY <2>1, <3>5
    <3>7. Range(h) = Range(g) \cup {row}
      <4>1. DOMAIN g = 1..j /\ DOMAIN h = 1..(j + 1)
        BY <2>1, <3>3, <3>5, <3>6
      <4>2. h[j + 1] = row /\ \A m \in 1..j : h[m] = g[m]
        BY <3>3, <3>5, <3>6
      <4>3. j + 1 \in DOMAIN h /\ \A m \in DOMAIN h : m \in DOMAIN g \/ m = j + 1
        BY <4>1
      <4>4. \A m \in DOMAIN g : m \in DOMAIN h /\ h[m] = g[m]
        BY <4>1, <4>2
      <4> QED BY <4>2, <4>3, <4>4 DEF Range
    <3> QED BY <2>4, <2>5, <3>4, <3>5, <3>7
  <2>6. CASE k # f
    BY <1>9, <2>3, <2>4, <2>6
  <2> QED BY <2>5, <2>6
<1>11. Places'
  BY <1>1, <1>2 DEF Places
<1>12. Keys'
  <2>1. \A k \in 1..n : order[k] < row + 1
    BY <1>1, <1>4
  <2>2. DOMAIN groups' = {order[k] : k \in 1..n}
    BY <1>4, <1>5
  <2>3. (Len(parts') + 1)..Len(order') = 1..n
    BY <1>0, <1>1, <1>2
  <2>4. DOMAIN parts' = {}
    BY <1>1, <1>2
  <2> QED BY <1>1, <1>2, <1>4, <2>1, <2>2, <2>3, <2>4, KeyedKept DEF Keys
<1>13. Grouped'
  <2>1. ASSUME NEW i \in 1..(row' - 1) PROVE \E k \in 1..n : i \in Range(GroupOf(k)')
    <3>1. CASE i \in 1..(row - 1)
      BY <1>4, <1>10, <3>1
    <3>2. CASE i = row
      BY <1>10, <3>2
    <3> QED BY <1>1, <1>2, <3>1, <3>2
  <2>2. ASSUME NEW k \in 1..n, NEW m \in 1..n, k # m
        PROVE  Range(GroupOf(k)') \cap Range(GroupOf(m)') = {}
    BY <1>4, <1>10, <2>2
  <2> QED BY <1>1, <1>2, <1>10, <2>1, <2>2 DEF Grouped
<1>14. Fates'
  <2>1. ASSUME NEW i \in 1..(row' - 1) PROVE keyed.key[i] = "ok"
    BY <1>1, <1>2, <1>4
  <2> QED BY <1>1, <1>2, <2>1 DEF Fates, BadKey
<1> QED BY <1>3, <1>11, <1>12, <1>13, <1>14 DEF IInv

LEMMA EndScanKeeps == IInv /\ EndScan => IInv'
<1> SUFFICES ASSUME IInv, EndScan PROVE IInv'
  OBVIOUS
<1>1. /\ row = keyed.rows + 1 /\ Len(parts) = 0 /\ Len(order) \in Nat
      /\ pass = "scan" /\ pass' \in {"collect", "done"}
      /\ pass' = "collect" <=> keyed.use = "group"
  BY CallFacts DEF IInv, Places, EndScan
<1>2. /\ keyed' = keyed /\ row' = row /\ order' = order /\ groups' = groups /\ parts' = parts
  BY DEF EndScan
<1>3. KeysTypeOK'
  BY TypesKept DEF IInv, KeyStep
<1>4. Places'
  BY <1>1, <1>2 DEF Places
<1>5. Keys' /\ Grouped'
  <2>1. \A k : GroupOf(k)' = GroupOf(k)
    BY <1>2 DEF GroupOf
  <2>2. pass \in Busy
    BY <1>1 DEF Busy
  <2>3. Keys'
    BY <1>2, <2>2, KeyedKept DEF IInv, Keys
  <2> QED BY <1>2, <2>1, <2>2, <2>3 DEF IInv, Grouped
<1>6. Fates'
  BY <1>1, <1>2, KeyedKept DEF IInv, Fates, Busy, BadKey
<1> QED BY <1>3, <1>4, <1>5, <1>6 DEF IInv

\* The next key in order is in the table, and what the look-up finds is its own entry.
LEMMA NextKeyFacts ==
  ASSUME IInv, Collects
  PROVE  /\ NextKey \in 1..keyed.rows /\ NextKey \in DOMAIN groups
         /\ Len(parts) + 1 \in DOMAIN order
         /\ Found(NextKey) \subseteq {NextKey}
         /\ Found(NextKey) = {} <=> ~Alike(NextKey, NextKey)
<1>1. PICK n \in Nat, j \in Nat : n = Len(order) /\ j = Len(parts)
  BY CallFacts DEF IInv
<1>2. j < n /\ j + 1 \in 1..n /\ pass \in Busy /\ DOMAIN order = 1..n /\ KeysTypeOK
  BY <1>1, CallFacts DEF IInv, Collects, Busy
<1>3. NextKey = order[j + 1] /\ \A k \in 1..n : order[k] \in 1..keyed.rows
  BY <1>1, <1>2, CallFacts DEF NextKey
<1>4. DOMAIN groups = {order[k] : k \in (j + 1)..n}
  BY <1>1, <1>2 DEF IInv, Keys
<1>5. \A k, m \in 1..n : k # m => ~Alike(order[k], order[m])
  BY <1>2 DEF IInv, Keys
<1>6. NextKey \in DOMAIN groups
  <2>1. j + 1 \in (j + 1)..n
    BY <1>2
  <2> QED BY <1>3, <1>4, <2>1
<1>7. ASSUME NEW l \in Found(NextKey) PROVE l = NextKey
  <2>1. l \in DOMAIN groups /\ Alike(NextKey, l)
    BY <1>7 DEF Found, Alike
  <2>2. PICK k \in (j + 1)..n : l = order[k]
    BY <1>4, <2>1
  <2>3. k \in 1..n
    BY <2>2
  <2> QED BY <1>2, <1>3, <1>5, <2>1, <2>2, <2>3
<1>8. NextKey \in Found(NextKey) <=> Alike(NextKey, NextKey)
  BY <1>6 DEF Found, Alike
<1> QED BY <1>1, <1>2, <1>3, <1>6, <1>7, <1>8

LEMMA TakeGroupKeeps == IInv /\ TakeGroup => IInv'
<1> SUFFICES ASSUME IInv, TakeGroup PROVE IInv'
  OBVIOUS
<1>1. PICK n \in Nat, j \in Nat : n = Len(order) /\ j = Len(parts)
  BY CallFacts DEF IInv
<1>2. /\ j < n /\ j + 1 \in 1..n /\ pass = "collect" /\ row = keyed.rows + 1
      /\ keyed.use = "group" /\ DOMAIN order = 1..n /\ DOMAIN parts = 1..j
  BY <1>1, CallFacts DEF IInv, Places, TakeGroup, Collects
<1>3. /\ keyed' = keyed /\ pass' = pass /\ row' = row /\ order' = order
  BY DEF TakeGroup
<1>4. KeysTypeOK /\ KeysTypeOK'
  BY TypesKept DEF IInv, KeyStep
<1>5. PICK l \in Found(NextKey) : /\ parts' = Append(parts, groups[l])
                                  /\ groups' = [m \in DOMAIN groups \ {l} |-> groups[m]]
  BY DEF TakeGroup
<1>6. l = order[j + 1] /\ l \in DOMAIN groups /\ Alike(l, l)
  <2>1. l = NextKey /\ NextKey \in DOMAIN groups /\ Found(NextKey) # {}
    BY <1>5, NextKeyFacts DEF TakeGroup
  <2>2. Alike(l, l)
    BY <2>1, NextKeyFacts DEF TakeGroup
  <2> QED BY <1>1, <2>1, <2>2 DEF NextKey
<1>7. /\ Ascending(order) /\ \A k \in 1..n : order[k] < row
      /\ \A k, m \in 1..n : k # m => ~Alike(order[k], order[m])
      /\ DOMAIN groups = {order[k] : k \in (j + 1)..n}
      /\ \A k \in 1..j : Alike(order[k], order[k])
  BY <1>1, <1>2 DEF IInv, Keys, Busy
<1>8. /\ DOMAIN parts' = 1..(j + 1) /\ Len(parts') = j + 1
      /\ \A k \in 1..j : parts'[k] = parts[k]
      /\ parts'[j + 1] = groups[l]
  <2>1. parts \in Seq(Seq(1..keyed.rows)) /\ groups[l] \in Seq(1..keyed.rows)
    BY <1>4, <1>6 DEF KeysTypeOK
  <2> QED BY <1>1, <1>5, <2>1, Appended
<1>9. \A k \in 1..n : k # j + 1 => order[k] # l
  <2>1. order \in Seq(1..keyed.rows) /\ keyed.rows \in Nat
    BY <1>4 DEF KeysTypeOK
  <2> QED BY <1>2, <1>6, <1>7, <2>1, OnePlace
<1>10. \A k \in 1..n : GroupOf(k)' = GroupOf(k)
  <2> SUFFICES ASSUME NEW k \in 1..n PROVE GroupOf(k)' = GroupOf(k)
    OBVIOUS
  <2>1. GroupOf(k)' = IF k <= j + 1 THEN parts'[k] ELSE groups'[order[k]]
    BY <1>3, <1>8 DEF GroupOf
  <2>2. GroupOf(k) = IF k <= j THEN parts[k] ELSE groups[order[k]]
    BY <1>1 DEF GroupOf
  <2>3. CASE k <= j
    BY <1>8, <2>1, <2>2, <2>3
  <2>4. CASE k = j + 1
    BY <1>6, <1>8, <2>1, <2>2, <2>4
  <2>5. CASE k > j + 1
    <3>1. order[k] \in DOMAIN groups /\ order[k] # l
      BY <1>7, <1>9, <2>5
    <3>2. groups'[order[k]] = groups[order[k]]
      BY <1>5, <3>1
    <3> QED BY <2>1, <2>2, <2>5, <3>2
  <2> QED BY <2>3, <2>4, <2>5
<1>11. Places'
  BY <1>1, <1>2, <1>3, <1>8 DEF Places
<1>12. Keys'
  <2>1. DOMAIN groups' = {order[k] : k \in (j + 2)..n}
    <3>1. DOMAIN groups' = DOMAIN groups \ {l}
      BY <1>5
    <3>2. \A k : k \in (j + 1)..n <=> k \in (j + 2)..n \/ k = j + 1
      BY <1>2
    <3>3. \A k \in (j + 2)..n : order[k] # l
      BY <1>9
    <3> QED BY <1>6, <1>7, <3>1, <3>2, <3>3
  <2>2. (Len(parts') + 1)..Len(order') = (j + 2)..n
    BY <1>1, <1>3, <1>8
  <2>3. ASSUME NEW k \in 1..(j + 1) PROVE Alike(order[k], order[k])
    BY <1>6, <1>7
  <2> QED BY <1>2, <1>3, <1>7, <1>8, <2>1, <2>2, <2>3, KeyedKept DEF Keys
<1>13. Grouped'
  <2>1. pass \in Busy
    BY <1>2 DEF Busy
  <2>2. /\ \A k \in 1..n : IsGroup(Peers(keyed, order[k]), GroupOf(k), order[k], row)
        /\ \A i \in 1..(row - 1) : \E k \in 1..n : i \in Range(GroupOf(k))
        /\ \A k, m \in 1..n : k # m => Range(GroupOf(k)) \cap Range(GroupOf(m)) = {}
    BY <1>2, <2>1 DEF IInv, Grouped
  <2>3. \A k \in 1..n : IsGroup(Peers(keyed, order[k]), GroupOf(k)', order[k], row)
    BY <1>10, <2>2
  <2>4. ASSUME NEW i \in 1..(row - 1) PROVE \E k \in 1..n : i \in Range(GroupOf(k)')
    BY <1>10, <2>2
  <2>5. ASSUME NEW k \in 1..n, NEW m \in 1..n, k # m
        PROVE  Range(GroupOf(k)') \cap Range(GroupOf(m)') = {}
    BY <1>10, <2>2, <2>5
  <2> QED BY <1>2, <1>3, <2>3, <2>4, <2>5 DEF Grouped
<1>14. Fates'
  BY <1>2, <1>3 DEF IInv, Fates, Busy, BadKey
<1> QED BY <1>4, <1>11, <1>12, <1>13, <1>14 DEF IInv

LEMMA LoseGroupKeeps == IInv /\ LoseGroup => IInv'
<1> SUFFICES ASSUME IInv, LoseGroup PROVE IInv'
  OBVIOUS
<1>1. /\ pass = "collect" /\ pass' = "panicked" /\ keyed.use = "group" /\ row = keyed.rows + 1
      /\ keyed.rows \in Nat
  BY CallFacts DEF IInv, Places, LoseGroup, Collects
<1>2. NextKey \in 1..keyed.rows /\ ~Alike(NextKey, NextKey)
  BY NextKeyFacts DEF LoseGroup
<1>3. \A i \in 1..keyed.rows : keyed.key[i] = "ok"
  BY <1>1 DEF IInv, Fates, Busy
<1>4. keyed' = keyed
  BY DEF LoseGroup
<1>5. KeysTypeOK'
  BY TypesKept DEF IInv, KeyStep
<1>6. Places' /\ Keys' /\ Grouped'
  BY <1>1 DEF Places, Keys, Grouped, Busy
<1>7. Fates'
  <2>1. PICK i \in 1..keyed.rows : ~Alike(i, i)
    BY <1>2
  <2>2. ~Alike(i, i)'
    BY <1>4, <2>1, KeyedKept
  <2> QED BY <1>1, <1>3, <1>4, <2>2 DEF Fates, BadKey, Busy
<1> QED BY <1>5, <1>6, <1>7 DEF IInv

LEMMA EndCollectKeeps == IInv /\ EndCollect => IInv'
<1> SUFFICES ASSUME IInv, EndCollect PROVE IInv'
  OBVIOUS
<1>1. /\ pass = "collect" /\ pass' = "done" /\ Len(parts) = Len(order) /\ Len(order) \in Nat
      /\ row = keyed.rows + 1
  BY CallFacts DEF IInv, Places, EndCollect
<1>2. /\ keyed' = keyed /\ row' = row /\ order' = order /\ groups' = groups /\ parts' = parts
  BY DEF EndCollect
<1>3. KeysTypeOK'
  BY TypesKept DEF IInv, KeyStep
<1>4. Places'
  BY <1>1, <1>2 DEF Places
<1>5. pass \in Busy /\ \A k : GroupOf(k)' = GroupOf(k)
  BY <1>1, <1>2 DEF Busy, GroupOf
<1>6. Keys'
  BY <1>2, <1>5, KeyedKept DEF IInv, Keys
<1>7. Grouped'
  BY <1>2, <1>5 DEF IInv, Grouped
<1>8. Fates'
  BY <1>1, <1>2, KeyedKept DEF IInv, Fates, Busy, BadKey
<1> QED BY <1>3, <1>4, <1>6, <1>7, <1>8 DEF IInv

\* While no call is under way there is nothing to say.
LEMMA IdleHolds == KeysInit => IInv
<1> SUFFICES ASSUME KeysInit PROVE IInv
  OBVIOUS
<1>1. /\ keyed.use = "group" /\ keyed.rows = 0 /\ keyed.key = <<>> /\ keyed.like = <<>>
      /\ pass = "idle" /\ row = 0 /\ order = <<>> /\ groups = <<>> /\ parts = <<>>
  BY DEF KeysInit, NoKeys
<1>2. 1..0 = {} /\ (1..0) \X (1..0) = {} /\ DOMAIN <<>> = {}
  OBVIOUS
<1>3. keyed.key \in [1..keyed.rows -> KeyFate]
  BY <1>1, <1>2
<1>4. keyed.like \in Likeness(keyed.rows)
  <2>1. <<>> \in [(1..0) \X (1..0) -> BOOLEAN]
    BY <1>2
  <2> QED BY <1>1, <1>2, <2>1 DEF Likeness
<1>5. KeysTypeOK
  <2>1. order \in Seq(1..keyed.rows) /\ parts \in Seq(Seq(1..keyed.rows)) /\ DOMAIN groups = {}
    BY <1>1, <1>2
  <2> QED BY <1>1, <1>3, <1>4, <2>1 DEF KeysTypeOK, KeyUses
<1> QED BY <1>1, <1>5 DEF IInv, Places, Keys, Grouped, Fates, Busy, BadKey

LEMMA ReturnKeeps == ReturnKeys => IInv'
<1>1. ReturnKeys => KeysInit'
  BY DEF ReturnKeys, KeysInit, NoKeys
<1> QED BY <1>1, IdleHolds, PTL

\* A call has come past no row at its beginning.
LEMMA BeginKeeps ==
  ASSUME NEW k, BeginKeys(k), k.use \in KeyUses, k.rows \in Nat,
         k.key \in [1..k.rows -> KeyFate], k.like \in Likeness(k.rows)
  PROVE  IInv'
<1>1. /\ keyed' = k /\ pass' = "scan" /\ row' = 1
      /\ order' = <<>> /\ groups' = <<>> /\ parts' = <<>>
  BY DEF BeginKeys
<1>2. /\ DOMAIN order' = {} /\ DOMAIN parts' = {} /\ DOMAIN groups' = {}
      /\ Len(order') = 0 /\ Len(parts') = 0
  BY <1>1
<1>3. KeysTypeOK'
  <2>1. order' \in Seq(1..k.rows) /\ parts' \in Seq(Seq(1..k.rows)) /\ row' \in 0..(k.rows + 1)
    BY <1>1
  <2> QED BY <1>1, <1>2, <2>1 DEF KeysTypeOK
<1>4. Places'
  BY <1>1 DEF Places
<1>5. Keys'
  <2>1. (Len(parts') + 1)..Len(order') = {}
    BY <1>2
  <2>2. Ascending(order')
    BY <1>2 DEF Ascending
  <2> QED BY <1>2, <2>1, <2>2 DEF Keys
<1>6. Grouped'
  <2>1. 1..(row' - 1) = {}
    BY <1>1
  <2> QED BY <1>2, <2>1 DEF Grouped
<1>7. Fates'
  BY <1>1 DEF Fates, BadKey
<1> QED BY <1>3, <1>4, <1>5, <1>6, <1>7 DEF IInv

LEMMA StutterKeeps == IInv /\ UNCHANGED groupVars => IInv'
<1> SUFFICES ASSUME IInv, UNCHANGED groupVars PROVE IInv'
  OBVIOUS
<1>1. /\ keyed' = keyed /\ pass' = pass /\ row' = row
      /\ order' = order /\ groups' = groups /\ parts' = parts
  BY DEF groupVars
<1>2. \A k : GroupOf(k)' = GroupOf(k)
  BY <1>1 DEF GroupOf
<1>3. KeysTypeOK' /\ Places'
  BY <1>1 DEF IInv, KeysTypeOK, Places
<1>4. Keys'
  BY <1>1, KeyedKept DEF IInv, Keys
<1>5. Grouped'
  BY <1>1, <1>2 DEF IInv, Grouped
<1>6. Fates'
  BY <1>1, KeyedKept DEF IInv, Fates
<1> QED BY <1>3, <1>4, <1>5, <1>6 DEF IInv

-----------------------------------------------------------------------------
(* What a call that ends has done.                                         *)

\* Every row is in the group of some key, and but for the key itself comes later and is
\* like it.
LEMMA Members ==
  ASSUME IInv, pass = "done"
  PROVE  /\ \A i \in 1..keyed.rows : \E k \in DOMAIN order : i \in Range(GroupOf(k))
         /\ \A k \in DOMAIN order : \A i \in Range(GroupOf(k)) :
               i = order[k] \/ (order[k] < i /\ Alike(i, order[k]))
<1>1. KeysTypeOK /\ pass \in Busy /\ row = keyed.rows + 1 /\ keyed.rows \in Nat
  BY CallFacts DEF IInv, Places, Busy
<1>2. \A i \in 1..keyed.rows : \E k \in DOMAIN order : i \in Range(GroupOf(k))
  BY <1>1 DEF IInv, Grouped
<1>3. ASSUME NEW k \in DOMAIN order, NEW i \in Range(GroupOf(k))
      PROVE  i = order[k] \/ (order[k] < i /\ Alike(i, order[k]))
  <2>1. IsGroup(Peers(keyed, order[k]), GroupOf(k), order[k], row)
    BY <1>1 DEF IInv, Grouped
  <2>2. GroupOf(k) \in Seq(1..keyed.rows)
    BY <1>1, GroupTypes DEF IInv
  <2>3. PICK m \in DOMAIN GroupOf(k) : i = GroupOf(k)[m]
    BY <1>3 DEF Range
  <2>4. m \in Nat /\ m >= 1 /\ 1 \in DOMAIN GroupOf(k)
    BY <2>2, <2>3
  <2>5. CASE m = 1
    BY <2>1, <2>3, <2>5 DEF IsGroup
  <2>6. CASE m > 1
    <3>1. i \in Peers(keyed, order[k])
      BY <2>1, <2>3, <2>6 DEF IsGroup
    <3>2. GroupOf(k)[1] < GroupOf(k)[m] /\ GroupOf(k)[1] = order[k]
      BY <2>1, <2>4, <2>6 DEF IsGroup, Ascending
    <3> QED BY <2>3, <3>1, <3>2 DEF Peers, Alike
  <2> QED BY <2>4, <2>5, <2>6
<1> QED BY <1>2, <1>3

LEMMA OneOfEach == IInv /\ pass = "done" => KeepsOneOfEach
<1> SUFFICES ASSUME IInv, pass = "done" PROVE KeepsOneOfEach
  OBVIOUS
<1>1. pass \in Busy
  BY DEF Busy
<1>2. Ascending(order) /\ \A k, m \in DOMAIN order : k # m => ~Alike(order[k], order[m])
  BY <1>1 DEF IInv, Keys
<1>3. ASSUME NEW i \in (1..keyed.rows) \ Range(order)
      PROVE  \E k \in DOMAIN order : order[k] < i /\ Alike(i, order[k])
  <2>1. PICK k \in DOMAIN order : i \in Range(GroupOf(k))
    BY Members
  <2>2. i # order[k]
    BY <1>3 DEF Range
  <2> QED BY <2>1, <2>2, Members
<1> QED BY <1>2, <1>3 DEF KeepsOneOfEach

LEMMA Partition ==
  IInv /\ pass = "done" /\ keyed.use = "group"
    => PartitionsRows /\ \A i \in 1..keyed.rows : Alike(i, i)
<1> SUFFICES ASSUME IInv, pass = "done", keyed.use = "group"
             PROVE  PartitionsRows /\ \A i \in 1..keyed.rows : Alike(i, i)
  OBVIOUS
<1>1. KeysTypeOK /\ pass \in Busy
  BY DEF IInv, Busy
<1>2. DOMAIN parts = DOMAIN order /\ \A k \in DOMAIN parts : GroupOf(k) = parts[k]
  <2>1. Len(parts) = Len(order)
    BY DEF IInv, Places
  <2> QED BY <1>1, <2>1, CallFacts DEF GroupOf
<1>3. ASSUME NEW k \in DOMAIN parts
      PROVE  parts[k] # <<>> /\ parts[k][1] = order[k] /\ Ascending(parts[k])
  BY <1>1, <1>2 DEF IInv, Grouped, IsGroup
<1>4. \A i \in 1..keyed.rows : \E k \in DOMAIN parts : i \in Range(parts[k])
  <2> SUFFICES ASSUME NEW i \in 1..keyed.rows PROVE \E k \in DOMAIN parts : i \in Range(parts[k])
    OBVIOUS
  <2>1. PICK k \in DOMAIN order : i \in Range(GroupOf(k))
    BY Members
  <2> QED BY <1>2, <2>1
<1>5. ASSUME NEW k \in DOMAIN parts, NEW m \in DOMAIN parts, k # m
      PROVE  Range(parts[k]) \cap Range(parts[m]) = {}
  <2>1. Range(GroupOf(k)) \cap Range(GroupOf(m)) = {}
    BY <1>1, <1>2, <1>5 DEF IInv, Grouped
  <2> QED BY <1>2, <2>1
<1>6. ASSUME NEW k \in DOMAIN parts, NEW i \in Range(parts[k])
      PROVE  i \in 1..keyed.rows /\ order[k] \in 1..keyed.rows /\ Alike(i, order[k])
  <2>1. Alike(order[k], order[k])
    BY <1>1 DEF IInv, Keys
  <2>2. i = order[k] \/ Alike(i, order[k])
    BY <1>2, <1>6, Members
  <2>3. parts[k] \in Seq(1..keyed.rows) /\ order[k] \in 1..keyed.rows
    BY <1>1, <1>2, CallFacts
  <2>4. i \in 1..keyed.rows
    BY <1>6, <2>3, SeqRange
  <2> QED BY <2>1, <2>2, <2>3, <2>4
<1>7. ASSUME Transitive, NEW k \in DOMAIN parts, NEW m \in DOMAIN parts,
             NEW i \in Range(parts[k]), NEW j \in Range(parts[m])
      PROVE  Alike(i, j) <=> k = m
  <2>1. /\ i \in 1..keyed.rows /\ order[k] \in 1..keyed.rows /\ Alike(i, order[k])
        /\ j \in 1..keyed.rows /\ order[m] \in 1..keyed.rows /\ Alike(j, order[m])
    BY <1>6
  <2>2. Alike(order[k], i) /\ Alike(order[m], j)
    BY <1>1, <2>1, Likenesses
  <2>3. CASE k = m
    BY <1>7, <2>1, <2>2, <2>3 DEF Transitive
  <2>4. CASE k # m
    <3>1. ~Alike(order[k], order[m])
      BY <1>1, <1>2, <2>4 DEF IInv, Keys
    <3>2. Alike(i, j) => Alike(order[k], j)
      BY <1>7, <2>1, <2>2 DEF Transitive
    <3>3. Alike(order[k], j) => Alike(order[k], order[m])
      BY <1>7, <2>1 DEF Transitive
    <3> QED BY <2>4, <3>1, <3>2, <3>3
  <2> QED BY <2>3, <2>4
<1>8. ASSUME NEW i \in 1..keyed.rows PROVE Alike(i, i)
  <2>1. PICK k \in DOMAIN parts : i \in Range(parts[k])
    BY <1>4
  <2>2. order[k] \in 1..keyed.rows /\ Alike(i, order[k])
    BY <1>6, <2>1
  <2> QED BY <1>1, <2>2, Likenesses
<1>9. PartitionsRows
  BY <1>2, <1>3, <1>4, <1>5, <1>6, <1>7 DEF PartitionsRows
<1> QED BY <1>8, <1>9

LEMMA EndsRight == IInv => GroupsAsClasses
<1> SUFFICES ASSUME IInv PROVE GroupsAsClasses
  OBVIOUS
<1>1. ASSUME pass = "done"
      PROVE  /\ \A i \in 1..keyed.rows : keyed.key[i] = "ok"
             /\ KeepsOneOfEach
             /\ keyed.use = "group" => PartitionsRows /\ \A i \in 1..keyed.rows : Alike(i, i)
  <2>1. pass \in Busy /\ row = keyed.rows + 1 /\ keyed.rows \in Nat
    BY <1>1, CallFacts DEF IInv, Places, Busy
  <2>2. \A i \in 1..keyed.rows : keyed.key[i] = "ok"
    BY <2>1 DEF IInv, Fates
  <2> QED BY <1>1, <2>2, OneOfEach, Partition
<1>2. ASSUME pass \in BadKey
      PROVE  \/ \E i \in 1..keyed.rows :
                   keyed.key[i] = pass /\ \A j \in 1..(i - 1) : keyed.key[j] = "ok"
             \/ /\ pass = "panicked" /\ keyed.use = "group"
                /\ \A i \in 1..keyed.rows : keyed.key[i] = "ok"
                /\ \E i \in 1..keyed.rows : ~Alike(i, i)
  BY <1>2 DEF IInv, Fates
<1> QED BY <1>1, <1>2 DEF GroupsAsClasses

-----------------------------------------------------------------------------
\* The inductive invariant: where the loops are, that the table has the keys not yet
\* taken out, that the rows come past are in one group each, in order, with rows like its
\* first, and why a call failed.
THEOREM KeysInductive == KeysSpec => []IInv
<1>1. KeysInit => IInv
  BY IdleHolds
<1>2. IInv /\ [KeysNext]_groupVars => IInv'
  <2> SUFFICES ASSUME IInv, [KeysNext]_groupVars PROVE IInv'
    OBVIOUS
  <2>1. ASSUME NEW use \in KeyUses, NEW n \in Nat, NEW key \in [1..n -> KeyFate],
               NEW like \in Likeness(n),
               BeginKeys([use |-> use, rows |-> n, key |-> key, like |-> like])
        PROVE  IInv'
    <3> DEFINE k == [use |-> use, rows |-> n, key |-> key, like |-> like]
    <3>1. /\ BeginKeys(k) /\ k.use \in KeyUses /\ k.rows \in Nat
          /\ k.key \in [1..k.rows -> KeyFate] /\ k.like \in Likeness(k.rows)
      BY <2>1
    <3> HIDE DEF k
    <3> QED BY <3>1, BeginKeeps
  <2>2. CASE KeyStep
    BY <2>2, FailKeyKeeps, NewKeyKeeps, KnownKeyKeeps, EndScanKeeps, TakeGroupKeeps,
       LoseGroupKeeps, EndCollectKeeps DEF KeyStep
  <2>3. CASE ReturnKeys
    BY <2>3, ReturnKeeps
  <2>4. CASE UNCHANGED groupVars
    BY <2>4, StutterKeeps
  <2> QED BY <2>1, <2>2, <2>3, <2>4 DEF KeysNext
<1> QED BY <1>1, <1>2, PTL DEF KeysSpec

\* Grouping partitions the rows by their keys, and DISTINCT keeps the first of each.
THEOREM AlwaysGroupsAsClasses == KeysSpec => []GroupsAsClasses
BY KeysInductive, EndsRight, PTL

=============================================================================
