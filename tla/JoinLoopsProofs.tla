--------------------------- MODULE JoinLoopsProofs ---------------------------
(***************************************************************************)
(* The loops of a join compute it as a set, for all tables, conditions and *)
(* kinds of join.                                                          *)
(***************************************************************************)
EXTENDS JoinLoops, TLAPS

\* The pair of the o-th outer and the i-th inner row has been compared.
Compared(o, i) == o < outer \/ (o = outer /\ i < inner)

\* The inner row i matches the outer row o.
Matches(o, i) == job.on[Merged(o, i)] = "yes"

\* The rows of the join the loops have come past.
Past(p) ==
    IF OuterOf(p) = 0 THEN phase \notin {"idle", "loop"} /\ InnerOf(p) < inner
    ELSE IF InnerOf(p) = 0 THEN OuterOf(p) < outer
    ELSE Compared(OuterOf(p), InnerOf(p))

\* Where the loops are.
Places ==
    /\ phase = "loop" =>
          /\ outer \in 1..(OuterRows + 1) /\ inner \in 1..(InnerRows + 1)
          /\ outer = OuterRows + 1 => inner = 1
    /\ phase \in {"rest", "done"} => outer = OuterRows + 1
    /\ phase = "rest" => job.type = "full" /\ inner \in 1..(job.right + 1)
    /\ phase = "done" /\ job.type = "full" => inner = job.right + 1
    /\ phase \in Fatal => outer \in 1..OuterRows /\ inner \in 1..InnerRows

\* The flags: of the outer row under way, and of the right rows of FULL.
Flags ==
    /\ phase = "loop" => matched = (\E i \in 1..(inner - 1) : Matches(outer, i))
    /\ phase \in {"loop", "rest"} /\ job.type = "full" =>
          \A r \in 1..job.right :
              right_matched[r] = (\E l \in 1..job.left : Compared(l, r) /\ Matches(l, r))

\* The result so far: the rows of the join come past, in order.
SoFar ==
    phase \in {"loop", "rest", "done"} =>
        /\ \A p : (\E n \in DOMAIN result : result[n] = p) <=> (p \in JoinedPairs /\ Past(p))
        /\ \A m, n \in DOMAIN result : m < n => ComesBefore(result[m], result[n])

\* No condition compared so far has failed.
NoFailure ==
    /\ phase \in {"loop", "rest", "done"} \cup Fatal =>
          \A o \in 1..OuterRows, i \in 1..InnerRows :
              Compared(o, i) => job.on[Merged(o, i)] \notin Fatal
    /\ phase \in Fatal => job.on[Merged(outer, inner)] = phase

JInv == LoopsTypeOK /\ Places /\ Flags /\ SoFar /\ NoFailure

-----------------------------------------------------------------------------
(* Facts about calls, pairs and the order of the loops.                    *)

LEMMA Sizes ==
  ASSUME LoopsTypeOK
  PROVE  /\ OuterRows \in Nat /\ InnerRows \in Nat
         /\ job.type = "full" => OuterRows = job.left /\ InnerRows = job.right
BY DEF LoopsTypeOK, OuterRows, InnerRows

\* A pair and its place in the loops.
LEMMA MergedFacts ==
  ASSUME LoopsTypeOK, NEW o \in 0..OuterRows, NEW i \in 0..InnerRows
  PROVE  /\ Merged(o, i) \in (0..job.left) \X (0..job.right)
         /\ OuterOf(Merged(o, i)) = o /\ InnerOf(Merged(o, i)) = i
         /\ o # 0 /\ i # 0 => /\ Merged(o, i) \in (1..job.left) \X (1..job.right)
                              /\ job.on[Merged(o, i)] \in Finding
BY DEF LoopsTypeOK, OuterRows, InnerRows, Merged, OuterOf, InnerOf

LEMMA PairFacts ==
  ASSUME LoopsTypeOK, NEW p \in (0..job.left) \X (0..job.right)
  PROVE  /\ OuterOf(p) \in 0..OuterRows /\ InnerOf(p) \in 0..InnerRows
         /\ p = Merged(OuterOf(p), InnerOf(p))
BY DEF LoopsTypeOK, OuterRows, InnerRows, Merged, OuterOf, InnerOf

\* The rows of the join by their places in the loops.
IsMatch(o, i) == o \in 1..OuterRows /\ i \in 1..InnerRows /\ Matches(o, i)
IsPadded(o, i) ==
    /\ o \in 1..OuterRows /\ i = 0 /\ job.type # "inner"
    /\ \A b \in 1..InnerRows : ~Matches(o, b)
IsRest(o, i) ==
    /\ o = 0 /\ i \in 1..InnerRows /\ job.type = "full"
    /\ \A a \in 1..OuterRows : ~Matches(a, i)

LEMMA JoinedByPlace ==
  ASSUME LoopsTypeOK, NEW p \in (0..job.left) \X (0..job.right)
  PROVE  p \in JoinedPairs <=>
           \/ IsMatch(OuterOf(p), InnerOf(p))
           \/ IsPadded(OuterOf(p), InnerOf(p))
           \/ IsRest(OuterOf(p), InnerOf(p))
<1>0. job.left \in Nat /\ job.right \in Nat
  BY DEF LoopsTypeOK
<1>1. PICK l \in 0..job.left, r \in 0..job.right : p = <<l, r>>
  OBVIOUS
<1>2. p \in MatchingPairs <=> l # 0 /\ r # 0 /\ job.on[p] = "yes"
  BY <1>1 DEF MatchingPairs, LoopsTypeOK
<1>3. p \in PaddedLeft <=> /\ l # 0 /\ r = 0 /\ job.type \in {"left", "full"}
                           /\ \A b \in 1..job.right : job.on[<<l, b>>] # "yes"
  <2>1. \A b \in 1..job.right : l # 0 => (<<l, b>> \in MatchingPairs <=> job.on[<<l, b>>] = "yes")
    BY DEF MatchingPairs, LoopsTypeOK
  <2>2. p[1] = l /\ (p \in (1..job.left) \X {0} <=> l # 0 /\ r = 0)
    BY <1>1 DEF LoopsTypeOK
  <2> QED BY <2>1, <2>2 DEF PaddedLeft
<1>4. p \in PaddedRight <=> /\ l = 0 /\ r # 0 /\ job.type \in {"right", "full"}
                            /\ \A a \in 1..job.left : job.on[<<a, r>>] # "yes"
  BY <1>1 DEF PaddedRight, MatchingPairs, LoopsTypeOK
<1>5. p \in JoinedPairs <=> p \in MatchingPairs \/ p \in PaddedLeft \/ p \in PaddedRight
  BY DEF JoinedPairs
<1>6. CASE job.type = "right"
  <2>1. OuterOf(p) = r /\ InnerOf(p) = l /\ OuterRows = job.right /\ InnerRows = job.left
    BY <1>1, <1>6 DEF OuterOf, InnerOf, OuterRows, InnerRows
  <2>2. \A o, i : Matches(o, i) <=> job.on[<<i, o>>] = "yes"
    BY <1>6 DEF Matches, Merged
  <2>3. p \in MatchingPairs <=> IsMatch(r, l)
    BY <1>1, <1>2, <2>1, <2>2 DEF IsMatch
  <2>4. p \in PaddedLeft <=> FALSE
    BY <1>3, <1>6
  <2>5. (\A a \in 1..job.left : job.on[<<a, r>>] # "yes")
          <=> (\A b \in 1..InnerRows : ~Matches(r, b))
    BY <2>1, <2>2
  <2>6. p \in PaddedRight <=> IsPadded(r, l)
    BY <1>0, <1>1, <1>4, <1>6, <2>1, <2>5 DEF IsPadded
  <2>7. ~IsRest(r, l)
    BY <1>6 DEF IsRest
  <2> QED BY <1>5, <2>1, <2>3, <2>4, <2>6, <2>7
<1>7. CASE job.type # "right"
  <2>1. OuterOf(p) = l /\ InnerOf(p) = r /\ OuterRows = job.left /\ InnerRows = job.right
    BY <1>1, <1>7 DEF OuterOf, InnerOf, OuterRows, InnerRows
  <2>2. \A o, i : Matches(o, i) <=> job.on[<<o, i>>] = "yes"
    BY <1>7 DEF Matches, Merged
  <2>3. job.type \in {"inner", "left", "full"}
    BY <1>7 DEF LoopsTypeOK, JoinTypes
  <2>4. p \in MatchingPairs <=> IsMatch(l, r)
    BY <1>1, <1>2, <2>1, <2>2 DEF IsMatch
  <2>5. (\A b \in 1..job.right : job.on[<<l, b>>] # "yes")
          <=> (\A b \in 1..InnerRows : ~Matches(l, b))
    BY <2>1, <2>2
  <2>6. (\A a \in 1..job.left : job.on[<<a, r>>] # "yes")
          <=> (\A a \in 1..OuterRows : ~Matches(a, r))
    BY <2>1, <2>2
  <2>7. p \in PaddedLeft <=> IsPadded(l, r)
    BY <1>0, <1>1, <1>3, <2>1, <2>3, <2>5 DEF IsPadded
  <2>8. p \in PaddedRight <=> IsRest(l, r)
    BY <1>0, <1>1, <1>4, <2>1, <2>3, <2>6 DEF IsRest
  <2> QED BY <1>5, <2>1, <2>4, <2>7, <2>8
<1> QED BY <1>6, <1>7

LEMMA JoinedIsPairs ==
  ASSUME LoopsTypeOK, NEW p \in JoinedPairs
  PROVE  p \in (0..job.left) \X (0..job.right)
BY DEF LoopsTypeOK, JoinedPairs, MatchingPairs, PaddedLeft, PaddedRight

LEMMA Appended ==
  ASSUME NEW S, NEW s \in Seq(S), NEW p \in S
  PROVE  /\ Append(s, p) \in Seq(S)
         /\ DOMAIN s = 1..Len(s) /\ Len(s) \in Nat
         /\ DOMAIN Append(s, p) = 1..(Len(s) + 1)
         /\ \A n \in 1..Len(s) : Append(s, p)[n] = s[n]
         /\ Append(s, p)[Len(s) + 1] = p
OBVIOUS

-----------------------------------------------------------------------------
(* What a step leaves alone, and what it does to the result.               *)

LEMMA JobKept ==
  ASSUME job' = job
  PROVE  /\ OuterRows' = OuterRows /\ InnerRows' = InnerRows
         /\ JoinedPairs' = JoinedPairs
         /\ \A o, i : Merged(o, i)' = Merged(o, i) /\ (Matches(o, i)' <=> Matches(o, i))
         /\ \A p : OuterOf(p)' = OuterOf(p) /\ InnerOf(p)' = InnerOf(p)
         /\ \A p, r : ComesBefore(p, r)' <=> ComesBefore(p, r)
BY DEF OuterRows, InnerRows, JoinedPairs, MatchingPairs, PaddedLeft, PaddedRight,
       Merged, Matches, OuterOf, InnerOf, ComesBefore

\* A step that comes past no row of the join.
LEMMA NothingPassed ==
  ASSUME LoopsTypeOK, SoFar, job' = job, result' = result,
         phase \in {"loop", "rest"},
         \A q \in JoinedPairs : Past(q)' <=> Past(q)
  PROVE  SoFar'
BY JobKept DEF SoFar

\* A step that comes past the row p, which no row come past follows.
LEMMA OnePassed ==
  ASSUME LoopsTypeOK, SoFar, job' = job, phase \in {"loop", "rest"},
         NEW p \in JoinedPairs, result' = Append(result, p),
         \A q \in JoinedPairs : Past(q)' <=> (Past(q) \/ q = p),
         \A q \in JoinedPairs : Past(q) => ComesBefore(q, p)
  PROVE  SoFar'
<1>1. /\ result \in Seq((0..job.left) \X (0..job.right))
      /\ p \in (0..job.left) \X (0..job.right)
  BY JoinedIsPairs DEF LoopsTypeOK
<1>2. /\ DOMAIN result = 1..Len(result) /\ Len(result) \in Nat
      /\ DOMAIN result' = 1..(Len(result) + 1)
      /\ \A n \in 1..Len(result) : result'[n] = result[n]
      /\ result'[Len(result) + 1] = p
  BY <1>1, Appended
<1>3. /\ \A q : (\E n \in DOMAIN result : result[n] = q) <=> (q \in JoinedPairs /\ Past(q))
      /\ \A m, n \in DOMAIN result : m < n => ComesBefore(result[m], result[n])
  BY DEF SoFar
<1>4. ASSUME NEW q
      PROVE  (\E n \in DOMAIN result' : result'[n] = q) <=> (q \in JoinedPairs /\ Past(q)')
  <2>1. (\E n \in DOMAIN result' : result'[n] = q)
          <=> (\E n \in DOMAIN result : result[n] = q) \/ q = p
    BY <1>2
  <2> QED BY <1>3, <2>1
<1>5. ASSUME NEW m \in DOMAIN result', NEW n \in DOMAIN result', m < n
      PROVE  ComesBefore(result'[m], result'[n])
  <2>1. m \in DOMAIN result /\ result'[m] = result[m]
    BY <1>2, <1>5
  <2>2. CASE n \in DOMAIN result
    BY <1>2, <1>3, <1>5, <2>1, <2>2
  <2>3. CASE n = Len(result) + 1
    BY <1>2, <1>3, <2>1, <2>3
  <2> QED BY <1>2, <2>2, <2>3
<1> QED BY <1>4, <1>5, JobKept DEF SoFar

LEMMA TypesKept ==
  ASSUME LoopsTypeOK, LoopStep
  PROVE  LoopsTypeOK'
<1>1. /\ job.left \in Nat /\ job.right \in Nat /\ outer \in Nat /\ inner \in Nat
      /\ OuterRows \in Nat /\ InnerRows \in Nat
      /\ result \in Seq((0..job.left) \X (0..job.right))
  BY Sizes DEF LoopsTypeOK
<1>2. job' = job
  BY DEF LoopStep, AddMatch, SkipPair, FailLoops, EndTurn, EndLoop, RestTurn, EndRest
<1>3. OuterRows' = OuterRows
  BY <1>2, JobKept
<1>4. CASE AddMatch
  <2>1. result' \in Seq((0..job.left) \X (0..job.right))
    <3>1. Merged(outer, inner) \in (0..job.left) \X (0..job.right)
      BY <1>1, <1>4, MergedFacts DEF AddMatch, InnerTurn
    <3> QED BY <1>1, <1>4, <3>1, Appended DEF AddMatch
  <2>2. right_matched' \in [1..job.right -> BOOLEAN]
    BY <1>4 DEF AddMatch, LoopsTypeOK
  <2>3. outer' \in 0..(OuterRows + 1) /\ inner' \in Nat /\ matched' \in BOOLEAN /\ phase' = phase
    BY <1>1, <1>4 DEF AddMatch, InnerTurn, LoopsTypeOK
  <2> QED BY <1>2, <1>3, <2>1, <2>2, <2>3 DEF LoopsTypeOK
<1>5. CASE SkipPair
  BY <1>1, <1>2, <1>3, <1>5 DEF SkipPair, InnerTurn, LoopsTypeOK
<1>6. CASE FailLoops
  BY <1>1, <1>2, <1>3, <1>6 DEF FailLoops, InnerTurn, LoopsTypeOK, Fatal
<1>7. CASE EndTurn
  <2>1. result' \in Seq((0..job.left) \X (0..job.right))
    <3>1. Merged(outer, 0) \in (0..job.left) \X (0..job.right)
      <4>1. outer \in 0..OuterRows /\ 0 \in 0..InnerRows
        BY <1>1, <1>7 DEF EndTurn
      <4> QED BY <4>1, MergedFacts
    <3> QED BY <1>1, <1>7, <3>1, Appended DEF EndTurn
  <2>2. outer' = outer + 1 /\ outer <= OuterRows /\ inner' = 1
    BY <1>7 DEF EndTurn
  <2>3. phase' = phase /\ right_matched' = right_matched /\ matched' = FALSE
    BY <1>7 DEF EndTurn
  <2>4. outer' \in 0..(OuterRows + 1) /\ inner' \in Nat
    BY <1>1, <2>2
  <2> QED BY <1>2, <1>3, <2>1, <2>3, <2>4 DEF LoopsTypeOK
<1>8. CASE EndLoop
  BY <1>1, <1>2, <1>3, <1>8 DEF EndLoop, LoopsTypeOK
<1>9. CASE RestTurn
  <2>1. result' \in Seq((0..job.left) \X (0..job.right))
    <3>1. <<0, inner>> \in (0..job.left) \X (0..job.right)
      BY <1>1, <1>9 DEF RestTurn
    <3> QED BY <1>1, <1>9, <3>1, Appended DEF RestTurn
  <2> QED BY <1>1, <1>2, <1>3, <1>9, <2>1 DEF RestTurn, LoopsTypeOK
<1>10. CASE EndRest
  BY <1>1, <1>2, <1>3, <1>10 DEF EndRest, LoopsTypeOK
<1> QED BY <1>4, <1>5, <1>6, <1>7, <1>8, <1>9, <1>10 DEF LoopStep

\* The place of a row of the join in the loops.
LEMMA PlaceOf ==
  ASSUME LoopsTypeOK, NEW p \in JoinedPairs
  PROVE  \E o \in 0..OuterRows, i \in 0..InnerRows :
           /\ o = OuterOf(p) /\ i = InnerOf(p)
           /\ IsMatch(o, i) \/ IsPadded(o, i) \/ IsRest(o, i)
           /\ \A a \in 0..OuterRows, b \in 0..InnerRows : p = Merged(a, b) <=> o = a /\ i = b
<1>1. p \in (0..job.left) \X (0..job.right)
  BY JoinedIsPairs
<1>2. PICK o \in 0..OuterRows, i \in 0..InnerRows : o = OuterOf(p) /\ i = InnerOf(p)
  BY <1>1, PairFacts
<1>3. IsMatch(o, i) \/ IsPadded(o, i) \/ IsRest(o, i)
  BY <1>1, <1>2, JoinedByPlace
<1>4. \A a \in 0..OuterRows, b \in 0..InnerRows : p = Merged(a, b) <=> o = a /\ i = b
  BY <1>1, <1>2, PairFacts, MergedFacts
<1> QED BY <1>2, <1>3, <1>4

LEMMA IsJoined ==
  ASSUME LoopsTypeOK, NEW o \in 0..OuterRows, NEW i \in 0..InnerRows
  PROVE  Merged(o, i) \in JoinedPairs <=> IsMatch(o, i) \/ IsPadded(o, i) \/ IsRest(o, i)
BY MergedFacts, JoinedByPlace

-----------------------------------------------------------------------------
(* The steps.                                                              *)

\* Where the inner loop compares two rows.
LEMMA InnerFacts ==
  ASSUME JInv, NEW finding, InnerTurn(finding)
  PROVE  /\ outer \in 1..OuterRows /\ inner \in 1..InnerRows
         /\ OuterRows \in Nat /\ InnerRows \in Nat
         /\ job.on[Merged(outer, inner)] = finding
BY Sizes DEF JInv, LoopsTypeOK, Places, InnerTurn

LEMMA AddMatchKeeps == JInv /\ AddMatch => JInv'
<1> SUFFICES ASSUME JInv, AddMatch PROVE JInv'
  OBVIOUS
<1>1. /\ outer \in 1..OuterRows /\ inner \in 1..InnerRows
      /\ OuterRows \in Nat /\ InnerRows \in Nat
      /\ Matches(outer, inner)
  BY InnerFacts DEF AddMatch, Matches
<1>2. /\ job' = job /\ phase' = phase /\ phase = "loop" /\ outer' = outer /\ inner' = inner + 1
      /\ matched' = TRUE /\ result' = Append(result, Merged(outer, inner))
  BY DEF AddMatch, InnerTurn
<1>3. LoopsTypeOK /\ LoopsTypeOK'
  BY TypesKept DEF JInv, LoopStep
<1>4. Places'
  BY <1>1, <1>2, JobKept DEF Places, Fatal
<1>5. \A o, i \in Nat : Compared(o, i)' <=> (Compared(o, i) \/ (o = outer /\ i = inner))
  BY <1>1, <1>2 DEF Compared
<1>6. Flags'
  <2>1. (phase = "loop" => matched = (\E i \in 1..(inner - 1) : Matches(outer, i)))'
    BY <1>1, <1>2, JobKept
  <2>2. ASSUME job.type = "full", NEW r \in 1..job.right
        PROVE  right_matched'[r] = (\E l \in 1..job.left : Compared(l, r)' /\ Matches(l, r))
    <3>1. /\ right_matched' = [right_matched EXCEPT ![inner] = TRUE]
          /\ right_matched \in [1..job.right -> BOOLEAN]
          /\ right_matched[r] = (\E l \in 1..job.left : Compared(l, r) /\ Matches(l, r))
      BY <1>2, <1>3, <2>2 DEF AddMatch, LoopsTypeOK, JInv, Flags
    <3>2. outer \in 1..job.left /\ inner \in 1..job.right /\ job.left \in Nat /\ job.right \in Nat
      BY <1>1, <1>3, <2>2, Sizes DEF LoopsTypeOK
    <3>3. CASE r = inner
      <4>1. right_matched'[r] = TRUE
        BY <2>2, <3>1, <3>3
      <4>2. PICK l \in 1..job.left : l = outer
        BY <3>2
      <4>3. Compared(l, r)' /\ Matches(l, r)
        BY <1>1, <1>5, <2>2, <3>2, <3>3, <4>2
      <4> QED BY <4>1, <4>3
    <3>4. CASE r # inner
      <4>1. \A l \in 1..job.left : Compared(l, r)' <=> Compared(l, r)
        BY <1>5, <3>2, <3>4
      <4> QED BY <3>1, <3>4, <4>1
    <3> QED BY <3>3, <3>4
  <2> QED BY <1>2, <2>1, <2>2, JobKept DEF Flags
<1>7. SoFar'
  <2> DEFINE p == Merged(outer, inner)
  <2>1. p \in JoinedPairs /\ OuterOf(p) = outer /\ InnerOf(p) = inner
    BY <1>1, <1>3, IsJoined, MergedFacts DEF IsMatch
  <2>2. ASSUME NEW q \in JoinedPairs
        PROVE  /\ Past(q)' <=> (Past(q) \/ q = p)
               /\ Past(q) => ComesBefore(q, p)
    <3>1. PICK o \in 0..OuterRows, i \in 0..InnerRows :
            o = OuterOf(q) /\ i = InnerOf(q) /\ (q = p <=> o = outer /\ i = inner)
      BY <1>1, <1>3, PlaceOf
    <3>2. Past(q) <=> o # 0 /\ (IF i = 0 THEN o < outer ELSE Compared(o, i))
      BY <1>2, <3>1 DEF Past
    <3>3. Past(q)' <=> o # 0 /\ (IF i = 0 THEN o < outer ELSE Compared(o, i)')
      BY <1>2, <3>1, JobKept DEF Past
    <3>4. Compared(o, i)' <=> (Compared(o, i) \/ (o = outer /\ i = inner))
      BY <1>1, <1>5, <3>1
    <3>5. Past(q)' <=> (Past(q) \/ q = p)
      BY <1>1, <3>1, <3>2, <3>3, <3>4
    <3>6. Past(q) => o # 0 /\ (o < outer \/ (o = outer /\ i < inner))
      BY <1>1, <3>1, <3>2 DEF Compared
    <3> QED BY <1>1, <2>1, <3>1, <3>5, <3>6 DEF ComesBefore
  <2> HIDE DEF p
  <2> QED BY <1>2, <1>3, <2>1, <2>2, OnePassed DEF JInv, p
<1>8. NoFailure'
  <2>1. job.on[Merged(outer, inner)] \notin Fatal
    BY <1>1 DEF Matches, Fatal
  <2>2. ASSUME NEW o \in 1..OuterRows, NEW i \in 1..InnerRows, Compared(o, i)'
        PROVE  job.on[Merged(o, i)] \notin Fatal
    <3>1. CASE Compared(o, i)
      BY <1>2, <3>1 DEF JInv, NoFailure
    <3>2. CASE o = outer /\ i = inner
      BY <2>1, <3>2
    <3> QED BY <1>1, <1>5, <2>2, <3>1, <3>2
  <2> QED BY <1>2, <2>2, JobKept DEF NoFailure, Fatal
<1> QED BY <1>3, <1>4, <1>6, <1>7, <1>8 DEF JInv

LEMMA SkipPairKeeps == JInv /\ SkipPair => JInv'
<1> SUFFICES ASSUME JInv, SkipPair PROVE JInv'
  OBVIOUS
<1>1. /\ outer \in 1..OuterRows /\ inner \in 1..InnerRows
      /\ OuterRows \in Nat /\ InnerRows \in Nat
      /\ ~Matches(outer, inner) /\ job.on[Merged(outer, inner)] \notin Fatal
  BY InnerFacts DEF SkipPair, Matches, Fatal
<1>2. /\ job' = job /\ phase' = phase /\ phase = "loop" /\ outer' = outer /\ inner' = inner + 1
      /\ matched' = matched /\ right_matched' = right_matched /\ result' = result
  BY DEF SkipPair, InnerTurn
<1>3. LoopsTypeOK /\ LoopsTypeOK'
  BY TypesKept DEF JInv, LoopStep
<1>4. Places'
  BY <1>1, <1>2, JobKept DEF Places, Fatal
<1>5. \A o, i \in Nat : Compared(o, i)' <=> (Compared(o, i) \/ (o = outer /\ i = inner))
  BY <1>1, <1>2 DEF Compared
<1>6. Flags'
  <2>1. matched = (\E i \in 1..(inner - 1) : Matches(outer, i))
    BY <1>2 DEF JInv, Flags
  <2>2. (\E i \in 1..(inner - 1) : Matches(outer, i)) <=> (\E i \in 1..inner : Matches(outer, i))
    BY <1>1
  <2>3. inner' - 1 = inner
    BY <1>1, <1>2
  <2>4. matched' = (\E i \in 1..(inner' - 1) : Matches(outer, i))
    BY <1>2, <2>1, <2>2, <2>3
  <2>5. ASSUME job.type = "full", NEW r \in 1..job.right
        PROVE  right_matched[r] = (\E l \in 1..job.left : Compared(l, r)' /\ Matches(l, r))
    <3>1. right_matched[r] = (\E l \in 1..job.left : Compared(l, r) /\ Matches(l, r))
      BY <1>2, <2>5 DEF JInv, Flags
    <3>2. job.left \in Nat /\ job.right \in Nat
      BY <1>3 DEF LoopsTypeOK
    <3>3. \A l \in 1..job.left : Compared(l, r)' /\ Matches(l, r) <=> Compared(l, r) /\ Matches(l, r)
      BY <1>1, <1>5, <3>2
    <3> QED BY <3>1, <3>3
  <2> QED BY <1>2, <2>4, <2>5, JobKept DEF Flags
<1>7. SoFar'
  <2>1. ASSUME NEW q \in JoinedPairs PROVE Past(q)' <=> Past(q)
    <3>1. PICK o \in 0..OuterRows, i \in 0..InnerRows :
            /\ o = OuterOf(q) /\ i = InnerOf(q)
            /\ IsMatch(o, i) \/ IsPadded(o, i) \/ IsRest(o, i)
      BY <1>3, PlaceOf
    <3>2. Past(q) <=> o # 0 /\ (IF i = 0 THEN o < outer ELSE Compared(o, i))
      BY <1>2, <3>1 DEF Past
    <3>3. Past(q)' <=> o # 0 /\ (IF i = 0 THEN o < outer ELSE Compared(o, i)')
      BY <1>2, <3>1, JobKept DEF Past
    <3>4. ~(o = outer /\ i = inner)
      BY <1>1, <3>1 DEF IsMatch, IsPadded, IsRest
    <3>5. Compared(o, i)' <=> Compared(o, i)
      BY <1>1, <1>5, <3>1, <3>4
    <3> QED BY <3>2, <3>3, <3>5
  <2> QED BY <1>2, <1>3, <2>1, NothingPassed DEF JInv
<1>8. NoFailure'
  <2>1. ASSUME NEW o \in 1..OuterRows, NEW i \in 1..InnerRows, Compared(o, i)'
        PROVE  job.on[Merged(o, i)] \notin Fatal
    <3>1. CASE Compared(o, i)
      BY <1>2, <3>1 DEF JInv, NoFailure
    <3>2. CASE o = outer /\ i = inner
      BY <1>1, <3>2
    <3> QED BY <1>1, <1>5, <2>1, <3>1, <3>2
  <2> QED BY <1>2, <2>1, JobKept DEF NoFailure, Fatal
<1> QED BY <1>3, <1>4, <1>6, <1>7, <1>8 DEF JInv

LEMMA FailLoopsKeeps == JInv /\ FailLoops => JInv'
<1> SUFFICES ASSUME JInv, FailLoops PROVE JInv'
  OBVIOUS
<1>1. PICK finding \in Fatal :
        /\ InnerTurn(finding) /\ phase' = finding /\ result' = <<>>
        /\ UNCHANGED <<job, outer, inner, matched, right_matched>>
  BY DEF FailLoops
<1>2. /\ outer \in 1..OuterRows /\ inner \in 1..InnerRows
      /\ job.on[Merged(outer, inner)] = finding /\ phase = "loop"
  BY <1>1, InnerFacts DEF InnerTurn
<1>3. LoopsTypeOK'
  BY TypesKept DEF JInv, LoopStep
<1>4. phase' \notin {"idle", "loop", "rest", "done"} /\ phase' \in Fatal
  BY <1>1 DEF Fatal
<1>5. \A o, i : Compared(o, i)' <=> Compared(o, i)
  BY <1>1 DEF Compared
<1>6. Places'
  BY <1>1, <1>2, <1>4, JobKept DEF Places
<1>7. Flags' /\ SoFar'
  BY <1>4 DEF Flags, SoFar
<1>8. NoFailure'
  BY <1>1, <1>2, <1>4, <1>5, JobKept DEF JInv, NoFailure
<1> QED BY <1>3, <1>6, <1>7, <1>8 DEF JInv

LEMMA EndTurnKeeps == JInv /\ EndTurn => JInv'
<1> SUFFICES ASSUME JInv, EndTurn PROVE JInv'
  OBVIOUS
<1>1. /\ outer \in 1..OuterRows /\ inner = InnerRows + 1
      /\ OuterRows \in Nat /\ InnerRows \in Nat
  BY Sizes DEF JInv, LoopsTypeOK, Places, EndTurn
<1>2. /\ job' = job /\ phase' = phase /\ phase = "loop" /\ outer' = outer + 1 /\ inner' = 1
      /\ matched' = FALSE /\ right_matched' = right_matched
      /\ result' = IF matched \/ job.type = "inner" THEN result
                   ELSE Append(result, Merged(outer, 0))
  BY DEF EndTurn
<1>3. LoopsTypeOK /\ LoopsTypeOK'
  BY TypesKept DEF JInv, LoopStep
<1>4. Places'
  BY <1>1, <1>2, JobKept DEF Places, Fatal
<1>5. \A o \in Nat, i \in 1..InnerRows : Compared(o, i)' <=> Compared(o, i)
  BY <1>1, <1>2 DEF Compared
<1>6. matched = (\E i \in 1..InnerRows : Matches(outer, i))
  <2>1. matched = (\E i \in 1..(inner - 1) : Matches(outer, i)) /\ inner - 1 = InnerRows
    BY <1>1, <1>2 DEF JInv, Flags
  <2> QED BY <2>1
<1>7. Flags'
  <2>1. ASSUME job.type = "full", NEW r \in 1..job.right
        PROVE  right_matched[r] = (\E l \in 1..job.left : Compared(l, r)' /\ Matches(l, r))
    <3>1. right_matched[r] = (\E l \in 1..job.left : Compared(l, r) /\ Matches(l, r))
      BY <1>2, <2>1 DEF JInv, Flags
    <3>2. \A l \in 1..job.left : Compared(l, r)' <=> Compared(l, r)
      BY <1>3, <1>5, <2>1, Sizes DEF LoopsTypeOK
    <3> QED BY <3>1, <3>2
  <2>2. 1..(inner' - 1) = {}
    BY <1>2
  <2>3. matched' = (\E i \in 1..(inner' - 1) : Matches(outer, i)')
    BY <1>2, <2>2
  <2> QED BY <1>2, <2>1, <2>3, JobKept DEF Flags
<1>8. ASSUME NEW q \in JoinedPairs
      PROVE  /\ Past(q)' <=> (Past(q) \/ q = Merged(outer, 0))
             /\ Past(q) /\ ~matched => ComesBefore(q, Merged(outer, 0))
  <2>1. PICK o \in 0..OuterRows, i \in 0..InnerRows :
          /\ o = OuterOf(q) /\ i = InnerOf(q)
          /\ IsMatch(o, i) \/ IsPadded(o, i) \/ IsRest(o, i)
          /\ q = Merged(outer, 0) <=> o = outer /\ i = 0
    BY <1>1, <1>3, PlaceOf
  <2>2. Past(q) <=> o # 0 /\ (IF i = 0 THEN o < outer ELSE Compared(o, i))
    BY <1>2, <2>1 DEF Past
  <2>3. Past(q)' <=> o # 0 /\ (IF i = 0 THEN o < outer + 1 ELSE Compared(o, i)')
    BY <1>2, <2>1, JobKept DEF Past
  <2>4. i # 0 => (Compared(o, i)' <=> Compared(o, i))
    BY <1>1, <1>5, <2>1
  <2>5. Past(q)' <=> (Past(q) \/ q = Merged(outer, 0))
    BY <1>1, <2>1, <2>2, <2>3, <2>4
  <2>6. Past(q) /\ ~matched => o # 0 /\ o < outer
    <3>1. Past(q) /\ o >= outer => o = outer /\ i # 0
      BY <1>1, <2>1, <2>2 DEF Compared
    <3>2. o = outer /\ i # 0 => IsMatch(outer, i)
      BY <1>1, <2>1 DEF IsPadded, IsRest
    <3>3. IsMatch(outer, i) => matched
      BY <1>6 DEF IsMatch
    <3> QED BY <1>1, <2>1, <2>2, <3>1, <3>2, <3>3
  <2>7. OuterOf(Merged(outer, 0)) = outer
    BY <1>1, <1>3, MergedFacts
  <2> QED BY <1>1, <2>1, <2>5, <2>6, <2>7 DEF ComesBefore
<1>9. SoFar'
  <2>1. Merged(outer, 0) \in JoinedPairs <=> job.type # "inner" /\ ~matched
    <3>1. outer \in 0..OuterRows /\ 0 \in 0..InnerRows
      BY <1>1
    <3>2. Merged(outer, 0) \in JoinedPairs
            <=> IsMatch(outer, 0) \/ IsPadded(outer, 0) \/ IsRest(outer, 0)
      BY <1>3, <3>1, IsJoined
    <3>3. ~IsMatch(outer, 0) /\ ~IsRest(outer, 0)
      BY <1>1 DEF IsMatch, IsRest
    <3>4. IsPadded(outer, 0) <=> job.type # "inner" /\ ~matched
      BY <1>1, <1>6 DEF IsPadded
    <3> QED BY <3>2, <3>3, <3>4
  <2>2. CASE matched \/ job.type = "inner"
    <3>1. \A q \in JoinedPairs : Past(q)' <=> Past(q)
      BY <1>8, <2>1, <2>2
    <3> QED BY <1>2, <1>3, <2>2, <3>1, NothingPassed DEF JInv
  <2>3. CASE ~(matched \/ job.type = "inner")
    <3> DEFINE p == Merged(outer, 0)
    <3>1. p \in JoinedPairs /\ result' = Append(result, p)
      BY <1>2, <2>1, <2>3
    <3>2. \A q \in JoinedPairs : (Past(q)' <=> (Past(q) \/ q = p)) /\ (Past(q) => ComesBefore(q, p))
      BY <1>8, <2>3
    <3> HIDE DEF p
    <3> QED BY <1>2, <1>3, <3>1, <3>2, OnePassed DEF JInv
  <2> QED BY <2>2, <2>3
<1>10. NoFailure'
  <2>1. ASSUME NEW o \in 1..OuterRows, NEW i \in 1..InnerRows, Compared(o, i)'
        PROVE  job.on[Merged(o, i)] \notin Fatal
    BY <1>1, <1>2, <1>5, <2>1 DEF JInv, NoFailure
  <2> QED BY <1>2, <2>1, JobKept DEF NoFailure, Fatal
<1> QED BY <1>3, <1>4, <1>7, <1>9, <1>10 DEF JInv

LEMMA EndLoopKeeps == JInv /\ EndLoop => JInv'
<1> SUFFICES ASSUME JInv, EndLoop PROVE JInv'
  OBVIOUS
<1>1. /\ outer = OuterRows + 1 /\ inner = 1
      /\ OuterRows \in Nat /\ InnerRows \in Nat
  BY Sizes DEF JInv, LoopsTypeOK, Places, EndLoop
<1>2. /\ job' = job /\ phase = "loop" /\ outer' = outer /\ inner' = inner
      /\ phase' = IF job.type = "full" THEN "rest" ELSE "done"
      /\ matched' = matched /\ right_matched' = right_matched /\ result' = result
  BY DEF EndLoop
<1>3. LoopsTypeOK /\ LoopsTypeOK'
  BY TypesKept DEF JInv, LoopStep
<1>4. Places'
  BY <1>1, <1>2, <1>3, JobKept DEF Places, Fatal, LoopsTypeOK
<1>5. \A o, i : Compared(o, i)' <=> Compared(o, i)
  BY <1>2 DEF Compared
<1>6. Flags'
  BY <1>2, <1>5, JobKept DEF JInv, Flags
<1>7. SoFar'
  <2>1. ASSUME NEW q \in JoinedPairs PROVE Past(q)' <=> Past(q)
    <3>1. PICK o \in 0..OuterRows, i \in 0..InnerRows :
            /\ o = OuterOf(q) /\ i = InnerOf(q)
            /\ IsMatch(o, i) \/ IsPadded(o, i) \/ IsRest(o, i)
      BY <1>3, PlaceOf
    <3>2. Past(q) <=> o # 0 /\ (IF i = 0 THEN o < outer ELSE Compared(o, i))
      BY <1>2, <3>1 DEF Past
    <3>3. phase' \notin {"idle", "loop"}
      BY <1>2
    <3>4. Past(q)' <=> IF o = 0 THEN i < 1 ELSE IF i = 0 THEN o < outer ELSE Compared(o, i)
      BY <1>1, <1>2, <1>5, <3>1, <3>3, JobKept DEF Past
    <3>5. o = 0 => i \in 1..InnerRows
      BY <1>1, <3>1 DEF IsMatch, IsPadded, IsRest
    <3> QED BY <1>1, <3>2, <3>4, <3>5
  <2> QED BY <1>2, <1>3, <2>1, NothingPassed DEF JInv
<1>8. NoFailure'
  BY <1>2, <1>5, JobKept DEF JInv, NoFailure, Fatal
<1> QED BY <1>3, <1>4, <1>6, <1>7, <1>8 DEF JInv

LEMMA RestTurnKeeps == JInv /\ RestTurn => JInv'
<1> SUFFICES ASSUME JInv, RestTurn PROVE JInv'
  OBVIOUS
<1>1. /\ outer = OuterRows + 1 /\ inner \in 1..InnerRows /\ job.type = "full"
      /\ OuterRows = job.left /\ InnerRows = job.right
      /\ OuterRows \in Nat /\ InnerRows \in Nat
  BY Sizes DEF JInv, LoopsTypeOK, Places, RestTurn
<1>2. /\ job' = job /\ phase = "rest" /\ phase' = phase /\ outer' = outer /\ inner' = inner + 1
      /\ matched' = matched /\ right_matched' = right_matched
      /\ result' = IF right_matched[inner] THEN result ELSE Append(result, <<0, inner>>)
  BY DEF RestTurn
<1>3. LoopsTypeOK /\ LoopsTypeOK'
  BY TypesKept DEF JInv, LoopStep
<1>4. Places'
  BY <1>1, <1>2, JobKept DEF Places, Fatal
<1>5. \A o \in 1..OuterRows, i \in Nat : Compared(o, i) /\ Compared(o, i)'
  BY <1>1, <1>2 DEF Compared
<1>6. \A r \in 1..job.right : right_matched[r] = (\E l \in 1..job.left : Matches(l, r))
  <2>1. ASSUME NEW r \in 1..job.right
        PROVE  right_matched[r] = (\E l \in 1..job.left : Matches(l, r))
    <3>1. right_matched[r] = (\E l \in 1..job.left : Compared(l, r) /\ Matches(l, r))
      BY <1>1, <1>2 DEF JInv, Flags
    <3>2. \A l \in 1..job.left : Compared(l, r)
      BY <1>1, <1>5
    <3> QED BY <3>1, <3>2
  <2> QED BY <2>1
<1>7. Flags'
  <2>1. ASSUME NEW r \in 1..job.right
        PROVE  right_matched[r] = (\E l \in 1..job.left : Compared(l, r)' /\ Matches(l, r))
    <3>1. \A l \in 1..job.left : Compared(l, r)'
      BY <1>1, <1>5
    <3> QED BY <1>6, <3>1
  <2> QED BY <1>2, <2>1, JobKept DEF Flags
<1>8. <<0, inner>> = Merged(0, inner) /\ 0 \in 0..OuterRows /\ inner \in 0..InnerRows
  BY <1>1 DEF Merged
<1>9. ASSUME NEW q \in JoinedPairs
      PROVE  /\ Past(q)' <=> (Past(q) \/ q = <<0, inner>>)
             /\ Past(q) => ComesBefore(q, <<0, inner>>)
  <2>1. PICK o \in 0..OuterRows, i \in 0..InnerRows :
          /\ o = OuterOf(q) /\ i = InnerOf(q)
          /\ q = Merged(0, inner) <=> o = 0 /\ i = inner
    BY <1>3, <1>8, PlaceOf
  <2>2. Past(q) <=> (o = 0 => i < inner)
    BY <1>1, <1>2, <1>5, <2>1 DEF Past
  <2>3. phase' \notin {"idle", "loop"}
    BY <1>2
  <2>4. Past(q)' <=> (o = 0 => i < inner + 1)
    <3>1. OuterOf(q)' = o /\ InnerOf(q)' = i
      BY <1>2, <2>1, JobKept
    <3>2. CASE o = 0
      BY <1>2, <2>3, <3>1, <3>2 DEF Past
    <3>3. CASE o # 0
      <4>1. Compared(o, i)' /\ o < outer'
        BY <1>1, <1>2, <1>5, <2>1, <3>3
      <4> QED BY <3>1, <3>3, <4>1 DEF Past
    <3> QED BY <3>2, <3>3
  <2>5. Past(q)' <=> (Past(q) \/ q = <<0, inner>>)
    BY <1>1, <1>8, <2>1, <2>2, <2>4
  <2>6. OuterOf(<<0, inner>>) = 0 /\ InnerOf(<<0, inner>>) = inner
    BY <1>3, <1>8, MergedFacts
  <2> QED BY <1>1, <2>1, <2>2, <2>5, <2>6 DEF ComesBefore
<1>10. SoFar'
  <2>1. <<0, inner>> \in JoinedPairs <=> ~right_matched[inner]
    <3>1. <<0, inner>> \in JoinedPairs
            <=> IsMatch(0, inner) \/ IsPadded(0, inner) \/ IsRest(0, inner)
      BY <1>3, <1>8, IsJoined
    <3>2. ~IsMatch(0, inner) /\ ~IsPadded(0, inner)
      BY <1>1 DEF IsMatch, IsPadded
    <3>3. IsRest(0, inner) <=> ~right_matched[inner]
      BY <1>1, <1>6 DEF IsRest
    <3> QED BY <3>1, <3>2, <3>3
  <2>2. CASE right_matched[inner]
    <3>1. \A q \in JoinedPairs : Past(q)' <=> Past(q)
      BY <1>9, <2>1, <2>2
    <3> QED BY <1>2, <1>3, <2>2, <3>1, NothingPassed DEF JInv
  <2>3. CASE ~right_matched[inner]
    <3> DEFINE p == <<0, inner>>
    <3>1. p \in JoinedPairs /\ result' = Append(result, p)
      BY <1>2, <2>1, <2>3
    <3>2. \A q \in JoinedPairs : (Past(q)' <=> (Past(q) \/ q = p)) /\ (Past(q) => ComesBefore(q, p))
      BY <1>9
    <3> HIDE DEF p
    <3> QED BY <1>2, <1>3, <3>1, <3>2, OnePassed DEF JInv
  <2> QED BY <2>2, <2>3
<1>11. NoFailure'
  <2>1. ASSUME NEW o \in 1..OuterRows, NEW i \in 1..InnerRows
        PROVE  job.on[Merged(o, i)] \notin Fatal
    BY <1>1, <1>2, <1>5 DEF JInv, NoFailure
  <2> QED BY <1>2, <2>1, JobKept DEF NoFailure, Fatal
<1> QED BY <1>3, <1>4, <1>7, <1>10, <1>11 DEF JInv

LEMMA EndRestKeeps == JInv /\ EndRest => JInv'
<1> SUFFICES ASSUME JInv, EndRest PROVE JInv'
  OBVIOUS
<1>1. /\ outer = OuterRows + 1 /\ inner = job.right + 1
  <2>1. job.right \in Nat /\ inner \in 1..(job.right + 1) /\ inner > job.right
    BY DEF JInv, LoopsTypeOK, Places, EndRest
  <2> QED BY <2>1 DEF JInv, Places, EndRest
<1>2. /\ job' = job /\ phase = "rest" /\ phase' = "done" /\ outer' = outer /\ inner' = inner
      /\ matched' = matched /\ right_matched' = right_matched /\ result' = result
  BY DEF EndRest
<1>3. LoopsTypeOK /\ LoopsTypeOK'
  BY TypesKept DEF JInv, LoopStep
<1>4. Places'
  BY <1>1, <1>2, JobKept DEF Places, Fatal
<1>5. \A o, i : Compared(o, i)' <=> Compared(o, i)
  BY <1>2 DEF Compared
<1>6. Flags'
  BY <1>2 DEF Flags
<1>7. SoFar'
  <2>1. ASSUME NEW q \in JoinedPairs PROVE Past(q)' <=> Past(q)
    BY <1>2, <1>5, JobKept DEF Past
  <2> QED BY <1>2, <1>3, <2>1, NothingPassed DEF JInv
<1>8. NoFailure'
  BY <1>2, <1>5, JobKept DEF JInv, NoFailure, Fatal
<1> QED BY <1>3, <1>4, <1>6, <1>7, <1>8 DEF JInv

\* While no call is under way there is nothing to say.
LEMMA IdleHolds == JoinInit => JInv
<1> SUFFICES ASSUME JoinInit PROVE JInv
  OBVIOUS
<1>1. LoopsTypeOK
  <2>1. (1..0) \X (1..0) = {} /\ 1..0 = {}
    OBVIOUS
  <2>2. /\ job.left = 0 /\ job.right = 0 /\ job.type = "inner" /\ job.on = <<>>
        /\ OuterRows = 0
    BY DEF JoinInit, NoJob, OuterRows
  <2>3. <<>> \in [(1..0) \X (1..0) -> Finding] /\ <<>> \in [1..0 -> BOOLEAN]
    BY <2>1
  <2>4. result \in Seq((0..0) \X (0..0))
    BY DEF JoinInit
  <2>5. /\ job.on \in [(1..job.left) \X (1..job.right) -> Finding]
        /\ right_matched \in [1..job.right -> BOOLEAN]
        /\ result \in Seq((0..job.left) \X (0..job.right))
    BY <2>2, <2>3, <2>4 DEF JoinInit
  <2>6. /\ job.left \in Nat /\ job.right \in Nat /\ job.type \in JoinTypes
        /\ outer \in 0..(OuterRows + 1) /\ inner \in Nat
    BY <2>2 DEF JoinInit, JoinTypes
  <2>7. phase = "idle" /\ matched = FALSE
    BY DEF JoinInit
  <2> QED BY <2>5, <2>6, <2>7 DEF LoopsTypeOK
<1>2. Places /\ Flags /\ SoFar /\ NoFailure
  BY DEF JoinInit, Places, Flags, SoFar, NoFailure, Fatal
<1> QED BY <1>1, <1>2 DEF JInv

LEMMA ReturnKeeps == Return => JInv'
<1>1. Return => JoinInit'
  BY DEF Return, JoinInit, NoJob
<1> QED BY <1>1, IdleHolds, PTL

LEMMA Placed ==
  LoopsTypeOK => \A q \in JoinedPairs : \E o \in 0..OuterRows, i \in 0..InnerRows :
                    o = OuterOf(q) /\ i = InnerOf(q)
<1> SUFFICES ASSUME LoopsTypeOK, NEW q \in JoinedPairs
             PROVE  \E o \in 0..OuterRows, i \in 0..InnerRows : o = OuterOf(q) /\ i = InnerOf(q)
  OBVIOUS
<1> QED BY PlaceOf

LEMMA PlacedNext ==
  LoopsTypeOK' => (\A q \in JoinedPairs : \E o \in 0..OuterRows, i \in 0..InnerRows :
                     o = OuterOf(q) /\ i = InnerOf(q))'
BY Placed, PTL

\* A call has compared nothing at its beginning.
LEMMA BeginKeeps ==
  ASSUME NEW j, BeginLoops(j), j.left \in Nat, j.right \in Nat, j.type \in JoinTypes,
         j.on \in [(1..j.left) \X (1..j.right) -> Finding]
  PROVE  JInv'
<1>1. /\ job' = j /\ phase' = "loop" /\ outer' = 1 /\ inner' = 1 /\ matched' = FALSE
      /\ right_matched' = [r \in 1..j.right |-> FALSE] /\ result' = <<>>
  BY DEF BeginLoops
<1>2. PICK n, m \in Nat : OuterRows' = n /\ InnerRows' = m
  BY <1>1 DEF OuterRows, InnerRows
<1>3. LoopsTypeOK'
  <2>1. result' \in Seq((0..j.left) \X (0..j.right))
    BY <1>1
  <2>2. right_matched' \in [1..j.right -> BOOLEAN]
    BY <1>1
  <2>3. matched' \in BOOLEAN
    BY <1>1
  <2>4. (outer \in 0..(OuterRows + 1))'
    <3>1. 1 \in 0..(n + 1)
      BY <1>2
    <3> QED BY <1>1, <1>2, <3>1
  <2>5. (inner \in Nat)' /\ phase' = "loop"
    BY <1>1
  <2>6. job' = j
    BY <1>1
  <2> QED BY <2>1, <2>2, <2>3, <2>4, <2>5, <2>6 DEF LoopsTypeOK
<1>4. Places'
  <2>1. phase' = "loop" /\ outer' = 1 /\ inner' = 1
    BY <1>1
  <2>2. 1 \in 1..(n + 1) /\ 1 \in 1..(m + 1)
    BY <1>2
  <2> QED BY <1>2, <2>1, <2>2 DEF Places, Fatal
<1>5. \A o \in Nat \ {0}, i \in Nat \ {0} : ~Compared(o, i)'
  BY <1>1 DEF Compared
<1>6. Flags'
  <2>1. 1..(inner' - 1) = {}
    BY <1>1
  <2>2. matched' = (\E i \in 1..(inner' - 1) : Matches(outer, i)')
    BY <1>1, <2>1
  <2>3. ASSUME NEW r \in 1..j.right
        PROVE  right_matched'[r] = (\E l \in 1..j.left : Compared(l, r)' /\ Matches(l, r)')
    <3>1. \A l \in 1..j.left : ~Compared(l, r)'
      BY <1>5
    <3>2. right_matched'[r] = FALSE
      BY <1>1
    <3> QED BY <3>1, <3>2
  <2> QED BY <1>1, <2>2, <2>3 DEF Flags
<1>7. SoFar'
  <2>1. ASSUME NEW q, (q \in JoinedPairs)', Past(q)'
        PROVE  FALSE
    <3>2. PICK o \in 0..OuterRows', i \in 0..InnerRows' : o = OuterOf(q)' /\ i = InnerOf(q)'
      BY <1>3, <2>1, PlacedNext
    <3>3. o # 0 /\ (i = 0 => o < 1) /\ (i # 0 => Compared(o, i)')
      BY <1>1, <2>1, <3>2 DEF Past
    <3> QED BY <1>2, <1>5, <3>2, <3>3
  <2>2. DOMAIN result' = {}
    BY <1>1
  <2> QED BY <1>1, <2>1, <2>2 DEF SoFar
<1>8. NoFailure'
  BY <1>1, <1>2, <1>5 DEF NoFailure, Fatal
<1> QED BY <1>3, <1>4, <1>6, <1>7, <1>8 DEF JInv

LEMMA StutterKeeps == JInv /\ UNCHANGED joinVars => JInv'
<1> SUFFICES ASSUME JInv, UNCHANGED joinVars PROVE JInv'
  OBVIOUS
<1>1. /\ job' = job /\ phase' = phase /\ outer' = outer /\ inner' = inner
      /\ matched' = matched /\ right_matched' = right_matched /\ result' = result
  BY DEF joinVars
<1>2. (\A o, i : Compared(o, i)' <=> Compared(o, i)) /\ (\A q : Past(q)' <=> Past(q))
  BY <1>1, JobKept DEF Compared, Past
<1>3. LoopsTypeOK' /\ Places'
  BY <1>1, JobKept DEF JInv, LoopsTypeOK, Places
<1>4. Flags'
  BY <1>1, <1>2, JobKept DEF JInv, Flags
<1>5. SoFar' /\ NoFailure'
  BY <1>1, <1>2, JobKept DEF JInv, SoFar, NoFailure
<1> QED BY <1>3, <1>4, <1>5 DEF JInv

\* The invariant says what a call that ends has joined.
LEMMA EndsRight == JInv => JoinsAsSets
<1> SUFFICES ASSUME JInv PROVE JoinsAsSets
  OBVIOUS
<1>1. LoopsTypeOK /\ OuterRows \in Nat /\ InnerRows \in Nat
  BY Sizes DEF JInv
<1>2. ASSUME NEW p \in DOMAIN job.on
      PROVE  \E o \in 1..OuterRows, i \in 1..InnerRows :
               o = OuterOf(p) /\ i = InnerOf(p) /\ p = Merged(o, i)
  <2>1. p \in (1..job.left) \X (1..job.right)
    BY <1>1 DEF LoopsTypeOK
  <2>2. OuterOf(p) \in 1..OuterRows /\ InnerOf(p) \in 1..InnerRows
    BY <2>1 DEF OuterOf, InnerOf, OuterRows, InnerRows
  <2>3. p = Merged(OuterOf(p), InnerOf(p))
    BY <2>1 DEF OuterOf, InnerOf, Merged
  <2> QED BY <2>2, <2>3
<1>3. ASSUME phase = "done"
      PROVE  /\ Range(result) = JoinedPairs
             /\ \A m, n \in DOMAIN result : m < n => ComesBefore(result[m], result[n])
             /\ \A p \in DOMAIN job.on : job.on[p] \notin Fatal
  <2>1. outer = OuterRows + 1 /\ (job.type = "full" => inner = job.right + 1)
    BY <1>3 DEF JInv, Places
  <2>2. \A o \in 1..OuterRows, i \in Nat : Compared(o, i)
    BY <1>1, <2>1 DEF Compared
  <2>3. ASSUME NEW q \in JoinedPairs PROVE Past(q)
    <3>1. PICK o \in 0..OuterRows, i \in 0..InnerRows :
            /\ o = OuterOf(q) /\ i = InnerOf(q)
            /\ IsMatch(o, i) \/ IsPadded(o, i) \/ IsRest(o, i)
      BY <1>1, PlaceOf
    <3>2. CASE o = 0
      <4>1. job.type = "full" /\ i \in 1..job.right
        BY <1>1, <3>1, <3>2, Sizes DEF IsMatch, IsPadded, IsRest
      <4> QED BY <1>1, <1>3, <2>1, <3>1, <3>2, <4>1 DEF Past, LoopsTypeOK
    <3>3. CASE o # 0
      <4>1. o < outer /\ Compared(o, i)
        BY <1>1, <2>1, <2>2, <3>1, <3>3
      <4> QED BY <3>1, <3>3, <4>1 DEF Past
    <3> QED BY <3>2, <3>3
  <2>4. \A q : (\E n \in DOMAIN result : result[n] = q) <=> q \in JoinedPairs
    BY <1>3, <2>3 DEF JInv, SoFar
  <2>5. Range(result) = JoinedPairs
    BY <2>4 DEF Range
  <2>6. \A p \in DOMAIN job.on : job.on[p] \notin Fatal
    BY <1>2, <1>3, <2>2 DEF JInv, NoFailure
  <2> QED BY <1>3, <2>5, <2>6 DEF JInv, SoFar
<1>4. ASSUME phase \in Fatal
      PROVE  \E p \in DOMAIN job.on :
               /\ job.on[p] = phase
               /\ \A r \in DOMAIN job.on : ComesBefore(r, p) => job.on[r] \notin Fatal
  <2> DEFINE p == Merged(outer, inner)
  <2>1. /\ outer \in 1..OuterRows /\ inner \in 1..InnerRows /\ job.on[p] = phase
        /\ \A o \in 1..OuterRows, i \in 1..InnerRows :
              Compared(o, i) => job.on[Merged(o, i)] \notin Fatal
    BY <1>4 DEF JInv, Places, NoFailure
  <2>2. /\ p \in DOMAIN job.on /\ OuterOf(p) = outer /\ InnerOf(p) = inner
    BY <1>1, <2>1, MergedFacts DEF LoopsTypeOK
  <2> HIDE DEF p
  <2>3. ASSUME NEW r \in DOMAIN job.on, ComesBefore(r, p)
        PROVE  job.on[r] \notin Fatal
    <3>1. PICK o \in 1..OuterRows, i \in 1..InnerRows :
            o = OuterOf(r) /\ i = InnerOf(r) /\ r = Merged(o, i)
      BY <1>2
    <3>2. Compared(o, i)
      BY <1>1, <2>1, <2>2, <2>3, <3>1 DEF ComesBefore, Compared
    <3> QED BY <2>1, <3>1, <3>2
  <2> QED BY <2>1, <2>2, <2>3
<1> QED BY <1>3, <1>4 DEF JoinsAsSets

-----------------------------------------------------------------------------
\* The inductive invariant of a sequence of joins, of tables of any size.
THEOREM JoinInductive == JoinSpec => []JInv
<1>1. JoinInit => JInv
  BY IdleHolds
<1>2. JInv /\ [JoinNext]_joinVars => JInv'
  <2> SUFFICES ASSUME JInv, [JoinNext]_joinVars PROVE JInv'
    OBVIOUS
  <2>1. CASE LoopStep
    BY <2>1, AddMatchKeeps, SkipPairKeeps, FailLoopsKeeps, EndTurnKeeps, EndLoopKeeps,
       RestTurnKeeps, EndRestKeeps DEF LoopStep
  <2>2. CASE Return
    BY <2>2, ReturnKeeps
  <2>3. ASSUME NEW l \in Nat, NEW r \in Nat, NEW type \in JoinTypes,
               NEW on \in [(1..l) \X (1..r) -> Finding],
               BeginLoops([left |-> l, right |-> r, type |-> type, on |-> on])
        PROVE  JInv'
    BY <2>3, BeginKeeps
  <2>4. CASE UNCHANGED joinVars
    BY <2>4, StutterKeeps
  <2> QED BY <2>1, <2>2, <2>3, <2>4 DEF JoinNext
<1> QED BY <1>1, <1>2, PTL DEF JoinSpec

\* Whatever the tables, the condition and the kind of join, the loops of
\* engine.rs end with precisely the rows of the join, each once and in order,
\* or with the error of the first pair whose condition fails.
THEOREM AlwaysJoinsAsSets == JoinSpec => []JoinsAsSets
<1>1. JInv => JoinsAsSets
  BY EndsRight
<1> QED BY <1>1, JoinInductive, PTL

=============================================================================
