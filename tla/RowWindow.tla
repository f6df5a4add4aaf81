------------------------------ MODULE RowWindow ------------------------------
(***************************************************************************)
(* Which rows apply_limit_offset (src/executor/engine.rs) takes: the       *)
(* arithmetic on an OFFSET and a LIMIT, i64 values cast to usize, and what *)
(* it gives for any width of theirs.                                       *)
(***************************************************************************)
EXTENDS Integers

CONSTANT Half  \* half of the values of usize, 2^63; the least i64 is -Half
ASSUME HalfAssumption == Half \in Nat \ {0}

I64 == (-Half)..(Half - 1)
\* A Vec has at most isize::MAX elements.
Length == 0..(Half - 1)

\* An i64 as usize, and in a release build a sum of two usize, are modulo 2^64.
Usize(n) == n % (2 * Half)

AtMost(n, total) == IF n < total THEN n ELSE total

\* rows[WindowStart..WindowEnd] are taken, once skip is cut off by the length.
WindowStart(skip, total) == AtMost(Usize(skip), total)
WindowEnd(start, most, total) == AtMost(Usize(start + Usize(most)), total)

\* rows[start..end] panics when end is before start, and the sum in a debug
\* build when it does not fit.
BadSlice(start, end) == end < start
SumOverflows(start, most) == start + Usize(most) >= 2 * Half

-----------------------------------------------------------------------------
\* What a sum modulo 2^64 is, so long as it overflows once at most.
LEMMA Wraps ==
  ASSUME NEW n \in Int
  PROVE  /\ 0 <= n /\ n < 2 * Half => Usize(n) = n
         /\ -(2 * Half) <= n /\ n < 0 => Usize(n) = n + 2 * Half
         /\ 2 * Half <= n /\ n < 4 * Half => Usize(n) = n - 2 * Half
<1> DEFINE m == 2 * Half
<1>1. m \in Nat \ {0} /\ 4 * Half = 2 * m
  BY HalfAssumption
<1>2. Usize(n) = n % m
  BY DEF Usize
<1> HIDE DEF m
<1>3. 0 <= n /\ n < m => n % m = n
  BY <1>1
<1>4. -m <= n /\ n < 0 => n % m = n + m
  BY <1>1
<1>5. m <= n /\ n < 2 * m => n % m = n - m
  BY <1>1
<1> QED BY <1>1, <1>2, <1>3, <1>4, <1>5 DEF m

\* A cast keeps what is not negative and makes the rest at least 2^63.
LEMMA CastOfI64 ==
  ASSUME NEW n \in I64
  PROVE  Usize(n) = IF n < 0 THEN n + 2 * Half ELSE n
<1>1. /\ n \in Int /\ Half \in Nat /\ 2 * Half \in Nat \ {0}
      /\ -(2 * Half) <= n /\ n < 2 * Half
  BY HalfAssumption DEF I64
<1>2. CASE n < 0
  BY <1>1, <1>2, Wraps
<1>3. CASE n >= 0
  BY <1>1, <1>3, Wraps
<1> QED BY <1>1, <1>2, <1>3

\* The sum of a length and a cast LIMIT fits, or else is below the length again.
LEMMA SumOfI64 ==
  ASSUME NEW start \in Length, NEW most \in I64
  PROVE  /\ SumOverflows(start, most) <=> most < 0 /\ -most <= start
         /\ Usize(start + Usize(most)) =
               IF most < 0 /\ -most > start THEN start + most + 2 * Half ELSE start + most
<1>1. /\ start \in Nat /\ start < Half /\ most \in Int /\ Half \in Nat \ {0}
      /\ -Half <= most /\ most < Half
  BY HalfAssumption DEF I64, Length
<1>2. Usize(most) = IF most < 0 THEN most + 2 * Half ELSE most
  BY CastOfI64
<1>3. CASE most >= 0
  <2>1. start + Usize(most) = start + most /\ start + most \in 0..(2 * Half - 1)
    BY <1>1, <1>2, <1>3
  <2> QED BY <1>1, <1>3, <2>1, Wraps DEF SumOverflows
<1>4. CASE most < 0 /\ -most > start
  <2>1. start + Usize(most) = start + most + 2 * Half
    BY <1>1, <1>2, <1>4
  <2>2. start + most + 2 * Half \in 0..(2 * Half - 1)
    BY <1>1, <1>4
  <2> QED BY <1>1, <1>4, <2>1, <2>2, Wraps DEF SumOverflows
<1>5. CASE most < 0 /\ -most <= start
  <2>1. start + Usize(most) = start + most + 2 * Half
    BY <1>1, <1>2, <1>5
  <2>2. /\ start + most + 2 * Half \in Int
        /\ 2 * Half <= start + most + 2 * Half
        /\ start + most + 2 * Half < 4 * Half
    BY <1>1, <1>5
  <2>3. Usize(start + most + 2 * Half) = start + most
    BY <1>1, <2>2, Wraps
  <2> QED BY <1>1, <1>5, <2>1, <2>2, <2>3 DEF SumOverflows
<1> QED BY <1>1, <1>3, <1>4, <1>5

-----------------------------------------------------------------------------
\* apply_limit_offset: where neither is negative, however large they are, the
\* slice is one that rows has, and its places are exactly those past the first
\* skip, the first most of them.
THEOREM WindowIsAsked ==
  ASSUME NEW total \in Length, NEW skip \in I64, NEW most \in I64,
         skip >= 0, most >= 0
  PROVE  LET start == WindowStart(skip, total)
             end == WindowEnd(start, most, total)
         IN  /\ ~SumOverflows(start, most)
             /\ ~BadSlice(start, end)
             /\ (start + 1)..end = {i \in 1..total : skip < i /\ i <= skip + most}
<1> DEFINE start == WindowStart(skip, total)
           end == WindowEnd(start, most, total)
<1>1. /\ total \in Nat /\ total < Half /\ Half \in Nat \ {0} /\ skip \in Nat /\ most \in Nat
  BY HalfAssumption DEF I64, Length
<1>2. start = AtMost(skip, total)
  BY <1>1, CastOfI64 DEF WindowStart
<1>3. start \in Length
  BY <1>1, <1>2 DEF AtMost, Length
<1>4. end = AtMost(start + most, total) /\ ~SumOverflows(start, most)
  <2> HIDE DEF start
  <2>1. /\ ~SumOverflows(start, most)
        /\ Usize(start + Usize(most)) = start + most
    BY <1>1, <1>3, SumOfI64
  <2> QED BY <2>1 DEF WindowEnd
<1>5. /\ start \in Nat /\ end \in Nat
      /\ start = IF skip < total THEN skip ELSE total
      /\ end = IF start + most < total THEN start + most ELSE total
  BY <1>1, <1>2, <1>4 DEF AtMost
<1> HIDE DEF start, end
<1>6. (start + 1)..end = {i \in 1..total : skip < i /\ i <= skip + most}
  <2>1. ASSUME NEW i \in Int
        PROVE  (start + 1 <= i /\ i <= end) <=> (1 <= i /\ i <= total /\ skip < i /\ i <= skip + most)
    BY <1>1, <1>5
  <2>2. start + 1 \in Int /\ end \in Int /\ total \in Int
    BY <1>1, <1>5
  <2> QED BY <2>1, <2>2
<1>7. ~BadSlice(start, end)
  BY <1>1, <1>5 DEF BadSlice
<1> QED BY <1>4, <1>6, <1>7 DEF start, end

\* An OFFSET below zero skips every row.
LEMMA NegativeOffsetSkipsAll ==
  ASSUME NEW total \in Length, NEW skip \in I64, skip < 0
  PROVE  WindowStart(skip, total) = total
<1>1. total \in Nat /\ total < Half /\ Half \in Nat \ {0} /\ skip \in Int /\ -Half <= skip
  BY HalfAssumption DEF I64, Length
<1>2. Usize(skip) = skip + 2 * Half
  BY CastOfI64
<1> QED BY <1>1, <1>2 DEF WindowStart, AtMost

\* apply_limit_offset panics exactly when LIMIT is below zero by no more than
\* the rows that OFFSET has skipped; it then panics in a release build, whose
\* slice ends before it starts, and in a debug build, whose sum overflows.  A
\* LIMIT further below zero takes every row there is from start on.
THEOREM PanicsExactly ==
  ASSUME NEW total \in Length, NEW start \in 0..total, NEW most \in I64
  PROVE  LET end == WindowEnd(start, most, total)
         IN  /\ BadSlice(start, end) <=> most < 0 /\ -most <= start
             /\ SumOverflows(start, most) <=> BadSlice(start, end)
             /\ most < 0 /\ -most > start => end = total
<1> DEFINE end == WindowEnd(start, most, total)
<1>1. /\ total \in Nat /\ total < Half /\ Half \in Nat \ {0}
      /\ start \in Nat /\ start <= total /\ most \in Int /\ -Half <= most /\ most < Half
  BY HalfAssumption DEF I64, Length
<1>2. start \in Length
  BY <1>1 DEF Length
<1>3. SumOverflows(start, most) <=> most < 0 /\ -most <= start
  BY <1>2, SumOfI64
<1>4. CASE most < 0 /\ -most > start
  <2>1. end = AtMost(start + most + 2 * Half, total)
    BY <1>2, <1>4, SumOfI64 DEF WindowEnd
  <2>2. end = total
    BY <1>1, <2>1 DEF AtMost
  <2> QED BY <1>1, <1>3, <1>4, <2>2 DEF BadSlice
<1>5. CASE ~(most < 0 /\ -most > start)
  <2>1. end = AtMost(start + most, total)
    BY <1>2, <1>5, SumOfI64 DEF WindowEnd
  <2>2. end < start <=> most < 0
    BY <1>1, <2>1 DEF AtMost
  <2>3. most < 0 <=> most < 0 /\ -most <= start
    BY <1>1, <1>5
  <2> QED BY <1>3, <1>5, <2>2, <2>3 DEF BadSlice
<1> QED BY <1>4, <1>5
=============================================================================
