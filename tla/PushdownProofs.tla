--------------------------- MODULE PushdownProofs ---------------------------
(***************************************************************************)
(* Theorems about Pushdown for every statement, every kind of expression   *)
(* and every meaning of the analyses it relies on: the pass loses no       *)
(* conjunct, and moves nothing else.                                       *)
(***************************************************************************)
EXTENDS Pushdown, TLAPS, SequenceTheorems

-----------------------------------------------------------------------------
(***************************************************************************)
(* Conditions                                                              *)
(***************************************************************************)
\* Appending to a condition leaves its conjuncts where they are.
LEMMA AppendOne ==
    ASSUME NEW w, NEW e, IsSequence(w)
    PROVE  /\ IsSequence(Append(w, e))
           /\ Len(w) \in Nat /\ DOMAIN w = 1..Len(w)
           /\ Len(Append(w, e)) = Len(w) + 1
           /\ DOMAIN Append(w, e) = 1..(Len(w) + 1)
           /\ \A k \in 1..Len(w) : Append(w, e)[k] = w[k]
           /\ Append(w, e)[Len(w) + 1] = e
<1> DEFINE S == {w[k] : k \in DOMAIN w} \cup {e}
           v == Append(w, e)
<1>1. w \in Seq({w[k] : k \in DOMAIN w})  BY DEF IsSequence
<1>2. w \in Seq(S)
  BY <1>1, \A x \in {w[k] : k \in DOMAIN w} : x \in S, SeqDef
<1>3. /\ v \in Seq(S) /\ Len(v) = Len(w) + 1
      /\ \A k \in 1..Len(w) : v[k] = w[k]
      /\ v[Len(w) + 1] = e
  BY <1>2, AppendProperties
<1>4. Len(w) \in Nat /\ DOMAIN w = 1..Len(w) /\ DOMAIN v = 1..(Len(w) + 1)
  BY <1>2, <1>3, LenProperties
<1>5. v \in Seq({v[k] : k \in DOMAIN v})
  BY <1>3, LenProperties, ElementOfSeq
<1> QED  BY <1>3, <1>4, <1>5 DEF IsSequence

\* A condition that has grown may grow by one more of what may be added.
LEMMA GrowOne ==
    ASSUME NEW new, NEW old, NEW S, NEW T, NEW e, IsSequence(new), IsSequence(old),
           GrownBy(new, old, S), S \subseteq T, e \in T
    PROVE  GrownBy(Append(new, e), old, T)
<1>1. /\ Len(new) \in Nat /\ Len(Append(new, e)) = Len(new) + 1
      /\ \A k \in 1..Len(new) : Append(new, e)[k] = new[k]
      /\ Append(new, e)[Len(new) + 1] = e
  BY AppendOne
<1>2. Len(old) \in Nat  BY AppendOne
<1> QED  BY <1>1, <1>2 DEF GrownBy

LEMMA GrownMore ==
    ASSUME NEW new, NEW old, NEW S, NEW T, GrownBy(new, old, S), S \subseteq T
    PROVE  GrownBy(new, old, T)
BY DEF GrownBy

-----------------------------------------------------------------------------
(***************************************************************************)
(* Derived tables                                                          *)
(***************************************************************************)
\* What decides about pushing into a query does not depend on its WHERE.
LEMMA TargetSame ==
    ASSUME NEW q, NEW w, IsTarget(q)
    PROVE  LET r == [q EXCEPT !.where = w]
           IN  /\ r.where = w /\ r.kind = q.kind
               /\ ColumnMap(r) = ColumnMap(q)
               /\ IsSafeTarget(r) <=> IsSafeTarget(q)
               /\ \A p, alias : CanRewrite(p, alias, r) <=> CanRewrite(p, alias, q)
               /\ IsSequence(w) => IsTarget(r)
<1> DEFINE r == [q EXCEPT !.where = w]
<1>1. IsRecord(q, {"kind", "where", "cols", "group", "distinct", "limit", "offset", "fetch"})
  BY DEF IsTarget
<1>2. /\ r.where = w /\ r.kind = q.kind /\ r.cols = q.cols /\ r.group = q.group
      /\ r.distinct = q.distinct /\ r.limit = q.limit /\ r.offset = q.offset /\ r.fetch = q.fetch
      /\ DOMAIN r = DOMAIN q /\ r = [f \in DOMAIN r |-> r[f]]
  BY <1>1 DEF IsRecord
<1> HIDE DEF r
<1>3. ColumnMap(r) = ColumnMap(q)
  BY <1>2 DEF ColumnMap, NamedItems
<1>4. IsSafeTarget(r) <=> IsSafeTarget(q)
  BY <1>2 DEF IsSafeTarget
<1>5. \A p, alias : CanRewrite(p, alias, r) <=> CanRewrite(p, alias, q)
  BY <1>2, <1>3 DEF CanRewrite
<1>6. IsSequence(w) => IsTarget(r)
  BY <1>1, <1>2 DEF IsTarget, IsRecord
<1> QED  BY <1>2, <1>3, <1>4, <1>5, <1>6 DEF r

\* A derived table with another WHERE is the same derived table to the pass.
LEMMA SourceSame ==
    ASSUME NEW src, NEW w, IsSource(src), src.kind = "subquery", src.query.kind = "select"
    PROVE  /\ WithWhere(src, w).kind = "subquery" /\ WithWhere(src, w).alias = src.alias
           /\ WithWhere(src, w).query.kind = "select" /\ WithWhere(src, w).query.where = w
           /\ \A p : Rewritten(WithWhere(src, w), p) = Rewritten(src, p)
           /\ \A p : TakesPredicate(WithWhere(src, w), p) <=> TakesPredicate(src, p)
           /\ \A p, alias : CanRewrite(p, alias, WithWhere(src, w).query) <=> CanRewrite(p, alias, src.query)
           /\ \A v : WithWhere(WithWhere(src, w), v) = WithWhere(src, v)
           /\ IsSequence(w) => IsSource(WithWhere(src, w))
<1> DEFINE new == WithWhere(src, w)
           r == [src.query EXCEPT !.where = w]
<1>1. IsRecord(src, {"kind", "alias", "query"}) /\ IsTarget(src.query)
  BY DEF IsSource
<1>2. /\ new.kind = src.kind /\ new.alias = src.alias /\ new.query = r
      /\ DOMAIN new = DOMAIN src /\ new = [f \in DOMAIN new |-> new[f]]
  BY <1>1 DEF IsRecord, WithWhere
<1>3. /\ r.where = w /\ r.kind = src.query.kind
      /\ ColumnMap(r) = ColumnMap(src.query)
      /\ IsSafeTarget(r) <=> IsSafeTarget(src.query)
      /\ \A p, alias : CanRewrite(p, alias, r) <=> CanRewrite(p, alias, src.query)
      /\ IsSequence(w) => IsTarget(r)
  BY <1>1, TargetSame
<1>4. \A v : WithWhere(new, v) = WithWhere(src, v)
  <2> TAKE v
  <2>1. [r EXCEPT !.where = v] = [src.query EXCEPT !.where = v]
    BY <1>1 DEF IsTarget, IsRecord
  <2> QED  BY <1>1, <1>2, <2>1 DEF IsRecord, WithWhere
<1> HIDE DEF new, r
<1>5. \A p : Rewritten(new, p) = Rewritten(src, p)
  BY <1>2, <1>3 DEF Rewritten
<1>6. \A p : TakesPredicate(new, p) <=> TakesPredicate(src, p)
  BY <1>2, <1>3 DEF TakesPredicate
<1>7. IsSequence(w) => IsSource(new)
  BY <1>1, <1>2, <1>3 DEF IsSource, IsRecord
<1> QED  BY <1>2, <1>3, <1>4, <1>5, <1>6, <1>7 DEF new

\* Pushing puts the rewritten conjunct into the derived table, and keeps
\* what was there before.
LEMMA PushedSource ==
    ASSUME NEW src, NEW p, IsSource(src), TakesPredicate(src, p)
    PROVE  /\ IsSource(PushIntoSource(src, p)) /\ PushIntoSource(src, p).alias = src.alias
           /\ InSource(PushIntoSource(src, p), p)
           /\ \A r : InSource(src, r) => InSource(PushIntoSource(src, p), r)
<1> DEFINE w == Append(src.query.where, Rewritten(src, p))
           new == WithWhere(src, w)
<1>1. src.kind = "subquery" /\ src.query.kind = "select"
  BY DEF TakesPredicate
<1>2. PushIntoSource(src, p) = new
  BY DEF PushIntoSource
<1>3. IsSequence(src.query.where)
  BY <1>1 DEF IsSource, IsTarget
<1>4. /\ IsSequence(w) /\ Len(src.query.where) \in Nat
      /\ DOMAIN src.query.where = 1..Len(src.query.where)
      /\ DOMAIN w = 1..(Len(src.query.where) + 1)
      /\ \A k \in 1..Len(src.query.where) : w[k] = src.query.where[k]
      /\ w[Len(src.query.where) + 1] = Rewritten(src, p)
  BY <1>3, AppendOne
<1> HIDE DEF w
<1>5. /\ new.kind = "subquery" /\ new.alias = src.alias
      /\ new.query.kind = "select" /\ new.query.where = w
      /\ \A r : Rewritten(new, r) = Rewritten(src, r)
      /\ \A r, alias : CanRewrite(r, alias, new.query) <=> CanRewrite(r, alias, src.query)
      /\ IsSource(new)
  <2>1. IsSequence(w)  BY <1>4
  <2> QED  BY ONLY <1>1, <2>1, IsSource(src), SourceSame
<1> HIDE DEF new
<1>6. InSource(new, p)
  <2>1. Len(src.query.where) + 1 \in DOMAIN w /\ w[Len(src.query.where) + 1] = Rewritten(new, p)
    BY <1>4, <1>5
  <2>2. ReferencedTables(p) = {new.alias} /\ CanRewrite(p, new.alias, new.query)
    BY <1>5 DEF TakesPredicate
  <2> QED  BY <1>5, <2>1, <2>2 DEF InSource
<1>7. \A r : InSource(src, r) => InSource(new, r)
  BY <1>1, <1>4, <1>5 DEF InSource
<1> QED  BY <1>2, <1>5, <1>6, <1>7

\* The sets of what may be added only grow.
LEMMA MovableGrows ==
    ASSUME NEW P, NEW Q, P \subseteq Q, NEW alias, NEW old
    PROVE  /\ Movable(P, alias) \subseteq Movable(Q, alias)
           /\ {Rewritten(old, p) : p \in {p \in Movable(P, alias) : TakesPredicate(old, p)}}
                \subseteq {Rewritten(old, p) : p \in {p \in Movable(Q, alias) : TakesPredicate(old, p)}}
BY DEF Movable

LEMMA SourceGrownMore ==
    ASSUME NEW new, NEW old, NEW P, NEW Q, P \subseteq Q, SourceGrown(new, old, P)
    PROVE  SourceGrown(new, old, Q)
BY MovableGrows, GrownMore DEF SourceGrown

\* A derived table that has only grown, and takes one more conjunct.
LEMMA SourceGrows ==
    ASSUME NEW src, NEW old, NEW P, NEW p, IsSource(src), IsSource(old),
           SourceGrown(src, old, P), IsPushable(p), TakesPredicate(src, p)
    PROVE  SourceGrown(PushIntoSource(src, p), old, P \cup {p})
<1> DEFINE w == Append(src.query.where, Rewritten(src, p))
           u == src.query.where
           new == WithWhere(src, w)
           A(Q) == {Rewritten(old, r) : r \in {r \in Movable(Q, old.alias) : TakesPredicate(old, r)}}
<1>1. PushIntoSource(src, p) = new
  BY DEF PushIntoSource
<1>2. src.kind = "subquery" /\ src.query.kind = "select"
  BY DEF TakesPredicate
<1>3. IsSequence(u)
  BY <1>2 DEF IsSource, IsTarget
<1> HIDE DEF w
<1>4. /\ old.kind = "subquery" /\ old.query.kind = "select" /\ old.alias = src.alias
      /\ Rewritten(old, p) = Rewritten(src, p) /\ TakesPredicate(old, p)
      /\ new = WithWhere(old, w) /\ new.query.where = w
      /\ GrownBy(u, old.query.where, A(P))
      /\ IsSequence(old.query.where)
  <2>1. new.query.where = w  BY <1>2, SourceSame
  <2>2. CASE src = old
    <3>1. GrownBy(u, old.query.where, A(P))
      <4>1. Len(u) \in Nat  BY <1>3, AppendOne
      <4> QED  BY <2>2, <4>1 DEF GrownBy
    <3> QED  BY <1>2, <1>3, <2>1, <2>2, <3>1
  <2>3. CASE src # old
    <3>1. /\ old.kind = "subquery" /\ old.query.kind = "select"
          /\ src = WithWhere(old, u)
          /\ GrownBy(u, old.query.where, A(P))
      BY <2>3 DEF SourceGrown
    <3> HIDE DEF u
    <3>2. /\ WithWhere(old, u).alias = old.alias
          /\ Rewritten(WithWhere(old, u), p) = Rewritten(old, p)
          /\ TakesPredicate(WithWhere(old, u), p) <=> TakesPredicate(old, p)
          /\ WithWhere(WithWhere(old, u), w) = WithWhere(old, w)
      BY <3>1, SourceSame
    <3>3. IsSequence(old.query.where)  BY <3>1 DEF IsSource, IsTarget
    <3> QED  BY <2>1, <3>1, <3>2, <3>3
  <2> QED  BY <2>2, <2>3
<1>5. A(P) \subseteq A(P \cup {p}) /\ Rewritten(src, p) \in A(P \cup {p})
  BY <1>4, MovableGrows DEF Movable, TakesPredicate
<1>6. GrownBy(w, old.query.where, A(P \cup {p}))
  BY <1>3, <1>4, <1>5, GrowOne DEF w
<1>7. IsSafeTarget(old.query)  BY <1>4 DEF TakesPredicate
<1> QED  BY <1>1, <1>4, <1>6, <1>7 DEF SourceGrown

-----------------------------------------------------------------------------
(***************************************************************************)
(* Joins                                                                   *)
(***************************************************************************)
LEMMA JoinGrownMore ==
    ASSUME NEW new, NEW old, NEW P, NEW Q, P \subseteq Q, JoinGrown(new, old, P)
    PROVE  JoinGrown(new, old, Q)
<1>1. CASE new = old  BY <1>1 DEF JoinGrown
<1>2. CASE new # old
  <2>1. /\ old.type \in {"inner", "cross"}
        /\ new = [old EXCEPT !.src = new.src, !.on = new.on]
        /\ SourceGrown(new.src, old.src, P)
        /\ GrownBy(new.on, old.on, Movable(P, old.src.alias))
    BY <1>2 DEF JoinGrown
  <2>2. Movable(P, old.src.alias) \subseteq Movable(Q, old.src.alias)
    BY MovableGrows
  <2>3. GrownBy(new.on, old.on, Movable(Q, old.src.alias))
    BY ONLY <2>1, <2>2, GrownMore
  <2>4. SourceGrown(new.src, old.src, Q)
    BY <2>1, SourceGrownMore
  <2> QED  BY <2>1, <2>3, <2>4 DEF JoinGrown
<1> QED  BY <1>1, <1>2

\* A join that may take conjuncts is the old one with more of them.
LEMMA GrownJoin ==
    ASSUME NEW join, NEW old, NEW P, IsJoin(join), IsJoin(old), JoinGrown(join, old, P),
           join.type \in {"inner", "cross"}
    PROVE  /\ old.type = join.type /\ old.src.alias = join.src.alias
           /\ join = [old EXCEPT !.src = join.src, !.on = join.on]
           /\ SourceGrown(join.src, old.src, P)
           /\ GrownBy(join.on, old.on, Movable(P, old.src.alias))
<1>1. IsRecord(old, {"type", "src", "on"}) /\ IsSequence(old.on) /\ IsSource(old.src)
  BY DEF IsJoin
<1>2. CASE join = old
  <2>1. Len(old.on) \in Nat  BY <1>1, AppendOne
  <2>2. GrownBy(old.on, old.on, Movable(P, old.src.alias))
    BY <2>1 DEF GrownBy
  <2>3. old = [old EXCEPT !.src = old.src, !.on = old.on]
    BY <1>1 DEF IsRecord
  <2> QED  BY <1>2, <2>2, <2>3 DEF SourceGrown
<1>3. CASE join # old
  <2>1. /\ join = [old EXCEPT !.src = join.src, !.on = join.on]
        /\ SourceGrown(join.src, old.src, P)
        /\ GrownBy(join.on, old.on, Movable(P, old.src.alias))
    BY <1>3 DEF JoinGrown
  <2>2. join.type = old.type
    BY <1>1, <2>1 DEF IsRecord
  <2>3. join.src.alias = old.src.alias
    <3>1. CASE join.src = old.src  BY <3>1
    <3>2. CASE join.src # old.src
      <4> DEFINE u == join.src.query.where
      <4>1. /\ old.src.kind = "subquery" /\ old.src.query.kind = "select"
            /\ join.src = WithWhere(old.src, u)
        BY <2>1, <3>2 DEF SourceGrown
      <4> HIDE DEF u
      <4>2. WithWhere(old.src, u).alias = old.src.alias
        BY <1>1, <4>1, SourceSame
      <4> QED  BY <4>1, <4>2
    <3> QED  BY <3>1, <3>2
  <2> QED  BY <2>1, <2>2, <2>3
<1> QED  BY <1>2, <1>3

\* A join takes a conjunct: the conjunct filters it, and so do those before.
LEMMA PushedJoin ==
    ASSUME NEW join, NEW p, IsJoin(join), JoinTakesPredicate(join, p)
    PROVE  /\ IsJoin(PushIntoJoin(join, p))
           /\ PushIntoJoin(join, p).type = join.type
           /\ InJoin(PushIntoJoin(join, p), p)
           /\ \A r : InJoin(join, r) => InJoin(PushIntoJoin(join, p), r)
<1> DEFINE new == PushIntoJoin(join, p)
           src == PushIntoSource(join.src, p)
           on == Append(join.on, p)
<1>1. IsRecord(join, {"type", "src", "on"}) /\ IsSequence(join.on) /\ IsSource(join.src)
  BY DEF IsJoin
<1>2. CASE TakesPredicate(join.src, p)
  <2>1. /\ IsSource(src) /\ src.alias = join.src.alias /\ InSource(src, p)
        /\ \A r : InSource(join.src, r) => InSource(src, r)
    BY <1>1, <1>2, PushedSource
  <2> HIDE DEF src
  <2>2. /\ new.src = src /\ new.on = join.on /\ new.type = join.type
        /\ IsRecord(new, {"type", "src", "on"})
    BY <1>1, <1>2 DEF PushIntoJoin, IsRecord, src
  <2> HIDE DEF new
  <2>3. IsJoin(new)  BY <1>1, <2>1, <2>2 DEF IsJoin
  <2>4. InJoin(new, p) /\ \A r : InJoin(join, r) => InJoin(new, r)
    BY <2>1, <2>2 DEF InJoin
  <2> QED  BY <2>2, <2>3, <2>4 DEF new
<1>3. CASE ~TakesPredicate(join.src, p)
  <2>1. /\ IsSequence(on) /\ Len(join.on) \in Nat
        /\ DOMAIN join.on = 1..Len(join.on) /\ DOMAIN on = 1..(Len(join.on) + 1)
        /\ \A k \in 1..Len(join.on) : on[k] = join.on[k]
        /\ on[Len(join.on) + 1] = p
    BY <1>1, AppendOne
  <2> HIDE DEF on
  <2>2. /\ new.src = join.src /\ new.on = on /\ new.type = join.type
        /\ IsRecord(new, {"type", "src", "on"})
    BY <1>1, <1>3 DEF PushIntoJoin, IsRecord, on
  <2> HIDE DEF new
  <2>3. IsJoin(new)  BY <1>1, <2>1, <2>2 DEF IsJoin
  <2>4. InJoin(new, p)
    <3>1. Len(join.on) + 1 \in DOMAIN new.on /\ new.on[Len(join.on) + 1] = p
      BY <2>1, <2>2
    <3> QED  BY <2>2, <3>1 DEF InJoin, JoinTakesPredicate
  <2>5. ASSUME NEW r, InJoin(join, r)  PROVE InJoin(new, r)
    <3>1. \A k \in DOMAIN join.on : k \in DOMAIN on /\ on[k] = join.on[k]
      BY <2>1
    <3> QED  BY <2>2, <2>5, <3>1 DEF InJoin
  <2> QED  BY <2>2, <2>3, <2>4, <2>5 DEF new
<1> QED  BY <1>2, <1>3

\* A join that has only grown, and takes one more conjunct.
LEMMA JoinGrows ==
    ASSUME NEW join, NEW old, NEW P, NEW p, IsJoin(join), IsJoin(old),
           JoinGrown(join, old, P), IsPushable(p), JoinTakesPredicate(join, p)
    PROVE  JoinGrown(PushIntoJoin(join, p), old, P \cup {p})
<1> DEFINE new == PushIntoJoin(join, p)
           src == PushIntoSource(join.src, p)
           on == Append(join.on, p)
           M(Q) == Movable(Q, old.src.alias)
<1>1. /\ IsRecord(join, {"type", "src", "on"}) /\ IsSequence(join.on) /\ IsSource(join.src)
      /\ IsRecord(old, {"type", "src", "on"}) /\ IsSequence(old.on) /\ IsSource(old.src)
  BY DEF IsJoin
<1>2. /\ old.type \in {"inner", "cross"} /\ old.src.alias = join.src.alias
      /\ join = [old EXCEPT !.src = join.src, !.on = join.on]
      /\ SourceGrown(join.src, old.src, P)
      /\ GrownBy(join.on, old.on, M(P))
  BY GrownJoin DEF JoinTakesPredicate
<1>3. M(P) \subseteq M(P \cup {p}) /\ p \in M(P \cup {p})
  BY <1>2 DEF Movable, JoinTakesPredicate
<1>4. CASE TakesPredicate(join.src, p)
  <2>1. SourceGrown(src, old.src, P \cup {p})
    BY <1>1, <1>2, <1>4, SourceGrows
  <2>2. GrownBy(join.on, old.on, M(P \cup {p}))
    <3>1. GrownBy(join.on, old.on, M(P)) /\ M(P) \subseteq M(P \cup {p})
      BY <1>2, <1>3
    <3> HIDE DEF M
    <3> QED  BY ONLY <3>1, GrownMore
  <2> HIDE DEF src
  <2>3. new.src = src /\ new.on = join.on /\ new = [old EXCEPT !.src = src, !.on = join.on]
    BY <1>1, <1>2, <1>4 DEF PushIntoJoin, IsRecord, src
  <2> HIDE DEF new
  <2> QED  BY <1>2, <2>1, <2>2, <2>3 DEF JoinGrown, new
<1>5. CASE ~TakesPredicate(join.src, p)
  <2>1. SourceGrown(join.src, old.src, P \cup {p})
    BY <1>2, SourceGrownMore
  <2>2. GrownBy(on, old.on, M(P \cup {p}))
    BY <1>1, <1>2, <1>3, GrowOne
  <2> HIDE DEF on
  <2>3. new.src = join.src /\ new.on = on /\ new = [old EXCEPT !.src = join.src, !.on = on]
    BY <1>1, <1>2, <1>5 DEF PushIntoJoin, IsRecord, on
  <2> HIDE DEF new
  <2> QED  BY <1>2, <2>1, <2>2, <2>3 DEF JoinGrown, new
<1> QED  BY <1>4, <1>5

-----------------------------------------------------------------------------
(***************************************************************************)
(* Statements                                                              *)
(***************************************************************************)
\* One clause of a statement replaced, or three.
WithFrom(s, x) == [s EXCEPT !.from = x]
WithJoins(s, x) == [s EXCEPT !.joins = x]
WithCondition(s, x) == [s EXCEPT !.where = x]
Rebuilt(base, f, j, w) == [base EXCEPT !.from = f, !.joins = j, !.where = w]

LEMMA OneClause ==
    ASSUME NEW base, NEW f, NEW j, NEW w, NEW x,
           IsRecord(base, {"from", "joins", "ctes", "where"})
    PROVE  /\ WithFrom(Rebuilt(base, f, j, w), x) = Rebuilt(base, x, j, w)
           /\ WithJoins(Rebuilt(base, f, j, w), x) = Rebuilt(base, f, x, w)
           /\ WithCondition(Rebuilt(base, f, j, w), x) = Rebuilt(base, f, j, x)
BY DEF IsRecord, WithFrom, WithJoins, WithCondition, Rebuilt

\* A statement is the base with more conjuncts on its FROM and its joins.
Grown(s, base, P) ==
    /\ s = Rebuilt(base, s.from, s.joins, s.where)
    /\ SourceGrown(s.from, base.from, P)
    /\ DOMAIN s.joins = DOMAIN base.joins
    /\ \A i \in DOMAIN base.joins : JoinGrown(s.joins[i], base.joins[i], P)

\* A pushed conjunct filters a source of the statement.
Filters(s, p) ==
    \/ InSource(s.from, p)
    \/ \E i \in DOMAIN s.joins :
          s.joins[i].type \in {"inner", "cross"} /\ InJoin(s.joins[i], p)

\* Replacing an element of a sequence gives a sequence.
LEMMA ReplaceOne ==
    ASSUME NEW w, NEW i, NEW e, IsSequence(w)
    PROVE  IsSequence([w EXCEPT ![i] = e])
<1> DEFINE S == {w[k] : k \in DOMAIN w} \cup {e}
           v == [w EXCEPT ![i] = e]
<1>1. w \in Seq({w[k] : k \in DOMAIN w})  BY DEF IsSequence
<1>2. w \in Seq(S) /\ Len(w) \in Nat /\ w \in [1..Len(w) -> S]
  BY <1>1, LenProperties, \A x \in {w[k] : k \in DOMAIN w} : x \in S, SeqDef
<1>3. v \in [1..Len(w) -> S]
  BY <1>2
<1> DEFINE T == {v[k] : k \in DOMAIN v}
<1>4. DOMAIN v = 1..Len(w) /\ v \in [1..Len(w) -> T]
  BY <1>3
<1>5. v \in Seq(T)
  <2> HIDE DEF T, v
  <2> QED  BY <1>2, <1>4, SeqDef
<1> QED  BY <1>5 DEF IsSequence

LEMMA IntoFromGrows ==
    ASSUME NEW s, NEW base, NEW P, NEW p, IsStatement(s), IsStatement(base),
           Grown(s, base, P), GoesToFrom(s, p)
    PROVE  /\ IsStatement(IntoFrom(s, p))
           /\ Grown(IntoFrom(s, p), base, P \cup {p})
           /\ Filters(IntoFrom(s, p), p)
           /\ \A r : Filters(s, r) => Filters(IntoFrom(s, p), r)
           /\ DOMAIN IntoFrom(s, p).joins = DOMAIN s.joins
<1> DEFINE new == IntoFrom(s, p)
           from == PushIntoSource(s.from, p)
<1>1. /\ IsRecord(s, {"from", "joins", "ctes", "where"})
      /\ IsRecord(base, {"from", "joins", "ctes", "where"})
      /\ IsSource(s.from) /\ IsSource(base.from)
      /\ IsPushable(p) /\ TakesPredicate(s.from, p)
      /\ SourceGrown(s.from, base.from, P)
  BY DEF IsStatement, GoesToFrom, Grown
<1>2. /\ IsSource(from) /\ InSource(from, p)
      /\ \A r : InSource(s.from, r) => InSource(from, r)
  BY <1>1, PushedSource
<1>3. SourceGrown(from, base.from, P \cup {p})
  BY <1>1, SourceGrows
<1> HIDE DEF from
<1>4. /\ new.from = from /\ new.joins = s.joins /\ new.where = s.where
      /\ IsRecord(new, {"from", "joins", "ctes", "where"})
  BY <1>1 DEF IntoFrom, IsRecord, from
<1>5. new = Rebuilt(base, from, s.joins, s.where)
  <2>1. new = WithFrom(s, from)  BY DEF IntoFrom, WithFrom, from
  <2>2. s = Rebuilt(base, s.from, s.joins, s.where)  BY DEF Grown
  <2> QED  BY <1>1, <2>1, <2>2, OneClause
<1> HIDE DEF new
<1>6. IsStatement(new)
  BY <1>2, <1>4 DEF IsStatement
<1>7. Grown(new, base, P \cup {p})
  <2>1. \A i \in DOMAIN base.joins : JoinGrown(s.joins[i], base.joins[i], P \cup {p})
    <3>1. \A i \in DOMAIN base.joins : JoinGrown(s.joins[i], base.joins[i], P)
      BY DEF Grown
    <3> QED  BY <3>1, JoinGrownMore
  <2>2. DOMAIN s.joins = DOMAIN base.joins  BY DEF Grown
  <2> QED  BY <1>3, <1>4, <1>5, <2>1, <2>2 DEF Grown
<1>8. Filters(new, p) /\ \A r : Filters(s, r) => Filters(new, r)
  BY <1>2, <1>4 DEF Filters
<1> QED  BY <1>4, <1>6, <1>7, <1>8 DEF new

LEMMA IntoJoinGrows ==
    ASSUME NEW s, NEW base, NEW P, NEW p, NEW i \in DOMAIN s.joins,
           IsStatement(s), IsStatement(base), Grown(s, base, P), FirstJoin(s, p, i)
    PROVE  /\ IsStatement(IntoJoin(s, p, i))
           /\ Grown(IntoJoin(s, p, i), base, P \cup {p})
           /\ Filters(IntoJoin(s, p, i), p)
           /\ \A r : Filters(s, r) => Filters(IntoJoin(s, p, i), r)
           /\ DOMAIN IntoJoin(s, p, i).joins = DOMAIN s.joins
<1> DEFINE new == IntoJoin(s, p, i)
           join == PushIntoJoin(s.joins[i], p)
           joins == [s.joins EXCEPT ![i] = join]
<1>1. /\ IsRecord(s, {"from", "joins", "ctes", "where"})
      /\ IsRecord(base, {"from", "joins", "ctes", "where"})
      /\ IsSequence(s.joins) /\ IsJoin(s.joins[i]) /\ IsJoin(base.joins[i])
      /\ IsPushable(p) /\ JoinTakesPredicate(s.joins[i], p)
      /\ DOMAIN s.joins = DOMAIN base.joins
      /\ \A k \in DOMAIN base.joins : JoinGrown(s.joins[k], base.joins[k], P)
  BY DEF IsStatement, FirstJoin, Grown
<1>2. /\ IsJoin(join) /\ join.type = s.joins[i].type /\ InJoin(join, p)
      /\ \A r : InJoin(s.joins[i], r) => InJoin(join, r)
  BY <1>1, PushedJoin
<1>3. JoinGrown(join, base.joins[i], P \cup {p})
  BY <1>1, JoinGrows
<1> HIDE DEF join
<1>4. IsSequence(joins)
  BY <1>1, ReplaceOne
<1>5. /\ DOMAIN joins = DOMAIN s.joins
      /\ \A k \in DOMAIN s.joins : joins[k] = IF k = i THEN join ELSE s.joins[k]
  BY <1>1
<1> HIDE DEF joins
<1>6. /\ new.from = s.from /\ new.joins = joins /\ new.where = s.where
      /\ IsRecord(new, {"from", "joins", "ctes", "where"})
  BY <1>1 DEF IntoJoin, IsRecord, joins, join
<1>7. new = Rebuilt(base, s.from, joins, s.where)
  <2>1. new = WithJoins(s, joins)  BY DEF IntoJoin, WithJoins, joins, join
  <2>2. s = Rebuilt(base, s.from, s.joins, s.where)  BY DEF Grown
  <2> QED  BY <1>1, <2>1, <2>2, OneClause
<1> HIDE DEF new
<1>8. IsStatement(new)
  <2>1. \A k \in DOMAIN joins : IsJoin(joins[k])
    BY <1>2, <1>5 DEF IsStatement
  <2> QED  BY <1>4, <1>6, <2>1 DEF IsStatement
<1>9. Grown(new, base, P \cup {p})
  <2>1. \A k \in DOMAIN base.joins : JoinGrown(s.joins[k], base.joins[k], P \cup {p})
    BY <1>1, JoinGrownMore
  <2>2. \A k \in DOMAIN base.joins : JoinGrown(joins[k], base.joins[k], P \cup {p})
    BY <1>1, <1>3, <1>5, <2>1
  <2>3. SourceGrown(s.from, base.from, P \cup {p})
    BY SourceGrownMore DEF Grown
  <2> QED  BY <1>1, <1>5, <1>6, <1>7, <2>2, <2>3 DEF Grown
<1>10. Filters(new, p)
  <2>1. joins[i].type \in {"inner", "cross"} /\ InJoin(joins[i], p)
    BY <1>1, <1>2, <1>5 DEF JoinTakesPredicate
  <2> QED  BY <1>5, <1>6, <2>1 DEF Filters
<1>11. ASSUME NEW r, Filters(s, r)  PROVE Filters(new, r)
  <2>1. CASE InSource(s.from, r)  BY <1>6, <2>1 DEF Filters
  <2>2. ASSUME NEW k \in DOMAIN s.joins, s.joins[k].type \in {"inner", "cross"},
               InJoin(s.joins[k], r)
        PROVE  Filters(new, r)
    <3>1. k \in DOMAIN joins /\ joins[k].type \in {"inner", "cross"} /\ InJoin(joins[k], r)
      BY <1>2, <1>5, <2>2
    <3> QED  BY <1>6, <3>1 DEF Filters
  <2> QED  BY <1>11, <2>1, <2>2 DEF Filters
<1> QED  BY <1>5, <1>6, <1>8, <1>9, <1>10, <1>11 DEF new

-----------------------------------------------------------------------------
(***************************************************************************)
(* The inductive invariant                                                 *)
(***************************************************************************)
IInv ==
    /\ input \in Inputs
    /\ TypeOK
    /\ IsStatement(sel) /\ IsSequence(remaining)
    /\ pc = "recurse" => sel = input /\ n = 0 /\ remaining = <<>>
    /\ pc = "take" => sel = Base /\ n = 0 /\ remaining = <<>>
    /\ pc = "place" => DOMAIN sel.joins = DOMAIN Base.joins
    /\ ConjunctsKept
    /\ OnlyConjunctsMove

LEMMA EmptySequence == IsSequence(<<>>) /\ Len(<<>>) = 0
<1>1. <<>> \in Seq({<<>>[k] : k \in DOMAIN <<>>})  OBVIOUS
<1> QED  BY <1>1 DEF IsSequence

\* The recursion leaves the WHERE clause and the number of joins alone.
LEMMA BaseFacts ==
    ASSUME input \in Inputs
    PROVE  /\ IsStatement(input) /\ IsStatement(Base)
           /\ Base.where = Predicates /\ DOMAIN Base.joins = DOMAIN input.joins
           /\ IsSequence(Predicates) /\ Len(Predicates) \in Nat
<1>1. IsStatement(input) /\ IsStatement(Base)
  BY InputAssumption DEF Base
<1>2. IsRecord(input, {"from", "joins", "ctes", "where"}) /\ IsSequence(Predicates)
  BY <1>1 DEF IsStatement, Predicates
<1>3. Base.where = Predicates /\ DOMAIN Base.joins = DOMAIN input.joins
  BY <1>2 DEF Base, Recursed, Predicates, IsRecord
<1> QED  BY <1>1, <1>2, <1>3, AppendOne

\* What a statement may become by replacing its WHERE clause.
LEMMA WhereOnly ==
    ASSUME NEW s, NEW base, NEW P, NEW w, IsStatement(s), IsStatement(base),
           Grown(s, base, P), IsSequence(w)
    PROVE  /\ IsStatement(WithCondition(s, w)) /\ Grown(WithCondition(s, w), base, P)
           /\ WithCondition(s, w).where = w
           /\ WithCondition(s, w).from = s.from /\ WithCondition(s, w).joins = s.joins
<1> DEFINE new == WithCondition(s, w)
<1>1. /\ IsRecord(s, {"from", "joins", "ctes", "where"})
      /\ IsRecord(base, {"from", "joins", "ctes", "where"})
  BY DEF IsStatement
<1>2. /\ new.where = w /\ new.from = s.from /\ new.joins = s.joins
      /\ IsRecord(new, {"from", "joins", "ctes", "where"})
  BY <1>1 DEF IsRecord, WithCondition
<1>3. new = Rebuilt(base, s.from, s.joins, w)
  <2>1. s = Rebuilt(base, s.from, s.joins, s.where)  BY DEF Grown
  <2> QED  BY <1>1, <2>1, OneClause
<1> HIDE DEF new
<1>4. IsStatement(new)  BY <1>2 DEF IsStatement
<1>5. Grown(new, base, P)  BY <1>2, <1>3 DEF Grown
<1> QED  BY <1>2, <1>4, <1>5 DEF new

LEMMA GrownSelf ==
    ASSUME NEW base, IsStatement(base), NEW P
    PROVE  Grown(base, base, P)
<1>1. base = Rebuilt(base, base.from, base.joins, base.where)
  BY DEF IsStatement, IsRecord, Rebuilt
<1> QED  BY <1>1 DEF Grown, SourceGrown, JoinGrown

LEMMA InvInit == Init => IInv
<1> SUFFICES ASSUME Init PROVE IInv  OBVIOUS
<1>1. input \in Inputs /\ sel = input /\ pc = "recurse" /\ n = 0 /\ remaining = <<>>
  BY DEF Init
<1>2. IsStatement(input) /\ Len(Predicates) \in Nat
  BY <1>1, BaseFacts
<1>3. TypeOK  BY <1>1, <1>2, EmptySequence DEF TypeOK
<1>4. ConjunctsKept  BY <1>1 DEF ConjunctsKept, Placed
<1>5. OnlyConjunctsMove  BY <1>1 DEF OnlyConjunctsMove
<1> QED  BY <1>1, <1>2, <1>3, <1>4, <1>5, EmptySequence DEF IInv

\* The two properties in the words of the lemmas.
LEMMA InWords ==
    /\ OnlyConjunctsMove <=> (pc # "recurse" => Grown(sel, Base, Placed))
    /\ ConjunctsKept <=>
          /\ \A p \in Placed : (\E k \in DOMAIN remaining : remaining[k] = p) \/ Filters(sel, p)
          /\ pc = "done" => n = Len(Predicates) /\ sel.where = remaining
<1>1. OnlyConjunctsMove <=> (pc # "recurse" => Grown(sel, Base, Placed))
  BY DEF OnlyConjunctsMove, Grown, Rebuilt
<1>2. ConjunctsKept <=>
         /\ \A p \in Placed : (\E k \in DOMAIN remaining : remaining[k] = p) \/ Filters(sel, p)
         /\ pc = "done" => n = Len(Predicates) /\ sel.where = remaining
  BY DEF ConjunctsKept, Filters
<1> QED  BY <1>1, <1>2

\* Handling one more conjunct.
LEMMA PlacedGrows ==
    ASSUME input' = input, n \in 0..Len(Predicates), n' = n + 1, n < Len(Predicates),
           Len(Predicates) \in Nat
    PROVE  /\ Placed' = Placed \cup {Predicate} /\ Base' = Base /\ Predicates' = Predicates
           /\ n' \in 0..Len(Predicates)
<1>1. Predicates' = Predicates /\ Base' = Base
  BY DEF Predicates, Base
<1>2. 1..n' = (1..n) \cup {n + 1}  OBVIOUS
<1>3. Placed' = {Predicates[m] : m \in 1..n'}
  BY <1>1 DEF Placed
<1> QED  BY <1>1, <1>2, <1>3 DEF Placed, Predicate

\* A step that puts the conjunct into a source of the statement.
LEMMA PushKeeps ==
    ASSUME IInv, Placing, input' = input, pc' = pc, remaining' = remaining, n' = n + 1,
           IsStatement(sel'), Grown(sel', Base, Placed \cup {Predicate}),
           Filters(sel', Predicate), \A r : Filters(sel, r) => Filters(sel', r),
           DOMAIN sel'.joins = DOMAIN sel.joins
    PROVE  IInv'
<1>1. /\ input \in Inputs /\ TypeOK /\ IsSequence(remaining) /\ ConjunctsKept
      /\ pc = "place" /\ n < Len(Predicates) /\ DOMAIN sel.joins = DOMAIN Base.joins
  BY DEF IInv, Placing
<1>2. Len(Predicates) \in Nat /\ DOMAIN Base.joins = DOMAIN input.joins
  BY <1>1, BaseFacts
<1>3. /\ Placed' = Placed \cup {Predicate} /\ Base' = Base /\ Predicates' = Predicates
      /\ n' \in 0..Len(Predicates)
  BY <1>1, <1>2, PlacedGrows DEF TypeOK
<1>4. TypeOK'
  <2>1. Len(remaining) \in 0..n' /\ DOMAIN sel'.joins = DOMAIN input'.joins
    BY <1>1, <1>2 DEF TypeOK
  <2> QED  BY <1>1, <1>3, <2>1 DEF TypeOK
<1>5. ConjunctsKept'
  <2>1. \A p \in Placed : (\E k \in DOMAIN remaining : remaining[k] = p) \/ Filters(sel, p)
    BY <1>1, InWords
  <2>2. \A p \in Placed' : (\E k \in DOMAIN remaining : remaining[k] = p) \/ Filters(sel', p)
    BY <1>3, <2>1
  <2>3. \A p \in Placed' : \/ \E k \in DOMAIN remaining' : remaining'[k] = p
                           \/ InSource(sel'.from, p)
                           \/ \E i \in DOMAIN sel'.joins :
                                 sel'.joins[i].type \in {"inner", "cross"} /\ InJoin(sel'.joins[i], p)
    BY <2>2 DEF Filters
  <2> QED  BY <1>1, <2>3 DEF ConjunctsKept
<1>6. OnlyConjunctsMove'
  <2>1. Grown(sel', Base', Placed')  BY <1>3
  <2> QED  BY <2>1 DEF OnlyConjunctsMove, Grown, Rebuilt
<1> QED  BY <1>1, <1>3, <1>4, <1>5, <1>6 DEF IInv

LEMMA InvStep == IInv /\ [Next]_vars => IInv'
<1> SUFFICES ASSUME IInv, [Next]_vars PROVE IInv'  OBVIOUS
<1>0. /\ input \in Inputs /\ TypeOK /\ IsStatement(sel) /\ IsSequence(remaining)
      /\ ConjunctsKept /\ OnlyConjunctsMove
      /\ pc = "recurse" => sel = input /\ n = 0 /\ remaining = <<>>
      /\ pc = "take" => sel = Base /\ n = 0 /\ remaining = <<>>
      /\ pc = "place" => DOMAIN sel.joins = DOMAIN Base.joins
  BY DEF IInv
<1>a. /\ IsStatement(Base) /\ Base.where = Predicates /\ Len(Predicates) \in Nat
      /\ DOMAIN Base.joins = DOMAIN input.joins
  BY <1>0, BaseFacts
<1>1. CASE RecurseIntoParts
  <2>1. /\ sel' = Base /\ pc' = "take" /\ input' = input /\ n' = 0 /\ remaining' = <<>>
        /\ n = 0
    BY <1>0, <1>1 DEF RecurseIntoParts, Base
  <2>2. Base' = Base /\ Predicates' = Predicates /\ Placed' = {}
    BY <2>1 DEF Base, Predicates, Placed
  <2>3. TypeOK'
    BY <1>a, <2>1, <2>2, EmptySequence DEF TypeOK
  <2>4. ConjunctsKept'  BY <2>1, <2>2 DEF ConjunctsKept
  <2>5. OnlyConjunctsMove'
    <3>1. Grown(Base, Base, Placed')  BY <1>a, GrownSelf
    <3> QED  BY <2>1, <2>2, <3>1 DEF OnlyConjunctsMove, Grown, Rebuilt
  <2> QED  BY <1>0, <1>a, <2>1, <2>2, <2>3, <2>4, <2>5, EmptySequence DEF IInv
<1>2. CASE NoWhere
  <2>1. /\ pc = "take" /\ sel.where = <<>> /\ pc' = "done"
        /\ input' = input /\ sel' = sel /\ n' = n /\ remaining' = remaining
        /\ sel = Base /\ n = 0 /\ remaining = <<>>
    BY <1>0, <1>2 DEF NoWhere
  <2>2. Base' = Base /\ Predicates' = Predicates /\ Placed' = Placed /\ Len(Predicates) = 0
    BY <1>a, <2>1, EmptySequence DEF Base, Predicates, Placed
  <2>3. TypeOK'  BY <1>0, <2>1, <2>2 DEF TypeOK
  <2>4. ConjunctsKept'
    <3>1. Placed' = {}  BY <2>1, <2>2 DEF Placed
    <3> QED  BY <2>1, <2>2, <3>1 DEF ConjunctsKept
  <2>5. OnlyConjunctsMove'
    BY <1>0, <2>1, <2>2 DEF OnlyConjunctsMove
  <2> QED  BY <1>0, <2>1, <2>2, <2>3, <2>4, <2>5 DEF IInv
<1>3. CASE TakeWhere
  <2>1. /\ pc = "take" /\ pc' = "place" /\ sel' = WithCondition(sel, <<>>)
        /\ input' = input /\ n' = n /\ remaining' = remaining
        /\ sel = Base /\ n = 0 /\ remaining = <<>>
    BY <1>0, <1>3 DEF TakeWhere, WithCondition
  <2>2. Base' = Base /\ Predicates' = Predicates /\ Placed' = {}
    BY <2>1 DEF Base, Predicates, Placed
  <2>3. /\ IsStatement(sel') /\ Grown(sel', Base', Placed')
        /\ sel'.joins = Base.joins
    <3>1. Grown(Base, Base, {})  BY <1>a, GrownSelf
    <3> QED  BY <1>a, <2>1, <2>2, <3>1, EmptySequence, WhereOnly
  <2>4. TypeOK'  BY <1>0, <1>a, <2>1, <2>2, <2>3 DEF TypeOK
  <2>5. ConjunctsKept'  BY <2>1, <2>2 DEF ConjunctsKept
  <2>6. OnlyConjunctsMove'
    BY <2>1, <2>3 DEF OnlyConjunctsMove, Grown, Rebuilt
  <2> QED  BY <1>0, <2>1, <2>2, <2>3, <2>4, <2>5, <2>6 DEF IInv
<1>4. CASE PushToFrom
  <2>1. /\ Placing /\ GoesToFrom(sel, Predicate) /\ sel' = IntoFrom(sel, Predicate)
        /\ n' = n + 1 /\ input' = input /\ pc' = pc /\ remaining' = remaining
    BY <1>4 DEF PushToFrom
  <2>2. Grown(sel, Base, Placed)
    BY <1>0, <2>1, InWords DEF Placing
  <2>3. /\ IsStatement(sel') /\ Grown(sel', Base, Placed \cup {Predicate})
        /\ Filters(sel', Predicate) /\ \A r : Filters(sel, r) => Filters(sel', r)
        /\ DOMAIN sel'.joins = DOMAIN sel.joins
    BY <1>0, <1>a, <2>1, <2>2, IntoFromGrows
  <2> QED  BY <2>1, <2>3, PushKeeps
<1>5. CASE PushToJoin
  <2>1. /\ Placing /\ n' = n + 1 /\ input' = input /\ pc' = pc /\ remaining' = remaining
    BY <1>5 DEF PushToJoin
  <2>2. PICK i \in DOMAIN sel.joins :
           FirstJoin(sel, Predicate, i) /\ sel' = IntoJoin(sel, Predicate, i)
    BY <1>5 DEF PushToJoin
  <2>3. Grown(sel, Base, Placed)
    BY <1>0, <2>1, InWords DEF Placing
  <2>4. /\ IsStatement(sel') /\ Grown(sel', Base, Placed \cup {Predicate})
        /\ Filters(sel', Predicate) /\ \A r : Filters(sel, r) => Filters(sel', r)
        /\ DOMAIN sel'.joins = DOMAIN sel.joins
    <3> DEFINE t == IntoJoin(sel, Predicate, i)
    <3>1. IsStatement(sel) /\ IsStatement(Base) /\ FirstJoin(sel, Predicate, i)
      BY <1>0, <1>a, <2>2
    <3>2. /\ IsStatement(t) /\ Grown(t, Base, Placed \cup {Predicate}) /\ Filters(t, Predicate)
          /\ \A r : Filters(sel, r) => Filters(t, r)
          /\ DOMAIN t.joins = DOMAIN sel.joins
      BY ONLY <2>2, <2>3, <3>1, IntoJoinGrows
    <3> QED  BY <2>2, <3>2
  <2> QED  BY <2>1, <2>4, PushKeeps
<1>6. CASE KeepHere
  <2>1. /\ Placing /\ remaining' = Append(remaining, Predicate) /\ n' = n + 1
        /\ input' = input /\ sel' = sel /\ pc' = pc /\ pc = "place" /\ n < Len(Predicates)
    BY <1>6 DEF KeepHere, PushBack, Placing
  <2>2. /\ Placed' = Placed \cup {Predicate} /\ Base' = Base /\ Predicates' = Predicates
        /\ n' \in 0..Len(Predicates)
    BY <1>0, <1>a, <2>1, PlacedGrows DEF TypeOK
  <2>3. /\ IsSequence(remaining') /\ Len(remaining) \in Nat /\ Len(remaining') = Len(remaining) + 1
        /\ DOMAIN remaining = 1..Len(remaining) /\ DOMAIN remaining' = 1..(Len(remaining) + 1)
        /\ \A k \in 1..Len(remaining) : remaining'[k] = remaining[k]
        /\ remaining'[Len(remaining) + 1] = Predicate
    BY <1>0, <2>1, AppendOne
  <2>4. TypeOK'  BY <1>0, <2>1, <2>2, <2>3 DEF TypeOK
  <2>5. ConjunctsKept'
    <3>1. \A p \in Placed : (\E k \in DOMAIN remaining : remaining[k] = p) \/ Filters(sel, p)
      BY <1>0, InWords
    <3>2. \A p : (\E k \in DOMAIN remaining : remaining[k] = p)
                    => \E k \in DOMAIN remaining' : remaining'[k] = p
      BY <2>3
    <3>3. \E k \in DOMAIN remaining' : remaining'[k] = Predicate
      BY <2>3
    <3>4. \A p \in Placed' : (\E k \in DOMAIN remaining' : remaining'[k] = p) \/ Filters(sel, p)
      BY <2>2, <3>1, <3>2, <3>3
    <3> QED  BY <2>1, <3>4 DEF ConjunctsKept, Filters
  <2>6. OnlyConjunctsMove'
    <3>1. Grown(sel, Base, Placed)  BY <1>0, <2>1, InWords
    <3>2. Grown(sel, Base, Placed')
      <4>1. Placed \subseteq Placed'  BY <2>2
      <4> QED  BY <3>1, <4>1, SourceGrownMore, JoinGrownMore DEF Grown
    <3> QED  BY <2>1, <2>2, <3>2 DEF OnlyConjunctsMove, Grown, Rebuilt
  <2> QED  BY <1>0, <2>1, <2>2, <2>3, <2>4, <2>5, <2>6 DEF IInv
<1>7. CASE Conjoin
  <2>1. /\ pc = "place" /\ n = Len(Predicates) /\ sel' = WithCondition(sel, remaining)
        /\ pc' = "done" /\ input' = input /\ n' = n /\ remaining' = remaining
    BY <1>7 DEF Conjoin, WithCondition
  <2>2. Base' = Base /\ Predicates' = Predicates /\ Placed' = Placed
    BY <2>1 DEF Base, Predicates, Placed
  <2>3. Grown(sel, Base, Placed)  BY <1>0, <2>1, InWords
  <2>4. /\ IsStatement(sel') /\ Grown(sel', Base, Placed) /\ sel'.where = remaining
        /\ sel'.from = sel.from /\ sel'.joins = sel.joins
    BY <1>0, <1>a, <2>1, <2>3, WhereOnly
  <2>5. TypeOK'  BY <1>0, <2>1, <2>2, <2>4 DEF TypeOK
  <2>6. ConjunctsKept'
    BY <1>0, <2>1, <2>2, <2>4 DEF ConjunctsKept
  <2>7. OnlyConjunctsMove'
    BY <2>1, <2>2, <2>4 DEF OnlyConjunctsMove, Grown, Rebuilt
  <2> QED  BY <1>0, <2>1, <2>2, <2>4, <2>5, <2>6, <2>7 DEF IInv
<1>8. CASE UNCHANGED vars
  <2>1. input' = input /\ sel' = sel /\ pc' = pc /\ n' = n /\ remaining' = remaining
    BY <1>8 DEF vars
  <2>2. Base' = Base /\ Predicates' = Predicates /\ Placed' = Placed
    BY <2>1 DEF Base, Predicates, Placed
  <2>3. TypeOK'  BY <1>0, <2>1, <2>2 DEF TypeOK
  <2>4. ConjunctsKept'  BY <1>0, <2>1, <2>2 DEF ConjunctsKept
  <2>5. OnlyConjunctsMove'  BY <1>0, <2>1, <2>2 DEF OnlyConjunctsMove
  <2> QED  BY <1>0, <2>1, <2>2, <2>3, <2>4, <2>5 DEF IInv
<1> QED
  BY <1>1, <1>2, <1>3, <1>4, <1>5, <1>6, <1>7, <1>8 DEF Next, Finished

-----------------------------------------------------------------------------
(***************************************************************************)
(* Theorems                                                                *)
(***************************************************************************)
LEMMA Invariance == Spec => []IInv
BY InvInit, InvStep, PTL DEF Spec

\* The loop handles each conjunct of the WHERE clause once, and the joins stay
\* as many as they were.
THEOREM TypeCorrect == Spec => []TypeOK
<1>1. IInv => TypeOK  BY DEF IInv
<1> QED  BY <1>1, Invariance, PTL

\* pushdown_select loses no conjunct, for every statement: a conjunct taken off
\* the WHERE clause comes back, or filters the derived table or the inner join
\* whose columns it names.
THEOREM NoConjunctLost == Spec => []ConjunctsKept
<1>1. IInv => ConjunctsKept  BY DEF IInv
<1> QED  BY <1>1, Invariance, PTL

\* pushdown_select changes nothing else, for every statement: outer joins and
\* derived tables that LIMIT, DISTINCT or a window function shield stay as the
\* recursion left them, and every conjunct that is added is one that may move.
THEOREM NothingElseChanges == Spec => []OnlyConjunctsMove
<1>1. IInv => OnlyConjunctsMove  BY DEF IInv
<1> QED  BY <1>1, Invariance, PTL
=============================================================================
