------------------------------- MODULE Executor -------------------------------
(***************************************************************************)
(* The run of one query by the in-memory executor, one step for each stage *)
(* of execute_select and execute_set_operation.  The joins of the query    *)
(* itself take the steps of JoinLoops, its groups and distinct rows those  *)
(* of GroupLoops.                                                          *)
(***************************************************************************)
EXTENDS Execution, JoinLoops, GroupLoops

\* The queries and what each of them meets: the sets of tables it may run on,
\* what the random seed of a hash table may do (see SameKey), and whether the
\* program may be built to check integers for overflow.
CONSTANT Cases
ASSUME CasesAssumption ==
    \A n \in DOMAIN Cases : {} \notin {Cases[n].seeds, Cases[n].builds}

VARIABLES
    db,     \* the tables
    query,  \* the query
    seeds,  \* what the seed of a hash table may do
    checks, \* does this build check integers for overflow?
    tags,   \* do unequal hashes of equal values look alike to the next stage?
    c,      \* the ExecutionContext and the select under way
    right_rows  \* of the join under way
given == <<db, query, seeds, checks>>
vars == <<given, tags, c, right_rows, joinVars, groupVars>>

-----------------------------------------------------------------------------
Here == EnvOf(db, tags, checks, c)
NoCtes == [name \in {} |-> <<>>]

Init ==
    /\ \E n \in DOMAIN Cases :
          /\ query = Cases[n].query /\ db \in Cases[n].tables
          /\ seeds = Cases[n].seeds /\ checks \in Cases[n].builds
    /\ tags \in seeds
    /\ c = Context(NoCtes)
    /\ JoinInit /\ right_rows = <<>>
    /\ KeysInit

\* The context moves on; every stage makes hash tables of its own.
Goes(x) == c' = x /\ tags' \in seeds /\ UNCHANGED given
Becomes(x) == Goes(x) /\ UNCHANGED <<right_rows, joinVars, groupVars>>
At(pc) == c.pc = pc /\ query.kind = "select"
AtEnd(pc) == c.pc = pc

RegisterCte == At("start") /\ c.n < Len(query.ctes) /\ Becomes(CteStage(query, c, Here))
ResolveFrom == At("start") /\ c.n = Len(query.ctes) /\ Becomes(FromStage(query, c, Here))

\* execute_join: its right side, its loops, its result.
JoinHere == query.joins[c.n + 1]
RefuseJoin(right) ==
    /\ right.st # "ok" \/ ~Supported(JoinHere)
    /\ LET end == IF right.st # "ok" THEN right ELSE Ended(Failed)
       IN  Becomes([WithRows(c, end, "join") EXCEPT !.n = @ + 1])
CallLoops(right) ==
    /\ right.st = "ok" /\ Supported(JoinHere)
    /\ BeginLoops(LoopJob(c.rows, right.rows, AsLoop(JoinHere, c.rows, right.rows), Here))
    /\ right_rows' = right.rows
    /\ UNCHANGED <<given, tags, c, groupVars>>
BeginJoin ==
    /\ At("join") /\ phase = "idle" /\ c.n < Len(query.joins)
    /\ \E right \in {Resolve(JoinHere.src, Here)} : RefuseJoin(right) \/ CallLoops(right)
StepJoin == LoopStep /\ UNCHANGED <<given, tags, c, right_rows, groupVars>>
EndJoin ==
    /\ Return
    /\ LET end == [st |-> IF phase = "done" THEN "ok" ELSE phase,
                   rows |-> RowsAt(result, c.rows, right_rows)]
       IN  Goes([WithRows(c, end, "join") EXCEPT !.n = @ + 1])
    /\ right_rows' = <<>> /\ UNCHANGED groupVars

FilterRows == At("join") /\ c.n = Len(query.joins) /\ Becomes(WhereStage(query, c, Here))

\* group_rows and DISTINCT: the keys of the rows, the loops over them, their result.
CallKeys(k) == BeginKeys(k) /\ UNCHANGED <<given, tags, c, right_rows, joinVars>>
StepKeys == KeyStep /\ UNCHANGED <<given, tags, c, right_rows, joinVars>>
EndKeys(called) == IF called THEN ReturnKeys ELSE UNCHANGED groupVars

CallGroups ==
    /\ At("project") /\ query.group # <<>>
    /\ CallKeys(GroupJob(c.rows, query.group, Here))
GroupsHere ==
    IF query.group = <<>> THEN Ok(<<c.rows>>)
    ELSE IF pass = "done" THEN Ok(RowsIn(parts, c.rows)) ELSE [st |-> pass, rows |-> <<>>]
EvaluateItems ==
    /\ At("project")
    /\ EndKeys(query.group # <<>>)
    /\ Goes(WithResult(c, ProjectBy(query, c.rows, GroupsHere, Here)))
    /\ UNCHANGED <<right_rows, joinVars>>

CallDistinct == At("distinct") /\ query.distinct /\ CallKeys(DistinctJob(c.out, tags))
RemoveDuplicates ==
    /\ At("distinct")
    /\ EndKeys(query.distinct)
    /\ LET kept == IF query.distinct THEN [k \in DOMAIN order |-> c.out[order[k]]] ELSE c.out
       IN  Goes(WithOut(c, Ok(kept), "order"))
    /\ UNCHANGED <<right_rows, joinVars>>

SortResult == AtEnd("order") /\ Becomes(OrderStage(query, c, Here))
ApplyLimitOffset == AtEnd("limit") /\ Becomes(LimitStage(query, c, Here))
ExecuteSetOperation ==
    /\ c.pc = "start" /\ query.kind = "setop"
    /\ \E ofSeen \in seeds : Becomes(CombineStage(query, c, Here, ofSeen))
Unexecutable == c.pc = "start" /\ query.kind = "other" /\ Becomes([c EXCEPT !.pc = "failed"])
Finished == c.pc \in Final /\ UNCHANGED vars

Next ==
    \/ RegisterCte \/ ResolveFrom \/ BeginJoin \/ StepJoin \/ EndJoin \/ FilterRows
    \/ StepKeys \/ CallGroups \/ EvaluateItems \/ CallDistinct \/ RemoveDuplicates \/ SortResult \/ ApplyLimitOffset
    \/ ExecuteSetOperation \/ Unexecutable \/ Finished

Spec == Init /\ [][Next]_vars

-----------------------------------------------------------------------------
(***************************************************************************)
(* Properties                                                              *)
(***************************************************************************)
S == INSTANCE SqlSemantics

Scope == [db |-> db, ctes |-> NoCtes, outer |-> <<>>]
Answer == S!Meaning(query, Scope)

\* An outer join knows the columns to fill with NULLs: the side they come
\* from has a row.
SidesIn(scope) ==
    \A n \in DOMAIN query.joins :
        LET type == query.joins[n].type
        IN  /\ type \in {"left", "full"} => S!Source(query.joins[n].src, scope) # <<>>
            /\ type \in {"right", "full"} => S!Joined(query, n - 1, scope) # <<>>
SidesKnown ==
    query.kind = "select" =>
        SidesIn(S!ScopeAfter(query.ctes, Len(query.ctes), Scope))

Aligned(cols, rows) == \A i \in DOMAIN rows : Len(rows[i]) = Len(cols)

\* Rows, CTEs and results keep one value for each column through every stage
\* (mod.rs: "Each inner Vec has one entry per column"), set operations of
\* sides of different widths excepted.
TypeOK ==
    /\ tags \in seeds /\ checks \in BOOLEAN
    /\ c.pc \in Final \cup {"start", "join", "project", "distinct", "order", "limit"}
    /\ \A i \in DOMAIN c.rows : /\ c.rows[i].cols = c.rows[1].cols
                                /\ Len(c.rows[i].vals) = Len(c.rows[i].cols)
    /\ \A name \in DOMAIN c.ctes : Aligned(c.ctes[name].cols, c.ctes[name].rows)
    /\ query.kind = "select" => Aligned(c.cols, c.out)
    /\ LoopsTypeOK /\ KeysTypeOK

ArithmeticOps == {"+", "-", "*", "/", "%"}

\* The expressions a select is written with, those in its subqueries left out.
Parts(e) ==
    CASE e.op \in {"bin", "logic"} -> {e.l, e.r}
      [] e.op \in {"not", "neg", "nested", "isnull", "insub"} -> {e.e}
      [] e.op = "in" -> {e.e} \cup ToSet(e.list)
      [] e.op = "between" -> {e.e, e.lo, e.hi}
      [] e.op = "coalesce" -> ToSet(e.list)
      [] e.op = "agg" -> {e.arg}
      [] e.op = "case" -> UNION {ToSet(w) : w \in ToSet(e.whens)} \cup {e.else}
      [] OTHER -> {}
RECURSIVE Operations(_)
Operations(e) == {e} \cup UNION {Operations(x) : x \in Parts(e)}
Written(sel) ==
    UNION {Operations(e) : e \in {sel.where, sel.having} \cup ToSet(sel.group)
        \cup {sel.cols[k].e : k \in {k \in DOMAIN sel.cols : sel.cols[k].kind = "expr"}}
        \cup {sel.joins[n].on : n \in DOMAIN sel.joins}}

\* Does an operation leave i64 where its operands are l and r, integers of any
\* size?  A division does in the one case of i64::MIN by -1, which no build
\* lets pass, and only a build with checks notices the others; what operands that
\* have wrapped around stand for is modulo 2^64.
LeavesI64(f, l, r, checked) ==
    /\ ~IsNull(l) /\ ~IsNull(r)
    /\ IF f \in {"/", "%"} THEN Usize(l.v) = Half /\ Usize(r.v) = Usize(-1)
       ELSE checked /\ S!Compute3(f, l, r).v \notin I64

\* The exact value of an expression made of the columns of a table's row.
RECURSIVE ExactValue(_, _, _)
ExactValue(e, cols, r) ==
    LET Of(x) == ExactValue(x, cols, r)
    IN  CASE e.op = "col" -> r[CHOOSE j \in DOMAIN cols : cols[j] = <<e.name>>]
          [] e.op = "lit" -> e.val
          [] e.op = "nested" -> Of(e.e)
          [] e.op = "neg" -> S!Compute3("-", Integer(0), Of(e.e))
          [] e.op = "bin" /\ e.f \in ArithmeticOps -> S!Compute3(e.f, Of(e.l), Of(e.r))
          [] OTHER -> Null

\* Some operation of the query leaves i64 on some row of the table it is from.
Overflows(checked) ==
    /\ query.kind = "select" /\ query.from.kind = "table" /\ query.from.name \in DOMAIN db
    /\ LET table == db[query.from.name]
            leaves(f, x, y, r) ==
                LeavesI64(f, ExactValue(x, table.cols, r), ExactValue(y, table.cols, r), checked)
        IN  \E r \in ToSet(table.rows), e \in Written(query) :
                \/ e.op = "bin" /\ e.f \in ArithmeticOps /\ leaves(e.f, e.l, e.r, r)
                \/ e.op = "neg" /\ leaves("-", Lit(Integer(0)), e.e, r)

\* SUM adds up floats, and what is too large for i64 becomes the nearest i64:
\* of all the numbers there are, neither the sum of those above zero nor that of
\* those below is.
SumsFit ==
    \A name \in DOMAIN db :
        LET cells == FlattenSeq(db[name].rows)
            sum(sign) == FoldLeft(LAMBDA n, x : n + (IF x.v * sign > 0 THEN x.v ELSE 0), 0, cells)
        IN  \A sign \in {1, -1} : sum(sign) \in I64

\* The answer is computed without a number that does not fit.
Sums == query.kind = "select" /\ \E e \in Written(query) : e.op = "agg" /\ e.f = "sum"
Exact == (Sums => SumsFit) /\ (checks \/ ~Overflows(TRUE))

\* The stages together return the rows SQL asks for, each as often as it
\* asks: the nested loops, the short-circuit logic, grouping with its empty
\* and NULL keys, nested queries and CTEs against three-valued set semantics.
\* Equal values of different types, which hash differently, are NothingLost's.
\* An answer is that of arithmetic on integers of any size wherever the build
\* checks for overflow, sums apart, which saturate.
OneType == \A name \in DOMAIN db : \A i \in DOMAIN db[name].rows :
              \A v \in ToSet(db[name].rows[i]) : v.t \in {"null", "int"}
AnswersAsSQL ==
    c.pc = "done" /\ ~Given(query.limit) /\ ~Given(query.offset) =>
        (SidesKnown /\ OneType /\ Exact => S!BagOfSeq(c.out) = S!BagOf(Answer))

\* The rows of out are those of rel that may have the numbers skip + 1 to
\* skip + most in the order, each at most as often as it is there.
IsWindow(out, rel, skip, most) ==
    LET whole == S!BagOf(rel)
        total == Cardinality(DOMAIN rel.rows)
        left == IF skip < total THEN total - skip ELSE 0
        smaller(v) == {w \in DOMAIN whole : S!Precedes(rel.cols, w, v, query.order)}
        larger(v) == {w \in DOMAIN whole : S!Precedes(rel.cols, v, w, query.order)}
    IN  /\ Len(out) = IF most < left THEN most ELSE left
        /\ \A i \in DOMAIN out :
              /\ out[i] \in DOMAIN whole
              /\ Cardinality({j \in DOMAIN out : out[j] = out[i]}) <= whole[out[i]]
              /\ S!Occurrences(whole, smaller(out[i])) < skip + i
              /\ skip + i <= total - S!Occurrences(whole, larger(out[i]))

IsAskedWindow(out, rel) ==
    LET asked(e, default) == IF Given(e) THEN ToI64(e.val) ELSE default
        skip == asked(query.offset, 0)
        most == asked(query.limit, Cardinality(DOMAIN rel.rows))
    IN  skip >= 0 /\ most >= 0 => IsWindow(out, rel, skip, most)

\* With ORDER BY, LIMIT and OFFSET the result is exactly the asked window of
\* the whole answer: its i-th row may be number offset + i in the order, no
\* row is returned more often than it is there, and none is missing.
OrderedWindow == c.pc = "done" /\ query.order # <<>> => IsAskedWindow(c.out, Answer)

\* A query only panics for one of five reasons: a GROUP BY key that is not equal
\* to itself (remove(&key).unwrap()), a negative LIMIT (rows[start..end]), ORDER
\* BY on a column that the narrower side of a set operation lacks, an aggregate
\* without an argument (args[0]), and arithmetic that leaves i64, which only a
\* build with overflow checks notices but in i64::MIN / -1 and i64::MIN % -1.
PanicsKnown ==
    c.pc = "panicked" =>
        \/ /\ query.kind = "select" /\ query.group # <<>>
           /\ \E name \in DOMAIN db : \E i \in DOMAIN db[name].rows :
                 NaN \in ToSet(db[name].rows[i])
        \/ Given(query.limit) /\ ToI64(query.limit.val) < 0
        \/ /\ query.kind = "setop" /\ query.order # <<>>
           /\ Len(query.left.cols) # Len(query.right.cols)
        \/ query.kind = "select" /\ \E e \in Written(query) : e.op = "agg" /\ ~Given(e.arg)
        \/ Overflows(checks)

\* Duplicate removal and grouping lose nothing even where equal values have
\* unequal hashes (Int(1) and Float(1.0)): every row dropped by DISTINCT has
\* an equal row that stays, and COUNT(*) over the groups counts every row.
NothingLost ==
    [][/\ c.pc = "distinct" /\ c'.pc = "order" =>
              \A i \in DOMAIN c.out : \E j \in DOMAIN c'.out :
                  c.out[i] = c'.out[j] \/ SameRow(c.out[i], c'.out[j])
       /\ c.pc = "project" /\ c'.pc = "distinct" /\ query.group # <<>> /\ Last(query.cols) = Item(CountAll) =>
              Len(c.rows) = FoldLeft(LAMBDA n, out : n + Last(out).v, 0, c'.out)]_vars
=============================================================================
