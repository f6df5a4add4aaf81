# A TLA+ verification of sqlglot-rust

sqlglot-rust parses SQL, rewrites it and writes it back in another dialect. This
directory models its components in TLA+, checks the models with TLC on small
instances and proves what matters most about them with TLAPS. Paths below are
relative to the repository; its Rust code is under `src/`, so a source given as
`src/src/planner/mod.rs` in `PROJECT.json` is the planner of the crate.

## 1. The system

| Component | State | Operations | Depends on |
| --- | --- | --- | --- |
| Tokenizer (`tokens/tokenizer.rs`) | position, line, column, pending comments | one scan per token kind | - |
| Parser (`parser/sql_parser.rs`, `data_type_parser.rs`) | token position, pending comments, counter of unmodelled syntax | recursive descent with saved positions it goes back to | tokenizer, AST, precedence |
| Precedence (`precedence.rs`) | none | binding powers shared by parser and generator | - |
| AST (`ast/types.rs`) | a tree | traversal | - |
| Generator (`generator/sql_generator.rs`) | output buffer, indentation | one visit per node | AST, precedence, dialects |
| Dialects (`dialects/mod.rs`, `time.rs`) | none | rewriting of functions, types, limits, time formats | AST |
| Plugins (`dialects/plugin.rs`) | a global map behind a mutex | register, get, unregister, transform | dialects |
| Optimizer (`optimizer/*.rs`) | the statement under rewriting; per pass: alias counter, scope tree, column maps | fold, simplify, unnest, push down, qualify, scopes, lineage, annotate | AST, schema |
| Schema (`schema/mod.rs`) | catalog -> database -> table -> columns | add, replace, remove, look up | - |
| Planner (`planner/mod.rs`) | a vector of steps | plan one statement | AST |
| Executor (`executor/*.rs`) | tables and CTE results | execute one statement | AST, parser |
| Diff (`diff/mod.rs`) | a list of changes | compare two statements | AST |
| Builder (`builder/mod.rs`) | the statement built so far | one method per clause | AST, parser |
| C interface (`ffi.rs`, `ffi/semantics.rs`) | strings handed to C | parse, transpile, free | all of the above |
| Entry points and CLI (`lib.rs`, `bin/sqlglot.rs`) | none | compose the above | all of the above |

Almost everything is a sequential transformation of a tree. The exception is the
plugin registry, a process-wide map under a mutex that any thread may change
while another thread is in the middle of a transformation. What is hard here is
therefore mostly not scheduling but (a) state threaded by hand through long
recursive functions, (b) rewrites that must preserve the meaning of a query, and
(c) two components that must agree without calling each other: planner and
executor, optimizer and executor, parser and generator.


### What makes each component correct

- **Planner.** The plan of a statement is a tree: every step reads earlier steps
  only, no step is read twice, only the root is unread, the root is the step that
  yields the statement's rows, every clause of every nested query has its step, and
  a statement with a part the planner refuses yields no plan at all.
- **Plugins.** A registry operation takes effect at one moment between its call and
  its return; the map is never seen half-written; a plugin object lives exactly as
  long as the map or somebody uses it; no hook runs under the lock; a transform,
  which asks the registry again for every node, sees a stretch of its dialect's history.
- **Executor.** Its result is the bag of rows that SQL's semantics gives; with ORDER
  BY, LIMIT and OFFSET it is the asked window of it; it panics for no reason but those known.
- **Predicate pushdown.** The executor answers the rewritten query as it answers the
  original; no conjunct is lost; only what may move moves.
- **Folding, simplification, unnesting.** Likewise: the answer stays the same.
- **Schema, scopes, qualification, lineage, annotation.** A column is resolved to
  the source SQL's scoping gives it; the answer does not depend on the order in
  which a hash map is walked; an annotation is of the expression it is read for.
- **Tokenizer, parser.** The scanner always advances; a failed attempt of the
  parser leaves no trace in what it goes back to; comments are neither lost nor
  attached twice; binding powers give the tree that the grammar describes.
- **Generator.** The parentheses it writes make the parser read the same tree.
- **Dialects.** LIMIT, TOP and FETCH FIRST keep their bounds; a time format is
  split in the longest known pieces.
- **Diff.** Applying the changes to the source gives the target.
- **Builder.** The statement has every part it was given, the latest of the single ones.
- **C interface.** Every string handed out is freed once, the static one never.

## 2. The plan

In the order of importance. The first eight are done.

| Order | Modules | Abstract specification | Composes with |
| --- | --- | --- | --- |
| 1 | `Planner`, `PlannerProofs`, `PlannerCoverageProofs`, `MCPlanner` | `PlanDag` | - |
| 2 | `DialectRegistry`, `DialectRegistryProofs`, `RegistryPluginsProofs`, `MCDialectRegistry` | `AtomicRegistry` | - |
| 3 | `SqlSyntax`, `SqlValues`, `RowWindow`, `Execution`, `JoinLoops`, `JoinLoopsProofs`, `GroupLoops`, `GroupLoopsProofs`, `Executor`, `MCExecutor` | `SqlSemantics` | - |
| 4 | `Pushdown`, `PushdownTrees`, `PushdownProofs` | "the executor's answer stays the same" | `Execution` |
| 5 | parser (`Descent`, `TypedFunctions`, `ExprGrammar`, `PrimaryGrammar`, `QueryGrammar`, `SourceGrammar`, `DmlGrammar`, `DdlGrammar`, `StatementGrammar`), generator (`ExprWriter`, `StatementWriter`), transforms (`DialectTransforms`), all of them together in `Transpiler`, `MCTranspiler` | reading what was written gives the statement | each other |
| 6 | `TimeFormats`, `TimeConversions`, `MCTimeConversions` | a format is a list of components | - |
| 7 | `OptimizerPasses`, `Optimizer`, `MCOptimizer`: fold, simplify, unnest, then push down | "the answer stays the same", and what `SqlSemantics` means by it | `Execution`, `SqlSemantics`, `PushdownTrees` |
| 8 | `Schema`, `Qualify`: a caller's schema and the qualification of columns by it | a column's source by SQL's scoping, over sets | `Optimizer` |
| 9 | `Scanner`: positions, quoting, pending comments, the counter of unmodelled syntax | words and comments as sets of intervals | `Descent` |
| 10 | `Scope`, `Lineage`, `Annotations`: what a scope resolves, and from where a column comes | lexical scoping over sets | `SqlSyntax` |
| 11 | `ForeignStrings`, `Diff`, `Builder` | ownership; reference definitions | - |

Theorem planned next: that what a scope resolves is in scope, once scopes are modelled.

## 3. The models

### 3.1 Planner

`Planner` is the run of `PlanBuilder` on one statement. The recursion of
`plan_statement`, `plan_select`, `plan_set_operation` and `plan_table_source` is an
explicit `stack` of frames; a frame has the node it plans, the stage it is at and the
local variable `current`, and `ret` is the step id a call has just returned. `steps`
is the builder's vector, and an action adds at most one step or makes one call, so
that each clause of `plan_select` is an action: `VirtualScan`, `CallFromSource`,
`TakeFromSource`, `CallJoinSource`, `AddJoin`, `EndJoins`, `AddWhere`, `AddAggregate`,
`AddHaving`, `AddDistinct`, `AddSort`, `AddLimit`, `AddProject`. `Reject` is the `Err`
that a temporal table or an unsupported statement is, at any depth; `Build` is
`build()`, which takes the last step for the root. Expressions, costs and names are
left out; a step is its kind, the node it stands for and its dependencies. WITH, TOP
and QUALIFY, which the planner never reads, have no place in the statements. A statement is a
root and the `nodes` it owns; `Parts` gives the nodes that a node holds in a `Box`.

`PlanDag` says what a plan is without a statement: a growing vector whose new steps
take over rows that nobody has taken, published when the last step is the only one left.
`ImplementsDag` maps the set of open steps to the ids that the active calls hold.

### 3.2 Dialect plugins

`DialectRegistry` runs the public operations of `dialects/plugin.rs`
(`get`, `resolve`, `names`, `register`, `unregister`) in several threads. The
`MutexGuard` is `holder`, the poison flag is `poisoned`. A thread calls (`Invoke`),
acquires or finds the lock poisoned (a panic, as the code `expect`s), is in its section
(`Lookup`, `ListNames`, `BeginUpdate`, `EndUpdate`, `RemoveNothing`), drops the value
that the map gave up (`DropOld`, or `DropOldPanic`, where the destructor panics under the
lock and poisons it) and releases. An update takes two steps with the entry `Torn`
between them, so that a read outside the lock would be seen. `DropArcs` is
reference counting: what nobody has an `Arc` of any more is destroyed.

`Transpile` is `transpile_ext`/`transform` into a custom dialect: a list of
questions to ask (`todo`), in the code's order, which depends on the answers, because a
plugin that replaces a node keeps the walk out of its children, and one that renames a typed
function makes it anew of the arguments `typed_function_args` knows (`Args`). The call may end before any
statement: a text that does not parse, a result that is refused. Each
question is a registry operation of its own, and the plugin's answer (`hook`) is
computed without the lock while the thread has an `Arc`; a hook may return,
panic, or call the registry itself. What the answers do to the expression is left out.

`AtomicRegistry` is the promise: one map on which every call takes effect in one
step between its invocation and its return, and which can break. `ImplementsAtomic` maps
a torn entry to the value it had, so that an operation takes effect when its update ends.

### 3.3 Executor

`SqlSyntax` has the statements as records (select, set operation, sources, joins,
expressions); `SqlValues` the values with their comparison, coercion, hashing, rows
and look-ups (`executor/mod.rs`): a row is a list of column names, each a sequence of
parts, and a list of values, and `get`/`get_qualified` search it as the code does.
`Execution` has `eval.rs` and the stages of `engine.rs` as functions from context to
context; `Executor` takes one query through its stages, one action for each: CTEs, FROM,
joins, WHERE, projection or grouping, DISTINCT, ORDER BY, LIMIT, set operations. The joins of
the query itself are run by `JoinLoops`, where each pair of rows is a step: `AddMatch`,
`SkipPair` and `FailLoops` by what `join_matches` finds, `EndTurn` where a row may be kept beside
NULLs, `EndLoop`, and `RestTurn` for the second loop of `full_join`. It knows rows by their places
only; `CallLoops` gives it the findings (`LoopJob`) and `EndJoin` makes rows of the places
(`RowsAt`). Its groups and distinct rows are run by `GroupLoops`, where each row is a step:
`FailKey`, `NewKey` and `KnownKey` by what its key is and what the hash table has, and then, for
groups, `TakeGroup` for each key in order, or `LoseGroup` where `unwrap` finds none. It too
knows rows by their places; `CallGroups` and `CallDistinct` give it which keys are good and which are alike
(`KeyJob`), `EvaluateItems` and `RemoveDuplicates` make rows of the places. Likeness is asked to be
symmetric, and a key that is not like itself, as one with a NaN, to be like none. It need not be transitive: of
integers beyond 2^53 several equal one float. It is taken to stay the same during a call, as the hashes
do; what a hash table that grows may see of two keys with equal values and unequal hashes is left out. Queries inside
expressions and sources join and group with the functions `NestedLoop` and `GroupsOf` of `Execution`. A stage that fails or panics ends the run. Every stage that makes a hash table draws a
seed (`tags`): whether unequal hashes of equal values look alike, which decides whether
1 and 1.0 are told apart; the two hash tables of a set operation have one each. `Half` stands
for 2^63: an integer is in -`Half`..`Half` - 1, and what an operation gives is looked at (`Fits`) by
a build that checks integers for overflow, which panics, and is taken modulo 2 * `Half` by one that
does not (`checks`); MIN / -1 and MIN % -1 panic in both. `RowWindow` has the arithmetic of LIMIT
and OFFSET, in `usize`, a number modulo 2 * `Half`.

`SqlSemantics` is SQL's meaning of the same statements, written independently of the
code: three-valued logic, relations as families of rows over identities, joins as sets
of pairs, no order and no contexts, correlated subqueries, arithmetic on integers of any
size. Left out: scalar functions (ABS of MIN overflows like a sign; POWER, LPAD and the rest),
casts, LIKE, EXTRACT, AVG, sums that a float does not hold. The executor's queries have no correlated subqueries, which it
does not support.

### 3.4 Predicate pushdown

`Pushdown` is `pushdown_select` on one statement: `RecurseIntoParts`, `TakeWhere`, then a
turn of its loop for each conjunct (`PushToFrom`, `PushToJoin`, `KeepHere`), and
`Conjoin`. A condition is the sequence of its conjuncts. What the pass asks of
expressions (`ColumnsOf`, `IsPushable`, `ContainsWindow`, `Substitute`) and its own
recursion are parameters, about which the proofs assume nothing but that statements
stay statements (`InputAssumption`). `PushdownTrees` gives them their definitions for
trees and makes the statement a query of the executor, so that `SameRows` can compare
answers before, during and after the pass.

### 3.5 The optimizer

`Optimizer` is `optimize` on one SELECT: `FoldingPass`, `SimplifyingPass`, `UnnestingPass`,
each of which takes the whole statement, and then the steps of `Pushdown`
(`PushdownPass`). `OptimizerPasses` has what the first three do. A folded number that is not whole
is a value of its own kind, of which nothing more is said. `Unnest` threads the list of
joins through the condition; an alias is counted by that list, because every
alias is given to one join. `Form` is the statement as it stands after a pass or
in the middle of the last: `Split` takes conditions apart for `Pushdown`, `Concrete` conjoins them.
`MCOptimizer` asks both the executor and `SqlSemantics` what the form answers, and `Unresolved`
for the columns it names that its sources do not have.

Statements of the set `Unqualified` come without qualifiers. Before `optimize` their caller puts a
schema together (`BuildSchema`) and qualifies them by it (`QualifyingPass`). `Schema` is
`MappingSchema`: tables by `<<catalog, database, name>>`, registered, refused when they are there
already, replaced and removed; `FindTable` is the set of columns that a path may find, because for a
short path the code takes the first table in the order of its hash maps. `Qualify` is
`qualify_columns`: CTEs, derived tables, the columns each source gives, wildcards, and the
columns of every clause; the `Findings` of a pass are one choice for each path it looks up, and
the action takes any. `Truthful` and `Complete` say when a schema can be relied on: what it finds are the
columns of the tables, and it finds all of them, which is needed where a wildcard is expanded.

### 3.6 Transpilation

A text is a sequence of words, one for each token; a tree is `<<kind, part, ...>>`, a
leaf `<<text>>` and an absent part `None`.

*Parser.* `Descent` is the machine all of `parser/sql_parser.rs` runs on: a cursor on the
words, a stack of trees under construction, and a small language of what a parsing
function does with them: take a word, call a rule, loop, try a branch and go back
(`Try`, `Rescue`), drop an error but not the position (`Lax`), look ahead with a loop of
its own (`Probe`), put the tree on top into the one below. The grammar modules then have one rule
for each `parse_*` function, in the code's order of the branches and with the branches that depend on
the dialect: `ExprGrammar` (the levels of binding, prefixes, suffixes, windows),
`PrimaryGrammar` (primaries, calls, CASE, CAST, arguments), `TypedFunctions` (which names
with which arguments become which typed function), `QueryGrammar` and `SourceGrammar`
(SELECT, set operations, CTEs; tables, joins, temporal clauses, pivots),
`DmlGrammar`, `DdlGrammar` and `StatementGrammar`.

*Generator.* `ExprWriter` and `StatementWriter` give for each node and dialect the words
and subtrees `generator/sql_generator.rs` writes, in order. The parentheses are
those it derives from `precedence.rs`. `Lexed` is what the tokenizer makes of the result: two minus
signs that touch begin a comment.

*Transforms.* `DialectTransforms` has `transform_statement` with the rewriting of functions, types,
row limits, intervals and divisors, the T-SQL repair of GROUP BY and the pass over nested blocks;
`Refused`, in `Transpiler`, is `validate_dialect_support`.

*The call.* `Transpiler` is `transpile_statements`: `ParseText`, then for each statement
`NextStatement`, `TransformClauses`, `FixGroupBy`, `TransformNestedBlocks`, `Validate`,
`GenerateText`, and `Return`. `Reread` stands for whoever reads the text in the dialect
it was written in, so that the properties can compare what was said with what is understood.

### 3.7 Time formats

`TimeFormats` has the table of `dialects/time.rs`, the four scanners that split a format
into specifiers, the warnings, and the guess of a format's style in `dialects/mod.rs`.
`TimeConversions` takes a format, known by its components and literals, through any number
of styles.

## 4. The runs

| Run | Instance | Shows |
| --- | --- | --- |
| `planner` | every combination of clauses of a SELECT over one table; every nesting of derived tables, LATERAL, PIVOT, joins and set operations three levels deep over at most 13 nodes | `TypeOK`, `Topological`, `ReadOnce`, `OneSink`, `RootIsResult`, `FailsClosed` (refused exactly when a part is refused), `CoversQuery` (a step for each clause at each depth), `ImplementsDag`, `Terminates` |
| `planner_distinct` | SELECT DISTINCT over a table with two columns | a divergence, section 6 |
| `registry` | two threads, two plugins of one name, one with a destructor that panics; a statement with an ILIKE above a typed function, which one plugin renames and one rewrites, above a quoted column; hooks that call the registry between any two questions | `TypeOK`, `OneWriter`, `DroppedWhenUnused`, `AnswersFromHistory`, `PoisonedByDestructor` |
| `registry_atomic` | two threads, a name in upper and lower case | `ImplementsAtomic`, and, with fairness, `LockReleased` |
| `executor` | 18 queries with joins, groups, aggregates, subqueries and set operations and 15 about scopes and failures, one of them a condition of a join that fails for some pairs, over all t(k, a) of at most two rows with NULL, 1 and 2, and all u(k, b) of at most two; every LIMIT with every OFFSET out of none, NULL, 0, 1, 2, 7, -1, -2, over t of at most three rows; a column of NULL, 1, 1.0, NaN, at most four rows, with either seed; 16 queries with arithmetic and aggregates over at most two rows with both ends of i64 in them, in either build | `TypeOK`, `JoinsAsSets`, `GroupsAsClasses`, `AnswersAsSQL`, `OrderedWindow`, `PanicsKnown`, `NothingLost` |
| `optimizer` | for the pushdown, WHERE of at most two out of nine conjuncts, ten derived tables, six lists of joins, LATERAL, a CTE; for the passes before it, eight conditions to fold or simplify and nine with subqueries, alone and followed by one with a subquery, over a table and over a derived table; HAVING, a join, no FROM; 22 statements without qualifiers, five of them with wildcards, under every schema that registering, replacing and removing four tables can make; three contents of t, two of u | `TypeOK`, `ConjunctsKept`, `OnlyConjunctsMove`, `SameRows`, `SameMeaning`, `NamesResolve`, `ColumnsQualified` |
| `transpiler` | 702 calls: six query blocks in each of the thirteen places that the walk over nested blocks goes to, four to six in each of thirteen that it does not (DELETE, UPDATE, MERGE, VALUES, ON CONFLICT, RETURNING, LIMIT, OVER), PostgreSQL to T-SQL and Oracle; two temporal clauses in the same places but OVER, T-SQL to Oracle, MySQL and BigQuery; TOP, FETCH and functions between six dialects; each pair of eight operators, without and with either parentheses, between MySQL, SQLite and PostgreSQL; sixteen texts with statements of every kind, PostgreSQL to itself | `BlocksSuitTarget`, `TemporalsKnown`, `Settles`, `LimitsKept`, `WritesStably`, `GroupingKept`, `ReadsBack` |
| `time_formats` | every pair of the 23 components, numeric dates and times with their separators, timestamps, literals, in every style that can say them and from there through any others | `MeaningKept`, `WarnsOfLoss`, `GuessedRight` |
| `planner_distinct`, `optimizer_exists`, `pushdown_outer`, `set_order`, `nested_blocks` | one statement each, or a few | divergences, section 6 |

Why the bounds are enough:

- *Planner.* A clause's action depends on its own frame and on `ret` only, so that
  three levels have every pair of a caller and a callee, with a caller above; two joins
  have a first and a second turn of the loop. Size and depth are unbounded in the proofs.
- *Registry.* The code distinguishes one key's entry from all others, and the
  interesting races have one reader and one writer; two plugins of one name are what it
  takes to replace one. One statement with a node of each way
  to answer (replaced, renamed, asked once more, left alone) has every kind of step of the walk; casts, operators and
  functions that have no type differ only in the list of their questions, and these and several
  statements are in the proofs only. The number of fresh plugin objects bounds the
  registrations, so that histories are finite. Threads, names, plugins and
  statements are unbounded in the proofs.
- *Executor.* Two rows on each side have a match, no match and two matches, on either side;
  NULL and equal keys are among them; three rows have ties in a sort, four rows a hash
  table with a repeated key in every mixture. A seed makes a difference to equal values of different
  types only, and there are none but in the last column. The tables of a join and the rows to
  group are of any number in the proofs. `Half` = 8 makes -1 and -2 huge, as 2^63 does, and 7 is past
  every end; i64 is -8..7, where the sum, the difference and the product of most pairs do not fit,
  and -8, -1 and 0 are the operands that divisions and signs tell apart. In the proofs of `RowWindow`
  it is any number. In the optimizer's run, whose statements have no such numbers, it is 2^29, the most
  that TLC's own integers allow.
- *Optimizer.* The pushdown treats conjuncts one at a time, so that a second one meets every
  state a first one leaves; the derived tables have one of each thing that shields
  and of each kind of select item. The passes before it look at a node and its children, and there
  is an expression for each of their cases; two subqueries have two aliases. The contents of t
  and u have NULLs, repeated values, and rows with no partner, one and two. The four
  registrations are t, t with the columns of another version, c.main.u and other.u, which has
  other columns: a path is found as it stands, by its name or by its database and name, in two
  tables at once, in a stale one, or not at all.
- *Transpiler.* A query can stand in many more places than `transform_nested_blocks` has arms:
  thirteen of the places are one text for each of its arms, the other thirteen are places it has none for, some of
  which the walks over functions and over temporal clauses do have. `BlocksSuitTarget` speaks of the blocks in
  the first (`Aside` lists the parts of each node that are left out), `EveryBlockSuitsTarget` of all, and
  every property but `BlocksSuitTarget` holds in both. A block does one thing that a target does not know. A generator's parentheses depend on one operator and the
  operator above, so that pairs are enough; the eight operators are one for each level
  at which the dialects differ. The longer texts are there for the grammar: a rule that
  takes a word too many splits or loses what follows.
- *Time formats.* The scanners look at one specifier and the characters behind it, so
  that pairs are enough. T-SQL is converted to and not from: its formats are scanned
  with Java's specifiers.

Deadlock is checked in every run but `transpiler`, `nested_blocks`, `set_order` and `time_formats`, where a call
that has returned or failed, or a format that no other style can say, is the end: a
program of the other runs that has ended takes the step `Finished`, and a thread of the registry
can always call again.

**Fairness.** `Planner` has weak fairness of `Advance`, its only process: a
sequential function keeps running. `FairSpec` of the registry has weak fairness of
`Section(t)`, the steps of the thread that has the lock, which the operating system
runs in the end. Nothing is assumed about who gets the lock next (std's
`Mutex` is not fair, so a waiting thread may starve), nor that a hook ever returns; that is why the
liveness property is that the lock is released, not that a call is answered.

## 5. The proofs

Each theorem is for every value of the constants, under the assumptions named in the
modules, which TLC evaluates on the instances.

**`PlannerProofs`.** Assumption: `QueriesAssumption`, that
statements are well formed. `Topological`, `ReadOnce` and `OneSink` are not inductive: that no two steps
read one step needs to know which ids the active calls still have in hand. `IInv` says
that these ids, `current` of each frame and `ret`, are different from each other and are
exactly the steps that nobody has read, and what each stage implies for `current`.
Every action is one of a few moves on the stack (relabel, descend, give back, extend,
finish; `ActionsAreMoves`), for each of which the invariant is proved once. From it
follow `TypeCorrect`, `AlwaysTopological`, `AlwaysReadOnce`, `RootIsTheResult`,
`OnlyTheRootIsUnread` and the refinement `PlannerImplementsDag`.

**`PlannerCoverageProofs`.** A second assumption, `TreesAssumption`: what a statement owns
through `Box`es is a tree, so that `nodes` is the least set that has the root and the parts of
its members, and a node has one holder. `FailsClosed` and `CoversQuery` compare a finished plan
with the whole statement, and say nothing while the planner runs. `CInv` therefore keeps
a `Ledger`: a mark for each node, unseen, under way at the stage of its call, or done. The
marks of the active calls are those of the stack (`Calls`); a node has been entered exactly when
the call of its holder has handed it over, and what has been handed over is done or on the stack
(`Visits`); of each kind there are as many steps as the marks stand for (`Counts`); and a
done node is not a refused one (`Fits`). An action changes the mark of one node in one of four ways: the
call goes on, leaves, enters a part, or gives way to one (`ActionsMark`). At `Build` no call is left, so that the done nodes
hold the root and all parts of theirs, and are all the nodes; at `Reject` a refused node is one of them.
The ledger is only said to exist: the model needs no variable for it. No induction over the
statement is needed either, as `nodes` is the least such set. From it follow
`AlwaysFailsClosed` and `AlwaysCoversQuery`.

**`DialectRegistryProofs`.** Assumption: `RegistryAssumption`, among others that
lower-casing twice is lower-casing once, and that names and plugins are not the same
things. `IInv` adds to the types what each phase of a
thread implies for its call and its answer (`Phases`), and that a thread is in its section
exactly when it is the holder, and an entry torn only at the key of the holder midway in
its update (`Locking`). From it follow `TypeCorrect`, `AlwaysOneWriter` and `RegistryIsAtomic`:
each step of the registry is a step or a stutter of `AtomicRegistry`, a silent step, an
invocation, the effect, the answer, or a failure of a broken map.

**`RegistryPluginsProofs`.** The same assumption. `DroppedWhenUnused` is not inductive:
`Hands` adds what a thread has in hand at each point (an answer only after it has looked,
one plugin at most in it, an old entry only while it updates), and `FreshUnshared` that
nobody has a plugin `register` has not had. Each step of a thread keeps what it has or
exchanges it with the map (`Keeping`), takes a plugin from the caller of `register`
(`Giving`), or lets go of some, of which those that nobody else has are destroyed
(`LettingGo`). From it follow `AlwaysDroppedWhenUnused` and, with the lock's
invariant, `OnlyDestructorsPoison`.

`AnswersFromHistory`, in the same module, speaks of the answers a transform has noted;
between the look into the map and the note the entry may change.
`Heard` therefore counts an answer from the moment it is taken, and `Hears` says that what is
heard embeds in the history of the target from the place where the transform began. A
history that goes on keeps an embedding (`HistoryGrows`), and the last value of a
history extends one (`LastNoted`). `Recorded` (an entry has the last value of its
history) and `FoundWhenResolved` (where the answer of `resolve_dialect` was in it)
complete `HInv`; from it follows `AlwaysAnswersFromHistory`.

**`PushdownProofs`.** Assumption: `InputAssumption`, that inputs and what the recursion
makes of them are statements. `IInv` says that the statement under way is the recursed
input with nothing but grown conditions in safe derived tables and inner joins, that each
conjunct treated so far stays or filters where it went, and what `pc` implies for the WHERE
clause. The main argument is that pushing a conjunct into a derived table changes neither
what may be pushed into it next nor how (`TargetSame`, `SourceSame`), so that a conjunct
once pushed stays pushed. From it follow `TypeCorrect`, `NoConjunctLost` and
`NothingElseChanges`.

**`JoinLoopsProofs`.** No assumption: a call may be given any two numbers of rows, any kind of
join and any finding for each pair. `JoinsAsSets` is about calls that have ended. `JInv` says where the
loops are (`Places`); that `matched` is whether the outer row has matched an inner row compared
so far, and `right_matched` the same of each right row (`Flags`); that the result has exactly those rows
of the join the loops have come past, in order (`SoFar`); and that no pair compared so far has failed
(`NoFailure`). A pair is past when it has been compared, a row beside NULLs when the
turn of the outer loop is over, and a right row that matched nothing when the second loop is past it
(`Past`). A step either comes past no row of the join, or appends the one that it comes past, which all others
precede (`NothingPassed`, `OnePassed`). From it follows `AlwaysJoinsAsSets`. That the executor calls the
loops with what `JoinNext` allows is `LoopsTypeOK`, a part of its `TypeOK`, and model-checked.

**`GroupLoopsProofs`.** No assumption: a call may be given any number of rows, any key of them that cannot
be evaluated, and any likeness of keys. `GroupsAsClasses` is about calls that have ended. `IInv` follows a
group from the table to the parts (`GroupOf`), so that `TakeGroup` changes no group at all: every row
come past is in the group of exactly one key, and a group has its key's row first and then rows
like it, in order (`Grouped`). `Keys` says that the keys are unlike each other and that the table has exactly those
not yet taken out; for that reason a look-up of the next key finds its own entry or, if the key is not like itself, none
(`NextKeyFacts`), and every key taken out is like itself. `Fates` keeps why a call has failed. From
it follow, when a call is done, that DISTINCT has kept the first row of each key (`OneOfEach`)
and that the groups are a partition (`Partition`), and so `AlwaysGroupsAsClasses`. That the executor
calls the loops with what `KeysNext` allows is `KeysTypeOK`, a part of its `TypeOK`, and model-checked.

**`RowWindow`.** Assumption: `HalfAssumption`, that there is a value of `usize` to speak of. Its
theorems are about the operators themselves, for a LIMIT and an OFFSET that are any i64 and any number of rows
a `Vec` may have. They rest on what a cast and a sum are that leave the range
once at most (`CastOfI64`, `SumOfI64`). `WindowIsAsked`: where neither is negative, the
places taken are exactly those asked for, and nothing overflows however large the two are.
`PanicsExactly`: a negative LIMIT panics exactly when it is no further below zero than the rows skipped, in
either kind of build, and else takes the rest of the rows. `OrderedWindow` and `PanicsKnown`, which say
the same of whole queries and of which rows are at the places, stay with TLC.

**Model-checked only.** `Terminates` and `LockReleased` (liveness), all properties of the executor but `JoinsAsSets`
and `GroupsAsClasses`,
`SameRows`, `SameMeaning`, `NamesResolve` and `ColumnsQualified`, and all properties of `Transpiler` and `TimeConversions` (evaluation, grammar,
writers and scanners are recursive).

## 6. Where code and documents disagree

Five runs are expected to find a violation:

- `planner_distinct`: DISTINCT is planned below the projection (`planner/mod.rs:490`),
  so the root of the plan of `SELECT DISTINCT a FROM t` yields repeated rows.
- `optimizer_exists`: the derived table that an EXISTS becomes has the column `_sentinel`
  only (`optimizer/unnest_subqueries.rs:523`), and its join compares a key that is not there.
- `pushdown_outer`: a conjunct is pushed below a RIGHT or FULL JOIN that follows
  (`optimizer/pushdown_predicates.rs:80`).
- `set_order`: ORDER BY behind a set operation is taken by its last SELECT
  (`parser/sql_parser.rs:2102`), and as a nested block's it is dropped for T-SQL.
- `nested_blocks`: the walk over "every query block reachable from `stmt`" (`dialects/mod.rs:1119`) ends in
  `_ => {}` (`:1143`). The blocks in UPDATE, DELETE and MERGE, in the VALUES and the ON CONFLICT of an INSERT, and
  those in RETURNING, LIMIT and OVER keep LIMIT, FILTER and an order without effect for T-SQL and Oracle:
  `DELETE FROM s WHERE a IN (SELECT a FROM t ORDER BY a LIMIT 2)` is written for T-SQL as it was.

The runs that pass keep to what remains. `AnswersAsSQL` excludes outer joins whose
padded side is empty (`SidesKnown`) and columns of mixed types (`OneType`), and the
queries and texts exclude what follows, seen in the code while the models were written:

- *Executor.* An outer join with an empty side pads with no columns (`engine.rs:261`), so that
  `u.k` reads `t.k`, though the comment at `executor/mod.rs:292` lets qualified names find their own. NATURAL JOIN is parsed without a condition (`sql_parser.rs:3850`) and runs as a
  cross join, and NULLS FIRST and LAST are not looked at (`engine.rs:593`), where
  `docs/reference.md:2375` and `:2377` list both. A chain of USING or NATURAL joins compares the
  first two columns of a name only (`engine.rs:414`), and NULL keys join; AND, OR, NOT and IN are
  two-valued (`eval.rs:112`), which shows where a NULL is negated or selected; HAVING is dropped
  without GROUP BY and aggregates (`engine.rs:83`), and an error in HAVING or in an IN list
  counts as false (`engine.rs:96`); DISTINCT keeps 1 and 1.0; a derived table's
  column that keeps its qualifier, "t.k", is not found as `d.k`; TOP, FETCH FIRST,
  QUALIFY, windows and FILTER are ignored (`engine.rs:51`); INTERSECT ALL and EXCEPT ALL
  do not count copies (`engine.rs:674`); the sort's comparator is not a total order on
  values of different types (`engine.rs:596`); LIMIT NULL is LIMIT 0 (`engine.rs:631`).
- *Executor, panics.* `PanicsKnown` names five reasons, and each is met in its run. `i64::MIN / -1` and
  `% -1` panic in any build (`eval.rs:425`, `:438`); `+ - *` and a sign that do not fit panic in a build
  with overflow checks and wrap around in one without (`:416`, `:485`), where `AnswersAsSQL`
  asks for SQL's answer only if nothing does (`Exact`); SUM, MIN and MAX without an argument take
  `args[0]` of none on the first row of a group (`:563`; COUNT() is read as COUNT(*) and does not);
  a negative LIMIT slices backwards (`engine.rs:650`); a set operation is sorted by a column that a
  narrower side lacks (`executor/mod.rs:318`); a group with NaN as its key is taken out of the hash map by a
  look-up that does not find it (`engine.rs:457`). SUM adds up in floats and saturates (`eval.rs:558`):
  `SumsFit`. An aggregate outside a group, as in WHERE, is NULL if typed, an error if not (`:1174`).
- *Pushdown.* The recursion comes first, so that what is pushed goes one level deep
  (`:51`); a CROSS or USING join gets an ON (`:159`), which the executor then reads
  instead of USING; COUNT, SUM, MIN and MAX count as pushable (`:290`), and an alias of
  one is pushed, COUNT(*) AS k as though it were the grouped k (`:448`); TOP and QUALIFY do
  not shield (`:321`); an unqualified column of the derived table's query may be captured
  (`:115`); a conjunct may be moved away from one that guards it (`:69`); pushing into the
  bodies of CTEs is announced in the module's header (line 13) and not done.
- *Folding and simplification.* 1 / 2 is folded to 0.5 (`optimizer/mod.rs:74`), where the
  executor divides integers to 0, and digits above 2^53 are lost; `TRUE AND x` becomes x and
  `NOT NOT x` becomes x in the select list too, where x need not be a Boolean (`:198`, `:232`).
- *Unnesting* (`unnest_subqueries.rs`). With a NULL among the subquery's values NOT IN yields nothing and its LEFT JOIN
  rows (289), and a NULL on its left is kept; the executor's IN finds NULL among NULLs (`eval.rs:199`),
  the join that replaces it does not. `IN (SELECT * ...)` of one item
  joins on `_col0`, which no item is called (555); a LIMIT of the subquery is then applied after
  DISTINCT (552); an IN with a correlation becomes a derived table that cannot see the outer row (286).
  An equality of two tables of the subquery counts as correlation, and the column on its
  left as the outer one (377). Aliases `_uN` may collide with the user's (49). `SELECT *`
  has one more column afterwards.
- *Qualification* (`qualify_columns.rs`). A CTE's body is qualified without the CTEs before it (278):
  its columns stay without qualifier, and `SELECT *` from an earlier CTE is replaced by nothing or by the
  columns of a table of that name, though `docs/developer-guide.md:1361` says the pass
  "resolves columns through CTEs, derived tables, and nested subqueries". `*` becomes columns
  without qualifier (309), where `docs/developer-guide.md:1345` shows qualified ones: after a join of two
  tables with a column of one name they are ambiguous. `*` of a table the schema does not know
  vanishes. A CTE hides a table of its name in any database (85); the CTEs of a derived
  table's own query are not seen when its columns are listed (149); a column of ORDER BY that is both an alias
  and a source's column is taken for the source's. The header's "Validating column
  existence" (line 7) is not done.
- *Schema* (`schema/mod.rs`). A short path falls back on the first table in the order of the hash maps (258);
  quoted identifiers are normalized like the others, though line 163 says they are stored verbatim.
- *Plugins.* Renaming a typed function drops its DISTINCT (`plugin.rs:645`) and what TRIM trims (`:419`).
- *Parser, queries* (`sql_parser.rs`). MINUS behind a table is read as its alias, though a comment
  calls it a synonym of EXCEPT (2050); so is NATURAL behind an unaliased table. Set operations associate to the right.
  LEFT SEMI and LEFT ANTI JOIN are read as LEFT JOIN (3876); of a join in parentheses
  only the first table is kept (2830). CTEs before INSERT, UPDATE, DELETE and MERGE are
  dropped (1515). `x ->> y` at the beginning of an argument is taken for a named argument (7012).
- *Parser, statements.* `REFERENCES p (x` without its parenthesis never ends (5766);
  ALTER TABLE DROP CONSTRAINT, INDEX, PRIMARY KEY and PARTITION become DROP COLUMN with an empty
  name (6475); DROP and TRUNCATE keep the first of a list; INSERT OVERWRITE and REPLACE INTO become
  INSERT INTO, INSERT ... SET loses its columns; CREATE OR REPLACE TABLE loses OR REPLACE,
  CREATE TEMP VIEW its TEMP, DROP VIEW its CASCADE; ORDER BY and LIMIT of UPDATE and DELETE, the WHERE of
  ON CONFLICT, AND CHAIN and EXPLAIN's options are dropped.
- *Parser, expressions.* IS [NOT] DISTINCT FROM becomes `<>` or `=`; OVERLAPS, `<->`, `&&` and `@@`
  become `=`; GLOB and REGEXP become LIKE; N'..' becomes '..'; typed functions drop
  arguments beyond those they know, an aggregate its ORDER BY (9991), MIN and MAX their DISTINCT.
- *Generator.* `- -x` is written `--x`, a comment; RETURNING with a subquery becomes, for T-SQL,
  `OUTPUT DELETED.(SELECT ...)` (`sql_generator.rs:1114`), so that the run has no RETURNING for T-SQL; CAST(a + b AS INT) is written
  `a + b::INT` in the PostgreSQL family; operators are regrouped from MySQL to PostgreSQL, because
  parentheses are derived again for MySQL and SQLite only (`docs/installation.md:168`).
- *Transforms.* TOP and FETCH of nested blocks are lowered for T-SQL and Oracle only
  (`dialects/mod.rs:681`); ON, ORDER BY, QUALIFY, CTEs, set operations, MERGE and views are not
  walked for functions and types, nor are BETWEEN, IN, LIKE, CASE and IS NULL; SHA512 becomes
  SHA2(x, 256). FILTER of a typed function of several arguments stays (`:1289`).
- *Support.* ARRAY is looked for in the columns and WHERE of the outermost SELECT only,
  and temporal clauses not in the arguments of table functions or OVER.
- *Time formats.* A format without a year is taken for strftime (`dialects/mod.rs:1721`), so
  that TO_CHAR(x, 'HH24:MI') reaches MySQL unchanged and MySQL's '%M %Y' becomes 'MI YYYY'; letters
  of literals are not quoted in letter styles; adjacent `%d%a` becomes `DDDy`.

## 7. Not modelled

- *Tokenizer.* The texts are words; quoting, positions and comments are planned (section 2).
- *Parser and generator.* Quoting of identifiers, comments, the counter of unmodelled
  syntax as far as nothing is given back for it, procedural blocks, the parser of single data types, pretty
  printing and layout.
- *Optimizer.* The folding of concatenated strings and the numbers beyond whole ones are left
  out. Of the schema, the types of columns, the functions and the case of names are left out, of
  qualification the alternatives PIVOT, UNNEST and table functions. Scopes, lineage and annotation are planned.
- *Diff, builder, C interface* are planned. The command line is I/O around the entry points.
- *Registry.* Destructors that call the registry (they would wait for the lock
  their own thread has), transforms inside hooks, and a panic during a panic, which aborts
  the process.
