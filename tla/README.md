# Verification of hinzu

hinzu extracts facts about a program (definitions, "caller uses callee" edges,
effect roots), propagates effects over the call graph and checks them against
regions in `hinzu.toml`. From the same facts it derives a dependency graph, a
porting plan and the progress of a port; beside them stand a range analysis of
Rust bodies, a search for look-alike code and an export of API surfaces. This
directory holds TLA+ models of that code, TLC configurations that check them on
small instances, and proofs checked by TLAPS.

Line numbers and quotations refer to the commit beside this directory.

## 1. The system

| Part | State it keeps | Operations | Talks to |
|---|---|---|---|
| Fact schema, `facts.rs` | `FactSet`: definitions, edges (kind, resolution), roots | add, JSON round trip | everything |
| Reference engine, `effects.rs` | summaries, worklist | seed, pop, return | check pipeline |
| Evidence walk, `effects.rs` | predecessors, seen set, queue | breadth-first walk, path reconstruction | DBSP engine, component rule |
| DBSP engine, `hinzu-dbsp` | circuit inputs, derived pairs, summaries | feed, iterate, attach evidence | check pipeline (default engine) |
| Root seeding, `roots.rs` | annotation table | `seed`, `seed_unknowns` | extracted facts |
| Policy, `policy.rs`; rules, `rules.rs` | regions, `on_unknown`, ignore list, rule configuration | parse, govern, check, run rules | summaries |
| Fact store, `store.rs` | four SQLite tables | `insert_facts`, `load_facts`, `write_summaries`, `load_summaries` | the `--db` file, shared by processes |
| Check pipeline, `lib.rs`, `main.rs` | a run: facts, report, verdict | extract, seed, store, load, propagate, write, check | all of the above |
| LSP client, `client.rs` | response map, alive and settle flags, two pipes, child | request, notify, wait, settle, shutdown, drop | language server |
| LSP extractor, `extract.rs`, `treesitter.rs`, `config.rs` | definitions, edges, roots, symbol cache | discover, open, settle, collect definitions, calls, references | LSP client |
| Rust adapter and driver | a directory of facts files | cargo build under a wrapper, merge, lowering of bodies | cargo, rustc |
| Dependency graph, `graph/` | Tarjan's index, low links, two stacks | strongly connected components, rollups, closure, rerooting | facts, plan, port diff |
| Porting plan, `plan.rs` | groups and their reverse map, wave counters | form groups, coalesce, layer into waves, number | the graph's file rollup |
| Port diff, `portdiff/`, `main.rs` | a report and the baseline it is compared with | align, band, aggregate, delta | graphs, plan, conformance manifest |
| Abstract interpretation, `absint/` | block states, visit counts, worklist | transfer, refine, join, widen, hazard scan | bodies from the driver |
| Similarity, `similarity/`, `similar_cmd.rs` | disjoint-set forest, clusters, outputs per project | score, link, refine, explain, merge, advise | signature documents |
| Fluessig export, `fluessig_api/` | a converter: minted types, references, deferred ops | convert items, pull in siblings, fold, promote | API reports |

What is hard in it:

* **Order.** Facts are vectors in the order an adapter found things. Engines
  and walks visit them in that order, on graphs with cycles. The export
  converts items in the order of the report and mints types as it goes.
* **Two engines, one promise.** The command line runs the DBSP engine, the tests
  compare it with the reference engine; the two read Type edges differently.
* **A store that outlives the process.** `insert_facts` and `write_summaries`
  are two transactions, `load_facts` is none, nothing is ever deleted from three
  of four tables, and `--db` may be shared.
* **Fail closed.** Whatever the analyzer cannot see must become `Unknown` and
  fail the check, unless the policy says otherwise; a file whose definitions a
  server did not deliver must not read as pure.
* **Two threads, two pipes, one foreign process.** The LSP client blocks in
  writes, holds a mutex while it does, and has deadlines for some waits only.
* **Condensing twice.** The plan condenses files into cycles, then merges groups
  further; each merge must leave two maps and a flag consistent and the graph
  acyclic, and only a later `expect` notices when it does not.
* **Recomputed reports, compared.** A port is measured from scratch each time,
  over graphs that were cut, rerooted or concatenated; what is compared must mean
  the same in both.
* **Bounds on doubles.** The range analysis narrows, joins and widens intervals
  of doubles whose arithmetic rounds and absorbs.

`PROJECT.json` lists the hazards one by one, at the line where each bites, with
the properties that cover it.

## 2. Modules

```
FactGraph              edges, roots, "s carries e" as a least fixed point
 +- EffectEngine       abstract: facts in, closure with honest evidence out
 +- NaiveEngine        worklist engine            --implements--> EffectEngine
 |   +- NaiveEngineProofs                         (proved by TLAPS)
 +- EvidenceWalk       breadth-first evidence walk
 +- DbspEngine         default engine
 |   +- ExplainedEngine  DbspEngine + EvidenceWalk step by step
 |       |                                        --implements--> EffectEngine
 |       |                                        (on facts without Type edges)
 |       +- DbspEngineProofs                      (both proved by TLAPS)
 +- PolicyCheck        root seeding; regions, rules, findings
     +- CheckPipeline  processes, store, crashes, revisions
         +- CheckPipelineProofs                   (proved by TLAPS)
LspClient              caller, reader thread, pipes, server
 +- LspClientProofs                               (proved by TLAPS)
LspLanguage            module origins, effect tables, which names are looked up
 +- LspExtract         extraction over a cold, slow or dying server
     +- LspExtractProofs                          (proved by TLAPS)
Interval, BodyLowering the numeric domain; MIR to body facts
 +- AbsInt             worklist analysis and the analysed program together
     +- AbsIntProofs                              (proved by TLAPS)
DependencyGraph        what is needed, what is a cycle, what is acyclic
 +- StrongComponents   the iterative Tarjan search
 |   +- PartitionProofs                           (proved by TLAPS, with SimilarCommand)
 +- PortPlan           groups, coalescing, waves, ids
     +- PortPlanProofs                            (proved by TLAPS, with PortProgress)
     +- PortSchedule   search, hand-over, plan    --implements--> PortPlan
GraphDocument          the graph of a fact set, closure, rerooting, concatenation
 +- PortMatch          alignment of source and target symbols
     +- PortReport     bands, merges, rollups, deltas
         +- PortProgress  a team that ports, and the command it runs
SimilarityScore        features, signals, thresholds
 +- SimilarityClusters groups, cohesion, split; confidence, what members share
 +- LibraryMatch       advice on libraries
UnionFind              find and union, one loop iteration at a time
 +- SimilarCommand     the command, all of the above in sequence
     +- PartitionProofs                           (proved by TLAPS)
FluessigConverter      rendered types in, exported types out; parse, mint, note references
 +- FluessigExport     the phases of build_fluessig
```

The `MC*` modules only choose small instances.

**FactGraph.** Vectors become sets; the consumers are specified for every order,
so nothing is lost. `Carries` is written without the code's adjacency maps: a
symbol carries an effect when it lies in every set that holds the effect's
roots and is closed under run-time use. It is the reference both engines, the
walk and the pipeline are measured against.

**NaiveEngine.** `propagate` of `effects.rs`: `SeedRoot` is an iteration of the
seeding loop, `PopFront` an iteration of the worklist loop with all callers of
the popped symbol (they are updated from one snapshot of it), `Return` the end.
The order in which changed callers are pushed, and roots visited, is free.

**EvidenceWalk, DbspEngine, ExplainedEngine.** `LoadInputs` is what
`effect_pairs` feeds the circuit (every edge, whatever its kind), `Iterate` a
round of the recursive scope that `build_circuit` sets up, `Attach` an iteration
of `summaries_from_pairs`. The DBSP library is external and taken to iterate until
a round adds nothing. In `DbspEngine` the walk is one step that yields some
shortest path or none; `ExplainedEngine` puts `shortest_path_to_roots` in its place,
`PopFront` per dequeued symbol and `SkipCallee`/`ReachCallee` per callee, because
the inner loop returns as soon as it meets a target.

**PolicyCheck.** Pure operators. Of a name only what the code
distinguishes is kept: its crate, what remains without generic arguments, the
rule that matches it, and whether an annotation or the baseline vouches for it.
A region is its name, the length of the longest pattern that matches each file
(0 for none), and its `forbid` or `allow`. `Verdicts` runs the region check and,
when enabled, the rule for effects in components.

**CheckPipeline.** A process is a run of `hinzu check`. It starts on some
revision of the program and of `hinzu.toml`, and takes the steps of
`check_facts`: `InsertFacts` and `WriteSummaries` are transactions,
`LoadDefinitions`, `LoadEdges`, `LoadRoots` the three SELECTs of `load_facts`.
`Die` may come between any two and loses everything but the store; a statement
that fails because the file is locked ends the run too, and is a `Die`. A
process without `--db` has a store of its own that starts empty; `Database` names the
file of each of the others. `--engine` is an
input of the process. Both engines are taken by what their own modules show of them: the
reference engine (`--engine naive`) answers as `EffectEngine` promises, with every choice of
evidence; the default one derives its effects from the edges as its circuit is fed them
(`Circuit` forgets their kinds), and an effect that leaks through Type edges has an empty
evidence path.

**LspClient.** A frame is two pieces, header and body, in a pipe that holds
`PipeSize` pieces; a write blocks while it is full and fails once the server is
gone. `caller` walks through `request`, `notify`, `wait_until_settled`,
`shutdown` and `Drop`; `reader` through `read_loop`. A server is external: it
reads or writes one thing at a time, answers in any order, late or never, sends
requests and signals of its own, and may die. Time is a choice: a thread that
looks at the clock may find its deadline passed. The lock around `Shared` is
held for single steps and is implicit; the stderr thread is left out.

**LspExtract.** A request and its reply are one step here; `LspClient` models the
request itself. A reply is the true one, the empty one of a server that has not
indexed yet, or a failure at the deadline or by death. What has no deadline, a blocked write
and the last wait for the child, may also never end: then the extractor is "hung" (`Hang`), which
it can be only while the server lives. A file is a number, a
position in it a line; files, callables and sites still to be visited are sets that are
taken in ascending order, which is the order of the code. Retries, the symbol cache of a target file and the order of
phases are those of `extract.rs`; `LspLanguage` says which names `treesitter.rs`
picks (`Sites`), which package a path belongs to and which effect its table gives (`config.rs`).
What a project uses is said without them: `NamesUsed` are the callees and values that the
header of `treesitter.rs` lists.

**Interval, BodyLowering, AbsInt.** A double is an integer scaled by `Scale`; above
`Exact` only every `Gap`-th value is one, above `MaxD` an infinity follows, and
every operation rounds, so a sum absorbs a small summand as it does above 2^53.
`Pop` is an iteration of the worklist, `Report` the scan for hazards and the return
range; then the same MIR body runs on some input, one statement at a time. That the
program is executed beside its analysis is what soundness is stated on. Integers
are kept small (`IntBound`), so they are exact; references and NaN literals do not
occur. `i64` and `u64` are bounded by that only; `i32` stands for the signed types that are
narrower than 64 bits: it has `NarrowModulus` values (really 2^32), and a switch arm on one is
lowered to its bits read as an `i64`, as the code does. The flag `misread` of the running
program notes that it took an arm whose value the body facts give as another. `Within` orders the numbers of the domain by what they stand for; it is what
`FixedPoint` and its proof are stated with.

**DependencyGraph, StrongComponents.** `Needs` is the least closed set, written as
the intersection of all closed sets so that it can be reasoned about.
`strongly_connected_components`: `StartAt` is the loop over start nodes, and an
iteration of the work loop is an `Open` for a new frame followed by `Descend`,
`Skip` or `Close`. Children are taken in the order of the `BTreeSet`; so the position
a frame keeps in its list of children is the set of those before it.

**PortPlan, PortSchedule.** `FormGroups` makes a group of every cycle and of every
other file, `Merge` is an iteration of the loop of `coalesce` that has chosen a
pair (the first in the code's order), `StartLayering`, `Resolve` and the test in
`Number` are `topo_waves`, and `Number` assigns the public ids or panics in the
`expect`. Which ready group is resolved next is free. The trial layering of
`merge_keeps_dag` is its outcome, `Acyclic`. Files are numbers in the order of
their paths. `PortSchedule` puts the search before it: that the whole is a
behaviour of `PortPlan`, where the cycles are those of the definition, says that
the search hands over the right groups.

**GraphDocument, PortMatch, PortReport.** Pure operators on records. A path or an
id is the sequence of its segments; how a name is spelled in the other language is
a constant, and so is the length of an id as text, by which `pick_rep` prefers. Votes of modules are counted in twelfths, thresholds are fractions. Lists
that are indexed by a path, a wave or a pair of files are functions.

**PortProgress.** A team writes and deletes target code, marks files as verified,
changes the source, and runs `hinzu port-diff --compare` in one of its three forms.
Target crates are extracted one after another by one process, so each is read
with the facts of those before it, because the directory `tempdir_for_facts` names
is the process's and is never emptied; `CratesBefore` says which they are. Building a crate
builds, and extracts, the crates it depends on, directly or not (`BuiltWith`). The waves come
from `build_plan` with `PlanOpts::default()`, as in every caller: neighbouring
groups are coalesced while their union stays under 200 lines, and then layered. Here the plan is one operator; how groups and waves
come about step by step is `PortPlan`.

**UnionFind, SimilarCommand.** `find` climbs and halves one loop iteration at a
time. The command collects a document per project, and per document scores,
links, refines and explains; then it merges the outputs and adds the advice.
Similarities are thousandths, each quotient rounded down; MinHash and LSH are
replaced by a choice: pairs whose shingles overlap may or may not become candidates,
which is all that the rest relies on.

**FluessigConverter, FluessigExport.** A rendered type is a tree; the string
helpers that split it are left out. The converter is a record that is threaded
through, because parsing has side effects (references noted, types minted, ops
counted) that the export reads later. An op is its name, parameters, result and whether it is
async; two members that agree in these are one op, on whatever they were written. Actions are the loops of `build_fluessig`:
one per item, per batch of sibling types, then `Fold` and `Promote`.

## 3. Runs

| Run | Question | Bounds |
|---|---|---|
| `naive_engine` | Is the worklist search right at every step, and does it implement the trait? | every mix of calls and Type edges on 3 symbols plus a self-use, 2 effects, up to 2 roots; every acyclic graph on 4 symbols with 1 effect |
| `dbsp` | Does the default engine with its evidence walks implement the trait without Type edges, and what does it do with them? | every call graph on 3 symbols with a self-use, 2 effects, up to 2 roots; every mix of kinds with 1 root; every graph on 4 symbols, one with Type edges only; every callee order |
| `check` | Is a verdict sound and a finding real, after crashes, revisions, edits of the policy and beside another check? | four scenarios, see below |
| `check_trait_call` | *violation*: a foreign trait call is read as pure | 1 process |
| `lsp_client` | Are answers, frames and endings right whatever the server does? | 2 calls and a shutdown, 1 message of the server's own, pipes of 2 pieces and 1 message |
| `lsp_deadlock` | *violation*: both pipes full, everyone waits | 2 calls, 3 messages of the server's own |
| `lsp_extract` | Are the facts those of the program, and what may a lost answer cost? | a project of 3 own files, 1 excluded and 3 external; at most 2 failed requests while the server lives, cold answers up to the retries, death or a hang anywhere |
| `ranges` | Does the analysis cover what the program does, report its panics and reach a fixed point? | 1141 functions of up to 5 locals and 4 blocks: guarded divisions, loops, joins, calls, switches on wide and on narrow types with negative arms, divisors that are quotients |
| `port_schedule` | Are the components whole cycles in order, does merging keep the groups right, is the plan an order to port in? | every graph on 4 files with up to 5 dependencies, equal sizes or one large file under a ceiling of 4, coalescing on and off |
| `port_diff` | Do reports and deltas add up, does porting only advance, is the frontier alive, do rooted and whole reports agree? | 2 packages on 3 crates, files of 40 to 160 lines, 5 target symbols, 2 versions of the source, 1 edit between runs, 5 requests |
| `export` | Is the emission closed and scoped, are ops counted once, do subscriptions end where they may? | up to 4 of 11 parts in every order, with and without a sibling package; among them async ops and one with a parameter of type `unknown` |
| `similar` | Does `find` end, are clusters what the bars promise, is the merged report fair? | Rust projects of 2 to 5 of 8 signatures in both orders, mixed projects with every extractor, documents given as files |

The scenarios of `check` (a behaviour stays in one): *alone*, one check after
another on a file that nobody else is given, with crashes, 4 possible uses, one of them a Type edge, 2 files and 2 modes of
`on_unknown`; *shared*, two processes on one file, 2 possible uses, files fixed;
*fresh*, a store per run, 5 possible uses with Type and unresolved edges, all modes,
vouched symbols, refused documents; *rendering*, a component, a seam and the rule
for components on and off. In *alone* and *fresh* each check runs with either engine,
elsewhere with the default one.

Why the bounds are enough. On three symbols every shape that distinguishes the
engines occurs: a cycle of two and of three, a self-use, a diamond over a
shared callee, two roots of equal and of different effects on one symbol and on
two; a shortest-path error needs a fourth symbol, which is why those instances
have one. The safety of the reference engine is proved for every size. In the
pipeline two functions, one foreign symbol nobody knows and one that a rule
knows are what the seeding decides about, and two files are what a carve-out
needs. In the LSP client a pipe of two pieces holds exactly a frame, so a
second writer blocks in its header or its body; two calls are what a late
answer needs to be confused with a later one. The project of `lsp_extract` has one
construct for every branch of the classification (nested class, local function,
self-call, class with `__init__`, excluded file, external file with and without a
package, overridden table row) and for what its syntax pass overlooks (a call chained at module
level, a default parameter with a type), and two lost requests lose a file and a call list
together. The functions of `ranges` put each comparison before each way to derive a
divisor; the interval of an input and the steps of a loop leave room for two
widenings. A narrow type of eight values has room for a negative arm,
what its bits read as, and the arms beside it. Four files and five dependencies hold a cycle of four with a chord, two
cycles of two with a link, and a merge that would close a cycle over third groups;
with three files the last does not occur. The safety of the plan is proved for
every size. In `port_diff` each tier of the matching, an exact, a clustered and an
unmapped file, a relocated one and a cycle of files occur, two files that coalesce, and two
that are too large together and stay in two waves; one edit between runs
makes every delta one that the edit explains. Four parts are what it takes in
`export` to mint a type, refer to it, and defer an op on its class. Five signatures
hold a chain that the higher bar cuts in the middle.

Every passing property has a mutant in `PROJECT.json`: an operator beside the
mutated definition, with a plausible mistake (a missing guard, a swapped order,
a forgotten reset), under which TLC finds the property violated.

Deadlock is checked in `port_diff`, where the team never stops. All other
behaviours end when a function returns, a process is done or its document was
refused, hence `CHECK_DEADLOCK FALSE`; where the end itself is the question there
is a liveness property.

Fairness. `propagate`, the engine with its walks, the component search and
`build_plan` are single-threaded functions that run until they return: weak fairness
of `Next`. So is the extractor, as far as the server does not hold it up. The wait for an
answer has a deadline, so what the server answers is a choice inside a step and not a step it
owes. The write of a request has none (`client.rs:193`), nor has the last wait for the child
(`client.rs:187`): that one of these never returns is the step `Hang`, allowed wherever the
extractor turns to a server that lives, and `Finishes` says that the extractor ends or stays in such a hang, with a server
that is alive. In `LspClient`
both threads are scheduled (weak fairness of what the caller must do next and
of the reader), and a mutex that is free again and again is eventually obtained
(strong fairness of the two lock steps); the server owes nothing and the caller
need not start anything. Only `lsp_deadlock` assumes more, a caller that goes on
and a server that reads and writes when it can, because its claim is about such
a server. The other modules have no liveness and no fairness: a process may die,
a team may stop.

## 4. What the models show of the code

Two runs find what a document of the repository denies:

* **A foreign trait call can be read as pure** (`check_trait_call`).
  `strip_generics` reduces `<T as Trait>::m` to `::m`.
* **The LSP client can deadlock with its server** (`lsp_deadlock`), although the
  reader thread exists so that "the server never blocks on us".

The rest was met while modelling; the models follow the code, and the properties
are stated so that they hold beside it. Seen as counterexamples in the same modules
with a restriction taken away or other constants:

* *Effects leak through Type edges in the default engine.* `effect_pairs` does not
  filter by `carries_effects`. `EvidenceIffCarried` says how to recognize a leaked
  effect: it has no evidence path. For `hinzu check` this means findings with an empty chain
  and stored rows with an empty evidence path. `Certified` and `RenderingCertified` hold with either
  engine all the same. `AlarmsAreReal`, `SummariesBacked` and `Settled` allow the reference engine
  nothing of this; of the default engine they say exactly what it adds: a finding without a chain is for
  an effect that its symbol reaches by way of signatures only, a row without a path is backed by the
  stored edges with signatures taken for calls, and besides these rows it leaves those of the
  reference engine and no other.
* *A re-run keeps effects of removed code.* Edges and roots are appended and never
  deleted (`store.rs:121`). `Certified` shows that this errs on the safe side.
* *One `--all` run mixes crates.* The "fresh directory" of `rust_adapter.rs:261` is
  named by the process id and not emptied, so the target graph of a package holds
  the crates extracted before it, `merge_target_graphs` does not concatenate
  "disjoint id namespaces" (`main.rs:1117`), and without `--merge-check` a package is
  not matched against "its own target crate" alone. `FromAgreesWithAll` is violated
  without its restriction to packages whose predecessors are spanned: writing
  `util.f` in the crate of the first package makes an --all run count the second
  package's `util.f` as matched.
* *The cap on visits can be reached*, although "widening guarantees convergence well
  below this" (`absint/engine.rs:28`). Widening moves all bounds of one block at a time,
  and what one local hands to the next travels a step per visit: with 70 locals that
  start at 0 and a loop that sets each to the one before it and increments the first,
  the counts stop at 64 and `FixedPoint` is violated, the last locals still at 0.
* *An integer quotient keeps fractional bounds* (`absint/engine.rs:340`). Of
  `if n >= 1 { 3 / (n / 2) }` the analysis takes the divisor to be at least one half, so
  the panic at n = 1 is not reported. This function is among the `Programs`; `Sound` and
  `PanicsReported` except the locals and divisors that a quotient flows into (`Trusted` are the
  others), and `ranges` finds both violated without that exception. How far this reaches is settled
  by proof: of an integer program, nothing else is affected.
* *A negative switch arm of a type narrower than 64 bits is misread.* The arm's bits are read
  `as i64` (`bodies.rs:305`), without extending the sign: in `match x { -1 => 3 / (x + 1), .. }` on an
  `i32` the analysis takes x to be 2^32 - 1 in that arm, the range of x there does not hold -1, and the
  panic is not reported. Such functions are among the `Programs` too; both properties end where the
  running program takes a misread arm (`misread`), and are violated without that exception.
* *A division whose result is written through a projection is never looked at*
  (`bodies.rs:385` lowers the assignment to Unknown): `s.x = a / b` is no `Div` in the body
  facts, so no hazard is reported for it although what it writes is not modelled either.
* *A comparison that overwrites its own operand leaves a stale guard*: `apply_stmt` drops
  the guards on the place first and records the new one after (`absint/engine.rs:255`), and
  that one speaks of the value the place had. It takes a boolean compared with a
  literal into itself, which the compiler does not emit; the proofs assume it away.
* *A file merge between packages is missed when their source files have one name*
  (`portdiff/merge.rs:202` tells sources apart by file alone), and the band RELOCATED,
  which `report.rs:20` says single-crate packages never produce, occurs under
  `--merge-check`. A RELOCATED file can fall to STARTED when its own crate gets code;
  `PortingNeverRegresses` excepts that band.
* *The `__init__` of a class inside a function* is credited to the function
  (`extract.rs:476`), and of a call chained at module level only the outer callee is
  looked up (`treesitter.rs:102`), nor are names looked up that stand inside a name which was, such
  as the f and the g of `f(g).run()`, or the value of a default parameter with a type. The
  header of `treesitter.rs` (lines 16-24) counts calls at module scope, call arguments and
  default parameters among the uses of a value. What a project uses follows that header, and
  `Overlooked`, which `ExactWhenAnswered` excepts, are exactly those uses. Operands, conditions and
  subscripts are no uses by that list itself. A target file whose symbols were once listed as
  empty stays so (`extract.rs:764`).
* *Exports with overloads, or with a class named like the package*, finalize the first
  op of a name for all of them (`helpers.rs:1136`); properties that depend on it are
  guarded by `OpsDistinct`. `any`, `unknown` and `object` become a Json that counts as clean
  (`mod.rs:599`): `OpsCountedHonestly` excepts the ops written with one of them. `Parsed::clean` forgets an inner fallback of inline objects
  and handles, and `string | number` yields references to models of these names.
* *The structural cap on confidence is vacuous for a language without a profile*
  (`explain.rs:49`), and duplicates inside a loose group that is rejected are lost
  with it.

Further, outside the models' instances: a callee in a local crate without a body
counts as seen; an arrow inside a symbol name does not survive the store; with definitions that move between files,
two processes on one `--db` may apply the wrong regions; a shared crate of two
packages belongs to the last; `&mut` passed to a call does not forget what is known of
the referent (`absint/engine.rs:414`); constants above 2^53 round, and arms of a `u64` from 2^63 on
and of 128-bit types are cut to an `i64` as well.

## 5. What is proved

`NaiveEngineProofs`, for every set of symbols and effects (finite) and every
collection of fact sets:

| Theorem | Statement |
|---|---|
| `TypeCorrect` | `[]TypeOK` |
| `EvidenceIsSound` | `[]EvidenceSound` |
| `EvidenceIsAcyclic` | `[]EvidenceAcyclic` |
| `WorklistForgetsNothing` | `[]WorklistCovers` |
| `ResultIsClosure` | `[]ReturnsClosure` |
| `ImplementsEffectEngine` | initial states and steps map to those of `EffectEngine` |

Assumptions: `Symbol` and `Effect` are finite, `FactSets` holds fact sets, and
`Pending` is not a summary.

The argument. `EvidenceSound` is not inductive: prepending a caller keeps a path
genuine, but to keep it simple one must know that the caller is not on it.
`EvidenceInv` adds `PathCarries`: every symbol on an evidence path for e has e
reported already. A caller that learns e does not have it, so it cannot be on
the path. `WorklistCovers` is inductive with `TypeOK`: a popped symbol hands its
effects to all callers, and a caller that learned something is queued behind.
`ResultInv` says that only carried effects are reported and that a returned
search is drained. With an empty worklist `WorklistCovers` says that the symbols
reported for e form a closed set, so they include the carried ones; `ResultInv`
gives the other inclusion. The refinement follows: only `Return` changes what
the abstract module sees, and there the report is the closure with evidence that
`EvidenceSound` vouches for. The operators of the abstract module are those of
another instance of `FactGraph`; three lemmas identify them.

`DbspEngineProofs`, for every finite set of symbols and effects and every
collection of fact sets:

| Theorem | Statement |
|---|---|
| `DbspTypeCorrect` | `[]TypeOK` |
| `FailsClosed` | `[]NeverUnderReports` |
| `MatchesOnCalls` | `[](CallsOnly => MatchesReference)` |
| `EvidenceMeansCarried` | `[]EvidenceIffCarried` |
| `ImplementsOnCalls` | initial states and steps map to those of `EffectEngine` |

The argument. `DbspInv` says that the circuit holds exactly the edges of the facts,
that its pairs are a fixed point of `Round` once it hands over, that each pair is
reachable through the edges it was fed (`RoundsStayReachable`), and that the
summaries are the pairs visited. A fixed point is a closed set, so it holds what
is carried: that is `FailsClosed`, and Type edges can only add to it. Without Type
edges, reachable through the circuit's edges is reachable through uses, which
gives the other inclusion. `AttachedInv` adds that a visited pair has what the walk
may return for it. Whoever carries an effect has a path to a root of it
(`CarriersHavePaths`): the symbols with a chain that visits no symbol twice form a
closed set, since a caller is put before such a chain or is on it, and a chain
without repetition is no longer than there are symbols. Conversely a chain to a root
cannot leave a closed set (`ChainCrosses`). So a walk finds a path for exactly the
effects that are carried.

The same module goes on to `ExplainedEngine`, under the same assumptions and that the
values which stand for "not returned" and "None" are no paths:

| Theorem | Statement |
|---|---|
| `WalksAreShortest` | `ExplainedSpec => WalksExplain` |
| `ExplainedIsHonest` | of the engine with its walks: `FailsClosed`, `MatchesOnCalls` and `EvidenceMeansCarried` |
| `ExplainedImplementsOnCalls` | the same with its walks starts and steps as `EffectEngine` does |

The argument. The level of a symbol is the length of the shortest chain to it from the
start of the walk. `BreadthInv` says of a walk in progress: the predecessors form a
tree that goes up one level at a time (`IsTree`); the queue holds seen symbols in the
order of their levels, which are that of `node` or the next (`LevelByLevel`); and
whoever is not waiting in it has all its uses seen, but for those of `node` still to
do (`LookedAt`). So a chain that leaves the seen symbols does so below the level of
`node`, and only while something is left to look at (`Frontier`). Hence a new callee
is exactly one level further down, a target that is met is at the end of a shortest
chain, and an empty queue means that there is none. `reconstruct_path` meets the start
after as many hops as the level of the target says (`BackClimbs`); that the function it
follows is defined on every number is `BackExists`.

`PortPlanProofs`, for every finite set of files and every collection of graphs
and sizes on them:

| Theorem | Statement |
|---|---|
| `PlanTypeCorrect` | `[]TypeOK` |
| `GroupsArePartition` | `[]GroupsPartition` |
| `CyclesNeverSplit` | `[]CyclesStayTogether` |
| `WavesAreEarliest` | `[]WavesFollowDeps` |
| `PlanNeverPanics` | `[]NeverPanics` |
| `IdsAreAnOrder` | `[]IdsArePortOrder` |
| `GroupsStayHonest` | `[]GroupsHonest` |
| `SearchIsDependenciesFirst` | of the command: `[]DependenciesFirst` |
| `ScheduleImplementsPlan` | the command starts and steps as `PortPlan` does |
| `ScheduleKeepsPlan` | of the command: what `PortPlan` promises |
| `ReportsAddUp` | of `PortProgress`: `[]PortAddsUp` |
| `WritingNeverRegresses` | of `PortProgress`: `[]PortingNeverRegresses` |

Assumptions: `File` is a finite set of numbers, a project's edges are between
files, sizes and `max_group_loc` are natural numbers. Of `PortProgress`: there are finitely
many packages and, in a version of the source, finitely many definitions; a request is of
one of the three kinds, and one for a package names a package of the configuration; the
source starts at version 1. `WritingNeverRegresses` also needs that ids are text, so
that `Precedes` orders those of the target and the packages, that a path defines one target
symbol at most (the extractors key symbols by id), that a package's crates are a
list of names, that the threshold is a quotient of naturals, and that `None`
is neither a band, nor a method, nor a definition record.

The argument. The invariant `PlanInv` adds `StaysAcyclic` (the group graph has no
cycle), `CountersRight` (a counter is the number of dependencies without a wave,
and a group is ready exactly when it has none of them left and no wave itself)
and `IdsRight`. When groups are formed, any nonempty set of groups has a file
that needs fewest files among those in the set. Whatever it depends on in the
set needs as few, so the two need each other and are in one group: the group of
that file depends on none of the others. A merge preserves acyclicity because
its guard has looked at the resulting graph, and the partition because files
move as a whole. When nothing is ready any more, the groups without a wave are
empty: otherwise an acyclic graph would have one among them all of whose
dependencies have waves, and `CountersRight` says that one is ready. So the
`expect` does not fire. Ids count the groups before in the order of wave and
smallest path, which is strict and total since groups are disjoint, and grow
along dependencies since waves do.

`HonestInv` adds the flags and the sizes. A group that is formed is one cycle, and
what `Merge` puts together was measured before: the size of a union of disjoint sets
is the sum of theirs. That needs a theory of the library's `MapThenSumSet`, which
takes away elements in an order of its own: `SumExists` says that the function it
chooses exists on every finite set, `TotalRemove` that any order gives the same.
For the command as a whole, `ScheduleInv` is `PlanInv` beside the invariant of the
search below; a finished search has found exactly the cycles of the graph
(`SearchReportsCycles`), so the hand-over is a `FormGroups` of `PortPlan`.

`ReportsAddUp` is about numbers that different passes compute from different sets. What
joins them is `SumOfParts`: the sizes of the parts of a finite family add up to the size of
the whole when no two parts overlap. From graph to delta: whatever way a source graph comes
about (built from the facts under a directory, filtered to a closure, cut down to a
package), it is `FineGraph`, that is, a symbol is internal exactly if it has metadata, there are
finitely many of them, and each lies in a file of the graph. So the matched symbols fall
apart by their file, those of a file by the target file they landed in, the files by their
wave, and every count is one of the same symbols (`PortDiffFine`). Over packages what is
counted are pairs of a package and a path, since two packages may have files of one
path (`PackagesCounted`). A delta has a row for each of them on either side (`PackagedRows`),
and a file is added or removed exactly if one band is missing, which is why no band may be
`None`. `ProgressInv` says that the report that is kept answers the request, whatever was
edited since, and that the delta came from the two last ones; by itself `PortAddsUp` says
nothing about the report that the next delta will be taken from.

`WritingNeverRegresses` compares two whole reports, one over the other's target and more.
More code is a larger graph, per crate and merged, and so a larger index: sorting loses
nothing (`SortedLists`), though positions move. A symbol is matched exactly when
its leaf lands on some entry (`MatchLands`), whichever tier claims it, so matches stay. The map of
a file does not only grow: a vote that is split among more modules can fall under
0.5 and unmap a file. But a file that was mapped has a module of its name, which
stays, or a leaf that lands (`MapMethod`), and then it has a match and is STARTED all
the same: `ClassifyGrows` says that the band has not fallen before relocation is
looked at. `PackageKept` says so of a package, `AnswerKept` of the answer to each
request, and `CompareKept` carries it into the rows of the delta. What makes it an invariant is
`GrowthInv`: as long as only writes happened since the last run, the report that was kept
is the answer for a part of what is written now.

The component search, in `PartitionProofs`, for every finite set of nodes and every
graph on it:

| Theorem | Statement |
|---|---|
| `SearchTypeCorrect` | `[]TypeOK` |
| `ComponentsInOrder` | `[]DependenciesFirst` |
| `ComponentsAreCycles` | `[]WholeCycles` |
| `EveryNodeEmittedOnce` | a finished search has put every node into one component |

The argument is Tarjan's, for the loop with explicit frames. `SearchInv` says: the
Tarjan stack holds the nodes with `on_stack`, in the order of discovery (`StackInv`);
the frames are a path in the graph, and only the last may be new (`WorkInv`); no edge
leads from a finished node to an undiscovered one, nor out of what is emitted
(`ClosedInv`); a node on the path needs all that was stacked after it, and whatever is
on the stack needs a path node below it (`NeedsInv`); a low link is the number of a
stacked node that its owner needs, and on the path above no low link misses an edge
that was looked at (`LowlinkInv`). When a frame closes with `lowlink = index`, the
second part of `LowlinkInv` says that no edge from it or from what is stacked behind it
leads below it, and `NeedsInv` that all of these need it and are needed by it: they are
a whole cycle, and what they depend on is among them or done (`RootOwnsCycle`).

The disjoint-set forest, in the same module, for every number of signatures and every
sequence of pairs:

| Theorem | Statement |
|---|---|
| `ForestTypeCorrect` | `[]ForestTypeOK` |
| `FindTerminates` | `[]FindEnds` |

The argument. `FindEnds` says that a member below another has the smaller tree, as
counted when it was last a root. Linking hangs a root under one of at least its
size and adds the sizes, halving lets a member skip its parent for a larger one; both
keep sizes strictly growing upwards, so a climb passes each size at most once. The
invariant adds that `find` stands on a member and that a root it found is one.

The similar command, in the same module, for every invocation, every choice of candidate
pairs and all documents:

| Theorem | Statement |
|---|---|
| `ClustersKeepPromise` | `[]ClustersAsPromised` |
| `ReportsAreFair` | `[]ReportFair` |
| `SimilarDrivesForest` | `SimilarSpec => ForestSpec` |
| `SimilarFindsEnd` | `[]FindEnds` |

Assumptions: `RequestAssumption` (the lists of an invocation are finite sequences, its
extractor is one of the three there are, its bars are integers, `score_pair` gives a
natural number of thousandths for two signatures that may meet, a signature's id is a
number, its rank among the symbol ids, and what is known of a type is in one place). The code's
score is a sum of nonnegative weights times ratios between 0 and 1, and
`library_extract.rs` collects the facts of a type under its file and name. What a signature is,
and which pairs become candidates, is left open.

The argument. While pairs are united (`LinkInv`), the sets that cut neither a parent from
its child nor a pair still waiting are the sets that cut no pair over the threshold
(`Connected`): halving changes neither (`HalveConnects`), and a union links the two roots of
a pair in place of the pair (`UniteConnects`), which needs that the running find is in
the tree it started in (`FindStands`). When no pair is left, the groups `find` gives are
the components of those pairs (`GroupsWhenLinked`). That needs `FindEnds`: where parents are
larger than their children, the root a find returns is in the tree of its member
(`RootFound`). Cohesion at the gate is a statement without a quotient (`GateIsDense`), and
the parts `split_by_threshold` makes are the components of the pairs at the gate
(`PartsAreComponents`), each smaller than the group that is split (`SolidIsSmaller`). So a
smallest set for which `refine_cohesive` breaks its promise (`Promise`) does not exist:
those of its parts give that of the set (`SplitKeepsPromise`, `RefineKeepsPromise`), and
those of the components that of the document (`AllRefined`). The last conjuncts, that
nothing goes missing uncounted, compare a number of sets with a sum over them
(`SumCounts`). `ClustersAsPromised` by itself is not inductive, since it speaks of the moment
after the refinement only: `SimilarInv` adds the forest before it, and that the compared
pairs are pairs of kept signatures with a score. Signatures and pairs
are put in order by their rank, the number of those before them, and every rank is
taken by one (`Ranks`, `PairsInOrder`).

`ReportFair` is about the end of a run, so its invariant `FindingsInv` follows each finding
from the document it comes from: what is kept passed the filter (`KeptInv`,
`ScoreFilters`), so the profiles at hand include that of each cluster's language
(`ProfilePresent`), and `explain_cluster` gives a family of that language and a
confidence that a profile without resolved types caps (`ExplainFair`, `FamilyFits`,
`ConfidenceCapped`: doubts only take away). That the first member exists, by which findings are
sorted, comes from `ClustersAsPromised`. Each analysis made is fair (`OutputsInv`), and
the merged report lists all of their candidates. The order leaves ties open, so the model
chooses any sequence in that order, and the proof has to show that there is one
(`SortExists`, by taking a last element of a smallest set that cannot be sorted). The advice names a
type with the impls it replaces only for a derive (`AdviceIsDerived`), and no pattern besides
thiserror's touches the `Display` of a type that has an `Error` impl (`DerivePatterns`,
`AdviceIsFair`).

`LspClientProofs`, for every number of calls and of messages the server sends, and
every size of the two pipes:

| Theorem | Statement |
|---|---|
| `LspTypeCorrect` | `[]TypeOK` |
| `CallsGetOwnAnswer` | `[]OwnAnswer` |
| `FramesNeverMix` | `[]FramesIntact` |
| `ExitReportedLast` | `[]ExitIsLast` |

Assumptions: the pipes hold at least one piece, and `Nobody` is neither a thread nor a
frame nor a message.

The argument. The invariant `IInv` has three parts beside the types. `Mutex` says that
whoever is between header and body holds the stdin mutex, and nobody else does.
`NumberedEverywhere` follows a request on its whole way: in the pipe, at the server, in
its answer and in the map of responses nothing carries an id or a number that is not
given out yet, and while a request is under way exactly its own traces carry the last
id. So what `wait` removes by id belongs to the call that waits, and no answer to it
is left when it gives up. `LineInv` describes what the server has read of a frame
followed by the pipe: headers and bodies alternate and match, and the line ends in an
open header exactly when a thread is about to write that body. `Mutex` lets a header
follow only a closed line. `FramesIntact` alone is not inductive: it does not say whose
frame is open. `EndInv` adds to `ExitIsLast` that the reader has ended, after which
nothing is taken from stdout or put among the responses.

`CheckPipelineProofs`, for every set of processes, some without `--db`, some with a file of
their own and some that share one, all programs and all documents over finite sets of symbols and
effects:

| Theorem | Statement | Hypotheses |
|---|---|---|
| `TypeCorrect` | `[]TypeOK` | |
| `SummariesNeverExceedFacts` | `[]SummariesBacked` | |
| `FailClosed` | `[]Certified` | `NamesTellApart`, `FilesStay` |
| `RenderingIsCertified` | `[]RenderingCertified` | `FilesStay`, `ComponentsStay`, `ComponentsUnannotated` |
| `FreshAlarmsAreReal` | `[]AlarmsAreReal` | `OwnRootsKnown` |
| `LoneChecksSettle` | `[]Settled` | |

Assumptions: `Symbol` and `Effect` are finite, no file is a process without one, an extraction is typed, its seams are
among its edges and its components are defined, a document is typed, a name is cut at its
arrows into at least one piece, and `SeedsAssumption` of `PolicyCheck`. The hypotheses say where the
promise holds, and each is met in every scenario of `check` (`Settled` speaks of the checks
whose store no other process has, which is part of the property):

* `NamesTellApart`: no foreign symbol passes for one with a body because of its crate
  or its stripped name. It excludes what `check_trait_call` finds.
* `FilesStay`, `ComponentsStay`: no two processes share a `--db` file, or the
  revisions that meet there agree in which file a definition is and on which of them are
  components. Otherwise a check may load what another one has just replaced, and apply
  that one's region.
* `ComponentsUnannotated`: no rule names a component. `seed` looks at callees alone, so
  an annotation on a component that nobody calls is no root.
* `OwnRootsKnown`: extracted roots carry real effects. Both drivers emit no other; only a
  facts file written by hand could declare an `Unknown` root.

The argument. *Seeding leaves nothing out*: a symbol nothing accounts for is either
called without resolution or unseen, so a callee with it is a root of `Unknown`
(`SeedsCoverTruth`); what carries an effect in `Truth` carries that effect or `Unknown`
in the seeded facts. *The store only grows*: `Covered` says that from the insertion on
the store, then the loaded facts, hold all that the process found in its own program,
and say of its definitions what it says. The three SELECTs are separate steps, so the
invariant is about each table from the moment it is read; another check between two of
them adds rows, and with `FilesStay` replaces none by a different one. *Reports are
honest*: the effects reported are those carried by the facts the engine is fed, among them all that
the facts themselves carry, since forgetting the kinds of edges only adds uses (`CircuitCarries`,
`CarriedIsReported`). The evidence comes from a fold over the pairs that are carried, and
`EvidenceChoicesAre` shows that whatever order the fold takes, it yields exactly the functions from
these pairs to honest paths; the pairs besides have the empty path, which no other pair has
(`NoPieces`, `SomePieces`). So a row or a finding tells by its path which of the two it is. *Verdicts say it*: a governed definition that carries a forbidden effect or
`Unknown` has a finding with severity error (`CheckFlags`), whatever region wins. The
chain of these four is `FailClosed`. `SummariesBacked` needs `Backed`: what a process has
loaded, or reported, is in its store still. `FreshAlarmsAreReal` uses the converse
inclusions (`Exact`): a store of one's own holds nothing else, so each root of an evidence
path has the reason for which it was seeded. A finding without a chain has a root too:
whatever is carried is carried from one root alone (`SomeRootCharges`), along uses of the circuit,
and along none of the program, since otherwise there would have been a chain. For components the search is for a shortest
path: `UsePathWalks` and `ShortestPathExists` show that a chain of uses, of any length,
contains one without repetitions that no other undercuts, so the rule finds something
wherever there is something to find. `LoneChecksSettle` sharpens `Backed` to equality
(`Undisturbed`): what a lone check has read is the whole of its store when it writes, and
the rows of an answer are in bijection with the pairs that are reported, those with a path
with the pairs that are carried.

`LspExtractProofs`, for every project, every language configuration, every number of
requests that fail while the server lives, and every behaviour of the server:

| Theorem | Statement | Hypotheses |
|---|---|---|
| `TypeCorrect` | `[]TypeOK` | |
| `NoEdgeDangles` | `[]EndsAreDefined` | |
| `ExactUnlessLost` | `[]ExactWhenAnswered` | `NamesApart` |
| `LostFilesShow` | `[]LostFileUnderModule` | `NamesApart` |

Assumptions: `MaxLosses` is a number, and `ProjectAssumption`: the globs find finitely
many files, a symbol has a span and a selection line, outgoing calls are listed in
sequence, and a node of a syntax tree refers to at most one place, as
`resolve_definition` takes at most one. The hypothesis `NamesApart` says of a file that
no two functions or classes in it are named on one line, and that what is around the
name of one spans more lines. The code tells symbols by line alone (`def_at`,
`qualname_at`), so of a class and a method written on one line it cannot know which is
meant. The project of `lsp_extract` meets it. A use that is not told apart by the code
although names are apart (a field of a class, say, which is read as its class) is a
`Misread` one, and is excepted in the statement itself, as are the uses that no pass looks at
(`Overlooked`, see section 4).

The argument. `Ends` follows an edge on its way: its caller has a definition, or is the
`<module>` of the file that is being read, with `module_used` set, so that `NextFile`
will define it. For the other two theorems the state is `Clean` if as many requests
failed as files lost their definitions. Every such file took a failed request
(`Counted`), so a state can only be clean if all states before it were (`CleanBefore`),
and a clean step cannot have given up a request that had an answer. In clean states
`Found` holds: the cached symbols of a file are those of the file; every use of a
callable or a site that was passed is among the facts, or waits to be classified
(`SeenCalls`, `SeenRefs`); and, if nothing was lost at all, every edge and root has a use
of the project that accounts for it. The step is `RightlyRead`: with `NamesApart` the
innermost definition around a named line is the one that is named there
(`InnermostNamed`), so the callee found by line is the one told by symbol. That an effect
root keeps the first value it got does no harm, since the effect of a symbol depends on
the symbol alone (`RootValues`).

`AbsIntProofs`, for every collection of bodies, all sizes of doubles and every bound on
the integers that have doubles of their own:

| Theorem | Statement |
|---|---|
| `IterationStaysTyped` | `[]IterationTyped`: entry states map locals to numbers, counts stay within the cap, queued blocks are reached |
| `EdgesSettle` | `[]Converging`: an edge of a block that is not queued has settled, or its target is capped |
| `FixedPointUnlessCapped` | `[](Uncapped => FixedPoint)` |
| `RunFollowsAnalysis` | `[]RunInv`: what the analysis has before a statement holds the running program's values |
| `SoundOnIntegers` | `[](Uncapped /\ WholeProgram => Sound)` |
| `PanicsAreReported` | `[](Uncapped /\ WholeProgram => PanicsReported)` |

Assumptions: `DoublesAssumption` and `InfAssumption` of `Interval` (1 is among the exact
doubles, the finite ones lie below infinity), `BodiesAssumption` (in a lowered body the
ids of locals and blocks are in range and constants are numbers), `WordsAssumption`
(an integer of the program has a double of its own, as those up to 2^53 have; a caller
passes integers for integer types, 0 or 1 for a boolean) and `NarrowAssumption` (the number of
values of a narrow type is itself such an integer, as 2^32 is, and a caller passes values of
the type). The hypotheses say where the promises hold:

* `Uncapped`: no count has reached `MAX_VISITS`. Section 4 shows a body for which one does,
  so the hypothesis cannot go; every body of `ranges` meets it.
* `WholeProgram`: arithmetic is on integers, literals and switch arms are integers of the type
  they are compared with, negative ones of narrow types included, and no comparison is written
  over its own operand. Locals of a type that is not modelled may occur. Most functions of
  `ranges` are of this kind; the others compute with doubles.

Two exceptions are in `Sound` and `PanicsReported` themselves, for the reasons in section 4.
`Trusted` is the largest set of locals such that what is assigned to one is computed from others
in it, and not by an integer division: of the locals outside it nothing is promised, nor
of a division by one of them. And nothing is promised of a program once it has taken a `misread`
arm; until then, and in all its other arms, it is.

The argument. First the domain is closed: rounding yields a double or an infinity, NaN
appears only where the operators look for it, and so every operator of the domain, every
transfer, guard and refinement yields numbers (`RoundIsDouble` to `SuccessorsAreEdges`).
Then the order: a join has both its arguments `Within` it (`JoinIsNumber`), a widening has
the newer one (`WidenIsNumber`), and `Within` is transitive although a hole may be kept,
moved to 0 or dropped on the way (`WithinTransitive`): a point that the larger number
excludes is one the smaller excludes too. One edge (`FlowAdvances`) settles itself, and
what it changes is `Grown`: entry states and counts only grow, and a block whose entry
state changed is queued. So settled edges stay settled (`SettledStays`), and after all
edges of the popped block each of them is (`FlowedSettles`). A block off the queue has the
entry state its edges were computed from, which is `Converging`. `FixedPoint` by itself is
not inductive: it says nothing while the worklist holds a block. What the code computes
with loops over statements and edges is a recursive function here; that it exists and what
holds of all its values is shown by `IterationExists` and `InductionUpTo`.

For the running program the relation is `Holds`: a value lies between the bounds of a
number and is not its excluded point. Every operator of the domain holds the program's
result if its arguments hold the operands (`SumHolds`, `DifferenceHolds`, `ProductHolds`,
`RemainderHolds`, `NegationHolds`). An exact integer result has a double of its own and rounding is
monotone around it, so a rounded bound cannot pass it; a product lies between two of the four
of the bounds (`CornersAround`); and a hole survives an addition only if no integer can
fill it. `ComparedHolds` is the refinement: what a comparison that came out true leaves of a number
still holds the value compared, in all six comparisons, either order of operands, denied or not
(`ComparisonsAgree`). A guard that is kept states what its boolean holds (`GuardHolds`): an assignment to either
side drops it, which is why `apply_stmt` must. So a statement and its transfer go together
(`StatementFollows`), and wherever a terminator takes the program an edge leads whose state
holds its values (`BranchFollows`). The report is made when the worklist is empty, and then
the fixed point says that this state is `Within` the entry state of the next block, which
therefore holds the values too. A switch leads to an arm whose value is
that of the program, or to a misread one; what a misread arm is pinned to is no value of the type, so
it takes nothing from the other arms (`SwitchValues`). `RunInv` is this, at every statement of every block until an arm is
misread, beside `IInv`, the entry state of block 0 (`Entry`) and that the report is the summary of
the present entry states (`Phases`). That the values stay integers of the program is `ComputedAreWords`. `Sound` by itself is not inductive, since it speaks of block entries alone and
not of guards. From `RunInv` it follows that each trusted value is covered (`HoldsCovers`, `RunInvSound`). A division that panics has 0 as its divisor, which is
held by the number the report looked at; that is the whole proof of `RunInvReports`.

Only model-checked: liveness (`Finishes`, `DropCompletes`, `DeathUnblocks`, the
liveness halves of `ImplementsTrait` and `ImplementsPortPlan`), which needs
fairness and ENABLED; of `AbsInt` what `Sound` and `PanicsReported` say of programs that compute
with doubles; of `PortProgress` `FrontierFollowsPlan` and `FromAgreesWithAll`;
everything about `FluessigExport`. RECURSIVE operators occur in the Fluessig modules only, where types are trees.

## 6. Not modelled, and what is left

* `--cache-dir`: a file is used when it exists and written in place. Nothing in the
  repository says how fresh a cached graph is, so there is no property to state;
  the hazard is listed.
* `merge_graphs` (`graph/merge.rs:33`): no command calls it.
* Matching of names against annotation rules, globs, TOML, JSON: they enter as
  constants that say what a name or a path matches.
* Adapters that shell out and parse (`ts_adapter`, `py_adapter`, `go_adapter`, the
  TypeScript scripts), effect facts and signatures of the compiler driver, the LSP
  API extractor, rustdoc and syntax-tree conversion, text emitters and HTML pages:
  pure translation or pure I/O, in which TLC has nothing to interleave.
* Left to prove: `Sound` for floating-point programs, which needs that rounding is monotone
  between any two values and that NaN is tracked; the two other properties of `PortProgress`. Those of
  `FluessigExport` stay with TLC, since its types are trees and the operators on them are
  RECURSIVE.
