# C4: specifications of the compiler and of the threads it stands on

C4 compiles a small C-like language to x64 code. It builds one sea-of-nodes
graph per function while it parses, rewrites every node as it is made, and hands
the graph to a back end that moves code, schedules it, colours it and encodes
it. Below it is a runtime layer of its own, with threads that run in step, a
cache of artifacts and files that are read through it. This directory models
both in TLA+, checks the models with TLC and proves properties of them with
TLAPS. Paths are relative to `src/src/`.

Contents: 1 the system, 2 the modules, 3 the runs, 4 fairness, 5 the proofs,
6 what the models show about the code, 7 what is not modelled, 8 the plan.

## 1. The system

**The compiler** runs on the main thread. `bin/c4_bin_entry.c` parses all files
(`module_add_file_and_parse`), then generates code for every function
(`sea_codegen_module`), then calls the function named `simp`.

| part | state it keeps | operations | talks to |
|---|---|---|---|
| node graph `sea/sea_node.c` | nodes with inputs and user lists (every edge twice), the map of equal nodes, `node_count` | create, `set_input`, `append_input`, `remove_input`, keep, unkeep, kill, subsume, dead code elimination | everybody; frees nodes through its own recursion |
| peepholes and types `sea/sea_peeps.c`, `sea_compute.c`, `sea_type.c` | types of nodes, the table of canonical types | compute the type of a node, replace it by a constant, an equal node or a simpler one | called on every creation; creates nodes, so recursive |
| scope manager `sea/sea_scope.c` | scope nodes: current control, one slot per variable; a symbol table per block; pools | push, pop, insert, lookup, update, duplicate, merge, end of loop | the parser; makes phis |
| parser `front/parser.c` | the C stack of statements, the current scope | expressions, blocks, if, while, return, functions, structs | scope manager, graph, symbols |
| symbols `sea/sea_module.c` | buckets and queue of entries, queue of functions | lookup, add, add function | parser, encoder, jit |
| code motion and scheduling `sea_instr_select.c`, `sea_codemotion.c`, `sea_dessa.c`, `sea_list_sched.c` | a clone of the graph, `idepth` of nodes, blocks | select, schedule early and late, copy for phis, order the nodes of a block and the blocks | one after the other; they read what the front end left |
| allocation and code `sea_ra_linear.c`, `sea_encode.c`, `sea_x64*.c` | live ranges, colours, code bytes, patches | intervals, colours, encode, patch jumps and calls | the schedule |

**The runtime layer** has threads. `base/base_entry_point.c` starts
as many asynchronous threads as there are processors besides the main thread's,
at least one. It calls the cache and the file stream if they are compiled in; c4
leaves them out, so that its lanes go through rounds without ticks.

| part | state it keeps | operations | talks to |
|---|---|---|---|
| lanes `base/base_entry_point.c`, `base_thread_context.c` | a barrier, one word of shared memory, `async_loop_again`, `global_async_exit` | `lane_sync`, `lane_sync_u64`, the round of `async_thread_entry_point`, the wait for its start, the end | the ticks of the layers run on all lanes |
| synchronisation `os/core/linux/os_core_linux.c` | a condition variable is one of pthread and, for waits under a read-write lock, a mutex of its own | timed waits, broadcast, barrier | lanes, cache |
| artifact cache `artifact_cache/artifact_cache.c` | slots of nodes under stripe locks, batches of requests of two priorities | look-up (fast under the lock for reading, slow under that for writing, with a wait), the tick of the lanes: evict, gather, wide and thin requests, leftovers; the cancel thread | clients, lanes; calls a create function |
| file stream `file_stream/file_stream.c` | by path: the stamp of the last read, a generation | read a range between two stamps, look for changed files in each tick | is a create function of the cache |

Hard behaviours of the compiler are long sequences of legal calls: a kill in the
middle of an edge update, a node held by nobody but a C local, scopes that must
still correspond slot by slot after blocks, branches and loops, phis made before
the code they join is read, rewrites that feed rewrites, tables that change when
they are read, integer edges in the compiler's own arithmetic, depths of
dominators that are cached before they are known, loops and branches nested in a
way the block order does not expect, registers that two values share.

Hard behaviours of the runtime layer are interleavings: a lane that is still
reading the shared word when the lead wants to write it, a broadcast nobody
hears, an end that is announced while the lanes wait, a retry of a request its
clients have given up, an eviction beside an access, a file that changes between
two stamps, two locks taken in both orders.

What makes each part correct:

- graph: the two copies of an edge agree; no node in use is freed; a kept node lives; calls end;
- scopes: a variable stands for a node with its value on every run; Asserts hold; phis are complete;
- peepholes: the rewritten expression has the value of the source, and a type holds the value of its node;
- symbols: every function is found when its code is placed, and the jit calls the last one;
- code motion: a value is computed where all its uses can see it, in the fewest loops; every node is scheduled once; jumps follow the graph;
- registers: a value is in its register when it is used; the code returns what the graph computes;
- lanes: nobody starts a segment early, all have the lead's value, all leave together, nobody is left;
- cache: an artifact somebody holds stays; one request per node; a change is noticed; clients do not block each other.

`PROJECT.json` lists all components and, under `hazards`, the places where one of
these can go wrong with the property that would notice. Section 6 names a few
more that no property covers.

## 2. The modules

| module | models | state against the code |
|---|---|---|
| `SeaGraph` | `sea/sea_node.c` | `kind`, `inputs`, `inputlen`, `users`, `keeps`, `count` are the fields of `SeaNode` and `node_count`; `stack` is the C call stack, one frame per call that has locals to keep |
| `SeaScope` | `sea/sea_scope.c`, the statements of `front/parser.c`, phis and regions of `sea_peeps.c` | `curr` is `m->curr`, `frames` the active parse functions with the scopes they hold, `nodes` and `table` the graph and the node map as far as loops, regions and phis need them |
| `SeaSymbols` | `sea/sea_module.c`, the entry look-up of `sea_encode.c`, `sea_jit.c` | `cells` the chains, `entries` the queue, `functions` and `encoded` the progress of code generation |
| `SeaRange` | integer types of `sea_type.c`, `sea_compute.c` | operators only: ranges and the transfer function of each operation |
| `SeaPeephole` | `sea_idealize_int`, node map, expressions of the parser | `nodes` with type, `exprs` the results so far |
| `SeaMotion` | `sea/sea_codemotion.c`, `sea_node_set_input` and the predicates on nodes it needs | operators on a function graph: nodes, users in the order of the code, `idepth`, what stopped the compiler |
| `SeaCodegen` | the passes of `sea/sea_codegen.c` for functions with branches and loops: `sea_instr_select.c`, `SeaMotion`, `sea_dessa.c`, `sea_list_sched.c`, `sea_encode.c` | `fn` the graph, `scope` and `frames` the parser's, `phase` the pass, `code` the blocks, `cpu` a run of the code |
| `SeaLinear` | `sea_ra_linear.c`, masks of `sea_x64.c`, `x64_encode`, order of `sea_list_sched.c` | `sched`, `lastuse`, `colour`, `active` as in the code, `regs` the machine |
| `BaseTeam` | abstract: threads that go through segments together until they leave | `at`, `finished`, `leave` |
| `BaseLanes` | `base_entry_point.c`, `lane_sync` and its kin, the barrier and the timed wait of `os_core_linux.c` | `pos` where a lane is in its round, `arrived` and `released` the barrier, `memory` and `own` the shared word and the locals it is copied to, `wake` the lead's wait, `main` the main thread |
| `ArtifactCache` | `artifact_cache/artifact_cache.c`, accesses of `base_thread_context.c`, waits on a read-write lock | `node`, `batch`, `tasks`, `hand` a node, the batches, what is left in this tick, what a lane works on; `pc`, `call`, `need`, `got` the clients' locals; `writer`, `mutex` who holds what over several steps |
| `FileStream` | `file_stream/file_stream.c` over `ArtifactCache` | `info` by path: known, whether the stamp is that of the file, generation |

How they fit together. `SeaCodegen` EXTENDS `SeaMotion` and runs its operators as
two of its actions. `SeaPeephole` EXTENDS `SeaRange` and computes types with it.
`FileStream` EXTENDS `ArtifactCache`: the actions of the cache take what the
create function adds as a parameter (`Begin`, `Complete`, `Resubmit`), and
`FileStream` puts `Init` and `Next` together. `BaseLanes` implements `BaseTeam`:

    Team == INSTANCE BaseTeam WITH
              at <- pos, finished <- arrived \cup released, leave <- own[Lead][Decide]

Modules ending in `MC` hold the values TLC needs, those ending in `Proofs` the
theorems; `SeaScopeSafetyProofs` builds on `SeaScopeProofs`.

*SeaGraph.* `sea_node_set_input` kills the node it drops when that had no other
user; `sea_node_kill` drops the inputs of the dying node by `sea_node_set_input`.
A call is therefore not atomic: one step of the model runs from a call or return
to the next, a frame keeps what the C function has in its locals, and a client
may call only when the stack is empty. Clients are every call the repository
makes. `Spec` allows a client to store a node nobody holds (`Store`, which is
`sea_scope_update_symbol` with a node from the map), `GuardedSpec` does not.

*SeaScope.* One action per statement or per opening and closing part of one. The
program is whatever sequence TLC takes. Two ghost variables follow one run of
the compiled program, chosen while the text is read: `env` is what the variables
mean, `val` what each node evaluates to. `on` says the followed run comes through
here. A loop's phi gets its value when the loop is entered, a new node a value
of its own. Control is a constant (live or dead) unless it is a loop or region.

*SeaSymbols.* The walk `*cell = (*cell)->next_hash` does not move a cursor but
the bucket's head. `Walk` is what it leaves, and `Lookup` is an action that
writes.

*SeaPeephole.* Integers are a few bits wide and wrap like the 64 bits of the
code. `val` and `means` are functions from the values a run starts with, so a
state speaks about all runs at once. `sea_create_bin_op` calls itself through
`sea_idealize_int`: `BinRules` are the rules, given what the creations they ask for
come to, and `CreateBin` is four levels of `Rewrite` over them. A fifth open call
would set `fault` to "deep", which `TypeOK` excludes.

*SeaMotion and SeaCodegen.* A program is read statement by statement into a
graph, as in `SeaScope` but without rewrites: every operation is another
operator. Then one action per pass. Order matters in these passes (the first
user in the list is the one a jump goes to, the newest is in front), so users
are sequences in the order the code builds. `sea_node_idom` writes the cached
depth of a node as it goes by; operators that do so return the graph after them,
and the ghost `stale` notes a depth that was made from a missing one. They are
cut into small operators with parameters, not LETs, since TLC's statistics of
actions unfold a LET wherever it is used. `cpu`
executes the code: it takes either side of a branch and records which values it
has computed. The two functions that end without `return` are modelled as
gcc's unoptimised code has them, the build of `build.sh`.

*SeaLinear.* Registers hold the node whose value is in them, or junk. `Encode`
executes an instruction when it is emitted, with the code's choice of move
and destination.

*BaseLanes.* A segment is what a lane does between two barriers. `Arrive` does
the segment and enters the barrier, `Return` is the lane running again after the
last one has come, so fast lanes can be a segment ahead of lanes the barrier has
let go but that have not run. The segments of the layers' ticks are the constant
`Tick`. `lane_sync_u64` is two segments, a put by the lead and a get by the
others. The lead's wait for a new round is three steps, between which the main
thread may broadcast, set `async_loop_again` or `global_async_exit`.

*ArtifactCache and FileStream.* One slot of one cache under one stripe. A step is
what a thread does under one lock, or from one use of shared memory to the next.
`Fast` and `Slow` are the two paths of `ac_artifact_from_key_`; `Sleep`, `Wake`,
`Relock` are the wait under a read-write lock, which takes the mutex of the
condition variable while holding the stripe's lock and the lock again while
holding the mutex. Time is left open: an artifact without accesses may expire at
any time and a wait may end at any time. Data is what matters about it:
`nothing`, `same` as the file has, or `other`; `Write` turns what was the same
into other, wherever it is kept. A stamp is modelled by whether it is the file's.

Operators under the word "Mistake:" are wrong forms of the definition after
them. No specification uses them. They are put in its place one at a time to see
that a property notices.

## 3. The runs

| run | question | bounds | states |
|---|---|---|---|
| `graph_calls` | do both copies of an edge agree through all nested kills, is the Trap of `sea_node_remove_user` out of reach of acyclic graphs, and does the recursion end on every graph, cyclic ones too | 3 nodes, 2 inputs, 1 keep | 54 882 |
| `graph_keeps` | if clients store only what they keep or what cannot die, does every input live, and every kept node | 4 nodes, 2 inputs, 1 keep | 1 769 613 |
| `scope` | does a scope mean what the source means, with constant and other conditions; is reached code live; do Asserts hold; are phis complete; do scopes that meet correspond slot by slot; does a loop that is read keep one phi per variable | 2 names, 4 statements, 9 nodes, depth 2 | 374 669 |
| `symbols` | is a name alone in its bucket found and entered once, does the jit find the last function | 4 names of which 2 share a bucket, 5 entries, 3 functions | 112 761 |
| `symbols_lost` (violation) | is every function found | as above, 4 entries | 109 |
| `peephole` | are types sound, do rewritten expressions keep their meaning and reach the canonical form | 3 bit integers, a parameter and the phi of an open loop, literals 0, 1, 2, three more expressions of `+ - * / neg < == !` | 147 300 |
| `peephole_mod` (violation) | are remainders typed soundly | 4 bit integers, 7 expressions | 2 421 |
| `codegen` | are values placed where the paths allow and where the loops are fewest, scheduled once, and does the code follow the graph | 1 variable, 4 statements, 2 operations, depth 2 | 63 516 |
| `linear_code` | do live ranges cover uses, are colours in the masks, does the code return the right value | 3 parameters, 7 nodes, `AddI Add CmpEqI`, 4 active ranges | 58 390 |
| `linear_share` (violation) | do two live values have two registers | 1 parameter, 5 nodes | 831 |
| `lanes` | do the lanes implement the team, do all have the lead's value, is a request gathered and does the program end | 3 lanes, a tick of five segments with two broadcasts | 21 956 |
| `artifacts` | are accesses counted right, has a node one request at most, is a change noticed, in which way can clients block each other | 2 clients, 2 lanes, 2 files, 2 generations | 974 650 |

Why the bounds are enough.

- *Graph.* Four nodes of two inputs give a chain of three nested kills with a
  node shared by two of them and a cycle beside it; three are enough for the
  edges, which the proof has for any number. Addresses are symmetric, except
  that of Start, and freed addresses are used again.
- *Scope.* Four statements at depth two give an if in a loop, a loop in an if,
  shadowing in either and returns in any branch; two names are what a phi that
  mixes up two slots needs.
- *Peepholes.* Three bits hold both bounds of overflow and the products that
  pass them.
- *Codegen.* Four statements at depth two give every nesting of if and while with
  a value before, in and after them; two operations are what a value moved
  past the place of another needs. Two variables with three statements, for phis
  that are swapped, were run as well (71 570 states) and pass.
- *Registers.* Seven scheduled nodes hold two sums that are live together with
  three parameters; four active ranges instead of sixteen let the test for too
  many be reached.
- *Lanes.* With three, one is the lead, one can be ahead and one behind. The tick
  has each kind of segment, and two broadcasts one after the other, the only way
  for the shared word to be written while it may still be read. The proof has
  any lanes and any tick.
- *Artifacts.* One file is written and asked for fresh, thin and with low
  priority; the other never exists and is asked for wide, with high priority.
  Two clients can meet in the look-up of one key, one generation later than the
  other. A third key would let an urgent request stop the lanes between two
  wide requests of low priority (`StopWide` true); with it the run does not end in
  reasonable time, so that case is in the model and not in the run. That of thin
  requests is in the run.

`lanes` checks for deadlock: only an ended program may stay as it is. The others
do not: a finished function, a full program, a dead compiler or clients that hold
what they have are ends of a behaviour, and clients that block each other are
what `OnlyInversion` is about.

## 4. Fairness

`graph_calls` needs `WF_vars(Return)` on the steps that continue the C stack. A
C function that was called runs on; no scheduler could stop it. The clients are
not fair: no parser has to make another call.

`lanes` checks `FairSpec`: the operating system runs every lane (weak fairness
of each lane's steps), the lead's steps at the start of a round, of which the end
of its wait is one because the wait has an end time, and the steps by which the
main thread finishes what it began (`Tell`, `SetAgain`, `TellExit`, `Join`). The
main thread need not end and need not ask for anything. Weak fairness is enough:
a lane that can arrive or return can do so until it does.

## 5. The proofs

All proofs are for any value of the constants. Each theorem rests on an inductive
invariant, with one lemma per action.

*The node graph.*

- `SeaGraphProofs`: `TypeCorrect`, `DefUseHolds` and `Invariance`. `DefUse` is
  not inductive: it speaks of states in the middle of a call, where an edge is
  out of the user list and still in the array. `IInv` adds what the frames may
  assume about the graph they return to (`StackInv`): which functions stand
  on top of which (`CallShape`), that a frame which will unkeep has kept
  (`HoldsKeep`), that the node `sea_node_remove_input` works on has its length
  still (`RemoveOpen`), that an edge being replaced is still in the array
  and is replaced by one call only (`PendingFull`, `PendingOnce`), and that a
  kill has cleared the slots it has passed (`KillCleared`). Assumption:
  `GraphAssumption` (one Start, lengths within the bound).
- In the same module `TrapOnCycle` for `Spec`, `NothingDangles` and the action
  property `KeptNodesSurvive` for `GuardedSpec`. The first adds `Chain`: a kill below
  the top of the stack waits for a `sea_node_set_input`, and that for the kill of the
  node its slot still holds. The frames of a chain are then a path of edges, so that
  the slot which traps lies on a cycle. The other two add `MemInv`: a node that is
  not alive has no users, keep entries or slots (`Gone`, `Unset`); a slot that no
  frame is replacing holds a live node (`Sound`); and what each frame owes
  (`Safe`): a node is killed without users and keep entries, a node that is stored
  after a kill is kept until then, `sea_node_remove_input` loses none on the way.

*The scope manager.*

- `SeaScopeProofs` and `SeaScopeSafetyProofs`: `ScopeTypes`, `LayoutsAgree`, `AssertsPass`,
  `PhisAreWhole`, `ScopeIsMeaning`, `RunsAreLive` and `ClosedLoopsAreRight`, that is every
  property of the run `scope`, for any names, any number of nodes and statements and any depth of blocks.
  The first module holds the lemmas about the operators, the statements and the branches, the
  second merges, loops and the theorems. `ScopeMeaning` speaks of the current scope only;
  a scope becomes current after its branch or loop was read, when others have
  changed all around it. `IInv` says what is kept until then:
  - `Graph`, `Values`: nodes are made in order and never lose the value they have; a
    phi lacks its second input exactly while its loop is open;
  - `Blocks0`: there is a number of open blocks for each frame (`Levels`), and the scope a frame
    has put aside has the blocks of the current one up to that number, names and slots
    alike. This is what lets `sea_merge_scopes` go by slot numbers alone;
  - `Loops`: an open loop has one phi for each slot, numbered from the loop's node
    (`LoopOK`), and the scope of its exit holds these phis; inner loops are younger;
  - `Run`: the followed run is in the branch that is read only if it took all of those around it;
  - `Meanings`: the scope put aside on the side the run has left (`Pending`) still
    means what the source meant there, since nothing read since then was run.

  `ClosedLoopsAreRight` is the action property `LoopPhis`: it compares a phi before and
  after the end of its loop, where each turn of `EndLoop` sets the second input of one phi and
  replaces that phi by another node when `sea_peephole` finds one. `IInv` alone does not
  say what a phi had on the entry; `Entries` adds it for the open loops: the first input of
  each of their phis comes before the loop and has the value the variable had there, and no
  phi of an open loop is in the node table yet. `Followed` is what the turns keep: after turn i each of
  the first i slots holds either the entry itself, the value being the same at the end of the
  body, or a phi of this loop that stayed, with that entry and that way back. `PhiGiven` says
  which of the three `sea_peephole` chooses, `PhiStays` and `PhiGoes` that a turn keeps
  `Followed` in either case, and `SlotMeans` what it comes to after the last turn.

  The operators that walk the cells of a scope are recursive functions (`CopyBlock`,
  `Duplicate`, `EndLoop`); the lemmas say what they return after n steps and go by induction on n.
  `Induct` gets that from the well-foundedness of < on the naturals, for a set in place
  of a predicate. `DuplicateIsEqual` is such a result: the copy is the scope, and each
  cell gets the slot it had. Assumption: `ScopeAssumption` (parameters have different names and fit
  in the bound, the name of slot 0 is nobody's variable).

*Symbols and types.*

- `SeaSymbolsProofs`: `FunctionsAreFound`, `SymbolTypes`, `NamesAreOnce` and
  `JitFindsLast`. Whatever the hash, a function whose name shares its bucket with no
  other name has its entry when `sea_encode` asks for it, and one entry only.
  `IInv` says that entries stay in the bucket of their name (`BucketsRight`), though
  walks cut the chains, and that functions which are alone are listed
  (`FunctionsListed`). `symbols_lost` shows that the condition is needed. `Queued`
  adds what the jit relies on: an entry in a chain is the last of its name in the
  queue (`LastListed`), and the last entry of a placed function has the position of
  the last function of that name (`Placed`), whichever entries a walk dropped.
- `SeaPeepholeProofs`: `RangesSound`, `TypesCorrect`, `TypesSound`, `MeaningsKept` and
  `GraphCanonical`, for integers of every width. The first part is about `SeaRange`:
  the types of sums, differences, products, quotients and comparisons hold every value
  the operation can give, wrapped values included. For products this rests on
  `CornerTrue`, dividing a corner again finds every overflow; for quotients on
  `QuotGrows` and `QuotShrinks`, by which the extremes are at corners. The second part is about the graph.
  `IInv` says that each node computes its operation on inputs that come before it
  and that no rule applies to it (`NodeOK`), that types hold the values (`Typed`),
  and that an expression and its node agree. `Right` is what a creation has to
  come to. `RulesRight` goes through the rules, given that what they ask for is right;
  then the levels, from below: two constants are folded (`DirectCreation`), a constant
  on the right is met by at most one more (`OneConstant`), what is not regrouped
  (`NotRegrouped`), everything (`BinRight`). That the form is canonical
  is what bounds the depth: the operand that is left of a regrouping is no
  constant and is not regrouped again. Hypothesis: `SoundOps`, no remainders, and no
  negation in programs that start from a phi whose type is Bot (section 6). Assumptions:
  `RangeAssumption` (a positive largest integer), `PeepholeAssumption` (it is 2 at least;
  what types programs start from).

*Registers.*

- `SeaLinearProofs`: `LinearTypes`, `RangesCoverUses`, `ColoursInMachine` and
  `CodeReturns`, for schedules of any length. `Shape` is the invariant of the passes:
  inputs stand before their node (`InOrder`), which nodes have a range and a colour
  by now (`Progress`), ranges reach the last use seen (`Covered`), colours are in the
  mask of the node (`Coloring`). `Holding` is that of the code while it is emitted: if no two ranges that
  are live share a register and no second operand is in the register of the
  result, every value still used is in its register, the parameters from the start.
  `CodeReturns` and `LinearInvariant` have the hypothesis `"Mul" \notin Ops`, since
  the encoder writes a product to the register of its right operand (section 6).
  Assumption: `LinearAssumption`, which leaves room in a schedule for the parameters.

*The runtime layer.*

- `BaseLanesProofs`: `TypesKept`, `ValueHeard` and `Implements`, for any set of
  lanes and any tick whose broadcasts are a put and then a get
  (`LanesAssumption`). The inductive invariant is `TypeOK`, `InStep`, `Sent` and
  `Heard`. `InStep` says that lanes the barrier has let go and that have not run
  again are all at one place, the others at the place that follows it, so that
  all or none are out. `Sent` says that while anybody may still read the shared word it holds
  what the lead's own copy of this round holds. Without `InStep` a lane could take
  the value of another segment; without `Sent` the lead could decide to leave and
  a lane hear that it may stay. `Implements` is a step simulation: a lane that
  arrives finishes in the team, one that returns proceeds, everything else
  stutters.
- `FileStreamProofs`: `CacheTypes`, `AccessesCounted`, `RequestsCounted`,
  `ChangesNoticed` and `InversionAlone`, for any finite sets of clients and lanes, any
  keys, files and generations. The inductive invariant has one part per question:
  - `Types`, without the bounds of the two counters, which follow from what they count;
  - `Clients`: who has an access, who still has to ask, who holds the lock for
    writing or the mutex over a step;
  - `Phases`: a batch is empty when the lanes gather the next one, wide requests are
    done before thin ones, an urgent one stops only what may be stopped. Without it
    a leftover request could be lost or gathered twice;
  - `HeldStays`: the accesses counted are those that are open;
  - `Requested`: `working_count` is the number of requests for the node among the
    clients that have to ask, both batches, what is left of this tick and
    what the lanes hold (`InFlight`), but for the nodes the cancel thread stranded;
  - `Noticed`: data that is not the file's has a record that is not either.
  The lemmas about `InFlight` (what an append, a tail, a take or a put does to the number of
  requests for a key) are stated once and used by all actions. `InversionAlone` follows from
  `Clients`: somebody who is blocked is at the lock or at the mutex.
  Assumptions: `CacheAssumption`, `FileAssumption` (finite threads, `None` is nobody,
  every key has a path).

Only model-checked, and why:

- `CallsReturn`, `AllLeave` and `RequestServed` are liveness under fairness, which
  the prover does not do.
- `SeaMotion` and `SeaCodegen` follow the recursion of the code with
  recursive operators, in whose presence the prover has no arithmetic.
- Remainders, whose types do not hold (section 6).

## 6. What the models show about the code

Three runs end in a violation, each against a statement of the repository:

- `symbols_lost`: a look-up drops names from the symbol table; the encoder then
  writes through a null pointer (`sea/sea_module.c:47`, `sea/sea_encode.c:130`).
  The compiler does crash on `fn int simp(int ad) { return ad }`.
- `peephole_mod`: a remainder gets a range that excludes negative remainders
  (`sea/sea_compute.c:287`) and a comparison of it is folded.
- `linear_share`: the pool of free registers is not read (`sea/sea_ra_linear.c:204`).
  `y = x + 1; z = x + 2; return y + z` gives twice `z`.

Passing properties have conditions where the code does not do better. Some are
in the constants, and putting the case in shows the failure:

- `NegI` of a phi (`Ops = {"NegI"}`, `Inputs = <<Bot>>`): taken to be 0
  (`sea/sea_compute.c:26`); `MeaningKept` fails. In the run `peephole` the phi of
  the open loop has no type yet, and its negation none either.
- `ModI` in `Ops`: the run `peephole_mod`.
- `Mul` in the `Ops` of `SeaLinear`: the product goes to the register of
  its right operand (`sea/sea_x64_encode.c:101`); `CodeRight` fails.

`peephole` reaches a product with a constant -1, where the compiler traps in its
own test for overflow (`sea/sea_compute.c:137`), and a constant division by 0,
which it folds (`sea/sea_peeps.c:47`). The model records both as
`fault = "trap"` and stops. `CodeRight` of `linear_code` is about schedules whose
colours do not clash (`NoShare`, `SecondSafe`): what build_intervals, the masks
and the moves of the encoder do right once the allocator chooses well.

*Code motion and blocks.* Each condition in `Motion`, `Scheduled` and `CodeRuns`
stands for something the compiler gets wrong without it. The programs are bodies
of `fn int simp(int x)`.

- `fn.stale`: `sea_node_idom` caches a depth made from one that is not there yet
  (`sea/sea_codemotion.c:24`). The search for the common dominator can then climb
  past the Start, and the compiler crashes at line 277, as on
  `while (x == 1) { while (x == 2) { } x = x * 3 } x = x * 3 return x`; or a value
  is moved up for nothing, which the register allocator does not survive:
  `int a = x; if (x == 3) { a = x * 3 } if (x == 4) { x = x * 7 } else { x = x + 9 } return x`
  gives 0 for 5, not 14.
- `Lost`: a value that both sides of a branch use is placed at the branch. The code
  at lines 238 and 282 tests for `If`, but after the selection it is `Jmp`, and no
  block has the value: `int a = x * x; if (x == 5) { x = a + x } else { x = a * x } return x`.
- `Joins`: `encode_block` jumps at the end of a true projection only, and asserts
  that it flows into a join (`sea/sea_encode.c:114`). With a branch or a loop in the
  first branch the Assert fails or code falls through into the wrong block.
- Loop depth: the exit of a loop is looked for under an `If` (line 89), which is no
  more; code after a loop counts as in it. `Best` uses the code's own loop depths.
- A function with a loop whose phi is used over the back edge crashes in
  `sea/sea_ra_linear.c:158`, which `SeaLinear` does not reach: the range of the
  phi's input does not exist when the phi is met.

*The runtime layer.* What `OneRequest`, `ChangesSeen` and `OnlyInversion` allow is
what the code does:

- Two clients that wait on one stripe can block each other for ever: one has the
  lock and wants the mutex of the condition variable to go to sleep, the other has
  the mutex and wants the lock back (`os/core/linux/os_core_linux.c:1142`).
- A request that is to be tried again is dropped if its node was marked by the
  cancel thread. The node keeps `working_count` 1 and `cancelled`, which nothing
  resets, so it is never asked for again and never evicted
  (`artifact_cache/artifact_cache.c:378`).
- A client that wants a newer generation while a request of the older one is on its
  way asks for nothing and waits until its end time.
- A read of one range records the stamp for the path, so that other ranges of the
  path keep old data; a file that was not there has no record and is never looked
  at again (`file_stream/file_stream.c:200`).
- Broadcasts are made without the mutex of the wait and can be lost, and the flag
  that would stand in for one is set after it (`artifact_cache.c:169`). `AllLeave`
  and `RequestServed` hold only because the waits have an end time.

Read on the way, outside the properties: whether an artifact is stale is reported
inverted (`artifact_cache.c:181`); a value that is overwritten is not destroyed; the
cancel thread is started before its semaphore is assigned (`artifact_cache.c:21`);
timed waits are given the clock since boot (`os_core_linux.c:725`) and compared by
pthread with the date, so that they end at once.

Hazards no property covers: `node_count` of a node that is killed twice; the free
lists of scopes; the table of canonical types, which drops entries as the symbol
table does, and its lock, which an early return keeps (`sea/sea_type.c:183`); live
ranges found by the content of a node (`sea/sea_ra_linear.c:65`); the flags a
conditional jump relies on (`sea/sea_x64_encode.c:203`); the number of patches,
tested after the write (`sea/sea_encode.c:101`); immediates of four bytes, which
`emitter_push_bytes` writes to an address it has rounded up: `x + 1000` gives
65536005 for 5.

## 7. What is not modelled

In modelled parts: an operation over a phi that is moved into the phi's inputs
(`sea/sea_peeps.c`), types of tuples and structs, calls and function headers,
interning of types, pools of scopes; the choice between machine nodes
(an operation is one node in `SeaCodegen`), `gen_2addr_move` of `sea_dessa.c`, which
is called for control nodes only and so never applies; division, branches and
jumps in registers, the bytes of patches; the cache of caches, the hash of
slots, the destruction of values, the deletion of files, scratch arenas and the
names of threads. `sea_set_symbol_pos` is never called.

The tokenizer is a sequential scan. Graph dumps and printing are output. The
rest of `base` and `os`, arenas, strings, mathematics, command lines, files,
windows, is sequential helpers or calls of another system; the Windows layer is
the other half of what is modelled for Linux. The parsers of object and debug formats
(`dwarf`, `coff`, `elf`, `mdesk`, `disasm`), more than half of the lines of the
repository, are sequential readers of bytes, taken over from another
project and not in the compiler's build, as is `third_party`. `old`,
`parser_old.c`, `sea_worklist.c`, `sea/x64.c`, `main.c`, `core` and `meta` are not
in the build.

## 8. The plan

Done: `SeaGraph` (proved), `SeaScope` (proved), `SeaSymbols` (proved), `SeaRange` and
`SeaPeephole` (proved, remainders apart), `SeaMotion` and `SeaCodegen`,
`SeaLinear` for straight-line functions (proved), `BaseTeam` and `BaseLanes`
(refinement proved), `ArtifactCache` and `FileStream` (proved). Next:

1. Proofs: placement and motion of `SeaCodegen`, once its operators are recursive functions.
2. `SeaLinear` with branches: Copy and Phi, the range over a back edge, jumps and
   the flags they rely on; then on the blocks of `SeaCodegen`.
3. `SeaLattice`: the table of canonical types with its lock, with an abstract
   specification (one address per type) that it implements when no two types
   share a bucket; its theorem follows `FunctionsAreFound`.
4. `SeaBuilder` over `SeaGraph`: expressions, node map and dead code elimination
   together, so that a node nobody keeps can die under the parser; the stale
   cells of the map.
5. Abstract specifications: a scope as a stack of functions from names to values,
   which `SeaScope` implements; a symbol table as a set of names.
6. Tokenizer and precedence climbing.
