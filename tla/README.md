# A TLA+ model of DRAKE

DRAKE is a small just-in-time compiler and runtime for the decode step of a
transformer: it builds a graph of tensor operations, fuses runs of them, cleans the
result up, and executes it once per token. All of it is single-threaded Python; what is
hard is not concurrency but a chain of graph rewrites, each of which must keep what
the next one, the verifier and the executor rely on, and caches that outlive the
data they were computed from.

The modules below are translated from the code in `src/`. Names follow the code
wherever TLA+ allows it, so that a definition and its lines can be read side by side;
`PROJECT.json` gives the lines of every definition.

## Inventory of the system

| Component | State it keeps | Operations | Status |
|---|---|---|---|
| Graph IR, `ir.py` | `Graph`: ops in execution order, shapes, graph inputs and outputs | `build_decode_step_graph`, `producer_index`, `consumer_count`, `bytes_of` | modelled |
| Verifier, `passes/verify.py` | none | `verify_graph`, `check_graph` | modelled |
| Greedy fusion, `passes/fusion.py` | scan position, running number, new ops, records | `FusionPass.run` | modelled, proved |
| Cost-optimal fusion and traffic, `passes/fusion.py` | best savings and choice per position | `run_cost_optimal`, `traffic_saved_bytes` | modelled, proved |
| Dead-code elimination, `passes/dce.py` | live tensors, kept ops | `eliminate_dead_code` | modelled, proved |
| Common-subexpression elimination, `passes/cse.py` | renaming, table of canonical ops | `eliminate_common_subexpressions` | modelled, proved |
| Constant-folding analysis, `passes/constant_fold.py` | set of foldable tensors | `fold_constants` | modelled, proved (the engine does not call it) |
| Reference backend, `codegen/fused_ops.py` | the private copy of the tensors | `execute_graph`, `execute_op` | control modelled, arithmetic abstract; proved |
| Engine, `runtime.py` | graphs, plan cache, profiler, native classifier | `__init__`, `step`, `fusion_summary` | modelled; construction, steps and sessions proved |
| Specialization, `passes/specialize.py` | none, pure functions | `build_bucket_table`, `classify`, `specialize` | modelled, proved |
| LLVM dispatch, `codegen/dispatch_jit.py` | generated code | the 32-bit classifier | modelled, proved |
| LLVM kernels, `codegen/llvm_kernels.py` | generated code | elementwise and matmul loops, their wrappers | control modelled, float arithmetic abstract; proved |
| Profiler, `profiler.py` | list of shapes, counters per shape | `record`; summaries | `record` modelled |
| Examples | the decode loop's caches | `decode_demo` | its loop is the caller of the session model |
| Tests, docs, build files | - | - | read, nothing to model |

### How the parts interact

`DrakeEngine.__init__` verifies the base graph (the built-in decode graph or one the
caller passes in), runs the greedy fusion, then dead-code elimination, then
common-subexpression elimination, with a `verify_graph` call after each.
`run_cost_optimal`, the second selector, is called by whoever wants it, not by the engine. There are no
messages and no callbacks: a pass hands a `Graph` to the next one. What the passes know of a
fused op is its interface (`inputs`, `outputs`); what the executor runs is its
`attrs["sub_ops"]`. The two views of the same op are where the passes can disagree.

`step` reads the shape off its arguments, records it in the profile, classifies it in native
code, takes or makes the plan of its bucket, copies weights and
inputs into one dictionary of tensors by name, executes the graph on a private copy of
it, and reads the graph's outputs back under their base-graph names. So names carry meaning
across every pass: a tensor whose producer a pass dropped while its shape stays declared
is indistinguishable from a weight the caller provides.

The caller keeps the KV caches: a step gets them and returns longer ones, which the caller
hands to the next step, or keeps the old ones when the step raised. Between steps the
engine remembers plans by bucket and the profile.

### What is hard, and what makes each component correct

- *Fusion.* The scan jumps by the window's length while the result grows by one op.
  Correct when nothing is lost, repeated or reordered; the interface of a fused op is
  exact; one scan leaves nothing to fuse although fused ops get new neighbours; the
  list order of the patterns really gives longest-first; names of fused ops identify
  them; it stops whatever the patterns.
- *Verifier.* Its invariants must be strong enough that execution never raises, and no
  stronger than that. Def-before-use is decided by two conditions on two sets built
  at different moments.
- *Dead-code elimination.* One reverse scan must find the least set of ops that can
  stand alone, with multi-output ops.
- *Common-subexpression elimination.* The renaming is applied once, never to a fixed
  point, so it must be idempotent; duplicates of duplicates must collapse in the same
  scan; a graph output must keep its name even when its op is a duplicate.
- *Execution.* Sub-op by sub-op on a shared dictionary, with lookups that may fail in
  the middle.
- *Engine.* Each pass must start from the graph the one before left, no later
  `verify_graph` may raise on a base graph that was accepted, and outputs must be the
  base graph's. What it reports of fusions and traffic is computed from the base graph and the
  fusion records, and must fit the graph that is executed. A failed step must leave plan cache
  and profile usable and the caller's caches alone; requests that share an engine must not see
  each other's tokens. What a step provides and what it looks up have fixed names, whatever graph
  it runs.
- *Specialization and dispatch.* Buckets must partition the shapes, and the native
  classifier must agree with the Python one although it has 32 bits. A plan made for one
  shape serves every later shape of its bucket.
- *Kernels.* Index arithmetic in 32 bits, zero and negative extents, nested loops.
- *Constant folding.* One forward scan must find transitive opportunities.

`PROJECT.json` lists each of these as a hazard, with its line and with the property
that covers it, or the reason why none does.

## The modules

| Module | What it models | Code |
|---|---|---|
| `DrakeIR` | ops and graphs as records; `SubOps`, `ReadBy`, `WrittenBy`, what a base graph is | `ir.py` 18-70 |
| `Verify` | each of the verifier's five invariants as the set of its violations | `passes/verify.py` |
| `DecodeGraph` | the built-in graph, for any number of layers, and the names of its weights and caches | `ir.py` 130-307 |
| `Fusion` | patterns, when a window matches, the fused op's interface | `passes/fusion.py` 20-105 |
| `FusionScan` | the forward scan both strategies end in: fuse a window that matches, or keep the op | `passes/fusion.py` 115-157, 194-215 |
| `GreedyFusion` | `FusionPass.run`, one step per iteration | `passes/fusion.py` 115-157 |
| `Traffic` | bytes of a tensor, consumers, what a window saves | `passes/fusion.py` 218-255, `ir.py` 23-71 |
| `CostOptimalFusion` | `run_cost_optimal`: the backward dynamic program, then the forward scan | `passes/fusion.py` 159-215 |
| `GraphPass` | the graph and the scan position of the passes that go op by op | - |
| `DCE` | the reverse scan, one step per op, and the rebuilt graph | `passes/dce.py` |
| `CSE` | the deduplicating scan, one step per op, and the rebuilt graph | `passes/cse.py` |
| `ExecuteGraph` | `execute_graph`, one step per (sub-)op, with the lookups that raise | `codegen/fused_ops.py` 25-160 |
| `FusedExecution` | `GreedyFusion` then `ExecuteGraph`; refinement to `ExecuteGraph` on the base graph | composition |
| `Pipeline` | `FusedExecution` with the constructor's two other passes and their checks, then one step, the traffic it reports and `fusion_summary` | `runtime.py` 65-78, 126-167 |
| `Specialize` | boundaries to buckets, the reference classifier, a bucket's kernel plan | `passes/specialize.py` |
| `DispatchJit` | the classifier in integers of `Width` bits | `codegen/dispatch_jit.py` |
| `Decoding` | abstract: each request's context grows by one token at a time, each token once | - |
| `DrakeEngine` | a session: steps of several requests, plan cache, profile, calls that raise; refinement to `Decoding` | `runtime.py` 100-150, `profiler.py`, `examples/decode_demo.py` |
| `LlvmKernels` | the generated loops block by block, and their wrappers | `codegen/llvm_kernels.py` |
| `ConstantFold` | the forward scan, one step per op | `passes/constant_fold.py` |
| `MC*` | values for the constants, families of small graphs | - |
| `GraphLemmas` | what the verifier's invariants say from a position or a window of a graph | proofs |
| `FusionProofs` | theorems about `Fusion`, `FusionScan`, `GreedyFusion`, `CostOptimalFusion` and `FusedExecution`, and what the later passes rely on in a scan's result | proofs |
| `ExecuteGraphProofs` | theorems about `ExecuteGraph` | proofs |
| `PassProofs`, `CSEProofs` | theorems about `DCE` and `ConstantFold`, and about `CSE` | proofs |
| `PipelineProofs` | theorems about `Pipeline`, which cite those of all the passes | proofs |
| `DrakeEngineProofs` | theorems about `Specialize`, `DispatchJit` and `DrakeEngine` | proofs |
| `LlvmKernelsProofs` | theorems about `LlvmKernels` | proofs |

The state of a pass is its local variables: in `FusionScan`, `i`, `fuse_idx`, `new_ops`
and `records` are those of `run` and of `run_cost_optimal`, whose `best` and `choice` are in `CostOptimalFusion`; in `DCE`, `live` and `keep`; in `CSE`, `remap`, `seen`,
`new_ops` and `removed`; in `ExecuteGraph`, `env` is the copied dictionary, and `pos` and
`sub` say which op and which sub-op runs next. An action is one iteration of the loop
with everything its body does. `starts` in `FusionScan` is a history
variable: it only records at which base position each new op begins.

`Pipeline` instantiates `DCE`, `CSE` and `ExecuteGraph` on one variable `fused_graph`, the
engine's; `Saved` is the traffic figure of `step`, `FusionSummary` what `fusion_summary` returns.
`num_layers` is the engine's argument. The names of the tensors a step provides (`Provided`: `x`, and each layer's weights and caches) and
of those it looks up when the graph has run (`StepResults`) depend on it alone, not on the graph, which the caller may
have passed; so `StartStep` gives the graph `StepTensors`, and `ReadResults` decides whether the step finds its results.

In `DrakeEngine` one call of `step` goes through the phases *plan* (`CallStep` has read the
length and recorded the shape; `ReusePlan` or `BuildPlan` follows), *bind* (`BindCaches`, or
`MissCaches` when the caller gave too few) and *execute* (`ExecuteCacheOp` for every op
that extends a cache, then `Return`); `RaiseInStep` can end it anywhere in the execution. `observations`
and `counts` are the profiler's, `plan_cache` the engine's; `batch`, `caches` and `decoded` belong to the
caller, whose loop is that of `decode_demo.py`. The other ops of the graph are `Pipeline`'s
business. `raised` and `refused` are history variables that count the calls that failed.

In `LlvmKernels` a value of `pc` is a basic block of the generated code (`loop.cond`,
`n.cond`, `k.body`, ...; the two latches are part of the block that jumps to them), and
`i`, `m`, `n`, `k` and `acc` are its phi nodes.

What is abstracted:

- *Tensors* are names; a shape is a tuple of dimension names. Attributes are one
  parameter (`eps`, `seq_len`, or none), plus the kind and sub-ops of a fused op.
- *Values.* What an op computes is the constant operator `Compute(kind, param, args, k)`,
  for the k-th output, and what a caller provides is `Given(t)`. The runs make both
  terms, so that two values are equal only when they are computed in the same way; what
  holds with terms holds with any arithmetic, since it is the image of the terms. An
  operation that raises for a reason of array shapes is not modelled.
- *Names* of fused ops are pairs of a kind and a number instead of the text
  `fused_kind_number`; a base op whose own name happens to be such a text is not modelled.
- *KV caches* are a prefix of some length and the entries the session has added to it; an
  entry names its token, the tensor it was made from and the position RoPE rotated it to.
- *Native integers* have `Width` bits, two's complement: 12 in the session, 4 in the kernels,
  32 in the code. An access of native code outside its array ends the kernel in the state
  `"undefined"`, after which nothing is claimed.
- *Arrays of the kernels* are known by their shape, an element by its flat index, and a dot
  product by the list of the pairs it adds up. Rounding is left out.
- *The CSE key* is what the text `repr(op.attrs)` tells apart, which for the sub-ops of a
  fused op is their kinds, inputs, outputs and attributes, but not their names (`ir.py:46`).

`Init` of each pass starts on a graph `verify_graph` accepts, as the constructor ensures.
`ExecuteGraph` alone starts on graphs nobody verified, because its properties say what the
verification buys.

## The runs

| Run | Question | Result |
|---|---|---|
| `greedy_fusion` | Does the scan keep every op in order, with exact interfaces, longest windows, unique names, and a result that verifies and holds nothing more to fuse? | holds |
| `execute_graph` | Do the verifier's five invariants protect execution, and is invariant 3 no stricter than needed? Do values never change under a reader? | holds |
| `fused_execution` | Is executing the fused graph the base graph's own execution, step for step and to its end, whatever the patterns? | holds (refinement) |
| `dce` | Does one reverse scan keep the least set of ops that can stand alone? | holds |
| `cse` | Is the renaming idempotent, the result free of duplicates, are output names kept, does no reader of a dropped tensor remain at the top level? | holds |
| `pipeline` | Does construction never fail on an accepted base graph, does a step that returns compute the base graph's outputs, when exactly does one raise, whatever the graph asks for and makes, does the fusion summary account for every op, and does the reported traffic never claim more than is saved? | holds |
| `cost_optimal` | Does the dynamic program find the best of all sets of windows that do not overlap, does the forward scan realise it, and do the two consumer counters say what the docstring says? | holds |
| `drake_engine` | Do table, reference classifier and native classifier name the same bucket, does a cached plan fit every shape it is used for, do profile and plan cache stay in step whatever raises, are keys rotated where they lie, and does a session in which calls raise decode each token once? | holds (refinement) |
| `llvm_kernels` | Do the loops end and compute every element, where does 32-bit arithmetic give out, and can it give out silently? | holds |
| `constant_fold` | Does one scan find exactly what can be folded in any order? | holds |
| `fused_chains` | Is every fused window a dependency chain, as `fusion.py:63` says? | violated |
| `stale_sub_ops` | Is everything downstream of a dropped op rewired, as `cse.py:6-7` says? | violated |

### What the two violations show

*`fused_chains`.* `_is_connected_chain` asks only that the window's last op be reachable
from its first. `rmsnorm`, `matmul`, `gelu` are fused as `fused_norm_matmul_gelu` when
the `gelu` reads the norm and the `matmul` is a by-stander. The
result computed is right (`ImplementsUnfused`), but a specialised kernel of that name, which
the plan announces, would not compute it.

*`stale_sub_ops`.* CSE runs on the fused graph and rewrites the top-level inputs of an op it
keeps, but passes its attributes on as they are. With `a = gelu(x)`, `b = gelu(x)` and
`rmsnorm(b, w)`, `matmul` fused, `b` is dropped, the fused op's interface reads `a`, and its
sub-ops go on reading `b`. `verify_graph` accepts the graph, and every `step` raises `KeyError`. The
built-in decode graph has no duplicates, so this needs a graph passed as the `graph` argument. Run
`pipeline` shows that with a graph that asks for what a step provides and makes what it looks up (`SuitsStep`), this is the only way a step of a
constructed engine can miss a tensor; with other graphs, accepted all the same, a step raises exactly when
something it reads is neither provided nor made (`RaisesExactlyOnMissing`).

The same defect can go without the error. A step starts from the engine's weights whatever
its graph is (`runtime.py:126`). When the base graph itself makes a tensor called `w_norm1`, and its op is dropped as a duplicate, the fused
op's sub-op that goes on reading `w_norm1` finds the weight: the step returns, with a wrong output. It needs a
graph passed by the caller that gives a tensor the name of a weight; `StepComputesBaseOutputs` excepts it in its hypothesis
(`StaleReads \cap Provided = {}`), and TLC finds it violated by such graphs (`NamedAsWeight`) without.

Other places where text and code part, met while reading and not worth a run of their own:
`verify.py:32-34` says that a fused op's internal tensors no longer appear at top level, but
`_make_fused_op` keeps every output; `dce.py:12` says that removing dead consumers keeps the
traffic figures honest, but `runtime.py:135` counts traffic against the base graph.

### What some of the passing runs say

- *Traffic* (`TrafficNeverOverstated`). The figure is never too high, and it is too low only
  when dead-code elimination removed an op. One reason is worth knowing: deduplication could send
  further readers to a tensor counted as internal to a fused op, but it never merges two fused
  ops, since the key's `repr` prints the outputs of their sub-ops, and no two ops share those.
- *Summary* (`SummaryAccountsForEveryOp`). The records list the fusions made, not those that survive;
  with the names the clean-up passes removed they add up to the base graph's op count.
- *Classifiers* (`ClassifiersAgree`). The native classifier always names a bucket that exists; it names the
  reference's while the sizes fit its integers. Beyond that (2^31 in the code) the two part.
  Boundaries out of order, all different, misfile some shape, and nothing rejects them.
- *Keys* (`KeysRotatedInPlace`). Positions come from the first layer's cache; a layer whose
  cache began with another length has all its keys off by the difference, and nothing raises.
- *Kernels* (`FittingCallsAreExact`). With extents that fit a register but arrays that do not, a
  matmul leaves its arrays at the first index that wraps, and never returns a wrong
  result. An elementwise call whose element count does not fit may return elements nobody wrote.

### Bounds, and why they are enough

- *Fusion.* Every graph of three ops (of `rmsnorm`, `matmul`, `gelu`, `add`) in any
  topologically ordered wiring, chains of four, every wiring of the four-op attention pattern, the decode
  graphs of one and two layers, and a decode graph with an op slipped in at every
  position. The longest default pattern has four ops, so windows that match, nearly match,
  overlap and abut all occur. An empty pattern, which a caller may pass, heads the list.
- *Execution.* Every two- and three-op graph over two or three tensors, ill-formed ones
  included: duplicate writers, writers of graph inputs, cycles, undeclared tensors, ops
  with too few or too many arguments.
- *DCE and CSE.* Every four-op graph of `gelu` and `add` with several choices of graph
  outputs, pairs of two-output ops read through either output, pairs that differ in an
  attribute only, fused pairs. A chain of duplicates of duplicates needs four ops; a live set that a
  one-output view would miss needs one two-output op.
- *Cost-optimal fusion.* A five-op chain in which the windows of four patterns compete, with tensors
  of 0, 1, 2 and 24 elements in every combination, readers outside the windows and a handed-on
  tensor as graph output; the attention wirings; the decode graph of one layer. The list of patterns has the short ones first, which
  greedy selection would get wrong. The reference
  is brute force over every subset of the matching windows.
- *Pipeline.* Four-op graphs in which there is something to fuse, to prune and to
  merge at the same time, completed by the outputs a step looks up, for one layer and for two; the same without those outputs, or asking for a tensor
  no step provides; graphs that make a tensor with the name of a weight; and the decode graph of one layer. `MCNumLayers`
  gives engines the number of layers of their graph and numbers above and below it, 0 included.
- *Sessions.* Two requests that take turns in any order, `MaxTokens` = 2 tokens each and
  `MaxFailures` = 2 calls that raise: enough for two in a row, for one between two
  successes and between the steps of the other request. Five engines: default boundaries with
  one and with two layers; a repeated boundary for lengths and none for batches, on a graph with two
  ops of one name; none for lengths and two for batches; boundaries out of order. With one layer a
  prompt ends at 0, just below either default boundary, or just below the largest native
  integer, so that sessions cross each; with two the layers' caches may differ in length. `Width` = 12
  is the least that holds the default boundaries 128 and 1024 with room to overflow beyond.
  `ClassifiersAgree` tries every size next to a boundary, to 0 and to the ends of the integers.
- *Kernels.* Every combination of three extents from 0 to 8, 15, 16 and 17 in registers of 4 bits: those
  that fit, the first that becomes negative (8), -1 (15), 0 (16) and 1 (17); products that fit and
  products that do not; shapes the wrappers reject.
- *Constant folding.* The chains and the pairs of two-output ops of DCE and CSE, the pairs
  also in reverse, and inputs, parameters, both, neither or tensors that some op makes as constants.

The loops of the passes and of the executor need no bound beyond their graph, those of the kernels none beyond
their width. `MaxTokens` and `MaxFailures` bound the sessions.

### Fairness

`WF(Next)` on executions, on the pipeline, on sessions and on kernels, and nothing else. The code is
one thread in a `for` or `while` loop without a blocking call, so a loop whose next iteration
is possible goes on to it; in a session the thread is also the caller's, whose loop in `decode_demo.py` calls
`step` until it has its tokens. Since `Next` holds a bounded number of calls that raise, a caller that goes on
calling gets on. The liveness properties are `StepEnds`, `KernelHalts` and the fairness parts of
the refinements `ImplementsUnfused` (every execution of the base graph comes to its end, so the
fusion scan moves on even when the pattern list holds an empty pattern) and `ImplementsDecoding`
(the caller ends up with all its tokens). Every `Terminated` disjunct lets a finished loop
stutter, so that deadlock stays checked.

## The proofs

TLC checks the families above; the theorems hold for every value of the constants that meets
the assumptions below, which TLC evaluates in the runs. Every safety invariant and every action
property of the passing runs is proved, and
so are the step-by-step parts of both refinements; `PROJECT.json` lists the theorems.

What a fold or a recursive function comes to is proved without an induction theorem: a finite set of positions
(or of numbers) has a least element (`LeastSet`, `LeastNat` and the like), so a claim about all of them holds once its least
counterexample is refuted. A fold is first shown to be the last entry of a table that satisfies the step equation, by the
library's definition of iteration, and two such tables agree by their least difference.

### Assumptions

- `FusedIsNoKind`: the kind `"fused"` is none of the plain kinds.
- `PatternsAssumption` (`Fusion`): a pattern's kinds are a sequence of kinds. Patterns may repeat, be
  empty or come in any order.
- `NamesAssumption` (`FusionScan`): no caller names an op the way `_make_fused_op` does; otherwise two
  ops could share a name, see *Names* above.
- `GraphsAssumption`: the graphs are well-formed records; in `FusionScan` and `ExecuteGraph` of plain ops,
  as callers build them, in `DCE` and `CSE`, which run after fusion, and `ConstantFold` of ops of either sort. Fused
  graphs are executed too, and what `ExecuteGraph`'s theorems say of those follows through the refinement, and what is true of a pruned and deduplicated graph's execution is proved in `PipelineProofs`. That graphs
  verify is never assumed: `Init` starts on those that do, as the constructor does, or the property says so.
- `ShapesAssumption` (`CostOptimalFusion`), `DimsAssumption` (`Traffic`): every dimension a shape names has a size, a natural number.
- `NumLayersAssumption` (`Pipeline`): the number of layers is an integer, of any sign and whatever the graph.
- `WidthAssumption` (`DispatchJit`): there are two bits or more, and a power of two is a positive number,
  twice the one before. The provers have no rules for exponents; TLC evaluates the instance.
- `CallsAssumption` (`LlvmKernels`): a kernel is called with two arrays, and the first has a natural number of elements, as
  any array does. Whether the shapes go together is not assumed.
- `EnginesAssumption` (`DrakeEngine`): the boundaries and the number of buckets are non-negative native integers, since the
  code hands them to one; and the graph has exactly one op per layer that extends a cache, the layer's own, in
  layer order, with keys from a `rope` op whose attribute `position` names the dimension `seq_len`. The built-in graph is of this kind
  before and after the passes; what becomes of other graphs is `Pipeline`'s business. Boundaries may be in any order, repeated or absent.
- `PromptsAssumption`, `BoundsAssumption`, `RequestAssumption`: batch sizes, lengths and bounds are natural
  numbers, and there are finitely many requests, since the tokens decoded are counted.

### The graph passes

`GraphLemmas` turns the verifier's invariants, which are sets of violations, into facts about
a position: what is written before it is written by an earlier op (`PrefixWriters`), and in an
accepted graph no op writes what an earlier one wrote or reads what it or a
later one writes (`ReadersComeLater`). `VerifiedWhen` goes back: it says what is enough for a graph to be
accepted. `AcceptedWindow` and its companions do the same for a window of ops, and
`RanksEnumerate` lists a finite set of positions by rank.

`FusionProofs` begins with what the operators of `Fusion` return: positions are ordered
lexicographically, so `Nth` of a finite set of positions is a bijection, so `DistinctInOrder` lists each
tensor mentioned once, and the interface of a fused op is exactly what
its window reads but does not write, and what it writes (`MakeFusedOpProperties`).
`MatchProperties` bounds a matching window and shows that it is not empty.

Then it proves of the scan, for every list of patterns and, except for `LongestIsTaken`, `NothingIsLeft` and the two theorems on
execution, for either strategy. `FusionScan` leaves the choice of the window open; the actions of both strategies are its steps, so
one inductive argument serves both:

- `TypeCorrect`, inductive as it stands: a window that matches lies inside the graph, so the scan never
  jumps past its end. `OrderIsPreserved` adds that `starts` and `new_ops` have equal lengths.
- `ExactInterfaces`. A fused op's inputs leave out every tensor its window writes, so that the interface is exact only if
  the window reads none of these *before* it writes it. That comes from the base graph, which is accepted (`AcceptedWindow`).
- `FusedAccepted`. The strengthening says that the ops so far read only what is provided or was written before, and
  write what the part of the base graph passed by writes (`ResultStaysInOrder`); by `VerifiedWhen` the result is then
  accepted.
- `NamesIdentify`, from the running number, and `NamesAssumption` for the plain ops.
- `LongestIsTaken`, for lists in which of two patterns that match at one place the longer comes first; that the
  built-in list is one is `DefaultIsLongestFirst`.
- `NothingIsLeft`. A window of plain ops in the result lay side by side in the base graph, where it would have matched when the
  scan came to its first op. The invariant therefore speaks of neighbours in `new_ops` and of their starts.
- `FusionImplementsUnfused`: the safety part of `ImplementsUnfused`. The refinement maps position and sub-op in the fused graph to the
  base position `starts[pos] + sub - 1`; `ExecuteSteps` shows that running a sub-op is running that base op, also
  across the end of a fused op (`AfterSubOp`), and `FuseStutters` that the pass itself changes nothing the map shows.
- `FusedExecutionIsSound`, from this and the theorems of `ExecuteGraphProofs` by `INSTANCE`: the fused graph of an accepted
  graph of implemented ops never raises, and each tensor it has solves the base graph's equations.

`ExecuteGraphProofs` proves of the executor, for any `Compute` and any graphs, verified or not:
`StableTensors` (no step changes a tensor that is there, in an accepted graph), `NeverRaises`, `UseBeforeDefNeverReturns` and
`SolvesEquations`, from `ExecutionInv`, which bounds the dictionary from both sides: what is provided is there, and what is there is provided or written
before `pos`. `SolvesEquations` compares the values with equations that mention no order; it is kept because a step
only adds tensors (`OnlyAdds`) and an equation, once solved, stays so (`EquationsPersist`), which is false as soon as a tensor is written twice.

### The cost-optimal strategy

`BestIsBest` and `PromiseIsKept` together say that no set of fusions saves more than those `run_cost_optimal` makes.

- `TableStaysRight`: an entry of the table is the larger of the next one and of what the windows that match there offer, and `choice` says which
  (`EntryRight`). That is what the backward loop leaves behind, whatever ties it broke.
- `BestIsBest`: the entry for position k is the most a set of windows from k on that do not overlap can save (`Optimal(k)`). Take the largest
  position for which it is not (`TableIsOptimal`). A selection has a window at that position or none (`SelectionSplit`); what is left of it begins at a
  later position, where the entry is right; and a best selection there extends to one here (`SelectionWith`).
- `SavingsExact`: the code takes a tensor's readers in the window from its readers in the graph, two counters; the difference is the number of readers outside
  (`ReadersCounted`), because no op of the window reads a tensor the window writes later (`ReadersInAreLater`). The sums are compared place by place
  (`WorthIsTotal`).
- `PromiseIsKept`: savings made so far and the entry at the scan's position add up to the entry computed last (`PromiseOn`).

### Pruning, deduplication, folding

`PassProofs` proves of `DCE`

- `LeastSetIsKept`, which speaks of the end of the scan only. The invariant adds what holds on the way: every op passed
  whose output is marked is kept (`PassedAreSettled`), and every self-contained set holds what is kept (`NothingKeptInVain`).
  The first could break when a tensor is marked *after* its producer was skipped. It does
  not, by `ReadersComeLater`: an op marks its inputs, which no op already passed writes.
- `PrunedIsAccepted`. The pruned list is the kept positions by rank (`PickedOps`), so that earlier stays earlier; what a kept op reads
  is live, so its producer is kept (`KeptIsSelfContained`) and no tensor silently becomes a parameter.

`CSEProofs` proves `TypeCorrect`, `RemapStaysCanonical` and `OutputsKeepTheirNames` from one
invariant. Beside the three properties it holds that the tensors the kept ops write were written
by ops passed (`KeptWerePassed`), which with single assignment keeps the next op's outputs apart from
them; that a canonical op has as many outputs as its key says (`SeenHaveArity`), without
which the renaming output by output would look past the end of a list; and that no graph output is renamed
(`OutputsStay`). The verifier is needed here too: with a tensor written twice the renaming
could chain. `DedupedIsAccepted` adds `ResultInv`, that the rewired ops read only what was there before them; `NoDuplicateIsLeft` adds
that the key of every op kept is in `seen` or names a graph output, and that renaming more later leaves a kept op's key alone (`KeysStay`).

`PassProofs` also proves `OneScanFolds` of `ConstantFold`. The property compares the
end of the scan with a least fixed point. The invariant says that there is a set of positions already
passed that accounts for everything known and listed, lies in every closed set
(`FoundSoFar`), and misses no passed op whose inputs are known by now (`NoneMissed`). The last
part is where the order matters: a newly known tensor is never read by an op already passed
(`ReadersComeLater` again), so it only holds in graphs the verifier accepts.

### The engine

`PipelineProofs` takes the theorems of the passes as they are: `FusionProofs` by `EXTENDS`, since the pipeline begins with the scan's own variables, and
`PassProofs` and `CSEProofs` by `INSTANCE` on the engine's graph, after everything that needs neither. Each pass starts on a graph the one before left, not on one of `Graphs`,
so what is used of them are the lemmas about `Init` and the steps, which speak of any well-formed graph that verifies.

- `EngineIsBuilt`. `StageInv` says at each phase that the engine's graph is accepted, has the base graph's interface and provides for no
  tensor the base graph provides for (`Serves`), and that the running pass's own invariant holds; each `Start` action hands the first part on.
- `StepIsRight` compares values, not steps: after pruning and deduplication the executed ops are others than the base graph's, so there is no
  execution to refine. What the base graph computes is a fold over its ops, and in an accepted graph it solves one equation per op (`ValuesSolve`). `ContentInv`
  then says of every op the engine has, at every phase, that it `Fits` (what its sub-ops read is its interface or made inside, up to
  tensors deduplication dropped) and is `Right` (its equations are the base graph's); and of the renaming that a tensor and what it is renamed to have one
  value (`RemapKeepsValues`). The last is the heart: two ops merge when their *text* agrees, which leaves out the names of a fused op's sub-ops but prints their
  outputs, and these are nobody else's, so the ops merged are plain (`CanonicalOp`), and for plain ops equal texts are equal computations
  (`SameRepr`).
- `Executing` says of the running step that the tensors it has are those provided and those made before the position (`Reached`), that
  the latter have the base graph's values while no sub-op reads a dropped tensor, and that whatever ran found its inputs. A result a step looks up is no
  tensor it provides (`ResultsAreNotProvided`), so one that is found was made.
- `RaisesOnlyOnMissing` follows from both sides. What an op reads and some op makes is made earlier (`ReadsAre`, from invariant 3 of the last `verify_graph`
  and `Fits`), so a lookup fails only on a tensor that is neither provided nor made (`RaiseIsMissing`); and a step that returns has read everything
  (`AllRan`), so nothing was missing. If the base graph suits the step, what can be missing is a dropped tensor, and no result is (`SuitableMiss`).
- `SummaryAccounts`. Ops are weighed by name (`Weighed(NameRuns, ...)`), as the summary does it. The scan keeps a weight of `i - 1` and one op of
  the result to each record (`ScanAccount`), so at its end the names weigh the original count; `DceRemoves` and `CseKeepsAccount` move the
  weight of a name from the ops to the names gone; and `NamesApart` makes the name of a fused op its own throughout. That no fused op is ever deduplicated is
  `FusedStays` again, which would fail for an op that writes nothing: dead-code elimination has taken those out (`NothingIsIdle`).
- `TrafficIsHonest`. Of the scan it needs that every fused op holds a window that matched (`FusedWhereMatched`), and that what is read from outside
  of the window is read by another op of the result (`FusedWindow`). What an output counts for is then a question of whether it has a reader
  other than the op that makes it, and `ReadersInv` follows that question through the later passes for the tensors fused ops make: pruning only takes readers away; deduplication
  renames no such tensor and nothing to one (`CseReaders`: the ops merged are plain, and `NothingIsIdle` again), so an op that stays reads those it read,
  and an op that is merged read none that its canonical op does not. The sums are compared output by output (`CountedAtIsSaved`), then op by op.

### Sessions

`DrakeEngineProofs` begins with the operators. A size reaches a first part of boundaries that are
in order, as long as the number it reaches (`ReachedComeFirst`), so it lies between exactly
one pair of neighbouring edges (`OneRange`); an id is its row times the number of columns plus its
column in one way (`RowAndColumn`, `RowAndColumnUnique`). Hence `BucketsPartitionShapes`. With `WrapOfFitting`, which says when
cutting a number to `Width` bits leaves it alone, this becomes `ClassifiersAlwaysAgree`, all four clauses of
`ClassifiersAgree`. Its last clause says that boundaries out of order misfile some shape, and the proof needs them all different:
`<<3, 1, 1, 3, 1, 3>>` is out of order and files every shape rightly.

Then the session. `IInv` says of every variable what it holds at each phase:

- `CallerHolds`: each request's caches are, layer by layer, the prefix and one entry for each token decoded, rotated from the first layer's length on.
- `CallHolds`: a running call is for the next token of a request and was recorded.
- `TensorsHold`: the step's tensors are the caches as the caller still holds them, and, for the layers passed, those with one entry more.
- `PlansHold`: the plan cache has the plan of every bucket profiled, except that of a call yet to look; a call's plan is its bucket's.
- `ProfileHolds`: the list has the tokens decoded, the calls that raised after recording, and the one that runs.

None of the last three is visible in the properties, which speak of the state between steps; each is what a step
relies on in the middle. TLC checks the five on the run before they are proved. From `IInv` follow `SessionTypeCorrect`,
`ProfileStaysInStep`, `PlanAlwaysFits`, `KeysStayRotated` and `SessionDecodes`, the safety part of `ImplementsDecoding`:
only `Return` changes what the caches say, and it adds the next token of one request. They hold for any number of engines, layers,
requests, tokens and failures and for any width.

### Kernels

`LlvmKernelsProofs` proves `KernelsAreExact`, for any width, any call and any extents that fit a register, whether the
arrays' indices do or not. `WrapProperties` says what a register holds of a number up to twice too large, and
`FlatProperties` what comes of `row * stride + col`, whose product and whose sum may both wrap: below twice
the limit it is exact or negative, and a negative index is outside every array. The invariant `KInv` has two
parts besides the shape of the loops:

- `RowsStored` and `ElementsWritten`: the result is exact in the rows, columns and elements passed. A later store does not
  overwrite an earlier one, since every index is that of one row and one column (`IndexUnique`).
- `IndicesExact`: no index has wrapped so far. The next index of each of the three kinds lies at most one
  row further than one that was inside its array, so it is below twice the limit and cannot have wrapped all the way round to a
  valid index. What was read in the first column is what bounds the others, which is why the
  invariant carries what the inner loop has seen out to the loops around it.

The property alone says nothing of a running loop. TLC checks `KInv` on the run's instance before it is proved.

### What stays with TLC

- Liveness (`StepEnds`, `KernelHalts`) and the fairness of both refinements, which the provers cannot reason about: the theorems
  state `Init` and the steps, TLC checks the whole.
- The two statements of the documentation that the code does not keep: a theorem cannot state them, TLC shows where they fail.

## What is not modelled, and why

- `make_dims` is the constant `Dims`. A dimension missing from it raises `KeyError` and is left out.
- `build_decode_step_graph` for `num_layers` below 1: it raises `ValueError` (`ir.py:284-285`), and there is no engine. With a graph
  of the caller's the constructor accepts any `num_layers`, and so does `Pipeline`; a session (`DrakeEngine`) is modelled for engines
  whose number of layers is their graph's, since with another every step raises, as `pipeline` shows.
- The profiler's read-only summaries (`histogram`, `dominant`, `seq_len_range`) and the growth of its list, one
  entry per step for the engine's life; `dispatch_ir`, a text.
- `llvm_op_overrides`, a dictionary around the matmul wrapper, and the compilation of either kind of native
  code. The machinery of `llvmlite` (parsing, linking, object lifetime) is external.
- The numerical content of the operations, array shapes and broadcasting: data, abstracted by
  `Compute`. `op_overrides` of `execute_graph` replaces one operation's function by another and is
  covered in so far as `Compute` is arbitrary.
- `to_dot`, `dump`, reports, the examples: rendering and printing.

## What could follow

Everything of the code that keeps state or makes a decision is modelled, and each of its safety properties is proved; what could be added are proofs of termination, which need a prover that knows fairness.
