---------------------------- MODULE DrakeEngine -----------------------------
(***************************************************************************)
(* A session with one engine: DrakeEngine.step of src/runtime.py, with the *)
(* profiler of src/profiler.py and the loop of src/examples/decode_demo.py *)
(* that calls it.  A caller decodes several requests, each with a batch    *)
(* size and KV caches of its own, and hands a step's caches to the next; a *)
(* step may raise, and the caller calls again with the caches it has.      *)
(*                                                                         *)
(* Of the graph's execution (Pipeline) only the ops that touch the caches  *)
(* are told apart.  A cache is the entries the session has added to a      *)
(* prefix of some length; an entry names its token, the tensor it was made *)
(* from and, a key, the position it was rotated to.                        *)
(***************************************************************************)
EXTENDS DrakeIR, DecodeGraph, DispatchJit, SequencesExt

CONSTANTS Engines,      \* engines: their graph after the passes, the number of
                        \* layers and the boundaries
          Request,      \* the sequences the caller decodes
          Prompts(_),   \* for an engine: what the requests may begin with, each
                        \* with a batch size and its caches' lengths by layer
          MaxTokens,    \* bound: the tokens decoded of each request
          MaxFailures   \* bound: the calls that raise

ASSUME BoundsAssumption == MaxTokens \in Nat /\ MaxFailures \in Nat

ASSUME RequestAssumption == IsFiniteSet(Request)

LayersOf(e) == 0..(e.num_layers - 1)

\* An engine's ops, fused ones by their sub-ops, in execution order, those that
\* extend a cache, and those that rotate into tensor t.
EngineOps(e) == FlattenSeq([k \in DOMAIN e.graph.ops |-> SubOps(e.graph.ops[k])])
CacheOps(e) == SelectSeq(EngineOps(e), LAMBDA op : op.kind = "kv_cache_update")
Ropes(e, t) == {op \in Range(EngineOps(e)) : op.kind = "rope" /\ t \in Range(op.outputs)}

\* What a graph must have in common with the built-in one for a session to
\* decode with it: layer by layer, an op that extends the layer's own caches
\* with keys rotated to seq_len.
ExtendsCaches(e, layer) ==
    LET io == CacheIoNames(e.num_layers, layer)
        p == LayerPrefix(layer, e.num_layers)
        op == CacheOps(e)[layer + 1]
    IN /\ op.inputs = << <<"k_rot", p>>, <<"v_new", p>>, io.k_in, io.v_in >>
       /\ op.outputs = <<io.k_out, io.v_out>>
       /\ Ropes(e, <<"k_rot", p>>) # {}
       /\ \A rope \in Ropes(e, <<"k_rot", p>>) : rope.attrs.param = "seq_len"

\* The boundaries and the number of buckets are native integers.
ASSUME EnginesAssumption ==
    \A e \in Engines :
        /\ e.num_layers \in Nat \ {0}
        /\ e.graph.ops \in Seq(Range(e.graph.ops))
        /\ Len(CacheOps(e)) = e.num_layers
        /\ \A layer \in LayersOf(e) : ExtendsCaches(e, layer)
        /\ e.seq_boundaries \in Seq({n \in Nat : Fits(n)})
        /\ e.batch_boundaries \in Seq({n \in Nat : Fits(n)})
        /\ Fits(NumBuckets(e.seq_boundaries, e.batch_boundaries))

\* A prompt gives every request a batch size and, layer by layer, a length.
ASSUME PromptsAssumption ==
    \A e \in Engines : \A prompt \in Prompts(e), r \in Request :
        /\ prompt[r].batch \in Nat
        /\ \A layer \in LayersOf(e) : prompt[r].lengths[layer + 1] \in Nat

VARIABLES engine,           \* the engine of the session
          batch, caches,    \* the caller's batch sizes and caches
          decoded,          \* the tokens it has got an answer for
          observations,     \* profiler.observations
          counts,           \* profiler._counts
          plan_cache,       \* plans by bucket id
          phase,            \* what the running step does next
          call, plan,       \* its arguments and its plan
          tensors, pos,     \* its private tensors, the cache ops it has run
          raised, refused   \* history: calls that raised, and those of them
                            \* that raised before their shape was recorded

callerVars == <<engine, batch, caches, decoded>>
profileVars == <<observations, counts>>
stepVars == <<phase, call, plan, tensors, pos>>
vars == <<callerVars, profileVars, plan_cache, stepVars, raised, refused>>

Layers == LayersOf(engine)
IoNames(layer) == CacheIoNames(engine.num_layers, layer)

CacheLen(cache) == cache.prefix + Len(cache.added)
----------------------------------------------------------------------------
Init ==
    /\ engine \in Engines
    /\ \E prompt \in Prompts(engine) :
          /\ batch = [r \in Request |-> prompt[r].batch]
          /\ caches = [r \in Request |->
                LET empty == [l \in Layers |->
                                 [prefix |-> prompt[r].lengths[l + 1], added |-> <<>>]]
                IN [k |-> empty, v |-> empty]]
    /\ decoded = [r \in Request |-> 0]
    /\ observations = <<>>
    /\ counts = <<>>
    /\ plan_cache = <<>>
    /\ phase = "idle"
    /\ call = <<>> /\ plan = <<>> /\ tensors = <<>> /\ pos = 0
    /\ raised = 0 /\ refused = 0

\* profiler.record.
Record(shape) ==
    /\ observations' = Append(observations, shape)
    /\ counts' = [s \in DOMAIN counts \cup {shape} |->
                     (IF s \in DOMAIN counts THEN counts[s] ELSE 0)
                         + (IF s = shape THEN 1 ELSE 0)]

\* Mutant of SeqLen: the length the caches will have.
NextSeqLen(r) == CacheLen(caches[r].k[0]) + 1

\* seq_len is read off the first layer's keys.
SeqLen(r) == CacheLen(caches[r].k[0])

\* The caller asks for the next token of r, with the caches of the first
\* given layers; fewer than the engine has is an error to come.
CallStep(r, given) ==
    /\ phase = "idle"
    /\ decoded[r] < MaxTokens
    /\ given < engine.num_layers => raised < MaxFailures
    /\ Record(<<SeqLen(r), batch[r]>>)
    /\ call' = [request |-> r, token |-> <<r, decoded[r] + 1>>, given |-> given,
                seq_len |-> SeqLen(r), batch |-> batch[r]]
    /\ phase' = "plan"
    /\ UNCHANGED <<callerVars, plan_cache, plan, tensors, pos, raised, refused>>

\* A list of no caches: k_list[0] raises before anything is recorded.
RefuseStep(r) ==
    /\ phase = "idle"
    /\ decoded[r] < MaxTokens
    /\ raised < MaxFailures
    /\ raised' = raised + 1
    /\ refused' = refused + 1
    /\ UNCHANGED <<callerVars, profileVars, plan_cache, stepVars>>

BucketId(shape) ==
    NativeClassify(shape[1], shape[2], engine.seq_boundaries, engine.batch_boundaries)
CallBucketId == BucketId(<<call.seq_len, call.batch>>)

ReusePlan ==
    /\ phase = "plan"
    /\ CallBucketId \in DOMAIN plan_cache
    /\ plan' = plan_cache[CallBucketId]
    /\ phase' = "bind"
    /\ UNCHANGED <<callerVars, profileVars, plan_cache, call, tensors, pos, raised, refused>>

BuildAs(id) ==
    /\ phase = "plan"
    /\ CallBucketId \notin DOMAIN plan_cache
    /\ LET table == BuildBucketTable(engine.seq_boundaries, engine.batch_boundaries)
           made == Specialized(engine.graph, table[CallBucketId])
       IN /\ plan' = made
          /\ plan_cache' = [b \in DOMAIN plan_cache \cup {id} |->
                               IF b = id THEN made ELSE plan_cache[b]]
    /\ phase' = "bind"
    /\ UNCHANGED <<callerVars, profileVars, call, tensors, pos, raised, refused>>

\* Mutant of BuildPlan: the plan is filed under the range of lengths alone.
BuildPlanBySeqLen == BuildAs(CallBucketId - (CallBucketId % (Len(engine.batch_boundaries) + 1)))

BuildPlan == BuildAs(CallBucketId)

\* Mutant of GiveUp: the plan outlives its step.
GiveUpKeepingPlan ==
    /\ phase' = "idle"
    /\ call' = <<>> /\ tensors' = <<>> /\ pos' = 0
    /\ UNCHANGED <<callerVars, profileVars, plan_cache, plan, refused>>

\* The exception leaves step: plan cache and profile stay as they are, the
\* private tensors are gone.
GiveUp ==
    /\ phase' = "idle"
    /\ call' = <<>> /\ plan' = <<>> /\ tensors' = <<>> /\ pos' = 0
    /\ UNCHANGED <<callerVars, profileVars, plan_cache, refused>>

\* k_list[i] raises where the caller gave too few caches.
MissCaches ==
    /\ phase = "bind"
    /\ call.given < engine.num_layers
    /\ raised' = raised + 1
    /\ GiveUp

\* Every layer's caches get the names under which the graph knows them.
BindCaches ==
    /\ phase = "bind"
    /\ call.given = engine.num_layers
    /\ LET mine == caches[call.request]
           Named(t) == CHOOSE l \in Layers :
                          /\ t \in {IoNames(l).k_in, IoNames(l).v_in}
                          /\ \A m \in Layers :
                                t \in {IoNames(m).k_in, IoNames(m).v_in} => m <= l
       IN tensors' = [t \in UNION {{IoNames(l).k_in, IoNames(l).v_in} : l \in Layers} |->
                         IF t = IoNames(Named(t)).k_in THEN mine.k[Named(t)]
                                                       ELSE mine.v[Named(t)]]
    /\ phase' = "execute"
    /\ UNCHANGED <<callerVars, profileVars, plan_cache, call, plan, pos, raised, refused>>

\* The dims of the running step.
CallDims == [batch |-> call.batch, seq_len |-> call.seq_len, next_seq_len |-> call.seq_len + 1]

\* _rope: the position a key is rotated to is the dim its rope op names.
RotatedTo(key) == CallDims[(CHOOSE rope \in Ropes(engine, key) : TRUE).attrs.param]

\* _kv_cache_update, which concatenates into new arrays: the tensors with the
\* cache op's two results, each the cache it reads and the new entry.
Extended(op) ==
    LET Add(cache, entry) == [cache EXCEPT !.added = Append(@, entry)]
    IN [t \in DOMAIN tensors \cup {op.outputs[1], op.outputs[2]} |->
           IF t = op.outputs[1]
           THEN Add(tensors[op.inputs[3]],
                    [token |-> call.token, of |-> op.inputs[1], position |-> RotatedTo(op.inputs[1])])
           ELSE IF t = op.outputs[2]
           THEN Add(tensors[op.inputs[4]], [token |-> call.token, of |-> op.inputs[2]])
           ELSE tensors[t]]

\* Mutant of ExecuteCacheOp: the op appends in place, and the caller's first
\* cache with it.
ExecuteInPlace ==
    /\ phase = "execute"
    /\ pos < Len(CacheOps(engine))
    /\ LET op == CacheOps(engine)[pos + 1]
           extended == Extended(op)
       IN /\ {op.inputs[3], op.inputs[4]} \subseteq DOMAIN tensors
          /\ tensors' = extended
          /\ caches' = [caches EXCEPT ![call.request].k[0] = extended[op.outputs[1]]]
    /\ pos' = pos + 1
    /\ UNCHANGED <<engine, batch, decoded, profileVars, plan_cache, phase, call, plan,
                   raised, refused>>

\* execute_graph comes to the next op that extends a cache.
ExecuteCacheOp ==
    /\ phase = "execute"
    /\ pos < Len(CacheOps(engine))
    /\ LET op == CacheOps(engine)[pos + 1] IN
          /\ {op.inputs[3], op.inputs[4]} \subseteq DOMAIN tensors
          /\ tensors' = Extended(op)
    /\ pos' = pos + 1
    /\ UNCHANGED <<callerVars, profileVars, plan_cache, phase, call, plan, raised, refused>>

\* Some op raises, before, between or after those: an input of a wrong shape,
\* or no memory left.
RaiseInStep ==
    /\ phase = "execute"
    /\ raised < MaxFailures
    /\ raised' = raised + 1
    /\ GiveUp

\* step returns, and the caller goes on with the caches of the result.
Return ==
    /\ phase = "execute"
    /\ pos = Len(CacheOps(engine))
    /\ caches' = [caches EXCEPT ![call.request] =
                     [k |-> [l \in Layers |-> tensors[IoNames(l).k_out]],
                      v |-> [l \in Layers |-> tensors[IoNames(l).v_out]]]]
    /\ decoded' = [decoded EXCEPT ![call.request] = @ + 1]
    /\ phase' = "idle"
    /\ call' = <<>> /\ plan' = <<>> /\ tensors' = <<>> /\ pos' = 0
    /\ UNCHANGED <<engine, batch, profileVars, plan_cache, raised, refused>>

Terminated ==
    /\ phase = "idle"
    /\ \A r \in Request : decoded[r] = MaxTokens
    /\ UNCHANGED vars

Next ==
    \/ \E r \in Request : RefuseStep(r) \/ \E given \in 1..engine.num_layers : CallStep(r, given)
    \/ ReusePlan \/ BuildPlan \/ MissCaches \/ BindCaches
    \/ ExecuteCacheOp \/ RaiseInStep \/ Return \/ Terminated

\* One thread runs caller and engine.  That the caller goes on calling until
\* it has its tokens is the loop of decode_demo.
Spec == Init /\ [][Next]_vars /\ WF_vars(Next)
----------------------------------------------------------------------------
(***************************************************************************)
(* Properties.                                                             *)
(***************************************************************************)

\* The type invariant: a step's local state is there while it runs and gone
\* when it is not, however it ended.
SessionTypeOK ==
    /\ phase \in {"idle", "plan", "bind", "execute"}
    /\ phase = "idle" <=> call = <<>>
    /\ phase \in {"bind", "execute"} <=> plan # <<>>
    /\ phase # "execute" => tensors = <<>> /\ pos = 0
    /\ pos \in 0..Len(CacheOps(engine))
    /\ raised \in 0..MaxFailures /\ refused \in 0..raised
    /\ \A r \in Request : decoded[r] \in 0..MaxTokens

EngineIsSorted == InOrder(engine.seq_boundaries) /\ InOrder(engine.batch_boundaries)

\* Sizes on both sides of everything a classifier compares a size with.
EdgeValues(boundaries) ==
    {n \in UNION {{m - 1, m, m + 1} :
                     m \in Range(boundaries) \cup {0, 2^(Width - 1), 2^Width}} : n >= 0}

\* The bucket table, the reference classifier and the native one, three
\* pieces of code for one idea: the native one always names a bucket of the
\* table; it names the reference's while the sizes fit its integers; and for
\* sorted boundaries, repeated or none at all, that is the one bucket that
\* contains the shape.  Boundaries out of order, all different, file some
\* shape wrongly.
ClassifiersAgree ==
    observations = <<>> /\ phase = "idle" =>
        LET sb == engine.seq_boundaries
            bb == engine.batch_boundaries
            table == BuildBucketTable(sb, bb)
            Native(s, b) == NativeClassify(s, b, sb, bb)
            Fitting(boundaries) == {n \in EdgeValues(boundaries) : Fits(n)}
        IN /\ \A s \in EdgeValues(sb), b \in EdgeValues(bb) : Native(s, b) \in DOMAIN table
           /\ \A s \in Fitting(sb), b \in Fitting(bb) : Native(s, b) = Classify(s, b, sb, bb)
           /\ EngineIsSorted =>
                 \A s \in Fitting(sb), b \in Fitting(bb) :
                    {id \in DOMAIN table : BucketContains(table[id], s, b)} = {Native(s, b)}
           /\ ~ EngineIsSorted /\ IsInjective(sb) /\ IsInjective(bb) =>
                 \E s \in Fitting(sb), b \in Fitting(bb) :
                    ~ BucketContains(table[Native(s, b)], s, b)

\* A plan, whenever it was made and for whatever shape, fits every step it is
\* taken for: its bucket contains the step's shape, no variant for short
\* caches or small batches serves a longer or a larger one, and every op has
\* the variant of its kind, unless a later op of the same name took its entry.
PlanFitsShape ==
    phase \in {"bind", "execute"} /\ EngineIsSorted /\ Fits(call.seq_len) /\ Fits(call.batch) =>
        LET ops == engine.graph.ops
            Variant(k) == plan.variants[ops[k].name]
        IN /\ BucketContains(plan.bucket, call.seq_len, call.batch)
           /\ \A k \in DOMAIN ops :
                 /\ Variant(k).name = "vector" => call.seq_len < 128
                 /\ Variant(k) = KernelVariant("tiled", 64) => call.seq_len < 1024
                 /\ Variant(k).name = "single_block" => call.batch < 8
                 /\ \/ Variant(k) = VariantFor(VariantKind(ops[k]), plan.bucket)
                    \/ \E j \in (k + 1)..Len(ops) : ops[j].name = ops[k].name

\* The tokens the caller has got an answer for.
Decoded == UNION {{r} \X (1..decoded[r]) : r \in Request}

\* "one per bucket actually visited" (decode_demo.py:64): between steps the
\* plan cache holds a plan, its own, for exactly the buckets of the shapes
\* profiled, the failed steps' included; and every call that found a cache was
\* profiled once, in the list as in the counts.
ProfileMatchesPlans ==
    phase = "idle" =>
        /\ DOMAIN plan_cache = {BucketId(s) : s \in Range(observations)}
        /\ \A id \in DOMAIN plan_cache : plan_cache[id].bucket.bucket_id = id
        /\ counts = [s \in Range(observations) |->
                        Cardinality({n \in DOMAIN observations : observations[n] = s})]
        /\ Len(observations) = Cardinality(Decoded) + raised - refused

\* Over any number of steps, failed ones too, a key lies in its cache where RoPE
\* rotated it to, when the layer's cache began as long as the first layer's,
\* whose length step takes for all; else it is off by the difference.
KeysRotatedInPlace ==
    \A r \in Request, l \in Layers :
        LET cache == caches[r].k[l] IN
        \A j \in DOMAIN cache.added :
            cache.added[j].position - (cache.prefix + j - 1)
                = caches[r].k[0].prefix - cache.prefix

\* The tokens a request's caches hold, if all layers agree on them and each
\* holds what its own projections made; else a token 0, which there is not.
TokensIn(cache) == [j \in DOMAIN cache.added |-> cache.added[j].token]
Consistent(r) ==
    \A l \in Layers :
        LET k == caches[r].k[l]
            v == caches[r].v[l]
            p == LayerPrefix(l, engine.num_layers)
        IN /\ TokensIn(k) = TokensIn(caches[r].k[0]) /\ TokensIn(v) = TokensIn(k)
           /\ \A j \in DOMAIN k.added : k.added[j].of = <<"k_rot", p>>
           /\ \A j \in DOMAIN v.added : v.added[j].of = <<"v_new", p>>

Context ==
    [r \in Request |-> IF Consistent(r) THEN TokensIn(caches[r].k[0]) ELSE << <<r, 0>> >>]

Promise == INSTANCE Decoding WITH context <- Context

\* A session keeps what Decoding promises: whatever raised and was called
\* again, each request's caches grow by one token at a time, all layers alike, none
\* twice and none of another request or layer, and the caller ends up with
\* all of them.
ImplementsDecoding == Promise!Spec
=============================================================================
