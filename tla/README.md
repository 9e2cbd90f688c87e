# ALAR in TLA+

TLA+ models of Adaptive Latent Agentic Reasoning (this repository), the TLC
configurations that check them, and proofs that TLAPS checks.

ALAR lets an agent think in *latent blocks*: after the literal `<latent>`, a vLLM
plugin feeds `K` outputs `z_1..z_K` of a projector back into the model in the
place of token embeddings, shows a bullet `•` for each, and then forces the
literal `</latent>`. The rest of the system has to keep three things in step with
what the plugin did: the text (bullets and literals), the z's, and the KV cache.
Almost everything that is hard here comes from that: the same fact is kept in
several places by components that do not talk to each other.

- [1. The system](#1-the-system)
- [2. The modules](#2-the-modules)
- [3. What the runs check and show](#3-what-the-runs-check-and-show)
- [4. Bounds](#4-bounds)
- [5. Fairness](#5-fairness)
- [6. What is proved](#6-what-is-proved)
- [7. What the code and its documents disagree on](#7-what-the-code-and-its-documents-disagree-on)
- [8. What is not modelled](#8-what-is-not-modelled)
- [9. Plan](#9-plan)

## 1. The system

```
 tool/rollout/run_turn_sync.py ── JSONL ──> prepare_sft_data.py ──> SFT (alar/sft)
 search/scripts/generate_traces.py ───────────────────────────────────┘   │ checkpoint + projector.pt
                                                                          v
   retrieval server <──HTTP── agent loops ──generate──> load balancer ──> vLLM + vllm_plugin
                               │   ^                                       │        ^
                               │   └────────── z files, /tmp/latent_z <────┘        │ mtime check
                               v                                                    │
   reward, AR-GRPO <── batch with latent_z ──> FSDP ranks (install_patches) ── sync file
```

| component | source | state | operations | hard behaviour | correct means |
|---|---|---|---|---|---|
| vLLM plugin | `alar/vllm_plugin.py` | per request: stash, `_latent_pending_first`, `_latent_remaining`, `_latent_close_remaining`, deque, captured z's; per runner: two masks by batch index | `_preprocess`, `execute_model`, `_update_states_after_model_execute` | batching, chunked prefill, preemption, `max_tokens` | whole blocks only, z's where their bullets are, one request's block independent of others |
| agent loops | `search/rl/agent_loop.py`, `tool/rl/agent_loop.py` | prompt so far, response ids, mask, log probs, z pairs | generate, harvest a turn, retrieve, truncate | blocks cut by limits, z files that failed to be written, multi-turn offsets | columns in step, no loss off policy, z's at their sentinels |
| latent forward | `alar/modeling.py` | none | rebuild the mask from ids; splice cached z's or iterate the projector | the mask is reconstructed from surface text | the actor sees the rollout's context |
| turn routing | `verl/.../agent_loop.py`, `alar/rl/install_patches.py` | in-flight counters, LRU routes, KV caches | acquire, generate, release, evict | fire-and-forget releases, failures, prefix caching by token ids | exact load; latent KV kept across turns |
| projector sync | `install_patches.py`, `vllm_plugin.py`, `train_stage2.sh` | a file, its mtime, the mtime each engine remembers | save, replace, stat, load, remember, relaunch | every two accesses can be cut by the other side; errors are swallowed | no stale projector believed fresh |
| worker wraps | `install_patches.py` | batches with or without `latent_z`; ranks in collectives | postprocess, concat, ref, update, save | a different number of collectives per rank is a hang | shards alike, calls return |
| retrieval server | `search/scripts/retrieval/server.py` | queue, batch, futures | enqueue, collect, search, answer | dynamic batching with a deadline, mixed `topk`, failing searches | batching does not show |
| tool rollouts | `tool/rollout/run_turn_sync.py`, `scoring.py` | output file, episodes, posts in flight | start and resume, turn, post, score, append, final pass | crash in or between writes, errors swallowed by `gather` | every episode recorded once, scores mean what they say |
| SFT preparation | `tool/scripts/prepare_sft_data.py` | items seen | select, deduplicate | order of lines is order of completion | perfect rollouts, one per item |
| trace generation | `search/scripts/generate_traces.py` | output file, its buffer, the chunk's active rows | resume, turn, write, flush, out of turns | buffered writes, crash anywhere, resume by question text | no row traced twice, a crash costs a chunk at most, every question traced |
| SFT examples | `search/dataset.py`, `alar/sft_data/base.py` | columns of ids, labels, latent mask | append pieces, append a latent block, truncate | has to agree with what the plugin and the agent loop do, token by token | an example and a rollout that say the same are trained on alike |
| stage-2 launches | `scripts/train_stage2.sh`, `alar/scripts/merge_*.py`, verl's trainer and checkpoint managers | merged directories, checkpoints, tracker, data position | warm up, merge, train, save, resume, merge the adapter | a launch dies anywhere and is made again over what it left | the tracker names a whole checkpoint, each batch trained on once, the adapter merged into its own base |
| rewards | `search/rl/reward.py`, `alar/rl/ar_grpo.py` | none | count tags, shape a group | products and sums of terms with different signs | no evasion of the format gate, success above failure |

Section 8 lists the parts that are left out. `PROJECT.json` lists, under
"hazards", everything in this code that is hard to test, at the line where it
bites, with the properties that cover it or the reason why none does.

## 2. The modules

Names follow the code where TLA+ allows it. A definition and the lines it
translates are paired in `PROJECT.json`, "map". Next to some definitions stands a
variant (`WatchingWhileClosing` above `Watching`): the same definition with a slip
that the code could well have. No specification uses the variants; they show that
each property is able to fail ("mutants").

**`LatentBlock`** is the promise for one request: after the model itself has
written the open literal, the request owes `K` bullets and the close literal, and
nothing else is emitted until they are. No engine, no masks, no batch.

**`LatentPlugin`** is the plugin. An engine step is `Schedule` (vLLM picks a batch
and how many tokens of each request), `Preprocess`, `Execute`, `UpdateAfter`; each
of the last three is one patched method over the whole batch, in the order of the
code's loops. A z is its index in the capture sequence, a KV position is what it
consumed (0 an embedding of its token id, `n` the n-th z). `Preempt` drops KV but,
as in vLLM, keeps the request's object with the plugin's fields. `out` keeps, for
the properties only, who chose each token. `KeepsPromise` states that every
request refines `LatentBlock`, the fields of the request mapped to `owed` and `zs`.

**`LatentMask`** holds the pure functions on token ids: the loss mask scan
(`ResponseMask`), the pairing by counting (`Rank` numbers the sentinels of a turn,
`ZPositions` are those with a z), the actor's reconstruction (`ReconstructMask`). No
variables.

**`AgentLoop`** is one rollout. `EngineReplies` offers every output that
`LatentBlock` allows within the bounds (`Turns`, computed from that module's
operators, length by length in `Partial`), with a z file that may lack the last z's when `PersistFails` (`lost`
remembers which turns, for the properties only). `Harvest` is everything between
the reply and the `break`s; `Retrieved` appends the information block or gives up;
`TurnPairs` are what `Harvest` adds to `latent_z_pairs`; `Return` is the truncation. A
rollout of the tool agent is one whose first turn
does not search. Tokens `search`, `answer` stand for a whole tag with its content.

**`TurnRouting`** is the balancer, the generate that `install_patches.py` puts in
and, externally, engines that cache full blocks of KV by token ids. Rollouts in
`Sticky` keep one request id, as verl's own tool agent loop does; the others ask
with a new id every turn, as ALAR's loop does. Both may share the balancer.

**`ProjectorSync`** cuts the trainer's save into update, temporary file, replace,
and the engine's reload into stat, load, remember, with failures on both sides.

**`WorkerCalls`** is one training step of the FSDP ranks: a rank's call is the
sequence of collectives and files it has still to do; `Meet` needs all of them.
Whether the model is trained with LoRA is chosen once, in `Init`.

**`Retrieval`** is the promise of `/retrieve`, **`BatchedSearcher`** the batcher,
which implements it (`KeepsPromise == Service!Spec`, liveness included).

**`JsonLines`** is what two generators append to and find again after a crash: a
line is whole, torn in its text, unended (cut just before its newline) or joined to
a cut one, and both are lost then.

**`TurnSync`** is the tool rollout generator with its output file, which outlives
crashes; **`PrepareSft`** reads that file. What a conversation was scored on (`Calls`)
and what is kept of the file (`Kept`) are recursive functions over turns and lines, as
the code's loops are.

**`TraceGen`** is the search trace generator: chunks of rows, turn by turn, each row
written to a buffered file at the end of the turn in which it ends (`queue`, `Write`),
those that ran out of turns behind the last one (`WriteRest`), a flush at every
`ChunkSize`-th record and at the end of a chunk. `todo` are the rows that this run
found no trace of. `Crash` puts any prefix of the
buffer on disk, its next record perhaps cut, and `Start` is `--resume`.

**`SftExample`** extends `AgentLoop` with the examples that SFT trains on, built
piece by piece and cut at `max_length`, next to the rollouts that RL trains on.

**`Stage2`** is `train_stage2.sh` over several launches under one run name: warmup,
the merge of its weights and then of its `projector.pt`, RL with verl's checkpoints,
the merge of the last adapter. A save is six steps in the order of the code (old
checkpoints go, model, adapter, data position, tracker), and `Crash` may come
between any two, leaving the file that was being written torn. Weights are told
apart by the warmups their base and their projector come from and by the batches
they have seen.

**`ArGrpo`** computes the tag counters and the shaped rewards, in fractions. The
matches of the code's regular expression are a set of positions (`Thinks`), the stack
of open tags is its height, and the products and sums over a group are recursive
functions. The cosine is replaced by a line; with `Horizon = 2` the steps are its
start, middle and end, where the two agree. `AR_GRPO_LEN_ON=0` is an `L` that no text
exceeds, `AR_GRPO_DIV_ON=0` the last step, where the bonus is 0.

The theorems are in modules of their own, each extending the model it is about:
**`LatentPluginProofs`**, **`AgentLoopProofs`** (with what it needs of `LatentMask` and
of `LatentBlock`'s outputs, and with the examples of `SftExample`), **`TurnRoutingProofs`**,
**`BatchedSearcherProofs`**, **`TurnSyncProofs`** (which extends `PrepareSft` and so is
about both), **`TraceGenProofs`**, **`Stage2Proofs`**, and **`TrainingProofs`**, about the
three parts of a training step: it extends `ProjectorSync`, `WorkerCalls` and `ArGrpo`,
each with a specification of its own (`Spec`, `CallsSpec`, `GroupSpec`). The
`MC*` modules give the constants their values for TLC.

## 3. What the runs check and show

| run | instance | shows |
|---|---|---|
| `blocks` | 1 request, K=2, 8 tokens, literals that share a piece, 2 preemptions | output is free text and whole forced blocks (`BlockLayout`); fields agree on one place (`OnePlace`); the code's assertion (`ConsumedEmbedCounted`); one z per bullet (`ZPerSentinel`); no KV position consumed a foreign z, and none misses its own in a run without a preemption (`KVSpliced`) |
| `batch` | 2 requests | each request refines `LatentBlock` (`KeepsPromise`); `KVSpliced` across the batch; blocks with room close (`BlockCloses`) |
| `search` | 3 turns, K=2, z files incomplete, beside all examples of as many turns | z's at their sentinels (`ZAligned`); the next turn sees what training sees (`ContextIsResponse`); no loss on spliced or retrieved tokens (`NoLossOffPolicy`); the actor rebuilds the rollout's context (`ActorContext`); SFT and RL train on the same text in the same way, with loss and z's at the same positions (`TrainedAlike`) |
| `routes` | 2 rollouts, one keeps its id, 2 replicas, 1 eviction | counters exact (`InflightExact`) and drained in the end (`Drains`); kept ids stick to a replica, unless the LRU cache forgot them (`StickyTurns`); the most that prefix caching keeps (`LostOnlyInTail`) |
| `moved` | 2 replicas, new ids | the README's claim on prefix caching (`LatentKVIntact`) is violated |
| `gate` | 3 updates, 2 launches, 2 faults, 2 engines | the mtime gate hides nothing (`GateSound`), nothing of an earlier run (`OwnRun`), engines end with what was published last (`Converges`) |
| `calls` | 3 ranks, 2 steps, LoRA or not | shards concatenate (`ShardsAlike`), calls return on all ranks (`CallReturns`) |
| `batches` | 4 requests, 5 queries | batching implements `Retrieval`: requests get what each asked for, and none waits for ever (`KeepsPromise`) |
| `resume` | 3 rollouts of an item, capped, 1 crash, cut lines | nothing left to the defensive pass (`NothingLeftOver`), no signature twice (`OncePerSignature`), 1.5 misses no call and hides no mismatch (`PerfectCallsAllRight`), one perfect rollout kept (`OnePerItem`), only cut lines cost records (`AllRecorded`) |
| `traces` | 4 rows, a question twice, 2 chunks, 2 crashes | no row traced twice (`RowOnce`); of a chunk that is through nothing is left in memory (`EarlierChunksOnDisk`); no whole line is taken back (`WholeLinesStay`); every question ends up traced but for those of cut lines (`EveryQuestionTraced`) |
| `launches` | 5 steps, saves every 2, 2 checkpoints kept, 3 crashes | a readable tracker names a whole checkpoint (`TrackerComplete`); step s trains on batch s (`EachBatchOnce`); adapters stay with the projector of their warmup (`OneProjector`); what is evaluated is the last step's adapter on its base (`EvalIsFinal`); training ends (`TrainingEnds`) |
| `groups` | pairs out of all texts of 3 tags and 10 longer kinds | `NoEvasion`, `SuccessAboveFailure`, `LatentNotWorse` |

`moved` checks a sentence of the repository that the code does not keep; section 7
quotes it, and lists others that a different choice of the constants shows.

`WorkerCalls` says `CHECK_DEADLOCK FALSE`: a collective that a rank never joins
stops the system, and it is `CallReturns` that says it must not. Where a passing run
has come to its end, the modules stutter (`Terminated`, `Stopped`, `AllAnswered`), so TLC's
deadlock check is on everywhere else.

## 4. Bounds

- *Literals.* Qwen's tokenizer splits both into pieces of which the last are shared;
  `blocks` has two pieces each with the last one shared, which is the case in which
  open and close can be confused, and short enough for a block, text around it and
  the start of another. `K = 2` is the least with a first, a next and a last
  projection; `K = 1`, where they coincide, is in `batch`.
- *`MaxOut`* is large enough for a block and the start of another, and every cut of
  a block by the limit is reached since the model may speak first.
- *Two requests* suffice for a batch: the methods treat requests pairwise alike, and
  the theorems hold for any set of them.
- *Preemptions* (`MaxPreempt`), faults (`MaxFaults`), launches (`MaxRuns`): two, so
  that one can undo what another left. *Evictions* (`MaxEvict`): one. *Crashes*
  (`MaxCrashes`): one for `TurnSync`, whose safety is proved for any number; two for
  `TraceGen`, so that the second comes upon what the first cut; three for `Stage2`.
- *Agent loop.* Three turns give a first, a middle and a last; a turn has up to 8
  tokens (a whole block and text on both sides of it), and `ResponseLength = 12` is
  smaller than three turns with their information, so that it cuts inside blocks,
  behind them and in the information. `max_length` of the examples is the same.
- *Routing.* KV blocks of two positions, so that turns end inside a block and on its
  edge. `MaxRoutes = 2` with up to three ids makes the LRU cache forget.
- *Ranks.* Three: one that is ahead, one behind, and the root apart from either.
- *Searcher.* Batches of two with five queries: full batches, batches cut by the
  deadline, requests split over two batches; topk null, larger and smaller than the
  documents there are.
- *Tool rollouts.* One item, since items meet only in the file and in the order of
  its lines, as rollouts of one item do; `OnePerItem` is proved for any number. Three calls or more, so that a mismatch can outweigh
  what was right, and a cap that leaves out the last turn.
- *Traces.* Rows q1, q2 | q1, q3 in chunks of two: the repeated question is in
  another chunk than the first one, so that a crash falls between them. Two turns
  (`MaxTurns = 1` counts from 0), so that rows of a chunk end in different ones and
  the buffer is flushed in the middle of one.
- *Launches.* Five steps with a save at every second one give three checkpoints, the
  last out of rhythm; two are kept, so that one is removed while another is written;
  a sixth batch lets a launch after the last step train step 6.
- *Rewards.* Three tags are enough to nest, to leave open and to close too often, and
  the longer kinds to exceed `L`; the arithmetic is exact, so kinds of responses
  stand for their lengths.

## 5. Fairness

- `LatentPlugin`: weak fairness of the three methods (one thread runs them one after
  the other) and strong fairness of scheduling each request: vLLM's scheduler is
  first-come first-served, and a waiting request is at the head sooner or later.
- `TurnRouting`, `WorkerCalls`: Ray delivers the calls it accepted, engines answer
  or raise; ranks and driver do not stop of themselves (an NCCL time-out kills the
  run, which is no way to return). A failing write is a choice, not a fair step.
- `ProjectorSync`: engines keep stepping, a sync that began is finished. Nothing is
  assumed of failures, updates or relaunches, which are bounded.
- `BatchedSearcher`: the event loop runs ready tasks, the executor's search ends.
- `TurnSync`, `TraceGen`: a crashed run is started again by the operator (the
  purpose of its resume), every post settles since it has a time-out of 600 s, a
  generation returns, a failed search counts as one without documents. Nothing is
  assumed of crashes, which are bounded.
- `Stage2`: a launch that died is made again and no step of one hangs; strong
  fairness of `Warmup` says that an operator who finds that `--rl-only` raises on the
  merged checkpoint does not go on with `--rl-only` for ever.

## 6. What is proved

All theorems hold for every value of the constants that the named assumption of the
module admits (`PluginAssumption`, `SearcherAssumption`, ...: nonempty literals,
`K >= 1`, positive sizes), and for any bound on crashes, faults and preemptions; what
a theorem assumes beyond that is in its `ASSUME`. Every
invariant that a run checks is stated by one of them.

| module | theorem | says | assumes |
|---|---|---|---|
| `LatentPluginProofs` | `TypeCorrect` | `[]TypeOK` | |
| | `AlwaysOnePlace` | `[]OnePlace` | |
| | `AssertionHolds` | `[]ConsumedEmbedCounted` | |
| | `ZsAtTheirSentinels` | `[]KVSpliced` | `~Chunked` |
| | `EachRequestKeepsPromise` | the refinement `KeepsPromise` | `~Chunked` |
| | `BlocksAreWhole`, `OneZPerSentinel` | `[]BlockLayout`, `[]ZPerSentinel` | `~Chunked` |
| `AgentLoopProofs` | `SameContext` | `[]ContextIsResponse` | |
| | `NoLossOnOthers` | `[]NoLossOffPolicy` | |
| | `ZsAligned` | `[]ZAligned` | `BulletsAreSpliced` |
| | `ActorSeesContext` | `[]ActorContext` | `LiteralsApart` |
| | `SameTraining` | `[]TrainedAlike`, for examples of any turns | `ExamplesApart` |
| `TurnRoutingProofs` | `CountersExact` | `[]InflightExact` | finitely many rollouts |
| | `ReleaseNeverRaises` | the `raise` of `release_server` is never reached | finitely many rollouts |
| | `TurnsStick` | `[]StickyTurns` | finitely many rollouts |
| | `LossesInTail` | `[]LostOnlyInTail` | finitely many rollouts |
| `TrainingProofs` | `SyncTypeCorrect`, `GateIsSound`, `OwnRunOnly` | `[]TypeOK`, `[]GateSound`, `[]OwnRun` | |
| | `ShardsAreAlike` | `[]ShardsAlike` | `HiddenSizeSet` |
| | `NeverStuck`, `CallsGetShorter` | the safety core of `CallReturns`: `[]CanGoOn`, `[][Shortens]_callsVars` | `CallsSound` |
| | `FormatGateHolds` | `[]NoEvasion` | |
| | `SuccessIsAbove` | `[]SuccessAboveFailure` | `Alpha < 10` (α < 1) |
| | `LatentIsNotWorse` | `[]LatentNotWorse` | |
| `BatchedSearcherProofs` | `BatchingDoesNotShow` | the refinement `KeepsPromise` but for its fairness | |
| `TurnSyncProofs` | `NothingTwice` | `[]OncePerSignature` | |
| | `DefensivePassIdle` | `[]NothingLeftOver` | `HasTokenLimit` |
| | `PerfectIsAllRight` | `[]PerfectCallsAllRight` | |
| | `OneOfEachItem` | `[]OnePerItem` | |
| `TraceGenProofs` | `NoRowTwice`, `ChunksOnDisk` | `[]RowOnce`, `[]EarlierChunksOnDisk` | |
| | `LinesStay` | the action property `WholeLinesStay` | |
| `Stage2Proofs` | `TrackerIsComplete`, `BatchesOnce` | `[]TrackerComplete`, `[]EachBatchOnce` | `MaxKeep # 1` |
| | `ProjectorIsOne`, `MergedIsFinal` | `[]OneProjector`, `[]EvalIsFinal` | `MaxKeep # 1`, `Careful` |

The assumptions are not conveniences: with chunked prefill, a single kept checkpoint,
a careless operator, no token limit, a model that samples bullets, no hidden size,
sequence parallelism, an adapter that cannot be written or α = 1 the statements are
false, and section 7 says what the code then does. `CallsSound` is the conjunction of
the three that concern the ranks. `BulletsAreSpliced` says that
the sentinel is neither sampled by the model nor a piece of the close literal.
`LiteralsApart` adds that the first piece of the open literal occurs in no retrieved
document and not in the close literal, that the open literal has no bullet, and that a
search tag is told apart from all of these: the code looks for surface patterns and
escapes nothing, so a document that brings the literals along would be taken for a
block. `ExamplesApart` adds that the bullet is none of the other words of an example:
the text, the tags, the literals, the eos. The instance `search` satisfies all three. `MaxTurnLen`, `MaxTurns` and the like
bound the code and are arbitrary in the theorems.

*`LatentPlugin`, the place in the block.* `OnePlace` speaks of the moments between two
steps and is not inductive: within a step the fields legitimately disagree. `IInv`
adds what each phase leaves behind. Before `Preprocess` a request is idle, armed,
splicing or forcing. Between `Preprocess` and `Execute` the stash of a splicing
request of the batch has moved into the override mask: `overrideMask` holds exactly
for the requests that were splicing, and they still have `remaining > 0`, which is the
assertion. Between `Execute` and `UpdateAfter` the skip mask holds for the requests of
a block, and a skipped request whose countdown has reached 0 is the one whose close
literal starts. Requests outside the batch never leave the four places. Each action is
a lemma with one step per conjunct it can disturb; `Preempt` and chunks are harmless
precisely because the argument never mentions the KV cache.

*The z's.* `SInv` relates three copies of one fact, position by position: what the KV
cache consumed (`kv`), what the output says stands there (`Stands`, from `out`), and
the stash. Between steps the stash is the z of the last token; in a step the batch
has consumed it, every position of the batch is computed (`Unsplit`: the whole rest of
a request was scheduled), and the stash is the z of the token to come. `Computed`
bounds the positions that are not in the cache, which is where a preemption may leave
bullets in a block.

*The promise.* `PInv` adds `Recent`: the deque is the end of what the model itself has
written since the last block. That makes the deque test of the code equivalent to
what `LatentBlock` asks of the output; one lemma per kind of step (speak, open, reason
a piece of a block, quiet) then maps each engine step to a step of each request's
`LatentBlock` or to a stutter.

*The layout.* `BlockLayout` speaks of the whole output, so it is read off the refinement:
`LInv` says of the output alone, with the countdown of `LatentBlock` beside it, that
each open literal of the model is followed by its pieces, as many as the request is not
owed (`Layout`), and `ZPerSentinel` that the z's are as many as the bullets. A step of
`LatentBlock` keeps it, hence so does a step of the engine.

*A rollout.* The outputs of an engine are computed length by length, so what holds of
all of them (`Sound`: the n-th bullet was spliced in for the n-th z; `LaidOut`: blocks
stand behind the literals of the model and nowhere else, and nothing follows what
stops a turn) goes by induction on the length. `IInv` then says that `cur_prompt` and
the response are the same sequence, that what is to be harvested is such an output and
the file its first z's, and that every pair lies at its bullet. For the actor that is
not enough, because it looks for patterns in a text put together of turns and
documents: `CInv` says of every prefix of the rollout that behind whatever looks like
an open literal stand spliced bullets, and that each bullet's pattern is complete
before the model goes on (`Context`), and of the text between turns that nothing in it
is pending: no begun literal that the next piece could complete, no open block
(`Closed`). A turn with a search ends at its search tag, so it is closed; a closed text
with a context behind it is a context (`ContextJoined`), and so is a prefix of one,
which is what truncation leaves.

*SFT and RL.* An example is put together of pieces, and what makes it well made is said
position by position (`Well`): a latent position has no loss and lies among the K
behind an open literal; documents have none; text has loss, unless it is the eos behind
the answer, and is no bullet. Joining and cutting keep that (`JoinWellMade`,
`ExamplesMade`). Of a rollout `TInv` adds to the above that only spliced and retrieved
tokens are without loss, because the scan starts blocks only where the pattern stands
(`ScanMatches`, by induction from the end of the text) and `Context` says what is
inside; and that an answer of the model's own comes last, so that no eos follows it
that the example would not count. Where both say the same, the open literal of an
example's block stands in the rollout too, and bullets are spliced there.

*Stickiness and the KV cache.* An id that was asked for is remembered, with the replica
of its first turn, as long as the ids seen are no more than the LRU cache holds
(`Remembered`). `KVInv` follows what a rollout's prefix has at a replica: which of its
turns were computed there, that of such a turn the full blocks hold projector outputs
at the spliced positions, and that what was lost lies behind the last full block of a
turn on which a replica was left or a turn ended.

*Projector.* `Behind(e)`: neither the mtime an engine remembers nor the one it is about
to remember is ahead of the file's, and if it equals the file's then what it loaded is
what is in the file. The stat before the load is what makes this inductive.

*Ranks' calls.* `InStep`: while the driver waits, all ranks have the same left of their
call, but for the files of the root (`RefLeft`, `UpdateLeft`, `SaveLeft` list the places).
The beginning of a call is such a place because every shard carries `latent_z`, so that
each rank has one forward whatever it was given (`CallsAre`). At each place the root is
at a file, or all are at one collective, or all have returned (`NeverStuck`); and every
step leaves less to do (`CallsGetShorter`). That a call returns under the fairness of
section 5 follows by induction over what is left, but saying so needs `ENABLED`, so
`CallReturns` itself stays with TLC.

*Rewards.* `NoEvasion`: if the format gate passes, the stack is empty at the end, and
only a close tag takes it down, so behind every open tag there is a close tag
(`OpenIsClosed`); the first open tag that is not closed before it and the first close
tag behind it are a match of the regular expression (`SomeMatch`, by least elements),
which counts. The order of scores: the common denominator of the group is positive and
each latent fraction lies in 0..1 (`FractionIs`); before the length scale, which is a
positive fraction of at most 1, a score is above -1 because α < 1, above 0 for a success
and, without the bonus, at most 0 for a failure (`WorthIs`); the rest is comparing
products of four (`AbovePenalty`, `GainAboveLoss`, `NotWorse`).

*Launches.* The invariant says for each phase what the crash would leave: `Slots` (a
checkpoint that loads holds its own step's weights), `TrackerNames` (the tracker's is
whole), `SavedInOrder` (the list that retention removes from is increasing, and its
last, or last but one, is the tracker's). The last is why two kept checkpoints suffice
and one does not.

*Counters.* The count of a replica is the cardinality of the rollouts it serves plus
the releases that are on their way; where the balancer sent them does not matter.

*Searcher.* The topk best of the `MaxTopk` best are the topk best (`BestOfBest`), and
a batch that holds an item has a deepest one (`HasDeepest`), so that `MaxTopk` exists.

*Rollouts.* What a run has still to write is not on disk (`Fresh`), because appending
makes at most the new line readable (`AppendLineReads`: joining only loses). With a
token limit every episode that is not written has turns to go and is posted in each
(`OnTheWay`), so when none has, none is left.

*Scores.* The sums of right and of expected calls grow with the turns, by the same
amounts exactly as long as all calls are right, so a record whose quotient is 1 missed
none (`Answered` relates the replies to the turns that were in time; `AllRight` is
the induction). *Deduplication.* A line is kept when it is the first perfect one of its
item among those before it (`KeptIs`, by induction over the lines).

*Traces.* A row of the chunk is to go, in the queue, in the buffer, on disk, or lost
with a cut line, never in two of these, and rows of the chunks before are on disk or
lost; a crash moves a prefix of the buffer to the file, where `Start` finds it.

TLC checked each conclusion first, in the runs above (`CanGoOn` and `Shortens` on the
instance of `calls`).

Induction over lengths, turns and lines is done on sets of numbers (`NatSet`, from
well-founded induction), and the recursive functions of the models are shown to exist
before they are unfolded.

Left to TLC is liveness (`BlockCloses`, `Drains`, `Converges`, `CallReturns`,
`AllRecorded`, `EveryQuestionTraced`, `TrainingEnds`, the fairness of `Retrieval`),
which needs `ENABLED`.

## 7. What the code and its documents disagree on

One disagreement has a run (and an entry under "findings"): `moved`. README.md:149
says "Prefix caching keeps the latent KV intact across agent turns"; a new request id
per turn may go to another replica, which computes the latent positions from bullets.

The passing runs state their properties where they hold. Other values of the
constants make some of them fail, and reproduce what else the code does that a text
of the repository does not say:

| instance | property that fails | the text | the code |
|---|---|---|---|
| `blocks` with `Chunked = TRUE` | `BlockLayout` | vllm_plugin docstring, "exactly matches the SFT layout" | the discarded sample of a partial chunk still feeds detector and countdown |
| `search` with `"bullet"` in `ModelTokens` | `ZAligned` | agent_loop.py:193, sentinels are "never validly sampled by the model" | nothing prevents it, and it shifts the pairing of z's |
| `search` with `LossHasLogProb` as an invariant | `LossHasLogProb` | rollout_corr_helper.py:1126, "bypass_mode=True requires rollout_log_probs in batch" | `train_stage2.sh` turns them off; zeros take their place and satisfy the check |
| `moved` with `Sticky = Conv`, `MCShapes` | `LatentKVIntact` | as `moved` | the last, unfilled KV block of a turn is recomputed from bullets even on the same replica |
| `calls` with `AdapterFails = TRUE` | `CallReturns` | a failing adapter write is a "WARN" | rank 0 skips the barrier the others wait in |
| `calls` with `UlyssesSP = TRUE` | `CallReturns` | "The patch raises if it sees use_ulysses_sp=True" | it warns and goes on without the cached z, so that the ranks run different numbers of forwards |
| `calls` with `HiddenSizeSet = FALSE` | `ShardsAlike` | the launch scripts set `LATENT_HIDDEN_SIZE` | without it a shard with no z has no `latent_z`, and the strict concatenation raises |
| `groups` with `Alpha = 10` | `SuccessAboveFailure` | ar_grpo.py:14, format_ok=0 is the "hard penalty, overrides everything" | `AR_GRPO_ALPHA` has no upper bound; at 1 a well-formed wrong answer with latent turns only gets -1 as well, beyond it less than the penalty |
| `resume` with `HasTokenLimit = FALSE` | `NothingLeftOver` | run_turn_sync.py:450, "shouldn't happen, defensive"; the cutoff is "optional" | `MAX_TOKEN_LENGTH=0` divides by zero for a perfect episode, and `gather` swallows it |
| `launches` with `MaxKeep = 1` | `TrackerComplete` | checkpoint_manager.py:144, "we keep the existing checkpoint until the new save completes successfully" | the old one goes when the shards are registered, before the adapter, the data position and the tracker are written |
| `launches` with `Careful = FALSE` | `OneProjector` | train_stage2.sh, the "merged warmup base (which already carries the projector sidecar)" | `--rl-only` checks that the directory exists; a missing sidecar is skipped in silence |
| `launches` with `TornTracker = TRUE` | `TrainingEnds` | ray_trainer.py:939, the tracker is written "for atomic usage" | an empty tracker makes `int("")` raise in every launch that follows |

Read in the code, with no property of its own:

- After a preemption the positions of a block are recomputed from bullet embeddings
  (`KVSpliced` admits exactly that).
- The forced pieces of the close literal carry loss, although `agent_loop.py:164` says
  that they "ARE naturally sampled". SFT trains on them too (`TrainedAlike`).
- The reference worker keeps the cached z under full fine-tuning (`KeptByRef`).
- A score of 1.5 ignores narration turns (`PerfectCallsAllRight` speaks of calls only).
- `prepare_sft_data.py` counts an item as seen before `convert_rollout` may reject its
  rollout (216-220): the item's other perfect rollouts are then skipped too.
- `--dedup_by_item` keeps the first perfect rollout on file, not the "lowest
  rollout_idx", and does not tell the shards it reads apart, though `item_idx` counts
  within one.
- The record joined to a torn line is lost while the run logs DONE (`AllRecorded` and
  `EveryQuestionTraced` allow for it).
- `generate_traces.py --resume` is described as skipping "questions whose pred_answer
  already exists"; it skips every recorded question, an unanswered one too
  (`EveryQuestionTraced` therefore asks for a trace, not for an answer).
- A question that comes twice is traced twice in one run and once if the run crashed
  in between. `process_chunk` promises to write each example "immediately"; the file
  is buffered and flushed at every `ChunkSize`-th record (`EarlierChunksOnDisk`).
- A launch after the last step trains one step more (`LastKept` in the proof shows that
  the checkpoint that is merged survives it), and a dataset exhausted before
  `RL_STEPS` ends in a warning and "done" (`EvalIsFinal` excludes it).

## 8. What is not modelled

- *Numbers:* the projector, log probabilities, advantages, bf16; a z is an identity.
- *Vendored verl* makes up most of the lines under `src/`. Modelled of it is what
  ALAR's launches and patches meet: the balancer and the server manager, the driver's
  calls, checkpoints, retention, tracker and resume. Its other trainers, workers,
  engines and kernels are not ALAR's.
- *Tool reward*: its counters and score are those of `ArGrpo` and `TurnSync`; parsing
  calls out of a response is not modelled.
- *Evaluation drivers*, *RL entry points* and *parquet preparation*: sequential, nothing
  is kept between calls. *The tool dataset* and *the SFT training loop*: message
  handling and a single process. *`merge_fsdp_rl`*: a conversion of files.
- *`RESUME_MODE=disable`* over an old run directory, *adapter saves whose failure is
  swallowed*, clocks that go back, two runs under one name at a time.
- Encoding details are abstracted to tokens as model values; the cumulative-token
  cutoff is a length in three classes.

## 9. Plan

Done, the most important first: `LatentBlock` and `LatentPlugin`; `LatentMask` and
`AgentLoop`, which takes the engine's replies from `LatentBlock`; `TurnRouting`;
`ProjectorSync`; `WorkerCalls`; `Retrieval` and `BatchedSearcher`; `TurnSync` and
`PrepareSft`; `ArGrpo`; then `JsonLines` and `TraceGen`, `SftExample`, `Stage2`; and
the proofs of section 6.

What could follow:

1. `PrepareSft` over several shards, with `convert_rollout`'s rejections.
2. `ProjectorSync` composed with the engine step, so that a reload between two z's of
   one block is visible.
3. The liveness properties, should the provers come to support `ENABLED`: for the
   calls, `NeverStuck` and `CallsGetShorter` are what is needed besides.
