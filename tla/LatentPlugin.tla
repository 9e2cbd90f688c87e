---------------------------- MODULE LatentPlugin ----------------------------
(***************************************************************************)
(* The per-request latent state machine that alar/vllm_plugin.py splices   *)
(* into vLLM's GPUModelRunner.                                             *)
(*                                                                         *)
(* One engine step runs, over a batch of requests, the three patched       *)
(* methods in this order, in one thread:                                   *)
(*                                                                         *)
(*   Preprocess   input embeddings; the last position of a request with a  *)
(*                stashed projector output consumes that output instead of *)
(*                the embedding of its token id                            *)
(*   Execute      the forward pass; z = projector(h) is captured and       *)
(*                stashed for the next position                            *)
(*   UpdateAfter  the sampled token is kept, or replaced by the sentinel   *)
(*                or by a forced piece of the close literal                *)
(*                                                                         *)
(* Schedule and Preempt are vLLM's scheduler (external): it picks the      *)
(* batch, may split a prefill into chunks (Chunked) and may drop the KV    *)
(* cache of a request and recompute it later (MaxPreempt).  vLLM keeps    *)
(* the request object, and so the plugin's fields on it, meanwhile.        *)
(***************************************************************************)
EXTENDS Integers, Sequences, FiniteSets

CONSTANTS
  Req,          \* requests given to the engine
  Tokens,       \* vocabulary
  OpenIds,      \* the pieces of the open literal <latent>
  CloseIds,     \* the pieces of the close literal </latent>
  Sentinel,     \* SENTINEL_ID, the bullet
  Eos,          \* a token that ends the request
  K,            \* LATENT_NUM_LATENT, projector outputs per block
  PromptLen,    \* tokens in a request's prompt
  MaxOut,       \* max_tokens of the sampling parameters
  Chunked,      \* the scheduler may split a prefill
  MaxPreempt    \* bound on the preemptions of a run; 0 is ample KV memory

ASSUME PluginAssumption ==
  /\ OpenIds \in Seq(Tokens) /\ OpenIds # <<>>
  /\ CloseIds \in Seq(Tokens) /\ CloseIds # <<>>
  /\ Sentinel \in Tokens
  /\ Eos \in Tokens
  /\ K \in Nat \ {0}
  /\ PromptLen \in Nat \ {0}
  /\ MaxOut \in Nat \ {0}
  /\ Chunked \in BOOLEAN
  /\ MaxPreempt \in Nat

VARIABLES
  phase,           \* which method of the engine step runs next
  sched,           \* batch of the step: request -> number of tokens scheduled
  finished,        \* requests that ended; vLLM drops their state
  out,             \* tokens appended to a request, and who chose each
  preemptions,     \* preemptions so far
  kv,              \* what each computed position consumed: 0 is the embedding
                   \* of its token id, n > 0 the n-th projector output
  nextEmbed,       \* rs._latent_next_embed: the stashed z (its index), 0 is None
  pendingFirst,    \* rs._latent_pending_first
  remaining,       \* rs._latent_remaining
  closeRemaining,  \* rs._latent_close_remaining
  buf,             \* rs._latent_buf, a deque of at most Len(OpenIds) tokens
  captured,        \* len(rs._captured_z_seq)
  overrideMask,    \* runner._latent_override_mask
  skipMask         \* runner._latent_step_skip_sampling

vllmVars == <<sched, finished, out, preemptions, kv>>
latentVars == <<nextEmbed, pendingFirst, remaining, closeRemaining, buf, captured>>
maskVars == <<overrideMask, skipMask>>
vars == <<phase, vllmVars, latentVars, maskVars>>

Batch == DOMAIN sched
Live == Req \ finished

\* An emitted token, who chose it ("model", "latent", "close") and, for a
\* sentinel, the projector output it stands for.
Emitted == [tok : Tokens, by : {"model", "latent", "close"}, z : Nat]

\* Positions of r that the next forward passes still have to compute.
Uncomputed(r) == PromptLen + Len(out[r]) - Len(kv[r])

\* The functions assign : S -> V override f on S.
Assign(f, S, val(_)) == [x \in DOMAIN f |-> IF x \in S THEN val(x) ELSE f[x]]

Init ==
  /\ phase = "schedule"
  /\ sched = <<>>
  /\ finished = {}
  /\ out = [r \in Req |-> <<>>]
  /\ preemptions = 0
  /\ kv = [r \in Req |-> <<>>]
  /\ nextEmbed = [r \in Req |-> 0]
  /\ pendingFirst = [r \in Req |-> FALSE]
  /\ remaining = [r \in Req |-> 0]
  /\ closeRemaining = [r \in Req |-> 0]
  /\ buf = [r \in Req |-> <<>>]
  /\ captured = [r \in Req |-> 0]
  /\ overrideMask = [r \in Req |-> FALSE]
  /\ skipMask = [r \in Req |-> FALSE]

-----------------------------------------------------------------------------
(* vLLM's scheduler (external) *)

Schedule(B) ==
  /\ phase = "schedule"
  /\ B # {}
  /\ \E n \in [B -> 1..(PromptLen + MaxOut)] :
       /\ \A r \in B : /\ n[r] <= Uncomputed(r)
                       /\ Chunked \/ n[r] = Uncomputed(r)
       /\ sched' = n
  /\ phase' = "preprocess"
  /\ UNCHANGED <<finished, out, preemptions, kv, latentVars, maskVars>>

\* The blocks of r are freed; a resume finds at most a prefix of them again.
Preempt(r) ==
  /\ preemptions < MaxPreempt
  /\ phase = "schedule"
  /\ \E n \in 0..(Len(kv[r]) - 1) : kv' = [kv EXCEPT ![r] = SubSeq(@, 1, n)]
  /\ preemptions' = preemptions + 1
  /\ UNCHANGED <<phase, sched, finished, out, latentVars, maskVars>>

-----------------------------------------------------------------------------
(* The patched methods of GPUModelRunner *)

\* The positions a step computes: token embeddings, the stash in the last one.
ConsumedUnspliced(r) == [i \in 1..sched[r] |-> 0]
Consumed(r) == [i \in 1..sched[r] |-> IF i = sched[r] THEN nextEmbed[r] ELSE 0]

Preprocess ==
  /\ phase = "preprocess"
  /\ overrideMask' = [r \in Req |-> r \in Batch /\ nextEmbed[r] # 0]
  /\ kv' = Assign(kv, Batch, LAMBDA r : kv[r] \o Consumed(r))
  /\ nextEmbed' = Assign(nextEmbed, Batch, LAMBDA r : 0)
  /\ phase' = "execute"
  /\ UNCHANGED <<sched, finished, out, preemptions, pendingFirst, remaining,
                 closeRemaining, buf, captured, skipMask>>

\* The last piece of the open literal was consumed: h gives z_1.
ProjectFirst(r) == pendingFirst[r]
\* A projector output was consumed: count it, and project again but for the last.
ConsumeEmbed(r) == ~pendingFirst[r] /\ overrideMask[r]
ProjectNextOnceMore(r) == ConsumeEmbed(r) /\ remaining[r] > 0
ProjectNext(r) == ConsumeEmbed(r) /\ remaining[r] > 1

Execute ==
  /\ phase = "execute"
  /\ LET Projecting == {r \in Batch : ProjectFirst(r) \/ ProjectNext(r)}
         Consuming == {r \in Batch : ConsumeEmbed(r)}
     IN /\ captured' = Assign(captured, Projecting, LAMBDA r : captured[r] + 1)
        /\ nextEmbed' = Assign(Assign(nextEmbed, Consuming, LAMBDA r : 0),
                               Projecting, LAMBDA r : captured[r] + 1)
        /\ remaining' = Assign(remaining, Consuming, LAMBDA r : remaining[r] - 1)
        /\ pendingFirst' = Assign(pendingFirst, Batch, LAMBDA r : FALSE)
        /\ skipMask' = [r \in Req |-> r \in Projecting \cup Consuming]
  /\ phase' = "update"
  /\ UNCHANGED <<vllmVars, closeRemaining, buf, overrideMask>>

Closing(r) == closeRemaining[r] > 0
InReasoning(r) == pendingFirst[r] \/ nextEmbed[r] # 0 \/ remaining[r] > 0

\* The step whose sampled token goes to the open-literal detector.
WatchingWhileClosing(r) == ~skipMask[r] /\ ~InReasoning(r)
Watching(r) == ~Closing(r) /\ ~skipMask[r] /\ ~InReasoning(r)
Pushed(r, t) ==
  Append(IF Len(buf[r]) < Len(OpenIds) THEN buf[r] ELSE Tail(buf[r]), t)
Detected(r, t) == Watching(r) /\ Pushed(r, t) = OpenIds

\* The K-th projector output was consumed: the close literal starts.
BlockDoneEarly(r) == skipMask[r] /\ remaining[r] <= 1 /\ ~pendingFirst[r]
BlockDone(r) == skipMask[r] /\ remaining[r] = 0 /\ ~pendingFirst[r]

\* Close pieces still to force after this step.
CloseLeftStuck(r) == IF BlockDone(r) THEN Len(CloseIds) - 1 ELSE closeRemaining[r]
CloseLeft(r) ==
  IF BlockDone(r) THEN Len(CloseIds) - 1
  ELSE IF Closing(r) THEN closeRemaining[r] - 1 ELSE closeRemaining[r]

\* output_token_ids[i, 0] when the model sampled t.
Output(r, t) ==
  CASE BlockDone(r) -> [tok |-> CloseIds[1], by |-> "close", z |-> 0]
    [] skipMask[r] /\ ~BlockDone(r) ->
         [tok |-> Sentinel, by |-> "latent", z |-> captured[r]]
    [] ~skipMask[r] /\ Closing(r) ->
         [tok |-> CloseIds[Len(CloseIds) - closeRemaining[r] + 1],
          by |-> "close", z |-> 0]
    [] OTHER -> [tok |-> t, by |-> "model", z |-> 0]

\* vLLM discards the output of a step that left positions uncomputed.
Kept(r) == Uncomputed(r) = 0

\* vLLM ends a request on a stop token or at max_tokens.
Ends(r, t) ==
  Kept(r) /\ (Output(r, t).tok = Eos \/ Len(out[r]) + 1 >= MaxOut)

UpdateAfter ==
  /\ phase = "update"
  /\ \E s \in [Batch -> Tokens] :
       LET Opened == {r \in Batch : Detected(r, s[r])}
       IN /\ out' = Assign(out, {r \in Batch : Kept(r)},
                           LAMBDA r : Append(out[r], Output(r, s[r])))
          /\ finished' = finished \cup {r \in Batch : Ends(r, s[r])}
          /\ buf' = Assign(buf, {r \in Batch : Watching(r)},
                           LAMBDA r : IF r \in Opened THEN <<>> ELSE Pushed(r, s[r]))
          /\ remaining' = Assign(remaining, Opened, LAMBDA r : K)
          /\ pendingFirst' = Assign(pendingFirst, Opened, LAMBDA r : TRUE)
          /\ closeRemaining' = Assign(closeRemaining, Batch, CloseLeft)
  /\ skipMask' = [r \in Req |-> FALSE]
  /\ sched' = <<>>
  /\ phase' = "schedule"
  /\ UNCHANGED <<preemptions, kv, nextEmbed, captured, overrideMask>>

-----------------------------------------------------------------------------
Terminated == finished = Req /\ phase = "schedule" /\ UNCHANGED vars

Next ==
  \/ \E B \in SUBSET Live : Schedule(B)
  \/ \E r \in Live : Preempt(r)
  \/ Preprocess
  \/ Execute
  \/ UpdateAfter
  \/ Terminated

\* The engine loop runs each step to its end, and vLLM's first-come
\* first-served scheduler takes every live request again and again.
Fairness ==
  /\ WF_vars(Preprocess) /\ WF_vars(Execute) /\ WF_vars(UpdateAfter)
  /\ \A r \in Req : SF_vars(\E B \in SUBSET Live : r \in B /\ Schedule(B))

Spec == Init /\ [][Next]_vars
FairSpec == Spec /\ Fairness

-----------------------------------------------------------------------------
(* Properties *)

\* The shape of the state: what each field of the request and of the runner
\* can hold (the deque never outgrows the open literal).
TypeOK ==
  /\ phase \in {"schedule", "preprocess", "execute", "update"}
  /\ Batch \subseteq Req
  /\ \A r \in Batch : sched[r] \in Nat \ {0}
  /\ finished \subseteq Req
  /\ out \in [Req -> Seq(Emitted)]
  /\ preemptions \in 0..MaxPreempt
  /\ kv \in [Req -> Seq(Nat)]
  /\ nextEmbed \in [Req -> Nat]
  /\ pendingFirst \in [Req -> BOOLEAN]
  /\ remaining \in [Req -> 0..K]
  /\ closeRemaining \in [Req -> 0..(Len(CloseIds) - 1)]
  /\ buf \in [Req -> Seq(Tokens)]
  /\ \A r \in Req : Len(buf[r]) <= Len(OpenIds)
  /\ captured \in [Req -> Nat]
  /\ overrideMask \in [Req -> BOOLEAN]
  /\ skipMask \in [Req -> BOOLEAN]

\* The four places of a block a request can be in between two engine steps.
Idle(r) ==
  ~pendingFirst[r] /\ nextEmbed[r] = 0 /\ remaining[r] = 0 /\ closeRemaining[r] = 0
Armed(r) ==
  pendingFirst[r] /\ nextEmbed[r] = 0 /\ remaining[r] = K /\ closeRemaining[r] = 0
Splicing(r) ==
  ~pendingFirst[r] /\ nextEmbed[r] > 0 /\ remaining[r] > 0 /\ closeRemaining[r] = 0
Forcing(r) ==
  ~pendingFirst[r] /\ nextEmbed[r] = 0 /\ remaining[r] = 0 /\ closeRemaining[r] > 0

\* Between two engine steps the five fields of every request agree on one place
\* in the block: the docstring's "State per request", which the code keeps only
\* implicitly, in fields three methods update one after the other.
OnePlace ==
  phase = "schedule" =>
    \A r \in Req : Idle(r) \/ Armed(r) \/ Splicing(r) \/ Forcing(r)

\* patched_execute_model's own assertion, "consumed embed but remaining <= 0":
\* whatever the batch, the chunks and the preemptions, an override is spliced
\* only while the block still counts it.
ConsumedEmbedCounted ==
  phase = "execute" => \A r \in Batch : ConsumeEmbed(r) => remaining[r] > 0

\* The model itself sampled the open literal, ending at position i of out[r].
SampledOpen(r, i) ==
  /\ i >= Len(OpenIds)
  /\ \A j \in 1..Len(OpenIds) :
       /\ out[r][i - Len(OpenIds) + j].by = "model"
       /\ out[r][i - Len(OpenIds) + j].tok = OpenIds[j]

\* The layout of the output: exactly the positions after a sampled open literal
\* hold K sentinels and then the whole close literal, cut only by the end of
\* the request; neither the model nor a second block ever interferes.
BlockLayout ==
  \A r \in Req : \A i \in DOMAIN out[r] :
    /\ SampledOpen(r, i) =>
         \A j \in 1..(K + Len(CloseIds)) : i + j <= Len(out[r]) =>
           IF j <= K
           THEN out[r][i + j].by = "latent" /\ out[r][i + j].tok = Sentinel
           ELSE out[r][i + j].by = "close" /\ out[r][i + j].tok = CloseIds[j - K]
    /\ out[r][i].by # "model" =>
         \E o \in 1..(i - 1) : SampledOpen(r, o) /\ i - o <= K + Len(CloseIds)

Sentinels(r) == {i \in DOMAIN out[r] : out[r][i].by = "latent"}

\* The z channel and the text agree: between steps the captured sequence has
\* one z per spliced sentinel, in the order of the sentinels.  The agent loop
\* pairs the two by counting.
ZPerSentinel ==
  phase = "schedule" =>
    \A r \in Req :
      /\ captured[r] = Cardinality(Sentinels(r))
      /\ \A i \in Sentinels(r) :
           out[r][i].z = Cardinality({j \in Sentinels(r) : j <= i})

\* What attention sees: every computed position consumed the projector output
\* that its sentinel stands for, and every other position its own embedding; a
\* preemption's recomputation may lose a z, but never puts one where it does not
\* belong.  The docstring's "K (with projector-output embeddings at those
\* positions)", as far as it holds.
Stands(r, p) == IF p <= PromptLen THEN 0 ELSE out[r][p - PromptLen].z
KVSpliced ==
  \A r \in Req : \A p \in DOMAIN kv[r] :
    kv[r][p] = Stands(r, p) \/ (kv[r][p] = 0 /\ preemptions > 0)

\* A block that the rest of max_tokens has room for is closed, and the request
\* decodes freely again: the "runaway trajectory" of a missed close literal,
\* which the forced pieces are there to prevent, cannot happen.
HasRoom(r) == Len(out[r]) + K + Len(CloseIds) <= MaxOut
BlockCloses ==
  \A r \in Req : (phase = "schedule" /\ Armed(r) /\ HasRoom(r))
                   ~> (phase = "schedule" /\ Idle(r))

\* How a request of the engine stands in its block, seen from LatentBlock: in
\* the middle of a step the fields already count the piece about to be emitted.
MidStep(r) == phase = "update" /\ skipMask[r]
Owed(r) ==
  IF MidStep(r) THEN remaining[r] + Len(CloseIds)
  ELSE IF pendingFirst[r] THEN K + Len(CloseIds)
  ELSE IF remaining[r] > 0 THEN remaining[r] - 1 + Len(CloseIds)
  ELSE closeRemaining[r]
Emittedz(r) == IF MidStep(r) /\ ~BlockDone(r) THEN captured[r] - 1 ELSE captured[r]

Promise(r) == INSTANCE LatentBlock WITH
  out <- out[r], owed <- Owed(r), zs <- Emittedz(r), ended <- r \in finished

\* The three patched methods, run over batches, implement the promise made for
\* each request alone: no request's block depends on the others in its batch.
KeepsPromise ==
  /\ \A r \in Req : Promise(r)!Init
  /\ [][\A r \in Req : [Promise(r)!Next]_(Promise(r)!vars)]_vars
=============================================================================
