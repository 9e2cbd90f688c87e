----------------------------- MODULE WorkerCalls -----------------------------
(***************************************************************************)
(* A training step as the FSDP ranks live it.  The agent-loop workers hand *)
(* over shards that carry latent_z or not (_postprocess), the driver       *)
(* concatenates them and calls all ranks for the reference log probs, the  *)
(* update and the checkpoint, waiting for all of them each time.  Within a *)
(* call the ranks meet in collectives: one per forward, whose number is a  *)
(* matter of the rank's own data once the projector has to be iterated.    *)
(*                                                                         *)
(* A rank's call is the sequence of what it has still to take part in; the *)
(* sync and save wraps of alar/rl/install_patches.py are part of the call. *)
(***************************************************************************)
EXTENDS Naturals, Sequences, FiniteSets

CONSTANTS
  Rank, Root,     \* the ranks, and the one that writes files
  K, MaxBlocks,   \* z's per block; bound on the latent blocks of a sample
  MaxSteps,       \* bound on the training steps
  HiddenSizeSet,  \* LATENT_HIDDEN_SIZE > 0
  UlyssesSP,      \* sequence parallelism is on
  AdapterFails    \* writing lora_adapter/ may raise

ASSUME CallsAssumption ==
  /\ Root \in Rank /\ IsFiniteSet(Rank)
  /\ K \in Nat \ {0} /\ {MaxBlocks, MaxSteps} \subseteq Nat
  /\ {HiddenSizeSet, UlyssesSP, AdapterFails} \subseteq BOOLEAN

VARIABLES
  lora,    \* LORA_RANK > 0: a PEFT model, and the reference in the actor
  pc,      \* what the driver does next: "rollout", "concat", a call, "raised", "done"
  busy,    \* the driver waits for the ranks
  step,    \* training steps begun
  sample,  \* the rollout each rank is given: its latent blocks, and whether z was captured
  carries, \* whether the batch carries latent_z, per shard
  todo     \* what is left of each rank's call

callsVars == <<lora, pc, busy, step, sample, carries, todo>>

Times(n, c) == [i \in 1..n |-> c]
Samples == {s \in [blocks : 0..MaxBlocks, z : BOOLEAN] : s.z => s.blocks > 0}

CallsInit ==
  /\ lora \in BOOLEAN
  /\ pc = "rollout" /\ busy = FALSE /\ step = 0
  /\ sample = [r \in Rank |-> [blocks |-> 0, z |-> FALSE]]
  /\ carries = [r \in Rank |-> FALSE]
  /\ todo = [r \in Rank |-> <<>>]

-----------------------------------------------------------------------------
(* The agent-loop workers and the driver *)

\* The rollouts end; a z may be lost on its way from the engine.  (external)
Rollout ==
  /\ pc = "rollout" /\ step < MaxSteps
  /\ step' = step + 1
  /\ sample' \in [Rank -> Samples]
  /\ pc' = "concat"
  /\ UNCHANGED <<lora, busy, carries, todo>>

\* A shard's latent_z: the captured ones, zeros for the others; without any the
\* zeros need the hidden size, and the failure to build them is only a warning.
EmitsIfPresent(s) == s.z
Emits(s) == s.z \/ HiddenSizeSet

\* DataProto.concat is strict about the keys of the shards.
Concat ==
  /\ pc = "concat"
  /\ carries' = [r \in Rank |-> Emits(sample[r])]
  /\ pc' = IF \A r, s \in Rank : carries'[r] = carries'[s] THEN "ref" ELSE "raised"
  /\ UNCHANGED <<lora, busy, step, sample, todo>>

\* Under LoRA the reference is the actor without its adapter; otherwise it is a
\* worker of its own, whose wrapped compute_ref_log_prob strips latent_z if it
\* finds LORA_RANK set.
RefInActor == lora
StripsForRefAlways == TRUE
StripsForRef == lora
KeptByRef == RefInActor \/ ~StripsForRef

\* prepare_model_inputs hands the cached z to the model, or skips it.
Cached(r) == carries[r] /\ ~UlyssesSP /\ (pc = "ref" => KeptByRef)

\* Forwards of the model: the text before a block and each of its z's take one of
\* their own when the projector is iterated, and the whole sample takes the last.
Forwards(r) ==
  IF Cached(r) \/ sample[r].blocks = 0 THEN 1 ELSE 1 + sample[r].blocks * (1 + K)

RefCall(r) == Times(Forwards(r), "forward")

\* update_actor and its wrap: the root publishes the projector behind the gather.
UpdateCall(r) ==
  Times(Forwards(r), "forward") \o <<"reduce", "gather">>
    \o (IF r = Root THEN <<"publish">> ELSE <<>>)

\* save_checkpoint and its wrap, which is for PEFT models.
SaveCall(r) ==
  <<"verl_save">>
    \o (IF ~lora THEN <<>>
        ELSE <<"gather">> \o (IF r = Root THEN <<"adapter">> ELSE <<>>) \o <<"barrier">>)

Call ==
  /\ ~busy
  /\ pc \in {"ref", "update", "save"}
  /\ busy' = TRUE
  /\ todo' = [r \in Rank |-> CASE pc = "ref" -> RefCall(r)
                               [] pc = "update" -> UpdateCall(r)
                               [] pc = "save" -> SaveCall(r)]
  /\ UNCHANGED <<lora, pc, step, sample, carries>>

\* All ranks have returned; a checkpoint is not due in every step.
Returned ==
  /\ busy
  /\ \A r \in Rank : todo[r] = <<>>
  /\ busy' = FALSE
  /\ pc' \in CASE pc = "ref" -> {"update"}
               [] pc = "update" -> {"save", "rollout"}
               [] pc = "save" -> {"rollout"}
  /\ UNCHANGED <<lora, step, sample, carries, todo>>

-----------------------------------------------------------------------------
(* The ranks *)

Local == {"publish", "adapter"}
At(r) == IF todo[r] = <<>> THEN "idle" ELSE Head(todo[r])

\* A collective happens when every rank has come to it.
Meet ==
  /\ At(Root) \notin Local \cup {"idle"}
  /\ \A r \in Rank : At(r) = At(Root)
  /\ todo' = [r \in Rank |-> Tail(todo[r])]
  /\ UNCHANGED <<lora, pc, busy, step, sample, carries>>

\* The root writes a file.
Write ==
  /\ At(Root) \in Local
  /\ todo' = [todo EXCEPT ![Root] = Tail(@)]
  /\ UNCHANGED <<lora, pc, busy, step, sample, carries>>

\* It fails to: the wrap catches that, prints a warning and returns.
WriteRaises ==
  /\ At(Root) = "publish" \/ (At(Root) = "adapter" /\ AdapterFails)
  /\ todo' = [todo EXCEPT ![Root] = <<>>]
  /\ UNCHANGED <<lora, pc, busy, step, sample, carries>>

Trained ==
  /\ pc = "raised" \/ (pc = "rollout" /\ step = MaxSteps)
  /\ UNCHANGED callsVars

CallsNext == Rollout \/ Concat \/ Call \/ Returned \/ Meet \/ Write \/ WriteRaises \/ Trained
CallsSpec == CallsInit /\ [][CallsNext]_callsVars

\* Neither the ranks nor the driver stop on their own.
CallsFairness ==
  /\ WF_callsVars(Meet) /\ WF_callsVars(Write \/ WriteRaises)
  /\ WF_callsVars(Call) /\ WF_callsVars(Returned)
CallsFairSpec == CallsSpec /\ CallsFairness

-----------------------------------------------------------------------------
(* Properties *)

\* Every call returns: no rank is left waiting in a collective for one that has
\* had fewer forwards, or that left the wrap early.
CallReturns == busy ~> ~busy

\* The shards are alike, whether latent blocks were decoded in them or not, and
\* whether their z's were captured or lost.
ShardsAlike == pc # "raised"
=============================================================================
