------------------------------- MODULE Stage2 -------------------------------
(***************************************************************************)
(* The launches of scripts/train_stage2.sh under one run name: mode warmup *)
(* and merge, AR-GRPO from the merged checkpoint with verl's checkpoints,  *)
(* merge of the final adapter.  A launch dies anywhere; the next one is    *)
(* made with RESUME_MODE=auto, and with --rl-only if there is a merged     *)
(* checkpoint to start from.                                               *)
(*                                                                         *)
(* What is trained is told apart by where it comes from: a warmup by its   *)
(* number, RL weights by the warmup of their base and of their projector   *)
(* (frozen in RL) and by the batches they have seen.                       *)
(***************************************************************************)
EXTENDS Integers, Sequences

CONSTANTS
  Steps,      \* RL_STEPS
  SaveFreq,   \* trainer.save_freq
  Batches,    \* len(train_dataloader); total_epochs is 1
  MaxKeep,    \* trainer.max_actor_ckpt_to_keep, 0 for None
  MaxCrashes, \* bound on the crashes
  Careful,    \* no --rl-only on weights without their projector.pt
  TornTracker \* a crash may leave the tracker empty

ASSUME Stage2Assumption ==
  /\ {Steps, SaveFreq, Batches} \subseteq Nat \ {0}
  /\ {MaxKeep, MaxCrashes} \subseteq Nat
  /\ {Careful, TornTracker} \subseteq BOOLEAN

None == 0   \* no file
Torn == -1  \* a file cut by a crash: loading it raises

VARIABLES
  pc,      \* "off", the step of the script or of a save, "done"
  crashes,
  warmup,  \* warmups trained so far
  merged,  \* MERGED_DIR/<run>_warmup: is there, warmup of its weights and projector.pt
  ckpt,    \* ckpt[s]: model, lora_adapter and data.pt of global_step_s
  tracker, \* latest_checkpointed_iteration.txt
  out,     \* RL_MERGED_DIR/<run>
  actor,   \* the weights in training
  engine,  \* the projector that the rollouts decode with
  step,    \* global_steps
  pos,     \* batches that the dataloader has handed out
  saved    \* previous_saved_paths

disk == <<merged, ckpt, tracker, out>>
run == <<actor, engine, step, pos, saved>>
vars == <<pc, crashes, warmup, disk, run>>

\* A relaunch after the last step trains one step more.
Step == 1..(Steps + MaxCrashes)
Weights(base, projector, seen) == [base |-> base, projector |-> projector, seen |-> seen]
NoWeights == Weights(None, None, <<>>)
TornWeights == Weights(Torn, None, <<>>)
Loads(weights) == weights.base > 0

Init ==
  /\ pc = "off" /\ crashes = 0 /\ warmup = 0
  /\ merged = [dir |-> FALSE, weights |-> None, projector |-> None]
  /\ ckpt = [s \in Step |-> [model |-> NoWeights, adapter |-> NoWeights, data |-> Torn]]
  /\ tracker = None /\ out = [merged |-> merged, adapter |-> NoWeights]
  /\ actor = NoWeights /\ engine = None /\ step = 0 /\ pos = 0 /\ saved = <<>>

-----------------------------------------------------------------------------
(* Warmup and merge *)

Whole(m) == m.weights > 0 /\ m.projector = m.weights

\* What from_pretrained raises on.  A sidecar that is missing or of an older merge
\* it does not notice.
Unloadable(m) == m.weights = Torn \/ m.projector = Torn

\* The warmup's SFT; merge_sft makes its directory, or finds an older one, and starts
\* to write the weights.
Warmup ==
  /\ pc = "off" /\ ~Whole(merged)
  /\ warmup' = warmup + 1
  /\ merged' = [merged EXCEPT !.dir = TRUE, !.weights = Torn]
  /\ pc' = "weights"
  /\ UNCHANGED <<crashes, ckpt, tracker, out, run>>

\* save_pretrained: the weights, then the projector's sidecar.
MergedWeights ==
  /\ pc = "weights"
  /\ merged' = [merged EXCEPT !.weights = warmup]
  /\ pc' = "sidecar"
  /\ UNCHANGED <<crashes, warmup, ckpt, tracker, out, run>>

MergedSidecar ==
  /\ pc = "sidecar"
  /\ merged' = [merged EXCEPT !.projector = warmup]
  /\ pc' = "start"
  /\ UNCHANGED <<crashes, warmup, ckpt, tracker, out, run>>

\* --rl-only: the directory being there is enough for the script.
SkipWarmup ==
  /\ pc = "off" /\ merged.dir
  /\ Careful => Whole(merged) \/ Unloadable(merged)
  /\ pc' = "start"
  /\ UNCHANGED <<crashes, warmup, disk, run>>

-----------------------------------------------------------------------------
(* RL *)

\* _load_checkpoint of the trainer.  A tracker cut short raises, and so does a checkpoint
\* without its actor; without a tracker the training starts from scratch.
HasCheckpoint == tracker > 0
CanStart ==
  /\ ~Unloadable(merged) /\ tracker # Torn
  /\ HasCheckpoint => Loads(ckpt[tracker].model)

\* data.pt: at the end of the epoch, or without the file, the data starts again.
FromScratch == 0
Restored ==
  IF HasCheckpoint /\ tracker % Batches # 0 /\ ckpt[tracker].data # Torn
  THEN ckpt[tracker].data ELSE 0

\* A projector.pt that is missing is a warning: actor and engines keep what they
\* were initialised with (None), each its own.
NoSidecar == None
Sidecar == merged.projector

Start ==
  /\ pc = "start" /\ CanStart
  /\ actor' = IF HasCheckpoint THEN ckpt[tracker].model
              ELSE Weights(merged.weights, merged.projector, <<>>)
  /\ engine' = Sidecar
  /\ step' = tracker + 1
  /\ pos' = Restored
  /\ pc' = IF tracker >= Batches THEN "end" ELSE "train"
  /\ UNCHANGED <<crashes, warmup, disk, saved>>

StartRaises ==
  /\ pc = "start" /\ ~CanStart
  /\ pc' = "off"
  /\ UNCHANGED <<crashes, warmup, disk, run>>

\* One step of fit: rollouts, update and, unless it saves first, the next step.  A
\* dataset that is exhausted ends the training.
IsLastLate == step > Steps
IsLast == step >= Steps
Saves == IsLast \/ step % SaveFreq = 0
Train ==
  /\ pc = "train"
  /\ IF pos = Batches
     THEN pc' = "end" /\ UNCHANGED <<actor, engine, step, pos>>
     ELSE /\ actor' = [actor EXCEPT !.seen = Append(@, pos + 1)]
          /\ engine' = actor.projector
          /\ pos' = pos + 1
          /\ IF Saves THEN pc' = "save" /\ UNCHANGED step
                      ELSE step' = step + 1 /\ UNCHANGED pc
  /\ UNCHANGED <<crashes, warmup, disk, saved>>

\* rmtree of the actor directories of these steps.
Without(c, steps) ==
  [s \in Step |-> IF s \in steps THEN [c[s] EXCEPT !.model = NoWeights, !.adapter = NoWeights]
                  ELSE c[s]]
Oldest(paths, n) == {paths[i] : i \in 1..n}
From(paths, n) == SubSeq(paths, n + 1, Len(paths))

\* ensure_checkpoint_capacity, then the actor's directory is being written.
Save ==
  /\ pc = "save"
  /\ LET n == IF MaxKeep > 1 /\ Len(saved) >= MaxKeep THEN Len(saved) - MaxKeep + 1 ELSE 0
     IN  /\ ckpt' = [Without(ckpt, Oldest(saved, n)) EXCEPT ![step].model = TornWeights]
         /\ saved' = From(saved, n)
  /\ pc' = "model"
  /\ UNCHANGED <<crashes, warmup, merged, tracker, out, actor, engine, step, pos>>

\* The shards are written and registered: what is too much of the older ones goes.
TooManyByOne == IF MaxKeep > 0 THEN Len(saved) + 1 ELSE 0
TooMany == IF MaxKeep > 0 /\ Len(saved) + 1 > MaxKeep THEN Len(saved) + 1 - MaxKeep ELSE 0
SaveModel ==
  /\ pc = "model"
  /\ LET paths == Append(saved, step) IN
     /\ ckpt' = [Without([ckpt EXCEPT ![step].model = actor], Oldest(paths, TooMany))
                  EXCEPT ![step].adapter = TornWeights]
     /\ saved' = From(paths, TooMany)
  /\ pc' = "adapter"
  /\ UNCHANGED <<crashes, warmup, merged, tracker, out, actor, engine, step, pos>>

\* lora_adapter, by verl and again by the wrap.
SaveAdapter ==
  /\ pc = "adapter"
  /\ ckpt' = [ckpt EXCEPT ![step].adapter = actor]
  /\ pc' = "data"
  /\ UNCHANGED <<crashes, warmup, merged, tracker, out, run>>

\* data.pt, and the tracker last.
WritesTrackerFirst(phase) == IF phase = "data" THEN "track" ELSE "data"
Writes(phase) == phase
Finish(phase) ==
  /\ IF Writes(phase) = "data"
     THEN ckpt' = [ckpt EXCEPT ![step].data = pos] /\ UNCHANGED tracker
     ELSE tracker' = step /\ UNCHANGED ckpt
  /\ UNCHANGED <<crashes, warmup, merged, out, actor, engine, pos, saved>>

SaveData == pc = "data" /\ Finish("data") /\ pc' = "track" /\ UNCHANGED step

SaveTracker ==
  /\ pc = "track" /\ Finish("track")
  /\ IF IsLast THEN pc' = "end" /\ UNCHANGED step
               ELSE pc' = "train" /\ step' = step + 1

-----------------------------------------------------------------------------
(* The final merge *)

Adapter == ckpt[Steps].adapter

\* The adapter of step RL_STEPS on the merged warmup; without one, a warning.
MergeRl ==
  /\ pc = "end"
  /\ CASE Loads(Adapter) ->
            /\ out' = [merged |-> merged, adapter |-> Adapter]
            /\ pc' = "done"
       [] Adapter = NoWeights -> pc' = "done" /\ UNCHANGED out
       [] Adapter = TornWeights -> pc' = "off" /\ UNCHANGED out
  /\ UNCHANGED <<crashes, warmup, merged, ckpt, tracker, run>>

Crash ==
  /\ pc \notin {"off", "done"} /\ crashes < MaxCrashes
  /\ crashes' = crashes + 1
  /\ pc' = "off"
  /\ tracker' \in IF pc = "track" /\ TornTracker THEN {tracker, Torn} ELSE {tracker}
  /\ merged' \in IF pc = "sidecar" THEN {merged, [merged EXCEPT !.projector = Torn]} ELSE {merged}
  /\ out' = IF pc = "end" /\ Loads(Adapter) THEN [out EXCEPT !.adapter = TornWeights] ELSE out
  /\ actor' = NoWeights /\ engine' = None /\ step' = 0 /\ pos' = 0 /\ saved' = <<>>
  /\ UNCHANGED <<warmup, ckpt>>

Stopped == pc = "done" /\ UNCHANGED vars

Goes ==
  \/ Warmup \/ MergedWeights \/ MergedSidecar \/ SkipWarmup \/ Start \/ StartRaises
  \/ Train \/ Save \/ SaveModel \/ SaveAdapter \/ SaveData \/ SaveTracker \/ MergeRl
Next == Goes \/ Crash \/ Stopped
Spec == Init /\ [][Next]_vars

\* A launch that died is made again, no step of one hangs, and whoever finds that
\* --rl-only raises on the merged checkpoint does the warmup again.
Fairness == WF_vars(Goes) /\ SF_vars(Warmup)
FairSpec == Spec /\ Fairness

-----------------------------------------------------------------------------
(* Properties *)

Upto(n) == [i \in 1..n |-> i]

\* "for atomic usage": whatever is being written or removed, the checkpoint that the
\* tracker names is whole, and its parts are of one save.
TrackerComplete ==
  HasCheckpoint =>
    LET c == ckpt[tracker] IN
    Loads(c.model) /\ c.adapter = c.model /\ c.data = Len(c.model.seen)

\* Through crashes and resumes, a step's weights have seen every batch before it
\* once and in order: none is skipped and none is trained on again.
EachBatchOnce ==
  /\ pc = "train" => actor.seen = Upto(step - 1)
  /\ \A s \in Step : Loads(ckpt[s].model) => ckpt[s].model.seen = Upto(s)

\* Actor and engines have the projector that was trained with the base they run on,
\* also in the first rollouts of a resumed run, before any update publishes it.
OneProjector ==
  pc = "train" => engine = actor.projector /\ actor.projector = actor.base

\* What goes to evaluation is the adapter of RL_STEPS steps, no more and no less, merged
\* on the base and with the projector it was trained with.
EvalIsFinal ==
  (pc = "done" /\ Steps <= Batches) =>
    /\ out.adapter.seen = Upto(Steps)
    /\ out.adapter.base = out.merged.weights
    /\ out.adapter.base = out.merged.projector

\* Crashes put it off, but the training ends with a checkpoint to evaluate.
TrainingEnds == <>(pc = "done")
=============================================================================
