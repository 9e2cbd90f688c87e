---------------------------- MODULE Stage2Proofs ----------------------------
(***************************************************************************)
(* Proofs about Stage2, for any number of steps, batches and crashes, every*)
(* save frequency and every retention but that of a single checkpoint.     *)
(***************************************************************************)
EXTENDS Stage2, TLAPS

-----------------------------------------------------------------------------
(* The inductive invariant *)

Launching == {"off", "weights", "sidecar", "start"}
Saving == {"save", "model", "adapter", "data", "track"}
Running == {"train"} \cup Saving

WeightsOf == [base : Int, projector : Int, seen : Seq(Nat)]
Checkpoints == [Step -> [model : WeightsOf, adapter : WeightsOf, data : Int]]
MergedDir == [dir : BOOLEAN, weights : {Torn} \cup Nat, projector : {Torn} \cup Nat]

TypeOK ==
  /\ pc \in Launching \cup Running \cup {"end", "done"}
  /\ crashes \in 0..MaxCrashes /\ warmup \in Nat
  /\ merged \in MergedDir
  /\ ckpt \in Checkpoints
  /\ tracker \in {Torn} \cup 0..(Steps + MaxCrashes)
  /\ out \in [merged : MergedDir, adapter : WeightsOf]
  /\ actor \in WeightsOf /\ engine \in Int
  /\ step \in Nat /\ pos \in 0..Batches
  /\ saved \in Seq(Step)

\* Weights after n steps; with a careful operator, all on the merged base.
Trained(n, w) ==
  /\ w.base > 0 /\ w.seen = Upto(n)
  /\ Careful => /\ Whole(merged)
                /\ w.base = merged.weights /\ w.projector = merged.weights

\* How far steps and tracker may be: a launch after the last step adds one.
Bounded ==
  /\ pc \in Launching => tracker < Steps + crashes
  /\ pc \in Running => tracker < step /\ step \in 1..(Steps + crashes)
  /\ pc = "end" => tracker <= Steps + crashes
  /\ tracker <= Batches

\* A checkpoint's weights are those of its step, or do not load.
Slots ==
  \A s \in Step :
    /\ Loads(ckpt[s].model) => Trained(s, ckpt[s].model)
    /\ Loads(ckpt[s].adapter) => Trained(s, ckpt[s].adapter)

TrackerNames ==
  HasCheckpoint => /\ tracker \in Step
                   /\ Loads(ckpt[tracker].model)
                   /\ ckpt[tracker].adapter = ckpt[tracker].model
                   /\ ckpt[tracker].data = tracker

\* Before RL: what is merged is being replaced only while no checkpoint is on it.
Launch ==
  /\ pc \in Launching => saved = <<>>
  /\ merged.dir => merged.weights # None
  /\ pc # "off" => merged.dir
  /\ pc \in {"weights", "sidecar"} =>
       /\ warmup > 0
       /\ Careful => \A s \in Step : ~Loads(ckpt[s].model) /\ ~Loads(ckpt[s].adapter)
  /\ pc = "sidecar" => merged.weights = warmup
  /\ (pc = "start" /\ Careful) => Whole(merged) \/ Unloadable(merged)

\* In RL: weights and data position are those of the step, and a save has got as far
\* as its phase says.
InRun ==
  /\ pc = "train" => Trained(step - 1, actor) /\ pos = step - 1
  /\ pc \in Saving => Trained(step, actor) /\ pos = step
  /\ pc \in Running => (Careful => engine = actor.projector)
  /\ pc \in {"adapter", "data", "track"} => ckpt[step].model = actor
  /\ pc \in {"data", "track"} => ckpt[step].adapter = actor
  /\ pc = "track" => ckpt[step].data = step

\* The steps saved by this launch, the oldest first: the tracker's is the last of them,
\* but for the one being saved.
Before == pc \in {"train", "save", "model"}
After == pc \in {"adapter", "data", "track"}
SavedInOrder ==
  /\ \A i, j \in DOMAIN saved : i < j => saved[i] < saved[j]
  /\ (Before /\ saved # <<>>) => saved[Len(saved)] = tracker
  /\ After => saved # <<>> /\ saved[Len(saved)] = step
  /\ (After /\ Len(saved) > 1) => saved[Len(saved) - 1] = tracker
  /\ (Before /\ step > Steps) => saved = <<>>
  /\ (After /\ step > Steps) => Len(saved) = 1

\* The checkpoint of the last step stays, whatever is trained behind it.
LastKept ==
  /\ tracker >= Steps => Loads(Adapter)
  /\ (pc \in Running /\ step > Steps) => tracker >= Steps
  /\ (pc = "end" /\ Steps <= Batches) => tracker >= Steps
  /\ Batches < Steps => Adapter = NoWeights
  /\ (pc = "done" /\ Steps <= Batches) => 
       /\ out.adapter.seen = Upto(Steps)
       /\ Careful => /\ out.adapter.base = out.merged.weights
                     /\ out.adapter.base = out.merged.projector

IInv ==
  /\ TypeOK /\ Bounded /\ Slots /\ TrackerNames
  /\ Launch /\ InRun /\ SavedInOrder /\ LastKept

-----------------------------------------------------------------------------
(* Lemmas about the data *)

LEMMA Constants ==
  /\ Steps \in Nat \ {0} /\ SaveFreq \in Nat \ {0} /\ Batches \in Nat \ {0}
  /\ MaxKeep \in Nat /\ MaxCrashes \in Nat
  /\ Careful \in BOOLEAN /\ TornTracker \in BOOLEAN
BY Stage2Assumption

LEMMA UptoType ==
  ASSUME NEW n \in Nat
  PROVE  Upto(n) \in Seq(Nat) /\ Len(Upto(n)) = n
BY DEF Upto

LEMMA UptoNext ==
  ASSUME NEW n \in Nat
  PROVE  Append(Upto(n), n + 1) = Upto(n + 1)
BY DEF Upto

LEMMA UptoZero == Upto(0) = <<>>
BY DEF Upto

LEMMA ModSmall ==
  ASSUME NEW a \in Nat, NEW b \in Nat, a < b
  PROVE  a % b = a
OBVIOUS

LEMMA ModSelf ==
  ASSUME NEW b \in Nat \ {0}
  PROVE  b % b = 0
OBVIOUS

LEMMA WeightsType ==
  ASSUME NEW b \in Int, NEW p \in Int, NEW q \in Seq(Nat)
  PROVE  [base |-> b, projector |-> p, seen |-> q] \in WeightsOf
BY DEF WeightsOf

LEMMA NoWeightsType ==
  /\ NoWeights \in WeightsOf /\ TornWeights \in WeightsOf
  /\ ~Loads(NoWeights) /\ ~Loads(TornWeights)
BY DEF NoWeights, TornWeights, Weights, WeightsOf, Loads, None, Torn

-----------------------------------------------------------------------------
(* Warmup and merge *)

LEMMA InitIInv == Init => IInv
<1> SUFFICES ASSUME Init PROVE IInv
  OBVIOUS
<1> USE Constants, NoWeightsType DEF Init, None, Torn
<1>1. TypeOK
  <2>1. <<>> \in Seq(Step)
    OBVIOUS
  <2>2. merged \in MergedDir
    BY DEF MergedDir
  <2>3. ckpt \in Checkpoints
    BY DEF Checkpoints
  <2> QED
    BY <2>1, <2>2, <2>3 DEF TypeOK, Launching
<1>2. Slots /\ LastKept
  <2>1. Steps \in Step
    BY DEF Step
  <2> QED
    BY <2>1 DEF Slots, LastKept, Adapter, Running, Saving
<1>3. Bounded /\ TrackerNames /\ Launch /\ InRun /\ SavedInOrder
  BY DEF Bounded, TrackerNames, HasCheckpoint, Launch, InRun, SavedInOrder, Launching, Running,
         Saving, Before, After
<1> QED
  BY <1>1, <1>2, <1>3 DEF IInv

\* The warmup is not whole, so no checkpoint of a careful operator is based on it.
LEMMA WarmupIInv ==
  ASSUME IInv, Warmup
  PROVE  IInv'
<1> USE Constants DEF IInv, Warmup, run, None, Torn
<1>1. /\ merged \in MergedDir
      /\ merged' = [merged EXCEPT !.dir = TRUE, !.weights = Torn]
  BY DEF TypeOK
<1>2. merged' \in MergedDir /\ merged'.dir /\ merged'.weights = Torn
  <2>1. merged' = [dir |-> TRUE, weights |-> Torn, projector |-> merged.projector]
    BY <1>1 DEF MergedDir
  <2>2. merged.projector \in {Torn} \cup Nat
    BY <1>1 DEF MergedDir
  <2> QED
    BY <2>1, <2>2 DEF MergedDir
<1>3. TypeOK'
  BY <1>2 DEF TypeOK, Launching
<1>4. Careful => \A s \in Step : ~Loads(ckpt[s].model) /\ ~Loads(ckpt[s].adapter)
  BY DEF Slots, Trained
<1>5. Slots'
  BY <1>4 DEF Slots, Trained
<1>6. Launch'
  BY <1>2, <1>4 DEF TypeOK, Launch, Launching
<1>7. Bounded' /\ TrackerNames' /\ InRun' /\ SavedInOrder' /\ LastKept'
  BY DEF Bounded, TrackerNames, HasCheckpoint, InRun, SavedInOrder, LastKept, Adapter, Launching,
         Running, Saving, Before, After
<1> QED
  BY <1>3, <1>5, <1>6, <1>7

LEMMA MergeIInv ==
  ASSUME IInv, MergedWeights \/ MergedSidecar
  PROVE  IInv'
<1> USE Constants DEF IInv, run, None, Torn
<1>1. /\ merged \in MergedDir /\ warmup \in Nat \ {0} /\ merged.dir
      /\ Careful => \A s \in Step : ~Loads(ckpt[s].model) /\ ~Loads(ckpt[s].adapter)
  BY DEF MergedWeights, MergedSidecar, TypeOK, Launch
<1>2. CASE MergedWeights
  <2>1. merged' = [merged EXCEPT !.weights = warmup]
    BY <1>2 DEF MergedWeights
  <2>2. merged' \in MergedDir /\ merged'.dir /\ merged'.weights = warmup
    BY <1>1, <2>1 DEF MergedDir
  <2>3. TypeOK' /\ Launch'
    BY <1>1, <1>2, <2>2 DEF MergedWeights, TypeOK, Launch, Launching
  <2> QED
    BY <1>1, <1>2, <2>3 DEF MergedWeights, Slots, Trained, Bounded, TrackerNames, HasCheckpoint,
       InRun, SavedInOrder, LastKept, Adapter, Launching, Running, Saving, Before, After
<1>3. CASE MergedSidecar
  <2>1. merged' = [merged EXCEPT !.projector = warmup] /\ merged.weights = warmup
    BY <1>3 DEF MergedSidecar, Launch
  <2>2. merged' \in MergedDir /\ merged'.dir /\ merged'.weights = warmup /\ Whole(merged')
    BY <1>1, <2>1 DEF MergedDir, Whole
  <2>3. TypeOK' /\ Launch'
    BY <1>1, <1>3, <2>2 DEF MergedSidecar, TypeOK, Launch, Launching
  <2> QED
    BY <1>1, <1>3, <2>3 DEF MergedSidecar, Slots, Trained, Bounded, TrackerNames, HasCheckpoint,
       InRun, SavedInOrder, LastKept, Adapter, Launching, Running, Saving, Before, After
<1> QED
  BY <1>2, <1>3

LEMMA LaunchedIInv ==
  ASSUME IInv, SkipWarmup \/ StartRaises
  PROVE  IInv'
<1> USE Constants DEF IInv, SkipWarmup, StartRaises, disk, run
<1>1. TypeOK'
  BY DEF TypeOK, Launching
<1>2. Slots' /\ Launch'
  BY DEF Slots, Trained, Launch, Launching
<1>3. Bounded' /\ TrackerNames' /\ InRun' /\ SavedInOrder' /\ LastKept'
  BY DEF Bounded, TrackerNames, HasCheckpoint, InRun, SavedInOrder, LastKept, Adapter, Launching,
         Running, Saving, Before, After
<1> QED
  BY <1>1, <1>2, <1>3

-----------------------------------------------------------------------------
(* RL *)

\* The step a launch is at is one it may save.
LEMMA StepIsStep ==
  ASSUME IInv, pc \in Running
  PROVE  step \in Step
BY Constants DEF IInv, TypeOK, Bounded, Step

\* Weights and data position of the step before are restored, from the checkpoint or
\* from the merged warmup.
LEMMA StartIInv ==
  ASSUME IInv, Start
  PROVE  IInv'
<1> USE Constants DEF IInv, Start, CanStart, disk, None, Torn
<1>1. /\ tracker \in 0..(Steps + MaxCrashes) /\ tracker < Steps + crashes
      /\ crashes \in 0..MaxCrashes /\ merged \in MergedDir /\ merged.dir
      /\ merged.weights > 0
      /\ saved = <<>>
  <2>1. pc \in Launching /\ pc # "off"
    BY DEF Launching
  <2>2. merged.dir /\ merged.weights # None /\ merged.weights # Torn
    BY <2>1 DEF Launch, Unloadable
  <2> QED
    BY <2>1, <2>2 DEF TypeOK, Bounded, Launch, MergedDir
<1>2. Careful => Whole(merged)
  BY DEF Launch
<1>3. Trained(tracker, actor') /\ actor' \in WeightsOf
  <2>1. CASE HasCheckpoint
    BY <2>1, <1>1 DEF TrackerNames, Slots, TypeOK, Checkpoints
  <2>2. CASE ~HasCheckpoint
    <3>1. tracker = 0
      BY <1>1, <2>2 DEF HasCheckpoint
    <3>2. actor' = [base |-> merged.weights, projector |-> merged.projector, seen |-> <<>>]
      BY <2>2 DEF Weights
    <3>3. merged.weights \in Int /\ merged.projector \in Int /\ <<>> \in Seq(Nat)
      BY <1>1 DEF MergedDir
    <3>4. actor' \in WeightsOf
      BY <3>2, <3>3, WeightsType
    <3>5. Trained(tracker, actor')
      BY <3>1, <3>2, <1>1, <1>2, UptoZero DEF Trained, Whole
    <3> QED
      BY <3>4, <3>5
  <2> QED
    BY <2>1, <2>2
<1>4. Careful => engine' = actor'.projector
  BY <1>2, <1>3 DEF Trained, Whole, Sidecar
<1>5. engine' \in Int
  BY <1>1 DEF Sidecar, MergedDir
<1>6. pos' \in 0..Batches /\ (tracker < Batches => pos' = tracker)
  <2>1. HasCheckpoint => ckpt[tracker].data = tracker
    BY DEF TrackerNames
  <2>2. tracker <= Batches
    BY DEF Bounded
  <2>3. CASE tracker = Batches
    BY <2>3, ModSelf DEF Restored
  <2>4. CASE tracker < Batches
    <3>1. tracker % Batches = tracker
      BY <2>4, <1>1, ModSmall
    <3> QED
      BY <2>1, <3>1, <2>4, <1>1 DEF Restored, HasCheckpoint
  <2> QED
    BY <2>2, <2>3, <2>4, <1>1
<1>7. step' = tracker + 1 /\ pc' = IF tracker >= Batches THEN "end" ELSE "train"
  OBVIOUS
<1>8. TypeOK'
  BY <1>1, <1>3, <1>5, <1>6, <1>7 DEF TypeOK, Running
<1>9. Bounded' /\ Slots' /\ TrackerNames' /\ Launch'
  BY <1>1, <1>7 DEF Bounded, Slots, Trained, TrackerNames, HasCheckpoint, Launch, Launching,
     Running, Saving
<1>10. InRun'
  BY <1>1, <1>3, <1>4, <1>6, <1>7 DEF InRun, Running, Saving, Trained
<1>11. SavedInOrder' /\ LastKept'
  BY <1>1, <1>7 DEF SavedInOrder, LastKept, Adapter, Running, Saving, Before, After
<1> QED
  BY <1>8, <1>9, <1>10, <1>11

LEMMA TrainIInv ==
  ASSUME IInv, Train
  PROVE  IInv'
<1> USE Constants DEF IInv, Train, disk, None, Torn
<1>1. /\ step \in Nat /\ step <= Steps + crashes /\ tracker < step /\ step > 0
      /\ Trained(step - 1, actor) /\ pos = step - 1 /\ actor \in WeightsOf
      /\ pos \in 0..Batches /\ crashes \in Nat /\ tracker \in Int
      /\ Careful => engine = actor.projector
  BY DEF TypeOK, Bounded, InRun, Running
<1>2. CASE pos = Batches
  <2>1. TypeOK' /\ Bounded' /\ Slots' /\ TrackerNames' /\ Launch'
    BY <1>1, <1>2 DEF TypeOK, Bounded, Slots, Trained, TrackerNames, HasCheckpoint, Launch,
       Launching, Running, Saving
  <2>2. InRun' /\ SavedInOrder' /\ LastKept'
    BY <1>1, <1>2 DEF InRun, SavedInOrder, LastKept, Adapter, Running, Saving, Before, After
  <2> QED
    BY <2>1, <2>2
<1>3. CASE pos # Batches
  <2>1. /\ actor' = [actor EXCEPT !.seen = Append(@, pos + 1)]
        /\ engine' = actor.projector /\ pos' = step /\ pos' \in 0..Batches
        /\ IF Saves THEN pc' = "save" /\ step' = step
                    ELSE pc' = "train" /\ step' = step + 1
    BY <1>1, <1>3
  <2>2. Trained(step, actor') /\ actor' \in WeightsOf /\ actor'.projector = actor.projector
    <3>1. actor.seen = Upto(step - 1) /\ actor.seen \in Seq(Nat) /\ actor.base \in Int
          /\ actor.projector \in Int /\ actor.base > 0
      BY <1>1 DEF Trained, WeightsOf
    <3>2. Append(actor.seen, pos + 1) = Upto(step) /\ Upto(step) \in Seq(Nat)
      <4>1. step - 1 \in Nat /\ pos + 1 = (step - 1) + 1 /\ (step - 1) + 1 = step
        BY <1>1
      <4>2. Append(Upto(step - 1), (step - 1) + 1) = Upto((step - 1) + 1)
        BY <4>1, UptoNext
      <4> QED
        BY <3>1, <4>1, <4>2, <1>1, UptoType
    <3>3. actor' = [base |-> actor.base, projector |-> actor.projector, seen |-> Upto(step)]
      BY <2>1, <3>2, <1>1 DEF WeightsOf
    <3>4. actor' \in WeightsOf
      BY <3>1, <3>2, <3>3, WeightsType
    <3> QED
      BY <3>3, <3>4, <1>1 DEF Trained
  <2>3. ~Saves => step < Steps
    BY <1>1 DEF Saves, IsLast
  <2>4. TypeOK'
    <3>1. actor.projector \in Int
      BY <1>1 DEF WeightsOf
    <3>2. step' = step \/ step' = step + 1
      BY <2>1
    <3>3. engine' \in Int /\ step' \in Nat
      BY <1>1, <2>1, <3>1, <3>2
    <3>4. pc' \in {"save", "train"}
      BY <2>1
    <3> QED
      BY <2>1, <2>2, <3>3, <3>4 DEF TypeOK, Running, Saving
  <2>5. Bounded' /\ Slots' /\ TrackerNames' /\ Launch'
    BY <1>1, <2>1, <2>3 DEF Bounded, Slots, Trained, TrackerNames, HasCheckpoint, Launch,
       Launching, Running, Saving
  <2>6. InRun'
    <3>1. \/ pc' = "save" /\ step' = step
          \/ pc' = "train" /\ step' - 1 = step
      <4>1. CASE Saves
        BY <2>1, <4>1
      <4>2. CASE ~Saves
        <5>1. pc' = "train" /\ step' = step + 1
          BY <2>1, <4>2
        <5> QED
          BY <5>1, <1>1
      <4> QED
        BY <4>1, <4>2
    <3>2. CASE pc' = "save"
      BY <2>1, <2>2, <3>2, <3>1 DEF InRun, Running, Saving, Trained
    <3>3. CASE pc' = "train"
      BY <2>1, <2>2, <3>3, <3>1 DEF InRun, Running, Saving, Trained
    <3> QED
      BY <3>1, <3>2, <3>3
  <2>7. SavedInOrder' /\ LastKept'
    <3>1. /\ pc = "train" /\ pc' \in {"save", "train"} /\ saved' = saved /\ tracker' = tracker
          /\ step' > Steps => step > Steps /\ step' = step
      BY <1>1, <2>1, <2>3, StepIsStep DEF TypeOK
    <3>2. SavedInOrder'
      BY <3>1 DEF SavedInOrder, Before, After
    <3>3. LastKept'
      BY <1>1, <3>1 DEF LastKept, Adapter, Running, Saving
    <3> QED
      BY <3>2, <3>3
  <2> QED
    BY <2>4, <2>5, <2>6, <2>7
<1> QED
  BY <1>2, <1>3

\* What is removed, and what stays.
LEMMA WithoutKeeps ==
  ASSUME NEW c \in Checkpoints, NEW X
  PROVE  /\ Without(c, X) \in Checkpoints
         /\ \A s \in Step : s \notin X => Without(c, X)[s] = c[s]
         /\ \A s \in Step : s \in X => /\ Without(c, X)[s].model = NoWeights
                                      /\ Without(c, X)[s].adapter = NoWeights
BY NoWeightsType DEF Without, Checkpoints

LEMMA FromType ==
  ASSUME NEW q \in Seq(Step), NEW n \in 0..Len(q)
  PROVE  /\ From(q, n) \in Seq(Step) /\ Len(From(q, n)) = Len(q) - n
         /\ \A i \in 1..(Len(q) - n) : From(q, n)[i] = q[n + i]
BY DEF From

\* Retention takes the oldest of this launch and never the last of them, which is the
\* tracker's.
LEMMA SaveIInv ==
  ASSUME IInv, Save, MaxKeep # 1
  PROVE  IInv'
<1> USE Constants DEF IInv, None, Torn
<1>1. /\ step \in Step /\ pc = "save" /\ pc' = "model" /\ saved \in Seq(Step)
      /\ ckpt \in Checkpoints /\ tracker \in Int /\ tracker < step
      /\ UNCHANGED <<crashes, warmup, merged, tracker, out, actor, engine, step, pos>>
  BY StepIsStep DEF Save, TypeOK, Bounded, Running, Saving
<1>2. PICK n \in 0..Len(saved) :
        /\ ckpt' = [Without(ckpt, Oldest(saved, n)) EXCEPT ![step].model = TornWeights]
        /\ saved' = From(saved, n)
        /\ n > 0 => n < Len(saved)
  <2>1. Len(saved) \in Nat
    BY <1>1
  <2> QED
    BY <1>1, <2>1 DEF Save
<1> DEFINE X == Oldest(saved, n)
           c == Without(ckpt, X)
<1>3. \A s \in Step : s \in X => s # tracker /\ s < step
  <2>1. \A i \in 1..n : i < Len(saved) /\ saved[i] < saved[Len(saved)]
    BY <1>1, <1>2 DEF SavedInOrder
  <2>2. n > 0 => saved[Len(saved)] = tracker
    BY <1>1, <1>2 DEF SavedInOrder, Before
  <2>3. SUFFICES ASSUME NEW i \in 1..n PROVE saved[i] # tracker /\ saved[i] < step
    BY DEF Oldest
  <2>4. saved[i] \in Int /\ saved[i] < tracker
    <3>1. i \in 1..Len(saved) /\ n > 0
      BY <1>1, <2>1
    <3>2. saved[i] \in Step
      BY <1>1, <3>1
    <3> QED
      BY <2>1, <2>2, <3>1, <3>2 DEF Step
  <2> QED
    BY <1>1, <2>4 DEF Step
<1>4. step > Steps => X = {} /\ saved' = <<>>
  <2>1. step > Steps => saved = <<>>
    BY <1>1 DEF SavedInOrder, Before
  <2>2. step > Steps => n = 0
    BY <2>1, <1>2
  <2> QED
    BY <2>1, <2>2, <1>2 DEF Oldest, From
<1>5. c \in Checkpoints /\ \A s \in Step :
        /\ s \notin X => c[s] = ckpt[s]
        /\ s \in X => c[s].model = NoWeights /\ c[s].adapter = NoWeights
  BY <1>1, WithoutKeeps
<1>6. /\ ckpt' \in Checkpoints
      /\ \A s \in Step : s # step => ckpt'[s] = c[s]
      /\ ckpt'[step].model = TornWeights /\ ckpt'[step].adapter = c[step].adapter
  <2>1. ckpt' = [c EXCEPT ![step].model = TornWeights]
    BY <1>2
  <2> HIDE DEF c
  <2>2. c \in Checkpoints /\ step \in Step /\ TornWeights \in WeightsOf
    BY <1>1, <1>5, NoWeightsType
  <2> QED
    BY <2>1, <2>2 DEF Checkpoints
<1> HIDE DEF c, X
<1>7. saved' \in Seq(Step) /\ Len(saved') = Len(saved) - n
      /\ \A i \in 1..(Len(saved) - n) : saved'[i] = saved[n + i]
  BY <1>1, <1>2, FromType
<1>8. TypeOK' /\ Bounded' /\ Launch'
  BY <1>1, <1>6, <1>7 DEF TypeOK, Bounded, Launch, Launching, Running, Saving
<1>9. Slots' /\ InRun'
  BY <1>1, <1>5, <1>6, NoWeightsType DEF Slots, InRun, Trained, Running, Saving
<1>10. TrackerNames'
  BY <1>1, <1>3, <1>5, <1>6 DEF TrackerNames, HasCheckpoint
<1>11. SavedInOrder'
  <2>1. Len(saved) \in Nat /\ Len(saved') = Len(saved) - n
        /\ DOMAIN saved = 1..Len(saved) /\ DOMAIN saved' = 1..(Len(saved) - n)
    BY <1>1, <1>7
  <2>2. \A i, j \in DOMAIN saved' : i < j => saved'[i] < saved'[j]
    <3> TAKE i, j \in DOMAIN saved'
    <3>1. /\ n + i \in DOMAIN saved /\ n + j \in DOMAIN saved
          /\ saved'[i] = saved[n + i] /\ saved'[j] = saved[n + j]
      BY <2>1, <1>7
    <3>2. i < j => n + i < n + j
      BY <2>1
    <3> QED
      BY <3>1, <3>2 DEF SavedInOrder
  <2>3. saved' # <<>> => saved'[Len(saved')] = tracker
    <3> SUFFICES ASSUME saved' # <<>> PROVE saved'[Len(saved')] = tracker
      OBVIOUS
    <3>1. Len(saved) - n > 0
      BY <2>1, <1>7
    <3>2. saved[Len(saved)] = tracker
      BY <3>1, <2>1, <1>1 DEF SavedInOrder, Before
    <3> QED
      BY <3>1, <3>2, <2>1, <1>7
  <2> QED
    BY <2>2, <2>3, <1>1, <1>4 DEF SavedInOrder, Before, After
<1>12. LastKept'
  <2>1. Steps \in Step
    BY DEF Step
  <2>2. tracker >= Steps => Steps # step /\ Steps \notin X
    BY <1>1, <1>4 DEF Step
  <2>3. Batches < Steps => Adapter' = NoWeights
    BY <1>5, <1>6, <2>1 DEF Adapter, LastKept
  <2> QED
    BY <1>1, <1>5, <1>6, <2>1, <2>2, <2>3 DEF LastKept, Adapter, Running, Saving
<1> QED
  BY <1>8, <1>9, <1>10, <1>11, <1>12

\* The new checkpoint is registered behind the tracker's, and neither goes.
LEMMA SaveModelIInv ==
  ASSUME IInv, SaveModel, MaxKeep # 1
  PROVE  IInv'
<1> USE Constants DEF IInv, None, Torn
<1> DEFINE paths == Append(saved, step)
           n == TooMany
           X == Oldest(paths, n)
           b == [ckpt EXCEPT ![step].model = actor]
           c == Without(b, X)
<1>1. /\ step \in Step /\ pc = "model" /\ pc' = "adapter" /\ saved \in Seq(Step)
      /\ ckpt \in Checkpoints /\ tracker \in Int /\ tracker < step
      /\ actor \in WeightsOf /\ Trained(step, actor) /\ pos = step
      /\ UNCHANGED <<crashes, warmup, merged, tracker, out, actor, engine, step, pos>>
  BY StepIsStep DEF SaveModel, TypeOK, Bounded, InRun, Running, Saving
<1>2. /\ ckpt' = [c EXCEPT ![step].adapter = TornWeights]
      /\ saved' = From(paths, n)
  BY DEF SaveModel
<1>3. /\ Len(saved) \in Nat /\ n \in 0..Len(saved) /\ (n > 0 => n < Len(saved))
  BY <1>1 DEF TooMany
<1>4. /\ paths \in Seq(Step) /\ Len(paths) = Len(saved) + 1
      /\ paths[Len(saved) + 1] = step /\ \A i \in 1..Len(saved) : paths[i] = saved[i]
  BY <1>1
<1>5. \A i \in DOMAIN saved : saved[i] <= tracker
  <2> SUFFICES ASSUME NEW i \in DOMAIN saved PROVE saved[i] <= tracker
    OBVIOUS
  <2>1. i \in 1..Len(saved) /\ saved[i] \in Step /\ saved[Len(saved)] = tracker
    BY <1>1 DEF SavedInOrder, Before
  <2> QED
    BY <2>1, <1>1 DEF SavedInOrder, Step
<1>6. \A s \in Step : s \in X => s # tracker /\ s < step
  <2>1. \A i \in 1..n : i < Len(saved) /\ saved[i] < saved[Len(saved)] /\ paths[i] = saved[i]
    BY <1>1, <1>3, <1>4 DEF SavedInOrder
  <2>2. n > 0 => saved[Len(saved)] = tracker
    BY <1>1, <1>3 DEF SavedInOrder, Before
  <2> HIDE DEF n, paths
  <2> QED
    BY <1>1, <1>3, <2>1, <2>2 DEF Oldest, Step
<1>7. step > Steps => Len(saved) = 0 /\ n = 0 /\ X = {}
  <2>1. step > Steps => Len(saved) = 0
    BY <1>1 DEF SavedInOrder, Before
  <2>2. step > Steps => n = 0
    BY <2>1, <1>3
  <2> HIDE DEF n
  <2> QED
    BY <2>1, <2>2 DEF Oldest
<1>8. /\ b \in Checkpoints /\ \A s \in Step : s # step => b[s] = ckpt[s]
      /\ b[step].model = actor
  BY <1>1 DEF Checkpoints
<1>9. /\ c \in Checkpoints /\ c[step].model = actor
      /\ \A s \in Step : /\ (s \notin X /\ s # step) => c[s] = ckpt[s]
                         /\ s \in X => c[s].model = NoWeights /\ c[s].adapter = NoWeights
  <2> HIDE DEF b, X
  <2>1. step \notin X
    BY <1>1, <1>6 DEF Step
  <2>2. /\ c \in Checkpoints /\ \A s \in Step : s \notin X => c[s] = b[s]
        /\ \A s \in Step : s \in X => c[s].model = NoWeights /\ c[s].adapter = NoWeights
    BY <1>8, WithoutKeeps
  <2> QED
    BY <1>1, <1>8, <2>1, <2>2
<1> HIDE DEF b, c, X
<1>10. /\ ckpt' \in Checkpoints /\ \A s \in Step : s # step => ckpt'[s] = c[s]
       /\ ckpt'[step].model = actor /\ ckpt'[step].adapter = TornWeights
  <2>1. TornWeights \in WeightsOf
    BY NoWeightsType
  <2> QED
    BY <1>1, <1>2, <1>9, <2>1 DEF Checkpoints
<1>11. /\ saved' \in Seq(Step) /\ Len(saved') = Len(saved) + 1 - n
       /\ \A i \in 1..(Len(saved) + 1 - n) : saved'[i] = paths[n + i]
  <2>1. n \in 0..Len(paths)
    BY <1>3, <1>4
  <2> HIDE DEF n, paths
  <2>2. /\ saved' \in Seq(Step) /\ Len(saved') = Len(paths) - n
        /\ \A i \in 1..(Len(paths) - n) : saved'[i] = paths[n + i]
    BY <1>2, <1>4, <2>1, FromType
  <2>3. Len(paths) - n = Len(saved) + 1 - n
    BY <1>3, <1>4, <2>1
  <2> QED
    BY <2>2, <2>3
<1> HIDE DEF n, paths
<1>12. TypeOK' /\ Bounded' /\ Launch'
  BY <1>1, <1>10, <1>11 DEF TypeOK, Bounded, Launch, Launching, Running, Saving
<1>13. Slots'
  BY <1>1, <1>9, <1>10, NoWeightsType DEF Slots, Trained
<1>14. InRun'
  BY <1>1, <1>10 DEF InRun, Trained, Running, Saving
<1>15. TrackerNames'
  BY <1>1, <1>6, <1>9, <1>10 DEF TrackerNames, HasCheckpoint
<1>16. SavedInOrder'
  <2>1. DOMAIN saved' = 1..(Len(saved) + 1 - n) /\ DOMAIN saved = 1..Len(saved)
    BY <1>1, <1>3, <1>11
  <2>2. \A i, j \in DOMAIN saved' : i < j => saved'[i] < saved'[j]
    <3> SUFFICES ASSUME NEW i \in DOMAIN saved', NEW j \in DOMAIN saved', i < j
                 PROVE  saved'[i] < saved'[j]
      OBVIOUS
    <3>1. /\ n + i \in 1..Len(saved) /\ n + j \in 1..(Len(saved) + 1) /\ n + i < n + j
          /\ saved'[i] = paths[n + i] /\ saved'[j] = paths[n + j]
      <4>1. i \in 1..(Len(saved) + 1 - n) /\ j \in 1..(Len(saved) + 1 - n)
        BY <2>1
      <4>2. /\ n + i \in 1..Len(saved) /\ n + j \in 1..(Len(saved) + 1) /\ n + i < n + j
        BY <4>1, <1>3
      <4> QED
        BY <4>1, <4>2, <1>11
    <3>2. CASE n + j = Len(saved) + 1
      <4>1. saved[n + i] <= tracker /\ saved[n + i] \in Step
        BY <3>1, <2>1, <1>5, <1>1
      <4> QED
        BY <3>1, <3>2, <4>1, <1>1, <1>4 DEF Step
    <3>3. CASE n + j # Len(saved) + 1
      <4>1. n + j \in 1..Len(saved)
        BY <3>1, <3>3, <1>3
      <4> QED
        BY <3>1, <4>1, <2>1, <1>4 DEF SavedInOrder
    <3> QED
      BY <3>2, <3>3
  <2>3. saved' # <<>> /\ saved'[Len(saved')] = step
    BY <1>3, <1>4, <1>11
  <2>4. Len(saved') > 1 => saved'[Len(saved') - 1] = tracker
    <3> SUFFICES ASSUME Len(saved') > 1 PROVE saved'[Len(saved') - 1] = tracker
      OBVIOUS
    <3>1. Len(saved) - n > 0 /\ Len(saved') - 1 = Len(saved) - n
      BY <1>3, <1>11
    <3>2. saved'[Len(saved') - 1] = paths[n + (Len(saved) - n)]
      BY <3>1, <1>3, <1>11
    <3>3. n + (Len(saved) - n) = Len(saved) /\ Len(saved) \in 1..Len(saved)
      BY <3>1, <1>3
    <3>4. saved[Len(saved)] = tracker
      BY <3>3, <1>1, <2>1 DEF SavedInOrder, Before
    <3> QED
      BY <3>2, <3>3, <3>4, <1>4
  <2>5. step > Steps => Len(saved') = 1
    BY <1>7, <1>11
  <2> QED
    BY <2>2, <2>3, <2>4, <2>5, <1>1 DEF SavedInOrder, Before, After
<1>17. LastKept'
  <2>1. Steps \in Step
    BY DEF Step
  <2>2. tracker >= Steps => Steps # step /\ Steps \notin X
    BY <1>1, <1>7 DEF Step
  <2>3. Batches < Steps => Adapter' = NoWeights
    <3>1. Batches < Steps => Steps # step
      BY <1>1 DEF TypeOK
    <3> QED
      BY <1>9, <1>10, <2>1, <3>1 DEF Adapter, LastKept
  <2> QED
    BY <1>1, <1>9, <1>10, <2>1, <2>2, <2>3 DEF LastKept, Adapter, Running, Saving
<1> QED
  BY <1>12, <1>13, <1>14, <1>15, <1>16, <1>17

\* The other parts of the checkpoint, which leave the retention alone.
LEMMA SaveAdapterIInv ==
  ASSUME IInv, SaveAdapter
  PROVE  IInv'
<1> USE Constants DEF IInv, None, Torn
<1>1. /\ step \in Step /\ pc = "adapter" /\ pc' = "data"
      /\ ckpt \in Checkpoints /\ tracker \in Int /\ tracker < step
      /\ actor \in WeightsOf /\ Trained(step, actor) /\ pos = step /\ pos <= Batches
      /\ ckpt[step].model = actor
      /\ UNCHANGED <<crashes, warmup, merged, tracker, out, actor, engine, step, pos, saved>>
  BY StepIsStep DEF SaveAdapter, TypeOK, Bounded, InRun, Running, Saving, run
<1>2. ckpt' = [ckpt EXCEPT ![step].adapter = actor]
  BY DEF SaveAdapter
<1>3. /\ ckpt' \in Checkpoints /\ \A s \in Step : s # step => ckpt'[s] = ckpt[s]
      /\ ckpt'[step].model = actor /\ ckpt'[step].adapter = actor
  BY <1>1, <1>2 DEF Checkpoints
<1>4. TypeOK' /\ Bounded' /\ Launch' /\ SavedInOrder'
  BY <1>1, <1>3 DEF TypeOK, Bounded, Launch, Launching, SavedInOrder, Running, Saving, Before, After
<1>5. Slots' /\ InRun' /\ TrackerNames'
  BY <1>1, <1>3 DEF Slots, InRun, Trained, TrackerNames, HasCheckpoint, Running, Saving
<1>6. LastKept'
  BY <1>1, <1>3 DEF LastKept, Adapter, Running, Saving, Step
<1> QED
  BY <1>4, <1>5, <1>6

LEMMA SaveDataIInv ==
  ASSUME IInv, SaveData
  PROVE  IInv'
<1> USE Constants DEF IInv, None, Torn
<1>1. /\ step \in Step /\ pc = "data" /\ pc' = "track"
      /\ ckpt \in Checkpoints /\ tracker \in Int /\ tracker < step
      /\ Trained(step, actor) /\ pos = step /\ pos <= Batches
      /\ ckpt[step].model = actor /\ ckpt[step].adapter = actor
      /\ UNCHANGED <<crashes, warmup, merged, tracker, out, actor, engine, step, pos, saved>>
  BY StepIsStep DEF SaveData, Finish, Writes, TypeOK, Bounded, InRun, Running, Saving
<1>2. ckpt' = [ckpt EXCEPT ![step].data = pos]
  BY DEF SaveData, Finish, Writes
<1>3. /\ ckpt' \in Checkpoints /\ \A s \in Step : s # step => ckpt'[s] = ckpt[s]
      /\ ckpt'[step].model = actor /\ ckpt'[step].adapter = actor /\ ckpt'[step].data = step
  <2>1. pos \in Int
    BY <1>1 DEF Step
  <2> QED
    BY <1>1, <1>2, <2>1 DEF Checkpoints
<1>4. TypeOK' /\ Bounded' /\ Launch' /\ SavedInOrder'
  BY <1>1, <1>3 DEF TypeOK, Bounded, Launch, Launching, SavedInOrder, Running, Saving, Before, After
<1>5. Slots' /\ InRun' /\ TrackerNames'
  BY <1>1, <1>3 DEF Slots, InRun, Trained, TrackerNames, HasCheckpoint, Running, Saving
<1>6. LastKept'
  BY <1>1, <1>3 DEF LastKept, Adapter, Running, Saving, Step
<1> QED
  BY <1>4, <1>5, <1>6

\* Only now, with all its parts there, the tracker names the checkpoint.
LEMMA SaveTrackerIInv ==
  ASSUME IInv, SaveTracker
  PROVE  IInv'
<1> USE Constants DEF IInv, None, Torn
<1>1. /\ step \in Step /\ pc = "track" /\ tracker \in Int /\ tracker < step
      /\ crashes \in 0..MaxCrashes /\ step <= Steps + crashes
      /\ Trained(step, actor) /\ pos = step /\ pos <= Batches
      /\ ckpt[step].model = actor /\ ckpt[step].adapter = actor /\ ckpt[step].data = step
      /\ tracker' = step
      /\ UNCHANGED <<crashes, warmup, merged, ckpt, out, actor, engine, pos, saved>>
  BY StepIsStep DEF SaveTracker, Finish, Writes, TypeOK, Bounded, InRun, Running, Saving
<1>2. \/ step >= Steps /\ pc' = "end" /\ step' = step
      \/ step < Steps /\ pc' = "train" /\ step' = step + 1
  BY <1>1 DEF SaveTracker, IsLast, Step
<1>3. pc' \in {"end", "train"} /\ step' \in Nat
  BY <1>1, <1>2 DEF Step
<1>4. TypeOK'
  BY <1>1, <1>3 DEF TypeOK, Running, Step
<1>5. Bounded' /\ Launch' /\ Slots'
  BY <1>1, <1>2 DEF Bounded, Launch, Launching, Slots, Trained, Running, Saving, Step
<1>6. TrackerNames'
  BY <1>1 DEF TrackerNames, HasCheckpoint, Trained, Loads
<1>7. InRun'
  <2>1. pc' = "train" => step' - 1 = step
    BY <1>1, <1>2 DEF Step
  <2> QED
    BY <1>1, <1>3, <2>1 DEF InRun, Trained, Running, Saving
<1>8. SavedInOrder'
  BY <1>1, <1>2 DEF SavedInOrder, Before, After, Step
<1>9. LastKept'
  <2>1. step < Steps \/ (step = Steps /\ Loads(Adapter)) \/ tracker >= Steps
    <3>1. step > Steps => tracker >= Steps
      BY <1>1 DEF LastKept, Running, Saving
    <3>2. step = Steps => Loads(Adapter)
      BY <1>1 DEF Adapter, Trained, Loads
    <3> QED
      BY <1>1, <3>1, <3>2 DEF Step
  <2> QED
    BY <1>1, <1>2, <2>1 DEF LastKept, Adapter, Running, Saving, Step
<1> QED
  BY <1>4, <1>5, <1>6, <1>7, <1>8, <1>9

-----------------------------------------------------------------------------
(* The final merge, and crashes *)

\* A torn adapter is never met: the step was saved whole or not at all.
LEMMA MergeRlIInv ==
  ASSUME IInv, MergeRl
  PROVE  IInv'
<1> USE Constants DEF IInv, None, Torn
<1>1. /\ pc = "end" /\ Steps \in Step
      /\ UNCHANGED <<crashes, warmup, merged, ckpt, tracker, actor, engine, step, pos, saved>>
  BY DEF MergeRl, run, Step
<1>2. Steps <= Batches => Loads(Adapter)
  BY <1>1 DEF LastKept
<1>3. Batches < Steps => Adapter = NoWeights
  BY DEF LastKept
<1>4. NoWeights # TornWeights /\ Adapter \in WeightsOf
  BY <1>1 DEF NoWeights, TornWeights, Weights, Adapter, TypeOK, Checkpoints
<1>5. \/ Loads(Adapter) /\ out' = [merged |-> merged, adapter |-> Adapter] /\ pc' = "done"
      \/ ~Loads(Adapter) /\ out' = out /\ pc' = "done"
  <2>1. CASE Loads(Adapter)
    <3>1. Adapter # NoWeights /\ Adapter # TornWeights
      BY <2>1, NoWeightsType
    <3> QED
      BY <2>1, <3>1 DEF MergeRl
  <2>2. CASE ~Loads(Adapter)
    <3>1. Adapter = NoWeights
      BY <2>2, <1>2, <1>3
    <3> QED
      BY <2>2, <3>1, <1>4 DEF MergeRl
  <2> QED
    BY <2>1, <2>2
<1>6. TypeOK'
  BY <1>1, <1>4, <1>5 DEF TypeOK
<1>7. Bounded' /\ Slots' /\ TrackerNames' /\ Launch' /\ InRun' /\ SavedInOrder'
  BY <1>1, <1>5 DEF Bounded, Slots, Trained, TrackerNames, HasCheckpoint, Launch, InRun,
     SavedInOrder, Launching, Running, Saving, Before, After
<1>8. LastKept'
  <2>1. Loads(Adapter) => Trained(Steps, Adapter)
    BY <1>1 DEF Slots, Adapter
  <2>2. Steps <= Batches =>
          /\ out'.adapter.seen = Upto(Steps)
          /\ Careful => out'.adapter.base = out'.merged.weights
                        /\ out'.adapter.base = out'.merged.projector
    BY <1>2, <1>5, <2>1 DEF Trained, Whole
  <2> QED
    BY <1>1, <1>5, <2>2 DEF LastKept, Adapter, Running, Saving
<1> QED
  BY <1>6, <1>7, <1>8

LEMMA CrashIInv ==
  ASSUME IInv, Crash
  PROVE  IInv'
<1> USE Constants DEF IInv, None, Torn
<1>1. /\ pc \notin {"off", "done"} /\ pc' = "off" /\ crashes < MaxCrashes
      /\ crashes' = crashes + 1 /\ crashes \in 0..MaxCrashes /\ saved' = <<>>
      /\ actor' = NoWeights /\ engine' = 0 /\ step' = 0 /\ pos' = 0
      /\ warmup' = warmup /\ ckpt' = ckpt
  BY DEF Crash, TypeOK
<1>2. tracker' \in {tracker, Torn} /\ (tracker' = Torn => tracker' < 0)
  BY DEF Crash
<1>3. merged \in MergedDir /\ merged' \in MergedDir /\ merged'.dir = merged.dir
      /\ merged'.weights = merged.weights /\ (pc # "sidecar" => merged' = merged)
  BY DEF Crash, TypeOK, MergedDir
<1>4. out' \in [merged : MergedDir, adapter : WeightsOf]
  BY NoWeightsType DEF Crash, TypeOK
<1>5. tracker \in {Torn} \cup 0..(Steps + MaxCrashes) /\ tracker <= Steps + crashes
  BY <1>1 DEF TypeOK, Bounded, Launching
<1>6. TypeOK'
  <2>1. <<>> \in Seq(Step)
    OBVIOUS
  <2> QED
    BY <1>1, <1>2, <1>3, <1>4, <1>5, <2>1, NoWeightsType DEF TypeOK, Launching
<1>7. Bounded'
  BY <1>1, <1>2, <1>5 DEF Bounded, Launching, Running, Saving
<1>8. Slots' /\ Launch'
  <2>1. CASE pc = "sidecar"
    BY <1>1, <1>3, <2>1 DEF Slots, Trained, Launch, Launching
  <2>2. CASE pc # "sidecar"
    BY <1>1, <1>3, <2>2 DEF Slots, Trained, Launch, Launching
  <2> QED
    BY <2>1, <2>2
<1>9. TrackerNames' /\ InRun' /\ SavedInOrder' /\ LastKept'
  BY <1>1, <1>2, <1>5 DEF TrackerNames, HasCheckpoint, InRun, SavedInOrder, LastKept, Adapter,
     Running, Saving, Before, After
<1> QED
  BY <1>6, <1>7, <1>8, <1>9

LEMMA NextIInv ==
  ASSUME IInv, [Next]_vars, MaxKeep # 1
  PROVE  IInv'
<1>1. CASE Goes
  BY <1>1, WarmupIInv, MergeIInv, LaunchedIInv, StartIInv, TrainIInv, SaveIInv, SaveModelIInv,
     SaveAdapterIInv, SaveDataIInv, SaveTrackerIInv, MergeRlIInv DEF Goes
<1>2. CASE Crash
  BY <1>2, CrashIInv
<1>3. CASE UNCHANGED vars
  BY <1>3 DEF vars, disk, run, IInv, TypeOK, Bounded, Slots, Trained, TrackerNames, HasCheckpoint,
     Launch, InRun, SavedInOrder, LastKept, Adapter, Before, After
<1> QED
  BY <1>1, <1>2, <1>3 DEF Next, Stopped

-----------------------------------------------------------------------------
(* The theorems *)

\* Wherever launches die and however often the script is started again, the disk and
\* the launch under way stand as IInv says.
THEOREM LaunchInvariance ==
  ASSUME MaxKeep # 1
  PROVE  Spec => []IInv
<1>1. IInv /\ [Next]_vars => IInv'
  BY NextIInv
<1> QED
  BY <1>1, InitIInv, PTL DEF Spec

\* _save_checkpoint and ensure_checkpoint_capacity: the checkpoint that the tracker
\* names is whole, for every number of checkpoints kept but one.
THEOREM TrackerIsComplete ==
  ASSUME MaxKeep # 1
  PROVE  Spec => []TrackerComplete
<1>1. IInv => TrackerComplete
  <2> SUFFICES ASSUME IInv, HasCheckpoint PROVE TrackerComplete
    BY DEF TrackerComplete
  <2>1. ckpt[tracker].model.seen = Upto(tracker) /\ tracker \in Nat
    BY Constants DEF IInv, TrackerNames, Slots, Trained, Step
  <2> QED
    BY <2>1, UptoType DEF IInv, TrackerNames, TrackerComplete
<1> QED
  BY <1>1, LaunchInvariance, PTL

\* _load_checkpoint: no batch is skipped or trained on twice.
THEOREM BatchesOnce ==
  ASSUME MaxKeep # 1
  PROVE  Spec => []EachBatchOnce
<1>1. IInv => EachBatchOnce
  BY DEF IInv, InRun, Slots, Trained, EachBatchOnce
<1> QED
  BY <1>1, LaunchInvariance, PTL

\* Launches with --rl-only only on a whole merge: base, actor and engines have one
\* projector from the first rollout on.
THEOREM ProjectorIsOne ==
  ASSUME MaxKeep # 1, Careful
  PROVE  Spec => []OneProjector
<1>1. IInv => OneProjector
  BY DEF IInv, InRun, Running, Trained, OneProjector
<1> QED
  BY <1>1, LaunchInvariance, PTL

\* The script's last part merges the adapter of RL_STEPS on its own base.
THEOREM MergedIsFinal ==
  ASSUME MaxKeep # 1, Careful
  PROVE  Spec => []EvalIsFinal
<1>1. IInv => EvalIsFinal
  BY DEF IInv, LastKept, EvalIsFinal
<1> QED
  BY <1>1, LaunchInvariance, PTL
=============================================================================
