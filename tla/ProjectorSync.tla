---------------------------- MODULE ProjectorSync ----------------------------
(***************************************************************************)
(* How the projector gets from the trainer to the rollout engines: the     *)
(* wrapped update_actor (alar/rl/install_patches.py) replaces a file after *)
(* every PPO update; each engine looks at the file's mtime before every    *)
(* step (alar/vllm_plugin.py, _maybe_reload_sync) and reloads.  Nothing in *)
(* the two orders an engine's three accesses to the file against the       *)
(* trainer's, and either side swallows its errors and goes on.             *)
(*                                                                         *)
(* A projector is the pair of the run that trained it and the number of    *)
(* its updates; 0 updates is the checkpoint's sidecar, projector.pt.       *)
(***************************************************************************)
EXTENDS Integers, FiniteSets

CONSTANTS
  Engine,      \* rollout engines
  MaxUpdates,  \* PPO updates of a run
  MaxRuns,     \* launches of train_stage2.sh under one RUN_NAME
  MaxFaults    \* bound on the errors that the two sides swallow

ASSUME SyncAssumption ==
  /\ MaxUpdates \in Nat \ {0} /\ MaxRuns \in Nat \ {0} /\ MaxFaults \in Nat

VARIABLES
  run,         \* number of the current launch
  trained,     \* updates of the current run
  trainer,     \* "idle", "sync", "written"
  tmp,         \* content of sync_path + ".tmp"
  file,        \* content and mtime of sync_path
  clock,       \* mtime of the next write
  engine,      \* what the engine's forward pass is at: "step", "checked", "read"
  seen,        \* cur_mtime that the engine read
  lastMtime,   \* _latent_sync_mtime, 0 is None
  loaded,      \* the projector of the engine
  faults

vars == <<run, trained, trainer, tmp, file, clock, engine, seen, lastMtime,
          loaded, faults>>

Projector == (1..MaxRuns) \X (0..MaxUpdates)
None == [of |-> <<0, 0>>, mtime |-> 0]

Init ==
  /\ run = 1 /\ trained = 0 /\ trainer = "idle"
  /\ tmp = <<0, 0>>
  /\ file = None
  /\ clock = 1
  /\ engine = [e \in Engine |-> "step"]
  /\ seen = [e \in Engine |-> 0]
  /\ lastMtime = [e \in Engine |-> 0]
  /\ loaded = [e \in Engine |-> <<1, 0>>]
  /\ faults = 0

-----------------------------------------------------------------------------
(* The trainer *)

Update ==
  /\ trainer = "idle"
  /\ trained < MaxUpdates
  /\ trained' = trained + 1
  /\ trainer' = "sync"
  /\ UNCHANGED <<run, tmp, file, clock, engine, seen, lastMtime, loaded, faults>>

\* torch.save to the temporary file.
WriteTmp ==
  /\ trainer = "sync"
  /\ tmp' = <<run, trained>>
  /\ trainer' = "written"
  /\ UNCHANGED <<run, trained, file, clock, engine, seen, lastMtime, loaded, faults>>

\* os.replace: the file and its mtime change together.
Replace ==
  /\ trainer = "written"
  /\ file' = [of |-> tmp, mtime |-> clock]
  /\ clock' = clock + 1
  /\ trainer' = "idle"
  /\ UNCHANGED <<run, trained, tmp, engine, seen, lastMtime, loaded, faults>>

\* No actor module, no projector keys, or any exception: a warning, no sync.
SyncFails ==
  /\ trainer \in {"sync", "written"}
  /\ faults < MaxFaults
  /\ faults' = faults + 1
  /\ trainer' = "idle"
  /\ UNCHANGED <<run, trained, tmp, file, clock, engine, seen, lastMtime, loaded>>

\* The launch script again, after a crash or the end of the run: it removes the
\* file; trainer and engines start anew.
RelaunchKeepingFile ==
  /\ run < MaxRuns
  /\ run' = run + 1 /\ trained' = 0 /\ trainer' = "idle"
  /\ engine' = [e \in Engine |-> "step"]
  /\ seen' = [e \in Engine |-> 0]
  /\ lastMtime' = [e \in Engine |-> 0]
  /\ loaded' = [e \in Engine |-> <<run + 1, 0>>]
  /\ UNCHANGED <<tmp, file, clock, faults>>
Relaunch ==
  /\ run < MaxRuns
  /\ run' = run + 1 /\ trained' = 0 /\ trainer' = "idle"
  /\ tmp' = <<0, 0>>
  /\ file' = None
  /\ engine' = [e \in Engine |-> "step"]
  /\ seen' = [e \in Engine |-> 0]
  /\ lastMtime' = [e \in Engine |-> 0]
  /\ loaded' = [e \in Engine |-> <<run + 1, 0>>]
  /\ UNCHANGED <<clock, faults>>

-----------------------------------------------------------------------------
(* An engine, before each of its steps *)

\* The path exists and its mtime is past the last one loaded.
CheckMarks(e) ==
  /\ engine[e] = "step"
  /\ file # None
  /\ file.mtime > lastMtime[e]
  /\ seen' = [seen EXCEPT ![e] = file.mtime]
  /\ lastMtime' = [lastMtime EXCEPT ![e] = file.mtime]
  /\ engine' = [engine EXCEPT ![e] = "checked"]
  /\ UNCHANGED <<run, trained, trainer, tmp, file, clock, loaded, faults>>
Check(e) ==
  /\ engine[e] = "step"
  /\ file # None
  /\ file.mtime > lastMtime[e]
  /\ seen' = [seen EXCEPT ![e] = file.mtime]
  /\ engine' = [engine EXCEPT ![e] = "checked"]
  /\ UNCHANGED <<run, trained, trainer, tmp, file, clock, lastMtime, loaded, faults>>

\* torch.load and load_state_dict.
Load(e) ==
  /\ engine[e] = "checked"
  /\ loaded' = [loaded EXCEPT ![e] = file.of]
  /\ engine' = [engine EXCEPT ![e] = "read"]
  /\ UNCHANGED <<run, trained, trainer, tmp, file, clock, seen, lastMtime, faults>>

\* The mtime from before the load is remembered, whatever the file is by now.
RememberCurrent(e) ==
  /\ engine[e] = "read"
  /\ lastMtime' = [lastMtime EXCEPT ![e] = file.mtime]
  /\ engine' = [engine EXCEPT ![e] = "step"]
  /\ UNCHANGED <<run, trained, trainer, tmp, file, clock, seen, loaded, faults>>
Remember(e) ==
  /\ engine[e] = "read"
  /\ lastMtime' = [lastMtime EXCEPT ![e] = seen[e]]
  /\ engine' = [engine EXCEPT ![e] = "step"]
  /\ UNCHANGED <<run, trained, trainer, tmp, file, clock, seen, loaded, faults>>

\* torch.load raises: the step goes on with the projector it has.
LoadFails(e) ==
  /\ engine[e] = "checked"
  /\ faults < MaxFaults
  /\ faults' = faults + 1
  /\ engine' = [engine EXCEPT ![e] = "step"]
  /\ UNCHANGED <<run, trained, trainer, tmp, file, clock, seen, lastMtime, loaded>>

\* No file, or nothing newer: the early returns.
Unchanged(e) ==
  /\ engine[e] = "step"
  /\ file = None \/ file.mtime <= lastMtime[e]
  /\ UNCHANGED vars

Next ==
  \/ Update \/ WriteTmp \/ Replace \/ SyncFails \/ Relaunch
  \/ \E e \in Engine : Check(e) \/ Load(e) \/ LoadFails(e) \/ Remember(e) \/ Unchanged(e)

\* Engines keep stepping; an update that began is synced, or its sync fails.
Fairness ==
  /\ WF_vars(WriteTmp) /\ WF_vars(Replace)
  /\ \A e \in Engine : WF_vars(Check(e)) /\ WF_vars(Load(e)) /\ WF_vars(Remember(e))

Spec == Init /\ [][Next]_vars
FairSpec == Spec /\ Fairness

-----------------------------------------------------------------------------
(* Properties *)

\* The shape of the state: what is published or loaded is a projector that some
\* update of some run produced, whole, under an mtime that was handed out once.
TypeOK ==
  /\ run \in 1..MaxRuns /\ trained \in 0..MaxUpdates
  /\ trainer \in {"idle", "sync", "written"}
  /\ tmp \in Projector \cup {<<0, 0>>}
  /\ file = None \/ (file.of \in Projector /\ file.mtime \in 1..(clock - 1))
  /\ clock \in Nat \ {0}
  /\ engine \in [Engine -> {"step", "checked", "read"}]
  /\ seen \in [Engine -> Nat] /\ lastMtime \in [Engine -> Nat]
  /\ loaded \in [Engine -> Projector]
  /\ faults \in 0..MaxFaults

\* The mtime gate never hides a newer projector: an engine whose step finds
\* nothing newer than the mtime it remembers has the projector of the file,
\* although it stats, loads and remembers in three steps the trainer may cut in
\* between, and either side may have failed before.
GateSound ==
  \A e \in Engine :
    (engine[e] = "step" /\ file # None /\ file.mtime <= lastMtime[e]) =>
      loaded[e] = file.of

\* No engine reasons with the projector of an earlier run of the same name.
OwnRun == \A e \in Engine : loaded[e][1] = run

\* Sync failures, load failures and relaunches over, every engine ends up with
\* the last projector that the trainer got out ("mtime-checks this file each
\* preprocess and reloads on change").
Converges == <>[](\A e \in Engine : file # None => loaded[e] = file.of)
=============================================================================
