---------------------------- MODULE TrainingProofs ----------------------------
(***************************************************************************)
(* Proofs about a training step, for every number of ranks, rollouts and   *)
(* engines: the ranks' calls (WorkerCalls), the shaped rewards (ArGrpo)    *)
(* and the projector file between trainer and engines (ProjectorSync).     *)
(***************************************************************************)
EXTENDS ProjectorSync, WorkerCalls, ArGrpo,
        FiniteSetTheorems, WellFoundedInduction, TLAPS

-----------------------------------------------------------------------------
(* The projector file: the inductive invariant *)

\* What the trainer has written or published is of the current run, and the mtimes
\* that are still to come are larger.
Published ==
  /\ trainer = "written" => tmp \in Projector /\ tmp[1] = run
  /\ file # None =>
       file.of \in Projector /\ file.of[1] = run /\ file.mtime \in 1..(clock - 1)

\* What engine e remembers never runs ahead of the file; an mtime that it remembers,
\* or is about to, identifies what it has loaded.
Behind(e) ==
  /\ lastMtime[e] <= file.mtime /\ seen[e] <= file.mtime
  /\ loaded[e][1] = run
  /\ engine[e] = "checked" => file # None
  /\ file # None => /\ lastMtime[e] = file.mtime => loaded[e] = file.of
                    /\ (engine[e] = "read" /\ seen[e] = file.mtime) => loaded[e] = file.of

IInv == TypeOK /\ Published /\ \A e \in Engine : Behind(e)

LEMMA InitIInv == Init => IInv
<1> SUFFICES ASSUME Init PROVE IInv
  OBVIOUS
<1> USE SyncAssumption DEF Init, None
<1>1. TypeOK
  BY DEF TypeOK, Projector
<1>2. Published /\ \A e \in Engine : Behind(e)
  BY DEF Published, Behind
<1> QED
  BY <1>1, <1>2 DEF IInv

\* The trainer's steps up to the replacement leave the file and the engines alone.
LEMMA TrainerIInv ==
  ASSUME IInv, Update \/ WriteTmp \/ SyncFails
  PROVE  IInv'
<1> USE SyncAssumption DEF IInv, None
<1>1. CASE Update
  <2>1. TypeOK'
    BY <1>1 DEF Update, TypeOK, Projector
  <2>2. Published' /\ \A e \in Engine : Behind(e)'
    BY <1>1 DEF Update, Published, Behind
  <2> QED
    BY <2>1, <2>2
<1>2. CASE WriteTmp
  <2>1. TypeOK'
    BY <1>2 DEF WriteTmp, TypeOK, Projector
  <2>2. Published' /\ \A e \in Engine : Behind(e)'
    BY <1>2 DEF WriteTmp, TypeOK, Published, Behind, Projector
  <2> QED
    BY <2>1, <2>2
<1>3. CASE SyncFails
  <2>1. TypeOK'
    BY <1>3 DEF SyncFails, TypeOK
  <2>2. Published' /\ \A e \in Engine : Behind(e)'
    BY <1>3 DEF SyncFails, Published, Behind
  <2> QED
    BY <2>1, <2>2
<1> QED
  BY <1>1, <1>2, <1>3

\* The new mtime is past everything that an engine has seen.
LEMMA ReplaceIInv ==
  ASSUME IInv, Replace
  PROVE  IInv'
<1> USE SyncAssumption DEF IInv, Replace, None
<1>1. TypeOK'
  BY DEF TypeOK, Published
<1>2. Published'
  BY DEF TypeOK, Published
<1>3. ASSUME NEW e \in Engine PROVE Behind(e)'
  <2>1. file.mtime < clock
    BY DEF TypeOK
  <2>2. file'.mtime = clock /\ file' # None
    BY DEF TypeOK
  <2>3. lastMtime[e] \in Nat /\ seen[e] \in Nat /\ file.mtime \in Nat /\ clock \in Nat
    BY DEF TypeOK
  <2>4. Behind(e) /\ UNCHANGED <<lastMtime, seen, loaded, run, engine>>
    OBVIOUS
  <2> QED
    BY <2>1, <2>2, <2>3, <2>4 DEF Behind
<1> QED
  BY <1>1, <1>2, <1>3

LEMMA RelaunchIInv ==
  ASSUME IInv, Relaunch
  PROVE  IInv'
<1> USE SyncAssumption DEF IInv, Relaunch, None
<1>1. TypeOK'
  BY DEF TypeOK, Projector
<1>2. Published'
  BY DEF Published
<1>3. ASSUME NEW e \in Engine PROVE Behind(e)'
  BY DEF Behind
<1> QED
  BY <1>1, <1>2, <1>3

\* The steps of one engine: it disturbs what is said of itself only.
LEMMA EngineIInv ==
  ASSUME IInv, NEW e \in Engine, Check(e) \/ Load(e) \/ LoadFails(e) \/ Remember(e)
  PROVE  IInv'
<1> USE SyncAssumption DEF IInv, None
<1>1. CASE Check(e)
  <2>1. TypeOK'
    BY <1>1 DEF Check, TypeOK
  <2>2. ASSUME NEW d \in Engine PROVE Behind(d)'
    BY <1>1 DEF Check, TypeOK, Behind
  <2> QED
    BY <1>1, <2>1, <2>2 DEF Check, Published
<1>2. CASE Load(e)
  <2>1. file # None /\ file.of \in Projector /\ file.of[1] = run
    BY <1>2 DEF Load, Behind, Published
  <2>2. TypeOK'
    BY <1>2, <2>1 DEF Load, TypeOK
  <2>3. ASSUME NEW d \in Engine PROVE Behind(d)'
    BY <1>2, <2>1 DEF Load, TypeOK, Behind
  <2> QED
    BY <1>2, <2>2, <2>3 DEF Load, Published
<1>3. CASE LoadFails(e)
  <2>1. TypeOK'
    BY <1>3 DEF LoadFails, TypeOK
  <2>2. ASSUME NEW d \in Engine PROVE Behind(d)'
    BY <1>3 DEF LoadFails, TypeOK, Behind
  <2> QED
    BY <1>3, <2>1, <2>2 DEF LoadFails, Published
<1>4. CASE Remember(e)
  <2>1. TypeOK'
    BY <1>4 DEF Remember, TypeOK
  <2>2. ASSUME NEW d \in Engine PROVE Behind(d)'
    BY <1>4 DEF Remember, TypeOK, Behind
  <2> QED
    BY <1>4, <2>1, <2>2 DEF Remember, Published
<1> QED
  BY <1>1, <1>2, <1>3, <1>4

LEMMA NextIInv == IInv /\ [Next]_vars => IInv'
<1> SUFFICES ASSUME IInv, [Next]_vars PROVE IInv'
  OBVIOUS
<1>1. CASE Update \/ WriteTmp \/ SyncFails
  BY <1>1, TrainerIInv
<1>2. CASE Replace
  BY <1>2, ReplaceIInv
<1>3. CASE Relaunch
  BY <1>3, RelaunchIInv
<1>4. CASE \E e \in Engine : Check(e) \/ Load(e) \/ LoadFails(e) \/ Remember(e)
  BY <1>4, EngineIInv
<1>5. CASE (\E e \in Engine : Unchanged(e)) \/ UNCHANGED vars
  BY <1>5 DEF Unchanged, vars, IInv, TypeOK, Published, Behind
<1> QED
  BY <1>1, <1>2, <1>3, <1>4, <1>5 DEF Next

-----------------------------------------------------------------------------
(* The projector file: the theorems *)

\* The inductive invariant holds in every reachable state, wherever the trainer and
\* the engines are cut and whatever they fail at.
THEOREM SyncInvariance == Spec => []IInv
<1> QED
  BY InitIInv, NextIInv, PTL DEF Spec

\* The file only ever has a whole projector under an mtime handed out once.
THEOREM SyncTypeCorrect == Spec => []TypeOK
<1>1. IInv => TypeOK
  BY DEF IInv
<1> QED
  BY <1>1, SyncInvariance, PTL

\* patched _maybe_reload_sync: an engine that finds nothing newer than what it
\* remembers has the projector of the file.
THEOREM GateIsSound == Spec => []GateSound
<1>1. IInv => GateSound
  <2> SUFFICES ASSUME IInv, NEW e \in Engine,
                      file # None, file.mtime <= lastMtime[e]
               PROVE  loaded[e] = file.of
    BY DEF GateSound
  <2>1. file.mtime \in Nat /\ lastMtime[e] \in Nat
    BY DEF IInv, TypeOK
  <2> QED
    BY <2>1 DEF IInv, Behind
<1> QED
  BY <1>1, SyncInvariance, PTL

\* The launch script's rm: no engine has a projector of an earlier launch.
THEOREM OwnRunOnly == Spec => []OwnRun
<1>1. IInv => OwnRun
  BY DEF IInv, Behind, OwnRun
<1> QED
  BY <1>1, SyncInvariance, PTL

-----------------------------------------------------------------------------
(* The calls of the ranks: the shards *)

\* While the ranks are busy the driver is in one of the calls, so it does not raise.
NotRaised == pc # "raised" /\ (busy => pc \in {"ref", "update", "save"})

\* DataProto.concat never raises: with LATENT_HIDDEN_SIZE every shard has latent_z.
THEOREM ShardsAreAlike ==
  ASSUME HiddenSizeSet
  PROVE  CallsSpec => []ShardsAlike
<1>1. CallsInit => NotRaised
  BY DEF CallsInit, NotRaised
<1>2. NotRaised /\ [CallsNext]_callsVars => NotRaised'
  <2> SUFFICES ASSUME NotRaised, [CallsNext]_callsVars PROVE NotRaised'
    OBVIOUS
  <2> USE DEF NotRaised
  <2>1. CASE Concat
    BY <2>1 DEF Concat, Emits
  <2>2. CASE Returned
    BY <2>2 DEF Returned
  <2>3. CASE Rollout \/ Call \/ Meet \/ Write
             \/ WriteRaises \/ Trained \/ UNCHANGED callsVars
    BY <2>3 DEF Rollout, Call, Meet, Write, WriteRaises,
                Trained, callsVars
  <2> QED
    BY <2>1, <2>2, <2>3 DEF CallsNext
<1>3. NotRaised => ShardsAlike
  BY DEF NotRaised, ShardsAlike
<1> QED
  BY <1>1, <1>2, <1>3, PTL DEF CallsSpec

-----------------------------------------------------------------------------
(* The calls of the ranks: what is left of them *)

\* What the launch scripts grant: the hidden size is set, no sequence parallelism,
\* and the adapter's directory can be written to.
CallsSound == HiddenSizeSet /\ ~UlyssesSP /\ ~AdapterFails

\* The other ranks have c left of their call and the root has d.
Left(c, d) == todo = [r \in Rank |-> IF r = Root THEN d ELSE c]

\* What can be left of compute_ref_log_prob, of the wrapped update_actor, and of the
\* wrapped save_checkpoint.
RefLeft == Left(<<"forward">>, <<"forward">>) \/ Left(<<>>, <<>>)

UpdateLeft ==
  \/ Left(<<"forward", "reduce", "gather">>,
          <<"forward", "reduce", "gather", "publish">>)
  \/ Left(<<"reduce", "gather">>, <<"reduce", "gather", "publish">>)
  \/ Left(<<"gather">>, <<"gather", "publish">>)
  \/ Left(<<>>, <<"publish">>)
  \/ Left(<<>>, <<>>)

SaveLeft ==
  \/ ~lora /\ Left(<<"verl_save">>, <<"verl_save">>)
  \/ Left(<<"verl_save", "gather", "barrier">>,
          <<"verl_save", "gather", "adapter", "barrier">>)
  \/ Left(<<"gather", "barrier">>, <<"gather", "adapter", "barrier">>)
  \/ Left(<<"barrier">>, <<"adapter", "barrier">>)
  \/ Left(<<"barrier">>, <<"barrier">>)
  \/ Left(<<>>, <<>>)

\* Every shard has its z's once the batch is made, so each rank runs the model once;
\* and the ranks are at the same place of the call, but for the files of the root.
InStep ==
  /\ lora \in BOOLEAN /\ busy \in BOOLEAN
  /\ pc \in {"ref", "update", "save"} => carries = [r \in Rank |-> TRUE]
  /\ ~busy => Left(<<>>, <<>>)
  /\ busy => \/ pc = "ref" /\ RefLeft
             \/ pc = "update" /\ UpdateLeft
             \/ pc = "save" /\ SaveLeft

\* Short sequences put together: what the calls are made of.
LEMMA AppendIs ==
  ASSUME NEW S, NEW s \in Seq(S), NEW c \in S
  PROVE  s \o <<c>> = Append(s, c) /\ s \o <<>> = s
  OBVIOUS

LEMMA AppendBehind ==
  ASSUME NEW S, NEW s \in Seq(S), NEW t \in Seq(S), NEW c \in S
  PROVE  s \o Append(t, c) = Append(s \o t, c)
  OBVIOUS

LEMMA Joined ==
  ASSUME NEW a, NEW b, NEW c
  PROVE  /\ <<a, b, c>> \o <<>> = <<a, b, c>>
         /\ <<a>> \o <<>> = <<a>>
         /\ <<a>> \o <<b>> = <<a, b>>
         /\ <<a, b>> \o <<c>> = <<a, b, c>>
         /\ <<a>> \o <<b, c>> = <<a, b, c>>
<1> DEFINE S == {a, b, c}
<1>1. /\ <<a>> \in Seq(S) /\ <<b>> \in Seq(S) /\ <<a, b>> \in Seq(S)
      /\ <<a, b, c>> \in Seq(S) /\ b \in S /\ c \in S
  OBVIOUS
<1>2. <<a, b>> = Append(<<a>>, b)
  BY <1>1
<1>3. <<b, c>> = Append(<<b>>, c)
  BY <1>1
<1>4. <<a, b, c>> = Append(<<a, b>>, c)
  BY <1>1
<1> HIDE DEF S
<1>5. <<a>> \o <<b>> = <<a, b>>
  BY <1>1, <1>2, AppendIs, Zenon
<1>6. <<a, b>> \o <<c>> = <<a, b, c>>
  BY <1>1, <1>4, AppendIs, Zenon
<1>7. <<a>> \o <<b, c>> = <<a, b, c>>
  <2> PICK s, t : s = <<a>> /\ t = <<b>>
    OBVIOUS
  <2>1. s \in Seq(S) /\ t \in Seq(S) /\ c \in S
    BY <1>1
  <2>2. s \o Append(t, c) = Append(s \o t, c)
    BY <2>1, AppendBehind
  <2> QED
    BY <2>2, <1>3, <1>4, <1>5, Zenon
<1>8. <<a, b, c>> \o <<>> = <<a, b, c>> /\ <<a>> \o <<>> = <<a>>
  BY <1>1, AppendIs, Zenon
<1> QED
  BY <1>5, <1>6, <1>7, <1>8

LEMMA LastJoined ==
  ASSUME NEW a, NEW b, NEW c, NEW d
  PROVE  <<a, b, c>> \o <<d>> = <<a, b, c, d>>
<1> DEFINE S == {a, b, c, d}
<1>1. <<a, b, c>> \in Seq(S) /\ d \in S
  OBVIOUS
<1>2. <<a, b, c, d>> = Append(<<a, b, c>>, d)
  BY <1>1
<1> QED
  BY <1>1, <1>2, AppendIs, Zenon

LEMMA FirstJoined ==
  ASSUME NEW a, NEW b, NEW c, NEW d
  PROVE  <<a>> \o <<b, c, d>> = <<a, b, c, d>>
<1> DEFINE S == {a, b, c, d}
<1>1. <<a>> \in Seq(S) /\ <<b, c>> \in Seq(S) /\ <<a, b, c>> \in Seq(S) /\ d \in S
  OBVIOUS
<1>2. <<b, c, d>> = Append(<<b, c>>, d)
  BY <1>1
<1>3. <<a, b, c, d>> = Append(<<a, b, c>>, d)
  BY <1>1
<1> HIDE DEF S
<1>4. <<a>> \o Append(<<b, c>>, d) = Append(<<a>> \o <<b, c>>, d)
  <2> PICK s, t : s = <<a>> /\ t = <<b, c>>
    OBVIOUS
  <2>1. s \in Seq(S) /\ t \in Seq(S) /\ d \in S
    BY <1>1
  <2>2. s \o Append(t, d) = Append(s \o t, d)
    BY <2>1, AppendBehind
  <2> QED
    BY <2>2
<1>5. <<a>> \o <<b, c>> = <<a, b, c>>
  BY Joined, Zenon
<1> QED
  BY <1>2, <1>3, <1>4, <1>5, Zenon

\* Each rank's call: one forward, and nothing in the wraps but the root's files depends
\* on the rank.
LEMMA CallsAre ==
  ASSUME CallsSound, InStep, pc \in {"ref", "update", "save"}, NEW r \in Rank
  PROVE  /\ RefCall(r) = <<"forward">>
         /\ UpdateCall(r) =
              IF r = Root THEN <<"forward", "reduce", "gather", "publish">>
                          ELSE <<"forward", "reduce", "gather">>
         /\ SaveCall(r) =
              IF ~lora THEN <<"verl_save">>
              ELSE IF r = Root THEN <<"verl_save", "gather", "adapter", "barrier">>
                               ELSE <<"verl_save", "gather", "barrier">>
<1>1. Times(Forwards(r), "forward") = <<"forward">>
  <2>1. Forwards(r) = 1
    BY DEF CallsSound, InStep, Forwards, Cached, KeptByRef,
           RefInActor, StripsForRef
  <2> QED
    BY <2>1 DEF Times
<1> PICK f, e, g, p : f = "forward" /\ e = "reduce" /\ g = "gather" /\ p = "publish"
  OBVIOUS
<1> PICK v, a, b : v = "verl_save" /\ a = "adapter" /\ b = "barrier"
  OBVIOUS
<1>2. UpdateCall(r) =
        IF r = Root THEN <<"forward", "reduce", "gather", "publish">>
                    ELSE <<"forward", "reduce", "gather">>
  <2>1. <<f>> \o <<e, g>> = <<f, e, g>>
    BY Joined, Zenon
  <2>2. <<f, e, g>> \o <<p>> = <<f, e, g, p>>
    BY LastJoined, Zenon
  <2>3. <<f, e, g>> \o <<>> = <<f, e, g>>
    BY Joined, Zenon
  <2> QED
    BY <1>1, <2>1, <2>2, <2>3, Zenon DEF UpdateCall
<1>3. SaveCall(r) =
        IF ~lora THEN <<"verl_save">>
        ELSE IF r = Root THEN <<"verl_save", "gather", "adapter", "barrier">>
                         ELSE <<"verl_save", "gather", "barrier">>
  <2>1. <<g>> \o <<a>> = <<g, a>> /\ <<g>> \o <<>> = <<g>>
    BY Joined, Zenon
  <2>2. <<g, a>> \o <<b>> = <<g, a, b>> /\ <<g>> \o <<b>> = <<g, b>>
    BY Joined, Zenon
  <2>3. <<v>> \o <<g, b>> = <<v, g, b>> /\ <<v>> \o <<>> = <<v>>
    BY Joined, Zenon
  <2>4. <<v>> \o <<g, a, b>> = <<v, g, a, b>>
    BY FirstJoined, Zenon
  <2> QED
    BY <2>1, <2>2, <2>3, <2>4, Zenon DEF SaveCall
<1> QED
  BY <1>1, <1>2, <1>3 DEF RefCall

\* The driver's calls leave the ranks at the same place, the beginning.
LEMMA CallInStep ==
  ASSUME CallsSound, InStep, Call
  PROVE  InStep'
<1>1. /\ pc = "ref" => todo' = [r \in Rank |-> RefCall(r)]
      /\ pc = "update" => todo' = [r \in Rank |-> UpdateCall(r)]
      /\ pc = "save" => todo' = [r \in Rank |-> SaveCall(r)]
      /\ pc \in {"ref", "update", "save"}
      /\ busy' = TRUE /\ UNCHANGED <<lora, pc, carries>>
  BY DEF Call
<1>2. CASE pc = "ref"
  <2>1. RefLeft'
    BY <1>1, <1>2, CallsAre DEF RefLeft, Left
  <2> QED
    BY <1>1, <1>2, <2>1 DEF InStep
<1>3. CASE pc = "update"
  <2>1. UpdateLeft'
    BY <1>1, <1>3, CallsAre DEF UpdateLeft, Left
  <2> QED
    BY <1>1, <1>3, <2>1 DEF InStep
<1>4. CASE pc = "save"
  <2>1. SaveLeft'
    BY <1>1, <1>4, CallsAre DEF SaveLeft, Left
  <2> QED
    BY <1>1, <1>4, <2>1 DEF InStep
<1> QED
  BY <1>1, <1>2, <1>3, <1>4

\* A collective takes the first of what is left from every rank.
LEMMA MeetTakes ==
  ASSUME NEW c, NEW d, Left(c, d), Meet
  PROVE  Left(Tail(c), Tail(d))'
  BY DEF Left, Meet

\* A file, written or not, takes it from the root.
LEMMA RootTakes ==
  ASSUME NEW c, NEW d, Left(c, d), Write
  PROVE  Left(c, Tail(d))'
  BY CallsAssumption DEF Left, Write

\* A failure that the wrap catches ends the root's call.
LEMMA RootGivesUp ==
  ASSUME NEW c, NEW d, Left(c, d), WriteRaises
  PROVE  Left(c, <<>>)'
  BY CallsAssumption DEF Left, WriteRaises

\* The steps of the ranks, while the driver waits.
RankStep == Meet \/ Write \/ WriteRaises

LEMMA RootAt ==
  ASSUME NEW c, NEW d, Left(c, d)
  PROVE  At(Root) = IF d = <<>> THEN "idle" ELSE Head(d)
  BY CallsAssumption DEF Left, At

\* A step from c and d left that leaves e and f: of all ranks, of the root alone.
Together(c, d, e, f) == d # <<>> /\ Head(d) \notin Local /\ e = Tail(c) /\ f = Tail(d)
Alone(c, d, f) ==
  d # <<>> /\ Head(d) \in Local /\ f = Tail(d) /\ (Head(d) = "publish" => f = <<>>)

\* Where the root is at a collective, nothing but that can happen.
LEMMA OnlyMeet ==
  ASSUME NEW c, NEW d, NEW e, NEW f, Left(c, d), RankStep, Together(c, d, e, f)
  PROVE  Left(e, f)'
<1> USE DEF Together
<1>1. At(Root) \notin Local
  BY RootAt
<1>2. ~Write /\ ~WriteRaises
  BY <1>1 DEF Write, WriteRaises, Local
<1> QED
  BY <1>2, MeetTakes DEF RankStep

\* Where it is at a file, only the root can go on.
LEMMA OnlyRoot ==
  ASSUME CallsSound, NEW c, NEW d, NEW f, Left(c, d), RankStep, Alone(c, d, f)
  PROVE  Left(c, f)'
<1> USE DEF Alone
<1>1. At(Root) = Head(d)
  BY RootAt
<1>2. ~Meet
  BY <1>1 DEF Meet
<1>3. CASE Write
  BY <1>3, RootTakes
<1>4. CASE WriteRaises
  <2>1. Head(d) = "publish"
    BY <1>1, <1>4 DEF WriteRaises, CallsSound
  <2> QED
    BY <2>1, <1>4, RootGivesUp
<1> QED
  BY <1>2, <1>3, <1>4 DEF RankStep

\* Ranks that have returned do nothing.
LEMMA NoneLeft ==
  ASSUME NEW c, Left(c, <<>>), RankStep
  PROVE  FALSE
<1>1. At(Root) = "idle"
  BY RootAt
<1> QED
  BY <1>1 DEF RankStep, Meet, Write, WriteRaises, Local

\* The ranks stay at the same place through each of the three calls.
LEMMA RefStep ==
  ASSUME RefLeft, RankStep
  PROVE  RefLeft'
<1> USE DEF RefLeft
<1>1. CASE Left(<<"forward">>, <<"forward">>)
  <2>1. Together(<<"forward">>, <<"forward">>, <<>>, <<>>)
    BY DEF Together, Local
  <2>2. Left(<<>>, <<>>)'
    BY <1>1, <2>1, OnlyMeet, Zenon
  <2> QED
    BY <2>2
<1>2. CASE Left(<<>>, <<>>)
  BY <1>2, NoneLeft
<1> QED
  BY <1>1, <1>2

LEMMA UpdateStep ==
  ASSUME CallsSound, UpdateLeft, RankStep
  PROVE  UpdateLeft'
<1> USE DEF UpdateLeft
<1>1. CASE Left(<<"forward", "reduce", "gather">>,
                <<"forward", "reduce", "gather", "publish">>)
  <2>1. Together(<<"forward", "reduce", "gather">>,
                 <<"forward", "reduce", "gather", "publish">>, <<"reduce", "gather">>,
                 <<"reduce", "gather", "publish">>)
    BY DEF Together, Local
  <2>2. Left(<<"reduce", "gather">>, <<"reduce", "gather", "publish">>)'
    BY <1>1, <2>1, OnlyMeet, Zenon
  <2> QED
    BY <2>2
<1>2. CASE Left(<<"reduce", "gather">>, <<"reduce", "gather", "publish">>)
  <2>1. Together(<<"reduce", "gather">>, <<"reduce", "gather", "publish">>,
                 <<"gather">>, <<"gather", "publish">>)
    BY DEF Together, Local
  <2>2. Left(<<"gather">>, <<"gather", "publish">>)'
    BY <1>2, <2>1, OnlyMeet, Zenon
  <2> QED
    BY <2>2
<1>3. CASE Left(<<"gather">>, <<"gather", "publish">>)
  <2>1. Together(<<"gather">>, <<"gather", "publish">>, <<>>, <<"publish">>)
    BY DEF Together, Local
  <2>2. Left(<<>>, <<"publish">>)'
    BY <1>3, <2>1, OnlyMeet, Zenon
  <2> QED
    BY <2>2
<1>4. CASE Left(<<>>, <<"publish">>)
  <2>1. Alone(<<>>, <<"publish">>, <<>>)
    BY DEF Alone, Local
  <2>2. Left(<<>>, <<>>)'
    BY <1>4, <2>1, OnlyRoot, Zenon
  <2> QED
    BY <2>2
<1>5. CASE Left(<<>>, <<>>)
  BY <1>5, NoneLeft
<1> QED
  BY <1>1, <1>2, <1>3, <1>4, <1>5

LEMMA SaveStep ==
  ASSUME CallsSound, SaveLeft, RankStep
  PROVE  SaveLeft'
<1> USE DEF SaveLeft
<1>1. CASE ~lora /\ Left(<<"verl_save">>, <<"verl_save">>)
  <2>1. Together(<<"verl_save">>, <<"verl_save">>, <<>>, <<>>)
    BY DEF Together, Local
  <2>2. Left(<<>>, <<>>)'
    BY <1>1, <2>1, OnlyMeet, Zenon
  <2> QED
    BY <2>2
<1>2. CASE Left(<<"verl_save", "gather", "barrier">>,
                <<"verl_save", "gather", "adapter", "barrier">>)
  <2>1. Together(<<"verl_save", "gather", "barrier">>,
                 <<"verl_save", "gather", "adapter", "barrier">>,
                 <<"gather", "barrier">>, <<"gather", "adapter", "barrier">>)
    BY DEF Together, Local
  <2>2. Left(<<"gather", "barrier">>, <<"gather", "adapter", "barrier">>)'
    BY <1>2, <2>1, OnlyMeet, Zenon
  <2> QED
    BY <2>2
<1>3. CASE Left(<<"gather", "barrier">>, <<"gather", "adapter", "barrier">>)
  <2>1. Together(<<"gather", "barrier">>, <<"gather", "adapter", "barrier">>,
                 <<"barrier">>, <<"adapter", "barrier">>)
    BY DEF Together, Local
  <2>2. Left(<<"barrier">>, <<"adapter", "barrier">>)'
    BY <1>3, <2>1, OnlyMeet, Zenon
  <2> QED
    BY <2>2
<1>4. CASE Left(<<"barrier">>, <<"adapter", "barrier">>)
  <2>1. Alone(<<"barrier">>, <<"adapter", "barrier">>, <<"barrier">>)
    BY DEF Alone, Local
  <2>2. Left(<<"barrier">>, <<"barrier">>)'
    BY <1>4, <2>1, OnlyRoot, Zenon
  <2> QED
    BY <2>2
<1>5. CASE Left(<<"barrier">>, <<"barrier">>)
  <2>1. Together(<<"barrier">>, <<"barrier">>, <<>>, <<>>)
    BY DEF Together, Local
  <2>2. Left(<<>>, <<>>)'
    BY <1>5, <2>1, OnlyMeet, Zenon
  <2> QED
    BY <2>2
<1>6. CASE Left(<<>>, <<>>)
  BY <1>6, NoneLeft
<1> QED
  BY <1>1, <1>2, <1>3, <1>4, <1>5, <1>6

\* At the beginning nothing is left, and every step keeps the ranks in step.
LEMMA InitInStep == CallsInit => InStep
  BY DEF CallsInit, InStep, Left

LEMMA NextInStep ==
  ASSUME CallsSound
  PROVE  InStep /\ [CallsNext]_callsVars => InStep'
<1> SUFFICES ASSUME InStep, [CallsNext]_callsVars PROVE InStep'
  OBVIOUS
<1>1. CASE Rollout \/ Trained \/ UNCHANGED callsVars
  BY <1>1 DEF Rollout, Trained, callsVars, InStep, Left, RefLeft, UpdateLeft,
              SaveLeft
<1>2. CASE Concat
  BY <1>2 DEF Concat, Emits, CallsSound, InStep, Left
<1>3. CASE Call
  BY <1>3, CallInStep
<1>4. CASE Returned
  <2>1. todo' = todo /\ todo = [r \in Rank |-> <<>>]
    BY <1>4 DEF Returned, InStep, Left, RefLeft, UpdateLeft, SaveLeft
  <2> QED
    BY <1>4, <2>1 DEF Returned, InStep, Left
<1>5. CASE RankStep
  <2>1. busy /\ UNCHANGED <<lora, pc, busy, carries>>
    <3>1. UNCHANGED <<lora, pc, busy, carries>>
      BY <1>5 DEF RankStep, Meet, Write, WriteRaises
    <3>2. busy
      BY <1>5, NoneLeft DEF InStep
    <3> QED
      BY <3>1, <3>2
  <2>2. CASE pc = "ref"
    BY <1>5, <2>1, <2>2, RefStep DEF InStep
  <2>3. CASE pc = "update"
    BY <1>5, <2>1, <2>3, UpdateStep DEF InStep
  <2>4. CASE pc = "save"
    BY <1>5, <2>1, <2>4, SaveStep DEF InStep
  <2> QED
    BY <2>1, <2>2, <2>3, <2>4 DEF InStep
<1> QED
  BY <1>1, <1>2, <1>3, <1>4, <1>5 DEF CallsNext, RankStep

\* Every rank has returned, the root is at a file, or all are at the same collective.
CanGoOn ==
  busy => \/ \A r \in Rank : todo[r] = <<>>
          \/ At(Root) \in Local
          \/ /\ At(Root) \notin Local \cup {"idle"}
             /\ \A r \in Rank : At(r) = At(Root)

\* A step while the driver waits, other than its return, leaves a rank with less to do
\* and none with more.
Shortens ==
  busy => \/ \A r \in Rank : todo[r] = <<>>
          \/ /\ \A r \in Rank : Len(todo'[r]) <= Len(todo[r])
             /\ \E r \in Rank : Len(todo'[r]) < Len(todo[r])

\* The ranks are at one collective; the root is at a file.
Alike(c, d) ==
  c # <<>> /\ d # <<>> /\ Head(c) = Head(d) /\ Head(d) \notin Local \cup {"idle"}
AtFile(d) == d # <<>> /\ Head(d) \in Local

\* In either case something can happen.
LEMMA AlikeGoOn ==
  ASSUME NEW c, NEW d, Left(c, d), Alike(c, d) \/ AtFile(d)
  PROVE  CanGoOn
<1>1. At(Root) = Head(d)
  BY RootAt DEF Alike, AtFile
<1>2. CASE Alike(c, d)
  <2>1. ASSUME NEW r \in Rank PROVE At(r) = Head(d)
    BY <1>1, <1>2 DEF Alike, Left, At
  <2> QED
    BY <1>1, <1>2, <2>1 DEF CanGoOn, Alike
<1>3. CASE AtFile(d)
  BY <1>1, <1>3 DEF CanGoOn, AtFile
<1> QED
  BY <1>2, <1>3

\* Of every place in a call one of them is true, or all have returned.
LEMMA InStepGoesOn ==
  ASSUME InStep
  PROVE  CanGoOn
<1>1. CASE ~busy \/ Left(<<>>, <<>>)
  BY <1>1 DEF CanGoOn, Left
<1>2. CASE RefLeft
  <2>1. Alike(<<"forward">>, <<"forward">>)
    BY DEF Alike, Local
  <2> QED
    BY <1>1, <1>2, <2>1, AlikeGoOn, Zenon DEF RefLeft
<1>3. CASE UpdateLeft
  <2>1. Alike(<<"forward", "reduce", "gather">>,
              <<"forward", "reduce", "gather", "publish">>)
    BY DEF Alike, Local
  <2>2. Alike(<<"reduce", "gather">>, <<"reduce", "gather", "publish">>)
    BY DEF Alike, Local
  <2>3. Alike(<<"gather">>, <<"gather", "publish">>)
    BY DEF Alike, Local
  <2>4. AtFile(<<"publish">>)
    BY DEF AtFile, Local
  <2> QED
    BY <1>1, <1>3, <2>1, <2>2, <2>3, <2>4, AlikeGoOn, Zenon DEF UpdateLeft
<1>4. CASE SaveLeft
  <2>1. Alike(<<"verl_save">>, <<"verl_save">>)
    BY DEF Alike, Local
  <2>2. Alike(<<"verl_save", "gather", "barrier">>,
              <<"verl_save", "gather", "adapter", "barrier">>)
    BY DEF Alike, Local
  <2>3. Alike(<<"gather", "barrier">>, <<"gather", "adapter", "barrier">>)
    BY DEF Alike, Local
  <2>4. AtFile(<<"adapter", "barrier">>)
    BY DEF AtFile, Local
  <2>5. Alike(<<"barrier">>, <<"barrier">>)
    BY DEF Alike, Local
  <2> QED
    BY <1>1, <1>4, <2>1, <2>2, <2>3, <2>4, <2>5, AlikeGoOn, Zenon DEF SaveLeft
<1> QED
  BY <1>1, <1>2, <1>3, <1>4 DEF InStep

\* What is left of a call is a sequence, so it has a length.
Work == {"forward", "reduce", "gather", "publish", "verl_save", "adapter", "barrier"}
BothSeq(c, d) == c \in Seq(Work) /\ d \in Seq(Work)

LEMMA LeftIsSequence ==
  ASSUME InStep, NEW r \in Rank
  PROVE  todo[r] \in Seq(Work)
<1>1. ASSUME NEW c, NEW d, Left(c, d), BothSeq(c, d) PROVE todo[r] \in Seq(Work)
  BY <1>1 DEF Left, BothSeq
<1> USE DEF BothSeq, Work
<1>2. BothSeq(<<>>, <<>>)
  OBVIOUS
<1>3. CASE RefLeft
  <2>1. BothSeq(<<"forward">>, <<"forward">>)
    OBVIOUS
  <2> HIDE DEF BothSeq, Work
  <2> QED
    BY <1>1, <1>2, <1>3, <2>1, Zenon DEF RefLeft
<1>4. CASE UpdateLeft
  <2>1. BothSeq(<<"forward", "reduce", "gather">>,
                <<"forward", "reduce", "gather", "publish">>)
    OBVIOUS
  <2>2. BothSeq(<<"reduce", "gather">>, <<"reduce", "gather", "publish">>)
    OBVIOUS
  <2>3. BothSeq(<<"gather">>, <<"gather", "publish">>)
    OBVIOUS
  <2>4. BothSeq(<<>>, <<"publish">>)
    OBVIOUS
  <2> HIDE DEF BothSeq, Work
  <2> QED
    BY <1>1, <1>2, <1>4, <2>1, <2>2, <2>3, <2>4, Zenon DEF UpdateLeft
<1>5. CASE SaveLeft
  <2>1. BothSeq(<<"verl_save">>, <<"verl_save">>)
    OBVIOUS
  <2>2. BothSeq(<<"verl_save", "gather", "barrier">>,
                <<"verl_save", "gather", "adapter", "barrier">>)
    OBVIOUS
  <2>3. BothSeq(<<"gather", "barrier">>, <<"gather", "adapter", "barrier">>)
    OBVIOUS
  <2>4. BothSeq(<<"barrier">>, <<"adapter", "barrier">>)
    OBVIOUS
  <2>5. BothSeq(<<"barrier">>, <<"barrier">>)
    OBVIOUS
  <2> HIDE DEF BothSeq, Work
  <2> QED
    BY <1>1, <1>2, <1>5, <2>1, <2>2, <2>3, <2>4, <2>5, Zenon DEF SaveLeft
<1>6. CASE Left(<<>>, <<>>)
  BY <1>1, <1>2, <1>6, Zenon
<1> QED
  BY <1>3, <1>4, <1>5, <1>6 DEF InStep

\* A collective takes one from every rank, a file one from the root or all it has left.
LEMMA StepShortens ==
  ASSUME InStep, [CallsNext]_callsVars, callsVars' # callsVars
  PROVE  Shortens
<1> SUFFICES ASSUME busy, \E r \in Rank : todo[r] # <<>>
             PROVE  /\ \A r \in Rank : Len(todo'[r]) <= Len(todo[r])
                    /\ \E r \in Rank : Len(todo'[r]) < Len(todo[r])
  BY DEF Shortens
<1> Root \in Rank
  BY CallsAssumption
<1>1. \A r \in Rank : todo[r] \in Seq(Work)
  BY LeftIsSequence
<1>2. RankStep
  <2>1. pc \in {"ref", "update", "save"}
    BY DEF InStep
  <2> QED
    BY <2>1 DEF CallsNext, Rollout, Concat, Call, Returned,
                Trained, RankStep
<1>3. CASE Meet
  <2>1. ASSUME NEW r \in Rank PROVE Len(todo'[r]) < Len(todo[r])
    <3>1. todo[r] # <<>> /\ todo'[r] = Tail(todo[r])
      BY <1>3 DEF Meet, At
    <3> QED
      BY <1>1, <3>1
  <2>2. ASSUME NEW r \in Rank PROVE Len(todo'[r]) <= Len(todo[r])
    <3>1. todo'[r] = Tail(todo[r])
      BY <1>3 DEF Meet
    <3> QED
      BY <1>1, <2>1, <3>1
  <2> QED
    BY <2>1, <2>2
<1>4. CASE Write \/ WriteRaises
  <2>1. todo[Root] # <<>>
    BY <1>4 DEF Write, WriteRaises, At, Local
  <2>2. \A r \in Rank : r # Root => todo'[r] = todo[r]
    BY <1>4 DEF Write, WriteRaises, InStep, Left, RefLeft, UpdateLeft, SaveLeft
  <2>3. todo'[Root] \in {<<>>, Tail(todo[Root])}
    BY <1>4 DEF Write, WriteRaises, InStep, Left, RefLeft, UpdateLeft, SaveLeft
  <2>4. Len(todo'[Root]) < Len(todo[Root])
    BY <1>1, <2>1, <2>3
  <2> QED
    BY <1>1, <2>2, <2>4
<1> QED
  BY <1>2, <1>3, <1>4 DEF RankStep

-----------------------------------------------------------------------------
(* The calls of the ranks: the theorems *)

\* The wraps of install_patches.py: while the driver waits, there is always a collective
\* that all ranks have come to or a file that the root writes, so no rank waits for one
\* that had fewer forwards or left early.  For any ranks, samples, z's lost and failures
\* to publish; of what CallsSound says, no part can be dropped (README, section 7).
THEOREM NeverStuck ==
  ASSUME CallsSound
  PROVE  CallsSpec => []CanGoOn
<1>1. InStep => CanGoOn
  BY InStepGoesOn
<1>2. InStep /\ [CallsNext]_callsVars => InStep'
  BY NextInStep
<1> QED
  BY <1>1, <1>2, InitInStep, PTL DEF CallsSpec

\* Every step of the ranks takes something off their calls and adds nothing: with
\* NeverStuck this is why a call returns, by induction over what is left.
THEOREM CallsGetShorter ==
  ASSUME CallsSound
  PROVE  CallsSpec => [][Shortens]_callsVars
<1>1. InStep /\ [CallsNext]_callsVars => [Shortens]_callsVars
  BY StepShortens
<1>2. InStep /\ [CallsNext]_callsVars => InStep'
  BY NextInStep
<1> QED
  BY <1>1, <1>2, InitInStep, PTL DEF CallsSpec

-----------------------------------------------------------------------------
(* The rewards: recursion over the tags and over the group *)

\* Induction over the numbers, for sets, and recursion: a function follows from any rule.
LEMMA NatSet ==
  ASSUME NEW T, 0 \in T, \A n \in Nat : n \in T => n + 1 \in T
  PROVE  Nat \subseteq T
<1> SUFFICES ASSUME Nat \ T # {} PROVE FALSE
  OBVIOUS
<1>1. PICK m \in Nat \ T : \A n \in Nat \ T : <<n, m>> \notin OpToRel(<, Nat)
  BY NatLessThanWellFounded, WFMin
<1>2. m \in Nat \ {0}
  OBVIOUS
<1>3. m - 1 \in Nat /\ m - 1 < m /\ m - 1 + 1 = m
  BY <1>2
<1>4. m - 1 \in T
  BY <1>1, <1>2, <1>3 DEF OpToRel
<1> QED
  BY <1>2, <1>3, <1>4

\* f begins with c, and each value follows from the one before by H.
Follows(f, n, c, H) == f[0] = c /\ \A m \in 1..n : f[m] = H[<<f[m - 1], m>>]

LEMMA Recursion ==
  ASSUME NEW S, NEW c \in S, NEW H \in [S \X Nat -> S], NEW n \in Nat
  PROVE  \E f \in [0..n -> S] : Follows(f, n, c, H)
<1> DEFINE T == {l \in Nat : \E f \in [0..l -> S] : Follows(f, l, c, H)}
<1>1. 0 \in T
  <2>1. PICK f : f = [m \in 0..0 |-> c]
    OBVIOUS
  <2>2. f \in [0..0 -> S] /\ f[0] = c
    BY <2>1
  <2> QED
    BY <2>2 DEF Follows
<1>2. ASSUME NEW l \in Nat, l \in T PROVE l + 1 \in T
  <2>1. PICK f \in [0..l -> S] : Follows(f, l, c, H)
    BY <1>2
  <2>2. f[l] \in S /\ l + 1 \in Nat
    BY <2>1
  <2>3. PICK x \in S : x = H[<<f[l], l + 1>>]
    BY <2>2
  <2>4. PICK g : g = [m \in 0..(l + 1) |-> IF m = l + 1 THEN x ELSE f[m]]
    OBVIOUS
  <2>5. \A m \in 0..(l + 1) : m = l + 1 \/ m \in 0..l
    OBVIOUS
  <2>6. g \in [0..(l + 1) -> S]
    BY <2>3, <2>4, <2>5
  <2>7. g[0] = c
    BY <2>1, <2>4 DEF Follows
  <2>8. ASSUME NEW m \in 1..(l + 1) PROVE g[m] = H[<<g[m - 1], m>>]
    <3>1. m \in 0..(l + 1) /\ m - 1 \in 0..(l + 1) /\ m - 1 # l + 1
      OBVIOUS
    <3>2. g[m - 1] = f[m - 1]
      BY <2>4, <3>1
    <3>3. CASE m = l + 1
      <4>1. g[m] = x /\ m - 1 = l
        BY <2>4, <3>1, <3>3
      <4> QED
        BY <2>3, <3>2, <3>3, <4>1
    <3>4. CASE m # l + 1
      <4>1. m \in 1..l /\ g[m] = f[m]
        BY <2>4, <3>1, <3>4
      <4>2. f[m] = H[<<f[m - 1], m>>]
        BY <2>1, <4>1 DEF Follows
      <4> QED
        BY <3>2, <4>1, <4>2
    <3> QED
      BY <3>3, <3>4
  <2>9. Follows(g, l + 1, c, H)
    BY <2>7, <2>8 DEF Follows
  <2> QED
    BY <2>2, <2>6, <2>9
<1>3. Nat \subseteq T
  <2> HIDE DEF T
  <2> QED
    BY <1>1, <1>2, NatSet
<1> QED
  BY <1>3

\* The heights of the stack after each tag.
Heights(s, f) ==
  f = [n \in 0..Len(s) |->
         IF n = 0 THEN 0
         ELSE IF f[n - 1] = -1 THEN -1 ELSE f[n - 1] + Moves(s[n])]

\* Only a close tag takes the stack down.
LEMMA MovesIs ==
  ASSUME NEW t
  PROVE  Moves(t) \in {-1, 0, 1} /\ (Moves(t) = -1 => t = "/think")
         /\ (t = "think" => Moves(t) = 1)
  BY DEF Moves

\* The heights of the stack, tag by tag.
LEMMA HeightIs ==
  ASSUME NEW s \in Seq(Tags)
  PROVE  \E f : Heights(s, f) /\ Height(s) = f[Len(s)]
<1> DEFINE l == Len(s)
           H == [p \in Int \X Nat |->
                   IF p[1] = -1 THEN -1 ELSE p[1] + Moves(s[p[2]])]
<1>1. l \in Nat
  OBVIOUS
<1>2. H \in [Int \X Nat -> Int]
  <2> SUFFICES ASSUME NEW x \in Int, NEW m \in Nat
               PROVE  (IF x = -1 THEN -1 ELSE x + Moves(s[m])) \in Int
    OBVIOUS
  <2>1. Moves(s[m]) \in Int
    BY MovesIs
  <2> QED
    BY <2>1
<1>3. \A x \in Int, m \in Nat : H[<<x, m>>] = IF x = -1 THEN -1 ELSE x + Moves(s[m])
  OBVIOUS
<1> HIDE DEF H
<1>4. PICK f \in [0..l -> Int] : Follows(f, l, 0, H)
  <2> PICK z \in Int : z = 0
    OBVIOUS
  <2> HIDE DEF l
  <2>1. \E f \in [0..l -> Int] : Follows(f, l, z, H)
    BY <1>1, <1>2, Recursion
  <2> QED
    BY <2>1
<1>5. ASSUME NEW m \in 0..l, m # 0
      PROVE  f[m] = IF f[m - 1] = -1 THEN -1 ELSE f[m - 1] + Moves(s[m])
  <2>1. m \in 1..l /\ m - 1 \in 0..l /\ m \in Nat
    BY <1>1, <1>5
  <2>2. f[m] = H[<<f[m - 1], m>>] /\ f[m - 1] \in Int
    BY <1>4, <2>1 DEF Follows
  <2> QED
    BY <1>3, <2>1, <2>2
<1>6. f[0] = 0
  BY <1>4 DEF Follows
<1>7. \E g : Heights(s, g)
  <2>1. Heights(s, f)
    BY <1>4, <1>5, <1>6 DEF Heights
  <2> QED
    BY <2>1
<1> DEFINE after == CHOOSE g : Heights(s, g)
<1>8. Heights(s, after)
  BY <1>7, Zenon
<1>9. Height(s) = after[Len(s)]
  BY Zenon DEF Height, Heights
<1> QED
  BY <1>8, <1>9

\* The products and the sums of the first values of v.
\* The products and the sums over the first rollouts of the group.
Products(v, f) == f = [n \in 0..G |-> IF n = 0 THEN 1 ELSE f[n - 1] * v[n]]
Sums(v, f) == f = [n \in 0..G |-> IF n = 0 THEN 0 ELSE f[n - 1] + v[n]]

LEMMA ProductIsPositive ==
  ASSUME NEW v \in [Group -> Nat \ {0}]
  PROVE  Product(v) \in Nat \ {0}
<1>1. G \in Nat \ {0}
  BY ArGrpoAssumption
<1> DEFINE H == [p \in Nat \X Nat |-> IF p[2] \in 1..G THEN p[1] * v[p[2]] ELSE p[1]]
<1>2. H \in [Nat \X Nat -> Nat]
  <2> SUFFICES ASSUME NEW x \in Nat, NEW m \in Nat
               PROVE  (IF m \in 1..G THEN x * v[m] ELSE x) \in Nat
    OBVIOUS
  <2> QED
    BY DEF Group
<1>3. \A x \in Nat, m \in 1..G : H[<<x, m>>] = x * v[m]
  BY <1>1
<1> HIDE DEF H
<1>4. PICK f \in [0..G -> Nat] : Follows(f, G, 1, H)
  <2> PICK z \in Nat : z = 1
    OBVIOUS
  <2>1. \E f \in [0..G -> Nat] : Follows(f, G, z, H)
    BY <1>1, <1>2, Recursion
  <2> QED
    BY <2>1
<1>5. ASSUME NEW m \in 0..G, m # 0 PROVE f[m] = f[m - 1] * v[m]
  <2>1. m \in 1..G /\ m - 1 \in 0..G
    BY <1>1, <1>5
  <2> QED
    BY <1>3, <1>4, <2>1 DEF Follows
<1>6. f[0] = 1
  BY <1>4 DEF Follows
<1>7. \E g : Products(v, g)
  <2>1. Products(v, f)
    BY <1>4, <1>5, <1>6 DEF Products
  <2> QED
    BY <2>1
<1> DEFINE upTo == CHOOSE g : Products(v, g)
<1>8. Products(v, upTo)
  BY <1>7, Zenon
<1>9. Product(v) = upTo[G]
  BY Zenon DEF Product, Products
<1> HIDE DEF upTo
<1> DEFINE T == {n \in Nat : n <= G => upTo[n] \in Nat \ {0}}
<1>10. 0 \in T
  BY <1>1, <1>8 DEF Products
<1>11. ASSUME NEW n \in Nat, n \in T PROVE n + 1 \in T
  <2> SUFFICES ASSUME n + 1 <= G PROVE upTo[n + 1] \in Nat \ {0}
    OBVIOUS
  <2>1. PICK m \in 1..G : m = n + 1 /\ m - 1 = n /\ m \in 0..G /\ m # 0
    BY <1>1
  <2>2. upTo[m] = upTo[m - 1] * v[m]
    BY <1>8, <2>1 DEF Products
  <2>3. upTo[n] \in Nat \ {0} /\ v[m] \in Nat \ {0}
    BY <1>1, <1>11, <2>1 DEF Group
  <2> QED
    BY <2>1, <2>2, <2>3
<1>12. Nat \subseteq T
  <2> HIDE DEF T
  <2> QED
    BY <1>10, <1>11, NatSet
<1> QED
  BY <1>1, <1>9, <1>12

LEMMA SumIsInteger ==
  ASSUME NEW v \in [Group -> Int]
  PROVE  Sum(v) \in Int
<1>1. G \in Nat \ {0}
  BY ArGrpoAssumption
<1> DEFINE H == [p \in Int \X Nat |-> IF p[2] \in 1..G THEN p[1] + v[p[2]] ELSE p[1]]
<1>2. H \in [Int \X Nat -> Int]
  <2> SUFFICES ASSUME NEW x \in Int, NEW m \in Nat
               PROVE  (IF m \in 1..G THEN x + v[m] ELSE x) \in Int
    OBVIOUS
  <2> QED
    BY DEF Group
<1>3. \A x \in Int, m \in 1..G : H[<<x, m>>] = x + v[m]
  BY <1>1
<1> HIDE DEF H
<1>4. PICK f \in [0..G -> Int] : Follows(f, G, 0, H)
  <2> PICK z \in Int : z = 0
    OBVIOUS
  <2>1. \E f \in [0..G -> Int] : Follows(f, G, z, H)
    BY <1>1, <1>2, Recursion
  <2> QED
    BY <2>1
<1>5. ASSUME NEW m \in 0..G, m # 0 PROVE f[m] = f[m - 1] + v[m]
  <2>1. m \in 1..G /\ m - 1 \in 0..G
    BY <1>1, <1>5
  <2> QED
    BY <1>3, <1>4, <2>1 DEF Follows
<1>6. f[0] = 0
  BY <1>4 DEF Follows
<1>7. \E g : Sums(v, g)
  <2>1. Sums(v, f)
    BY <1>4, <1>5, <1>6 DEF Sums
  <2> QED
    BY <2>1
<1> DEFINE upTo == CHOOSE g : Sums(v, g)
<1>8. Sums(v, upTo)
  BY <1>7, Zenon
<1>9. Sum(v) = upTo[G]
  BY Zenon DEF Sum, Sums
<1> HIDE DEF upTo
<1> DEFINE T == {n \in Nat : n <= G => upTo[n] \in Int}
<1>10. 0 \in T
  BY <1>1, <1>8 DEF Sums
<1>11. ASSUME NEW n \in Nat, n \in T PROVE n + 1 \in T
  <2> SUFFICES ASSUME n + 1 <= G PROVE upTo[n + 1] \in Int
    OBVIOUS
  <2>1. PICK m \in 1..G : m = n + 1 /\ m - 1 = n /\ m \in 0..G /\ m # 0
    BY <1>1
  <2>2. upTo[m] = upTo[m - 1] + v[m]
    BY <1>8, <2>1 DEF Sums
  <2>3. upTo[n] \in Int /\ v[m] \in Int
    BY <1>1, <1>11, <2>1 DEF Group
  <2> QED
    BY <2>1, <2>2, <2>3
<1>12. Nat \subseteq T
  <2> HIDE DEF T
  <2> QED
    BY <1>10, <1>11, NatSet
<1> QED
  BY <1>1, <1>9, <1>12

\* A response is finite, so the counters are numbers; a match counts.
LEMMA CountsAreNumbers ==
  ASSUME NEW s \in Seq(Tags)
  PROVE  /\ NThink(s) \in Nat /\ NLatent(s) \in Nat
         /\ ThinkChars(s) \in Nat
         /\ Thinks(s) # {} => NThink(s) > 0
<1>1. IsFiniteSet(1..Len(s)) /\ DOMAIN s = 1..Len(s)
  BY FS_Interval
<1>2. IsFiniteSet((1..Len(s)) \X (1..Len(s)))
  BY <1>1, FS_Product
<1>3. IsFiniteSet(Thinks(s))
  BY <1>2, FS_Subset DEF Thinks
<1>4. NThink(s) \in Nat /\ (Thinks(s) # {} => NThink(s) > 0)
  BY <1>3, FS_CardinalityType, FS_EmptySet DEF NThink
<1>5. NLatent(s) \in Nat
  <2>1. IsFiniteSet({i \in DOMAIN s : s[i] = "latent"})
    BY <1>1, FS_Subset
  <2> QED
    BY <2>1, FS_CardinalityType DEF NLatent
<1>6. ThinkChars(s) \in Nat
  <2>1. IsFiniteSet({k \in DOMAIN s : \E m \in Thinks(s) : m[1] < k /\ k < m[2]})
    BY <1>1, FS_Subset
  <2> QED
    BY <2>1, FS_CardinalityType DEF ThinkChars
<1> QED
  BY <1>4, <1>5, <1>6

\* An open tag behind which nothing closes leaves the stack up, or -1 in its place.
LEMMA OpenIsClosed ==
  ASSUME NEW s \in Seq(Tags), FormatOk(s),
         NEW k \in 1..Len(s), s[k] = "think"
  PROVE  \E j \in (k + 1)..Len(s) : s[j] = "/think"
<1> SUFFICES ASSUME \A j \in (k + 1)..Len(s) : s[j] # "/think" PROVE FALSE
  OBVIOUS
<1>1. PICK f : Heights(s, f) /\ f[Len(s)] = 0
  BY HeightIs DEF FormatOk
<1> PICK l \in Nat : l = Len(s)
  OBVIOUS
<1>2. ASSUME NEW n \in 1..l
      PROVE  f[n] = IF f[n - 1] = -1 THEN -1 ELSE f[n - 1] + Moves(s[n])
  <2>1. n \in 0..Len(s) /\ n # 0
    OBVIOUS
  <2> QED
    BY <1>1, <2>1 DEF Heights
<1> DEFINE T == {n \in Nat : n <= l => f[n] \in Int /\ f[n] >= -1}
           U == {n \in Nat : n >= k /\ n <= l => f[n] \in Int /\ (f[n] = -1 \/ f[n] >= 1)}
<1>3. 0 \in T
  <2>1. 0 \in 0..Len(s)
    OBVIOUS
  <2>2. f[0] = 0
    BY <1>1, <2>1 DEF Heights
  <2> QED
    BY <2>2
<1>4. ASSUME NEW n \in Nat, n \in T PROVE n + 1 \in T
  <2> SUFFICES ASSUME n + 1 <= l PROVE f[n + 1] \in Int /\ f[n + 1] >= -1
    OBVIOUS
  <2>1. PICK m \in 1..l : m = n + 1 /\ m - 1 = n
    OBVIOUS
  <2>2. Moves(s[m]) \in {-1, 0, 1}
    BY MovesIs
  <2>3. f[n] \in Int /\ f[n] >= -1
    BY <1>4, <2>1
  <2> QED
    BY <1>2, <2>1, <2>2, <2>3
<1>5. Nat \subseteq T
  <2> HIDE DEF T
  <2> QED
    BY <1>3, <1>4, NatSet
<1>6. 0 \in U
  OBVIOUS
<1>7. ASSUME NEW n \in Nat, n \in U PROVE n + 1 \in U
  <2> SUFFICES ASSUME n + 1 >= k, n + 1 <= l
               PROVE  f[n + 1] \in Int /\ (f[n + 1] = -1 \/ f[n + 1] >= 1)
    OBVIOUS
  <2>1. PICK m \in 1..l : m = n + 1 /\ m - 1 = n
    OBVIOUS
  <2>2. f[n] \in Int /\ f[n] >= -1
    BY <1>5, <2>1
  <2>3. CASE m = k
    <3>1. Moves(s[m]) = 1
      BY <2>3, MovesIs
    <3> QED
      BY <1>2, <2>1, <2>2, <3>1
  <2>4. CASE m # k
    <3>1. s[m] # "/think"
      BY <2>1, <2>4
    <3>2. Moves(s[m]) \in {0, 1}
      BY <3>1, MovesIs
    <3>3. f[n] = -1 \/ f[n] >= 1
      BY <1>7, <2>1, <2>4
    <3> QED
      BY <1>2, <2>1, <2>2, <3>2, <3>3
  <2> QED
    BY <2>3, <2>4
<1>8. Nat \subseteq U
  <2> HIDE DEF U
  <2> QED
    BY <1>6, <1>7, NatSet
<1> QED
  BY <1>1, <1>8

\* Every nonempty set of numbers has a least.
LEMMA Smallest ==
  ASSUME NEW T, T \subseteq Nat, T # {}
  PROVE  \E m \in T : \A n \in T : m <= n
<1>1. PICK m \in T : \A n \in T : <<n, m>> \notin OpToRel(<, Nat)
  BY NatLessThanWellFounded, WFMin
<1>2. ASSUME NEW n \in T PROVE m <= n
  <2>1. <<n, m>> \notin OpToRel(<, Nat) /\ n \in Nat /\ m \in Nat
    BY <1>1
  <2> QED
    BY <2>1 DEF OpToRel
<1> QED
  BY <1>2

\* Where a tag is closed, a match begins at the first open tag not closed before it.
LEMMA SomeMatch ==
  ASSUME NEW s \in Seq(Tags), NEW k \in 1..Len(s), s[k] = "think",
         NEW e \in (k + 1)..Len(s), s[e] = "/think"
  PROVE  Thinks(s) # {}
<1> PICK l \in Nat : l = Len(s)
  OBVIOUS
<1> DEFINE A == {i \in 1..k : s[i] = "think" /\ ~Closed(s, i, k)}
           B == {j \in (k + 1)..l : s[j] = "/think"}
<1>1. k \in A /\ e \in B /\ k \in Nat
  BY DEF Closed
<1>2. PICK i \in A : \A a \in A : i <= a
  <2>1. A \subseteq Nat /\ A # {}
    BY <1>1
  <2> HIDE DEF A
  <2> QED
    BY <2>1, Smallest
<1>3. PICK j \in B : \A b \in B : j <= b
  <2>1. B \subseteq Nat /\ B # {}
    BY <1>1
  <2> HIDE DEF B
  <2> QED
    BY <2>1, Smallest
<1>4. i \in 1..l /\ j \in 1..l /\ i <= k /\ k < j /\ s[i] = "think" /\ s[j] = "/think"
  OBVIOUS
<1>5. ~Closed(s, i, j)
  <2> SUFFICES ASSUME NEW c \in (i + 1)..(j - 1), s[c] = "/think" PROVE FALSE
    BY DEF Closed
  <2>1. CASE c < k
    BY <2>1 DEF Closed
  <2>2. CASE c = k
    BY <2>2
  <2>3. CASE c > k
    BY <1>3, <1>4, <2>3
  <2> QED
    BY <2>1, <2>2, <2>3, <1>4
<1>6. ASSUME NEW h \in 1..(i - 1), s[h] = "think" PROVE Closed(s, h, i)
  <2>1. h \in 1..k /\ h < i /\ h \notin A
    BY <1>2, <1>4
  <2>2. PICK c \in (h + 1)..(k - 1) : s[c] = "/think"
    BY <1>6, <2>1 DEF Closed
  <2>3. c # i /\ ~(c \in (i + 1)..(k - 1))
    BY <2>2, <1>4 DEF Closed
  <2>4. c \in (h + 1)..(i - 1)
    BY <2>1, <2>3, <1>4
  <2> QED
    BY <2>2, <2>4 DEF Closed
<1>7. <<i, j>> \in Thinks(s)
  <2>1. <<i, j>> \in (1..Len(s)) \X (1..Len(s))
    BY <1>4
  <2> QED
    BY <1>4, <1>5, <1>6, <2>1 DEF Thinks
<1> QED
  BY <1>7

\* Products keep the order.
LEMMA ProductOrder ==
  ASSUME NEW a \in Int, NEW b \in Int, NEW c \in Nat, a <= b
  PROVE  a * c <= b * c
  OBVIOUS

LEMMA ProductStrict ==
  ASSUME NEW a \in Int, NEW b \in Int, NEW c \in Nat \ {0}, a < b
  PROVE  a * c < b * c
  OBVIOUS

LEMMA ProductIsInt ==
  ASSUME NEW a \in Int, NEW b \in Int
  PROVE  /\ a * b \in Int /\ a * b = b * a
         /\ a >= 0 /\ b >= 0 => a * b >= 0
         /\ a > 0 /\ b > 0 => a * b > 0
  OBVIOUS

\* n of t turns, over the denominator d, are no more than d, and less if some are not.
LEMMA ShareOf ==
  ASSUME NEW d \in Nat \ {0}, NEW t \in Nat \ {0}, NEW n \in Nat, n <= t
  PROVE  n * (d \div t) \in 0..d /\ (n < t => n * (d \div t) < d)
<1> PICK q \in Nat : q = d \div t
  OBVIOUS
<1>1. t * q <= d
  OBVIOUS
<1>2. n * q <= t * q
  BY ProductOrder
<1>3. ASSUME n < t PROVE n * q < d
  <2>1. CASE q = 0
    BY <2>1
  <2>2. CASE q # 0
    <3>1. n * q < t * q
      BY <1>3, <2>2, ProductStrict
    <3> QED
      BY <1>1, <3>1
  <2> QED
    BY <2>1, <2>2
<1>4. n * q \in Nat
  BY ProductIsInt
<1> QED
  BY <1>1, <1>2, <1>3, <1>4

\* The responses are what they were, and the scores, once there, are theirs.
RInv ==
  /\ text \in [Group -> Texts] /\ right \in [Group -> BOOLEAN]
  /\ global_steps \in 0..Horizon
  /\ shaped = <<>> \/ shaped = [i \in Group |-> ShapedScore(i)]

\* The latent fraction is one: 0..Den over Den, and not 1 where an explicit turn counts.
LEMMA FractionIs ==
  ASSUME RInv
  PROVE  /\ Den \in Nat \ {0} /\ SumF \in Int
         /\ \A i \in Group :
              /\ text[i] \in Seq(Tags)
              /\ F(i) \in 0..Den
              /\ NThink(text[i]) > 0 => F(i) < Den
<1>1. ASSUME NEW i \in Group PROVE text[i] \in Seq(Tags)
  BY ArGrpoAssumption DEF RInv
<1>2. ASSUME NEW i \in Group
      PROVE  /\ NThink(text[i]) \in Nat /\ NLatent(text[i]) \in Nat
             /\ Turns(i) \in Nat /\ NLatent(text[i]) <= Turns(i)
             /\ NThink(text[i]) > 0 => NLatent(text[i]) < Turns(i)
  <2>1. NThink(text[i]) \in Nat /\ NLatent(text[i]) \in Nat
    BY <1>1, CountsAreNumbers
  <2> QED
    BY <2>1 DEF Turns
<1>3. Den \in Nat \ {0}
  <2>1. [i \in Group |-> IF Turns(i) = 0 THEN 1 ELSE Turns(i)]
          \in [Group -> Nat \ {0}]
    BY <1>2
  <2> QED
    BY <2>1, ProductIsPositive DEF Den
<1>4. ASSUME NEW i \in Group
      PROVE  /\ F(i) \in 0..Den
             /\ NThink(text[i]) > 0 => F(i) < Den
  <2> PICK d \in Nat \ {0} : d = Den
    BY <1>3
  <2> PICK t \in Nat, n \in Nat : t = Turns(i) /\ n = NLatent(text[i])
    BY <1>2
  <2>1. CASE t = 0
    BY <1>2, <2>1 DEF F
  <2>2. CASE t # 0
    <3>1. F(i) = n * (d \div t)
      BY <2>2 DEF F
    <3>2. n <= t /\ (NThink(text[i]) > 0 => n < t)
      BY <1>2
    <3>3. n * (d \div t) \in 0..d /\ (n < t => n * (d \div t) < d)
      BY <2>2, <3>2, ShareOf
    <3> QED
      BY <3>1, <3>2, <3>3
  <2> QED
    BY <2>1, <2>2
<1>5. SumF \in Int
  <2>1. [i \in Group |-> F(i)] \in [Group -> Int]
    BY <1>3, <1>4
  <2> QED
    BY <2>1, SumIsInteger DEF SumF
<1> QED
  BY <1>1, <1>3, <1>4, <1>5

-----------------------------------------------------------------------------
(* The rewards: the invariant, and what a score is made of *)

\* The scores are a matter of the responses, which no step changes.
LEMMA ScoresStay ==
  ASSUME UNCHANGED <<text, right, global_steps>>
  PROVE  [i \in Group |-> ShapedScore(i)]'
           = [i \in Group |-> ShapedScore(i)]
<1>1. Den' = Den
  BY DEF Den, Turns
<1>2. \A i : F(i)' = F(i)
  BY <1>1 DEF F, Turns
<1>3. SumF' = SumF
  BY <1>2 DEF SumF
<1>4. \A i : Em(i)' = Em(i)
  BY DEF Em
<1>5. \A i : RFormat(i)' = RFormat(i) /\ RDiv(i)' = RDiv(i)
  BY <1>1, <1>2, <1>3, <1>4 DEF RFormat, RDiv, Decay
<1>6. \A i : Scale(i)' = Scale(i)
  BY DEF Scale
<1> QED
  BY <1>1, <1>5, <1>6 DEF ShapedScore

\* Nothing but the scores ever changes.
LEMMA InitRInv == GroupInit => RInv
  BY DEF GroupInit, RInv

LEMMA NextRInv == RInv /\ [GroupNext]_groupVars => RInv'
<1> SUFFICES ASSUME RInv, [GroupNext]_groupVars PROVE RInv'
  OBVIOUS
<1>1. UNCHANGED <<text, right, global_steps>>
  BY DEF GroupNext, Shape, Shaped, groupVars
<1>2. shaped' = shaped \/ shaped' = [i \in Group |-> ShapedScore(i)]
  BY DEF GroupNext, Shape, Shaped, groupVars
<1>3. [i \in Group |-> ShapedScore(i)]'
           = [i \in Group |-> ShapedScore(i)]
  BY <1>1, ScoresStay
<1>4. shaped' = <<>> \/ shaped' = [i \in Group |-> ShapedScore(i)]'
  BY <1>2, <1>3 DEF RInv
<1> QED
  BY <1>1, <1>4 DEF RInv

\* The common denominator of the scores, and a score before its length scale.
Unit == 10 * ((G * Horizon) * Den)
Worth(i) == RFormat(i) + RDiv(i)

\* r_format, with the sign of the answer: an alpha below 1 keeps it above -1.
LEMMA RFormatIs ==
  ASSUME NEW g \in Nat \ {0}, NEW a \in Nat, NEW d \in Nat \ {0}, NEW f \in 0..d
  PROVE  /\ g * (10 * d + a * f) \in Nat \ {0} /\ g * (-(a * f)) \in Int
         /\ g * (-(a * f)) <= 0
         /\ a < 10 => g * (-(a * f)) > -(10 * (g * d))
<1> PICK u \in Nat : u = a * f
  BY ProductIsInt
<1>1. g * (10 * d + u) \in Nat \ {0}
  BY ProductIsInt
<1> PICK w \in Nat : w = g * u
  BY ProductIsInt
<1>2. g * (-u) = -w
  OBVIOUS
<1>3. ASSUME a < 10 PROVE w < 10 * (g * d)
  <2>1. u <= 9 * f
    <3>1. a <= 9
      BY <1>3
    <3> QED
      BY <3>1, ProductOrder
  <2>2. u < 10 * d
    BY <2>1
  <2>3. u * g < (10 * d) * g
    BY <2>2, ProductStrict
  <2>4. (10 * d) * g = 10 * (g * d)
    OBVIOUS
  <2> QED
    BY <2>3, <2>4, ProductIsInt
<1> QED
  BY <1>1, <1>2, <1>3

\* The bonus, never negative, added to it.
LEMMA SumsOfGain ==
  ASSUME NEW u \in Nat \ {0}, NEW v \in Int, v <= 0, NEW r \in Nat, NEW t \in Nat \ {0}
  PROVE  /\ u + r \in Int /\ u + r > 0 /\ u + r > -t /\ (r = 0 => u + r = u)
         /\ v + r \in Int /\ (v > -t => v + r > -t) /\ (r = 0 => v + r <= 0)
  OBVIOUS

LEMMA TenTimes == \A p \in Nat : 10 * p \in Nat /\ (p = 0 => 10 * p = 0)
  OBVIOUS

\* Before the length scale: above -1 if alpha is below 1, positive for a success, and at
\* the end, when the bonus is gone, not positive for a failure.
LEMMA WorthIs ==
  ASSUME RInv, NEW i \in Group
  PROVE  /\ Unit \in Nat \ {0} /\ Worth(i) \in Int
         /\ Alpha < 10 => Worth(i) > -Unit
         /\ Em(i) => Worth(i) > 0
         /\ global_steps = Horizon =>
              /\ ~Em(i) => Worth(i) <= 0
              /\ Em(i) => Worth(i) = (G * Horizon) * (10 * Den + Alpha * F(i))
<1> PICK g \in Nat \ {0} : g = G * Horizon
  BY ProductIsInt, ArGrpoAssumption
<1> PICK d \in Nat \ {0} : d = Den
  BY FractionIs
<1> PICK f \in 0..d : f = F(i)
  BY FractionIs
<1> PICK m \in Int : m = SumF
  BY FractionIs
<1>1. Alpha \in Nat /\ G \in Nat /\ Horizon \in Nat
  BY ArGrpoAssumption
<1>2. Unit \in Nat \ {0}
  <2>1. g * d \in Nat \ {0}
    BY ProductIsInt
  <2> QED
    BY <2>1 DEF Unit
<1>3. /\ g * (10 * d + Alpha * f) \in Nat \ {0} /\ g * (-(Alpha * f)) \in Int
      /\ g * (-(Alpha * f)) <= 0
      /\ Alpha < 10 => g * (-(Alpha * f)) > -Unit
  BY <1>1, RFormatIs DEF Unit
<1>4. RFormat(i)
        = IF Em(i) THEN g * (10 * d + Alpha * f) ELSE g * (-(Alpha * f))
  BY DEF RFormat
<1>5. RDiv(i) \in Nat /\ (global_steps = Horizon => RDiv(i) = 0)
  <2>1. global_steps \in Nat
    BY <1>1 DEF RInv
  <2>2. Decay \in Nat /\ (global_steps = Horizon => Decay = 0)
    BY <1>1, <2>1 DEF Decay
  <2> PICK y \in Nat : y = Decay /\ (global_steps = Horizon => y = 0)
    BY <2>2
  <2> PICK z \in Int : z = G * f
    BY <1>1, ProductIsInt
  <2> PICK x \in Nat : x = Abs(z - m)
    BY DEF Abs
  <2> PICK p \in Nat : p = y * x /\ (y = 0 => p = 0)
    BY ProductIsInt
  <2>3. RDiv(i) = 10 * y * x
    BY DEF RDiv
  <2>4. 10 * y * x = 10 * p
    OBVIOUS
  <2>5. RDiv(i) = 10 * p
    BY <2>3, <2>4
  <2>6. global_steps = Horizon => p = 0
    OBVIOUS
  <2> QED
    BY <2>5, <2>6, TenTimes, Zenon
<1> PICK r \in Nat : r = RDiv(i) /\ (global_steps = Horizon => r = 0)
  BY <1>5
<1> PICK u \in Int, v \in Int : u = g * (10 * d + Alpha * f) /\ v = g * (-(Alpha * f))
  BY <1>3
<1>6. (Em(i) => Worth(i) = u + r) /\ (~Em(i) => Worth(i) = v + r)
  BY <1>4 DEF Worth
<1>7. u \in Nat \ {0} /\ v <= 0 /\ (Alpha < 10 => v > -Unit)
  BY <1>3
<1>8. /\ u + r \in Int /\ u + r > 0 /\ u + r > -Unit /\ (r = 0 => u + r = u)
      /\ v + r \in Int /\ (v > -Unit => v + r > -Unit) /\ (r = 0 => v + r <= 0)
  BY <1>2, <1>7, SumsOfGain, Zenon
<1> QED
  BY <1>2, <1>6, <1>7, <1>8, Zenon

\* The length scale is a fraction of at most 1.
LEMMA ScaleIs ==
  ASSUME RInv, NEW i \in Group
  PROVE  /\ Scale(i)[1] \in Nat \ {0} /\ Scale(i)[2] \in Nat \ {0}
         /\ Scale(i)[1] <= Scale(i)[2]
<1>1. ThinkChars(text[i]) \in Nat
  BY FractionIs, CountsAreNumbers
<1> QED
  BY <1>1, ArGrpoAssumption DEF Scale

LEMMA Regroup ==
  ASSUME NEW q \in Int, NEW a \in Int, NEW b \in Int, NEW d \in Int
  PROVE  q * 10 * a * b * d = q * (10 * ((a * b) * d))
  OBVIOUS

\* A score that passes the gate, as a fraction over Unit.
LEMMA ScoreIs ==
  ASSUME RInv, shaped # <<>>, NEW i \in Group
  PROVE  shaped[i] = IF ~FormatOk(text[i]) THEN <<-1, 1>>
                     ELSE <<Scale(i)[1] * Worth(i), Scale(i)[2] * Unit>>
<1>1. shaped[i] = ShapedScore(i)
  BY DEF RInv
<1>2. Scale(i)[2] * 10 * G * Horizon * Den = Scale(i)[2] * Unit
  <2> PICK q \in Int : q = Scale(i)[2]
    BY ScaleIs
  <2> PICK d \in Int : d = Den
    BY FractionIs
  <2>1. G \in Int /\ Horizon \in Int
    BY ArGrpoAssumption
  <2> QED
    BY <2>1, Regroup DEF Unit
<1> QED
  BY <1>1, <1>2 DEF ShapedScore, Worth

-----------------------------------------------------------------------------
(* The rewards: the theorems *)

\* Scores are computed once, from the responses alone.
LEMMA RewardInvariance == GroupSpec => []RInv
  BY InitRInv, NextRInv, PTL DEF GroupSpec

\* reward.py's gate against hidden reasoning: a response that opens a <think> has the
\* hard penalty or an explicit turn that counts against it, wherever its tags stand, in
\* groups of any size and responses of any length.
THEOREM FormatGateHolds == GroupSpec => []NoEvasion
<1>1. RInv => NoEvasion
  <2> SUFFICES ASSUME RInv, shaped # <<>>, NEW i \in Group,
                      NEW k \in DOMAIN text[i], text[i][k] = "think"
               PROVE  shaped[i] = <<-1, 1>> \/ F(i) < Den
    BY DEF NoEvasion
  <2>1. CASE ~FormatOk(text[i])
    BY <2>1, ScoreIs
  <2>2. CASE FormatOk(text[i])
    <3> PICK s \in Seq(Tags) : s = text[i]
      BY FractionIs
    <3>1. k \in 1..Len(s)
      OBVIOUS
    <3>2. PICK e \in (k + 1)..Len(s) : s[e] = "/think"
      BY <2>2, <3>1, OpenIsClosed
    <3>3. Thinks(s) # {}
      BY <3>1, <3>2, SomeMatch
    <3>4. NThink(s) > 0
      BY <3>3, CountsAreNumbers
    <3> QED
      BY <3>4, FractionIs
  <2> QED
    BY <2>1, <2>2
<1> QED
  BY <1>1, RewardInvariance, PTL

\* Scaled by at most 1, what is above -1 stays above it; a gain is above any loss; and a
\* larger worth with a larger scale is no less.
LEMMA AbovePenalty ==
  ASSUME NEW p \in Nat \ {0}, NEW q \in Nat \ {0}, p <= q,
         NEW w \in Int, NEW t \in Nat \ {0}, w > -t
  PROVE  -1 * (q * t) < (p * w) * 1
<1> PICK e \in Nat \ {0} : e = q * t
  BY ProductIsInt
<1>1. CASE w >= 0
  <2>1. p * w >= 0 /\ p * w \in Int
    BY <1>1, ProductIsInt
  <2> QED
    BY <2>1
<1>2. CASE w < 0
  <2> PICK x \in Nat : x = -w /\ x < t
    BY <1>2
  <2>1. p * x <= q * x
    BY ProductOrder
  <2>2. x * q < t * q
    BY ProductStrict
  <2>3. q * x = x * q /\ t * q = e
    BY ProductIsInt
  <2>4. p * x < e /\ p * x \in Int
    BY <2>1, <2>2, <2>3, ProductIsInt
  <2>5. p * w = -(p * x)
    OBVIOUS
  <2> QED
    BY <2>4, <2>5
<1> QED
  BY <1>1, <1>2

LEMMA GainAboveLoss ==
  ASSUME NEW p \in Nat \ {0}, NEW q \in Nat \ {0}, NEW w \in Int, w <= 0,
         NEW r \in Nat \ {0}, NEW s \in Nat \ {0}, NEW v \in Int, v > 0, NEW t \in Nat \ {0}
  PROVE  (p * w) * (s * t) < (r * v) * (q * t)
<1> PICK a \in Nat : a = p * (-w)
  BY ProductIsInt
<1> PICK b \in Nat \ {0} : b = s * t
  BY ProductIsInt
<1> PICK c \in Nat \ {0} : c = r * v
  BY ProductIsInt
<1> PICK d \in Nat \ {0} : d = q * t
  BY ProductIsInt
<1>1. p * w = -a
  OBVIOUS
<1>2. (-a) * b = -(a * b)
  OBVIOUS
<1>3. a * b >= 0 /\ c * d > 0 /\ a * b \in Int /\ c * d \in Int
  BY ProductIsInt
<1> QED
  BY <1>1, <1>2, <1>3

LEMMA WorthGrows ==
  ASSUME NEW g \in Nat, NEW d \in Nat, NEW a \in Nat, NEW e \in Nat, NEW f \in Nat, e <= f
  PROVE  g * (10 * d + a * e) <= g * (10 * d + a * f)
<1>1. a * e <= a * f /\ a * e \in Nat /\ a * f \in Nat
  <2>1. e * a <= f * a
    BY ProductOrder
  <2> QED
    BY <2>1, ProductIsInt
<1> PICK h \in Nat, k \in Nat : h = a * e /\ k = a * f
  BY <1>1
<1> PICK m \in Nat, n \in Nat : m = 10 * d + h /\ n = 10 * d + k
  OBVIOUS
<1>2. m * g <= n * g
  BY <1>1, ProductOrder
<1> QED
  BY <1>2, ProductIsInt

LEMMA FourProducts ==
  ASSUME NEW p \in Nat, NEW w \in Nat, NEW q \in Nat, NEW t \in Nat
  PROVE  (p * w) * (q * t) = (p * q) * (w * t)
  OBVIOUS

LEMMA NotWorse ==
  ASSUME NEW p \in Nat, NEW q \in Nat, NEW w \in Nat,
         NEW r \in Nat, NEW s \in Nat, NEW v \in Nat, NEW t \in Nat,
         p * s <= r * q, w <= v
  PROVE  ~((r * v) * (q * t) < (p * w) * (s * t))
<1> PICK a \in Nat : a = p * s
  BY ProductIsInt
<1> PICK b \in Nat : b = r * q
  BY ProductIsInt
<1> PICK c \in Nat : c = w * t
  BY ProductIsInt
<1> PICK d \in Nat : d = v * t
  BY ProductIsInt
<1>1. a <= b
  OBVIOUS
<1>2. c <= d
  BY ProductOrder
<1>3. a * c <= b * c
  BY <1>1, ProductOrder
<1>4. c * b <= d * b
  BY <1>2, ProductOrder
<1>5. a * c <= b * d
  BY <1>3, <1>4, ProductIsInt
<1>6. ~(b * d < a * c)
  <2> PICK x \in Int, y \in Int : x = a * c /\ y = b * d
    BY ProductIsInt
  <2> QED
    BY <1>5
<1>7. (p * w) * (s * t) = a * c /\ (r * v) * (q * t) = b * d
  BY FourProducts
<1> QED
  BY <1>6, <1>7

\* ar_grpo.py: malformed responses are below all others at any step, and once d_t is 0 a
\* success is above every failure, for any group, any lengths of thinking and L, as long as
\* AR_GRPO_ALPHA is below 1 (at 1, a wrong answer with latent turns only gets -1 too).
THEOREM SuccessIsAbove ==
  ASSUME Alpha < 10
  PROVE  GroupSpec => []SuccessAboveFailure
<1>1. RInv => SuccessAboveFailure
  <2> SUFFICES ASSUME RInv, shaped # <<>>, NEW i \in Group, NEW j \in Group
               PROVE  /\ (~FormatOk(text[i]) /\ FormatOk(text[j]))
                           => Less(shaped[i], shaped[j])
                      /\ (global_steps = Horizon /\ Em(j) /\ ~Em(i))
                           => Less(shaped[i], shaped[j])
    BY DEF SuccessAboveFailure
  <2> PICK t \in Nat \ {0} : t = Unit
    BY WorthIs
  <2> PICK p \in Nat \ {0}, q \in Nat \ {0} :
         p = Scale(i)[1] /\ q = Scale(i)[2]
    BY ScaleIs
  <2> PICK r \in Nat \ {0}, s \in Nat \ {0} :
         r = Scale(j)[1] /\ s = Scale(j)[2] /\ r <= s
    BY ScaleIs
  <2> PICK w \in Int, v \in Int : w = Worth(i) /\ v = Worth(j)
    BY WorthIs
  <2>1. v > -t
    BY WorthIs
  <2>2. ASSUME ~FormatOk(text[i]), FormatOk(text[j])
        PROVE  Less(shaped[i], shaped[j])
    <3>1. shaped[i] = <<-1, 1>> /\ shaped[j] = <<r * v, s * t>>
      BY <2>2, ScoreIs
    <3>2. -1 * (s * t) < (r * v) * 1
      BY <2>1, AbovePenalty
    <3> QED
      BY <3>1, <3>2 DEF Less
  <2>3. ASSUME global_steps = Horizon, Em(j), ~Em(i)
        PROVE  Less(shaped[i], shaped[j])
    <3>1. FormatOk(text[j])
      BY <2>3 DEF Em
    <3>2. CASE ~FormatOk(text[i])
      BY <2>2, <3>1, <3>2
    <3>3. CASE FormatOk(text[i])
      <4>1. shaped[i] = <<p * w, q * t>> /\ shaped[j] = <<r * v, s * t>>
        BY <3>1, <3>3, ScoreIs
      <4>2. w <= 0 /\ v > 0
        BY <2>3, WorthIs
      <4>3. (p * w) * (s * t) < (r * v) * (q * t)
        BY <4>2, GainAboveLoss
      <4> QED
        BY <4>1, <4>3 DEF Less
    <3> QED
      BY <3>2, <3>3
  <2> QED
    BY <2>2, <2>3
<1> QED
  BY <1>1, RewardInvariance, PTL

\* ar_grpo.py: of two successes at the end, the one with the larger latent fraction and no
\* more thinking text is not scored lower, for any group, alpha and L.
THEOREM LatentIsNotWorse == GroupSpec => []LatentNotWorse
<1>1. RInv => LatentNotWorse
  <2> SUFFICES ASSUME RInv, shaped # <<>>, global_steps = Horizon,
                      NEW i \in Group, NEW j \in Group,
                      Em(i), Em(j), F(i) <= F(j),
                      ThinkChars(text[j]) <= ThinkChars(text[i]),
                      Less(shaped[j], shaped[i])
               PROVE  FALSE
    BY DEF LatentNotWorse
  <2> PICK t \in Nat \ {0} : t = Unit
    BY WorthIs
  <2> PICK p \in Nat \ {0}, q \in Nat \ {0} :
         p = Scale(i)[1] /\ q = Scale(i)[2]
    BY ScaleIs
  <2> PICK r \in Nat \ {0}, s \in Nat \ {0} :
         r = Scale(j)[1] /\ s = Scale(j)[2]
    BY ScaleIs
  <2> PICK w \in Nat \ {0}, v \in Nat \ {0} : w = Worth(i) /\ v = Worth(j)
    BY WorthIs
  <2>1. w <= v
    <3> PICK g \in Nat \ {0} : g = G * Horizon
      BY ProductIsInt, ArGrpoAssumption
    <3> PICK d \in Nat : d = Den
      BY FractionIs
    <3> PICK e \in Nat, f \in Nat : e = F(i) /\ f = F(j) /\ e <= f
      BY FractionIs
    <3>1. w = g * (10 * d + Alpha * e) /\ v = g * (10 * d + Alpha * f)
      BY WorthIs
    <3>2. Alpha \in Nat
      BY ArGrpoAssumption
    <3>3. g * (10 * d + Alpha * e) <= g * (10 * d + Alpha * f)
      BY <3>2, WorthGrows
    <3> QED
      BY <3>1, <3>3, Zenon
  <2>2. p * s <= r * q
    <3> PICK x \in Nat, y \in Nat :
           x = ThinkChars(text[i]) /\ y = ThinkChars(text[j]) /\ y <= x
      BY FractionIs, CountsAreNumbers
    <3>1. L \in Nat \ {0}
      BY ArGrpoAssumption
    <3>2. /\ <<p, q>> = IF x > L THEN <<L, x>> ELSE <<1, 1>>
          /\ <<r, s>> = IF y > L THEN <<L, y>> ELSE <<1, 1>>
      BY DEF Scale
    <3>3. CASE x > L /\ y > L
      <4>1. p = L /\ q = x /\ r = L /\ s = y
        BY <3>2, <3>3
      <4>2. y * L <= x * L
        BY <3>1, ProductOrder
      <4> QED
        BY <3>1, <4>1, <4>2, ProductIsInt
    <3>4. CASE x > L /\ ~(y > L)
      <4>1. p = L /\ q = x /\ r = 1 /\ s = 1
        BY <3>2, <3>4
      <4> QED
        BY <3>1, <3>4, <4>1
    <3>5. CASE ~(x > L)
      <4>1. ~(y > L)
        BY <3>1, <3>5
      <4>2. p = 1 /\ q = 1 /\ r = 1 /\ s = 1
        BY <3>2, <3>5, <4>1
      <4> QED
        BY <4>2
    <3> QED
      BY <3>3, <3>4, <3>5
  <2>3. ~((r * v) * (q * t) < (p * w) * (s * t))
    BY <2>1, <2>2, NotWorse
  <2>4. shaped[i] = <<p * w, q * t>> /\ shaped[j] = <<r * v, s * t>>
    BY ScoreIs DEF Em
  <2>5. (r * v) * (q * t) < (p * w) * (s * t)
    BY <2>4 DEF Less
  <2> QED
    BY <2>3, <2>5
<1> QED
  BY <1>1, RewardInvariance, PTL
=============================================================================
