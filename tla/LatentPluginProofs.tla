------------------------- MODULE LatentPluginProofs -------------------------
(***************************************************************************)
(* Proofs about LatentPlugin, for every set of requests, every literal,    *)
(* every K, every batch and all preemptions.                               *)
(*                                                                         *)
(*   1  the fields of a request and the masks, phase by phase; prefills    *)
(*      may be split                                                       *)
(*   2  what attention sees                                                *)
(*   3  the refinement of LatentBlock, request by request                  *)
(*   4  the layout of the output, and its z's, from that refinement        *)
(*                                                                         *)
(* 2 to 4 assume that no prefill is split.                                 *)
(***************************************************************************)
EXTENDS LatentPlugin, TLAPS, SequenceTheorems, FiniteSetTheorems


-----------------------------------------------------------------------------
(* 1. The inductive invariant *)

\* Between steps, and for requests outside the batch of a step.
Settled(r) == Idle(r) \/ Armed(r) \/ Splicing(r) \/ Forcing(r)

\* After Preprocess took the stash of r: an override is still counted.
Overridden(r) ==
  ~pendingFirst[r] /\ nextEmbed[r] = 0 /\ remaining[r] > 0 /\ closeRemaining[r] = 0
Preprocessed(r) ==
  IF overrideMask[r] THEN Overridden(r) ELSE Idle(r) \/ Armed(r) \/ Forcing(r)

\* After Execute: a skipped request owes a sentinel or the close literal.
Executed(r) ==
  IF skipMask[r]
  THEN /\ ~pendingFirst[r] /\ closeRemaining[r] = 0
       /\ remaining[r] > 0 <=> nextEmbed[r] > 0
  ELSE Idle(r) \/ Forcing(r)

Control ==
  \A r \in Req :
    /\ phase \in {"schedule", "preprocess"} => Settled(r)
    /\ phase = "execute" => IF r \in Batch THEN Preprocessed(r) ELSE Settled(r)
    /\ phase = "update" => IF r \in Batch THEN Executed(r)
                           ELSE Settled(r) /\ ~skipMask[r]

IInv == TypeOK /\ Control

LEMMA InitIInv == Init => IInv
<1> SUFFICES ASSUME Init PROVE IInv
  OBVIOUS
<1> USE PluginAssumption DEF Init, Batch
<1>1. Batch = {}
  <2>1. DOMAIN <<>> = {}
    OBVIOUS
  <2> QED
    BY <2>1
<1>2. Len(CloseIds) > 0 /\ Len(OpenIds) >= 0
  BY EmptySeq, LenProperties
<1>3. TypeOK
  BY <1>1, <1>2 DEF TypeOK
<1>4. Control
  BY DEF Control, Settled, Idle
<1> QED
  BY <1>3, <1>4 DEF IInv

LEMMA ScheduleIInv ==
  ASSUME IInv, NEW B \in SUBSET Live, Schedule(B)
  PROVE  IInv'
<1> USE PluginAssumption DEF IInv, Schedule, latentVars, maskVars, Live
<1>1. PICK n \in [B -> 1..(PromptLen + MaxOut)] : sched' = n
  OBVIOUS
<1>2. DOMAIN sched' = B /\ \A r \in B : sched'[r] \in Nat \ {0}
  BY <1>1
<1>3. TypeOK'
  BY <1>2 DEF TypeOK, Batch
<1>4. Control'
  BY <1>1 DEF TypeOK, Control, Settled, Idle, Armed, Splicing, Forcing
<1> QED
  BY <1>3, <1>4

\* A prefix of a sequence is a sequence over the same set.
LEMMA PrefixIsSeq ==
  ASSUME NEW S, NEW s \in Seq(S), NEW n \in 0..(Len(s) - 1)
  PROVE  /\ SubSeq(s, 1, n) \in Seq(S)
         /\ Len(SubSeq(s, 1, n)) = n
         /\ \A i \in 1..n : SubSeq(s, 1, n)[i] = s[i]
<1>1. Len(s) \in Nat /\ n \in Int /\ n <= Len(s) /\ 1 \in Int
  BY LenProperties
<1>2. \A i \in 1..n : s[i] \in S
  BY <1>1, ElementOfSeq
<1>3. /\ SubSeq(s, 1, n) \in Seq(S)
      /\ Len(SubSeq(s, 1, n)) = IF 1 <= n THEN n - 1 + 1 ELSE 0
      /\ \A i \in 1..(n - 1 + 1) : SubSeq(s, 1, n)[i] = s[1 + i - 1]
  BY <1>1, <1>2, SubSeqProperties
<1> QED
  BY <1>1, <1>3

LEMMA PreemptIInv ==
  ASSUME IInv, NEW r \in Live, Preempt(r)
  PROVE  IInv'
<1> USE PluginAssumption DEF IInv, Preempt, latentVars, maskVars, Live
<1>1. PICK n \in 0..(Len(kv[r]) - 1) : kv' = [kv EXCEPT ![r] = SubSeq(@, 1, n)]
  OBVIOUS
<1>2. kv \in [Req -> Seq(Nat)] /\ r \in Req
  BY DEF TypeOK
<1>3. SubSeq(kv[r], 1, n) \in Seq(Nat)
  BY <1>2, PrefixIsSeq
<1>4. kv' \in [Req -> Seq(Nat)]
  BY <1>1, <1>2, <1>3
<1>5. preemptions' \in 0..MaxPreempt
  BY DEF TypeOK
<1>6. TypeOK'
  BY <1>4, <1>5 DEF TypeOK, Batch
<1>7. Control'
  BY DEF TypeOK, Control, Settled, Idle, Armed, Splicing, Forcing, Batch
<1> QED
  BY <1>6, <1>7

\* A function on 1..n is a sequence of length n.
LEMMA FunctionIsSeq ==
  ASSUME NEW S, NEW n \in Nat, NEW f \in [1..n -> S]
  PROVE  f \in Seq(S) /\ Len(f) = n
<1>1. Seq(S) = UNION {[1..m -> S] : m \in Nat}
  BY SeqDef
<1>2. f \in UNION {[1..m -> S] : m \in Nat}
  OBVIOUS
<1>3. f \in Seq(S)
  BY <1>1, <1>2
<1> QED
  BY <1>3, LenProperties

LEMMA PreprocessIInv ==
  ASSUME IInv, Preprocess
  PROVE  IInv'
<1> USE PluginAssumption DEF IInv
<1>1. ASSUME NEW r \in Batch
      PROVE  kv[r] \o Consumed(r) \in Seq(Nat)
  <2>1. r \in Req /\ sched[r] \in Nat /\ nextEmbed[r] \in Nat /\ kv[r] \in Seq(Nat)
    BY <1>1 DEF TypeOK
  <2>2. Consumed(r) \in [1..sched[r] -> Nat]
    BY <2>1 DEF Consumed
  <2>3. Consumed(r) \in Seq(Nat)
    BY <2>1, <2>2, FunctionIsSeq
  <2> QED
    BY <2>1, <2>3, ConcatProperties
<1>2. kv' \in [Req -> Seq(Nat)]
  BY <1>1 DEF TypeOK, Assign, Preprocess
<1>3. /\ nextEmbed' \in [Req -> Nat]
      /\ \A r \in Req : nextEmbed'[r] = IF r \in Batch THEN 0 ELSE nextEmbed[r]
  BY DEF TypeOK, Assign, Preprocess
<1>4. /\ overrideMask' \in [Req -> BOOLEAN]
      /\ \A r \in Req : overrideMask'[r] = (r \in Batch /\ nextEmbed[r] # 0)
  BY DEF Preprocess, Assign
<1>5. /\ phase = "preprocess" /\ phase' = "execute"
      /\ UNCHANGED <<sched, finished, out, preemptions, pendingFirst, remaining,
                     closeRemaining, buf, captured, skipMask>>
  BY DEF Preprocess, Assign
<1>6. TypeOK'
  BY <1>2, <1>3, <1>4, <1>5 DEF TypeOK, Batch
<1>7. ASSUME NEW r \in Req
      PROVE  IF r \in Batch' THEN Preprocessed(r)' ELSE Settled(r)'
  <2>1. Settled(r)
    BY <1>5 DEF Control
  <2>2. CASE r \in Batch
    <3>1. nextEmbed'[r] = 0 /\ overrideMask'[r] = (nextEmbed[r] # 0)
      BY <2>2, <1>3, <1>4
    <3>2. CASE nextEmbed[r] = 0
      <4>1. ~ overrideMask'[r]
        BY <3>1, <3>2
      <4>2. ~ Splicing(r)
        BY <3>2 DEF Splicing
      <4>3. Idle(r)' \/ Armed(r)' \/ Forcing(r)'
        BY <2>1, <4>2, <3>1, <1>5 DEF Settled, Idle, Armed, Forcing
      <4> QED
        BY <2>2, <4>1, <4>3, <1>5 DEF Batch, Preprocessed
    <3>3. CASE nextEmbed[r] # 0
      <4>1. overrideMask'[r]
        BY <3>1, <3>3
      <4>2. Overridden(r)'
        BY <2>1, <3>1, <3>3, <1>5 DEF Settled, Idle, Armed, Splicing, Forcing, Overridden
      <4> QED
        BY <2>2, <4>1, <4>2, <1>5 DEF Batch, Preprocessed
    <3> QED
      BY <3>2, <3>3
  <2>3. CASE r \notin Batch
    BY <2>1, <2>3, <1>3, <1>5 DEF Batch, Settled, Idle, Armed, Splicing, Forcing
  <2> QED
    BY <2>2, <2>3
<1>8. Control'
  BY <1>5, <1>7 DEF Control
<1> QED
  BY <1>6, <1>8

LEMMA ExecuteIInv ==
  ASSUME IInv, Execute
  PROVE  IInv'
<1> USE PluginAssumption DEF IInv
<1> DEFINE Projecting(x) == x \in Batch /\ (ProjectFirst(x) \/ ProjectNext(x))
           Consuming(x) == x \in Batch /\ ConsumeEmbed(x)
<1>1. /\ captured' = [x \in Req |-> IF Projecting(x) THEN captured[x] + 1 ELSE captured[x]]
      /\ nextEmbed' = [x \in Req |-> IF Projecting(x) THEN captured[x] + 1
                                     ELSE IF Consuming(x) THEN 0 ELSE nextEmbed[x]]
      /\ remaining' = [x \in Req |-> IF Consuming(x) THEN remaining[x] - 1
                                     ELSE remaining[x]]
      /\ pendingFirst' = [x \in Req |-> IF x \in Batch THEN FALSE ELSE pendingFirst[x]]
      /\ skipMask' = [x \in Req |-> Projecting(x) \/ Consuming(x)]
  BY DEF TypeOK, Execute, Assign
<1>2. /\ phase = "execute" /\ phase' = "update"
      /\ UNCHANGED <<sched, finished, out, preemptions, kv, closeRemaining, buf,
                     overrideMask>>
  BY DEF Execute, vllmVars, Assign
<1> HIDE DEF Projecting, Consuming
<1>3. ASSUME NEW x \in Req, x \in Batch, overrideMask[x]
      PROVE  Consuming(x) /\ ~pendingFirst[x] /\ remaining[x] > 0
             /\ closeRemaining[x] = 0 /\ (Projecting(x) <=> remaining[x] > 1)
  <2>1. Overridden(x)
    BY <1>2, <1>3 DEF Control, Preprocessed
  <2> QED
    BY <2>1, <1>3 DEF Overridden, Projecting, Consuming, ConsumeEmbed, ProjectFirst, ProjectNext
<1>4. ASSUME NEW x \in Req, x \in Batch, ~overrideMask[x]
      PROVE  ~Consuming(x) /\ (Projecting(x) <=> pendingFirst[x])
             /\ (Idle(x) \/ Armed(x) \/ Forcing(x))
  <2>1. Idle(x) \/ Armed(x) \/ Forcing(x)
    BY <1>2, <1>4 DEF Control, Preprocessed
  <2> QED
    BY <2>1, <1>4 DEF Projecting, Consuming, ConsumeEmbed, ProjectFirst, ProjectNext
<1>5. ASSUME NEW x \in Req, x \notin Batch
      PROVE  ~Projecting(x) /\ ~Consuming(x) /\ Settled(x)
  BY <1>2, <1>5 DEF Control, Projecting, Consuming
<1>6. remaining' \in [Req -> 0..K]
  <2>1. \A x \in Req : Consuming(x) => remaining[x] \in 1..K
    BY <1>3, <1>4, <1>5 DEF TypeOK
  <2> QED
    BY <1>1, <2>1 DEF TypeOK
<1>7. captured' \in [Req -> Nat] /\ nextEmbed' \in [Req -> Nat]
  <2>1. \A x \in Req : captured[x] \in Nat /\ captured[x] + 1 \in Nat
                        /\ nextEmbed[x] \in Nat
    BY DEF TypeOK
  <2>2. captured' \in [Req -> Nat]
    BY <1>1, <2>1
  <2>3. nextEmbed' \in [Req -> Nat]
    BY <1>1, <2>1
  <2> QED
    BY <2>2, <2>3
<1>8. pendingFirst' \in [Req -> BOOLEAN] /\ skipMask' \in [Req -> BOOLEAN]
  BY <1>1 DEF TypeOK, Projecting, Consuming, ConsumeEmbed, ProjectFirst, ProjectNext
<1>9. TypeOK'
  BY <1>2, <1>6, <1>7, <1>8 DEF TypeOK, Batch
<1>10. ASSUME NEW x \in Req
       PROVE  IF x \in Batch THEN Executed(x)' ELSE Settled(x)' /\ ~skipMask'[x]
  <2>1. CASE x \in Batch /\ overrideMask[x]
    <3>1. skipMask'[x] /\ ~pendingFirst'[x] /\ closeRemaining'[x] = 0
      BY <1>1, <1>2, <1>3, <2>1
    <3>2. remaining'[x] = remaining[x] - 1 /\ remaining[x] \in 1..K
      BY <1>1, <1>3, <2>1 DEF TypeOK
    <3>3. nextEmbed'[x] = IF remaining[x] > 1 THEN captured[x] + 1 ELSE 0
      BY <1>1, <1>3, <2>1
    <3>4. remaining'[x] > 0 <=> nextEmbed'[x] > 0
      BY <3>2, <3>3 DEF TypeOK
    <3> QED
      BY <2>1, <3>1, <3>4 DEF Executed
  <2>2. CASE x \in Batch /\ ~overrideMask[x] /\ pendingFirst[x]
    <3>1. Armed(x) /\ Projecting(x) /\ ~Consuming(x)
      BY <1>4, <2>2 DEF Idle, Forcing
    <3>2. skipMask'[x] /\ ~pendingFirst'[x]
      BY <1>1, <2>2, <3>1
    <3>3. closeRemaining'[x] = 0 /\ remaining'[x] > 0 /\ nextEmbed'[x] > 0
      BY <1>1, <1>2, <3>1 DEF Armed, TypeOK
    <3> QED
      BY <2>2, <3>2, <3>3 DEF Executed
  <2>3. CASE x \in Batch /\ ~overrideMask[x] /\ ~pendingFirst[x]
    <3>1. (Idle(x) \/ Forcing(x)) /\ ~Projecting(x) /\ ~Consuming(x)
      BY <1>4, <2>3 DEF Armed
    <3>2. /\ ~skipMask'[x] /\ ~pendingFirst'[x] /\ nextEmbed'[x] = nextEmbed[x]
          /\ remaining'[x] = remaining[x] /\ closeRemaining'[x] = closeRemaining[x]
      BY <1>1, <1>2, <2>3, <3>1
    <3> QED
      BY <2>3, <3>1, <3>2 DEF Executed, Idle, Forcing
  <2>4. CASE x \notin Batch
    <3>1. /\ ~skipMask'[x] /\ pendingFirst'[x] = pendingFirst[x]
          /\ nextEmbed'[x] = nextEmbed[x] /\ remaining'[x] = remaining[x]
          /\ closeRemaining'[x] = closeRemaining[x]
      BY <1>1, <1>2, <1>5, <2>4
    <3> QED
      BY <1>5, <2>4, <3>1 DEF Settled, Idle, Armed, Splicing, Forcing
  <2> QED
    BY <2>1, <2>2, <2>3, <2>4
<1>11. Control'
  BY <1>2, <1>10 DEF Control, Batch
<1> QED
  BY <1>9, <1>11

\* The literals are not empty.
LEMMA CloseLen ==
  /\ Len(CloseIds) \in Nat \ {0}
  /\ Len(CloseIds) = 1 \/ Len(CloseIds) - 1 > 0
<1>1. Len(CloseIds) \in Nat \ {0}
  BY PluginAssumption, EmptySeq
<1>2. \A n \in Nat \ {0} : n = 1 \/ n - 1 > 0
  OBVIOUS
<1> QED
  BY <1>1, <1>2

\* What the plugin emits is an emitted token, also when a piece is forced.
LEMMA OutputType ==
  ASSUME IInv, phase = "update", NEW r \in Batch, NEW t \in Tokens
  PROVE  Output(r, t) \in Emitted
<1> USE PluginAssumption DEF IInv
<1>1. r \in Req /\ captured[r] \in Nat /\ closeRemaining[r] \in 0..(Len(CloseIds) - 1)
  BY DEF TypeOK
<1>2. Len(CloseIds) \in Nat \ {0} /\ \A i \in 1..Len(CloseIds) : CloseIds[i] \in Tokens
  BY EmptySeq, LenProperties, ElementOfSeq
<1>3. CloseIds[1] \in Tokens
  BY <1>2
<1>4. Closing(r) => CloseIds[Len(CloseIds) - closeRemaining[r] + 1] \in Tokens
  BY <1>1, <1>2 DEF Closing
<1> QED
  BY <1>1, <1>3, <1>4 DEF Output, Emitted

\* The deque holds tokens, at most as many as the open literal has.
LEMMA PushedType ==
  ASSUME IInv, NEW r \in Req, NEW t \in Tokens
  PROVE  Pushed(r, t) \in Seq(Tokens) /\ Len(Pushed(r, t)) <= Len(OpenIds)
<1> USE PluginAssumption DEF IInv
<1>1. buf[r] \in Seq(Tokens) /\ Len(buf[r]) \in Nat /\ Len(buf[r]) <= Len(OpenIds)
      /\ Len(OpenIds) \in Nat \ {0}
  BY EmptySeq, LenProperties DEF TypeOK
<1>2. CASE Len(buf[r]) < Len(OpenIds)
  <2>1. Pushed(r, t) = Append(buf[r], t)
    BY <1>2 DEF Pushed
  <2> QED
    BY <1>1, <1>2, <2>1
<1>3. CASE ~(Len(buf[r]) < Len(OpenIds))
  <2>1. Pushed(r, t) = Append(Tail(buf[r]), t)
    BY <1>3 DEF Pushed
  <2>2. buf[r] # <<>>
    BY <1>1, <1>3, EmptySeq
  <2>3. Tail(buf[r]) \in Seq(Tokens) /\ Len(Tail(buf[r])) = Len(buf[r]) - 1
    BY <1>1, <2>2, HeadTailProperties
  <2> QED
    BY <1>1, <2>1, <2>3
<1> QED
  BY <1>2, <1>3

LEMMA UpdateAfterIInv ==
  ASSUME IInv, UpdateAfter
  PROVE  IInv'
<1> USE PluginAssumption DEF IInv
<1> DEFINE Opened(x, s) == x \in Batch /\ Detected(x, s[x])
           Done(x) == x \in Batch /\ BlockDone(x)
<1>1. PICK s \in [Batch -> Tokens] :
        /\ out' = [x \in Req |-> IF x \in Batch /\ Kept(x)
                                 THEN Append(out[x], Output(x, s[x])) ELSE out[x]]
        /\ finished' = finished \cup {x \in Batch : Ends(x, s[x])}
        /\ buf' = [x \in Req |-> IF x \in Batch /\ Watching(x)
                                 THEN IF Opened(x, s) THEN <<>> ELSE Pushed(x, s[x])
                                 ELSE buf[x]]
        /\ remaining' = [x \in Req |-> IF Opened(x, s) THEN K ELSE remaining[x]]
        /\ pendingFirst' = [x \in Req |-> IF Opened(x, s) THEN TRUE ELSE pendingFirst[x]]
        /\ closeRemaining' = [x \in Req |->
             IF Done(x) THEN Len(CloseIds) - 1
             ELSE IF x \in Batch /\ Closing(x) THEN closeRemaining[x] - 1
             ELSE closeRemaining[x]]
  <2>1. PICK s \in [Batch -> Tokens] :
          /\ out' = Assign(out, {x \in Batch : Kept(x)},
                           LAMBDA x : Append(out[x], Output(x, s[x])))
          /\ finished' = finished \cup {x \in Batch : Ends(x, s[x])}
          /\ buf' = Assign(buf, {x \in Batch : Watching(x)},
                      LAMBDA x : IF x \in {y \in Batch : Detected(y, s[y])}
                                 THEN <<>> ELSE Pushed(x, s[x]))
          /\ remaining' = Assign(remaining, {x \in Batch : Detected(x, s[x])},
                                 LAMBDA x : K)
          /\ pendingFirst' = Assign(pendingFirst, {x \in Batch : Detected(x, s[x])},
                                    LAMBDA x : TRUE)
          /\ closeRemaining' = Assign(closeRemaining, Batch, CloseLeft)
    BY Zenon DEF UpdateAfter
  <2> QED
    BY <2>1 DEF TypeOK, Assign, CloseLeft
<1>2. /\ phase = "update" /\ phase' = "schedule"
      /\ skipMask' = [x \in Req |-> FALSE] /\ sched' = <<>>
      /\ UNCHANGED <<preemptions, kv, nextEmbed, captured, overrideMask>>
  BY DEF UpdateAfter, Assign
<1>3. Len(CloseIds) \in Nat \ {0} /\ <<>> \in Seq(Tokens) /\ Len(<<>>) = 0
      /\ Len(OpenIds) \in Nat
  BY EmptySeq, LenProperties
<1>4. out' \in [Req -> Seq(Emitted)]
  <2>1. ASSUME NEW x \in Batch PROVE Append(out[x], Output(x, s[x])) \in Seq(Emitted)
    <3>1. Output(x, s[x]) \in Emitted
      BY <1>2, OutputType
    <3> QED
      BY <3>1 DEF TypeOK
  <2>2. \A x \in Req : out[x] \in Seq(Emitted)
    BY DEF TypeOK
  <2> QED
    BY <1>1, <2>1, <2>2
<1>5. buf' \in [Req -> Seq(Tokens)] /\ \A x \in Req : Len(buf'[x]) <= Len(OpenIds)
  <2>1. \A x \in Batch : Pushed(x, s[x]) \in Seq(Tokens)
                         /\ Len(Pushed(x, s[x])) <= Len(OpenIds)
    BY PushedType DEF TypeOK
  <2>2. \A x \in Req : buf[x] \in Seq(Tokens) /\ Len(buf[x]) <= Len(OpenIds)
    BY DEF TypeOK
  <2> QED
    BY <1>1, <1>3, <2>1, <2>2
<1>6. finished' \subseteq Req
  BY <1>1 DEF TypeOK
<1>7. remaining' \in [Req -> 0..K] /\ pendingFirst' \in [Req -> BOOLEAN]
  <2>1. \A x \in Req : remaining[x] \in 0..K
    BY DEF TypeOK
  <2>2. remaining' \in [Req -> 0..K]
    BY <1>1, <2>1
  <2>3. \A x \in Req : pendingFirst[x] \in BOOLEAN
    BY DEF TypeOK
  <2>4. pendingFirst' \in [Req -> BOOLEAN]
    BY <1>1, <2>3
  <2> QED
    BY <2>2, <2>4
<1>8. closeRemaining' \in [Req -> 0..(Len(CloseIds) - 1)]
  BY <1>1, <1>3 DEF TypeOK, Closing
<1>9. Batch' = {}
  <2>1. DOMAIN <<>> = {}
    OBVIOUS
  <2> QED
    BY <1>2, <2>1 DEF Batch
<1>10. TypeOK'
  BY <1>2, <1>4, <1>5, <1>6, <1>7, <1>8, <1>9 DEF TypeOK
<1>11. ASSUME NEW x \in Req
       PROVE  Settled(x)'
  <2> nextEmbed'[x] = nextEmbed[x]
    BY <1>2
  <2>1. CASE x \in Batch /\ skipMask[x]
    <3>1. /\ ~pendingFirst[x] /\ closeRemaining[x] = 0
          /\ remaining[x] > 0 <=> nextEmbed[x] > 0
      BY <1>2, <2>1 DEF Control, Executed
    <3>2. ~Opened(x, s) /\ (Done(x) <=> remaining[x] = 0) /\ ~Closing(x)
      BY <2>1, <3>1 DEF Detected, Watching, BlockDone, Closing
    <3>3. /\ ~pendingFirst'[x] /\ remaining'[x] = remaining[x]
          /\ closeRemaining'[x] = IF remaining[x] = 0 THEN Len(CloseIds) - 1 ELSE 0
      BY <1>1, <3>1, <3>2
    <3>4. CASE remaining[x] = 0
      <4>1. nextEmbed[x] = 0
        BY <3>1, <3>4 DEF TypeOK
      <4>2. closeRemaining'[x] = Len(CloseIds) - 1
        BY <3>3, <3>4
      <4>3. Len(CloseIds) = 1 \/ Len(CloseIds) - 1 > 0
        BY CloseLen
      <4> QED
        BY <3>3, <3>4, <4>1, <4>2, <4>3 DEF Settled, Idle, Forcing
    <3>5. CASE remaining[x] # 0
      <4>1. remaining[x] > 0 /\ nextEmbed[x] > 0
        BY <3>1, <3>5 DEF TypeOK
      <4> QED
        BY <3>3, <3>5, <4>1 DEF Settled, Splicing
    <3> QED
      BY <3>4, <3>5
  <2>2. CASE x \in Batch /\ ~skipMask[x]
    <3>1. (Idle(x) \/ Forcing(x)) /\ ~Done(x)
      BY <1>2, <2>2 DEF Control, Executed, BlockDone
    <3>2. CASE Forcing(x)
      <4>1. ~Opened(x, s) /\ Closing(x) /\ closeRemaining[x] > 0
        BY <3>2 DEF Forcing, Detected, Watching, Closing
      <4>2. /\ pendingFirst'[x] = pendingFirst[x] /\ remaining'[x] = remaining[x]
            /\ closeRemaining'[x] = closeRemaining[x] - 1
        BY <1>1, <2>2, <3>1, <4>1
      <4> QED
        BY <3>2, <4>1, <4>2 DEF TypeOK, Settled, Idle, Forcing
    <3>3. CASE Idle(x) /\ Opened(x, s)
      <4>1. ~(x \in Batch /\ Closing(x))
        BY <3>3 DEF Idle, Closing
      <4>2. /\ pendingFirst'[x] /\ remaining'[x] = K
            /\ closeRemaining'[x] = closeRemaining[x]
        BY <1>1, <3>1, <3>3, <4>1
      <4> QED
        BY <3>3, <4>2 DEF Settled, Idle, Armed
    <3>4. CASE Idle(x) /\ ~Opened(x, s)
      BY <1>1, <3>1, <3>4 DEF Settled, Idle, Closing
    <3> QED
      BY <3>1, <3>2, <3>3, <3>4
  <2>3. CASE x \notin Batch
    <3>1. Settled(x) /\ ~Opened(x, s) /\ ~Done(x)
      BY <1>2, <2>3 DEF Control
    <3>2. /\ pendingFirst'[x] = pendingFirst[x] /\ remaining'[x] = remaining[x]
          /\ closeRemaining'[x] = closeRemaining[x]
      BY <1>1, <2>3, <3>1
    <3> QED
      BY <3>1, <3>2 DEF Settled, Idle, Armed, Splicing, Forcing
  <2> QED
    BY <2>1, <2>2, <2>3
<1>12. Control'
  BY <1>2, <1>11 DEF Control
<1> QED
  BY <1>10, <1>12

LEMMA StutterIInv ==
  ASSUME IInv, UNCHANGED vars
  PROVE  IInv'
BY DEF IInv, TypeOK, Control, Settled, Idle, Armed, Splicing, Forcing, Preprocessed,
       Overridden, Executed, Batch, vars, vllmVars, latentVars, maskVars

THEOREM Invariance == Spec => []IInv
<1>1. Init => IInv
  BY InitIInv
<1>2. IInv /\ [Next]_vars => IInv'
  <2> SUFFICES ASSUME IInv, [Next]_vars PROVE IInv'
    OBVIOUS
  <2>1. CASE \E B \in SUBSET Live : Schedule(B)
    BY <2>1, ScheduleIInv
  <2>2. CASE \E r \in Live : Preempt(r)
    BY <2>2, PreemptIInv
  <2>3. CASE Preprocess
    BY <2>3, PreprocessIInv
  <2>4. CASE Execute
    BY <2>4, ExecuteIInv
  <2>5. CASE UpdateAfter
    BY <2>5, UpdateAfterIInv
  <2>6. CASE Terminated \/ UNCHANGED vars
    BY <2>6, StutterIInv DEF Terminated
  <2> QED
    BY <2>1, <2>2, <2>3, <2>4, <2>5, <2>6 DEF Next
<1> QED
  BY <1>1, <1>2, PTL DEF Spec

\* Type correctness, for every schedule.
THEOREM TypeCorrect == Spec => []TypeOK
<1>1. IInv => TypeOK
  BY DEF IInv
<1> QED
  BY <1>1, Invariance, PTL

\* Between two engine steps every request is at one place of its block, however
\* its prefill was chunked and however often it was preempted.
THEOREM AlwaysOnePlace == Spec => []OnePlace
<1>1. IInv => OnePlace
  BY DEF IInv, Control, Settled, OnePlace
<1> QED
  BY <1>1, Invariance, PTL

\* The assertion in patched_execute_model never fails.
THEOREM AssertionHolds == Spec => []ConsumedEmbedCounted
<1>1. IInv => ConsumedEmbedCounted
  <2> SUFFICES ASSUME IInv, phase = "execute", NEW r \in Batch, ConsumeEmbed(r)
               PROVE  remaining[r] > 0
    BY DEF ConsumedEmbedCounted
  <2>1. r \in Req /\ overrideMask[r]
    BY DEF IInv, TypeOK, ConsumeEmbed
  <2>2. Overridden(r)
    BY <2>1 DEF IInv, Control, Preprocessed
  <2> QED
    BY <2>2 DEF Overridden
<1> QED
  BY <1>1, Invariance, PTL

-----------------------------------------------------------------------------
(* 2. What attention sees: a z goes into the position of its own sentinel and *)
(* nowhere else.                                                              *)


\* The z of the last position of r.
LastZ(r) == Stands(r, PromptLen + Len(out[r]))

\* Between steps the stash is the z of the last token; in a step the batch has
\* consumed it, and what is stashed next is the z of the token to come.
Stash ==
  \A r \in Req :
    IF r \in Batch /\ phase \in {"execute", "update"}
    THEN /\ Uncomputed(r) = 0
         /\ phase = "update" /\ skipMask[r] /\ remaining[r] > 0 => nextEmbed[r] = captured[r]
    ELSE nextEmbed[r] = LastZ(r)

\* The whole rest of a request is scheduled.
Unsplit == phase = "preprocess" => \A r \in Batch : sched[r] = Uncomputed(r)

\* The KV cache is no longer than the request; without preemptions it is empty
\* at first, and later lacks the last position at most.
Computed ==
  \A r \in Req :
    /\ Uncomputed(r) >= 0
    /\ preemptions = 0 =>
         (kv[r] = <<>> /\ out[r] = <<>>) \/ Uncomputed(r) <= 1

SInv == IInv /\ KVSpliced /\ Stash /\ Unsplit /\ Computed

LEMMA Lengths ==
  ASSUME SInv, NEW r \in Req
  PROVE  /\ Len(out[r]) \in Nat /\ Len(kv[r]) \in Nat
         /\ PromptLen \in Nat /\ PromptLen > 0
         /\ DOMAIN kv[r] = 1..Len(kv[r]) /\ DOMAIN out[r] = 1..Len(out[r])
         /\ Len(kv[r]) <= PromptLen + Len(out[r])
<1>1. out[r] \in Seq(Emitted) /\ kv[r] \in Seq(Nat) /\ PromptLen \in Nat /\ PromptLen > 0
  BY PluginAssumption DEF SInv, IInv, TypeOK
<1>2. PromptLen + Len(out[r]) - Len(kv[r]) >= 0
  BY DEF SInv, Computed, Uncomputed
<1>3. /\ Len(out[r]) \in Nat /\ Len(kv[r]) \in Nat
      /\ DOMAIN kv[r] = 1..Len(kv[r]) /\ DOMAIN out[r] = 1..Len(out[r])
  BY <1>1, LenProperties
<1> QED
  BY <1>1, <1>2, <1>3

LEMMA InitSInv == Init => SInv
<1> SUFFICES ASSUME Init PROVE SInv
  OBVIOUS
<1> USE PluginAssumption DEF Init
<1>1. IInv
  BY InitIInv
<1>2. \A r \in Req : out[r] = <<>> /\ kv[r] = <<>> /\ Len(out[r]) = 0 /\ Len(kv[r]) = 0
                     /\ DOMAIN kv[r] = {}
  OBVIOUS
<1>3. KVSpliced
  BY <1>2 DEF KVSpliced
<1>4. Stash /\ Unsplit
  BY <1>2 DEF Stash, Unsplit, LastZ, Stands
<1>5. Computed
  BY <1>2 DEF Computed, Uncomputed
<1> QED
  BY <1>1, <1>3, <1>4, <1>5 DEF SInv

LEMMA ScheduleSInv ==
  ASSUME ~Chunked, SInv, NEW B \in SUBSET Live, Schedule(B)
  PROVE  SInv'
<1>1. IInv'
  BY ScheduleIInv DEF SInv
<1>2. /\ phase = "schedule" /\ phase' = "preprocess"
      /\ UNCHANGED <<out, kv, preemptions, nextEmbed, remaining, captured, skipMask>>
  BY DEF Schedule, latentVars, maskVars
<1>3. KVSpliced' /\ Computed'
  BY <1>2 DEF SInv, KVSpliced, Stands, Computed, Uncomputed
<1>4. Stash'
  BY <1>2 DEF SInv, Stash, LastZ, Stands
<1>5. Unsplit'
  BY <1>2 DEF Schedule, Unsplit, Uncomputed, Batch
<1> QED
  BY <1>1, <1>3, <1>4, <1>5 DEF SInv

LEMMA PreemptSInv ==
  ASSUME SInv, NEW r \in Live, Preempt(r)
  PROVE  SInv'
<1>1. IInv'
  BY PreemptIInv DEF SInv
<1>2. /\ phase = "schedule" /\ phase' = "schedule" /\ preemptions \in Nat
      /\ preemptions' = preemptions + 1
      /\ UNCHANGED <<out, nextEmbed, remaining, captured, skipMask, sched>>
  BY DEF SInv, IInv, TypeOK, Preempt, latentVars, maskVars
<1>3. PICK n \in 0..(Len(kv[r]) - 1) : kv' = [kv EXCEPT ![r] = SubSeq(@, 1, n)]
  BY DEF Preempt
<1>4. r \in Req /\ kv \in [Req -> Seq(Nat)] /\ Len(kv[r]) \in Nat
  BY Lengths DEF Live, SInv, IInv, TypeOK
<1>5. /\ kv'[r] \in Seq(Nat) /\ Len(kv'[r]) = n /\ \A i \in 1..n : kv'[r][i] = kv[r][i]
      /\ \A x \in Req : x # r => kv'[x] = kv[x]
  BY <1>3, <1>4, PrefixIsSeq
<1>6. KVSpliced'
  <2> SUFFICES ASSUME NEW x \in Req, NEW p \in DOMAIN kv'[x]
               PROVE  kv'[x][p] = Stands(x, p)' \/ (kv'[x][p] = 0 /\ preemptions' > 0)
    BY DEF KVSpliced
  <2>1. p \in DOMAIN kv[x] /\ kv'[x][p] = kv[x][p]
    <3>1. CASE x = r
      <4>1. DOMAIN kv'[r] = 1..n /\ DOMAIN kv[r] = 1..Len(kv[r])
        BY <1>4, <1>5, LenProperties
      <4> QED
        BY <1>4, <1>5, <3>1, <4>1
    <3>2. CASE x # r
      BY <1>5, <3>2
    <3> QED
      BY <3>1, <3>2
  <2>2. Stands(x, p)' = Stands(x, p)
    BY <1>2 DEF Stands
  <2> QED
    BY <1>2, <2>1, <2>2 DEF SInv, KVSpliced
<1>7. Stash' /\ Unsplit'
  BY <1>2 DEF SInv, Stash, LastZ, Stands, Unsplit
<1>8. Computed'
  <2> SUFFICES ASSUME NEW x \in Req PROVE (Uncomputed(x) >= 0)'
    BY <1>2 DEF Computed
  <2>1. Len(kv'[x]) <= Len(kv[x]) /\ Len(kv'[x]) \in Nat
    <3>1. CASE x = r
      BY <1>4, <1>5, <3>1
    <3>2. CASE x # r
      BY <1>5, <3>2, Lengths
    <3> QED
      BY <3>1, <3>2
  <2>2. /\ Len(out[x]) \in Nat /\ Len(kv[x]) \in Nat /\ PromptLen \in Nat
        /\ Len(kv[x]) <= PromptLen + Len(out[x]) /\ out'[x] = out[x]
    BY <1>2, Lengths
  <2> QED
    BY <2>1, <2>2 DEF Uncomputed
<1> QED
  BY <1>1, <1>6, <1>7, <1>8 DEF SInv

LEMMA PreprocessSInv ==
  ASSUME SInv, Preprocess
  PROVE  SInv'
<1>1. IInv'
  BY PreprocessIInv DEF SInv
<1>2. /\ phase = "preprocess" /\ phase' = "execute" /\ Batch' = Batch
      /\ UNCHANGED <<out, preemptions, remaining, captured, skipMask>>
  BY DEF Preprocess, Assign, Batch
<1>3. \A x \in Req : nextEmbed'[x] = IF x \in Batch THEN 0 ELSE nextEmbed[x]
  BY DEF SInv, IInv, TypeOK, Preprocess, Assign
<1>4. ASSUME NEW r \in Req, r \in Batch
      PROVE  LET n == sched[r] l == Len(kv[r])
             IN  /\ n \in Nat /\ n = Uncomputed(r) /\ l + n = PromptLen + Len(out[r])
                 /\ DOMAIN kv'[r] = 1..(l + n) /\ Len(kv'[r]) = l + n
                 /\ \A p \in 1..(l + n) :
                      kv'[r][p] = IF p <= l THEN kv[r][p]
                                  ELSE IF p = l + n THEN nextEmbed[r] ELSE 0
  <2>1. sched[r] \in Nat /\ nextEmbed[r] \in Nat /\ kv[r] \in Seq(Nat)
    BY <1>4 DEF SInv, IInv, TypeOK
  <2>2. sched[r] = Uncomputed(r)
    BY <1>2, <1>4 DEF SInv, Unsplit
  <2>3. Consumed(r) \in [1..sched[r] -> Nat]
    BY <2>1 DEF Consumed
  <2>4. Consumed(r) \in Seq(Nat) /\ Len(Consumed(r)) = sched[r]
    BY <2>1, <2>3, FunctionIsSeq
  <2>5. kv'[r] = kv[r] \o Consumed(r)
    BY <1>4 DEF SInv, IInv, TypeOK, Preprocess, Assign
  <2>6. /\ kv'[r] \in Seq(Nat) /\ Len(kv'[r]) = Len(kv[r]) + sched[r]
        /\ \A p \in 1..(Len(kv[r]) + sched[r]) :
             kv'[r][p] = IF p <= Len(kv[r]) THEN kv[r][p] ELSE Consumed(r)[p - Len(kv[r])]
    <3>1. LET cat == kv[r] \o Consumed(r)
          IN  /\ cat \in Seq(Nat) /\ Len(cat) = Len(kv[r]) + Len(Consumed(r))
              /\ \A p \in 1..(Len(kv[r]) + Len(Consumed(r))) :
                   cat[p] = IF p <= Len(kv[r]) THEN kv[r][p] ELSE Consumed(r)[p - Len(kv[r])]
      BY <2>1, <2>4, ConcatProperties
    <3> QED
      BY <2>4, <2>5, <3>1
  <2>7. \A i \in 1..sched[r] : Consumed(r)[i] = IF i = sched[r] THEN nextEmbed[r] ELSE 0
    BY DEF Consumed
  <2>8. Len(kv[r]) \in Nat /\ Len(kv[r]) + sched[r] = PromptLen + Len(out[r])
    <3>1. /\ Len(out[r]) \in Nat /\ Len(kv[r]) \in Nat /\ PromptLen \in Nat
          /\ sched[r] = PromptLen + Len(out[r]) - Len(kv[r])
      BY <2>2, Lengths DEF Uncomputed
    <3> QED
      BY <2>1, <3>1
  <2>9. \A p \in 1..(Len(kv[r]) + sched[r]) : p > Len(kv[r]) =>
          /\ p - Len(kv[r]) \in 1..sched[r]
          /\ p - Len(kv[r]) = sched[r] <=> p = Len(kv[r]) + sched[r]
    BY <2>1, <2>8
  <2> QED
    <3>1. DOMAIN kv'[r] = 1..(Len(kv[r]) + sched[r])
      BY <2>6, LenProperties
    <3>2. \A p \in 1..(Len(kv[r]) + sched[r]) :
            kv'[r][p] = IF p <= Len(kv[r]) THEN kv[r][p]
                        ELSE IF p = Len(kv[r]) + sched[r] THEN nextEmbed[r] ELSE 0
      <4> SUFFICES ASSUME NEW p \in 1..(Len(kv[r]) + sched[r])
                   PROVE  kv'[r][p] = IF p <= Len(kv[r]) THEN kv[r][p]
                                      ELSE IF p = Len(kv[r]) + sched[r] THEN nextEmbed[r] ELSE 0
        OBVIOUS
      <4>1. CASE p <= Len(kv[r])
        BY <2>6, <4>1
      <4>2. CASE ~(p <= Len(kv[r]))
        <5>1. p > Len(kv[r])
          BY <2>1, <2>8, <4>2
        <5> QED
          BY <2>6, <2>7, <2>9, <4>2, <5>1
      <4> QED
        BY <4>1, <4>2
    <3> QED
      BY <2>1, <2>2, <2>6, <2>8, <3>1, <3>2
<1>5. ASSUME NEW r \in Req, r \notin Batch
      PROVE  kv'[r] = kv[r]
  BY <1>5 DEF SInv, IInv, TypeOK, Preprocess, Assign
<1>6. KVSpliced'
  <2> SUFFICES ASSUME NEW r \in Req, NEW p \in DOMAIN kv'[r]
               PROVE  kv'[r][p] = Stands(r, p)' \/ (kv'[r][p] = 0 /\ preemptions' > 0)
    BY DEF KVSpliced
  <2>1. Stands(r, p)' = Stands(r, p)
    BY <1>2 DEF Stands
  <2>2. CASE p \in DOMAIN kv[r] /\ kv'[r][p] = kv[r][p]
    BY <1>2, <2>1, <2>2 DEF SInv, KVSpliced
  <2>3. CASE r \in Batch /\ p = PromptLen + Len(out[r]) /\ kv'[r][p] = nextEmbed[r]
    <3>1. nextEmbed[r] = LastZ(r)
      BY <1>2, <2>3 DEF SInv, Stash
    <3> QED
      BY <2>1, <2>3, <3>1 DEF LastZ
  <2>4. CASE /\ r \in Batch /\ kv'[r][p] = 0
             /\ Len(kv[r]) < p /\ p < PromptLen + Len(out[r]) /\ p \in Nat
    <3>1. CASE preemptions = 0
      <4>1. Uncomputed(r) > 1 /\ Uncomputed(r) \in Int
        <5>1. Len(out[r]) \in Nat /\ Len(kv[r]) \in Nat /\ PromptLen \in Nat
          BY Lengths
        <5>2. Len(kv[r]) < p /\ p < PromptLen + Len(out[r]) /\ p \in Nat
          BY <2>4
        <5>3. PromptLen + Len(out[r]) - Len(kv[r]) > 1
              /\ PromptLen + Len(out[r]) - Len(kv[r]) \in Int
          <6>1. \A a, b, c, q \in Nat : b < q /\ q < a + c =>
                  a + c - b > 1 /\ a + c - b \in Int
            OBVIOUS
          <6> QED
            BY <5>1, <5>2, <6>1
        <5> QED
          BY <5>3 DEF Uncomputed
      <4>2. out[r] = <<>>
        BY <3>1, <4>1 DEF SInv, Computed
      <4>3. Len(out[r]) = 0
        BY <4>2
      <4>4. p <= PromptLen
        BY <2>4, <4>3, Lengths
      <4> QED
        BY <2>1, <2>4, <4>4 DEF Stands
    <3>2. CASE preemptions # 0
      BY <1>2, <2>4, <3>2 DEF SInv, IInv, TypeOK
    <3> QED
      BY <3>1, <3>2
  <2>5. CASE r \in Batch
    <3>1. p \in 1..(Len(kv[r]) + sched[r]) /\ Len(kv[r]) \in Nat
      BY <1>4, <2>5, Lengths
    <3>2. CASE p <= Len(kv[r])
      <4>1. p \in DOMAIN kv[r] /\ kv'[r][p] = kv[r][p]
        BY <1>4, <2>5, <3>1, <3>2, Lengths
      <4> QED
        BY <2>2, <4>1
    <3>3. CASE p > Len(kv[r]) /\ p = Len(kv[r]) + sched[r]
      BY <1>4, <2>3, <2>5, <3>1, <3>3
    <3>4. CASE p > Len(kv[r]) /\ p # Len(kv[r]) + sched[r]
      <4>1. kv'[r][p] = 0
        BY <1>4, <2>5, <3>1, <3>4
      <4>2. p < PromptLen + Len(out[r]) /\ p \in Nat /\ Len(kv[r]) < p
        BY <1>4, <2>5, <3>1, <3>4
      <4> QED
        BY <2>4, <2>5, <4>1, <4>2
    <3> QED
      BY <3>1, <3>2, <3>3, <3>4
  <2> QED
    BY <1>5, <2>2, <2>5
<1>7. Stash'
  <2> SUFFICES ASSUME NEW r \in Req
               PROVE  IF r \in Batch THEN Uncomputed(r)' = 0
                      ELSE nextEmbed'[r] = LastZ(r)'
    BY <1>2 DEF Stash
  <2>1. CASE r \in Batch
    <3>1. /\ Len(out[r]) \in Nat /\ PromptLen \in Nat /\ out'[r] = out[r]
          /\ Len(kv'[r]) = PromptLen + Len(out[r])
      BY <1>2, <1>4, <2>1, Lengths
    <3> QED
      BY <2>1, <3>1 DEF Uncomputed
  <2>2. CASE r \notin Batch
    BY <1>2, <1>3, <2>2 DEF SInv, Stash, LastZ, Stands
  <2> QED
    BY <2>1, <2>2
<1>8. Unsplit'
  BY <1>2 DEF Unsplit
<1>9. Computed'
  <2> SUFFICES ASSUME NEW r \in Req
               PROVE  /\ (Uncomputed(r) >= 0)'
                      /\ preemptions = 0 => (kv'[r] = <<>> /\ out'[r] = <<>>) \/ (Uncomputed(r) <= 1)'
    BY <1>2 DEF Computed
  <2>1. CASE r \in Batch
    <3>1. Uncomputed(r)' = 0
      BY <1>2, <1>7, <2>1 DEF Stash
    <3> QED
      BY <3>1
  <2>2. CASE r \notin Batch
    BY <1>2, <1>5, <2>2 DEF SInv, Computed, Uncomputed
  <2> QED
    BY <2>1, <2>2
<1> QED
  BY <1>1, <1>6, <1>7, <1>8, <1>9 DEF SInv

LEMMA ExecuteSInv ==
  ASSUME SInv, Execute
  PROVE  SInv'
<1>1. IInv'
  BY ExecuteIInv DEF SInv
<1>2. /\ phase = "execute" /\ phase' = "update" /\ Batch' = Batch
      /\ UNCHANGED <<out, kv, preemptions, sched>>
  BY DEF Execute, vllmVars, Assign, Batch
<1>3. KVSpliced' /\ Computed' /\ Unsplit'
  BY <1>2 DEF SInv, KVSpliced, Stands, Computed, Uncomputed, Unsplit
<1> DEFINE Projecting(x) == x \in Batch /\ (ProjectFirst(x) \/ ProjectNext(x))
           Consuming(x) == x \in Batch /\ ConsumeEmbed(x)
<1>4. /\ captured' = [x \in Req |-> IF Projecting(x) THEN captured[x] + 1 ELSE captured[x]]
      /\ nextEmbed' = [x \in Req |-> IF Projecting(x) THEN captured[x] + 1
                                     ELSE IF Consuming(x) THEN 0 ELSE nextEmbed[x]]
      /\ remaining' = [x \in Req |-> IF Consuming(x) THEN remaining[x] - 1
                                     ELSE remaining[x]]
      /\ skipMask' = [x \in Req |-> Projecting(x) \/ Consuming(x)]
  BY DEF SInv, IInv, TypeOK, Execute, Assign
<1>5. ASSUME NEW x \in Req, x \notin Batch PROVE nextEmbed'[x] = LastZ(x)'
  <2>1. nextEmbed'[x] = nextEmbed[x]
    BY <1>4, <1>5
  <2> QED
    BY <1>2, <1>5, <2>1 DEF SInv, Stash, LastZ, Stands
<1>6. ASSUME NEW x \in Req, x \in Batch, skipMask'[x], remaining'[x] > 0
      PROVE  nextEmbed'[x] = captured'[x]
  <2>1. Projecting(x)
    <3>1. SUFFICES ASSUME ~Projecting(x), Consuming(x) PROVE FALSE
      BY <1>4, <1>6
    <3>2. ~pendingFirst[x] /\ ~(remaining[x] > 1) /\ remaining'[x] = remaining[x] - 1
      BY <1>4, <1>6, <3>1 DEF ProjectFirst, ProjectNext
    <3> QED
      BY <1>6, <3>2 DEF SInv, IInv, TypeOK
  <2> QED
    BY <1>4, <2>1
<1>7. \A x \in Req : x \in Batch => Uncomputed(x)' = 0
  BY <1>2 DEF SInv, Stash, Uncomputed
<1>8. Stash'
  BY <1>2, <1>5, <1>6, <1>7 DEF Stash
<1> QED
  BY <1>1, <1>3, <1>8 DEF SInv

LEMMA UpdateAfterSInv ==
  ASSUME SInv, UpdateAfter
  PROVE  SInv'
<1>1. IInv'
  BY UpdateAfterIInv DEF SInv
<1>2. /\ phase = "update" /\ phase' = "schedule"
      /\ UNCHANGED <<preemptions, kv, nextEmbed, captured>>
  BY DEF UpdateAfter, Assign
<1>3. PICK s \in [Batch -> Tokens] :
        out' = Assign(out, {x \in Batch : Kept(x)}, LAMBDA x : Append(out[x], Output(x, s[x])))
  BY Zenon DEF UpdateAfter
<1>4. ASSUME NEW r \in Req, r \in Batch
      PROVE  /\ out'[r] = Append(out[r], Output(r, s[r])) /\ out[r] \in Seq(Emitted)
             /\ Output(r, s[r]) \in Emitted
             /\ Uncomputed(r) = 0
  <2>1. Uncomputed(r) = 0
    BY <1>2, <1>4 DEF SInv, Stash
  <2>2. out'[r] = Append(out[r], Output(r, s[r]))
    BY <1>3, <1>4, <2>1 DEF SInv, IInv, TypeOK, Assign, Kept
  <2> QED
    BY <1>2, <1>4, <2>1, <2>2, OutputType DEF SInv, IInv, TypeOK
<1>5. ASSUME NEW r \in Req, r \notin Batch PROVE out'[r] = out[r]
  BY <1>3, <1>5 DEF SInv, IInv, TypeOK, Assign
\* The token that is emitted carries the z that is stashed for its position.
<1>6. ASSUME NEW r \in Req, r \in Batch
      PROVE  Output(r, s[r]).z = nextEmbed[r]
  <2>1. Executed(r) /\ nextEmbed[r] \in Nat /\ remaining[r] \in Nat
    BY <1>2, <1>6 DEF SInv, IInv, TypeOK, Control
  <2>2. CASE skipMask[r] /\ remaining[r] > 0
    <3>1. nextEmbed[r] = captured[r]
      BY <1>2, <1>6, <2>2 DEF SInv, Stash
    <3>2. ~BlockDone(r)
      BY <2>2 DEF BlockDone
    <3> QED
      BY <2>2, <3>1, <3>2 DEF Output
  <2>3. CASE skipMask[r] /\ ~(remaining[r] > 0)
    <3>1. BlockDone(r) /\ nextEmbed[r] = 0
      BY <2>1, <2>3 DEF Executed, BlockDone
    <3> QED
      BY <3>1 DEF Output
  <2>4. CASE ~skipMask[r]
    <3>1. nextEmbed[r] = 0 /\ ~BlockDone(r)
      BY <2>1, <2>4 DEF Executed, Idle, Forcing, BlockDone
    <3> QED
      BY <2>4, <3>1 DEF Output
  <2> QED
    BY <2>2, <2>3, <2>4
<1>7. ASSUME NEW r \in Req
      PROVE  /\ Len(out'[r]) \in Nat /\ Len(out'[r]) >= Len(out[r])
             /\ \A p \in 1..Len(out[r]) : out'[r][p] = out[r][p]
  <2>1. Len(out[r]) \in Nat
    BY Lengths
  <2>2. CASE r \in Batch
    <3>1. out[r] \in Seq(Emitted) /\ out'[r] = Append(out[r], Output(r, s[r]))
      BY <1>4, <2>2
    <3> QED
      BY <2>1, <3>1
  <2>3. CASE r \notin Batch
    BY <1>5, <2>1, <2>3
  <2> QED
    BY <2>2, <2>3
<1>8. KVSpliced'
  <2> SUFFICES ASSUME NEW r \in Req, NEW p \in DOMAIN kv[r]
               PROVE  Stands(r, p)' = Stands(r, p)
    BY <1>2 DEF SInv, KVSpliced
  <2>1. p \in 1..Len(kv[r]) /\ Len(kv[r]) <= PromptLen + Len(out[r])
    BY Lengths
  <2>2. p <= PromptLen \/ p - PromptLen \in 1..Len(out[r])
    BY <2>1, Lengths
  <2> QED
    BY <1>7, <2>2 DEF Stands
<1>9. Stash'
  <2> SUFFICES ASSUME NEW r \in Req PROVE nextEmbed'[r] = LastZ(r)'
    BY <1>2 DEF Stash
  <2>1. CASE r \in Batch
    <3>1. Len(out'[r]) = Len(out[r]) + 1 /\ out'[r][Len(out[r]) + 1] = Output(r, s[r])
      BY <1>4, <2>1
    <3>2. LastZ(r)' = Output(r, s[r]).z
      BY <3>1, Lengths DEF SInv, LastZ, Stands
    <3> QED
      BY <1>2, <1>6, <2>1, <3>2
  <2>2. CASE r \notin Batch
    BY <1>2, <1>5, <2>2 DEF SInv, Stash, LastZ, Stands
  <2> QED
    BY <2>1, <2>2
<1>10. Unsplit'
  BY <1>2 DEF Unsplit
<1>11. Computed'
  <2> SUFFICES ASSUME NEW r \in Req
               PROVE  /\ (Uncomputed(r) >= 0)'
                      /\ preemptions = 0 => (kv'[r] = <<>> /\ out'[r] = <<>>) \/ (Uncomputed(r) <= 1)'
    BY <1>2 DEF Computed
  <2>1. CASE r \in Batch
    <3>1. Uncomputed(r)' = 1
      <4>1. /\ Len(out[r]) \in Nat /\ Len(kv[r]) \in Nat /\ PromptLen \in Nat
        BY Lengths
      <4>2. PromptLen + Len(out[r]) - Len(kv[r]) = 0
        BY <1>4, <2>1 DEF Uncomputed
      <4>3. Len(out'[r]) = Len(out[r]) + 1 /\ kv'[r] = kv[r]
        BY <1>2, <1>4, <2>1
      <4>4. Len(kv'[r]) = Len(kv[r])
        BY <4>3
      <4>5. PromptLen + Len(out'[r]) - Len(kv'[r]) = 1
        BY <4>1, <4>2, <4>3, <4>4
      <4> QED
        BY <4>5 DEF Uncomputed
    <3> QED
      BY <3>1
  <2>2. CASE r \notin Batch
    BY <1>2, <1>5, <2>2 DEF SInv, Computed, Uncomputed
  <2> QED
    BY <2>1, <2>2
<1> QED
  BY <1>1, <1>8, <1>9, <1>10, <1>11 DEF SInv

LEMMA StutterSInv ==
  ASSUME SInv, UNCHANGED vars
  PROVE  SInv'
<1>1. IInv'
  BY StutterIInv DEF SInv
<1> QED
  BY <1>1 DEF SInv, KVSpliced, Stands, Stash, LastZ, Unsplit, Computed, Uncomputed, Batch,
     vars, vllmVars, latentVars, maskVars

\* No position of the KV cache ever consumed a z that its sentinel does not stand
\* for, and without preemptions none of its own was lost: for any requests in any
\* batches, as long as prefills are not split.
THEOREM ZsAtTheirSentinels ==
  ASSUME ~Chunked
  PROVE  Spec => []KVSpliced
<1>1. Init => SInv
  BY InitSInv
<1>2. SInv /\ [Next]_vars => SInv'
  <2> SUFFICES ASSUME SInv, [Next]_vars PROVE SInv'
    OBVIOUS
  <2>1. CASE \E B \in SUBSET Live : Schedule(B)
    BY <2>1, ScheduleSInv
  <2>2. CASE \E r \in Live : Preempt(r)
    BY <2>2, PreemptSInv
  <2>3. CASE Preprocess
    BY <2>3, PreprocessSInv
  <2>4. CASE Execute
    BY <2>4, ExecuteSInv
  <2>5. CASE UpdateAfter
    BY <2>5, UpdateAfterSInv
  <2>6. CASE Terminated \/ UNCHANGED vars
    BY <2>6, StutterSInv DEF Terminated
  <2> QED
    BY <2>1, <2>2, <2>3, <2>4, <2>5, <2>6 DEF Next
<1>3. SInv => KVSpliced
  BY DEF SInv
<1> QED
  BY <1>1, <1>2, <1>3, PTL DEF Spec

-----------------------------------------------------------------------------
(* 3. Each request alone, seen from LatentBlock *)


ModelToken(t) == [tok |-> t, by |-> "model", z |-> 0]

\* The deque is the end of what the model has written since the last block, all
\* of it unless the deque is full; it is empty while a block is owed.
Recent(r) ==
  LET b == buf[r]  o == out[r]
  IN  /\ Len(b) <= Len(o)
      /\ \A i \in 1..Len(b) : o[Len(o) - Len(b) + i] = ModelToken(b[i])
      /\ Owed(r) > 0 => b = <<>>
      /\ Owed(r) = 0 /\ Len(b) < Len(OpenIds) =>
           Len(b) = Len(o) \/ o[Len(o) - Len(b)].by # "model"

\* A request that has ended is not scheduled again.
BatchLive == Batch \cap finished = {}

PInv == SInv /\ BatchLive /\ \A r \in Req : Recent(r)

-----------------------------------------------------------------------------
(* What a request owes, phase by phase *)

LEMMA OwedType ==
  ASSUME IInv, NEW r \in Req
  PROVE  Owed(r) \in Nat
<1>1. /\ remaining[r] \in Nat /\ closeRemaining[r] \in Nat
      /\ K \in Nat /\ Len(CloseIds) \in Nat
  BY PluginAssumption, CloseLen DEF IInv, TypeOK
<1> QED
  BY <1>1 DEF Owed

LEMMA OwedInUpdate ==
  ASSUME IInv, phase = "update", NEW r \in Req, r \in Batch
  PROVE  /\ skipMask[r] => Owed(r) = remaining[r] + Len(CloseIds)
         /\ ~skipMask[r] => Owed(r) = closeRemaining[r]
<1>1. Executed(r) /\ remaining[r] \in Nat
  BY DEF IInv, TypeOK, Control
<1> QED
  BY <1>1 DEF Owed, MidStep, Executed, Idle, Forcing

-----------------------------------------------------------------------------
(* The deque and the output *)

\* Pushing the token that the model wrote keeps the deque the end of the output.
LEMMA PushedIsRecent ==
  ASSUME PInv, NEW r \in Req, NEW t \in Tokens, Owed(r) = 0
  PROVE  LET b == Pushed(r, t)  o == Append(out[r], ModelToken(t))
         IN  /\ b \in Seq(Tokens) /\ o \in Seq(Emitted)
             /\ Len(b) \in 1..Len(OpenIds) /\ Len(b) <= Len(o)
             /\ Len(o) = Len(out[r]) + 1 /\ Len(out[r]) \in Nat
             /\ \A i \in 1..Len(b) : o[Len(o) - Len(b) + i] = ModelToken(b[i])
             /\ Len(b) < Len(OpenIds) => Len(b) = Len(o) \/ o[Len(o) - Len(b)].by # "model"
<1> DEFINE o == Append(out[r], ModelToken(t))
           n == Len(out[r])
           m == Len(buf[r])
           N == Len(OpenIds)
<1>1. /\ out[r] \in Seq(Emitted) /\ buf[r] \in Seq(Tokens) /\ m <= N
      /\ ModelToken(t) \in Emitted /\ N \in Nat \ {0} /\ m \in Nat /\ n \in Nat
  BY PluginAssumption, EmptySeq, LenProperties
     DEF PInv, SInv, IInv, TypeOK, ModelToken, Emitted
<1>2. /\ o \in Seq(Emitted) /\ Len(o) = n + 1 /\ o[n + 1] = ModelToken(t)
      /\ \A i \in 1..n : o[i] = out[r][i]
  BY <1>1
<1>3. /\ m <= n /\ \A i \in 1..m : out[r][n - m + i] = ModelToken(buf[r][i])
      /\ m < N => m = n \/ out[r][n - m].by # "model"
  BY DEF PInv, Recent
<1> DEFINE b == Pushed(r, t)
<1> HIDE DEF o, n, m, N
<1> SUFFICES /\ b \in Seq(Tokens) /\ o \in Seq(Emitted)
             /\ Len(b) \in 1..N /\ Len(b) <= Len(o) /\ Len(o) = n + 1 /\ n \in Nat
             /\ \A i \in 1..Len(b) : o[Len(o) - Len(b) + i] = ModelToken(b[i])
             /\ Len(b) < N => Len(b) = Len(o) \/ o[Len(o) - Len(b)].by # "model"
  BY DEF o, n, N
<1>4. CASE m < N
  <2>1. Pushed(r, t) = Append(buf[r], t)
    BY <1>4 DEF Pushed, m, N
  <2>2. /\ Pushed(r, t) \in Seq(Tokens) /\ Len(Pushed(r, t)) = m + 1
        /\ Pushed(r, t)[m + 1] = t /\ \A i \in 1..m : Pushed(r, t)[i] = buf[r][i]
    BY <1>1, <2>1 DEF m
  <2>3. \A i \in 1..(m + 1) : o[n + 1 - (m + 1) + i] = ModelToken(Pushed(r, t)[i])
    <3> SUFFICES ASSUME NEW i \in 1..(m + 1)
                 PROVE  o[n - m + i] = ModelToken(Pushed(r, t)[i])
      BY <1>1
    <3>1. CASE i = m + 1
      <4>1. n - m + i = n + 1
        BY <1>1, <3>1
      <4> QED
        BY <1>2, <2>2, <3>1, <4>1
    <3>2. CASE i # m + 1
      <4>1. i \in 1..m /\ n - m + i \in 1..n
        BY <1>1, <1>3, <3>2
      <4> QED
        BY <1>2, <1>3, <2>2, <4>1
    <3> QED
      BY <3>1, <3>2
  <2>4. m + 1 = n + 1 \/ o[n + 1 - (m + 1)].by # "model"
    <3>1. CASE m = n
      BY <3>1
    <3>2. CASE m # n
      <4>1. out[r][n - m].by # "model" /\ n - m \in 1..n /\ n + 1 - (m + 1) = n - m
        BY <1>1, <1>3, <1>4, <3>2
      <4> QED
        BY <1>2, <4>1
    <3> QED
      BY <3>1, <3>2
  <2> QED
    BY <1>1, <1>2, <1>3, <1>4, <2>2, <2>3, <2>4
<1>5. CASE ~(m < N)
  <2>1. Pushed(r, t) = Append(Tail(buf[r]), t)
    BY <1>5 DEF Pushed, m, N
  <2>2. m = N /\ m > 0 /\ buf[r] # <<>>
    BY <1>1, <1>5, EmptySeq DEF m
  <2>3. /\ Tail(buf[r]) \in Seq(Tokens) /\ Len(Tail(buf[r])) = m - 1
        /\ \A i \in 1..(m - 1) : Tail(buf[r])[i] = buf[r][i + 1]
    BY <1>1, <2>2, HeadTailProperties DEF m
  <2>4. /\ Pushed(r, t) \in Seq(Tokens) /\ Len(Pushed(r, t)) = m
        /\ Pushed(r, t)[m] = t /\ \A i \in 1..(m - 1) : Pushed(r, t)[i] = buf[r][i + 1]
    BY <1>1, <2>1, <2>2, <2>3
  <2>5. \A i \in 1..m : o[n + 1 - m + i] = ModelToken(Pushed(r, t)[i])
    <3> SUFFICES ASSUME NEW i \in 1..m
                 PROVE  o[n + 1 - m + i] = ModelToken(Pushed(r, t)[i])
      OBVIOUS
    <3>1. CASE i = m
      <4>1. n + 1 - m + i = n + 1
        BY <1>1, <3>1
      <4> QED
        BY <1>2, <2>4, <3>1, <4>1
    <3>2. CASE i # m
      <4>1. /\ i \in 1..(m - 1) /\ i + 1 \in 1..m /\ n + 1 - m + i = n - m + (i + 1)
            /\ n - m + (i + 1) \in 1..n
        <5>1. i \in Nat /\ i >= 1 /\ i < m
          BY <1>1, <3>2
        <5>2. \A x, y, j \in Nat : y <= x /\ j >= 1 /\ j < y =>
                /\ j \in 1..(y - 1) /\ j + 1 \in 1..y /\ x + 1 - y + j = x - y + (j + 1)
                /\ x - y + (j + 1) \in 1..x
          OBVIOUS
        <5> QED
          BY <1>1, <1>3, <5>1, <5>2
      <4> QED
        BY <1>2, <1>3, <2>4, <4>1
    <3> QED
      BY <3>1, <3>2
  <2> QED
    BY <1>1, <1>2, <1>3, <2>2, <2>4, <2>5
<1> QED
  BY <1>4, <1>5

\* The deque holds the open literal exactly when the output ends with one that
\* the model wrote.
LEMMA DetectedIsOpen ==
  ASSUME PInv, NEW r \in Req, NEW t \in Tokens, Owed(r) = 0
  PROVE  Pushed(r, t) = OpenIds <=> Promise(r)!Opens(Append(out[r], ModelToken(t)))
<1> DEFINE b == Pushed(r, t)
           o == Append(out[r], ModelToken(t))
           N == Len(OpenIds)
<1>1. /\ b \in Seq(Tokens) /\ o \in Seq(Emitted) /\ Len(b) \in 1..N /\ Len(b) <= Len(o)
      /\ \A i \in 1..Len(b) : o[Len(o) - Len(b) + i] = ModelToken(b[i])
      /\ Len(b) < N => Len(b) = Len(o) \/ o[Len(o) - Len(b)].by # "model"
      /\ OpenIds \in Seq(Tokens) /\ N \in Nat /\ Len(o) \in Nat /\ Len(b) \in Nat
  BY PluginAssumption, PushedIsRecent, LenProperties
<1> HIDE DEF b, o
<1>2. ASSUME b = OpenIds PROVE Promise(r)!Opens(o)
  <2>1. Len(b) = N /\ Len(o) - N >= 0
    BY <1>1, <1>2
  <2>2. \A j \in 1..N : o[Len(o) - N + j] = ModelToken(OpenIds[j])
    BY <1>1, <1>2, <2>1
  <2>3. \A j \in 1..N : o[Len(o) - N + j].by = "model" /\ o[Len(o) - N + j].tok = OpenIds[j]
    <3>1. \A x : ModelToken(x).by = "model" /\ ModelToken(x).tok = x
      BY DEF ModelToken
    <3> QED
      BY <2>2, <3>1
  <2> QED
    BY <2>1, <2>3 DEF Promise!Opens
<1>3. ASSUME Promise(r)!Opens(o) PROVE b = OpenIds
  <2>1. /\ Len(o) - N >= 0
        /\ \A j \in 1..N : o[Len(o) - N + j].by = "model" /\ o[Len(o) - N + j].tok = OpenIds[j]
    BY <1>3 DEF Promise!Opens
  <2>2. Len(b) = N
    <3>1. SUFFICES ASSUME Len(b) < N PROVE FALSE
      BY <1>1
    <3>2. Len(b) # Len(o) /\ o[Len(o) - Len(b)].by # "model"
      BY <1>1, <2>1, <3>1
    <3>3. N - Len(b) \in 1..N /\ Len(o) - N + (N - Len(b)) = Len(o) - Len(b)
      BY <1>1, <3>1
    <3> QED
      BY <2>1, <3>2, <3>3
  <2>3. \A i \in 1..N : b[i] = OpenIds[i]
    <3> SUFFICES ASSUME NEW i \in 1..N PROVE b[i] = OpenIds[i]
      OBVIOUS
    <3>1. o[Len(o) - N + i] = ModelToken(b[i])
      BY <1>1, <2>2
    <3>2. o[Len(o) - N + i].tok = OpenIds[i]
      BY <2>1
    <3> QED
      BY <3>1, <3>2 DEF ModelToken
  <2> QED
    BY <1>1, <2>2, <2>3, SeqEqual
<1> QED
  BY <1>2, <1>3 DEF b, o

-----------------------------------------------------------------------------
(* Steps that emit nothing *)

\* Nothing that the promise speaks of changes for r.
Quiet(r) == UNCHANGED <<out[r], Owed(r), Emittedz(r), r \in finished>>

LEMMA QuietIsStutter ==
  ASSUME NEW r \in Req, Quiet(r)
  PROVE  UNCHANGED Promise(r)!vars
BY DEF Quiet, Promise!vars

LEMMA QuietKeepsRecent ==
  ASSUME NEW r \in Req, Quiet(r), buf'[r] = buf[r], Recent(r)
  PROVE  Recent(r)'
BY DEF Quiet, Recent

LEMMA InitPromise ==
  ASSUME Init
  PROVE  PInv /\ \A r \in Req : Promise(r)!Init
<1>1. SInv
  BY InitSInv
<1>2. ASSUME NEW r \in Req
      PROVE  /\ out[r] = <<>> /\ Owed(r) = 0 /\ Emittedz(r) = 0 /\ r \notin finished
             /\ buf[r] = <<>> /\ Len(out[r]) = 0 /\ Len(buf[r]) = 0
  BY DEF Init, Owed, Emittedz, MidStep
<1>3. BatchLive
  BY DEF Init, BatchLive
<1>4. \A r \in Req : Recent(r)
  <2> SUFFICES ASSUME NEW r \in Req PROVE Recent(r)
    OBVIOUS
  <2>1. Len(buf[r]) = 0 /\ Len(out[r]) = 0 /\ buf[r] = <<>>
    BY <1>2
  <2>2. \A i \in 1..0 : FALSE
    OBVIOUS
  <2> QED
    BY <2>1, <2>2 DEF Recent
<1>5. \A r \in Req : Promise(r)!Init
  BY <1>2 DEF Promise!Init
<1> QED
  BY <1>1, <1>3, <1>4, <1>5 DEF PInv

\* The scheduler and Preprocess emit nothing and change nothing owed.
LEMMA OtherSteps ==
  ASSUME ~Chunked, PInv,
         (\E B \in SUBSET Live : Schedule(B)) \/ (\E r \in Live : Preempt(r))
           \/ Preprocess \/ Terminated \/ UNCHANGED vars
  PROVE  PInv' /\ \A r \in Req : Quiet(r)
<1>1. SInv'
  BY ScheduleSInv, PreemptSInv, PreprocessSInv, StutterSInv DEF PInv, Terminated
<1>2. /\ UNCHANGED <<out, pendingFirst, remaining, closeRemaining, captured, finished, skipMask, buf>>
      /\ (phase # "update" /\ phase' # "update") \/ phase' = phase
  BY DEF Schedule, Preempt, Preprocess, Terminated, vars, vllmVars, latentVars, maskVars
<1>3. \A r \in Req : Quiet(r)
  BY <1>2 DEF Quiet, Owed, Emittedz, MidStep, BlockDone
<1>4. BatchLive'
  <2>1. CASE \E B \in SUBSET Live : Schedule(B)
    BY <2>1 DEF Schedule, BatchLive, Batch, Live
  <2>2. CASE ~\E B \in SUBSET Live : Schedule(B)
    <3>1. UNCHANGED sched
      BY <2>2 DEF Preempt, Preprocess, Terminated, vars, vllmVars
    <3> QED
      BY <1>2, <3>1 DEF PInv, BatchLive, Batch
  <2> QED
    BY <2>1, <2>2
<1>5. \A r \in Req : Recent(r)'
  BY <1>2, <1>3, QuietKeepsRecent DEF PInv
<1> QED
  BY <1>1, <1>3, <1>4, <1>5 DEF PInv

\* Execute moves what is owed from one field to another.
LEMMA ExecuteIsQuiet ==
  ASSUME PInv, Execute
  PROVE  PInv' /\ \A r \in Req : Quiet(r)
<1>1. SInv'
  BY ExecuteSInv DEF PInv
<1>2. /\ phase = "execute" /\ phase' = "update" /\ Batch' = Batch
      /\ UNCHANGED <<out, finished, closeRemaining, buf>>
  BY DEF Execute, vllmVars, Assign, Batch
<1> DEFINE Projecting(x) == x \in Batch /\ (ProjectFirst(x) \/ ProjectNext(x))
           Consuming(x) == x \in Batch /\ ConsumeEmbed(x)
<1>3. ASSUME NEW x \in Req
      PROVE  /\ captured'[x] = IF Projecting(x) THEN captured[x] + 1 ELSE captured[x]
             /\ remaining'[x] = IF Consuming(x) THEN remaining[x] - 1 ELSE remaining[x]
             /\ pendingFirst'[x] = IF x \in Batch THEN FALSE ELSE pendingFirst[x]
             /\ skipMask'[x] = (Projecting(x) \/ Consuming(x))
             /\ closeRemaining'[x] = closeRemaining[x] /\ out'[x] = out[x]
  BY <1>2 DEF PInv, SInv, IInv, TypeOK, Execute, Assign
<1> HIDE DEF Projecting, Consuming
<1>8. ASSUME NEW x \in Req
      PROVE  /\ captured[x] \in Nat /\ remaining[x] \in Nat /\ Len(CloseIds) \in Nat
             /\ K \in Nat /\ K # 0 /\ K > 0 /\ ~MidStep(x)
  BY <1>2, PluginAssumption, CloseLen DEF PInv, SInv, IInv, TypeOK, MidStep
<1>4. ASSUME NEW x \in Req PROVE UNCHANGED <<Owed(x), Emittedz(x)>>
  <2>1. CASE x \notin Batch
    <3>1. ~Projecting(x) /\ ~Consuming(x)
      BY <2>1 DEF Projecting, Consuming
    <3>2. /\ captured'[x] = captured[x] /\ remaining'[x] = remaining[x]
          /\ pendingFirst'[x] = pendingFirst[x] /\ ~skipMask'[x]
      BY <1>3, <2>1, <3>1
    <3> QED
      BY <1>2, <1>3, <1>8, <3>2 DEF Owed, Emittedz, MidStep
  <2>2. CASE x \in Batch /\ overrideMask[x]
    <3>1. Overridden(x)
      BY <1>2, <2>2 DEF PInv, SInv, IInv, Control, Preprocessed
    <3>2. /\ Consuming(x) /\ (Projecting(x) <=> remaining[x] > 1)
          /\ ~pendingFirst[x] /\ remaining[x] > 0
      BY <2>2, <3>1 DEF Overridden, Projecting, Consuming, ConsumeEmbed, ProjectFirst, ProjectNext
    <3>3. /\ skipMask'[x] /\ ~pendingFirst'[x] /\ remaining'[x] = remaining[x] - 1
          /\ captured'[x] = IF remaining[x] > 1 THEN captured[x] + 1 ELSE captured[x]
      BY <1>3, <2>2, <3>2
    <3>4. Owed(x)' = Owed(x)
      BY <1>2, <1>3, <1>8, <3>2, <3>3 DEF Owed, MidStep
    <3>5. BlockDone(x)' <=> remaining[x] = 1
      BY <1>3, <1>8, <3>2, <3>3 DEF BlockDone
    <3>6. Emittedz(x)' = IF remaining[x] = 1 THEN captured'[x] ELSE captured'[x] - 1
      BY <1>2, <3>3, <3>5 DEF Emittedz, MidStep
    <3>7. Emittedz(x) = captured[x]
      BY <1>3, <1>8 DEF Emittedz
    <3>8. Emittedz(x)' = captured[x]
      <4>1. captured[x] \in Nat /\ captured[x] + 1 - 1 = captured[x]
            /\ (remaining[x] = 1 \/ remaining[x] > 1) /\ ~(remaining[x] = 1 /\ remaining[x] > 1)
        BY <1>3, <1>8, <3>2
      <4>2. CASE remaining[x] = 1
        BY <3>3, <3>6, <4>1, <4>2
      <4>3. CASE remaining[x] > 1
        BY <3>3, <3>6, <4>1, <4>3
      <4> QED
        BY <4>1, <4>2, <4>3
    <3> QED
      BY <3>4, <3>7, <3>8
  <2>3. CASE x \in Batch /\ ~overrideMask[x] /\ pendingFirst[x]
    <3>1. Armed(x)
      BY <1>2, <2>3 DEF PInv, SInv, IInv, Control, Preprocessed, Idle, Forcing
    <3>2. Projecting(x) /\ ~Consuming(x)
      BY <2>3 DEF Projecting, Consuming, ConsumeEmbed, ProjectFirst
    <3>3. /\ skipMask'[x] /\ ~pendingFirst'[x] /\ remaining'[x] = K /\ remaining[x] = K
          /\ captured'[x] = captured[x] + 1
      BY <1>3, <2>3, <3>1, <3>2 DEF Armed
    <3>4. Owed(x)' = Owed(x)
      BY <1>2, <1>3, <1>8, <2>3, <3>3 DEF Owed, MidStep
    <3>5. ~BlockDone(x)' /\ Emittedz(x)' = captured'[x] - 1
      <4>1. remaining'[x] # 0
        BY <1>3, <1>8, <3>3
      <4> QED
        BY <1>2, <3>3, <4>1 DEF Emittedz, MidStep, BlockDone
    <3>6. Emittedz(x) = captured[x]
      BY <1>3, <1>8 DEF Emittedz
    <3>7. captured'[x] - 1 = captured[x]
      BY <1>8, <3>3
    <3> QED
      BY <3>4, <3>5, <3>6, <3>7
  <2>4. CASE x \in Batch /\ ~overrideMask[x] /\ ~pendingFirst[x]
    <3>1. ~Projecting(x) /\ ~Consuming(x)
      BY <2>4 DEF Projecting, Consuming, ConsumeEmbed, ProjectFirst, ProjectNext
    <3>2. /\ captured'[x] = captured[x] /\ remaining'[x] = remaining[x]
          /\ ~pendingFirst'[x] /\ ~skipMask'[x]
      BY <1>3, <2>4, <3>1
    <3> QED
      BY <1>2, <1>3, <1>8, <2>4, <3>2 DEF Owed, Emittedz, MidStep
  <2> QED
    BY <2>1, <2>2, <2>3, <2>4
<1>5. \A r \in Req : Quiet(r)
  BY <1>2, <1>4 DEF Quiet
<1>6. BatchLive'
  BY <1>2 DEF PInv, BatchLive
<1>7. \A r \in Req : Recent(r)'
  BY <1>2, <1>5, QuietKeepsRecent DEF PInv
<1> QED
  BY <1>1, <1>5, <1>6, <1>7 DEF PInv

-----------------------------------------------------------------------------
(* The step that emits *)

LEMMA UpdateFields ==
  ASSUME PInv, UpdateAfter
  PROVE  \E s \in [Batch -> Tokens] : \A x \in Req :
           LET opened == x \in Batch /\ Detected(x, s[x])
           IN  /\ out'[x] = IF x \in Batch THEN Append(out[x], Output(x, s[x])) ELSE out[x]
               /\ x \in finished' <=> x \in finished \/ (x \in Batch /\ Ends(x, s[x]))
               /\ buf'[x] = IF x \in Batch /\ Watching(x)
                            THEN IF opened THEN <<>> ELSE Pushed(x, s[x]) ELSE buf[x]
               /\ remaining'[x] = IF opened THEN K ELSE remaining[x]
               /\ pendingFirst'[x] = IF opened THEN TRUE ELSE pendingFirst[x]
               /\ closeRemaining'[x] = IF x \in Batch THEN CloseLeft(x) ELSE closeRemaining[x]
<1>1. PICK s \in [Batch -> Tokens] :
        /\ out' = Assign(out, {x \in Batch : Kept(x)},
                         LAMBDA x : Append(out[x], Output(x, s[x])))
        /\ finished' = finished \cup {x \in Batch : Ends(x, s[x])}
        /\ buf' = Assign(buf, {x \in Batch : Watching(x)},
                    LAMBDA x : IF x \in {y \in Batch : Detected(y, s[y])}
                               THEN <<>> ELSE Pushed(x, s[x]))
        /\ remaining' = Assign(remaining, {x \in Batch : Detected(x, s[x])}, LAMBDA x : K)
        /\ pendingFirst' = Assign(pendingFirst, {x \in Batch : Detected(x, s[x])},
                                  LAMBDA x : TRUE)
        /\ closeRemaining' = Assign(closeRemaining, Batch, CloseLeft)
  BY Zenon DEF UpdateAfter
<1>2. \A x \in Req : x \in Batch => Kept(x)
  BY DEF PInv, SInv, Stash, UpdateAfter, Kept
<1>3. /\ DOMAIN out = Req /\ DOMAIN buf = Req /\ DOMAIN remaining = Req
      /\ DOMAIN pendingFirst = Req /\ DOMAIN closeRemaining = Req
  BY DEF PInv, SInv, IInv, TypeOK
<1>4. \A x \in Req :
        LET opened == x \in Batch /\ Detected(x, s[x])
        IN  /\ out'[x] = IF x \in Batch THEN Append(out[x], Output(x, s[x])) ELSE out[x]
            /\ x \in finished' <=> x \in finished \/ (x \in Batch /\ Ends(x, s[x]))
            /\ buf'[x] = IF x \in Batch /\ Watching(x)
                         THEN IF opened THEN <<>> ELSE Pushed(x, s[x]) ELSE buf[x]
            /\ remaining'[x] = IF opened THEN K ELSE remaining[x]
            /\ pendingFirst'[x] = IF opened THEN TRUE ELSE pendingFirst[x]
            /\ closeRemaining'[x] = IF x \in Batch THEN CloseLeft(x) ELSE closeRemaining[x]
  BY <1>1, <1>2, <1>3 DEF Assign
<1> QED
  BY <1>4

\* A request that is not in the batch keeps everything.
LEMMA OutsideIsQuiet ==
  ASSUME PInv, UpdateAfter, NEW r \in Req, r \notin Batch
  PROVE  Quiet(r) /\ Recent(r)'
<1>1. /\ UNCHANGED <<out[r], buf[r], remaining[r], pendingFirst[r], closeRemaining[r], captured>>
      /\ r \in finished' <=> r \in finished
  BY UpdateFields DEF UpdateAfter
<1>2. phase = "update" /\ phase' = "schedule" /\ ~skipMask[r]
  BY DEF PInv, SInv, IInv, Control, UpdateAfter
<1>3. Quiet(r)
  BY <1>1, <1>2 DEF Quiet, Owed, Emittedz, MidStep
<1> QED
  BY <1>1, <1>3, QuietKeepsRecent DEF PInv

\* A piece of a block: what the promise calls Reason.
LEMMA PieceIsReason ==
  ASSUME PInv, UpdateAfter, NEW r \in Req, r \in Batch, Owed(r) > 0
  PROVE  Promise(r)!Reason /\ Recent(r)'
<1> DEFINE LC == Len(CloseIds)
<1>1. /\ phase = "update" /\ phase' = "schedule" /\ captured' = captured
      /\ r \notin finished /\ Executed(r)
  BY DEF PInv, BatchLive, SInv, IInv, Control, UpdateAfter
<1>2. /\ LC \in Nat /\ LC > 0 /\ remaining[r] \in Nat /\ captured[r] \in Nat
      /\ closeRemaining[r] \in Nat /\ closeRemaining[r] < LC /\ Owed(r) \in Nat
      /\ out[r] \in Seq(Emitted)
  <2>1. LC \in Nat /\ LC > 0
    BY CloseLen
  <2>2. TypeOK
    BY DEF PInv, SInv, IInv
  <2>3. /\ remaining[r] \in Nat /\ captured[r] \in Nat
        /\ closeRemaining[r] \in 0..(LC - 1) /\ out[r] \in Seq(Emitted)
    BY <2>2 DEF TypeOK
  <2>4. Owed(r) \in Nat
    BY <2>2, OwedType DEF PInv, SInv, IInv
  <2> QED
    BY <2>1, <2>3, <2>4
<1>3. ~Watching(r)
  <2>1. CASE skipMask[r]
    BY <2>1 DEF Watching
  <2>2. CASE ~skipMask[r]
    <3>1. closeRemaining[r] > 0
      BY <1>1, <2>2, OwedInUpdate DEF PInv, SInv
    <3> QED
      BY <3>1 DEF Watching, Closing
  <2> QED
    BY <2>1, <2>2
<1>4. PICK t \in Tokens :
        /\ out'[r] = Append(out[r], Output(r, t))
        /\ r \in finished' <=> Ends(r, t)
        /\ buf'[r] = buf[r] /\ remaining'[r] = remaining[r]
        /\ pendingFirst'[r] = pendingFirst[r] /\ closeRemaining'[r] = CloseLeft(r)
  BY <1>1, <1>3, UpdateFields DEF Detected
<1>5. ~pendingFirst[r]
  BY <1>1 DEF Executed, Idle, Forcing
\* What is emitted, and what is owed and stood for then.
<1>6. /\ Output(r, t) = Promise(r)!Piece(Owed(r))
      /\ Owed(r)' = Owed(r) - 1
      /\ Emittedz(r)' = IF Owed(r) > LC THEN Emittedz(r) + 1 ELSE Emittedz(r)
  <2>1. ~MidStep(r)' /\ Emittedz(r)' = captured[r]
    BY <1>1 DEF MidStep, Emittedz
  <2>2. Owed(r)' = IF remaining[r] > 0 THEN remaining[r] - 1 + LC ELSE CloseLeft(r)
    BY <1>4, <1>5, <2>1 DEF Owed
  <2>3. CASE skipMask[r] /\ remaining[r] > 0
    <3>1. ~BlockDone(r) /\ Owed(r) = remaining[r] + LC
      BY <1>1, <2>3, OwedInUpdate DEF BlockDone, PInv, SInv
    <3>2. Emittedz(r) = captured[r] - 1
      BY <1>1, <2>3, <3>1 DEF Emittedz, MidStep
    <3>3. Output(r, t) = [tok |-> Sentinel, by |-> "latent", z |-> captured[r]]
      BY <2>3, <3>1 DEF Output
    <3>4. Owed(r) > LC /\ captured[r] - 1 + 1 = captured[r]
          /\ remaining[r] - 1 + LC = remaining[r] + LC - 1
      BY <1>2, <2>3, <3>1
    <3>5. Promise(r)!Piece(Owed(r)) = [tok |-> Sentinel, by |-> "latent", z |-> Emittedz(r) + 1]
      BY <3>4 DEF Promise!Piece
    <3>6. Emittedz(r) + 1 = captured[r]
      BY <3>2, <3>4
    <3>7. Owed(r)' = Owed(r) - 1
      <4>1. Owed(r)' = remaining[r] - 1 + LC
        BY <2>2, <2>3
      <4> QED
        <5>1. remaining[r] - 1 + LC = (remaining[r] + LC) - 1
          BY <1>2
        <5>2. Owed(r) - 1 = (remaining[r] + LC) - 1
          BY <3>1
        <5> QED
          BY <4>1, <5>1, <5>2, Zenon
    <3> QED
      BY <2>1, <3>3, <3>4, <3>5, <3>6, <3>7
  <2>4. CASE skipMask[r] /\ ~(remaining[r] > 0)
    <3>1. remaining[r] = 0
      BY <1>2, <2>4
    <3>2. BlockDone(r) /\ Owed(r) = LC
      BY <1>1, <1>2, <1>5, <2>4, <3>1, OwedInUpdate DEF BlockDone, PInv, SInv
    <3>3. Emittedz(r) = captured[r] /\ CloseLeft(r) = LC - 1
      BY <3>2 DEF Emittedz, CloseLeft
    <3>4. Output(r, t) = [tok |-> CloseIds[1], by |-> "close", z |-> 0]
      BY <2>4, <3>2 DEF Output
    <3>5. ~(LC > LC) /\ LC - LC + 1 = 1
      BY <1>2
    <3> QED
      BY <2>1, <2>2, <2>4, <3>2, <3>3, <3>4, <3>5 DEF Promise!Piece
  <2>5. CASE ~skipMask[r]
    <3>1. Forcing(r) /\ Owed(r) = closeRemaining[r]
      BY <1>1, <2>5, OwedInUpdate DEF PInv, SInv, Executed, Idle
    <3>2. ~BlockDone(r) /\ Closing(r) /\ ~(remaining[r] > 0) /\ ~(closeRemaining[r] > LC)
      BY <1>2, <2>5, <3>1 DEF BlockDone, Closing, Forcing
    <3>3. Emittedz(r) = captured[r] /\ CloseLeft(r) = closeRemaining[r] - 1
      BY <2>5, <3>2 DEF Emittedz, MidStep, CloseLeft
    <3>4. Output(r, t) = [tok |-> CloseIds[LC - closeRemaining[r] + 1], by |-> "close", z |-> 0]
      BY <2>5, <3>2 DEF Output
    <3> QED
      BY <2>1, <2>2, <3>1, <3>2, <3>3, <3>4 DEF Promise!Piece
  <2> QED
    BY <2>3, <2>4, <2>5
<1>7. Kept(r) /\ Len(out'[r]) = Len(out[r]) + 1 /\ Len(out[r]) \in Nat
      /\ out'[r][Len(out[r]) + 1] = Output(r, t)
  <2>1. Output(r, t) \in Emitted
    BY <1>1, OutputType DEF PInv, SInv
  <2>2. Kept(r)
    BY <1>1 DEF PInv, SInv, Stash, Kept
  <2> QED
    BY <1>2, <1>4, <2>1, <2>2
<1>8. r \in finished' <=> (Output(r, t).tok = Eos \/ Len(out'[r]) >= MaxOut)
  BY <1>4, <1>7 DEF Ends
<1>9. Promise(r)!Reason
  BY <1>1, <1>4, <1>6, <1>8 DEF Promise!Reason, Promise!Emit
<1>10. Recent(r)'
  <2>1. buf[r] = <<>> /\ Len(buf[r]) = 0
    BY DEF PInv, Recent
  <2>2. Output(r, t).by # "model"
    BY <1>6 DEF Promise!Piece
  <2>3. buf'[r] = <<>> /\ Len(buf'[r]) = 0 /\ \A i \in 1..0 : FALSE
    BY <1>4, <2>1
  <2>4. Len(out'[r]) - 0 = Len(out[r]) + 1 /\ 0 <= Len(out'[r])
    BY <1>7
  <2> QED
    BY <1>7, <2>2, <2>3, <2>4 DEF Recent
<1> QED
  BY <1>9, <1>10

\* A token of the model's own: what the promise calls Speak.
LEMMA TokenIsSpeak ==
  ASSUME PInv, UpdateAfter, NEW r \in Req, r \in Batch, Owed(r) = 0
  PROVE  (\E t \in Tokens : Promise(r)!Speak(t)) /\ Recent(r)'
<1> DEFINE LC == Len(CloseIds)
<1>1. /\ phase = "update" /\ phase' = "schedule" /\ captured' = captured
      /\ r \notin finished /\ Executed(r)
  BY DEF PInv, BatchLive, SInv, IInv, Control, UpdateAfter
<1>2. /\ LC \in Nat /\ LC > 0 /\ K \in Nat /\ remaining[r] \in Nat
      /\ closeRemaining[r] \in Nat /\ out[r] \in Seq(Emitted)
  BY CloseLen, PluginAssumption DEF PInv, SInv, IInv, TypeOK
<1>3. ~skipMask[r] /\ Idle(r)
  <2>1. ~skipMask[r]
    <3>1. SUFFICES ASSUME skipMask[r] PROVE FALSE
      OBVIOUS
    <3>2. remaining[r] + LC = 0
      BY <1>1, <3>1, OwedInUpdate DEF PInv, SInv
    <3> QED
      BY <1>2, <3>2
  <2>2. closeRemaining[r] = 0
    BY <1>1, <2>1, OwedInUpdate DEF PInv, SInv
  <2> QED
    BY <1>1, <1>2, <2>1, <2>2 DEF Executed, Forcing
<1>4. Watching(r) /\ ~BlockDone(r) /\ ~Closing(r) /\ Emittedz(r) = captured[r]
  BY <1>2, <1>3 DEF Watching, BlockDone, Closing, InReasoning, Idle, Emittedz, MidStep
<1>5. PICK t \in Tokens :
        /\ out'[r] = Append(out[r], Output(r, t))
        /\ r \in finished' <=> Ends(r, t)
        /\ buf'[r] = IF Detected(r, t) THEN <<>> ELSE Pushed(r, t)
        /\ remaining'[r] = IF Detected(r, t) THEN K ELSE remaining[r]
        /\ pendingFirst'[r] = IF Detected(r, t) THEN TRUE ELSE pendingFirst[r]
        /\ closeRemaining'[r] = CloseLeft(r)
  BY <1>1, <1>4, UpdateFields
<1>6. Output(r, t) = ModelToken(t)
  BY <1>3, <1>4 DEF Output, ModelToken
<1>7. Detected(r, t) <=> Promise(r)!Opens(out'[r])
  BY <1>4, <1>5, <1>6, DetectedIsOpen DEF Detected
<1>8. /\ ~MidStep(r)' /\ Emittedz(r)' = captured[r]
      /\ Owed(r)' = IF Detected(r, t) THEN K + LC ELSE 0
  <2>1. ~MidStep(r)' /\ Emittedz(r)' = captured[r]
    BY <1>1 DEF MidStep, Emittedz
  <2>2. ~pendingFirst[r] /\ remaining[r] = 0 /\ CloseLeft(r) = 0 /\ ~(0 > 0)
    BY <1>3, <1>4 DEF Idle, CloseLeft
  <2>3. CASE Detected(r, t)
    BY <1>5, <2>1, <2>3 DEF Owed
  <2>4. CASE ~Detected(r, t)
    BY <1>5, <2>1, <2>2, <2>4 DEF Owed
  <2> QED
    BY <2>1, <2>3, <2>4
<1>9. /\ Kept(r) /\ Len(out'[r]) = Len(out[r]) + 1 /\ Len(out[r]) \in Nat
  <2>1. Output(r, t) \in Emitted
    BY <1>1, OutputType DEF PInv, SInv
  <2>2. Kept(r)
    BY <1>1 DEF PInv, SInv, Stash, Kept
  <2> QED
    BY <1>2, <1>5, <2>1, <2>2
<1>10. r \in finished' <=> (t = Eos \/ Len(out'[r]) >= MaxOut)
  BY <1>5, <1>6, <1>9 DEF Ends, ModelToken
<1>11. Promise(r)!Speak(t)
  BY <1>1, <1>4, <1>5, <1>6, <1>7, <1>8, <1>10
     DEF Promise!Speak, Promise!Emit, Promise!BlockLen, ModelToken
<1>12. Recent(r)'
  <2>1. CASE Detected(r, t)
    <3>1. buf'[r] = <<>> /\ Len(buf'[r]) = 0 /\ (\A i \in 1..0 : FALSE) /\ Owed(r)' # 0
      BY <1>2, <1>5, <1>8, <2>1
    <3> QED
      BY <1>9, <3>1 DEF Recent
  <2>2. CASE ~Detected(r, t)
    <3>1. buf'[r] = Pushed(r, t) /\ Owed(r)' = 0 /\ ~(0 > 0)
      BY <1>5, <1>8, <2>2
    <3>2. LET b == buf'[r]  o == out'[r]
          IN  /\ Len(b) <= Len(o)
              /\ \A i \in 1..Len(b) : o[Len(o) - Len(b) + i] = ModelToken(b[i])
              /\ Len(b) < Len(OpenIds) => Len(b) = Len(o) \/ o[Len(o) - Len(b)].by # "model"
      BY <1>5, <1>6, <3>1, PushedIsRecent
    <3> QED
      BY <3>1, <3>2 DEF Recent
  <2> QED
    BY <2>1, <2>2
<1> QED
  BY <1>11, <1>12

-----------------------------------------------------------------------------

LEMMA UpdateAfterServes ==
  ASSUME PInv, UpdateAfter
  PROVE  PInv' /\ \A r \in Req : [Promise(r)!Next]_(Promise(r)!vars)
<1>1. SInv'
  BY UpdateAfterSInv DEF PInv
<1>2. BatchLive'
  <2>1. DOMAIN <<>> = {}
    OBVIOUS
  <2> QED
    BY <2>1 DEF UpdateAfter, BatchLive, Batch
<1>3. ASSUME NEW r \in Req
      PROVE  Recent(r)' /\ [Promise(r)!Next]_(Promise(r)!vars)
  <2>1. CASE r \notin Batch
    BY <2>1, OutsideIsQuiet, QuietIsStutter
  <2>2. CASE r \in Batch /\ Owed(r) > 0
    BY <2>2, PieceIsReason DEF Promise!Next
  <2>3. CASE r \in Batch /\ Owed(r) = 0
    BY <2>3, TokenIsSpeak DEF Promise!Next
  <2>4. Owed(r) > 0 \/ Owed(r) = 0
    BY OwedType DEF PInv, SInv
  <2> QED
    BY <2>1, <2>2, <2>3, <2>4
<1> QED
  BY <1>1, <1>2, <1>3 DEF PInv

LEMMA NextServes ==
  ASSUME ~Chunked, PInv, [Next]_vars
  PROVE  PInv' /\ \A r \in Req : [Promise(r)!Next]_(Promise(r)!vars)
<1>1. CASE Execute
  BY <1>1, ExecuteIsQuiet, QuietIsStutter
<1>2. CASE UpdateAfter
  BY <1>2, UpdateAfterServes
<1>3. CASE ~Execute /\ ~UpdateAfter
  <2>1. PInv' /\ \A r \in Req : Quiet(r)
    BY <1>3, OtherSteps DEF Next
  <2> QED
    BY <2>1, QuietIsStutter
<1> QED
  BY <1>1, <1>2, <1>3

\* Whatever the batches and preemptions, each request alone sees what LatentBlock
\* promises: the model speaks freely until it has written the open literal, and then
\* come K sentinels, z's counted, and the close literal, cut only by the request's end.
THEOREM EachRequestKeepsPromise ==
  ASSUME ~Chunked
  PROVE  Spec => KeepsPromise
<1> DEFINE Serves == \A r \in Req : [Promise(r)!Next]_(Promise(r)!vars)
<1>1. Init => PInv /\ \A r \in Req : Promise(r)!Init
  BY InitPromise
<1>2. ASSUME PInv, [Next]_vars PROVE PInv' /\ Serves
  BY <1>2, NextServes
<1> QED
  BY <1>1, <1>2, PTL DEF Spec, KeepsPromise

-----------------------------------------------------------------------------
(* 4. The layout of the output *)

BlockSize == K + Len(CloseIds)

\* BlockLayout and ZPerSentinel, of one request.
Layout(r) ==
  \A i \in DOMAIN out[r] :
    /\ SampledOpen(r, i) =>
         \A j \in 1..BlockSize : i + j <= Len(out[r]) =>
           IF j <= K
           THEN out[r][i + j].by = "latent" /\ out[r][i + j].tok = Sentinel
           ELSE out[r][i + j].by = "close" /\ out[r][i + j].tok = CloseIds[j - K]
    /\ out[r][i].by # "model" =>
         \E o \in 1..(i - 1) : SampledOpen(r, o) /\ i - o <= BlockSize
Counted(r) ==
  /\ Emittedz(r) = Cardinality(Sentinels(r))
  /\ \A i \in Sentinels(r) : out[r][i].z = Cardinality({j \in Sentinels(r) : j <= i})

\* What is owed is the rest of the block that the last open literal began, and every
\* other block is whole.
Owing(r) ==
  LET n == Len(out[r])
  IN  /\ Owed(r) <= BlockSize
      /\ Owed(r) > 0 => n + Owed(r) - BlockSize \in 1..n /\ SampledOpen(r, n + Owed(r) - BlockSize)
      /\ \A i \in 1..n : SampledOpen(r, i) => i + BlockSize <= n \/ i + BlockSize = n + Owed(r)

LInv == PInv /\ \A r \in Req : Layout(r) /\ Owing(r) /\ Counted(r)

LEMMA Sizes ==
  /\ K \in Nat /\ K > 0 /\ Len(CloseIds) \in Nat /\ Len(CloseIds) > 0
  /\ BlockSize \in Nat /\ BlockSize > 0 /\ Len(OpenIds) \in Nat /\ Len(OpenIds) > 0
BY PluginAssumption, CloseLen, EmptySeq, LenProperties DEF BlockSize

\* An emitted piece makes or breaks no open literal but one that it ends.
LEMMA AppendKeepsOpens ==
  ASSUME NEW r \in Req, out[r] \in Seq(Emitted), NEW e \in Emitted,
         out'[r] = Append(out[r], e), NEW n, n = Len(out[r])
  PROVE  /\ n \in Nat /\ out'[r] \in Seq(Emitted) /\ Len(out'[r]) = n + 1
         /\ DOMAIN out[r] = 1..n /\ DOMAIN out'[r] = 1..(n + 1)
         /\ out'[r][n + 1] = e /\ \A i \in 1..n : out'[r][i] = out[r][i]
         /\ \A i \in 1..n : SampledOpen(r, i)' <=> SampledOpen(r, i)
         /\ SampledOpen(r, n + 1)' => e.by = "model"
<1> DEFINE N == Len(OpenIds)
<1>1. /\ n \in Nat /\ out'[r] \in Seq(Emitted) /\ Len(out'[r]) = n + 1
      /\ DOMAIN out[r] = 1..n /\ DOMAIN out'[r] = 1..(n + 1)
      /\ out'[r][n + 1] = e /\ \A i \in 1..n : out'[r][i] = out[r][i]
  BY LenProperties
<1>2. N \in Nat /\ N > 0
  BY Sizes
<1> HIDE DEF N
<1>3. ASSUME NEW i \in 1..n PROVE SampledOpen(r, i)' <=> SampledOpen(r, i)
  <2>1. ASSUME i >= N, NEW j \in 1..N PROVE i - N + j \in 1..n
    BY <1>1, <1>2, <2>1
  <2>2. i >= N => \A j \in 1..N : out'[r][i - N + j] = out[r][i - N + j]
    BY <1>1, <2>1
  <2> QED
    BY <2>2 DEF SampledOpen, N
<1>4. SampledOpen(r, n + 1)' => e.by = "model"
  <2>1. N \in 1..N /\ n + 1 - N + N = n + 1
    BY <1>1, <1>2
  <2> QED
    BY <1>1, <2>1 DEF SampledOpen, N
<1> QED
  BY <1>1, <1>3, <1>4

LEMMA SampledIsOpens ==
  ASSUME NEW r \in Req, NEW o, out'[r] = o, NEW n \in Nat, Len(o) = n
  PROVE  SampledOpen(r, n)' <=> Promise(r)!Opens(o)
<1>1. n >= Len(OpenIds) <=> n - Len(OpenIds) >= 0
  BY Sizes
<1> QED
  BY <1>1 DEF SampledOpen, Promise!Opens

\* A token of the model's own keeps the layout, and opens a block if it must.
LEMMA SpeakOwing ==
  ASSUME NEW r \in Req, out[r] \in Seq(Emitted), Layout(r), Owing(r),
         NEW t \in Tokens, Promise(r)!Speak(t)
  PROVE  Layout(r)' /\ Owing(r)'
<1>0. PICK n, e : n = Len(out[r]) /\ e = [tok |-> t, by |-> "model", z |-> 0]
  OBVIOUS
<1> DEFINE B == BlockSize
<1>1. /\ out'[r] = Append(out[r], e) /\ Owed(r) = 0
      /\ Owed(r)' = IF Promise(r)!Opens(Append(out[r], e)) THEN B ELSE 0
  BY <1>0 DEF Promise!Speak, Promise!Emit, Promise!BlockLen, BlockSize
<1>2. e \in Emitted
  BY <1>0 DEF Emitted
<1>3. /\ n \in Nat /\ Len(out'[r]) = n + 1
      /\ DOMAIN out[r] = 1..n /\ DOMAIN out'[r] = 1..(n + 1)
      /\ out'[r][n + 1] = e /\ \A i \in 1..n : out'[r][i] = out[r][i]
      /\ \A i \in 1..n : SampledOpen(r, i)' <=> SampledOpen(r, i)
  BY <1>0, <1>1, <1>2, AppendKeepsOpens
<1>11. SampledOpen(r, n + 1)' <=> Promise(r)!Opens(Append(out[r], e))
  <2>1. n + 1 \in Nat /\ Len(Append(out[r], e)) = n + 1
    BY <1>1, <1>3
  <2> QED
    BY <1>1, <2>1, SampledIsOpens
<1>4. B \in Nat /\ B > 0 /\ BlockSize' = BlockSize
  BY Sizes DEF BlockSize
<1>5. e.by = "model"
  BY <1>0
<1>6. \A i \in 1..n : SampledOpen(r, i) => i + B <= n
  BY <1>0, <1>1, <1>3, <1>4 DEF Owing
<1> HIDE DEF B
<1>7. Owing(r)'
  <2>1. Owed(r)' <= B
    BY <1>1, <1>4
  <2>2. ASSUME Owed(r)' > 0
        PROVE  n + 1 + Owed(r)' - B = n + 1 /\ n + 1 \in 1..(n + 1) /\ SampledOpen(r, n + 1)'
    <3>1. Owed(r)' = B /\ SampledOpen(r, n + 1)'
      BY <1>1, <1>11, <2>2
    <3>2. n + 1 + B - B = n + 1 /\ n + 1 \in 1..(n + 1)
      BY <1>3, <1>4
    <3> QED
      BY <3>1, <3>2
  <2>3. ASSUME NEW i \in 1..(n + 1), SampledOpen(r, i)'
        PROVE  i + B <= n + 1 \/ i + B = n + 1 + Owed(r)'
    <3>1. CASE i = n + 1
      BY <1>1, <1>3, <1>11, <2>3, <3>1
    <3>2. CASE i \in 1..n
      BY <1>3, <1>4, <1>6, <2>3, <3>2
    <3> QED
      BY <1>3, <3>1, <3>2
  <2> QED
    BY <1>3, <1>4, <2>1, <2>2, <2>3 DEF Owing, B
<1>8. ASSUME NEW i \in 1..(n + 1), SampledOpen(r, i)', NEW j \in 1..B, i + j <= n + 1
      PROVE  IF j <= K
             THEN out'[r][i + j].by = "latent" /\ out'[r][i + j].tok = Sentinel
             ELSE out'[r][i + j].by = "close" /\ out'[r][i + j].tok = CloseIds[j - K]
  <2>1. i \in 1..n
    BY <1>3, <1>4, <1>8
  <2>2. i + j \in 1..n /\ i + j <= n /\ SampledOpen(r, i)
    BY <1>3, <1>4, <1>6, <1>8, <2>1
  <2>3. IF j <= K
        THEN out[r][i + j].by = "latent" /\ out[r][i + j].tok = Sentinel
        ELSE out[r][i + j].by = "close" /\ out[r][i + j].tok = CloseIds[j - K]
    BY <1>0, <1>3, <1>8, <2>1, <2>2 DEF Layout, B
  <2>4. out'[r][i + j] = out[r][i + j]
    BY <1>3, <2>2
  <2> QED
    BY <2>3, <2>4
<1>9. ASSUME NEW i \in 1..(n + 1), out'[r][i].by # "model"
      PROVE  \E o \in 1..(i - 1) : SampledOpen(r, o)' /\ i - o <= B
  <2>1. i # n + 1 /\ i \in 1..n
    BY <1>3, <1>5, <1>9
  <2>2. PICK o \in 1..(i - 1) : SampledOpen(r, o) /\ i - o <= B
    BY <1>0, <1>3, <1>9, <2>1 DEF Layout, B
  <2>3. o \in 1..n
    BY <1>3, <2>1
  <2> QED
    BY <1>3, <2>2, <2>3
<1>10. Layout(r)'
  BY <1>0, <1>3, <1>4, <1>8, <1>9 DEF Layout, B
<1> QED
  BY <1>7, <1>10

\* A piece of a block is the one that its place in the block asks for.
LEMMA ReasonOwing ==
  ASSUME NEW r \in Req, out[r] \in Seq(Emitted), Layout(r), Owing(r), Owed(r) \in Nat,
         Emittedz(r) \in Nat, Promise(r)!Reason
  PROVE  Layout(r)' /\ Owing(r)'
<1>0. PICK n, w, p, e : /\ n = Len(out[r]) /\ w = Owed(r) /\ p = n + w - BlockSize
                        /\ e = Promise(r)!Piece(w)
  OBVIOUS
<1> DEFINE B == BlockSize
           LC == Len(CloseIds)
<1>1. /\ out'[r] = Append(out[r], e) /\ w > 0 /\ Owed(r)' = w - 1
  BY <1>0 DEF Promise!Reason, Promise!Emit
<1>2. /\ B \in Nat /\ B > 0 /\ BlockSize' = BlockSize /\ B = K + LC /\ K \in Nat /\ LC \in Nat
      /\ w \in Nat /\ w <= B
  BY <1>0, Sizes DEF BlockSize, Owing
<1>3. e \in Emitted /\ e.by # "model"
  <2>1. CASE w > LC
    <3>1. e = [tok |-> Sentinel, by |-> "latent", z |-> Emittedz(r) + 1]
      BY <1>0, <2>1 DEF Promise!Piece
    <3> QED
      BY <3>1, PluginAssumption DEF Emitted
  <2>2. CASE ~(w > LC)
    <3>1. e = [tok |-> CloseIds[LC - w + 1], by |-> "close", z |-> 0]
      BY <1>0, <2>2 DEF Promise!Piece
    <3>2. LC - w + 1 \in 1..LC
      BY <1>1, <1>2, <2>2
    <3>3. CloseIds[LC - w + 1] \in Tokens
      BY <3>2, PluginAssumption, ElementOfSeq
    <3> QED
      BY <3>1, <3>3 DEF Emitted
  <2> QED
    BY <2>1, <2>2
<1>4. /\ n \in Nat /\ Len(out'[r]) = n + 1
      /\ DOMAIN out[r] = 1..n /\ DOMAIN out'[r] = 1..(n + 1)
      /\ out'[r][n + 1] = e /\ \A i \in 1..n : out'[r][i] = out[r][i]
      /\ \A i \in 1..n : SampledOpen(r, i)' <=> SampledOpen(r, i)
  BY <1>0, <1>1, <1>3, AppendKeepsOpens
<1>11. ~SampledOpen(r, n + 1)'
  BY <1>0, <1>1, <1>3, AppendKeepsOpens
<1>12. B \in Nat /\ w \in Nat /\ n \in Nat
  BY <1>2, <1>4
<1>5. /\ p \in 1..n /\ SampledOpen(r, p)
      /\ \A i \in 1..n : SampledOpen(r, i) => i + B <= n \/ i + B = n + w
  BY <1>0, <1>1 DEF Owing
<1> HIDE DEF B
<1>6. Owing(r)'
  <2>1. Owed(r)' <= B
    BY <1>1, <1>2
  <2>2. n + 1 + Owed(r)' - B = p /\ p \in 1..(n + 1) /\ SampledOpen(r, p)'
    <3>1. p = n + w - B
      BY <1>0 DEF B
    <3>2. n + 1 + Owed(r)' - B = p
      BY <1>1, <1>12, <3>1
    <3>3. p \in 1..(n + 1)
      BY <1>5, <1>12
    <3>4. SampledOpen(r, p)'
      BY <1>4, <1>5
    <3> QED
      BY <3>2, <3>3, <3>4
  <2>3. ASSUME NEW i \in 1..(n + 1), SampledOpen(r, i)'
        PROVE  i + B <= n + 1 \/ i + B = n + 1 + Owed(r)'
    <3>1. i \in 1..n
      BY <1>4, <1>11, <2>3
    <3>2. SampledOpen(r, i)
      BY <1>4, <2>3, <3>1
    <3>3. i + B <= n \/ i + B = n + w
      BY <1>5, <3>1, <3>2
    <3> QED
      BY <1>1, <1>12, <3>1, <3>3
  <2> QED
    BY <1>2, <1>4, <2>1, <2>2, <2>3 DEF Owing, B
<1>7. ASSUME NEW j, j = B - w + 1
      PROVE  IF j <= K
             THEN e.by = "latent" /\ e.tok = Sentinel
             ELSE e.by = "close" /\ e.tok = CloseIds[j - K]
  <2>1. CASE w > LC
    <3>1. j <= K
      BY <1>2, <1>7, <2>1
    <3>2. e.by = "latent" /\ e.tok = Sentinel
      BY <1>0, <2>1 DEF Promise!Piece
    <3> QED
      BY <3>1, <3>2
  <2>2. CASE ~(w > LC)
    <3>1. ~(j <= K) /\ j - K = LC - w + 1
      BY <1>2, <1>7, <2>2
    <3>2. e.by = "close" /\ e.tok = CloseIds[LC - w + 1]
      BY <1>0, <2>2 DEF Promise!Piece
    <3> QED
      BY <3>1, <3>2
  <2> QED
    BY <2>1, <2>2
<1>8. ASSUME NEW i \in 1..(n + 1), SampledOpen(r, i)', NEW j \in 1..B, i + j <= n + 1
      PROVE  IF j <= K
             THEN out'[r][i + j].by = "latent" /\ out'[r][i + j].tok = Sentinel
             ELSE out'[r][i + j].by = "close" /\ out'[r][i + j].tok = CloseIds[j - K]
  <2>1. i \in 1..n
    BY <1>4, <1>8, <1>11
  <2>0. SampledOpen(r, i)
    BY <1>4, <1>8, <2>1
  <2>2. CASE i + j <= n
    <3>1. i + j \in 1..n
      BY <1>2, <1>4, <2>1, <2>2
    <3>2. IF j <= K
          THEN out[r][i + j].by = "latent" /\ out[r][i + j].tok = Sentinel
          ELSE out[r][i + j].by = "close" /\ out[r][i + j].tok = CloseIds[j - K]
      BY <1>0, <1>4, <1>8, <2>0, <2>1, <2>2 DEF Layout, B
    <3>3. out'[r][i + j] = out[r][i + j]
      BY <1>4, <3>1
    <3> QED
      BY <3>2, <3>3
  <2>3. CASE i + j = n + 1
    <3>1. i + B = n + w
      BY <1>2, <1>4, <1>5, <2>0, <2>1, <2>3
    <3>2. i \in Nat /\ j \in Nat
      BY <1>8, <1>12
    <3>3. j = B - w + 1
      BY <1>12, <2>3, <3>1, <3>2
    <3> QED
      BY <1>4, <1>7, <2>3, <3>3
  <2> QED
    BY <1>2, <1>4, <1>8, <2>2, <2>3
<1>9. ASSUME NEW i \in 1..(n + 1), out'[r][i].by # "model"
      PROVE  \E o \in 1..(i - 1) : SampledOpen(r, o)' /\ i - o <= B
  <2>1. CASE i = n + 1
    <3>1. p \in 1..(i - 1)
      BY <1>4, <1>5, <2>1
    <3>2. p = n + w - B
      BY <1>0 DEF B
    <3>3. i - p <= B
      BY <1>1, <1>12, <2>1, <3>2
    <3>4. SampledOpen(r, p)'
      BY <1>4, <1>5
    <3> QED
      BY <3>1, <3>3, <3>4
  <2>2. CASE i \in 1..n
    <3>1. PICK o \in 1..(i - 1) : SampledOpen(r, o) /\ i - o <= B
      BY <1>0, <1>4, <1>9, <2>2 DEF Layout, B
    <3>2. o \in 1..n
      BY <1>4, <2>2
    <3> QED
      BY <1>4, <3>1, <3>2
  <2> QED
    BY <1>4, <2>1, <2>2
<1>10. Layout(r)'
  BY <1>0, <1>2, <1>4, <1>8, <1>9 DEF Layout, B
<1> QED
  BY <1>6, <1>10

\* A new position adds one to what is counted up to it, and nothing before it.
LEMMA CountOne ==
  ASSUME NEW n \in Nat, NEW S, S \subseteq 1..n
  PROVE  /\ Cardinality(S \cup {n + 1}) = Cardinality(S) + 1
         /\ {j \in S \cup {n + 1} : j <= n + 1} = S \cup {n + 1}
         /\ \A i \in 1..n : {j \in S \cup {n + 1} : j <= i} = {j \in S : j <= i}
<1>1. n + 1 \notin S /\ IsFiniteSet(S)
  <2>1. IsFiniteSet(1..n)
    BY FS_Interval
  <2>2. S \in SUBSET (1..n) /\ n + 1 \notin S
    OBVIOUS
  <2> QED
    BY <2>1, <2>2, FS_Subset
<1>2. Cardinality(S \cup {n + 1}) = Cardinality(S) + 1
  BY <1>1, FS_AddElement
<1>3. \A j \in S \cup {n + 1} : j \in Nat /\ j <= n + 1
  OBVIOUS
<1>4. \A i \in 1..n : ~(n + 1 <= i)
  OBVIOUS
<1> QED
  BY <1>2, <1>3, <1>4

\* A sentinel counts itself; nothing else is counted.
LEMMA EmitCounted ==
  ASSUME NEW r \in Req, out[r] \in Seq(Emitted), Counted(r), Emittedz(r) \in Nat,
         NEW e \in Emitted, out'[r] = Append(out[r], e),
         IF e.by = "latent" THEN Emittedz(r)' = Emittedz(r) + 1 /\ e.z = Emittedz(r) + 1
                            ELSE Emittedz(r)' = Emittedz(r)
  PROVE  Counted(r)'
<1>0. PICK n : n = Len(out[r])
  OBVIOUS
<1>1. /\ n \in Nat /\ DOMAIN out[r] = 1..n /\ DOMAIN out'[r] = 1..(n + 1)
      /\ out'[r][n + 1] = e /\ \A i \in 1..n : out'[r][i] = out[r][i]
  BY <1>0, AppendKeepsOpens
<1>2. PICK S, z : S = Sentinels(r) /\ z = Emittedz(r)
  OBVIOUS
<1>3. /\ S \subseteq 1..n /\ z = Cardinality(S)
      /\ \A i \in S : out[r][i].z = Cardinality({j \in S : j <= i})
  BY <1>1, <1>2 DEF Counted, Sentinels
<1>4. CASE e.by = "latent"
  <2>1. Sentinels(r)' = S \cup {n + 1}
    <3>1. 1..(n + 1) = (1..n) \cup {n + 1}
      BY <1>1
    <3> QED
      BY <1>1, <1>2, <1>4, <3>1 DEF Sentinels
  <2>2. Emittedz(r)' = Cardinality(S \cup {n + 1}) /\ out'[r][n + 1].z = Cardinality(S \cup {n + 1})
    <3>1. Cardinality(S \cup {n + 1}) = z + 1
      BY <1>1, <1>3, CountOne
    <3> QED
      BY <1>1, <1>2, <1>4, <3>1
  <2>3. ASSUME NEW i \in S \cup {n + 1}
        PROVE  out'[r][i].z = Cardinality({j \in S \cup {n + 1} : j <= i})
    <3>1. CASE i = n + 1
      <4>1. {j \in S \cup {n + 1} : j <= n + 1} = S \cup {n + 1}
        BY <1>1, <1>3, CountOne
      <4> QED
        BY <2>2, <3>1, <4>1
    <3>2. CASE i \in S
      <4>1. i \in 1..n /\ out'[r][i] = out[r][i]
        BY <1>1, <1>3, <3>2
      <4>2. {j \in S \cup {n + 1} : j <= i} = {j \in S : j <= i}
        BY <1>1, <1>3, <4>1, CountOne
      <4> QED
        BY <1>3, <3>2, <4>1, <4>2
    <3> QED
      BY <2>3, <3>1, <3>2
  <2> QED
    BY <2>1, <2>2, <2>3 DEF Counted
<1>5. CASE e.by # "latent"
  <2>1. Sentinels(r)' = S
    <3>1. 1..(n + 1) = (1..n) \cup {n + 1}
      BY <1>1
    <3> QED
      BY <1>1, <1>2, <1>5, <3>1 DEF Sentinels
  <2>2. \A i \in S : out'[r][i] = out[r][i]
    BY <1>1, <1>3
  <2>3. Emittedz(r)' = Cardinality(S)
    BY <1>2, <1>3, <1>5
  <2>4. \A i \in S : out'[r][i].z = Cardinality({j \in S : j <= i})
    BY <1>3, <2>2
  <2> QED
    BY <2>1, <2>3, <2>4 DEF Counted
<1> QED
  BY <1>4, <1>5

\* What the promise emits, in counted order.
LEMMA PromiseKeepsLayout ==
  ASSUME PInv, NEW r \in Req, Layout(r), Owing(r), Counted(r),
         [Promise(r)!Next]_(Promise(r)!vars)
  PROVE  Layout(r)' /\ Owing(r)' /\ Counted(r)'
<1>1. out[r] \in Seq(Emitted) /\ Owed(r) \in Nat
  BY OwedType DEF PInv, SInv, IInv, TypeOK
<1>2. Emittedz(r) \in Nat
  <2>1. Sentinels(r) \in SUBSET (1..Len(out[r])) /\ Len(out[r]) \in Nat
    BY <1>1 DEF Sentinels
  <2>2. IsFiniteSet(1..Len(out[r]))
    BY <2>1, FS_Interval
  <2>3. IsFiniteSet(Sentinels(r))
    BY <2>1, <2>2, FS_Subset
  <2> QED
    BY <2>3, FS_CardinalityType DEF Counted
<1>3. CASE UNCHANGED Promise(r)!vars
  <2>1. out'[r] = out[r] /\ Owed(r)' = Owed(r) /\ Emittedz(r)' = Emittedz(r)
    BY <1>3 DEF Promise!vars
  <2>2. \A i : SampledOpen(r, i)' <=> SampledOpen(r, i)
    BY <2>1 DEF SampledOpen
  <2>3. Sentinels(r)' = Sentinels(r)
    BY <2>1 DEF Sentinels
  <2>4. Layout(r)'
    BY <2>1, <2>2 DEF Layout, BlockSize
  <2>5. Owing(r)'
    BY <2>1, <2>2 DEF Owing, BlockSize
  <2>6. Counted(r)'
    BY <2>1, <2>3 DEF Counted
  <2> QED
    BY <2>4, <2>5, <2>6
<1>4. ASSUME NEW t \in Tokens, Promise(r)!Speak(t)
      PROVE  Layout(r)' /\ Owing(r)' /\ Counted(r)'
  <2>1. PICK e : e = [tok |-> t, by |-> "model", z |-> 0]
    OBVIOUS
  <2>2. e \in Emitted /\ e.by # "latent"
    BY <2>1 DEF Emitted
  <2>3. out'[r] = Append(out[r], e) /\ Emittedz(r)' = Emittedz(r)
    BY <1>4, <2>1 DEF Promise!Speak, Promise!Emit
  <2>4. Counted(r)'
    BY <1>1, <1>2, <2>2, <2>3, EmitCounted
  <2> QED
    BY <1>1, <1>4, <2>4, SpeakOwing
<1>5. CASE Promise(r)!Reason
  <2>1. PICK e : e = Promise(r)!Piece(Owed(r))
    OBVIOUS
  <2>2. out'[r] = Append(out[r], e)
    BY <1>5, <2>1 DEF Promise!Reason, Promise!Emit
  <2>3. CASE Owed(r) > Len(CloseIds)
    <3>1. e = [tok |-> Sentinel, by |-> "latent", z |-> Emittedz(r) + 1]
      BY <2>1, <2>3 DEF Promise!Piece
    <3>2. e \in Emitted /\ e.by = "latent" /\ e.z = Emittedz(r) + 1
      BY <1>2, <3>1, PluginAssumption DEF Emitted
    <3>3. Emittedz(r)' = Emittedz(r) + 1
      BY <1>5, <2>3 DEF Promise!Reason
    <3>4. Counted(r)'
      BY <1>1, <1>2, <2>2, <3>2, <3>3, EmitCounted
    <3> QED
      BY <1>1, <1>2, <1>5, <3>4, ReasonOwing
  <2>4. CASE ~(Owed(r) > Len(CloseIds))
    <3>1. e = [tok |-> CloseIds[Len(CloseIds) - Owed(r) + 1], by |-> "close", z |-> 0]
      BY <2>1, <2>4 DEF Promise!Piece
    <3>2. Len(CloseIds) - Owed(r) + 1 \in 1..Len(CloseIds)
      BY <1>1, <1>5, <2>4, Sizes DEF Promise!Reason
    <3>3. CloseIds[Len(CloseIds) - Owed(r) + 1] \in Tokens
      BY <3>2, PluginAssumption, ElementOfSeq
    <3>4. e \in Emitted /\ e.by # "latent"
      BY <3>1, <3>3 DEF Emitted
    <3>5. Emittedz(r)' = Emittedz(r)
      BY <1>5, <2>4 DEF Promise!Reason
    <3>6. Counted(r)'
      BY <1>1, <1>2, <2>2, <3>4, <3>5, EmitCounted
    <3> QED
      BY <1>1, <1>2, <1>5, <3>6, ReasonOwing
  <2> QED
    BY <2>3, <2>4
<1> QED
  BY <1>3, <1>4, <1>5 DEF Promise!Next

LEMMA InitLInv == Init => LInv
<1> SUFFICES ASSUME Init PROVE LInv
  OBVIOUS
<1>1. PInv /\ \A r \in Req : Promise(r)!Init
  BY InitPromise
<1>2. ASSUME NEW r \in Req PROVE Layout(r) /\ Owing(r) /\ Counted(r)
  <2>1. /\ out[r] = <<>> /\ Len(out[r]) = 0 /\ DOMAIN out[r] = {}
        /\ Owed(r) = 0 /\ Emittedz(r) = 0
    BY <1>1, <1>2 DEF Promise!Init
  <2>2. Sentinels(r) = {} /\ Cardinality({}) = 0
    BY <2>1, FS_EmptySet DEF Sentinels
  <2>3. Layout(r)
    BY <2>1 DEF Layout
  <2>4. Owing(r)
    BY <2>1, Sizes DEF Owing
  <2>5. Counted(r)
    BY <2>1, <2>2 DEF Counted
  <2> QED
    BY <2>3, <2>4, <2>5
<1> QED
  BY <1>1, <1>2 DEF LInv

LEMMA NextLInv ==
  ASSUME ~Chunked, LInv, [Next]_vars
  PROVE  LInv'
<1>1. PInv' /\ \A r \in Req : [Promise(r)!Next]_(Promise(r)!vars)
  BY NextServes DEF LInv
<1>2. \A r \in Req : Layout(r)' /\ Owing(r)' /\ Counted(r)'
  BY <1>1, PromiseKeepsLayout DEF LInv
<1> QED
  BY <1>1, <1>2 DEF LInv

\* Behind every open literal that the model wrote come K sentinels and the whole close
\* literal, cut only by the end of the request, and a forced piece stands nowhere else.
THEOREM BlocksAreWhole ==
  ASSUME ~Chunked
  PROVE  Spec => []BlockLayout
<1>1. LInv /\ [Next]_vars => LInv'
  BY NextLInv
<1>2. LInv => BlockLayout
  BY DEF LInv, Layout, BlockLayout, BlockSize
<1> QED
  BY <1>1, <1>2, InitLInv, PTL DEF Spec

\* Between steps a request has captured one z for each of its sentinels, in their order:
\* whoever pairs the two by counting pairs them right.
THEOREM OneZPerSentinel ==
  ASSUME ~Chunked
  PROVE  Spec => []ZPerSentinel
<1>1. LInv /\ [Next]_vars => LInv'
  BY NextLInv
<1>2. ASSUME LInv PROVE ZPerSentinel
  <2> SUFFICES ASSUME phase = "schedule", NEW r \in Req
               PROVE  captured[r] = Cardinality(Sentinels(r))
                      /\ \A i \in Sentinels(r) :
                           out[r][i].z = Cardinality({j \in Sentinels(r) : j <= i})
    BY DEF ZPerSentinel
  <2>1. Emittedz(r) = captured[r]
    BY DEF Emittedz, MidStep
  <2> QED
    BY <1>2, <2>1 DEF LInv, Counted
<1> QED
  BY <1>1, <1>2, InitLInv, PTL DEF Spec
=============================================================================
