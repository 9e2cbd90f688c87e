------------------------------ MODULE TurnSync ------------------------------
(***************************************************************************)
(* Teacher rollouts for the tool agent (tool/rollout/run_turn_sync.py):    *)
(* every turn is posted for all active episodes at once, an episode that   *)
(* ends is scored and appended to the output file at that moment, a run    *)
(* that crashed is started again and skips the signatures it finds there.  *)
(* What prepare_sft_data.py then keeps of the file is in PrepareSft.       *)
(*                                                                         *)
(* A reply is right or wrong, and the conversation's length is "short",    *)
(* "long" (over half of max_token_length) or "over" (all of it).           *)
(***************************************************************************)
EXTENDS Integers, Sequences, FiniteSets, JsonLines

CONSTANTS
  Item,          \* dataset items of the shard (item_idx)
  Rollouts,      \* ROLLOUT_N
  Turns,         \* Turns[i]: expected calls of each turn of i; 0 is a narration
  TurnsCap,      \* MAX_TURNS_CAP, 0 is none
  HasTokenLimit, \* MAX_TOKEN_LENGTH > 0
  MaxCrashes,    \* bound on the crashes
  TornWrites     \* a crash may cut a record

Ep == Item \X (0..(Rollouts - 1))
Lengths == <<"short", "long", "over">>

ASSUME TurnSyncAssumption ==
  /\ {Rollouts, TurnsCap, MaxCrashes} \subseteq Nat
  /\ \A i \in Item : Turns[i] \in Seq(Nat) \ {<<>>}
  /\ {HasTokenLimit, TornWrites} \subseteq BOOLEAN

VARIABLES
  pc,        \* "off", "turn", "posting", "final", "done" (logged) or "raised"
  file,      \* the lines of the output file
  crashes,
  todo,      \* the episodes of this run (states)
  turn,      \* turn_idx
  inflight,  \* the posts of the turn not settled
  good,      \* turns of each episode answered as expected
  end,       \* why it is inactive: "none" (active), "mismatch", "narration", "error", "length"
  length,    \* 1..3, index in Lengths
  written

run == <<todo, turn, inflight, good, end, length, written>>
vars == <<pc, file, crashes, run>>

MaxTurns(e) ==
  LET n == Len(Turns[e[1]]) IN IF TurnsCap > 0 /\ TurnsCap < n THEN TurnsCap ELSE n

-----------------------------------------------------------------------------
(* The output file *)

DoneSignatures == {file[j].sig : j \in ReadableLines(file)}

\* score_episode and the length decay: at least 1.5 when every call is right, less
\* when that conversation is long; at most 0 counts as -1.
Calls(i, n) ==
  LET calls[m \in 0..n] == IF m = 0 THEN 0 ELSE calls[m - 1] + Turns[i][m]
  IN  calls[n]
RightAndOneMore(e, g) == Calls(e[1], IF g < Len(Turns[e[1]]) THEN g + 1 ELSE g)
Right(e, g) == Calls(e[1], g)
Score(e, g, why, len) ==
  LET total == Calls(e[1], Len(Turns[e[1]]))
      right == Right(e, g)
  IN  CASE total = 0 -> IF len = 3 THEN "rejected" ELSE "positive"
        [] total > 0 /\ right = total -> IF len = 1 THEN "perfect" ELSE "positive"
        [] total > right -> IF right = 0 \/ (why = "mismatch" /\ 5 * right <= total)
                            THEN "rejected" ELSE "positive"

Record(e, g, why, len) ==
  [sig |-> e, score |-> Score(e, g, why, len), good |-> g, end |-> why, kind |-> "new"]

\* Without a token limit the decay of a perfect score divides by zero.
Raises(e, g) == ~HasTokenLimit /\ Right(e, g) = Calls(e[1], Len(Turns[e[1]]))

-----------------------------------------------------------------------------
(* A run *)

Forgotten ==
  /\ todo' = {} /\ turn' = 0 /\ inflight' = {} /\ written' = {}
  /\ good' = [e \in Ep |-> 0] /\ end' = [e \in Ep |-> "none"] /\ length' = [e \in Ep |-> 1]

Init ==
  /\ pc = "off" /\ file = <<>> /\ crashes = 0
  /\ todo = {} /\ turn = 0 /\ inflight = {} /\ written = {}
  /\ good = [e \in Ep |-> 0] /\ end = [e \in Ep |-> "none"] /\ length = [e \in Ep |-> 1]

\* load_done_signatures; a run that has nothing to do is done.
SkippedNone == {}
SkippedByItem == {e \in Ep : \E s \in DoneSignatures : s[1] = e[1]}
Skipped == DoneSignatures
Start ==
  /\ pc = "off"
  /\ todo' = Ep \ Skipped
  /\ pc' = IF todo' = {} THEN "done" ELSE "turn"
  /\ UNCHANGED <<file, crashes, turn, inflight, good, end, length, written>>

\* One task per active episode, or the end of the turns.
NextTurn ==
  /\ pc = "turn"
  /\ inflight' = IF \E e \in todo : turn < MaxTurns(e)
                 THEN {e \in todo \ written : end[e] = "none" /\ turn < MaxTurns(e)} ELSE {}
  /\ pc' = IF inflight' = {} THEN "final" ELSE "posting"
  /\ UNCHANGED <<file, crashes, todo, turn, good, end, length, written>>

\* The post and _advance_one: what becomes of good, end and length.
Replies(e) ==
  LET grown == {l \in 1..3 : l >= length[e]}
      narrates == Turns[e[1]][turn + 1] = 0
  IN  {[good |-> good[e] + 1, end |-> IF l = 3 /\ HasTokenLimit THEN "length" ELSE "none",
        length |-> l] : l \in grown}
      \cup {[good |-> good[e], end |-> IF narrates THEN "narration" ELSE "mismatch",
             length |-> l] : l \in grown}
      \cup {[good |-> good[e], end |-> "error", length |-> length[e]]}

\* Inactive, or in its last turn.
OverAtLast(e, r) == turn + 1 >= MaxTurns(e)
Over(e, r) == r.end # "none" \/ turn + 1 >= MaxTurns(e)

\* post_and_finalize: the record of an episode that is over is written at once; if
\* scoring it raises, the task is lost in gather's results.
Settle(e) ==
  /\ pc = "posting" /\ e \in inflight
  /\ inflight' = inflight \ {e}
  /\ \E r \in Replies(e) :
       /\ good' = [good EXCEPT ![e] = r.good]
       /\ end' = [end EXCEPT ![e] = r.end]
       /\ length' = [length EXCEPT ![e] = r.length]
       /\ IF Over(e, r) /\ ~Raises(e, r.good)
          THEN /\ file' = AppendLine(file, Record(e, r.good, r.end, r.length), "whole")
               /\ written' = written \cup {e}
          ELSE UNCHANGED <<file, written>>
  /\ UNCHANGED <<pc, crashes, todo, turn>>

TurnOver ==
  /\ pc = "posting" /\ inflight = {}
  /\ turn' = turn + 1
  /\ pc' = "turn"
  /\ UNCHANGED <<file, crashes, todo, inflight, good, end, length, written>>

\* The defensive pass over what was never written.
Final ==
  /\ pc = "final"
  /\ IF todo = written
     THEN pc' = "done" /\ UNCHANGED <<file, written>>
     ELSE \E e \in todo \ written :
       IF Raises(e, good[e])
       THEN pc' = "raised" /\ UNCHANGED <<file, written>>
       ELSE /\ file' = AppendLine(file, Record(e, good[e], end[e], length[e]), "whole")
            /\ written' = written \cup {e}
            /\ UNCHANGED pc
  /\ UNCHANGED <<crashes, todo, turn, inflight, good, end, length>>

Restarts ==
  /\ crashes < MaxCrashes
  /\ pc' = "off" /\ crashes' = crashes + 1
  /\ Forgotten

\* The process dies between two writes,
Crash ==
  /\ pc \in {"turn", "posting", "final"}
  /\ Restarts
  /\ UNCHANGED file

\* or in one.
CrashInWrite(e) ==
  /\ TornWrites
  /\ pc = "posting" /\ e \in inflight
  /\ Restarts
  /\ \E r \in Replies(e), kind \in {"torn", "unended"} :
       /\ Over(e, r) /\ ~Raises(e, r.good)
       /\ file' = AppendLine(file, Record(e, r.good, r.end, r.length), kind)

Stopped == pc \in {"done", "raised"} /\ UNCHANGED vars

Next ==
  \/ Start \/ NextTurn \/ TurnOver \/ Final \/ Crash \/ Stopped
  \/ \E e \in Ep : Settle(e) \/ CrashInWrite(e)
Spec == Init /\ [][Next]_vars

\* A crashed run is started again, and every post settles: it has a timeout.
Fairness ==
  /\ WF_vars(Start) /\ WF_vars(NextTurn) /\ WF_vars(TurnOver) /\ WF_vars(Final)
  /\ \A e \in Ep : WF_vars(Settle(e))
FairSpec == Spec /\ Fairness

-----------------------------------------------------------------------------
(* Properties *)

Perfect == {j \in ReadableLines(file) : file[j].score = "perfect"}

\* Resuming never runs an episode again that is on disk: no signature twice.
OncePerSignature ==
  \A j, k \in ReadableLines(file) : j # k => file[j].sig # file[k].sig

\* Crashes and restarts put it off, but every episode gets recorded: none is lost
\* but on a line that a crash cut, which costs at most its own record and the one
\* joined to it.
AllRecorded ==
  <>[](Cardinality(Ep \ DoneSignatures)
         <= 2 * Cardinality(CutLines(file)))

\* The defensive pass finds nothing: "shouldn't happen".
NothingLeftOver == pc = "final" => todo = written

\* A score of 1.5, "perfect", misses no call and hides no mismatch, whenever the episode ended.
PerfectCallsAllRight ==
  \A j \in Perfect : LET i == file[j].sig[1] IN
    /\ file[j].end # "mismatch"
    /\ \A t \in DOMAIN Turns[i] : Turns[i][t] > 0 => t <= file[j].good
=============================================================================
