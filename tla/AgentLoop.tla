------------------------------ MODULE AgentLoop ------------------------------
(***************************************************************************)
(* One rollout of the search agent (search/rl/agent_loop.py): generate a   *)
(* turn through the engine, collect the z's the plugin left in a file,     *)
(* retrieve and go on, until an answer, a turn without a search, the last  *)
(* turn or the response length ends it; then truncate everything alike.    *)
(* A rollout of the tool agent (tool/rl/agent_loop.py) is one whose first  *)
(* turn does not search.                                                   *)
(*                                                                         *)
(* The engine is LatentBlock's promise: Turns are the outputs it allows.   *)
(*                                                                         *)
(* KeptAll, ContinuedAfresh and TurnPairsNoOffset, and the like in the     *)
(* other modules, are variants of the definition below them that a slip in *)
(* the code would make; nothing uses them but the checks that a property   *)
(* is able to fail.                                                        *)
(***************************************************************************)
EXTENDS LatentMask, SequencesExt

CONSTANTS          \* and OpenIds, CloseIds, Sentinel, K of LatentMask
  ModelTokens,     \* what the model may sample
  Search, Answer,  \* tokens that stand for a whole <search>q</search>, <answer>a</answer>
  MaxTurns,        \* LATENT_MAX_TURNS
  MaxTurnLen,      \* the engine's max_tokens
  ResponseLength,  \* rollout_config.response_length
  InfoTokens,      \* tokens of a retrieved <information> block
  MaxInfo,         \* bound on its length
  PersistFails,    \* the plugin's writes of the z file may fail
  ReportsLogProbs  \* rollout.calculate_log_probs

ASSUME AgentAssumption ==
  /\ K \in Nat \ {0}
  /\ OpenIds \in Seq(Range(OpenIds)) \ {<<>>} /\ CloseIds \in Seq(Range(CloseIds)) \ {<<>>}
  /\ {MaxTurns, MaxTurnLen, ResponseLength, MaxInfo} \subseteq Nat \ {0}
  /\ {PersistFails, ReportsLogProbs} \subseteq BOOLEAN

VARIABLES
  pc,         \* "loop", "generating", "harvest", "retrieving", "done"
  turn,       \* turns begun (num_turns)
  reply,      \* out.token_ids of the turn, with what the plugin knows of each
  zfile,      \* z_seq files in LATENT_Z_DIR: turn -> sequence of z's
  curPrompt,  \* cur_prompt behind prompt_ids
  ids,        \* response_ids
  mask,       \* response_mask
  logprobs,   \* response_logprobs: TRUE where the engine reported one
  pairs,      \* latent_z_pairs
  lost,       \* turns whose z file lacks a z the plugin captured
  dense       \* latent_z_dense: positions with a z, once done

vars == <<pc, turn, reply, zfile, curPrompt, ids, mask, logprobs, pairs,
          lost, dense>>

Tok(s) == [i \in DOMAIN s |-> s[i].tok]
Column(n, x) == [i \in 1..n |-> x]

-----------------------------------------------------------------------------
(* The outputs of a turn (external: LatentBlock, bounded) *)

Block(out, owed, zs, ended) == INSTANCE LatentBlock WITH
  Tokens <- ModelTokens, Eos <- "eos", MaxOut <- MaxTurnLen

Stops(o) == o # <<>> /\ o[Len(o)].tok \in {Search, Answer, "eos"}

\* One piece more: sampled, or spliced in.
Speak(s, t) ==
  LET o == Append(s.out, [tok |-> t, by |-> "model", z |-> 0])
  IN  [out |-> o, zs |-> s.zs,
       owed |-> IF Block(o, 0, 0, FALSE)!Opens(o) THEN K + Len(CloseIds) ELSE 0]
Reason(s) ==
  [out |-> Append(s.out, Block(s.out, s.owed, s.zs, FALSE)!Piece(s.owed)),
   owed |-> s.owed - 1,
   zs |-> IF s.owed > Len(CloseIds) THEN s.zs + 1 ELSE s.zs]

Longer(S) ==
  LET open == {s \in S : ~Stops(s.out)}
  IN  {Reason(s) : s \in {s \in open : s.owed > 0}}
      \cup {Speak(s, t) : s \in {s \in open : s.owed = 0}, t \in ModelTokens}

\* Outputs of length n with the pieces owed behind them.
Partial[n \in 0..MaxTurnLen] ==
  IF n = 0 THEN {[out |-> <<>>, owed |-> 0, zs |-> 0]} ELSE Longer(Partial[n - 1])

Turns ==
  {s \in UNION {Partial[n] : n \in 1..MaxTurnLen} : Len(s.out) = MaxTurnLen \/ Stops(s.out)}

-----------------------------------------------------------------------------
Init ==
  /\ pc = "loop"
  /\ turn = 0
  /\ reply = <<>>
  /\ zfile = [t \in 1..MaxTurns |-> <<>>]
  /\ curPrompt = <<>> /\ ids = <<>> /\ mask = <<>> /\ logprobs = <<>>
  /\ pairs = {}
  /\ lost = {}
  /\ dense = {}

\* Behind the loop the three columns i, m and l are truncated alike, and the
\* pairs zs that lie behind the cut are dropped.
Cut(s) == SubSeq(s, 1, IF ResponseLength < Len(s) THEN ResponseLength ELSE Len(s))
Kept(zs, i) == {p \in zs : p[1] <= Len(Cut(i))}
Return(i, m, l, zs) ==
  /\ ids' = Cut(i) /\ mask' = Cut(m) /\ logprobs' = Cut(l)
  /\ dense' = Kept(zs, i)
  /\ pc' = "done"

\* The last turn is over, or the response is full.
Finish ==
  /\ pc = "loop"
  /\ turn = MaxTurns \/ Len(mask) >= ResponseLength
  /\ Return(ids, mask, logprobs, pairs)
  /\ UNCHANGED <<turn, reply, zfile, curPrompt, pairs, lost>>

\* A turn is sent to the engine under a request id of its own.
Generate ==
  /\ pc = "loop"
  /\ turn < MaxTurns
  /\ Len(mask) < ResponseLength
  /\ turn' = turn + 1
  /\ pc' = "generating"
  /\ UNCHANGED <<reply, zfile, curPrompt, ids, mask, logprobs, pairs, lost, dense>>

\* The engine answers (external).  The plugin rewrote the request's z file with
\* every z it captured; the file holds what the last successful write left.
EngineReplies ==
  /\ pc = "generating"
  /\ \E s \in Turns, written \in 0..MaxTurnLen :
       /\ written <= s.zs
       /\ written = s.zs \/ PersistFails
       /\ reply' = s.out
       /\ zfile' = [zfile EXCEPT ![turn] = [j \in 1..written |-> <<turn, j>>]]
       /\ lost' = IF written < s.zs THEN lost \cup {turn} ELSE lost
  /\ pc' = "harvest"
  /\ UNCHANGED <<turn, curPrompt, ids, mask, logprobs, pairs, dense>>

\* The reply as the response keeps it, marked with its turn.
Marked == [i \in DOMAIN reply |-> [tok |-> reply[i].tok, by |-> reply[i].by,
                                   z |-> <<turn, reply[i].z>>]]

\* turn_z paired with the sentinels of the turn, at their response positions.
TurnPairsNoOffset ==
  {<<p, zfile[turn][Rank(Tok(reply), p)]>> : p \in ZPositions(Tok(reply), Len(zfile[turn]))}
TurnPairs ==
  {<<Len(ids) + p, zfile[turn][Rank(Tok(reply), p)]>> :
     p \in ZPositions(Tok(reply), Len(zfile[turn]))}

Says(t) == \E i \in DOMAIN reply : reply[i].tok = t
\* The reply asks for a retrieval; anything else breaks out of the loop.
Searches == ~Says(Answer) /\ Says(Search)

\* cur_prompt, extended apart from response_ids: by the turn, then by the info.
ContinuedAfresh(more) == more
Continued(more) == curPrompt \o more

Harvest ==
  /\ pc = "harvest"
  /\ zfile' = [zfile EXCEPT ![turn] = <<>>]
  /\ pairs' = pairs \cup TurnPairs
  /\ curPrompt' = Continued(Marked)
  /\ LET i == ids \o Marked
         m == mask \o ResponseMask(Tok(reply))
         l == logprobs \o Column(Len(reply), ReportsLogProbs)
     IN IF Searches
        THEN /\ ids' = i /\ mask' = m /\ logprobs' = l
             /\ pc' = "retrieving"
             /\ UNCHANGED dense
        ELSE Return(i, m, l, pairs')
  /\ UNCHANGED <<turn, reply, lost>>

\* The retrieval answers, with documents or, having failed, without: the
\* information block is appended, unless it would reach the response length.
Retrieved ==
  /\ pc = "retrieving"
  /\ \E n \in 1..MaxInfo, t \in InfoTokens :
       LET info == Column(n, [tok |-> t, by |-> "retrieval", z |-> <<turn, 0>>])
       IN IF Len(mask) + n >= ResponseLength
          THEN Return(ids, mask, logprobs, pairs) /\ UNCHANGED curPrompt
          ELSE /\ curPrompt' = Continued(info)
               /\ ids' = ids \o info
               /\ mask' = mask \o Column(n, 0)
               /\ logprobs' = logprobs \o Column(n, FALSE)
               /\ pc' = "loop"
               /\ UNCHANGED dense
  /\ UNCHANGED <<turn, reply, zfile, pairs, lost>>

Terminated == pc = "done" /\ UNCHANGED vars

Next == Generate \/ EngineReplies \/ Harvest \/ Retrieved \/ Finish \/ Terminated
Spec == Init /\ [][Next]_vars

-----------------------------------------------------------------------------
(* Properties *)

\* A turn generates behind exactly the tokens that the trainer will see before
\* it: while the loop runs, cur_prompt and response_ids, kept apart and
\* extended in different places, hold the same tokens.
ContextIsResponse == pc \in {"loop", "generating", "harvest"} => curPrompt = ids

\* No loss on a token the policy had no part in by sampling: neither a spliced
\* sentinel, wherever the turn was cut, nor a retrieved token carries mask 1.
NoLossOffPolicy ==
  \A p \in DOMAIN ids : mask[p] = 1 => ids[p].by \notin {"latent", "retrieval"}

\* The captured z's are paired with the sentinels they were spliced in for:
\* counting per turn, offsets, the files and the truncation lose none out of step.
ZAligned ==
  \A p \in dense : ids[p[1]].by = "latent" /\ ids[p[1]].z = p[2]

\* The actor recomputes log probabilities in the context the rollout had: each
\* sentinel before a sampled token under loss is found by the pattern match and
\* has its own z, unless writing its turn's file failed; and the match finds no
\* position that was not spliced.
ActorContext ==
  pc = "done" =>
    /\ \A p \in ReconstructMask(Tok(ids)) : ids[p].by = "latent"
    /\ \A p, q \in DOMAIN ids :
         (p < q /\ ids[p].by = "latent" /\ ids[q].by = "model" /\ mask[q] = 1) =>
           /\ p \in ReconstructMask(Tok(ids))
           /\ ids[p].z[1] \in lost \/ <<p, ids[p].z>> \in dense

\* apply_bypass_mode's demand on the rollouts it takes old_log_probs from: the
\* engine reported a log probability for every token that the loss counts.
LossHasLogProb == \A p \in DOMAIN ids : mask[p] = 1 => logprobs[p]
=============================================================================
