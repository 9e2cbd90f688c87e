----------------------------- MODULE SftExample -----------------------------
(***************************************************************************)
(* The examples that SFT trains on (search/dataset.py on top of            *)
(* alar/sft_data/base.py), beside the rollouts of AgentLoop that RL trains *)
(* on: columns built piece by piece, with the loss switched on and off,    *)
(* and cut at max_length.                                                  *)
(*                                                                         *)
(* A think block, and the blank line behind a reasoning, is one Text.      *)
(***************************************************************************)
EXTENDS AgentLoop

CONSTANT Text

\* append(): tokens, whether they are labels, and what they are.
Piece(toks, on, what) ==
  [ids |-> toks, loss |-> Column(Len(toks), IF on THEN 1 ELSE 0),
   what |-> Column(Len(toks), what)]
Join(a, b) ==
  [ids |-> a.ids \o b.ids, loss |-> a.loss \o b.loss, what |-> a.what \o b.what]

Sep == Piece(<<Text>>, TRUE, "text")
Think == Piece(<<Text>>, TRUE, "text")
SentinelsUnderLoss == Piece(Column(K, Sentinel), TRUE, "latent")
Sentinels == Piece(Column(K, Sentinel), FALSE, "latent")
LatentPieces ==
  Join(Join(Piece(OpenIds, TRUE, "text"), Sentinels), Join(Piece(CloseIds, TRUE, "text"), Sep))

\* A teacher's turn: with a thinking or without one, which makes it latent whatever
\* the coin says; then the query and the documents it found.
TeacherTurn == [thinks : BOOLEAN, coin : BOOLEAN, docs : InfoTokens \X (1..MaxInfo)]
Reasoning(t) == IF t.thinks /\ ~t.coin THEN Think ELSE LatentPieces
Docs(t) == Piece(Column(t.docs[2], t.docs[1]), FALSE, "docs")
TurnPieces(t) == Join(Join(Reasoning(t), Piece(<<Search>>, TRUE, "text")), Docs(t))
FinalPieces(t) ==
  Join(Reasoning(t), Join(Piece(<<Answer>>, TRUE, "text"), Piece(<<"eos">>, FALSE, "text")))

\* __getitem__ behind the prompt.
Example(turns, last) ==
  LET upTo[n \in 0..Len(turns)] ==
        IF n = 0 THEN Sep ELSE Join(upTo[n - 1], TurnPieces(turns[n]))
  IN  Join(upTo[Len(turns)], FinalPieces(last))
Truncate(x) == [ids |-> Cut(x.ids), loss |-> Cut(x.loss), what |-> Cut(x.what)]

Examples ==
  {Truncate(Example(turns, last)) :
     turns \in UNION {[1..n -> TeacherTurn] : n \in 0..(MaxTurns - 1)}, last \in TeacherTurn}

-----------------------------------------------------------------------------
\* "Identical at SFT, RL and eval": where a rollout says what an example says, up to
\* where either is cut, it is trained on in the same way, with loss on the same tokens
\* and z's spliced in at the same positions.
SaysAt(x, p) ==
  /\ x.ids[p] = ids[p].tok
  /\ x.what[p] = "docs" <=> ids[p].by = "retrieval"
TrainedAlike ==
  pc = "done" =>
    \A x \in Examples :
      (Len(ids) <= Len(x.ids) /\ \A p \in DOMAIN ids : SaysAt(x, p)) =>
        \A p \in DOMAIN ids :
          x.loss[p] = mask[p] /\ (x.what[p] = "latent" <=> ids[p].by = "latent")
=============================================================================
