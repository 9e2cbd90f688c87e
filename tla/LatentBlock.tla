----------------------------- MODULE LatentBlock -----------------------------
(***************************************************************************)
(* What the plugin promises about one request, with no engine, no masks    *)
(* and no batch: the model speaks freely until it has written the open     *)
(* literal; from then on the request owes a whole block, K sentinels that  *)
(* stand for projector outputs in order and the close literal, and nothing *)
(* but the end of the request gets between its pieces.                     *)
(* This is the layout of a training example (alar/sft_data/base.py).       *)
(***************************************************************************)
EXTENDS Integers, Sequences

CONSTANTS Tokens, OpenIds, CloseIds, Sentinel, Eos, K, MaxOut

VARIABLES
  out,    \* what the request has emitted
  owed,   \* pieces of the current block still to emit; 0 outside a block
  zs,     \* projector outputs the sentinels of out stand for
  ended

vars == <<out, owed, zs, ended>>

BlockLen == K + Len(CloseIds)

\* The literal counts only if the model wrote all of it itself.
Opens(o) ==
  LET from == Len(o) - Len(OpenIds)
  IN  /\ from >= 0
      /\ \A j \in 1..Len(OpenIds) : /\ o[from + j].by = "model"
                                    /\ o[from + j].tok = OpenIds[j]

\* The piece a request that owes n emits next.
Piece(n) ==
  IF n > Len(CloseIds)
  THEN [tok |-> Sentinel, by |-> "latent", z |-> zs + 1]
  ELSE [tok |-> CloseIds[Len(CloseIds) - n + 1], by |-> "close", z |-> 0]

Emit(piece) ==
  /\ ~ended
  /\ out' = Append(out, piece)
  /\ ended' = (piece.tok = Eos \/ Len(out') >= MaxOut)

Speak(t) ==
  /\ owed = 0
  /\ Emit([tok |-> t, by |-> "model", z |-> 0])
  /\ owed' = IF Opens(out') THEN BlockLen ELSE 0
  /\ UNCHANGED zs

Reason ==
  /\ owed > 0
  /\ Emit(Piece(owed))
  /\ owed' = owed - 1
  /\ zs' = IF owed > Len(CloseIds) THEN zs + 1 ELSE zs

Init == out = <<>> /\ owed = 0 /\ zs = 0 /\ ended = FALSE
Next == Reason \/ \E t \in Tokens : Speak(t)

Spec == Init /\ [][Next]_vars
=============================================================================
