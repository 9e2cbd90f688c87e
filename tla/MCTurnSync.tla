----------------------------- MODULE MCTurnSync -----------------------------
(* Instances of TurnSync and PrepareSft for TLC. *)
EXTENDS PrepareSft

\* Calls enough for the mismatch penalty to outweigh the ones that were right, and
\* a narration that the cap on turns leaves out.
MCItem == {1}
MCTurns == [i \in MCItem |-> <<1, 4, 0>>]
=============================================================================
