--------------------------- MODULE MCTurnRouting ---------------------------
(* Instances of TurnRouting for TLC. *)
EXTENDS TurnRouting

CONSTANTS a, b, c1, c2

MCServers == <<a, b>>
MCConv == {c1, c2}

\* Turns with two latent positions that end in the middle and at the edge of KV
\* blocks of two, and one cut in a block; the last token of a turn is never computed.
MCShapes == {<<TRUE, TRUE, FALSE>>, <<FALSE, TRUE, TRUE, FALSE>>, <<FALSE, TRUE>>}
\* One turn whose latent positions fill whole blocks of two.
MCAligned == {<<TRUE, TRUE, FALSE>>}
=============================================================================
