----------------------------- MODULE LatentMask -----------------------------
(***************************************************************************)
(* How the two sides of training find latent blocks in bare token ids: the *)
(* agent loop when it builds the loss mask and pairs captured z's with     *)
(* sentinels, and the actor when it rebuilds the latent mask.  Both match  *)
(* the surface pattern; neither is told where the plugin really spliced.   *)
(***************************************************************************)
EXTENDS Integers, Sequences, FiniteSets

CONSTANTS OpenIds, CloseIds, Sentinel, K

Span == Len(OpenIds) + K + Len(CloseIds)

\* <open> K tokens <close> stands at position i of ids.
MatchAt(ids, i) ==
  /\ i + Span - 1 <= Len(ids)
  /\ \A j \in 1..Len(OpenIds) : ids[i + j - 1] = OpenIds[j]
  /\ \A j \in 1..Len(CloseIds) : ids[i + Len(OpenIds) + K + j - 1] = CloseIds[j]

\* The K positions inside a match at i.
Inside(i) == (i + Len(OpenIds))..(i + Len(OpenIds) + K - 1)

\* _build_response_mask's scan from position i on: after a match it goes on
\* behind the block.
Scan(ids) ==
  LET starts[i \in 1..(Len(ids) + Span)] ==
        IF i + Span - 1 > Len(ids) THEN {}
        ELSE IF MatchAt(ids, i) THEN {i} \cup starts[i + Span]
        ELSE starts[i + 1]
  IN  starts[1]

\* The loss mask of a turn: 0 inside the blocks the scan finds, and on any
\* other sentinel.
ResponseMaskBlocksOnly(ids) ==
  LET blocks == UNION {Inside(i) : i \in Scan(ids)}
  IN  [p \in 1..Len(ids) |-> IF p \in blocks THEN 0 ELSE 1]
ResponseMask(ids) ==
  LET blocks == UNION {Inside(i) : i \in Scan(ids)}
  IN  [p \in 1..Len(ids) |-> IF p \in blocks \/ ids[p] = Sentinel THEN 0 ELSE 1]

\* The number of a sentinel among the sentinels, and the positions that take the n
\* captured z's of a turn: its first n sentinels.
Rank(ids, p) == Cardinality({q \in 1..p : ids[q] = Sentinel})
ZPositions(ids, n) == {p \in 1..Len(ids) : ids[p] = Sentinel /\ Rank(ids, p) <= n}

\* The actor's latent mask: inside every match, overlapping ones too.
ReconstructMaskOff(ids) ==
  UNION {(i + Len(OpenIds) - 1)..(i + Len(OpenIds) + K - 2) :
         i \in {j \in 1..Len(ids) : MatchAt(ids, j)}}
ReconstructMask(ids) == UNION {Inside(i) : i \in {j \in 1..Len(ids) : MatchAt(ids, j)}}
=============================================================================
