----------------------------- MODULE PrepareSft -----------------------------
(***************************************************************************)
(* What tool/scripts/prepare_sft_data.py --dedup_by_item keeps of the file *)
(* that TurnSync wrote: the perfect rollouts, in the order of the lines.   *)
(***************************************************************************)
EXTENDS TurnSync

\* The lines are read one by one: a score under min_score or an item seen before
\* is passed over.
Known(kept, item) == \E j \in DOMAIN kept : kept[j][1] = item
ReadsEveryone(kept, line) ==
  IF line.score # "perfect" THEN kept ELSE Append(kept, line.sig)
Reads(kept, line) ==
  IF line.score # "perfect" \/ Known(kept, line.sig[1])
  THEN kept ELSE Append(kept, line.sig)
Kept ==
  LET kept[n \in 0..Len(file)] == IF n = 0 THEN <<>> ELSE Reads(kept[n - 1], file[n])
  IN  kept[Len(file)]

\* --dedup_by_item, behind crashes and restarts of the run that wrote the file: of
\* every item with a perfect rollout exactly one is kept, and of no other item any.
OnePerItem ==
  (pc = "done" /\ CutLines(file) = {}) =>
    \A i \in Item :
      Cardinality({k \in DOMAIN Kept : Kept[k][1] = i})
        = IF \E j \in Perfect : file[j].sig[1] = i THEN 1 ELSE 0
=============================================================================
