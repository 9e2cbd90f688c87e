------------------------------ MODULE JsonLines ------------------------------
(***************************************************************************)
(* The .jsonl files that runs append to and find again after a crash.      *)
(*                                                                         *)
(* A line is whole, or a crash cut it: torn in its text, or unended: whole *)
(* but for its newline.  What is appended to a cut line is joined to it,   *)
(* and both are lost.                                                      *)
(***************************************************************************)
EXTENDS Integers, Sequences

\* json.loads of the line returns.
Readable(line) == line.kind \in {"whole", "unended"}
ReadableLines(file) == {j \in DOMAIN file : Readable(file[j])}
CutLines(file) == DOMAIN file \ ReadableLines(file)

\* f.write(json.dumps(rec) + "\n"), all of it or (kind) cut.
AppendLine(file, rec, kind) ==
  IF file # <<>> /\ file[Len(file)].kind \in {"torn", "unended"}
  THEN [file EXCEPT ![Len(file)] =
          [rec EXCEPT !.kind = IF kind = "whole" THEN "joined" ELSE "torn"]]
  ELSE Append(file, [rec EXCEPT !.kind = kind])

\* Several whole lines: only the first can be joined to a cut one.
AppendLines(file, recs) ==
  IF recs = <<>> THEN file
  ELSE AppendLine(file, recs[1], "whole")
         \o [j \in 1..(Len(recs) - 1) |-> [recs[j + 1] EXCEPT !.kind = "whole"]]
=============================================================================
