----------------------------- MODULE MCTraceGen -----------------------------
(* Rows in two chunks; the first question comes again in the second. *)
EXTENDS TraceGen

MCQuestions == <<"q1", "q2", "q1", "q3">>
=============================================================================
