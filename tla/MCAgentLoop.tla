---------------------------- MODULE MCAgentLoop ----------------------------
(* Instances of AgentLoop for TLC: one-piece open literal, two-piece close. *)
EXTENDS SftExample

MCOpen == <<"open">>
MCClose == <<"close", "gt">>
MCModelTokens == {"open", "text", "search", "answer", "eos"}
MCInfoTokens == {"text", "bullet"}
=============================================================================
