--------------------------- MODULE MCLatentPlugin ---------------------------
(* Instances of LatentPlugin for TLC. *)
EXTENDS LatentPlugin

CONSTANTS r1, r2

MCReq1 == {r1}
MCReq2 == {r1, r2}

\* Literals that share their last piece, as Qwen's tokenizer splits the real ones;
\* two pieces each, so that whole blocks fit a short request.
MCOpen2 == <<"lt", "gt">>
MCClose2 == <<"ltslash", "gt">>
MCTokens2 == {"lt", "gt", "ltslash", "bullet", "eos"}

\* One-piece open literal, two-piece close literal, for batches of two.
MCOpen1 == <<"latent">>
MCClose1 == <<"ltslash", "gt">>
MCTokens1 == {"latent", "ltslash", "gt", "bullet", "eos"}
=============================================================================
