------------------------------ MODULE MCArGrpo ------------------------------
(* Instances of ArGrpo for TLC. *)
EXTENDS ArGrpo

Explicit(n) == <<"think">> \o [k \in 1..n |-> "char"] \o <<"/think">>
\* Responses of each kind: without reasoning, latent, explicit of three lengths,
\* mixed, nested, and malformed in two ways.
MCKinds ==
  {<<>>, <<"latent">>, Explicit(1), Explicit(2), Explicit(5),
   <<"latent">> \o Explicit(1), <<"latent", "latent">> \o Explicit(5),
   <<"think">> \o Explicit(2) \o <<"/think">>, <<"think", "latent">>, <<"/think">>}

\* These, and every response of at most three tags.
MCTexts == MCKinds \cup UNION {[1..n -> Tags] : n \in 0..3}
=============================================================================
