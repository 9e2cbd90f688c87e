------------------------------ MODULE Retrieval ------------------------------
(***************************************************************************)
(* What POST /retrieve of the search server promises: a request that is    *)
(* answered gets, for each of its queries in their order, the topk best    *)
(* documents of that query; or it fails as a whole.  Nothing is said about *)
(* batches: they must not show.                                            *)
(***************************************************************************)
EXTENDS Naturals, Sequences

CONSTANTS
  Req,        \* requests of a run
  QueriesOf,  \* QueriesOf[r]: the queries of r
  TopkOf,     \* TopkOf[r]: request.topk, 0 when it is null
  Ranking     \* Ranking[q]: the documents that the index has for q, best first

VARIABLES status, answer
service == <<status, answer>>

\* request.topk or 3
Topk(r) == IF TopkOf[r] = 0 THEN 3 ELSE TopkOf[r]
Best(q, k) == SubSeq(Ranking[q], 1, IF k < Len(Ranking[q]) THEN k ELSE Len(Ranking[q]))
Due(r) == [i \in DOMAIN QueriesOf[r] |-> Best(QueriesOf[r][i], Topk(r))]

Init ==
  /\ status = [r \in Req |-> "idle"]
  /\ answer = [r \in Req |-> <<>>]

Ask(r) ==
  /\ status[r] = "idle"
  /\ status' = [status EXCEPT ![r] = "waiting"]
  /\ UNCHANGED answer

Answer(r) ==
  /\ status[r] = "waiting"
  /\ status' = [status EXCEPT ![r] = "answered"]
  /\ answer' = [answer EXCEPT ![r] = Due(r)]

Fail(r) ==
  /\ status[r] = "waiting"
  /\ status' = [status EXCEPT ![r] = "failed"]
  /\ UNCHANGED answer

Next == \E r \in Req : Ask(r) \/ Answer(r) \/ Fail(r)
Spec ==
  /\ Init /\ [][Next]_service
  /\ \A r \in Req : WF_service(Answer(r) \/ Fail(r))
=============================================================================
