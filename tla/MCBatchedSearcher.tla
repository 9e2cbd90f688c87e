------------------------- MODULE MCBatchedSearcher -------------------------
(* Instances of BatchedSearcher for TLC: one request with two queries, one    *)
(* without a topk, one that asks for little; more documents than anyone wants *)
(* for the first query, fewer for the second.                                 *)
EXTENDS BatchedSearcher

MCReq == {"two", "null", "small", "far"}
MCQueriesOf == [r \in MCReq |-> IF r = "two" THEN <<"q1", "q2">> ELSE <<"q1">>]
MCTopkOf == [r \in MCReq |-> CASE r = "two" -> 2 [] r = "null" -> 0 [] r = "small" -> 1
                             [] r = "far" -> 5]
MCRanking == [q \in {"q1", "q2"} |-> IF q = "q1" THEN <<"a", "b", "c", "d">> ELSE <<"e">>]
=============================================================================
