--------------------------- MODULE BatchedSearcher ---------------------------
(***************************************************************************)
(* The search server's dynamic batching: /retrieve fans a request out into *)
(* one item per query, the batcher's task collects items until the batch   *)
(* is full or the wait is over, searches them at once with the largest     *)
(* topk, in an executor while requests keep coming, and sets the futures.  *)
(***************************************************************************)
EXTENDS Naturals, Sequences, FiniteSets, Functions

CONSTANTS Req, QueriesOf, TopkOf, Ranking, MaxBatch

ASSUME SearcherAssumption ==
  /\ MaxBatch \in Nat \ {0}
  /\ \A r \in Req : TopkOf[r] \in Nat /\ QueriesOf[r] \in Seq(DOMAIN Ranking)
  /\ \A q \in DOMAIN Ranking : Ranking[q] \in Seq(Range(Ranking[q]))

VARIABLES
  status, answer,  \* of the HTTP requests
  queue,           \* the items put but not taken yet
  pc, items,       \* the task: "first", "collect" or "search", and its batch
  future           \* of each item: "none", "pending", "raised", or its result

vars == <<status, answer, queue, pc, items, future>>

\* Item i of request r, <<r, i>>, stands for (query, topk, future).
Item == UNION {{r} \X DOMAIN QueriesOf[r] : r \in Req}
Service == INSTANCE Retrieval
QueryOf(it) == QueriesOf[it[1]][it[2]]

None == [state |-> "none", docs |-> <<>>]
Pending == [state |-> "pending", docs |-> <<>>]
Raised == [state |-> "raised", docs |-> <<>>]
Result(docs) == [state |-> "result", docs |-> docs]

Init ==
  /\ Service!Init
  /\ queue = <<>> /\ pc = "first" /\ items = <<>>
  /\ future = [it \in Item |-> None]

\* retrieve(request): one future and one queued item per query.
Ask(r) ==
  /\ Service!Ask(r)
  /\ queue' = queue \o [i \in DOMAIN QueriesOf[r] |-> <<r, i>>]
  /\ future' = [it \in Item |-> IF it[1] = r THEN Pending ELSE future[it]]
  /\ UNCHANGED <<pc, items>>

\* gather returns when every future has a result, or raises with the first that did.
Respond(r) ==
  /\ status[r] = "waiting"
  /\ LET futures == [i \in DOMAIN QueriesOf[r] |-> future[<<r, i>>]]
     IN \/ /\ \E i \in DOMAIN futures : futures[i] = Raised
           /\ status' = [status EXCEPT ![r] = "failed"]
           /\ UNCHANGED answer
        \/ /\ \A i \in DOMAIN futures : futures[i].state = "result"
           /\ status' = [status EXCEPT ![r] = "answered"]
           /\ answer' = [answer EXCEPT ![r] = [i \in DOMAIN futures |-> futures[i].docs]]
  /\ UNCHANGED <<queue, pc, items, future>>

-----------------------------------------------------------------------------
(* The batcher's task *)

Take ==
  /\ queue # <<>>
  /\ items' = Append(items, Head(queue))
  /\ queue' = Tail(queue)
  /\ UNCHANGED <<status, answer, future>>

First == pc = "first" /\ Take /\ pc' = "collect"
Collect == pc = "collect" /\ Len(items) < MaxBatch /\ Take /\ UNCHANGED pc

\* The batch is full, or max_wait is over, whether or not an item is there.
Search ==
  /\ pc = "collect"
  /\ pc' = "search"
  /\ UNCHANGED <<status, answer, queue, items, future>>

\* One search for the batch, with the largest topk asked for in it.
FirstTopk == Service!Topk(items[1][1])
MaxTopk ==
  LET topks == {Service!Topk(items[j][1]) : j \in DOMAIN items}
  IN  CHOOSE k \in topks : \A l \in topks : l <= k
Mine(it) ==
  LET hits == Service!Best(QueryOf(it), MaxTopk)
      topk == Service!Topk(it[1])
  IN  SubSeq(hits, 1, IF topk < Len(hits) THEN topk ELSE Len(hits))

\* The futures of the batch are set unless they are done.
Set(values) ==
  [it \in Item |-> IF it \in Range(items) /\ future[it] = Pending THEN values[it] ELSE future[it]]

Succeed ==
  /\ pc = "search"
  /\ future' = Set([it \in Range(items) |-> Result(Mine(it))])
  /\ items' = <<>> /\ pc' = "first"
  /\ UNCHANGED <<status, answer, queue>>

\* The search raises: so do all the futures of its batch.
Raise ==
  /\ pc = "search"
  /\ future' = Set([it \in Range(items) |-> Raised])
  /\ items' = <<>> /\ pc' = "first"
  /\ UNCHANGED <<status, answer, queue>>

Batch == First \/ Collect \/ Search \/ Succeed \/ Raise
AllAnswered ==
  /\ \A r \in Req : status[r] \in {"answered", "failed"}
  /\ queue = <<>> /\ pc = "first"
  /\ UNCHANGED vars

Next == (\E r \in Req : Ask(r) \/ Respond(r)) \/ Batch \/ AllAnswered
Spec == Init /\ [][Next]_vars

\* The event loop runs every task that is ready, and the executor finishes: the
\* batcher's task and each request's handler go on when they can.
Fairness == WF_vars(Batch) /\ \A r \in Req : WF_vars(Respond(r))
FairSpec == Spec /\ Fairness

-----------------------------------------------------------------------------
(* Properties *)

\* Batching does not show: requests get what each asked for, and none waits for
\* ever, whatever the arrivals, timeouts and failures.
KeepsPromise == Service!Spec
=============================================================================
