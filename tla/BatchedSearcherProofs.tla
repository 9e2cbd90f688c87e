------------------------ MODULE BatchedSearcherProofs ------------------------
(***************************************************************************)
(* Batching does not show, for any requests, rankings and batch sizes: the *)
(* safety part of the refinement of Retrieval by BatchedSearcher.          *)
(***************************************************************************)
EXTENDS BatchedSearcher, TLAPS, SequenceTheorems

Types ==
  /\ DOMAIN status = Req /\ DOMAIN answer = Req /\ DOMAIN future = Item
  /\ queue \in Seq(Item) /\ items \in Seq(Item)

\* Whatever batch an item was searched in, its future has what its request is due.
FuturesDue ==
  \A it \in Item : future[it].state = "result" =>
    future[it].docs = Service!Best(QueryOf(it), Service!Topk(it[1]))

\* j asks for no more than the deepest search of s.
Deepest(s, j) == \A l \in DOMAIN s : Service!Topk(s[l][1]) <= Service!Topk(s[j][1])
HasDeepest(s) == s # <<>> => \E j \in DOMAIN s : Deepest(s, j)

IInv == Types /\ FuturesDue /\ HasDeepest(items)

\* What an item consists of.
LEMMA ItemType ==
  ASSUME NEW it \in Item
  PROVE  /\ it[1] \in Req /\ it[2] \in DOMAIN QueriesOf[it[1]]
         /\ QueryOf(it) \in DOMAIN Ranking
         /\ Service!Topk(it[1]) \in Nat
         /\ \E S : Ranking[QueryOf(it)] \in Seq(S)
<1>1. it[1] \in Req /\ it[2] \in DOMAIN QueriesOf[it[1]]
  BY DEF Item
<1>2. QueriesOf[it[1]] \in Seq(DOMAIN Ranking)
  BY <1>1, SearcherAssumption
<1>3. QueryOf(it) \in DOMAIN Ranking
  BY <1>1, <1>2, ElementOfSeq DEF QueryOf
<1>4. Service!Topk(it[1]) \in Nat
  BY <1>1, SearcherAssumption DEF Service!Topk
<1>5. \E S : Ranking[QueryOf(it)] \in Seq(S)
  BY <1>3, SearcherAssumption
<1> QED
  BY <1>1, <1>3, <1>4, <1>5

\* The best n of the best m are the best n, when n is no more than m.
LEMMA BestOfBest ==
  ASSUME NEW S, NEW R \in Seq(S), NEW m \in Nat, NEW n \in Nat, n <= m,
         NEW hits, hits = SubSeq(R, 1, IF m < Len(R) THEN m ELSE Len(R))
  PROVE  SubSeq(hits, 1, IF n < Len(hits) THEN n ELSE Len(hits))
           = SubSeq(R, 1, IF n < Len(R) THEN n ELSE Len(R))
<1> DEFINE M == IF m < Len(R) THEN m ELSE Len(R)
           N == IF n < Len(R) THEN n ELSE Len(R)
<1>1. Len(R) \in Nat /\ M \in Nat /\ N \in Nat /\ N <= M /\ M <= Len(R)
  BY LenProperties
<1>2. \A i \in 1..Len(R) : R[i] \in S
  BY ElementOfSeq
<1>3. hits \in Seq(S) /\ Len(hits) = M /\ \A i \in 1..M : hits[i] = R[i]
  <2>1. \A i \in 1..M : R[i] \in S
    BY <1>1, <1>2
  <2>2. /\ SubSeq(R, 1, M) \in Seq(S)
        /\ Len(SubSeq(R, 1, M)) = IF 1 <= M THEN M - 1 + 1 ELSE 0
        /\ \A i \in 1..(M - 1 + 1) : SubSeq(R, 1, M)[i] = R[1 + i - 1]
    BY <1>1, <2>1, SubSeqProperties
  <2> QED
    BY <1>1, <2>2
<1>4. (IF n < Len(hits) THEN n ELSE Len(hits)) = N
  BY <1>1, <1>3
<1>5. /\ SubSeq(R, 1, N) \in Seq(S) /\ Len(SubSeq(R, 1, N)) = N
      /\ \A i \in 1..N : SubSeq(R, 1, N)[i] = R[i]
  <2>1. \A i \in 1..N : R[i] \in S
    BY <1>1, <1>2
  <2>2. /\ SubSeq(R, 1, N) \in Seq(S)
        /\ Len(SubSeq(R, 1, N)) = IF 1 <= N THEN N - 1 + 1 ELSE 0
        /\ \A i \in 1..(N - 1 + 1) : SubSeq(R, 1, N)[i] = R[1 + i - 1]
    BY <1>1, <2>1, SubSeqProperties
  <2> QED
    BY <1>1, <2>2
<1>6. /\ SubSeq(hits, 1, N) \in Seq(S) /\ Len(SubSeq(hits, 1, N)) = N
      /\ \A i \in 1..N : SubSeq(hits, 1, N)[i] = R[i]
  <2>1. \A i \in 1..N : hits[i] \in S
    BY <1>1, <1>2, <1>3
  <2>2. /\ SubSeq(hits, 1, N) \in Seq(S)
        /\ Len(SubSeq(hits, 1, N)) = IF 1 <= N THEN N - 1 + 1 ELSE 0
        /\ \A i \in 1..(N - 1 + 1) : SubSeq(hits, 1, N)[i] = hits[1 + i - 1]
    BY <1>1, <2>1, SubSeqProperties
  <2>3. \A i \in 1..N : SubSeq(hits, 1, N)[i] = hits[i] /\ hits[i] = R[i]
    BY <1>1, <1>3, <2>2
  <2> QED
    BY <1>1, <2>2, <2>3
<1>7. SubSeq(hits, 1, N) = SubSeq(R, 1, N)
  <2> DEFINE a == SubSeq(hits, 1, N)
             b == SubSeq(R, 1, N)
  <2>1. a \in Seq(S) /\ b \in Seq(S) /\ Len(a) = Len(b) /\ \A i \in 1..Len(a) : a[i] = b[i]
    BY <1>5, <1>6
  <2> HIDE DEF a, b
  <2>2. a = b
    BY <2>1, SeqEqual
  <2> QED
    BY <2>2 DEF a, b
<1> QED
  BY <1>4, <1>7

\* One search, deep enough for the whole batch, serves each of its items.
LEMMA MineIsDue ==
  ASSUME IInv, NEW it \in Range(items)
  PROVE  /\ it \in Item
         /\ Mine(it) = Service!Best(QueryOf(it), Service!Topk(it[1]))
<1> DEFINE topks == {Service!Topk(items[l][1]) : l \in DOMAIN items}
<1>1. PICK i \in DOMAIN items : it = items[i]
  BY DEF Range
<1>2. \A l \in DOMAIN items : items[l] \in Item
  BY DEF IInv, Types
<1>3. items # <<>>
  BY <1>1
<1>4. PICK j \in DOMAIN items : Deepest(items, j)
  BY <1>3 DEF IInv, HasDeepest
<1>5. \E k \in topks : \A l \in topks : l <= k
  BY <1>4 DEF Deepest
<1>6. MaxTopk \in topks /\ \A l \in topks : l <= MaxTopk
  BY <1>5 DEF MaxTopk
<1>7. MaxTopk \in Nat
  BY <1>2, <1>6, ItemType
<1>8. it \in Item /\ Service!Topk(it[1]) \in Nat /\ Service!Topk(it[1]) <= MaxTopk
  BY <1>1, <1>2, <1>6, ItemType
<1>9. PICK S : Ranking[QueryOf(it)] \in Seq(S)
  BY <1>8, ItemType
<1> HIDE DEF topks
<1>10. Mine(it) = Service!Best(QueryOf(it), Service!Topk(it[1]))
  BY <1>7, <1>8, <1>9, BestOfBest DEF Mine, Service!Best
<1> QED
  BY <1>8, <1>10

LEMMA TakeKeepsDeepest ==
  ASSUME IInv, Take
  PROVE  items' \in Seq(Item) /\ queue' \in Seq(Item) /\ HasDeepest(items')
<1>1. Head(queue) \in Item /\ queue' \in Seq(Item) /\ items' \in Seq(Item)
  BY HeadTailProperties DEF IInv, Types, Take
<1> DEFINE new == Len(items) + 1
<1>2. /\ DOMAIN items' = 1..new /\ items'[new] = Head(queue)
      /\ \A l \in DOMAIN items : l \in 1..Len(items) /\ items'[l] = items[l]
      /\ \A l \in 1..new : l \in DOMAIN items \/ l = new
      /\ \A l \in DOMAIN items : items[l] \in Item
      /\ new \in 1..new
  BY <1>1 DEF IInv, Types, Take
<1>3. \A l \in DOMAIN items' : Service!Topk(items'[l][1]) \in Nat
  BY <1>1, <1>2, ItemType
<1> DEFINE t(l) == Service!Topk(items'[l][1])
<1>4. \E j \in DOMAIN items' : \A l \in DOMAIN items' : t(l) <= t(j)
  <2>1. CASE items = <<>>
    <3>1. Len(items) = 0
      BY <2>1
    <3> QED
      BY <1>2, <1>3, <3>1
  <2>2. CASE items # <<>>
    <3>1. PICK j \in DOMAIN items : Deepest(items, j)
      BY <2>2 DEF IInv, HasDeepest
    <3>2. \A l \in DOMAIN items : t(l) <= t(j)
      BY <1>2, <3>1 DEF Deepest
    <3>3. j \in DOMAIN items' /\ new \in DOMAIN items'
      BY <1>2
    <3>4. \A l \in DOMAIN items' : t(l) \in Nat
      BY <1>3
    <3> HIDE DEF t
    <3>5. CASE t(new) <= t(j)
      BY <1>2, <3>2, <3>3, <3>5
    <3>6. CASE t(j) <= t(new)
      <4>1. \A l \in DOMAIN items : l \in DOMAIN items'
        BY <1>2
      <4>2. \A l \in DOMAIN items' : t(l) <= t(new)
        BY <1>2, <3>2, <3>3, <3>4, <3>6, <4>1
      <4> QED
        BY <3>3, <4>2
    <3> QED
      BY <3>3, <3>4, <3>5, <3>6
  <2> QED
    BY <2>1, <2>2
<1> QED
  BY <1>1, <1>4 DEF HasDeepest, Deepest

LEMMA InitIInv == Init => IInv
  BY DEF Init, IInv, Types, FuturesDue, HasDeepest, Service!Init, None

LEMMA AskKeeps ==
  ASSUME IInv, NEW r \in Req, Ask(r)
  PROVE  IInv'
<1>1. Types'
  <2> DEFINE new == [i \in DOMAIN QueriesOf[r] |-> <<r, i>>]
  <2>1. QueriesOf[r] \in Seq(DOMAIN Ranking)
    BY SearcherAssumption
  <2>2. \A i \in DOMAIN QueriesOf[r] : <<r, i>> \in Item
    BY DEF Item
  <2>3. DOMAIN QueriesOf[r] = 1..Len(QueriesOf[r]) /\ Len(QueriesOf[r]) \in Nat
    BY <2>1, LenProperties
  <2>4. new \in Seq(Item)
    BY <2>2, <2>3
  <2> HIDE DEF new
  <2>5. queue \o new \in Seq(Item)
    BY <2>4, ConcatProperties DEF IInv, Types
  <2>6. queue' \in Seq(Item)
    BY <2>5 DEF Ask, new
  <2> QED
    BY <2>6 DEF IInv, Types, Ask, Service!Ask
<1>2. FuturesDue'
  BY DEF IInv, FuturesDue, Ask, Pending
<1>3. HasDeepest(items)'
  BY DEF IInv, Ask, HasDeepest, Deepest
<1> QED
  BY <1>1, <1>2, <1>3 DEF IInv

LEMMA SucceedKeeps ==
  ASSUME IInv, Succeed
  PROVE  IInv'
<1>1. Types'
  BY DEF IInv, Types, Succeed, Set
<1>2. FuturesDue'
  <2> SUFFICES ASSUME NEW it \in Item, future'[it].state = "result"
               PROVE  future'[it].docs = Service!Best(QueryOf(it), Service!Topk(it[1]))
    BY DEF FuturesDue
  <2>1. CASE it \in Range(items) /\ future[it] = Pending
    <3>1. future'[it] = Result(Mine(it))
      BY <2>1 DEF Succeed, Set
    <3> QED
      BY <2>1, <3>1, MineIsDue DEF Result
  <2>2. CASE ~(it \in Range(items) /\ future[it] = Pending)
    <3>1. future'[it] = future[it]
      BY <2>2 DEF Succeed, Set
    <3> QED
      BY <3>1 DEF IInv, FuturesDue
  <2> QED
    BY <2>1, <2>2
<1>3. HasDeepest(items)'
  BY DEF Succeed, HasDeepest
<1> QED
  BY <1>1, <1>2, <1>3 DEF IInv

LEMMA RaiseKeeps ==
  ASSUME IInv, Raise
  PROVE  IInv'
<1>1. Types'
  BY DEF IInv, Types, Raise, Set
<1>2. FuturesDue'
  <2> SUFFICES ASSUME NEW it \in Item
               PROVE  future'[it] = Raised \/ future'[it] = future[it]
    BY DEF IInv, FuturesDue, Raised
  <2> QED
    BY DEF Raise, Set
<1>3. HasDeepest(items)'
  BY DEF Raise, HasDeepest
<1> QED
  BY <1>1, <1>2, <1>3 DEF IInv

LEMMA NextIInv == IInv /\ [Next]_vars => IInv'
<1> SUFFICES ASSUME IInv, [Next]_vars PROVE IInv'
  OBVIOUS
<1>1. ASSUME NEW r \in Req, Ask(r) PROVE IInv'
  BY <1>1, AskKeeps
<1>2. ASSUME NEW r \in Req, Respond(r) PROVE IInv'
  BY <1>2 DEF IInv, Types, FuturesDue, HasDeepest, Deepest, Respond
<1>3. ASSUME Take, UNCHANGED <<status, answer, future>> PROVE IInv'
  <2>1. Types' /\ HasDeepest(items)'
    BY <1>3, TakeKeepsDeepest DEF IInv, Types, HasDeepest, Deepest
  <2> QED
    BY <1>3, <2>1 DEF IInv, FuturesDue
<1>4. CASE First
  BY <1>3, <1>4 DEF First, Take
<1>5. CASE Collect
  BY <1>3, <1>5 DEF Collect, Take
<1>6. CASE Search
  BY <1>6 DEF IInv, Types, FuturesDue, HasDeepest, Deepest, Search
<1>7. CASE Succeed
  BY <1>7, SucceedKeeps
<1>8. CASE Raise
  BY <1>8, RaiseKeeps
<1>9. CASE AllAnswered \/ UNCHANGED vars
  BY <1>9 DEF IInv, Types, FuturesDue, HasDeepest, Deepest, AllAnswered, vars
<1> QED
  BY <1>1, <1>2, <1>4, <1>5, <1>6, <1>7, <1>8, <1>9 DEF Next, Batch

\* The inductive invariant holds whatever the arrivals, waits and failures.
THEOREM SearcherInvariance == Spec => []IInv
<1> QED
  BY InitIInv, NextIInv, PTL DEF Spec

\* What a request is answered is what it is due.
LEMMA RespondServes ==
  ASSUME IInv, NEW r \in Req, Respond(r)
  PROVE  Service!Answer(r) \/ Service!Fail(r)
<1> DEFINE futures == [i \in DOMAIN QueriesOf[r] |-> future[<<r, i>>]]
<1>1. CASE \E i \in DOMAIN futures : futures[i] = Raised /\ status' = [status EXCEPT ![r] = "failed"] /\ UNCHANGED answer
  BY <1>1 DEF Respond, Service!Fail
<1>2. CASE /\ \A i \in DOMAIN futures : futures[i].state = "result"
           /\ status' = [status EXCEPT ![r] = "answered"]
           /\ answer' = [answer EXCEPT ![r] = [i \in DOMAIN futures |-> futures[i].docs]]
  <2>1. \A i \in DOMAIN QueriesOf[r] :
          future[<<r, i>>].docs = Service!Best(QueriesOf[r][i], Service!Topk(r))
    <3> SUFFICES ASSUME NEW i \in DOMAIN QueriesOf[r]
                 PROVE  future[<<r, i>>].docs = Service!Best(QueriesOf[r][i], Service!Topk(r))
      OBVIOUS
    <3>1. <<r, i>> \in Item
      BY DEF Item
    <3>2. future[<<r, i>>].state = "result"
      BY <1>2
    <3> QED
      BY <3>1, <3>2 DEF IInv, FuturesDue, QueryOf
  <2>2. [i \in DOMAIN futures |-> futures[i].docs] = Service!Due(r)
    BY <2>1 DEF Service!Due
  <2> QED
    BY <1>2, <2>2 DEF Respond, Service!Answer
<1> QED
  BY <1>1, <1>2 DEF Respond

\* Every step of the batched server is a step of the unbatched one, or none.
LEMMA StepServes == IInv /\ [Next]_vars => [Service!Next]_(Service!service)
<1> SUFFICES ASSUME IInv, [Next]_vars PROVE [Service!Next]_(Service!service)
  OBVIOUS
<1>1. ASSUME NEW r \in Req, Ask(r) PROVE Service!Next
  BY <1>1 DEF Ask, Service!Next
<1>2. ASSUME NEW r \in Req, Respond(r) PROVE Service!Next
  BY <1>2, RespondServes DEF Service!Next
<1>3. CASE Batch
  BY <1>3 DEF Batch, First, Collect, Take, Search, Succeed, Raise, Service!service
<1>4. CASE AllAnswered \/ UNCHANGED vars
  BY <1>4 DEF AllAnswered, vars, Service!service
<1> QED
  BY <1>1, <1>2, <1>3, <1>4 DEF Next

\* Batching implements the promise of one request at a time, but for its liveness:
\* whatever is answered is each query's own topk best documents, in the order of the
\* queries, for any batch size, ranking and mixture of topks.
THEOREM BatchingDoesNotShow == Spec => Service!Init /\ [][Service!Next]_(Service!service)
<1>1. Init => Service!Init
  BY DEF Init
<1> QED
  BY <1>1, StepServes, SearcherInvariance, PTL DEF Spec
=============================================================================
