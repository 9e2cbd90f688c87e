-------------------------- MODULE TurnRoutingProofs --------------------------
(***************************************************************************)
(* TurnRouting, for any replicas, rollouts, turns, block sizes and limits  *)
(* of the balancer's memory: its counters are exact, a request id that it  *)
(* remembers stays where it was, and a rollout that stays loses nothing    *)
(* from the KV cache but the unfilled last blocks of its turns.            *)
(***************************************************************************)
EXTENDS TurnRouting, TLAPS, FiniteSetTheorems, SequenceTheorems, WellFoundedInduction

\* The rollouts that a replica is serving.
Serving(s) == {c \in Conv : pc[c] = "served" /\ server[c] = s}

\* What the counters count, and that they are counters.  Nothing is said of where the
\* balancer sends a rollout: the count is exact wherever it goes.
Counters ==
  /\ inflight \in [Server -> Nat] /\ releases \in [Server -> Nat]
  /\ DOMAIN pc = Conv /\ DOMAIN server = Conv

IInv == Counters /\ InflightExact

LEMMA ServingFinite ==
  ASSUME IsFiniteSet(Conv), NEW s
  PROVE  IsFiniteSet(Serving(s)) /\ Cardinality(Serving(s)) \in Nat
<1>1. Serving(s) \subseteq Conv
  BY DEF Serving
<1> QED
  BY <1>1, FS_Subset, FS_CardinalityType

LEMMA InitIInv == Init => IInv
<1> SUFFICES ASSUME Init PROVE IInv
  OBVIOUS
<1>1. Counters
  BY DEF Init, Counters
<1>2. \A s : Serving(s) = {}
  BY DEF Init, Serving
<1>3. \A s : Cardinality(Serving(s)) = 0
  BY <1>2, FS_EmptySet
<1>4. InflightExact
  BY <1>3 DEF Init, InflightExact, Serving
<1> QED
  BY <1>1, <1>4 DEF IInv

\* acquire_server: one more in flight on the replica that serves one more.
LEMMA AcquireIInv ==
  ASSUME IsFiniteSet(Conv), IInv, NEW c \in Conv, Acquire(c)
  PROVE  IInv'
<1> USE DEF IInv
<1>1. PICK t : /\ inflight' = [inflight EXCEPT ![t] = @ + 1]
               /\ server' = [server EXCEPT ![c] = t]
               /\ pc[c] = "idle" /\ pc' = [pc EXCEPT ![c] = "served"]
               /\ releases' = releases
  BY DEF Acquire
<1>2. Counters'
  <2>1. inflight' \in [Server -> Nat] /\ releases' \in [Server -> Nat]
    <3>1. CASE t \in Server
      BY <1>1, <3>1 DEF Counters
    <3>2. CASE t \notin Server
      BY <1>1, <3>2 DEF Counters
    <3> QED
      BY <3>1, <3>2
  <2>2. DOMAIN pc' = Conv
    BY <1>1 DEF Counters
  <2>3. DOMAIN server' = Conv
    BY <1>1 DEF Counters
  <2> QED
    BY <2>1, <2>2, <2>3 DEF Counters
<1>3. c \notin Serving(t) /\ Serving(t)' = Serving(t) \cup {c}
  BY <1>1 DEF Counters, Serving
<1>4. \A s : s # t => Serving(s)' = Serving(s)
  BY <1>1 DEF Counters, Serving
<1>5. Cardinality(Serving(t) \cup {c}) = Cardinality(Serving(t)) + 1
  BY <1>3, ServingFinite, FS_AddElement
<1>6. ASSUME NEW s \in Server
      PROVE  inflight'[s] = releases'[s] + Cardinality(Serving(s)')
  <2>1. inflight[s] = releases[s] + Cardinality(Serving(s))
    BY DEF InflightExact, Serving
  <2>2. inflight[s] \in Nat /\ releases[s] \in Nat /\ Cardinality(Serving(s)) \in Nat
    BY ServingFinite DEF Counters
  <2>3. CASE s = t
    <3>1. Cardinality(Serving(s)') = Cardinality(Serving(s)) + 1
      BY <1>3, <1>5, <2>3
    <3>2. inflight'[s] = inflight[s] + 1 /\ releases'[s] = releases[s]
      BY <1>1, <2>3 DEF Counters
    <3> QED
      BY <2>1, <2>2, <3>1, <3>2
  <2>4. CASE s # t
    BY <1>1, <1>4, <2>1, <2>4 DEF Counters
  <2> QED
    BY <2>3, <2>4
<1> QED
  BY <1>2, <1>6 DEF InflightExact, Serving

\* generate returns or raises: one less served, one more release under way.
LEMMA EndedIInv ==
  ASSUME IsFiniteSet(Conv), IInv, NEW c \in Conv, Answered(c) \/ Raised(c)
  PROVE  IInv'
<1> USE DEF IInv
<1>1. PICK t, next :
        /\ t = server[c] /\ next # "served"
        /\ releases' = [releases EXCEPT ![t] = @ + 1]
        /\ pc[c] = "served" /\ pc' = [pc EXCEPT ![c] = next]
        /\ inflight' = inflight /\ server' = server
  BY DEF Answered, Raised
<1>2. Counters'
  <2>1. inflight' \in [Server -> Nat] /\ releases' \in [Server -> Nat]
    <3>1. CASE t \in Server
      BY <1>1, <3>1 DEF Counters
    <3>2. CASE t \notin Server
      BY <1>1, <3>2 DEF Counters
    <3> QED
      BY <3>1, <3>2
  <2>2. DOMAIN pc' = Conv
    BY <1>1 DEF Counters
  <2>3. DOMAIN server' = Conv
    BY <1>1 DEF Counters
  <2> QED
    BY <2>1, <2>2, <2>3 DEF Counters
<1>3. c \in Serving(t) /\ Serving(t)' = Serving(t) \ {c}
  BY <1>1 DEF Counters, Serving
<1>4. \A s : s # t => Serving(s)' = Serving(s)
  BY <1>1 DEF Counters, Serving
<1>5. Cardinality(Serving(t) \ {c}) = Cardinality(Serving(t)) - 1
  BY <1>3, ServingFinite, FS_RemoveElement
<1>6. ASSUME NEW s \in Server
      PROVE  inflight'[s] = releases'[s] + Cardinality(Serving(s)')
  <2>1. inflight[s] = releases[s] + Cardinality(Serving(s))
    BY DEF InflightExact, Serving
  <2>2. inflight[s] \in Nat /\ releases[s] \in Nat /\ Cardinality(Serving(s)) \in Nat
    BY ServingFinite DEF Counters
  <2>3. CASE s = t
    <3>1. Cardinality(Serving(s)') = Cardinality(Serving(s)) - 1
      BY <1>3, <1>5, <2>3
    <3>2. inflight'[s] = inflight[s] /\ releases'[s] = releases[s] + 1
      BY <1>1, <2>3 DEF Counters
    <3> QED
      BY <2>1, <2>2, <3>1, <3>2
  <2>4. CASE s # t
    BY <1>1, <1>4, <2>1, <2>4 DEF Counters
  <2> QED
    BY <2>3, <2>4
<1> QED
  BY <1>2, <1>6 DEF InflightExact, Serving

\* release_server: whatever is released is counted, so it never raises.
LEMMA ReleaseIInv ==
  ASSUME IsFiniteSet(Conv), IInv, NEW t \in Server, Release(t)
  PROVE  IInv' /\ inflight[t] > 0
<1> USE DEF IInv
<1>1. /\ releases[t] \in Nat /\ inflight[t] \in Nat /\ Cardinality(Serving(t)) \in Nat
      /\ inflight[t] = releases[t] + Cardinality(Serving(t)) /\ releases[t] > 0
  BY ServingFinite DEF Counters, InflightExact, Serving, Release
<1>2. inflight[t] > 0
  BY <1>1
<1>3. /\ inflight' = [inflight EXCEPT ![t] = @ - 1] /\ releases' = [releases EXCEPT ![t] = @ - 1]
      /\ pc' = pc /\ server' = server
  BY <1>2 DEF Release
<1>4. Counters'
  BY <1>1, <1>2, <1>3 DEF Counters
<1>5. \A s : Serving(s)' = Serving(s)
  BY <1>3 DEF Serving
<1>6. ASSUME NEW s \in Server
      PROVE  inflight'[s] = releases'[s] + Cardinality(Serving(s)')
  <2>1. inflight[s] = releases[s] + Cardinality(Serving(s))
    BY DEF InflightExact, Serving
  <2>2. CASE s = t
    BY <1>1, <1>3, <1>5, <2>2 DEF Counters
  <2>3. CASE s # t
    BY <1>3, <1>5, <2>1, <2>3 DEF Counters
  <2> QED
    BY <2>2, <2>3
<1> QED
  BY <1>2, <1>4, <1>6 DEF InflightExact, Serving

LEMMA NextIInv ==
  ASSUME IsFiniteSet(Conv), IInv, [Next]_vars
  PROVE  IInv'
<1>1. CASE \E c \in Conv : Acquire(c) \/ Answered(c) \/ Raised(c)
  BY <1>1, AcquireIInv, EndedIInv
<1>2. CASE \E s \in Server : Release(s)
  BY <1>2, ReleaseIInv
<1>3. CASE (\E s \in Server, c \in Conv : Evict(s, c)) \/ Terminated \/ UNCHANGED vars
  <2>1. UNCHANGED <<inflight, releases, pc, server>>
    BY <1>3 DEF Evict, Terminated, vars, balancer
  <2> QED
    BY <2>1 DEF IInv, Counters, InflightExact
<1> QED
  BY <1>1, <1>2, <1>3 DEF Next

\* Whatever turns, failures and releases come in whatever order, the balancer's
\* counters are exact, for any number of replicas and rollouts.
THEOREM CountersExact ==
  ASSUME IsFiniteSet(Conv)
  PROVE  Spec => []InflightExact
<1>1. IInv /\ [Next]_vars => IInv'
  BY NextIInv
<1>2. IInv => InflightExact
  BY DEF IInv
<1> QED
  BY <1>1, <1>2, InitIInv, PTL DEF Spec

\* release_server's "Invalid release" is never raised.
NeverInvalid == [][\A s \in Server : Release(s) => inflight[s] > 0]_vars

THEOREM ReleaseNeverRaises ==
  ASSUME IsFiniteSet(Conv)
  PROVE  Spec => NeverInvalid
<1>1. IInv /\ [Next]_vars => IInv'
  BY NextIInv
<1>2. IInv /\ [Next]_vars => [\A s \in Server : Release(s) => inflight[s] > 0]_vars
  BY ReleaseIInv
<1> QED
  BY <1>1, <1>2, InitIInv, PTL DEF Spec, NeverInvalid

-----------------------------------------------------------------------------
(* Stickiness *)

Ids(r) == {r[i].id : i \in DOMAIN r}
OnceEach(r) == \A i, j \in DOMAIN r : i # j => r[i].id # r[j].id
Entry == [id : Conv \X Nat, server : Server]

\* What the balancer has room for it remembers, once for each id, and with the
\* replica that has served the id all along.
Remembered ==
  /\ routes \in Seq(Entry) /\ OnceEach(routes)
  /\ visited \in [Conv -> Seq(Server)]
  /\ Cardinality(Asked) <= MaxRoutes =>
       /\ Ids(routes) = Asked /\ Len(routes) = Cardinality(Asked)
       /\ \A c \in Sticky : \A i \in DOMAIN routes : \A j \in DOMAIN visited[c] :
            routes[i].id = <<c, 0>> => visited[c][j] = routes[i].server

LEMMA LeastOf ==
  ASSUME NEW T, T \subseteq Nat, T # {}
  PROVE  \E m \in T : \A n \in T : m <= n
<1>1. PICK m \in T : \A n \in T : <<n, m>> \notin OpToRel(<, Nat)
  BY NatLessThanWellFounded, WFMin
<1>2. \A n \in T : ~(n < m)
  BY <1>1 DEF OpToRel
<1> QED
  BY <1>2

\* There is a least loaded replica, and a first one of them.
LEMMA LeastLoadedServer == ASSUME Counters PROVE LeastLoaded \in Server
<1> DEFINE least == {i \in DOMAIN Servers :
                       \A s \in Server : inflight[Servers[i]] <= inflight[s]}
<1>1. /\ DOMAIN Servers \subseteq Nat /\ Servers[1] \in Server
      /\ \A s \in Server : \E i \in DOMAIN Servers : s = Servers[i]
      /\ \A i \in DOMAIN Servers : Servers[i] \in Server
  <2>1. Servers \in Seq(Server) /\ Servers # <<>>
    BY RoutingAssumption
  <2>2. DOMAIN Servers = 1..Len(Servers) /\ Len(Servers) \in Nat \ {0}
    BY <2>1, EmptySeq, LenProperties
  <2> QED
    BY <2>1, <2>2 DEF Server, Range
<1>2. least # {}
  <2> DEFINE loads == {inflight[s] : s \in Server}
  <2>1. loads \subseteq Nat /\ loads # {}
    BY <1>1 DEF Counters
  <2>2. PICK m \in loads : \A n \in loads : m <= n
    <3> HIDE DEF loads
    <3> QED
      BY <2>1, LeastOf
  <2>3. PICK s \in Server : inflight[s] = m
    BY <2>2
  <2>4. PICK i \in DOMAIN Servers : s = Servers[i]
    BY <1>1
  <2> QED
    BY <2>2, <2>3, <2>4
<1>3. \E i \in least : \A j \in least : i <= j
  <2>1. least \subseteq Nat
    BY <1>1
  <2> HIDE DEF least
  <2> QED
    BY <1>2, <2>1, LeastOf
<1>4. (CHOOSE i \in least : \A j \in least : i <= j) \in DOMAIN Servers
  BY <1>3
<1> QED
  BY <1>1, <1>4 DEF LeastLoaded

\* The routes without that of an id.
Without(id, others) ==
  /\ others \in Seq(Entry) /\ OnceEach(others)
  /\ Ids(others) = Ids(routes) \ {id}
  /\ \A i \in DOMAIN others : \E j \in DOMAIN routes : others[i] = routes[j]
  /\ Len(others) = IF Known(id) THEN Len(routes) - 1 ELSE Len(routes)

LEMMA OthersAre ==
  ASSUME routes \in Seq(Entry), OnceEach(routes), NEW id, NEW others,
         others = IF Known(id) THEN RemoveAt(routes, Routed(id)) ELSE routes
  PROVE  Without(id, others)
<1>1. CASE ~Known(id)
  BY <1>1 DEF Known, Ids, Without
<1>2. CASE Known(id)
  <2>1. PICK k \in DOMAIN routes : k = Routed(id) /\ routes[k].id = id
    BY <1>2 DEF Known, Routed
  <2>2. PICK n \in Nat : n = Len(routes) /\ DOMAIN routes = 1..n /\ k \in 1..n
    BY <2>1, LenProperties
  <2>3. \A i \in 1..n : routes[i] \in Entry
    BY <2>2, ElementOfSeq
  <2>4. PICK a, b : a = SubSeq(routes, 1, k - 1) /\ b = SubSeq(routes, k + 1, n)
    OBVIOUS
  <2>5. /\ a \in Seq(Entry) /\ Len(a) = k - 1
        /\ \A i \in 1..(k - 1) : a[i] = routes[i]
    BY <2>2, <2>3, <2>4
  <2>6. /\ b \in Seq(Entry) /\ Len(b) = n - k
        /\ \A i \in 1..(n - k) : b[i] = routes[i + k]
    BY <2>2, <2>3, <2>4
  <2>7. others = a \o b
    BY <1>2, <2>1, <2>2, <2>4 DEF RemoveAt
  <2>8. /\ others \in Seq(Entry) /\ Len(others) = n - 1 /\ DOMAIN others = 1..(n - 1)
        /\ \A i \in 1..(n - 1) : others[i] = IF i < k THEN routes[i] ELSE routes[i + 1]
    <3>1. /\ others \in Seq(Entry) /\ Len(others) = k - 1 + (n - k)
          /\ \A i \in 1..(k - 1 + (n - k)) :
               others[i] = IF i <= k - 1 THEN a[i] ELSE b[i - (k - 1)]
      <4>1. /\ a \o b \in Seq(Entry) /\ Len(a \o b) = Len(a) + Len(b)
            /\ \A i \in 1..(Len(a) + Len(b)) :
                 (a \o b)[i] = IF i <= Len(a) THEN a[i] ELSE b[i - Len(a)]
        BY <2>5, <2>6, ConcatProperties, Zenon
      <4> QED
        BY <2>5, <2>6, <2>7, <4>1, Zenon
    <3>2. \A i \in 1..(n - 1) : others[i] = IF i < k THEN routes[i] ELSE routes[i + 1]
      <4> SUFFICES ASSUME NEW i \in 1..(n - 1)
                   PROVE  others[i] = IF i < k THEN routes[i] ELSE routes[i + 1]
        OBVIOUS
      <4>1. k - 1 + (n - k) = n - 1
        BY <2>2
      <4>2. CASE i < k
        <5>1. i \in 1..(k - 1) /\ i <= k - 1
          BY <2>2, <4>2
        <5>2. others[i] = a[i]
          BY <3>1, <4>1, <5>1
        <5> QED
          BY <2>5, <4>2, <5>1, <5>2
      <4>3. CASE ~(i < k)
        <5>1. i - (k - 1) \in 1..(n - k) /\ i - (k - 1) + k = i + 1
          BY <2>2, <4>3
        <5>2. others[i] = b[i - (k - 1)]
          <6>1. i \in 1..(k - 1 + (n - k)) /\ ~(i <= k - 1)
            BY <2>2, <4>1, <4>3
          <6> QED
            BY <3>1, <6>1
        <5>3. b[i - (k - 1)] = routes[i - (k - 1) + k]
          BY <2>6, <5>1
        <5> QED
          BY <4>3, <5>1, <5>2, <5>3
      <4> QED
        BY <4>2, <4>3
    <3> QED
      BY <2>2, <3>1, <3>2, LenProperties
  <2>9. /\ \A i \in 1..(n - 1) : \E j \in 1..n : j # k /\ others[i] = routes[j]
        /\ \A j \in 1..n : j # k => \E i \in 1..(n - 1) : others[i] = routes[j]
    <3>1. ASSUME NEW i \in 1..(n - 1) PROVE \E j \in 1..n : j # k /\ others[i] = routes[j]
      <4>1. CASE i < k
        BY <2>2, <2>8, <4>1
      <4>2. CASE ~(i < k)
        BY <2>2, <2>8, <4>2
      <4> QED
        BY <4>1, <4>2
    <3>2. ASSUME NEW j \in 1..n, j # k PROVE \E i \in 1..(n - 1) : others[i] = routes[j]
      <4>1. CASE j < k
        BY <2>2, <2>8, <4>1
      <4>2. CASE ~(j < k)
        <5>1. j - 1 \in 1..(n - 1) /\ ~(j - 1 < k) /\ j - 1 + 1 = j
          BY <2>2, <3>2, <4>2
        <5>2. others[j - 1] = routes[j]
          BY <2>8, <5>1
        <5> QED
          BY <5>1, <5>2
      <4> QED
        BY <4>1, <4>2
    <3> QED
      BY <3>1, <3>2
  <2>10. OnceEach(others)
    <3> SUFFICES ASSUME NEW i \in 1..(n - 1), NEW j \in 1..(n - 1), i # j
                 PROVE  others[i].id # others[j].id
      BY <2>8 DEF OnceEach
    <3>1. PICK p \in 1..n : p = (IF i < k THEN i ELSE i + 1) /\ others[i] = routes[p]
      BY <2>2, <2>8
    <3>2. PICK q \in 1..n : q = (IF j < k THEN j ELSE j + 1) /\ others[j] = routes[q]
      BY <2>2, <2>8
    <3>3. p # q
      BY <2>2, <3>1, <3>2
    <3> QED
      BY <2>2, <3>1, <3>2, <3>3 DEF OnceEach
  <2>11. Ids(others) = Ids(routes) \ {id}
    <3>1. \A j \in 1..n : j # k => routes[j].id # id
      BY <2>1, <2>2 DEF OnceEach
    <3>2. ASSUME NEW x \in Ids(others) PROVE x \in Ids(routes) \ {id}
      <4>1. PICK i \in 1..(n - 1) : x = others[i].id
        BY <2>8 DEF Ids
      <4>2. PICK j \in 1..n : j # k /\ others[i] = routes[j]
        BY <2>9
      <4> QED
        BY <2>2, <3>1, <4>1, <4>2 DEF Ids
    <3>3. ASSUME NEW x \in Ids(routes) \ {id} PROVE x \in Ids(others)
      <4>1. PICK j \in 1..n : x = routes[j].id
        BY <2>2 DEF Ids
      <4>2. PICK i \in 1..(n - 1) : others[i] = routes[j]
        BY <2>1, <2>9, <4>1
      <4> QED
        BY <2>8, <4>1, <4>2 DEF Ids
    <3> QED
      BY <3>2, <3>3
  <2> QED
    <3>1. \A i \in DOMAIN others : \E j \in DOMAIN routes : others[i] = routes[j]
      <4> SUFFICES ASSUME NEW i \in 1..(n - 1) PROVE \E j \in 1..n : others[i] = routes[j]
        BY <2>2, <2>8
      <4> QED
        BY <2>9
    <3> QED
      BY <1>2, <2>2, <2>8, <2>10, <2>11, <3>1 DEF Without
<1> QED
  BY <1>1, <1>2

\* Remembering an id forgets at most the oldest of the others.
Renewed(id, s, r) ==
  /\ r \in Seq(Entry) /\ OnceEach(r)
  /\ \A i \in DOMAIN r :
       \/ r[i].id = id /\ r[i].server = s
       \/ r[i].id # id /\ \E j \in DOMAIN routes : r[i] = routes[j]
  /\ LET n == IF Known(id) THEN Len(routes) - 1 ELSE Len(routes) IN
     n < MaxRoutes => Ids(r) = Ids(routes) \cup {id} /\ Len(r) = n + 1

LEMMA RememberKeeps ==
  ASSUME routes \in Seq(Entry), OnceEach(routes), NEW id \in Conv \X Nat, NEW s \in Server,
         NEW r, r = Remember(id, s)
  PROVE  Renewed(id, s, r)
<1>1. PICK others : others = IF Known(id) THEN RemoveAt(routes, Routed(id)) ELSE routes
  OBVIOUS
<1>2. /\ others \in Seq(Entry) /\ OnceEach(others)
      /\ Ids(others) = Ids(routes) \ {id}
      /\ \A i \in DOMAIN others : \E j \in DOMAIN routes : others[i] = routes[j]
      /\ Len(others) = IF Known(id) THEN Len(routes) - 1 ELSE Len(routes)
  <2>1. Without(id, others)
    BY <1>1, OthersAre
  <2> QED
    BY <2>1 DEF Without
<1>3. PICK room : room = IF Len(others) < MaxRoutes THEN others ELSE Tail(others)
  OBVIOUS
<1>4. /\ room \in Seq(Entry) /\ OnceEach(room)
      /\ \A i \in DOMAIN room : \E j \in DOMAIN others : room[i] = others[j]
  <2>1. CASE Len(others) < MaxRoutes
    BY <1>2, <1>3, <2>1
  <2>2. CASE ~(Len(others) < MaxRoutes)
    <3>1. others # <<>> /\ Len(others) \in Nat \ {0} /\ DOMAIN others = 1..Len(others)
      BY <1>2, <2>2, EmptySeq, LenProperties, RoutingAssumption
    <3>2. room = Tail(others)
      BY <1>3, <2>2
    <3>3. /\ room \in Seq(Entry) /\ Len(room) = Len(others) - 1
          /\ \A i \in 1..(Len(others) - 1) : room[i] = others[i + 1]
      BY <1>2, <3>1, <3>2
    <3>4. DOMAIN room = 1..(Len(others) - 1)
      BY <3>3, LenProperties
    <3>5. \A i \in DOMAIN room : i + 1 \in DOMAIN others /\ room[i] = others[i + 1]
      BY <3>1, <3>3, <3>4
    <3>6. \A i, j \in DOMAIN room : i # j => i + 1 # j + 1
      BY <3>1, <3>4
    <3>7. OnceEach(room)
      BY <1>2, <3>5, <3>6 DEF OnceEach
    <3> QED
      BY <3>3, <3>5, <3>7
  <2> QED
    BY <2>1, <2>2
<1>5. PICK e \in Entry : e = [id |-> id, server |-> s] /\ e.id = id /\ e.server = s
  <2>1. [id |-> id, server |-> s] \in Entry
    BY DEF Entry
  <2> QED
    BY <2>1
<1>6. r = Append(room, e)
  BY <1>1, <1>3, <1>5 DEF Remember
<1>7. /\ r \in Seq(Entry) /\ Len(r) = Len(room) + 1 /\ r[Len(room) + 1] = e
      /\ DOMAIN r = DOMAIN room \cup {Len(room) + 1}
      /\ Len(room) + 1 \notin DOMAIN room
  BY <1>4, <1>6
<1>8. \A i \in DOMAIN room : r[i] = room[i]
  BY <1>4, <1>6
<1>9. \A i \in DOMAIN room : /\ room[i].id # id
                             /\ \E j \in DOMAIN routes : room[i] = routes[j]
  <2> SUFFICES ASSUME NEW i \in DOMAIN room
               PROVE  room[i].id # id /\ \E j \in DOMAIN routes : room[i] = routes[j]
    OBVIOUS
  <2>1. PICK j \in DOMAIN others : room[i] = others[j]
    BY <1>4
  <2>2. others[j].id \in Ids(others)
    BY DEF Ids
  <2> QED
    BY <1>2, <2>1, <2>2
<1>10. OnceEach(r)
  BY <1>4, <1>5, <1>7, <1>8, <1>9 DEF OnceEach
<1>11. \A i \in DOMAIN r :
         \/ r[i].id = id /\ r[i].server = s
         \/ r[i].id # id /\ \E j \in DOMAIN routes : r[i] = routes[j]
  BY <1>5, <1>7, <1>8, <1>9
<1>12. Len(others) < MaxRoutes => Ids(r) = Ids(routes) \cup {id} /\ Len(r) = Len(others) + 1
  <2> SUFFICES ASSUME Len(others) < MaxRoutes
               PROVE  Ids(r) = Ids(routes) \cup {id} /\ Len(r) = Len(others) + 1
    OBVIOUS
  <2>1. room = others
    BY <1>3
  <2>2. Ids(r) = Ids(room) \cup {id}
    BY <1>5, <1>7, <1>8 DEF Ids
  <2> QED
    BY <1>2, <1>7, <2>1, <2>2
<1> QED
  BY <1>2, <1>7, <1>10, <1>11, <1>12 DEF Renewed

LEMMA AskedFinite ==
  ASSUME IsFiniteSet(Conv)
  PROVE  IsFiniteSet(Asked) /\ Cardinality(Asked) \in Nat
<1>1. MaxTurns - 1 \in Int
  BY RoutingAssumption
<1>2. IsFiniteSet(0..(MaxTurns - 1))
  BY <1>1, FS_Interval
<1>3. IsFiniteSet(Conv \X (0..(MaxTurns - 1)))
  BY <1>2, FS_Product
<1>4. Asked \in SUBSET (Conv \X (0..(MaxTurns - 1)))
  BY DEF Asked
<1> QED
  BY <1>3, <1>4, FS_Subset, FS_CardinalityType

LEMMA RequestIdOf ==
  ASSUME Remembered, NEW c \in Conv, Len(visited[c]) < MaxTurns
  PROVE  /\ RequestId(c) \in Conv \X (0..(MaxTurns - 1))
         /\ RequestId(c) \in Conv \X Nat /\ RequestId(c)[1] = c
<1>1. Len(visited[c]) \in Nat /\ MaxTurns \in Nat
  BY RoutingAssumption, LenProperties DEF Remembered
<1> QED
  BY <1>1 DEF RequestId

\* A turn asks for its request id, and for no other.
LEMMA AskedGrows ==
  ASSUME Remembered, NEW c \in Conv, Len(visited[c]) < MaxTurns, NEW s \in Server,
         visited' = [visited EXCEPT ![c] = Append(@, s)]
  PROVE  Asked' = Asked \cup {RequestId(c)}
<1>1. PICK n \in Nat : n = Len(visited[c]) /\ n < MaxTurns
  BY LenProperties DEF Remembered
<1>2. Len(visited'[c]) = n + 1 /\ \A d \in Conv : d # c => visited'[d] = visited[d]
  BY <1>1 DEF Remembered
<1>3. ASSUME NEW id \in Conv \X (0..(MaxTurns - 1))
      PROVE  id \in Asked' <=> id \in Asked \/ id = RequestId(c)
  <2>1. PICK d \in Conv, t \in 0..(MaxTurns - 1) : id = <<d, t>>
    OBVIOUS
  <2>2. id \in Asked' <=> t < Len(visited'[d]) /\ (d \in Sticky => t = 0)
    BY <2>1 DEF Asked
  <2>3. id \in Asked <=> t < Len(visited[d]) /\ (d \in Sticky => t = 0)
    BY <2>1 DEF Asked
  <2>4. id = RequestId(c) <=> d = c /\ t = IF c \in Sticky THEN 0 ELSE n
    BY <1>1, <2>1 DEF RequestId
  <2>5. CASE d # c
    BY <1>2, <2>2, <2>3, <2>4, <2>5
  <2>6. CASE d = c
    BY <1>1, <1>2, <2>2, <2>3, <2>4, <2>6
  <2> QED
    BY <2>5, <2>6
<1>4. RequestId(c) \in Conv \X (0..(MaxTurns - 1))
  BY RequestIdOf
<1>5. /\ Asked \subseteq Conv \X (0..(MaxTurns - 1))
      /\ Asked' \subseteq Conv \X (0..(MaxTurns - 1))
  BY DEF Asked
<1> QED
  BY <1>3, <1>4, <1>5

\* The replica that acquire_server chooses.
Chosen(c) ==
  LET id == RequestId(c) IN IF Known(id) THEN routes[Routed(id)].server ELSE LeastLoaded

LEMMA ChosenServer ==
  ASSUME Counters, Remembered, NEW c \in Conv
  PROVE  Chosen(c) \in Server
<1> DEFINE id == RequestId(c)
<1>1. CASE Known(id)
  <2>1. Routed(id) \in DOMAIN routes
    BY <1>1 DEF Known, Routed
  <2>2. routes[Routed(id)] \in Entry
    BY <2>1, LenProperties, ElementOfSeq DEF Remembered
  <2> QED
    BY <1>1, <2>2 DEF Chosen, Entry
<1>2. CASE ~Known(id)
  BY <1>2, LeastLoadedServer DEF Chosen
<1> QED
  BY <1>1, <1>2

LEMMA AcquireRemembers ==
  ASSUME IsFiniteSet(Conv), Counters, Remembered, NEW c \in Conv, Acquire(c)
  PROVE  Remembered'
<1> USE DEF Remembered
<1>1. PICK id, s : /\ id = RequestId(c) /\ s = Chosen(c) /\ routes' = Remember(id, s)
                   /\ visited' = [visited EXCEPT ![c] = Append(@, s)]
                   /\ Len(visited[c]) < MaxTurns
  BY DEF Acquire, Chosen
<1>2. id \in Conv \X Nat /\ id[1] = c
  BY <1>1, RequestIdOf
<1>3. Known(id) => Routed(id) \in DOMAIN routes /\ routes[Routed(id)].id = id
  BY DEF Known, Routed
<1>4. s \in Server
  BY <1>1, ChosenServer
<1>5. Renewed(id, s, routes')
  BY <1>1, <1>2, <1>4, RememberKeeps
<1>6. visited' \in [Conv -> Seq(Server)]
  BY <1>1, <1>4
<1>7. Asked' = Asked \cup {id}
  BY <1>1, <1>4, AskedGrows
<1>8. ASSUME Cardinality(Asked') <= MaxRoutes
      PROVE  /\ Cardinality(Asked) <= MaxRoutes
             /\ Ids(routes') = Asked' /\ Len(routes') = Cardinality(Asked')
  <2>1. /\ IsFiniteSet(Asked) /\ Cardinality(Asked) \in Nat /\ MaxRoutes \in Nat \ {0}
    BY AskedFinite, RoutingAssumption
  <2>2. Known(id) <=> id \in Ids(routes)
    BY DEF Known, Ids
  <2>3. CASE id \in Asked
    <3>1. Asked' = Asked /\ Cardinality(Asked) <= MaxRoutes
      BY <1>7, <1>8, <2>3
    <3>2. Ids(routes) = Asked /\ Len(routes) = Cardinality(Asked) /\ Known(id)
      BY <2>2, <2>3, <3>1
    <3>3. Len(routes) - 1 < MaxRoutes /\ Len(routes) - 1 + 1 = Len(routes)
      BY <2>1, <3>1, <3>2
    <3>4. Ids(routes') = Ids(routes) \cup {id} /\ Len(routes') = Len(routes)
      BY <1>5, <3>2, <3>3 DEF Renewed
    <3> QED
      BY <2>3, <3>1, <3>2, <3>4
  <2>4. CASE id \notin Asked
    <3>1. Cardinality(Asked') = Cardinality(Asked) + 1
      BY <1>7, <2>1, <2>4, FS_AddElement
    <3>2. Cardinality(Asked) < MaxRoutes /\ Cardinality(Asked) <= MaxRoutes
      BY <1>8, <2>1, <3>1
    <3>3. Ids(routes) = Asked /\ Len(routes) = Cardinality(Asked) /\ ~Known(id)
      BY <2>2, <2>4, <3>2
    <3>4. Ids(routes') = Ids(routes) \cup {id} /\ Len(routes') = Len(routes) + 1
      BY <1>5, <3>2, <3>3 DEF Renewed
    <3> QED
      BY <1>7, <3>1, <3>2, <3>3, <3>4
  <2> QED
    BY <2>3, <2>4
<1>9. ASSUME Cardinality(Asked') <= MaxRoutes,
             NEW d \in Sticky, NEW i \in DOMAIN routes', NEW j \in DOMAIN visited'[d],
             routes'[i].id = <<d, 0>>
      PROVE  visited'[d][j] = routes'[i].server
  <2>1. /\ Cardinality(Asked) <= MaxRoutes /\ d \in Conv
        /\ \/ routes'[i].id = id /\ routes'[i].server = s
           \/ routes'[i].id # id /\ \E k \in DOMAIN routes : routes'[i] = routes[k]
    BY <1>5, <1>8, <1>9, RoutingAssumption DEF Renewed
  <2>2. CASE d = c
    <3>1. id = <<c, 0>> /\ routes'[i].server = s
      BY <1>1, <1>9, <2>1, <2>2 DEF RequestId
    <3>2. PICK v \in Seq(Server) : v = visited[c] /\ visited'[c] = Append(v, s)
      BY <1>1
    <3>3. CASE j \in DOMAIN v
      <4>1. visited'[c][j] = visited[c][j] /\ v # <<>>
        BY <1>4, <3>2, <3>3
      <4>2. id \in Asked
        <5>1. MaxTurns \in Nat \ {0}
          BY RoutingAssumption
        <5>2. 0 \in 0..(MaxTurns - 1)
          BY <5>1
        <5>3. Len(v) \in Nat /\ j \in 1..Len(v)
          BY <3>2, <3>3, LenProperties
        <5>4. 0 < Len(visited[c])
          BY <3>2, <5>3
        <5> QED
          BY <3>1, <5>2, <5>4 DEF Asked
      <4>3. Known(id)
        <5>1. id \in Ids(routes)
          BY <2>1, <4>2
        <5> QED
          BY <5>1 DEF Known, Ids
      <4> QED
        BY <1>1, <1>3, <2>1, <2>2, <3>1, <3>2, <3>3, <4>1, <4>3 DEF Chosen
    <3>4. CASE j \notin DOMAIN v
      <4>1. visited'[c][j] = s
        BY <1>4, <2>2, <3>2, <3>4
      <4> QED
        BY <2>2, <3>1, <4>1
    <3> QED
      BY <3>3, <3>4
  <2>3. CASE d # c
    <3>1. visited'[d] = visited[d] /\ <<d, 0>> # id
      BY <1>1, <1>2, <2>3
    <3> QED
      BY <1>9, <2>1, <3>1
  <2> QED
    BY <2>2, <2>3
<1> QED
  BY <1>5, <1>6, <1>8, <1>9 DEF Renewed

LEMMA InitRemembered == Init => Remembered
<1> SUFFICES ASSUME Init PROVE Remembered
  OBVIOUS
<1>1. routes = <<>> /\ DOMAIN routes = {} /\ routes \in Seq(Entry)
  BY EmptySeq DEF Init
<1>2. visited \in [Conv -> Seq(Server)] /\ \A c \in Conv : Len(visited[c]) = 0
  BY EmptySeq DEF Init
<1>3. Asked = {} /\ Cardinality(Asked) = 0
  <2>1. Asked = {}
    BY <1>2 DEF Asked
  <2> QED
    BY <2>1, FS_EmptySet
<1>4. Ids(routes) = {} /\ Len(routes) = 0
  BY <1>1, EmptySeq DEF Ids
<1> QED
  BY <1>1, <1>2, <1>3, <1>4 DEF Remembered, OnceEach

LEMMA NextRemembered ==
  ASSUME IsFiniteSet(Conv), Counters, Remembered, [Next]_vars
  PROVE  Remembered'
<1>1. CASE \E c \in Conv : Acquire(c)
  BY <1>1, AcquireRemembers
<1>2. CASE UNCHANGED <<routes, visited>>
  <2>1. Asked' = Asked
    BY <1>2 DEF Asked
  <2> QED
    BY <1>2, <2>1 DEF Remembered
<1>3. (\E c \in Conv : Acquire(c)) \/ UNCHANGED <<routes, visited>>
  BY DEF Next, Answered, Raised, Release, Evict, Terminated, vars, balancer
<1> QED
  BY <1>1, <1>2, <1>3

\* "same conversation -> same server", whatever the loads, for any replicas and rollouts,
\* as long as no more ids came by than the balancer remembers.
THEOREM TurnsStick ==
  ASSUME IsFiniteSet(Conv)
  PROVE  Spec => []StickyTurns
<1>1. Init => IInv /\ Remembered
  BY InitIInv, InitRemembered
<1>2. IInv /\ Remembered /\ [Next]_vars => (IInv /\ Remembered)'
  BY NextIInv, NextRemembered DEF IInv
<1>3. IInv /\ Remembered => StickyTurns
  <2> SUFFICES ASSUME Remembered, Cardinality(Asked) <= MaxRoutes, NEW c \in Sticky
               PROVE  Stayed(c)
    BY DEF StickyTurns
  <2> SUFFICES ASSUME NEW i \in DOMAIN visited[c], NEW j \in DOMAIN visited[c]
               PROVE  visited[c][i] = visited[c][j]
    BY DEF Stayed
  <2>1. c \in Conv /\ 0 \in 0..(MaxTurns - 1)
    BY RoutingAssumption
  <2>2. 0 < Len(visited[c])
    BY <2>1, LenProperties DEF Remembered
  <2>3. <<c, 0>> \in Ids(routes)
    BY <2>1, <2>2 DEF Asked, Remembered
  <2>4. PICK k \in DOMAIN routes : routes[k].id = <<c, 0>>
    BY <2>3 DEF Ids
  <2> QED
    BY <2>4 DEF Remembered
<1> QED
  BY <1>1, <1>2, <1>3, PTL DEF Spec

-----------------------------------------------------------------------------
(* What the KV caches hold *)

\* Position i is in the last block of a turn, which was not full.
InTail(c, i) == \E e \in ends[c] : FullBlocks(e) < i /\ i <= e
Kept(c) == Stayed(c) /\ evictions = 0

Texts ==
  /\ hist \in [Conv -> Seq(BOOLEAN)] /\ kv \in [Conv -> Seq(BOOLEAN)]
  /\ ends \in [Conv -> SUBSET Nat] /\ visited \in [Conv -> Seq(Server)]
  /\ cache \in [Server -> [Conv -> Seq(BOOLEAN)]]
  /\ pc \in [Conv -> {"idle", "served", "over"}] /\ server \in [Conv -> Server]
  /\ evictions \in Nat

\* Where a rollout is: behind what it last computed come at least the last token of the
\* turn, which is no sentinel if the rollout goes on, and the retrieved text.
Place(c) ==
  /\ Len(kv[c]) < Len(hist[c]) /\ (kv[c] # <<>> => Len(kv[c]) \in ends[c])
  /\ pc[c] = "served" => visited[c] # <<>> /\ server[c] = visited[c][Len(visited[c])]
  /\ pc[c] # "over" => \A i \in DOMAIN hist[c] : hist[c][i] => i <= Len(kv[c])
  /\ visited[c] = <<>> => kv[c] = <<>> /\ \A s \in Server : cache[s][c] = <<>>

\* Nothing is in a cache that was not spliced in the text, and what a rollout that
\* stayed has lost was in a tail,
Held(c) ==
  \A s \in Server :
    /\ Len(cache[s][c]) < Len(hist[c])
    /\ \A i \in DOMAIN cache[s][c] :
         /\ cache[s][c][i] => hist[c][i]
         /\ (hist[c][i] /\ ~cache[s][c][i] /\ Kept(c) /\ s \in Range(visited[c])) =>
              InTail(c, i)
\* for its replica has all full blocks of what it last computed.
Reached(c) ==
  Kept(c) => \A s \in Range(visited[c]) : Len(cache[s][c]) = FullBlocks(Len(kv[c]))

\* LostOnlyInTail, of one rollout.
Lost(c) ==
  \A i \in DOMAIN kv[c] :
    /\ kv[c][i] => hist[c][i]
    /\ (hist[c][i] /\ ~kv[c][i] /\ Kept(c)) => InTail(c, i)

Fits(c) == Place(c) /\ Held(c) /\ Reached(c) /\ Lost(c)

KVInv == Texts /\ \A c \in Conv : Fits(c)

LEMMA FullBlocksBound ==
  ASSUME NEW n \in Nat
  PROVE  FullBlocks(n) \in Nat /\ FullBlocks(n) <= n /\ FullBlocks(0) = 0
<1>1. PICK B \in Nat : B = BlockSize /\ B > 0
  BY RoutingAssumption
<1>2. n \div B \in Nat /\ 0 \div B = 0
  BY <1>1
<1>3. \A q \in Nat : B * q \in Nat
  OBVIOUS
<1>4. B * (n \div B) <= n
  BY <1>1
<1>5. B * 0 = 0
  OBVIOUS
<1> QED
  BY <1>1, <1>2, <1>3, <1>4, <1>5 DEF FullBlocks

LEMMA ColumnOf ==
  ASSUME NEW S, NEW no \in S, NEW n \in Nat
  PROVE  /\ Column(n, no) \in Seq(S) /\ Len(Column(n, no)) = n
         /\ \A i \in 1..n : Column(n, no)[i] = no
<1>1. Column(n, no) \in [1..n -> S] /\ \A i \in 1..n : Column(n, no)[i] = no
  BY DEF Column
<1> HIDE DEF Column
<1>2. Column(n, no) \in UNION {[1..l -> S] : l \in Nat}
  BY <1>1
<1>3. Column(n, no) \in Seq(S)
  BY <1>2, SeqDef
<1> QED
  BY <1>1, <1>3, LenProperties

\* A turn t on top of the text h, of which k was cached: what the engine attended to
\* (after), and the text that the next turn begins with.
TurnOf(S, no, h, k, t, after, text) ==
  /\ after \in Seq(S) /\ text \in Seq(S)
  /\ Len(h) <= Len(after) /\ Len(after) < Len(text)
  /\ \A i \in DOMAIN h : i \in DOMAIN text /\ text[i] = h[i]
  /\ \A i \in 1..Len(k) : after[i] = k[i]
  /\ \A i \in (Len(k) + 1)..Len(h) : after[i] = no
  /\ \A i \in (Len(h) + 1)..Len(after) : after[i] = text[i]
  /\ t[Len(t)] = no => \A i \in DOMAIN text : text[i] # no => i <= Len(after)

LEMMA TurnTexts ==
  ASSUME NEW S, NEW no \in S, NEW h \in Seq(S), NEW k \in Seq(S), Len(k) < Len(h),
         NEW t \in Seq(S), t # <<>>, NEW after, NEW text,
         after = (SubSeq(k, 1, Len(k)) \o Column(Len(h) - Len(k), no))
                   \o SubSeq(t, 1, Len(t) - 1),
         text = (h \o t) \o Column(InfoLen, no)
  PROVE  TurnOf(S, no, h, k, t, after, text)
<1>1. PICK lh \in Nat, lk \in Nat, lt \in Nat, li \in Nat :
        /\ lh = Len(h) /\ lk = Len(k) /\ Len(t) = lt + 1 /\ li = InfoLen /\ lk < lh
  <2>1. Len(h) \in Nat /\ Len(k) \in Nat /\ Len(t) \in Nat \ {0} /\ InfoLen \in Nat
    BY EmptySeq, LenProperties, RoutingAssumption
  <2>2. Len(t) - 1 \in Nat /\ Len(t) = Len(t) - 1 + 1
    BY <2>1
  <2> QED
    BY <2>1, <2>2
<1>2. PICK none : none = Column(lh - lk, no)
  OBVIOUS
<1>3. /\ none \in Seq(S) /\ Len(none) = lh - lk /\ \A i \in 1..(lh - lk) : none[i] = no
  <2>1. lh - lk \in Nat
    BY <1>1
  <2> QED
    BY <1>2, <2>1, ColumnOf
<1>4. PICK p : p = k \o none
  OBVIOUS
<1>5. /\ p \in Seq(S) /\ Len(p) = lh
      /\ \A i \in 1..lk : p[i] = k[i]
      /\ \A i \in (lk + 1)..lh : p[i] = no
  <2>1. /\ p \in Seq(S) /\ Len(p) = lk + (lh - lk)
        /\ \A i \in 1..(lk + (lh - lk)) : p[i] = IF i <= lk THEN k[i] ELSE none[i - lk]
    <3>1. /\ k \o none \in Seq(S) /\ Len(k \o none) = Len(k) + Len(none)
          /\ \A i \in 1..(Len(k) + Len(none)) :
               (k \o none)[i] = IF i <= Len(k) THEN k[i] ELSE none[i - Len(k)]
      BY <1>3, ConcatProperties, Zenon
    <3> QED
      BY <1>1, <1>3, <1>4, <3>1, Zenon
  <2>2. lk + (lh - lk) = lh
    BY <1>1
  <2>3. ASSUME NEW i \in (lk + 1)..lh PROVE p[i] = no
    <3>1. i - lk \in 1..(lh - lk) /\ i \in 1..lh /\ ~(i <= lk)
      BY <1>1
    <3> QED
      BY <1>3, <2>1, <2>2, <3>1
  <2> QED
    <3>1. ASSUME NEW i \in 1..lk PROVE p[i] = k[i]
      <4>1. i \in 1..(lk + (lh - lk)) /\ i <= lk
        BY <1>1
      <4> QED
        BY <2>1, <4>1
    <3> QED
      BY <2>1, <2>2, <2>3, <3>1
<1>6. PICK d : d = SubSeq(t, 1, lt)
  OBVIOUS
<1>7. d \in Seq(S) /\ Len(d) = lt /\ \A i \in 1..lt : d[i] = t[i]
  <2>1. \A i \in 1..lt : t[i] \in S
    BY <1>1, ElementOfSeq
  <2> QED
    BY <1>1, <1>6, <2>1
<1>8. after = p \o d
  <2>1. SubSeq(k, 1, Len(k)) = k
    OBVIOUS
  <2>2. Len(t) - 1 = lt
    BY <1>1
  <2> QED
    BY <1>1, <1>2, <1>4, <1>6, <2>1, <2>2
<1>9. /\ after \in Seq(S) /\ Len(after) = lh + lt
      /\ \A i \in 1..lh : after[i] = p[i]
      /\ \A i \in (lh + 1)..(lh + lt) : after[i] = t[i - lh]
  <2>1. /\ after \in Seq(S) /\ Len(after) = lh + lt
        /\ \A i \in 1..(lh + lt) : after[i] = IF i <= lh THEN p[i] ELSE d[i - lh]
    <3>1. /\ p \o d \in Seq(S) /\ Len(p \o d) = Len(p) + Len(d)
          /\ \A i \in 1..(Len(p) + Len(d)) :
               (p \o d)[i] = IF i <= Len(p) THEN p[i] ELSE d[i - Len(p)]
      BY <1>5, <1>7, ConcatProperties, Zenon
    <3> QED
      BY <1>5, <1>7, <1>8, <3>1, Zenon
  <2>2. ASSUME NEW i \in (lh + 1)..(lh + lt) PROVE after[i] = t[i - lh]
    <3>1. i - lh \in 1..lt /\ i \in 1..(lh + lt) /\ ~(i <= lh)
      BY <1>1
    <3> QED
      BY <1>7, <2>1, <3>1
  <2> QED
    <3>1. ASSUME NEW i \in 1..lh PROVE after[i] = p[i]
      <4>1. i \in 1..(lh + lt) /\ i <= lh
        BY <1>1
      <4> QED
        BY <2>1, <4>1
    <3> QED
      BY <2>1, <2>2, <3>1
<1>10. PICK u, w : u = h \o t /\ w = Column(li, no)
  OBVIOUS
<1>11. w \in Seq(S) /\ Len(w) = li /\ \A i \in 1..li : w[i] = no
  BY <1>10, ColumnOf
<1>12. /\ u \in Seq(S) /\ Len(u) = lh + lt + 1
       /\ \A i \in 1..lh : u[i] = h[i]
       /\ \A i \in (lh + 1)..(lh + lt + 1) : u[i] = t[i - lh]
  <2>1. /\ u \in Seq(S) /\ Len(u) = lh + (lt + 1)
        /\ \A i \in 1..(lh + (lt + 1)) : u[i] = IF i <= lh THEN h[i] ELSE t[i - lh]
    <3>1. /\ h \o t \in Seq(S) /\ Len(h \o t) = Len(h) + Len(t)
          /\ \A i \in 1..(Len(h) + Len(t)) :
               (h \o t)[i] = IF i <= Len(h) THEN h[i] ELSE t[i - Len(h)]
      BY ConcatProperties, Zenon
    <3> QED
      BY <1>1, <1>10, <3>1, Zenon
  <2> QED
    BY <1>1, <2>1
<1>13. /\ text \in Seq(S) /\ Len(text) = lh + lt + 1 + li
       /\ \A i \in 1..(lh + lt + 1) : text[i] = u[i]
       /\ \A i \in (lh + lt + 2)..(lh + lt + 1 + li) : text[i] = no
  <2>1. /\ text \in Seq(S) /\ Len(text) = lh + lt + 1 + li
        /\ \A i \in 1..(lh + lt + 1 + li) :
             text[i] = IF i <= lh + lt + 1 THEN u[i] ELSE w[i - (lh + lt + 1)]
    <3>1. /\ u \o w \in Seq(S) /\ Len(u \o w) = Len(u) + Len(w)
          /\ \A i \in 1..(Len(u) + Len(w)) :
               (u \o w)[i] = IF i <= Len(u) THEN u[i] ELSE w[i - Len(u)]
      BY <1>11, <1>12, ConcatProperties, Zenon
    <3> QED
      BY <1>1, <1>10, <1>11, <1>12, <3>1, Zenon
  <2>2. ASSUME NEW i \in (lh + lt + 2)..(lh + lt + 1 + li) PROVE text[i] = no
    <3>1. /\ i - (lh + lt + 1) \in 1..li /\ i \in 1..(lh + lt + 1 + li)
          /\ ~(i <= lh + lt + 1)
      BY <1>1
    <3> QED
      BY <1>11, <2>1, <3>1
  <2>3. ASSUME NEW i \in 1..(lh + lt + 1) PROVE text[i] = u[i]
    <3>1. i \in 1..(lh + lt + 1 + li) /\ i <= lh + lt + 1
      BY <1>1
    <3> QED
      BY <2>1, <3>1
  <2> QED
    BY <2>1, <2>2, <2>3
<1>14. DOMAIN h = 1..lh /\ DOMAIN text = 1..(lh + lt + 1 + li)
  BY <1>1, <1>13, LenProperties
<1>15. \A i \in DOMAIN h : i \in DOMAIN text /\ text[i] = h[i]
  BY <1>1, <1>12, <1>13, <1>14
<1>16. ASSUME NEW i \in 1..lk PROVE after[i] = k[i]
  <2>1. i \in 1..lh
    BY <1>1
  <2> QED
    BY <1>5, <1>9, <2>1
<1>17. ASSUME NEW i \in (lk + 1)..lh PROVE after[i] = no
  <2>1. i \in 1..lh
    BY <1>1
  <2> QED
    BY <1>5, <1>9, <2>1
<1>18. ASSUME NEW i \in (lh + 1)..(lh + lt) PROVE after[i] = text[i]
  <2>1. i \in (lh + 1)..(lh + lt + 1) /\ i \in 1..(lh + lt + 1)
    BY <1>1
  <2>2. text[i] = u[i] /\ u[i] = t[i - lh]
    BY <1>12, <1>13, <2>1
  <2> QED
    BY <1>9, <2>2
<1>19. ASSUME t[Len(t)] = no, NEW i \in DOMAIN text, text[i] # no PROVE i <= lh + lt
  <2>1. i <= lh + lt \/ i \in (lh + lt + 2)..(lh + lt + 1 + li) \/ i = lh + lt + 1
    <3>1. i \in 1..(lh + lt + 1 + li)
      BY <1>14
    <3>2. PICK m \in Nat, j \in Int : m = lh + lt /\ j = i
      <4>1. lh + lt \in Nat /\ lh + lt + 1 + li \in Nat
        BY <1>1
      <4>2. i \in Int
        BY <3>1, <4>1
      <4> QED
        BY <4>1, <4>2, Zenon
    <3>3. j \in 1..(m + 1 + li)
      BY <3>1, <3>2
    <3>4. j <= m \/ j = m + 1 \/ (m + 2 <= j /\ j <= m + 1 + li)
      BY <3>3
    <3>5. j <= m \/ j \in (m + 2)..(m + 1 + li) \/ j = m + 1
      BY <3>4
    <3> QED
      BY <3>2, <3>5
  <2>2. CASE i = lh + lt + 1
    <3>1. /\ lh + lt + 1 - lh = lt + 1 /\ lh + lt + 1 \in (lh + 1)..(lh + lt + 1)
          /\ lh + lt + 1 \in 1..(lh + lt + 1)
      BY <1>1
    <3>2. text[i] = t[lt + 1]
      BY <1>12, <1>13, <2>2, <3>1
    <3> QED
      BY <1>1, <1>19, <3>2
  <2> QED
    BY <1>13, <1>19, <2>1, <2>2
<1>20. lh <= lh + lt /\ lh + lt < lh + lt + 1 + li
  BY <1>1
<1> QED
  BY <1>1, <1>9, <1>13, <1>15, <1>16, <1>17, <1>18, <1>19, <1>20 DEF TurnOf

LEMMA InitKV == Init => KVInv
<1> SUFFICES ASSUME Init PROVE KVInv
  OBVIOUS
<1>1. Servers[1] \in Server
  <2>1. 1 \in DOMAIN Servers
    BY RoutingAssumption, EmptySeq, LenProperties
  <2> QED
    BY <2>1 DEF Server, Range
<1>2. PICK n \in Nat \ {0} : n = PromptLen
  BY RoutingAssumption
<1>3. /\ Column(n, FALSE) \in Seq(BOOLEAN) /\ Len(Column(n, FALSE)) = n
      /\ \A i \in 1..n : Column(n, FALSE)[i] = FALSE
  BY <1>2, ColumnOf, Zenon
<1>4. Texts
  BY <1>1, <1>2, <1>3, EmptySeq DEF Init, Texts
<1>5. ASSUME NEW c \in Conv PROVE Fits(c)
  <2>1. /\ hist[c] = Column(n, FALSE) /\ kv[c] = <<>> /\ visited[c] = <<>> /\ pc[c] = "idle"
        /\ \A s \in Server : cache[s][c] = <<>>
    BY <1>2 DEF Init
  <2>2. Len(<<>>) = 0 /\ DOMAIN <<>> = {} /\ Range(<<>>) = {}
    BY EmptySeq DEF Range
  <2>3. DOMAIN hist[c] = 1..n
    BY <1>2, <1>3, <2>1, LenProperties
  <2>4. \A i \in DOMAIN hist[c] : hist[c][i] = FALSE
    BY <1>3, <2>1, <2>3
  <2>8. /\ Len(hist[c]) = n /\ Len(kv[c]) = 0
        /\ \A s \in Server : Len(cache[s][c]) = 0 /\ DOMAIN cache[s][c] = {}
    BY <1>3, <2>1, <2>2, Zenon
  <2>5. Place(c)
    <3>1. \A i \in DOMAIN hist[c] : ~hist[c][i]
      BY <2>4, Zenon
    <3>2. Len(kv[c]) < Len(hist[c])
      BY <1>2, <2>8
    <3> QED
      BY <2>1, <3>1, <3>2, Zenon DEF Place
  <2>6. Held(c)
    <3>1. \A s \in Server : Len(cache[s][c]) < Len(hist[c]) /\ DOMAIN cache[s][c] = {}
      BY <1>2, <2>2, <2>8
    <3> QED
      BY <3>1, Zenon DEF Held
  <2>7. Reached(c) /\ Lost(c)
    BY <2>1, <2>2 DEF Reached, Lost
  <2> QED
    BY <2>5, <2>6, <2>7 DEF Fits
<1> QED
  BY <1>4, <1>5 DEF KVInv

LEMMA RangeIn == ASSUME NEW v \in Seq(Server) PROVE Range(v) \subseteq Server
  BY ElementOfSeq, LenProperties DEF Range

\* A step of another rollout.
LEMMA Untouched ==
  ASSUME Texts, NEW d \in Conv, Fits(d), evictions' = evictions,
         pc'[d] = pc[d], server'[d] = server[d], hist'[d] = hist[d], kv'[d] = kv[d],
         visited'[d] = visited[d], ends'[d] = ends[d],
         \A s \in Server : cache'[s][d] = cache[s][d]
  PROVE  Fits(d)'
<1>1. Kept(d)' = Kept(d)
  BY DEF Kept, Stayed
<1>2. \A i : InTail(d, i)' = InTail(d, i)
  BY DEF InTail
<1>3. Place(d)'
  BY DEF Fits, Place
<1>4. Held(d)'
  BY <1>1, <1>2 DEF Fits, Held
<1>5. Reached(d)'
  <2>1. Range(visited'[d]) = Range(visited[d])
    BY DEF Range
  <2>2. Kept(d) => \A s \in Range(visited'[d]) : Len(cache[s][d]) = FullBlocks(Len(kv[d]))
    BY <2>1 DEF Fits, Reached
  <2>3. \A s \in Range(visited'[d]) : cache'[s][d] = cache[s][d]
    BY <2>1, RangeIn DEF Texts
  <2> QED
    BY <1>1, <2>2, <2>3 DEF Reached
<1>6. Lost(d)'
  BY <1>1, <1>2 DEF Fits, Lost
<1> QED
  BY <1>3, <1>4, <1>5, <1>6 DEF Fits

Alike(v) == \A i, j \in DOMAIN v : v[i] = v[j]

\* One more replica after the others: if all are the same, they were before.
OneMore(v, s, w) ==
  /\ w # <<>> /\ w[Len(w)] = s
  /\ Alike(w) => Alike(v) /\ (v # <<>> => Range(w) = Range(v))

LEMMA AppendAlike ==
  ASSUME NEW v \in Seq(Server), NEW s \in Server
  PROVE  OneMore(v, s, Append(v, s))
<1> PICK w : w = Append(v, s)
  OBVIOUS
<1> USE DEF Alike
<1>1. PICK n \in Nat : n = Len(v) /\ DOMAIN v = 1..n
  BY LenProperties
<1>2. /\ w \in Seq(Server) /\ Len(w) = n + 1 /\ DOMAIN w = 1..(n + 1) /\ w[n + 1] = s
      /\ \A i \in 1..n : w[i] = v[i]
  BY <1>1
<1>3. w # <<>> /\ w[Len(w)] = s
  BY <1>1, <1>2
<1>4. ASSUME \A i, j \in DOMAIN w : w[i] = w[j]
      PROVE  /\ \A i, j \in DOMAIN v : v[i] = v[j]
             /\ v # <<>> => Range(w) = Range(v)
  <2>1. ASSUME NEW i \in DOMAIN v, NEW j \in DOMAIN v PROVE v[i] = v[j]
    BY <1>1, <1>2, <1>4
  <2>2. ASSUME v # <<>> PROVE Range(w) = Range(v)
    <3>1. 1 \in DOMAIN v
      BY <1>1, <2>2, EmptySeq
    <3>2. \A x \in DOMAIN w : w[x] = v[1]
      BY <1>1, <1>2, <1>4, <3>1
    <3>3. \A x \in DOMAIN v : v[x] = v[1]
      BY <2>1, <3>1
    <3>4. Range(w) = {v[1]}
      BY <1>1, <1>2, <3>1, <3>2 DEF Range
    <3>5. Range(v) = {v[1]}
      BY <3>1, <3>3 DEF Range
    <3> QED
      BY <3>4, <3>5
  <2> QED
    BY <2>1, <2>2
<1> QED
  BY <1>3, <1>4 DEF OneMore

LEMMA AcquireKV ==
  ASSUME Counters, Remembered, KVInv, NEW c \in Conv, Acquire(c)
  PROVE  KVInv'
<1>1. PICK s \in Server :
        /\ visited' = [visited EXCEPT ![c] = Append(@, s)]
        /\ server' = [server EXCEPT ![c] = s]
        /\ pc[c] = "idle" /\ pc' = [pc EXCEPT ![c] = "served"]
        /\ hist' = hist /\ kv' = kv /\ cache' = cache /\ ends' = ends
        /\ evictions' = evictions
  <2>1. Chosen(c) \in Server
    BY ChosenServer
  <2> QED
    BY <2>1 DEF Acquire, Chosen, engine
<1>2. Texts /\ Fits(c)
  BY DEF KVInv
<1>3. Texts'
  <2>1. visited' \in [Conv -> Seq(Server)]
    BY <1>1, <1>2 DEF Texts
  <2> QED
    BY <1>1, <1>2, <2>1 DEF Texts
<1>4. ASSUME NEW d \in Conv, d # c PROVE Fits(d)'
  BY <1>1, <1>2, <1>4, Untouched DEF KVInv, Texts
<1>5. PICK v \in Seq(Server), w \in Seq(Server) :
        v = visited[c] /\ w = visited'[c] /\ w = Append(v, s)
  <2>1. visited[c] \in Seq(Server) /\ visited'[c] = Append(visited[c], s)
    BY <1>1, <1>2 DEF Texts
  <2>2. visited'[c] \in Seq(Server)
    BY <1>3 DEF Texts
  <2> QED
    BY <2>1, <2>2
<1>6. /\ w # <<>> /\ w[Len(w)] = s
      /\ Stayed(c)' => Stayed(c) /\ (v # <<>> => Range(w) = Range(v))
  <2>1. /\ w # <<>> /\ w[Len(w)] = s
        /\ Alike(w) => Alike(v) /\ (v # <<>> => Range(w) = Range(v))
    <3>1. OneMore(v, s, w)
      BY <1>5, AppendAlike
    <3> QED
      BY <3>1 DEF OneMore
  <2>2. Stayed(c) = Alike(v) /\ Stayed(c)' = Alike(w)
    BY <1>5 DEF Stayed, Alike
  <2> QED
    BY <2>1, <2>2
<1>7. Kept(c)' => Kept(c) /\ (v # <<>> => Range(w) = Range(v))
  BY <1>1, <1>6 DEF Kept
<1>8. \A i : InTail(c, i)' = InTail(c, i)
  BY <1>1 DEF InTail
<1>9. v = <<>> => kv[c] = <<>> /\ \A r \in Server : cache[r][c] = <<>>
  BY <1>2, <1>5 DEF Fits, Place
<1>10. Place(c)'
  <2>1. pc'[c] = "served" /\ server'[c] = s
    BY <1>1, <1>2 DEF Texts
  <2> QED
    BY <1>1, <1>2, <1>5, <1>6, <2>1 DEF Fits, Place
<1>11. Held(c)'
  <2>1. CASE v = <<>>
    <3>1. \A r \in Server : DOMAIN cache[r][c] = {}
      BY <1>9, <2>1, EmptySeq
    <3> QED
      BY <1>1, <1>2, <3>1 DEF Fits, Held
  <2>2. CASE v # <<>>
    BY <1>1, <1>2, <1>5, <1>7, <1>8, <2>2 DEF Fits, Held
  <2> QED
    BY <2>1, <2>2
<1>12. Reached(c)'
  <2>1. CASE v = <<>>
    <3>1. \A r \in Server : Len(cache[r][c]) = FullBlocks(Len(kv[c]))
      BY <1>9, <2>1, EmptySeq, FullBlocksBound
    <3>2. Range(w) \subseteq Server
      BY <1>5, ElementOfSeq, LenProperties DEF Range
    <3> QED
      BY <1>1, <1>5, <3>1, <3>2 DEF Reached
  <2>2. CASE v # <<>>
    BY <1>1, <1>2, <1>5, <1>7, <2>2 DEF Fits, Reached
  <2> QED
    BY <2>1, <2>2
<1>13. Lost(c)'
  BY <1>1, <1>2, <1>7, <1>8 DEF Fits, Lost
<1> QED
  BY <1>3, <1>4, <1>10, <1>11, <1>12, <1>13 DEF KVInv, Fits

\* generate returns: the turn attended to what its replica had cached, to none of the
\* sentinels behind that, and to its own.
LEMMA AnsweredKV ==
  ASSUME KVInv, NEW c \in Conv, Answered(c)
  PROVE  KVInv'
<1>1. PICK t, next, s, k, h, after, text :
        /\ t \in TurnShapes /\ next \in {"idle", "over"}
        /\ s = server[c] /\ k = cache[s][c] /\ h = hist[c]
        /\ after = Prefilled(s, c) \o SubSeq(t, 1, Len(t) - 1)
        /\ text = (h \o t) \o Column(InfoLen, FALSE)
        /\ t[Len(t)] => next = "over"
        /\ pc[c] = "served" /\ pc' = [pc EXCEPT ![c] = next]
        /\ kv' = [kv EXCEPT ![c] = after]
        /\ cache' = [cache EXCEPT ![s][c] = SubSeq(after, 1, FullBlocks(Len(after)))]
        /\ hist' = [hist EXCEPT ![c] = text]
        /\ ends' = [ends EXCEPT ![c] = @ \cup {Len(after)}]
        /\ server' = server /\ visited' = visited /\ evictions' = evictions
  <2>1. PICK t \in TurnShapes, next \in {"idle", "over"} :
          LET s == server[c]
              after == Prefilled(s, c) \o SubSeq(t, 1, Len(t) - 1)
          IN /\ t[Len(t)] => next = "over"
             /\ pc' = [pc EXCEPT ![c] = next]
             /\ kv' = [kv EXCEPT ![c] = after]
             /\ cache' = [cache EXCEPT ![s][c] = SubSeq(after, 1, FullBlocks(Len(after)))]
             /\ hist' = [hist EXCEPT ![c] = @ \o t \o Column(InfoLen, FALSE)]
             /\ ends' = [ends EXCEPT ![c] = @ \cup {Len(after)}]
    BY Zenon DEF Answered
  <2>2. pc[c] = "served" /\ server' = server /\ visited' = visited /\ evictions' = evictions
    BY DEF Answered
  <2>3. PICK text : text = (hist[c] \o t) \o Column(InfoLen, FALSE)
    OBVIOUS
  <2>4. hist' = [hist EXCEPT ![c] = text]
    BY <2>1, <2>3
  <2>5. PICK s, k, h : s = server[c] /\ k = cache[s][c] /\ h = hist[c]
    OBVIOUS
  <2>6. PICK after : after = Prefilled(s, c) \o SubSeq(t, 1, Len(t) - 1)
    OBVIOUS
  <2>7. /\ kv' = [kv EXCEPT ![c] = after]
        /\ cache' = [cache EXCEPT ![s][c] = SubSeq(after, 1, FullBlocks(Len(after)))]
        /\ ends' = [ends EXCEPT ![c] = @ \cup {Len(after)}]
    BY <2>1, <2>5, <2>6, Zenon
  <2>8. text = (h \o t) \o Column(InfoLen, FALSE)
    BY <2>3, <2>5
  <2>9. (t[Len(t)] => next = "over") /\ pc' = [pc EXCEPT ![c] = next]
    BY <2>1, Zenon
  <2> QED
    BY <2>2, <2>4, <2>5, <2>6, <2>7, <2>8, <2>9, Zenon
<1>2. Texts /\ Place(c) /\ Held(c) /\ Reached(c)
  BY DEF KVInv, Fits
<1>3. /\ s \in Server /\ k \in Seq(BOOLEAN) /\ h \in Seq(BOOLEAN)
      /\ visited[c] \in Seq(Server) /\ kv[c] \in Seq(BOOLEAN)
      /\ t \in Seq(BOOLEAN) /\ t # <<>>
  BY <1>1, <1>2, RoutingAssumption DEF Texts
<1>4. Len(k) < Len(h)
  BY <1>1, <1>2, <1>3 DEF Held
<1>5. TurnOf(BOOLEAN, FALSE, h, k, t, after, text)
  <2>1. Prefilled(s, c) = SubSeq(k, 1, Len(k)) \o Column(Len(h) - Len(k), FALSE)
    BY <1>1, <1>4 DEF Prefilled
  <2>2. after = (SubSeq(k, 1, Len(k)) \o Column(Len(h) - Len(k), FALSE))
                  \o SubSeq(t, 1, Len(t) - 1)
    BY <1>1, <2>1, Zenon
  <2>3. FALSE \in BOOLEAN
    OBVIOUS
  <2> QED
    BY <1>1, <1>3, <1>4, <2>2, <2>3, TurnTexts, Zenon
<1>6. /\ after \in Seq(BOOLEAN) /\ text \in Seq(BOOLEAN)
      /\ Len(h) <= Len(after) /\ Len(after) < Len(text)
      /\ \A i \in DOMAIN h : i \in DOMAIN text /\ text[i] = h[i]
  BY <1>5, Zenon DEF TurnOf
<1>7. PICK F \in Nat : F = FullBlocks(Len(after)) /\ F <= Len(after)
  BY <1>6, LenProperties, FullBlocksBound
<1>8. PICK b : b = SubSeq(after, 1, F)
  OBVIOUS
<1>9. /\ b \in Seq(BOOLEAN) /\ Len(b) = F /\ DOMAIN b = 1..F
      /\ \A i \in DOMAIN b : i \in 1..Len(after) /\ b[i] = after[i]
  <2>1. \A i \in 1..F : after[i] \in BOOLEAN
    BY <1>6, <1>7, ElementOfSeq, LenProperties
  <2>2. b \in Seq(BOOLEAN) /\ Len(b) = F
    BY <1>6, <1>7, <1>8, <2>1
  <2>3. DOMAIN b = 1..F
    BY <2>2, LenProperties
  <2>4. \A i \in 1..F : i \in 1..Len(after) /\ b[i] = after[i]
    BY <1>6, <1>7, <1>8, <2>1, LenProperties
  <2> QED
    BY <2>2, <2>3, <2>4
<1>10. /\ kv'[c] = after /\ hist'[c] = text /\ cache'[s][c] = b /\ pc'[c] = next
       /\ ends'[c] = ends[c] \cup {Len(after)}
       /\ \A r \in Server : r # s => cache'[r][c] = cache[r][c]
  <2>1. kv'[c] = after /\ hist'[c] = text /\ pc'[c] = next
    BY <1>1, <1>2, Zenon DEF Texts
  <2>2. ends'[c] = ends[c] \cup {Len(after)}
    BY <1>1, <1>2 DEF Texts
  <2>3. cache'[s][c] = b /\ \A r \in Server : r # s => cache'[r][c] = cache[r][c]
    BY <1>1, <1>2, <1>3, <1>7, <1>8, Zenon DEF Texts
  <2> QED
    BY <2>1, <2>2, <2>3
<1>11. Texts'
  <2>1. /\ hist' \in [Conv -> Seq(BOOLEAN)] /\ kv' \in [Conv -> Seq(BOOLEAN)]
        /\ pc' \in [Conv -> {"idle", "served", "over"}]
    BY <1>1, <1>2, <1>6 DEF Texts
  <2>2. ends' \in [Conv -> SUBSET Nat]
    <3>1. Len(after) \in Nat
      BY <1>6, LenProperties
    <3> QED
      BY <1>1, <1>2, <3>1 DEF Texts
  <2>3. cache' \in [Server -> [Conv -> Seq(BOOLEAN)]]
    BY <1>1, <1>2, <1>3, <1>7, <1>8, <1>9 DEF Texts
  <2> QED
    BY <1>1, <1>2, <2>1, <2>2, <2>3 DEF Texts
<1>12. ASSUME NEW d \in Conv, d # c PROVE Fits(d)'
  <2>1. /\ pc'[d] = pc[d] /\ hist'[d] = hist[d] /\ kv'[d] = kv[d]
        /\ ends'[d] = ends[d] /\ \A r \in Server : cache'[r][d] = cache[r][d]
    BY <1>1, <1>2, <1>3, <1>12, Zenon DEF Texts
  <2> QED
    BY <1>1, <1>2, <1>12, <2>1, Untouched DEF KVInv
<1>13. Kept(c)' = Kept(c)
  BY <1>1 DEF Kept, Stayed
<1>14. \A i : InTail(c, i) => InTail(c, i)'
  BY <1>10 DEF InTail
<1>15. visited[c] # <<>> /\ s = visited[c][Len(visited[c])] /\ s \in Range(visited[c])
  <2>1. visited[c] # <<>> /\ s = visited[c][Len(visited[c])]
    BY <1>1, <1>2 DEF Place
  <2>2. Len(visited[c]) \in DOMAIN visited[c]
    BY <1>3, <2>1, EmptySeq, LenProperties
  <2> QED
    BY <2>1, <2>2 DEF Range
<1>16. ASSUME NEW i \in 1..Len(after)
       PROVE  /\ after[i] => text[i]
              /\ text[i] /\ ~after[i] /\ Kept(c) => InTail(c, i)
  <2>1. /\ Len(k) \in Nat /\ Len(h) \in Nat /\ Len(after) \in Nat
        /\ DOMAIN k = 1..Len(k) /\ DOMAIN h = 1..Len(h)
    BY <1>3, <1>6, LenProperties
  <2>2. CASE i \in 1..Len(k)
    <3>1. after[i] = k[i] /\ i \in DOMAIN h /\ text[i] = h[i]
      <4>1. i \in DOMAIN h
        BY <1>4, <2>1, <2>2
      <4>2. after[i] = k[i]
        BY <1>5, <2>2, Zenon DEF TurnOf
      <4> QED
        BY <1>6, <4>1, <4>2
    <3>2. /\ k[i] => h[i]
          /\ h[i] /\ ~k[i] /\ Kept(c) => InTail(c, i)
      BY <1>1, <1>2, <1>3, <1>15, <2>1, <2>2, Zenon DEF Held
    <3> QED
      BY <3>1, <3>2, Zenon
  <2>3. CASE i \in (Len(k) + 1)..Len(h)
    <3>1. after[i] = FALSE /\ i \in DOMAIN h /\ text[i] = h[i]
      <4>1. i \in DOMAIN h
        BY <2>1, <2>3
      <4>2. after[i] = FALSE
        BY <1>5, <2>3, Zenon DEF TurnOf
      <4> QED
        BY <1>6, <4>1, <4>2
    <3>2. ASSUME h[i], Kept(c) PROVE InTail(c, i)
      <4>1. PICK e : e = Len(kv[c]) /\ e \in Nat
        BY <1>3, LenProperties
      <4>2. i <= e
        <5>1. pc[c] # "over" /\ i \in DOMAIN hist[c] /\ hist[c][i]
          BY <1>1, <3>1, <3>2
        <5> QED
          BY <1>2, <4>1, <5>1 DEF Place
      <4>3. kv[c] # <<>>
        <5>1. e # 0
          BY <2>1, <4>1, <4>2
        <5> QED
          BY <4>1, <5>1, EmptySeq
      <4>4. e \in ends[c]
        BY <1>2, <4>1, <4>3 DEF Place
      <4>5. FullBlocks(e) = Len(k)
        BY <1>1, <1>2, <1>15, <3>2, <4>1 DEF Reached
      <4>6. FullBlocks(e) < i
        BY <2>1, <2>3, <4>5
      <4> QED
        BY <4>2, <4>4, <4>6 DEF InTail
    <3> QED
      BY <3>1, <3>2, Zenon
  <2>4. CASE i \in (Len(h) + 1)..Len(after)
    <3>1. after[i] = text[i]
      BY <1>5, <2>4, Zenon DEF TurnOf
    <3> QED
      BY <3>1, Zenon
  <2>5. i \in 1..Len(k) \/ i \in (Len(k) + 1)..Len(h) \/ i \in (Len(h) + 1)..Len(after)
    BY <1>4, <1>6, <2>1
  <2> QED
    BY <2>2, <2>3, <2>4, <2>5
<1>17. Place(c)'
  <2>1. ASSUME next # "over"
        PROVE  \A i \in DOMAIN text : text[i] => i <= Len(after)
    <3>1. t[Len(t)] \in BOOLEAN
      <4>1. Len(t) \in 1..Len(t)
        BY <1>3, EmptySeq, LenProperties
      <4> QED
        BY <1>3, <4>1, ElementOfSeq
    <3>2. t[Len(t)] = FALSE
      BY <1>1, <2>1, <3>1, Zenon
    <3>3. \A i \in DOMAIN text : text[i] # FALSE => i <= Len(after)
      BY <1>5, <3>2, Zenon DEF TurnOf
    <3> QED
      BY <3>3, Zenon
  <2>2. visited'[c] # <<>> /\ pc'[c] # "served"
    BY <1>1, <1>10, <1>15
  <2>3. Len(kv'[c]) < Len(hist'[c]) /\ Len(kv'[c]) \in ends'[c]
    BY <1>6, <1>10
  <2> QED
    BY <1>10, <2>1, <2>2, <2>3, Zenon DEF Place
<1>18. Held(c)'
  <2> SUFFICES ASSUME NEW r \in Server
               PROVE  /\ Len(cache'[r][c]) < Len(hist'[c])
                      /\ \A i \in DOMAIN cache'[r][c] :
                           /\ cache'[r][c][i] => hist'[c][i]
                           /\ (/\ hist'[c][i] /\ ~cache'[r][c][i]
                               /\ Kept(c)' /\ r \in Range(visited'[c])) => InTail(c, i)'
    BY Zenon DEF Held, Range
  <2>1. CASE r = s
    <3>1. Len(b) < Len(text)
      BY <1>6, <1>7, <1>9, LenProperties
    <3>2. ASSUME NEW i \in DOMAIN b
          PROVE  /\ b[i] => text[i]
                 /\ text[i] /\ ~b[i] /\ Kept(c)' => InTail(c, i)'
      <4>1. i \in 1..Len(after) /\ b[i] = after[i]
        BY <1>9
      <4> QED
        BY <1>13, <1>14, <1>16, <4>1, Zenon
    <3> QED
      BY <1>10, <2>1, <3>1, <3>2, Zenon
  <2>2. CASE r # s
    <3>1. cache'[r][c] = cache[r][c] /\ cache[r][c] \in Seq(BOOLEAN)
      BY <1>2, <1>10, <2>2 DEF Texts
    <3>2. Len(cache[r][c]) < Len(h)
      BY <1>1, <1>2 DEF Held
    <3>3. Len(cache[r][c]) < Len(text)
      BY <1>3, <1>6, <3>1, <3>2, LenProperties
    <3>4. ASSUME NEW i \in DOMAIN cache[r][c]
          PROVE  /\ text[i] = h[i] /\ (cache[r][c][i] => h[i])
                 /\ (h[i] /\ ~cache[r][c][i] /\ Kept(c) /\ r \in Range(visited[c])) =>
                      InTail(c, i)
      <4>1. i \in DOMAIN h
        BY <1>3, <3>1, <3>2, LenProperties
      <4> QED
        BY <1>1, <1>2, <1>6, <4>1, Zenon DEF Held
    <3> QED
      BY <1>1, <1>10, <1>13, <1>14, <3>1, <3>3, <3>4, Zenon
  <2> QED
    BY <2>1, <2>2
<1>19. Reached(c)'
  <2> SUFFICES ASSUME Kept(c), NEW r \in Range(visited[c])
               PROVE  Len(cache'[r][c]) = FullBlocks(Len(kv'[c]))
    BY <1>1, <1>13 DEF Reached, Range
  <2>1. r = s
    <3>1. PICK j \in DOMAIN visited[c] : r = visited[c][j]
      BY DEF Range
    <3>2. Len(visited[c]) \in DOMAIN visited[c]
      BY <1>3, <1>15, EmptySeq, LenProperties
    <3> QED
      BY <1>15, <3>1, <3>2 DEF Kept, Stayed
  <2> QED
    BY <1>7, <1>9, <1>10, <2>1
<1>20. Lost(c)'
  <2>1. DOMAIN kv'[c] = 1..Len(after)
    BY <1>6, <1>10, LenProperties
  <2> QED
    BY <1>10, <1>13, <1>14, <1>16, <2>1, Zenon DEF Lost
<1> QED
  BY <1>11, <1>12, <1>17, <1>18, <1>19, <1>20 DEF KVInv, Fits

\* generate raises, or a release arrives: nothing was computed.
LEMMA NothingComputed ==
  ASSUME KVInv, NEW over, pc' = [c \in Conv |-> IF c = over THEN "over" ELSE pc[c]],
         UNCHANGED <<server, hist, engine, visited, ends>>
  PROVE  KVInv'
<1>1. Texts /\ Texts'
  BY DEF KVInv, Texts, engine
<1>2. ASSUME NEW d \in Conv PROVE Fits(d)'
  <2>1. Fits(d)
    BY DEF KVInv
  <2>2. Kept(d)' = Kept(d) /\ \A i : InTail(d, i)' = InTail(d, i)
    BY DEF Kept, Stayed, InTail, engine
  <2>3. pc'[d] = pc[d] \/ pc'[d] = "over"
    OBVIOUS
  <2>4. Place(d)'
    BY <2>1, <2>3 DEF Fits, Place, engine
  <2>5. Held(d)' /\ Reached(d)' /\ Lost(d)'
    BY <2>1, <2>2 DEF Fits, Held, Reached, Lost, engine, Range
  <2> QED
    BY <2>4, <2>5 DEF Fits
<1> QED
  BY <1>1, <1>2 DEF KVInv

\* A replica gives up a block: from then on no rollout counts as kept.
LEMMA EvictKV ==
  ASSUME KVInv, NEW s \in Server, NEW c \in Conv, Evict(s, c)
  PROVE  KVInv'
<1>1. PICK k, b :
        /\ k = cache[s][c] /\ b = SubSeq(k, 1, Len(k) - BlockSize) /\ Len(k) >= BlockSize
        /\ cache' = [cache EXCEPT ![s][c] = b]
        /\ evictions' = evictions + 1
        /\ UNCHANGED <<pc, server, hist, kv, visited, ends>>
  BY DEF Evict
<1>2. Texts /\ k \in Seq(BOOLEAN) /\ BlockSize \in Nat \ {0}
  BY <1>1, RoutingAssumption DEF KVInv, Texts
<1>3. PICK n \in Nat : n = Len(k) - BlockSize /\ n < Len(k) /\ k # <<>>
  <2>1. PICK l \in Nat, B \in Nat \ {0} : l = Len(k) /\ B = BlockSize
    BY <1>2, LenProperties
  <2>2. l >= B
    BY <1>1, <2>1
  <2>3. l - B \in Nat /\ l - B < l /\ l # 0
    BY <2>2
  <2>4. k # <<>>
    BY <2>1, <2>3, EmptySeq
  <2> QED
    BY <2>1, <2>3, <2>4
<1>4. /\ b \in Seq(BOOLEAN) /\ Len(b) = n /\ DOMAIN b = 1..n
      /\ \A i \in DOMAIN b : i \in DOMAIN k /\ b[i] = k[i]
  <2>1. \A i \in 1..n : i \in DOMAIN k /\ k[i] \in BOOLEAN
    BY <1>2, <1>3, ElementOfSeq, LenProperties
  <2>2. b \in Seq(BOOLEAN) /\ Len(b) = n
    BY <1>1, <1>2, <1>3, <2>1
  <2>3. DOMAIN b = 1..n
    BY <2>2, LenProperties
  <2>4. \A i \in 1..n : b[i] = k[i]
    BY <1>1, <1>2, <1>3, <2>1, LenProperties
  <2> QED
    BY <2>1, <2>2, <2>3, <2>4
<1>5. /\ cache'[s][c] = b
      /\ \A r \in Server, d \in Conv : <<r, d>> # <<s, c>> => cache'[r][d] = cache[r][d]
  BY <1>1, <1>2 DEF Texts
<1>6. Texts'
  BY <1>1, <1>2, <1>4 DEF Texts
<1>7. ASSUME NEW d \in Conv PROVE Fits(d)'
  <2>1. Fits(d) /\ Held(c)
    BY DEF KVInv, Fits
  <2>2. ~Kept(d)'
    BY <1>1, <1>2 DEF Kept, Texts
  <2>3. ASSUME NEW r \in Server
        PROVE  /\ Len(cache'[r][d]) < Len(hist'[d])
               /\ \A i \in DOMAIN cache'[r][d] : cache'[r][d][i] => hist'[d][i]
               /\ cache[r][d] = <<>> => cache'[r][d] = <<>>
    <3>1. CASE r = s /\ d = c
      <4>1. Len(k) < Len(hist[c]) /\ \A i \in DOMAIN k : k[i] => hist[c][i]
        BY <1>1, <2>1 DEF Held
      <4>2. Len(b) < Len(hist[c])
        BY <1>2, <1>3, <1>4, <4>1, LenProperties DEF Texts
      <4>3. \A i \in DOMAIN b : b[i] => hist[c][i]
        BY <1>4, <4>1, Zenon
      <4>4. cache'[r][d] = b /\ cache[r][d] = k /\ hist'[d] = hist[c]
        BY <1>1, <1>5, <3>1
      <4> QED
        BY <1>3, <4>2, <4>3, <4>4, Zenon
    <3>2. CASE ~(r = s /\ d = c)
      <4>1. cache'[r][d] = cache[r][d]
        BY <1>5, <3>2
      <4> QED
        BY <1>1, <2>1, <4>1, Zenon DEF Fits, Held
    <3> QED
      BY <3>1, <3>2
  <2>4. Place(d)'
    BY <1>1, <2>1, <2>3, Zenon DEF Fits, Place
  <2>5. Held(d)'
    BY <2>2, <2>3, Zenon DEF Held
  <2>6. Reached(d)'
    BY <2>2 DEF Reached
  <2>7. Lost(d)'
    BY <1>1, <2>1, <2>2, Zenon DEF Fits, Lost
  <2> QED
    BY <2>4, <2>5, <2>6, <2>7 DEF Fits
<1> QED
  BY <1>6, <1>7 DEF KVInv

LEMMA NextKV ==
  ASSUME Counters, Remembered, KVInv, [Next]_vars
  PROVE  KVInv'
<1>1. CASE \E c \in Conv : Acquire(c)
  BY <1>1, AcquireKV
<1>2. CASE \E c \in Conv : Answered(c)
  BY <1>2, AnsweredKV
<1>3. CASE \E c \in Conv : Raised(c)
  <2>1. PICK c \in Conv : Raised(c)
    BY <1>3
  <2>2. pc' = [d \in Conv |-> IF d = c THEN "over" ELSE pc[d]]
    BY <2>1 DEF Raised, KVInv, Texts
  <2> QED
    BY <2>1, <2>2, NothingComputed DEF Raised
<1>4. CASE (\E s \in Server : Release(s)) \/ Terminated \/ UNCHANGED vars
  <2>1. UNCHANGED <<pc, server, hist, engine, visited, ends>>
    BY <1>4 DEF Release, Terminated, vars
  <2>2. UNCHANGED <<kv, cache, evictions>>
    BY <2>1 DEF engine
  <2>3. Texts'
    BY <2>1, <2>2 DEF KVInv, Texts
  <2>4. ASSUME NEW d \in Conv PROVE Fits(d)'
    BY <2>1, <2>2, Untouched DEF KVInv
  <2> QED
    BY <2>3, <2>4 DEF KVInv
<1>5. CASE \E s \in Server, c \in Conv : Evict(s, c)
  BY <1>5, EvictKV
<1> QED
  BY <1>1, <1>2, <1>3, <1>4, <1>5 DEF Next

\* "Prefix caching keeps the latent KV intact across agent turns", as far as it is true:
\* for any replicas, rollouts, block size, turns and retrieved texts, a rollout loses no
\* projector output but those of the unfilled last block of a turn while it stays on one
\* replica that evicts nothing, and never attends to one where nothing was spliced.
THEOREM LossesInTail ==
  ASSUME IsFiniteSet(Conv)
  PROVE  Spec => []LostOnlyInTail
<1>1. Init => IInv /\ Remembered /\ KVInv
  BY InitIInv, InitRemembered, InitKV
<1>2. IInv /\ Remembered /\ KVInv /\ [Next]_vars => (IInv /\ Remembered /\ KVInv)'
  BY NextIInv, NextRemembered, NextKV DEF IInv
<1>3. KVInv => LostOnlyInTail
  BY Zenon DEF KVInv, Fits, Lost, LostOnlyInTail, Kept, InTail
<1> QED
  BY <1>1, <1>2, <1>3, PTL DEF Spec
=============================================================================
