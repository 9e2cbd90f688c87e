----------------------------- MODULE TurnRouting -----------------------------
(***************************************************************************)
(* Which replica serves a turn of a rollout, and what its KV cache then    *)
(* holds at the latent positions of the earlier turns: verl's load         *)
(* balancer and server manager, with the generate that                     *)
(* alar/rl/install_patches.py puts in its place.                           *)
(*                                                                         *)
(* The balancer is an actor: its calls are atomic.  A release is sent and  *)
(* not awaited.  The engines (external) keep the KV of full blocks of      *)
(* tokens, find it again by token ids, and compute the rest of a prompt    *)
(* from the embeddings of its token ids (vllm_plugin.py, _preprocess).     *)
(***************************************************************************)
EXTENDS Integers, Sequences, FiniteSets, SequencesExt

CONSTANTS
  Servers,     \* replicas, in the order of the balancer's dictionary
  Conv,        \* rollouts
  Sticky,      \* those with one request id for all their turns (verl's tool agent
               \* loop); the others have a new one for each (ALAR's agent loop)
  MaxRoutes,   \* max_cache_size of the balancer
  MaxTurns,
  TurnShapes,  \* what a turn may write: TRUE stands for a spliced sentinel
  PromptLen, InfoLen,
  BlockSize,   \* tokens in a block of an engine's KV cache
  MaxEvict     \* bound on the evictions from the KV caches

Server == Range(Servers)

ASSUME RoutingAssumption ==
  /\ Servers \in Seq(Server) \ {<<>>} /\ Sticky \subseteq Conv
  /\ {MaxRoutes, MaxTurns, PromptLen, InfoLen, BlockSize} \subseteq Nat \ {0}
  /\ MaxEvict \in Nat
  /\ \A t \in TurnShapes : t \in Seq(BOOLEAN) /\ t # <<>>

VARIABLES
  inflight,   \* _inflight_requests
  routes,     \* _request_id_to_server, least recently used first
  releases,   \* release_server calls on their way to the balancer
  pc,         \* of a rollout: "idle", "served", "over"
  server,     \* the replica its turn was sent to
  hist,       \* its tokens: TRUE where the plugin spliced
  kv,         \* what its last turn attended to: TRUE is a projector output
  cache,      \* what a replica still has of it, in full blocks
  visited,    \* replicas that served it, turn by turn
  ends,       \* where its turns ended
  evictions

balancer == <<inflight, routes, releases>>
engine == <<kv, cache, evictions>>
vars == <<balancer, pc, server, hist, engine, visited, ends>>

Column(n, x) == [i \in 1..n |-> x]
FullBlocks(n) == BlockSize * (n \div BlockSize)

Init ==
  /\ inflight = [s \in Server |-> 0]
  /\ routes = <<>>
  /\ releases = [s \in Server |-> 0]
  /\ pc = [c \in Conv |-> "idle"]
  /\ server = [c \in Conv |-> Servers[1]]
  /\ hist = [c \in Conv |-> Column(PromptLen, FALSE)]
  /\ kv = [c \in Conv |-> <<>>]
  /\ cache = [s \in Server |-> [c \in Conv |-> <<>>]]
  /\ visited = [c \in Conv |-> <<>>]
  /\ ends = [c \in Conv |-> {}]
  /\ evictions = 0

RequestId(c) == IF c \in Sticky THEN <<c, 0>> ELSE <<c, Len(visited[c])>>

Known(id) == \E i \in DOMAIN routes : routes[i].id = id
Routed(id) == (CHOOSE i \in DOMAIN routes : routes[i].id = id)
\* min over the dictionary: the first of the least loaded.
LeastLoaded ==
  LET least == {i \in DOMAIN Servers :
                  \A s \in Server : inflight[Servers[i]] <= inflight[s]}
  IN  Servers[CHOOSE i \in least : \A j \in least : i <= j]

\* routes with id at its most recently used end; a new one may push out the oldest.
Remember(id, s) ==
  LET others == IF Known(id) THEN RemoveAt(routes, Routed(id)) ELSE routes
      room == IF Len(others) < MaxRoutes THEN others ELSE Tail(others)
  IN  Append(room, [id |-> id, server |-> s])

AcquireForgets(c) ==
  /\ pc[c] = "idle"
  /\ Len(visited[c]) < MaxTurns
  /\ LET s == LeastLoaded
     IN /\ routes' = Remember(RequestId(c), s)
        /\ inflight' = [inflight EXCEPT ![s] = @ + 1]
        /\ server' = [server EXCEPT ![c] = s]
        /\ visited' = [visited EXCEPT ![c] = Append(@, s)]
  /\ pc' = [pc EXCEPT ![c] = "served"]
  /\ UNCHANGED <<releases, hist, engine, ends>>

\* acquire_server: a known request id sticks to its server.
Acquire(c) ==
  /\ pc[c] = "idle"
  /\ Len(visited[c]) < MaxTurns
  /\ LET id == RequestId(c)
         s == IF Known(id) THEN routes[Routed(id)].server ELSE LeastLoaded
     IN /\ routes' = Remember(id, s)
        /\ inflight' = [inflight EXCEPT ![s] = @ + 1]
        /\ server' = [server EXCEPT ![c] = s]
        /\ visited' = [visited EXCEPT ![c] = Append(@, s)]
  /\ pc' = [pc EXCEPT ![c] = "served"]
  /\ UNCHANGED <<releases, hist, engine, ends>>

\* The KV of c's prompt on s: its cached full blocks, of which the engine leaves
\* out the one with the last token, and behind them embeddings of token ids.
PrefilledAnew(s, c) == Column(Len(hist[c]), FALSE)
Prefilled(s, c) ==
  LET reused == IF Len(cache[s][c]) < Len(hist[c]) THEN Len(cache[s][c])
                ELSE FullBlocks(Len(hist[c]) - 1)
  IN  SubSeq(cache[s][c], 1, reused) \o Column(Len(hist[c]) - reused, FALSE)

\* generate returns: the engine decoded the turn, splicing as the plugin does;
\* its last token was sampled but not computed.  The rollout goes on with the
\* retrieved text, or is over: always, when the turn was cut within a block.
Answered(c) ==
  /\ pc[c] = "served"
  /\ \E t \in TurnShapes, next \in {"idle", "over"} :
       LET s == server[c]
           after == Prefilled(s, c) \o SubSeq(t, 1, Len(t) - 1)
       IN /\ t[Len(t)] => next = "over"
          /\ pc' = [pc EXCEPT ![c] = next]
          /\ kv' = [kv EXCEPT ![c] = after]
          /\ cache' = [cache EXCEPT ![s][c] = SubSeq(after, 1, FullBlocks(Len(after)))]
          /\ hist' = [hist EXCEPT ![c] = @ \o t \o Column(InfoLen, FALSE)]
          /\ ends' = [ends EXCEPT ![c] = @ \cup {Len(after)}]
          /\ releases' = [releases EXCEPT ![s] = @ + 1]
  /\ UNCHANGED <<inflight, routes, server, visited, evictions>>

\* generate raises: the finally clause releases, the rollout is lost.
RaisedLeaks(c) ==
  /\ pc[c] = "served"
  /\ pc' = [pc EXCEPT ![c] = "over"]
  /\ UNCHANGED <<inflight, routes, releases, server, hist, engine, visited, ends>>
Raised(c) ==
  /\ pc[c] = "served"
  /\ releases' = [releases EXCEPT ![server[c]] = @ + 1]
  /\ pc' = [pc EXCEPT ![c] = "over"]
  /\ UNCHANGED <<inflight, routes, server, hist, engine, visited, ends>>

\* release_server; it raises, and changes nothing, when it has nothing to release.
Release(s) ==
  /\ releases[s] > 0
  /\ releases' = [releases EXCEPT ![s] = @ - 1]
  /\ inflight' = IF inflight[s] > 0 THEN [inflight EXCEPT ![s] = @ - 1] ELSE inflight
  /\ UNCHANGED <<routes, pc, server, hist, engine, visited, ends>>

\* A replica gives up blocks of c for others (external).
Evict(s, c) ==
  /\ evictions < MaxEvict
  /\ Len(cache[s][c]) >= BlockSize
  /\ cache' = [cache EXCEPT ![s][c] = SubSeq(@, 1, Len(@) - BlockSize)]
  /\ evictions' = evictions + 1
  /\ UNCHANGED <<balancer, pc, server, hist, kv, visited, ends>>

Resting(c) == pc[c] = "over" \/ (pc[c] = "idle" /\ Len(visited[c]) = MaxTurns)
Terminated ==
  /\ \A c \in Conv : Resting(c)
  /\ \A s \in Server : releases[s] = 0
  /\ UNCHANGED vars

Next ==
  \/ \E c \in Conv : Acquire(c) \/ Answered(c) \/ Raised(c)
  \/ \E s \in Server : Release(s)
  \/ \E s \in Server, c \in Conv : Evict(s, c)
  \/ Terminated

\* Calls are delivered and engines answer, or raise.
Fairness ==
  /\ \A c \in Conv : WF_vars(Acquire(c)) /\ WF_vars(Answered(c) \/ Raised(c))
  /\ \A s \in Server : WF_vars(Release(s))

Spec == Init /\ [][Next]_vars
FairSpec == Spec /\ Fairness

-----------------------------------------------------------------------------
(* Properties *)

\* A server's count is the requests it has: those being served and those whose
\* release is still under way, in whatever order turns, failures and releases
\* come.  So release_server never raises and least-loaded routing sees true loads.
InflightExact ==
  \A s \in Server :
    inflight[s] = releases[s]
                  + Cardinality({c \in Conv : pc[c] = "served" /\ server[c] = s})

\* No failure leaks load: once every rollout rests, the counters drain for good.
Drains == <>[](\A s \in Server : inflight[s] = 0)

\* Request ids that the balancer has been asked for.
Asked == {id \in Conv \X (0..(MaxTurns - 1)) :
            id[2] < Len(visited[id[1]]) /\ (id[1] \in Sticky => id[2] = 0)}
Stayed(c) == \A i, j \in DOMAIN visited[c] : visited[c][i] = visited[c][j]

\* "same conversation -> same server": a rollout that keeps its request id is
\* never served by another replica than before, whatever the loads, unless more
\* ids came by than the balancer remembers.
StickyTurns ==
  Cardinality(Asked) <= MaxRoutes => \A c \in Sticky : Stayed(c)

\* "Prefix caching keeps the latent KV intact across agent turns": a turn attends
\* to projector outputs at exactly the latent positions, of earlier turns too.
LatentKVIntact == \A c \in Conv : \A i \in DOMAIN kv[c] : kv[c][i] = hist[c][i]

\* How much of that does hold: while a rollout stays on one replica that evicts
\* nothing, the only projector outputs a later turn can lose are those of the
\* last block of a turn, which was not full; and, wherever it goes, none appears
\* where nothing was spliced.
LostOnlyInTail ==
  \A c \in Conv : \A i \in DOMAIN kv[c] :
    /\ kv[c][i] => hist[c][i]
    /\ (hist[c][i] /\ ~kv[c][i] /\ Stayed(c) /\ evictions = 0) =>
         \E e \in ends[c] : FullBlocks(e) < i /\ i <= e
=============================================================================
