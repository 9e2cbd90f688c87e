--------------------------- MODULE TurnSyncProofs ---------------------------
(***************************************************************************)
(* The rollout generator of TurnSync, for any items, rollouts and turns,   *)
(* any cap, and any number of crashes, in or between writes; and what      *)
(* PrepareSft keeps of the file it leaves.                                 *)
(***************************************************************************)
EXTENDS PrepareSft, TLAPS, FiniteSetTheorems, SequenceTheorems, WellFoundedInduction

-----------------------------------------------------------------------------
(* The inductive invariant *)

Whys == {"none", "mismatch", "narration", "error", "length"}
Kinds == {"whole", "torn", "unended", "joined"}
Scores == {Score(e, g, why, len) : e \in Ep, g \in Nat, why \in Whys, len \in 1..3}
Records == [sig : Ep, score : Scores, good : Nat, end : Whys, kind : {"new"}]
Lines == [sig : Ep, score : Scores, good : Nat, end : Whys, kind : Kinds]

Shape ==
  /\ file \in Seq(Lines)
  /\ todo \subseteq Ep /\ written \subseteq todo /\ inflight \subseteq todo \ written
  /\ pc # "posting" => inflight = {}
  /\ turn \in Nat
  /\ good \in [Ep -> Nat] /\ end \in [Ep -> Whys] /\ length \in [Ep -> 1..3]

\* A run begins with nothing in memory.
Afresh ==
  pc = "off" => /\ todo = {} /\ turn = 0
                /\ good = [e \in Ep |-> 0] /\ end = [e \in Ep |-> "none"]

\* What a run has still to write is not on disk.
Fresh == \A e \in todo \ written : e \notin DoneSignatures

\* With a token limit, every episode that is not written has turns to go, and is
\* posted in each: only its last one leaves it inactive, and that one writes it.
Goes(e, t) == end[e] = "none" /\ t < MaxTurns(e)
OnTheWay ==
  HasTokenLimit =>
    \A e \in todo \ written :
      /\ pc = "turn" => Goes(e, turn)
      /\ pc = "posting" => e \in inflight \/ Goes(e, turn + 1)
      /\ pc # "final"

\* Of an episode that is not written: while active it has answered every turn so far,
\* and a mismatch is at the turn behind those it answered, which asks for calls.
Now(e) == IF pc = "posting" /\ e \notin inflight THEN turn + 1 ELSE turn
Missed(e, g, why) == why = "mismatch" => g < Len(Turns[e[1]]) /\ Turns[e[1]][g + 1] > 0
InTime(e, g, why, t) ==
  /\ g \in 0..MaxTurns(e) /\ Missed(e, g, why)
  /\ why = "none" => g = IF t < MaxTurns(e) THEN t ELSE MaxTurns(e)
Answered ==
  \A e \in todo \ written :
    /\ InTime(e, good[e], end[e], Now(e))
    /\ e \in inflight => end[e] = "none" /\ turn < MaxTurns(e)

SInv == Shape /\ Afresh /\ OncePerSignature /\ Fresh /\ Answered /\ PerfectCallsAllRight
IInv == SInv /\ OnTheWay

-----------------------------------------------------------------------------
(* What recursive functions over 0..n are *)

LEMMA NatSet ==
  ASSUME NEW T, 0 \in T, \A n \in Nat : n \in T => n + 1 \in T
  PROVE  Nat \subseteq T
<1> SUFFICES ASSUME Nat \ T # {} PROVE FALSE
  OBVIOUS
<1>1. PICK m \in Nat \ T : \A n \in Nat \ T : <<n, m>> \notin OpToRel(<, Nat)
  BY NatLessThanWellFounded, WFMin
<1>2. m \in Nat \ {0}
  OBVIOUS
<1>3. m - 1 \in Nat /\ m - 1 < m /\ m - 1 + 1 = m
  BY <1>2
<1>4. m - 1 \in T
  BY <1>1, <1>2, <1>3 DEF OpToRel
<1> QED
  BY <1>2, <1>3, <1>4

\* f begins with c, and each value follows from the one before by G.
Follows(f, n, c, G) == f[0] = c /\ \A m \in 1..n : f[m] = G[<<f[m - 1], m>>]

LEMMA Recursion ==
  ASSUME NEW S, NEW c \in S, NEW G \in [S \X Nat -> S], NEW n \in Nat
  PROVE  \E f \in [0..n -> S] : Follows(f, n, c, G)
<1> DEFINE T == {l \in Nat : \E f \in [0..l -> S] : Follows(f, l, c, G)}
<1>1. 0 \in T
  <2>1. PICK f : f = [m \in 0..0 |-> c]
    OBVIOUS
  <2>2. f \in [0..0 -> S] /\ f[0] = c
    BY <2>1
  <2> QED
    BY <2>2 DEF Follows
<1>2. ASSUME NEW l \in Nat, l \in T PROVE l + 1 \in T
  <2>1. PICK f \in [0..l -> S] : Follows(f, l, c, G)
    BY <1>2
  <2>2. f[l] \in S /\ l + 1 \in Nat
    BY <2>1
  <2>3. PICK x \in S : x = G[<<f[l], l + 1>>]
    BY <2>2
  <2>4. PICK g : g = [m \in 0..(l + 1) |-> IF m = l + 1 THEN x ELSE f[m]]
    OBVIOUS
  <2>5. \A m \in 0..(l + 1) : m = l + 1 \/ m \in 0..l
    OBVIOUS
  <2>6. g \in [0..(l + 1) -> S]
    BY <2>3, <2>4, <2>5
  <2>7. g[0] = c
    BY <2>1, <2>4 DEF Follows
  <2>8. ASSUME NEW m \in 1..(l + 1) PROVE g[m] = G[<<g[m - 1], m>>]
    <3>1. m \in 0..(l + 1) /\ m - 1 \in 0..(l + 1) /\ m - 1 # l + 1
      OBVIOUS
    <3>2. g[m - 1] = f[m - 1]
      BY <2>4, <3>1
    <3>3. CASE m = l + 1
      <4>1. g[m] = x /\ m - 1 = l
        BY <2>4, <3>1, <3>3
      <4> QED
        BY <2>3, <3>2, <3>3, <4>1
    <3>4. CASE m # l + 1
      <4>1. m \in 1..l /\ g[m] = f[m]
        BY <2>4, <3>1, <3>4
      <4>2. f[m] = G[<<f[m - 1], m>>]
        BY <2>1, <4>1 DEF Follows
      <4> QED
        BY <3>2, <4>1, <4>2
    <3> QED
      BY <3>3, <3>4
  <2>9. Follows(g, l + 1, c, G)
    BY <2>7, <2>8 DEF Follows
  <2> QED
    BY <2>2, <2>6, <2>9
<1>3. Nat \subseteq T
  <2> HIDE DEF T
  <2> QED
    BY <1>1, <1>2, NatSet
<1> QED
  BY <1>3

\* The calls of the first n turns.
Sums(i, F) ==
  /\ F \in [0..Len(Turns[i]) -> Nat]
  /\ F[0] = 0
  /\ \A m \in 1..Len(Turns[i]) : F[m] = F[m - 1] + Turns[i][m]

LEMMA SumsExist == ASSUME NEW i \in Item PROVE \E F : Sums(i, F)
<1>1. Turns[i] \in Seq(Nat)
  BY TurnSyncAssumption
<1> DEFINE l == Len(Turns[i])
           G == [p \in Nat \X Nat |->
                   IF p[2] \in 1..l THEN p[1] + Turns[i][p[2]] ELSE p[1]]
<1>2. l \in Nat /\ \A m \in 1..l : Turns[i][m] \in Nat
  BY <1>1
<1>3. G \in [Nat \X Nat -> Nat]
  <2> SUFFICES ASSUME NEW p \in Nat \X Nat
               PROVE  (IF p[2] \in 1..l THEN p[1] + Turns[i][p[2]] ELSE p[1]) \in Nat
    OBVIOUS
  <2>1. p[1] \in Nat
    OBVIOUS
  <2> HIDE DEF l
  <2>2. CASE p[2] \in 1..l
    BY <1>2, <2>1, <2>2
  <2> QED
    BY <2>1, <2>2
<1>4. \A x \in Nat, m \in 1..l : G[<<x, m>>] = x + Turns[i][m]
  <2> SUFFICES ASSUME NEW x \in Nat, NEW m \in 1..l PROVE G[<<x, m>>] = x + Turns[i][m]
    OBVIOUS
  <2>1. <<x, m>> \in Nat \X Nat
    BY <1>2
  <2> QED
    BY <2>1
<1> HIDE DEF G
<1>5. PICK F \in [0..l -> Nat] : Follows(F, l, 0, G)
  <2> HIDE DEF l
  <2> QED
    BY <1>2, <1>3, Recursion
<1>6. ASSUME NEW m \in 1..l PROVE F[m] = F[m - 1] + Turns[i][m]
  <2>1. F[m] = G[<<F[m - 1], m>>]
    BY <1>5 DEF Follows
  <2>2. m - 1 \in 0..l
    BY <1>2
  <2>3. F[m - 1] \in Nat
    BY <1>5, <2>2
  <2> QED
    BY <1>4, <2>1, <2>3
<1>7. F[0] = 0
  BY <1>5 DEF Follows
<1> QED
  BY <1>5, <1>6, <1>7 DEF Sums

LEMMA CallsAre ==
  ASSUME NEW i \in Item, NEW F, Sums(i, F), NEW n \in 0..Len(Turns[i])
  PROVE  Calls(i, n) = F[n]
<1>1. Turns[i] \in Seq(Nat) /\ Len(Turns[i]) \in Nat /\ n \in Nat
  BY TurnSyncAssumption
<1> DEFINE Eq(g) == g = [m \in 0..n |-> IF m = 0 THEN 0 ELSE g[m - 1] + Turns[i][m]]
           calls == CHOOSE g : Eq(g)
<1>2. \E g : Eq(g)
  <2>1. PICK g : g = [m \in 0..n |-> F[m]]
    OBVIOUS
  <2>2. ASSUME NEW m \in 0..n PROVE g[m] = IF m = 0 THEN 0 ELSE g[m - 1] + Turns[i][m]
    <3>1. CASE m = 0
      BY <2>1, <3>1 DEF Sums
    <3>2. CASE m # 0
      <4>1. m \in 1..Len(Turns[i]) /\ m - 1 \in 0..n
        BY <1>1, <3>2
      <4>2. F[m] = F[m - 1] + Turns[i][m]
        BY <4>1 DEF Sums
      <4>3. g[m] = F[m] /\ g[m - 1] = F[m - 1]
        BY <2>1, <4>1
      <4> QED
        BY <3>2, <4>2, <4>3
    <3> QED
      BY <3>1, <3>2
  <2> QED
    BY <2>1, <2>2
<1>3. Eq(calls)
  BY <1>2
<1>4. Calls(i, n) = calls[n]
  BY DEF Calls
<1> HIDE DEF calls
<1>5. \A m \in 0..n : calls[m] = IF m = 0 THEN 0 ELSE calls[m - 1] + Turns[i][m]
  BY <1>3, Zenon
<1> HIDE DEF Eq
<1> DEFINE T == {m \in Nat : m <= n => calls[m] = F[m]}
<1>6. 0 \in T
  BY <1>1, <1>5 DEF Sums
<1>7. ASSUME NEW m \in Nat, m \in T PROVE m + 1 \in T
  <2> SUFFICES ASSUME m + 1 <= n PROVE calls[m + 1] = F[m + 1]
    OBVIOUS
  <2>1. /\ m + 1 \in 0..n /\ m + 1 # 0 /\ m + 1 - 1 = m /\ m <= n
        /\ m + 1 \in 1..Len(Turns[i])
    BY <1>1
  <2>2. calls[m + 1] = calls[m] + Turns[i][m + 1]
    BY <1>5, <2>1
  <2>3. F[m + 1] = F[m] + Turns[i][m + 1]
    BY <2>1 DEF Sums
  <2>4. calls[m] = F[m]
    BY <1>7, <2>1
  <2> QED
    BY <2>2, <2>3, <2>4
<1>8. Nat \subseteq T
  <2> HIDE DEF T
  <2> QED
    BY <1>6, <1>7, NatSet
<1>9. calls[n] = F[n]
  BY <1>1, <1>8
<1> QED
  BY <1>4, <1>9

\* Calls only grow from turn to turn.
LEMMA CallsGrow ==
  ASSUME NEW i \in Item, NEW F, Sums(i, F), NEW k \in 0..Len(Turns[i])
  PROVE  \A n \in k..Len(Turns[i]) : F[k] <= F[n]
<1>1. Turns[i] \in Seq(Nat) /\ Len(Turns[i]) \in Nat /\ k \in Nat
  BY TurnSyncAssumption
<1>2. PICK l \in Nat : l = Len(Turns[i])
  BY <1>1
<1>3. \A m \in 0..l : F[m] \in Nat
  BY <1>2 DEF Sums
<1> DEFINE T == {d \in Nat : k + d <= l => F[k] <= F[k + d]}
<1>4. 0 \in T
  <2>1. k + 0 = k /\ F[k] \in Nat
    BY <1>1, <1>2, <1>3
  <2> QED
    BY <2>1
<1>5. ASSUME NEW d \in Nat, d \in T PROVE d + 1 \in T
  <2> SUFFICES ASSUME k + (d + 1) <= l PROVE F[k] <= F[k + (d + 1)]
    OBVIOUS
  <2>1. PICK m \in Nat : m = k + d
    BY <1>1
  <2>2. /\ k + (d + 1) = m + 1 /\ m + 1 \in 1..l /\ m \in 0..l /\ m + 1 - 1 = m
        /\ k + d <= l /\ k \in 0..l
    BY <1>1, <1>2, <2>1
  <2>3. F[m + 1] = F[m] + Turns[i][m + 1]
    BY <1>2, <2>2 DEF Sums
  <2>4. F[m] \in Nat /\ F[k] \in Nat /\ Turns[i][m + 1] \in Nat
    BY <1>1, <1>2, <1>3, <2>2
  <2>5. F[k] <= F[m]
    BY <1>5, <2>1, <2>2
  <2>6. F[k] <= F[m + 1]
    BY <2>3, <2>4, <2>5
  <2> QED
    BY <2>2, <2>6
<1>6. Nat \subseteq T
  <2> HIDE DEF T
  <2> QED
    BY <1>4, <1>5, NatSet
<1>7. ASSUME NEW n \in k..Len(Turns[i]) PROVE F[k] <= F[n]
  <2>1. PICK d \in Nat : n = k + d
    <3>1. n - k \in Nat /\ n = k + (n - k)
      BY <1>1
    <3> QED
      BY <3>1
  <2>2. k + d <= l
    BY <1>1, <1>2, <2>1
  <2> QED
    BY <1>6, <2>1, <2>2
<1> QED
  BY <1>7

-----------------------------------------------------------------------------
(* The file *)

\* The line says what the record says, cut or not.
Says(line, rec) ==
  /\ line.sig = rec.sig /\ line.score = rec.score
  /\ line.good = rec.good /\ line.end = rec.end

\* A perfect line has every call right.
AllRight(line) ==
  line.score = "perfect" =>
    /\ line.end # "mismatch"
    /\ \A t \in DOMAIN Turns[line.sig[1]] : Turns[line.sig[1]][t] > 0 => t <= line.good

\* Appending to the file makes at most the new line readable, and what was readable
\* stays where it was or is lost.
LEMMA AppendLineReads ==
  ASSUME NEW f \in Seq(Lines), NEW rec \in Records,
         NEW kind \in {"whole", "torn", "unended"}
  PROVE  /\ AppendLine(f, rec, kind) \in Seq(Lines)
         /\ \A j \in ReadableLines(AppendLine(f, rec, kind)) :
              LET line == AppendLine(f, rec, kind)[j] IN
                \/ j \in ReadableLines(f) /\ line = f[j]
                \/ j = Len(f) + 1 /\ Says(line, rec)
<1> DEFINE cut == f # <<>> /\ f[Len(f)].kind \in {"torn", "unended"}
           mark == IF kind = "whole" THEN "joined" ELSE "torn"
<1>1. \A k \in Kinds : /\ [rec EXCEPT !.kind = k] \in Lines
                       /\ [rec EXCEPT !.kind = k].kind = k
                       /\ Says([rec EXCEPT !.kind = k], rec)
  BY DEF Lines, Records, Says
<1>2. CASE cut
  <2> DEFINE line == [rec EXCEPT !.kind = mark]
  <2>1. AppendLine(f, rec, kind) = [f EXCEPT ![Len(f)] = line]
    BY <1>2 DEF AppendLine
  <2>2. line \in Lines /\ line.kind \in {"joined", "torn"}
    BY <1>1 DEF Kinds
  <2> HIDE DEF line
  <2>3. [f EXCEPT ![Len(f)] = line] \in Seq(Lines)
    BY <1>2, <2>2
  <2>4. \A j \in DOMAIN f : [f EXCEPT ![Len(f)] = line][j] = IF j = Len(f) THEN line ELSE f[j]
    BY Zenon
  <2>5. DOMAIN [f EXCEPT ![Len(f)] = line] = DOMAIN f
    BY Zenon
  <2> QED
    BY <2>1, <2>2, <2>3, <2>4, <2>5 DEF ReadableLines, Readable
<1>3. CASE ~cut
  <2> DEFINE line == [rec EXCEPT !.kind = kind]
  <2>1. AppendLine(f, rec, kind) = Append(f, line)
    BY <1>3 DEF AppendLine
  <2>2. line \in Lines /\ Says(line, rec)
    BY <1>1 DEF Kinds
  <2> HIDE DEF line
  <2> QED
    BY <2>1, <2>2 DEF ReadableLines, Readable
<1> QED
  BY <1>2, <1>3

\* Writing an episode that is not on disk keeps signatures apart, and puts at most
\* its own on disk.
LEMMA AppendLineOnce ==
  ASSUME Shape, OncePerSignature, PerfectCallsAllRight,
         NEW rec \in Records, rec.sig \notin DoneSignatures, AllRight(rec),
         NEW kind \in {"whole", "torn", "unended"}, file' = AppendLine(file, rec, kind)
  PROVE  /\ file' \in Seq(Lines)
         /\ OncePerSignature' /\ PerfectCallsAllRight'
         /\ DoneSignatures' \subseteq DoneSignatures \cup {rec.sig}
<1>1. /\ file' \in Seq(Lines)
      /\ \A j \in ReadableLines(file') :
           \/ j \in ReadableLines(file) /\ file'[j] = file[j]
           \/ j = Len(file) + 1 /\ Says(file'[j], rec)
  <2>1. file \in Seq(Lines)
    BY DEF Shape
  <2> DEFINE new == AppendLine(file, rec, kind)
  <2>2. /\ new \in Seq(Lines)
        /\ \A j \in ReadableLines(new) :
             \/ j \in ReadableLines(file) /\ new[j] = file[j]
             \/ j = Len(file) + 1 /\ Says(new[j], rec)
    BY <2>1, AppendLineReads
  <2>3. file' = new
    OBVIOUS
  <2> HIDE DEF new
  <2> QED
    BY <2>2, <2>3
<1>2. \A j \in ReadableLines(file) : file[j].sig # rec.sig
  BY DEF DoneSignatures
<1>3. OncePerSignature'
  BY <1>1, <1>2 DEF OncePerSignature, Says
<1>4. DoneSignatures' \subseteq DoneSignatures \cup {rec.sig}
  BY <1>1 DEF DoneSignatures, Says
<1>5. PerfectCallsAllRight'
  <2> SUFFICES ASSUME NEW j \in ReadableLines(file') PROVE AllRight(file'[j])
    BY DEF PerfectCallsAllRight, Perfect, AllRight
  <2>1. CASE j \in ReadableLines(file) /\ file'[j] = file[j]
    BY <2>1 DEF PerfectCallsAllRight, Perfect, AllRight
  <2>2. CASE Says(file'[j], rec)
    BY <2>2 DEF Says, AllRight
  <2> QED
    BY <1>1, <2>1, <2>2
<1> QED
  BY <1>1, <1>3, <1>4, <1>5

LEMMA RecordOf ==
  ASSUME NEW e \in Ep, NEW g \in Nat, NEW why \in Whys, NEW len \in 1..3
  PROVE  Record(e, g, why, len) \in Records /\ Record(e, g, why, len).sig = e
<1>1. Record(e, g, why, len) \in Records
  <2>1. Score(e, g, why, len) \in Scores
    BY DEF Scores
  <2> QED
    BY <2>1 DEF Records, Record
<1> QED
  BY <1>1 DEF Record

\* A record of score 1.5 misses no call: calls that it had not answered, the mismatch's
\* among them, would be left out of those that are right.
LEMMA RecordAllRight ==
  ASSUME NEW e \in Ep, NEW g \in 0..Len(Turns[e[1]]), NEW why \in Whys, NEW len \in 1..3,
         Missed(e, g, why)
  PROVE  AllRight(Record(e, g, why, len))
<1>1. e[1] \in Item
  BY DEF Ep
<1> DEFINE i == e[1]
           l == Len(Turns[i])
<1>2. Turns[i] \in Seq(Nat) /\ l \in Nat /\ DOMAIN Turns[i] = 1..l
  BY <1>1, TurnSyncAssumption
<1>3. PICK F : Sums(i, F)
  BY <1>1, SumsExist
<1>4. Calls(i, g) = F[g] /\ Calls(i, l) = F[l]
  BY <1>1, <1>2, <1>3, CallsAre
<1>5. F[g] \in Nat /\ F[l] \in Nat /\ \A m \in 0..l : F[m] \in Nat
  <2>1. F \in [0..l -> Nat] /\ g \in 0..l /\ l \in 0..l
    BY <1>2, <1>3 DEF Sums
  <2> HIDE DEF l
  <2> QED
    BY <2>1
<1>6. SUFFICES ASSUME Score(e, g, why, len) = "perfect"
               PROVE  /\ why # "mismatch"
                      /\ \A t \in DOMAIN Turns[i] : Turns[i][t] > 0 => t <= g
  BY DEF AllRight, Record
<1>7. F[g] = F[l]
  <2>1. F[l] = 0 \/ (F[l] > 0 /\ F[g] = F[l]) \/ F[l] > F[g]
    <3>1. F[g] <= F[l]
      <4>1. l \in g..Len(Turns[i])
        BY <1>2
      <4> QED
        BY <1>1, <1>3, <4>1, CallsGrow
    <3> QED
      BY <1>5, <3>1
  <2> HIDE DEF i
  <2>2. Calls(e[1], Len(Turns[e[1]])) = F[l] /\ Right(e, g) = F[g]
    BY <1>4 DEF Right, i
  <2> HIDE DEF l
  <2>3. ~(F[l] > F[g])
    <3> SUFFICES ASSUME F[l] > F[g] PROVE FALSE
      OBVIOUS
    <3>1. F[l] # 0 /\ F[g] # F[l]
      BY <1>5
    <3>2. Score(e, g, why, len) \in {"rejected", "positive"}
      BY <2>2, <3>1 DEF Score
    <3> QED
      BY <1>6, <3>2
  <2>4. F[l] # 0
    <3> SUFFICES ASSUME F[l] = 0 PROVE FALSE
      OBVIOUS
    <3>1. ~(F[l] > F[g]) /\ ~(F[l] > 0)
      BY <1>5
    <3>2. Score(e, g, why, len) \in {"rejected", "positive"}
      BY <2>2, <3>1 DEF Score
    <3> QED
      BY <1>6, <3>2
  <2> QED
    BY <2>1, <2>3, <2>4
<1>8. ASSUME NEW t \in 1..l, t > g, Turns[i][t] > 0 PROVE FALSE
  <2>1. t - 1 \in g..Len(Turns[i]) /\ l \in t..Len(Turns[i]) /\ t \in 0..Len(Turns[i])
    BY <1>2, <1>8
  <2>2. F[t] = F[t - 1] + Turns[i][t]
    BY <1>3 DEF Sums
  <2>3. F[g] <= F[t - 1] /\ F[t] <= F[l]
    BY <1>1, <1>3, <2>1, CallsGrow
  <2>4. F[t - 1] \in Nat /\ F[t] \in Nat /\ Turns[i][t] \in Nat
    <3>1. t - 1 \in 0..l /\ t \in 0..l
      BY <1>2
    <3> QED
      BY <1>2, <1>5, <3>1
  <2> QED
    BY <1>5, <1>7, <1>8, <2>2, <2>3, <2>4
<1>9. why # "mismatch"
  <2> SUFFICES ASSUME why = "mismatch" PROVE FALSE
    OBVIOUS
  <2>1. g < l /\ Turns[i][g + 1] > 0
    BY DEF Missed
  <2>2. g + 1 \in 1..l /\ g + 1 > g
    BY <1>2, <2>1
  <2> QED
    BY <1>8, <2>1, <2>2
<1>10. ASSUME NEW t \in DOMAIN Turns[i], Turns[i][t] > 0 PROVE t <= g
  BY <1>2, <1>8, <1>10
<1> QED
  BY <1>9, <1>10

LEMMA RepliesShape ==
  ASSUME Shape, NEW e \in Ep, NEW r \in Replies(e)
  PROVE  r.good \in Nat /\ r.end \in Whys /\ r.length \in 1..3
<1>1. good[e] \in Nat /\ length[e] \in 1..3
  BY DEF Shape
<1> QED
  BY <1>1 DEF Replies, Whys

LEMMA MaxTurnsPositive == ASSUME NEW e \in Ep PROVE MaxTurns(e) \in Nat \ {0}
<1>1. e[1] \in Item
  BY DEF Ep
<1>2. Turns[e[1]] \in Seq(Nat) /\ Turns[e[1]] # <<>>
  BY <1>1, TurnSyncAssumption
<1>3. Len(Turns[e[1]]) \in Nat \ {0}
  BY <1>2
<1> QED
  BY <1>3, TurnSyncAssumption DEF MaxTurns

\* A reply to the post of a turn answers it, or it ends the episode there.
LEMMA RepliesInTime ==
  ASSUME NEW e \in Ep, NEW r \in Replies(e), turn \in Nat, turn < MaxTurns(e),
         InTime(e, good[e], end[e], turn), end[e] = "none"
  PROVE  InTime(e, r.good, r.end, turn + 1)
<1>1. e[1] \in Item
  BY DEF Ep
<1>2. PICK l \in Nat, m \in Nat :
        l = Len(Turns[e[1]]) /\ m = MaxTurns(e) /\ m <= l
  BY <1>1, TurnSyncAssumption, MaxTurnsPositive DEF MaxTurns
<1>3. turn + 1 \in 1..l /\ Turns[e[1]][turn + 1] \in Nat
  <2>1. turn + 1 \in 1..l
    BY <1>2
  <2>2. PICK c : c = Turns[e[1]] /\ c \in Seq(Nat)
    BY <1>1, TurnSyncAssumption
  <2> QED
    BY <1>2, <2>1, <2>2, ElementOfSeq
<1>4. good[e] = turn
  BY <1>2 DEF InTime
<1>5. \/ r.good = turn + 1 /\ r.end \in {"none", "length"}
      \/ r.good = turn /\ r.end \in {"narration", "error"}
      \/ r.good = turn /\ r.end = "mismatch" /\ Turns[e[1]][turn + 1] # 0
  BY <1>4 DEF Replies
<1>6. r.good \in 0..m
  BY <1>2, <1>5
<1>7. Missed(e, r.good, r.end)
  BY <1>2, <1>3, <1>5 DEF Missed
<1>8. r.end = "none" => r.good = IF turn + 1 < m THEN turn + 1 ELSE m
  BY <1>2, <1>5
<1> QED
  BY <1>2, <1>6, <1>7, <1>8 DEF InTime

LEMMA InTimeAllRight ==
  ASSUME NEW e \in Ep, NEW g, NEW why \in Whys, NEW len \in 1..3, NEW t, InTime(e, g, why, t)
  PROVE  AllRight(Record(e, g, why, len))
<1>1. e[1] \in Item
  BY DEF Ep
<1>2. g \in 0..Len(Turns[e[1]])
  BY <1>1, TurnSyncAssumption, MaxTurnsPositive DEF MaxTurns, InTime
<1> QED
  BY <1>2, RecordAllRight DEF InTime

-----------------------------------------------------------------------------
(* The steps *)

LEMMA InitIInv == Init => IInv
<1> SUFFICES ASSUME Init PROVE IInv
  OBVIOUS
<1>1. file = <<>> /\ DOMAIN file = {}
  BY DEF Init
<1>2. Shape
  BY <1>1, EmptySeq DEF Init, Shape, Whys
<1>3. Afresh /\ OnTheWay
  BY DEF Init, Afresh, OnTheWay
<1>4. OncePerSignature /\ Fresh
  BY <1>1 DEF Init, OncePerSignature, Fresh, ReadableLines
<1>5. Answered /\ PerfectCallsAllRight
  BY <1>1 DEF Init, Answered, PerfectCallsAllRight, Perfect, ReadableLines
<1> QED
  BY <1>2, <1>3, <1>4, <1>5 DEF IInv, SInv

\* A run takes up what is not on disk.
LEMMA StartIInv == ASSUME IInv, Start PROVE IInv'
<1> USE DEF IInv, SInv
<1>1. todo = {} /\ written = {} /\ inflight = {} /\ turn = 0
  BY DEF Start, Afresh, Shape
<1>2. Shape'
  BY <1>1 DEF Start, Shape
<1>3. Afresh' /\ OncePerSignature'
  BY DEF Start, Afresh, OncePerSignature
<1>4. Fresh'
  BY DEF Start, Fresh, Skipped, DoneSignatures
<1>5. OnTheWay'
  <2> SUFFICES ASSUME NEW e \in todo' PROVE Goes(e, turn)' /\ pc' \notin {"posting", "final"}
    BY DEF OnTheWay
  <2>1. e \in Ep
    BY <1>2 DEF Shape
  <2>2. pc' \in {"done", "turn"} /\ turn' = 0 /\ end'[e] = "none"
    BY <1>1, <2>1 DEF Start, Afresh
  <2>3. MaxTurns(e)' > 0
    BY <2>1, MaxTurnsPositive DEF MaxTurns
  <2> QED
    BY <2>2, <2>3 DEF Goes
<1>6. PerfectCallsAllRight'
  BY DEF Start, PerfectCallsAllRight, Perfect
<1>7. Answered'
  <2> SUFFICES ASSUME NEW e \in todo'
               PROVE  InTime(e, good'[e], end'[e], Now(e)') /\ e \notin inflight'
    BY DEF Answered, InTime, MaxTurns, Missed
  <2>1. e \in Ep
    BY <1>2 DEF Shape
  <2>2. good'[e] = 0 /\ end'[e] = "none" /\ inflight' = {} /\ Now(e)' = 0
    BY <1>1, <2>1 DEF Start, Afresh, Now
  <2>3. InTime(e, 0, "none", 0)
    BY <2>1, MaxTurnsPositive DEF InTime, Missed
  <2> QED
    BY <2>2, <2>3
<1> QED
  BY <1>2, <1>3, <1>4, <1>5, <1>6, <1>7

\* With a token limit, nothing is left when no episode has a turn to go.
LEMMA NextTurnIInv == ASSUME IInv, NextTurn PROVE IInv'
<1> USE DEF IInv, SInv
<1>1. inflight' \subseteq todo \ written
  BY DEF NextTurn, Shape
<1>2. Shape'
  BY <1>1 DEF NextTurn, Shape
<1>3. Afresh' /\ OncePerSignature' /\ Fresh'
  BY DEF NextTurn, Afresh, OncePerSignature, Fresh, DoneSignatures
<1>4. OnTheWay'
  <2> SUFFICES ASSUME HasTokenLimit, NEW e \in todo \ written
               PROVE  pc' = "posting" /\ e \in inflight'
    BY DEF NextTurn, OnTheWay
  <2>1. end[e] = "none" /\ turn < MaxTurns(e)
    BY DEF NextTurn, OnTheWay, Goes
  <2>2. e \in inflight'
    BY <2>1 DEF NextTurn
  <2> QED
    BY <2>2 DEF NextTurn
<1>5. PerfectCallsAllRight'
  BY DEF NextTurn, PerfectCallsAllRight, Perfect
<1>6. Answered'
  <2> SUFFICES ASSUME NEW e \in todo \ written
               PROVE  /\ InTime(e, good[e], end[e], Now(e)')
                      /\ e \in inflight' => end[e] = "none" /\ turn < MaxTurns(e)
    BY DEF NextTurn, Answered, InTime, MaxTurns, Missed
  <2>1. e \in Ep /\ turn \in Nat
    BY DEF Shape
  <2>2. InTime(e, good[e], end[e], turn)
    BY DEF NextTurn, Answered, Now
  <2>3. CASE Now(e)' = turn
    BY <2>2, <2>3 DEF NextTurn
  <2>4. CASE Now(e)' # turn
    <3>1. Now(e)' = turn + 1 /\ e \notin inflight' /\ inflight' # {}
      BY <2>4 DEF NextTurn, Now
    <3>2. end[e] = "none" => ~(turn < MaxTurns(e))
      BY <3>1 DEF NextTurn
    <3>3. InTime(e, good[e], end[e], turn + 1)
      BY <2>1, <2>2, <3>2, MaxTurnsPositive DEF InTime
    <3> QED
      BY <3>1, <3>3
  <2> QED
    BY <2>3, <2>4
<1> QED
  BY <1>2, <1>3, <1>4, <1>5, <1>6

\* An episode whose turn was its last is written in the same step.
LEMMA SettleIInv == ASSUME IInv, NEW e \in Ep, Settle(e) PROVE IInv'
<1> USE DEF IInv, SInv
<1>1. PICK r \in Replies(e) :
        /\ good' = [good EXCEPT ![e] = r.good]
        /\ end' = [end EXCEPT ![e] = r.end]
        /\ length' = [length EXCEPT ![e] = r.length]
        /\ IF Over(e, r) /\ ~Raises(e, r.good)
           THEN /\ file' = AppendLine(file, Record(e, r.good, r.end, r.length), "whole")
                /\ written' = written \cup {e}
           ELSE UNCHANGED <<file, written>>
  BY DEF Settle
<1>2. /\ pc = "posting" /\ pc' = "posting" /\ e \in inflight /\ inflight' = inflight \ {e}
      /\ todo' = todo /\ turn' = turn
  BY DEF Settle
<1>3. r.good \in Nat /\ r.end \in Whys /\ r.length \in 1..3
  BY RepliesShape
<1>4. e \in todo \ written /\ e \notin DoneSignatures
  BY <1>2 DEF Shape, Fresh
<1>t. InTime(e, r.good, r.end, turn + 1)
  <2>1. InTime(e, good[e], end[e], turn) /\ end[e] = "none" /\ turn < MaxTurns(e)
    BY <1>2, <1>4 DEF Answered, Now
  <2> QED
    BY <2>1, RepliesInTime DEF Shape
<1>5. /\ file' \in Seq(Lines) /\ OncePerSignature' /\ PerfectCallsAllRight'
      /\ \/ written' = written \cup {e} /\ DoneSignatures' \subseteq DoneSignatures \cup {e}
         \/ written' = written /\ DoneSignatures' = DoneSignatures
  <2>1. CASE Over(e, r) /\ ~Raises(e, r.good)
    <3> DEFINE rec == Record(e, r.good, r.end, r.length)
    <3>1. rec \in Records /\ rec.sig = e
      BY <1>3, RecordOf
    <3>2. file' = AppendLine(file, rec, "whole") /\ written' = written \cup {e}
      BY <1>1, <2>1
    <3>3. AllRight(rec)
      BY <1>3, <1>t, InTimeAllRight
    <3> HIDE DEF rec
    <3> QED
      BY <1>4, <3>1, <3>2, <3>3, AppendLineOnce
  <2>2. CASE ~(Over(e, r) /\ ~Raises(e, r.good))
    BY <1>1, <2>2 DEF Shape, OncePerSignature, DoneSignatures, PerfectCallsAllRight, Perfect
  <2> QED
    BY <2>1, <2>2
<1>6. Shape'
  BY <1>1, <1>2, <1>3, <1>4, <1>5 DEF Shape
<1>7. Afresh'
  BY <1>2 DEF Afresh
<1>8. Fresh'
  BY <1>2, <1>5 DEF Fresh
<1>9. OnTheWay'
  <2> SUFFICES ASSUME HasTokenLimit, NEW o \in todo \ written'
               PROVE  o \in inflight' \/ Goes(o, turn + 1)'
    BY <1>2 DEF OnTheWay
  <2>1. o \in todo \ written /\ o \in Ep
    BY <1>5 DEF Shape
  <2>2. CASE o # e
    BY <1>1, <1>2, <2>1, <2>2 DEF OnTheWay, Goes, MaxTurns, Shape
  <2>3. CASE o = e
    <3>1. ~Over(e, r)
      BY <1>1, <2>3 DEF Raises
    <3>2. r.end = "none" /\ turn + 1 < MaxTurns(e)
      BY <1>2, <3>1, MaxTurnsPositive DEF Over, Shape
    <3>3. end'[e] = "none" /\ MaxTurns(e)' = MaxTurns(e)
      BY <1>1, <3>2 DEF Shape, MaxTurns
    <3> QED
      BY <1>2, <2>3, <3>2, <3>3 DEF Goes
  <2> QED
    BY <2>2, <2>3
<1>10. Answered'
  <2> SUFFICES ASSUME NEW o \in todo \ written'
               PROVE  /\ InTime(o, good'[o], end'[o], Now(o)')
                      /\ o \in inflight' => end'[o] = "none" /\ turn < MaxTurns(o)
    BY <1>2 DEF Answered, InTime, MaxTurns, Missed
  <2>1. o \in todo \ written /\ o \in Ep
    BY <1>5 DEF Shape
  <2>2. CASE o # e
    <3>1. good'[o] = good[o] /\ end'[o] = end[o] /\ Now(o)' = Now(o)
      BY <1>1, <1>2, <2>1, <2>2 DEF Shape, Now
    <3> QED
      BY <1>2, <2>1, <3>1 DEF Answered
  <2>3. CASE o = e
    <3>1. good'[o] = r.good /\ end'[o] = r.end
      BY <1>1, <2>1, <2>3 DEF Shape
    <3>2. Now(o)' = turn + 1 /\ o \notin inflight'
      BY <1>2, <2>3 DEF Now
    <3> QED
      BY <1>t, <2>3, <3>1, <3>2
  <2> QED
    BY <2>2, <2>3
<1> QED
  BY <1>5, <1>6, <1>7, <1>8, <1>9, <1>10

LEMMA TurnOverIInv == ASSUME IInv, TurnOver PROVE IInv'
<1> USE DEF IInv, SInv
<1>1. Shape'
  BY DEF TurnOver, Shape
<1>2. Afresh' /\ OncePerSignature' /\ Fresh'
  BY DEF TurnOver, Afresh, OncePerSignature, Fresh, DoneSignatures
<1>3. OnTheWay'
  BY DEF TurnOver, OnTheWay, Goes, MaxTurns
<1>4. PerfectCallsAllRight'
  BY DEF TurnOver, PerfectCallsAllRight, Perfect
<1>5. Answered'
  <2> SUFFICES ASSUME NEW e \in todo \ written
               PROVE  InTime(e, good[e], end[e], Now(e)') /\ e \notin inflight'
    BY DEF TurnOver, Answered, InTime, MaxTurns, Missed
  <2>1. Now(e)' = Now(e) /\ inflight' = {}
    BY DEF TurnOver, Now
  <2> QED
    BY <2>1 DEF Answered
<1> QED
  BY <1>1, <1>2, <1>3, <1>4, <1>5

LEMMA FinalAnswered ==
  ASSUME Shape, Answered, Final, written \subseteq written' PROVE Answered'
<1> SUFFICES ASSUME NEW e \in todo \ written
             PROVE  InTime(e, good[e], end[e], Now(e)') /\ e \notin inflight
  BY DEF Final, Answered, InTime, MaxTurns, Missed
<1>1. Now(e)' = Now(e) /\ inflight = {}
  BY DEF Final, Now, Shape
<1> QED
  BY <1>1 DEF Answered

LEMMA FinalIInv == ASSUME IInv, Final PROVE IInv'
<1> USE DEF IInv, SInv
<1>1. CASE UNCHANGED <<file, written>> /\ pc' \in {"done", "raised"}
  <2>1. Shape' /\ Afresh'
    BY <1>1 DEF Final, Shape, Afresh
  <2>2. OncePerSignature' /\ Fresh'
    BY <1>1 DEF Final, OncePerSignature, Fresh, DoneSignatures
  <2>3. OnTheWay'
    BY <1>1 DEF Final, OnTheWay
  <2>4. PerfectCallsAllRight'
    BY <1>1 DEF PerfectCallsAllRight, Perfect
  <2>5. Answered'
    BY <1>1, FinalAnswered
  <2> QED
    BY <2>1, <2>2, <2>3, <2>4, <2>5
<1>2. ASSUME NEW e \in todo \ written,
             file' = AppendLine(file, Record(e, good[e], end[e], length[e]), "whole"),
             written' = written \cup {e}, pc' = pc
      PROVE  IInv'
  <2> DEFINE rec == Record(e, good[e], end[e], length[e])
  <2>1. e \in Ep /\ e \notin DoneSignatures
    BY DEF Shape, Fresh
  <2>2. rec \in Records /\ rec.sig = e
    BY <2>1, RecordOf DEF Shape
  <2>3. file' = AppendLine(file, rec, "whole")
    BY <1>2
  <2>r. AllRight(rec)
    <3>1. end[e] \in Whys /\ length[e] \in 1..3
      BY <2>1 DEF Shape
    <3>2. InTime(e, good[e], end[e], Now(e))
      BY DEF Answered
    <3> QED
      BY <2>1, <3>1, <3>2, InTimeAllRight
  <2> HIDE DEF rec
  <2>4. /\ file' \in Seq(Lines) /\ OncePerSignature' /\ PerfectCallsAllRight'
        /\ DoneSignatures' \subseteq DoneSignatures \cup {e}
    BY <2>1, <2>2, <2>3, <2>r, AppendLineOnce
  <2>5. Shape'
    BY <1>2, <2>4 DEF Final, Shape
  <2>6. Afresh' /\ Fresh'
    BY <1>2, <2>4 DEF Final, Afresh, Fresh
  <2>7. OnTheWay'
    BY <1>2 DEF Final, OnTheWay
  <2>8. Answered'
    BY <1>2, FinalAnswered
  <2> QED
    BY <2>4, <2>5, <2>6, <2>7, <2>8
<1> QED
  BY <1>1, <1>2 DEF Final

\* A crash leaves the file, and a line of it perhaps cut.
LEMMA ForgottenIInv ==
  ASSUME file' \in Seq(Lines), OncePerSignature', PerfectCallsAllRight', Restarts
  PROVE  IInv'
<1>1. Shape' /\ Afresh'
  BY DEF Restarts, Forgotten, Shape, Afresh, Whys
<1>2. Fresh' /\ OnTheWay' /\ Answered'
  BY DEF Restarts, Forgotten, Fresh, OnTheWay, Answered
<1> QED
  BY <1>1, <1>2 DEF IInv, SInv

LEMMA CrashIInv == ASSUME IInv, Crash PROVE IInv'
<1>1. file' \in Seq(Lines) /\ OncePerSignature' /\ PerfectCallsAllRight'
  BY DEF IInv, SInv, Shape, Crash, OncePerSignature, PerfectCallsAllRight, Perfect
<1> QED
  BY <1>1, ForgottenIInv DEF Crash

LEMMA CrashInWriteIInv == ASSUME IInv, NEW e \in Ep, CrashInWrite(e) PROVE IInv'
<1> USE DEF IInv, SInv
<1>1. PICK r \in Replies(e), kind \in {"torn", "unended"} :
        file' = AppendLine(file, Record(e, r.good, r.end, r.length), kind)
  BY DEF CrashInWrite
<1>2. r.good \in Nat /\ r.end \in Whys /\ r.length \in 1..3
  BY RepliesShape
<1> DEFINE rec == Record(e, r.good, r.end, r.length)
<1>3. rec \in Records /\ rec.sig = e
  BY <1>2, RecordOf
<1>4. e \in todo \ written /\ e \in inflight /\ e \notin DoneSignatures
  BY DEF CrashInWrite, Shape, Fresh
<1>5. file' = AppendLine(file, rec, kind)
  BY <1>1
<1>6. AllRight(rec)
  <2>1. InTime(e, good[e], end[e], turn) /\ end[e] = "none" /\ turn < MaxTurns(e)
    BY <1>4 DEF Answered, Now
  <2>2. InTime(e, r.good, r.end, turn + 1)
    BY <2>1, RepliesInTime DEF Shape
  <2> QED
    BY <1>2, <2>2, InTimeAllRight
<1> HIDE DEF rec
<1>7. file' \in Seq(Lines) /\ OncePerSignature' /\ PerfectCallsAllRight'
  BY <1>3, <1>4, <1>5, <1>6, AppendLineOnce
<1> QED
  BY <1>7, ForgottenIInv DEF CrashInWrite

-----------------------------------------------------------------------------
(* The theorems *)

THEOREM EpisodesInvariance == Spec => []IInv
<1>1. Init => IInv
  BY InitIInv
<1>2. IInv /\ [Next]_vars => IInv'
  <2> SUFFICES ASSUME IInv, [Next]_vars PROVE IInv'
    OBVIOUS
  <2>1. CASE UNCHANGED vars
    <3>1. Shape' /\ Afresh'
      BY <2>1 DEF IInv, SInv, vars, run, Shape, Afresh
    <3>2. OncePerSignature' /\ Fresh'
      BY <2>1 DEF IInv, SInv, vars, run, OncePerSignature, Fresh, DoneSignatures
    <3>3. OnTheWay'
      BY <2>1 DEF IInv, vars, run, OnTheWay, Goes, MaxTurns
    <3>4. Answered'
      BY <2>1 DEF IInv, SInv, vars, run, Answered, InTime, Now, Missed, MaxTurns
    <3>5. PerfectCallsAllRight'
      BY <2>1 DEF IInv, SInv, vars, run, PerfectCallsAllRight, Perfect
    <3> QED
      BY <3>1, <3>2, <3>3, <3>4, <3>5 DEF IInv, SInv
  <2>2. CASE Next
    <3>1. CASE Start
      BY <3>1, StartIInv
    <3>2. CASE NextTurn
      BY <3>2, NextTurnIInv
    <3>3. CASE TurnOver
      BY <3>3, TurnOverIInv
    <3>4. CASE Final
      BY <3>4, FinalIInv
    <3>5. CASE Crash
      BY <3>5, CrashIInv
    <3>6. CASE Stopped
      BY <2>1, <3>6 DEF Stopped
    <3>7. ASSUME NEW e \in Ep, Settle(e) PROVE IInv'
      BY <3>7, SettleIInv
    <3>8. ASSUME NEW e \in Ep, CrashInWrite(e) PROVE IInv'
      BY <3>8, CrashInWriteIInv
    <3> QED
      BY <2>2, <3>1, <3>2, <3>3, <3>4, <3>5, <3>6, <3>7, <3>8 DEF Next
  <2> QED
    BY <2>1, <2>2
<1> QED
  BY <1>1, <1>2, PTL DEF Spec

\* However often the run crashes and resumes, in or between the writes of
\* post_and_finalize, no two lines that can be read are of one signature.
THEOREM NothingTwice == Spec => []OncePerSignature
<1>1. IInv => OncePerSignature
  BY DEF IInv, SInv
<1> QED
  BY <1>1, EpisodesInvariance, PTL

\* Whatever a crash, a cap or a length ended, a rollout of score 1.5, the --min_score of
\* prepare_sft_data.py, has every call of the conversation right, and no mismatch.
THEOREM PerfectIsAllRight == Spec => []PerfectCallsAllRight
<1>1. IInv => PerfectCallsAllRight
  BY DEF IInv, SInv
<1> QED
  BY <1>1, EpisodesInvariance, PTL

\* With a token limit the defensive pass of run_turn_sync.py has nothing to write: the
\* comment's "shouldn't happen".
THEOREM DefensivePassIdle == ASSUME HasTokenLimit PROVE Spec => []NothingLeftOver
<1>1. IInv => NothingLeftOver
  BY DEF IInv, SInv, Shape, OnTheWay, NothingLeftOver
<1> QED
  BY <1>1, EpisodesInvariance, PTL

-----------------------------------------------------------------------------
(* What is kept of the file *)

\* kept has an item once if one of the first m lines is perfect, else not at all.
PerfectBy(m, i) == \E j \in 1..m : file[j].score = "perfect" /\ file[j].sig[1] = i
Distinct(kept) == \A j, k \in DOMAIN kept : kept[j][1] = kept[k][1] => j = k
KeptBy(kept, m) ==
  kept \in Seq(Ep) /\ Distinct(kept) /\ \A i \in Item : Known(kept, i) <=> PerfectBy(m, i)

LEMMA ReadsKeeps ==
  ASSUME file \in Seq(Lines), NEW m \in Nat, m + 1 \in 1..Len(file),
         NEW kept, KeptBy(kept, m)
  PROVE  KeptBy(Reads(kept, file[m + 1]), m + 1)
<1>1. PICK line \in Lines : line = file[m + 1]
  OBVIOUS
<1>2. line.sig \in Ep /\ line.sig[1] \in Item /\ kept \in Seq(Ep)
  BY DEF Lines, Ep, KeptBy
<1>3. \A i \in Item :
        PerfectBy(m + 1, i) <=> PerfectBy(m, i) \/ (line.score = "perfect" /\ line.sig[1] = i)
  <2>1. \A j \in 1..(m + 1) : j \in 1..m \/ j = m + 1
    OBVIOUS
  <2>2. 1..m \subseteq 1..(m + 1) /\ m + 1 \in 1..(m + 1)
    OBVIOUS
  <2> SUFFICES ASSUME NEW i \in Item
               PROVE  PerfectBy(m + 1, i)
                        <=> PerfectBy(m, i) \/ (line.score = "perfect" /\ line.sig[1] = i)
    OBVIOUS
  <2> DEFINE Is(j) == file[j].score = "perfect" /\ file[j].sig[1] = i
  <2>3. Is(m + 1) <=> line.score = "perfect" /\ line.sig[1] = i
    BY <1>1
  <2> HIDE DEF Is
  <2>4. (\E j \in 1..(m + 1) : Is(j)) <=> (\E j \in 1..m : Is(j)) \/ Is(m + 1)
    BY <2>1, <2>2
  <2> QED
    BY <2>3, <2>4 DEF PerfectBy, Is
<1>4. CASE line.score # "perfect" \/ Known(kept, line.sig[1])
  <2>1. Reads(kept, line) = kept
    BY <1>4 DEF Reads
  <2>2. \A i \in Item : Known(kept, i) <=> PerfectBy(m + 1, i)
    <3> SUFFICES ASSUME NEW i \in Item PROVE Known(kept, i) <=> PerfectBy(m + 1, i)
      OBVIOUS
    <3>1. Known(kept, i) <=> PerfectBy(m, i)
      BY DEF KeptBy
    <3>2. line.score = "perfect" /\ line.sig[1] = i => Known(kept, i)
      BY <1>4, Zenon
    <3> QED
      BY <1>3, <3>1, <3>2 DEF PerfectBy, Known
  <2> QED
    BY <1>1, <2>1, <2>2 DEF KeptBy
<1>5. CASE line.score = "perfect" /\ ~Known(kept, line.sig[1])
  <2>1. PICK more \in Seq(Ep) : more = Append(kept, line.sig)
    BY <1>2, AppendProperties, Zenon
  <2>2. Reads(kept, line) = more
    BY <1>5, <2>1 DEF Reads
  <2>3. PICK l \in Nat : l = Len(kept)
    BY <1>2
  <2>4. /\ DOMAIN kept = 1..l /\ DOMAIN more = 1..(l + 1)
        /\ more[l + 1] = line.sig /\ \A k \in 1..l : more[k] = kept[k]
    BY <1>2, <2>1, <2>3
  <2>5. \A k \in 1..(l + 1) : k \in 1..l \/ k = l + 1
    OBVIOUS
  <2>6. \A k \in 1..l : kept[k][1] # line.sig[1]
    BY <1>5, <2>4 DEF Known
  <2>7. Distinct(more)
    BY <2>4, <2>5, <2>6 DEF Distinct, KeptBy
  <2>8. 1..l \subseteq 1..(l + 1) /\ l + 1 \in 1..(l + 1)
    OBVIOUS
  <2>9. \A i \in Item : Known(more, i) <=> Known(kept, i) \/ line.sig[1] = i
    BY <2>4, <2>5, <2>8 DEF Known
  <2>10. \A i \in Item : Known(more, i) <=> PerfectBy(m + 1, i)
    <3> SUFFICES ASSUME NEW i \in Item PROVE Known(more, i) <=> PerfectBy(m + 1, i)
      OBVIOUS
    <3>1. Known(kept, i) <=> PerfectBy(m, i)
      BY DEF KeptBy
    <3> QED
      BY <1>3, <1>5, <2>9, <3>1 DEF PerfectBy, Known
  <2>11. KeptBy(more, m + 1)
    BY <2>7, <2>10 DEF KeptBy
  <2> QED
    BY <1>1, <2>2, <2>11
<1> QED
  BY <1>4, <1>5

LEMMA KeptIs == ASSUME file \in Seq(Lines) PROVE KeptBy(Kept, Len(file))
<1> DEFINE l == Len(file)
           Eq(g) == g = [n \in 0..l |-> IF n = 0 THEN <<>> ELSE Reads(g[n - 1], file[n])]
           kept == CHOOSE g : Eq(g)
<1>1. l \in Nat
  OBVIOUS
<1>2. \E g : Eq(g)
  <2> DEFINE G == [p \in Seq(Ep) \X Nat |->
                     IF p[2] \in 1..l THEN Reads(p[1], file[p[2]]) ELSE p[1]]
  <2>1. \A x \in Seq(Ep), m \in 1..l : Reads(x, file[m]) \in Seq(Ep)
    <3> SUFFICES ASSUME NEW x \in Seq(Ep), NEW m \in 1..l PROVE Reads(x, file[m]) \in Seq(Ep)
      OBVIOUS
    <3>1. PICK line \in Lines : line = file[m]
      OBVIOUS
    <3>2. line.sig \in Ep
      BY DEF Lines
    <3>3. Append(x, file[m].sig) \in Seq(Ep)
      BY <3>1, <3>2, AppendProperties, Zenon
    <3> QED
      BY <3>3 DEF Reads
  <2>2. G \in [Seq(Ep) \X Nat -> Seq(Ep)]
    <3> SUFFICES ASSUME NEW p \in Seq(Ep) \X Nat
                 PROVE  (IF p[2] \in 1..l THEN Reads(p[1], file[p[2]]) ELSE p[1]) \in Seq(Ep)
      OBVIOUS
    <3>1. p[1] \in Seq(Ep)
      OBVIOUS
    <3> HIDE DEF l
    <3> QED
      BY <2>1, <3>1
  <2>3. \A x \in Seq(Ep), m \in 1..l : G[<<x, m>>] = Reads(x, file[m])
    <3> SUFFICES ASSUME NEW x \in Seq(Ep), NEW m \in 1..l
                 PROVE  G[<<x, m>>] = Reads(x, file[m])
      OBVIOUS
    <3>1. <<x, m>> \in Seq(Ep) \X Nat
      BY <1>1
    <3> QED
      BY <3>1
  <2> HIDE DEF G, l
  <2>4. <<>> \in Seq(Ep)
    OBVIOUS
  <2>5. PICK F \in [0..l -> Seq(Ep)] : Follows(F, l, <<>>, G)
    BY <1>1, <2>2, <2>4, Recursion
  <2>6. ASSUME NEW n \in 0..l PROVE F[n] = IF n = 0 THEN <<>> ELSE Reads(F[n - 1], file[n])
    <3>1. CASE n = 0
      BY <2>5, <3>1 DEF Follows
    <3>2. CASE n # 0
      <4>1. n \in 1..l /\ n - 1 \in 0..l
        BY <1>1, <3>2
      <4>2. F[n] = G[<<F[n - 1], n>>] /\ F[n - 1] \in Seq(Ep)
        BY <2>5, <4>1 DEF Follows
      <4> QED
        BY <2>3, <3>2, <4>1, <4>2
    <3> QED
      BY <3>1, <3>2
  <2>7. Eq(F)
    BY <2>5, <2>6
  <2> QED
    BY <2>7
<1>3. Eq(kept)
  BY <1>2
<1>4. Kept = kept[l]
  BY DEF Kept
<1> HIDE DEF kept
<1>5. \A n \in 0..l : kept[n] = IF n = 0 THEN <<>> ELSE Reads(kept[n - 1], file[n])
  BY <1>3, Zenon
<1> HIDE DEF Eq
<1> DEFINE T == {n \in Nat : n <= l => KeptBy(kept[n], n)}
<1>6. 0 \in T
  <2>1. kept[0] = <<>>
    BY <1>1, <1>5
  <2>2. KeptBy(<<>>, 0)
    BY DEF KeptBy, Distinct, Known, PerfectBy
  <2> QED
    BY <2>1, <2>2
<1>7. ASSUME NEW n \in Nat, n \in T PROVE n + 1 \in T
  <2> SUFFICES ASSUME n + 1 <= l PROVE KeptBy(kept[n + 1], n + 1)
    OBVIOUS
  <2>1. n + 1 \in 0..l /\ n + 1 \in 1..l /\ n + 1 # 0 /\ n + 1 - 1 = n /\ n <= l
    BY <1>1
  <2>2. kept[n + 1] = Reads(kept[n], file[n + 1])
    BY <1>5, <2>1
  <2>3. KeptBy(kept[n], n)
    BY <1>7, <2>1
  <2> QED
    BY <2>1, <2>2, <2>3, ReadsKeeps
<1>8. Nat \subseteq T
  <2> HIDE DEF T
  <2> QED
    BY <1>6, <1>7, NatSet
<1>9. KeptBy(kept[l], l)
  BY <1>1, <1>8
<1> QED
  BY <1>4, <1>9

\* Of every item with a perfect rollout --dedup_by_item keeps exactly one, and nothing of
\* the others, whatever order of lines the crashes and restarts of the run have left.
THEOREM OneOfEachItem == Spec => []OnePerItem
<1>1. ASSUME IInv PROVE OnePerItem
  <2> SUFFICES ASSUME CutLines(file) = {}, NEW i \in Item
               PROVE  Cardinality({k \in DOMAIN Kept : Kept[k][1] = i})
                        = IF \E j \in Perfect : file[j].sig[1] = i THEN 1 ELSE 0
    BY DEF OnePerItem
  <2>1. file \in Seq(Lines)
    BY <1>1 DEF IInv, SInv, Shape
  <2>2. KeptBy(Kept, Len(file))
    BY <2>1, KeptIs
  <2>3. ReadableLines(file) = 1..Len(file)
    BY <2>1 DEF CutLines, ReadableLines
  <2>4. Known(Kept, i) <=> \E j \in Perfect : file[j].sig[1] = i
    BY <2>2, <2>3 DEF KeptBy, PerfectBy, Perfect
  <2>5. CASE Known(Kept, i)
    <3>1. PICK k \in DOMAIN Kept : Kept[k][1] = i
      BY <2>5 DEF Known
    <3>2. {j \in DOMAIN Kept : Kept[j][1] = i} = {k}
      BY <2>2, <3>1 DEF KeptBy, Distinct
    <3>3. Cardinality({k}) = 1
      BY FS_Singleton
    <3> QED
      BY <2>4, <2>5, <3>2, <3>3
  <2>6. CASE ~Known(Kept, i)
    <3>1. {j \in DOMAIN Kept : Kept[j][1] = i} = {}
      BY <2>6 DEF Known
    <3>2. Cardinality({}) = 0
      BY FS_EmptySet
    <3> QED
      BY <2>4, <2>6, <3>1, <3>2
  <2> QED
    BY <2>5, <2>6
<1> QED
  BY <1>1, EpisodesInvariance, PTL
=============================================================================
