--------------------------- MODULE AgentLoopProofs ---------------------------
(***************************************************************************)
(* AgentLoop, for any literals, K, token sets, turns and lengths: what a   *)
(* turn generates behind, which tokens carry loss, which sentinel a        *)
(* captured z is paired with, what the actor finds in the response, and    *)
(* that an SFT example of the same text is trained on alike.               *)
(***************************************************************************)
EXTENDS SftExample, TLAPS, FiniteSetTheorems, SequenceTheorems, WellFoundedInduction

-----------------------------------------------------------------------------
(* The outputs of a turn *)

LEMMA NatSet ==
  ASSUME NEW T, 0 \in T, \A n \in Nat : n \in T => n + 1 \in T
  PROVE  Nat \subseteq T
<1> SUFFICES ASSUME Nat \ T # {} PROVE FALSE
  OBVIOUS
<1>1. PICK m \in Nat \ T : \A n \in Nat \ T : <<n, m>> \notin OpToRel(<, Nat)
  BY NatLessThanWellFounded, WFMin
<1>2. m \in Nat \ {0}
  OBVIOUS
<1>3. m - 1 \in Nat /\ m - 1 < m /\ m - 1 + 1 = m
  BY <1>2
<1>4. m - 1 \in T
  BY <1>1, <1>2, <1>3 DEF OpToRel
<1> QED
  BY <1>2, <1>3, <1>4

First == {[out |-> <<>>, owed |-> 0, zs |-> 0]}

\* f gives the outputs of each length up to n.
UpTo(n, f) == f = [i \in 0..n |-> IF i = 0 THEN First ELSE Longer(f[i - 1])]

LEMMA OneLonger ==
  ASSUME NEW n \in Nat, NEW f, UpTo(n, f)
  PROVE  \E g : UpTo(n + 1, g)
<1>1. PICK g : g = [i \in 0..(n + 1) |-> IF i = n + 1 THEN Longer(f[n]) ELSE f[i]]
  OBVIOUS
<1>2. ASSUME NEW i \in 0..(n + 1)
      PROVE  g[i] = IF i = 0 THEN First ELSE Longer(g[i - 1])
  <2>1. CASE i = n + 1
    <3>1. i # 0 /\ i - 1 = n /\ n \in 0..(n + 1) /\ n # n + 1
      BY <2>1
    <3>2. g[i] = Longer(f[n]) /\ g[n] = f[n]
      BY <1>1, <2>1, <3>1
    <3> QED
      BY <3>1, <3>2
  <2>2. CASE i # n + 1
    <3>1. i \in 0..n /\ g[i] = f[i]
      BY <1>1, <2>2
    <3>2. f[i] = IF i = 0 THEN First ELSE Longer(f[i - 1])
      BY <3>1, Zenon DEF UpTo
    <3>3. CASE i = 0
      BY <3>1, <3>2, <3>3
    <3>4. CASE i # 0
      <4>1. i - 1 \in 0..(n + 1) /\ i - 1 # n + 1
        BY <3>1, <3>4
      <4>2. g[i - 1] = f[i - 1]
        BY <1>1, <4>1
      <4> QED
        BY <3>1, <3>2, <3>4, <4>2
    <3> QED
      BY <3>3, <3>4
  <2> QED
    BY <2>1, <2>2
<1>3. g = [i \in 0..(n + 1) |-> IF i = 0 THEN First ELSE Longer(g[i - 1])]
  BY <1>1, <1>2
<1> QED
  BY <1>3 DEF UpTo

\* The outputs of each length are what their definition says.
LEMMA PartialIs ==
  /\ Partial[0] = First
  /\ \A n \in Nat : n + 1 <= MaxTurnLen => Partial[n + 1] = Longer(Partial[n])
<1> DEFINE T == {n \in Nat : \E f : UpTo(n, f)}
<1>1. 0 \in T
  <2>1. PICK f : f = [i \in 0..0 |-> First]
    OBVIOUS
  <2>2. f = [i \in 0..0 |-> IF i = 0 THEN First ELSE Longer(f[i - 1])]
    BY <2>1
  <2> QED
    BY <2>2 DEF UpTo
<1>2. \A n \in Nat : n \in T => n + 1 \in T
  BY OneLonger
<1>3. Nat \subseteq T
  <2> HIDE DEF T
  <2> QED
    BY <1>1, <1>2, NatSet
<1>4. MaxTurnLen \in Nat
  BY AgentAssumption
<1>5. \E f : UpTo(MaxTurnLen, f)
  BY <1>3, <1>4
<1>6. UpTo(MaxTurnLen, Partial)
  BY <1>5, Zenon DEF Partial, UpTo, First
<1>7. ASSUME NEW n \in 0..MaxTurnLen
      PROVE  Partial[n] = IF n = 0 THEN First ELSE Longer(Partial[n - 1])
  BY <1>6, <1>7, Zenon DEF UpTo
<1>8. Partial[0] = First
  BY <1>4, <1>7
<1>9. ASSUME NEW n \in Nat, n + 1 <= MaxTurnLen PROVE Partial[n + 1] = Longer(Partial[n])
  <2>1. n + 1 \in 0..MaxTurnLen /\ n + 1 # 0 /\ n + 1 - 1 = n
    BY <1>4, <1>9
  <2> QED
    BY <1>7, <2>1
<1> QED
  BY <1>8, <1>9

Token == ModelTokens \cup Range(CloseIds) \cup {Sentinel}
Said == [tok : Token, by : {"model", "latent", "close"}, z : Nat]

\* A bullet in an output is a spliced one: the model does not sample it, and the close
\* literal has none.
BulletsAreSpliced == Sentinel \notin ModelTokens \cup Range(CloseIds)

LatentIsBullet(o) == \A i \in DOMAIN o : o[i].by = "latent" => o[i].tok = Sentinel
Numbered(o) ==
  \A i \in DOMAIN o : o[i].tok = Sentinel => o[i].by = "latent" /\ o[i].z = Rank(Tok(o), i)

\* s is an output of length n with the pieces it owes.
Sound(s, n) ==
  /\ s.out \in Seq(Said) /\ Len(s.out) = n
  /\ s.owed \in 0..(K + Len(CloseIds)) /\ s.zs \in Nat
  /\ LatentIsBullet(s.out)
  /\ BulletsAreSpliced => Numbered(s.out) /\ s.zs = Rank(Tok(s.out), n)

LEMMA PieceIs ==
  ASSUME NEW s
  PROVE  Block(s.out, s.owed, s.zs, FALSE)!Piece(s.owed) =
           IF s.owed > Len(CloseIds)
           THEN [tok |-> Sentinel, by |-> "latent", z |-> s.zs + 1]
           ELSE [tok |-> CloseIds[Len(CloseIds) - s.owed + 1], by |-> "close", z |-> 0]
  BY DEF Block!Piece

LEMMA CloseLen == Len(CloseIds) \in Nat \ {0} /\ DOMAIN CloseIds = 1..Len(CloseIds)
                  /\ K \in Nat \ {0}
  BY AgentAssumption, EmptySeq, LenProperties

\* o2 is o with e behind it.
Extends(o, e, o2, n) ==
  /\ o2 \in Seq(Said) /\ Len(o2) = n + 1 /\ DOMAIN o2 = 1..(n + 1) /\ o2[n + 1] = e
  /\ \A i \in 1..n : o2[i] = o[i]
  /\ \A p \in 0..n : Rank(Tok(o2), p) = Rank(Tok(o), p)
  /\ Rank(Tok(o), n) \in Nat
  /\ e.tok = Sentinel => Rank(Tok(o2), n + 1) = Rank(Tok(o), n) + 1
  /\ e.tok # Sentinel => Rank(Tok(o2), n + 1) = Rank(Tok(o), n)

LEMMA OnePieceMore ==
  ASSUME NEW n \in Nat, NEW o \in Seq(Said), Len(o) = n, NEW e \in Said,
         NEW o2, o2 = Append(o, e)
  PROVE  Extends(o, e, o2, n)
<1>1. /\ o2 \in Seq(Said) /\ Len(o2) = n + 1 /\ DOMAIN o2 = 1..(n + 1) /\ o2[n + 1] = e
      /\ \A i \in 1..n : o2[i] = o[i]
  BY LenProperties
<1>2. DOMAIN o = 1..n
  BY LenProperties
<1>3. \A i \in 1..n : Tok(o)[i] = o[i].tok /\ Tok(o2)[i] = o[i].tok
  BY <1>1, <1>2 DEF Tok
<1>4. Tok(o2)[n + 1] = e.tok
  BY <1>1 DEF Tok
<1> DEFINE at(p) == {q \in 1..p : Tok(o)[q] = Sentinel}
           at2(p) == {q \in 1..p : Tok(o2)[q] = Sentinel}
<1>5. \A p \in 0..n : at2(p) = at(p)
  BY <1>3
<1>6. IsFiniteSet(at(n)) /\ Cardinality(at(n)) \in Nat
  <2>1. IsFiniteSet(1..n)
    BY FS_Interval
  <2>2. at(n) \in SUBSET (1..n)
    OBVIOUS
  <2> QED
    BY <2>1, <2>2, FS_Subset, FS_CardinalityType
<1>7. ASSUME e.tok = Sentinel
      PROVE  Cardinality(at2(n + 1)) = Cardinality(at(n)) + 1
  <2>1. at2(n + 1) = at(n) \cup {n + 1}
    BY <1>3, <1>4, <1>7
  <2>2. n + 1 \notin at(n)
    OBVIOUS
  <2> HIDE DEF at, at2
  <2> QED
    BY <1>6, <2>1, <2>2, FS_AddElement
<1>8. ASSUME e.tok # Sentinel
      PROVE  at2(n + 1) = at(n)
  BY <1>3, <1>4, <1>8
<1>9. \A p : Rank(Tok(o), p) = Cardinality(at(p)) /\ Rank(Tok(o2), p) = Cardinality(at2(p))
  BY DEF Rank
<1> HIDE DEF at, at2
<1>10. \A p \in 0..n : Rank(Tok(o2), p) = Rank(Tok(o), p)
  BY <1>5, <1>9
<1>11. n \in 0..n
  OBVIOUS
<1> QED
  BY <1>1, <1>6, <1>7, <1>8, <1>9, <1>10, <1>11 DEF Extends

\* A piece that is numbered as it should be keeps an output sound.
LEMMA SoundOneMore ==
  ASSUME NEW n \in Nat, NEW s, Sound(s, n), NEW e \in Said, NEW r,
         r.out = Append(s.out, e), r.owed \in 0..(K + Len(CloseIds)), r.zs \in Nat,
         e.by = "latent" => e.tok = Sentinel,
         BulletsAreSpliced =>
           \/ e.tok = Sentinel /\ e.by = "latent" /\ e.z = s.zs + 1 /\ r.zs = s.zs + 1
           \/ e.tok # Sentinel /\ r.zs = s.zs
  PROVE  Sound(r, n + 1)
<1>1. Extends(s.out, e, r.out, n)
  BY OnePieceMore DEF Sound
<1>2. /\ r.out \in Seq(Said) /\ Len(r.out) = n + 1 /\ DOMAIN r.out = 1..(n + 1)
      /\ r.out[n + 1] = e /\ \A i \in 1..n : r.out[i] = s.out[i]
  BY <1>1 DEF Extends
<1>3. DOMAIN s.out = 1..n
  BY LenProperties DEF Sound
<1>4. LatentIsBullet(r.out)
  BY <1>2, <1>3 DEF LatentIsBullet, Sound
<1>5. ASSUME BulletsAreSpliced
      PROVE  Numbered(r.out) /\ r.zs = Rank(Tok(r.out), n + 1)
  <2>1. s.zs = Rank(Tok(s.out), n) /\ Numbered(s.out)
    BY <1>5 DEF Sound
  <2>2. r.zs = Rank(Tok(r.out), n + 1)
    BY <1>1, <1>5, <2>1 DEF Extends
  <2>3. ASSUME NEW i \in 1..(n + 1), r.out[i].tok = Sentinel
        PROVE  r.out[i].by = "latent" /\ r.out[i].z = Rank(Tok(r.out), i)
    <3>1. CASE i = n + 1
      BY <1>2, <1>5, <2>2, <2>3, <3>1
    <3>2. CASE i # n + 1
      <4>1. i \in 1..n /\ i \in 0..n
        BY <3>2
      <4>2. Rank(Tok(r.out), i) = Rank(Tok(s.out), i)
        BY <1>1, <4>1, Zenon DEF Extends
      <4>3. r.out[i] = s.out[i]
        BY <1>2, <4>1
      <4> QED
        BY <1>3, <2>1, <2>3, <4>1, <4>2, <4>3, Zenon DEF Numbered
    <3> QED
      BY <3>1, <3>2
  <2> QED
    BY <1>2, <2>2, <2>3 DEF Numbered
<1> QED
  BY <1>2, <1>4, <1>5 DEF Sound

LEMMA SpeakSound ==
  ASSUME NEW n \in Nat, NEW s, Sound(s, n), s.owed = 0, NEW t \in ModelTokens
  PROVE  Sound(Speak(s, t), n + 1)
<1>1. PICK r : r = Speak(s, t)
  OBVIOUS
<1>2. PICK e : e = [tok |-> t, by |-> "model", z |-> 0]
  OBVIOUS
<1>3. e \in Said /\ e.tok = t /\ e.by = "model"
  BY <1>2 DEF Said, Token
<1>4. r.out = Append(s.out, e) /\ r.zs = s.zs /\ r.owed \in {0, K + Len(CloseIds)}
  BY <1>1, <1>2 DEF Speak
<1>5. r.owed \in 0..(K + Len(CloseIds)) /\ r.zs \in Nat
  <2>1. K + Len(CloseIds) \in 0..(K + Len(CloseIds)) /\ 0 \in 0..(K + Len(CloseIds))
    BY CloseLen
  <2> QED
    BY <1>4, <2>1 DEF Sound
<1>6. BulletsAreSpliced => e.tok # Sentinel
  BY <1>3 DEF BulletsAreSpliced
<1> QED
  BY <1>1, <1>3, <1>4, <1>5, <1>6, SoundOneMore

LEMMA ReasonSound ==
  ASSUME NEW n \in Nat, NEW s, Sound(s, n), s.owed > 0
  PROVE  Sound(Reason(s), n + 1)
<1>1. PICK r : r = Reason(s)
  OBVIOUS
<1>2. PICK e : e = IF s.owed > Len(CloseIds)
                   THEN [tok |-> Sentinel, by |-> "latent", z |-> s.zs + 1]
                   ELSE [tok |-> CloseIds[Len(CloseIds) - s.owed + 1], by |-> "close", z |-> 0]
  OBVIOUS
<1>3. /\ r.out = Append(s.out, e) /\ r.owed = s.owed - 1
      /\ r.zs = IF s.owed > Len(CloseIds) THEN s.zs + 1 ELSE s.zs
  BY <1>1, <1>2, PieceIs DEF Reason
<1>4. s.zs \in Nat /\ s.owed \in 1..(K + Len(CloseIds))
  BY CloseLen DEF Sound
<1>5. r.owed \in 0..(K + Len(CloseIds)) /\ r.zs \in Nat
  BY <1>3, <1>4, CloseLen
<1>6. CASE s.owed > Len(CloseIds)
  <2>1. e = [tok |-> Sentinel, by |-> "latent", z |-> s.zs + 1] /\ r.zs = s.zs + 1
    BY <1>2, <1>3, <1>6
  <2>2. e \in Said /\ e.tok = Sentinel /\ e.by = "latent" /\ e.z = s.zs + 1
    BY <1>4, <2>1 DEF Said, Token
  <2> QED
    BY <1>1, <1>3, <1>5, <2>1, <2>2, SoundOneMore
<1>7. CASE ~(s.owed > Len(CloseIds))
  <2>1. PICK t : t = CloseIds[Len(CloseIds) - s.owed + 1]
    OBVIOUS
  <2>2. e = [tok |-> t, by |-> "close", z |-> 0] /\ r.zs = s.zs
    BY <1>2, <1>3, <1>7, <2>1
  <2>3. t \in Range(CloseIds)
    <3>1. Len(CloseIds) - s.owed + 1 \in DOMAIN CloseIds
      BY <1>4, <1>7, CloseLen
    <3> QED
      BY <2>1, <3>1 DEF Range
  <2>4. e \in Said /\ e.tok = t /\ e.by = "close"
    BY <2>2, <2>3 DEF Said, Token
  <2>5. BulletsAreSpliced => e.tok # Sentinel
    BY <2>3, <2>4 DEF BulletsAreSpliced
  <2> QED
    BY <1>1, <1>3, <1>5, <2>2, <2>4, <2>5, SoundOneMore
<1> QED
  BY <1>6, <1>7

\* How an output has come to its length.
LEMMA NextPartial ==
  ASSUME NEW n \in Nat, n + 1 <= MaxTurnLen, NEW x \in Partial[n + 1]
  PROVE  \/ \E y \in Partial[n] : ~Stops(y.out) /\ y.owed > 0 /\ x = Reason(y)
         \/ \E y \in Partial[n] :
              ~Stops(y.out) /\ y.owed = 0 /\ \E t \in ModelTokens : x = Speak(y, t)
<1>1. PICK S : S = Partial[n]
  OBVIOUS
<1>2. x \in Longer(S)
  BY <1>1, PartialIs
<1>3. \/ \E y \in S : ~Stops(y.out) /\ y.owed > 0 /\ x = Reason(y)
      \/ \E y \in S : ~Stops(y.out) /\ y.owed = 0 /\ \E t \in ModelTokens : x = Speak(y, t)
  BY <1>2 DEF Longer
<1> QED
  BY <1>1, <1>3

\* In every output the sentinels are numbered, and spliced.
LEMMA PartialSound ==
  ASSUME NEW m \in Nat, m <= MaxTurnLen
  PROVE  \A x \in Partial[m] : Sound(x, m)
<1> DEFINE T == {n \in Nat : n <= MaxTurnLen => \A x \in Partial[n] : Sound(x, n)}
<1>1. 0 \in T
  <2> SUFFICES ASSUME NEW x \in First PROVE Sound(x, 0)
    BY PartialIs
  <2>1. x.out = <<>> /\ x.owed = 0 /\ x.zs = 0
    BY DEF First
  <2>2. x.out \in Seq(Said) /\ Len(x.out) = 0 /\ DOMAIN x.out = {}
    BY <2>1, EmptySeq
  <2>3. 0 \in 0..(K + Len(CloseIds))
    BY CloseLen
  <2>4. Rank(Tok(x.out), 0) = 0
    <3>1. {q \in 1..0 : Tok(x.out)[q] = Sentinel} = {}
      OBVIOUS
    <3> QED
      BY <3>1, FS_EmptySet DEF Rank
  <2> QED
    BY <2>1, <2>2, <2>3, <2>4 DEF Sound, LatentIsBullet, Numbered
<1>2. ASSUME NEW n \in Nat, n \in T PROVE n + 1 \in T
  <2> SUFFICES ASSUME n + 1 <= MaxTurnLen, NEW x \in Partial[n + 1] PROVE Sound(x, n + 1)
    OBVIOUS
  <2>1. n <= MaxTurnLen
    BY AgentAssumption
  <2>2. \A y \in Partial[n] : Sound(y, n)
    BY <1>2, <2>1
  <2>3. CASE \E y \in Partial[n] : y.owed > 0 /\ x = Reason(y)
    BY <2>2, <2>3, ReasonSound
  <2>4. CASE \E y \in Partial[n] : y.owed = 0 /\ \E t \in ModelTokens : x = Speak(y, t)
    BY <2>2, <2>4, SpeakSound
  <2> QED
    BY <2>3, <2>4, NextPartial
<1>3. Nat \subseteq T
  <2> HIDE DEF T
  <2> QED
    BY <1>1, <1>2, NatSet
<1> QED
  BY <1>3

LEMMA TurnsSound ==
  ASSUME NEW s \in Turns
  PROVE  /\ Sound(s, Len(s.out)) /\ Len(s.out) \in 1..MaxTurnLen
         /\ s \in Partial[Len(s.out)]
<1>1. PICK n \in 1..MaxTurnLen : s \in Partial[n]
  BY Zenon DEF Turns
<1>2. n \in Nat /\ n <= MaxTurnLen
  BY <1>1, AgentAssumption
<1>3. Sound(s, n)
  BY <1>1, <1>2, PartialSound
<1>4. Len(s.out) = n
  BY <1>3 DEF Sound
<1> QED
  BY <1>1, <1>3, <1>4

-----------------------------------------------------------------------------
(* Where an output has its blocks *)

OpenLen == Len(OpenIds)
BlockLen == K + Len(CloseIds)

\* The open literal is told apart from what the plugin and the retrieval put in, and
\* the search tag from either literal.
LiteralsApart ==
  /\ BulletsAreSpliced
  /\ OpenIds[1] \notin Range(CloseIds) \cup InfoTokens
  /\ Sentinel \notin Range(OpenIds)
  /\ Search \notin Range(OpenIds) \cup Range(CloseIds) \cup {Sentinel}

\* e is piece d of a block.
IsPiece(e, d) ==
  /\ d <= K => e.by = "latent" /\ e.tok = Sentinel
  /\ d > K => e.by = "close" /\ e.tok = CloseIds[d - K]

\* The model has written the open literal, up to position e.
OpenedAt(o, e) ==
  /\ e >= OpenLen
  /\ \A x \in 1..OpenLen : o[e - OpenLen + x].by = "model" /\ o[e - OpenLen + x].tok = OpenIds[x]

\* The first x pieces of the open literal stand at j, whoever put them there.
Spelled(o, j, x) == \A y \in 1..x : o[j + y - 1].tok = OpenIds[y]

\* Behind an open literal stands its block, or as much of it as is not owed; what is
\* owed belongs to a literal; what the model did not say, too; it says itself what
\* looks like the beginning of a literal; nothing follows what stops the output.
Followed(o, n, owed) ==
  \A e \in 1..n : OpenedAt(o, e) =>
    /\ \A d \in 1..BlockLen : e + d <= n => IsPiece(o[e + d], d)
    /\ e + BlockLen > n => owed = e + BlockLen - n
Owing(o, n, owed) == owed > 0 => \E e \in 1..n : OpenedAt(o, e) /\ e + BlockLen = n + owed
InBlocks(o, n) ==
  \A p \in 1..n : o[p].by # "model" =>
    \E e \in 1..n : OpenedAt(o, e) /\ p - e \in 1..BlockLen
OpenSampled(o, n) ==
  LiteralsApart =>
    \A j \in 1..n, x \in 1..OpenLen :
      (j + x - 1 <= n /\ Spelled(o, j, x)) => o[j + x - 1].by = "model"
StopsLast(o, n) == \A p \in 1..(n - 1) : o[p].tok \notin {Search, Answer, "eos"}

LaidOut(s, n) ==
  /\ Followed(s.out, n, s.owed) /\ Owing(s.out, n, s.owed)
  /\ InBlocks(s.out, n) /\ OpenSampled(s.out, n) /\ StopsLast(s.out, n)

LEMMA OpenLenIs ==
  /\ OpenLen \in Nat \ {0} /\ DOMAIN OpenIds = 1..OpenLen
  /\ BlockLen \in Nat \ {0} /\ BlockLen = K + Len(CloseIds)
  BY AgentAssumption, EmptySeq, LenProperties, CloseLen DEF OpenLen, BlockLen

\* What is said of the first n positions is not changed by what comes behind.
LEMMA SameBefore ==
  ASSUME NEW n \in Nat, NEW o, NEW o2, \A i \in 1..n : o2[i] = o[i]
  PROVE  /\ \A e \in 1..n : OpenedAt(o2, e) <=> OpenedAt(o, e)
         /\ \A j \in 1..n, x \in 1..OpenLen :
              j + x - 1 <= n => (Spelled(o2, j, x) <=> Spelled(o, j, x))
<1>1. PICK l \in Nat \ {0} : l = OpenLen
  BY OpenLenIs
<1>2. ASSUME NEW e \in 1..n PROVE OpenedAt(o2, e) <=> OpenedAt(o, e)
  <2>1. ASSUME e >= l PROVE \A x \in 1..l : o2[e - l + x] = o[e - l + x]
    <3> SUFFICES ASSUME NEW x \in 1..l PROVE o2[e - l + x] = o[e - l + x]
      OBVIOUS
    <3>1. e - l + x \in 1..n
      BY <2>1
    <3> QED
      BY <3>1
  <2> QED
    BY <1>1, <2>1 DEF OpenedAt
<1>3. ASSUME NEW j \in 1..n, NEW x \in 1..OpenLen, j + x - 1 <= n
      PROVE  Spelled(o2, j, x) <=> Spelled(o, j, x)
  <2>1. \A y \in 1..x : o2[j + y - 1] = o[j + y - 1]
    <3> SUFFICES ASSUME NEW y \in 1..x PROVE o2[j + y - 1] = o[j + y - 1]
      OBVIOUS
    <3>1. j + y - 1 \in 1..n
      BY <1>1, <1>3
    <3> QED
      BY <3>1
  <2> QED
    BY <2>1 DEF Spelled
<1> QED
  BY <1>2, <1>3

LEMMA StopsStay ==
  ASSUME NEW n \in Nat, NEW s, Sound(s, n), StopsLast(s.out, n), ~Stops(s.out),
         NEW e, NEW o2, Extends(s.out, e, o2, n)
  PROVE  StopsLast(o2, n + 1)
<1> SUFFICES ASSUME NEW p \in 1..n PROVE o2[p].tok \notin {Search, Answer, "eos"}
  BY DEF StopsLast
<1>1. o2[p] = s.out[p] /\ Len(s.out) = n /\ s.out # <<>>
  BY EmptySeq DEF Extends, Sound
<1>2. CASE p = n
  BY <1>1, <1>2 DEF Stops
<1>3. CASE p # n
  BY <1>1, <1>3 DEF StopsLast
<1> QED
  BY <1>2, <1>3

LEMMA SpeakLaidOut ==
  ASSUME NEW n \in Nat, NEW s, Sound(s, n), LaidOut(s, n), ~Stops(s.out), s.owed = 0,
         NEW t \in ModelTokens
  PROVE  LaidOut(Speak(s, t), n + 1)
<1>1. PICK r, e : r = Speak(s, t) /\ e = [tok |-> t, by |-> "model", z |-> 0]
  OBVIOUS
<1>2. e \in Said /\ e.by = "model"
  BY <1>1 DEF Said, Token
<1>3. PICK o, o2 : o = s.out /\ o2 = r.out
  OBVIOUS
<1>4. o2 = Append(o, e) /\ r.owed = IF OpenedAt(o2, n + 1) THEN BlockLen ELSE 0
  <2>1. o2 = Append(o, e)
    BY <1>1, <1>3 DEF Speak
  <2>2. r.owed = IF Block(o2, 0, 0, FALSE)!Opens(o2) THEN BlockLen ELSE 0
    BY <1>1, <1>3, <2>1 DEF Speak, BlockLen
  <2>3. Len(o2) = n + 1
    BY <1>2, <1>3, <2>1, LenProperties DEF Sound
  <2>4. Block(o2, 0, 0, FALSE)!Opens(o2) <=> OpenedAt(o2, n + 1)
    <3>l. PICK l \in Nat \ {0} : l = OpenLen
      BY OpenLenIs
    <3>m. PICK m \in Nat : m = n + 1
      OBVIOUS
    <3>1. l = Len(OpenIds)
      BY <3>l DEF OpenLen
    <3>2. Block(o2, 0, 0, FALSE)!Opens(o2) <=>
            /\ m - l >= 0
            /\ \A j \in 1..l : o2[m - l + j].by = "model" /\ o2[m - l + j].tok = OpenIds[j]
      BY <2>3, <3>1, <3>m DEF Block!Opens
    <3>3. m - l >= 0 <=> m >= l
      OBVIOUS
    <3> QED
      BY <3>l, <3>m, <3>2, <3>3 DEF OpenedAt
  <2> QED
    BY <2>1, <2>2, <2>4
<1>5. Extends(o, e, o2, n)
  BY <1>2, <1>3, <1>4, OnePieceMore DEF Sound
<1>6. o2[n + 1] = e /\ \A i \in 1..n : o2[i] = o[i]
  BY <1>5 DEF Extends
<1>7. /\ \A x \in 1..n : OpenedAt(o2, x) <=> OpenedAt(o, x)
      /\ \A j \in 1..n, x \in 1..OpenLen :
           j + x - 1 <= n => (Spelled(o2, j, x) <=> Spelled(o, j, x))
  BY <1>6, SameBefore
<1>8. PICK b \in Nat \ {0}, l \in Nat \ {0} : b = BlockLen /\ l = OpenLen
  BY OpenLenIs
<1>9. Followed(o2, n + 1, r.owed)
  <2> SUFFICES ASSUME NEW x \in 1..(n + 1), OpenedAt(o2, x)
               PROVE  /\ \A d \in 1..b : x + d <= n + 1 => IsPiece(o2[x + d], d)
                      /\ x + b > n + 1 => r.owed = x + b - (n + 1)
    BY <1>8 DEF Followed
  <2>1. CASE x = n + 1
    <3>1. r.owed = b
      BY <1>4, <1>8, <2>1
    <3> QED
      BY <2>1, <3>1
  <2>2. CASE x # n + 1
    <3>1. x \in 1..n /\ OpenedAt(o, x)
      BY <1>7, <2>2
    <3>2. /\ \A d \in 1..b : x + d <= n => IsPiece(o[x + d], d)
          /\ x + b > n => s.owed = x + b - n
      BY <1>3, <1>8, <3>1 DEF LaidOut, Followed
    <3>3. x + b <= n
      BY <3>2
    <3>4. ASSUME NEW d \in 1..b PROVE IsPiece(o2[x + d], d)
      <4>1. x + d \in 1..n
        BY <3>1, <3>3
      <4> QED
        BY <1>6, <3>2, <4>1
    <3> QED
      BY <3>3, <3>4
  <2> QED
    BY <2>1, <2>2
<1>10. Owing(o2, n + 1, r.owed)
  <2> SUFFICES ASSUME r.owed > 0
               PROVE  \E x \in 1..(n + 1) : OpenedAt(o2, x) /\ x + BlockLen = n + 1 + r.owed
    BY DEF Owing
  <2>1. OpenedAt(o2, n + 1) /\ r.owed = BlockLen
    BY <1>4
  <2>2. n + 1 \in 1..(n + 1)
    OBVIOUS
  <2> QED
    BY <1>8, <2>1, <2>2
<1>11. InBlocks(o2, n + 1)
  <2> SUFFICES ASSUME NEW p \in 1..(n + 1), o2[p].by # "model"
               PROVE  \E x \in 1..(n + 1) : OpenedAt(o2, x) /\ p - x \in 1..BlockLen
    BY DEF InBlocks
  <2>1. p \in 1..n /\ o[p].by # "model"
    BY <1>2, <1>6
  <2>2. PICK x \in 1..n : OpenedAt(o, x) /\ p - x \in 1..BlockLen
    BY <1>3, <2>1 DEF LaidOut, InBlocks
  <2>3. x \in 1..(n + 1) /\ OpenedAt(o2, x)
    BY <1>7, <2>2
  <2> QED
    BY <2>2, <2>3
<1>12. OpenSampled(o2, n + 1)
  <2> SUFFICES ASSUME LiteralsApart, NEW j \in 1..(n + 1), NEW x \in 1..OpenLen,
                      j + x - 1 <= n + 1, Spelled(o2, j, x)
               PROVE  o2[j + x - 1].by = "model"
    BY DEF OpenSampled
  <2>1. CASE j + x - 1 = n + 1
    BY <1>2, <1>6, <2>1
  <2>2. CASE j + x - 1 # n + 1
    <3>1. j \in 1..n /\ j + x - 1 <= n /\ j + x - 1 \in 1..n
      BY <1>8, <2>2
    <3>2. Spelled(o, j, x)
      BY <1>7, <3>1
    <3>3. o[j + x - 1].by = "model"
      BY <1>3, <3>1, <3>2 DEF LaidOut, OpenSampled
    <3> QED
      BY <1>6, <3>1, <3>3
  <2> QED
    BY <2>1, <2>2
<1>13. StopsLast(o2, n + 1)
  BY <1>3, <1>5, StopsStay DEF LaidOut
<1> QED
  BY <1>1, <1>3, <1>9, <1>10, <1>11, <1>12, <1>13 DEF LaidOut

LEMMA PieceIsNotSampled ==
  ASSUME NEW d \in 1..BlockLen, NEW e, IsPiece(e, d)
  PROVE  /\ e.by # "model"
         /\ e.by = "latent" => d <= K /\ e.tok = Sentinel
         /\ d > K => e.tok \in Range(CloseIds)
<1>1. PICK c \in Nat \ {0}, k \in Nat \ {0} :
        c = Len(CloseIds) /\ k = K /\ DOMAIN CloseIds = 1..c /\ BlockLen = k + c
  BY CloseLen, OpenLenIs
<1>2. CASE d <= k
  BY <1>1, <1>2 DEF IsPiece
<1>3. CASE d > k
  <2>1. d - k \in DOMAIN CloseIds
    BY <1>1, <1>3
  <2>2. e.tok \in Range(CloseIds)
    BY <1>1, <1>3, <2>1 DEF IsPiece, Range
  <2> QED
    BY <1>1, <1>3, <2>2 DEF IsPiece
<1> QED
  BY <1>1, <1>2, <1>3

LEMMA ReasonLaidOut ==
  ASSUME NEW n \in Nat, NEW s, Sound(s, n), LaidOut(s, n), ~Stops(s.out), s.owed > 0
  PROVE  LaidOut(Reason(s), n + 1)
<1>1. PICK r, o, o2 : r = Reason(s) /\ o = s.out /\ o2 = r.out
  OBVIOUS
<1>2. PICK e : e = IF s.owed > Len(CloseIds)
                   THEN [tok |-> Sentinel, by |-> "latent", z |-> s.zs + 1]
                   ELSE [tok |-> CloseIds[Len(CloseIds) - s.owed + 1], by |-> "close", z |-> 0]
  OBVIOUS
<1>3. o2 = Append(o, e) /\ r.owed = s.owed - 1
  BY <1>1, <1>2, PieceIs DEF Reason
<1>4. PICK b \in Nat \ {0}, l \in Nat \ {0}, c \in Nat \ {0}, k \in Nat \ {0} :
        /\ b = BlockLen /\ l = OpenLen /\ c = Len(CloseIds) /\ k = K /\ b = k + c
        /\ DOMAIN CloseIds = 1..c /\ DOMAIN OpenIds = 1..l
  BY OpenLenIs, CloseLen
<1>5. PICK w \in 1..b : w = s.owed
  BY <1>4 DEF Sound
<1>6. PICK f \in 1..n : OpenedAt(o, f) /\ f + b = n + w
  BY <1>1, <1>4, <1>5 DEF LaidOut, Owing
<1>7. PICK g \in 1..b : g = b - w + 1 /\ f + g = n + 1
  <2>1. b - w + 1 \in 1..b /\ f + (b - w + 1) = n + 1
    BY <1>6
  <2> QED
    BY <2>1
<1>8. IsPiece(e, g) /\ e \in Said
  <2>1. CASE w > c
    <3>1. g <= k
      BY <1>4, <1>7, <2>1
    <3>2. e = [tok |-> Sentinel, by |-> "latent", z |-> s.zs + 1] /\ s.zs + 1 \in Nat
      BY <1>2, <1>4, <1>5, <2>1 DEF Sound
    <3> QED
      BY <1>4, <3>1, <3>2 DEF IsPiece, Said, Token
  <2>2. CASE ~(w > c)
    <3>1. g > k /\ g - k = c - w + 1 /\ g - k \in 1..c
      BY <1>4, <1>7, <2>2
    <3>2. e = [tok |-> CloseIds[g - k], by |-> "close", z |-> 0]
      BY <1>2, <1>4, <1>5, <2>2, <3>1
    <3>3. CloseIds[g - k] \in Range(CloseIds)
      BY <1>4, <3>1 DEF Range
    <3>4. e.tok = CloseIds[g - k] /\ e.by = "close"
      BY <3>2
    <3>5. e \in Said
      BY <3>2, <3>3 DEF Said, Token
    <3> QED
      BY <1>4, <3>1, <3>4, <3>5 DEF IsPiece
  <2> QED
    BY <2>1, <2>2
<1>9. Extends(o, e, o2, n)
  BY <1>1, <1>3, <1>8, OnePieceMore DEF Sound
<1>10. o2[n + 1] = e /\ \A i \in 1..n : o2[i] = o[i]
  BY <1>9 DEF Extends
<1>11. /\ \A x \in 1..n : OpenedAt(o2, x) <=> OpenedAt(o, x)
       /\ \A j \in 1..n, x \in 1..OpenLen :
            j + x - 1 <= n => (Spelled(o2, j, x) <=> Spelled(o, j, x))
  BY <1>10, SameBefore
<1>12. e.by # "model"
  BY <1>4, <1>8, PieceIsNotSampled
<1>13. ASSUME NEW x \in 1..(n + 1), OpenedAt(o2, x) PROVE x \in 1..n /\ OpenedAt(o, x)
  <2>1. CASE x = n + 1
    <3>1. l \in 1..l /\ n + 1 - l + l = n + 1
      OBVIOUS
    <3>2. o2[n + 1].by = "model"
      BY <1>4, <1>13, <2>1, <3>1 DEF OpenedAt
    <3> QED
      BY <1>10, <1>12, <3>2
  <2>2. CASE x # n + 1
    BY <1>11, <1>13, <2>2
  <2> QED
    BY <2>1, <2>2
<1>14. Followed(o2, n + 1, r.owed)
  <2> SUFFICES ASSUME NEW x \in 1..n, OpenedAt(o, x)
               PROVE  /\ \A d \in 1..b : x + d <= n + 1 => IsPiece(o2[x + d], d)
                      /\ x + b > n + 1 => w - 1 = x + b - (n + 1)
    BY <1>3, <1>4, <1>5, <1>13 DEF Followed
  <2>1. /\ \A d \in 1..b : x + d <= n => IsPiece(o[x + d], d)
        /\ x + b > n => w = x + b - n
    BY <1>1, <1>4, <1>5 DEF LaidOut, Followed
  <2>2. ASSUME NEW d \in 1..b, x + d <= n + 1 PROVE IsPiece(o2[x + d], d)
    <3>1. CASE x + d <= n
      <4>1. x + d \in 1..n
        BY <3>1
      <4> QED
        BY <1>10, <2>1, <3>1, <4>1
    <3>2. CASE ~(x + d <= n)
      <4>1. x + d = n + 1 /\ x + b > n
        BY <2>2, <3>2
      <4>2. d = g
        BY <1>7, <2>1, <4>1
      <4> QED
        BY <1>8, <1>10, <4>1, <4>2
    <3> QED
      BY <3>1, <3>2
  <2>3. x + b > n + 1 => w - 1 = x + b - (n + 1)
    BY <2>1
  <2> QED
    BY <2>2, <2>3
<1>15. Owing(o2, n + 1, r.owed)
  <2>1. f \in 1..(n + 1) /\ OpenedAt(o2, f) /\ f + b = n + 1 + (w - 1)
    BY <1>6, <1>11
  <2> QED
    BY <1>3, <1>4, <1>5, <2>1 DEF Owing
<1>16. InBlocks(o2, n + 1)
  <2> SUFFICES ASSUME NEW p \in 1..(n + 1), o2[p].by # "model"
               PROVE  \E x \in 1..(n + 1) : OpenedAt(o2, x) /\ p - x \in 1..b
    BY <1>4 DEF InBlocks
  <2>1. CASE p = n + 1
    <3>1. f \in 1..(n + 1) /\ OpenedAt(o2, f) /\ p - f \in 1..b
      BY <1>6, <1>7, <1>11, <2>1
    <3> QED
      BY <3>1
  <2>2. CASE p # n + 1
    <3>1. p \in 1..n /\ o[p].by # "model"
      BY <1>10, <2>2
    <3>2. PICK x \in 1..n : OpenedAt(o, x) /\ p - x \in 1..b
      BY <1>1, <1>4, <3>1 DEF LaidOut, InBlocks
    <3>3. x \in 1..(n + 1) /\ OpenedAt(o2, x)
      BY <1>11, <3>2
    <3> QED
      BY <3>2, <3>3
  <2> QED
    BY <2>1, <2>2
<1>17. OpenSampled(o2, n + 1)
  <2> SUFFICES ASSUME LiteralsApart, NEW j \in 1..(n + 1), NEW x \in 1..l,
                      j + x - 1 <= n + 1, Spelled(o2, j, x)
               PROVE  o2[j + x - 1].by = "model"
    BY <1>4 DEF OpenSampled
  <2>1. CASE j + x - 1 = n + 1
    <3>1. e.tok = OpenIds[x]
      <4>1. x \in 1..x
        OBVIOUS
      <4> QED
        BY <1>10, <2>1, <4>1 DEF Spelled
    <3>2. OpenIds[x] \in Range(OpenIds)
      BY <1>4 DEF Range
    <3>3. g > k
      <4>1. g <= k => e.tok = Sentinel
        BY <1>4, <1>8 DEF IsPiece
      <4> QED
        BY <3>1, <3>2, <4>1 DEF LiteralsApart
    <3>4. x # 1
      BY <1>4, <1>8, <3>1, <3>3, PieceIsNotSampled DEF LiteralsApart
    <3>5. /\ j \in 1..n /\ x - 1 \in 1..l /\ j + (x - 1) - 1 = n /\ n \in 1..n
          /\ g - 1 \in 1..b /\ f + (g - 1) = n
      BY <1>4, <1>7, <2>1, <3>3, <3>4
    <3>6. Spelled(o2, j, x - 1)
      <4>1. 1..(x - 1) \subseteq 1..x
        BY <3>5
      <4> QED
        BY <4>1 DEF Spelled
    <3>7. Spelled(o, j, x - 1)
      BY <1>4, <1>11, <3>5, <3>6
    <3>8. o[n].by = "model"
      <4>1. OpenSampled(o, n)
        BY <1>1 DEF LaidOut
      <4>2. \A y \in 1..l : (j + y - 1 <= n /\ Spelled(o, j, y)) => o[j + y - 1].by = "model"
        BY <1>4, <3>5, <4>1 DEF OpenSampled
      <4>3. PICK y \in 1..l : y = x - 1
        BY <3>5
      <4>4. o[j + y - 1].by = "model"
        BY <3>5, <3>7, <4>2, <4>3
      <4> QED
        BY <3>5, <4>3, <4>4
    <3>9. IsPiece(o[n], g - 1)
      <4>1. Followed(o, n, s.owed)
        BY <1>1 DEF LaidOut
      <4>2. IsPiece(o[f + (g - 1)], g - 1)
        BY <1>4, <1>6, <3>5, <4>1 DEF Followed
      <4> QED
        BY <3>5, <4>2
    <3>10. o[n].by # "model"
      BY <1>4, <3>5, <3>9, PieceIsNotSampled
    <3> QED
      BY <3>8, <3>10
  <2>2. CASE j + x - 1 # n + 1
    <3>1. j \in 1..n /\ j + x - 1 <= n /\ j + x - 1 \in 1..n
      BY <2>2
    <3>2. Spelled(o, j, x)
      BY <1>4, <1>11, <3>1
    <3>3. o[j + x - 1].by = "model"
      BY <1>1, <1>4, <3>1, <3>2 DEF LaidOut, OpenSampled
    <3> QED
      BY <1>10, <3>1, <3>3
  <2> QED
    BY <2>1, <2>2
<1>18. StopsLast(o2, n + 1)
  BY <1>1, <1>9, StopsStay DEF LaidOut
<1> QED
  BY <1>1, <1>14, <1>15, <1>16, <1>17, <1>18 DEF LaidOut

LEMMA TurnsLaidOut ==
  ASSUME NEW s \in Turns
  PROVE  LaidOut(s, Len(s.out))
<1> DEFINE T == {n \in Nat : n <= MaxTurnLen => \A x \in Partial[n] : LaidOut(x, n)}
<1>1. 0 \in T
  <2> SUFFICES ASSUME NEW x \in First PROVE LaidOut(x, 0)
    BY PartialIs
  <2>1. x.owed = 0
    BY DEF First
  <2> QED
    BY <2>1 DEF LaidOut, Followed, Owing, InBlocks, OpenSampled, StopsLast
<1>2. ASSUME NEW n \in Nat, n \in T PROVE n + 1 \in T
  <2> SUFFICES ASSUME n + 1 <= MaxTurnLen, NEW x \in Partial[n + 1] PROVE LaidOut(x, n + 1)
    OBVIOUS
  <2>1. n <= MaxTurnLen
    BY AgentAssumption
  <2>2. \A y \in Partial[n] : Sound(y, n) /\ LaidOut(y, n)
    BY <1>2, <2>1, PartialSound
  <2>3. CASE \E y \in Partial[n] : ~Stops(y.out) /\ y.owed > 0 /\ x = Reason(y)
    BY <2>2, <2>3, ReasonLaidOut
  <2>4. CASE \E y \in Partial[n] :
               ~Stops(y.out) /\ y.owed = 0 /\ \E t \in ModelTokens : x = Speak(y, t)
    BY <2>2, <2>4, SpeakLaidOut
  <2> QED
    BY <2>3, <2>4, NextPartial
<1>3. Nat \subseteq T
  <2> HIDE DEF T
  <2> QED
    BY <1>1, <1>2, NatSet
<1>4. Len(s.out) \in Nat /\ Len(s.out) <= MaxTurnLen /\ s \in Partial[Len(s.out)]
  BY TurnsSound, AgentAssumption
<1> QED
  BY <1>3, <1>4

-----------------------------------------------------------------------------
(* What the actor finds in the tokens of a rollout *)

\* The tokens up to e are those of the open literal.
LiteralAt(i, e) ==
  e >= OpenLen /\ \A x \in 1..OpenLen : i[e - OpenLen + x].tok = OpenIds[x]

\* p is one of the K tokens of a pattern that ends before q.
FoundBefore(i, p, q) ==
  \E e \in Nat :
    /\ LiteralAt(i, e) /\ p - e \in 1..K /\ e + BlockLen < q
    /\ \A y \in 1..Len(CloseIds) : i[e + K + y].tok = CloseIds[y]

\* Of i, n tokens long: behind what looks like an open literal are spliced sentinels, and
\* the block of a sentinel is found before the model goes on.
Context(i, n) ==
  /\ \A e \in 1..n : LiteralAt(i, e) =>
       \A d \in 1..K : e + d <= n => i[e + d].by = "latent"
  /\ \A p, q \in 1..n :
       (p < q /\ i[p].by = "latent" /\ i[q].by = "model") => FoundBefore(i, p, q)

\* Nothing is pending at the end of i: no literal that more tokens could complete, no
\* block that is still to come or to be closed.
Closed(i, n) ==
  /\ \A j \in 1..n : j + OpenLen - 1 > n =>
       \E y \in 1..OpenLen : j + y - 1 <= n /\ i[j + y - 1].tok # OpenIds[y]
  /\ \A e \in 1..n : LiteralAt(i, e) => e + K <= n
  /\ \A p \in 1..n : i[p].by = "latent" => FoundBefore(i, p, n + 1)

LEMMA Lengths ==
  \E b, l, c, k \in Nat \ {0} :
    /\ b = BlockLen /\ l = OpenLen /\ c = Len(CloseIds) /\ k = K /\ b = k + c
    /\ DOMAIN CloseIds = 1..c /\ DOMAIN OpenIds = 1..l
  BY OpenLenIs, CloseLen

\* What is found in a part of the tokens is found in the whole of them.
LEMMA FoundIn ==
  ASSUME NEW m \in Nat, NEW n \in Nat, NEW i, NEW i2, \A x \in 1..n : i2[m + x].tok = i[x].tok,
         NEW p \in 1..n, NEW q \in 1..(n + 1), FoundBefore(i, p, q)
  PROVE  \A r \in Nat : r >= m + q => FoundBefore(i2, m + p, r)
<1>1. PICK b \in Nat \ {0}, l \in Nat \ {0}, c \in Nat \ {0}, k \in Nat \ {0} :
        /\ b = BlockLen /\ l = OpenLen /\ c = Len(CloseIds) /\ k = K /\ b = k + c
  BY Lengths
<1>2. PICK e \in Nat :
        /\ LiteralAt(i, e) /\ p - e \in 1..k /\ e + b < q
        /\ \A y \in 1..c : i[e + k + y].tok = CloseIds[y]
  BY <1>1 DEF FoundBefore
<1> SUFFICES ASSUME NEW r \in Nat, r >= m + q PROVE FoundBefore(i2, m + p, r)
  OBVIOUS
<1>3. LiteralAt(i2, m + e)
  <2>1. e >= l /\ \A x \in 1..l : i[e - l + x].tok = OpenIds[x]
    BY <1>1, <1>2 DEF LiteralAt
  <2>2. PICK f \in Nat : f = m + e
    OBVIOUS
  <2>3. ASSUME NEW x \in 1..l PROVE i2[f - l + x].tok = OpenIds[x]
    <3>1. e - l + x \in 1..n /\ f - l + x = m + (e - l + x)
      BY <1>2, <2>1, <2>2
    <3> QED
      BY <2>1, <3>1
  <2>4. f >= l
    BY <2>1, <2>2
  <2>5. LiteralAt(i2, f)
    BY <1>1, <2>3, <2>4 DEF LiteralAt
  <2> QED
    BY <2>2, <2>5
<1>4. ASSUME NEW y \in 1..c PROVE i2[m + e + k + y].tok = CloseIds[y]
  <2>1. b = k + c /\ e + b < q
    BY <1>1, <1>2
  <2>2. e + k + y \in 1..n /\ m + e + k + y = m + (e + k + y)
    BY <2>1
  <2> QED
    BY <1>2, <2>2
<1>5. m + e \in Nat /\ m + p - (m + e) \in 1..k /\ m + e + b < r
  BY <1>2
<1> QED
  BY <1>1, <1>3, <1>4, <1>5 DEF FoundBefore

LEMMA FoundLater ==
  ASSUME NEW n \in Nat, NEW i, NEW i2, \A x \in 1..n : i2[x].tok = i[x].tok,
         NEW p \in 1..n, NEW q \in 1..(n + 1), FoundBefore(i, p, q)
  PROVE  \A r \in Nat : r >= q => FoundBefore(i2, p, r)
<1>1. \A x \in 1..n : i2[0 + x].tok = i[x].tok
  OBVIOUS
<1>2. \A r \in Nat : r >= 0 + q => FoundBefore(i2, 0 + p, r)
  BY <1>1, FoundIn
<1>3. 0 + q = q /\ 0 + p = p
  OBVIOUS
<1> QED
  BY <1>2, <1>3

\* Behind a closed part nothing of it is found anew.
LEMMA LiteralsJoined ==
  ASSUME NEW n \in Nat, NEW m \in Nat, NEW a, NEW b, NEW c, Closed(a, n),
         \A x \in 1..n : c[x] = a[x], \A x \in 1..m : c[n + x] = b[x],
         NEW e \in 1..(n + m), LiteralAt(c, e)
  PROVE  \/ e \in 1..n /\ LiteralAt(a, e)
         \/ e - n \in 1..m /\ LiteralAt(b, e - n)
<1>1. PICK l \in Nat \ {0} : l = OpenLen
  BY OpenLenIs
<1>2. e >= l /\ \A x \in 1..l : c[e - l + x].tok = OpenIds[x]
  BY <1>1 DEF LiteralAt
<1>3. CASE e <= n
  <2>1. ASSUME NEW x \in 1..l PROVE a[e - l + x].tok = OpenIds[x]
    <3>1. e - l + x \in 1..n
      BY <1>2, <1>3
    <3> QED
      BY <1>2, <3>1
  <2> QED
    BY <1>1, <1>2, <1>3, <2>1 DEF LiteralAt
<1>4. CASE e - l >= n
  <2>1. ASSUME NEW x \in 1..l PROVE b[e - n - l + x].tok = OpenIds[x]
    <3>1. e - n - l + x \in 1..m /\ n + (e - n - l + x) = e - l + x
      BY <1>4
    <3>2. c[e - l + x] = b[e - n - l + x]
      BY <3>1
    <3> QED
      BY <1>2, <3>2
  <2>2. e - n \in 1..m /\ e - n >= l
    BY <1>4
  <2> QED
    BY <1>1, <2>1, <2>2 DEF LiteralAt
<1>5. CASE e > n /\ e - l < n
  <2>1. PICK j \in 1..n : j = e - l + 1
    BY <1>2, <1>5
  <2>2. j + l - 1 > n
    BY <1>5, <2>1
  <2>3. PICK y \in 1..l : j + y - 1 <= n /\ a[j + y - 1].tok # OpenIds[y]
    BY <1>1, <2>2 DEF Closed
  <2>4. j + y - 1 \in 1..n /\ j + y - 1 = e - l + y
    BY <2>1, <2>3
  <2>5. c[e - l + y] = a[j + y - 1]
    BY <2>4
  <2> QED
    BY <1>2, <2>3, <2>5
<1> QED
  BY <1>3, <1>4, <1>5

LEMMA ContextJoined ==
  ASSUME NEW n \in Nat, NEW m \in Nat, NEW a, NEW b, NEW c,
         Context(a, n), Closed(a, n), Context(b, m),
         \A x \in 1..n : c[x] = a[x], \A x \in 1..m : c[n + x] = b[x]
  PROVE  Context(c, n + m) /\ (Closed(b, m) => Closed(c, n + m))
<1>1. PICK l \in Nat \ {0}, k \in Nat \ {0} : l = OpenLen /\ k = K
  BY Lengths
<1>2. \A x \in 1..(n + m) : x \in 1..n \/ x - n \in 1..m
  OBVIOUS
<1>3. \A x \in 1..(n + m) : x - n \in 1..m => c[x] = b[x - n]
  <2> SUFFICES ASSUME NEW x \in 1..(n + m), x - n \in 1..m PROVE c[x] = b[x - n]
    OBVIOUS
  <2>1. n + (x - n) = x
    OBVIOUS
  <2> QED
    BY <2>1
<1>4. ASSUME NEW e \in 1..(n + m), LiteralAt(c, e), NEW d \in 1..k, e + d <= n + m
      PROVE  c[e + d].by = "latent"
  <2>1. CASE e \in 1..n /\ LiteralAt(a, e)
    <3>1. e + k <= n
      BY <1>1, <2>1 DEF Closed
    <3>2. e + d \in 1..n /\ e + d <= n
      BY <3>1
    <3>3. a[e + d].by = "latent"
      BY <1>1, <2>1, <3>2 DEF Context
    <3> QED
      BY <3>2, <3>3
  <2>2. CASE e - n \in 1..m /\ LiteralAt(b, e - n)
    <3>1. e + d \in 1..(n + m) /\ e + d - n \in 1..m /\ e - n + d = e + d - n
      BY <1>4, <2>2
    <3>2. PICK f \in 1..m : f = e - n
      BY <2>2
    <3>3. f + d <= m /\ f + d = e + d - n
      BY <3>1, <3>2
    <3>4. b[f + d].by = "latent"
      BY <1>1, <2>2, <3>2, <3>3 DEF Context
    <3> QED
      BY <1>3, <3>1, <3>3, <3>4
  <2> QED
    BY <1>4, <2>1, <2>2, LiteralsJoined
<1>5. ASSUME NEW p \in 1..(n + m), NEW q \in 1..(n + m),
             p < q, c[p].by = "latent", c[q].by = "model"
      PROVE  FoundBefore(c, p, q)
  <2>1. CASE p \in 1..n
    <3>1. a[p].by = "latent"
      BY <1>5, <2>1
    <3>2. CASE q \in 1..n
      <4>1. FoundBefore(a, p, q)
        BY <1>5, <2>1, <3>1, <3>2 DEF Context
      <4>2. q \in 1..(n + 1) /\ q >= q /\ q \in Nat
        BY <3>2
      <4> QED
        BY <2>1, <4>1, <4>2, FoundLater
    <3>3. CASE q \notin 1..n
      <4>1. FoundBefore(a, p, n + 1)
        BY <2>1, <3>1 DEF Closed
      <4>2. n + 1 \in 1..(n + 1) /\ q >= n + 1 /\ q \in Nat
        BY <3>3
      <4> QED
        BY <2>1, <4>1, <4>2, FoundLater
    <3> QED
      BY <3>2, <3>3
  <2>2. CASE p \notin 1..n
    <3>1. PICK g \in 1..m, h \in 1..m : g = p - n /\ h = q - n
      BY <1>2, <1>5, <2>2
    <3>2. b[g].by = "latent" /\ b[h].by = "model" /\ g < h
      BY <1>3, <1>5, <3>1
    <3>3. FoundBefore(b, g, h)
      BY <3>2 DEF Context
    <3>4. h \in 1..(m + 1) /\ q >= n + h /\ n + g = p /\ q \in Nat
      BY <3>1
    <3> QED
      BY <3>3, <3>4, FoundIn
  <2> QED
    BY <2>1, <2>2
<1>6. Context(c, n + m)
  BY <1>1, <1>4, <1>5 DEF Context
<1>7. ASSUME Closed(b, m) PROVE Closed(c, n + m)
  <2>1. ASSUME NEW j \in 1..(n + m), j + l - 1 > n + m
        PROVE  \E y \in 1..l : j + y - 1 <= n + m /\ c[j + y - 1].tok # OpenIds[y]
    <3>1. CASE j \in 1..n
      <4>1. j + l - 1 > n
        BY <2>1
      <4>2. PICK y \in 1..l : j + y - 1 <= n /\ a[j + y - 1].tok # OpenIds[y]
        BY <1>1, <3>1, <4>1 DEF Closed
      <4>3. j + y - 1 \in 1..n /\ j + y - 1 <= n + m
        BY <3>1, <4>2
      <4> QED
        BY <4>2, <4>3
    <3>2. CASE j - n \in 1..m
      <4>1. PICK g \in 1..m : g = j - n
        BY <3>2
      <4>2. g + l - 1 > m
        BY <2>1, <4>1
      <4>3. PICK y \in 1..l : g + y - 1 <= m /\ b[g + y - 1].tok # OpenIds[y]
        BY <1>1, <1>7, <4>2 DEF Closed
      <4>4. /\ j + y - 1 <= n + m /\ j + y - 1 \in 1..(n + m)
            /\ j + y - 1 - n = g + y - 1 /\ g + y - 1 \in 1..m
        BY <4>1, <4>3
      <4>5. c[j + y - 1] = b[g + y - 1]
        BY <1>3, <4>4
      <4> QED
        BY <4>3, <4>4, <4>5
    <3> QED
      BY <1>2, <3>1, <3>2
  <2>2. ASSUME NEW e \in 1..(n + m), LiteralAt(c, e) PROVE e + k <= n + m
    <3>1. CASE e \in 1..n /\ LiteralAt(a, e)
      <4>1. e + k <= n
        BY <1>1, <3>1 DEF Closed
      <4> QED
        BY <4>1
    <3>2. CASE e - n \in 1..m /\ LiteralAt(b, e - n)
      <4>1. PICK f \in 1..m : f = e - n
        BY <3>2
      <4>2. f + k <= m
        BY <1>1, <1>7, <3>2, <4>1 DEF Closed
      <4> QED
        BY <4>1, <4>2
    <3> QED
      BY <2>2, <3>1, <3>2, LiteralsJoined
  <2>3. ASSUME NEW p \in 1..(n + m), c[p].by = "latent"
        PROVE  FoundBefore(c, p, n + m + 1)
    <3>1. CASE p \in 1..n
      <4>1. FoundBefore(a, p, n + 1)
        BY <2>3, <3>1 DEF Closed
      <4>2. PICK q \in 1..(n + 1) : q = n + 1
        OBVIOUS
      <4>3. FoundBefore(a, p, q)
        BY <4>1, <4>2
      <4>4. \A r \in Nat : r >= q => FoundBefore(c, p, r)
        BY <3>1, <4>3, FoundLater
      <4>5. n + m + 1 \in Nat /\ n + m + 1 >= q
        BY <4>2
      <4> QED
        BY <4>4, <4>5
    <3>2. CASE p - n \in 1..m
      <4>1. PICK g \in 1..m : g = p - n
        BY <3>2
      <4>2. FoundBefore(b, g, m + 1)
        BY <1>3, <1>7, <2>3, <4>1 DEF Closed
      <4>3. m + 1 \in 1..(m + 1) /\ n + m + 1 >= n + (m + 1) /\ n + g = p /\ n + m + 1 \in Nat
        BY <4>1
      <4> QED
        BY <4>2, <4>3, FoundIn
    <3> QED
      BY <1>2, <3>1, <3>2
  <2> QED
    BY <1>1, <2>1, <2>2, <2>3 DEF Closed
<1> QED
  BY <1>6, <1>7

\* Tokens and speakers alone decide.
LEMMA LiteralOfAlike ==
  ASSUME NEW n \in Nat, NEW o, NEW w, \A x \in 1..n : w[x].tok = o[x].tok,
         NEW e \in 1..n, LiteralAt(w, e)
  PROVE  LiteralAt(o, e)
<1>1. PICK l \in Nat \ {0} : l = OpenLen
  BY Lengths
<1>2. ASSUME NEW x \in 1..l, e >= l PROVE o[e - l + x].tok = w[e - l + x].tok
  <2>1. e - l + x \in 1..n
    BY <1>2
  <2> QED
    BY <2>1
<1> QED
  BY <1>1, <1>2 DEF LiteralAt

\* The first tokens of a context are one.
LEMMA ContextOfPart ==
  ASSUME NEW n \in Nat, NEW m \in Nat, m <= n, NEW o, NEW w, Context(o, n),
         \A x \in 1..m : w[x].tok = o[x].tok /\ w[x].by = o[x].by
  PROVE  Context(w, m)
<1>1. PICK k \in Nat \ {0} : k = K
  BY Lengths
<1>2. ASSUME NEW e \in 1..m, LiteralAt(w, e), NEW d \in 1..k, e + d <= m
      PROVE  w[e + d].by = "latent"
  <2>1. LiteralAt(o, e) /\ e \in 1..n /\ e + d <= n
    BY <1>2, LiteralOfAlike
  <2>2. o[e + d].by = "latent"
    BY <1>1, <2>1 DEF Context
  <2>3. e + d \in 1..m
    BY <1>2
  <2> QED
    BY <2>2, <2>3
<1>3. ASSUME NEW p \in 1..m, NEW q \in 1..m, p < q, w[p].by = "latent", w[q].by = "model"
      PROVE  FoundBefore(w, p, q)
  <2>1. p \in 1..n /\ q \in 1..n
    OBVIOUS
  <2>2. FoundBefore(o, p, q)
    BY <1>3, <2>1 DEF Context
  <2>3. q \in 1..(m + 1) /\ q \in Nat /\ q >= q
    OBVIOUS
  <2> QED
    BY <2>2, <2>3, FoundLater
<1> QED
  BY <1>1, <1>2, <1>3 DEF Context

LEMMA ContextOfAlike ==
  ASSUME NEW n \in Nat, NEW o, NEW w, Context(o, n),
         \A x \in 1..n : w[x].tok = o[x].tok /\ w[x].by = o[x].by
  PROVE  Context(w, n) /\ (Closed(o, n) => Closed(w, n))
<1>1. PICK l \in Nat \ {0}, k \in Nat \ {0} : l = OpenLen /\ k = K
  BY Lengths
<1>2. ASSUME NEW e \in 1..n, LiteralAt(w, e) PROVE LiteralAt(o, e)
  BY <1>2, LiteralOfAlike
<1>3. Context(w, n)
  BY ContextOfPart
<1>4. ASSUME Closed(o, n) PROVE Closed(w, n)
  <2>1. ASSUME NEW j \in 1..n, j + l - 1 > n
        PROVE  \E y \in 1..l : j + y - 1 <= n /\ w[j + y - 1].tok # OpenIds[y]
    <3>1. PICK y \in 1..l : j + y - 1 <= n /\ o[j + y - 1].tok # OpenIds[y]
      BY <1>1, <1>4, <2>1 DEF Closed
    <3>2. j + y - 1 \in 1..n
      BY <3>1
    <3> QED
      BY <3>1, <3>2
  <2>2. ASSUME NEW e \in 1..n, LiteralAt(w, e) PROVE e + k <= n
    BY <1>1, <1>2, <1>4, <2>2 DEF Closed
  <2>3. ASSUME NEW p \in 1..n, w[p].by = "latent" PROVE FoundBefore(w, p, n + 1)
    <3>1. PICK q \in 1..(n + 1) : q = n + 1
      OBVIOUS
    <3>2. FoundBefore(o, p, q)
      BY <1>4, <2>3, <3>1 DEF Closed
    <3>3. \A r \in Nat : r >= q => FoundBefore(w, p, r)
      BY <3>2, FoundLater
    <3> QED
      BY <3>1, <3>3
  <2> QED
    BY <1>1, <2>1, <2>2, <2>3 DEF Closed
<1> QED
  BY <1>3, <1>4

\* In an output, the model itself wrote what looks like an open literal.
LEMMA LiteralOpened ==
  ASSUME LiteralsApart, NEW n \in Nat, NEW o, OpenSampled(o, n),
         NEW e \in 1..n, LiteralAt(o, e)
  PROVE  OpenedAt(o, e)
<1>1. PICK l \in Nat \ {0} : l = OpenLen
  BY Lengths
<1>2. e >= l /\ \A x \in 1..l : o[e - l + x].tok = OpenIds[x]
  BY <1>1 DEF LiteralAt
<1>3. PICK j \in 1..n : j = e - l + 1
  BY <1>2
<1>4. ASSUME NEW x \in 1..l PROVE o[e - l + x].by = "model"
  <2>1. ASSUME NEW y \in 1..x PROVE o[j + y - 1].tok = OpenIds[y]
    <3>1. y \in 1..l /\ j + y - 1 = e - l + y
      BY <1>3
    <3> QED
      BY <1>2, <3>1
  <2>2. Spelled(o, j, x)
    BY <2>1 DEF Spelled
  <2>3. j + x - 1 <= n /\ j + x - 1 = e - l + x
    BY <1>3
  <2>4. o[j + x - 1].by = "model"
    BY <1>1, <2>2, <2>3 DEF OpenSampled
  <2> QED
    BY <2>3, <2>4
<1> QED
  BY <1>1, <1>2, <1>4 DEF OpenedAt

LEMMA BlockFound ==
  ASSUME NEW n \in Nat, NEW o, NEW owed, Followed(o, n, owed), NEW e \in 1..n, OpenedAt(o, e),
         NEW p \in 1..n, p - e \in 1..K, NEW q \in 1..(n + 1), e + BlockLen < q
  PROVE  FoundBefore(o, p, q)
<1>1. PICK b \in Nat \ {0}, l \in Nat \ {0}, c \in Nat \ {0}, k \in Nat \ {0} :
        /\ b = BlockLen /\ l = OpenLen /\ c = Len(CloseIds) /\ k = K /\ b = k + c
  BY Lengths
<1>2. LiteralAt(o, e)
  BY DEF OpenedAt, LiteralAt
<1>3. ASSUME NEW y \in 1..c PROVE o[e + k + y].tok = CloseIds[y]
  <2>1. PICK d \in 1..b : d = k + y
    BY <1>1
  <2>2. e + d <= n /\ d > k /\ d - k = y /\ e + d = e + k + y
    BY <1>1, <2>1
  <2>3. IsPiece(o[e + d], d)
    BY <1>1, <2>2 DEF Followed
  <2>4. o[e + d].tok = CloseIds[d - k]
    BY <1>1, <2>2, <2>3 DEF IsPiece
  <2> QED
    BY <2>2, <2>4
<1>4. e \in Nat
  OBVIOUS
<1> QED
  BY <1>1, <1>2, <1>3, <1>4 DEF FoundBefore

\* A turn is a context, and one that stops at a search leaves nothing pending.
LEMMA TurnContext ==
  ASSUME LiteralsApart, NEW s \in Turns, NEW n \in Nat, n = Len(s.out)
  PROVE  Context(s.out, n) /\ (s.out[n].tok = Search => Closed(s.out, n))
<1>1. PICK b \in Nat \ {0}, l \in Nat \ {0}, c \in Nat \ {0}, k \in Nat \ {0} :
        /\ b = BlockLen /\ l = OpenLen /\ c = Len(CloseIds) /\ k = K /\ b = k + c
        /\ DOMAIN OpenIds = 1..l
  BY Lengths
<1>2. PICK o, owed : o = s.out /\ owed = s.owed
  OBVIOUS
<1>3. Followed(o, n, owed) /\ InBlocks(o, n) /\ OpenSampled(o, n)
  BY <1>2, TurnsLaidOut DEF LaidOut
<1>4. ASSUME NEW e \in 1..n, NEW d \in 1..b, OpenedAt(o, e), e + d <= n
      PROVE  /\ IsPiece(o[e + d], d) /\ o[e + d].by # "model"
             /\ o[e + d].by = "latent" => d <= k
             /\ o[e + d].tok \in {Sentinel} \cup Range(CloseIds)
  <2>1. IsPiece(o[e + d], d)
    BY <1>1, <1>3, <1>4 DEF Followed
  <2>2. PICK r : r = o[e + d]
    OBVIOUS
  <2>3. r.by # "model" /\ (r.by = "latent" => d <= k) /\ (d > k => r.tok \in Range(CloseIds))
    BY <1>1, <2>1, <2>2, PieceIsNotSampled
  <2>4. d <= k => r.tok = Sentinel
    BY <1>1, <2>1, <2>2 DEF IsPiece
  <2> QED
    BY <2>1, <2>2, <2>3, <2>4
<1>5. ASSUME NEW p \in 1..n, o[p].by = "latent"
      PROVE  \E e \in 1..n : OpenedAt(o, e) /\ p - e \in 1..k
  <2>1. PICK e \in 1..n : OpenedAt(o, e) /\ p - e \in 1..b
    BY <1>1, <1>3, <1>5 DEF InBlocks
  <2>2. PICK d \in 1..b : d = p - e /\ e + d = p
    BY <2>1
  <2>3. o[e + d].by = "latent" /\ e + d <= n
    BY <1>5, <2>2
  <2>4. d <= k
    BY <1>4, <2>1, <2>3
  <2> QED
    BY <2>1, <2>2, <2>4
<1>6. ASSUME NEW e \in 1..n, LiteralAt(o, e) PROVE OpenedAt(o, e)
  BY <1>3, <1>6, LiteralOpened
<1>7. ASSUME NEW e \in 1..n, LiteralAt(o, e), NEW d \in 1..k, e + d <= n
      PROVE  o[e + d].by = "latent"
  <2>1. OpenedAt(o, e) /\ d \in 1..b
    BY <1>1, <1>6, <1>7
  <2>2. IsPiece(o[e + d], d)
    BY <1>4, <1>7, <2>1
  <2> QED
    BY <1>1, <2>2 DEF IsPiece
<1>8. ASSUME NEW p \in 1..n, NEW q \in 1..n, p < q, o[p].by = "latent", o[q].by = "model"
      PROVE  FoundBefore(o, p, q)
  <2>1. PICK e \in 1..n : OpenedAt(o, e) /\ p - e \in 1..k
    BY <1>5, <1>8
  <2>2. ASSUME q <= e + b PROVE FALSE
    <3>1. PICK d \in 1..b : d = q - e /\ e + d = q
      BY <1>8, <2>1, <2>2
    <3> QED
      BY <1>4, <1>8, <2>1, <3>1
  <2>3. e + b < q /\ q \in 1..(n + 1)
    BY <2>2
  <2> QED
    BY <1>1, <1>3, <2>1, <2>3, BlockFound
<1>9. Context(o, n)
  BY <1>1, <1>7, <1>8 DEF Context
<1>10. ASSUME o[n].tok = Search PROVE Closed(o, n)
  <2>1. /\ Search # Sentinel /\ Search \notin Range(CloseIds)
        /\ \A y \in 1..l : OpenIds[y] # Search
    BY <1>1 DEF LiteralsApart, Range
  <2>2. ASSUME NEW j \in 1..n, j + l - 1 > n
        PROVE  \E y \in 1..l : j + y - 1 <= n /\ o[j + y - 1].tok # OpenIds[y]
    <3>1. PICK y \in 1..l : y = n - j + 1 /\ j + y - 1 = n
      BY <2>2
    <3>2. o[j + y - 1].tok # OpenIds[y]
      BY <1>10, <2>1, <3>1
    <3> QED
      BY <3>1, <3>2
  <2>3. ASSUME NEW e \in 1..n, OpenedAt(o, e), NEW h \in 1..b, ~(e + h <= n) PROVE FALSE
    <3>1. CASE e = n
      <4>1. o[e - l + l].tok = OpenIds[l] /\ l \in 1..l /\ e - l + l = n
        BY <1>1, <2>3, <3>1 DEF OpenedAt
      <4> QED
        BY <1>10, <2>1, <4>1
    <3>2. CASE e # n
      <4>1. PICK d \in 1..b : d = n - e /\ e + d = n
        BY <2>3, <3>2
      <4>2. e + d <= n
        BY <4>1
      <4>3. o[e + d].tok \in {Sentinel} \cup Range(CloseIds)
        BY <1>4, <2>3, <4>2
      <4> QED
        BY <1>10, <2>1, <4>1, <4>3
    <3> QED
      BY <3>1, <3>2
  <2>4. ASSUME NEW e \in 1..n, LiteralAt(o, e) PROVE e + k <= n
    <3>1. k \in 1..b
      BY <1>1
    <3> QED
      BY <1>6, <2>3, <2>4, <3>1
  <2>5. ASSUME NEW p \in 1..n, o[p].by = "latent" PROVE FoundBefore(o, p, n + 1)
    <3>1. PICK e \in 1..n : OpenedAt(o, e) /\ p - e \in 1..k
      BY <1>5, <2>5
    <3>2. b \in 1..b
      OBVIOUS
    <3>3. PICK q \in 1..(n + 1) : q = n + 1
      OBVIOUS
    <3>4. e + b < q
      BY <2>3, <3>1, <3>2, <3>3
    <3>5. FoundBefore(o, p, q)
      BY <1>1, <1>3, <3>1, <3>4, BlockFound
    <3> QED
      BY <3>3, <3>5
  <2> QED
    BY <1>1, <2>2, <2>4, <2>5 DEF Closed
<1> QED
  BY <1>2, <1>9, <1>10

-----------------------------------------------------------------------------
(* The rollout *)

Entry == [tok : Token \cup InfoTokens, by : {"model", "latent", "close", "retrieval"},
          z : Nat \X Nat]

LossFits(i, m) == \A p \in DOMAIN i : m[p] = 1 => i[p].by \notin {"latent", "retrieval"}
PairsFit(i, zs) ==
  \A p \in zs : p[1] \in DOMAIN i /\ i[p[1]].by = "latent" /\ i[p[1]].z = p[2]

Shape ==
  /\ pc \in {"loop", "generating", "harvest", "retrieving", "done"}
  /\ turn \in 0..MaxTurns /\ (pc \in {"generating", "harvest", "retrieving"} => turn # 0)
  /\ DOMAIN zfile = 1..MaxTurns
  /\ ids \in Seq(Entry) /\ mask \in Seq({0, 1}) /\ Len(mask) = Len(ids)

\* A reply that is to be harvested is an output of the engine, and its file has the
\* first of its z's.
ToHarvest ==
  pc = "harvest" =>
    /\ reply \in Seq(Said) /\ LatentIsBullet(reply)
    /\ BulletsAreSpliced => Numbered(reply)
    /\ zfile[turn] \in Seq(Nat \X Nat)
    /\ \A j \in DOMAIN zfile[turn] : zfile[turn][j] = <<turn, j>>

\* Until the response is cut, cur_prompt is its copy, and every pair lies in it.
Growing ==
  pc # "done" =>
    /\ curPrompt = ids /\ dense = {}
    /\ BulletsAreSpliced => PairsFit(ids, pairs)

IInv ==
  /\ Shape /\ ToHarvest /\ Growing
  /\ LossFits(ids, mask) /\ (BulletsAreSpliced => PairsFit(ids, dense))

\* c is a with b behind it.
Joined(a, b, c, S) ==
  /\ c \in Seq(S) /\ Len(c) = Len(a) + Len(b)
  /\ DOMAIN a = 1..Len(a) /\ DOMAIN b = 1..Len(b) /\ DOMAIN c = 1..Len(c)
  /\ Len(a) \in Nat /\ Len(b) \in Nat /\ Len(c) \in Nat
  /\ \A i \in 1..Len(a) : c[i] = a[i]
  /\ \A j \in 1..Len(b) : c[Len(a) + j] = b[j]

LEMMA ConcatIs ==
  ASSUME NEW S, NEW a \in Seq(S), NEW b \in Seq(S)
  PROVE  Joined(a, b, a \o b, S)
<1>1. PICK c : c = a \o b
  OBVIOUS
<1>2. /\ c \in Seq(S) /\ Len(c) = Len(a) + Len(b)
      /\ \A i \in 1..(Len(a) + Len(b)) : c[i] = IF i <= Len(a) THEN a[i] ELSE b[i - Len(a)]
  <2>1. /\ a \o b \in Seq(S) /\ Len(a \o b) = Len(a) + Len(b)
        /\ \A i \in 1..(Len(a) + Len(b)) :
             (a \o b)[i] = IF i <= Len(a) THEN a[i] ELSE b[i - Len(a)]
    BY ConcatProperties, Zenon
  <2> QED
    BY <1>1, <2>1, Zenon
<1>3. PICK n \in Nat, m \in Nat : n = Len(a) /\ m = Len(b)
  BY LenProperties
<1>4. ASSUME NEW i \in 1..n PROVE c[i] = a[i]
  <2>1. i \in 1..(n + m) /\ i <= n
    OBVIOUS
  <2> QED
    BY <1>2, <1>3, <2>1
<1>5. ASSUME NEW j \in 1..m PROVE c[n + j] = b[j]
  <2>1. n + j \in 1..(n + m) /\ ~(n + j <= n) /\ n + j - n = j
    OBVIOUS
  <2> QED
    BY <1>2, <1>3, <2>1
<1>6. /\ DOMAIN a = 1..Len(a) /\ DOMAIN b = 1..Len(b) /\ DOMAIN c = 1..Len(c)
      /\ Len(c) \in Nat
  BY <1>2, LenProperties
<1> QED
  BY <1>1, <1>2, <1>3, <1>4, <1>5, <1>6 DEF Joined

LEMMA ColumnIs ==
  ASSUME NEW S, NEW x \in S, NEW n \in Nat
  PROVE  /\ Column(n, x) \in Seq(S) /\ Len(Column(n, x)) = n
         /\ \A i \in 1..n : Column(n, x)[i] = x
<1>1. Column(n, x) \in [1..n -> S] /\ \A i \in 1..n : Column(n, x)[i] = x
  BY DEF Column
<1> HIDE DEF Column
<1>2. Column(n, x) \in UNION {[1..l -> S] : l \in Nat}
  BY <1>1
<1> QED
  BY <1>1, <1>2, SeqDef, LenProperties

\* Extending the response and its loss mask alike.
LEMMA LossJoined ==
  ASSUME NEW i \in Seq(Entry), NEW m \in Seq({0, 1}), Len(m) = Len(i), LossFits(i, m),
         NEW i2 \in Seq(Entry), NEW m2 \in Seq({0, 1}), Len(m2) = Len(i2), LossFits(i2, m2)
  PROVE  /\ i \o i2 \in Seq(Entry) /\ m \o m2 \in Seq({0, 1})
         /\ Len(m \o m2) = Len(i \o i2) /\ LossFits(i \o i2, m \o m2)
<1>1. PICK c, d : c = i \o i2 /\ d = m \o m2
  OBVIOUS
<1>2. Joined(i, i2, c, Entry) /\ Joined(m, m2, d, {0, 1})
  BY <1>1, ConcatIs
<1>3. PICK a \in Nat, b \in Nat :
        /\ a = Len(i) /\ b = Len(i2) /\ Len(c) = a + b /\ Len(d) = a + b
        /\ DOMAIN i = 1..a /\ DOMAIN i2 = 1..b /\ DOMAIN c = 1..(a + b)
  BY <1>2 DEF Joined
<1>4. ASSUME NEW p \in 1..(a + b), d[p] = 1
      PROVE  c[p].by \notin {"latent", "retrieval"}
  <2>1. CASE p <= a
    <3>1. p \in 1..a /\ c[p] = i[p] /\ d[p] = m[p]
      BY <1>2, <1>3, <2>1 DEF Joined
    <3> QED
      BY <1>3, <1>4, <3>1 DEF LossFits
  <2>2. CASE ~(p <= a)
    <3>1. PICK q \in 1..b : p = a + q
      <4>1. p - a \in 1..b /\ p = a + (p - a)
        BY <2>2
      <4> QED
        BY <4>1
    <3>2. c[p] = i2[q] /\ d[p] = m2[q]
      BY <1>2, <1>3, <3>1 DEF Joined
    <3> QED
      BY <1>3, <1>4, <3>1, <3>2 DEF LossFits
  <2> QED
    BY <2>1, <2>2
<1>5. LossFits(c, d)
  BY <1>3, <1>4 DEF LossFits
<1>6. c \in Seq(Entry) /\ d \in Seq({0, 1})
  BY <1>2 DEF Joined
<1> QED
  BY <1>1, <1>3, <1>5, <1>6

\* Pairs of the new part, shifted by the length of the old one.
LEMMA PairsJoined ==
  ASSUME NEW i \in Seq(Entry), NEW i2 \in Seq(Entry), NEW zs, NEW more, PairsFit(i, zs),
         \A p \in more : \E q \in DOMAIN i2 :
            p[1] = Len(i) + q /\ i2[q].by = "latent" /\ i2[q].z = p[2]
  PROVE  PairsFit(i \o i2, zs \cup more)
<1>1. PICK c : c = i \o i2
  OBVIOUS
<1>2. Joined(i, i2, c, Entry)
  BY <1>1, ConcatIs
<1>3. PICK a \in Nat, b \in Nat :
        /\ a = Len(i) /\ b = Len(i2) /\ DOMAIN i = 1..a /\ DOMAIN i2 = 1..b
        /\ DOMAIN c = 1..(a + b)
  BY <1>2 DEF Joined
<1>4. ASSUME NEW p \in zs
      PROVE  p[1] \in DOMAIN c /\ c[p[1]].by = "latent" /\ c[p[1]].z = p[2]
  <2>1. PICK k \in 1..a : k = p[1] /\ i[k].by = "latent" /\ i[k].z = p[2]
    BY <1>3 DEF PairsFit
  <2>2. c[k] = i[k]
    BY <1>2, <1>3 DEF Joined
  <2>3. k \in 1..(a + b)
    OBVIOUS
  <2> QED
    BY <1>3, <2>1, <2>2, <2>3
<1>5. ASSUME NEW p \in more
      PROVE  p[1] \in DOMAIN c /\ c[p[1]].by = "latent" /\ c[p[1]].z = p[2]
  <2>1. PICK q \in 1..b : p[1] = a + q /\ i2[q].by = "latent" /\ i2[q].z = p[2]
    BY <1>3
  <2>2. c[a + q] = i2[q]
    BY <1>2, <1>3 DEF Joined
  <2>3. a + q \in 1..(a + b)
    OBVIOUS
  <2> QED
    BY <1>3, <2>1, <2>2, <2>3
<1> QED
  BY <1>1, <1>4, <1>5 DEF PairsFit

\* s up to the response length.
LEMMA CutIs ==
  ASSUME NEW S, NEW s \in Seq(S)
  PROVE  /\ Cut(s) \in Seq(S) /\ Len(Cut(s)) \in Nat /\ DOMAIN Cut(s) = 1..Len(Cut(s))
         /\ Len(Cut(s)) = IF ResponseLength < Len(s) THEN ResponseLength ELSE Len(s)
         /\ \A p \in DOMAIN Cut(s) : p \in DOMAIN s /\ Cut(s)[p] = s[p]
<1>1. PICK n \in Nat, L \in Nat : n = Len(s) /\ DOMAIN s = 1..n /\ L = ResponseLength
  BY LenProperties, AgentAssumption
<1>2. PICK l \in Nat : l = (IF L < n THEN L ELSE n) /\ l <= n
  OBVIOUS
<1>3. PICK c : c = SubSeq(s, 1, l)
  OBVIOUS
<1>4. \A p \in 1..l : p \in 1..n /\ s[p] \in S
  BY <1>1, <1>2, ElementOfSeq
<1>5. c \in Seq(S) /\ Len(c) = l /\ \A p \in 1..l : c[p] = s[p]
  BY <1>1, <1>2, <1>3, <1>4
<1>6. DOMAIN c = 1..l
  BY <1>5, LenProperties
<1>7. c = Cut(s)
  BY <1>1, <1>2, <1>3 DEF Cut
<1> QED
  BY <1>1, <1>2, <1>4, <1>5, <1>6, <1>7

\* What is returned: everything cut alike, and only the pairs that remain in it.
LEMMA ReturnFits ==
  ASSUME NEW i \in Seq(Entry), NEW m \in Seq({0, 1}), NEW l, NEW zs, Len(m) = Len(i),
         LossFits(i, m), BulletsAreSpliced => PairsFit(i, zs), Return(i, m, l, zs)
  PROVE  /\ pc' = "done" /\ ids' \in Seq(Entry) /\ mask' \in Seq({0, 1})
         /\ Len(mask') = Len(ids') /\ LossFits(ids', mask')
         /\ BulletsAreSpliced => PairsFit(ids', dense')
<1>1. PICK c, d : c = Cut(i) /\ d = Cut(m) /\ ids' = c /\ mask' = d /\ dense' = Kept(zs, i)
                  /\ pc' = "done"
  BY DEF Return
<1>2. /\ c \in Seq(Entry) /\ d \in Seq({0, 1}) /\ Len(c) \in Nat /\ Len(d) = Len(c)
      /\ DOMAIN c = 1..Len(c) /\ DOMAIN d = 1..Len(c)
      /\ \A p \in 1..Len(c) : p \in DOMAIN i /\ c[p] = i[p] /\ d[p] = m[p]
  <2>1. /\ c \in Seq(Entry) /\ Len(c) \in Nat /\ DOMAIN c = 1..Len(c)
        /\ Len(c) = IF ResponseLength < Len(i) THEN ResponseLength ELSE Len(i)
        /\ \A p \in DOMAIN c : p \in DOMAIN i /\ c[p] = i[p]
    BY <1>1, CutIs
  <2>2. /\ d \in Seq({0, 1}) /\ DOMAIN d = 1..Len(d)
        /\ Len(d) = IF ResponseLength < Len(m) THEN ResponseLength ELSE Len(m)
        /\ \A p \in DOMAIN d : d[p] = m[p]
    BY <1>1, CutIs
  <2>3. Len(d) = Len(c)
    BY <2>1, <2>2
  <2> QED
    BY <2>1, <2>2, <2>3
<1>3. LossFits(c, d)
  BY <1>2 DEF LossFits
<1>4. ASSUME BulletsAreSpliced PROVE PairsFit(c, dense')
  <2> SUFFICES ASSUME NEW p \in Kept(zs, i)
               PROVE  p[1] \in DOMAIN c /\ c[p[1]].by = "latent" /\ c[p[1]].z = p[2]
    BY <1>1 DEF PairsFit
  <2>1. p \in zs /\ p[1] <= Len(c)
    BY <1>1 DEF Kept
  <2>2. p[1] \in DOMAIN i /\ i[p[1]].by = "latent" /\ i[p[1]].z = p[2]
    BY <1>4, <2>1 DEF PairsFit
  <2>3. p[1] \in 1..Len(c)
    BY <1>2, <2>1, <2>2, LenProperties
  <2> QED
    BY <1>2, <2>2, <2>3
<1> QED
  BY <1>1, <1>2, <1>3, <1>4

LEMMA InitIInv == Init => IInv
<1> SUFFICES ASSUME Init PROVE IInv
  OBVIOUS
<1>1. DOMAIN <<>> = {} /\ Len(<<>>) = 0 /\ <<>> \in Seq(Entry) /\ <<>> \in Seq({0, 1})
  BY EmptySeq
<1>2. Shape
  BY <1>1, AgentAssumption DEF Init, Shape
<1>3. ToHarvest /\ Growing
  BY DEF Init, ToHarvest, Growing, PairsFit
<1>4. LossFits(ids, mask) /\ PairsFit(ids, dense)
  BY <1>1 DEF Init, LossFits, PairsFit
<1> QED
  BY <1>2, <1>3, <1>4 DEF IInv

LEMMA GenerateIInv == ASSUME IInv, Generate PROVE IInv'
<1>1. Shape'
  BY AgentAssumption DEF IInv, Shape, Generate
<1>2. ToHarvest' /\ Growing'
  BY DEF IInv, ToHarvest, Growing, PairsFit, Generate
<1>3. UNCHANGED <<ids, mask, dense>>
  BY DEF Generate
<1> QED
  BY <1>1, <1>2, <1>3 DEF IInv, LossFits, PairsFit

LEMMA EngineRepliesIInv == ASSUME IInv, EngineReplies PROVE IInv'
<1>1. PICK s \in Turns, written \in 0..MaxTurnLen :
        /\ reply' = s.out
        /\ zfile' = [zfile EXCEPT ![turn] = [j \in 1..written |-> <<turn, j>>]]
  BY Zenon DEF EngineReplies
<1>2. /\ pc = "generating" /\ pc' = "harvest"
      /\ UNCHANGED <<turn, curPrompt, ids, mask, logprobs, pairs, dense>>
  BY DEF EngineReplies
<1>3. turn \in 1..MaxTurns /\ written \in Nat /\ DOMAIN zfile = 1..MaxTurns
  BY <1>1, <1>2, AgentAssumption DEF IInv, Shape
<1>4. Shape'
  BY <1>1, <1>2 DEF IInv, Shape
<1>5. PICK f : f = [j \in 1..written |-> <<turn, j>>]
  OBVIOUS
<1>6. f \in Seq(Nat \X Nat) /\ \A j \in DOMAIN f : f[j] = <<turn, j>>
  <2>1. f \in [1..written -> Nat \X Nat]
    BY <1>3, <1>5
  <2>2. f \in UNION {[1..n -> Nat \X Nat] : n \in Nat}
    BY <1>3, <2>1
  <2> QED
    BY <1>5, <2>2, SeqDef
<1>7. zfile'[turn] = f /\ turn' = turn
  BY <1>1, <1>2, <1>3, <1>5
<1>8. Sound(s, Len(s.out))
  BY <1>1, TurnsSound
<1>9. /\ s.out \in Seq(Said) /\ LatentIsBullet(s.out)
      /\ BulletsAreSpliced => Numbered(s.out)
  BY <1>8 DEF Sound
<1>10. ToHarvest'
  <2>1. reply' = s.out /\ zfile'[turn'] = f /\ turn' = turn
    BY <1>1, <1>7
  <2> QED
    BY <1>6, <1>9, <2>1, Zenon DEF ToHarvest
<1>11. Growing'
  BY <1>2 DEF IInv, Growing, PairsFit
<1> QED
  BY <1>2, <1>4, <1>10, <1>11 DEF IInv, LossFits, PairsFit

LEMMA FinishIInv == ASSUME IInv, Finish PROVE IInv'
<1>1. /\ pc = "loop" /\ Return(ids, mask, logprobs, pairs)
      /\ UNCHANGED <<turn, zfile>>
  BY DEF Finish
<1>2. /\ pc' = "done" /\ ids' \in Seq(Entry) /\ mask' \in Seq({0, 1})
      /\ Len(mask') = Len(ids') /\ LossFits(ids', mask')
      /\ BulletsAreSpliced => PairsFit(ids', dense')
  BY <1>1, ReturnFits DEF IInv, Shape, Growing
<1>3. Shape' /\ ToHarvest' /\ Growing'
  BY <1>1, <1>2 DEF IInv, Shape, ToHarvest, Growing
<1> QED
  BY <1>2, <1>3 DEF IInv, LossFits, PairsFit

LEMMA TokIs ==
  ASSUME NEW S, NEW T, NEW o \in Seq(S), \A x \in S : x.tok \in T
  PROVE  Len(Tok(o)) = Len(o) /\ \A x \in 1..Len(o) : Tok(o)[x] = o[x].tok
<1>1. PICK n \in Nat : n = Len(o) /\ DOMAIN o = 1..n
  BY LenProperties
<1>2. PICK ts : ts = Tok(o) /\ ts = [x \in 1..n |-> o[x].tok]
  BY <1>1 DEF Tok
<1>3. ts \in [1..n -> T]
  BY <1>1, <1>2, ElementOfSeq
<1>4. ts \in UNION {[1..l -> T] : l \in Nat}
  BY <1>3
<1> QED
  BY <1>1, <1>2, <1>3, <1>4, SeqDef, LenProperties

\* The reply as the response keeps it: no loss on what was spliced in.
LEMMA MarkedIs ==
  ASSUME reply \in Seq(Said), LatentIsBullet(reply), turn \in Nat
  PROVE  /\ Marked \in Seq(Entry) /\ Len(Marked) = Len(reply)
         /\ DOMAIN Marked = DOMAIN reply
         /\ \A q \in DOMAIN reply :
              /\ Marked[q].tok = reply[q].tok /\ Marked[q].by = reply[q].by
              /\ Marked[q].z = <<turn, reply[q].z>>
         /\ ResponseMask(Tok(reply)) \in Seq({0, 1})
         /\ Len(ResponseMask(Tok(reply))) = Len(reply)
         /\ LossFits(Marked, ResponseMask(Tok(reply)))
<1>1. PICK n \in Nat : n = Len(reply) /\ DOMAIN reply = 1..n
  BY LenProperties
<1>2. \A q \in 1..n : reply[q] \in Said
  BY <1>1, ElementOfSeq
<1>3. PICK w : w = Marked
  OBVIOUS
<1>4. \A q \in 1..n : /\ w[q] \in Entry /\ w[q].tok = reply[q].tok /\ w[q].by = reply[q].by
                      /\ w[q].z = <<turn, reply[q].z>>
  <2> SUFFICES ASSUME NEW q \in 1..n
               PROVE  /\ w[q] \in Entry /\ w[q].tok = reply[q].tok /\ w[q].by = reply[q].by
                      /\ w[q].z = <<turn, reply[q].z>>
    OBVIOUS
  <2>1. PICK r \in Said : r = reply[q]
    BY <1>2
  <2>2. w[q] = [tok |-> r.tok, by |-> r.by, z |-> <<turn, r.z>>]
    BY <1>1, <1>3, <2>1 DEF Marked
  <2>3. r.tok \in Token /\ r.by \in {"model", "latent", "close"} /\ r.z \in Nat
    BY DEF Said
  <2> QED
    BY <2>1, <2>2, <2>3 DEF Entry
<1>5. w \in Seq(Entry) /\ Len(w) = n /\ DOMAIN w = 1..n
  <2>1. w \in [1..n -> Entry]
    BY <1>1, <1>3, <1>4 DEF Marked
  <2>2. w \in UNION {[1..l -> Entry] : l \in Nat}
    BY <2>1
  <2> QED
    BY <2>1, <2>2, SeqDef, LenProperties
<1>6. PICK ts : ts = Tok(reply)
  OBVIOUS
<1>7. Len(ts) = n /\ \A q \in 1..n : ts[q] = reply[q].tok
  <2>1. \A x \in Said : x.tok \in Token
    BY DEF Said
  <2> QED
    BY <1>1, <1>6, <2>1, TokIs
<1>8. PICK rm : rm = ResponseMask(ts)
  OBVIOUS
<1>9. PICK blocks : rm = [p \in 1..n |-> IF p \in blocks \/ ts[p] = Sentinel THEN 0 ELSE 1]
  BY <1>7, <1>8 DEF ResponseMask
<1>10. rm \in Seq({0, 1}) /\ Len(rm) = n
  <2>1. rm \in [1..n -> {0, 1}]
    BY <1>9
  <2>2. rm \in UNION {[1..l -> {0, 1}] : l \in Nat}
    BY <2>1
  <2> QED
    BY <2>1, <2>2, SeqDef, LenProperties
<1>11. LossFits(w, rm)
  <2> SUFFICES ASSUME NEW p \in 1..n, rm[p] = 1
               PROVE  w[p].by \notin {"latent", "retrieval"}
    BY <1>5 DEF LossFits
  <2>1. ts[p] # Sentinel
    BY <1>9
  <2>2. reply[p].by # "latent"
    BY <1>1, <1>7, <2>1 DEF LatentIsBullet
  <2>3. reply[p].by \in {"model", "latent", "close"}
    BY <1>2 DEF Said
  <2> QED
    BY <1>4, <2>2, <2>3
<1> QED
  BY <1>1, <1>3, <1>4, <1>5, <1>6, <1>8, <1>10, <1>11

LEMMA RankPositive ==
  ASSUME NEW ts, NEW p \in Nat \ {0}, ts[p] = Sentinel
  PROVE  Rank(ts, p) \in Nat \ {0}
<1>1. PICK at : at = {q \in 1..p : ts[q] = Sentinel}
  OBVIOUS
<1>2. p \in at /\ at \in SUBSET (1..p)
  BY <1>1
<1>3. IsFiniteSet(at) /\ Cardinality(at) \in Nat
  <2>1. IsFiniteSet(1..p)
    BY FS_Interval
  <2> QED
    BY <1>2, <2>1, FS_Subset, FS_CardinalityType
<1>4. Cardinality(at) # 0
  BY <1>2, <1>3, FS_EmptySet
<1> QED
  BY <1>1, <1>3, <1>4 DEF Rank

\* Each captured z with the sentinel that has its number.
LEMMA TurnPairsFit ==
  ASSUME pc = "harvest", ToHarvest, BulletsAreSpliced, turn \in Nat, NEW p \in TurnPairs
  PROVE  \E q \in DOMAIN Marked :
           p[1] = Len(ids) + q /\ Marked[q].by = "latent" /\ Marked[q].z = p[2]
<1>1. /\ reply \in Seq(Said) /\ LatentIsBullet(reply) /\ Numbered(reply)
      /\ zfile[turn] \in Seq(Nat \X Nat)
      /\ \A j \in DOMAIN zfile[turn] : zfile[turn][j] = <<turn, j>>
  BY DEF ToHarvest
<1>2. PICK q \in ZPositions(Tok(reply), Len(zfile[turn])) :
        p = <<Len(ids) + q, zfile[turn][Rank(Tok(reply), q)]>>
  BY Zenon DEF TurnPairs
<1>3. PICK n \in Nat : n = Len(reply) /\ DOMAIN reply = 1..n
  BY <1>1, LenProperties
<1>4. Len(Tok(reply)) = n /\ \A k \in 1..n : Tok(reply)[k] = reply[k].tok
  <2>1. \A x \in Said : x.tok \in Token
    BY DEF Said
  <2> QED
    BY <1>1, <1>3, <2>1, TokIs
<1>5. q \in 1..n /\ Tok(reply)[q] = Sentinel /\ Rank(Tok(reply), q) <= Len(zfile[turn])
  BY <1>2, <1>4 DEF ZPositions
<1>6. reply[q].by = "latent" /\ reply[q].z = Rank(Tok(reply), q)
  BY <1>1, <1>3, <1>4, <1>5 DEF Numbered
<1>7. PICK r \in Nat \ {0} : r = Rank(Tok(reply), q)
  BY <1>5, RankPositive
<1>8. r \in DOMAIN zfile[turn]
  BY <1>1, <1>5, <1>7, LenProperties
<1>9. zfile[turn][r] = <<turn, r>>
  BY <1>1, <1>8
<1>10. DOMAIN Marked = DOMAIN reply /\ Marked[q].by = "latent" /\ Marked[q].z = <<turn, r>>
  BY <1>1, <1>3, <1>5, <1>6, <1>7, MarkedIs
<1>11. p[1] = Len(ids) + q /\ p[2] = <<turn, r>>
  BY <1>2, <1>7, <1>9
<1> QED
  BY <1>3, <1>5, <1>10, <1>11

LEMMA HarvestIInv == ASSUME IInv, Harvest PROVE IInv'
<1>1. PICK i, m, l :
        /\ i = ids \o Marked /\ m = mask \o ResponseMask(Tok(reply))
        /\ l = logprobs \o Column(Len(reply), ReportsLogProbs)
  OBVIOUS
<1>2. /\ pc = "harvest" /\ turn' = turn /\ zfile' = [zfile EXCEPT ![turn] = <<>>]
      /\ pairs' = pairs \cup TurnPairs /\ curPrompt' = curPrompt \o Marked
      /\ \/ ids' = i /\ mask' = m /\ pc' = "retrieving" /\ dense' = dense
         \/ Return(i, m, l, pairs')
  BY <1>1 DEF Harvest, Continued
<1>3. /\ Shape /\ ToHarvest /\ Growing /\ LossFits(ids, mask) /\ turn \in Nat
      /\ curPrompt = ids /\ dense = {}
  BY <1>2, AgentAssumption DEF IInv, Shape, Growing
<1>4. reply \in Seq(Said) /\ LatentIsBullet(reply)
  BY <1>2, <1>3 DEF ToHarvest
<1>5. /\ i \in Seq(Entry) /\ m \in Seq({0, 1}) /\ Len(m) = Len(i) /\ LossFits(i, m)
  BY <1>1, <1>3, <1>4, MarkedIs, LossJoined DEF Shape
<1>6. BulletsAreSpliced => PairsFit(i, pairs')
  <2> SUFFICES ASSUME BulletsAreSpliced PROVE PairsFit(i, pairs')
    OBVIOUS
  <2>1. PairsFit(ids, pairs)
    BY <1>2, <1>3 DEF Growing
  <2>2. \A p \in TurnPairs : \E q \in DOMAIN Marked :
          p[1] = Len(ids) + q /\ Marked[q].by = "latent" /\ Marked[q].z = p[2]
    BY <1>2, <1>3, TurnPairsFit
  <2>3. Marked \in Seq(Entry) /\ ids \in Seq(Entry)
    BY <1>3, <1>4, MarkedIs DEF Shape
  <2>4. PairsFit(ids \o Marked, pairs \cup TurnPairs)
    BY <2>1, <2>2, <2>3, PairsJoined
  <2> QED
    BY <1>1, <1>2, <2>4
<1>7. DOMAIN zfile' = 1..MaxTurns /\ turn' \in 0..MaxTurns
  BY <1>2, <1>3 DEF Shape
<1>8. CASE ids' = i /\ mask' = m /\ pc' = "retrieving" /\ dense' = dense
  <2>1. Shape'
    BY <1>2, <1>3, <1>5, <1>7, <1>8 DEF Shape
  <2>2. ToHarvest'
    BY <1>8 DEF ToHarvest
  <2>3. Growing'
    BY <1>1, <1>2, <1>3, <1>6, <1>8 DEF Growing, PairsFit
  <2>4. LossFits(ids, mask)' /\ PairsFit(ids, dense)'
    BY <1>3, <1>5, <1>8 DEF LossFits, PairsFit
  <2> QED
    BY <2>1, <2>2, <2>3, <2>4 DEF IInv
<1>9. CASE Return(i, m, l, pairs')
  <2>1. /\ pc' = "done" /\ ids' \in Seq(Entry) /\ mask' \in Seq({0, 1})
        /\ Len(mask') = Len(ids') /\ LossFits(ids', mask')
        /\ BulletsAreSpliced => PairsFit(ids', dense')
    BY <1>5, <1>6, <1>9, ReturnFits
  <2>2. Shape' /\ ToHarvest' /\ Growing'
    BY <1>7, <2>1 DEF Shape, ToHarvest, Growing
  <2> QED
    BY <2>1, <2>2 DEF IInv, LossFits, PairsFit
<1> QED
  BY <1>2, <1>8, <1>9

LEMMA RetrievedIInv == ASSUME IInv, Retrieved PROVE IInv'
<1> DEFINE Info(n, t) == Column(n, [tok |-> t, by |-> "retrieval", z |-> <<turn, 0>>])
<1>1. PICK n \in 1..MaxInfo, t \in InfoTokens :
        \/ Return(ids, mask, logprobs, pairs)
        \/ /\ curPrompt' = curPrompt \o Info(n, t) /\ ids' = ids \o Info(n, t)
           /\ mask' = mask \o Column(n, 0) /\ pc' = "loop" /\ dense' = dense
  BY Zenon DEF Retrieved, Continued
<1>2. pc = "retrieving" /\ turn' = turn /\ zfile' = zfile /\ pairs' = pairs
  BY DEF Retrieved
<1>3. /\ Shape /\ LossFits(ids, mask) /\ turn \in Nat /\ n \in Nat
      /\ curPrompt = ids /\ dense = {} /\ (BulletsAreSpliced => PairsFit(ids, pairs))
  BY <1>1, <1>2, AgentAssumption DEF IInv, Shape, Growing
<1>4. CASE Return(ids, mask, logprobs, pairs)
  <2>1. /\ pc' = "done" /\ ids' \in Seq(Entry) /\ mask' \in Seq({0, 1})
        /\ Len(mask') = Len(ids') /\ LossFits(ids', mask')
        /\ BulletsAreSpliced => PairsFit(ids', dense')
    BY <1>3, <1>4, ReturnFits DEF Shape
  <2>2. Shape' /\ ToHarvest' /\ Growing'
    BY <1>2, <1>3, <2>1 DEF Shape, ToHarvest, Growing
  <2> QED
    BY <2>1, <2>2 DEF IInv, LossFits, PairsFit
<1>5. CASE /\ curPrompt' = curPrompt \o Info(n, t) /\ ids' = ids \o Info(n, t)
           /\ mask' = mask \o Column(n, 0) /\ pc' = "loop" /\ dense' = dense
  <2>1. PICK info : info = Info(n, t) /\ curPrompt' = curPrompt \o info /\ ids' = ids \o info
    BY <1>5
  <2>2. PICK e \in Entry : e = [tok |-> t, by |-> "retrieval", z |-> <<turn, 0>>]
    BY <1>3 DEF Entry
  <2>3. PICK zeros : zeros = Column(n, 0)
    OBVIOUS
  <2>4. /\ info \in Seq(Entry) /\ Len(info) = n
        /\ zeros \in Seq({0, 1}) /\ Len(zeros) = n /\ \A p \in 1..n : zeros[p] = 0
    BY <1>3, <2>1, <2>2, <2>3, ColumnIs
  <2>5. LossFits(info, zeros)
    BY <2>4, LenProperties DEF LossFits
  <2>6. /\ ids' \in Seq(Entry) /\ mask' \in Seq({0, 1}) /\ Len(mask') = Len(ids')
        /\ LossFits(ids', mask')
    <3>1. ids \in Seq(Entry) /\ mask \in Seq({0, 1}) /\ Len(mask) = Len(ids)
      BY <1>3 DEF Shape
    <3>2. /\ ids \o info \in Seq(Entry) /\ mask \o zeros \in Seq({0, 1})
          /\ Len(mask \o zeros) = Len(ids \o info) /\ LossFits(ids \o info, mask \o zeros)
      BY <1>3, <2>4, <2>5, <3>1, LossJoined
    <3> QED
      BY <1>5, <2>1, <2>3, <3>2
  <2>7. BulletsAreSpliced => PairsFit(ids', pairs')
    <3> SUFFICES ASSUME BulletsAreSpliced PROVE PairsFit(ids', pairs')
      OBVIOUS
    <3>1. PairsFit(ids \o info, pairs \cup {})
      BY <1>3, <2>4, PairsJoined DEF Shape
    <3> QED
      BY <1>2, <2>1, <3>1
  <2>8. Shape' /\ ToHarvest'
    BY <1>2, <1>3, <1>5, <2>6 DEF Shape, ToHarvest
  <2>9. Growing'
    BY <1>3, <1>5, <2>1, <2>7 DEF Growing, PairsFit
  <2>10. PairsFit(ids, dense)'
    BY <1>3, <1>5 DEF PairsFit
  <2> QED
    BY <2>6, <2>8, <2>9, <2>10 DEF IInv, LossFits, PairsFit
<1> QED
  BY <1>1, <1>4, <1>5

LEMMA NextIInv == ASSUME IInv, [Next]_vars PROVE IInv'
<1>1. CASE UNCHANGED vars
  <2>1. /\ UNCHANGED <<pc, turn, reply, zfile, curPrompt, ids, mask>>
        /\ UNCHANGED <<pairs, dense>>
    BY <1>1 DEF vars
  <2>2. Shape' /\ Growing'
    BY <2>1 DEF IInv, Shape, Growing, PairsFit
  <2>3. ToHarvest'
    BY <2>1 DEF IInv, ToHarvest, LatentIsBullet, Numbered, Rank, Tok
  <2>4. LossFits(ids, mask)' /\ (BulletsAreSpliced => PairsFit(ids, dense))'
    BY <2>1 DEF IInv, LossFits, PairsFit
  <2> QED
    BY <2>2, <2>3, <2>4 DEF IInv
<1>2. Terminated => UNCHANGED vars
  BY DEF Terminated
<1> QED
  BY <1>1, <1>2, GenerateIInv, EngineRepliesIInv, HarvestIInv, RetrievedIInv, FinishIInv
     DEF Next

\* What the invariant says of the rollout's three columns, its files and its pairs holds
\* in every reachable state, for any literals, K, token sets, turns and lengths.
THEOREM RolloutInvariance == Spec => []IInv
  BY InitIInv, NextIInv, PTL DEF Spec

\* A turn generates behind exactly the tokens that the trainer will see before it.
THEOREM SameContext == Spec => []ContextIsResponse
<1>1. IInv => ContextIsResponse
  BY DEF IInv, Growing, ContextIsResponse
<1> QED
  BY <1>1, RolloutInvariance, PTL

\* No loss on a spliced sentinel or a retrieved token, wherever the turn was cut and
\* whatever the retrieval returns: it needs no assumption on the tokens.
THEOREM NoLossOnOthers == Spec => []NoLossOffPolicy
<1>1. IInv => NoLossOffPolicy
  BY DEF IInv, LossFits, NoLossOffPolicy
<1> QED
  BY <1>1, RolloutInvariance, PTL

\* Every z is paired with the sentinel it was spliced in for, whatever turns, failed
\* writes, retrievals and cuts there were, if the model never samples a bullet itself.
THEOREM ZsAligned ==
  ASSUME BulletsAreSpliced
  PROVE  Spec => []ZAligned
<1>1. IInv => ZAligned
  BY DEF IInv, PairsFit, ZAligned
<1> QED
  BY <1>1, RolloutInvariance, PTL

-----------------------------------------------------------------------------
(* The context of the log probabilities *)

\* Every sentinel has its z among the pairs, or the file of its turn failed.
AllPaired(i, zs, lo) ==
  \A p \in DOMAIN i : i[p].by = "latent" => i[p].z[1] \in lo \/ <<p, i[p].z>> \in zs

\* What is to be harvested is a turn, with all of its z's unless its file failed.
WholeTurn ==
  pc = "harvest" =>
    \E s \in Turns : reply = s.out /\ (turn \in lost \/ Len(zfile[turn]) = s.zs)

\* Until the rollout ends its response stops where nothing is pending.
CInv ==
  /\ WholeTurn
  /\ Context(ids, Len(ids)) /\ (pc # "done" => Closed(ids, Len(ids)))
  /\ AllPaired(ids, IF pc = "done" THEN dense ELSE pairs, lost)

LEMMA RankGrows ==
  ASSUME NEW ts, NEW n \in Nat, NEW q \in 1..n
  PROVE  Rank(ts, q) \in Nat /\ Rank(ts, n) \in Nat /\ Rank(ts, q) <= Rank(ts, n)
<1>1. PICK A, B : A = {x \in 1..q : ts[x] = Sentinel} /\ B = {x \in 1..n : ts[x] = Sentinel}
  OBVIOUS
<1>2. A \subseteq B /\ B \subseteq 1..n
  BY <1>1
<1>3. IsFiniteSet(B)
  <2>1. IsFiniteSet(1..n)
    BY FS_Interval
  <2> QED
    BY <1>2, <2>1, FS_Subset
<1>4. IsFiniteSet(A) /\ Cardinality(A) <= Cardinality(B)
  BY <1>2, <1>3, FS_Subset
<1>5. Cardinality(A) \in Nat /\ Cardinality(B) \in Nat
  BY <1>3, <1>4, FS_CardinalityType
<1> QED
  BY <1>1, <1>4, <1>5 DEF Rank

\* The harvest pairs every sentinel of a turn whose file is whole.
LEMMA TurnAllPaired ==
  ASSUME IInv, CInv, LiteralsApart, pc = "harvest", NEW q \in DOMAIN reply,
         reply[q].by = "latent", turn \notin lost
  PROVE  <<Len(ids) + q, <<turn, reply[q].z>>>> \in TurnPairs
<1>1. PICK s \in Turns : reply = s.out /\ Len(zfile[turn]) = s.zs
  BY DEF CInv, WholeTurn
<1>2. PICK n \in Nat : n = Len(reply) /\ DOMAIN reply = 1..n
  BY LenProperties DEF IInv, ToHarvest
<1>3. BulletsAreSpliced
  BY DEF LiteralsApart
<1>4. /\ reply \in Seq(Said) /\ LatentIsBullet(reply) /\ Numbered(reply)
      /\ zfile[turn] \in Seq(Nat \X Nat)
      /\ \A j \in DOMAIN zfile[turn] : zfile[turn][j] = <<turn, j>>
  BY <1>3 DEF IInv, ToHarvest
<1>5. PICK ts : ts = Tok(reply)
  OBVIOUS
<1>6. Sound(s, Len(s.out))
  BY <1>1, TurnsSound
<1>7. s.zs = Rank(ts, n)
  BY <1>1, <1>2, <1>3, <1>5, <1>6 DEF Sound
<1>8. Len(ts) = n /\ \A x \in 1..n : ts[x] = reply[x].tok
  <2>1. \A x \in Said : x.tok \in Token
    BY DEF Said
  <2> QED
    BY <1>2, <1>4, <1>5, <2>1, TokIs
<1>9. q \in 1..n /\ ts[q] = Sentinel /\ reply[q].z = Rank(ts, q)
  BY <1>2, <1>4, <1>5, <1>8 DEF LatentIsBullet, Numbered
<1>10. PICK r \in Nat \ {0} : r = Rank(ts, q)
  BY <1>9, RankPositive
<1>11. PICK m \in Nat : m = Len(zfile[turn]) /\ DOMAIN zfile[turn] = 1..m /\ r <= m
  <2>1. r <= s.zs
    BY <1>7, <1>9, <1>10, RankGrows
  <2> QED
    BY <1>1, <1>4, <2>1, LenProperties
<1>12. q \in ZPositions(ts, Len(zfile[turn]))
  BY <1>8, <1>9, <1>10, <1>11 DEF ZPositions
<1>13. r \in DOMAIN zfile[turn] /\ zfile[turn][r] = <<turn, r>>
  BY <1>4, <1>10, <1>11
<1>14. <<Len(ids) + q, zfile[turn][Rank(ts, q)]>> \in TurnPairs
  BY <1>5, <1>12, Zenon DEF TurnPairs
<1> QED
  BY <1>9, <1>10, <1>13, <1>14, Zenon

\* Behind a response with nothing pending another part is put.
LEMMA PartJoined ==
  ASSUME NEW i \in Seq(Entry), NEW i2 \in Seq(Entry), NEW zs, NEW more, NEW lo,
         Context(i, Len(i)), Closed(i, Len(i)), Context(i2, Len(i2)), AllPaired(i, zs, lo),
         \A q \in DOMAIN i2 : i2[q].by = "latent" =>
           i2[q].z[1] \in lo \/ <<Len(i) + q, i2[q].z>> \in more
  PROVE  /\ Context(i \o i2, Len(i \o i2))
         /\ Closed(i2, Len(i2)) => Closed(i \o i2, Len(i \o i2))
         /\ AllPaired(i \o i2, zs \cup more, lo)
<1>1. PICK c : c = i \o i2
  OBVIOUS
<1>2. Joined(i, i2, c, Entry)
  BY <1>1, ConcatIs
<1>3. PICK a \in Nat, b \in Nat :
        /\ a = Len(i) /\ b = Len(i2) /\ Len(c) = a + b
        /\ DOMAIN i = 1..a /\ DOMAIN i2 = 1..b /\ DOMAIN c = 1..(a + b)
        /\ \A x \in 1..a : c[x] = i[x]
        /\ \A x \in 1..b : c[a + x] = i2[x]
  BY <1>2 DEF Joined
<1>4. Context(i, a) /\ Closed(i, a) /\ Context(i2, b)
  BY <1>3
<1>5. Context(c, a + b) /\ (Closed(i2, b) => Closed(c, a + b))
  BY <1>3, <1>4, ContextJoined
<1>6. ASSUME NEW p \in 1..(a + b), c[p].by = "latent"
      PROVE  c[p].z[1] \in lo \/ <<p, c[p].z>> \in zs \cup more
  <2>1. CASE p \in 1..a
    BY <1>3, <1>6, <2>1 DEF AllPaired
  <2>2. CASE p \notin 1..a
    <3>1. PICK q \in 1..b : p = a + q
      <4>1. p - a \in 1..b /\ p = a + (p - a)
        BY <2>2
      <4> QED
        BY <4>1
    <3>2. c[p] = i2[q]
      BY <1>3, <3>1
    <3>3. i2[q].z[1] \in lo \/ <<a + q, i2[q].z>> \in more
      BY <1>3, <1>6, <3>2
    <3> QED
      BY <3>1, <3>2, <3>3
  <2> QED
    BY <2>1, <2>2
<1>7. AllPaired(c, zs \cup more, lo)
  BY <1>3, <1>6 DEF AllPaired
<1> QED
  BY <1>1, <1>3, <1>5, <1>7

\* Cutting the response leaves a context, and of the pairs those it needs.
LEMMA ReturnContext ==
  ASSUME NEW i \in Seq(Entry), NEW m, NEW l, NEW zs, NEW lo, Context(i, Len(i)),
         AllPaired(i, zs, lo), Return(i, m, l, zs)
  PROVE  pc' = "done" /\ Context(ids', Len(ids')) /\ AllPaired(ids', dense', lo)
<1>1. PICK c : c = Cut(i) /\ ids' = c /\ dense' = Kept(zs, i) /\ pc' = "done"
  BY DEF Return
<1>2. PICK n \in Nat, L \in Nat : n = Len(i) /\ DOMAIN i = 1..n /\ L = ResponseLength
  BY LenProperties, AgentAssumption
<1>3. PICK k \in Nat :
        /\ k = Len(c) /\ DOMAIN c = 1..k /\ k <= n
        /\ \A p \in 1..k : p \in 1..n /\ c[p] = i[p]
  <2>1. /\ Len(c) \in Nat /\ DOMAIN c = 1..Len(c)
        /\ Len(c) = IF ResponseLength < Len(i) THEN ResponseLength ELSE Len(i)
        /\ \A p \in DOMAIN c : p \in DOMAIN i /\ c[p] = i[p]
    BY <1>1, CutIs
  <2>2. Len(c) <= n
    BY <1>2, <2>1
  <2> QED
    BY <1>2, <2>1, <2>2
<1>4. Context(i, n) /\ \A p \in 1..k : c[p].tok = i[p].tok /\ c[p].by = i[p].by
  BY <1>2, <1>3
<1>5. Context(c, k)
  BY <1>3, <1>4, ContextOfPart
<1>6. ASSUME NEW p \in 1..k, c[p].by = "latent"
      PROVE  c[p].z[1] \in lo \/ <<p, c[p].z>> \in dense'
  <2>1. c[p].z[1] \in lo \/ <<p, c[p].z>> \in zs
    BY <1>2, <1>3, <1>6 DEF AllPaired
  <2>2. <<p, c[p].z>>[1] = p /\ p <= k
    OBVIOUS
  <2> QED
    BY <1>1, <1>3, <2>1, <2>2 DEF Kept
<1>7. AllPaired(c, dense', lo)
  BY <1>3, <1>6 DEF AllPaired
<1> QED
  BY <1>1, <1>3, <1>5, <1>7

LEMMA InitCInv == Init => CInv
<1> SUFFICES ASSUME Init PROVE CInv
  OBVIOUS
<1>1. DOMAIN <<>> = {} /\ Len(<<>>) = 0
  BY EmptySeq
<1>2. Context(ids, 0) /\ Closed(ids, 0)
  BY DEF Context, Closed
<1> QED
  BY <1>1, <1>2 DEF Init, CInv, WholeTurn, AllPaired

LEMMA EngineRepliesCInv == ASSUME IInv, CInv, EngineReplies PROVE CInv'
<1>1. PICK s \in Turns, written \in 0..MaxTurnLen :
        /\ written <= s.zs
        /\ reply' = s.out
        /\ zfile' = [zfile EXCEPT ![turn] = [j \in 1..written |-> <<turn, j>>]]
        /\ lost' = IF written < s.zs THEN lost \cup {turn} ELSE lost
  BY Zenon DEF EngineReplies
<1>2. /\ pc = "generating" /\ pc' = "harvest"
      /\ UNCHANGED <<turn, ids, pairs>>
  BY DEF EngineReplies
<1>3. turn \in 1..MaxTurns /\ written \in Nat /\ DOMAIN zfile = 1..MaxTurns
  BY <1>1, <1>2, AgentAssumption DEF IInv, Shape
<1>4. PICK f : f = [j \in 1..written |-> <<turn, j>>]
  OBVIOUS
<1>5. Len(f) = written
  <2>1. f \in [1..written -> Nat \X Nat]
    BY <1>3, <1>4, AgentAssumption
  <2>2. f \in UNION {[1..n -> Nat \X Nat] : n \in Nat}
    BY <1>3, <2>1
  <2> QED
    BY <1>3, <2>1, <2>2, SeqDef, LenProperties
<1>6. zfile'[turn] = f
  BY <1>1, <1>3, <1>4
<1>7. s.zs \in Nat
  BY TurnsSound DEF Sound
<1>8. turn \in lost' \/ written = s.zs
  BY <1>1, <1>3, <1>7
<1>9. WholeTurn'
  <2>1. turn' \in lost' \/ Len(zfile'[turn']) = s.zs
    BY <1>2, <1>5, <1>6, <1>8
  <2> QED
    BY <1>1, <2>1, Zenon DEF WholeTurn
<1>10. lost \subseteq lost'
  BY <1>1
<1>11. AllPaired(ids, pairs, lost')
  BY <1>2, <1>10 DEF CInv, AllPaired
<1> QED
  BY <1>2, <1>9, <1>11 DEF CInv

LEMMA FinishCInv == ASSUME IInv, CInv, Finish PROVE CInv'
<1>1. pc = "loop" /\ Return(ids, mask, logprobs, pairs) /\ lost' = lost
  BY DEF Finish
<1>2. ids \in Seq(Entry) /\ Context(ids, Len(ids)) /\ AllPaired(ids, pairs, lost)
  BY <1>1 DEF IInv, Shape, CInv
<1>3. pc' = "done" /\ Context(ids', Len(ids')) /\ AllPaired(ids', dense', lost)
  BY <1>1, <1>2, ReturnContext
<1> QED
  BY <1>1, <1>3 DEF CInv, WholeTurn

\* A reply with a search stops there.
LEMMA SearchStops ==
  ASSUME NEW s \in Turns, reply = s.out, Searches, NEW n \in Nat, n = Len(s.out)
  PROVE  s.out[n].tok = Search
<1>1. StopsLast(s.out, n) /\ s.out \in Seq(Said)
  BY TurnsLaidOut, TurnsSound DEF LaidOut, Sound
<1>2. PICK x \in 1..n : s.out[x].tok = Search
  BY <1>1, LenProperties DEF Searches, Says
<1>3. x = n
  BY <1>1, <1>2 DEF StopsLast
<1> QED
  BY <1>2, <1>3

LEMMA HarvestCInv == ASSUME IInv, CInv, LiteralsApart, Harvest PROVE CInv'
<1>1. PICK i, m, l :
        /\ i = ids \o Marked /\ m = mask \o ResponseMask(Tok(reply))
        /\ l = logprobs \o Column(Len(reply), ReportsLogProbs)
  OBVIOUS
<1>2. /\ pc = "harvest" /\ lost' = lost /\ pairs' = pairs \cup TurnPairs
      /\ \/ Searches /\ ids' = i /\ pc' = "retrieving"
         \/ Return(i, m, l, pairs')
  BY <1>1 DEF Harvest
<1>3. /\ ids \in Seq(Entry) /\ turn \in Nat /\ reply \in Seq(Said) /\ LatentIsBullet(reply)
      /\ Context(ids, Len(ids)) /\ Closed(ids, Len(ids)) /\ AllPaired(ids, pairs, lost)
  BY <1>2, AgentAssumption DEF IInv, Shape, ToHarvest, CInv
<1>4. PICK s \in Turns : reply = s.out
  BY <1>2 DEF CInv, WholeTurn
<1>5. PICK n \in Nat : n = Len(reply) /\ DOMAIN reply = 1..n
  BY <1>3, LenProperties
<1>6. PICK w : w = Marked
  OBVIOUS
<1>7. /\ w \in Seq(Entry) /\ Len(w) = n /\ DOMAIN w = 1..n
      /\ \A q \in 1..n : /\ w[q].tok = reply[q].tok /\ w[q].by = reply[q].by
                         /\ w[q].z = <<turn, reply[q].z>>
  BY <1>3, <1>5, <1>6, MarkedIs
<1>8. Context(w, n) /\ (s.out[n].tok = Search => Closed(w, n))
  <2>1. Context(s.out, n) /\ (s.out[n].tok = Search => Closed(s.out, n))
    BY <1>4, <1>5, TurnContext
  <2>2. \A x \in 1..n : w[x].tok = s.out[x].tok /\ w[x].by = s.out[x].by
    BY <1>4, <1>7
  <2> QED
    BY <2>1, <2>2, ContextOfAlike
<1>9. \A q \in DOMAIN w : w[q].by = "latent" =>
        w[q].z[1] \in lost \/ <<Len(ids) + q, w[q].z>> \in TurnPairs
  <2> SUFFICES ASSUME NEW q \in 1..n, w[q].by = "latent", turn \notin lost
               PROVE  <<Len(ids) + q, w[q].z>> \in TurnPairs
    BY <1>7
  <2>1. reply[q].by = "latent" /\ q \in DOMAIN reply
    BY <1>5, <1>7
  <2>2. <<Len(ids) + q, <<turn, reply[q].z>>>> \in TurnPairs
    BY <1>2, <2>1, TurnAllPaired
  <2> QED
    BY <1>7, <2>2
<1>10. /\ Context(i, Len(i)) /\ (Closed(w, n) => Closed(i, Len(i)))
       /\ AllPaired(i, pairs \cup TurnPairs, lost)
  BY <1>1, <1>3, <1>6, <1>7, <1>8, <1>9, PartJoined
<1>11. CASE Searches /\ ids' = i /\ pc' = "retrieving"
  <2>1. Closed(i, Len(i))
    BY <1>4, <1>5, <1>8, <1>10, <1>11, SearchStops
  <2> QED
    BY <1>2, <1>10, <1>11, <2>1 DEF CInv, WholeTurn
<1>12. CASE Return(i, m, l, pairs')
  <2>1. i \in Seq(Entry)
    BY <1>1, <1>3, <1>6, <1>7, ConcatIs DEF Joined
  <2>2. pc' = "done" /\ Context(ids', Len(ids')) /\ AllPaired(ids', dense', lost)
    BY <1>2, <1>10, <1>12, <2>1, ReturnContext
  <2> QED
    BY <1>2, <2>2 DEF CInv, WholeTurn
<1> QED
  BY <1>2, <1>11, <1>12

\* A retrieved block holds no sentinel, and begins no literal.
LEMMA InfoContext ==
  ASSUME LiteralsApart, NEW n \in Nat, NEW w,
         \A x \in 1..n : w[x].tok \in InfoTokens /\ w[x].by = "retrieval"
  PROVE  Context(w, n) /\ Closed(w, n)
<1>1. PICK l \in Nat \ {0} : l = OpenLen
  BY Lengths
<1>2. OpenIds[1] \notin InfoTokens
  BY DEF LiteralsApart
<1>3. ASSUME NEW e \in 1..n, LiteralAt(w, e) PROVE FALSE
  <2>1. e >= l /\ 1 \in 1..l /\ w[e - l + 1].tok = OpenIds[1]
    BY <1>1, <1>3 DEF LiteralAt
  <2>2. e - l + 1 \in 1..n
    BY <2>1
  <2> QED
    BY <1>2, <2>1, <2>2
<1>4. ASSUME NEW j \in 1..n PROVE \E y \in 1..l : j + y - 1 <= n /\ w[j + y - 1].tok # OpenIds[y]
  <2>1. 1 \in 1..l /\ j + 1 - 1 <= n /\ j + 1 - 1 = j
    OBVIOUS
  <2>2. w[j + 1 - 1].tok # OpenIds[1]
    BY <1>2, <2>1
  <2> QED
    BY <2>1, <2>2
<1>5. Context(w, n)
  BY <1>3 DEF Context
<1> QED
  BY <1>1, <1>3, <1>4, <1>5 DEF Closed

LEMMA RetrievedCInv == ASSUME IInv, CInv, LiteralsApart, Retrieved PROVE CInv'
<1> DEFINE Info(n, t) == Column(n, [tok |-> t, by |-> "retrieval", z |-> <<turn, 0>>])
<1>1. PICK n \in 1..MaxInfo, t \in InfoTokens :
        \/ Return(ids, mask, logprobs, pairs)
        \/ ids' = ids \o Info(n, t) /\ pc' = "loop"
  BY Zenon DEF Retrieved
<1>2. pc = "retrieving" /\ pairs' = pairs /\ lost' = lost
  BY DEF Retrieved
<1>3. /\ ids \in Seq(Entry) /\ turn \in Nat /\ n \in Nat
      /\ Context(ids, Len(ids)) /\ Closed(ids, Len(ids)) /\ AllPaired(ids, pairs, lost)
  BY <1>1, <1>2, AgentAssumption DEF IInv, Shape, CInv
<1>4. CASE Return(ids, mask, logprobs, pairs)
  <2>1. pc' = "done" /\ Context(ids', Len(ids')) /\ AllPaired(ids', dense', lost)
    BY <1>3, <1>4, ReturnContext
  <2> QED
    BY <1>2, <2>1 DEF CInv, WholeTurn
<1>5. CASE ids' = ids \o Info(n, t) /\ pc' = "loop"
  <2>1. PICK info : info = Info(n, t)
    OBVIOUS
  <2>2. PICK e \in Entry : e = [tok |-> t, by |-> "retrieval", z |-> <<turn, 0>>]
    BY <1>3 DEF Entry
  <2>3. /\ info \in Seq(Entry) /\ Len(info) = n /\ DOMAIN info = 1..n
        /\ \A x \in 1..n : info[x] = e
    <3>1. info = Column(n, e)
      BY <2>1, <2>2
    <3>2. info \in Seq(Entry) /\ Len(info) = n /\ \A x \in 1..n : info[x] = e
      BY <1>3, <3>1, ColumnIs
    <3> QED
      BY <3>2, LenProperties
  <2>4. \A x \in 1..n : info[x].tok \in InfoTokens /\ info[x].by = "retrieval"
    BY <2>2, <2>3
  <2>5. Context(info, n) /\ Closed(info, n)
    BY <1>3, <2>4, InfoContext
  <2>6. \A q \in DOMAIN info : info[q].by = "latent" =>
          info[q].z[1] \in lost \/ <<Len(ids) + q, info[q].z>> \in {}
    BY <2>3, <2>4
  <2>7. /\ Context(ids \o info, Len(ids \o info)) /\ Closed(ids \o info, Len(ids \o info))
        /\ AllPaired(ids \o info, pairs \cup {}, lost)
    BY <1>3, <2>3, <2>5, <2>6, PartJoined
  <2>8. pairs \cup {} = pairs
    OBVIOUS
  <2> QED
    BY <1>2, <1>5, <2>1, <2>7, <2>8 DEF CInv, WholeTurn
<1> QED
  BY <1>1, <1>4, <1>5

LEMMA NextCInv == ASSUME IInv, CInv, LiteralsApart, [Next]_vars PROVE CInv'
<1>1. CASE UNCHANGED vars
  <2>1. UNCHANGED <<pc, turn, reply, zfile, ids, pairs, lost, dense>>
    BY <1>1 DEF vars
  <2>2. WholeTurn'
    BY <2>1, Zenon DEF CInv, WholeTurn
  <2> QED
    BY <2>1, <2>2 DEF CInv
<1>2. ASSUME Generate PROVE CInv'
  BY <1>2 DEF Generate, CInv, WholeTurn
<1>3. Terminated => UNCHANGED vars
  BY DEF Terminated
<1> QED
  BY <1>1, <1>2, <1>3, EngineRepliesCInv, HarvestCInv, RetrievedCInv, FinishCInv DEF Next

\* What the pattern match finds, in terms of the response.
LEMMA MaskIs ==
  ASSUME NEW n \in Nat, n = Len(ids), ids \in Seq(Entry)
  PROVE  /\ \A p \in ReconstructMask(Tok(ids)) :
              \E e \in 1..n : LiteralAt(ids, e) /\ p - e \in 1..K /\ p \in 1..n
         /\ \A p \in 1..n, q \in 1..n :
              FoundBefore(ids, p, q) => p \in ReconstructMask(Tok(ids))
<1>1. PICK b \in Nat \ {0}, l \in Nat \ {0}, c \in Nat \ {0}, k \in Nat \ {0} :
        /\ b = BlockLen /\ l = OpenLen /\ c = Len(CloseIds) /\ k = K /\ b = k + c
        /\ l = Len(OpenIds)
  BY Lengths DEF OpenLen
<1>2. PICK ts : ts = Tok(ids)
  OBVIOUS
<1>3. Len(ts) = n /\ \A x \in 1..n : ts[x] = ids[x].tok
  <2>1. \A x \in Entry : x.tok \in Token \cup InfoTokens
    BY DEF Entry
  <2> QED
    BY <1>2, <2>1, TokIs
<1>4. ASSUME NEW j \in Nat
      PROVE  MatchAt(ts, j) <=> /\ j + l + k + c - 1 <= n
                                /\ \A x \in 1..l : ts[j + x - 1] = OpenIds[x]
                                /\ \A x \in 1..c : ts[j + l + k + x - 1] = CloseIds[x]
  <2>1. j + Span - 1 <= n <=> j + l + k + c - 1 <= n
    BY <1>1 DEF Span
  <2> QED
    BY <1>1, <1>3, <2>1 DEF MatchAt
<1>5. \A p : p \in ReconstructMask(ts) <=>
               \E j \in 1..n : MatchAt(ts, j) /\ p \in (j + l)..(j + l + k - 1)
  BY <1>1, <1>3 DEF ReconstructMask, Inside
<1>6. ASSUME NEW p \in ReconstructMask(ts)
      PROVE  \E e \in 1..n : LiteralAt(ids, e) /\ p - e \in 1..k /\ p \in 1..n
  <2>1. PICK j \in 1..n : MatchAt(ts, j) /\ p \in (j + l)..(j + l + k - 1)
    BY <1>5
  <2>2. j + l + k + c - 1 <= n /\ \A x \in 1..l : ts[j + x - 1] = OpenIds[x]
    BY <1>4, <2>1
  <2>3. PICK e \in 1..n : e = j + l - 1
    BY <2>2
  <2>4. ASSUME NEW x \in 1..l PROVE ids[e - l + x].tok = OpenIds[x]
    <3>1. j + x - 1 \in 1..n /\ e - l + x = j + x - 1
      BY <2>2, <2>3
    <3>2. ts[j + x - 1] = OpenIds[x] /\ ts[j + x - 1] = ids[j + x - 1].tok
      BY <1>3, <2>2, <3>1
    <3> QED
      BY <3>1, <3>2
  <2>5. e >= l /\ p - e \in 1..k /\ p \in 1..n
    BY <2>1, <2>2, <2>3
  <2>6. LiteralAt(ids, e)
    BY <1>1, <2>4, <2>5 DEF LiteralAt
  <2> QED
    BY <2>5, <2>6
<1>7. ASSUME NEW p \in 1..n, NEW q \in 1..n, FoundBefore(ids, p, q)
      PROVE  p \in ReconstructMask(ts)
  <2>1. PICK e \in Nat :
          /\ LiteralAt(ids, e) /\ p - e \in 1..k /\ e + b < q
          /\ \A y \in 1..c : ids[e + k + y].tok = CloseIds[y]
    BY <1>1, <1>7 DEF FoundBefore
  <2>2. e >= l /\ \A x \in 1..l : ids[e - l + x].tok = OpenIds[x]
    BY <1>1, <2>1 DEF LiteralAt
  <2>3. e + b < q /\ b = k + c /\ p - e \in 1..k
    BY <1>1, <2>1
  <2>4. PICK j \in 1..n : j = e - l + 1
    BY <2>2, <2>3
  <2>5. ASSUME NEW x \in 1..l PROVE ts[j + x - 1] = OpenIds[x]
    <3>1. j + x - 1 \in 1..n /\ e - l + x = j + x - 1
      BY <2>3, <2>4
    <3>2. ids[j + x - 1].tok = OpenIds[x]
      BY <2>2, <3>1
    <3> QED
      BY <1>3, <3>1, <3>2
  <2>6. ASSUME NEW x \in 1..c PROVE ts[j + l + k + x - 1] = CloseIds[x]
    <3>1. j + l + k + x - 1 \in 1..n /\ e + k + x = j + l + k + x - 1
      BY <2>3, <2>4
    <3>2. ids[j + l + k + x - 1].tok = CloseIds[x]
      BY <2>1, <3>1
    <3> QED
      BY <1>3, <3>1, <3>2
  <2>7. j + l + k + c - 1 <= n /\ p \in (j + l)..(j + l + k - 1)
    BY <2>3, <2>4
  <2>8. MatchAt(ts, j)
    <3>1. Span \in Nat /\ Span = l + k + c
      BY <1>1 DEF Span
    <3>2. j + Span - 1 <= Len(ts)
      BY <1>3, <2>7, <3>1
    <3> QED
      BY <1>1, <2>5, <2>6, <3>2 DEF MatchAt
  <2> QED
    BY <1>5, <2>7, <2>8
<1> QED
  BY <1>1, <1>2, <1>6, <1>7

\* The actor recomputes log probabilities in the context the rollout had, whatever turns,
\* cuts, retrievals and failed writes there were, if literals, bullets, the search tag and
\* the documents cannot be taken for one another.
THEOREM ActorSeesContext ==
  ASSUME LiteralsApart
  PROVE  Spec => []ActorContext
<1>1. IInv /\ CInv => ActorContext
  <2> SUFFICES ASSUME IInv, CInv, pc = "done" PROVE ActorContext
    BY DEF ActorContext
  <2>1. PICK n \in Nat : n = Len(ids) /\ DOMAIN ids = 1..n /\ ids \in Seq(Entry)
    BY LenProperties DEF IInv, Shape
  <2>2. Context(ids, n) /\ AllPaired(ids, dense, lost)
    BY <2>1 DEF CInv
  <2>3. ASSUME NEW p \in ReconstructMask(Tok(ids)) PROVE ids[p].by = "latent"
    <3>1. PICK e \in 1..n : LiteralAt(ids, e) /\ p - e \in 1..K /\ p \in 1..n
      BY <2>1, <2>3, MaskIs
    <3>2. PICK d \in 1..K : d = p - e
      BY <3>1
    <3>3. e + d = p /\ e + d <= n
      BY <3>1, <3>2, AgentAssumption
    <3>4. ids[e + d].by = "latent"
      BY <2>2, <3>1, <3>3 DEF Context
    <3> QED
      BY <3>3, <3>4
  <2>4. ASSUME NEW p \in 1..n, NEW q \in 1..n, p < q,
               ids[p].by = "latent", ids[q].by = "model"
        PROVE  /\ p \in ReconstructMask(Tok(ids))
               /\ ids[p].z[1] \in lost \/ <<p, ids[p].z>> \in dense
    <3>1. FoundBefore(ids, p, q)
      BY <2>2, <2>4 DEF Context
    <3>2. p \in ReconstructMask(Tok(ids))
      BY <2>1, <3>1, MaskIs
    <3> QED
      BY <2>1, <2>2, <2>4, <3>2 DEF AllPaired
  <2> QED
    BY <2>1, <2>3, <2>4 DEF ActorContext
<1>2. Init => CInv
  BY InitCInv
<1>3. IInv /\ CInv /\ [Next]_vars => CInv'
  BY NextCInv
<1> QED
  BY <1>1, <1>2, <1>3, RolloutInvariance, PTL DEF Spec

-----------------------------------------------------------------------------
(* The examples of SFT *)

Words == InfoTokens \cup Range(OpenIds) \cup Range(CloseIds)
         \cup {Sentinel, Text, Search, Answer, "eos"}
Kinds == {"text", "latent", "docs"}

\* A bullet is none of the words that an example spells out itself.
BulletApart ==
  Sentinel \notin Range(OpenIds) \cup Range(CloseIds) \cup {Text, Search, Answer, "eos"}

\* The tokens of the example up to e are those of the open literal.
SpeltTo(x, e) == e >= OpenLen /\ \A y \in 1..OpenLen : x.ids[e - OpenLen + y] = OpenIds[y]

\* A latent position is one of the K behind an open literal; no loss on it, or on documents;
\* text has loss, but for what follows the answer, and is no bullet.
LatentWell(x, p) ==
  x.what[p] = "latent" =>
    x.loss[p] = 0 /\ \E e \in 1..p : SpeltTo(x, e) /\ p - e \in 1..K
DocsWell(x, p) == x.what[p] = "docs" => x.loss[p] = 0
TextWell(x, p) ==
  x.what[p] = "text" =>
    /\ x.ids[p] # Sentinel
    /\ x.loss[p] = 1 \/ (p > 1 /\ x.ids[p - 1] = Answer /\ x.what[p - 1] = "text")
Well(x, p) == LatentWell(x, p) /\ DocsWell(x, p) /\ TextWell(x, p)

Columns(x, n) ==
  /\ x.ids \in Seq(Words) /\ Len(x.ids) = n
  /\ x.loss \in Seq({0, 1}) /\ Len(x.loss) = n
  /\ x.what \in Seq(Kinds) /\ Len(x.what) = n
WellMade(x, n) == Columns(x, n) /\ \A p \in 1..n : Well(x, p)

\* What y says behind m positions is what x says.
SameFrom(m, x, y, n) ==
  \A q \in 1..n :
    y.ids[m + q] = x.ids[q] /\ y.loss[m + q] = x.loss[q] /\ y.what[m + q] = x.what[q]

LEMMA WellOfAlike ==
  ASSUME NEW m \in Nat, NEW n \in Nat, NEW x, NEW y, SameFrom(m, x, y, n),
         NEW p \in 1..n, Well(x, p)
  PROVE  Well(y, m + p)
<1>1. PICK r \in Nat \ {0} : r = m + p /\ r >= p
  OBVIOUS
<1>2. y.ids[r] = x.ids[p] /\ y.loss[r] = x.loss[p] /\ y.what[r] = x.what[p]
  BY <1>1 DEF SameFrom
<1>3. PICK l \in Nat \ {0}, k \in Nat \ {0} : l = OpenLen /\ k = K
  BY Lengths
<1>4. LatentWell(y, r)
  <2> SUFFICES ASSUME x.what[p] = "latent"
               PROVE  y.loss[r] = 0 /\ \E e \in 1..r : SpeltTo(y, e) /\ r - e \in 1..k
    BY <1>2, <1>3 DEF LatentWell
  <2>1. PICK e \in 1..p : SpeltTo(x, e) /\ p - e \in 1..k
    BY <1>3 DEF Well, LatentWell
  <2>2. PICK f \in 1..r : f = m + e
    BY <1>1
  <2>3. e >= l /\ \A z \in 1..l : x.ids[e - l + z] = OpenIds[z]
    BY <1>3, <2>1 DEF SpeltTo
  <2>4. ASSUME NEW z \in 1..l PROVE y.ids[f - l + z] = OpenIds[z]
    <3>1. PICK q \in 1..n : q = e - l + z
      BY <2>1, <2>3
    <3>2. f - l + z = m + q
      BY <2>2, <3>1
    <3>3. y.ids[m + q] = x.ids[q]
      BY DEF SameFrom
    <3> QED
      BY <2>3, <3>1, <3>2, <3>3
  <2>5. SpeltTo(y, f)
    BY <1>3, <2>2, <2>3, <2>4 DEF SpeltTo
  <2>6. r - f \in 1..k
    BY <1>1, <2>1, <2>2
  <2>7. x.loss[p] = 0
    BY DEF Well, LatentWell
  <2> QED
    BY <1>2, <2>5, <2>6, <2>7
<1>5. DocsWell(y, r)
  BY <1>2 DEF Well, DocsWell
<1>6. TextWell(y, r)
  <2> SUFFICES ASSUME x.what[p] = "text"
               PROVE  /\ x.ids[p] # Sentinel
                      /\ \/ x.loss[p] = 1
                         \/ r > 1 /\ y.ids[r - 1] = Answer /\ y.what[r - 1] = "text"
    BY <1>2 DEF TextWell
  <2>1. /\ x.ids[p] # Sentinel
        /\ x.loss[p] = 1 \/ (p > 1 /\ x.ids[p - 1] = Answer /\ x.what[p - 1] = "text")
    BY DEF Well, TextWell
  <2>2. ASSUME p > 1, x.ids[p - 1] = Answer, x.what[p - 1] = "text"
        PROVE  r > 1 /\ y.ids[r - 1] = Answer /\ y.what[r - 1] = "text"
    <3>1. PICK q \in 1..n : q = p - 1
      BY <2>2
    <3>2. r - 1 = m + q /\ r > 1
      BY <1>1, <3>1
    <3>3. y.ids[m + q] = x.ids[q] /\ y.what[m + q] = x.what[q]
      BY DEF SameFrom
    <3> QED
      BY <2>2, <3>1, <3>2, <3>3
  <2> QED
    BY <2>1, <2>2
<1> QED
  BY <1>1, <1>4, <1>5, <1>6 DEF Well

\* Two pieces, one behind the other.
LEMMA JoinIs ==
  ASSUME NEW n \in Nat, NEW m \in Nat, NEW a, NEW b, Columns(a, n), Columns(b, m)
  PROVE  /\ Columns(Join(a, b), n + m)
         /\ SameFrom(0, a, Join(a, b), n) /\ SameFrom(n, b, Join(a, b), m)
<1>1. PICK c : c = Join(a, b)
  OBVIOUS
<1>2. c.ids = a.ids \o b.ids /\ c.loss = a.loss \o b.loss /\ c.what = a.what \o b.what
  BY <1>1 DEF Join
<1>3. /\ Joined(a.ids, b.ids, c.ids, Words) /\ Joined(a.loss, b.loss, c.loss, {0, 1})
      /\ Joined(a.what, b.what, c.what, Kinds)
  BY <1>2, ConcatIs DEF Columns
<1>4. Columns(c, n + m)
  BY <1>3 DEF Columns, Joined
<1>5. SameFrom(n, b, c, m)
  BY <1>3 DEF Columns, Joined, SameFrom
<1>6. ASSUME NEW q \in 1..n
      PROVE c.ids[0 + q] = a.ids[q] /\ c.loss[0 + q] = a.loss[q] /\ c.what[0 + q] = a.what[q]
  <2>1. 0 + q = q
    OBVIOUS
  <2> QED
    BY <1>3, <2>1 DEF Columns, Joined
<1>7. SameFrom(0, a, c, n)
  BY <1>6 DEF SameFrom
<1> QED
  BY <1>1, <1>4, <1>5, <1>7

LEMMA JoinWellMade ==
  ASSUME NEW n \in Nat, NEW m \in Nat, NEW a, NEW b, WellMade(a, n), WellMade(b, m)
  PROVE  WellMade(Join(a, b), n + m)
<1>1. PICK c : c = Join(a, b)
  OBVIOUS
<1>2. Columns(c, n + m) /\ SameFrom(0, a, c, n) /\ SameFrom(n, b, c, m)
  BY <1>1, JoinIs DEF WellMade
<1>3. ASSUME NEW p \in 1..(n + m) PROVE Well(c, p)
  <2>1. CASE p \in 1..n
    <3>1. Well(a, p)
      BY <2>1 DEF WellMade
    <3>2. Well(c, 0 + p)
      BY <1>2, <2>1, <3>1, WellOfAlike
    <3>3. 0 + p = p
      OBVIOUS
    <3> QED
      BY <3>2, <3>3
  <2>2. CASE p \notin 1..n
    <3>1. PICK q \in 1..m : p = n + q
      <4>1. p - n \in 1..m /\ p = n + (p - n)
        BY <2>2
      <4> QED
        BY <4>1
    <3>2. Well(b, q)
      BY DEF WellMade
    <3>3. Well(c, n + q)
      BY <1>2, <3>2, WellOfAlike
    <3> QED
      BY <3>1, <3>3
  <2> QED
    BY <2>1, <2>2
<1> QED
  BY <1>1, <1>2, <1>3 DEF WellMade

\* What append() puts behind: tokens that all are alike in their loss and kind.
LEMMA PieceColumns ==
  ASSUME NEW n \in Nat, NEW toks \in Seq(Words), n = Len(toks), NEW v \in {0, 1},
         NEW what \in Kinds, NEW x,
         x = [ids |-> toks, loss |-> Column(n, v), what |-> Column(n, what)]
  PROVE  Columns(x, n) /\ x.ids = toks /\ \A p \in 1..n : x.loss[p] = v /\ x.what[p] = what
<1>1. Column(n, v) \in Seq({0, 1}) /\ Len(Column(n, v)) = n /\ \A i \in 1..n : Column(n, v)[i] = v
  BY ColumnIs
<1>2. /\ Column(n, what) \in Seq(Kinds) /\ Len(Column(n, what)) = n
      /\ \A i \in 1..n : Column(n, what)[i] = what
  BY ColumnIs
<1> QED
  BY <1>1, <1>2 DEF Columns

LEMMA TextWellMade ==
  ASSUME NEW toks \in Seq(Words), \A p \in 1..Len(toks) : toks[p] # Sentinel
  PROVE  WellMade(Piece(toks, TRUE, "text"), Len(toks))
<1>1. PICK n \in Nat : n = Len(toks)
  BY LenProperties
<1>2. PICK x : x = Piece(toks, TRUE, "text")
  OBVIOUS
<1>3. Columns(x, n) /\ x.ids = toks /\ \A p \in 1..n : x.loss[p] = 1 /\ x.what[p] = "text"
  <2>1. "text" \in Kinds
    BY DEF Kinds
  <2>2. x = [ids |-> toks, loss |-> Column(n, 1), what |-> Column(n, "text")]
    BY <1>1, <1>2 DEF Piece
  <2> QED
    BY <1>1, <2>1, <2>2, PieceColumns
<1>4. \A p \in 1..n : Well(x, p)
  BY <1>1, <1>3 DEF Well, LatentWell, DocsWell, TextWell
<1> QED
  BY <1>1, <1>2, <1>3, <1>4 DEF WellMade

LEMMA WordWellMade ==
  ASSUME NEW w \in Words, w # Sentinel
  PROVE  WellMade(Piece(<<w>>, TRUE, "text"), 1)
<1>1. PICK s : s = <<w>>
  OBVIOUS
<1>2. s \in Seq(Words) /\ Len(s) = 1 /\ \A p \in 1..Len(s) : s[p] # Sentinel
  BY <1>1
<1> QED
  BY <1>1, <1>2, TextWellMade

LEMMA DocsWellMade ==
  ASSUME NEW t \in InfoTokens, NEW n \in Nat
  PROVE  WellMade(Piece(Column(n, t), FALSE, "docs"), n)
<1>1. PICK s : s = Column(n, t)
  OBVIOUS
<1>2. t \in Words /\ "docs" \in Kinds
  BY DEF Words, Kinds
<1>3. s \in Seq(Words) /\ Len(s) = n
  BY <1>1, <1>2, ColumnIs
<1>4. PICK x : x = Piece(s, FALSE, "docs")
  OBVIOUS
<1>5. Columns(x, n) /\ \A p \in 1..n : x.loss[p] = 0 /\ x.what[p] = "docs"
  <2>1. x = [ids |-> s, loss |-> Column(n, 0), what |-> Column(n, "docs")]
    BY <1>3, <1>4 DEF Piece
  <2> QED
    BY <1>2, <1>3, <2>1, PieceColumns
<1>6. \A p \in 1..n : Well(x, p)
  BY <1>5 DEF Well, LatentWell, DocsWell, TextWell
<1> QED
  BY <1>1, <1>4, <1>5, <1>6 DEF WellMade

\* The open literal, and K bullets without loss behind it.
LEMMA OpenedWellMade ==
  ASSUME BulletApart
  PROVE  WellMade(Join(Piece(OpenIds, TRUE, "text"), Sentinels), OpenLen + K)
<1>1. PICK l \in Nat \ {0}, k \in Nat \ {0} :
        l = OpenLen /\ k = K /\ l = Len(OpenIds) /\ DOMAIN OpenIds = 1..l
  BY Lengths DEF OpenLen
<1>2. PICK a : a = Piece(OpenIds, TRUE, "text")
  OBVIOUS
<1>3. OpenIds \in Seq(Words) /\ \A y \in 1..l : OpenIds[y] # Sentinel
  <2>1. \A y \in 1..l : OpenIds[y] \in Range(OpenIds)
    BY <1>1 DEF Range
  <2>2. OpenIds \in [1..l -> Words]
    <3>1. OpenIds \in Seq(Range(OpenIds))
      BY AgentAssumption
    <3>2. OpenIds \in [1..l -> Range(OpenIds)]
      BY <1>1, <3>1, LenProperties
    <3>3. Range(OpenIds) \subseteq Words
      BY DEF Words
    <3> QED
      BY <3>2, <3>3
  <2>3. OpenIds \in UNION {[1..j -> Words] : j \in Nat}
    BY <2>2
  <2> QED
    BY <2>1, <2>3, SeqDef DEF BulletApart
<1>4. WellMade(a, l) /\ a.ids = OpenIds
  <2>1. WellMade(a, l)
    BY <1>1, <1>2, <1>3, TextWellMade
  <2> QED
    BY <1>2, <2>1 DEF Piece
<1>5. PICK s : s = Column(k, Sentinel)
  OBVIOUS
<1>6. s \in Seq(Words) /\ Len(s) = k
  <2>1. Sentinel \in Words
    BY DEF Words
  <2> QED
    BY <1>5, <2>1, ColumnIs
<1>7. PICK b : b = Piece(s, FALSE, "latent")
  OBVIOUS
<1>8. b = Sentinels
  BY <1>1, <1>5, <1>7 DEF Sentinels
<1>9. Columns(b, k) /\ \A p \in 1..k : b.loss[p] = 0 /\ b.what[p] = "latent"
  <2>1. "latent" \in Kinds
    BY DEF Kinds
  <2>2. b = [ids |-> s, loss |-> Column(k, 0), what |-> Column(k, "latent")]
    BY <1>6, <1>7 DEF Piece
  <2> QED
    BY <1>6, <2>1, <2>2, PieceColumns
<1>10. PICK c : c = Join(a, b)
  OBVIOUS
<1>11. Columns(c, l + k) /\ SameFrom(0, a, c, l) /\ SameFrom(l, b, c, k)
  BY <1>4, <1>9, <1>10, JoinIs DEF WellMade
<1>12. ASSUME NEW p \in 1..l PROVE Well(c, p)
  <2>1. Well(a, p)
    BY <1>4 DEF WellMade
  <2>2. Well(c, 0 + p)
    BY <1>11, <2>1, WellOfAlike
  <2>3. 0 + p = p
    OBVIOUS
  <2> QED
    BY <2>2, <2>3
<1>13. ASSUME NEW y \in 1..l PROVE c.ids[y] = OpenIds[y]
  <2>1. 0 + y = y
    OBVIOUS
  <2> QED
    BY <1>4, <1>11, <2>1 DEF SameFrom
<1>14. SpeltTo(c, l)
  <2>1. \A y \in 1..l : l - l + y = y
    OBVIOUS
  <2> QED
    BY <1>1, <1>13, <2>1 DEF SpeltTo
<1>15. ASSUME NEW q \in 1..k PROVE Well(c, l + q)
  <2>1. c.loss[l + q] = 0 /\ c.what[l + q] = "latent"
    BY <1>9, <1>11 DEF SameFrom
  <2>2. l \in 1..(l + q) /\ l + q - l \in 1..K
    BY <1>1
  <2> QED
    BY <1>14, <2>1, <2>2 DEF Well, LatentWell, DocsWell, TextWell
<1>16. ASSUME NEW p \in 1..(l + k) PROVE Well(c, p)
  <2>1. CASE p <= l
    BY <1>12, <2>1
  <2>2. CASE ~(p <= l)
    <3>1. PICK q \in 1..k : p = l + q
      <4>1. p - l \in 1..k /\ p = l + (p - l)
        BY <2>2
      <4> QED
        BY <4>1
    <3> QED
      BY <1>15, <3>1
  <2> QED
    BY <2>1, <2>2
<1> QED
  BY <1>1, <1>2, <1>8, <1>10, <1>11, <1>16 DEF WellMade

\* The answer, and the eos without loss behind it.
LEMMA AnswerWellMade ==
  ASSUME BulletApart
  PROVE  WellMade(Join(Piece(<<Answer>>, TRUE, "text"), Piece(<<"eos">>, FALSE, "text")), 2)
<1>1. PICK a, b, s :
        a = Piece(<<Answer>>, TRUE, "text") /\ s = <<"eos">> /\ b = Piece(s, FALSE, "text")
  OBVIOUS
<1>2. Answer # Sentinel /\ "eos" # Sentinel /\ Answer \in Words /\ "eos" \in Words
  BY DEF BulletApart, Words
<1>3. WellMade(a, 1)
  BY <1>1, <1>2, WordWellMade
<1>4. a.ids[1] = Answer /\ a.what[1] = "text"
  BY <1>1 DEF Piece, Column
<1>5. Columns(b, 1) /\ b.ids[1] = "eos" /\ b.what[1] = "text"
  <2>1. s \in Seq(Words) /\ Len(s) = 1 /\ s[1] = "eos"
    BY <1>1, <1>2
  <2>2. "text" \in Kinds
    BY DEF Kinds
  <2>3. PICK n \in Nat : n = 1 /\ n = Len(s)
    BY <2>1
  <2>4. b = [ids |-> s, loss |-> Column(n, 0), what |-> Column(n, "text")]
    BY <1>1, <2>3 DEF Piece
  <2>5. s \in Seq(Words) /\ n = Len(s)
    BY <2>1, <2>3
  <2>6. Columns(b, n) /\ b.ids = s /\ \A p \in 1..n : b.what[p] = "text"
    BY <2>2, <2>4, <2>5, PieceColumns
  <2> QED
    BY <2>1, <2>3, <2>6
<1>6. PICK c : c = Join(a, b)
  OBVIOUS
<1>7. Columns(c, 1 + 1) /\ SameFrom(0, a, c, 1) /\ SameFrom(1, b, c, 1)
  BY <1>3, <1>5, <1>6, JoinIs DEF WellMade
<1>8. Well(c, 0 + 1)
  <2>1. Well(a, 1)
    BY <1>3 DEF WellMade
  <2> QED
    BY <1>7, <2>1, WellOfAlike
<1>9. /\ c.ids[0 + 1] = Answer /\ c.what[0 + 1] = "text"
      /\ c.ids[1 + 1] = "eos" /\ c.what[1 + 1] = "text"
  <2>1. 1 \in 1..1
    OBVIOUS
  <2> QED
    BY <1>4, <1>5, <1>7, <2>1 DEF SameFrom
<1>10. /\ c.ids[1] = Answer /\ c.what[1] = "text" /\ c.ids[2] = "eos" /\ c.what[2] = "text"
       /\ Well(c, 1)
  BY <1>8, <1>9
<1>11. Well(c, 2)
  BY <1>2, <1>10 DEF Well, LatentWell, DocsWell, TextWell
<1>12. \A p \in 1..2 : Well(c, p)
  BY <1>10, <1>11
<1>13. 1 + 1 = 2
  OBVIOUS
<1> QED
  BY <1>1, <1>6, <1>7, <1>12, <1>13 DEF WellMade

LEMMA LatentWellMade ==
  ASSUME BulletApart, Text \in Words
  PROVE  \E n \in Nat : WellMade(LatentPieces, n)
<1>1. PICK l \in Nat \ {0}, c \in Nat \ {0}, k \in Nat \ {0} :
        l = OpenLen /\ c = Len(CloseIds) /\ k = K /\ DOMAIN CloseIds = 1..c
  BY Lengths
<1>2. PICK a : a = Join(Piece(OpenIds, TRUE, "text"), Sentinels)
  OBVIOUS
<1>3. WellMade(a, l + k)
  BY <1>1, <1>2, OpenedWellMade
<1>4. PICK b : b = Piece(CloseIds, TRUE, "text")
  OBVIOUS
<1>5. CloseIds \in Seq(Words) /\ \A y \in 1..c : CloseIds[y] # Sentinel
  <2>1. \A y \in 1..c : CloseIds[y] \in Range(CloseIds)
    BY <1>1 DEF Range
  <2>2. CloseIds \in [1..c -> Words]
    <3>1. CloseIds \in Seq(Range(CloseIds))
      BY AgentAssumption
    <3>2. CloseIds \in [1..c -> Range(CloseIds)]
      BY <1>1, <3>1, LenProperties
    <3>3. Range(CloseIds) \subseteq Words
      BY DEF Words
    <3> QED
      BY <3>2, <3>3
  <2>3. CloseIds \in UNION {[1..j -> Words] : j \in Nat}
    BY <2>2
  <2> QED
    BY <2>1, <2>3, SeqDef DEF BulletApart
<1>6. WellMade(b, c)
  BY <1>1, <1>4, <1>5, TextWellMade
<1>7. WellMade(Sep, 1)
  BY WordWellMade DEF Sep, BulletApart
<1>8. PICK d : d = Join(b, Sep)
  OBVIOUS
<1>9. WellMade(d, c + 1)
  BY <1>6, <1>7, <1>8, JoinWellMade
<1>10. LatentPieces = Join(a, d)
  BY <1>2, <1>4, <1>8 DEF LatentPieces
<1>11. PICK i \in Nat, j \in Nat : i = l + k /\ j = c + 1
  OBVIOUS
<1>12. WellMade(Join(a, d), i + j)
  BY <1>3, <1>9, <1>11, JoinWellMade
<1> QED
  BY <1>10, <1>12

Made(x) == \E n \in Nat : WellMade(x, n)

LEMMA JoinMade == ASSUME NEW a, NEW b, Made(a), Made(b) PROVE Made(Join(a, b))
<1>1. PICK n \in Nat, m \in Nat : WellMade(a, n) /\ WellMade(b, m)
  BY DEF Made
<1>2. WellMade(Join(a, b), n + m) /\ n + m \in Nat
  BY <1>1, JoinWellMade
<1> QED
  BY <1>2 DEF Made

LEMMA WordMade ==
  ASSUME BulletApart, NEW w \in {Text, Search, Answer}
  PROVE  Made(Piece(<<w>>, TRUE, "text"))
<1>1. w \in Words /\ w # Sentinel
  BY DEF BulletApart, Words
<1>2. WellMade(Piece(<<w>>, TRUE, "text"), 1)
  BY <1>1, WordWellMade
<1> QED
  BY <1>2 DEF Made

\* A turn of the teacher, and its last one.
LEMMA TurnMade ==
  ASSUME BulletApart, NEW t \in TeacherTurn
  PROVE  Made(TurnPieces(t)) /\ Made(FinalPieces(t))
<1>1. Made(Think)
  BY WordMade DEF Think
<1>2. Made(LatentPieces)
  <2>1. Text \in Words
    BY DEF Words
  <2> QED
    BY <2>1, LatentWellMade DEF Made
<1>3. PICK r : r = Reasoning(t)
  OBVIOUS
<1>4. Made(r)
  BY <1>1, <1>2, <1>3 DEF Reasoning
<1>5. PICK s : s = Piece(<<Search>>, TRUE, "text")
  OBVIOUS
<1>6. Made(s)
  BY <1>5, WordMade
<1>7. PICK w \in InfoTokens, n \in Nat : w = t.docs[1] /\ n = t.docs[2]
  <2>1. t.docs \in InfoTokens \X (1..MaxInfo)
    BY DEF TeacherTurn
  <2>2. 1..MaxInfo \subseteq Nat
    BY AgentAssumption
  <2> QED
    BY <2>1, <2>2
<1>8. PICK d : d = Docs(t)
  OBVIOUS
<1>9. Made(d)
  <2>1. d = Piece(Column(n, w), FALSE, "docs")
    BY <1>7, <1>8 DEF Docs
  <2>2. WellMade(d, n)
    BY <2>1, DocsWellMade
  <2> QED
    BY <2>2 DEF Made
<1>10. PICK e : e = Join(Piece(<<Answer>>, TRUE, "text"), Piece(<<"eos">>, FALSE, "text"))
  OBVIOUS
<1>11. Made(e)
  <2>1. WellMade(e, 2)
    BY <1>10, AnswerWellMade
  <2> QED
    BY <2>1 DEF Made
<1>12. TurnPieces(t) = Join(Join(r, s), d) /\ FinalPieces(t) = Join(r, e)
  BY <1>3, <1>5, <1>8, <1>10 DEF TurnPieces, FinalPieces
<1>13. Made(Join(r, s))
  BY <1>4, <1>6, JoinMade
<1>14. Made(Join(Join(r, s), d)) /\ Made(Join(r, e))
  BY <1>4, <1>9, <1>11, <1>13, JoinMade
<1> QED
  BY <1>12, <1>14

\* f gives what the first turns make.
TurnsUpTo(turns, n, f) ==
  f = [i \in 0..n |-> IF i = 0 THEN Sep ELSE Join(f[i - 1], TurnPieces(turns[i]))]

LEMMA OneTurnMore ==
  ASSUME NEW turns, NEW n \in Nat, NEW f, TurnsUpTo(turns, n, f)
  PROVE  \E g : TurnsUpTo(turns, n + 1, g)
<1>1. PICK g : g = [i \in 0..(n + 1) |->
                      IF i = n + 1 THEN Join(f[n], TurnPieces(turns[n + 1])) ELSE f[i]]
  OBVIOUS
<1>2. ASSUME NEW i \in 0..(n + 1)
      PROVE  g[i] = IF i = 0 THEN Sep ELSE Join(g[i - 1], TurnPieces(turns[i]))
  <2>1. CASE i = n + 1
    <3>1. i # 0 /\ i - 1 = n /\ n \in 0..(n + 1) /\ n # n + 1
      BY <2>1
    <3>2. g[i] = Join(f[n], TurnPieces(turns[i])) /\ g[n] = f[n]
      BY <1>1, <2>1, <3>1
    <3> QED
      BY <3>1, <3>2
  <2>2. CASE i # n + 1
    <3>1. i \in 0..n /\ g[i] = f[i]
      BY <1>1, <2>2
    <3>2. f[i] = IF i = 0 THEN Sep ELSE Join(f[i - 1], TurnPieces(turns[i]))
      BY <3>1, Zenon DEF TurnsUpTo
    <3>3. CASE i = 0
      BY <3>1, <3>2, <3>3
    <3>4. CASE i # 0
      <4>1. i - 1 \in 0..(n + 1) /\ i - 1 # n + 1
        BY <3>1, <3>4
      <4>2. g[i - 1] = f[i - 1]
        BY <1>1, <4>1
      <4> QED
        BY <3>1, <3>2, <3>4, <4>2
    <3> QED
      BY <3>3, <3>4
  <2> QED
    BY <2>1, <2>2
<1>3. g = [i \in 0..(n + 1) |-> IF i = 0 THEN Sep ELSE Join(g[i - 1], TurnPieces(turns[i]))]
  BY <1>1, <1>2
<1> QED
  BY <1>3 DEF TurnsUpTo

LEMMA TurnsExist == \A turns : \A n \in Nat : \E f : TurnsUpTo(turns, n, f)
<1> SUFFICES ASSUME NEW turns PROVE \A n \in Nat : \E f : TurnsUpTo(turns, n, f)
  OBVIOUS
<1> DEFINE T == {n \in Nat : \E f : TurnsUpTo(turns, n, f)}
<1>1. 0 \in T
  <2>1. PICK f : f = [i \in 0..0 |-> Sep]
    OBVIOUS
  <2>2. f = [i \in 0..0 |-> IF i = 0 THEN Sep ELSE Join(f[i - 1], TurnPieces(turns[i]))]
    BY <2>1
  <2> QED
    BY <2>2 DEF TurnsUpTo
<1>2. \A n \in Nat : n \in T => n + 1 \in T
  BY OneTurnMore
<1>3. Nat \subseteq T
  <2> HIDE DEF T
  <2> QED
    BY <1>1, <1>2, NatSet
<1> QED
  BY <1>3

LEMMA ExampleMade ==
  ASSUME BulletApart, NEW m \in Nat, NEW turns \in [1..m -> TeacherTurn],
         NEW last \in TeacherTurn
  PROVE  Made(Example(turns, last))
<1>1. Len(turns) = m
  <2>1. turns \in UNION {[1..n -> TeacherTurn] : n \in Nat}
    OBVIOUS
  <2> QED
    BY <2>1, SeqDef, LenProperties
<1>2. PICK h : TurnsUpTo(turns, Len(turns), h)
  BY <1>1, TurnsExist
<1>3. PICK f : TurnsUpTo(turns, m, f) /\ Example(turns, last) = Join(f[m], FinalPieces(last))
  <2> DEFINE upTo == CHOOSE f : TurnsUpTo(turns, Len(turns), f)
  <2>1. TurnsUpTo(turns, Len(turns), upTo)
    BY <1>2, Zenon
  <2>2. Example(turns, last) = Join(upTo[Len(turns)], FinalPieces(last))
    BY Zenon DEF Example, TurnsUpTo
  <2> QED
    BY <1>1, <2>1, <2>2
<1> DEFINE T == {n \in Nat : n <= m => Made(f[n])}
<1>4. 0 \in T
  <2>1. f[0] = Sep
    <3>1. 0 \in 0..m
      OBVIOUS
    <3> QED
      BY <1>3, <3>1 DEF TurnsUpTo
  <2> QED
    BY <2>1, WordMade DEF Sep
<1>5. ASSUME NEW n \in Nat, n \in T PROVE n + 1 \in T
  <2> SUFFICES ASSUME n + 1 <= m PROVE Made(f[n + 1])
    OBVIOUS
  <2>1. PICK i \in 1..m : i = n + 1 /\ i - 1 = n /\ i \in 0..m /\ i # 0
    OBVIOUS
  <2>2. f[i] = Join(f[i - 1], TurnPieces(turns[i]))
    BY <1>3, <2>1, Zenon DEF TurnsUpTo
  <2>3. Made(f[n])
    BY <1>5
  <2>4. Made(TurnPieces(turns[i]))
    BY TurnMade
  <2>5. Made(Join(f[n], TurnPieces(turns[i])))
    BY <2>3, <2>4, JoinMade
  <2> QED
    BY <2>1, <2>2, <2>5
<1>6. Nat \subseteq T
  <2> HIDE DEF T
  <2> QED
    BY <1>4, <1>5, NatSet
<1>7. Made(f[m])
  BY <1>6
<1>8. Made(Join(f[m], FinalPieces(last)))
  BY <1>7, TurnMade, JoinMade
<1> QED
  BY <1>3, <1>8

\* Every example is well made, wherever it is cut.
LEMMA ExamplesMade == ASSUME BulletApart, NEW x \in Examples PROVE Made(x)
<1>1. PICK m \in Nat : \E turns \in [1..m -> TeacherTurn], last \in TeacherTurn :
        x = Truncate(Example(turns, last))
  <2>1. PICK turns \in UNION {[1..n -> TeacherTurn] : n \in 0..(MaxTurns - 1)},
             last \in TeacherTurn : x = Truncate(Example(turns, last))
    BY DEF Examples
  <2>2. PICK m \in Nat : turns \in [1..m -> TeacherTurn]
    OBVIOUS
  <2> QED
    BY <2>1, <2>2
<1>2. PICK turns \in [1..m -> TeacherTurn], last \in TeacherTurn :
        x = Truncate(Example(turns, last))
  BY <1>1
<1>3. PICK y : y = Example(turns, last) /\ Made(y)
  BY ExampleMade
<1>4. PICK n \in Nat : WellMade(y, n)
  BY <1>3 DEF Made
<1>5. x.ids = Cut(y.ids) /\ x.loss = Cut(y.loss) /\ x.what = Cut(y.what)
  BY <1>2, <1>3 DEF Truncate
<1>6. PICK k \in Nat : k = (IF ResponseLength < n THEN ResponseLength ELSE n) /\ k <= n
  BY AgentAssumption
<1>7. /\ x.ids \in Seq(Words) /\ Len(x.ids) = k /\ \A p \in 1..k : x.ids[p] = y.ids[p]
      /\ x.loss \in Seq({0, 1}) /\ Len(x.loss) = k /\ \A p \in 1..k : x.loss[p] = y.loss[p]
      /\ x.what \in Seq(Kinds) /\ Len(x.what) = k /\ \A p \in 1..k : x.what[p] = y.what[p]
  <2>1. /\ y.ids \in Seq(Words) /\ Len(y.ids) = n /\ y.loss \in Seq({0, 1}) /\ Len(y.loss) = n
        /\ y.what \in Seq(Kinds) /\ Len(y.what) = n
    BY <1>4 DEF WellMade, Columns
  <2>2. /\ x.ids \in Seq(Words) /\ DOMAIN x.ids = 1..Len(x.ids) /\ Len(x.ids) = k
        /\ \A p \in DOMAIN x.ids : x.ids[p] = y.ids[p]
    BY <1>5, <1>6, <2>1, CutIs
  <2>3. /\ x.loss \in Seq({0, 1}) /\ DOMAIN x.loss = 1..Len(x.loss) /\ Len(x.loss) = k
        /\ \A p \in DOMAIN x.loss : x.loss[p] = y.loss[p]
    BY <1>5, <1>6, <2>1, CutIs
  <2>4. /\ x.what \in Seq(Kinds) /\ DOMAIN x.what = 1..Len(x.what) /\ Len(x.what) = k
        /\ \A p \in DOMAIN x.what : x.what[p] = y.what[p]
    BY <1>5, <1>6, <2>1, CutIs
  <2> QED
    BY <2>2, <2>3, <2>4
<1>8. \A q \in 1..k : 0 + q = q
  OBVIOUS
<1>9. SameFrom(0, y, x, k)
  BY <1>7, <1>8 DEF SameFrom
<1>10. ASSUME NEW p \in 1..k PROVE Well(x, p)
  <2>1. Well(y, p)
    BY <1>4, <1>6 DEF WellMade
  <2>2. Well(x, 0 + p)
    BY <1>9, <2>1, WellOfAlike
  <2> QED
    BY <1>8, <2>2
<1> QED
  BY <1>7, <1>10 DEF Made, WellMade, Columns

-----------------------------------------------------------------------------
(* What the scan of a reply finds *)

\* f gives the starts from each of the positions lo to Len(ts) + Span on.
StartsFrom(ts, lo, f) ==
  f = [i \in lo..(Len(ts) + Span) |->
         IF i + Span - 1 > Len(ts) THEN {}
         ELSE IF MatchAt(ts, i) THEN {i} \cup f[i + Span]
         ELSE f[i + 1]]

LEMMA SpanIs == Span \in Nat \ {0}
  BY Lengths DEF Span, OpenLen

LEMMA OneStartMore ==
  ASSUME NEW ts, NEW N \in Nat, N = Len(ts), NEW lo \in 2..(N + Span + 1), NEW f,
         StartsFrom(ts, lo, f)
  PROVE  \E g : StartsFrom(ts, lo - 1, g)
<1>1. PICK sp \in Nat \ {0}, a \in Nat \ {0}, M \in Nat :
        sp = Span /\ a = lo - 1 /\ M = N + sp /\ lo = a + 1 /\ a <= M
  BY SpanIs
<1>2. \A i \in lo..M : f[i] = IF i + sp - 1 > N THEN {}
                              ELSE IF MatchAt(ts, i) THEN {i} \cup f[i + sp] ELSE f[i + 1]
  BY <1>1 DEF StartsFrom
<1>3. PICK v : v = IF a + sp - 1 > N THEN {}
                   ELSE IF MatchAt(ts, a) THEN {a} \cup f[a + sp] ELSE f[a + 1]
  OBVIOUS
<1>4. PICK g : g = [i \in a..M |-> IF i = a THEN v ELSE f[i]]
  OBVIOUS
<1>5. ASSUME NEW i \in a..M
      PROVE  g[i] = IF i + sp - 1 > N THEN {}
                    ELSE IF MatchAt(ts, i) THEN {i} \cup g[i + sp] ELSE g[i + 1]
  <2>1. CASE i + sp - 1 > N
    <3>1. CASE i = a
      BY <1>3, <1>4, <2>1, <3>1
    <3>2. CASE i # a
      <4>1. i \in lo..M
        BY <1>1, <3>2
      <4> QED
        BY <1>2, <1>4, <2>1, <3>2, <4>1
    <3> QED
      BY <3>1, <3>2
  <2>2. CASE ~(i + sp - 1 > N)
    <3>1. /\ i + sp \in a..M /\ i + sp # a /\ i + 1 \in a..M /\ i + 1 # a
      BY <1>1, <2>2
    <3>2. g[i + sp] = f[i + sp] /\ g[i + 1] = f[i + 1]
      BY <1>4, <3>1
    <3>3. CASE i = a
      <4>1. g[i] = v
        BY <1>4, <3>3
      <4>2. v = IF MatchAt(ts, i) THEN {i} \cup f[i + sp] ELSE f[i + 1]
        BY <1>3, <2>2, <3>3
      <4> QED
        BY <2>2, <3>2, <4>1, <4>2
    <3>4. CASE i # a
      <4>1. i \in lo..M /\ g[i] = f[i]
        BY <1>1, <1>4, <3>4
      <4>2. f[i] = IF MatchAt(ts, i) THEN {i} \cup f[i + sp] ELSE f[i + 1]
        BY <1>2, <2>2, <4>1
      <4> QED
        BY <2>2, <3>2, <4>1, <4>2
    <3> QED
      BY <3>3, <3>4
  <2> QED
    BY <2>1, <2>2
<1>6. g = [i \in a..M |-> IF i + sp - 1 > N THEN {}
                          ELSE IF MatchAt(ts, i) THEN {i} \cup g[i + sp] ELSE g[i + 1]]
  BY <1>4, <1>5
<1> QED
  BY <1>1, <1>6 DEF StartsFrom

LEMMA StartsExist ==
  ASSUME NEW ts, NEW N \in Nat, N = Len(ts)
  PROVE  \E f : StartsFrom(ts, 1, f)
<1>1. PICK M \in Nat : M = N + Span
  BY SpanIs
<1> DEFINE T == {j \in Nat : j <= M => \E f : StartsFrom(ts, M + 1 - j, f)}
<1>2. 0 \in T
  <2>1. PICK f : f = [i \in (M + 1)..M |-> {}]
    OBVIOUS
  <2>2. (M + 1)..M = {}
    OBVIOUS
  <2>3. \A g : StartsFrom(ts, M + 1, g) <=> g = [i \in {} |->
         IF i + Span - 1 > Len(ts) THEN {}
         ELSE IF MatchAt(ts, i) THEN {i} \cup g[i + Span]
         ELSE g[i + 1]]
    BY <1>1, <2>2 DEF StartsFrom
  <2>4. f = [i \in {} |-> IF i + Span - 1 > Len(ts) THEN {}
                          ELSE IF MatchAt(ts, i) THEN {i} \cup f[i + Span] ELSE f[i + 1]]
    BY <2>1, <2>2
  <2>5. M + 1 - 0 = M + 1
    OBVIOUS
  <2> QED
    BY <2>3, <2>4, <2>5
<1>3. ASSUME NEW j \in Nat, j \in T PROVE j + 1 \in T
  <2> SUFFICES ASSUME j + 1 <= M PROVE \E f : StartsFrom(ts, M + 1 - (j + 1), f)
    OBVIOUS
  <2>1. PICK lo \in 2..(M + 1) : lo = M + 1 - j
    OBVIOUS
  <2>2. PICK f : StartsFrom(ts, lo, f)
    BY <1>3, <2>1
  <2>3. \E g : StartsFrom(ts, lo - 1, g)
    BY <1>1, <2>2, OneStartMore
  <2>4. lo - 1 = M + 1 - (j + 1)
    BY <2>1
  <2> QED
    BY <2>3, <2>4
<1>4. Nat \subseteq T
  <2> HIDE DEF T
  <2> QED
    BY <1>2, <1>3, NatSet
<1>5. M + 1 - M = 1
  OBVIOUS
<1> QED
  BY <1>4, <1>5

\* The scan starts a block only where the pattern stands.
LEMMA ScanMatches ==
  ASSUME NEW ts, NEW N \in Nat, N = Len(ts), NEW j \in Scan(ts)
  PROVE  j \in 1..N /\ MatchAt(ts, j)
<1>1. PICK sp \in Nat \ {0}, M \in Nat \ {0} : sp = Span /\ M = N + sp
  BY SpanIs
<1>2. PICK f : StartsFrom(ts, 1, f) /\ Scan(ts) = f[1]
  <2> DEFINE starts == CHOOSE f : StartsFrom(ts, 1, f)
  <2>1. \E f : StartsFrom(ts, 1, f)
    BY StartsExist
  <2>2. StartsFrom(ts, 1, starts)
    BY <2>1, Zenon
  <2>3. Scan(ts) = starts[1]
    BY Zenon DEF Scan, StartsFrom
  <2> QED
    BY <2>2, <2>3
<1>3. \A i \in 1..M : f[i] = IF i + sp - 1 > N THEN {}
                             ELSE IF MatchAt(ts, i) THEN {i} \cup f[i + sp] ELSE f[i + 1]
  BY <1>1, <1>2 DEF StartsFrom
<1> DEFINE Good == {i \in 1..N : MatchAt(ts, i)}
           T == {m \in Nat : \A i \in 1..M : i + m >= M => f[i] \subseteq Good}
<1>4. 0 \in T
  <2>1. ASSUME NEW i \in 1..M, i + 0 >= M PROVE f[i] = {}
    <3>1. i + sp - 1 > N
      BY <1>1, <2>1
    <3> QED
      BY <1>3, <3>1
  <2> QED
    BY <2>1
<1>5. ASSUME NEW m \in Nat, m \in T PROVE m + 1 \in T
  <2> SUFFICES ASSUME NEW i \in 1..M, i + (m + 1) >= M PROVE f[i] \subseteq Good
    OBVIOUS
  <2>1. CASE i + sp - 1 > N
    BY <1>3, <2>1
  <2>2. CASE ~(i + sp - 1 > N)
    <3>1. /\ i + sp \in 1..M /\ i + sp + m >= M /\ i + 1 \in 1..M /\ i + 1 + m >= M /\ i \in 1..N
      BY <1>1, <2>2
    <3>2. f[i + sp] \subseteq Good /\ f[i + 1] \subseteq Good
      BY <1>5, <3>1
    <3>3. f[i] = IF MatchAt(ts, i) THEN {i} \cup f[i + sp] ELSE f[i + 1]
      BY <1>3, <2>2
    <3> QED
      BY <3>1, <3>2, <3>3
  <2> QED
    BY <2>1, <2>2
<1>6. Nat \subseteq T
  <2> HIDE DEF T
  <2> QED
    BY <1>4, <1>5, NatSet
<1>7. M \in T
  BY <1>6, Zenon
<1>8. f[1] \subseteq Good
  <2>1. 1 \in 1..M /\ 1 + M >= M
    OBVIOUS
  <2> QED
    BY <1>7, <2>1
<1> QED
  BY <1>2, <1>8

-----------------------------------------------------------------------------
(* A rollout beside an example of the same text *)

\* Every word apart: an example's bullets and literals are those of a rollout.
ExamplesApart == LiteralsApart /\ BulletApart

\* Only spliced and retrieved tokens are without loss, and what is spliced is a bullet.
LossWhole(i, m) ==
  \A p \in DOMAIN i :
    /\ m[p] = 0 => i[p].by \in {"latent", "retrieval"}
    /\ i[p].by = "latent" => i[p].tok = Sentinel
\* The model's own answer comes last, if at all.
AnswersLast(i, n) == \A p \in 1..n : i[p].tok = Answer => i[p].by = "retrieval"

TInv ==
  /\ LossWhole(ids, mask)
  /\ AnswersLast(ids, IF pc = "done" THEN Len(ids) - 1 ELSE Len(ids))

LEMMA SaidTok ==
  ASSUME NEW o \in Seq(Said), NEW n \in Nat, n = Len(o), NEW ts, ts = Tok(o)
  PROVE  Len(ts) = n /\ \A x \in 1..n : ts[x] = o[x].tok
<1>1. \A x \in Said : x.tok \in Token
  BY DEF Said
<1> QED
  BY <1>1, TokIs

\* The loss mask of a turn covers nothing but spliced positions.
LEMMA ReplyLoss ==
  ASSUME LiteralsApart, NEW s \in Turns, NEW n \in Nat, n = Len(s.out), NEW p \in 1..n,
         ResponseMask(Tok(s.out))[p] = 0
  PROVE  s.out[p].by = "latent"
<1>1. PICK o : o = s.out
  OBVIOUS
<1>2. PICK l \in Nat \ {0}, k \in Nat \ {0} : l = OpenLen /\ k = K /\ l = Len(OpenIds)
  BY Lengths DEF OpenLen
<1>3. Sound(s, n) /\ Context(o, n)
  BY <1>1, TurnsSound, TurnContext
<1>4. o \in Seq(Said) /\ DOMAIN o = 1..n /\ Len(o) = n
  BY <1>1, <1>3, LenProperties DEF Sound
<1>5. PICK ts : ts = Tok(o)
  OBVIOUS
<1>6. Len(ts) = n /\ \A x \in 1..n : ts[x] = o[x].tok
  BY <1>4, <1>5, SaidTok
<1>7. PICK blocks : blocks = UNION {Inside(i) : i \in Scan(ts)}
  OBVIOUS
<1>8. ResponseMask(ts) = [q \in 1..n |-> IF q \in blocks \/ ts[q] = Sentinel THEN 0 ELSE 1]
  BY <1>6, <1>7 DEF ResponseMask
<1>9. p \in blocks \/ ts[p] = Sentinel
  <2>1. ResponseMask(ts)[p] = IF p \in blocks \/ ts[p] = Sentinel THEN 0 ELSE 1
    BY <1>8
  <2> QED
    BY <1>1, <1>5, <2>1
<1>10. CASE ts[p] = Sentinel
  <2>1. Numbered(o)
    BY <1>1, <1>3 DEF Sound, LiteralsApart
  <2> QED
    BY <1>1, <1>4, <1>6, <1>10, <2>1 DEF Numbered
<1>11. CASE p \in blocks
  <2>1. PICK j \in Scan(ts) : p \in (j + l)..(j + l + k - 1)
    BY <1>2, <1>7, <1>11 DEF Inside
  <2>2. j \in 1..n /\ MatchAt(ts, j)
    BY <1>6, ScanMatches
  <2>3. \A x \in 1..l : ts[j + x - 1] = OpenIds[x]
    BY <1>2, <2>2 DEF MatchAt
  <2>4. PICK e \in 1..n : e = j + l - 1
    BY <2>1, <2>2
  <2>5. PICK d \in 1..k : d = p - e /\ e + d = p
    BY <2>1, <2>2, <2>4
  <2>6. ASSUME NEW x \in 1..l PROVE o[e - l + x].tok = OpenIds[x]
    <3>1. j + x - 1 \in 1..n /\ e - l + x = j + x - 1
      BY <2>1, <2>2, <2>4
    <3>2. ts[j + x - 1] = OpenIds[x] /\ ts[j + x - 1] = o[j + x - 1].tok
      BY <1>6, <2>3, <3>1
    <3> QED
      BY <3>1, <3>2
  <2>7. LiteralAt(o, e)
    <3>1. e >= l
      BY <2>2, <2>4
    <3> QED
      BY <1>2, <2>6, <3>1 DEF LiteralAt
  <2>8. o[e + d].by = "latent"
    <3>1. e + d <= n
      BY <2>5
    <3> QED
      BY <1>2, <1>3, <2>7, <3>1 DEF Context
  <2> QED
    BY <1>1, <2>5, <2>8
<1> QED
  BY <1>9, <1>10, <1>11

LEMMA LossWholeJoined ==
  ASSUME NEW i \in Seq(Entry), NEW m \in Seq({0, 1}), Len(m) = Len(i), LossWhole(i, m),
         NEW i2 \in Seq(Entry), NEW m2 \in Seq({0, 1}), Len(m2) = Len(i2), LossWhole(i2, m2)
  PROVE  LossWhole(i \o i2, m \o m2)
<1>1. PICK c, d : c = i \o i2 /\ d = m \o m2
  OBVIOUS
<1>2. Joined(i, i2, c, Entry) /\ Joined(m, m2, d, {0, 1})
  BY <1>1, ConcatIs
<1>3. PICK a \in Nat, b \in Nat :
        /\ a = Len(i) /\ b = Len(i2) /\ Len(c) = a + b /\ Len(d) = a + b
        /\ DOMAIN i = 1..a /\ DOMAIN i2 = 1..b /\ DOMAIN c = 1..(a + b)
  BY <1>2 DEF Joined
<1>4. ASSUME NEW p \in 1..(a + b)
      PROVE  /\ d[p] = 0 => c[p].by \in {"latent", "retrieval"}
             /\ c[p].by = "latent" => c[p].tok = Sentinel
  <2>1. CASE p <= a
    <3>1. p \in 1..a /\ c[p] = i[p] /\ d[p] = m[p]
      BY <1>2, <1>3, <2>1 DEF Joined
    <3> QED
      BY <1>3, <3>1 DEF LossWhole
  <2>2. CASE ~(p <= a)
    <3>1. PICK q \in 1..b : p = a + q
      <4>1. p - a \in 1..b /\ p = a + (p - a)
        BY <2>2
      <4> QED
        BY <4>1
    <3>2. c[p] = i2[q] /\ d[p] = m2[q]
      BY <1>2, <1>3, <3>1 DEF Joined
    <3> QED
      BY <1>3, <3>1, <3>2 DEF LossWhole
  <2> QED
    BY <2>1, <2>2
<1> QED
  BY <1>1, <1>3, <1>4 DEF LossWhole

LEMMA AnswersJoined ==
  ASSUME NEW i \in Seq(Entry), NEW i2 \in Seq(Entry), AnswersLast(i, Len(i)),
         NEW m \in Int, m <= Len(i2), AnswersLast(i2, m)
  PROVE  AnswersLast(i \o i2, Len(i) + m)
<1>1. PICK c : c = i \o i2
  OBVIOUS
<1>2. Joined(i, i2, c, Entry)
  BY <1>1, ConcatIs
<1>3. PICK a \in Nat, b \in Nat : a = Len(i) /\ b = Len(i2)
  BY <1>2 DEF Joined
<1>4. ASSUME NEW p \in 1..(a + m), c[p].tok = Answer PROVE c[p].by = "retrieval"
  <2>1. CASE p <= a
    <3>1. p \in 1..a /\ c[p] = i[p]
      BY <1>2, <1>3, <2>1 DEF Joined
    <3> QED
      BY <1>3, <1>4, <3>1 DEF AnswersLast
  <2>2. CASE ~(p <= a)
    <3>1. PICK q \in 1..b : p = a + q /\ q \in 1..m
      <4>1. p - a \in 1..m /\ p - a \in 1..b /\ p = a + (p - a)
        BY <1>3, <2>2
      <4> QED
        BY <4>1
    <3>2. c[p] = i2[q]
      BY <1>2, <1>3, <3>1 DEF Joined
    <3> QED
      BY <1>4, <3>1, <3>2 DEF AnswersLast
  <2> QED
    BY <2>1, <2>2
<1> QED
  BY <1>1, <1>3, <1>4 DEF AnswersLast

LEMMA ReturnTInv ==
  ASSUME NEW i \in Seq(Entry), NEW m \in Seq({0, 1}), NEW l, NEW zs, Len(m) = Len(i),
         LossWhole(i, m), AnswersLast(i, Len(i) - 1), Return(i, m, l, zs)
  PROVE  TInv'
<1>1. PICK c, d : c = Cut(i) /\ d = Cut(m) /\ ids' = c /\ mask' = d /\ pc' = "done"
  BY DEF Return
<1>2. PICK n \in Nat : n = Len(i) /\ DOMAIN i = 1..n
  BY LenProperties
<1>3. PICK k \in Nat :
        /\ k = Len(c) /\ DOMAIN c = 1..k /\ k <= n
        /\ \A p \in 1..k : p \in 1..n /\ c[p] = i[p] /\ d[p] = m[p]
  <2>1. /\ Len(c) \in Nat /\ DOMAIN c = 1..Len(c)
        /\ Len(c) = IF ResponseLength < Len(i) THEN ResponseLength ELSE Len(i)
        /\ \A p \in DOMAIN c : p \in DOMAIN i /\ c[p] = i[p]
    BY <1>1, CutIs
  <2>2. /\ DOMAIN d = 1..Len(d)
        /\ Len(d) = IF ResponseLength < Len(m) THEN ResponseLength ELSE Len(m)
        /\ \A p \in DOMAIN d : d[p] = m[p]
    BY <1>1, CutIs
  <2>3. Len(d) = Len(c) /\ Len(c) <= n
    BY <1>2, <2>1, <2>2, AgentAssumption
  <2> QED
    BY <1>2, <2>1, <2>2, <2>3
<1>4. LossWhole(c, d)
  BY <1>2, <1>3 DEF LossWhole
<1>5. ASSUME NEW p \in 1..(k - 1), c[p].tok = Answer PROVE c[p].by = "retrieval"
  <2>1. p \in 1..k /\ p \in 1..(n - 1)
    BY <1>3
  <2> QED
    BY <1>2, <1>3, <1>5, <2>1 DEF AnswersLast
<1>6. AnswersLast(c, k - 1)
  BY <1>5 DEF AnswersLast
<1> QED
  BY <1>1, <1>3, <1>4, <1>6 DEF TInv

LEMMA FinishTInv == ASSUME IInv, TInv, Finish PROVE TInv'
<1>1. pc = "loop" /\ Return(ids, mask, logprobs, pairs)
  BY DEF Finish
<1>2. /\ ids \in Seq(Entry) /\ mask \in Seq({0, 1}) /\ Len(mask) = Len(ids) /\ Len(ids) \in Nat
      /\ LossWhole(ids, mask) /\ AnswersLast(ids, Len(ids))
  BY <1>1, LenProperties DEF IInv, Shape, TInv
<1>3. AnswersLast(ids, Len(ids) - 1)
  BY <1>2 DEF AnswersLast
<1> QED
  BY <1>1, <1>2, <1>3, ReturnTInv

LEMMA HarvestTInv == ASSUME IInv, CInv, TInv, LiteralsApart, Harvest PROVE TInv'
<1>1. PICK i, m, l :
        /\ i = ids \o Marked /\ m = mask \o ResponseMask(Tok(reply))
        /\ l = logprobs \o Column(Len(reply), ReportsLogProbs)
  OBVIOUS
<1>2. /\ pc = "harvest"
      /\ \/ Searches /\ ids' = i /\ mask' = m /\ pc' = "retrieving"
         \/ Return(i, m, l, pairs')
  BY <1>1 DEF Harvest
<1>3. /\ ids \in Seq(Entry) /\ mask \in Seq({0, 1}) /\ Len(mask) = Len(ids) /\ turn \in Nat
      /\ reply \in Seq(Said) /\ LatentIsBullet(reply) /\ LossFits(ids, mask)
      /\ LossWhole(ids, mask) /\ AnswersLast(ids, Len(ids))
  BY <1>2, AgentAssumption DEF IInv, Shape, ToHarvest, TInv
<1>4. PICK s \in Turns : reply = s.out
  BY <1>2 DEF CInv, WholeTurn
<1>5. PICK n \in Nat : n = Len(reply) /\ DOMAIN reply = 1..n
  BY <1>3, LenProperties
<1>6. PICK w, r : w = Marked /\ r = ResponseMask(Tok(reply))
  OBVIOUS
<1>7. /\ w \in Seq(Entry) /\ Len(w) = n /\ DOMAIN w = 1..n /\ r \in Seq({0, 1}) /\ Len(r) = n
      /\ \A q \in 1..n : w[q].tok = reply[q].tok /\ w[q].by = reply[q].by
      /\ LossFits(w, r)
  BY <1>3, <1>5, <1>6, MarkedIs
<1>8. ASSUME NEW p \in 1..n
      PROVE  /\ r[p] = 0 => w[p].by \in {"latent", "retrieval"}
             /\ w[p].by = "latent" => w[p].tok = Sentinel
  <2>1. r[p] = 0 => reply[p].by = "latent"
    BY <1>4, <1>5, <1>6, ReplyLoss
  <2> QED
    BY <1>3, <1>5, <1>7, <2>1 DEF LatentIsBullet
<1>9. LossWhole(w, r)
  BY <1>7, <1>8 DEF LossWhole
<1>10. /\ LossWhole(i, m) /\ i \in Seq(Entry) /\ m \in Seq({0, 1}) /\ Len(m) = Len(i)
       /\ Len(i) = Len(ids) + n /\ Len(ids) \in Nat
  <2>1. Joined(ids, w, i, Entry) /\ Joined(mask, r, m, {0, 1})
    BY <1>1, <1>3, <1>6, <1>7, ConcatIs
  <2>2. LossWhole(i, m)
    BY <1>1, <1>3, <1>6, <1>7, <1>9, LossWholeJoined
  <2> QED
    BY <1>3, <1>7, <2>1, <2>2 DEF Joined
<1>11. CASE Searches /\ ids' = i /\ mask' = m /\ pc' = "retrieving"
  <2>1. \A q \in 1..n : w[q].tok # Answer
    BY <1>5, <1>7, <1>11 DEF Searches, Says
  <2>2. AnswersLast(w, n)
    BY <2>1 DEF AnswersLast
  <2>3. AnswersLast(i, Len(ids) + n)
    BY <1>1, <1>3, <1>6, <1>7, <2>2, AnswersJoined
  <2> QED
    BY <1>10, <1>11, <2>3 DEF TInv
<1>12. CASE Return(i, m, l, pairs')
  <2>1. StopsLast(s.out, n)
    BY <1>4, <1>5, TurnsLaidOut DEF LaidOut
  <2>2. AnswersLast(w, n - 1)
    BY <1>4, <1>7, <2>1 DEF StopsLast, AnswersLast
  <2>3. n - 1 \in Int /\ n - 1 <= Len(w)
    BY <1>7
  <2>4. AnswersLast(i, Len(ids) + (n - 1))
    BY <1>1, <1>3, <1>6, <1>7, <2>2, <2>3, AnswersJoined
  <2>5. Len(ids) + (n - 1) = Len(i) - 1
    BY <1>10
  <2>6. AnswersLast(i, Len(i) - 1)
    BY <2>4, <2>5
  <2> QED
    BY <1>10, <1>12, <2>6, ReturnTInv
<1> QED
  BY <1>2, <1>11, <1>12

LEMMA RetrievedTInv == ASSUME IInv, TInv, Retrieved PROVE TInv'
<1> DEFINE Info(n, t) == Column(n, [tok |-> t, by |-> "retrieval", z |-> <<turn, 0>>])
<1>1. PICK n \in 1..MaxInfo, t \in InfoTokens :
        \/ Return(ids, mask, logprobs, pairs)
        \/ ids' = ids \o Info(n, t) /\ mask' = mask \o Column(n, 0) /\ pc' = "loop"
  BY Zenon DEF Retrieved
<1>2. pc = "retrieving"
  BY DEF Retrieved
<1>3. /\ ids \in Seq(Entry) /\ mask \in Seq({0, 1}) /\ Len(mask) = Len(ids) /\ turn \in Nat
      /\ n \in Nat /\ Len(ids) \in Nat
      /\ LossWhole(ids, mask) /\ AnswersLast(ids, Len(ids))
  BY <1>1, <1>2, AgentAssumption, LenProperties DEF IInv, Shape, TInv
<1>4. CASE Return(ids, mask, logprobs, pairs)
  <2>1. AnswersLast(ids, Len(ids) - 1)
    BY <1>3 DEF AnswersLast
  <2> QED
    BY <1>3, <1>4, <2>1, ReturnTInv
<1>5. CASE ids' = ids \o Info(n, t) /\ mask' = mask \o Column(n, 0) /\ pc' = "loop"
  <2>1. PICK e \in Entry : e = [tok |-> t, by |-> "retrieval", z |-> <<turn, 0>>]
    BY <1>3 DEF Entry
  <2>2. PICK info, zeros : info = Column(n, e) /\ zeros = Column(n, 0)
    OBVIOUS
  <2>3. ids' = ids \o info /\ mask' = mask \o zeros
    BY <1>5, <2>1, <2>2
  <2>4. /\ info \in Seq(Entry) /\ Len(info) = n /\ \A x \in 1..n : info[x] = e
        /\ zeros \in Seq({0, 1}) /\ Len(zeros) = n
    BY <1>3, <2>2, ColumnIs
  <2>5. LossWhole(info, zeros) /\ AnswersLast(info, n)
    <3>1. DOMAIN info = 1..n /\ e.by = "retrieval"
      BY <2>1, <2>4, LenProperties
    <3> QED
      BY <2>4, <3>1 DEF LossWhole, AnswersLast
  <2>6. LossWhole(ids \o info, mask \o zeros)
    BY <1>3, <2>4, <2>5, LossWholeJoined
  <2>7. AnswersLast(ids \o info, Len(ids) + n)
    BY <1>3, <2>4, <2>5, AnswersJoined
  <2>8. Len(ids \o info) = Len(ids) + n
    <3>1. Joined(ids, info, ids \o info, Entry)
      BY <1>3, <2>4, ConcatIs
    <3> QED
      BY <2>4, <3>1 DEF Joined
  <2> QED
    BY <1>5, <2>3, <2>6, <2>7, <2>8 DEF TInv
<1> QED
  BY <1>1, <1>4, <1>5

LEMMA NextTInv == ASSUME IInv, CInv, TInv, LiteralsApart, [Next]_vars PROVE TInv'
<1>1. ASSUME UNCHANGED <<ids, mask>>, pc # "done", pc' # "done" PROVE TInv'
  BY <1>1 DEF TInv
<1>2. CASE UNCHANGED vars
  BY <1>2 DEF TInv, vars
<1>3. ASSUME Generate PROVE TInv'
  BY <1>1, <1>3 DEF Generate
<1>4. ASSUME EngineReplies PROVE TInv'
  BY <1>1, <1>4 DEF EngineReplies
<1>5. Terminated => UNCHANGED vars
  BY DEF Terminated
<1> QED
  BY <1>2, <1>3, <1>4, <1>5, HarvestTInv, RetrievedTInv, FinishTInv DEF Next

LEMMA InitTInv == Init => TInv
<1> SUFFICES ASSUME Init PROVE TInv
  OBVIOUS
<1>1. DOMAIN <<>> = {} /\ Len(<<>>) = 0
  BY EmptySeq
<1> QED
  BY <1>1 DEF Init, TInv, LossWhole, AnswersLast

\* Where a rollout says what an SFT example says, both are trained on alike, wherever
\* either is cut, if an example's bullets and literals are no other words.
THEOREM SameTraining ==
  ASSUME ExamplesApart
  PROVE  Spec => []TrainedAlike
<1>1. LiteralsApart /\ BulletApart
  BY DEF ExamplesApart
<1>2. IInv /\ CInv /\ TInv => TrainedAlike
  <2> SUFFICES ASSUME IInv, CInv, TInv, pc = "done", NEW x \in Examples,
                      Len(ids) <= Len(x.ids), \A p \in DOMAIN ids : SaysAt(x, p),
                      NEW p \in DOMAIN ids
               PROVE  x.loss[p] = mask[p] /\ (x.what[p] = "latent" <=> ids[p].by = "latent")
    BY DEF TrainedAlike
  <2>1. PICK l \in Nat \ {0}, k \in Nat \ {0} : l = OpenLen /\ k = K
    BY Lengths
  <2>2. PICK n \in Nat : /\ n = Len(ids) /\ DOMAIN ids = 1..n /\ DOMAIN mask = 1..n
                         /\ ids \in Seq(Entry) /\ mask \in Seq({0, 1})
    BY LenProperties DEF IInv, Shape
  <2>3. /\ Context(ids, n) /\ LossWhole(ids, mask) /\ AnswersLast(ids, n - 1)
        /\ LossFits(ids, mask)
    BY <2>2 DEF CInv, TInv, IInv
  <2>4. PICK m \in Nat : WellMade(x, m)
    BY <1>1, ExamplesMade DEF Made
  <2>5. p \in 1..n /\ p \in 1..m /\ mask[p] \in {0, 1}
    BY <2>2, <2>4, ElementOfSeq DEF WellMade, Columns
  <2>6. Well(x, p) /\ x.what[p] \in Kinds
    <3>1. x.what \in Seq(Kinds) /\ DOMAIN x.what = 1..m
      BY <2>4, LenProperties DEF WellMade, Columns
    <3> QED
      BY <2>4, <2>5, <3>1, ElementOfSeq DEF WellMade
  <2>7. \A q \in 1..n : x.ids[q] = ids[q].tok /\ (x.what[q] = "docs" <=> ids[q].by = "retrieval")
    BY <2>2 DEF SaysAt
  <2>8. ASSUME x.what[p] = "latent" PROVE ids[p].by = "latent"
    <3>1. PICK e \in 1..p : SpeltTo(x, e) /\ p - e \in 1..k
      BY <2>1, <2>6, <2>8 DEF Well, LatentWell
    <3>2. e >= l /\ \A y \in 1..l : x.ids[e - l + y] = OpenIds[y]
      BY <2>1, <3>1 DEF SpeltTo
    <3>3. ASSUME NEW y \in 1..l PROVE ids[e - l + y].tok = OpenIds[y]
      <4>1. e - l + y \in 1..n
        BY <2>5, <3>2
      <4> QED
        BY <2>7, <3>2, <4>1
    <3>4. LiteralAt(ids, e) /\ e \in 1..n
      BY <2>1, <2>5, <3>2, <3>3 DEF LiteralAt
    <3>5. PICK d \in 1..k : d = p - e /\ e + d = p /\ e + d <= n
      BY <2>5, <3>1
    <3> QED
      BY <2>1, <2>3, <3>4, <3>5 DEF Context
  <2>9. ASSUME ids[p].by = "latent" PROVE x.what[p] = "latent"
    <3>1. ids[p].tok = Sentinel /\ ids[p].by # "retrieval"
      BY <2>3, <2>9 DEF LossWhole
    <3>2. x.ids[p] = Sentinel /\ x.what[p] # "docs"
      BY <2>5, <2>7, <3>1
    <3> QED
      BY <2>6, <3>2 DEF Well, TextWell, Kinds
  <2>10. CASE x.what[p] = "latent"
    <3>1. mask[p] # 1 /\ x.loss[p] = 0
      BY <2>3, <2>6, <2>8, <2>10 DEF LossFits, Well, LatentWell
    <3> QED
      BY <2>5, <2>8, <2>10, <3>1
  <2>11. CASE x.what[p] = "docs"
    <3>1. mask[p] # 1 /\ x.loss[p] = 0
      BY <2>3, <2>5, <2>6, <2>7, <2>11 DEF LossFits, Well, DocsWell
    <3> QED
      BY <2>5, <2>9, <2>11, <3>1
  <2>12. CASE x.what[p] = "text"
    <3>1. mask[p] = 1
      BY <2>3, <2>5, <2>7, <2>9, <2>12 DEF LossWhole
    <3>2. ASSUME p > 1, x.ids[p - 1] = Answer, x.what[p - 1] = "text" PROVE FALSE
      <4>1. PICK q \in 1..n : q = p - 1 /\ q \in 1..(n - 1)
        BY <2>5, <3>2
      <4>2. ids[q].tok = Answer /\ ids[q].by # "retrieval"
        BY <2>7, <3>2, <4>1
      <4> QED
        BY <2>3, <4>1, <4>2 DEF AnswersLast
    <3>3. x.loss[p] = 1
      BY <2>6, <2>12, <3>2 DEF Well, TextWell
    <3> QED
      BY <2>9, <2>12, <3>1, <3>3
  <2> QED
    BY <2>6, <2>10, <2>11, <2>12 DEF Kinds
<1>3. IInv /\ CInv /\ [Next]_vars => CInv'
  BY <1>1, NextCInv
<1>4. IInv /\ CInv /\ TInv /\ [Next]_vars => TInv'
  BY <1>1, NextTInv
<1> QED
  BY <1>2, <1>3, <1>4, InitCInv, InitTInv, RolloutInvariance, PTL DEF Spec
=============================================================================
