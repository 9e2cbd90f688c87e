--------------------------- MODULE TraceGenProofs ---------------------------
(***************************************************************************)
(* The trace generator of TraceGen, for any dataset (questions may repeat),*)
(* chunk size and number of turns, and any number of crashes, each with    *)
(* any part of the buffer in the file.                                     *)
(***************************************************************************)
EXTENDS TraceGen, TLAPS, SequenceTheorems

-----------------------------------------------------------------------------
(* The inductive invariant *)

Kinds == {"whole", "torn", "unended", "joined"}
Trace(kinds) ==
  {l \in [row : Row, question : STRING, answered : BOOLEAN, kind : kinds] :
     l.question = Questions[l.row]}
Records == Trace({"new"})
Lines == Trace(Kinds)

Complete(line) == line.kind \in {"whole", "joined"}
OnDisk(f, i) == \E j \in DOMAIN f : f[j].row = i /\ Complete(f[j])
ReadRows(f) == {f[j].row : j \in ReadableLines(f)}
Once(f) == \A j, k \in ReadableLines(f) : j # k => f[j].row # f[k].row

RowsOf(recs) == {recs[k].row : k \in DOMAIN recs}
Distinct(recs) == \A k, l \in DOMAIN recs : k # l => recs[k].row # recs[l].row
Queued == {q.row : q \in queue}

\* The chunk the run is in, and those it has not begun.
Present == ChunkRows(todo, chunk)
Later(i) == \E ci \in Nat : ci > chunk /\ i \in ChunkRows(todo, ci)

Running == {"turn", "write", "rest"}

Shape ==
  /\ pc \in Running \cup {"off", "done"}
  /\ file \in Seq(Lines) /\ buffer \in Seq(Records)
  /\ todo \subseteq Row /\ chunk \in Nat
  /\ active \subseteq Present
  /\ queue \subseteq [row : Present, answered : BOOLEAN]
  /\ pc # "write" => queue = {}
  /\ pc \notin Running => buffer = <<>> /\ active = {}
  /\ pc = "off" => chunk = 0

\* A row of the chunk is in one place at most,
Apart ==
  /\ Distinct(buffer) /\ RowsOf(buffer) \subseteq Present
  /\ \A p, q \in queue : p.row = q.row => p = q
  /\ active \cap Queued = {} /\ active \cap RowsOf(buffer) = {}
  /\ Queued \cap RowsOf(buffer) = {}

\* and in one at least, the file among them.
Accounted ==
  pc \in Running =>
    \A i \in Present : i \in active \cup Queued \cup RowsOf(buffer) \/ OnDisk(file, i)

\* Nothing that is still to be written can be read in the file.
Unwritten ==
  /\ ReadRows(file) \cap (active \cup Queued \cup RowsOf(buffer)) = {}
  /\ pc # "off" => \A i \in todo : Later(i) => i \notin ReadRows(file)

IInv == Shape /\ Apart /\ Accounted /\ Unwritten /\ RowOnce /\ EarlierChunksOnDisk
-----------------------------------------------------------------------------
(* The file *)

\* No complete line moves.
Keeps(f, g) == \A j \in DOMAIN f : Complete(f[j]) => j \in DOMAIN g /\ g[j] = f[j]

\* What is readable was so before, or is one of the records, which begin after b lines.
ReadsOf(f, g, b, recs) ==
  \A j \in ReadableLines(g) :
    \/ j \in ReadableLines(f) /\ g[j] = f[j]
    \/ j - b \in DOMAIN recs /\ g[j].row = recs[j - b].row
ReadsLast(f, g, rec) ==
  \A j \in ReadableLines(g) :
    \/ j \in ReadableLines(f) /\ g[j] = f[j]
    \/ j = Len(g) /\ g[j].row = rec.row

HasRecord(f, j, rec) == j \in DOMAIN f /\ f[j].row = rec.row /\ Complete(f[j])

\* What one record, whole or cut, does to a file: nothing complete moves, one line
\* at most becomes readable, and a whole record is in it.
LEMMA AppendLineKeeps ==
  ASSUME NEW f \in Seq(Lines), NEW rec \in Records,
         NEW kind \in {"whole", "torn", "unended"}, NEW g, g = AppendLine(f, rec, kind)
  PROVE  /\ g \in Seq(Lines) /\ Len(g) \in {Len(f), Len(f) + 1}
         /\ Keeps(f, g) /\ ReadsLast(f, g, rec)
         /\ kind = "whole" => HasRecord(g, Len(g), rec)
<1> DEFINE cut == f # <<>> /\ f[Len(f)].kind \in {"torn", "unended"}
           mark == IF kind = "whole" THEN "joined" ELSE "torn"
<1>1. \A k \in Kinds : /\ [rec EXCEPT !.kind = k] \in Lines
                       /\ [rec EXCEPT !.kind = k].kind = k
                       /\ [rec EXCEPT !.kind = k].row = rec.row
  BY DEF Lines, Records, Trace
<1>2. CASE cut
  <2> DEFINE line == [rec EXCEPT !.kind = mark]
  <2>1. g = [f EXCEPT ![Len(f)] = line]
    BY <1>2 DEF AppendLine
  <2>2. line \in Lines /\ line.kind = mark /\ line.row = rec.row
    BY <1>1 DEF Kinds
  <2> HIDE DEF line
  <2>3. Len(f) \in Nat /\ Len(f) \in 1..Len(f) /\ DOMAIN f = 1..Len(f)
    BY <1>2, EmptySeq, LenProperties
  <2>4. g \in Seq(Lines) /\ Len(g) = Len(f) /\ DOMAIN g = DOMAIN f
    <3>1. g \in Seq(Lines) /\ Len(g) = Len(f)
      BY <2>1, <2>2, <2>3, ExceptSeq
    <3> QED
      BY <2>3, <3>1, LenProperties
  <2>5. \A j \in DOMAIN f : g[j] = IF j = Len(f) THEN line ELSE f[j]
    BY <2>1, Zenon
  <2>6. Keeps(f, g)
    BY <1>2, <2>4, <2>5 DEF Keeps, Complete
  <2>7. ReadsLast(f, g, rec)
    BY <2>2, <2>4, <2>5 DEF ReadsLast, ReadableLines, Readable
  <2>8. kind = "whole" => HasRecord(g, Len(g), rec)
    BY <2>2, <2>3, <2>4, <2>5 DEF HasRecord, Complete
  <2> QED
    BY <2>4, <2>6, <2>7, <2>8
<1>3. CASE ~cut
  <2> DEFINE line == [rec EXCEPT !.kind = kind]
  <2>1. g = Append(f, line)
    BY <1>3 DEF AppendLine
  <2>2. line \in Lines /\ line.kind = kind /\ line.row = rec.row
    BY <1>1 DEF Kinds
  <2> HIDE DEF line
  <2>3. /\ g \in Seq(Lines) /\ Len(g) = Len(f) + 1 /\ g[Len(g)] = line
        /\ \A j \in DOMAIN f : j \in DOMAIN g /\ g[j] = f[j]
        /\ \A j \in DOMAIN g : j \in DOMAIN f \/ j = Len(g)
        /\ Len(g) \in DOMAIN g
    <3>1. /\ g \in Seq(Lines) /\ Len(g) = Len(f) + 1 /\ Len(f) \in Nat
          /\ DOMAIN g = 1..Len(g) /\ DOMAIN f = 1..Len(f)
      BY <2>1, <2>2
    <3>2. g[Len(f) + 1] = line
      BY <2>1, <2>2
    <3>3. \A j \in DOMAIN f : g[j] = f[j]
      BY <2>1, <2>2
    <3> QED
      BY <3>1, <3>2, <3>3
  <2>4. Keeps(f, g) /\ ReadsLast(f, g, rec)
    BY <2>2, <2>3 DEF Keeps, ReadsLast, ReadableLines, Readable
  <2>5. kind = "whole" => HasRecord(g, Len(g), rec)
    BY <2>2, <2>3 DEF HasRecord, Complete
  <2> QED
    BY <2>3, <2>4, <2>5
<1> QED
  BY <1>2, <1>3

\* Several records: they are the last lines of the file, in their order.
LEMMA AppendLinesKeeps ==
  ASSUME NEW f \in Seq(Lines), NEW recs \in Seq(Records), NEW h, h = AppendLines(f, recs)
  PROVE  /\ h \in Seq(Lines) /\ Keeps(f, h)
         /\ \E b \in Nat : /\ ReadsOf(f, h, b, recs)
                          /\ \A k \in DOMAIN recs : HasRecord(h, b + k, recs[k])
<1>1. CASE recs = <<>>
  BY <1>1 DEF AppendLines, Keeps, ReadsOf
<1>2. CASE recs # <<>>
  <2>1. PICK m \in Nat : Len(recs) = m + 1
    <3>1. Len(recs) \in Nat /\ Len(recs) # 0
      BY <1>2, EmptySeq
    <3> QED
      BY <3>1
  <2>2. recs[1] \in Records /\ \A j \in 1..m : recs[j + 1] \in Records
    BY <2>1, ElementOfSeq
  <2> DEFINE g == AppendLine(f, recs[1], "whole")
             tail == [j \in 1..m |-> [recs[j + 1] EXCEPT !.kind = "whole"]]
  <2>3. h = g \o tail
    BY <1>2, <2>1 DEF AppendLines
  <2>4. /\ g \in Seq(Lines) /\ Keeps(f, g) /\ ReadsLast(f, g, recs[1])
        /\ HasRecord(g, Len(g), recs[1])
    <3> HIDE DEF g
    <3>1. PICK kind \in {"whole", "torn", "unended"} : kind = "whole"
      OBVIOUS
    <3>2. g = AppendLine(f, recs[1], kind)
      BY <3>1 DEF g
    <3> QED
      BY <2>2, <3>1, <3>2, AppendLineKeeps
  <2>5. \A j \in 1..m : /\ tail[j] \in Lines /\ tail[j].row = recs[j + 1].row
                        /\ tail[j].kind = "whole"
    BY <2>2 DEF Lines, Records, Trace, Kinds
  <2>6. tail \in Seq(Lines) /\ Len(tail) = m /\ DOMAIN tail = 1..m
    <3>1. tail \in [1..m -> Lines]
      BY <2>5
    <3> HIDE DEF tail
    <3>2. tail \in UNION {[1..l -> Lines] : l \in Nat}
      BY <2>1, <3>1
    <3>3. tail \in Seq(Lines)
      BY <3>2, SeqDef
    <3> QED
      BY <2>1, <3>1, <3>3
  <2> HIDE DEF g, tail
  <2>7. PICK n \in Nat : Len(g) = n + 1 /\ DOMAIN g = 1..(n + 1)
    <3>1. Len(g) \in Nat /\ Len(g) \in 1..Len(g) /\ DOMAIN g = 1..Len(g)
      BY <2>4, LenProperties DEF HasRecord
    <3>2. Len(g) - 1 \in Nat /\ Len(g) = Len(g) - 1 + 1
      BY <3>1
    <3> QED
      BY <3>1, <3>2
  <2>8. /\ h \in Seq(Lines) /\ DOMAIN h = 1..(n + 1 + m)
        /\ \A j \in 1..(n + 1) : h[j] = g[j]
        /\ \A j \in (n + 2)..(n + 1 + m) : h[j] = tail[j - (n + 1)]
    <3>1. /\ h \in Seq(Lines) /\ Len(h) = Len(g) + Len(tail)
          /\ \A j \in 1..(Len(g) + Len(tail)) :
               h[j] = IF j <= Len(g) THEN g[j] ELSE tail[j - Len(g)]
      <4>1. g \in Seq(Lines) /\ tail \in Seq(Lines)
        BY <2>4, <2>6
      <4> QED
        BY <2>3, <4>1, ConcatProperties, Zenon
    <3>2. DOMAIN h = 1..Len(h)
      BY <3>1, LenProperties
    <3> QED
      BY <2>1, <2>6, <2>7, <3>1, <3>2
  <2>9. Keeps(f, h)
    BY <2>4, <2>7, <2>8 DEF Keeps
  <2>10. ReadsOf(f, h, n, recs)
    <3> SUFFICES ASSUME NEW j \in ReadableLines(h)
                 PROVE  \/ j \in ReadableLines(f) /\ h[j] = f[j]
                        \/ j - n \in DOMAIN recs /\ h[j].row = recs[j - n].row
      BY DEF ReadsOf
    <3>1. j \in DOMAIN h /\ Readable(h[j]) /\ DOMAIN recs = 1..(m + 1)
      BY <2>1 DEF ReadableLines
    <3>2. CASE j \in 1..(n + 1)
      <4>1. j \in ReadableLines(g) /\ h[j] = g[j]
        BY <2>7, <2>8, <3>1, <3>2 DEF ReadableLines
      <4>2. CASE j = Len(g) /\ g[j].row = recs[1].row
        <5>1. j - n = 1 /\ 1 \in 1..(m + 1)
          BY <2>1, <2>7, <4>2
        <5> QED
          BY <3>1, <4>1, <4>2, <5>1
      <4> QED
        BY <2>4, <4>1, <4>2 DEF ReadsLast
    <3>3. CASE j \in (n + 2)..(n + 1 + m)
      <4>1. j - (n + 1) \in 1..m /\ j - (n + 1) + 1 = j - n /\ j - n \in 1..(m + 1)
        BY <2>1, <2>7, <3>3
      <4>2. h[j] = tail[j - (n + 1)]
        BY <2>8, <3>3
      <4>3. tail[j - (n + 1)].row = recs[j - (n + 1) + 1].row
        BY <2>5, <4>1
      <4>4. h[j].row = recs[j - n].row
        BY <4>1, <4>2, <4>3
      <4> QED
        BY <3>1, <4>1, <4>4
    <3> QED
      BY <2>8, <3>1, <3>2, <3>3
  <2>11. \A k \in DOMAIN recs : HasRecord(h, n + k, recs[k])
    <3> SUFFICES ASSUME NEW k \in 1..(m + 1) PROVE HasRecord(h, n + k, recs[k])
      BY <2>1
    <3>1. CASE k = 1
      BY <2>4, <2>7, <2>8, <3>1 DEF HasRecord
    <3>2. CASE k # 1
      <4>1. /\ n + k \in (n + 2)..(n + 1 + m) /\ n + k \in 1..(n + 1 + m)
            /\ n + k - (n + 1) = k - 1 /\ k - 1 \in 1..m /\ k - 1 + 1 = k
        BY <3>2
      <4>2. h[n + k] = tail[n + k - (n + 1)]
        BY <2>8, <4>1
      <4>3. h[n + k] = tail[k - 1]
        BY <4>1, <4>2
      <4>4. tail[k - 1].row = recs[k].row /\ tail[k - 1].kind = "whole"
        BY <2>5, <4>1
      <4>5. n + k \in DOMAIN h
        BY <2>8, <4>1
      <4> QED
        BY <4>3, <4>4, <4>5 DEF HasRecord, Complete
    <3> QED
      BY <3>1, <3>2
  <2> QED
    BY <2>8, <2>9, <2>10, <2>11
<1> QED
  BY <1>1, <1>2

\* Flushing records of different rows, none of them readable yet, makes them and only
\* them readable, once each, and puts each of them on disk.
LEMMA FlushedOnce ==
  ASSUME NEW f \in Seq(Lines), NEW recs \in Seq(Records), NEW h, h = AppendLines(f, recs),
         Once(f), Distinct(recs), ReadRows(f) \cap RowsOf(recs) = {}
  PROVE  /\ h \in Seq(Lines) /\ Keeps(f, h) /\ Once(h)
         /\ ReadRows(h) \subseteq ReadRows(f) \cup RowsOf(recs)
         /\ \A i \in RowsOf(recs) : OnDisk(h, i)
<1>1. /\ h \in Seq(Lines) /\ Keeps(f, h)
      /\ \E b \in Nat : /\ ReadsOf(f, h, b, recs)
                        /\ \A k \in DOMAIN recs : HasRecord(h, b + k, recs[k])
  BY AppendLinesKeeps
<1>2. PICK b \in Nat : /\ ReadsOf(f, h, b, recs)
                       /\ \A k \in DOMAIN recs : HasRecord(h, b + k, recs[k])
  BY <1>1
<1>3. \A j \in ReadableLines(h) :
        \/ j \in ReadableLines(f) /\ h[j] = f[j] /\ h[j].row \in ReadRows(f)
        \/ /\ j - b \in DOMAIN recs /\ h[j].row = recs[j - b].row
           /\ h[j].row \in RowsOf(recs)
  BY <1>2 DEF ReadsOf, ReadRows, RowsOf
<1>4. Once(h)
  <2> SUFFICES ASSUME NEW j \in ReadableLines(h), NEW k \in ReadableLines(h), j # k
               PROVE  h[j].row # h[k].row
    BY DEF Once
  <2>1. j \in Int /\ k \in Int /\ j - b # k - b
    <3>1. j \in DOMAIN h /\ k \in DOMAIN h /\ DOMAIN h = 1..Len(h)
      BY <1>1, LenProperties DEF ReadableLines
    <3> QED
      BY <3>1
  <2>2. j \in ReadableLines(f) /\ k \in ReadableLines(f) => f[j].row # f[k].row
    BY DEF Once
  <2>3. j - b \in DOMAIN recs /\ k - b \in DOMAIN recs => recs[j - b].row # recs[k - b].row
    BY <2>1 DEF Distinct
  <2>4. CASE j \in ReadableLines(f) /\ h[j] = f[j] /\ h[j].row \in ReadRows(f)
    BY <1>3, <2>2, <2>4
  <2>5. CASE j - b \in DOMAIN recs /\ h[j].row = recs[j - b].row /\ h[j].row \in RowsOf(recs)
    BY <1>3, <2>3, <2>5
  <2> QED
    BY <1>3, <2>4, <2>5
<1>5. ReadRows(h) \subseteq ReadRows(f) \cup RowsOf(recs)
  BY <1>3 DEF ReadRows
<1>6. \A i \in RowsOf(recs) : OnDisk(h, i)
  BY <1>2 DEF RowsOf, OnDisk, HasRecord
<1> QED
  BY <1>1, <1>4, <1>5, <1>6

\* So does the record that a crash cuts, if it can still be read.
LEMMA CutOnce ==
  ASSUME NEW f \in Seq(Lines), NEW rec \in Records, NEW kind \in {"torn", "unended"},
         NEW g, g = AppendLine(f, rec, kind), Once(f), rec.row \notin ReadRows(f)
  PROVE  g \in Seq(Lines) /\ Keeps(f, g) /\ Once(g)
<1>1. g \in Seq(Lines) /\ Keeps(f, g) /\ ReadsLast(f, g, rec)
  BY AppendLineKeeps
<1>2. \A j \in ReadableLines(g) :
        \/ j \in ReadableLines(f) /\ g[j] = f[j] /\ g[j].row \in ReadRows(f)
        \/ j = Len(g) /\ g[j].row = rec.row
  BY <1>1 DEF ReadsLast, ReadRows
<1>3. Once(g)
  BY <1>2 DEF Once
<1> QED
  BY <1>1, <1>3

LEMMA StaysOnDisk ==
  ASSUME NEW f, NEW g, Keeps(f, g), NEW i, OnDisk(f, i)
  PROVE  OnDisk(g, i)
BY DEF Keeps, OnDisk

LEMMA RecordOf ==
  ASSUME NEW i \in Row, NEW answered \in BOOLEAN
  PROVE  Record(i, answered) \in Records /\ Record(i, answered).row = i
<1>1. Questions[i] \in STRING
  BY TraceGenAssumption DEF Row
<1> QED
  BY <1>1 DEF Record, Records, Trace

LEMMA Buffered ==
  ASSUME NEW recs \in Seq(Records), Distinct(recs), NEW rec \in Records,
         rec.row \notin RowsOf(recs), NEW more, more = Append(recs, rec)
  PROVE  /\ more \in Seq(Records) /\ Distinct(more)
         /\ RowsOf(more) = RowsOf(recs) \cup {rec.row}
<1>1. /\ more \in Seq(Records) /\ DOMAIN more = DOMAIN recs \cup {Len(recs) + 1}
      /\ more[Len(recs) + 1] = rec
  OBVIOUS
<1>2. \A k \in DOMAIN recs : more[k] = recs[k]
  OBVIOUS
<1>3. RowsOf(more) = RowsOf(recs) \cup {rec.row}
  BY <1>1, <1>2 DEF RowsOf
<1>4. Distinct(more)
  BY <1>1, <1>2 DEF Distinct, RowsOf
<1> QED
  BY <1>1, <1>3, <1>4

LEMMA NothingBuffered == Distinct(<<>>) /\ RowsOf(<<>>) = {}
BY DEF Distinct, RowsOf

\* A record of a row that is still to be written is none that is on disk.
LEMMA RowsAndQuestions ==
  ASSUME Shape, NEW i \in Row, Questions[i] \notin DoneQuestions
  PROVE  i \notin ReadRows(file)
<1>1. \A j \in ReadableLines(file) : file[j].question = Questions[file[j].row]
  BY DEF Shape, ReadableLines, Lines, Trace
<1> QED
  BY <1>1 DEF ReadRows, DoneQuestions

-----------------------------------------------------------------------------
(* The steps *)

LEMMA InitIInv == Init => IInv
<1> SUFFICES ASSUME Init PROVE IInv
  OBVIOUS
<1>1. DOMAIN file = {} /\ Present = {}
  BY DEF Init, Present, ChunkRows
<1>2. Shape
  BY EmptySeq DEF Init, Shape, Running
<1>3. Apart
  BY NothingBuffered DEF Init, Apart, Queued
<1>4. Accounted /\ EarlierChunksOnDisk
  BY DEF Init, Accounted, EarlierChunksOnDisk, Running
<1>5. Unwritten /\ RowOnce
  BY <1>1 DEF Init, Unwritten, RowOnce, ReadRows, ReadableLines
<1> QED
  BY <1>2, <1>3, <1>4, <1>5 DEF IInv

\* A run takes up the questions that cannot be read.
LEMMA StartIInv == ASSUME IInv, Start PROVE IInv'
<1>1. /\ Shape /\ pc = "off" /\ buffer = <<>> /\ active = {} /\ queue = {} /\ chunk = 0
      /\ buffer' = <<>> /\ queue' = {} /\ chunk' = 0
  BY DEF IInv, Shape, Start, Running
<1>2. file' = file \/ (file' = <<>> /\ ReadableLines(file') = {})
  BY DEF Start, Opened, ReadableLines
<1>3. ReadRows(file') \subseteq ReadRows(file)
  BY <1>2 DEF ReadRows
<1>4. /\ todo' \subseteq Row /\ \A i \in todo' : i \notin ReadRows(file')
      /\ active' = Present' /\ Present' \subseteq todo'
  <2>1. \A i \in todo' : i \in Row /\ i \notin ReadRows(file)
    BY <1>1, RowsAndQuestions DEF Start
  <2> QED
    BY <1>1, <1>3, <2>1 DEF Start, Present, ChunkRows
<1>5. pc' \in {"turn", "done"} /\ (pc' = "done" => todo' = {})
  BY DEF Start
<1>6. Shape'
  <2>1. file' \in Seq(Lines)
    BY <1>1, <1>2, EmptySeq DEF Shape
  <2> QED
    BY <1>1, <1>4, <1>5, <2>1, EmptySeq DEF Shape, Running
<1>7. Apart'
  BY <1>1, NothingBuffered DEF Apart, Queued
<1>8. Accounted'
  BY <1>4 DEF Accounted
<1>9. Unwritten'
  BY <1>1, <1>4, NothingBuffered DEF Unwritten, Queued, Later, ChunkRows
<1>10. RowOnce'
  BY <1>2 DEF IInv, RowOnce
<1>11. EarlierChunksOnDisk'
  BY <1>1 DEF EarlierChunksOnDisk
<1> QED
  BY <1>6, <1>7, <1>8, <1>9, <1>10, <1>11 DEF IInv

\* A turn moves the rows that end from active to the queue.
LEMMA GenerateIInv == ASSUME IInv, Generate PROVE IInv'
<1>1. PICK end \in [active -> Ends] :
        /\ queue' = Finished(end)
        /\ active' = {i \in active : end[i] = "search"}
  BY DEF Generate
<1>2. /\ pc = "turn" /\ pc' = "write" /\ queue = {}
      /\ file' = file /\ buffer' = buffer /\ todo' = todo /\ chunk' = chunk
      /\ Present' = Present
  BY DEF IInv, Shape, Generate, Present
<1>3. /\ Queued' = active \ active' /\ active' \subseteq active /\ Queued = {}
      /\ \A p, q \in queue' : p.row = q.row => p = q
      /\ queue' \subseteq [row : active, answered : BOOLEAN]
  <2>1. queue' = {[row |-> i, answered |-> end[i] = "answer"] : i \in active \ active'}
    BY <1>1 DEF Finished
  <2> DEFINE entry(i) == [row |-> i, answered |-> end[i] = "answer"]
  <2>2. \A i \in active \ active' : entry(i) \in queue' /\ entry(i).row = i
    BY <2>1
  <2>3. \A q \in queue' : \E i \in active \ active' : q = entry(i) /\ q.row = i
    BY <2>1
  <2>4. queue' \subseteq [row : active, answered : BOOLEAN]
    <3>1. \A i \in active : entry(i) \in [row : active, answered : BOOLEAN]
      OBVIOUS
    <3> HIDE DEF entry
    <3> QED
      BY <2>3, <3>1
  <2> HIDE DEF entry
  <2>5. Queued' = active \ active'
    <3>1. \A i \in active \ active' : i \in Queued'
      BY <2>2 DEF Queued
    <3>2. \A q \in queue' : q.row \in active \ active'
      BY <2>3
    <3> QED
      BY <3>1, <3>2 DEF Queued
  <2>6. \A p, q \in queue' : p.row = q.row => p = q
    BY <2>3
  <2> QED
    BY <1>1, <1>2, <2>5, <2>6, <2>4 DEF Queued
<1>4. Shape'
  <2>1. active \subseteq Present
    BY DEF IInv, Shape
  <2>2. queue' \subseteq [row : Present, answered : BOOLEAN]
    BY <1>3, <2>1
  <2> QED
    BY <1>2, <1>3, <2>1, <2>2 DEF IInv, Shape, Running
<1>5. Apart'
  BY <1>2, <1>3 DEF IInv, Apart
<1>6. Accounted'
  BY <1>2, <1>3 DEF IInv, Accounted, Running
<1>7. Unwritten'
  BY <1>2, <1>3 DEF IInv, Unwritten, Later
<1>8. RowOnce' /\ EarlierChunksOnDisk'
  BY <1>2 DEF IInv, RowOnce, EarlierChunksOnDisk
<1> QED
  BY <1>4, <1>5, <1>6, <1>7, <1>8 DEF IInv


\* The least row of the queue goes to the buffer, or with the buffer to the file.
LEMMA WriteIInv == ASSUME IInv, Write PROVE IInv'
<1>1. PICK q \in queue :
        /\ LET written == Append(buffer, Record(q.row, q.answered))
           IN  IF (total + 1) % ChunkSize = 0
               THEN file' = AppendLines(file, written) /\ buffer' = <<>>
               ELSE buffer' = written /\ UNCHANGED file
        /\ queue' = queue \ {q}
  BY DEF Write
<1>2. /\ pc = "write" /\ pc' = "write" /\ active' = active /\ todo' = todo /\ chunk' = chunk
      /\ Present' = Present
  BY DEF Write, Present
<1>3. /\ Shape /\ Apart /\ Accounted /\ Unwritten /\ Once(file)
  BY DEF IInv, RowOnce, Once
<1>4. /\ q.row \in Queued /\ q.row \in Row /\ q.answered \in BOOLEAN /\ q.row \in Present
      /\ q.row \notin RowsOf(buffer) /\ Queued' = Queued \ {q.row}
  <2>1. q.row \in Present /\ q.answered \in BOOLEAN /\ Present \subseteq Row
    BY <1>3 DEF Shape, Present, ChunkRows
  <2>2. q.row \in Queued /\ Queued' = Queued \ {q.row}
    BY <1>1, <1>3 DEF Queued, Apart
  <2> QED
    BY <1>3, <2>1, <2>2 DEF Apart
<1> DEFINE rec == Record(q.row, q.answered)
           written == Append(buffer, rec)
<1>5. rec \in Records /\ rec.row = q.row
  BY <1>4, RecordOf
<1>6. IF (total + 1) % ChunkSize = 0
      THEN file' = AppendLines(file, written) /\ buffer' = <<>>
      ELSE buffer' = written /\ file' = file
  BY <1>1
<1> HIDE DEF rec
<1>7. /\ written \in Seq(Records) /\ Distinct(written)
      /\ RowsOf(written) = RowsOf(buffer) \cup {q.row}
  BY <1>3, <1>4, <1>5, Buffered DEF Shape, Apart
<1> HIDE DEF written
<1>8. ReadRows(file) \cap RowsOf(written) = {}
  BY <1>3, <1>4, <1>7 DEF Unwritten
  \* In both cases the row has left the queue and is in the buffer or on disk.
<1>9. /\ file' \in Seq(Lines) /\ Keeps(file, file') /\ Once(file')
      /\ buffer' \in Seq(Records) /\ Distinct(buffer')
      /\ RowsOf(buffer') \subseteq RowsOf(written)
      /\ ReadRows(file') \subseteq ReadRows(file) \cup (RowsOf(written) \ RowsOf(buffer'))
      /\ \A i \in RowsOf(written) : i \in RowsOf(buffer') \/ OnDisk(file', i)
  <2>1. CASE (total + 1) % ChunkSize = 0
    <3>1. file' = AppendLines(file, written) /\ buffer' = <<>>
      BY <1>6, <2>1
    <3>2. /\ file' \in Seq(Lines) /\ Keeps(file, file') /\ Once(file')
          /\ ReadRows(file') \subseteq ReadRows(file) \cup RowsOf(written)
          /\ \A i \in RowsOf(written) : OnDisk(file', i)
      BY <1>3, <1>7, <1>8, <3>1, FlushedOnce DEF Shape
    <3> QED
      BY <3>1, <3>2, NothingBuffered, EmptySeq
  <2>2. CASE (total + 1) % ChunkSize # 0
    BY <1>3, <1>6, <1>7, <2>2 DEF Shape, Keeps
  <2> QED
    BY <2>1, <2>2
<1>10. Shape'
  BY <1>1, <1>2, <1>3, <1>9 DEF Shape, Running
<1>11. Apart'
  <2>1. RowsOf(written) \subseteq Present /\ active \cap RowsOf(written) = {}
        /\ (Queued \ {q.row}) \cap RowsOf(written) = {}
    BY <1>3, <1>4, <1>7 DEF Apart
  <2> QED
    BY <1>1, <1>2, <1>3, <1>4, <1>9, <2>1 DEF Apart
<1>12. Accounted'
  <2> SUFFICES ASSUME NEW i \in Present
               PROVE  i \in active \cup Queued' \cup RowsOf(buffer') \/ OnDisk(file', i)
    BY <1>2 DEF Accounted
  <2>1. i \in active \cup Queued \cup RowsOf(buffer) \/ OnDisk(file, i)
    BY <1>2, <1>3 DEF Accounted, Running
  <2>2. CASE OnDisk(file, i)
    BY <1>9, <2>2, StaysOnDisk
  <2> QED
    BY <1>4, <1>7, <1>9, <2>1, <2>2
<1>13. Unwritten'
  <2>1. ReadRows(file') \cap (active \cup Queued' \cup RowsOf(buffer')) = {}
    BY <1>3, <1>4, <1>7, <1>9 DEF Unwritten, Apart
  <2>2. ASSUME NEW i \in todo, Later(i) PROVE i \notin ReadRows(file')
    <3>1. i \notin ReadRows(file) /\ i \notin Present
      BY <1>2, <1>3, <2>2 DEF Unwritten, Later, Present, ChunkRows, Shape
    <3>2. RowsOf(written) \subseteq Present
      BY <1>3, <1>4, <1>7 DEF Apart
    <3> QED
      BY <1>9, <3>1, <3>2
  <2> QED
    BY <1>2, <2>1, <2>2 DEF Unwritten, Later
<1>14. RowOnce'
  BY <1>9 DEF RowOnce, Once
<1>15. EarlierChunksOnDisk'
  <2>1. \A i : OnDisk(file, i) => OnDisk(file', i)
    BY <1>9, StaysOnDisk
  <2> QED
    BY <1>2, <2>1 DEF IInv, EarlierChunksOnDisk, OnDisk, Complete
<1> QED
  BY <1>10, <1>11, <1>12, <1>13, <1>14, <1>15 DEF IInv

LEMMA TurnOverIInv == ASSUME IInv, TurnOver PROVE IInv'
<1>1. /\ pc = "write" /\ pc' = "turn" /\ queue = {} /\ queue' = queue
      /\ file' = file /\ buffer' = buffer /\ todo' = todo /\ chunk' = chunk
      /\ active' = active /\ Present' = Present /\ Queued' = Queued
  BY DEF TurnOver, Present, Queued
<1>2. Shape' /\ Apart'
  BY <1>1 DEF IInv, Shape, Apart, Running
<1>3. Accounted' /\ Unwritten'
  BY <1>1 DEF IInv, Accounted, Unwritten, Running, Later
<1>4. RowOnce' /\ EarlierChunksOnDisk'
  BY <1>1 DEF IInv, RowOnce, EarlierChunksOnDisk
<1> QED
  BY <1>2, <1>3, <1>4 DEF IInv

LEMMA OutOfTurnsIInv == ASSUME IInv, OutOfTurns PROVE IInv'
<1>1. /\ pc = "turn" /\ pc' = "rest" /\ queue' = queue
      /\ file' = file /\ buffer' = buffer /\ todo' = todo /\ chunk' = chunk
      /\ active' = active /\ Present' = Present /\ Queued' = Queued
  BY DEF OutOfTurns, Present, Queued, run
<1>2. Shape' /\ Apart'
  BY <1>1 DEF IInv, Shape, Apart, Running
<1>3. Accounted' /\ Unwritten'
  BY <1>1 DEF IInv, Accounted, Unwritten, Running, Later
<1>4. RowOnce' /\ EarlierChunksOnDisk'
  BY <1>1 DEF IInv, RowOnce, EarlierChunksOnDisk
<1> QED
  BY <1>2, <1>3, <1>4 DEF IInv

\* What is left of the chunk goes to the buffer.
LEMMA WriteRestIInv == ASSUME IInv, WriteRest PROVE IInv'
<1>1. PICK i \in active : /\ buffer' = Append(buffer, Record(i, FALSE))
                          /\ active' = active \ {i}
  BY DEF WriteRest
<1>2. /\ pc = "rest" /\ pc' = "rest" /\ queue' = queue /\ file' = file
      /\ todo' = todo /\ chunk' = chunk /\ Present' = Present /\ Queued' = Queued
  BY DEF WriteRest, Present, Queued
<1>3. i \in Present /\ i \in Row /\ i \notin RowsOf(buffer)
  BY DEF IInv, Shape, Apart, Present, ChunkRows
<1>4. Record(i, FALSE) \in Records /\ Record(i, FALSE).row = i
  BY <1>3, RecordOf
<1>5. /\ buffer' \in Seq(Records) /\ Distinct(buffer')
      /\ RowsOf(buffer') = RowsOf(buffer) \cup {i}
  <2>1. buffer \in Seq(Records) /\ Distinct(buffer)
    BY DEF IInv, Shape, Apart
  <2> QED
    BY <1>1, <1>3, <1>4, <2>1, Buffered
<1>6. Shape'
  BY <1>1, <1>2, <1>5 DEF IInv, Shape, Running
<1>7. Apart'
  <2>1. Apart /\ i \notin Queued
    BY <1>1 DEF IInv, Apart
  <2> QED
    BY <1>1, <1>2, <1>3, <1>5, <2>1 DEF Apart
<1>8. Accounted'
  BY <1>1, <1>2, <1>5 DEF IInv, Accounted, Running
<1>9. Unwritten'
  BY <1>1, <1>2, <1>5 DEF IInv, Unwritten, Later
<1>10. RowOnce' /\ EarlierChunksOnDisk'
  BY <1>2 DEF IInv, RowOnce, EarlierChunksOnDisk
<1> QED
  BY <1>6, <1>7, <1>8, <1>9, <1>10 DEF IInv

\* The chunk is on disk before the next begins.
LEMMA ChunkOverIInv == ASSUME IInv, ChunkOver PROVE IInv'
<1>1. /\ pc = "rest" /\ active = {} /\ queue = {} /\ queue' = {}
      /\ file' = AppendLines(file, buffer) /\ buffer' = <<>>
      /\ chunk' = chunk + 1 /\ todo' = todo
      /\ active' = ChunkRows(todo, chunk + 1)
      /\ pc' = IF active' = {} THEN "done" ELSE "turn"
  BY DEF IInv, Shape, ChunkOver, Flush
<1>2. /\ Shape /\ Apart /\ Accounted /\ Unwritten /\ Once(file) /\ EarlierChunksOnDisk
      /\ chunk \in Nat /\ chunk + 1 \in Nat /\ file \in Seq(Lines) /\ buffer \in Seq(Records)
  BY DEF IInv, RowOnce, Once, Shape
<1>3. Present' = active' /\ Present' \subseteq todo /\ Queued = {} /\ Queued' = {}
  BY <1>1 DEF Present, ChunkRows, Queued
<1>4. /\ file' \in Seq(Lines) /\ Keeps(file, file') /\ Once(file')
      /\ ReadRows(file') \subseteq ReadRows(file) \cup RowsOf(buffer)
      /\ \A i \in RowsOf(buffer) : OnDisk(file', i)
  <2>1. Distinct(buffer) /\ ReadRows(file) \cap RowsOf(buffer) = {}
    BY <1>2 DEF Apart, Unwritten
  <2> QED
    BY <1>1, <1>2, <2>1, FlushedOnce
<1>5. \A i : OnDisk(file, i) => OnDisk(file', i)
  BY <1>4, StaysOnDisk
<1>6. \A i \in ChunkRows(todo, chunk) : OnDisk(file', i)
  BY <1>1, <1>2, <1>3, <1>4, <1>5 DEF Accounted, Running, Present
  \* The next chunk was a later one; what comes after it still is.
<1>7. \A i \in todo : i \in Present' \/ Later(i)' => Later(i) /\ i \notin Present
  <2>1. ASSUME NEW i \in todo, i \in Present' PROVE Later(i)
    <3>1. chunk + 1 \in Nat /\ chunk + 1 > chunk /\ i \in ChunkRows(todo, chunk + 1)
      BY <1>1, <1>2, <1>3, <2>1
    <3> QED
      BY <3>1 DEF Later
  <2>2. ASSUME NEW i \in todo, Later(i)' PROVE Later(i)
    <3>1. PICK ci \in Nat : ci > chunk' /\ i \in ChunkRows(todo', ci)
      BY <2>2 DEF Later
    <3>2. ci > chunk /\ i \in ChunkRows(todo, ci)
      BY <1>1, <1>2, <3>1
    <3> QED
      BY <3>2 DEF Later
  <2>3. ASSUME NEW i \in todo, Later(i) PROVE i \notin Present
    BY <1>2, <2>3 DEF Later, Present, ChunkRows
  <2> QED
    BY <2>1, <2>2, <2>3
<1>8. \A i \in todo : i \in Present' \/ Later(i)' => i \notin ReadRows(file')
  <2>1. RowsOf(buffer) \subseteq Present
    BY <1>2 DEF Apart
  <2>2. \A i \in todo : Later(i) => i \notin ReadRows(file)
    BY <1>1, <1>2 DEF Unwritten
  <2> QED
    BY <1>4, <1>7, <2>1, <2>2
<1>9. Shape'
  BY <1>1, <1>2, <1>3, <1>4, EmptySeq DEF Shape, Running
<1>10. Apart'
  BY <1>1, <1>3, NothingBuffered DEF Apart
<1>11. Accounted'
  BY <1>3 DEF Accounted
<1>12. Unwritten'
  BY <1>1, <1>3, <1>8, NothingBuffered DEF Unwritten
<1>13. RowOnce'
  BY <1>4 DEF RowOnce, Once
<1>14. EarlierChunksOnDisk'
  <2> SUFFICES ASSUME NEW ci \in 0..chunk, NEW i \in ChunkRows(todo, ci) PROVE OnDisk(file', i)
    BY <1>1, <1>2 DEF EarlierChunksOnDisk, OnDisk, Complete
  <2>1. CASE ci = chunk
    BY <1>6, <2>1
  <2>2. CASE ci \in 0..(chunk - 1)
    <3>1. OnDisk(file, i)
      BY <1>1, <1>2, <2>2 DEF EarlierChunksOnDisk, OnDisk, Complete
    <3> QED
      BY <1>5, <3>1
  <2> QED
    BY <1>2, <2>1, <2>2
<1> QED
  BY <1>9, <1>10, <1>11, <1>12, <1>13, <1>14 DEF IInv

\* A crash leaves a part of the buffer in the file, its last record perhaps cut.
LEMMA CrashFile ==
  ASSUME IInv, Crash
  PROVE  file' \in Seq(Lines) /\ Keeps(file, file') /\ Once(file')
<1>1. PICK n \in 0..Len(buffer) :
        LET kept == AppendLines(file, SubSeq(buffer, 1, n)) IN
        \/ file' = kept
        \/ n < Len(buffer) /\ \E kind \in {"torn", "unended"} :
             file' = AppendLine(kept, buffer[n + 1], kind)
  BY DEF Crash
<1>2. /\ file \in Seq(Lines) /\ buffer \in Seq(Records) /\ Once(file)
      /\ Distinct(buffer) /\ ReadRows(file) \cap RowsOf(buffer) = {}
      /\ Len(buffer) \in Nat /\ DOMAIN buffer = 1..Len(buffer)
  BY LenProperties DEF IInv, Shape, Apart, Unwritten, RowOnce, Once
<1>3. PICK part : part = SubSeq(buffer, 1, n)
  OBVIOUS
<1>4. /\ part \in Seq(Records) /\ DOMAIN part = 1..n
      /\ \A k \in 1..n : part[k] = buffer[k] /\ k \in DOMAIN buffer
  BY <1>2, <1>3
<1>5. Distinct(part) /\ RowsOf(part) \subseteq RowsOf(buffer)
  BY <1>2, <1>4 DEF Distinct, RowsOf
<1>6. PICK kept : kept = AppendLines(file, part)
  OBVIOUS
<1>7. /\ kept \in Seq(Lines) /\ Keeps(file, kept) /\ Once(kept)
      /\ ReadRows(kept) \subseteq ReadRows(file) \cup RowsOf(part)
  <2>1. ReadRows(file) \cap RowsOf(part) = {}
    BY <1>2, <1>5
  <2> QED
    BY <1>2, <1>4, <1>5, <1>6, <2>1, FlushedOnce
<1>8. CASE file' = kept
  BY <1>7, <1>8
<1>9. ASSUME n < Len(buffer), NEW kind \in {"torn", "unended"},
             file' = AppendLine(kept, buffer[n + 1], kind)
      PROVE  file' \in Seq(Lines) /\ Keeps(file, file') /\ Once(file')
  <2>1. n + 1 \in DOMAIN buffer /\ \A k \in DOMAIN part : k # n + 1
    BY <1>2, <1>4, <1>9
  <2>2. PICK rec \in Records : rec = buffer[n + 1]
    BY <1>2, <2>1
  <2>3. rec.row \in RowsOf(buffer) /\ rec.row \notin RowsOf(part)
    BY <1>2, <1>4, <2>1, <2>2 DEF RowsOf, Distinct
  <2>4. rec.row \notin ReadRows(kept)
    BY <1>2, <1>7, <2>3
  <2>5. file' \in Seq(Lines) /\ Keeps(kept, file') /\ Once(file')
    <3>1. file' = AppendLine(kept, rec, kind)
      BY <1>9, <2>2
    <3> QED
      BY <1>7, <2>4, <3>1, CutOnce
  <2>6. Keeps(file, file')
    BY <1>7, <2>5 DEF Keeps
  <2> QED
    BY <2>5, <2>6
<1> QED
  BY <1>1, <1>3, <1>6, <1>8, <1>9

LEMMA CrashIInv == ASSUME IInv, Crash PROVE IInv'
<1>1. /\ pc' = "off" /\ buffer' = <<>> /\ todo' = {} /\ chunk' = 0
      /\ active' = {} /\ queue' = {}
  BY DEF Crash
<1>2. file' \in Seq(Lines) /\ Once(file')
  BY CrashFile
<1>3. Queued' = {}
  BY <1>1 DEF Queued
<1>4. Shape' /\ Apart'
  BY <1>1, <1>2, <1>3, EmptySeq, NothingBuffered DEF Shape, Apart, Running
<1>5. Accounted' /\ Unwritten' /\ RowOnce' /\ EarlierChunksOnDisk'
  BY <1>1, <1>2, <1>3, NothingBuffered
     DEF Accounted, Unwritten, RowOnce, EarlierChunksOnDisk, Once, Running
<1> QED
  BY <1>4, <1>5 DEF IInv

-----------------------------------------------------------------------------
(* The theorems *)

THEOREM TracesInvariance == Spec => []IInv
<1>1. Init => IInv
  BY InitIInv
<1>2. IInv /\ [Next]_vars => IInv'
  <2> SUFFICES ASSUME IInv, [Next]_vars PROVE IInv'
    OBVIOUS
  <2>1. CASE UNCHANGED vars
    <3>1. Present' = Present /\ Queued' = Queued
      BY <2>1 DEF vars, run, Present, Queued
    <3>2. Shape' /\ Apart' /\ Accounted'
      BY <2>1, <3>1 DEF IInv, vars, run, Shape, Apart, Accounted
    <3>3. Unwritten' /\ RowOnce' /\ EarlierChunksOnDisk'
      BY <2>1, <3>1 DEF IInv, vars, run, Unwritten, Later, RowOnce, EarlierChunksOnDisk
    <3> QED
      BY <3>2, <3>3 DEF IInv
  <2>2. CASE Next
    <3>1. CASE Start
      BY <3>1, StartIInv
    <3>2. CASE Generate
      BY <3>2, GenerateIInv
    <3>3. CASE Write
      BY <3>3, WriteIInv
    <3>4. CASE TurnOver
      BY <3>4, TurnOverIInv
    <3>5. CASE OutOfTurns
      BY <3>5, OutOfTurnsIInv
    <3>6. CASE WriteRest
      BY <3>6, WriteRestIInv
    <3>7. CASE ChunkOver
      BY <3>7, ChunkOverIInv
    <3>8. CASE Crash
      BY <3>8, CrashIInv
    <3>9. CASE Stopped
      BY <2>1, <3>9 DEF Stopped
    <3> QED
      BY <2>2, <3>1, <3>2, <3>3, <3>4, <3>5, <3>6, <3>7, <3>8, <3>9 DEF Next
  <2> QED
    BY <2>1, <2>2
<1> QED
  BY <1>1, <1>2, PTL DEF Spec

\* However often the generator crashes and is started with --resume, no row of the
\* dataset is readable twice in its output.
THEOREM NoRowTwice == Spec => []RowOnce
<1>1. IInv => RowOnce
  BY DEF IInv
<1> QED
  BY <1>1, TracesInvariance, PTL

\* The rows of the chunks that a run is through with are on disk.
THEOREM ChunksOnDisk == Spec => []EarlierChunksOnDisk
<1>1. IInv => EarlierChunksOnDisk
  BY DEF IInv
<1> QED
  BY <1>1, TracesInvariance, PTL

\* No step, a crash or the next run's open included, moves or takes back a whole line.
THEOREM LinesStay == Spec => WholeLinesStay
<1> DEFINE Stays == \A j \in DOMAIN file : file[j].kind = "whole" =>
                      j \in DOMAIN file' /\ file'[j] = file[j]
<1>1. Keeps(file, file') => Stays
  BY DEF Keeps, Complete
<1>2. IInv /\ [Next]_vars => [Stays]_vars
  <2> SUFFICES ASSUME IInv, Next PROVE Stays
    BY DEF vars
  <2> HIDE DEF Stays
  <2>1. file' = file => Stays
    BY DEF Stays
  <2>2. CASE Start
    <3>1. file' = file \/ DoneQuestions = {}
      BY <2>2 DEF Start, Opened
    <3>2. DoneQuestions = {} => \A j \in DOMAIN file : file[j].kind # "whole"
      BY DEF DoneQuestions, ReadableLines, Readable
    <3> QED
      BY <2>1, <3>1, <3>2 DEF Stays
  <2>3. ASSUME NEW recs \in Seq(Records), file' = AppendLines(file, recs) PROVE Stays
    <3>1. file \in Seq(Lines)
      BY DEF IInv, Shape
    <3> QED
      BY <1>1, <2>3, <3>1, AppendLinesKeeps
  <2>4. CASE Write
    <3>1. PICK q \in queue : LET written == Append(buffer, Record(q.row, q.answered)) IN
                              file' = AppendLines(file, written) \/ file' = file
      BY <2>4 DEF Write
    <3>2. q.row \in Row /\ q.answered \in BOOLEAN
      BY DEF IInv, Shape, Present, ChunkRows
    <3>3. Append(buffer, Record(q.row, q.answered)) \in Seq(Records)
      BY <3>2, RecordOf DEF IInv, Shape
    <3> QED
      BY <2>1, <2>3, <3>1, <3>3
  <2>5. CASE ChunkOver
    <3>1. buffer \in Seq(Records) /\ file' = AppendLines(file, buffer)
      BY <2>5 DEF IInv, Shape, ChunkOver, Flush
    <3> QED
      BY <2>3, <3>1
  <2>6. CASE Crash
    BY <1>1, <2>6, CrashFile
  <2>7. CASE Generate \/ TurnOver \/ OutOfTurns \/ WriteRest \/ Stopped
    <3>1. file' = file
      BY <2>7 DEF Generate, TurnOver, OutOfTurns, WriteRest, Stopped, vars
    <3> QED
      BY <2>1, <3>1
  <2> QED
    BY <2>2, <2>4, <2>5, <2>6, <2>7 DEF Next
<1>3. Spec => [][Stays]_vars
  BY <1>2, TracesInvariance, PTL DEF Spec
<1> QED
  BY <1>3 DEF WholeLinesStay
=============================================================================
