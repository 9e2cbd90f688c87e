------------------------------ MODULE TraceGen ------------------------------
(***************************************************************************)
(* Teacher traces for the search agent (search/scripts/generate_traces.py):*)
(* the dataset's rows go through the turn loop in chunks, a row that ends  *)
(* is written to a buffered file at the end of its turn, and a run that    *)
(* crashed is started again with --resume, which skips the questions it    *)
(* finds in the file.                                                      *)
(***************************************************************************)
EXTENDS Integers, FiniteSets, JsonLines

CONSTANTS
  Questions,  \* the dataset's rows: Questions[i] is the question of row i
  ChunkSize,  \* --chunk_size, also FLUSH_EVERY
  MaxTurns,   \* --max_turns
  MaxCrashes  \* bound on the crashes

Row == DOMAIN Questions

ASSUME TraceGenAssumption ==
  /\ Questions \in Seq(STRING)
  /\ ChunkSize \in Nat \ {0} /\ {MaxTurns, MaxCrashes} \subseteq Nat

VARIABLES
  pc,       \* "off", "turn", "write" (finished_this_turn), "rest" (still active), "done"
  file,     \* the lines of --output_path
  buffer,   \* records written and not flushed
  crashes,
  todo,     \* the rows of this run (records)
  chunk,    \* ci
  turn,
  active,   \* rows of the chunk that go on
  queue,    \* rows to write now (finished_this_turn), and whether pred_answer is not empty
  total     \* total_written + chunk_written

run == <<todo, chunk, turn, active, queue, total>>
vars == <<pc, file, buffer, crashes, run>>

-----------------------------------------------------------------------------
Record(row, answered) ==
  [row |-> row, question |-> Questions[row], answered |-> answered, kind |-> "new"]

\* records[ci * chunk_size : (ci + 1) * chunk_size], by the place of a row in records.
Place(rows, i) == Cardinality({j \in rows : j < i})
ChunkRows(rows, ci) == {i \in rows : Place(rows, i) \div ChunkSize = ci}

Init ==
  /\ pc = "off" /\ file = <<>> /\ buffer = <<>> /\ crashes = 0
  /\ todo = {} /\ chunk = 0 /\ turn = 0 /\ active = {} /\ queue = {} /\ total = 0

\* --resume: the questions of the lines that can be read.
DoneIfAnswered ==
  {file[j].question : j \in {j \in ReadableLines(file) : file[j].answered}}
DoneByCount == {Questions[i] : i \in 1..Cardinality(ReadableLines(file))}
DoneQuestions == {file[j].question : j \in ReadableLines(file)}

\* out_mode: "a" to what is there, "w" if nothing of it counts.
OpenedAfresh == <<>>
Opened == IF DoneQuestions # {} THEN file ELSE <<>>

\* A run with nothing to do leaves the file alone.
Start ==
  /\ pc = "off"
  /\ todo' = {i \in Row : Questions[i] \notin DoneQuestions}
  /\ IF todo' = {}
     THEN pc' = "done" /\ UNCHANGED file
     ELSE pc' = "turn" /\ file' = Opened
  /\ active' = ChunkRows(todo', 0)
  /\ UNCHANGED <<buffer, crashes, chunk, turn, queue, total>>

\* One generation for all active rows, then one search for those that ask: a row
\* goes on, or ends with an answer, an empty one or no action at all.
Ends == {"search", "answer", "empty"}
Finished(end) ==
  {[row |-> i, answered |-> end[i] = "answer"] : i \in {i \in active : end[i] # "search"}}
Generate ==
  /\ pc = "turn" /\ active # {} /\ turn <= MaxTurns
  /\ \E end \in [active -> Ends] :
       /\ queue' = Finished(end)
       /\ active' = {i \in active : end[i] = "search"}
  /\ pc' = "write"
  /\ UNCHANGED <<file, buffer, crashes, todo, chunk, turn, total>>

\* The finished rows in their order; the file gets what is buffered at every
\* ChunkSize-th record.
Write ==
  /\ pc = "write"
  /\ \E q \in queue :
       /\ \A p \in queue : q.row <= p.row
       /\ LET written == Append(buffer, Record(q.row, q.answered))
          IN  IF (total + 1) % ChunkSize = 0
              THEN file' = AppendLines(file, written) /\ buffer' = <<>>
              ELSE buffer' = written /\ UNCHANGED file
       /\ queue' = queue \ {q}
  /\ total' = total + 1
  /\ UNCHANGED <<pc, crashes, todo, chunk, turn, active>>

TurnOver ==
  /\ pc = "write" /\ queue = {}
  /\ pc' = "turn" /\ turn' = turn + 1
  /\ UNCHANGED <<file, buffer, crashes, todo, chunk, active, queue, total>>

\* What is still active after the last turn is written without an answer.
OutOfTurns ==
  /\ pc = "turn" /\ (active = {} \/ turn > MaxTurns)
  /\ pc' = "rest"
  /\ UNCHANGED <<file, buffer, crashes, run>>
WriteRest ==
  /\ pc = "rest"
  /\ \E i \in active :
       /\ \A j \in active : i <= j
       /\ buffer' = Append(buffer, Record(i, FALSE))
       /\ active' = active \ {i}
  /\ total' = total + 1
  /\ UNCHANGED <<pc, file, crashes, todo, chunk, turn, queue>>

\* The chunk is flushed; the next one, or the end.
FlushLater == UNCHANGED <<file, buffer>>
Flush == file' = AppendLines(file, buffer) /\ buffer' = <<>>
ChunkOver ==
  /\ pc = "rest" /\ active = {}
  /\ Flush
  /\ chunk' = chunk + 1 /\ turn' = 0
  /\ active' = ChunkRows(todo, chunk + 1)
  /\ pc' = IF active' = {} THEN "done" ELSE "turn"
  /\ UNCHANGED <<crashes, todo, queue, total>>

\* The process dies: of the buffer some records are in the file, the next one perhaps
\* cut.  It is started again with --resume.
Crash ==
  /\ pc \in {"turn", "write", "rest"} /\ crashes < MaxCrashes
  /\ \E n \in 0..Len(buffer) :
       LET kept == AppendLines(file, SubSeq(buffer, 1, n)) IN
       \/ file' = kept
       \/ n < Len(buffer) /\ \E kind \in {"torn", "unended"} :
            file' = AppendLine(kept, buffer[n + 1], kind)
  /\ pc' = "off" /\ crashes' = crashes + 1
  /\ buffer' = <<>> /\ todo' = {} /\ chunk' = 0 /\ turn' = 0
  /\ active' = {} /\ queue' = {} /\ total' = 0

Stopped == pc = "done" /\ UNCHANGED vars

Next ==
  \/ Start \/ Generate \/ Write \/ TurnOver \/ OutOfTurns \/ WriteRest \/ ChunkOver
  \/ Crash \/ Stopped
Spec == Init /\ [][Next]_vars

\* A crashed run is started again; generation and search return (a request that
\* fails counts as one without documents).
Fairness ==
  /\ WF_vars(Start) /\ WF_vars(Generate) /\ WF_vars(Write)
  /\ WF_vars(TurnOver) /\ WF_vars(OutOfTurns)
  /\ WF_vars(WriteRest) /\ WF_vars(ChunkOver)
FairSpec == Spec /\ Fairness

-----------------------------------------------------------------------------
(* Properties *)

\* Resuming never runs a row again that is on disk, answered or not: none is traced twice.
RowOnce ==
  \A j, k \in ReadableLines(file) : j # k => file[j].row # file[k].row

\* What the chunks are for ("incremental saves"): the rows of the chunks that this run
\* is through with are on disk, so that a crash costs no more than the chunk it is in
\* (but for what a crash of an earlier run cut).
EarlierChunksOnDisk ==
  pc \in {"turn", "write", "rest", "done"} =>
    \A ci \in 0..(chunk - 1) : \A i \in ChunkRows(todo, ci) :
      \E j \in DOMAIN file : file[j].row = i /\ file[j].kind \in {"whole", "joined"}

\* Neither a crash nor opening the file again takes back a whole line.
WholeLinesStay ==
  [][\A j \in DOMAIN file : file[j].kind = "whole" =>
       j \in DOMAIN file' /\ file'[j] = file[j]]_vars

\* Crashes put it off, but every question gets a trace, except for at most two of them
\* for every line that a crash cut.
EveryQuestionTraced ==
  <>[](pc = "done" /\
       Cardinality({Questions[i] : i \in Row} \ DoneQuestions)
         <= 2 * Cardinality(CutLines(file)))
=============================================================================
