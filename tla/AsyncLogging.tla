---------------------------- MODULE AsyncLogging ---------------------------
(***************************************************************************)
(* muduo/base/AsyncLogging.cc over LogFile: threads append lines to        *)
(* currentBuffer_ under mutex_, and the logging thread swaps the filled    *)
(* buffers out and writes them to the log.                                 *)
(*                                                                         *)
(* A line is the number of its append().  A buffer is the sequence of its  *)
(* lines; the spare buffers nextBuffer_, newBuffer1 and newBuffer2 are     *)
(* always empty and are modelled by whether they are there.  A critical    *)
(* section is one step, and so is each of append()'s calls of LogFile.     *)
(***************************************************************************)
EXTENDS LogFile

CONSTANTS
    MaxLines,      \* bound on append()
    MaxTime,       \* bound on the clock
    kLargeBuffer,  \* size of a buffer, in lines
    MaxToWrite     \* buffers the thread will write at once (25 in the code)

AsyncAssumption ==
    kLargeBuffer \in Nat /\ kLargeBuffer > 1 /\ MaxToWrite \in Nat /\ MaxToWrite > 1

VARIABLES
    running_, currentBuffer_, nextBuffer_, buffers_,
    newBuffer1, newBuffer2, buffersToWrite,  \* threadFunc()'s own
    written,                                 \* how many of buffersToWrite are
    output,                                  \* its LogFile
    thread,                                  \* where it is
    owner,                                   \* where the owner of the AsyncLogging is
    appended, dropped,                       \* history: lines appended; lines erased
    now                                      \* time(NULL)

shared == <<running_, currentBuffer_, nextBuffer_, buffers_>>
local == <<newBuffer1, newBuffer2, buffersToWrite, written, output>>
vars == <<shared, local, thread, owner, appended, dropped, now>>

Note == 0  \* the line "Dropped log messages at ..."

Init ==
    /\ running_ = FALSE
    /\ currentBuffer_ = <<>> /\ nextBuffer_ = TRUE /\ buffers_ = <<>>
    /\ newBuffer1 = TRUE /\ newBuffer2 = TRUE /\ buffersToWrite = <<>> /\ written = 0
    /\ output = NoLog
    /\ thread = "none" /\ owner = "made"
    /\ appended = 0 /\ dropped = {}
    /\ now = 1

-----------------------------------------------------------------------------
(* append(), by any thread and at any time: FixedBuffer takes a line that   *)
(* is shorter than what is left.                                            *)
Append_ ==
    /\ appended < MaxLines /\ appended' = appended + 1
    /\ IF kLargeBuffer - Len(currentBuffer_) > 1
       THEN /\ currentBuffer_' = Append(currentBuffer_, appended')
            /\ UNCHANGED <<nextBuffer_, buffers_>>
       ELSE /\ buffers_' = Append(buffers_, currentBuffer_)
            /\ nextBuffer_' = FALSE
            /\ currentBuffer_' = <<appended'>>
    /\ UNCHANGED <<running_, local, thread, owner, dropped, now>>

(* start() waits for latch_, which threadFunc() counts down; stop().        *)
Start ==
    /\ owner = "made" /\ owner' = "starting"
    /\ running_' = TRUE /\ thread' = "created"
    /\ UNCHANGED <<currentBuffer_, nextBuffer_, buffers_, local, appended, dropped, now>>

Started ==
    /\ owner = "starting" /\ thread # "created"
    /\ owner' = "logging"
    /\ UNCHANGED <<shared, local, thread, appended, dropped, now>>

Stop ==
    /\ owner = "logging" /\ owner' = "stopping"
    /\ running_' = FALSE
    /\ UNCHANGED <<currentBuffer_, nextBuffer_, buffers_, local, thread, appended, dropped, now>>

Joined ==
    /\ owner = "stopping" /\ thread = "ended"
    /\ owner' = "stopped"
    /\ UNCHANGED <<shared, local, thread, appended, dropped, now>>

-----------------------------------------------------------------------------
(* threadFunc(): it counts latch_ down and opens the LogFile.               *)
ThreadBegins ==
    /\ thread = "created" /\ thread' = "loop"
    /\ output' = NewLogFile(now)
    /\ UNCHANGED <<shared, newBuffer1, newBuffer2, buffersToWrite, written, owner, appended, dropped, now>>

TestRunning ==
    /\ thread = "loop"
    /\ thread' = IF running_ THEN "lock" ELSE "ended"
    /\ output' = IF running_ THEN output ELSE flush(output)
    /\ UNCHANGED <<shared, newBuffer1, newBuffer2, buffersToWrite, written, owner, appended, dropped, now>>

(* An empty buffers_ is waited for, once: waitForSeconds() ends with a      *)
(* notification, by timeout or spuriously.                                  *)
Wait ==
    /\ thread = "lock" /\ buffers_ = <<>>
    /\ thread' = "wait"
    /\ UNCHANGED <<shared, local, owner, appended, dropped, now>>

Swap ==
    /\ \/ thread = "lock" /\ buffers_ # <<>>
       \/ thread = "wait"
    /\ buffersToWrite' = Append(buffers_, currentBuffer_)
    /\ buffers_' = <<>> /\ currentBuffer_' = <<>>
    /\ newBuffer1' = FALSE
    /\ nextBuffer_' = TRUE /\ newBuffer2' = (newBuffer2 /\ nextBuffer_)
    /\ thread' = "swapped"
    /\ UNCHANGED <<running_, written, output, owner, appended, dropped, now>>

Drop_KeepsOne ==
    /\ thread = "swapped" /\ thread' = "write"
    /\ IF Len(buffersToWrite) > MaxToWrite
       THEN /\ output' = append(output, <<Note>>, now)
            /\ buffersToWrite' = SubSeq(buffersToWrite, 1, 1)
            /\ dropped' = dropped \cup
                   UNION {Range(buffersToWrite[i]) : i \in 2 .. Len(buffersToWrite)}
       ELSE UNCHANGED <<output, buffersToWrite, dropped>>
    /\ UNCHANGED <<shared, newBuffer1, newBuffer2, written, owner, appended, now>>

(* Too many buffers: a note to the log, and only the first two are kept.    *)
Drop ==
    /\ thread = "swapped" /\ thread' = "write"
    /\ IF Len(buffersToWrite) > MaxToWrite
       THEN /\ output' = append(output, <<Note>>, now)
            /\ buffersToWrite' = SubSeq(buffersToWrite, 1, 2)
            /\ dropped' = dropped \cup
                   UNION {Range(buffersToWrite[i]) : i \in 3 .. Len(buffersToWrite)}
       ELSE UNCHANGED <<output, buffersToWrite, dropped>>
    /\ UNCHANGED <<shared, newBuffer1, newBuffer2, written, owner, appended, now>>

Write ==
    /\ thread = "write" /\ written < Len(buffersToWrite)
    /\ written' = written + 1
    /\ output' = append(output, buffersToWrite[written'], now)
    /\ UNCHANGED <<shared, newBuffer1, newBuffer2, buffersToWrite, thread, owner, appended, dropped, now>>

(* The spare buffers come back from the end of buffersToWrite.              *)
Spares == (IF newBuffer1 THEN 0 ELSE 1) + (IF newBuffer2 THEN 0 ELSE 1)

Refill_NoFlush ==
    /\ thread = "write" /\ written = Len(buffersToWrite)
    /\ newBuffer1' = TRUE /\ newBuffer2' = TRUE
    /\ buffersToWrite' = <<>> /\ written' = 0
    /\ thread' = "loop"
    /\ UNCHANGED <<shared, output, owner, appended, dropped, now>>

Refill ==
    /\ thread = "write" /\ written = Len(buffersToWrite)
    /\ newBuffer1' = TRUE /\ newBuffer2' = TRUE
    /\ buffersToWrite' = <<>> /\ written' = 0
    /\ output' = flush(output)
    /\ thread' = "loop"
    /\ UNCHANGED <<shared, owner, appended, dropped, now>>

Tick ==
    /\ now < MaxTime /\ now' = now + 1
    /\ UNCHANGED <<shared, local, thread, owner, appended, dropped>>

-----------------------------------------------------------------------------
ThreadProceeds ==
    \/ ThreadBegins \/ TestRunning \/ Wait \/ Swap
    \/ Drop \/ Write \/ Refill

Next == Append_ \/ Start \/ Started \/ Stop \/ Joined \/ ThreadProceeds \/ Tick

(* The logging thread keeps running: its wait ends after flushInterval_ at  *)
(* the latest.  Nobody need append or call stop().                          *)
Spec == Init /\ [][Next]_vars /\ WF_vars(ThreadProceeds) /\ WF_vars(Started) /\ WF_vars(Joined)

-----------------------------------------------------------------------------
(* Every line appended is in the log, in a buffer on its way there, or was  *)
(* erased by the overload rule, and the lines that are there are in the     *)
(* order of the append() calls, each once; a line is erased only after a    *)
(* note in the log says so (AsyncLogging.cc:34-107).                        *)
Pipeline ==
    LET toWrite == SubSeq(buffersToWrite, written + 1, Len(buffersToWrite))
    IN SelectSeq(Lines(output), LAMBDA line : line # Note)
           \o FlattenSeq(toWrite \o buffers_ \o <<currentBuffer_>>)
LogKeepsOrder ==
    /\ \A i \in 1 .. Len(Pipeline) - 1 : Pipeline[i] < Pipeline[i + 1]
    /\ Range(Pipeline) = (1 .. appended) \ dropped
    /\ dropped # {} => Note \in Range(Lines(output))

(* The thread finds its two spare buffers at the top of the loop, and the   *)
(* buffers it has written always give back the spares it is short of, the   *)
(* overload rule included: the asserts at AsyncLogging.cc:71-73, :90, :117  *)
(* and :125.                                                                *)
SparesSuffice ==
    /\ thread \in {"loop", "lock", "wait"} => Spares = 0 /\ buffersToWrite = <<>>
    /\ thread = "write" => buffersToWrite # <<>> /\ Spares <= Len(buffersToWrite)

(* No two files have the same name, though names count seconds, and a file  *)
(* that has outgrown rollSize_ before its last append() was opened in that  *)
(* very second (LogFile.cc:93-108, rollFile() at most once a second).       *)
OneFileASecond ==
    LET f == output.files
    IN /\ \A i, j \in DOMAIN f : i < j => f[i].name < f[j].name
       /\ f # <<>> /\ Len(File(output).lines) > rollSize_ => File(output).last = File(output).name

(* A line appended while the thread runs is flushed to a file or erased by  *)
(* the overload rule, unless stop() comes; and stop() returns               *)
(* (AsyncLogging.cc:69-134, AsyncLogging.h:47-52).                          *)
FlushedTo(line) ==
    \E i \in 1 .. FlushedLines(output) : Lines(output)[i] = line
LinesReachFile ==
    /\ \A line \in 1 .. MaxLines :
           (appended >= line /\ running_) ~> (FlushedTo(line) \/ line \in dropped \/ ~running_)
    /\ owner = "stopping" ~> owner = "stopped"
=============================================================================
