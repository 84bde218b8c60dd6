------------------------------ MODULE LogFile ------------------------------
(***************************************************************************)
(* muduo/base/LogFile.cc over FileUtil::AppendFile: a log that moves to a  *)
(* new file when the file has grown beyond rollSize_ or a new period has   *)
(* begun.  The state of a LogFile is a record; its operations map the      *)
(* record and the time to the next record.  A file is named after the      *)
(* second in which it is opened; fwrite is assumed to succeed.             *)
(***************************************************************************)
EXTENDS Naturals, Sequences, SequencesExt

CONSTANTS
    rollSize_, flushInterval_, checkEveryN_,
    kRollPerSeconds_

LogFileAssumption ==
    /\ rollSize_ \in Nat /\ flushInterval_ \in Nat
    /\ checkEveryN_ \in Nat \ {0} /\ kRollPerSeconds_ \in Nat \ {0}

Period(now) == (now \div kRollPerSeconds_) * kRollPerSeconds_

(* AppendFile's destructor closes the file, which flushes it.               *)
rollFile(log, now) ==
    IF now > log.lastRoll_
    THEN [log EXCEPT !.lastRoll_ = now, !.lastFlush_ = now, !.startOfPeriod_ = Period(now),
                     !.files = Append(@, [name |-> now, lines |-> <<>>, flushed |-> 0, last |-> now])]
    ELSE log

(* The constructor, at a time after 0.                                      *)
NoLog == [count_ |-> 0, startOfPeriod_ |-> 0, lastRoll_ |-> 0, lastFlush_ |-> 0, files |-> <<>>]
NewLogFile(now) == rollFile(NoLog, now)

File(log) == log.files[Len(log.files)]

flush(log) == [log EXCEPT !.files[Len(log.files)].flushed = Len(File(log).lines)]

writtenBytes(log) == Len(File(log).lines)

AppendToFile(log, lines, now) ==
    [log EXCEPT !.files[Len(log.files)].lines = @ \o lines, !.files[Len(log.files)].last = now]

(* append_unlocked(); a line counts for one byte.                           *)
append(log0, lines, now) ==
    LET log == AppendToFile(log0, lines, now)
        checked == [log EXCEPT !.count_ = 0]
    IN CASE writtenBytes(log) > rollSize_ -> rollFile(log, now)
         [] writtenBytes(log) <= rollSize_ /\ log.count_ + 1 < checkEveryN_ ->
                [log EXCEPT !.count_ = @ + 1]
         [] OTHER ->
                IF Period(now) # log.startOfPeriod_ THEN rollFile(checked, now)
                ELSE IF now - log.lastFlush_ > flushInterval_
                     THEN flush([checked EXCEPT !.lastFlush_ = now])
                     ELSE checked

-----------------------------------------------------------------------------
(* The lines of the log, in the order of its files, and how many of them    *)
(* have left the process: closing a file flushes it.                        *)
Lines(log) == FlattenSeq([i \in DOMAIN log.files |-> log.files[i].lines])
FlushedLines(log) ==
    IF log.files = <<>> THEN 0
    ELSE Len(Lines(log)) - Len(File(log).lines) + File(log).flushed
=============================================================================
