------------------------------- MODULE LogFile -------------------------------
(***************************************************************************)
(* base/LogFile.cpp: what its functions do to the log file, as operators   *)
(* from the file, and the time in seconds, to the file.  AsyncLogger.tla   *)
(* calls them, as the back-end thread does.                                *)
(*                                                                         *)
(* Sizes are counted in lines.  `disk' is what is in all files, in the     *)
(* order it was written; the lines in `ofs' may still be in the buffer of  *)
(* the open stream.                                                        *)
(***************************************************************************)
EXTENDS Integers, Sequences

CONSTANTS rollSize_, checkEveryN_, flushInterval_,
          kPollPerSeconds  \* a file is for one period of so many seconds

ASSUME LogFileAssumption ==
    /\ rollSize_ \in Nat /\ checkEveryN_ \in Nat /\ flushInterval_ \in Nat
    /\ kPollPerSeconds \in Nat \ {0}

Period(now) == now \div kPollPerSeconds

\* ~File: flush and close.
CloseFile(f) == [f EXCEPT !.disk = @ \o f.ofs, !.ofs = <<>>, !.written = 0]

\* At most one file per second: the name has no finer time.
RoolFile(f, now) ==
    IF now > f.lastRoll_
    THEN [CloseFile(f) EXCEPT !.lastRoll_ = now, !.lastFlush_ = now,
                              !.latestStartOfPeriod_ = Period(now)]
    ELSE f

\* The constructor; lastRoll_ is before any time.  An existing file of that
\* name is continued (std::ios::app).
OpenLogFile(disk, now) ==
    RoolFile([disk |-> disk, ofs |-> <<>>, written |-> 0, count_ |-> 0,
              lastRoll_ |-> -1, lastFlush_ |-> -1,
              latestStartOfPeriod_ |-> -1], now)

FlushFile(f) == [f EXCEPT !.disk = @ \o f.ofs, !.ofs = <<>>]

Flush(f, now) == [FlushFile(f) EXCEPT !.lastFlush_ = now]

\* A file that is large enough is rolled.  Otherwise the clock is looked at
\* every checkEveryN_ calls: a new period rolls the file too, and data that
\* waited too long is flushed (without a note in lastFlush_).
AppendUnlocked(f, lines, size, now) ==
    LET g == [f EXCEPT !.ofs = @ \o lines, !.written = @ + size]
        checked == [g EXCEPT !.count_ = 0]
    IN  IF g.written >= rollSize_ THEN RoolFile(g, now)
        ELSE IF g.count_ + 1 < checkEveryN_ THEN [g EXCEPT !.count_ = @ + 1]
        ELSE IF Period(now) # g.latestStartOfPeriod_ THEN RoolFile(checked, now)
        ELSE IF now - g.lastFlush_ > flushInterval_ THEN FlushFile(checked)
        ELSE checked

=============================================================================
