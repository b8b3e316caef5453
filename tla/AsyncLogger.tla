----------------------------- MODULE AsyncLogger -----------------------------
(***************************************************************************)
(* base/AsyncLogging.cpp and .h: threads that append log lines to a buffer *)
(* in memory, the back-end thread that swaps the full buffers out and      *)
(* writes them to a LogFile, and the thread that calls Start and Stop.     *)
(*                                                                         *)
(* Lines are numbered in the order in which Append got the mutex, and have *)
(* the size 1; a buffer is the sequence of its lines.  The spare buffers   *)
(* are empty whenever they are there, so that each is a Boolean.           *)
(*                                                                         *)
(* What happens under mutex_ is one step.  The default build is Release,   *)
(* with NDEBUG: asserts are no steps.                                      *)
(***************************************************************************)
EXTENDS LogFile, FiniteSets

CONSTANTS kLargeBuffer,  \* size of a buffer
          kMaxBuffers,   \* the 25 of ThreadFunc
          MaxLines,      \* bound: calls of Append
          MaxStarts,     \* bound: calls of Start
          MaxNow         \* bound: the clock stops here

ASSUME LoggerAssumption ==
    /\ kLargeBuffer \in Nat /\ kLargeBuffer > 1
    /\ kMaxBuffers \in Nat /\ kMaxBuffers >= 2
    /\ MaxLines \in Nat /\ MaxStarts \in Nat /\ MaxNow \in Nat

VARIABLES
    now, running_,
    buffers_, currentBuffer_,
    nextBuffer_, newBuffer1, newBuffer2,  \* is the spare buffer there?
    buffers_to_write,
    written,     \* how many of them are in the file
    file,        \* log_file; between two runs of the thread the last one
    back,        \* where the back-end thread is
    stop,        \* what the thread that called Stop is doing
    lines,       \* lines appended so far
    starts,      \* calls of Start so far
    dropped      \* history: lines given up because of kMaxBuffers

frontVars == <<buffers_, currentBuffer_, nextBuffer_>>
spareVars == <<newBuffer1, newBuffer2>>
writeVars == <<buffers_to_write, written, file, dropped>>
vars == <<now, running_, frontVars, spareVars, writeVars, back, stop, lines,
          starts>>

Init ==
    /\ now = 0 /\ running_ = FALSE
    /\ buffers_ = <<>> /\ currentBuffer_ = <<>> /\ nextBuffer_ = TRUE
    /\ newBuffer1 = FALSE /\ newBuffer2 = FALSE
    /\ buffers_to_write = <<>> /\ written = 0
    /\ file = OpenLogFile(<<>>, 0)
    /\ back = "none" /\ stop = "none"
    /\ lines = 0 /\ starts = 0 /\ dropped = {}

-----------------------------------------------------------------------------
\* The thread that owns the logger.

Start ==
    /\ ~running_ /\ stop = "none" /\ starts < MaxStarts
    /\ running_' = TRUE /\ starts' = starts + 1 /\ back' = "start"
    /\ UNCHANGED <<now, frontVars, spareVars, writeVars, stop, lines>>

Stop ==
    /\ running_ /\ stop = "none"
    /\ running_' = FALSE /\ stop' = "notify"
    /\ UNCHANGED <<now, frontVars, spareVars, writeVars, back, lines, starts>>

\* A waiting back-end thread looks at its condition again.
Notified == IF back = "waiting" THEN "lock" ELSE back

StopNotify ==
    /\ stop = "notify" /\ stop' = "join" /\ back' = Notified
    /\ UNCHANGED <<now, running_, frontVars, spareVars, writeVars, lines, starts>>

StopJoin ==
    /\ stop = "join" /\ back = "exited"
    /\ stop' = "none" /\ back' = "none"
    /\ UNCHANGED <<now, running_, frontVars, spareVars, writeVars, lines, starts>>

-----------------------------------------------------------------------------
\* Any thread.

Fits(buf) == kLargeBuffer - Len(buf) > 1

AppendLine ==
    /\ lines < MaxLines /\ lines' = lines + 1
    /\ IF Fits(currentBuffer_)
       THEN /\ currentBuffer_' = Append(currentBuffer_, lines')
            /\ UNCHANGED <<buffers_, nextBuffer_, back>>
       ELSE /\ buffers_' = Append(buffers_, currentBuffer_)
            /\ currentBuffer_' = <<lines'>> /\ nextBuffer_' = FALSE
            /\ back' = Notified
    /\ UNCHANGED <<now, running_, spareVars, writeVars, stop, starts>>

\* Append goes on beyond MaxLines, without end, and fills one more buffer.  The
\* lines of these calls are not followed, the notification is: the back-end
\* thread looks at its condition again, and its next wait_for begins anew with
\* all of its timeout.
AppendMore ==
    /\ lines = MaxLines /\ back = "waiting" /\ back' = Notified
    /\ UNCHANGED <<now, running_, frontVars, spareVars, writeVars, stop, lines,
                   starts>>

-----------------------------------------------------------------------------
\* The back-end thread: ThreadFunc.

ThreadFunc ==
    /\ back = "start" /\ back' = "test"
    /\ file' = OpenLogFile(file.disk, now)
    /\ newBuffer1' = TRUE /\ newBuffer2' = TRUE
    /\ buffers_to_write' = <<>> /\ written' = 0
    /\ UNCHANGED <<now, running_, frontVars, dropped, stop, lines, starts>>

\* while (running_); after it a last flush, and ~LogFile.
WhileRunning ==
    /\ back = "test"
    /\ IF running_ THEN back' = "lock" /\ UNCHANGED <<file, spareVars>>
                   ELSE /\ back' = "exited"
                        /\ file' = CloseFile(Flush(file, now))
                        /\ newBuffer1' = FALSE /\ newBuffer2' = FALSE
    /\ UNCHANGED <<now, running_, frontVars, buffers_to_write, written, dropped,
                   stop, lines, starts>>

\* Mutant: the current buffer is not handed over.
SwapBuffers_KeepsCurrent ==
    /\ buffers_to_write' = buffers_ /\ written' = 0
    /\ buffers_' = <<>> /\ currentBuffer_' = <<>> /\ newBuffer1' = FALSE
    /\ nextBuffer_' = TRUE /\ newBuffer2' = (newBuffer2 /\ nextBuffer_)
    /\ back' = "write"
    /\ UNCHANGED <<now, running_, file, dropped, stop, lines, starts>>

\* Mutant: the second spare buffer is always given away.
SwapBuffers_GivesBoth ==
    /\ buffers_to_write' = Append(buffers_, currentBuffer_) /\ written' = 0
    /\ buffers_' = <<>> /\ currentBuffer_' = <<>> /\ newBuffer1' = FALSE
    /\ nextBuffer_' = TRUE /\ newBuffer2' = FALSE
    /\ back' = "write"
    /\ UNCHANGED <<now, running_, file, dropped, stop, lines, starts>>

SwapBuffers ==
    /\ buffers_to_write' = Append(buffers_, currentBuffer_) /\ written' = 0
    /\ buffers_' = <<>> /\ currentBuffer_' = <<>> /\ newBuffer1' = FALSE
    /\ nextBuffer_' = TRUE /\ newBuffer2' = (newBuffer2 /\ nextBuffer_)
    /\ back' = "write"
    /\ UNCHANGED <<now, running_, file, dropped, stop, lines, starts>>

\* The critical section.  The thread waits while there IS a full buffer.
Lock ==
    /\ back = "lock"
    /\ IF buffers_ # <<>>
       THEN /\ back' = "waiting"
            /\ UNCHANGED <<now, running_, frontVars, spareVars, writeVars, stop,
                           lines, starts>>
       ELSE SwapBuffers

\* Mutant: the timeout does not end the wait.
WaitTimeout_WaitsOn ==
    /\ back = "waiting" /\ back' = "lock"
    /\ UNCHANGED <<now, running_, frontVars, spareVars, writeVars, stop, lines,
                   starts>>

\* wait_for ran out.  (A spurious wake-up does what a notification does.)
WaitTimeout == back = "waiting" /\ SwapBuffers

\* Lines of a sequence of buffers.
Flatten(bufs) ==
    LET f[i \in 0 .. Len(bufs)] == IF i = 0 THEN <<>> ELSE f[i - 1] \o bufs[i]
    IN  f[Len(bufs)]

LinesOf(s) == {s[i] : i \in DOMAIN s}

\* Too many buffers: all but two are dropped, with a message of the size of
\* a line in the file.
DropBuffers ==
    /\ back = "write" /\ Len(buffers_to_write) > kMaxBuffers
    /\ buffers_to_write' = SubSeq(buffers_to_write, 1, 2)
    /\ dropped' = dropped \cup LinesOf(Flatten(
                    SubSeq(buffers_to_write, 3, Len(buffers_to_write))))
    /\ file' = AppendUnlocked(file, <<>>, 1, now)
    /\ UNCHANGED <<now, running_, frontVars, spareVars, written, back, stop,
                   lines, starts>>

WriteBuffer ==
    /\ back = "write" /\ Len(buffers_to_write) <= kMaxBuffers
    /\ written < Len(buffers_to_write)
    /\ written' = written + 1
    /\ LET buf == buffers_to_write[written + 1]
       IN  file' = AppendUnlocked(file, buf, Len(buf), now)
    /\ UNCHANGED <<now, running_, frontVars, spareVars, buffers_to_write,
                   dropped, back, stop, lines, starts>>

AllWritten == back = "write" /\ written = Len(buffers_to_write)

\* Written buffers, of which two are kept, replace the missing spare ones.
RefillSpares ==
    /\ newBuffer1' = (buffers_to_write # <<>>)
    /\ newBuffer2' = (newBuffer2 \/ Len(buffers_to_write) >= 2)

\* Mutant: nothing is flushed.
Recycle_NoFlush ==
    /\ AllWritten /\ back' = "test" /\ RefillSpares
    /\ buffers_to_write' = <<>> /\ written' = 0
    /\ UNCHANGED <<now, running_, frontVars, file, dropped, stop, lines, starts>>

\* The end of a round of the while.
Recycle ==
    /\ AllWritten /\ back' = "test" /\ RefillSpares
    /\ buffers_to_write' = <<>> /\ written' = 0
    /\ file' = Flush(file, now)
    /\ UNCHANGED <<now, running_, frontVars, dropped, stop, lines, starts>>

Tick ==
    /\ now < MaxNow /\ now' = now + 1
    /\ UNCHANGED <<running_, frontVars, spareVars, writeVars, back, stop, lines,
                   starts>>

-----------------------------------------------------------------------------
BackStep == \/ ThreadFunc \/ WhileRunning \/ Lock \/ WaitTimeout
            \/ DropBuffers \/ WriteBuffer \/ Recycle

StopStep == StopNotify \/ StopJoin

Next ==
    Start \/ Stop \/ StopStep \/ AppendLine \/ AppendMore \/ BackStep \/ Tick

\* The back-end thread keeps running: a wait that is not notified for as long
\* as flushInterval_ ends with its timeout, and no other wait need end.  Stop
\* goes on once it was called.
Fairness == WF_vars(BackStep) /\ WF_vars(StopStep)

Spec == Init /\ [][Next]_vars
FairSpec == Spec /\ Fairness

-----------------------------------------------------------------------------
\* All lines that are somewhere, in the order in which they are or will be
\* in the file.
AllLines ==
    LET waiting == SubSeq(buffers_to_write, written + 1, Len(buffers_to_write))
    IN  file.disk \o file.ofs \o Flatten(waiting) \o Flatten(buffers_)
            \o currentBuffer_

\* No line is lost, doubled or overtaken on its way through the buffers, the
\* swap, the rolls of the file, a Stop and another Start; only lines given up
\* because the back-end thread could not keep up (AsyncLogging.cpp:73) miss.
LinesInOrder ==
    /\ LinesOf(AllLines) = (1 .. lines) \ dropped
    /\ \A i, j \in DOMAIN AllLines : i < j => AllLines[i] < AllLines[j]

\* The spare buffers come back in time: the back-end thread has both when it
\* starts a round, and has written enough buffers to replace those it gave
\* away (asserts, AsyncLogging.cpp:53,54,96,103).
SparesReturn ==
    /\ back \in {"test", "lock", "waiting"} => newBuffer1 /\ newBuffer2
    /\ back = "write" => /\ buffers_to_write # <<>> /\ ~newBuffer1
                         /\ ~newBuffer2 => Len(buffers_to_write) >= 2
    /\ ~nextBuffer_ => buffers_ # <<>>

\* Buffers are not filled for ever within flushInterval_ of each other.  The
\* code does not see to it: each notification (AsyncLogging.cpp:39) makes the
\* while at 60-62 wait for the whole interval again, so that without this
\* hypothesis neither of the two properties below holds.
WaitIsLeftAlone == <>[][~AppendMore]_vars

\* If WaitIsLeftAlone, a line gets to the disk or is dropped, unless the logger
\* is stopped: it is swapped out though the back-end thread waits while there
\* are full buffers, and is not left in the buffer of the stream.
LineReachesDisk ==
    WaitIsLeftAlone =>
        \A i \in 1 .. MaxLines :
            (i <= lines /\ running_)
                ~> (i \in LinesOf(file.disk) \/ i \in dropped \/ ~running_)

\* If WaitIsLeftAlone, Stop() returns, although its notification is lost if the
\* back-end thread is just about to wait.
StopReturns == WaitIsLeftAlone => ((stop # "none") ~> (stop = "none"))

=============================================================================
