# TLA+ models of muduo-study

The repository is a C++ network library in the reactor style: one event loop
per thread, non-blocking sockets, and callbacks. This directory holds TLA+
modules for its core, TLC configurations that check them on small instances, and
proofs that TLAPS checks. All paths below are relative to the repository.

## 1. The system

### Parts, their state and their operations

| Part | State | Operations |
|---|---|---|
| `EventLoop`, `Bridge` | `looping_`, `quit_`, `callingPendingCbs_`, the active channels, `pendingCbsQueue_` under `mtx_`, an eventfd | `Loop`, `Quit`, `RunInEventLoop`, `EnqueueEventLoop`, `WakeUp` |
| `Channel`, `PollPoller` | interest set and index of each channel; array of `pollfd`; map from descriptor to channel | `UpdateChannel`, `RemoveChannel`, `Poll`, `HandleEvents` |
| `TimerQueue`, `Timer`, `Watcher` | binary heap with a position per timer, `latestTime_`, a timerfd | `AddTimer`, `CancelTimer`, `HandleExpiredTimers` |
| `EventLoopThread`, `EventLoopThreadPool` | `loop_`, `isExit_`, the threads, the next index | `BuildAndRun`, `Run`, `GetNextLoop`, destructors |
| `TcpConnection` | `state_` (atomic), channel, input and output buffer | `Send`, `Shutdown`, `HandleRead/Write/Close`, `StepIntoEstablished`, `StepIntoDestroyed` |
| `TcpServer`, `Acceptor` | `conns_`, `serving_`, listening | `ListenAndServe`, `HandleNewConnection`, `RemoveConnection`, destructor |
| `TcpClient`, `Connector` | `connection_`, `doConnect_`, `retry_`; `opState_`, `connect_`, `chan_`, the retry delay | `Connect`, `Stop`, `Shutdown`, `EnableRetry`, destructor; start, retry, restart |
| `Buffer` | a vector of bytes, `readerIndex_`, `writerIndex_` | append, prepend, retrieve, make room, read from a descriptor, integers |
| `AsyncLogger`, `LogFile` | current, next and full buffers under a mutex; a file | append, back-end thread, stop; roll, flush |
| `ThreadPool` | task queue, two condition variables | `Run`, `Take`, `Stop` |
| Memory pool (`mem_pool`) | a free list per size, the space left, the areas from `malloc` | `allocate`, `deallocate`, destructor |
| Logging, sockets | formatting; descriptors | thin wrappers |

### How they interact

Everything of a loop happens in its thread: poll, then the handlers of the
active channels, then the callbacks that were pending at that moment. Other
threads only push to the pending queue and write the eventfd. Timers, servers,
connections and clients are built on that: a call from a foreign thread becomes
a functor in the queue, and a call in the loop thread runs at once. A connection
is shared by the server's map, the functors in queues and the user
(`shared_ptr`); its removal goes from its IO loop to the base loop and back.

### What is hard, and what makes each part correct

- **Loop**: a push and its wake-up are two steps, and so are the store of `quit_`
  and its wake-up. The loop must not sleep over a callback or a quit, and must
  run callbacks once and in order.
- **Poller**: three structures refer to each other by index, and a removal moves
  another channel's slot. Poll has to tell exactly what is due.
- **Timers**: the heap keeps a position for each timer, the timerfd must follow
  the earliest timer, and a callback may cancel any timer, itself included.
- **Thread pool of loops**: the start is a handshake, and the end is a quit and a
  join that must meet a loop that listens.
- **Connections**: bytes must keep their order across direct and buffered writes;
  a connection must be destructed exactly when it is disconnected and out of the
  poller, whichever of three owners goes last.
- **Thread pool, logger**: condition variables with `notify_one`, waits that may be
  entered too late or left too early, and a stop that must reach everybody; log lines
  must neither get lost nor change their order.
- **Buffer**: the content moves, the vector grows, or part of what is read goes through
  a second buffer, depending on three amounts of room. No byte may get lost.
- **Memory pool**: blocks are carved, listed, taken from larger ones when `malloc` fails;
  every byte must be in one place.
- **Channel**: one result of poll can lead to several callbacks, the first of which
  changes what the others find.
- **Client**: retry timers, restarts, `Stop` and the destructor overlap. There
  must be one attempt at a time, and one connection that the client knows.

`PROJECT.json` lists the hazards with their lines and the properties for them.

## 2. Modules

| Module | Models | Remarks |
|---|---|---|
| `FifoExecutor` | nothing in the code | Abstract specification: what callers of a loop rely on. Accept, run the oldest, or run in place. |
| `EventLoop` | `EventLoop.cpp`, `Bridge.cpp` | Implements `FifoExecutor` with `queue <- tmp_queue \o pendingCbsQueue_`. |
| `MCEventLoop`, `EventLoopProofs` | | instance for TLC; proofs |
| `PollPoller` | `poller/PollPoller.cpp`, the registering part of `Channel` | |
| `MCPollPoller`, `PollPollerProofs` | | instance with two channels that share a descriptor number; proofs |
| `MCLoopParts` | | instance of `MCPollPoller` or `MemPool` |
| `TimerMinHeap` | `TimerMinHeap` in `TimerQueue.cpp` | Operators on the array and the positions; each loop is a recursive function of the loop's state (`Cursor`). |
| `TimerQueue` | rest of `TimerQueue.cpp`, `Timer`, `Watcher` | Extends `TimerMinHeap`. Proofs of both in `TimerQueueProofs`. |
| `EventLoopThreadPool` | `EventLoopThreadPool.cpp`, `EventLoopThread.cpp` | Proofs in `ThreadPoolProofs`. |
| `MCThreadPools` | | instance of `EventLoopThreadPool` or `ThreadPool` |
| `Channel` | `HandleEvents` of `Channel.cpp` | Which callbacks, in which order. |
| `Buffer` | `Buffer.h`, `Buffer.cpp`, `base/Endian.h` | Operators on one buffer; what they do to its content is proved in `BufferProofs`. |
| `TcpConnection` | `TcpConnection.cpp` | Operators on one connection; extends `Buffer`. |
| `TcpServer` | `TcpServer.cpp`, `Acceptor.cpp` | Composes `TcpConnection` with several loops and a user thread. Proofs in `TcpServerProofs`. |
| `ThreadPool` | `base/ThreadPool.cpp` | Proofs in `ThreadPoolProofs`. |
| `LogFile` | `base/LogFile.cpp` | Operators on the log file. |
| `AsyncLogger` | `base/AsyncLogging.cpp` | Composes `LogFile` with the back-end thread, the owner and those who log. Proofs in `AsyncLoggerProofs`. |
| `Connector` | `Connector.cpp` | Operators on one connector. |
| `TcpClient` | `TcpClient.cpp` | Composes `TcpConnection`, `Connector` and `Channel` with a loop and a user thread. Proofs in `TcpClientProofs`. |
| `MemPool` | `base/allocator/mem_pool.cpp`, `.h` | The pool of one loop. Proofs in `EventLoopProofs`. |

Names of variables and actions are those of the code. A definition whose name
has a suffix after an underscore, such as `EnqueueDone_NoWakeUp`, with a comment
that starts with "Mutant", is a broken version of the definition below it. It is
used to see that a property notices the bug; no specification uses it.

**Composition.** `EventLoop` has the loop at the grain of its lock and its
atomics. The modules above it use the loop at the grain of handlers and functors:
rounds of handlers followed by the functors that were pending at the swap, in FIFO
order, and a poll that returns when something is pending. The
refinement `ImplementsExecutor` and the properties `NoLostWakeUp` and `QuitEndsLoop` of
`EventLoop` are what justify this.

### Abstractions

- `EventLoop`: a callback is a model value, and each stands for one call. What a
  handler or callback does is the calls it makes while `cur` is that handler or
  callback. `Quit` is called once, because a second call before `Loop` has returned
  fails the assert in `Quit`.
- `PollPoller`: indices are one-based; `revents` are part of the active list. The
  rules that the callers keep (register by enabling an event, no use after
  `Remove`, no two open descriptors with the same number) are guards.
- `TimerQueue`: time is a small counter. All timers that one `GetExpiredTimers`
  looks at are compared with one reading of the clock. The timerfd holds the
  absolute time it is armed for. Destructors are left out.
- `EventLoopThreadPool`: an IO thread's loop is `quit_` and where the thread is. User
  code may quit an IO loop from inside (`QuitFromLoop`). The destructor's steps are
  those of `~EventLoopThread`: `isExit_`, the test of `loop_`, its second read with the
  store of `Quit`, the wake-up of `Quit`, the join. `loop_` is read without the mutex: once
  the thread has withdrawn it, the second read may give `nullptr` or still the old value, and
  the loop may be gone before it is used. That is undefined in C++, and the model ends in
  the state `"undefined"`. The destructor runs in the base loop's thread, before the start or
  after it; an `EventLoopThread` that another thread destroys while `Run` waits (the last
  block of `tests/EventLoopThread_unittest.cc`) is not used that way by the pool and is left out.
- `Buffer`: the integers of four widths are one operator with the width as a parameter;
  the runs use one and two bytes, because larger ones are beyond TLC's integers.
- `TcpConnection`: a message is two bytes so that a write can stop inside it. Results
  of `write(2)` are chosen freely; after `SHUT_WR` it fails. What a server's
  connection receives is not kept; that is in `TcpClient`.
- `TcpServer`: the server is destroyed by the base loop's thread after `Loop` has
  returned, as in the tests, and the user thread has stopped calling by then.
  `shared_ptr` counts are not numbers: `Gone` says that no holder is left. The
  memory pool's functors and the `EMFILE` path of `Acceptor` are left out.
- `ThreadPool`, `AsyncLogger`: asserts are no steps, because the default build type is
  Release with `NDEBUG`. What a thread does under the mutex is one step. Tasks do not
  call `Run`; log lines have size 1; a file's name is not kept. In `AsyncLogger` a
  spurious wake-up is left out, since it does what a notification does. The lines of
  `MaxLines` calls of `Append` are followed; after them `Append` may go on without end
  (`AppendMore`), of which only the notification is kept. A line fits into an empty buffer:
  the assert at `AsyncLogging.cpp:36`, and the loss of a line that does not fit when asserts are off
  (`LogStream.h`), are outside the model, as are errors of the file's stream (`LogFile.cpp:26`,
  where the bytes are lost): `LinesInOrder` and `NoLineLost` do not speak of either.
- `TcpClient`: `Connect` is called once. A round of handlers is shorter than the
  retry delay of half a second (the hazard at `Connector.cpp:134` is what
  happens otherwise). Descriptors are not counted: a `connect(2)` that fails at once
  and is retried does not close its socket (`Connector.cpp:51`), which the model does
  not see. `Reported` is what poll can say of a socket: the end of the
  stream sets IN and RDHUP, a reset HUP and ERR as well. User code takes
  bytes out of `inputBuffer_`, puts back what it took, or appends, at any
  time in the loop thread. The input buffer is forgotten when the connection is removed.
  Calling a channel whose connection was destructed is undefined in C++; the model
  lets the tie be either alive or gone.
- `MemPool`: addresses are numbers; `malloc` never reuses an area and fails
  whenever it likes. Callers return a block once and with its size.

## 3. Runs

Each run is `tlc -config <cfg> <module>`.

| Run | Config, module | Result | States |
|---|---|---|---|
| `event_loop` | `MCEventLoop.cfg`, `MCEventLoop` | holds | 110,939 |
| `timer_queue` | `MCTimerQueue.cfg`, `TimerQueue` | holds | 346,585 |
| `timer_heap` | `MCTimerHeap.cfg`, `TimerQueue` | violated | |
| `loop_parts` | `MCLoopParts.cfg`, `MCLoopParts` | holds | 110,749 |
| `poll_ignored` | `MCPollIgnored.cfg`, `MCPollPoller` | violated | |
| `thread_pools` | `MCThreadPools.cfg`, `MCThreadPools` | holds | 80,446 |
| `pool_quit` | `MCPoolQuit.cfg`, `EventLoopThreadPool` | violated | |
| `tcp_server` | `MCTcpServer.cfg`, `TcpServer` | holds | 965,431 |
| `tcp_shutdown` | `MCTcpShutdown.cfg`, `TcpServer` | violated | |
| `tcp_client` | `MCTcpClient.cfg`, `TcpClient` | holds | 387,681 |
| `tcp_client_destroy` | `MCTcpClientDestroy.cfg`, `TcpClient` | violated | |
| `async_logger` | `MCAsyncLogger.cfg`, `AsyncLogger` | holds | 117,675 |

`loop_parts` and `thread_pools` each check two modules that share no state: a behaviour is
one of the first module with the second at rest, or the other way round, so that the
states are the sum of both and not the product. The type invariants `TypeOK` of the modules
are invariants of no run; they are proved with the inductive invariants (section 4).

### What they check

- **event_loop**. `NoLostWakeUp`: a loop in poll has a wake-up in the eventfd, or
  about to be written, for every pending callback. The only callbacks without one
  are those that the loop thread queued itself before it called `Loop`, which wait
  for another event or the poll timeout. `NoLostQuit`: the same for `quit_`.
  `ImplementsExecutor`: callbacks run once and in order. `QueuedCallbackRuns`,
  `QuitEndsLoop`: both happen without the poll timeout.
- **timer_queue**. `PositionsMatch`, `ArmedForEarliest`: the heap's positions and the
  timerfd are right after every step. `CancelledStaysCancelled`: no repeating timer
  comes back after its cancel, whoever cancels it. `ReturnsAllExpired`,
  `DueTimerRuns`: due timers are taken and run.
- **loop_parts**, poller. `SlotsMatch`: array, map and indices agree. `PollReportsDue`: for
  every state of the descriptors, poll would tell no channel anything but its own events,
  nothing to one that is removed or asks for nothing, and all that is due to one that has
  had events ever since it was registered.
- **loop_parts**, memory pool. `Accounted`: every byte of every area is in use, in a free
  list or in the space left, and in one of them only (`Tiles`: the pieces fill the areas, and
  no two overlap). `ThrowsOnlyWhenEmpty`: `std::bad_alloc` means
  that nothing free could hold the request. `AreasReturned`: the destructor frees every
  area, but for those of `master_alloc`.
- **thread_pools**, loops. `HandedOutLoopsLive`: what `GetNextLoop` hands out is a loop that
  lives, and the loops are dealt out evenly. `BuildReturns`, `DestructorReturns`: the
  start and the destructor return, but for the cases they name (below). `DestructorSound`: when
  it has returned no thread is left, and where it stops the thread at hand is in
  the state that the exception speaks of.
- **thread_pools**, tasks. `AwakeForEveryTask`: while a worker waits for a notification, at least
  as many workers are awake as there are tasks in the queue. `BoundedForOneProducer`:
  the limit holds, and nobody waits without reason, as long as calls of `Run` do not
  overlap or wake up spuriously. `AcceptedTaskRuns`, `StopReleasesAll`: accepted tasks
  run, and `Stop` ends every wait.
- **tcp_server**. `CallbacksPaired`, `DestructedWhenDone`, `MapKeepsConnections`: the
  life of a connection and the asserts on the way, the destruction of the server
  included. `StreamInOrder`, `WritingIffBuffered`: the bytes, through the real
  `outputBuffer_`. `ClosedIsDestroyed`: a closed connection is finally removed.
- **tcp_client**. `OneAttempt`: one attempt to connect at a time, also when one poll
  leads to the error and the write callback. `ClientKnowsConnection`,
  `CallbacksPaired`. `StreamReceived`: no byte is lost, doubled or moved in
  `inputBuffer_`. `StopIsFinal`: a stopped or destroyed client leaves no connector
  that goes on. `DestroyCloses`: a client that is dropped closes its connection, if
  it was not shut down before.
- **async_logger**. `LinesInOrder`: a line is in one place, and in order, through
  swaps, rolls, a stop and a second start, unless more than 25 buffers were waiting and it was dropped.
  `SparesReturn`: the asserts on the spare buffers. `LineReachesDisk`, `StopReturns`: a line
  is written and `Stop` returns, provided that buffers are not filled for ever within
  `flushInterval_` of each other (`WaitIsLeftAlone`).

### What the violated properties show

1. `timer_heap`: `Del` in `TimerMinHeap` puts the last timer in the hole and only moves
   it down. If it is earlier than the parent of the hole the heap order is lost, and
   `GetExpiredTimers` misses a due timer. It takes seven timers for that; the order of the
   heap can be lost with six.
2. `poll_ignored`: `UpdateChannel` stores the negated descriptor for a channel without events
   and never the descriptor again. When the channel enables an event later, poll goes on
   skipping it, although the comments at `PollPoller.cpp:50` and `:53` say that it is ignored
   for the time being.
3. `pool_quit`: user code quits the loop of an `EventLoopThread` that is destroyed
   later. `loop_` is `nullptr` by then, so the thread is not joined, and the destructor of
   the `std::thread` ends the program. `tests/EventLoopThread_unittest.cc:34-40` does this.
4. `tcp_shutdown`: `Send` then `Shutdown` from another thread. While older data is being
   written the connection is already `disconnecting`, so `HandleWrite` sends
   the FIN before the queued `SendInLoop` has run, and that data is lost.
5. `tcp_client_destroy`: `Shutdown` and then the destruction of the client. The functor
   of the destructor ignores a connection that is `disconnecting`: it is destructed
   while registered and not disconnected.

### What the code does not do, and the properties that say so

Some properties hold only with an exception, which states what the code does. Without
it TLC refutes them.

- `PollReportsDue` leaves open what a channel is told that had no events at some time; that
  is `IgnoredForNow`, which run `poll_ignored` refutes. The library itself never enables such
  a channel again.
- `DestructorReturns`: an `EventLoopThread` destroyed before its thread has entered
  `Loop` waits for ever, because `Loop` sets `quit_` to false (`forgot`). One whose
  loop was quit by user code (`left`) is not joined, and the program is terminated (run
  `pool_quit`). And a loop can return, and be destroyed, between the test of `loop_` and the last
  thing `Quit` does with it: either user code quits it at that moment, or it sees `quit_`
  before the wake-up, because something else has ended its poll (`"undefined"`).
- `BuildReturns`: if what the thread's init callback queued quits the loop, `loop_` can be
  withdrawn before `Run` has looked at it, and `Run` waits for ever.
- `StopIsFinal`: a `Stop` between the loop's test of `doConnect_` and `Restart` is overruled,
  and after `Shutdown` while connecting neither `Stop` nor the destructor stops the
  connector.
- `DestructedWhenDone`: a connection that is `disconnecting` when the server is destroyed is
  removed with its events (the code has a FIXME), and an IO loop may quit before it
  runs the `StepIntoDestroyed` posted to it.
- `BoundedForOneProducer`: `Run` waits with an `if`. After a spurious wake-up, or with a faster
  second producer, it pushes to a full queue, and since `IsFull` compares with `==` the
  limit is off from then on. `Take` notifies a producer only at the step from full to
  one less, so of two blocked producers one can stay blocked until `Stop`.
- `AreasReturned`: an area that `master_alloc` gave after `malloc` had failed is not put on
  record.
- `LineReachesDisk`, `StopReturns`: the back-end thread of `AsyncLogger` waits while there
  are full buffers instead of while there are none. A notification does not end its wait,
  only the timeout does, and after each notification (`AsyncLogging.cpp:39`) the while at 60-62
  waits for the whole `flushInterval_` again without looking at `running_`. If a buffer is
  filled within every interval the thread waits for ever: nothing reaches the disk, the full
  buffers pile up, and `Stop` does not return. Both properties have the hypothesis
  `WaitIsLeftAlone`, that is, `AppendMore` is taken only finitely often. The code does not
  guarantee it; without it TLC refutes both, with a loop of `AppendMore` and `Lock`.

### Bounds

- Loop: two foreign threads and the loop thread, three callbacks, one other channel,
  one quit. Three callbacks put one in each of the local queue, the pending queue
  and a push under way; two threads can both be between push and wake-up.
- Timers: four timers, two expirations, two intervals (one-shot and repeating), one
  cancel, one call from another thread. A heap of four has all cases of sifting up to
  the third level. The violation needs seven
  timers (with six TLC finds none), so
  `timer_heap` has seven timers and little else.
- Poller: four channels, of which two have the same descriptor number one after the
  other. A removal from the middle, of the last slot and of the only slot all
  happen. `MCView` drops the active list, which no action reads; it is computed anew
  by each `Poll`.
- Pool of loops: three threads, each handed out up to twice: the index wraps, and the first, a
  middle and the last thread can be the one that is late or was quit. `pool_quit` has one
  thread, as the test it is about.
- Server: one connection, in the base loop or in an IO loop, two messages by a user
  thread and one by the loop, a buffer of two bytes behind one prependable byte so that
  it both grows and moves its content, a high-water mark of three bytes so that it is passed and
  is not. An instance with two connections and one message (1,197,055 states) passed
  the invariants too; it is not kept because connections share nothing but the map and
  the queues' order.
- Pool of tasks: two workers, two producers, a queue of two, five tasks: both producers
  block, and a worker can take two tasks before a producer wakes up.
- Logger: buffers of two lines, at most two buffers (for 25), seven lines, files of
  three lines, and after them notifications without end: buffers are dropped, files roll by size and by period, the
  spare buffers run out, and the logger is started twice.
- Client: two connections one after the other, delays 1, 2, 3 so that the delay
  doubles and is cut. Four bytes received into a buffer of two with two prependable
  bytes and an `extrabuf` of two: reads fit, overflow, grow the vector and move the
  content. The high-water mark is irrelevant and 0.
- Memory pool: alignment 2, small blocks up to 6 bytes, two blocks per refill (for 20),
  requests for the smallest list, the largest list and for a large block, two areas,
  three blocks in use: space is left over and salvaged, and `malloc` fails with and
  without a larger block at hand.

### Fairness

Assumed: a thread that has begun a library call finishes it; a loop's thread keeps
running; poll returns when the eventfd or the timerfd is readable. All of these are
what the scheduler and the kernel give. The logger's back-end thread keeps running too,
but its wait ends only by a timeout that is not cut short for ever; this is a
hypothesis in the two properties and no assumption of the specification. In the modules above `EventLoop` a poll
returns when something is pending, which `NoLostWakeUp` justifies. Nothing is assumed
of peers, users, other channels, spurious wake-ups or the poll timeout, so that no
liveness property rests on them.

Deadlock is checked except for the two thread pools, the server, the logger and the memory
pool (and with it `loop_parts`), which really come to an end (and in `ThreadPool` a producer
can stay blocked, see above).

## 4. Proofs

Each theorem below is for every value of the constants that the named assumptions
allow; TLC evaluates those assumptions in the runs. All proofs of invariants have
the same shape: an inductive invariant (`IInv` in most modules), which TLC checked on the run's
instance first, that `Init` implies it, a lemma per action that keeps it, and that it implies the
property. `tlapm <module>.tla` checks them.

| Module | Assumptions | Theorems |
|---|---|---|
| `EventLoopProofs` | `ConstAssumption` (the sets are disjoint) | `TypeCorrect`, `WakeUpNeverLost` (`NoLostWakeUp`), `QuitNeverLost` (`NoLostQuit`), `Refinement` (`ImplementsExecutor`) |
| `EventLoopProofs`, second half | `MemPoolAssumption` (the largest small block is a multiple of the alignment, no request of size 0) | `EveryByteAccounted` (`Accounted`), `ThrowsWhenNothingFits` (`ThrowsOnlyWhenEmpty`), `MallocAreasReturned` (`AreasReturned`) |
| `TimerQueueProofs` | `TimerAssumption` (there is a latest time point) | `TypeCorrect`, `PositionsAlwaysMatch` (`PositionsMatch`), `CancelIsFinal` (`CancelledStaysCancelled`), `CollectionLosesNothing`; under a condition `ArmedWhileCancelsFit`, `ArmedInSmallHeaps` (`ArmedForEarliest`), `AllReturnedWhileCancelsFit`, `AllReturnedInSmallHeaps` (`ReturnsAllExpired`) |
| `PollPollerProofs` | `PollAssumption` | `SlotsAlwaysMatch` (`SlotsMatch`), `PollIsExact` (`PollReportsDue`) |
| `ThreadPoolProofs`, second half | `PoolAssumption` | `LoopsLive` (`HandedOutLoopsLive`), `StartNotLost`, `DestructorLeavesNobody` (`DestructorSound`) |
| `ThreadPoolProofs` | `ThreadPoolAssumption` (finitely many workers, who are not producers) | `NoTaskIsSleptThrough` (`AwakeForEveryTask`), `LimitKept` (`BoundedForOneProducer`), `TasksRunOnce` |
| `BufferProofs` | `BufferAssumption` | `AppendAtEnd`, `RetrieveFromFront`, `PrependInFront`, `ReadAtEnd`, `IntBytes` |
| `TcpServerProofs` | those, `ServerAssumption`, `HighWaterAssumption` | `TypesHold`, `UpThenDown` (`CallbacksPaired`), `ConnectionOutlivesUse` (`DestructedWhenDone`), `RemoveFindsConnection` (`MapKeepsConnections`), `BytesInOrder` (`StreamInOrder`), `PolloutWhileBuffered` (`WritingIffBuffered`) |
| `TcpClientProofs` | those, `ClientAssumption`, `DelayAssumption` | `AttemptsOneByOne` (`OneAttempt`), `ConnectionKnown` (`ClientKnowsConnection`), `UpThenDown` (`CallbacksPaired`), `StoppedForGood` (`StopIsFinal`), `BytesReceived` (`StreamReceived`) |
| `AsyncLoggerProofs` | `LoggerAssumption`, `LogFileAssumption` | `NoLineLost` (`LinesInOrder`), `SparesComeBack` (`SparesReturn`) |

**Loop.** The inductive invariant is `TypeOK /\ PhaseInv /\ PendingCovered /\ NoLostQuit`.
`NoLostWakeUp` speaks of a loop in poll only and is not inductive.
`PendingCovered` says the same for every phase from which poll can be reached without
another swap, that is, all but the handlers and the swap itself: there the eventfd may
just have been read, but the swap is still to come. `PhaseInv` ties
`callingPendingCbs_` to the phase (so that a callback's own pushes do write the
eventfd), and says where the loop thread can be inside a call. The lemma `WakeUpStays`
carries the argument: only a handler takes a wake-up away. For the refinement, a
swap is a stutter, because the local queue is empty before it.

**Poller.** The invariant adds that the map is keyed by the channels' own descriptors,
that a channel is registered iff it has an index and was not removed, and that a channel
is stored with its descriptor if it always had events and with the negated one if not (`PolledExactly`
draws from it what poll tells; `PollIsExact` is weaker, and would hold too if the
descriptor were stored again).
The step that matters is the removal: the last slot moves into the hole, and no two
registered channels share a slot (`OwnSlot`), so exactly one index has to change.

**Timers.** The heap's two loops and the loop of `GetExpiredTimers` are recursive functions, and
what they compute needs an induction. `LoopExists`, `LoopUnique` and `LoopInvariant` do it once
for all loops: a loop is a function `f` on a set of states with a set of final ones, a
next state and a measure that falls; then `f` is defined by its equation, and what each
round keeps, `f` keeps. They follow from the well-foundedness of `<`, with sets in the place
of predicates, which the provers cannot instantiate. So `SiftUpKeeps` and `AdjustKeeps` say
that sifting permutes the timers, keeps the positions inverse to the array, and orders a
heap that is in order but for one place (`UpFrom`, `DownFrom`); `TakeExpiredKeeps` says that
the collection takes every timer that is due and loses none. The invariant
`IInv` adds to the three invariants of the run that each id was used once (`BornInv`) and that a timer that
is still to be added is nowhere else (`AddedOnce`), which a cancel that
overtakes its add would otherwise break.
`ArmedForEarliest` and `ReturnsAllExpired` do not hold for every number of timers
(run `timer_heap`). They follow from `OrderInv`, the order of the heap and the timerfd following its
top, and one step alone does not keep it: `Del` of a timer in whose place the last timer
does not fit, that is, is earlier than the parent. `CancelFits` says that
a step is no such cancel; `ArmedWhileCancelsFit` has it as its only hypothesis.
`ArmedInSmallHeaps` discharges it: without cancels, or with at most five timers in
the heap, the last timer always fits, because the parent of the hole is the root or the
last timer's own parent (`SmallHeapFits`). A heap of six can lose its order; TLC finds a timer
missed only with seven.

**Memory pool.** `PoolInv` has types, that the space left is a multiple of the alignment, that areas end
below some address, and that large blocks have different addresses, besides the
three properties. `Tiles` is what has to be kept. `Repartition` reduces it to a map from
the pieces after a step to those before: each lies in the piece it is mapped to, two that are
mapped to one piece do not overlap, and together they fill it. Every step is then one of
four: `TakeHead` (the first block of a list becomes a block in use, or the space),
`PushHead` (a block in use, or the space, becomes the first of a list), `RefillTiles` (the space
becomes a block in use, a list and the new space), `NewSpace` (an area becomes the space).
That no residue is lost rests on `SalvageFacts`: what is left is aligned and smaller than the request, so it
is exactly one block of a shorter list, and the list of the request is still empty when `refill` fills it.

**Threads of loops.** `IoStartInv` says how far the start is (threads before `cur` are
published, later ones do not exist), `LoopInv` that `loop_` is set exactly while the loop
is published (`Published`), who can have quit it, and that it ends only when quit, `JoinedInv` that
the destructor is done with the threads before `cur`, and `DealInv` that the loops before `nextLoopIdx_`
were handed out once more than the others, which is what makes the dealing even.
`StartNotLost` is the safety half of `BuildReturns`: it says in which states alone the base
thread can be blocked. `DestructorLeavesNobody` is that of `DestructorReturns`: no thread that was
started is left when the destructor has returned; where the program ends because of
`loop_ == nullptr`, user code has quit that loop; where a loop is used that is gone, it has
returned because `quit_` was set; and a thread is joined only if `quit_` of its loop is set or
was reset by `Loop`. It is stated over all interleavings of the five steps of
`~EventLoopThread` with the steps of the thread.

**Thread pool.** `AwakeForEveryTask` counts: the lemma `AwakeCount` says what a step does to
the number of workers awake. It is inductive because a worker that goes to sleep saw an
empty queue, and each push wakes one if one sleeps. `BoundedForOneProducer` needs
`AloneInv`: a producer that was let through still finds room when it pushes, because no
other call of `Run` is under way. `TasksRunOnce` is about `EachTaskOnce`, which no run
checks: a task is in one place only.

**Buffer.** `IsBuffer` says that the indices are in order and that the vector is at least as
long as what `RetrieveAll` goes back to. The theorems say what the functions do to
`Content`, whether there is room, the content is moved or the vector grows. `IntBytes` is
for one, two and four bytes: reading and writing again gives the same bytes.

**Server.** A connection goes through `Fresh`, `Up`, `Closing` and `Down` (`ConnInv`), and in each of
them the invariant names who holds it and which functor is under way. `FunctorInv` ties a
queued functor to the loop it is for and to the state that it asserts; it is the reason
why `RemoveConnectionInLoop` finds what it erases. `OrderInv` says what may be in front of
what in a queue; without it, `StepIntoDestroyed` could overtake `StepIntoEstablished` in
an IO loop. `ServeInv` does the same for the start of the pool and `Listen`. `OutputInv` and
`SendInv` are about the bytes, and use the theorems of `BufferProofs`: `StreamInOrder` becomes
inductive when it also speaks of messages in the loop's queue and in the hands of the
user thread.

**Client.** `AttemptInv` counts what can lead to a start (`Waiting`: armed timers, a queued
functor, a call, a restart), and says that a client with a connection has none and that
one that reconnects has lost its connection. `QueueInv` and `OnceInv` give what is queued:
one reset of the connector's channel, in the part of the queue that the round still runs.
`StopInv` says that nobody sets `doConnect_` again. `InputInv` carries the bytes.

**Logger.** `RoundInv` says that buffers are dropped before the first of them is written,
that none is left over between rounds, and that no line is in the stream's buffer while
the thread is not there; the last is what a restart relies on, since the new `LogFile` knows
of the disk only. The file's functions append and keep what is there (`AppendUnlockedKeeps`
and the lemmas before it), and the lemmas on `Joined` say how a step moves lines between its
parts. `Flatten` is a recursive function: `SetInduction`, induction for a set instead of a
predicate, follows from the well-foundedness of `<` and carries `FlattenAppend` and `FlattenCat`.

### Not proved

- All liveness, which is out of reach of the prover.
- `DueTimerRuns` is liveness; `ReturnsAllExpired` and `ArmedForEarliest` are true in general
  under the condition above only.
- Integers of eight bytes: 256^8 is beyond the solver's arithmetic; neither a
  theorem nor a run covers them.

## 5. Not modelled

- `Logging`, `LogStream`: formatting.
- `Socket`, addresses: wrappers of system calls; their results are inputs here.
- `EpollPoller`: the file is empty.
- `Acceptor`: the path for `EMFILE` with the spare descriptor. It would need the
  process's table of descriptors, which nothing else here looks at.
- The allocators on top of the memory pool (`Allocatable`, `sgi_stl_alloc`), which forward to
  it, and the functors that return a connection's memory to its loop.
- Objects that user code destroys inside a handler of the same round
  (`EventLoop.cpp:119`).

## 6. Plan

Done, in this order, because everything rests on the first ones: the loop, the
poller, the timers; the loops' threads, connections and servers, clients; the thread
pool and the logger; the buffer under the connections, the dispatch of events, and the
memory pool. Proofs, in this order: the loop and the poller; the two kinds of pools of
threads; the buffer, and with it the client and the server; the logger; the timers; the
memory pool. What is left:

1. `IntBytes` for eight bytes, once 256^8 is within the prover's reach.
2. The path for `EMFILE` of `Acceptor`, with the process's table of descriptors.
3. Handlers that destroy channels of the same round (`EventLoop.cpp:119`).
