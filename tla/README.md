# corpc in TLA+

TLA+ specifications of corpc (`src/corpc`), a C++ coroutine library with an RPC
and HTTP server on top: what its parts do step by step, what TLC finds of them on
small instances, and what TLAPS proves of them for instances of any size.

## The system

corpc starts one thread per CPU. Each thread is a `Processor` that runs
coroutines: they yield when they wait for a descriptor, a timer or a lock, and
the processor's loop resumes them. Servers and clients are coroutines over this.

| Component | State | Operations | Talks to |
|---|---|---|---|
| `LockFreeRingBuffer` | two positions, slots | `push`, `pop` | processors: `m_pending_tasks` |
| `Spinlock`, `RWMutex` | semaphore; `m_state`, `m_readingNum`, `m_waitingCo` | `rlock`, `runlock`, `wlock`, `wunlock` | yields to the processor, wakes with `addCoroutine` |
| `Coroutine`, `Context` | `m_status`, a stack | `resume`, `yield` | processor |
| `Processor` | pending, active, removed tasks, `m_cors_set`, the pool | `loop`, `resume`, `yield`, `wait`, `waitEvent`, `addCoroutine` | everything |
| `Epoller` | `m_fds`, the eventfd | `addEvent`, `delEvent`, `wakeup`, `getActiveTasks` | kernel, timer, processor |
| `FdEvent`, `FdEventContainer` | a coroutine per descriptor | `getFdEvent`, `setCoroutine` | epoller |
| `Timer`, `TimerEvent` | `m_pending_events`, the timerfd | `addTimerEvent`, `delTimerEvent`, `onTimer` | epoller calls `onTimer`, callbacks resume coroutines |
| `Scheduler`, `ProcessorSelector`, `co_api` | the singleton, `m_curpro_id` | `getScheduler`, `next`, `co_go`, `co_sleep` | processors |
| `MemPool`, `ObjPool` | chunks and a free list | `new_obj`, `delete_obj` | processor |
| `NetSocket`, `NetAddress` | a descriptor | `accept`, `connect`, `read`, `send` | `waitEvent`, timer |
| `TcpBuffer` | bytes, two indices | write, read, recycle, resize | connection, codecs |
| `TcpConnection` | `m_state`, two buffers, replies | `input`, `execute`, `output`, `clearClient`, `shutdownConnection` | server, wheel, codec |
| `TcpServer`, `TcpAcceptor` | `m_clients` | accept loop, `ClearClientTimerFunc` | connections |
| `TcpTimeWheel`, `AbstractSlot` | buckets of slots | `fresh`, `loopFunc` | shuts connections down |
| `TcpClient` | a connection, a timeout | `sendAndRecvPb` | timer, connection |
| `PbCodeC`, dispatcher, channel, controller | | encode, decode, dispatch, call | connection |
| `HttpCodeC`, dispatcher, servlets | | decode, dispatch | connection |
| `MsgReqUtil`, `StringUtil` | the last message number | `genMsgNumber`, splitting | |
| `Logger`, `FileManagement` | queue, file, settings | write, rotate | everything |

What is hard in it: threads that meet in the ring buffer, the locks, the timer and
the singleton without a common lock; coroutines that are resumed for two reasons at
once (a ready descriptor and the timeout beside it); objects that return to a pool
while events still point to them; wake-ups that must not be lost between the
eventfd and the ring; timers that are deleted after, or while, they fire;
connections that three parties (the acceptor, the wheel, their own coroutine) open,
shut, close and delete on two threads, while the kernel hands out the same
descriptor again; messages that arrive in pieces; calls whose peer falls silent;
a log that every thread writes and renames. Per
component, what makes it right:

* ring buffer: first in, first out, nothing lost or handed out twice, no slot
  written while it is read;
* hand-off: an accepted coroutine runs, without waiting for the 10 s timeout;
* RWMutex: exclusion, counters that agree with the holders, no waiter lost,
  everyone gets the lock;
* timer: due events run, deleted ones do not, nobody else's event is lost;
* processor and epoller: only living coroutines run, a wait ends only for its own
  reason, nothing refers to a recycled coroutine, no assertion fails;
* scheduler: one is made, its users find processors that run;
* buffers and codecs: the bytes that go in come out, and the requests that are sent
  are dispatched and answered, in their order, wherever the network cuts (but at the
  one place named below);
* server: an open connection is owned and not deleted, an idle one ends and gives
  its descriptor back, a busy one is not shut down early;
* client: what a caller is told is true, its call ends, and its timer with it;
* log: a line is written once and in its thread's order, and the call returns.

## Modules

| Module | Models | Used with |
|---|---|---|
| `BoundedFIFO` | what a task buffer promises (abstract) | refined by `LockFreeRingBuffer` |
| `LockFreeRingBuffer` | every shared access of `push`/`pop`, any set of producers | |
| `TaskHandoff` | `addCoroutine`, the eventfd and the loop | EXTENDS `LockFreeRingBuffer` |
| `RWMutex`, `MCRWMutex` | the lock with its spinlock, and processors whose coroutines contend | |
| `Timer` | one timer, its loop, its callers | |
| `Processor`, `MCProcessor` | one loop, its epoller and its coroutines | |
| `Scheduler` | creation and selection of processors | |
| `ByteQueue` | what a `TcpBuffer` promises (abstract) | refined by both buffers of `Stream` |
| `TcpBuffer` | the vector and its two indices, as operators | |
| `PbCodeC` | frames of the RPC protocol, as operators | EXTENDS `TcpBuffer` |
| `StringUtil`, `HttpCodeC` | splitting, HTTP requests and responses, as operators | EXTENDS `TcpBuffer` |
| `Dispatch` | the replies of both dispatchers | EXTENDS both codecs |
| `Stream`, `MCStream` | a connection's coroutine between its peer's bytes and its replies | EXTENDS `Dispatch` |
| `Server` | acceptor, wheel, clearing timer and the coroutines of all connections | |
| `Client` | calls with their two timers, a network and a server | |
| `Logger`, `MCLogger` | threads that log, the queue, the file and its archives | |
| `CoGoProofs` | theorems about `Scheduler`, `TaskHandoff` and `LockFreeRingBuffer` | TLAPS |
| `StreamProofs` | theorems about `Stream`, its codecs and its buffers | TLAPS |
| `RWMutexProofs`, `TimerProofs`, `ProcessorProofs`, `ServerProofs`, `ClientProofs`, `LoggerProofs` | theorems about the module of that name | TLAPS |

Definitions keep the names of the code; `PROJECT.json` maps each to its lines. An
operator whose comment says that it is for a mutant is the form a plausible mistake
would give to the definition after it, and is used by nothing else here.

### How state and actions correspond to the code

**LockFreeRingBuffer.** `push()` is `PushLoad` (17), `PushRefuse`/`PushCheck` (20),
`PushWrite` (25), `PushPublish` (26); `pop()` likewise. Memory is sequentially
consistent: the acquire loads and release stores of the code order the slot with
the positions, which is what the step order relies on. `contents` is the queue
the two positions stand for, `outcome` what the last call returned.

**TaskHandoff.** `HandOver`, `Pushing`, `Wakeup` are `addCoroutine()`; `PollWoken`,
`PollOther`, `DrainRead`, `DrainAgain` are `epoll_wait` and the drain of the
eventfd; `Popping`, `RunDone`, `ActiveDone` the rest of an iteration. The loop's
own thread (`LoopThread`) hands over only while it runs a coroutine or a callback.

**RWMutex.** `SpinLock` enters a guarded block, the last step of each block leaves
it. `Enqueue` and `Park` are two steps: between them the waker may already have
handed the coroutine back. `Free`, `WakeFront`, `FreeDone` are `freeLock()`.
Coroutines may also sleep inside and outside the lock, so that resumptions for
another reason are there.

**Timer.** `due[e]` counts down to `m_arrive_time`, `armed` to the timerfd. A
critical section under `m_event_mutex` is one step, because `RWMutex` shows that it
excludes; `resetArriveTime()` is two (`ResetCopy`, `ResetSet`), as is
`delTimerEvent()` (`DelMark`, `DelErase`). `Deletable` and `RemoteDeletable` say where
an event may be when a coroutine of the loop, or another thread, deletes it: still
pending, copied by `onTimer()` (`batch`), or past (`fired`). The loop's coroutines delete
anywhere: `connect()` deletes its event whether that has run or not, and a call may do so
while its event is in the batch. Of the other threads the code has one deletion,
`~TcpTimeWheel`, at the end of the program; the runs let another thread delete any
pending event. `erased` remembers the events that the deletion of another took out,
`late` those of the batch that were deleted there. `Recycle` lets new events take the
place of old ones.

**Processor.** `Poll` is `epoll_wait`, `FdReady`/`FdOdd`/`TimerReady` handle one
reported event each, in any order, `RunTimer` runs a callback at once, `RunPending`,
`RunActive`, `DeleteRemoved` are the rest. `Resume` also makes the steps that a
resumed coroutine always makes first (`delEvent`, `clearCoroutine`,
`delTimerEvent`). Timer events are due at any time, pending tasks are a queue:
what `Timer` and `BoundedFIFO` promise. `Users` and `Callers` say who waits for
which descriptor, and who may do so with a timer beside it (a `connect()` or a
client's call); `OddFds` are the descriptors that may report an event which is
neither `EPOLLIN` nor `EPOLLOUT`. Two variables are not in the code but remember who was
disturbed: `tainted`, the objects whose coroutine has waited with a timer beside, or
which a timer of a former coroutine still refers to when they are used again (an object
leaves it when it is used again and no timer refers to it); and `cut`, the descriptors
that a timer's callback has unregistered since `epoll_wait`.

**Scheduler.** Every access to `m_scheduler`, `m_processors` and `m_curpro_id` is a
step; `getScheduler()` is `Call` to `Unlock`, `next()` is `NoProcessors` or `Size`
to `Index`. Its `SchedInit`, `SchedNext` and `SchedTypeOK` are named so that
`CoGoProofs` may extend it beside `TaskHandoff`.

**TcpBuffer, PbCodeC, HttpCodeC, Dispatch.** Operators that return the buffer they
leave. A byte is a cell; a 32-bit length is two digits of radix 16, so that a cut
may fall into it. Words that HTTP code only compares or copies (a method, a header's
name) are one token. `decodePb` also takes what it may read behind the end of its
copy of the vector (`junk`).

**Stream.** `Read` is one `read()` of `input()`: all that fits, or less, which ends
the loop; `ReadNothing` the read that finds the peer gone; `Execute` one turn of
`execute()` with decode, dispatch and encode; `Send` one `write()` of
`NetSocket::send()`, which may be short or fail once. A script is what a peer sends:
its text, the messages in it and where each ends, which of them are requests, and
where the request lines end. `ScriptsAssumption` says which texts those are, and TLC
evaluates it on the scripts of the run: the messages make up the text; an RPC message
stands there as `encodePbData` writes it and no part of it looks like a packet; an HTTP
message is one that `parseHttp`, given that text alone, takes to its end (so no GET with
a body, which the code leaves in the buffer).

**Server.** `Accept` is `MainAcceptCorFunc()` with `addClient()`; `Fresh`, `Turn`,
`ShutTest` and `Shut` are `fresh()`, `loopFunc()` and `shutdownConnection()` from the
destructor of the slot; `ClearClient` is `ClearClientTimerFunc()` for one client.
These run on processor 0. `Read`, `Refresh`, `CloseFd`, `SetClosed`, `Execute` are
the coroutine of a connection on another thread; `CloseFd` and `SetClosed` are the
two halves of `clearClient()`. What is done to a deleted connection is `UseFreed`,
behind which the model ends. `quiet` and `age` count turns of the wheel, one of
which is an interval.

**Client.** The coroutine gives the thread up in three waits, those of `connect()`
("connecting"), `send()` ("sending") and `read()` ("reading"), and between calls. There
the loop polls (`FdEvent`, `OnTimer`), runs the tasks of the timers that are due, which
resume the coroutine themselves (`RunTimer`), and then its active task, which resumes it
wherever it is by then (`RunActive`): one `epoll_wait` may resume the coroutine twice,
the second time in another wait. `InProgress`, `AtOnce`, `Refused`, `OtherError` are the
outcomes of the first `connect(2)`, `Connected` and `NotConnected` of the second;
`blocking` says that the socket is one of `resetFd()`, on which nothing gives the thread
up. `Delete` is `delTimerEvent()`, with the event it may erase instead (`lost` remembers
a call whose timer that was), `cut` the calls whose `read()` was resumed for nothing,
`asserts` whether the build checks assertions. The other side (`Answers`, `Drains`,
`Executes`, `Closes`) may do or omit anything. A task that runs after its call or its
`connect()` is over uses locals that are gone, and the model ends there ("undefined").
Simplified are: a request goes out in one piece or in two, and a reply counts from its
last byte; `resetFd()` gets the number of the descriptor that it has closed, as the
lowest free one, so that the connection goes on with it; a write to a connection that
the peer has closed fails with -1, the signal beside it (`SIGPIPE`, which nothing in the
repository ignores and which ends the program) being left out.

**Logger.** One step per access to what threads share: `std::cout`'s buffer (`Swap`,
`Restore`, and the three uses of it: `Put` for the file, `Terminal` and `Printed` for the
terminal), what is in the stream of each call (`oss`, until `Take`), the test of the size and the rename (`TestSize`, `Rename`,
`CreateFile`), the two mutexes (`Open`, `Insert`, `Flush`). The file system maps the
log's name and the archives' to inodes; who has opened an inode writes to it under
any name. A line carries the text it was written with, so that a message that went into
another call's stream, or to the terminal, is seen. `mixed` remembers the calls that
shared `std::cout` with another.

## Runs

| Run | Question | Bounds |
|---|---|---|
| `handoff` | is the ring a bounded FIFO queue without slot races, and does an accepted coroutine run, promptly? | 1 producer, 4 coroutines, a ring of 3 slots: it wraps, fills and empties |
| `handoff_race` | does every `co_go()` run? No | 2 producers, 2 coroutines, room for all |
| `rwmutex` | exclusion, counts, waiters kept and never stranded; does everyone get the lock? | 3 coroutines on 2 processors (two share one), both modes, one locks twice |
| `timer` | is the map ordered and the timerfd armed for its head? | 3 events, one repeating, new ones without end, deleted wherever they are |
| `timer_remote` | is an event lost but to the deletion of one not pending, does a deleted one run but once from its batch, does every other run? | 2 events, one repeating, deleted wherever they are by the loop, while pending by another thread |
| `processor` | lifetime of coroutine objects, assertions, full waits, service | 2 coroutine objects (recycled without end), 2 descriptors, one coroutine with timers beside its waits |
| `scheduler` | one scheduler, started once, seen complete through the mutex | 2 threads, 2 processors, 2 calls each |
| `stream` | are requests dispatched and answered in order, is any left over, are the buffers queues? | 5 scripts of up to 3 messages, RPC and HTTP, cut up to 6 times, anywhere but right behind an HTTP request line; buffers that begin with 8 bytes |
| `server` | is an open connection owned, does the wheel wait, does every descriptor come back? | 2 connections, 2 descriptors, 2 buckets, one piece of data from each peer |
| `server_freed` | is a deleted connection ever used? Yes | the same |
| `client` | is the caller told the truth, do calls and timers end, do numbers count? | 2 calls, retries without a bound, numbers of 2 digits of radix 2 |
| `logger` | is a line lost, doubled, moved before an earlier one or given another's text, does a call block? | 2 threads that log twice and once, 2 levels, 5 settings, a queue of 2, a file full with 2 lines, archives of 2 seconds |

The bounds are small but each includes the case in point: a ring of three slots is
full with two items and wraps on the third; two coroutines suffice for one to be
recycled while the other's event is pending; three coroutines on two processors give
a holder, a waiter of the holder's processor and one of another. Counters that
would grow are relative (time), bounded by the data (positions) or by a constant
that says so (`Rounds`, `Calls`, `MaxCalls`, `MaxData`, `MaxCuts`; the `Items` of `handoff` are handed over once each;
without `Recycle` an event is used once). `NoSleepWithWork` is checked with one
producer and proved for any number. The buffers of `stream` grow twice and move; each
script is cut at each of its bytes in some behaviour, but for the exception named. Two connections suffice for one
to take the other's descriptor, two buckets for the wheel to wrap; two digits of
two values include each carry; two calls suffice for the timer of one to outlive it into
the other. Deadlock is checked where the system has something
to do for ever, and where an action says that it may rest (`Idling`, `Resting`,
`Ended`); `server`, `client` and `logger` stop when every peer, call or thread is done.

### What the code does otherwise than it says

Two runs are expected to end in a violation; `PROJECT.json` quotes the line that each
contradicts.

1. `handoff_race`: the ring is for one producer and has several.
2. `server_freed`: `clearClient()` closes the descriptor before it sets the state, so
   the acceptor can replace, and delete, a connection whose coroutine still runs.

TLC shows more of the kind with another property or other constants, in one change of
a configuration each:

| Change | Violated | Because |
|---|---|---|
| `timer_remote` with `Remotes = {}` and `RemoteDeletable = {}` | `OthersKept` | the search for an event that is not pending any more ends at the next one, which is erased; `connect()` deletes its event also after it has run (`net_socket.cc:149`) |
| `processor` with `f1` alone, `Users` and `Callers` `Everyone`, no odd descriptor | `SleepFull` | a ready descriptor whose wait the timer ended first cuts the coroutine's next sleep short |
| the same with `c1` alone and `OddFds = {f1}` | `AssertionsHold` | `EPOLLERR` or `EPOLLPRI` alone unregisters the descriptor, and the waiter does so again |
| `client` | `PeerClosedTrue` | the timer of `connect()` ends its wait, the descriptor's event of the same `epoll_wait` the wait of `read()` behind it, whose second `::read()` gives -1 and is taken for a close |
| `client` | `CallTimesOut` | the socket of `resetFd()` blocks: a server that falls silent holds the thread, on which the call's timer then cannot run |
| `logger` | `TerminalOff` | two threads exchange `std::cout`'s buffer in turn, and a message goes to a terminal that is switched off |
| `stream` with `LineCuts = TRUE` | `DispatchedInOrder` | `decode()` "needs to read more data" behind a request line (`http_codec.cc:81`), but succeeds: an empty request is dispatched, again and again |
| `scheduler` with four processors, one call | `GotLooping` | the pointer is published before the processors; with `ProCnt = 1`, because `next()` leaves the vector |
| `timer` with a remote thread and intervals 0, 1, 3 | `ArmedForHead` | of two threads in `resetArriveTime()` the one with the older copy arms last |
| `timer_remote` with `Recycle` | `EventRuns` | events added without end while the head is overdue postpone it by 10 ms each time |
| `logger` with `MaxSize = 0`, without `~overwritten` in `LinesKept` | `LinesKept` | two renames within a second: the second replaces the archive of the first |

Reading the code for the models showed also this:

* a push to a full ring is refused and the result ignored (`dropped` in
  `TaskHandoff`, line 81 of `processor.cc`);
* a coroutine whose sleep was cut short leaves its timer armed, which may end a
  later wait, or the first wait of the coroutine that inherits its object (which is then
  `tainted`, and none of `WaitFull`'s);
* an event that a task of the same batch deletes runs all the same (`late`); if its call
  or `connect()` is over by then, it uses locals that are gone;
* after a short write only the last piece is taken out of the write buffer, so that
  the rest is sent again; a failed `write()` (-1) counts as complete;
* a read that fills the buffer exactly is followed by another before the request is
  executed; an RPC request without a service name gets no reply; complete frames
  behind a damaged one wait for the next read;
* an absolute URL loses the slash before its path and matches no servlet; a request
  line without headers is never answered; the body of a GET stays in the buffer;
* a connection that is active more often than the wheel's interval is never put into
  the wheel again, and is shut down; `shutdownConnection()` may overwrite `Closed`,
  after which nothing deletes the connection, and may hit a descriptor that has
  become another's;
* `err_deal` of `sendAndRecvPb()` unregisters a descriptor that no wait has
  registered any more, so that a call which times out ends a build with assertions;
  without them it closes twice, and the exit for a closed peer, or one taken to be
  closed, leaves a timer that refers to locals (the exception that `TimersEnd` names). The return of
  `ERROR_FAILED_CONNECT` is unreachable; connect errors but two are retried on a socket
  that blocks, so without giving the thread up;
* `ERROR_FAILED_SERIALIZE` may mean that a call was executed, or that it was not;
* the log macros exchange `std::cout`'s buffer and insert into `coutTypeMap` without a
  lock (`mixed` and `undefined` in `Logger`): a message may be lost, land in another
  line or be written to a stream that is gone; queued lines are not written at exit; a directory
  that `createFilePath()` makes has no permissions, and lines go nowhere.

## Fairness

Only what the threads do by themselves is fair. A call that has begun goes on, and
the loop goes round (weak fairness of the steps of each). Nothing makes a
descriptor ready, an event be added, a coroutine be spawned, or `epoll_wait` return
by its timeout. In `RWMutex` the loop of a processor and the wake-up of a sleeping
coroutine are strongly fair, because other coroutines of the processor use the
thread in between and a FIFO of tasks gets to each; every coroutine leaves the lock
(its program ends). `LockTaken` needs the bound on rounds: readers that never stop
coming starve a writer, which the code does not exclude. In `Timer` the clock is
fair and the loop strongly so: a long run of added events disables none of its
steps for ever. In `Server` the wheel turns, processor 0 and each coroutine go on; a
peer need not send or close, and the clearing timer need not come. In `Client` the
thread goes on, in the coroutine or in the loop, except in a `connect(2)` or a `write()`
that blocks (`Held`) and a `read()` that blocks, which are the network's; the network
need do nothing. In `Logger` a call
that has begun goes on; that a mutex is free infinitely often gives no thread a
right to it, but the calls are bounded, so that weak fairness suffices.

## Proofs

TLAPS checks, for every value of the constants that the named assumptions allow:

* **`CoGoProofs`**, of the ring - with one producer, `RingInv` is inductive: each
  side's copy of its own position is current, the room a producer saw is still
  there (only the producer takes it), so is the item the consumer saw. `SlotsApart`
  follows, since `increment_pos(m_write_pos) # m_read_pos` while a slot is
  written; so does `RingImplementsFIFO`: `PushPublish` appends to `contents`,
  `PopRelease` takes its head, `PushRefuse` and `PopNothing` are the refused
  operations and every other step stutters. Lemmas about `(pos + 1) % Capacity`,
  `Count` and `SlotOf` carry the arithmetic.
  Of the hand-off - every step is a step of the ring or leaves it alone, so
  the results above hold in the hand-off (`HandoffIsFIFO`). `WakeupNotLost`
  holds for any number of producers, racing or not: the loop goes back to
  `epoll_wait` only after a `pop()` that found nothing, and whoever moved
  `m_write_pos` since is still to write the eventfd, or has. `HandoffTypes` needs no
  single producer either.
  Of the scheduler - `StartInv`: the mutex has one owner, only the owner that found no
  scheduler starts processors, one at a time. `OneScheduler` and `MutexWaitsForStart`
  follow.
* **`RWMutexProofs`** - `HolderInv` (types, exclusion, and `m_readingNum` as the
  cardinality of the readers) is inductive; the spinlock's owner is the only one
  between the two ends of a guarded block. `WriterIsAlone` is part of it.
  `NobodyStranded` adds that a queue is only ever built while somebody holds the
  lock, and that the last holder stays in `freeLock()` until it is empty.
  `NoWaiterLost` counts the places of a coroutine in `m_waitingCo` and in the tasks of
  its processor: each step that takes it out of one puts it into the other or lets it
  run. For that, `WaitInv` adds that a processor has only its own coroutines among its
  tasks, and that a coroutine inside an operation is the one its processor runs.
* **`TimerProofs`** - `ScheduleInv`: the pending events are live, ordered by their
  arrival and none twice, and what `onTimer()` has still to repeat is in its batch and
  not pending. It needs only that other threads, if there are any, delete pending
  events (`Undisturbed`): one that met an event of the batch could have `onTimer()`
  repeat what was deleted. What the coroutines of the loop delete is not restricted, here
  or in what follows but the last. `FirstIsArmed` is for the loop alone, because two
  threads in `resetArriveTime()` may arm in the wrong order. `EventsKept`: an event is lost
  only to the deletion of another that was not pending (`erased`); `DeletedStayOut`: what
  was deleted runs at most once more, from the batch it was in (`late`). For that,
  `DeletionsInv` says that an event being deleted is marked while it is pending, so that
  it stays there until its thread erases it. `PendingDeletionsKeepOthers`: if only pending
  events are deleted, by any threads, no deletion takes out another event;
  the first line of the table above shows that the condition is needed. The lemmas are about
  `InsertAt` and `RemoveAt` on sequences that are ordered by arrival.
* **`ProcessorProofs`** - `ProcessorInv` in four parts: a coroutine's status says in
  which of the queues it is (`StatusInv`); what it waits for, and the FdEvent that
  refers to it, say the same (`WaitInv`); which events and callbacks a phase of the loop
  can still have (`PhaseInv`); and for a coroutine that is not `tainted`, that nothing but
  the timer of its sleep, or one event of its descriptor, can resume it (`PlainInv`). `NoEndedRuns` and `NoTaskRecycled` follow from the first two whoever
  waits for what, `PlainWaitsAreFull` from the last: it speaks of coroutines, not of objects, so that
  one in an object that a caller had before is included as soon as that caller's timers
  are gone, and a coroutine that is to call later until it does. `EpollerAssertions` supposes that
  those who use a descriptor with odd events never wait with a timer beside, so that
  neither they nor the descriptor are ever `tainted` or `cut` (`NeverTainted`): the line
  about `AssertionsHold` in the table above shows that it fails otherwise. TLC checked
  `ProcessorInv` on `processor` and with descriptors that everyone uses. The attempt
  showed that `WaitFull` had to except a descriptor in `cut`: a stale timer can end a
  caller's wait with the event still to be handled, which then resumes whoever waits for
  the descriptor next.
* **`ServerProofs`** - `OwnInv`: a connection nobody accepted has nothing, and one
  whose coroutine has not run `clearClient()` has a descriptor that leads to it, in
  the kernel and in `m_clients`, and no state Closed: neither `addClient()`, which
  drops what the lowest free descriptor belonged to, nor `ClearClientTimerFunc()`
  can drop it. `OpenOwned` follows. `WheelInv` counts turns: a slot is in the bucket
  its last `fresh()` chose (`LastBucket`) until the wheel has come round, so that the
  bucket being cleared holds the last reference only of connections that are N turns
  old or have ended; and once the reference is gone `lock()` fails for ever, so that
  no connection expires twice. `WheelAlwaysWaits` follows. TLC checked both
  before they were proved, with two connections and a wheel of three buckets.
* **`ClientProofs`** - `ClientInv`: the server has executed at most once what was sent
  and answers only what it was asked (`ServerInv`); before the coroutine writes nothing
  was sent, it leaves the call by `err_deal` only if its timer has run, the peer has
  closed or its `read()` was resumed for nothing (`cut`), and what it told its caller
  agrees with these (`CallInv`). `CallerIsToldTruth`
  and `TimersOutlived` follow. `CallsAreNumbered` is about the digits: the recursive sum
  in `Value` exists (the least place where it would not leads to a contradiction), agrees
  before the digit that is counted up, and is one more from there on. TLC checked
  `ClientInv` with two calls.
* **`LoggerProofs`** - `LoggerInv`: a file is only ever added empty and at the end; whoever
  has one open holds `mutex_file` and finds nothing but empty files behind it
  (`OpenInv`), so that a line goes to the end of all that is written although others may
  have renamed the file since; with the queue switched off it is empty, with it on nobody
  writes past it (`ModeInv`), and it is emptied under both mutexes; a call that has not
  put its line anywhere yet is the latest of its thread (`PartsInv`); every file has a
  name as long as no rename replaced one (`ReachInv`); who has `std::cout` to himself finds
  his own stream in it, and in that stream his own message. `LinesStay` follows. The lemmas say
  what an empty file, an appended line and a moved queue do to the order of several
  sequences. TLC checked `LoggerInv` on the `logger` run.

* **`StreamProofs`** - for any scripts, any cuts, any vector size, any digits (`Radix`),
  any bytes behind the end of a vector, any services and servlets.
  *Buffers*: `Buffer(b)` (indices in order, bytes in the vector) is kept by every
  operation, and each lemma of the first part says what is between the indices
  afterwards: the same, the same and what was written, or the same without its first
  bytes. `StreamBuffersAreQueues` reads each action of `Next` as a step of `ByteQueue`.
  *Replies*: `RepliesSent`, that while no write was short the peer's bytes and those in
  `m_write_buffer` are together the encoded replies to `dispatched`. `FlattenSeq` is a
  recursive fold; that it exists and grows by what is appended to its sequence
  (`StrungExists`, `FlattenedBehind`) is proved by a least counterexample.
  *Requests*: `AllDispatched`, that for some `k` the buffer holds what was read behind
  message `k`, that the requests among the first `k` messages are what was dispatched,
  and that message `k + 1` has not arrived when the coroutine is done with the buffer
  (and every message is a request; others make `decode()` fail and end the loop). The
  step for `Execute` needs what `decode()` finds: a complete message at the front is
  found, with its own fields, whatever follows it or lies behind the vector
  (`PacketTaken`, `WholeFound`), and in a part of one nothing is found
  (`PacketPart`, `PartNotFound`). For RPC the first is arithmetic over the seven
  places where `encodePbData` puts a length, the second is where `NoPacketIn` is
  needed: the code looks for a start mark anywhere, so that a body that contains a
  packet would be taken for one. For HTTP both say that `find`, and what is computed from
  the parts it separates, do not change when a text is continued or cut behind them. The
  exception is a read that ends right behind a request line: `decode()` then succeeds
  with an empty request, so that both theorems suppose that no read does
  (`WholeLines`); the first table shows what happens if one does.

Only model-checked is all liveness (TLAPS has no rule for fairness here):
`AcceptedRuns`, `LockTaken`, `EventRuns`, `ReadyServed`, `DescriptorsReturned`,
`CallEnds`, `CallReturns`. The library's induction over data takes an operator that
the provers cannot be given; where it was needed (`FlattenSeq`, the pieces of a
header, the digits of a number, the lowest descriptor) the proofs take the least
element of a set of counterexamples instead, which is a fact about sets.

## Not modelled, and why

Stack switching (`Context`, assembler), `NetAddress` (no state), examples and
generated protobuf code. `MemPool` and `ObjPool`: a free list of one thread, whose
objects `Processor` recycles as a set. `Processor::stop()` and the destructors: nothing
in the program stops a processor. `Epoller::modEvent()`, `TcpBuffer::readFromBuffer()`:
never called. The strategy `MIN_EVENT_FIRST`: never selected. `bind()`, `listen()` and
socket options. Weak memory beyond the step order. Callers of `RWMutex` that are not
coroutines (`onTimer()` on the loop's own context, `main()`). In `CallMethod()`: the
returns for a bad controller or request, a number that the caller sets, and a client
kept for several calls, which nothing here does. In `Logger`: layout, colours and the
parsing of `log.conf`. Lengths and error codes of hostile frames: scripts hold what a
client of this library can send.

## What could be added

1. `RWMutex` with callers outside coroutines (the loop's own context).
2. Requests and replies over a write that is short or fails: what `Stream` does then is
   modelled, but no property says what a peer may still rely on.
