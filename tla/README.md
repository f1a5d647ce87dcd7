# cool.ng: a TLA+ model of its run queues, runners, tasks, event sources and value types

cool.ng is a C++ library that groups the code that touches the same data around
a *runner*: tasks of one runner are executed one after the other, on whatever
thread of a shared pool is free, so the data needs no lock. Everything rests on
the *run_queue* of the platform, a queue without a thread of its own, driven by
an atomic status word and a thread pool. This directory models that core, the event
sources (timers, servers and streams on libdispatch and on Windows) and the value
types (byte containers, IP addresses, services), checks them with TLC and proves the
most important parts with TLAPS.

All paths below are relative to the repository (`src/` here).

## 1. Inventory

| Component | State it keeps | Operations | What makes it hard |
|---|---|---|---|
| run_queue, deque flavour (Linux, FreeBSD) `lib/src/async/run_queue/deque` | status bits EMPTY, ACTIVE, BUSY; a deque under a mutex; `m_running`, the context handed to the pool; `m_self`, a pointer to itself | `create`, `enqueue`, `stop`, `start`, `release`, `run_next` (on the pool) | status and deque change in different steps; the right to submit is won by a compare-exchange whose loser walks away; the object keeps itself alive |
| run_queue, Windows `run_queue/wincp` | the same bits and RELEASED; a completion port that nobody counts | the same | emptiness is found out by a poll, after the fact; the pool holds a plain pointer |
| run_queue, GCD (macOS) `run_queue/gcd` | an atomic flag; a serial dispatch queue with a suspension count | the same | flag and suspension count change one after the other |
| runner, kickstart, task_executor `lib/src/async/runner.cpp` | a run_queue, and weak pointers to the runner in every task | `run`, one step of a context stack, post the stack again | the runner may go away between any two steps; the queue the stack is posted to |
| tasks `include/cool/ng/impl/async/*_impl.h`, `async/task.h` | a stack of contexts per run, each with its input, counters and the reporters bound to its parent | create a context, report a result or an exception, catch it | contexts pop and delete themselves inside call chains that go through several of them |
| GCD event sources `lib/src/async/gcd` (timer, server, stream) | dispatch sources with a flag of their own, sockets, connection state | `start`/`stop`/`period`, `connect`/`disconnect`/`write`, handlers on the dispatch queue | handlers, cancel handlers and user calls interleave; a suspended source never delivers its cancellation |
| Windows event sources `lib/src/async/wincp` | overlapped operations, a thread pool's I/O and timer objects, contexts behind shared pointers | the same | completions after cancel; several threads find the same context to clean up |
| network API `include/cool/ng/async/net*`, `impl/async/net_*`, `lib/src/async/event_sources.cpp` | a pointer to an event source | forwards; destructors shut down | copies share the source |
| executors `lib/src/async/{gcd,wincp}/executor*` | as the run_queues that replaced them | | no longer built |
| IP addresses `ip_address.h`, `ip_address.cpp` | 4 or 16 bytes, a mask length; tables of reserved ranges; the state of a parser | construct, mask, compare, convert, assign, `is`, `in`, `has`, parse, print | masks that are no multiple of 8; four classes that convert into each other; the `::` of IPv6 |
| services `ip_address.h`, `ip_address.cpp` | transport, host, port and the `sockaddr` made from them | construct, assign, parse | the copy of the data in the `sockaddr` |
| binary containers `binary.h`, `binary.cpp` | an array of bytes | bit operators, assignment and comparison between containers of different length, `set` | alignment at the least significant byte |
| errors, exceptions, base classes, traits | codes; an atomic counter for names | | |

How they interact: `run()` builds a stack of contexts and gives it to
`kickstart`, which enqueues it at the run_queue of the first task's runner. The
queue calls `task_executor` on a thread of its pool, which executes the context
on top of the stack. A context reports to the context below it, which may push
another; then `task_executor` enqueues the stack again. Event sources post tasks
through the same queues from their handlers.

What makes each component correct:

* a run_queue: one task at a time, in order, each once, none while stopped, none
  forgotten; the object lives as long as it is used, and no longer;
* a runner and its tasks: a run computes what `async/task.h` says its task
  computes, it ends, it leaves no context behind, and a task is executed in its
  own runner's queue;
* event sources: one connection state at a time, one write and one accept at a time,
  every connect answered, no handler on a closed socket or a deleted context; what is
  started triggers, what is stopped begins nothing new, what is destroyed is released,
  once;
* IP addresses and binary values: operators, conversions, parsers and printers agree
  with a reference definition.

The hazards are listed with their lines in `PROJECT.json`.

## 2. Modules

| Module | Models |
|---|---|
| `SerialExecutor` | the promise: post, take, begin, finish, suspend (abstract) |
| `RunQueue` | what the deque and the Windows queue share: threads, reference count, history, the notes' promises |
| `DequeRunQueue` | `deque/run_queue.cpp`, whole |
| `DequeRunQueue_proofs` | theorems about it, the refinement of `SerialExecutor` among them |
| `WincpRunQueue` | the run_queue class of `wincp/run_queue.cpp` |
| `GcdRunQueue` | `gcd/run_queue.cpp`, whole |
| `TaskRuns` | contexts of the six kinds of task, `kickstart`, `task_executor` |
| `TaskConformance` | the meaning of a task tree, from `async/task.h`, as a recursive evaluation |
| `TaskMeaning` | the same meaning as rules, and what it is for a run to follow them |
| `GcdTimer`, `GcdServer`, `GcdStream` | classes timer, server and stream of `gcd/event_sources.cpp` |
| `WincpTimer`, `WincpServer`, `WincpStream` | classes timer, server and stream of `wincp/event_sources.cpp` |
| `WincpRunQueue_proofs`, `GcdRunQueue_proofs`, `TaskRuns_proofs` | theorems about the modules they are named after |
| `GcdSources_proofs` | theorems about `GcdServer` and `GcdStream` |
| `WincpSources_proofs` | theorems about `WincpTimer`, `WincpServer` and `WincpStream` |
| `Values_proofs` | theorems about `IpAddress`, `BinaryValues` and `IpText` |
| `TaskSequences` | lemmas on sequences of contexts and their tasks, for the proofs of both queues |
| `Binary`, `BinaryValues` | `binary.cpp` as operators on a container; a machine that applies them |
| `IpAddress` | the four classes of `ip_address.{h,cpp}`, the tables of reserved ranges |
| `IpText` | their parsers and printers |
| `Service` | class service and its parser |
| `MC*` | values for TLC; `MCGcd` puts the GCD queue and stream, `MCSources` and `MCValues` the small modules into one run each |

### Correspondence with the code

*Threads.* A client is any thread that owns a `shared_ptr` to the queue; a worker
is a thread of the pool. `pc[t]` is the place inside the run_queue's code:
`"outside"` is user code, which may call any method if it holds a pointer, and a
worker that executes a task's function is in user code as well (tasks enqueue,
stop and start). The labels between are the atomic accesses of one method, in
the code's order: `enqueue` is `EnqueuePush`, `EnqueueUnmark`, then
`check_submit_next`: `SubmitWon` or `SubmitLost`, and for the winner `PopFront`,
`MarkEmpty`, `Dispatch`. `run_next` is `RunBegin`, `RunClear`, `RunUnbusy`,
`check_submit_next` again, `RunLeave`.

*Atomicity.* Every access to `m_status` is a step and every critical section of
`m_mutex` is at least one; a section that also touches `m_status` is split at
that access, since others read the status without the mutex. An unlock is merged
with the last access of its section. Memory order is sequentially consistent, as
the code's atomics are.

*Reference counts.* `useCount` is the count of the queue's control block;
`holds[t]` says that a thread owns a pointer, every context says whether its own
pointer is set, `m_self` is the queue's pointer to itself. A queue whose count is
zero is destroyed; a use after that violates `ExistsWhileUsed`.

*Tasks.* In `TaskRuns` a task is a name with a kind, subtasks and, when simple,
a runner, results it may return and exceptions it may throw. `stack[r]` is the
context stack of a run; a context's `to` is the index of the context its
reporters are bound to, so popping out of turn shows. `call[r]` is the reporter or
`create_context` being called; every such call is an action. `held[r]` is the runner
`task_executor` locked. `any` values are abstracted to what matters: a value of
`Movable` is replaced by `Moved` when it is copied, because `any`'s copy moves it out.

*Streams.* In `GcdStream` a connection is a number: it stands for the two contexts,
their dispatch sources and their sockets. `wr[n]` and `rd[n]` are the sources of the
write and the read context; `m_writer` and `m_reader` say which connection's context
they point to. The handlers are executed by the thread `Queue`, one after the other;
each ends with its callback, so user code on the queue (`pc[Queue] = "user"`) follows
a handler and may call the stream like any other thread. `cancel_write_source` and
`cancel_read_source` are a load, a compare-exchange and a cancel, whoever calls them;
`mode[t]` says for whom and so where the thread goes on. `resume` and `suspend` of a
`dispatch_source` are one step (the library never lets two threads toggle the read
source; `GcdRunQueue` shows what the split of flag and count can do). External are
libdispatch, which executes the event handler of a resumed source that is ready and
the cancel handler of a resumed source that was cancelled, and the network, which
accepts or refuses a connection and may close it. A source becomes ready only when the
outcome of its `::connect` is known. The object is destroyed only when nobody else is
inside it, but its handlers may be: the contexts keep the implementation alive.

*Timers and servers.* A source of libdispatch is `"live"`, `"cancelled"` or
`"deleted"`, with a count of suspensions; the wrapper's flag is a variable of its own,
and `resume` and `suspend` are two steps, the flag and the call. A thread's step is in
`tmAt` or `svAt`. In `GcdTimer` the clones are the threads that use them, in
`GcdServer` threads share copies and `m_state` lets one of them through; the accept
loop is one action for each client. In `WincpTimer` one user sets flag and timer in
two steps while the threads of the pool take callbacks the pool queued; to look at the
flag (`OnTimerEvent`) and to run the task (`TaskBegins`) are two steps as well. In
`WincpServer` `accept` is the one overlapped AcceptEx (`"pending"`, or how it
completed), which `start` begins and each completion begins again.

*The Windows stream.* A number stands for a connection and its context, as in
`GcdStream`; `m_context` is one of them or null. `rd[n]` and `wr[n]` are the context's
overlapped operations, which the network completes and a thread of the pool takes
(`OnRead`, `OnWritten`). What the user is told is a task of `tasks`, the executor's
queue; the executor is a thread that executes them one after the other, in which the
user may call the stream again and may hold its last reference. `disconnect` is
`SetDisconnecting`, `TakeContext`, `CloseSocket`, `WaitForCallbacks`, `StartCleanup`,
and ends when the executor has executed the cleanup. The use of a deleted context ends
the behaviour (`"crashed"`).

*Values.* Addresses and containers are sets of set bits, counted from the most
significant one, so that a mask is an intersection and a prefix a set of numbers. A
text is a sequence of items, each a word of digits and the character that ends it:
what the parser's `fetch` takes at a time. `fetch` reads with `>>`, which skips white
space: a word that white space interrupts goes on after it (`SkipSpace`, `held`). `IpText` parses item by item, so every
prefix of every text over its alphabet is a state; the parser's undefined results (a
decimal field without a digit, an index below the array) are the status `"undefined"`,
of which nothing is claimed. Printing gives the set of texts the code may write, since
an uninitialised flag decides a colon in one style.

## 3. Runs

| Run | Specification and bound | Shows |
|---|---|---|
| `deque` | 2 clients, 2 workers, 3 tasks; anyone stops and starts; one client releases; fair | `SerialExecution`, `NeverPopsEmpty`, `NeverStranded`, `InOrder`, `StopHolds`, `PostedWhileStoppedWaits`, `ExistsWhileUsed`; it implements `SerialExecutor`; every posted task runs unless the queue is stopped for good; a released queue is destroyed |
| `wincp` | 2 clients, 2 workers, 2 tasks | serial execution, the stop promise, lifetime of the queue for its tasks and callers; what strands a task is a late EMPTY, or a BUSY without an owner after a stop or a release, and nothing else; it implements the executor, and so its order, up to `stop` |
| `gcd` | the queue: 2 clients that both start, stop and post, 3 tasks; the stream: 1 connection, one user thread and the queue, both connect, write, disconnect and destroy, 2 writes of 2 units; fair | flag, calls on their way and suspension count add up, every task runs; no handler on a closed socket or deleted context, a connect is reported once and sooner or later, the data of a running write stays |
| `tasks` | 2 runs, 2 runners, 19 tasks with every kind nested in others, fair | stack discipline, every run computes what `TaskConformance` says, every run ends |
| `sources` | GCD timer: 1 user, the handler, a runner that may go; GCD server: 2 threads, 2 clients; Windows timer: 1 user, 2 threads of the pool; Windows server: 2 threads, the pool's thread, 2 clients; Windows stream: 1 connection, 1 user thread, the executor, 2 threads of the pool, 2 writes, 1 read; fair | a started GCD timer triggers, a destroyed one is released; the GCD server's source follows its state and is released; after the stop of a Windows timer only callbacks that had passed the flag begin its task; one accept at a time with a live context; a stream's context is cleaned up once, no write is disturbed before its busy flag is cleared, every connect is reported |
| `values` | containers of 2 and 3 bytes; 2 contents of each address version, masks of 0, 24, 31, 96 and 129 bits, 2 of 3 ranges added; texts over 11 items of IPv6, one of them ended by white space, and 12 of IPv4 | the operators agree with arithmetic on numbers, membership with prefixes, equality with conversion; an added range concerns its own addresses only; every IPv6 address in the notation is read as what it denotes and never given up half-way; what is written is read back |
| `wincp_lost_wakeup` | nobody stops, fair | finding: a posted task is forgotten |
| `task_wrong_queue` | as `tasks` | finding: a step is executed in the queue of the previous step's runner |
| `gcd_togglers` | the queue of `gcd` | finding: a start overtakes a stop and resumes a queue that is not suspended |
| `gcd_reconnect` | 2 connections, only code on the stream's own queue calls it | finding: the old connection's cancel handler aborts the new one |
| `timer_clones` | 2 clones of a GCD timer | finding: the end of one clone silences the other |
| `service_sockaddr` | 3 ports, 3 addresses | finding: a service whose `sockaddr` is not its address |

*Why the bounds are enough.* The protocol's races need one thread that loses the
compare-exchange, one that wins it and one task in execution: two clients and two
workers give four threads that may all call the queue at once. Three tasks put
one in execution, one in `m_running`'s way and one in the deque at once, so order
can be violated behind a violated handover. `stop` and `start` are unbounded.
The deque queue's safety properties are proved for any number of all three.
`MaxSteps` bounds how many functions a run calls before a predicate must answer
no; with 4, a loop makes two rounds and more. The trees of `MCTaskRuns` nest
intercepts in intercepts, a conditional in a sequence in an intercept, a repeat
and a bodyless loop in a sequence, and a loop before a conditional without else;
the second run competes for the same two queues.

In `gcd` the queue and the stream share nothing, and one of them moves in a behaviour.
Two clients that toggle are what `Balanced` needs to fail, and with them every order of
two exchanges and their calls occurs. Of the stream one connection is enough to bring every user call in conflict with
every handler; two writes of two units let one be refused, and let a write be
interrupted in its middle. A second connection shows how the leftovers of the first
meet it; that is the finding, which needs no second thread.

In `sources` only one of the five moves in a behaviour (`moving`), since they share
nothing: the states add up instead of multiplying. `period` 0 is allowed at
construction, as in the code. Two threads are needed for every race of `start` and
`stop` with each other, one thread of the pool for one accept at a time, two clients
for a loop that accepts more than one. A read and a write of the Windows stream may
complete at the same time as a `disconnect` on the user's thread and another on the
executor; `MaxQueued` bounds how far the pool may lag behind an armed timer. In
`values` a mask of 129 bits is the length that must be refused; 24 and 31 are on and
off a byte's boundary; the contents are in nested ranges of the reserved tables. The
constraint `Bounded` keeps the texts short where more of them repeat the same: at most
four quads that are not zero, at most two quads in a network, which shares the
parser with hosts, white space in the first quad or decimal only. Items are chosen so that every token, delimiter and error of the
two parsers occurs; no text is ever too long for the parser, which stops by itself.

*Fairness.* A thread inside a method goes on (`WF` of its next step): the operating
system schedules threads, and the methods wait for nothing but a mutex whose holders
do not block. The pool takes what was submitted to it (`WF` of `RunBegin`): what
`dispatch_async_f`, `SubmitThreadpoolWork` promise. A task's function returns
(`SF` of `RunClear`: a function that calls the queue again and again disables it
meanwhile). No fairness is assumed of calls: nobody has to enqueue, stop, start,
release or drop a pointer. `EveryTaskRuns` therefore asks for tasks to run only if
the queue stays active from some time on, and `ReleasedIsDestroyed` also that the
owners dropped their pointers. In `TaskRuns` queues execute what is posted to them,
which is what the run queue models establish, and functions return. In `GcdStream`
threads are scheduled (`WF` of the steps inside a method and of the handlers), user
code on the queue returns (`SF`: it may call the stream again and again), libdispatch
serves every source that stays ready and every cancelled one (`SF`: the queue is busy
in between), and the network answers every connect, if only by a timeout. Nobody has
to call anything, and no peer has to close a connection. In `sources` the threads
inside a method and the handlers of a timer or server go on (`WF`), and so do the
threads and tasks of the Windows stream, whose connects the network answers (`SF` for
user code on its executor, which returns however often it calls `write`); an
expiring timer, a client or a peer is never owed.

## 4. Proofs

`DequeRunQueue_proofs` proves for any finite set of clients, any set of workers,
tasks, stoppers and releasing clients, from `RolesAssumption` and
`DequeAssumption` (disjoint roles, distinguishable model values):
`TypeCorrect`, `ExecutionIsSerial`, `PopsAreSafe`, `NothingIsStranded`,
`OrderIsKept`, `StopIsKept`, `PostedTasksWait`.

The properties are not inductive by themselves. The inductive invariant `Inv` is
the conjunction of

* `TypeOK`;
* `LabelsOfRoles`: clients are never at a worker's label, nor executing;
* `SerialExecution`: one owner of `m_running`, and BUSY is equivalent to one;
* `RunningHoldsTask`: while a submission is on its way or executing, `m_running`
  is the context it is about;
* `MutexHeld`: the mutex is held exactly at the labels inside critical sections;
* `EmptyBit`: EMPTY is set exactly when the deque is empty, except between the
  two accesses of `enqueue` (pushed, not yet unmarked) and of the winner
  (popped, not yet marked), both under the mutex;
* `NeverPopsEmpty`, which `EmptyBit` yields for the winner: BUSY keeps other
  poppers away until it has popped;
* `NeverStranded`: whoever makes the queue pending is at `unmark` or `submit`, and
  may leave by losing only when the queue is stopped, busy or empty;
* `StopCounts`, the arithmetic behind `StopHolds`: after a stop the tasks begun
  and the one handed over are at most one more than were begun at the stop.

`OrderIsKept` and `PostedTasksWait` follow from `Inv` with an invariant of their
own each. The step theorem has one case per action and, under it, one step per
conjunct the action can disturb.

`ExistsAsLongAsUsed` needs `LifeInv` besides: every thread inside a method, every
context in the deque and the one in `m_running` has a pointer to the queue
(`PointersOfRoles`, `ContextsPoint`), and `useCount` is the number of them all, with
`m_self` (`Counted`, on the cardinality of the set of threads that hold a pointer). Then
whoever uses the queue is counted. It assumes `SingleReleaser`, at most one client that
calls `release`, because two that do so at once violate it (section 5); the run has one.

`DequeImplementsExecutor`: with `pending`, `taken`,
`executing`, `executed` and `active` computed from the queue's state, every step of
the deque queue is a step of `SerialExecutor` or changes nothing of it. The winning
compare-exchange is `Take` (the task leaves `pending` before it leaves the deque),
`RunBegin` is `Begin`, `RunClear` is `Finish`.

`WincpRunQueue_proofs` proves of the Windows queue, from `RolesAssumption` alone:
`ExecutesSerially`, `StopLetsOneBegin`, `TasksAreSubmitted`, `OrderIsKept` and
`WincpImplementsExecutor`. `WincpInv` adds to `SerialExecution` and the labels of the
roles:

* `StopCounts`: after a stop at most one task more begins, and none yet while a
  submission is on its way or a worker holds the task it has polled (`OnTheWay`);
* `TasksHaveHelpers`, stronger than `NotStranded` where neither BUSY nor EMPTY is set: a
  thread between its two compare-exchanges (`resubmit`) helps a released queue only,
  since the second one expects RELEASED; for other tasks there is a thread with both of
  them before it.
* `BusyHasOwner`: until somebody stops or releases the queue, BUSY belongs to a
  submission or a worker, and is never set beside EMPTY; that is what makes the
  compare-exchange of a drained poll succeed.

The order needs `History` (no task is posted twice, the executing task has begun), from
which the task a poll finds is the next one posted. `ExistsForItsTasks` is proved like
its counterpart of the deque queue, here without a condition, since the module lets
`release` be called once. In the refinement the poll is
`Take`, the call of the task's function `Begin` and the clearing of its context `Finish`,
with `active` constantly true.

`GcdRunQueue_proofs` proves `TogglesBalance` from `GcdAssumption` (finitely many clients),
however many of them start and stop the queue at once. `CountInv` is `TogglesAddUp` itself,
on the cardinalities of the clients at the call of `suspend` and at that of `resume`, with
`DestroyedAlone`: the destructor is past its exchange only when nobody else is inside.
That libdispatch never ends the program (`Balanced`) is false and a finding.

`GcdSources_proofs` proves of the server `SourceFollows`, for any set of callers and
without such a condition: the states `starting` and `stopping` let one caller past the
exchange (`OneCaller`), where it is tells how far the flag and the suspension count have
followed (`StepTellsSource`), and without one both agree with the state
(`StateTellsSource`). Of the stream it proves, from `StreamAssumption` (the queue's
thread is not one of the callers):

* `HandlesStayOpen`: `StreamInv` says that the connection a thread is creating and the
  handle it opened for it are its own (`OwnConnection`, `OwnHandle`), that a connection
  whose sources are not created is not on the network (`NotYetConnected`), that a socket
  stays open until its cancel handler ran (`OpenWhileInUse`), which a handler of the same
  serial queue precedes (`HandlerUses`), and that one thread at most has the writer to
  cancel (`CancelsOne`).
* `FirstConnectAnsweredOnce`: while the state is `connecting`, or a thread that has
  taken it away is about to report, nothing was reported (`FirstConnect`).
* `WriteIsKept`: as long as no `disconnect` overtook the connect (`aborts = {}`),
  `m_wr_busy` is set while a write is on its way or transmitted, by one at most
  (`BusyWhileRunning`, `OneWrites`); `write` changes the data after it set the flag.

The last two have the hypothesis `[](connects <= 1)`, the first connection of a stream:
with a second one that overlaps the first both are false (section 5).

`WincpSources_proofs` proves `TimerAfterStop`, for one thread of the user (the flag is
cleared before the timer is disarmed, so that whoever has passed it is known when `stop`
returns, `PassedFirst`; and `shutdown` waits for the queued callbacks between disarming
and closing), and of the server `AcceptsOneByOne` and
`ContextOutlivesAccept` (one thread past the exchange; the pool takes the accept before
it works on it; only a server being destroyed, without an accept, loses its context).
Of the stream:

* `DeletesOnce`: `CleanInv` gives a context that is not deleted one owner at most: the
  stream, the thread that took it out of the stream (`TakersOwn`), or one clean-up task
  that waits in the executor's queue (`TasksOwn`); and what is owned is not deleted
  (`OwnedIsLive`). The lemmas about the queue say whose clean-ups it holds after a task
  more or less.
* `WriteIsUndisturbed`: by `BusyInv` a context has one transmission at most, a thread
  that works on a completion or an operation on its way, and then `m_wr_busy` is set.
  The property ends where the completion clears the flag: `on_write` gets its values
  after that (section 5).

Each module of an event source states its `Spec` without fairness (`ServerSpec`,
`WinTimerSpec`, `WinServerSpec`, `WinStreamSpec`): fairness is not needed for safety, and
the specification of `MCSources` implies each of them for its own variables.

`TaskRuns_proofs` proves `StacksAreKept` for any task trees, from the assumptions of
`TaskRuns` on them. `RunInv` says of each run where the contexts of its stack are in
their tasks: all but the topmost have a subtask called, which the next one executes, so
that what is posted has a simple task on top and what ended has no context; `QueuesInv`
says that a stack is in one queue, once, and only while it is posted. The hypothesis
`[]NoZeroRepeat` leaves out a repeat of zero repetitions, which the code neither refuses
nor ends: it is called again and again with nothing below it (section 5).

It also proves that runs do what `task.h` says of the compound tasks, for any tree.

* The meaning of a tree is given by rules in `TaskMeaning`, one for each kind of task: "a
  conditional yields what its branch yields, if its predicate yields `Yes`". A relation
  that has what the rules conclude from it is `Closed` (under a trace, which says what
  the user's functions returned or threw), and an outcome follows from the code
  (`Evaluates`) if every closed relation has it. So a rule is used like a step of the
  code, and no recursive function has to be evaluated.
* `RunsFollowTheCode`: whenever a function is posted or executed, the code has made the
  calls of the trace so far and calls that function with that input next; and when a run
  is over and no runner was dropped, the code has ended with those calls and no others.
  `MeaningInv` finds for each context of a stack the place of the code it evaluates
  (`Chain`): the lowest has the whole task of the run, each waits for the place of the
  one above it (`Frame`, `Leads`: whatever the upper place yields, the lower one yields
  what is left to do with it), and the last is where the run is (`Reached`). One lemma per
  action says how the chain changes, `ChainTurns` when a context creates its next
  subtask, `ChainPops` when it reports.
* The hypothesis `KnownDifferencesAside` is the three places in which the code does
  something else (section 5): a value that a conditional or a loop copies and reads again
  is not one that a copy empties, a repeat has something to repeat, and what it repeats
  returns nothing or a value-initialized result. The theorem says that there are no
  further differences. The trees of the run `tasks` satisfy it in every reachable state, which
  TLC confirms when `KnownDifferencesAside` is added to the invariants of its `.cfg`.
* The lemma `CodeDecidesOnce`: one outcome at most follows from a trace, so "the code" above is one
  execution. The intersection of all closed relations is closed (`LeastIsClosed`), has
  nothing that no rule concludes (`LeastIsConcluded`), and the statements in it that have
  no rival are closed too (`LeastIsAlone`), so they are all of it. It is induction over
  the rules, with the set of what is to be proved in place of a predicate.

The assumptions are what the factories of `task.h` accept (`ShapesAssumption`), that a
simple task is below every task (`RunnersAssumption`: the trees are trees), and that a
trace tells a value returned from an exception thrown (`OutcomesAssumption`: an `any` is
not an `exception_ptr`). TLC evaluates the three for the trees of the runs.

`Values_proofs` proves six properties of the value types, the first four of addresses as
values and of containers.

* `NetworksHoldPrefixes`: `calculate_mask` as the code computes it, whole bytes and then
  the bits of one more, is the set of the first bits (`MaskIsPrefix`, by arithmetic on
  `div` and `mod`), every operation leaves in a network an address cut by its own mask
  (`IpInv`), hence membership is equality of prefixes.
* `EqualHostsConvert`, about any two of the objects: the two functions that decide
  equality agree, and hosts of different version are equal exactly when the conversion
  of the IPv6 one is the other. The runs have two contents of each version and five
  lengths; the theorems have any, from `DataAssumption`.
* `AddingStaysLocal`, for any ranges added in any order (`RangesAssumption`: their
  version is one of the two and their mask one that `network` accepts). `AddedInv` says
  that both tables are sequences of such ranges. The argument is about the search of
  `has_attribute`, a CHOOSE in the model: of the ranges an address is in exactly one is
  the first of those with the longest mask (`OneIsNarrowest`), it decides
  (`NarrowestDecides`), and one range more at the end of the table becomes that one if
  and only if its mask is longer than those before (`OneRangeMore`).
* `ContainersAreNumbers`, for any two sizes and any lists of bytes (`SizeAssumption`).
  `ValueOf` is the number by Horner's scheme, a recursive function of the number of bits
  read. The lemmas say how it is cut in two (`HighAndLow`), what the bitwise operators
  make of sums (`SumsOfBits`), and that the first bit in which two containers differ
  decides between their numbers, as it does for `memcmp` (`FirstDifference`).
  `NumbersMeet` puts them together where containers of different size overlap.

The induction the numbers need is had from the least element of a set of numbers
(`LeastNumber`, from the library's well-founded orders): `AllNumbers` is about the set of
the numbers with some property, in place of an operator. `Recursion` derives from it
that the recursive functions exist.

The other two are about the texts of addresses.

* `NotationIsRead`, that the parser of IPv6 addresses agrees with the notation on every
  text, taken without the white space before its slash: the run has eleven items and few
  quads, the theorem any items and any length.
  `Denoted` gives the addresses of a text by looking for a gap anywhere in it; the lemma
  `MeaningForms` puts each of them into a form with the place of the gap, whether the
  address begins and ends with it, and how many items belong to the quads (`Shape`,
  `Address`). `ParserInv` says of every address that the text read so far may be the
  beginning of what the parser has kept of it (`Reading`, `InDecimals`), so it is not
  inductive over a text alone but over all that may follow. `ItemRead`, `DecimalRead`
  and their like are its steps, one per handler of the parser, and `GapFilled` says
  where `inflate` moves each quad. A text that may still become an address has such a
  form with one of the `Endings`, hence is not given up.
* `WrittenIsReadBack`, that what any style writes for an object is read back as that
  object, whatever text it came from: by `assign(string)`, and by `operator >>` too, into
  an IPv4 network if that has the mask already (section 5). The assumption is `ItemsAssumption`: the words of
  the texts are of hexadecimal digits and are followed by a delimiter, white space or the end. The
  invariant is `Sound`: while it reads, the parser holds at most eight quads, with the
  place of the gap among them, and bytes; an object that is done has all its numbers
  and a mask within its version's limit (a text on which `inflate` leaves its array,
  section 5, makes no object). That is what a printer needs: each style's text is
  then an address in the sense of the parser's proof (`Readable`: `ExpandedReadable`,
  `DeflatedReadable`, `DottedReadable`, `DottedQuadReadable`), so that `AddressRead`
  says what is read from it, and a network, which was cut by its mask when it was
  made, is not changed by being cut again (`MaskedTwice`, `MaskedQuads`, `MaskedBytes`).
  The folds that read a word and a text are unrolled item by item (`ValueAppend`,
  `ReadByItems`), and the digits of a number, a recursive function in the printer, are
  the number again in the parser (`DigitsAreRead`).

Checked by TLC only:

* every liveness property (`EveryTaskRuns`, `ReleasedIsDestroyed`, `EveryRunEnds`,
  `ConnectAnswered`, `ConnectReported`, `ListenerReleased`, `TimerTriggers`,
  `TimerReleased`): the provers have neither fairness nor ENABLED. `GcdTimer` has
  no others;
* `Conforms`: the meaning of a task tree is a recursive evaluation there. Its
  counterpart by rules is `RunsFollowTheCode`; that both give the same meaning is not
  proved;
* `Service`, whose one run shows a violation.

## 5. Known differences

What the code does and its notes do not say, met while modelling. The six that
a run shows are findings in `PROJECT.json`; of the others:

* **Deleters** (deque): `enqueue` and `pop_front` destroy copies of a context, each of
  which calls the deleter; with `WithDeleter` not empty, `DeletedOnceAfterExecution`
  of `DequeRunQueue` is violated. The library itself passes no deleter
  (`deque/run_queue.h:71-72`, `deque/run_queue.cpp:69`).
* **The last poll of a released queue** (Windows): `PollsLiveQueue` of `WincpRunQueue`
  is violated: after the last task the work object is submitted once more and its
  callback gets the plain pointer of a queue that is gone (`wincp/run_queue.cpp:269`).
* **Two threads in `release()`** (deque): `m_self.reset()` reads and clears the
  pointer unprotected. With `Releasers` of two clients `ExistsWhileUsed` is
  violated, although the notes (`deque/run_queue.h:62-63`) call every method but
  the constructor thread-safe. The runs let one client release, as `runner` does.
* **A released queue may outlive its last task** (deque): an owner that keeps a
  pointer keeps it; the notes (`deque/run_queue.h:122-124`) say it will certainly
  not exist after the last task.
* **`stop` against a poll** (Windows): if `stop` clears ACTIVE while a poll that
  finds nothing is on its way, its compare-exchange (`wincp/run_queue.cpp:250`) fails and
  BUSY stays set without an owner, so a later `start` resumes nothing
  (`wincp/run_queue.h:104`). A `release` in the same place does the same: a task that is
  posted before it and after the empty poll is never executed, and the queue never
  destroyed, although the notes (2) say that a released queue "will execute all enqueued
  tasks before it is destroyed". `NotStranded` names both cases. In the model
  `PostedWhileStoppedWaits` and `ReleasedIsDestroyed` do not hold of the Windows
  queue either: the poll does not look at ACTIVE. That is why it implements the
  executor with `active` constantly true only.
* **GCD ignores the deleter** it is given.
* **A repeat of zero repetitions** never ends: no subtask is created, and nothing
  pops the repeat context (`repeat_impl.h:86`). The runs repeat once or more.
* **A repeated task's last result is lost**: `any::empty()` answers true of an any
  that holds a value, and the reporter replaces it (`repeat_impl.h:40`). Modelled
  as `RepeatResult`.
* **A copied `any` is moved from**: a branch gets what the predicate's copy left
  (`context.h:82`). Modelled as `Copied`.
* **Copies of a runner** share a queue, which the first destructor releases.
* **Compound tasks and event sources are out of the build** at this commit
  (`include/cool/ng/impl/async/task.h:265-271`, `cmake/cool.ng-files.cmake`). They are
  modelled as they stand in the tree.

* **Streams on GCD** (line numbers of `gcd/event_sources.cpp`), each seen in a variant
  of the runs:
  - a handler that cancelled the writer (`TakeWriter` resumes it) may be overtaken: when
    the handler of that source is between its start and its `suspend` (806, 846), the
    source is suspended after `cancel`, its cancel handler is never delivered, and the
    socket stays open;
  - of two `disconnect` at once one takes each source, so both may throw before 587 and
    the state stays `disconnecting` for ever;
  - `write` follows `m_writer` (796) after the peer's close set it to null: the model's
    `"crashed"`, where every behaviour stops;
  - a `connect` whose `::connect` fails at once (648-666) throws, and may be reported as
    aborted too: a `disconnect` between the assignment of `connecting` and the catch
    block finds the state still `connecting` (`AbortedByDisconnect` is violated with one
    connection already);
  - with two connections and several managing threads two `connect` may pass the check
    (599) at once and one loses its context, or a failing `connect` closes (663) a handle
    that the cancel handler closes too: `AnsweredOnce` and *closed once* need callers
    that do not connect at the same time;
  - `on_write` (811) is given `m_wr_data` and `m_wr_size` after `m_wr_busy` was cleared,
    so what a racing `write` has just set is reported, and `stream.h` says the values are
    those of the call that completed;
  - a failing `::write` returns -1, which is added to the position (802): at position 0
    the write is reported as done, elsewhere a byte is sent twice;
  - `m_wr_busy` outlives a `disconnect` in the middle of a write: every later write is
    refused;
  - `disconnect` while connecting resumes the write source, whose event may be served
    after the connect event made the stream connected: a write event with nothing to
    write. `WritesExclusive` excepts streams this happened to (`aborts = {}`), since
    `on_write` and the clearing of `m_wr_busy` then come out of turn.

* **Timers on GCD**: the handler's `stop`, when the runner of the task has gone, may
  come between the flag and the call of a `start`, or between the resume and the cancel
  of `shutdown`: the program ends with an over-resume, or the context is never released.
  `TimerTriggers` and `TimerReleased` except the runner's end.
* **Timers on Windows** (`wincp/event_sources.cpp`): a callback that has found the flag
  set (155) runs the task afterwards (139), however long ago `stop` returned, which the
  documentation describes as "disabling the calls to the user callback"
  (`event_sources.h:283`). `OnlyPassedBegin` says that no other callback does.
* **Servers on GCD**: a client that is accepted while the state is still `starting`, or
  after a `stop` in the middle of the accept loop, is closed.
* **Servers on Windows** (`wincp/event_sources.cpp`): a `stop` between a completion and
  the next AcceptEx cancels nothing, and the server goes on accepting in the state
  `stopping`, where `start` and `stop` throw; `shutdown` in any state but `accepting`
  and `stopped` does nothing, and context and socket stay (465-486); an AcceptEx that
  fails at once, or a client that resets its connection, leaves a server that accepts
  no more and says it does (391-400, 584); an exception of `start_accept` on the pool's
  thread ends the program; `start`'s handler deletes a null pointer instead of the
  context (426-428); the port of an IPv6 client is converted twice (618-620).
* **Streams on Windows**: a `connect` that fails before its I/O object exists leaves the
  state `connecting`, and the next `disconnect` waits on a null object; sockets of
  failed connections are never closed; `disconnect` in a callback waits for a task of
  the executor it is executed on, for ever (1036-1040); a failed write leaves
  `m_wr_busy` set (1525-1528); `start_read_source` that fails while another thread
  disconnects deletes the context without closing the socket, with a write in
  flight (1183-1191); `connect` may be reported and then `request_aborted` for the same
  connect; the state that `process_event_connecting` changes is that of the context the
  stream has by then; the completion of a write clears `m_wr_busy` (1535) before it reads
  the data and size for `on_write` (1540-1541), so a racing `write` replaces what is
  reported (`stream.h:107-109`). `WrittenUndisturbed` ends at that step.
* **Values** (`ip_address.cpp` unless named): an object read by `operator >>` or made
  from address and port has an old `sockaddr`; `style::dot_decimal` prints IPv4
  addresses in hexadecimal on a stream that an IPv6 address was printed to, and network
  masks too (926-936, 1262); `has` ignores the mask of a network it is asked about
  (1847-1853), though the documentation demands it be contained (`ip_address.h:500-511`);
  a range added with the length of a reserved one never takes effect, because the search
  wants a longer mask (549); assigning through the base class keeps a network's own mask
  (2110-2136), so `operator >>` (1468) reads the bytes of an IPv4 network but not its mask,
  against `ip_address.h:2217-2220`: 192.168.3.0/24 read into a default network is
  192.0.0.0/8 (`Streamed`); white space does not end an IPv6 address but is skipped
  (1084, 1112), "8 9" being read as 89, where the documentation has the reading stop at
  the first character that is no part of the address (`ip_address.h:2223-2225`); the style `microsoft` prints colons when there is no run of zeros
  (1335-1336); an IPv6 text with more than four digits in a decimal part or a dangling
  delimiter is read in ways the notation does not have, and a compression in a text of
  too many quads reads below the array (1221-1233); a port above 65535 is read as 65535
  and a missing one is uninitialised (251); the literal `_ip` returns a default
  host (414-417).

## 6. Not modelled

`PROJECT.json` lists each part with its reason. Of the streams the read buffers and
their owner are left out, and of the GCD stream the end of the runner; of the
containers the hexadecimal text; of the addresses the literals and the table's
descriptions; copies of runners; the creation of the Windows thread pool and its
failures. The wrappers of the network API forward, and the old executors are present
only as the queue the Windows sources post to. Never: error tables, traits
(compile-time), base classes, tests and build files.

## 7. What could follow

1. Read buffers of the streams (who owns and frees them), and copies of runners.
2. Proofs: that the rules of `TaskMeaning` and the evaluation of `TaskConformance`
   give one meaning, which needs induction over task trees.
3. Composition: `TaskRuns` over `SerialExecutor` instead of its own queues, so
   that the refinement of the queue carries over to the runs.
