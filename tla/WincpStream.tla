------------------------------ MODULE WincpStream ------------------------------
(***************************************************************************)
(* The stream on Windows (lib/src/async/wincp/event_sources.{h,cpp}, class *)
(* net::impl::stream).  Connect, read and write are overlapped operations  *)
(* whose completions execute on the threads of the pool; what they tell    *)
(* the user they post to the executor of the stream's runner, which        *)
(* executes its tasks one after the other.  User code runs on Users and on *)
(* the executor, in callbacks.                                             *)
(*                                                                         *)
(* A number n stands for the n-th connection and its context, a pointer to *)
(* a shared pointer; m_context points to one or is null.  Whoever replaces *)
(* it by null has to clean the context up.  External are the sockets, the  *)
(* peer and the pool.  A use of a deleted context is undefined behaviour   *)
(* and ends the model (label "crashed").                                   *)
(***************************************************************************)
EXTENDS Integers, Sequences

CONSTANTS Users,             \* threads of the user
          Readers, Writers,  \* threads of the pool with the completions of
                             \* connects and reads, and of writes
          Executor,          \* the thread that executes the runner's queue
          Managers,          \* threads that disconnect and destroy the stream
          MaxConnects,       \* bound: calls of connect() that pass its check
          MaxWrites,         \* bound: calls of write() that pass its check
          MaxReads,          \* bound: times the peer sends data
          WriteSize          \* what a write transmits, in units of WriteFile

Workers == Readers \cup Writers
Threads == Users \cup Workers \cup {Executor}
Connections == 1..MaxConnects
Null == 0

ASSUME WinStreamAssumption ==
    /\ Executor \notin Users \cup Workers
    /\ Users \cap Workers = {}
    /\ Readers \cap Writers = {}
    /\ Managers \subseteq Users \cup {Executor}
    /\ {MaxConnects, MaxWrites, MaxReads, WriteSize} \subseteq Nat
    /\ WriteSize > 0

VARIABLES
    m_context,
    ctx,                     \* the contexts
    rd, wr,                  \* their overlapped operations
    tasks,                   \* the executor's queue
    task,                    \* the task it executes
    pc, cur,                 \* a thread: its place and the context it uses
    owned,                   \* who holds the stream: "user", "callback" or "none"
    executor,                \* the executor of the runner exists
    connects, writes, reads, \* history: calls so far
    returned,                \* history: calls of connect() that did not throw
    answers,                 \* history: what was reported of a connection
    deletes                  \* history: how often a context was deleted

threads == <<pc, cur>>
queue == <<tasks, task, executor>>
io == <<rd, wr>>
counts == <<connects, writes, reads, returned>>
streamVars == <<m_context, ctx, io, queue, threads, owned, counts, answers, deletes>>

NoTask == [kind |-> "none", n |-> Null]

NewContext == [st |-> "connecting", socket |-> "none", busy |-> FALSE, data |-> 0, pos |-> 0]

StreamInit ==
    /\ m_context = Null
    /\ ctx = [n \in Connections |-> NewContext]
    /\ rd = [n \in Connections |-> "none"]
    /\ wr = [n \in Connections |-> "none"]
    /\ tasks = << >>
    /\ task = NoTask
    /\ pc = [t \in Threads |-> IF t \in Users THEN "user" ELSE "idle"]
    /\ cur = [t \in Threads |-> Null]
    /\ owned = "user"
    /\ executor = TRUE
    /\ connects = 0
    /\ writes = 0
    /\ reads = 0
    /\ returned = {}
    /\ answers = [n \in Connections |-> {}]
    /\ deletes = [n \in Connections |-> 0]

Place(t, label) == pc[t] = label

\* Back in the user's code or in the pool a thread forgets its context.
To(t, label) ==
    /\ pc' = [pc EXCEPT ![t] = label]
    /\ cur' = [cur EXCEPT ![t] = IF label \in {"user", "idle"} THEN Null ELSE @]

Begin(t, label, n) ==
    /\ pc' = [pc EXCEPT ![t] = label]
    /\ cur' = [cur EXCEPT ![t] = IF label \in {"user", "idle"} THEN Null ELSE n]

Home(t) == IF t \in Workers \/ (t = Executor /\ owned = "none") THEN "idle" ELSE "user"

Calls(t) == owned = "user" /\ t \notin Workers /\ pc[t] = "user"

Dangling(n) == n \notin {k \in Connections : deletes[k] = 0}

Posted(kind, n) == IF executor THEN <<[kind |-> kind, n |-> n]>> ELSE << >>

Post(kind, n) == tasks' = tasks \o Posted(kind, n) /\ UNCHANGED <<task, executor>>

\* A step that follows the thread's pointer to a context.
Using(t, label) == Place(t, label) /\ ~Dangling(cur[t])

Crashes(t) ==
    /\ Dangling(cur[t])
    /\ pc[t] \in {"socket", "issue", "busy", "file", "state", "cleanup", "event", "written", "read"}
    /\ To(t, "crashed")
    /\ UNCHANGED <<m_context, ctx, io, queue, owned, counts, answers, deletes>>

\* get_state and set_state look at whatever context the stream has now.
get_state == IF m_context = Null THEN "disconnected" ELSE ctx[m_context].st
-----------------------------------------------------------------------------
(* connect *)

ConnectStream(t) ==
    /\ Calls(t)
    /\ m_context = Null
    /\ connects < MaxConnects
    /\ connects' = connects + 1
    /\ m_context' = connects + 1
    /\ Begin(t, "socket", connects + 1)
    /\ UNCHANGED <<ctx, io, queue, owned, writes, reads, returned, answers, deletes>>

\* WSASocketW and context::set_handle; a failure of theirs leaves the context.
SocketFor(t) ==
    /\ Using(t, "socket")
    /\ \/ /\ ctx' = [ctx EXCEPT ![cur[t]].socket = "open"]
          /\ To(t, "issue")
       \/ To(t, Home(t)) /\ UNCHANGED ctx
    /\ UNCHANGED <<m_context, io, queue, owned, counts, answers, deletes>>

ConnectEx(t) ==
    /\ Using(t, "issue")
    /\ ctx[cur[t]].socket = "open"
    /\ rd' = [rd EXCEPT ![cur[t]] = "connect"]
    /\ returned' = returned \cup {cur[t]}
    /\ To(t, Home(t))
    /\ UNCHANGED <<m_context, ctx, wr, queue, owned, connects, writes, reads, answers, deletes>>

\* The context is deleted, unless disconnect() took it; the socket stays open.
ConnectExFails(t) ==
    /\ Using(t, "issue")
    /\ IF m_context = cur[t]
       THEN m_context' = Null /\ deletes' = [deletes EXCEPT ![cur[t]] = @ + 1]
       ELSE UNCHANGED <<m_context, deletes>>
    /\ To(t, Home(t))
    /\ UNCHANGED <<ctx, io, queue, owned, counts, answers>>

\* Instead a new stream is given the socket a server accepted; nobody else can
\* call it yet.
SetHandle(t) ==
    /\ Calls(t)
    /\ connects = 0
    /\ MaxConnects > 0
    /\ connects' = 1
    /\ UNCHANGED <<wr, task, executor, threads, owned, writes, reads, returned, answers, deletes>>

Accepted == [ctx EXCEPT ![1].st = "connected", ![1].socket = "open"]

\* Reading starts last.
SetHandleOf(t) ==
    /\ SetHandle(t)
    /\ m_context' = 1
    /\ ctx' = Accepted
    /\ rd' = [rd EXCEPT ![1] = "read"]
    /\ UNCHANGED tasks

\* CreateThreadpoolIo fails: nobody has the context.
SetHandleThrows(t) == SetHandle(t) /\ UNCHANGED <<m_context, ctx, rd, tasks>>

\* ReadFile fails: the context is taken back and the failure reported.
SetHandleFails(t) ==
    /\ SetHandle(t)
    /\ ctx' = Accepted
    /\ tasks' = tasks \o Posted("failure", 1) \o Posted("cleanup_io", 1)
    /\ UNCHANGED <<m_context, rd>>

SetsHandle(t) == SetHandleOf(t) \/ SetHandleThrows(t) \/ SetHandleFails(t)
-----------------------------------------------------------------------------
(* disconnect and shutdown *)

DisconnectStream(t) ==
    /\ Calls(t)
    /\ t \in Managers
    /\ m_context # Null
    /\ Begin(t, "state", m_context)
    /\ UNCHANGED <<m_context, ctx, io, queue, owned, counts, answers, deletes>>

\* The destructor is left to a callback that holds the stream.
DestroyStream(t) ==
    /\ Calls(t)
    /\ t \in Managers
    /\ \A u \in Users : pc[u] = "user"
    /\ IF pc[Executor] = "idle"
       THEN /\ owned' = "none"
            /\ Begin(t, IF m_context = Null THEN "user" ELSE "state", m_context)
       ELSE owned' = "callback" /\ UNCHANGED threads
    /\ UNCHANGED <<m_context, ctx, io, queue, counts, answers, deletes>>

SetDisconnecting(t) ==
    /\ Using(t, "state")
    /\ ctx' = [ctx EXCEPT ![cur[t]].st = IF @ = "connected" THEN "disconnecting" ELSE @]
    /\ To(t, CASE ctx[cur[t]].st = "connected" -> "take"
               [] ctx[cur[t]].st = "connecting" -> "abort"
               [] OTHER -> Home(t))
    /\ UNCHANGED <<m_context, io, queue, owned, counts, answers, deletes>>

\* From here on the context is this thread's to clean up, if there is one.
TakeContextAs(t, next) ==
    /\ pc[t] \in {"take", "abort"}
    /\ IF m_context = Null THEN To(t, Home(t))
       ELSE Begin(t, IF pc[t] = "take" THEN "close" ELSE "close_abort", m_context)
    /\ m_context' = next
    /\ UNCHANGED <<ctx, io, queue, owned, counts, answers, deletes>>

KeepContext(t) == TakeContextAs(t, m_context)
TakeContext(t) == TakeContextAs(t, Null)

\* Operations that are under way end; those completed keep their result.
AbortedIo(ops, n) ==
    [ops EXCEPT ![n] = IF @ \in {"connect", "read", "write"} THEN "aborted" ELSE @]

CloseThen(t, report) ==
    /\ pc[t] \in {"close", "close_abort"}
    /\ ctx' = [ctx EXCEPT ![cur[t]].socket = IF @ = "open" THEN "closed" ELSE @]
    /\ rd' = AbortedIo(rd, cur[t])
    /\ wr' = AbortedIo(wr, cur[t])
    /\ IF report THEN Post("aborted", cur[t]) ELSE UNCHANGED queue
    /\ To(t, "callbacks")
    /\ UNCHANGED <<m_context, owned, counts, answers, deletes>>

CloseSilently(t) == CloseThen(t, FALSE)

\* closesocket, and the report if the connect was not completed.
CloseSocket(t) == CloseThen(t, pc[t] = "close_abort")

InCallback(w, n) == w \in Workers /\ cur[w] = n

\* WaitForThreadpoolIoCallbacks drops the completions nobody handles yet; a
\* context without a socket has nothing it could wait for.
WaitForCallbacks(t) ==
    /\ Place(t, "callbacks")
    /\ \A w \in Workers : ~InCallback(w, cur[t])
    /\ rd' = [rd EXCEPT ![cur[t]] = "none"]
    /\ wr' = [wr EXCEPT ![cur[t]] = "none"]
    /\ To(t, IF ctx[cur[t]].socket = "none" THEN "crashed" ELSE "cleanup")
    /\ UNCHANGED <<m_context, ctx, queue, owned, counts, answers, deletes>>

\* start_cleanup waits for its task: on the executor itself, or when the executor
\* goes, for ever.  Without an executor the context is never deleted.
StartCleanup(t) ==
    /\ Using(t, "cleanup")
    /\ Post("cleanup", cur[t])
    /\ To(t, IF executor THEN "wait" ELSE Home(t))
    /\ UNCHANGED <<m_context, ctx, io, owned, counts, answers, deletes>>

CleanedUp(t) ==
    /\ Place(t, "finished")
    /\ deletes' = [deletes EXCEPT ![cur[t]] = @ + 1]
    /\ To(t, Home(t))
    /\ UNCHANGED <<m_context, ctx, io, queue, owned, counts, answers>>
-----------------------------------------------------------------------------
(* write *)

WriteStream(t) ==
    /\ Calls(t)
    /\ writes < MaxWrites
    /\ Begin(t, "check", m_context)
    /\ UNCHANGED <<m_context, ctx, io, queue, owned, counts, answers, deletes>>

\* The state is looked at after the context was loaded.
CheckConnected(t) ==
    /\ Place(t, "check")
    /\ IF get_state = "connected" /\ writes < MaxWrites
       THEN writes' = writes + 1 /\ To(t, "busy")
       ELSE To(t, Home(t)) /\ UNCHANGED writes
    /\ UNCHANGED <<m_context, ctx, io, queue, owned, connects, reads, returned, answers, deletes>>

Prepare(t) ==
    /\ Using(t, "busy")
    /\ ctx' = [ctx EXCEPT ![cur[t]].busy = TRUE, ![cur[t]].data = @ + 1, ![cur[t]].pos = 0]
    /\ To(t, "file")
    /\ UNCHANGED <<m_context, io, queue, owned, counts, answers, deletes>>

Refuse(t) ==
    /\ Using(t, "busy")
    /\ To(t, Home(t))
    /\ UNCHANGED <<m_context, ctx, io, queue, owned, counts, answers, deletes>>

PrepareUnlessBusy(t) == IF cur[t] # Null /\ ctx[cur[t]].busy THEN Refuse(t) ELSE Prepare(t)

\* start_write_source: a failure is not reported, and busy it stays.
WriteFile(t) ==
    /\ Using(t, "file")
    /\ \/ ctx[cur[t]].socket = "open" /\ wr' = [wr EXCEPT ![cur[t]] = "write"]
       \/ UNCHANGED wr
    /\ To(t, Home(t))
    /\ UNCHANGED <<m_context, ctx, rd, queue, owned, counts, answers, deletes>>
-----------------------------------------------------------------------------
(* The completions, on a thread w of the pool. *)

Completion(w, n, label) ==
    /\ Place(w, "idle")
    /\ Begin(w, IF Dangling(n) THEN "crashed" ELSE label, n)

OnRead(w, n) ==
    /\ rd[n] \in {"connected", "refused", "aborted", "data", "closed"}
    /\ Completion(w, n,
           IF ctx[n].st = "connecting"
           THEN IF executor /\ rd[n] \notin {"refused", "aborted"} THEN "acknowledge" ELSE "failed"
           ELSE IF rd[n] = "data" THEN "received" ELSE "ended")
    /\ rd' = [rd EXCEPT ![n] = "none"]
    /\ UNCHANGED <<m_context, ctx, wr, queue, owned, counts, answers, deletes>>

\* process_event_connecting: set_state changes the context the stream has now.
Acknowledge(w) ==
    /\ Place(w, "acknowledge")
    /\ IF get_state = "connecting"
       THEN ctx' = [ctx EXCEPT ![m_context].st = "connected"] /\ To(w, "post")
       ELSE To(w, "idle") /\ UNCHANGED ctx
    /\ UNCHANGED <<m_context, io, queue, owned, counts, answers, deletes>>

PostConnect(w) ==
    /\ Place(w, "post")
    /\ Post("connect", cur[w])
    /\ To(w, "idle")
    /\ UNCHANGED <<m_context, ctx, io, owned, counts, answers, deletes>>

\* Whoever takes the context reports the failure and posts the cleanup.
Fail(t, taken) ==
    /\ IF taken
       THEN /\ tasks' = tasks \o Posted("failure", cur[t]) \o Posted("cleanup_io", cur[t])
            /\ m_context' = IF m_context = cur[t] THEN Null ELSE m_context
       ELSE UNCHANGED <<tasks, m_context>>
    /\ To(t, IF t = Executor THEN "leave" ELSE "idle")
    /\ UNCHANGED <<ctx, io, task, executor, owned, counts, answers, deletes>>

FailAnyway(w) == Place(w, "failed") /\ Fail(w, TRUE)
FailIfTaken(w) == Place(w, "failed") /\ Fail(w, m_context = cur[w])

\* process_event_read: the user reads, or learns that the peer has gone; then
\* the context stays until the user disconnects.
ProcessRead(w) ==
    /\ pc[w] \in {"received", "ended"}
    /\ Post(IF pc[w] = "received" THEN "on_read" ELSE "on_event", cur[w])
    /\ To(w, "idle")
    /\ UNCHANGED <<m_context, ctx, io, owned, counts, answers, deletes>>

OnWritten(w, n) ==
    /\ wr[n] \in {"written", "aborted", "broken"}
    /\ wr' = [wr EXCEPT ![n] = "none"]
    /\ Completion(w, n, IF wr[n] = "written" THEN "event" ELSE "idle")
    /\ UNCHANGED <<m_context, ctx, rd, queue, owned, counts, answers, deletes>>

\* process_event_write
ProcessWrite(w) ==
    /\ Using(w, "event")
    /\ \E k \in 1..(WriteSize - ctx[cur[w]].pos) :
          /\ ctx' = [ctx EXCEPT ![cur[w]].pos = @ + k,
                                ![cur[w]].busy = (@ /\ ctx[cur[w]].pos + k < WriteSize)]
          /\ To(w, IF ctx[cur[w]].pos + k < WriteSize THEN "file" ELSE "written")
    /\ UNCHANGED <<m_context, io, queue, owned, counts, answers, deletes>>

\* on_write is given what the context's data is by now.
PostWritten(w) ==
    /\ Using(w, "written")
    /\ Post("on_write", cur[w])
    /\ To(w, "idle")
    /\ UNCHANGED <<m_context, ctx, io, owned, counts, answers, deletes>>
-----------------------------------------------------------------------------
(* The executor *)

NextIs(kinds) == pc[Executor] = "idle" /\ tasks # << >> /\ Head(tasks).kind \in kinds

\* on_event, on_read and on_write call the user, if its stream still exists.
CallUser ==
    /\ NextIs({"connect", "failure", "aborted", "on_event", "on_read", "on_write"})
    /\ tasks' = Tail(tasks)
    /\ LET new == Head(tasks)
       IN  IF owned = "user" /\ ~(new.kind = "on_read" /\ Dangling(new.n))
           THEN /\ task' = new
                /\ answers' = IF new.kind \in {"connect", "failure", "aborted"}
                              THEN [answers EXCEPT ![new.n] = @ \cup {new.kind}]
                              ELSE answers
                /\ pc' = [pc EXCEPT ![Executor] = "user"]
           ELSE UNCHANGED <<task, answers, pc>>
    /\ UNCHANGED <<m_context, ctx, io, executor, cur, owned, counts, deletes>>

\* After connect and on_read the next read starts, if the context exists.
UserReturns ==
    /\ Place(Executor, "user")
    /\ IF task.kind \in {"connect", "on_read"} /\ ~Dangling(task.n)
       THEN Begin(Executor, "read", task.n)
       ELSE Begin(Executor, "leave", Null)
    /\ task' = NoTask
    /\ UNCHANGED <<m_context, ctx, io, tasks, executor, owned, counts, answers, deletes>>

StartRead ==
    /\ Using(Executor, "read")
    /\ ctx[cur[Executor]].socket = "open"
    /\ rd' = [rd EXCEPT ![cur[Executor]] = "read"]
    /\ To(Executor, "leave")
    /\ UNCHANGED <<m_context, ctx, wr, queue, owned, counts, answers, deletes>>

\* ReadFile fails: on a closed socket, or because of the peer.  While someone
\* disconnects, the context is deleted without more ado.
StartReadFails ==
    /\ Using(Executor, "read")
    /\ IF get_state \in {"connecting", "connected"}
       THEN Fail(Executor, m_context = cur[Executor])
       ELSE /\ IF m_context = cur[Executor]
               THEN m_context' = Null /\ deletes' = [deletes EXCEPT ![cur[Executor]] = @ + 1]
               ELSE UNCHANGED <<m_context, deletes>>
            /\ To(Executor, "leave")
            /\ UNCHANGED <<ctx, io, queue, owned, counts, answers>>

\* The callback gives its reference up: if it was the last one, the destructor
\* shuts the stream down here, on the executor.
LeaveCallback ==
    /\ Place(Executor, "leave")
    /\ owned' = IF owned = "callback" THEN "none" ELSE owned
    /\ IF owned = "callback" /\ m_context # Null
       THEN Begin(Executor, "state", m_context)
       ELSE To(Executor, "idle")
    /\ UNCHANGED <<m_context, ctx, io, queue, counts, answers, deletes>>

\* CloseThreadpoolCleanupGroupMembers waits for the callbacks of the context.
Cleanup ==
    /\ NextIs({"cleanup", "cleanup_io"})
    /\ LET n == Head(tasks).n
       IN  /\ \A w \in Workers : ~InCallback(w, n)
           /\ rd' = [rd EXCEPT ![n] = "none"]
           /\ wr' = [wr EXCEPT ![n] = "none"]
           /\ IF Head(tasks).kind = "cleanup"
              THEN /\ pc' = [t \in Threads |-> IF pc[t] = "wait" /\ cur[t] = n THEN "finished"
                                               ELSE pc[t]]
                   /\ UNCHANGED deletes
              ELSE /\ deletes' = IF Dangling(n) THEN deletes ELSE [deletes EXCEPT ![n] = @ + 1]
                   /\ UNCHANGED pc
    /\ tasks' = Tail(tasks)
    /\ UNCHANGED <<m_context, ctx, task, executor, cur, owned, counts, answers>>

\* The runner is destroyed; the tasks that are left are not executed.
ExecutorDestroyed ==
    /\ executor
    /\ Place(Executor, "idle")
    /\ executor' = FALSE
    /\ tasks' = << >>
    /\ UNCHANGED <<m_context, ctx, io, task, threads, owned, counts, answers, deletes>>
-----------------------------------------------------------------------------
(* The peer *)

Completes(n, from, to) ==
    /\ rd[n] = from
    /\ rd' = [rd EXCEPT ![n] = to]
    /\ UNCHANGED <<m_context, ctx, wr, queue, threads, owned, connects, writes, returned,
                   answers, deletes>>

PeerAnswers(n) == (Completes(n, "connect", "connected") \/ Completes(n, "connect", "refused"))
                      /\ UNCHANGED reads

PeerSends(n) == reads < MaxReads /\ Completes(n, "read", "data") /\ reads' = reads + 1

PeerCloses(n) == Completes(n, "read", "closed") /\ UNCHANGED reads

WriteCompletes(n) ==
    /\ wr[n] = "write"
    /\ wr' \in {[wr EXCEPT ![n] = "written"], [wr EXCEPT ![n] = "broken"]}
    /\ UNCHANGED <<m_context, ctx, rd, queue, threads, owned, counts, answers, deletes>>

OnThread(t) ==
    \/ SocketFor(t) \/ ConnectEx(t) \/ ConnectExFails(t)
    \/ SetDisconnecting(t) \/ TakeContext(t) \/ CloseSocket(t) \/ WaitForCallbacks(t)
    \/ StartCleanup(t) \/ CleanedUp(t)
    \/ CheckConnected(t) \/ PrepareUnlessBusy(t) \/ WriteFile(t)
    \/ Crashes(t)

OnPool(w) ==
    \/ \E n \in Connections : (w \in Readers /\ OnRead(w, n)) \/ (w \in Writers /\ OnWritten(w, n))
    \/ Acknowledge(w) \/ PostConnect(w) \/ FailIfTaken(w) \/ ProcessRead(w)
    \/ ProcessWrite(w) \/ PostWritten(w)

OnExecutor ==
    CallUser \/ UserReturns \/ StartRead \/ StartReadFails \/ LeaveCallback \/ Cleanup

StreamCrashed == \E t \in Threads : pc[t] = "crashed"

Runs(t) ==
    /\ ~StreamCrashed
    /\ OnThread(t) \/ (t \in Workers /\ OnPool(t)) \/ (t = Executor /\ OnExecutor)

StreamNext ==
    /\ ~StreamCrashed
    /\ \/ \E t \in Threads :
             \/ ConnectStream(t) \/ SetsHandle(t) \/ WriteStream(t)
             \/ DisconnectStream(t) \/ DestroyStream(t)
             \/ Runs(t)
       \/ ExecutorDestroyed
       \/ \E n \in Connections :
             PeerAnswers(n) \/ PeerSends(n) \/ PeerCloses(n) \/ WriteCompletes(n)

\* Threads are scheduled, user code on the executor returns, however often it
\* calls write() first, and the network answers every connect, if only by a
\* timeout.
StreamFairness ==
    /\ \A t \in Threads : WF_streamVars(Runs(t))
    /\ SF_streamVars(~StreamCrashed /\ UserReturns)
    /\ \A n \in Connections : WF_streamVars(~StreamCrashed /\ PeerAnswers(n))
-----------------------------------------------------------------------------
(***************************************************************************)
(* A context is cleaned up and deleted once, although disconnect(), a      *)
(* failed connect, a failed read and the destructor may all find it at the *)
(* same time: the compare-exchange of m_context decides between them.      *)
(***************************************************************************)
CleanedUpOnce == \A n \in Connections : deletes[n] <= 1

(***************************************************************************)
(* A connect that was initiated is reported sooner or later (stream.h:     *)
(* "the user code must wait for the event reported to the event handler"), *)
(* unless the stream or its runner is destroyed, or a callback waits for   *)
(* the executor it executes on.                                            *)
(***************************************************************************)
ConnectReported ==
    \A n \in Connections :
        n \in returned ~> (\/ answers[n] # {} \/ owned # "user" \/ ~executor
                           \/ StreamCrashed \/ pc[Executor] = "wait")

(***************************************************************************)
(* The data of a write is not replaced while WriteFile transmits it, nor   *)
(* while its completion is processed as long as m_wr_busy is set, whoever  *)
(* else calls write().  From the step that clears the flag on it may be    *)
(* (label "written"): process_event_write reads what it gives to on_write  *)
(* after that, and gives the values of a write that came between.          *)
(***************************************************************************)
WrittenUndisturbed ==
    [][\A n \in Connections :
          wr[n] # "none" \/ (\E w \in Workers : cur[w] = n /\ pc[w] \in {"event", "file"})
              => ctx'[n].data = ctx[n].data]_streamVars
=============================================================================
