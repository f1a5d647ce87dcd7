------------------------------- MODULE GcdStream -------------------------------
(***************************************************************************)
(* The stream event source on libdispatch (lib/src/async/gcd/              *)
(* event_sources.{h,cpp}, class net::impl::stream): connect, write,        *)
(* disconnect and destruction by the user, and the handlers of its two     *)
(* dispatch sources, which execute one after the other on the queue of the *)
(* stream's runner.                                                        *)
(*                                                                         *)
(* User code runs on any thread of Users and on the queue itself: in the   *)
(* callbacks, which are the last thing each handler does, and in tasks of  *)
(* the runner.  Every atomic access is a step.  External are the sockets   *)
(* and what libdispatch does: it executes the event handler of a source    *)
(* that is ready, resumed and not cancelled, and after the cancellation of *)
(* a source that is resumed its cancel handler, once.                      *)
(*                                                                         *)
(* A number n stands for the n-th connection, its two contexts and their   *)
(* handles (the reader's is a dup of the writer's).                        *)
(***************************************************************************)
EXTENDS Integers

CONSTANTS Users,         \* threads of the user beside the queue
          Queue,         \* the thread that executes the runner's queue
          Managers,      \* threads that connect, disconnect and destroy the stream
          MaxConnects,   \* bound: calls of connect() that pass its check
          MaxWrites,     \* bound: calls of write() that pass its check
          WriteSize      \* what a write transmits, in units of ::write

Threads == Users \cup {Queue}
Connections == 1..MaxConnects
NoContext == 0           \* nullptr

ASSUME StreamAssumption ==
    /\ Queue \notin Users
    /\ Managers \subseteq Threads
    /\ MaxConnects \in Nat \ {0}
    /\ MaxWrites \in Nat
    /\ WriteSize \in Nat \ {0}

VARIABLES
    m_state,
    m_writer, m_reader,    \* the connection whose context they point to
    wr, rd,                \* the contexts: their sources
    m_wr_busy, m_wr_data, m_wr_pos,
    owned,                 \* the user still owns the stream
    net,                   \* what became of a connection's socket
    pc, cur, seen, mode,   \* a thread: its place, its connection, the pointer
                           \* it loaded, and why it cancels sources
    connects, writes,      \* history: calls so far
    attempt,               \* history: the connection connect() set last
    returned,              \* history: calls of connect() that did not throw
    aborts,                \* history: connections disconnect() was called on
                           \* while they were connecting
    answers,               \* history: what was reported of a connection
    closed                 \* history: how often a writer's handle was closed

sources == <<m_writer, m_reader, wr, rd, closed>>
writing == <<m_wr_busy, m_wr_data, m_wr_pos, writes>>
calling == <<owned, connects, attempt, returned, aborts>>
place == <<pc, cur, seen, mode>>
vars == <<m_state, sources, writing, calling, place, net, answers>>

Source == [source : {"none", "live", "cancelled", "deleted"}, resumed : BOOLEAN]
NoSource == [source |-> "none", resumed |-> FALSE]

Init ==
    /\ m_state = "disconnected"
    /\ m_writer = NoContext
    /\ m_reader = NoContext
    /\ wr = [n \in Connections |-> NoSource]
    /\ rd = [n \in Connections |-> NoSource]
    /\ m_wr_busy = FALSE
    /\ m_wr_data = 0
    /\ m_wr_pos = 0
    /\ owned = TRUE
    /\ net = [n \in Connections |-> "none"]
    /\ pc = [t \in Threads |-> IF t = Queue THEN "idle" ELSE "user"]
    /\ cur = [t \in Threads |-> NoContext]
    /\ seen = [t \in Threads |-> NoContext]
    /\ mode = [t \in Threads |-> "none"]
    /\ connects = 0
    /\ attempt = 0
    /\ closed = [n \in Connections |-> 0]
    /\ writes = 0
    /\ returned = {}
    /\ aborts = {}
    /\ answers = [n \in Connections |-> {}]

Caller(t) == owned /\ pc[t] = "user"

At(t, label) == pc[t] = label

\* A thread that returns to the user's code or to the pool forgets its locals.
Goto(t, label) ==
    LET returns == label \in {"user", "idle"}
    IN  /\ pc' = [pc EXCEPT ![t] = label]
        /\ cur' = [cur EXCEPT ![t] = IF returns THEN NoContext ELSE @]
        /\ seen' = [seen EXCEPT ![t] = IF returns THEN NoContext ELSE @]
        /\ mode' = [mode EXCEPT ![t] = IF returns THEN "none" ELSE @]

Enter(t, label, n, why) ==
    /\ pc' = [pc EXCEPT ![t] = label]
    /\ cur' = [cur EXCEPT ![t] = n]
    /\ mode' = [mode EXCEPT ![t] = why]
    /\ UNCHANGED seen

\* A handler ends with a callback, if the user's object still exists.
Callback == IF owned THEN "user" ELSE "idle"

Report(n, event) ==
    answers' = [answers EXCEPT ![n] = IF owned THEN @ \cup {event} ELSE @]
-----------------------------------------------------------------------------
(* cancel_read_source and cancel_write_source: a load, a compare-exchange,  *)
(* resume and cancel.                                                       *)

Cancelled(s) == IF s.source = "live" THEN [s EXCEPT !.source = "cancelled"] ELSE s

AfterReader(t) == IF mode[t] = "peer" THEN "report" ELSE "loadW"

AfterWriter(t) ==
    CASE mode[t] = "connect" -> "undone"
      [] mode[t] = "disconnect" -> "disconnected"
      [] mode[t] = "failed" -> "failed"
      [] mode[t] = "peer" -> "loadR"
      [] OTHER -> "user"

\* disconnect() throws when a compare-exchange fails; the others go on.
AfterLost(t, label) == IF mode[t] \in {"disconnect", "abort"} THEN "user" ELSE label

LoadReader(t) ==
    /\ At(t, "loadR")
    /\ seen' = [seen EXCEPT ![t] = m_reader]
    /\ pc' = [pc EXCEPT ![t] = "casR"]
    /\ UNCHANGED <<m_state, sources, writing, calling, cur, mode, net, answers>>

\* The read source is never suspended: resume does nothing.
TakeReader(t) ==
    /\ At(t, "casR")
    /\ IF m_reader = seen[t]
       THEN /\ m_reader' = NoContext
            /\ rd' = [n \in Connections |-> IF n = seen[t] THEN Cancelled(rd[n]) ELSE rd[n]]
            /\ Goto(t, AfterReader(t))
       ELSE Goto(t, AfterLost(t, AfterReader(t))) /\ UNCHANGED <<m_reader, rd>>
    /\ UNCHANGED <<m_state, m_writer, wr, closed, writing, calling, net, answers>>

LoadWriter(t) ==
    /\ At(t, "loadW")
    /\ seen' = [seen EXCEPT ![t] = m_writer]
    /\ pc' = [pc EXCEPT ![t] = "casW"]
    /\ UNCHANGED <<m_state, sources, writing, calling, cur, mode, net, answers>>

\* connect() closes the handle itself when it found no writer.
TakeWriter(t) ==
    /\ At(t, "casW")
    /\ IF m_writer = seen[t]
       THEN /\ m_writer' = NoContext
            /\ wr' = [n \in Connections |-> IF n = seen[t] THEN [wr[n] EXCEPT !.resumed = TRUE]
                                            ELSE wr[n]]
            /\ closed' = [n \in Connections |->
                              IF seen[t] = NoContext /\ mode[t] = "connect" /\ n = cur[t]
                              THEN closed[n] + 1 ELSE closed[n]]
            /\ Goto(t, IF seen[t] = NoContext THEN AfterWriter(t) ELSE "cancelW")
       ELSE Goto(t, AfterLost(t, AfterWriter(t))) /\ UNCHANGED <<m_writer, wr, closed>>
    /\ UNCHANGED <<m_state, m_reader, rd, writing, calling, net, answers>>

CancelAs(t, closings) ==
    /\ At(t, "cancelW")
    /\ wr' = [wr EXCEPT ![seen[t]] = Cancelled(@)]
    /\ closed' = [closed EXCEPT ![seen[t]] = @ + closings]
    /\ Goto(t, AfterWriter(t))
    /\ UNCHANGED <<m_state, m_writer, m_reader, rd, writing, calling, net, answers>>

CloseWriter(t) == CancelAs(t, 1)

CancelWriter(t) == CancelAs(t, 0)
-----------------------------------------------------------------------------
(* connect *)

Connect(t) ==
    /\ t \in Managers
    /\ Caller(t)
    /\ m_state = "disconnected"
    /\ connects < MaxConnects
    /\ connects' = connects + 1
    /\ Enter(t, "create", connects + 1, "connect")
    /\ UNCHANGED <<m_state, sources, writing, owned, attempt, returned, aborts, net, answers>>

\* The socket and create_write_source, which starts the source.
CreateWriter(t) ==
    /\ At(t, "create")
    /\ m_writer' = cur[t]
    /\ wr' = [wr EXCEPT ![cur[t]] = [source |-> "live", resumed |-> TRUE]]
    /\ Goto(t, "connecting")
    /\ UNCHANGED <<m_state, m_reader, rd, closed, writing, calling, net, answers>>

SetConnecting(t) ==
    /\ At(t, "connecting")
    /\ m_state' = "connecting"
    /\ attempt' = cur[t]
    /\ Goto(t, "syscall")
    /\ UNCHANGED <<sources, writing, owned, connects, returned, aborts, net, answers>>

Initiated(t) ==
    /\ At(t, "syscall")
    /\ net' = [net EXCEPT ![cur[t]] = "pending"]
    /\ returned' = returned \cup {cur[t]}
    /\ Goto(t, "user")
    /\ UNCHANGED <<m_state, sources, writing, owned, connects, attempt, aborts, answers>>

\* socket, the executor's lock or ::connect fail.
ConnectFails(t) ==
    /\ pc[t] \in {"create", "syscall"}
    /\ Goto(t, "loadW")
    /\ UNCHANGED <<m_state, sources, writing, calling, net, answers>>

Undo(t) ==
    /\ At(t, "undone")
    /\ m_state' = "disconnected"
    /\ Goto(t, "user")
    /\ UNCHANGED <<sources, writing, calling, net, answers>>

\* Instead of connecting, a new stream is given the handle a server accepted;
\* nobody else can call it yet, and its read source starts last.
SetHandle(t) ==
    /\ Caller(t)
    /\ connects = 0
    /\ m_state' = "connected"
    /\ connects' = 1
    /\ m_writer' = 1
    /\ m_reader' = 1
    /\ wr' = [wr EXCEPT ![1] = [source |-> "live", resumed |-> FALSE]]
    /\ rd' = [rd EXCEPT ![1] = [source |-> "live", resumed |-> TRUE]]
    /\ net' = [net EXCEPT ![1] = "open"]
    /\ UNCHANGED <<closed, writing, owned, attempt, returned, aborts, place, answers>>
-----------------------------------------------------------------------------
(* disconnect and shutdown *)

DisconnectTo(t, connecting) ==
    /\ t \in Managers
    /\ Caller(t)
    /\ m_state \in {"connected", "connecting"}
    /\ m_state' = IF m_state = "connected" THEN "disconnecting" ELSE connecting
    /\ aborts' = IF m_state = "connecting" THEN aborts \cup {attempt} ELSE aborts
    /\ Enter(t, "loadR", cur[t], IF m_state = "connected" THEN "disconnect" ELSE "abort")
    /\ UNCHANGED <<sources, writing, owned, connects, attempt, returned, net, answers>>

DisconnectAtOnce(t) == DisconnectTo(t, "disconnected")

\* While connecting the state is left to the handlers.
Disconnect(t) == DisconnectTo(t, "connecting")

Disconnected(t) ==
    /\ At(t, "disconnected")
    /\ m_state' = IF m_state = "disconnecting" THEN "disconnected" ELSE m_state
    /\ Goto(t, "user")
    /\ UNCHANGED <<sources, writing, calling, net, answers>>

\* The user's object is destroyed while nobody calls it, and no callback holds it.
Handlers == {"suspend", "dup", "connect", "write", "suspendW", "unbusy", "written",
             "report", "failed", "nullW", "casState", "nullR", "idle"}

Shutdown(t) ==
    /\ t \in Managers
    /\ Caller(t)
    /\ \A u \in Users : pc[u] = "user"
    /\ pc[Queue] \in Handlers \/ mode[Queue] \in {"peer", "failed"} \/ t = Queue
    /\ owned' = FALSE
    /\ Enter(t, "loadR", NoContext, "shutdown")
    /\ UNCHANGED <<m_state, sources, writing, connects, attempt, returned, aborts, net, answers>>
-----------------------------------------------------------------------------
(* write *)

Write(t) ==
    /\ Caller(t)
    /\ m_state = "connected"
    /\ writes < MaxWrites
    /\ writes' = writes + 1
    /\ Enter(t, "busy", writes + 1, "write")
    /\ UNCHANGED <<m_state, sources, m_wr_busy, m_wr_data, m_wr_pos,
                   calling, net, answers>>

WriteAlways(t) ==
    /\ At(t, "busy")
    /\ m_wr_busy' = TRUE
    /\ Goto(t, "set")
    /\ UNCHANGED <<m_state, sources, m_wr_data, m_wr_pos, writes, calling,
                   net, answers>>

\* A write that is running refuses another one.
WriteUnlessBusy(t) ==
    /\ At(t, "busy")
    /\ m_wr_busy' = TRUE
    /\ Goto(t, IF m_wr_busy THEN "user" ELSE "set")
    /\ UNCHANGED <<m_state, sources, m_wr_data, m_wr_pos, writes, calling,
                   net, answers>>

WriteSet(t) ==
    /\ At(t, "set")
    /\ m_wr_data' = cur[t]
    /\ m_wr_pos' = 0
    /\ Goto(t, "resume")
    /\ UNCHANGED <<m_state, sources, m_wr_busy, writes, calling, net, answers>>

\* The writer is followed without a look at it: null ends the program.
WriteResume(t) ==
    /\ At(t, "resume")
    /\ wr' = [n \in Connections |-> IF n = m_writer THEN [wr[n] EXCEPT !.resumed = TRUE]
                                    ELSE wr[n]]
    /\ Goto(t, IF m_writer = NoContext THEN "crashed" ELSE "user")
    /\ UNCHANGED <<m_state, m_writer, m_reader, rd, closed, writing, calling, net, answers>>
-----------------------------------------------------------------------------
(* The event handlers, on the queue. *)

Ready(s) == pc[Queue] = "idle" /\ s.source = "live" /\ s.resumed

OnWrEvent(n) ==
    /\ Ready(wr[n])
    /\ net[n] \in {"open", "refused", "hangup"}
    /\ m_state \in {"connecting", "connected"}
    /\ Enter(Queue, IF m_state = "connecting" THEN "suspend" ELSE "write", n, "none")
    /\ UNCHANGED <<m_state, sources, writing, calling, net, answers>>

SuspendThen(label, to) ==
    /\ At(Queue, label)
    /\ wr' = [wr EXCEPT ![cur[Queue]].resumed = FALSE]
    /\ pc' = [pc EXCEPT ![Queue] = to]
    /\ mode' = [mode EXCEPT ![Queue] = IF to = "loadW" THEN "failed" ELSE @]
    /\ UNCHANGED <<m_state, m_writer, m_reader, rd, closed, writing, calling, cur, seen,
                   net, answers>>

\* process_connecting_event: the size libdispatch reports tells how it went.
ConnectEvent == SuspendThen("suspend", IF net[cur[Queue]] = "refused" THEN "loadW" ELSE "dup")

DupFails ==
    /\ At(Queue, "dup")
    /\ Enter(Queue, "loadW", cur[Queue], "failed")
    /\ UNCHANGED <<m_state, sources, writing, calling, net, answers>>

CreateReader ==
    /\ At(Queue, "dup")
    /\ m_reader' = cur[Queue]
    /\ rd' = [rd EXCEPT ![cur[Queue]] = [source |-> "live", resumed |-> TRUE]]
    /\ Goto(Queue, "connect")
    /\ UNCHANGED <<m_state, m_writer, wr, closed, writing, calling, net, answers>>

ReportAs(label, state, n, event) ==
    /\ At(Queue, label)
    /\ m_state' = state
    /\ Report(n, event)
    /\ Goto(Queue, Callback)
    /\ UNCHANGED <<sources, writing, calling, net>>

SetConnected == ReportAs("connect", "connected", cur[Queue], "connect")

Failed == ReportAs("failed", "disconnected", cur[Queue], "failure")

WriteTo(position) ==
    /\ m_wr_pos' = position
    /\ Goto(Queue, IF m_wr_pos' >= WriteSize THEN "suspendW" ELSE "idle")
    /\ UNCHANGED <<m_state, sources, m_wr_busy, m_wr_data, writes, calling, net, answers>>

Net(status) == At(Queue, "write") /\ net[cur[Queue]] = status

Written(least, most) == Net("open") /\ \E k \in least..most : WriteTo(m_wr_pos + k)

\* ::write fails: -1 is added to an unsigned position.
WriteFails ==
    Net("hangup") /\ WriteTo(IF m_wr_pos = 0 THEN WriteSize ELSE m_wr_pos - 1)

\* process_write_event: ::write takes some of the rest, or fails.  With nothing
\* left (a source resumed to be cancelled) it takes nothing.
WriteEvent ==
    \/ m_wr_pos < WriteSize /\ Written(1, WriteSize - m_wr_pos)
    \/ m_wr_pos = WriteSize /\ Written(0, 0)
    \/ WriteFails

SuspendWriter == SuspendThen("suspendW", "unbusy")

Unbusy ==
    /\ At(Queue, "unbusy")
    /\ m_wr_busy' = FALSE
    /\ Goto(Queue, "written")
    /\ UNCHANGED <<m_state, sources, m_wr_data, m_wr_pos, writes, calling,
                   net, answers>>

\* on_write is given what m_wr_data and m_wr_size are by now.
OnWrite ==
    /\ At(Queue, "written")
    /\ Goto(Queue, Callback)
    /\ UNCHANGED <<m_state, sources, writing, calling, net, answers>>

\* The peer closed the connection: process_disconnect_event.
OnRdEvent(n) ==
    /\ Ready(rd[n])
    /\ net[n] = "hangup"
    /\ m_state = "connected"
    /\ m_state' = "disconnected"
    /\ Enter(Queue, "loadW", n, "peer")
    /\ UNCHANGED <<sources, writing, calling, net, answers>>

PeerReport ==
    /\ At(Queue, "report")
    /\ Goto(Queue, Callback)
    /\ UNCHANGED <<m_state, sources, writing, calling, net, answers>>
-----------------------------------------------------------------------------
(* The cancel handlers, on the queue. *)

Delivered(s) == pc[Queue] = "idle" /\ s.source = "cancelled" /\ s.resumed

OnWrCancel(n) ==
    /\ Delivered(wr[n])
    /\ wr' = [wr EXCEPT ![n].source = "deleted"]
    /\ closed' = [closed EXCEPT ![n] = @ + 1]
    /\ Enter(Queue, "nullW", n, "none")
    /\ UNCHANGED <<m_state, m_writer, m_reader, rd, writing, calling, net, answers>>

ClearWriter ==
    /\ At(Queue, "nullW")
    /\ m_writer' = NoContext
    /\ Goto(Queue, "casState")
    /\ UNCHANGED <<m_state, m_reader, wr, rd, closed, writing, calling, net, answers>>

CancelledIn(states) ==
    /\ At(Queue, "casState")
    /\ IF m_state \in states
       THEN m_state' = "disconnected" /\ Report(attempt, "aborted") /\ Goto(Queue, Callback)
       ELSE Goto(Queue, "idle") /\ UNCHANGED <<m_state, answers>>
    /\ UNCHANGED <<sources, writing, calling, net>>

CancelledAnyway == CancelledIn({"connecting", "connected", "disconnected"})

\* Whichever connection is being connected now is reported as aborted.
CancelledConnect == CancelledIn({"connecting"})

OnRdCancel(n) ==
    /\ Delivered(rd[n])
    /\ rd' = [rd EXCEPT ![n].source = "deleted"]
    /\ Enter(Queue, "nullR", n, "none")
    /\ UNCHANGED <<m_state, m_writer, m_reader, wr, closed, writing, calling, net, answers>>

ClearReader ==
    /\ At(Queue, "nullR")
    /\ m_reader' = NoContext
    /\ Goto(Queue, "idle")
    /\ UNCHANGED <<m_state, m_writer, wr, rd, closed, writing, calling, net, answers>>
-----------------------------------------------------------------------------
\* on_read, or a task of the runner, and the end of any user code on the queue.
UserCode ==
    /\ At(Queue, "idle")
    /\ owned
    /\ Goto(Queue, "user")
    /\ UNCHANGED <<m_state, sources, writing, calling, net, answers>>

UserCodeEnds ==
    /\ At(Queue, "user")
    /\ Goto(Queue, "idle")
    /\ UNCHANGED <<m_state, sources, writing, calling, net, answers>>

\* The peer accepts or refuses, and may close an open connection; nobody learns
\* of it once the handles are closed.
Peer(n, from, to) ==
    /\ net[n] = from
    /\ \E s \in {wr[n].source, rd[n].source} : s \in {"live", "cancelled"}
    /\ net' = [net EXCEPT ![n] = to]
    /\ UNCHANGED <<m_state, sources, writing, calling, place, answers>>

Inside(t) ==
    \/ LoadReader(t) \/ TakeReader(t)
    \/ LoadWriter(t) \/ TakeWriter(t) \/ CancelWriter(t)
    \/ CreateWriter(t) \/ SetConnecting(t) \/ Initiated(t) \/ ConnectFails(t) \/ Undo(t)
    \/ Disconnected(t)
    \/ WriteUnlessBusy(t) \/ WriteSet(t) \/ WriteResume(t)

Handler ==
    \/ \E n \in Connections :
          OnWrEvent(n) \/ OnRdEvent(n) \/ OnWrCancel(n) \/ OnRdCancel(n)
    \/ ConnectEvent \/ DupFails \/ CreateReader \/ SetConnected \/ Failed
    \/ WriteEvent \/ SuspendWriter \/ Unbusy \/ OnWrite
    \/ PeerReport
    \/ ClearWriter \/ CancelledConnect \/ ClearReader
    \/ UserCodeEnds

Answer(n) == Peer(n, "pending", "open") \/ Peer(n, "pending", "refused")

Crashed == \E t \in Threads : pc[t] = "crashed"

Next ==
    \/ /\ ~Crashed
       /\ \/ \E t \in Threads :
                 \/ Connect(t) \/ SetHandle(t) \/ Disconnect(t) \/ Write(t) \/ Shutdown(t)
                 \/ Inside(t)
          \/ Handler
          \/ UserCode
          \/ \E n \in Connections : Answer(n) \/ Peer(n, "open", "hangup")
    \/ (Crashed \/ ~owned) /\ UNCHANGED vars

Spec == Init /\ [][Next]_vars

\* Threads are scheduled, user code on the queue returns, libdispatch serves
\* every source and the network answers every connect, if only by a timeout.
Fairness ==
    /\ \A t \in Threads : WF_vars(Inside(t))
    /\ WF_vars(Handler)
    /\ SF_vars(UserCodeEnds)
    /\ \A n \in Connections :
          /\ SF_vars(OnWrEvent(n))
          /\ SF_vars(OnWrCancel(n))
          /\ WF_vars(Answer(n))
-----------------------------------------------------------------------------
(***************************************************************************)
(* No handler uses a socket that is closed or a context that is deleted,   *)
(* although disconnect() and the destructor cancel the source while the    *)
(* handler executes on another thread (cancel_write_source leaves closing  *)
(* to on_wr_cancel).                                                       *)
(***************************************************************************)
HandleInUse ==
    pc[Queue] \in {"suspend", "dup", "connect", "write", "suspendW"} =>
        /\ wr[cur[Queue]].source \in {"live", "cancelled"}
        /\ closed[cur[Queue]] = 0

(***************************************************************************)
(* A connect is reported once: as connected, failed or aborted, whatever   *)
(* disconnect() does meanwhile (process_connecting_event and on_wr_cancel  *)
(* decide by m_state which of them reports).                               *)
(***************************************************************************)
AnsweredOnce == \A n \in Connections : \A e, f \in answers[n] : e = f

(***************************************************************************)
(* A connect that was initiated is reported sooner or later, unless the    *)
(* stream is destroyed (stream.h: "the user code must wait for the event   *)
(* reported to the event handler").                                        *)
(***************************************************************************)
ConnectAnswered ==
    \A n \in Connections :
        n \in returned ~> (answers[n] # {} \/ ~owned \/ Crashed)

(***************************************************************************)
(* The data of a write is not replaced while the handler transmits it      *)
(* (m_wr_busy), unless a disconnect() overtook the connect: its resume     *)
(* starts a write source that has nothing to write.                        *)
(***************************************************************************)
WritesExclusive ==
    [][aborts = {} /\ pc[Queue] \in {"write", "suspendW"} => m_wr_data' = m_wr_data]_vars

(***************************************************************************)
(* A connect is reported as aborted only if disconnect() was called while  *)
(* it was in progress (comment at on_wr_cancel), so that a stream that was *)
(* disconnected can be connected again (stream.h, disconnect).             *)
(***************************************************************************)
AbortedByDisconnect == \A n \in Connections : "aborted" \in answers[n] => n \in aborts
=============================================================================
