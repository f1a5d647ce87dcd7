--------------------------- MODULE GcdSources_proofs ---------------------------
(***************************************************************************)
(* What holds of the event sources on libdispatch: of GcdServer for every  *)
(* set of callers and clients, of GcdStream for every set of threads and   *)
(* every number of connections and writes.                                 *)
(***************************************************************************)
EXTENDS GcdServer, GcdStream, TLAPS

ServerSpec == ServerInit /\ [][ServerNext]_serverVars

CallerSteps == {"idle", "start_flag", "start_call", "started", "stop_flag", "stop_call",
                "stopped", "destroy_flag", "destroy_call", "cancel", "gone"}

ServerStates == {"stopped", "starting", "accepting", "stopping"}

\* m_state lets one thread at a time past the exchange.
OneCaller == \A t, u \in Callers : svAt[t] # "idle" /\ svAt[u] # "idle" => t = u

\* The flag and the suspend count are the same fact, told twice.
Enabled == svActive /\ svSuspended = 0
Disabled == ~svActive /\ svSuspended = 1

\* Where the one caller is says how far the two have followed m_state.
StepTellsSource ==
    \A t \in Callers :
        /\ svAt[t] \in {"start_flag", "start_call", "started"} => svOwned /\ svState = "starting"
        /\ svAt[t] \in {"stop_flag", "stop_call", "stopped"} => svOwned /\ svState = "stopping"
        /\ svAt[t] \in {"destroy_flag", "destroy_call", "cancel", "gone"} => ~svOwned
        /\ svAt[t] \in {"start_flag", "stopped"} => Disabled
        /\ svAt[t] \in {"stop_flag", "started"} => Enabled
        /\ svAt[t] \in {"start_call", "destroy_call"} => svActive /\ svSuspended = 1
        /\ svAt[t] = "stop_call" => ~svActive /\ svSuspended = 0
        /\ svAt[t] = "destroy_flag" => Enabled \/ Disabled

\* Without a caller on its way the state is a settled one.
StateTellsSource ==
    svOwned =>
        /\ svState = "accepting" => Enabled
        /\ svState = "stopped" => Disabled
        /\ (\A t \in Callers : svAt[t] = "idle") => svState \in {"accepting", "stopped"}

\* No call begins before there is a source, and a source never goes back to none.
CallsFollowListen == svSource = "none" => \A t \in Callers : svAt[t] = "idle"

ServerInv ==
    /\ svAt \in [Callers -> CallerSteps]
    /\ svState \in ServerStates
    /\ OneCaller
    /\ StepTellsSource
    /\ StateTellsSource
    /\ CallsFollowListen
-----------------------------------------------------------------------------
LEMMA ServerInitInv == ServerInit => ServerInv
  BY DEF ServerInit, ServerInv, OneCaller, StepTellsSource, StateTellsSource, CallsFollowListen,
         Enabled, Disabled, CallerSteps, ServerStates

USE DEF ServerInv, OneCaller, StepTellsSource, StateTellsSource, CallsFollowListen,
        Enabled, Disabled, CallerSteps, ServerStates

\* The steps of the calls, one by one.
LEMMA CallsInv == ServerInv /\ (\E t \in Callers : InServer(t)) => ServerInv'
<1> SUFFICES ASSUME ServerInv, NEW t \in Callers, InServer(t) PROVE ServerInv'
    OBVIOUS
<1>1. CASE Accepting(t, "start_flag", "start_call", "started", TRUE)
    BY <1>1 DEF Accepting, CallerMoves
<1>2. CASE SourceCall(t, "start_call", "started", -1)
    BY <1>2 DEF SourceCall, CallerMoves
<1>3. CASE Settle(t, "started", "starting", "accepting")
    BY <1>3 DEF Settle, CallerMoves
<1>4. CASE Accepting(t, "stop_flag", "stop_call", "stopped", FALSE)
    BY <1>4 DEF Accepting, CallerMoves
<1>5. CASE SourceCall(t, "stop_call", "stopped", 1)
    BY <1>5 DEF SourceCall, CallerMoves
<1>6. CASE Settle(t, "stopped", "stopping", "stopped")
    BY <1>6 DEF Settle, CallerMoves
<1>7. CASE Accepting(t, "destroy_flag", "destroy_call", "cancel", TRUE)
    BY <1>7 DEF Accepting, CallerMoves
<1>8. CASE SourceCall(t, "destroy_call", "cancel", -1)
    BY <1>8 DEF SourceCall, CallerMoves
<1>9. CASE CancelListener(t)
    BY <1>9 DEF CancelListener, CallerMoves
<1> QED
    BY <1>1, <1>2, <1>3, <1>4, <1>5, <1>6, <1>7, <1>8, <1>9 DEF InServer

LEMMA ServerStepInv == ServerInv /\ [ServerNext]_serverVars => ServerInv'
<1> SUFFICES ASSUME ServerInv, [ServerNext]_serverVars PROVE ServerInv'
    OBVIOUS
<1>1. CASE Listen
    BY <1>1 DEF Listen
<1>2. ASSUME NEW t \in Callers, StartServer(t) PROVE ServerInv'
    BY <1>2 DEF StartServer, Exchange, CallerMoves
<1>3. ASSUME NEW t \in Callers, StopServer(t) PROVE ServerInv'
    BY <1>3 DEF StopServer, Exchange, CallerMoves
<1>4. ASSUME NEW t \in Callers, DestroyServer(t) PROVE ServerInv'
    BY <1>4 DEF DestroyServer, Destroy
<1>5. ASSUME NEW t \in Callers, InServer(t) PROVE ServerInv'
    BY <1>5, CallsInv
<1>6. CASE UNCHANGED svCalls /\ (svSource' = "none" <=> svSource = "none")
    BY <1>6 DEF svCalls
<1>7. ASSUME NEW k \in Clients, ClientConnects(k) PROVE ServerInv'
    BY <1>6, <1>7 DEF ClientConnects
<1>8. CASE OnServer
    BY <1>6, <1>8 DEF OnServer, OnAcceptEvent, Accept, AcceptFails, ProcessAccept, ProcessAs,
                      OnAcceptEnds, OnServerCancel
<1>9. CASE UNCHANGED serverVars
    BY <1>6, <1>9 DEF serverVars
<1> QED
    BY <1>1, <1>2, <1>3, <1>4, <1>5, <1>6, <1>7, <1>8, <1>9 DEF ServerNext

(***************************************************************************)
(* Whatever the number of threads that start, stop and destroy the server, *)
(* the source is suspended exactly when the server is stopped, and no call *)
(* resumes a source that is not suspended (server::start, stop, shutdown). *)
(***************************************************************************)
THEOREM SourceFollows == ServerSpec => []SourceFollowsState
<1>1. ServerInv => SourceFollowsState
    BY DEF SourceFollowsState
<1> QED
    BY <1>1, ServerInitInv, ServerStepInv, PTL DEF ServerSpec
-----------------------------------------------------------------------------
(* The stream: what its contexts and handles owe to the calls that made them. *)

StreamSteps == {"user", "idle", "crashed", "loadR", "casR", "loadW", "casW", "cancelW", "undone",
                "create", "connecting", "syscall", "disconnected", "busy", "set", "resume",
                "suspend", "dup", "connect", "write", "suspendW", "unbusy", "written",
                "report", "failed", "nullW", "casState", "nullR"}

Modes == {"none", "connect", "disconnect", "abort", "shutdown", "write", "failed", "peer"}

\* Where connect() may be: on its way, and after it failed.
Starting == {"create", "connecting", "syscall"}
Undoing == {"loadW", "casW", "cancelW", "undone"}

\* Where the event handler of a writer uses its socket.
Handling == {"suspend", "dup", "connect", "write", "suspendW"}

InUse(n) == wr[n].source \in {"live", "cancelled"}

StreamShape ==
    /\ pc \in [Threads -> StreamSteps]
    /\ mode \in [Threads -> Modes]
    /\ DOMAIN cur = Threads
    /\ seen \in [Threads -> 0..MaxConnects]
    /\ {m_writer, m_reader} \subseteq 0..MaxConnects
    /\ wr \in [Connections -> Source]
    /\ DOMAIN net = Connections
    /\ closed \in [Connections -> Nat]
    /\ connects \in 0..MaxConnects

\* A call of connect() has a connection of its own, that is not on the network.
OwnConnection ==
    \A t \in Threads :
        /\ pc[t] \in Starting => mode[t] = "connect"
        /\ mode[t] = "connect" =>
            /\ pc[t] \in Starting \cup Undoing
            /\ cur[t] \in 1..connects
            /\ net[cur[t]] = "none"
            /\ \A s \in Threads : mode[s] = "connect" /\ cur[s] = cur[t] => s = t

\* Until the call fails nobody closed its handle, unless the context did.
OwnHandle ==
    \A t \in Threads :
        /\ pc[t] \in Starting /\ InUse(cur[t]) => closed[cur[t]] = 0
        /\ pc[t] = "create" => ~InUse(cur[t]) /\ closed[cur[t]] = 0

NotYetConnected ==
    \A n \in Connections : n > connects => ~InUse(n) /\ net[n] = "none" /\ closed[n] = 0

OpenWhileInUse == \A n \in Connections : InUse(n) /\ net[n] # "none" => closed[n] = 0

HandlerUses ==
    pc[Queue] \in Handling =>
        cur[Queue] \in Connections /\ InUse(cur[Queue]) /\ net[cur[Queue]] # "none"

CancelsOne == \A t \in Threads : pc[t] = "cancelW" => seen[t] # NoContext

StreamInv ==
    /\ StreamShape
    /\ OwnConnection
    /\ OwnHandle
    /\ NotYetConnected
    /\ OpenWhileInUse
    /\ HandlerUses
    /\ CancelsOne

\* A step of thread t that begins no call of connect() and enters no handler,
\* and keeps every context in use, its handle and its socket as they are.
OnlyThread(t) ==
    \A s \in Threads \ {t} :
        pc'[s] = pc[s] /\ mode'[s] = mode[s] /\ cur'[s] = cur[s] /\ seen'[s] = seen[s]

Advances(t) ==
    /\ OnlyThread(t)
    /\ pc'[t] \in Starting => pc[t] \in Starting /\ mode'[t] = "connect"
    /\ pc'[t] = "create" => pc[t] = "create"
    /\ mode'[t] = "connect" =>
        mode[t] = "connect" /\ cur'[t] = cur[t] /\ pc'[t] \in Starting \cup Undoing
    /\ pc'[t] \in Handling => pc[t] \in Handling /\ cur'[t] = cur[t]
    /\ pc'[t] = "cancelW" => seen'[t] # NoContext

KeepsContexts ==
    /\ \A n \in Connections : InUse(n)' <=> InUse(n)
    /\ UNCHANGED <<closed, connects>>

KeepsSockets == \A n \in Connections : net'[n] = "none" <=> net[n] = "none"

LEMMA Advance ==
    ASSUME StreamInv, StreamShape', NEW t \in Threads, Advances(t), KeepsContexts, KeepsSockets,
           Queue \in Threads
    PROVE  StreamInv'
<1> USE DEF StreamInv, Advances, OnlyThread, KeepsContexts, KeepsSockets
<1> DEFINE Same(s) == mode'[s] = "connect" => mode[s] = "connect" /\ cur'[s] = cur[s]
<1>1. \A s \in Threads : Same(s)
    OBVIOUS
<1>2. 1..connects \subseteq Connections
    BY StreamAssumption DEF StreamShape, Connections
<1>3. OwnConnection'
    BY <1>1, <1>2 DEF OwnConnection
<1>4. OwnHandle'
  <2> SUFFICES ASSUME NEW s \in Threads, pc'[s] \in Starting
               PROVE  /\ InUse(cur[s])' => closed'[cur'[s]] = 0
                      /\ pc'[s] = "create" => ~InUse(cur[s])' /\ closed'[cur'[s]] = 0
      BY DEF OwnHandle, Starting
  <2>1. pc[s] \in Starting /\ cur'[s] = cur[s] /\ cur[s] \in Connections
      BY <1>2 DEF OwnConnection
  <2>2. pc'[s] = "create" => pc[s] = "create"
      OBVIOUS
  <2>3. InUse(cur[s])' <=> InUse(cur[s])
      BY <2>1 DEF InUse
  <2> QED
      BY <2>1, <2>2, <2>3 DEF OwnHandle
<1>5. NotYetConnected' /\ OpenWhileInUse'
    BY DEF NotYetConnected, OpenWhileInUse
<1>6. HandlerUses'
    BY DEF HandlerUses, InUse
<1>7. CancelsOne'
    BY DEF CancelsOne
<1> QED
    BY <1>3, <1>4, <1>5, <1>6, <1>7

\* The steps that change no context in use: all but eight.
SockStays == UNCHANGED <<wr, closed, connects, net>>

LEMMA QueueIsThread == Queue \in Threads /\ Users \subseteq Threads
  BY DEF Threads

LEMMA Moves ==
    ASSUME StreamInv, SockStays, {m_writer, m_reader}' \subseteq 0..MaxConnects,
           NEW t \in Threads,
           NEW label \in StreamSteps, Goto(t, label), label # "cancelW",
           label \in Starting => pc[t] \in Starting /\ label # "create",
           mode[t] = "connect" => label \in Starting \cup Undoing \cup {"user"},
           label \in Handling => pc[t] \in Handling
    PROVE  StreamInv'
<1>1. StreamShape'
    BY StreamAssumption DEF StreamInv, StreamShape, SockStays, Goto, Modes, NoContext
<1>2. Advances(t)
    BY DEF StreamInv, StreamShape, OwnConnection, Advances, OnlyThread, Goto, Starting, Undoing,
           Handling
<1>3. KeepsContexts /\ KeepsSockets
    BY DEF KeepsContexts, KeepsSockets, SockStays, InUse
<1> QED
    BY <1>1, <1>2, <1>3, Advance, QueueIsThread

LEMMA Enters ==
    ASSUME StreamInv, SockStays, UNCHANGED <<m_writer, m_reader>>, NEW t \in Threads,
           NEW label \in StreamSteps \ (Starting \cup Handling \cup {"cancelW"}),
           NEW n, NEW why \in Modes \ {"connect"}, Enter(t, label, n, why)
    PROVE  StreamInv'
<1>1. StreamShape'
    BY DEF StreamInv, StreamShape, SockStays, Enter
<1>2. Advances(t)
    BY DEF StreamInv, StreamShape, Advances, OnlyThread, Enter, Starting
<1>3. KeepsContexts /\ KeepsSockets
    BY DEF KeepsContexts, KeepsSockets, SockStays, InUse
<1> QED
    BY <1>1, <1>2, <1>3, Advance, QueueIsThread

LEMMA Loads ==
    ASSUME StreamInv, NEW t \in Threads, LoadReader(t) \/ LoadWriter(t)
    PROVE  StreamInv'
<1>1. StreamShape'
    BY DEF StreamInv, StreamShape, LoadReader, LoadWriter, sources, calling, StreamSteps
<1>2. Advances(t)
    BY DEF StreamInv, StreamShape, OwnConnection, Advances, OnlyThread, LoadReader, LoadWriter,
           sources, At, Starting, Undoing, Handling
<1>3. KeepsContexts /\ KeepsSockets
    BY DEF KeepsContexts, KeepsSockets, InUse, LoadReader, LoadWriter, sources, calling
<1> QED
    BY <1>1, <1>2, <1>3, Advance, QueueIsThread

\* The calls, the steps that leave every context as it is.
LEMMA CallSteps ==
    ASSUME StreamInv, NEW t \in Threads,
           \/ TakeReader(t) \/ SetConnecting(t) \/ ConnectFails(t) \/ Undo(t) \/ Disconnected(t)
           \/ WriteUnlessBusy(t) \/ WriteSet(t)
    PROVE  StreamInv'
<1> USE DEF StreamInv, StreamShape, StreamSteps, Starting, Undoing, Handling
<1> DEFINE Leaves == mode[t] # "connect" \/ pc[t] \in Starting \cup Undoing
<1>1. Leaves
    BY DEF OwnConnection
<1>2. NoContext \in 0..MaxConnects
    BY StreamAssumption DEF NoContext
<1>3. CASE TakeReader(t)
  <2>1. AfterReader(t) \in {"report", "loadW"}
      BY DEF AfterReader
  <2>2. PICK label \in {"report", "loadW", "user"} : Goto(t, label)
      BY <1>3, <2>1 DEF TakeReader, AfterLost
  <2>3. SockStays /\ {m_writer, m_reader}' \subseteq 0..MaxConnects
      BY <1>2, <1>3 DEF TakeReader, SockStays, calling
  <2>4. mode[t] # "connect"
      BY <1>1, <1>3 DEF TakeReader, At
  <2> QED
      BY <2>2, <2>3, <2>4, Moves
<1>4. CASE SetConnecting(t)
    BY <1>4, Moves DEF SetConnecting, At, SockStays, sources
<1>5. CASE ConnectFails(t)
    BY <1>5, Moves DEF ConnectFails, SockStays, sources, calling
<1>6. CASE Undo(t)
    BY <1>6, Moves DEF Undo, SockStays, sources, calling
<1>7. CASE Disconnected(t)
    BY <1>7, Moves DEF Disconnected, SockStays, sources, calling
<1>8. CASE WriteUnlessBusy(t)
    BY <1>1, <1>8, Moves DEF WriteUnlessBusy, At, SockStays, sources, calling
<1>9. CASE WriteSet(t)
    BY <1>1, <1>9, Moves DEF WriteSet, At, SockStays, sources, calling
<1> QED
    BY <1>3, <1>4, <1>5, <1>6, <1>7, <1>8, <1>9

\* The entries of the user, and of the handlers that use no handle.
LEMMA EntrySteps ==
    ASSUME StreamInv
    PROVE  /\ \A t \in Threads : Disconnect(t) \/ Write(t) \/ Shutdown(t) => StreamInv'
           /\ DupFails => StreamInv'
           /\ \A n \in Connections : OnRdEvent(n) \/ OnRdCancel(n) => StreamInv'
<1> USE DEF StreamSteps, Modes, Starting, Undoing, Handling, SockStays, sources, calling
<1>1. ASSUME NEW t \in Threads, Disconnect(t) PROVE StreamInv'
  <2>1. \E why \in {"disconnect", "abort"} : Enter(t, "loadR", cur[t], why)
      BY <1>1 DEF Disconnect, DisconnectTo
  <2> QED
      BY <1>1, <2>1, Enters DEF Disconnect, DisconnectTo
<1>2. ASSUME NEW t \in Threads, Write(t) PROVE StreamInv'
    BY <1>2, Enters DEF Write
<1>3. ASSUME NEW t \in Threads, Shutdown(t) PROVE StreamInv'
    BY <1>3, Enters DEF Shutdown
<1>4. ASSUME DupFails PROVE StreamInv'
    BY <1>4, Enters, QueueIsThread DEF DupFails
<1>5. ASSUME NEW n \in Connections, OnRdEvent(n) PROVE StreamInv'
    BY <1>5, Enters, QueueIsThread DEF OnRdEvent
<1>6. ASSUME NEW n \in Connections, OnRdCancel(n) PROVE StreamInv'
    BY <1>6, Enters, QueueIsThread DEF OnRdCancel
<1> QED
    BY <1>1, <1>2, <1>3, <1>4, <1>5, <1>6

\* The handlers, the steps that leave every context as it is.
LEMMA HandlerSteps ==
    ASSUME StreamInv,
           \/ CreateReader \/ SetConnected \/ Failed \/ WriteEvent \/ Unbusy \/ OnWrite
           \/ PeerReport \/ ClearWriter \/ CancelledConnect \/ ClearReader
           \/ UserCode \/ UserCodeEnds
    PROVE  StreamInv'
<1> USE DEF StreamSteps, Starting, Undoing, Handling
<1>1. mode[Queue] = "connect" => pc[Queue] \in Starting \cup Undoing
    BY QueueIsThread DEF StreamInv, OwnConnection
<1>2. NoContext \in 0..MaxConnects
    BY StreamAssumption DEF NoContext
<1>3. {m_writer, m_reader} \subseteq 0..MaxConnects
    BY DEF StreamInv, StreamShape
<1>4. Callback \in {"user", "idle"}
    BY DEF Callback
<1> USE QueueIsThread DEF SockStays, At
<1>5. CASE CreateReader
  <2>1. cur[Queue] \in 0..MaxConnects
      BY <1>5 DEF CreateReader, StreamInv, HandlerUses, Connections
  <2> QED
      BY <1>1, <1>3, <1>5, <2>1, Moves DEF CreateReader, calling
<1>6. CASE SetConnected
    BY <1>1, <1>3, <1>4, <1>6, Moves DEF SetConnected, ReportAs, sources, calling
<1>7. CASE Failed
    BY <1>1, <1>3, <1>4, <1>7, Moves DEF Failed, ReportAs, sources, calling
<1>8. CASE WriteEvent
  <2>1. PICK k : pc[Queue] = "write" /\ WriteTo(k)
      BY <1>8 DEF WriteEvent, Written, WriteFails, Net
  <2>2. \E label \in {"suspendW", "idle"} : Goto(Queue, label)
      BY <2>1 DEF WriteTo
  <2>3. mode[Queue] # "connect"
      BY <1>1, <2>1
  <2> QED
      BY <1>3, <2>1, <2>2, <2>3, Moves DEF WriteTo, sources, calling
<1>9. CASE Unbusy
    BY <1>1, <1>3, <1>9, Moves DEF Unbusy, sources, calling
<1>10. CASE OnWrite
    BY <1>1, <1>3, <1>4, <1>10, Moves DEF OnWrite, sources, calling
<1>11. CASE PeerReport
    BY <1>1, <1>3, <1>4, <1>11, Moves DEF PeerReport, sources, calling
<1>12. CASE ClearWriter
    BY <1>1, <1>2, <1>3, <1>12, Moves DEF ClearWriter, calling
<1>13. CASE CancelledConnect
  <2>1. \E label \in {"user", "idle"} : Goto(Queue, label)
      BY <1>4, <1>13 DEF CancelledConnect, CancelledIn
  <2> QED
      BY <1>1, <1>3, <1>13, <2>1, Moves DEF CancelledConnect, CancelledIn, sources, calling
<1>14. CASE ClearReader
    BY <1>1, <1>2, <1>3, <1>14, Moves DEF ClearReader, calling
<1>15. CASE UserCode
    BY <1>1, <1>3, <1>15, Moves DEF UserCode, sources, calling
<1>16. CASE UserCodeEnds
    BY <1>1, <1>3, <1>16, Moves DEF UserCodeEnds, sources, calling
<1> QED
    BY <1>5, <1>6, <1>7, <1>8, <1>9, <1>10, <1>11, <1>12, <1>13, <1>14, <1>15, <1>16

\* The steps that suspend, resume or cancel the source of a context.
LEMMA SourceSteps ==
    ASSUME StreamInv
    PROVE  /\ \A t \in Threads : CancelWriter(t) \/ WriteResume(t) => StreamInv'
           /\ ConnectEvent \/ SuspendWriter => StreamInv'
           /\ \A n \in Connections, from, to \in {"pending", "open", "refused", "hangup"} :
                  Peer(n, from, to) => StreamInv'
<1> USE StreamAssumption, QueueIsThread
<1>1. ASSUME NEW t \in Threads, CancelWriter(t) PROVE StreamInv'
  <2> USE <1>1 DEF CancelWriter, CancelAs, Goto, AfterWriter
  <2>1. \A s \in Source : Cancelled(s) \in Source
      BY DEF Source, Cancelled
  <2>2. wr' \in [Connections -> Source]
      BY <2>1 DEF StreamInv, StreamShape
  <2>3. closed' = closed
    <3>1. closed \in [Connections -> Nat] /\ closed' = [closed EXCEPT ![seen[t]] = @ + 0]
        BY DEF StreamInv, StreamShape
    <3>2. \A n \in Connections : closed'[n] = closed[n]
        BY <3>1
    <3> QED
        BY <3>1, <3>2
  <2>4. StreamShape'
      BY <2>2, <2>3 DEF StreamInv, StreamShape, StreamSteps, Modes, NoContext, calling
  <2>5. Advances(t)
      BY DEF StreamInv, StreamShape, OwnConnection, Advances, OnlyThread, At, Starting, Undoing,
             Handling
  <2>6. KeepsSockets
      BY DEF KeepsSockets
  <2>7. KeepsContexts
      BY DEF StreamInv, StreamShape, Source, KeepsContexts, InUse, Cancelled, calling
  <2> QED
      BY <2>4, <2>5, <2>6, <2>7, Advance
<1>2. ASSUME NEW t \in Threads, WriteResume(t) PROVE StreamInv'
  <2> USE <1>2 DEF WriteResume, Goto
  <2>1. wr' \in [Connections -> Source]
      BY DEF StreamInv, StreamShape, Source
  <2>2. StreamShape'
      BY <2>1 DEF StreamInv, StreamShape, StreamSteps, Modes, NoContext, calling
  <2>3. Advances(t)
      BY DEF StreamInv, StreamShape, OwnConnection, Advances, OnlyThread, At, Starting, Undoing,
             Handling
  <2>4. KeepsSockets
      BY DEF KeepsSockets
  <2>5. KeepsContexts
      BY DEF StreamInv, StreamShape, Source, KeepsContexts, InUse, calling
  <2> QED
      BY <2>2, <2>3, <2>4, <2>5, Advance
<1>3. ASSUME NEW label \in {"suspend", "suspendW"}, NEW to \in {"loadW", "dup", "unbusy"},
             SuspendThen(label, to)
      PROVE  StreamInv'
  <2> USE <1>3 DEF SuspendThen
  <2>1. StreamShape'
      BY DEF StreamInv, StreamShape, StreamSteps, Modes, Source, NoContext, calling
  <2>2. Advances(Queue)
      BY DEF StreamInv, StreamShape, OwnConnection, Advances, OnlyThread, At, Starting, Undoing,
             Handling
  <2>3. KeepsSockets
      BY DEF KeepsSockets
  <2>4. KeepsContexts
      BY DEF StreamInv, StreamShape, Source, KeepsContexts, InUse, calling
  <2> QED
      BY <2>1, <2>2, <2>3, <2>4, Advance
<1>4. ASSUME NEW n \in Connections, NEW from \in {"pending", "open", "refused", "hangup"},
             NEW to \in {"pending", "open", "refused", "hangup"}, Peer(n, from, to)
      PROVE  StreamInv'
  <2> USE <1>4 DEF Peer
  <2>1. StreamShape'
      BY DEF StreamInv, StreamShape, sources, calling, place
  <2>2. Advances(Queue)
      BY DEF StreamInv, OwnConnection, CancelsOne, Advances, OnlyThread, place, Starting, Undoing,
             Handling
  <2>3. KeepsSockets /\ KeepsContexts
      BY DEF StreamInv, StreamShape, KeepsSockets, KeepsContexts, InUse, sources, calling
  <2> QED
      BY <2>1, <2>2, <2>3, Advance
<1> QED
    BY <1>1, <1>2, <1>3, <1>4 DEF ConnectEvent, SuspendWriter

\* connect() takes the next connection, makes its context and starts it.
LEMMA ConnectSteps ==
    ASSUME StreamInv, NEW t \in Threads,
           Connect(t) \/ CreateWriter(t) \/ Initiated(t) \/ SetHandle(t)
    PROVE  StreamInv'
<1> USE StreamAssumption, QueueIsThread DEF StreamInv
<1>1. CASE Connect(t)
  <2> USE <1>1 DEF Connect, Enter, sources
  <2>1. StreamShape'
      BY DEF StreamShape, StreamSteps, Modes
  <2>2. OwnConnection'
      BY DEF StreamShape, OwnConnection, NotYetConnected, Connections, Starting
  <2>3. OwnHandle' /\ NotYetConnected'
      BY DEF StreamShape, OwnHandle, NotYetConnected, Connections, InUse
  <2>4. OpenWhileInUse' /\ HandlerUses' /\ CancelsOne'
      BY DEF StreamShape, OpenWhileInUse, HandlerUses, CancelsOne, InUse, Handling
  <2> QED
      BY <2>1, <2>2, <2>3, <2>4
<1>2. CASE CreateWriter(t)
  <2> USE <1>2 DEF CreateWriter, Goto, At, calling
  <2>1. mode[t] = "connect" /\ cur[t] \in 1..connects /\ cur[t] \in Connections
      BY DEF StreamShape, OwnConnection, Starting, Connections
  <2>2. StreamShape'
      BY <2>1 DEF StreamShape, StreamSteps, Source, Connections
  <2>3. OwnConnection'
      BY DEF StreamShape, OwnConnection, Starting, Undoing
  <2>4. OwnHandle'
      BY <2>1 DEF StreamShape, OwnConnection, OwnHandle, Starting, InUse
  <2>5. NotYetConnected' /\ OpenWhileInUse'
      BY <2>1 DEF StreamShape, OwnConnection, NotYetConnected, OpenWhileInUse, InUse
  <2>6. HandlerUses' /\ CancelsOne'
      BY <2>1 DEF StreamShape, HandlerUses, CancelsOne, Handling, InUse
  <2> QED
      BY <2>2, <2>3, <2>4, <2>5, <2>6
<1>3. CASE Initiated(t)
  <2> USE <1>3 DEF Initiated, Goto, At, sources
  <2>1. mode[t] = "connect" /\ cur[t] \in 1..connects /\ cur[t] \in Connections
      BY DEF StreamShape, OwnConnection, Starting, Connections
  <2>2. StreamShape'
      BY DEF StreamShape, StreamSteps, Modes, NoContext
  <2>3. OwnConnection'
      BY <2>1 DEF StreamShape, OwnConnection, Starting, Undoing, Connections
  <2>4. OwnHandle'
      BY <2>1 DEF StreamShape, OwnHandle, Starting, InUse
  <2>5. NotYetConnected' /\ OpenWhileInUse'
      BY <2>1 DEF StreamShape, OwnHandle, NotYetConnected, OpenWhileInUse, Starting, InUse, Connections
  <2>6. HandlerUses' /\ CancelsOne'
      BY <2>1 DEF StreamShape, HandlerUses, CancelsOne, Handling, InUse
  <2> QED
      BY <2>2, <2>3, <2>4, <2>5, <2>6
<1>4. CASE SetHandle(t)
  <2> USE <1>4 DEF SetHandle, place
  <2>1. 1 \in Connections /\ \A s \in Threads : mode[s] # "connect" /\ pc[s] \notin Starting
      BY DEF OwnConnection, Connections
  <2>2. StreamShape'
      BY <2>1 DEF StreamShape, Source
  <2>3. OwnConnection' /\ OwnHandle'
      BY <2>1 DEF OwnConnection, OwnHandle, Starting
  <2>4. NotYetConnected' /\ OpenWhileInUse'
      BY <2>1 DEF StreamShape, NotYetConnected, OpenWhileInUse, InUse, Connections
  <2>5. HandlerUses' /\ CancelsOne'
      BY <2>1 DEF StreamShape, HandlerUses, CancelsOne, Handling, InUse
  <2> QED
      BY <2>2, <2>3, <2>4, <2>5
<1> QED
    BY <1>1, <1>2, <1>3, <1>4

\* A handler takes a context that is in use, and on_wr_cancel deletes it; a
\* connect() that failed closes its handle only if another took its context.
LEMMA ContextSteps ==
    ASSUME StreamInv
    PROVE  /\ \A t \in Threads : TakeWriter(t) => StreamInv'
           /\ \A n \in Connections : OnWrEvent(n) \/ OnWrCancel(n) => StreamInv'
<1> USE StreamAssumption, QueueIsThread DEF StreamInv
<1>1. ASSUME NEW t \in Threads, TakeWriter(t) PROVE StreamInv'
  <2> USE <1>1 DEF TakeWriter, At, calling
  <2>1. PICK label \in Undoing \cup {"disconnected", "failed", "loadR", "user"} :
            /\ Goto(t, label)
            /\ mode[t] = "connect" => label \in {"cancelW", "undone"}
            /\ label = "cancelW" => seen[t] # NoContext
      BY DEF AfterWriter, AfterLost, Undoing
  <2>2. wr' \in [Connections -> Source] /\ \A n \in Connections : InUse(n)' <=> InUse(n)
    <3>1. CASE m_writer = seen[t]
      <4>1. wr' = [n \in Connections |-> IF n = seen[t] THEN [wr[n] EXCEPT !.resumed = TRUE] ELSE wr[n]]
          BY <3>1
      <4> HIDE DEF TakeWriter
      <4> QED
          BY <4>1 DEF StreamShape, Source, InUse
    <3>2. CASE wr' = wr
        BY <3>2 DEF StreamShape, InUse
    <3> QED
        BY <3>1, <3>2
  <2>3. pc'[t] = label /\ seen'[t] \in {seen[t], NoContext} /\ mode'[t] \in {mode[t], "none"}
        /\ OnlyThread(t)
      BY <2>1 DEF Goto, StreamShape, OnlyThread
  <2>4. CASE closed' = closed
    <3>1. StreamShape'
        BY <2>1, <2>2, <2>4 DEF StreamShape, StreamSteps, Modes, Undoing, NoContext, Goto
    <3>2. Advances(t)
        BY <2>1, <2>3 DEF Goto, StreamShape, Advances, Starting, Undoing, Handling
    <3>3. KeepsContexts /\ KeepsSockets
        BY <2>2, <2>4 DEF KeepsContexts, KeepsSockets
    <3> QED
        BY <3>1, <3>2, <3>3, Advance
  <2>5. CASE closed' # closed
    <3>1. mode[t] = "connect" /\ seen[t] = NoContext /\ m_writer = seen[t]
        BY <2>5 DEF StreamShape
    <3>2. /\ pc' = [pc EXCEPT ![t] = "undone"]
          /\ mode' \in [Threads -> Modes] /\ seen' \in [Threads -> 0..MaxConnects]
          /\ DOMAIN cur' = Threads
          /\ \A s \in Threads : cur'[s] = cur[s] /\ mode'[s] = mode[s]
        BY <3>1 DEF AfterWriter, Goto, StreamShape
    <3>3. cur[t] \in Connections /\ net[cur[t]] = "none" /\ cur[t] <= connects
        BY <3>1 DEF OwnConnection, Connections, StreamShape
    <3>4. closed' \in [Connections -> Nat] /\ \A n \in Connections \ {cur[t]} : closed'[n] = closed[n]
        BY DEF StreamShape
    <3>5. StreamShape'
        BY <2>2, <3>2, <3>4 DEF StreamShape, StreamSteps, NoContext
    <3>6. OwnConnection'
        BY <3>1, <3>2 DEF StreamShape, OwnConnection, Starting, Undoing
    <3>7. OwnHandle'
      <4> SUFFICES ASSUME NEW s \in Threads, pc'[s] \in Starting
                   PROVE  /\ InUse(cur[s])' => closed'[cur'[s]] = 0
                          /\ pc'[s] = "create" => ~InUse(cur[s])' /\ closed'[cur'[s]] = 0
          BY DEF OwnHandle, Starting
      <4>1. s # t /\ pc[s] = pc'[s] /\ cur'[s] = cur[s]
          BY <3>2 DEF StreamShape, Starting
      <4>2. cur[s] # cur[t] /\ cur[s] \in Connections
          BY <3>1, <4>1 DEF OwnConnection, Connections, StreamShape
      <4>3. (InUse(cur[s])' <=> InUse(cur[s])) /\ closed'[cur'[s]] = closed[cur[s]]
          BY <2>2, <3>4, <4>1, <4>2 DEF InUse
      <4> QED
          BY <4>1, <4>3 DEF OwnHandle
    <3>8. NotYetConnected'
        BY <2>2, <3>3, <3>4 DEF NotYetConnected, StreamShape, Connections
    <3>9. OpenWhileInUse'
        BY <2>2, <3>3, <3>4 DEF OpenWhileInUse
    <3>10. HandlerUses'
      <4>1. pc'[Queue] \in Handling => pc[Queue] \in Handling /\ cur'[Queue] = cur[Queue]
          BY <3>2 DEF StreamShape, Handling
      <4> HIDE DEF TakeWriter
      <4>2. UNCHANGED net
          BY <1>1 DEF TakeWriter
      <4> QED
          BY <2>2, <4>1, <4>2 DEF HandlerUses, InUse
    <3>11. CancelsOne'
        BY <2>3, <3>2 DEF CancelsOne, StreamShape, OnlyThread
    <3> QED
        BY <3>5, <3>6, <3>7, <3>8, <3>9, <3>10, <3>11
  <2> QED
      BY <2>4, <2>5
<1>2. ASSUME NEW n \in Connections, OnWrEvent(n) PROVE StreamInv'
  <2> USE <1>2 DEF OnWrEvent, Enter, Ready, sources, calling
  <2>1. StreamShape'
      BY DEF StreamShape, StreamSteps, Modes
  <2>2. OwnConnection' /\ OwnHandle'
      BY DEF StreamShape, OwnConnection, OwnHandle, Starting, InUse
  <2>3. NotYetConnected' /\ OpenWhileInUse' /\ CancelsOne'
      BY DEF StreamShape, NotYetConnected, OpenWhileInUse, CancelsOne, InUse
  <2>4. HandlerUses'
      BY DEF StreamShape, HandlerUses, Handling, InUse
  <2> QED
      BY <2>1, <2>2, <2>3, <2>4
<1>3. ASSUME NEW n \in Connections, OnWrCancel(n) PROVE StreamInv'
  <2> USE <1>3 DEF OnWrCancel, Enter, Delivered, calling
  <2>1. StreamShape'
      BY DEF StreamShape, StreamSteps, Modes, Source
  <2>2. OwnConnection' /\ OwnHandle'
      BY DEF StreamShape, OwnConnection, OwnHandle, Starting, InUse
  <2>3. NotYetConnected' /\ OpenWhileInUse' /\ CancelsOne'
      BY DEF StreamShape, NotYetConnected, OpenWhileInUse, CancelsOne, InUse
  <2>4. HandlerUses'
      BY DEF StreamShape, HandlerUses, Handling, InUse
  <2> QED
      BY <2>1, <2>2, <2>3, <2>4
<1> QED
    BY <1>1, <1>2, <1>3

LEMMA StreamStep == StreamInv /\ [Next]_vars => StreamInv'
<1> SUFFICES ASSUME StreamInv, [Next]_vars PROVE StreamInv'
    OBVIOUS
<1>1. ASSUME NEW t \in Threads,
             Connect(t) \/ SetHandle(t) \/ Disconnect(t) \/ Write(t) \/ Shutdown(t) \/ Inside(t)
      PROVE  StreamInv'
    BY <1>1, Loads, CallSteps, EntrySteps, SourceSteps, ConnectSteps, ContextSteps DEF Inside
<1>2. CASE Handler
    BY <1>2, HandlerSteps, EntrySteps, SourceSteps, ContextSteps DEF Handler
<1>3. CASE UserCode
    BY <1>3, HandlerSteps
<1>4. ASSUME NEW n \in Connections, Answer(n) \/ Peer(n, "open", "hangup") PROVE StreamInv'
    BY <1>4, SourceSteps DEF Answer
<1>5. CASE UNCHANGED vars
  <2>1. SockStays /\ UNCHANGED <<m_writer, m_reader, pc, mode, cur, seen>>
      BY <1>5 DEF vars, sources, calling, place, SockStays
  <2> QED
      BY <2>1 DEF SockStays, StreamInv, StreamShape, OwnConnection, OwnHandle, NotYetConnected,
                  OpenWhileInUse, HandlerUses, CancelsOne, InUse
<1> QED
    BY <1>1, <1>2, <1>3, <1>4, <1>5 DEF Next

LEMMA StreamInit == Init => StreamInv
<1> SUFFICES ASSUME Init PROVE StreamInv
    OBVIOUS
<1> USE StreamAssumption, QueueIsThread DEF Init
<1>1. StreamShape
    BY DEF StreamShape, StreamSteps, Modes, Source, NoSource, NoContext
<1>2. OwnConnection /\ OwnHandle /\ HandlerUses /\ CancelsOne
    BY DEF OwnConnection, OwnHandle, HandlerUses, CancelsOne, Starting, Handling
<1>3. NotYetConnected /\ OpenWhileInUse
    BY DEF NotYetConnected, OpenWhileInUse, InUse, NoSource
<1> QED
    BY <1>1, <1>2, <1>3 DEF StreamInv

(***************************************************************************)
(* Whatever the number of threads, connections and writes, no event        *)
(* handler uses a socket that is closed or a context that is deleted,      *)
(* although any thread may cancel the source under it                      *)
(* (cancel_write_source, on_wr_cancel).                                    *)
(***************************************************************************)
THEOREM HandlesStayOpen == Spec => []HandleInUse
<1>1. StreamInv => HandleInUse
    BY DEF StreamInv, HandlerUses, OpenWhileInUse, HandleInUse, Handling, InUse
<1> QED
    BY <1>1, StreamInit, StreamStep, PTL DEF Spec
-----------------------------------------------------------------------------
(* The stream: who may report a connect. *)

\* An event handler that found the stream connecting will report it.
Deciding == pc[Queue] \in {"suspend", "dup", "connect", "failed"} \/ mode[Queue] = "failed"

Answered == \E n \in Connections : answers[n] # {}

\* What is so until connect() is called again.
FirstConnect ==
    /\ attempt \in 0..connects
    /\ \A t \in Threads : pc[t] \in {"create", "connecting"} => attempt = 0
    /\ Answered \/ Deciding \/ m_state = "connecting" => attempt # 0
    /\ Answered => m_state # "connecting" /\ ~Deciding
    /\ AnsweredOnce

AnswerInv == DOMAIN answers = Connections /\ (connects <= 1 => FirstConnect)

\* A step that reports nothing and decides nothing.
Silent ==
    /\ UNCHANGED <<answers, attempt, connects>>
    /\ m_state' = "connecting" => m_state = "connecting"

LEMMA SilentStep ==
    ASSUME AnswerInv, Silent, Deciding' => Deciding,
           \A t \in Threads :
               pc'[t] \in {"create", "connecting"} => pc[t] \in {"create", "connecting"}
    PROVE  AnswerInv'
<1> USE DEF AnswerInv, Silent
<1>1. Answered' <=> Answered
    BY DEF Answered
<1>2. AnsweredOnce' <=> AnsweredOnce
    BY DEF AnsweredOnce
<1> QED
    BY <1>1, <1>2 DEF FirstConnect

LEMMA SilentMove ==
    ASSUME StreamInv, AnswerInv, Silent, NEW t \in Threads, NEW label, Goto(t, label),
           label \notin {"create", "suspend", "dup"},
           label = "connecting" => pc[t] = "create",
           label = "connect" => pc[t] = "dup",
           label = "failed" => mode[t] = "failed"
    PROVE  AnswerInv'
<1>1. Deciding' => Deciding
    BY DEF StreamInv, StreamShape, Goto, Deciding
<1>2. \A s \in Threads :
          pc'[s] \in {"create", "connecting"} => pc[s] \in {"create", "connecting"}
    BY DEF StreamInv, StreamShape, Goto
<1> QED
    BY <1>1, <1>2, SilentStep

LEMMA SilentEntry ==
    ASSUME StreamInv, AnswerInv, Silent, NEW t \in Threads, NEW n,
           NEW label \in StreamSteps \ {"create", "connecting", "suspend", "dup", "connect", "failed"},
           NEW why, Enter(t, label, n, why), why = "failed" => pc[t] = "dup"
    PROVE  AnswerInv'
<1>1. Deciding' => Deciding
    BY DEF StreamInv, StreamShape, Enter, Deciding
<1>2. \A s \in Threads :
          pc'[s] \in {"create", "connecting"} => pc[s] \in {"create", "connecting"}
    BY DEF StreamInv, StreamShape, Enter
<1> QED
    BY <1>1, <1>2, SilentStep

\* The one report: nothing was reported before, and the stream stops connecting.
LEMMA ReportsFirst ==
    ASSUME StreamInv, AnswerInv, NEW n, NEW event, Report(n, event), Goto(Queue, Callback),
           Deciding \/ m_state = "connecting", m_state' # "connecting",
           UNCHANGED <<attempt, connects>>
    PROVE  AnswerInv'
<1> USE QueueIsThread
<1>1. DOMAIN answers' = Connections
    BY DEF AnswerInv, Report
<1>2. SUFFICES ASSUME connects <= 1 PROVE FirstConnect'
    BY <1>1 DEF AnswerInv
<1>3. ~Answered /\ attempt # 0
    BY <1>2 DEF AnswerInv, FirstConnect
<1>4. \A m \in Connections : answers'[m] \subseteq {event}
    BY <1>3 DEF Answered, AnswerInv, Report
<1>5. AnsweredOnce'
    BY <1>4 DEF AnsweredOnce
<1>6. ~Deciding'
    BY DEF Deciding, Goto, Callback, StreamInv, StreamShape
<1>7. \A t \in Threads : pc'[t] \in {"create", "connecting"} => pc[t] \in {"create", "connecting"}
    BY DEF Goto, Callback, StreamInv, StreamShape
<1> QED
    BY <1>2, <1>3, <1>5, <1>6, <1>7 DEF AnswerInv, FirstConnect

\* The calls: connect() sets its attempt before anything can be reported.
LEMMA CallsAnswer ==
    ASSUME StreamInv, AnswerInv, NEW t \in Threads,
           Connect(t) \/ SetHandle(t) \/ Disconnect(t) \/ Write(t) \/ Shutdown(t) \/ Inside(t)
    PROVE  AnswerInv'
<1> USE DEF Silent, calling, StreamSteps
<1>1. CASE Connect(t)
  <2> USE <1>1 DEF Connect, Enter
  <2>1. Answered' <=> Answered
      BY DEF Answered
  <2>2. Deciding' => Deciding
      BY DEF Deciding, StreamInv, StreamShape
  <2>3. connects' <= 1 => connects = 0 /\ connects' = 1
      BY DEF StreamInv, StreamShape
  <2>4. AnsweredOnce' <=> AnsweredOnce
      BY DEF AnsweredOnce
  <2> QED
      BY <2>1, <2>2, <2>3, <2>4 DEF AnswerInv, FirstConnect
<1>2. CASE SetHandle(t)
  <2> USE <1>2 DEF SetHandle, place
  <2>1. (Answered' <=> Answered) /\ (Deciding' <=> Deciding) /\ (AnsweredOnce' <=> AnsweredOnce)
      BY DEF Answered, Deciding, AnsweredOnce
  <2> QED
      BY <2>1 DEF AnswerInv, FirstConnect
<1>3. CASE SetConnecting(t)
  <2> USE <1>3 DEF SetConnecting, Goto, At
  <2>1. SUFFICES ASSUME connects <= 1 PROVE FirstConnect'
      BY DEF AnswerInv
  <2>2. ~Answered /\ ~Deciding /\ attempt = 0
      BY <2>1 DEF AnswerInv, FirstConnect
  <2>3. ~Answered' /\ AnsweredOnce'
      BY <2>2 DEF Answered, AnsweredOnce
  <2>4. ~Deciding'
      BY <2>2 DEF Deciding, StreamInv, StreamShape
  <2>5. cur[t] = 1 /\ connects = 1
      BY <2>1 DEF StreamInv, StreamShape, OwnConnection, Starting
  <2>6. ASSUME NEW s \in Threads, pc'[s] \in {"create", "connecting"} PROVE FALSE
    <3>1. s # t /\ pc[s] \in {"create", "connecting"}
        BY <2>6 DEF StreamInv, StreamShape
    <3>2. cur[s] = 1
        BY <2>1, <3>1 DEF StreamInv, StreamShape, OwnConnection, Starting
    <3> QED
        BY <2>5, <3>1, <3>2 DEF StreamInv, OwnConnection, Starting
  <2> QED
      BY <2>3, <2>4, <2>5, <2>6 DEF FirstConnect
<1>4. CASE Disconnect(t)
  <2>1. \E why \in {"disconnect", "abort"} : Enter(t, "loadR", cur[t], why)
      BY <1>4 DEF Disconnect, DisconnectTo
  <2> QED
      BY <1>4, <2>1, SilentEntry DEF Disconnect, DisconnectTo
<1>5. CASE Write(t)
    BY <1>5, SilentEntry DEF Write
<1>6. CASE Shutdown(t)
    BY <1>6, SilentEntry DEF Shutdown
<1>7. CASE LoadReader(t) \/ LoadWriter(t)
  <2>1. Silent
      BY <1>7 DEF LoadReader, LoadWriter
  <2>2. (pc' = [pc EXCEPT ![t] = "casR"] \/ pc' = [pc EXCEPT ![t] = "casW"]) /\ mode' = mode
      BY <1>7 DEF LoadReader, LoadWriter
  <2>3. \A s \in Threads : pc'[s] \in {pc[s], "casR", "casW"}
      BY <2>2 DEF StreamInv, StreamShape
  <2>4. Deciding' => Deciding
      BY <2>2, <2>3, QueueIsThread DEF Deciding
  <2> QED
      BY <2>1, <2>3, <2>4, SilentStep
<1>8. CASE TakeReader(t)
  <2>1. \E label \in {"report", "loadW", "user"} : Goto(t, label)
      BY <1>8 DEF TakeReader, AfterReader, AfterLost
  <2> QED
      BY <1>8, <2>1, SilentMove DEF TakeReader
<1>9. CASE TakeWriter(t)
  <2>1. PICK label : Goto(t, label) /\ label \in StreamSteps
                     /\ label \notin {"create", "connecting", "suspend", "dup", "connect"}
                     /\ (label = "failed" => mode[t] = "failed")
      BY <1>9 DEF TakeWriter, AfterWriter, AfterLost
  <2>2. UNCHANGED <<answers, attempt, connects, m_state>>
      BY <1>9 DEF TakeWriter
  <2> QED
      BY <2>1, <2>2, SilentMove
<1>10. CASE CancelWriter(t)
  <2>1. PICK label : Goto(t, label) /\ label \in StreamSteps
                     /\ label \notin {"create", "connecting", "suspend", "dup", "connect"}
                     /\ (label = "failed" => mode[t] = "failed")
      BY <1>10 DEF CancelWriter, CancelAs, AfterWriter
  <2>2. UNCHANGED <<answers, attempt, connects, m_state>>
      BY <1>10 DEF CancelWriter, CancelAs
  <2> QED
      BY <2>1, <2>2, SilentMove
<1>11. CASE CreateWriter(t) \/ Initiated(t) \/ ConnectFails(t) \/ Undo(t)
    BY <1>11, SilentMove DEF CreateWriter, Initiated, ConnectFails, Undo, At, sources
<1>12. CASE Disconnected(t) \/ WriteUnlessBusy(t) \/ WriteSet(t) \/ WriteResume(t)
  <2>1. \E label \in {"user", "set", "resume", "crashed"} : Goto(t, label)
      BY <1>12 DEF Disconnected, WriteUnlessBusy, WriteSet, WriteResume
  <2>2. Silent
      BY <1>12 DEF Disconnected, WriteUnlessBusy, WriteSet, WriteResume
  <2> QED
      BY <2>1, <2>2, SilentMove
<1> QED
    BY <1>1, <1>2, <1>3, <1>4, <1>5, <1>6, <1>7, <1>8, <1>9, <1>10, <1>11, <1>12 DEF Inside

\* The handlers: an event handler and a cancel handler that report find the
\* stream connecting, on the one queue that executes them both.
LEMMA HandlersAnswer ==
    ASSUME StreamInv, AnswerInv, Handler \/ UserCode
    PROVE  AnswerInv'
<1> USE QueueIsThread DEF Silent, calling, sources, StreamSteps, At
<1>1. ASSUME NEW n \in Connections, OnWrEvent(n) PROVE AnswerInv'
  <2> USE <1>1 DEF OnWrEvent, Enter
  <2>1. Answered' <=> Answered
      BY DEF Answered
  <2>2. AnsweredOnce' <=> AnsweredOnce
      BY DEF AnsweredOnce
  <2>3. Deciding' => m_state = "connecting" \/ Deciding
      BY DEF Deciding, StreamInv, StreamShape
  <2>4. \A t \in Threads : pc'[t] \in {"create", "connecting"} => pc[t] \in {"create", "connecting"}
      BY DEF StreamInv, StreamShape
  <2> QED
      BY <2>1, <2>2, <2>3, <2>4 DEF AnswerInv, FirstConnect
<1>2. ASSUME NEW n \in Connections, OnRdEvent(n) \/ OnWrCancel(n) \/ OnRdCancel(n) PROVE AnswerInv'
  <2>1. \E label \in {"loadW", "nullW", "nullR"}, why \in {"peer", "none"} : Enter(Queue, label, n, why)
      BY <1>2 DEF OnRdEvent, OnWrCancel, OnRdCancel
  <2>2. Silent
      BY <1>2 DEF OnRdEvent, OnWrCancel, OnRdCancel
  <2> QED
      BY <2>1, <2>2, SilentEntry
<1>3. ASSUME NEW label \in {"suspend", "suspendW"}, NEW to \in {"loadW", "dup", "unbusy"},
             SuspendThen(label, to), label = "suspendW" => to = "unbusy"
      PROVE  AnswerInv'
  <2>1. Deciding' => Deciding
      BY <1>3 DEF SuspendThen, Deciding, StreamInv, StreamShape
  <2> QED
      BY <1>3, <2>1, SilentStep DEF SuspendThen, StreamInv, StreamShape
<1>4. CASE DupFails
    BY <1>4, SilentEntry DEF DupFails
<1>5. CASE CreateReader
    BY <1>5, SilentMove DEF CreateReader
<1>6. CASE SetConnected
  <2>1. Deciding
      BY <1>6 DEF SetConnected, ReportAs, Deciding
  <2> QED
      BY <1>6, <2>1, ReportsFirst DEF SetConnected, ReportAs
<1>7. CASE Failed
  <2>1. Deciding
      BY <1>7 DEF Failed, ReportAs, Deciding
  <2> QED
      BY <1>7, <2>1, ReportsFirst DEF Failed, ReportAs
<1>8. CASE WriteEvent
  <2>1. PICK k : WriteTo(k)
      BY <1>8 DEF WriteEvent, Written, WriteFails
  <2>2. \E label \in {"suspendW", "idle"} : Goto(Queue, label)
      BY <2>1 DEF WriteTo
  <2> QED
      BY <2>1, <2>2, SilentMove DEF WriteTo
<1>9. CASE Unbusy \/ OnWrite \/ PeerReport \/ ClearWriter \/ ClearReader \/ UserCode \/ UserCodeEnds
  <2>1. \E label \in {"written", "user", "idle", "casState"} : Goto(Queue, label)
      BY <1>9 DEF Unbusy, OnWrite, PeerReport, ClearWriter, ClearReader, UserCode, UserCodeEnds, Callback
  <2>2. Silent
      BY <1>9 DEF Unbusy, OnWrite, PeerReport, ClearWriter, ClearReader, UserCode, UserCodeEnds
  <2> QED
      BY <2>1, <2>2, SilentMove
<1>10. CASE CancelledConnect
  <2>1. CASE m_state = "connecting"
      BY <1>10, <2>1, ReportsFirst DEF CancelledConnect, CancelledIn
  <2>2. CASE m_state # "connecting"
      BY <1>10, <2>2, SilentMove DEF CancelledConnect, CancelledIn
  <2> QED
      BY <2>1, <2>2
<1> QED
    BY <1>1, <1>2, <1>3, <1>4, <1>5, <1>6, <1>7, <1>8, <1>9, <1>10
       DEF Handler, ConnectEvent, SuspendWriter

LEMMA AnswerStep == StreamInv /\ AnswerInv /\ [Next]_vars => AnswerInv'
<1> SUFFICES ASSUME StreamInv, AnswerInv, [Next]_vars PROVE AnswerInv'
    OBVIOUS
<1>1. ASSUME NEW n \in Connections, Answer(n) \/ Peer(n, "open", "hangup") PROVE AnswerInv'
    BY <1>1, SilentStep DEF Answer, Peer, Silent, place, calling, Deciding
<1>2. CASE UNCHANGED vars
    BY <1>2, SilentStep DEF vars, Silent, place, calling, Deciding
<1> QED
    BY <1>1, <1>2, CallsAnswer, HandlersAnswer DEF Next

LEMMA AnswerInit == Init => AnswerInv
  BY QueueIsThread DEF Init, AnswerInv, FirstConnect, Answered, Deciding, AnsweredOnce

(***************************************************************************)
(* Until connect() is called again, the connect of a stream is reported    *)
(* once, whatever disconnect() and the destructor do meanwhile on any      *)
(* number of threads (process_connecting_event, on_wr_cancel).  After that *)
(* it may be false: m_state does not tell which connection a handler was   *)
(* called for.                                                             *)
(***************************************************************************)
THEOREM FirstConnectAnsweredOnce == Spec => [](connects <= 1 => AnsweredOnce)
<1>1. AnswerInv => (connects <= 1 => AnsweredOnce)
    BY DEF AnswerInv, FirstConnect
<1> QED
    BY <1>1, StreamInit, StreamStep, AnswerInit, AnswerStep, PTL DEF Spec
-----------------------------------------------------------------------------
(* The stream: what m_wr_busy protects. *)

WriteSteps == {"busy", "set", "resume"}
Transmitting == {"write", "suspendW", "unbusy"}
CancelSteps == {"loadR", "casR", "loadW", "casW"}
Cancelling == {"connect", "disconnect", "shutdown", "failed", "peer"}

OnNetwork == net[1] # "none"

\* The write source may be served.
Running == wr[1].source = "live" /\ wr[1].resumed

StateOfNetwork ==
    /\ m_state \in {"connected", "disconnecting"} => OnNetwork
    /\ Deciding => m_state = "connecting" /\ OnNetwork

\* Who cancels the sources: a connect that failed, somebody who has taken the
\* stream out of the state connected, or the destructor.
Cancels(t) ==
    /\ pc[t] \in CancelSteps => mode[t] \in Cancelling
    /\ pc[t] = "undone" => mode[t] = "connect"
    /\ mode[t] # "abort"
    /\ mode[t] \in {"disconnect", "peer"} => m_state \notin {"connecting", "connected"} /\ OnNetwork
    /\ mode[t] = "shutdown" => ~owned
    /\ mode[t] = "failed" => t = Queue

Writes(t) ==
    pc[t] \in WriteSteps => mode[t] = "write" /\ owned /\ m_state # "connecting" /\ OnNetwork

\* One call of write() is past m_wr_busy, and the handler is not at work then.
OneWrites(t) ==
    pc[t] \in {"set", "resume"} =>
        /\ m_wr_busy
        /\ pc[Queue] \notin Transmitting
        /\ \A s \in Threads : pc[s] \in {"set", "resume"} => s = t

\* A handler that transmits, and a source that may have one, have m_wr_busy.
BusyWhileRunning ==
    owned =>
        /\ pc[Queue] \in Transmitting => m_wr_busy
        /\ m_state = "connected" /\ Running =>
              /\ m_wr_busy
              /\ pc[Queue] # "unbusy"
              /\ \A t \in Threads : pc[t] \notin {"set", "resume"}
        /\ pc[Queue] \in {"dup", "connect"} => ~Running

Undisturbed ==
    /\ StateOfNetwork
    /\ \A t \in Threads : Cancels(t) /\ Writes(t) /\ OneWrites(t)
    /\ BusyWhileRunning

WriteInv == connects <= 1 /\ aborts = {} => Undisturbed

\* What StreamInv says of the only connection.
LEMMA FirstIsOnly ==
    ASSUME StreamInv, connects <= 1
    PROVE  /\ \A t \in Threads : mode[t] = "connect" => ~OnNetwork /\ cur[t] = 1
           /\ \A t \in Threads : pc[t] \in Starting => mode[t] = "connect"
           /\ \A n \in Connections : net[n] # "none" => n = 1 /\ OnNetwork
           /\ pc[Queue] \in Handling => cur[Queue] = 1 /\ OnNetwork
           /\ connects = 0 => ~OnNetwork
  BY StreamAssumption, QueueIsThread
     DEF StreamInv, StreamShape, OwnConnection, NotYetConnected, HandlerUses, OnNetwork, Connections

\* A step of a thread that starts nothing.
LEMMA QuietStep ==
    ASSUME StreamInv, WriteInv, NEW t \in Threads, UNCHANGED <<m_state, owned, connects, aborts>>,
           m_wr_busy => m_wr_busy', OnNetwork => OnNetwork', Running' => Running,
           NEW label \in StreamSteps \ WriteSteps, pc' = [pc EXCEPT ![t] = label],
           NEW why \in {mode[t], "none"}, mode' = [mode EXCEPT ![t] = why],
           label \in CancelSteps => why = mode[t] /\ (pc[t] \in CancelSteps \/ why = "peer"),
           label = "undone" => why = "connect",
           Deciding' => Deciding,
           t = Queue /\ label \in Transmitting => pc[t] \in Transmitting /\ label # "unbusy",
           t = Queue /\ label \in {"dup", "connect"} => pc[t] \in {"dup", "connect"}
    PROVE  WriteInv'
<1> SUFFICES ASSUME Undisturbed PROVE Undisturbed'
    BY DEF WriteInv
<1> USE DEF StreamInv, StreamShape, WriteSteps
<1>1. StateOfNetwork'
    BY DEF Undisturbed, StateOfNetwork
<1>2. ASSUME NEW s \in Threads PROVE Cancels(s)' /\ Writes(s)'
    BY DEF Undisturbed, Cancels, Writes, CancelSteps, Cancelling
<1>3. ASSUME NEW s \in Threads PROVE OneWrites(s)'
    BY QueueIsThread DEF Undisturbed, OneWrites, Transmitting
<1>4. BusyWhileRunning'
    BY QueueIsThread DEF Undisturbed, BusyWhileRunning, Transmitting
<1> QED
    BY <1>1, <1>2, <1>3, <1>4 DEF Undisturbed

\* connect() and what undoes it happen off the network.
LEMMA ConnectsOffNetwork ==
    ASSUME StreamInv, WriteInv, StreamInv', NEW t \in Threads,
           \/ Connect(t) \/ CreateWriter(t) \/ SetConnecting(t) \/ Initiated(t)
           \/ ConnectFails(t) \/ Undo(t) \/ SetHandle(t)
    PROVE  WriteInv'
<1> SUFFICES ASSUME connects' <= 1, aborts' = {} PROVE Undisturbed'
    BY DEF WriteInv
<1>1. connects <= connects' /\ aborts = {}
    BY DEF StreamInv, StreamShape, Connect, CreateWriter, SetConnecting, Initiated, ConnectFails,
           Undo, SetHandle, calling
<1>2. connects <= 1 /\ Undisturbed
    BY <1>1, StreamAssumption DEF WriteInv, StreamInv, StreamShape
<1>3. ~OnNetwork
  <2>1. CASE Connect(t) \/ SetHandle(t)
    <3>1. connects = 0
        BY <2>1 DEF Connect, SetHandle, StreamInv, StreamShape
    <3> QED
        BY <3>1, FirstIsOnly
  <2>2. CASE pc[t] \in Starting \/ Undo(t)
    <3>1. mode[t] = "connect"
        BY <1>2, <2>2, FirstIsOnly DEF Undo, At, Undisturbed, Cancels
    <3> QED
        BY <1>2, <3>1, FirstIsOnly
  <2> QED
      BY <2>1, <2>2 DEF CreateWriter, SetConnecting, Initiated, ConnectFails, At, Starting
\* Then nobody uses the connection but connect() and the destructor.
<1>4. /\ m_state \notin {"connected", "disconnecting"}
      /\ ~Deciding
      /\ pc[Queue] \notin Handling
      /\ \A s \in Threads : pc[s] \notin WriteSteps /\ mode[s] \notin {"disconnect", "peer"}
    BY <1>2, <1>3, FirstIsOnly DEF Undisturbed, StateOfNetwork, Cancels, Writes
<1>5. /\ \A s \in Threads \ {t} : pc'[s] = pc[s] /\ mode'[s] = mode[s]
      /\ \/ pc'[t] = pc[t] /\ mode'[t] = mode[t]
         \/ pc'[t] = "loadW" /\ mode'[t] = "connect"
         \/ pc'[t] \in Starting /\ mode'[t] = "connect"
         \/ pc'[t] = "user" /\ mode'[t] = "none"
      /\ UNCHANGED <<owned, m_wr_busy>>
  <2>1. pc[t] \in Starting => mode[t] = "connect"
      BY <1>2, FirstIsOnly
  <2> QED
      BY <2>1 DEF StreamInv, StreamShape, Connect, CreateWriter, SetConnecting, Initiated, ConnectFails,
           Undo, SetHandle, Goto, Enter, At, calling, writing, place, Starting
<1>6. /\ m_state' \in {m_state, "connecting", "disconnected", "connected"}
      /\ m_state' = "connected" => OnNetwork' /\ ~Running'
  <2>1. CASE SetHandle(t)
      BY <2>1, StreamAssumption
         DEF SetHandle, StreamInv, StreamShape, OnNetwork, Running, Connections
  <2>2. CASE Connect(t) \/ Initiated(t)
      BY <1>4, <2>2 DEF Connect, Initiated
  <2>3. CASE CreateWriter(t) \/ ConnectFails(t)
      BY <1>4, <2>3 DEF CreateWriter, ConnectFails
  <2>4. CASE SetConnecting(t) \/ Undo(t)
      BY <1>4, <2>4 DEF SetConnecting, Undo
  <2> QED
      BY <2>1, <2>2, <2>3, <2>4
<1> QED
  <2> USE DEF CancelSteps, Starting, WriteSteps
  <2>1. StateOfNetwork'
      BY <1>4, <1>5, <1>6, QueueIsThread DEF StateOfNetwork, Deciding
  <2>2. ASSUME NEW s \in Threads PROVE Cancels(s)' /\ Writes(s)' /\ OneWrites(s)'
      BY <1>2, <1>4, <1>5 DEF Undisturbed, Cancels, Writes, OneWrites, Cancelling
  <2>3. BusyWhileRunning'
      BY <1>2, <1>4, <1>5, <1>6, QueueIsThread DEF Undisturbed, BusyWhileRunning, Transmitting, Deciding, Handling
  <2> QED
      BY <2>1, <2>2, <2>3 DEF Undisturbed

\* disconnect(), the peer's close and the destructor take the stream out of the
\* states in which a write begins before they touch a source.
LEMMA EndsOfStream ==
    ASSUME StreamInv, WriteInv
    PROVE  /\ \A t \in Threads : Disconnect(t) \/ Disconnected(t) \/ Shutdown(t) => WriteInv'
           /\ \A n \in Connections : OnRdEvent(n) => WriteInv'
<1> USE QueueIsThread DEF StreamInv, StreamShape, calling, sources, writing
<1>1. ASSUME NEW t \in Threads, Disconnect(t) PROVE WriteInv'
  <2> USE <1>1 DEF Disconnect, DisconnectTo, Caller, Enter
  <2>1. SUFFICES ASSUME connects <= 1, aborts' = {}, Undisturbed PROVE Undisturbed'
      BY DEF WriteInv
  <2>2. m_state = "connected" /\ m_state' = "disconnecting" /\ OnNetwork
      BY <2>1 DEF Undisturbed, StateOfNetwork
  <2>3. StateOfNetwork' /\ BusyWhileRunning'
      BY <2>1, <2>2 DEF Undisturbed, StateOfNetwork, BusyWhileRunning, Deciding, OnNetwork, Running, Transmitting
  <2>4. ASSUME NEW s \in Threads PROVE Cancels(s)' /\ Writes(s)' /\ OneWrites(s)'
      BY <2>1, <2>2 DEF Undisturbed, Cancels, Writes, OneWrites, OnNetwork, CancelSteps, Cancelling,
         WriteSteps, Transmitting
  <2> QED
      BY <2>3, <2>4 DEF Undisturbed
<1>2. ASSUME NEW t \in Threads, Disconnected(t) PROVE WriteInv'
  <2> USE <1>2 DEF Disconnected, Goto, At
  <2>1. SUFFICES ASSUME Undisturbed PROVE Undisturbed'
      BY DEF WriteInv
  <2>2. UNCHANGED <<OnNetwork, Running, owned, m_wr_busy>>
      BY DEF OnNetwork, Running
  <2>3. StateOfNetwork' /\ BusyWhileRunning'
      BY <2>1, <2>2 DEF Undisturbed, StateOfNetwork, BusyWhileRunning, Deciding, Transmitting
  <2>4. ASSUME NEW s \in Threads PROVE Cancels(s)' /\ Writes(s)' /\ OneWrites(s)'
      BY <2>1, <2>2 DEF Undisturbed, Cancels, Writes, OneWrites, CancelSteps, Cancelling,
         WriteSteps, Transmitting
  <2> QED
      BY <2>3, <2>4 DEF Undisturbed
<1>3. ASSUME NEW t \in Threads, Shutdown(t) PROVE WriteInv'
  <2> USE <1>3 DEF Shutdown, Caller, Enter
  <2>1. SUFFICES ASSUME Undisturbed PROVE Undisturbed'
      BY DEF WriteInv
  <2>2. UNCHANGED <<OnNetwork, Running, m_wr_busy, m_state>> /\ ~owned'
      BY DEF OnNetwork, Running
  <2>3. StateOfNetwork' /\ BusyWhileRunning'
      BY <2>1, <2>2 DEF Undisturbed, StateOfNetwork, BusyWhileRunning, Deciding
  <2>4. pc[Queue] \in WriteSteps => FALSE
      BY <2>1 DEF Undisturbed, Writes, Handlers, WriteSteps
  <2>5. ASSUME NEW s \in Threads PROVE Cancels(s)' /\ Writes(s)' /\ OneWrites(s)'
    <3>1. pc[s] \notin WriteSteps
        BY <2>4 DEF Threads, WriteSteps
    <3> QED
        BY <2>1, <2>2, <3>1 DEF Undisturbed, Cancels, Writes, OneWrites, CancelSteps, Cancelling,
           WriteSteps
  <2> QED
      BY <2>3, <2>5 DEF Undisturbed
<1>4. ASSUME NEW n \in Connections, OnRdEvent(n) PROVE WriteInv'
  <2> USE <1>4 DEF OnRdEvent, Enter, Ready
  <2>1. SUFFICES ASSUME connects <= 1, Undisturbed PROVE Undisturbed'
      BY DEF WriteInv
  <2>2. UNCHANGED <<OnNetwork, Running, owned, m_wr_busy>>
      BY DEF OnNetwork, Running
  <2>3. OnNetwork
      BY <2>1 DEF Undisturbed, StateOfNetwork
  <2>4. StateOfNetwork' /\ BusyWhileRunning'
      BY <2>1, <2>2 DEF Undisturbed, StateOfNetwork, BusyWhileRunning, Deciding, Transmitting
  <2>5. ASSUME NEW s \in Threads PROVE Cancels(s)' /\ Writes(s)' /\ OneWrites(s)'
      BY <2>1, <2>2, <2>3 DEF Undisturbed, Cancels, Writes, OneWrites, CancelSteps, Cancelling,
         WriteSteps, Transmitting
  <2> QED
      BY <2>4, <2>5 DEF Undisturbed
<1> QED
    BY <1>1, <1>2, <1>3, <1>4

\* write() begins in a stream that is connected, and goes on if m_wr_busy was clear.
LEMMA WritesStep ==
    ASSUME StreamInv, WriteInv, NEW t \in Threads,
           Write(t) \/ WriteUnlessBusy(t) \/ WriteSet(t) \/ WriteResume(t)
    PROVE  WriteInv'
<1> USE QueueIsThread DEF StreamInv, StreamShape, calling, sources, writing
<1>1. SUFFICES ASSUME connects <= 1, Undisturbed PROVE Undisturbed'
    BY DEF WriteInv, Write, WriteUnlessBusy, WriteSet, WriteResume
<1>2. UNCHANGED <<m_state, owned, OnNetwork>>
    BY DEF Write, WriteUnlessBusy, WriteSet, WriteResume, OnNetwork
<1>3. owned /\ m_state # "connecting" /\ OnNetwork /\ ~Deciding
    BY <1>1 DEF Write, WriteUnlessBusy, WriteSet, WriteResume, Caller, At, Undisturbed,
       StateOfNetwork, Writes, WriteSteps
<1>4. PICK label \in {"busy", "set", "resume", "user", "crashed"} :
        /\ pc' = [pc EXCEPT ![t] = label]
        /\ mode' = [mode EXCEPT ![t] = IF label = "user" THEN "none" ELSE "write"]
  <2>1. pc[t] \in WriteSteps => mode[t] = "write"
      BY <1>1 DEF Undisturbed, Writes
  <2> QED
      BY <2>1 DEF Write, WriteUnlessBusy, WriteSet, WriteResume, Enter, Goto, At, WriteSteps
<1>5. ~Deciding' /\ StateOfNetwork'
    BY <1>1, <1>2, <1>3, <1>4 DEF Undisturbed, StateOfNetwork, Deciding
<1>6. ASSUME NEW s \in Threads PROVE Cancels(s)' /\ Writes(s)'
    BY <1>1, <1>2, <1>3, <1>4 DEF Undisturbed, Cancels, Writes, CancelSteps, Cancelling, WriteSteps
<1>7. (\A s \in Threads : OneWrites(s)') /\ BusyWhileRunning'
  <2>1. CASE Write(t)
    <3>1. pc[t] = "user" /\ label = "busy" /\ m_wr_busy' = m_wr_busy /\ Running' = Running
        BY <1>4, <2>1 DEF Write, Caller, Enter, Running
    <3> QED
        BY <1>1, <1>2, <1>4, <3>1 DEF Undisturbed, OneWrites, BusyWhileRunning, Transmitting
  <2>2. CASE WriteUnlessBusy(t)
    <3>1. /\ pc[t] = "busy" /\ m_wr_busy' /\ Running' = Running
          /\ IF m_wr_busy THEN label = "user" ELSE label = "set"
        BY <1>4, <2>2 DEF WriteUnlessBusy, At, Goto, Running
    <3> QED
        BY <1>1, <1>2, <1>3, <1>4, <3>1 DEF Undisturbed, OneWrites, BusyWhileRunning, Transmitting
  <2>3. CASE WriteSet(t)
    <3>1. pc[t] = "set" /\ label = "resume" /\ m_wr_busy' = m_wr_busy /\ Running' = Running
        BY <1>4, <2>3 DEF WriteSet, At, Goto, Running
    <3> QED
        BY <1>1, <1>2, <1>3, <1>4, <3>1 DEF Undisturbed, OneWrites, BusyWhileRunning, Transmitting
  <2>4. CASE WriteResume(t)
    <3>1. pc[t] = "resume" /\ label \in {"user", "crashed"} /\ m_wr_busy' = m_wr_busy
        BY <1>4, <2>4 DEF WriteResume, At, Goto
    <3>2. m_wr_busy /\ pc[Queue] \notin Transmitting
          /\ \A s \in Threads : pc[s] \in {"set", "resume"} => s = t
        BY <1>1, <3>1 DEF Undisturbed, OneWrites
    <3> QED
        BY <1>2, <1>3, <1>4, <1>5, <3>1, <3>2 DEF OneWrites, BusyWhileRunning, Transmitting, Deciding
  <2> QED
      BY <2>1, <2>2, <2>3, <2>4
<1> QED
    BY <1>5, <1>6, <1>7 DEF Undisturbed

\* Who resumes the writer to cancel it has no stream that is connected, and no
\* connect that is about to be.
LEMMA ResumesToCancel ==
    ASSUME StreamInv, WriteInv, NEW t \in Threads, TakeWriter(t)
    PROVE  WriteInv'
<1> USE QueueIsThread DEF StreamInv, StreamShape
<1>1. SUFFICES ASSUME connects <= 1, Undisturbed PROVE Undisturbed'
    BY DEF WriteInv, TakeWriter, calling
<1>2. UNCHANGED <<m_state, owned, m_wr_busy, OnNetwork>>
    BY DEF TakeWriter, calling, writing, OnNetwork
<1>3. mode[t] \in Cancelling /\ pc[t] = "casW"
    BY <1>1 DEF Undisturbed, Cancels, CancelSteps, TakeWriter, At
<1>4. PICK label \in Undoing \cup {"disconnected", "failed", "loadR", "user"} :
          /\ pc' = [pc EXCEPT ![t] = label]
          /\ mode' = [mode EXCEPT ![t] = IF label = "user" THEN "none" ELSE @]
          /\ label = "undone" => mode[t] = "connect"
          /\ label \notin {"loadW", "casW"}
          /\ label = "loadR" => mode[t] = "peer"
          /\ label = "failed" => mode[t] = "failed"
    BY DEF TakeWriter, Goto, AfterWriter, AfterLost, Undoing
<1>5. Deciding' => Deciding
    BY <1>4 DEF Deciding, Undoing
<1>6. StateOfNetwork'
    BY <1>1, <1>2, <1>5 DEF Undisturbed, StateOfNetwork
<1>7. ASSUME NEW s \in Threads PROVE Cancels(s)' /\ Writes(s)' /\ OneWrites(s)'
  <2>1. label \notin WriteSteps \cup Transmitting
      BY DEF WriteSteps, Transmitting, Undoing
  <2> QED
      BY <1>1, <1>2, <1>3, <1>4, <2>1
         DEF Undisturbed, Cancels, Writes, OneWrites, CancelSteps, Cancelling, WriteSteps, Undoing
<1>8. BusyWhileRunning'
  <2>1. owned => m_state # "connected"
    <3>1. mode[t] = "connect" => ~OnNetwork
        BY <1>1, FirstIsOnly
    <3> QED
        BY <1>1, <1>3, <3>1 DEF Undisturbed, StateOfNetwork, Cancels, Cancelling, Deciding
  <2>2. owned /\ Deciding => mode[t] = "failed" /\ t = Queue
    <3>1. mode[t] = "connect" => ~OnNetwork
        BY <1>1, FirstIsOnly
    <3> QED
        BY <1>1, <1>3, <3>1 DEF Undisturbed, StateOfNetwork, Cancels, Cancelling
  <2>3. owned => pc'[Queue] \notin {"dup", "connect"}
      BY <1>3, <1>4, <2>2 DEF Deciding, Undoing
  <2>4. pc'[Queue] \in Transmitting => pc[Queue] \in Transmitting
      BY <1>4 DEF Transmitting, Undoing
  <2> QED
      BY <1>1, <1>2, <2>1, <2>3, <2>4 DEF Undisturbed, BusyWhileRunning
<1> QED
    BY <1>6, <1>7, <1>8 DEF Undisturbed

\* An event of the writer is a connect that is decided, or finds m_wr_busy.
LEMMA EventsStep ==
    ASSUME StreamInv, WriteInv, NEW n \in Connections, OnWrEvent(n)
    PROVE  WriteInv'
<1> USE QueueIsThread DEF StreamInv, StreamShape
<1>1. SUFFICES ASSUME connects <= 1, Undisturbed PROVE Undisturbed'
    BY DEF WriteInv, OnWrEvent, calling
<1>2. UNCHANGED <<m_state, owned, m_wr_busy, OnNetwork, Running>>
    BY DEF OnWrEvent, calling, writing, sources, OnNetwork, Running
<1>3. n = 1 /\ OnNetwork /\ Running /\ m_state \in {"connecting", "connected"}
    BY <1>1, FirstIsOnly DEF OnWrEvent, Ready, Running
<1>4. PICK label \in {"suspend", "write"} :
          /\ pc' = [pc EXCEPT ![Queue] = label]
          /\ mode' = [mode EXCEPT ![Queue] = "none"]
          /\ label = "suspend" <=> m_state = "connecting"
    BY DEF OnWrEvent, Enter
<1>5. StateOfNetwork' /\ BusyWhileRunning'
    BY <1>1, <1>2, <1>3, <1>4
       DEF Undisturbed, StateOfNetwork, BusyWhileRunning, Deciding, Transmitting
<1>6. ASSUME NEW s \in Threads PROVE Cancels(s)' /\ Writes(s)' /\ OneWrites(s)'
    BY <1>1, <1>2, <1>3, <1>4
       DEF Undisturbed, Cancels, Writes, OneWrites, BusyWhileRunning, CancelSteps, Cancelling, WriteSteps, Transmitting
<1> QED
    BY <1>5, <1>6 DEF Undisturbed

\* The handlers suspend the writer before they report a connect or clear m_wr_busy.
LEMMA SuspendsFirst ==
    ASSUME StreamInv, WriteInv, ConnectEvent \/ SuspendWriter
    PROVE  WriteInv'
<1> USE QueueIsThread DEF StreamInv, StreamShape
<1>1. SUFFICES ASSUME connects <= 1, Undisturbed PROVE Undisturbed'
    BY DEF WriteInv, ConnectEvent, SuspendWriter, SuspendThen, calling
<1>2. UNCHANGED <<m_state, owned, m_wr_busy, OnNetwork>>
    BY DEF ConnectEvent, SuspendWriter, SuspendThen, calling, writing, OnNetwork
<1>3. PICK label \in {"loadW", "dup", "unbusy"} :
          /\ pc' = [pc EXCEPT ![Queue] = label]
          /\ mode' = [mode EXCEPT ![Queue] = IF label = "loadW" THEN "failed" ELSE @]
          /\ pc[Queue] = IF label = "unbusy" THEN "suspendW" ELSE "suspend"
    BY DEF ConnectEvent, SuspendWriter, SuspendThen, At
<1>4. ~Running'
  <2>1. cur[Queue] = 1 /\ 1 \in Connections
      BY <1>1, <1>3, FirstIsOnly, StreamAssumption DEF Handling, Connections
  <2>2. wr' = [wr EXCEPT ![1].resumed = FALSE]
      BY <2>1 DEF ConnectEvent, SuspendWriter, SuspendThen
  <2>3. wr \in [Connections -> Source]
      OBVIOUS
  <2> HIDE DEF StreamInv
  <2> QED
      BY <2>1, <2>2, <2>3 DEF Running, Source
<1>5. StateOfNetwork' /\ BusyWhileRunning'
    BY <1>1, <1>2, <1>3, <1>4
       DEF Undisturbed, StateOfNetwork, BusyWhileRunning, Deciding, Transmitting
<1>6. ASSUME NEW s \in Threads PROVE Cancels(s)' /\ Writes(s)' /\ OneWrites(s)'
    BY <1>1, <1>2, <1>3
       DEF Undisturbed, Cancels, Writes, OneWrites, CancelSteps, Cancelling, WriteSteps, Transmitting
<1> QED
    BY <1>5, <1>6 DEF Undisturbed

\* The steps of the handlers that change m_state or m_wr_busy.
LEMMA HandlersReport ==
    ASSUME StreamInv, WriteInv, SetConnected \/ Failed \/ CancelledConnect \/ Unbusy
    PROVE  WriteInv'
<1> USE QueueIsThread DEF StreamInv, StreamShape
<1>1. SUFFICES ASSUME Undisturbed PROVE Undisturbed'
    BY DEF WriteInv, SetConnected, Failed, ReportAs, CancelledConnect, CancelledIn, Unbusy, calling
<1>2. UNCHANGED <<owned, OnNetwork, Running>>
    BY DEF SetConnected, Failed, ReportAs, CancelledConnect, CancelledIn, Unbusy, calling, sources,
       OnNetwork, Running
<1>3. PICK label \in {"user", "idle", "written"} :
          /\ pc' = [pc EXCEPT ![Queue] = label]
          /\ mode' = [mode EXCEPT ![Queue] = IF label = "written" THEN @ ELSE "none"]
          /\ label = "written" => Unbusy
    BY DEF SetConnected, Failed, ReportAs, CancelledConnect, CancelledIn, Unbusy, Goto, Callback
<1>4. CASE SetConnected
  <2>1. /\ pc[Queue] = "connect" /\ Deciding /\ label # "written"
        /\ m_state' = "connected" /\ m_wr_busy' = m_wr_busy
      BY <1>3, <1>4 DEF SetConnected, ReportAs, Deciding, writing, Unbusy, At
  <2>2. m_state = "connecting" /\ OnNetwork
      BY <1>1, <2>1 DEF Undisturbed, StateOfNetwork
  <2>3. StateOfNetwork' /\ BusyWhileRunning'
      BY <1>1, <1>2, <1>3, <2>1, <2>2
         DEF Undisturbed, StateOfNetwork, BusyWhileRunning, Deciding, Transmitting
  <2>4. ASSUME NEW s \in Threads PROVE Cancels(s)' /\ Writes(s)' /\ OneWrites(s)'
      BY <1>1, <1>2, <1>3, <2>1, <2>2
         DEF Undisturbed, Cancels, Writes, OneWrites, CancelSteps, Cancelling, WriteSteps, Transmitting
  <2> QED
      BY <2>3, <2>4 DEF Undisturbed
<1>5. CASE Failed \/ CancelledConnect
  <2>1. /\ pc[Queue] \in {"failed", "casState"} /\ label # "written"
        /\ m_state' \in {m_state, "disconnected"} /\ m_wr_busy' = m_wr_busy
      BY <1>3, <1>5 DEF Failed, ReportAs, CancelledConnect, CancelledIn, writing, Unbusy, At
  <2>2. ~Deciding'
      BY <1>1, <1>3, <2>1 DEF Deciding
  <2>3. StateOfNetwork' /\ BusyWhileRunning'
      BY <1>1, <1>2, <1>3, <2>1, <2>2 DEF Undisturbed, StateOfNetwork, BusyWhileRunning, Transmitting
  <2>4. ASSUME NEW s \in Threads PROVE Cancels(s)' /\ Writes(s)' /\ OneWrites(s)'
      BY <1>1, <1>2, <1>3, <2>1
         DEF Undisturbed, Cancels, Writes, OneWrites, CancelSteps, Cancelling, WriteSteps, Transmitting
  <2> QED
      BY <2>3, <2>4 DEF Undisturbed
<1>6. CASE Unbusy
  <2>1. pc[Queue] = "unbusy" /\ label = "written" /\ m_state' = m_state
      BY <1>3, <1>6 DEF Unbusy, Goto, At
  <2>2. StateOfNetwork' /\ BusyWhileRunning'
      BY <1>1, <1>2, <1>3, <2>1
         DEF Undisturbed, StateOfNetwork, BusyWhileRunning, Deciding, Transmitting
  <2>3. ASSUME NEW s \in Threads PROVE Cancels(s)' /\ Writes(s)' /\ OneWrites(s)'
      BY <1>1, <1>2, <1>3, <2>1
         DEF Undisturbed, Cancels, Writes, OneWrites, CancelSteps, Cancelling, WriteSteps, Transmitting
  <2> QED
      BY <2>2, <2>3 DEF Undisturbed
<1> QED
    BY <1>4, <1>5, <1>6

\* A connect that cannot be finished is cancelled.
LEMMA CannotFinish ==
    ASSUME StreamInv, WriteInv, DupFails
    PROVE  WriteInv'
<1> USE QueueIsThread DEF StreamInv, StreamShape
<1>1. SUFFICES ASSUME Undisturbed PROVE Undisturbed'
    BY DEF WriteInv, DupFails, calling
<1>2. UNCHANGED <<m_state, owned, m_wr_busy, OnNetwork, Running>>
    BY DEF DupFails, calling, writing, sources, OnNetwork, Running
<1>3. /\ pc[Queue] = "dup" /\ pc' = [pc EXCEPT ![Queue] = "loadW"]
      /\ mode' = [mode EXCEPT ![Queue] = "failed"]
    BY DEF DupFails, Enter, At
<1>4. StateOfNetwork' /\ BusyWhileRunning'
    BY <1>1, <1>2, <1>3 DEF Undisturbed, StateOfNetwork, BusyWhileRunning, Deciding, Transmitting
<1>5. ASSUME NEW s \in Threads PROVE Cancels(s)' /\ Writes(s)' /\ OneWrites(s)'
    BY <1>1, <1>2, <1>3
       DEF Undisturbed, Cancels, Writes, OneWrites, CancelSteps, Cancelling, WriteSteps, Transmitting
<1> QED
    BY <1>4, <1>5 DEF Undisturbed

\* The other steps that cancel.
LEMMA CancelsQuietly ==
    ASSUME StreamInv, WriteInv, NEW t \in Threads,
           LoadReader(t) \/ TakeReader(t) \/ LoadWriter(t) \/ CancelWriter(t)
    PROVE  WriteInv'
<1> USE QueueIsThread DEF calling, writing
<1>1. UNCHANGED <<m_state, owned, connects, aborts, m_wr_busy, OnNetwork>>
    BY DEF LoadReader, TakeReader, LoadWriter, CancelWriter, CancelAs, OnNetwork
<1>2. CASE LoadReader(t) \/ LoadWriter(t)
  <2>1. PICK label \in {"casR", "casW"} : pc' = [pc EXCEPT ![t] = label]
      BY <1>2 DEF LoadReader, LoadWriter
  <2>2. pc[t] \in CancelSteps /\ mode' = [mode EXCEPT ![t] = mode[t]] /\ Running' = Running
      BY <1>2 DEF LoadReader, LoadWriter, At, CancelSteps, sources, Running, StreamInv, StreamShape
  <2>3. Deciding' => Deciding
      BY <2>1, <2>2 DEF Deciding, StreamInv, StreamShape
  <2> QED
      BY <1>1, <2>1, <2>2, <2>3, QuietStep
         DEF StreamSteps, WriteSteps, CancelSteps, Transmitting
<1>3. CASE TakeReader(t)
  <2>1. PICK label \in {"report", "loadW", "user"} : Goto(t, label)
      BY <1>3 DEF TakeReader, AfterReader, AfterLost
  <2>2. pc[t] \in CancelSteps /\ Running' = Running
      BY <1>3 DEF TakeReader, At, CancelSteps, Running
  <2>3. PICK why \in {mode[t], "none"} :
            /\ pc' = [pc EXCEPT ![t] = label] /\ mode' = [mode EXCEPT ![t] = why]
            /\ label = "loadW" => why = mode[t]
      BY <2>1 DEF Goto
  <2>4. Deciding' => Deciding
      BY <2>3 DEF Deciding, StreamInv, StreamShape
  <2> QED
      BY <1>1, <2>2, <2>3, <2>4, QuietStep
         DEF StreamSteps, WriteSteps, CancelSteps, Transmitting
<1>4. CASE CancelWriter(t)
  <2>1. PICK label \in {"undone", "disconnected", "failed", "loadR", "user"} :
            /\ Goto(t, label)
            /\ label = "undone" => mode[t] = "connect"
            /\ label = "loadR" => mode[t] = "peer"
            /\ label = "failed" => mode[t] = "failed"
      BY <1>4 DEF CancelWriter, CancelAs, AfterWriter
  <2>2. PICK why \in {mode[t], "none"} :
            /\ pc' = [pc EXCEPT ![t] = label] /\ mode' = [mode EXCEPT ![t] = why]
            /\ label # "user" => why = mode[t]
      BY <2>1 DEF Goto
  <2>3. Running' => Running
      BY <1>4 DEF CancelWriter, CancelAs, Running, Cancelled, StreamInv, StreamShape, Source
  <2>4. Deciding' => Deciding
      BY <2>1, <2>2 DEF Deciding, StreamInv, StreamShape
  <2> QED
      BY <1>1, <2>1, <2>2, <2>3, <2>4, QuietStep
         DEF StreamSteps, WriteSteps, CancelSteps, Transmitting
<1> QED
    BY <1>2, <1>3, <1>4

\* The other steps of the queue.
LEMMA QueueQuietly ==
    ASSUME StreamInv, WriteInv,
           \/ \E n \in Connections : OnWrCancel(n) \/ OnRdCancel(n)
           \/ CreateReader \/ WriteEvent \/ OnWrite \/ PeerReport \/ ClearWriter \/ ClearReader
           \/ UserCode \/ UserCodeEnds
    PROVE  WriteInv'
<1> USE QueueIsThread DEF calling, writing
<1>1. CASE \E n \in Connections : OnWrCancel(n) \/ OnRdCancel(n)
  <2>1. PICK n \in Connections : OnWrCancel(n) \/ OnRdCancel(n)
      BY <1>1
  <2>2. PICK label \in {"nullW", "nullR"} :
            pc' = [pc EXCEPT ![Queue] = label] /\ mode' = [mode EXCEPT ![Queue] = "none"]
      BY <2>1 DEF OnWrCancel, OnRdCancel, Enter
  <2>3. UNCHANGED <<m_state, owned, connects, aborts, m_wr_busy, OnNetwork>>
      BY <2>1 DEF OnWrCancel, OnRdCancel, OnNetwork
  <2>4. Running' => Running
    <3>1. wr' = [wr EXCEPT ![n].source = "deleted"] \/ wr' = wr
        BY <2>1 DEF OnWrCancel, OnRdCancel
    <3>2. wr \in [Connections -> Source] /\ 1 \in Connections
        BY StreamAssumption DEF StreamInv, StreamShape, Connections
    <3> QED
        BY <3>1, <3>2 DEF Running, Source
  <2>5. ~Deciding'
      BY <2>2 DEF Deciding, StreamInv, StreamShape
  <2> QED
      BY <2>2, <2>3, <2>4, <2>5, QuietStep
         DEF StreamSteps, WriteSteps, CancelSteps, Transmitting
<1>2. CASE \/ CreateReader \/ OnWrite \/ PeerReport \/ ClearWriter \/ ClearReader
           \/ UserCode \/ UserCodeEnds
  <2>1. PICK label \in {"connect", "user", "idle", "casState"} :
            Goto(Queue, label) /\ (label = "connect" => pc[Queue] = "dup")
      BY <1>2 DEF CreateReader, OnWrite, PeerReport, ClearWriter, ClearReader, UserCode,
                  UserCodeEnds, Callback, At
  <2>2. UNCHANGED <<m_state, owned, connects, aborts, m_wr_busy, OnNetwork, Running>>
      BY <1>2 DEF CreateReader, OnWrite, PeerReport, ClearWriter, ClearReader, UserCode,
                  UserCodeEnds, OnNetwork, Running, sources
  <2>3. PICK why \in {mode[Queue], "none"} :
            pc' = [pc EXCEPT ![Queue] = label] /\ mode' = [mode EXCEPT ![Queue] = why]
      BY <2>1 DEF Goto
  <2>4. Deciding' => Deciding
      BY <2>1, <2>3 DEF Deciding, StreamInv, StreamShape
  <2> QED
      BY <2>1, <2>2, <2>3, <2>4, QuietStep
         DEF StreamSteps, WriteSteps, CancelSteps, Transmitting
<1>3. CASE WriteEvent
  <2>1. PICK k : pc[Queue] = "write" /\ WriteTo(k)
      BY <1>3 DEF WriteEvent, Written, WriteFails, Net, At
  <2>2. PICK label \in {"suspendW", "idle"} : Goto(Queue, label)
      BY <2>1 DEF WriteTo
  <2>3. UNCHANGED <<m_state, owned, connects, aborts, m_wr_busy, OnNetwork, Running>>
      BY <2>1 DEF WriteTo, OnNetwork, Running, sources
  <2>4. PICK why \in {mode[Queue], "none"} :
            pc' = [pc EXCEPT ![Queue] = label] /\ mode' = [mode EXCEPT ![Queue] = why]
      BY <2>2 DEF Goto
  <2>5. Deciding' => Deciding
      BY <2>4 DEF Deciding, StreamInv, StreamShape
  <2> QED
      BY <2>1, <2>3, <2>4, <2>5, QuietStep
         DEF StreamSteps, WriteSteps, CancelSteps, Transmitting
<1> QED
    BY <1>1, <1>2, <1>3

LEMMA NetworkQuietly ==
    ASSUME StreamInv, WriteInv,
           \/ \E n \in Connections : Answer(n) \/ Peer(n, "open", "hangup")
           \/ UNCHANGED vars
    PROVE  WriteInv'
<1>1. UNCHANGED <<m_state, owned, connects, aborts, m_wr_busy, wr, pc, mode>>
    BY DEF vars, calling, place, sources, writing, Answer, Peer
<1>2. OnNetwork => OnNetwork'
  <2>1. ASSUME NEW n \in Connections, NEW to \in {"open", "refused", "hangup"},
               net' = [net EXCEPT ![n] = to]
        PROVE  OnNetwork => OnNetwork'
      BY <2>1, StreamAssumption DEF OnNetwork, StreamInv, StreamShape, Connections
  <2>2. ASSUME UNCHANGED vars PROVE OnNetwork => OnNetwork'
      BY <2>2 DEF vars, OnNetwork
  <2> QED
      BY <2>1, <2>2 DEF Answer, Peer
<1>3. SUFFICES ASSUME Undisturbed PROVE Undisturbed'
    BY <1>1 DEF WriteInv
<1>4. UNCHANGED <<Running, Deciding>>
    BY <1>1 DEF Running, Deciding
<1>5. StateOfNetwork' /\ BusyWhileRunning'
    BY <1>1, <1>2, <1>3, <1>4 DEF Undisturbed, StateOfNetwork, BusyWhileRunning
<1>6. ASSUME NEW s \in Threads PROVE Cancels(s)' /\ Writes(s)' /\ OneWrites(s)'
    BY <1>1, <1>2, <1>3 DEF Undisturbed, Cancels, Writes, OneWrites
<1> QED
    BY <1>5, <1>6 DEF Undisturbed

LEMMA WriteStep == StreamInv /\ StreamInv' /\ WriteInv /\ [Next]_vars => WriteInv'
<1> SUFFICES ASSUME StreamInv, StreamInv', WriteInv, [Next]_vars PROVE WriteInv'
    OBVIOUS
<1>1. ASSUME NEW t \in Threads,
             Connect(t) \/ SetHandle(t) \/ Disconnect(t) \/ Write(t) \/ Shutdown(t) \/ Inside(t)
      PROVE  WriteInv'
    BY <1>1, ConnectsOffNetwork, EndsOfStream, WritesStep, ResumesToCancel, CancelsQuietly DEF Inside
<1>2. CASE Handler \/ UserCode
    BY <1>2, EventsStep, EndsOfStream, SuspendsFirst, HandlersReport, CannotFinish, QueueQuietly
       DEF Handler
<1> QED
    BY <1>1, <1>2, NetworkQuietly DEF Next

LEMMA WriteInit == Init => WriteInv
  BY QueueIsThread, StreamAssumption
     DEF Init, WriteInv, Undisturbed, StateOfNetwork, Cancels, Writes, OneWrites, BusyWhileRunning,
         Deciding, OnNetwork, Running, NoSource, Transmitting, CancelSteps, WriteSteps, Connections

(***************************************************************************)
(* In a stream that connects once, whatever the number of threads that     *)
(* write and disconnect, no write() replaces the data of one that the      *)
(* handler transmits (m_wr_busy in write and process_write_event), unless  *)
(* disconnect() overtook the connect.                                      *)
(***************************************************************************)
THEOREM WriteIsKept == Spec /\ [](connects <= 1) => WritesExclusive
<1> DEFINE Kept == aborts = {} /\ pc[Queue] \in {"write", "suspendW"} => m_wr_data' = m_wr_data
<1>1. ASSUME StreamInv, WriteInv, connects <= 1, [Next]_vars PROVE [Kept]_vars
  <2>1. SUFFICES ASSUME aborts = {}, pc[Queue] \in {"write", "suspendW"}, Next
                 PROVE  m_wr_data' = m_wr_data
      BY <1>1 DEF vars, writing
  <2>2. ASSUME NEW t \in Threads, WriteSet(t) PROVE FALSE
      BY <1>1, <2>1, <2>2 DEF WriteSet, At, WriteInv, Undisturbed, OneWrites, Transmitting
  <2> QED
      BY <2>1, <2>2
         DEF Next, Inside, Handler, vars, writing,
             Connect, SetHandle, Disconnect, DisconnectTo, Write, Shutdown,
             LoadReader, TakeReader, LoadWriter, TakeWriter, CancelWriter, CancelAs, CreateWriter,
             SetConnecting, Initiated, ConnectFails, Undo, Disconnected, WriteUnlessBusy, WriteResume,
             OnWrEvent, OnRdEvent, OnWrCancel, OnRdCancel, ConnectEvent, SuspendThen, DupFails,
             CreateReader, SetConnected, Failed, ReportAs, WriteEvent, Written, WriteFails, WriteTo,
             SuspendWriter, Unbusy, OnWrite, PeerReport, ClearWriter, CancelledConnect, CancelledIn,
             ClearReader, UserCode, UserCodeEnds, Answer, Peer
<1>2. WritesExclusive <=> [][Kept]_vars
    BY DEF WritesExclusive
<1> QED
    BY <1>1, <1>2, StreamInit, StreamStep, WriteInit, WriteStep, PTL DEF Spec
=============================================================================
