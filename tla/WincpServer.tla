------------------------------ MODULE WincpServer ------------------------------
(***************************************************************************)
(* The network server on Windows (lib/src/async/wincp/event_sources.cpp,   *)
(* class net::impl::server): one overlapped AcceptEx at a time, started by *)
(* start() and again by each completion, cancelled by stop() and by        *)
(* closing the listening socket in shutdown().  The completion callbacks   *)
(* execute on a thread of the pool.  They use the server through the       *)
(* context, a pointer to a shared pointer, which keeps the server alive    *)
(* until someone deletes it.  External are the sockets, the pool, and the  *)
(* factory and the handler of the user.                                    *)
(***************************************************************************)
EXTENDS Integers, FiniteSets

CONSTANTS Admins,        \* threads that start, stop and destroy the server
          Pool,          \* the thread of the pool with the completion
          Peers          \* clients that connect, each once

ASSUME PoolAssumption == Pool \notin Admins

VARIABLES
    wsState,             \* m_state
    wsHandle,            \* m_handle, the listening socket: valid or not
    listening,           \* the socket is open
    m_client_handle,     \* a socket for the next client is there
    wsContext,           \* the context: "none", "live" or "deleted"
    wsPointer,           \* the server's pointer to it is not null
    wsOwned,             \* the user still has a copy of the server
    wsExecutor,            \* the executor of its runner exists
    accept,              \* AcceptEx: "none", "pending", or how it completed
    wsAt,                \* the step each thread is at
    peer                 \* what became of each client

wsObject == <<wsState, wsHandle, listening, wsContext, wsPointer, wsOwned>>
wsSockets == <<m_client_handle, accept, peer>>
winServerVars == <<wsObject, wsSockets, wsExecutor, wsAt>>

Actor == Admins \cup {Pool}

WinServerInit ==
    /\ wsState = "init"
    /\ wsHandle = FALSE
    /\ listening = FALSE
    /\ m_client_handle = FALSE
    /\ wsContext = "none"
    /\ wsPointer = FALSE
    /\ wsOwned = TRUE
    /\ wsExecutor = TRUE
    /\ accept = "none"
    /\ wsAt = [t \in Actor |-> "idle"]
    /\ peer = [p \in Peers |-> "absent"]

\* initialize: a failure closes what was opened and throws.
InitializeServer ==
    /\ wsState = "init"
    /\ \/ /\ wsState' = "stopped"
          /\ wsHandle' = TRUE
          /\ listening' = TRUE
          /\ wsContext' = "live"
          /\ wsPointer' = TRUE
          /\ UNCHANGED wsOwned
       \/ /\ wsState' = "error"
          /\ wsOwned' = FALSE
          /\ UNCHANGED <<wsHandle, listening, wsContext, wsPointer>>
    /\ UNCHANGED <<wsSockets, wsExecutor, wsAt>>

Steps(t, from, to) == wsAt[t] = from /\ wsAt' = [wsAt EXCEPT ![t] = to]

\* A call in the state it leads to returns, in any other state it throws.
Request(t, expected, desired, to) ==
    /\ t \in Admins
    /\ wsOwned
    /\ wsState = expected
    /\ wsState' = desired
    /\ Steps(t, "idle", to)
    /\ UNCHANGED <<wsHandle, listening, wsContext, wsPointer, wsOwned, wsSockets, wsExecutor>>

StartAccepting(t) == Request(t, "stopped", "starting", "socket")
StopWithoutWaiting(t) == Request(t, "accepting", "stopped", "cancel")
StopAccepting(t) == Request(t, "accepting", "stopping", "cancel")
-----------------------------------------------------------------------------
(* start_accept, by start() and by the completion callback *)

ClientSocket(t) ==
    /\ Steps(t, "socket", "accept")
    /\ m_client_handle' = TRUE
    /\ UNCHANGED <<wsObject, accept, peer, wsExecutor>>

\* It throws: start() forgets the context, which nobody deletes any more, and
\* returns; out of a callback of the pool the exception ends the program.
NoClientSocket(t) ==
    /\ Steps(t, "socket", IF t = Pool THEN "crashed" ELSE "idle")
    /\ IF t = Pool THEN UNCHANGED <<wsState, wsPointer>>
       ELSE wsState' = "error" /\ wsPointer' = FALSE
    /\ UNCHANGED <<wsHandle, listening, wsContext, wsOwned, wsSockets, wsExecutor>>

AcceptEx(t) ==
    /\ wsHandle
    /\ listening
    /\ Steps(t, "accept", IF t = Pool THEN "idle" ELSE "started")
    /\ accept' = "pending"
    /\ UNCHANGED <<wsObject, m_client_handle, peer, wsExecutor>>

\* Nobody is told: the server stays in the state of one that accepts.
AcceptExFails(t) ==
    /\ Steps(t, "accept", IF t = Pool THEN "idle" ELSE "started")
    /\ m_client_handle' = FALSE
    /\ UNCHANGED <<wsObject, accept, peer, wsExecutor>>

Accepts(t) ==
    /\ Steps(t, "started", "idle")
    /\ wsState' = IF wsState = "starting" THEN "accepting" ELSE wsState
    /\ UNCHANGED <<wsHandle, listening, wsContext, wsPointer, wsOwned, wsSockets, wsExecutor>>

Aborted == IF accept = "pending" THEN "aborted" ELSE accept

\* stop_accept: there may be no AcceptEx to cancel just now.
CancelAccept(t) ==
    /\ Steps(t, "cancel", "idle")
    /\ accept' = Aborted
    /\ UNCHANGED <<wsObject, m_client_handle, peer, wsExecutor>>
-----------------------------------------------------------------------------
(* shutdown, when the user destroys the last copy *)

Unused == wsOwned /\ \A t \in Admins : wsAt[t] = "idle"

ShutdownThen(t, states, context) ==
    /\ Unused
    /\ wsOwned' = FALSE
    /\ wsState \in states
    /\ wsState' = "destroying"
    /\ wsPointer' = FALSE
    /\ wsContext' = context
    /\ UNCHANGED <<listening, wsSockets, wsExecutor>>

\* The callback of the aborted accept deletes the context.
ShutdownAccepting(t) ==
    /\ ShutdownThen(t, {"accepting"}, wsContext)
    /\ wsHandle' = FALSE
    /\ Steps(t, "idle", "close")

ShutdownDeletes(t) ==
    /\ ShutdownThen(t, {"stopped", "stopping"}, "deleted")
    /\ Steps(t, "idle", "gone")
    /\ UNCHANGED wsHandle

ShutdownStopped(t) ==
    /\ ShutdownThen(t, {"stopped"}, "deleted")
    /\ Steps(t, "idle", "gone")
    /\ UNCHANGED wsHandle

\* In any other state nothing is done, and the context keeps the server alive.
ShutdownOtherwise(t) ==
    /\ Unused
    /\ wsState \notin {"accepting", "stopped", "init"}
    /\ wsOwned' = FALSE
    /\ Steps(t, "idle", "gone")
    /\ UNCHANGED <<wsState, wsHandle, listening, wsContext, wsPointer, wsSockets, wsExecutor>>

CloseListener(t) ==
    /\ Steps(t, "close", "gone")
    /\ listening' = FALSE
    /\ accept' = Aborted
    /\ UNCHANGED <<wsState, wsHandle, wsContext, wsPointer, wsOwned, m_client_handle,
                   peer, wsExecutor>>

\* ~server, when neither the user nor the context refers to it.
DeleteServer ==
    /\ ~wsOwned
    /\ wsContext = "deleted"
    /\ \A t \in Actor : wsAt[t] \in {"idle", "gone"}
    /\ wsHandle \/ m_client_handle
    /\ wsHandle' = FALSE
    /\ listening' = FALSE
    /\ m_client_handle' = FALSE
    /\ UNCHANGED <<wsState, wsContext, wsPointer, wsOwned, accept, peer, wsExecutor, wsAt>>
-----------------------------------------------------------------------------
(* The completion: on_accept and process_accept, on the thread of the pool. *)

PeerConnects(p) ==
    /\ accept = "pending"
    /\ peer[p] = "absent"
    /\ accept' = "completed"
    /\ peer' = [peer EXCEPT ![p] = "accepted"]
    /\ UNCHANGED <<wsObject, m_client_handle, wsExecutor, wsAt>>

\* The client reset the connection: the accept completes with another error.
PeerResets(p) ==
    /\ accept = "pending"
    /\ peer[p] = "absent"
    /\ accept' = "failed"
    /\ peer' = [peer EXCEPT ![p] = "reset"]
    /\ UNCHANGED <<wsObject, m_client_handle, wsExecutor, wsAt>>

OnAccept ==
    /\ accept \in {"completed", "aborted", "failed"}
    /\ Steps(Pool, "idle", accept)
    /\ accept' = "none"
    /\ UNCHANGED <<wsObject, m_client_handle, peer, wsExecutor>>

OnAborted ==
    /\ Steps(Pool, "aborted", "idle")
    /\ wsState' = IF wsState = "stopping" THEN "stopped" ELSE wsState
    /\ wsContext' = IF wsState = "destroying" THEN "deleted" ELSE wsContext
    /\ UNCHANGED <<wsHandle, listening, wsPointer, wsOwned, wsSockets, wsExecutor>>

OnOtherError ==
    /\ Steps(Pool, "failed", "idle")
    /\ UNCHANGED <<wsObject, wsSockets, wsExecutor>>

\* The client goes to the executor, and the next accept starts, whatever the state.
ProcessAccepted ==
    /\ Steps(Pool, "completed", "socket")
    /\ m_client_handle' = FALSE
    /\ peer' = [p \in Peers |-> IF peer[p] # "accepted" THEN peer[p]
                                ELSE IF wsExecutor THEN "posted" ELSE "closed"]
    /\ UNCHANGED <<wsObject, accept, wsExecutor>>

\* exec_for_accept: the factory or the stream may throw, the user may be gone.
ExecForAccept(p) ==
    /\ wsExecutor
    /\ peer[p] = "posted"
    /\ \E end \in {"connected", "closed"} :
          /\ end = "connected" => wsOwned
          /\ peer' = [peer EXCEPT ![p] = end]
    /\ UNCHANGED <<wsObject, m_client_handle, accept, wsExecutor, wsAt>>

ExecutorGone ==
    /\ wsExecutor
    /\ wsExecutor' = FALSE
    /\ UNCHANGED <<wsObject, wsSockets, wsAt>>

InWinServer(t) ==
    \/ ClientSocket(t) \/ NoClientSocket(t) \/ AcceptEx(t) \/ AcceptExFails(t) \/ Accepts(t)
    \/ CancelAccept(t) \/ CloseListener(t)

WinServerNext ==
    /\ wsAt[Pool] # "crashed"
    /\ \/ InitializeServer
       \/ \E t \in Admins : StartAccepting(t) \/ StopAccepting(t)
             \/ ShutdownAccepting(t) \/ ShutdownStopped(t) \/ ShutdownOtherwise(t)
       \/ \E t \in Actor : InWinServer(t)
       \/ DeleteServer
       \/ \E p \in Peers : PeerConnects(p) \/ PeerResets(p) \/ ExecForAccept(p)
       \/ OnAccept \/ OnAborted \/ OnOtherError \/ ProcessAccepted
       \/ ExecutorGone
-----------------------------------------------------------------------------
(***************************************************************************)
(* The single overlapped structure, buffer and client socket of the server *)
(* are never used for two accepts: while a thread starts one, no other     *)
(* thread does and none is pending, completed or being processed, however  *)
(* start() and stop() overlap the completions (m_state, on_accept).        *)
(***************************************************************************)
OneAccept ==
    \A t \in Actor : wsAt[t] \in {"socket", "accept"} =>
        /\ accept = "none"
        /\ \A u \in Actor \ {t} :
              wsAt[u] \notin {"socket", "accept", "completed", "aborted", "failed"}

(***************************************************************************)
(* The context is not deleted while an accept is outstanding or a callback *)
(* of the pool uses it: shutdown() deletes it only in a server at rest,    *)
(* and leaves it to the callback otherwise (server::shutdown, on_accept).  *)
(***************************************************************************)
AcceptContextAlive ==
    accept # "none" \/ wsAt[Pool] # "idle" => wsContext = "live"
=============================================================================
