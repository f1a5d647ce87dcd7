------------------------------- MODULE GcdServer -------------------------------
(***************************************************************************)
(* The network server on libdispatch (lib/src/async/gcd/event_sources.cpp, *)
(* class net::impl::server).  Threads of Callers start and stop it through *)
(* their copies; m_state decides which of them reaches the source, whose   *)
(* wrapper has a flag of its own (see GcdTimer).  The handlers execute on  *)
(* the queue of the server's runner.  External are the clients, the        *)
(* factory and the handler of the user, and what libdispatch does.         *)
(***************************************************************************)
EXTENDS Integers, FiniteSets

CONSTANTS Callers,       \* threads that start, stop and destroy the server
          Clients        \* clients that connect, each once

ASSUME ClientsAssumption == IsFiniteSet(Clients)

VARIABLES
    svState,             \* m_state
    svSource,            \* m_source: "none", "live", "cancelled" or "deleted"
    svActive,            \* m_source.m_active
    svSuspended,         \* calls of dispatch_suspend not yet undone
    svOwned,             \* the user still has a copy of the server
    svAt,                \* the step each caller is at
    svQueue,             \* the step on_event is at, and
    svClient,            \* the client it accepted
    svLeft,              \* how many it will still accept
    fate                 \* what became of each client

svCalls == <<svState, svActive, svSuspended, svOwned, svAt>>
svLoop == <<svQueue, svClient, svLeft, fate>>
serverVars == <<svCalls, svLoop, svSource>>

NoClient == "none"

ServerInit ==
    /\ svState = "stopped"
    /\ svSource = "none"
    /\ svActive = FALSE
    /\ svSuspended = 1
    /\ svOwned = TRUE
    /\ svAt = [t \in Callers |-> "idle"]
    /\ svQueue = "idle"
    /\ svClient = NoClient
    /\ svLeft = 0
    /\ fate = [k \in Clients |-> "absent"]

\* server::initialize: the context listens, or closes what it opened and throws.
Listen ==
    /\ svSource = "none"
    /\ svOwned
    /\ \/ svSource' = "live" /\ UNCHANGED svOwned
       \/ svOwned' = FALSE /\ UNCHANGED svSource
    /\ UNCHANGED <<svState, svActive, svSuspended, svAt, svLoop>>

CallerMoves(t, from, to) == svAt[t] = from /\ svAt' = [svAt EXCEPT ![t] = to]

\* One of the threads that find the state they expect goes on; a call in the
\* state it leads to returns, in another one it throws.
Exchange(t, to, expected, desired) ==
    /\ svOwned
    /\ svSource = "live"
    /\ svState = expected
    /\ svState' = desired
    /\ CallerMoves(t, "idle", to)
    /\ UNCHANGED <<svActive, svSuspended, svOwned, svLoop, svSource>>

StartAtOnce(t) == Exchange(t, "start_flag", "stopped", "accepting")
StartServer(t) == Exchange(t, "start_flag", "stopped", "starting")
StopServer(t) == Exchange(t, "stop_flag", "accepting", "stopping")

\* The thread that went on settles the state; nothing is done if it cannot.
Settle(t, at, expected, desired) ==
    /\ CallerMoves(t, at, "idle")
    /\ svState' = IF svState = expected THEN desired ELSE svState
    /\ UNCHANGED <<svActive, svSuspended, svOwned, svLoop, svSource>>

\* start_accept and stop_accept: the flag, then the call.
Accepting(t, from, call, skip, active) ==
    /\ CallerMoves(t, from, IF svActive = active THEN skip ELSE call)
    /\ svActive' = active
    /\ UNCHANGED <<svState, svSuspended, svOwned, svLoop, svSource>>

SourceCall(t, from, to, change) ==
    /\ CallerMoves(t, from, IF svSuspended + change < 0 THEN "crashed" ELSE to)
    /\ svSuspended' = IF svSuspended + change < 0 THEN 0 ELSE svSuspended + change
    /\ UNCHANGED <<svState, svActive, svOwned, svLoop, svSource>>

\* server::shutdown, when the user destroys the last copy.
Destroy(t, to) ==
    /\ svOwned
    /\ svSource = "live"
    /\ \A u \in Callers : svAt[u] = "idle"
    /\ svOwned' = FALSE
    /\ svAt' = [svAt EXCEPT ![t] = to]
    /\ UNCHANGED <<svState, svActive, svSuspended, svLoop, svSource>>

DestroySuspended(t) == Destroy(t, "cancel")
DestroyServer(t) == Destroy(t, "destroy_flag")

CancelListener(t) ==
    /\ CallerMoves(t, "cancel", "gone")
    /\ svSource' = "cancelled"
    /\ UNCHANGED <<svState, svActive, svSuspended, svOwned, svLoop>>

InServer(t) ==
    \/ Accepting(t, "start_flag", "start_call", "started", TRUE)
    \/ SourceCall(t, "start_call", "started", -1)
    \/ Settle(t, "started", "starting", "accepting")
    \/ Accepting(t, "stop_flag", "stop_call", "stopped", FALSE)
    \/ SourceCall(t, "stop_call", "stopped", 1)
    \/ Settle(t, "stopped", "stopping", "stopped")
    \/ Accepting(t, "destroy_flag", "destroy_call", "cancel", TRUE)
    \/ SourceCall(t, "destroy_call", "cancel", -1)
    \/ CancelListener(t)
-----------------------------------------------------------------------------
Waiting == {k \in Clients : fate[k] = "waiting"}

ClientConnects(k) ==
    /\ svSource = "live"
    /\ fate[k] = "absent"
    /\ fate' = [fate EXCEPT ![k] = "waiting"]
    /\ UNCHANGED <<svCalls, svQueue, svClient, svLeft, svSource>>

\* on_event accepts as many clients as were waiting when it was called.
OnAcceptEvent ==
    /\ svQueue = "idle"
    /\ svSource = "live"
    /\ svSuspended = 0
    /\ Waiting # {}
    /\ svQueue' = "accept"
    /\ svLeft' = Cardinality(Waiting)
    /\ UNCHANGED <<svCalls, svClient, fate, svSource>>

Accept ==
    /\ svQueue = "accept"
    /\ svLeft > 0
    /\ svLeft' = svLeft - 1
    /\ \E k \in Waiting :
          /\ svClient' = k
          /\ fate' = [fate EXCEPT ![k] = "accepted"]
    /\ svQueue' = "process"
    /\ UNCHANGED <<svCalls, svSource>>

\* accept() fails and on_event goes on; the client may have gone.
AcceptFails ==
    /\ svQueue = "accept"
    /\ svLeft > 0
    /\ svLeft' = svLeft - 1
    /\ \E k \in Waiting : fate' \in {fate, [fate EXCEPT ![k] = "closed"]}
    /\ UNCHANGED <<svCalls, svSource, svQueue, svClient>>

ProcessAs(allowed) ==
    /\ svQueue = "process"
    /\ \E end \in {"connected", "closed"} :
          /\ end = "connected" => allowed
          /\ fate' = [fate EXCEPT ![svClient] = end]
    /\ svQueue' = "accept"
    /\ UNCHANGED <<svCalls, svClient, svLeft, svSource>>

\* process_accept: the client is handed to the user, unless the server is not
\* accepting, the user is gone, or the factory or the stream throws.
ProcessAccept == ProcessAs(svOwned /\ svState = "accepting")

OnAcceptEnds ==
    /\ svQueue = "accept"
    /\ svLeft = 0
    /\ svQueue' = "idle"
    /\ svClient' = NoClient
    /\ UNCHANGED <<svCalls, svLeft, fate, svSource>>

OnServerCancel ==
    /\ svQueue = "idle"
    /\ svSource = "cancelled"
    /\ svSuspended = 0
    /\ svSource' = "deleted"
    /\ fate' = [k \in Clients |-> IF fate[k] = "waiting" THEN "closed" ELSE fate[k]]
    /\ UNCHANGED <<svCalls, svQueue, svClient, svLeft>>

OnServer ==
    OnAcceptEvent \/ Accept \/ AcceptFails \/ ProcessAccept \/ OnAcceptEnds \/ OnServerCancel

ServerNext ==
    \/ Listen
    \/ \E t \in Callers : StartServer(t) \/ StopServer(t) \/ DestroyServer(t) \/ InServer(t)
    \/ \E k \in Clients : ClientConnects(k)
    \/ OnServer

ServerFairness == (\A t \in Callers : WF_serverVars(InServer(t))) /\ WF_serverVars(OnServer)
-----------------------------------------------------------------------------
(***************************************************************************)
(* However start() and stop() of several threads overlap, libdispatch is   *)
(* never asked to resume a source that is not suspended, and the source is *)
(* suspended exactly when the server is stopped (m_state with its two      *)
(* intermediate states, against the flag of dispatch_source and the        *)
(* suspend count of libdispatch).                                          *)
(***************************************************************************)
SourceFollowsState ==
    /\ \A t \in Callers : svAt[t] # "crashed"
    /\ svOwned =>
          /\ svState = "accepting" => svActive /\ svSuspended = 0
          /\ svState = "stopped" => ~svActive /\ svSuspended = 1

(***************************************************************************)
(* A server that is destroyed, started or not, releases its source and its *)
(* listening socket, and leaves no client waiting (on_cancel).             *)
(***************************************************************************)
ListenerReleased ==
    (~svOwned) ~> (svSource \in {"none", "deleted"} /\ \A k \in Clients : fate[k] # "waiting")
=============================================================================
