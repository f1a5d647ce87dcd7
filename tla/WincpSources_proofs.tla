-------------------------- MODULE WincpSources_proofs --------------------------
(***************************************************************************)
(* What holds of the timer, of the server and of the stream on Windows for *)
(* every number of threads, clients, queued callbacks and connections.     *)
(***************************************************************************)
EXTENDS WincpTimer, WincpServer, WincpStream, TLAPS, SequenceTheorems

WinTimerSpec == WinTimerInit /\ [][WinTimerNext]_winTimerVars

WorkerSteps == {"idle", "entered", "active", "expired"}

\* The user's calls clear the flag before they disarm the timer.
QuietIsInactive == quiet \/ user = "stop" => ~m_active

\* While the flag is clear no thread passes it.
PassedFirst == quiet => Active \subseteq passed

\* shutdown() disarms, then waits, then closes: nothing is queued after it.
ClosedIsEmpty ==
    /\ user \in {"wait", "gone"} => interval = 0
    /\ closed => /\ user = "gone"
                 /\ queued = 0
                 /\ \A w \in TimerThreads : worker[w] = "idle"

WinTimerInv ==
    /\ worker \in [TimerThreads -> WorkerSteps]
    /\ m_active \in BOOLEAN
    /\ quiet \in BOOLEAN
    /\ QuietIsInactive
    /\ PassedFirst
    /\ ClosedIsEmpty

USE DEF WinTimerInv, QuietIsInactive, PassedFirst, ClosedIsEmpty, WorkerSteps, Active
-----------------------------------------------------------------------------
LEMMA WinTimerInitInv == WinTimerInit => WinTimerInv
  BY DEF WinTimerInit

LEMMA WinTimerStepInv == WinTimerInv /\ [WinTimerNext]_winTimerVars => WinTimerInv'
<1> SUFFICES ASSUME WinTimerInv, [WinTimerNext]_winTimerVars PROVE WinTimerInv'
    OBVIOUS
<1>1. CASE StartActive
    BY <1>1 DEF StartActive, Flag
<1>2. CASE StartSet
    BY <1>2 DEF StartSet, SetFrom
<1>3. CASE StopInactive
    BY <1>3 DEF StopInactive, Flag
<1>4. CASE StopSet
    BY <1>4 DEF StopSet, SetFrom
<1>5. CASE ShutdownInactive
    BY <1>5 DEF ShutdownInactive, Flag
<1>6. CASE ShutdownSet
    BY <1>6 DEF ShutdownSet, SetFrom
<1>7. CASE ShutdownWaits
    BY <1>7 DEF ShutdownWaits, ShutdownAtOnce
<1>8. CASE ChangePeriod
    BY <1>8 DEF ChangePeriod
<1>9. CASE Expire
    BY <1>9 DEF Expire
<1>10. ASSUME NEW w \in TimerThreads, CallbackStarts(w) PROVE WinTimerInv'
    BY <1>10 DEF CallbackStarts, WorkerMoves
<1>11. ASSUME NEW w \in TimerThreads, OnTimerEvent(w) PROVE WinTimerInv'
    BY <1>11 DEF OnTimerEvent, WorkerMoves
<1>12. ASSUME NEW w \in TimerThreads, Expired(w) PROVE WinTimerInv'
    BY <1>12 DEF Expired, WorkerMoves
<1>13. ASSUME NEW w \in TimerThreads, TaskBegins(w) PROVE WinTimerInv'
    BY <1>13 DEF TaskBegins, WorkerMoves
<1>14. CASE UNCHANGED winTimerVars
    BY <1>14 DEF winTimerVars
<1> QED
    BY <1>1, <1>2, <1>3, <1>4, <1>5, <1>6, <1>7, <1>8, <1>9, <1>10, <1>11, <1>12,
       <1>13, <1>14
    DEF WinTimerNext

\* A thread of the pool that moves does so in a timer that is not closed, and
\* after stop() one that had not passed the flag does not go into the task.
LEMMA WorkerMovesInOpenTimer ==
    WinTimerInv /\ [WinTimerNext]_winTimerVars =>
        \A w \in TimerThreads :
            worker'[w] # worker[w] =>
                ~closed /\ (quiet /\ worker'[w] = "expired" => w \in passed)
<1> SUFFICES ASSUME WinTimerInv, [WinTimerNext]_winTimerVars,
                    NEW w \in TimerThreads, worker'[w] # worker[w]
             PROVE  ~closed /\ (quiet /\ worker'[w] = "expired" => w \in passed)
    OBVIOUS
<1> DEFINE Goal == ~closed /\ (quiet /\ worker'[w] = "expired" => w \in passed)
<1>1. CASE worker' = worker
    BY <1>1
<1>2. ASSUME NEW v \in TimerThreads, CallbackStarts(v)
      PROVE  Goal
    BY <1>2 DEF CallbackStarts, WorkerMoves
<1>3. ASSUME NEW v \in TimerThreads, OnTimerEvent(v)
      PROVE  Goal
    BY <1>3 DEF OnTimerEvent, WorkerMoves
<1>4. ASSUME NEW v \in TimerThreads, TaskBegins(v) \/ Expired(v)
      PROVE  Goal
    BY <1>4 DEF TaskBegins, Expired, WorkerMoves
<1>5. CASE StartActive \/ StopInactive \/ ShutdownInactive
    BY <1>1, <1>5 DEF StartActive, StopInactive, ShutdownInactive, Flag
<1>6. CASE StartSet \/ StopSet \/ ShutdownSet
    BY <1>1, <1>6 DEF StartSet, StopSet, ShutdownSet, SetFrom
<1>7. CASE ShutdownWaits \/ ChangePeriod \/ Expire
    BY <1>1, <1>7 DEF ShutdownWaits, ShutdownAtOnce, ChangePeriod, Expire
<1>8. CASE UNCHANGED winTimerVars
    BY <1>1, <1>8 DEF winTimerVars
<1> QED
    BY <1>2, <1>3, <1>4, <1>5, <1>6, <1>7, <1>8 DEF WinTimerNext

(***************************************************************************)
(* However many threads the pool has and however far its callbacks lag:    *)
(* after stop() has returned the task begins only on threads that had      *)
(* found the flag set before, once on each, and none moves after the timer *)
(* is closed (timer::stop, timer::shutdown, on_event, expired).            *)
(***************************************************************************)
THEOREM TimerAfterStop == WinTimerSpec => OnlyPassedBegin
<1> QED
    BY WinTimerInitInv, WinTimerStepInv, WorkerMovesInOpenTimer, PTL
    DEF WinTimerSpec, OnlyPassedBegin
-----------------------------------------------------------------------------
WinServerSpec == WinServerInit /\ [][WinServerNext]_winServerVars

AdminSteps == {"idle", "socket", "accept", "started", "cancel", "close", "gone"}
PoolSteps == {"idle", "completed", "aborted", "failed", "socket", "accept", "crashed"}

\* An accept is outstanding, or the pool works on one.
Busy == accept # "none" \/ wsAt[Pool] # "idle"
Aborting == accept = "aborted" \/ wsAt[Pool] = "aborted"

StepTypes ==
    /\ wsAt \in [Actor -> AdminSteps \cup PoolSteps]
    /\ \A t \in Admins : wsAt[t] \in AdminSteps
    /\ wsAt[Pool] \in PoolSteps

\* m_state lets one thread at a time past the exchange.
OneAdmin == \A t, u \in Admins : wsAt[t] # "idle" /\ wsAt[u] # "idle" => t = u

StepTellsState ==
    \A t \in Admins :
        /\ wsAt[t] \in {"socket", "accept"} => ~Busy
        /\ wsAt[t] \in {"socket", "accept", "started"} => wsState = "starting"
        /\ wsAt[t] = "cancel" => wsState = "stopping" /\ ~Aborting
        /\ wsAt[t] = "close" => wsState = "destroying"
        /\ wsAt[t] \in {"close", "gone"} => ~wsOwned

\* A state that start(), stop() or shutdown() may leave has no thread on its way.
SettledState ==
    wsOwned /\ wsState \in {"init", "stopped", "accepting"} =>
        \A t \in Admins : wsAt[t] = "idle"

\* The pool takes an accept before it works on it, and only cancelling aborts one.
StateTellsAccept ==
    /\ wsAt[Pool] # "idle" => accept = "none"
    /\ Busy => wsState \in {"starting", "accepting", "stopping", "destroying"}
    /\ Aborting => wsState \in {"stopping", "destroying"}

\* Only a server that is being destroyed, and has no accept, loses its context.
ContextKept ==
    Busy \/ wsState \in {"stopped", "starting", "accepting", "stopping"} => wsContext = "live"

WinServerInv ==
    /\ StepTypes
    /\ OneAdmin
    /\ StepTellsState
    /\ SettledState
    /\ StateTellsAccept
    /\ ContextKept
-----------------------------------------------------------------------------
USE PoolAssumption
USE DEF WinServerInv, StepTypes, OneAdmin, StepTellsState, SettledState, StateTellsAccept,
        ContextKept, Busy, Aborting, AdminSteps, PoolSteps, Actor

LEMMA WinServerInitInv == WinServerInit => WinServerInv
  BY DEF WinServerInit

\* The user's threads: they find the server in a settled state.
LEMMA RequestsInv ==
    ASSUME WinServerInv, NEW t \in Admins,
           StartAccepting(t) \/ StopAccepting(t)
             \/ ShutdownAccepting(t) \/ ShutdownStopped(t) \/ ShutdownOtherwise(t)
    PROVE  WinServerInv'
<1>1. CASE StartAccepting(t)
    BY <1>1 DEF StartAccepting, Request, Steps, wsSockets
<1>2. CASE StopAccepting(t)
    BY <1>2 DEF StopAccepting, Request, Steps, wsSockets
<1>3. CASE ShutdownAccepting(t)
    BY <1>3 DEF ShutdownAccepting, ShutdownThen, Unused, Steps, wsSockets
<1>4. CASE ShutdownStopped(t)
    BY <1>4 DEF ShutdownStopped, ShutdownThen, Unused, Steps, wsSockets
<1>5. CASE ShutdownOtherwise(t)
    BY <1>5 DEF ShutdownOtherwise, Unused, Steps, wsSockets
<1> QED
    BY <1>1, <1>2, <1>3, <1>4, <1>5

\* start_accept, by the user's thread or the pool, and what cancels an accept.
LEMMA InWinServerInv ==
    ASSUME WinServerInv, NEW t \in Actor, InWinServer(t)
    PROVE  WinServerInv'
<1>1. CASE ClientSocket(t)
    BY <1>1 DEF ClientSocket, Steps, wsObject
<1>2. CASE NoClientSocket(t)
  <2>1. CASE t = Pool
      BY <1>2, <2>1 DEF NoClientSocket, Steps, wsSockets
  <2>2. CASE t \in Admins
      BY <1>2, <2>2 DEF NoClientSocket, Steps, wsSockets
  <2> QED
      BY <2>1, <2>2
<1>3. CASE AcceptEx(t)
  <2>1. CASE t = Pool
      BY <1>3, <2>1 DEF AcceptEx, Steps, wsObject
  <2>2. CASE t \in Admins
      BY <1>3, <2>2 DEF AcceptEx, Steps, wsObject
  <2> QED
      BY <2>1, <2>2
<1>4. CASE AcceptExFails(t)
  <2>1. CASE t = Pool
      BY <1>4, <2>1 DEF AcceptExFails, Steps, wsObject
  <2>2. CASE t \in Admins
      BY <1>4, <2>2 DEF AcceptExFails, Steps, wsObject
  <2> QED
      BY <2>1, <2>2
<1>5. CASE Accepts(t)
    BY <1>5 DEF Accepts, Steps, wsSockets
<1>6. CASE CancelAccept(t)
    BY <1>6 DEF CancelAccept, Aborted, Steps, wsObject
<1>7. CASE CloseListener(t)
    BY <1>7 DEF CloseListener, Aborted, Steps
<1> QED
    BY <1>1, <1>2, <1>3, <1>4, <1>5, <1>6, <1>7 DEF InWinServer

\* The completion, on the thread of the pool.
LEMMA CompletionInv ==
    ASSUME WinServerInv, OnAccept \/ OnAborted \/ OnOtherError \/ ProcessAccepted
    PROVE  WinServerInv'
<1>1. CASE OnAccept
    BY <1>1 DEF OnAccept, Steps, wsObject
<1>2. CASE OnAborted
    BY <1>2 DEF OnAborted, Steps, wsSockets
<1>3. CASE OnOtherError
    BY <1>3 DEF OnOtherError, Steps, wsObject, wsSockets
<1>4. CASE ProcessAccepted
    BY <1>4 DEF ProcessAccepted, Steps, wsObject
<1> QED
    BY <1>1, <1>2, <1>3, <1>4

LEMMA WinServerStepInv == WinServerInv /\ [WinServerNext]_winServerVars => WinServerInv'
<1> SUFFICES ASSUME WinServerInv, [WinServerNext]_winServerVars PROVE WinServerInv'
    OBVIOUS
<1>1. CASE InitializeServer
    BY <1>1 DEF InitializeServer, wsSockets
<1>2. ASSUME NEW t \in Admins,
             StartAccepting(t) \/ StopAccepting(t)
               \/ ShutdownAccepting(t) \/ ShutdownStopped(t) \/ ShutdownOtherwise(t)
      PROVE  WinServerInv'
    BY <1>2, RequestsInv
<1>3. ASSUME NEW t \in Actor, InWinServer(t) PROVE WinServerInv'
    BY <1>3, InWinServerInv
<1>4. CASE DeleteServer
    BY <1>4 DEF DeleteServer
<1>5. ASSUME NEW p \in Peers, PeerConnects(p) \/ PeerResets(p) PROVE WinServerInv'
    BY <1>5 DEF PeerConnects, PeerResets, wsObject
<1>6. ASSUME NEW p \in Peers, ExecForAccept(p) PROVE WinServerInv'
    BY <1>6 DEF ExecForAccept, wsObject
<1>7. CASE OnAccept \/ OnAborted \/ OnOtherError \/ ProcessAccepted
    BY <1>7, CompletionInv
<1>8. CASE ExecutorGone
    BY <1>8 DEF ExecutorGone, wsObject, wsSockets
<1>9. CASE UNCHANGED winServerVars
    BY <1>9 DEF winServerVars, wsObject, wsSockets
<1> QED
    BY <1>1, <1>2, <1>3, <1>4, <1>5, <1>6, <1>7, <1>8, <1>9 DEF WinServerNext

(***************************************************************************)
(* However many threads start, stop and destroy the server, and however    *)
(* the completions fall between their steps, one accept at a time uses the *)
(* overlapped structure (start_accept, stop, on_accept of class server).   *)
(***************************************************************************)
THEOREM AcceptsOneByOne == WinServerSpec => []OneAccept
<1>1. WinServerInv => OneAccept
  <2> SUFFICES ASSUME WinServerInv, NEW t \in Actor, wsAt[t] \in {"socket", "accept"}
               PROVE  /\ accept = "none"
                      /\ \A u \in Actor \ {t} :
                            wsAt[u] \notin {"socket", "accept", "completed", "aborted", "failed"}
      BY DEF OneAccept
  <2>1. CASE t = Pool
      BY <2>1
  <2>2. CASE t \in Admins
      BY <2>2
  <2> QED
      BY <2>1, <2>2
<1> QED
    BY <1>1, WinServerInitInv, WinServerStepInv, PTL DEF WinServerSpec

(***************************************************************************)
(* The context, and with it the server, lives as long as an accept or the  *)
(* callback of its completion may still use it, whenever the user stops or *)
(* destroys the server (shutdown, process_accept of class server).         *)
(***************************************************************************)
THEOREM ContextOutlivesAccept == WinServerSpec => []AcceptContextAlive
<1>1. WinServerInv => AcceptContextAlive
    BY DEF AcceptContextAlive
<1> QED
    BY <1>1, WinServerInitInv, WinServerStepInv, PTL DEF WinServerSpec
-----------------------------------------------------------------------------
(* The stream.                                                              *)

WinStreamSpec == StreamInit /\ [][StreamNext]_streamVars

\* A task of the executor names a connection, or none.
Ids == 0 .. MaxConnects
Kinds == {"none", "connect", "failure", "aborted", "on_event", "on_read", "on_write",
          "cleanup", "cleanup_io"}
StreamTask == [kind : Kinds, n : Ids]

\* A thread that took a context out of m_context and has to clean it up.
TakerLabels == {"close", "close_abort", "callbacks", "cleanup", "wait", "finished"}
Taker(t) == pc[t] \in TakerLabels

Labels == TakerLabels \cup
    {"user", "idle", "socket", "issue", "state", "take", "abort", "check", "busy", "file",
     "acknowledge", "failed", "received", "ended", "post", "event", "written", "read",
     "leave", "crashed"}

\* The cleanups that wait in the executor's queue for a failed connection.
Cleanups(s) == {i \in DOMAIN s : s[i].kind = "cleanup_io"}
Named(s) == {s[i].n : i \in Cleanups(s)}
OnceEach(s) == \A i, j \in Cleanups(s) : s[i].n = s[j].n => i = j

StreamTypes ==
    /\ connects \in 0 .. MaxConnects
    /\ m_context \in 0 .. connects
    /\ pc \in [Threads -> Labels]
    /\ cur \in [Threads -> Ids]
    /\ \A t \in Threads : pc[t] = "failed" => cur[t] # Null
    /\ tasks \in Seq(StreamTask)
    /\ task \in StreamTask
    /\ executor \in BOOLEAN
    /\ deletes \in [Connections -> 0 .. 1]

\* A context that is not deleted has one owner at most: the stream, the thread
\* that took it, or a task of the executor.
TasksOwn ==
    /\ OnceEach(tasks)
    /\ Named(tasks) \subseteq 1 .. connects
    /\ m_context \notin Named(tasks)

TakersOwn ==
    /\ \A t \in Threads :
          Taker(t) => /\ cur[t] \in 1 .. connects
                      /\ cur[t] # m_context
                      /\ cur[t] \notin Named(tasks)
    /\ \A t, u \in Threads : Taker(t) /\ Taker(u) /\ cur[t] = cur[u] => t = u

OwnedIsLive ==
    /\ \A n \in Connections : n > connects => deletes[n] = 0
    /\ m_context # Null => deletes[m_context] = 0
    /\ \A n \in Named(tasks) : deletes[n] = 0
    /\ \A t \in Threads : Taker(t) => deletes[cur[t]] = 0

CleanInv == StreamTypes /\ TasksOwn /\ TakersOwn /\ OwnedIsLive
-----------------------------------------------------------------------------
\* The queue of the executor, with a task more.
LEMMA PostedOne ==
    ASSUME NEW s \in Seq(StreamTask), NEW x \in StreamTask
    PROVE  /\ s \o <<x>> \in Seq(StreamTask)
           /\ x.kind # "cleanup_io" =>
                 Named(s \o <<x>>) = Named(s) /\ (OnceEach(s) => OnceEach(s \o <<x>>))
           /\ x.kind = "cleanup_io" =>
                 /\ Named(s \o <<x>>) = Named(s) \cup {x.n}
                 /\ OnceEach(s) /\ x.n \notin Named(s) => OnceEach(s \o <<x>>)
<1> DEFINE r == s \o <<x>>
<1>1. /\ r \in Seq(StreamTask)
      /\ DOMAIN r = 1 .. (Len(s) + 1) /\ DOMAIN s = 1 .. Len(s) /\ Len(s) \in Nat
      /\ \A i \in 1 .. Len(s) : r[i] = s[i]
      /\ r[Len(s) + 1] = x
    BY ConcatProperties
<1> HIDE DEF r
<1>2. CASE x.kind = "cleanup_io"
  <2>1. Cleanups(r) = Cleanups(s) \cup {Len(s) + 1}
      BY <1>1, <1>2 DEF Cleanups
  <2>2. \A i \in Cleanups(s) : r[i] = s[i] /\ i # Len(s) + 1
      BY <1>1 DEF Cleanups
  <2>3. Named(r) = Named(s) \cup {x.n}
      BY <1>1, <2>1, <2>2 DEF Named
  <2>4. ASSUME OnceEach(s), x.n \notin Named(s) PROVE OnceEach(r)
      BY <1>1, <2>1, <2>2, <2>4 DEF Named, OnceEach
  <2> QED
      BY <1>1, <1>2, <2>3, <2>4 DEF r
<1>3. CASE x.kind # "cleanup_io"
  <2>1. Cleanups(r) = Cleanups(s) /\ \A i \in Cleanups(s) : r[i] = s[i]
      BY <1>1, <1>3 DEF Cleanups
  <2>2. Named(r) = Named(s)
      BY <2>1 DEF Named
  <2>3. OnceEach(s) => OnceEach(r)
      BY <2>1 DEF OnceEach
  <2> QED
      BY <1>1, <1>3, <2>2, <2>3 DEF r
<1> QED
    BY <1>2, <1>3

\* The queue without its first task.
LEMMA WithoutFirst ==
    ASSUME NEW s \in Seq(StreamTask), s # << >>
    PROVE  /\ Head(s) \in StreamTask /\ Tail(s) \in Seq(StreamTask)
           /\ Named(Tail(s)) \subseteq Named(s)
           /\ OnceEach(s) => OnceEach(Tail(s))
           /\ Head(s).kind = "cleanup_io" =>
                 /\ Head(s).n \in Named(s)
                 /\ OnceEach(s) => Head(s).n \notin Named(Tail(s))
<1> DEFINE r == Tail(s)
<1>1. /\ Head(s) \in StreamTask /\ r \in Seq(StreamTask)
      /\ Head(s) = s[1] /\ 1 \in DOMAIN s
      /\ \A i \in DOMAIN r : i \in Nat /\ i # 0 /\ i + 1 \in DOMAIN s /\ r[i] = s[i + 1]
    BY HeadTailProperties, EmptySeq
<1> HIDE DEF r
<1>2. \A i \in Cleanups(r) : i \in Nat /\ i # 0 /\ i + 1 \in Cleanups(s) /\ r[i] = s[i + 1]
    BY <1>1 DEF Cleanups
<1>3. Named(r) \subseteq Named(s)
    BY <1>2 DEF Named
<1>4. OnceEach(s) => OnceEach(r)
  <2> SUFFICES ASSUME OnceEach(s),
                      NEW i \in Cleanups(r), NEW j \in Cleanups(r), r[i].n = r[j].n
               PROVE  i = j
      BY DEF OnceEach
  <2>1. i + 1 = j + 1
      BY <1>2 DEF OnceEach
  <2> QED
      BY <1>2, <2>1
<1>5. ASSUME Head(s).kind = "cleanup_io"
      PROVE  1 \in Cleanups(s) /\ Head(s).n \in Named(s)
    BY <1>1, <1>5 DEF Cleanups, Named
<1>6. ASSUME Head(s).kind = "cleanup_io", OnceEach(s) PROVE Head(s).n \notin Named(r)
  <2> SUFFICES ASSUME NEW i \in Cleanups(r), r[i].n = s[1].n PROVE FALSE
      BY <1>1 DEF Named
  <2>1. i + 1 = 1
      BY <1>2, <1>5, <1>6 DEF OnceEach
  <2> QED
      BY <1>2, <2>1
<1> QED
    BY <1>1, <1>3, <1>4, <1>5, <1>6 DEF r

\* What Post does to the queue, for a task that is no cleanup of a failure.
LEMMA PostedOther ==
    ASSUME StreamTypes, NEW kind \in Kinds, kind # "cleanup_io", NEW n \in Ids
    PROVE  /\ tasks \o Posted(kind, n) \in Seq(StreamTask)
           /\ Named(tasks \o Posted(kind, n)) = Named(tasks)
           /\ OnceEach(tasks) => OnceEach(tasks \o Posted(kind, n))
<1> DEFINE x == [kind |-> kind, n |-> n]
<1>1. x \in StreamTask /\ x.kind = kind
    BY DEF StreamTask
<1> HIDE DEF x
<1>2. tasks \in Seq(StreamTask)
    BY DEF StreamTypes
<1>3. CASE executor
  <2>1. Posted(kind, n) = <<x>>
      BY <1>3 DEF Posted, x
  <2> QED
      BY <1>1, <1>2, <2>1, PostedOne
<1>4. CASE ~executor
  <2>1. Posted(kind, n) = << >> /\ tasks \o << >> = tasks
      BY <1>2, <1>4, ConcatEmptySeq DEF Posted
  <2> QED
      BY <1>2, <2>1
<1> QED
    BY <1>3, <1>4
-----------------------------------------------------------------------------
\* A step that leaves every context with its owner.
Quiet ==
    /\ UNCHANGED <<m_context, connects, deletes>>
    /\ tasks' \in Seq(StreamTask)
    /\ Named(tasks') \subseteq Named(tasks)
    /\ OnceEach(tasks')
    /\ task' \in StreamTask
    /\ executor' \in BOOLEAN

LEMMA QueueKept == CleanInv /\ UNCHANGED <<m_context, connects, deletes, queue>> => Quiet
  BY DEF CleanInv, StreamTypes, TasksOwn, Quiet, queue

LEMMA QueueGrows ==
    ASSUME CleanInv, UNCHANGED <<m_context, connects, deletes>>,
           NEW kind \in Kinds, kind # "cleanup_io", NEW n \in Ids, Post(kind, n)
    PROVE  Quiet
  BY PostedOther DEF CleanInv, StreamTypes, TasksOwn, Quiet, Post

\* Only the thread that took a context keeps on to the labels of its cleanup.
LEMMA Moves ==
    ASSUME CleanInv, Quiet, NEW t \in Threads, NEW l \in Labels, NEW c \in Ids,
           pc' = [pc EXCEPT ![t] = l], cur' = [cur EXCEPT ![t] = c],
           l \in TakerLabels => Taker(t) /\ c = cur[t],
           l = "failed" => c # Null
    PROVE  CleanInv'
<1> USE DEF CleanInv, StreamTypes, TasksOwn, TakersOwn, OwnedIsLive, Quiet
<1>1. \A u \in Threads : Taker(u)' => Taker(u) /\ cur'[u] = cur[u]
    BY DEF Taker
<1>2. StreamTypes'
    OBVIOUS
<1>3. TasksOwn'
    OBVIOUS
<1>4. TakersOwn'
    BY <1>1
<1>5. OwnedIsLive'
    BY <1>1
<1> QED
    BY <1>2, <1>3, <1>4, <1>5

LEMMA Stays ==
    ASSUME CleanInv, Quiet, UNCHANGED threads
    PROVE  CleanInv'
  BY DEF CleanInv, StreamTypes, TasksOwn, TakersOwn, OwnedIsLive, Quiet, Taker, threads

LEMMA MovesTo ==
    ASSUME CleanInv, Quiet, NEW t \in Threads, NEW l \in Labels, To(t, l),
           l \in TakerLabels => Taker(t), l # "failed"
    PROVE  CleanInv'
<1> DEFINE c == IF l \in {"user", "idle"} THEN Null ELSE cur[t]
<1>1. /\ pc' = [pc EXCEPT ![t] = l]
      /\ cur' = [cur EXCEPT ![t] = c]
    BY DEF To
<1>2. c \in Ids
    BY WinStreamAssumption DEF CleanInv, StreamTypes, Ids, Null
<1>3. l \in TakerLabels => c = cur[t]
    BY DEF TakerLabels
<1> HIDE DEF c
<1> QED
    BY <1>1, <1>2, <1>3, Moves

LEMMA MovesBegin ==
    ASSUME CleanInv, Quiet, NEW t \in Threads, NEW l \in Labels, NEW n \in Ids,
           Begin(t, l, n), l \notin TakerLabels, l = "failed" => n # Null
    PROVE  CleanInv'
<1> DEFINE c == IF l \in {"user", "idle"} THEN Null ELSE n
<1>1. /\ pc' = [pc EXCEPT ![t] = l]
      /\ cur' = [cur EXCEPT ![t] = c]
    BY DEF Begin
<1>2. c \in Ids
    BY WinStreamAssumption DEF Ids, Null
<1>3. l = "failed" => c # Null
    OBVIOUS
<1> HIDE DEF c
<1> QED
    BY <1>1, <1>2, <1>3, Moves

\* Whoever finds its own context in m_context replaces it by null and deletes it.
LEMMA DeletesOwn ==
    ASSUME CleanInv, NEW t \in Threads, NEW l \in Labels, l \notin TakerLabels, l # "failed",
           IF m_context = cur[t]
              THEN m_context' = Null /\ deletes' = [deletes EXCEPT ![cur[t]] = @ + 1]
              ELSE UNCHANGED <<m_context, deletes>>,
           cur[t] # Null, To(t, l), UNCHANGED <<connects, queue>>
    PROVE  CleanInv'
<1>1. CASE m_context # cur[t]
  <2>1. Quiet
      BY <1>1, QueueKept
  <2> QED
      BY <2>1, MovesTo
<1>2. CASE m_context = cur[t]
  <2> DEFINE n == cur[t]
  <2>1. n \in 1 .. connects /\ n \in Connections /\ deletes[n] = 0
      BY <1>2, WinStreamAssumption DEF CleanInv, StreamTypes, OwnedIsLive, Connections, Null
  <2>2. m_context' = Null /\ deletes' = [deletes EXCEPT ![n] = 1]
      BY <1>2, <2>1 DEF CleanInv, StreamTypes
  <2>3. \A u \in Threads : Taker(u)' => Taker(u) /\ cur'[u] = cur[u] /\ cur[u] # n
      BY <1>2 DEF Taker, To, CleanInv, TakersOwn, StreamTypes
  <2>4. n \notin Named(tasks)
      BY <1>2 DEF CleanInv, TasksOwn
  <2> HIDE DEF n
  <2> USE DEF CleanInv
  <2>5. /\ cur' \in [Threads -> Ids] /\ pc' \in [Threads -> Labels]
        /\ \A u \in Threads : pc'[u] = "failed" => cur'[u] # Null
      BY WinStreamAssumption DEF To, StreamTypes, Ids, Null, Labels
  <2>6. StreamTypes'
      BY <2>1, <2>2, <2>5 DEF StreamTypes, queue, Null
  <2>7. TasksOwn'
      BY <2>2 DEF TasksOwn, queue, Null
  <2>8. TakersOwn'
      BY <2>2, <2>3 DEF TakersOwn, queue, Null
  <2>9. \A u \in Threads : Taker(u)' => cur[u] \in Connections
      BY <2>3, WinStreamAssumption DEF TakersOwn, StreamTypes, Connections
  <2>10. \A k \in Named(tasks) : k \in Connections
      BY WinStreamAssumption DEF TasksOwn, StreamTypes, Connections
  <2>11. OwnedIsLive'
      BY <2>1, <2>2, <2>3, <2>4, <2>9, <2>10 DEF OwnedIsLive, StreamTypes, queue
  <2> QED
      BY <2>6, <2>7, <2>8, <2>11
<1> QED
    BY <1>1, <1>2

\* A failure whose context another thread took does nothing to it; who takes it
\* hands it to a task of the executor, which is the only one for it.
LEMMA FailsOwn ==
    ASSUME CleanInv, NEW t \in Threads, Fail(t, m_context = cur[t]), cur[t] # Null
    PROVE  CleanInv'
<1> DEFINE l == IF t = Executor THEN "leave" ELSE "idle"
<1>1. l \in Labels /\ l \notin TakerLabels /\ l # "failed" /\ To(t, l)
    BY DEF Fail, Labels, TakerLabels
<1>2. UNCHANGED <<connects, deletes, task, executor>>
    BY DEF Fail, counts
<1>3. CASE m_context # cur[t]
  <2>1. Quiet
      BY <1>2, <1>3, QueueKept DEF Fail, queue
  <2> HIDE DEF l
  <2> QED
      BY <1>1, <2>1, MovesTo
<1>4. CASE m_context = cur[t]
  <2> DEFINE n == cur[t]
             s == tasks \o Posted("failure", n)
  <2>1. n \in 1 .. connects /\ n \in Connections /\ deletes[n] = 0 /\ n \in Ids
      BY <1>4, WinStreamAssumption DEF CleanInv, StreamTypes, OwnedIsLive, Connections, Null, Ids
  <2>2. m_context' = Null /\ tasks' = s \o Posted("cleanup_io", n)
      BY <1>4 DEF Fail
  <2>3. \A u \in Threads : Taker(u)' => Taker(u) /\ cur'[u] = cur[u] /\ cur[u] # n
      BY <1>1, <1>4 DEF Taker, To, CleanInv, TakersOwn, StreamTypes
  <2>4. n \notin Named(tasks)
      BY <1>4 DEF CleanInv, TasksOwn
  <2>5. /\ cur' \in [Threads -> Ids] /\ pc' \in [Threads -> Labels]
        /\ \A u \in Threads : pc'[u] = "failed" => cur'[u] # Null
      BY <1>1, WinStreamAssumption DEF To, CleanInv, StreamTypes, Ids, Null, Labels
  <2> HIDE DEF l, n
  <2>6. s \in Seq(StreamTask) /\ Named(s) = Named(tasks) /\ OnceEach(s)
      BY <2>1, PostedOther DEF CleanInv, TasksOwn, Kinds
  <2> HIDE DEF s
  <2>7. /\ tasks' \in Seq(StreamTask) /\ OnceEach(tasks')
        /\ Named(tasks') \subseteq Named(tasks) \cup {n}
    <3> DEFINE x == [kind |-> "cleanup_io", n |-> n]
    <3>1. x \in StreamTask /\ x.kind = "cleanup_io" /\ x.n = n
        BY <2>1 DEF StreamTask, Kinds
    <3>2. CASE executor
      <4>1. tasks' = s \o <<x>>
          BY <2>2, <3>2 DEF Posted
      <4> HIDE DEF x
      <4> QED
          BY <2>4, <2>6, <3>1, <4>1, PostedOne
    <3>3. CASE ~executor
      <4>1. tasks' = s
          BY <2>2, <2>6, <3>3, ConcatEmptySeq DEF Posted
      <4> QED
          BY <2>6, <4>1
    <3> QED
        BY <3>2, <3>3 DEF CleanInv, StreamTypes
  <2> USE DEF CleanInv
  <2>8. StreamTypes'
      BY <1>2, <2>1, <2>2, <2>5, <2>7 DEF StreamTypes, Null
  <2>9. TasksOwn'
      BY <1>2, <2>1, <2>2, <2>7 DEF TasksOwn, StreamTypes, Null
  <2>10. TakersOwn'
      BY <1>2, <2>2, <2>3, <2>7 DEF TakersOwn, StreamTypes, Null
  <2>11. OwnedIsLive'
      BY <1>2, <2>1, <2>2, <2>3, <2>7 DEF OwnedIsLive, Null
  <2> QED
      BY <2>8, <2>9, <2>10, <2>11
<1> QED
    BY <1>3, <1>4
-----------------------------------------------------------------------------
\* connect, and a stream made for an accepted socket.
LEMMA ConnectSteps ==
    ASSUME CleanInv, NEW t \in Threads,
           \/ ConnectStream(t) \/ SocketFor(t) \/ ConnectEx(t) \/ ConnectExFails(t)
           \/ SetsHandle(t)
    PROVE  CleanInv'
<1>1. CASE ConnectStream(t)
  <2> DEFINE n == connects + 1
  <2>1. /\ n \in Connections /\ n \in Ids /\ n # Null /\ m_context = Null
        /\ connects' = n /\ m_context' = n /\ deletes[n] = 0
        /\ UNCHANGED <<queue, deletes>>
      BY <1>1, WinStreamAssumption
      DEF ConnectStream, CleanInv, StreamTypes, OwnedIsLive, Connections, Ids, Null
  <2>2. /\ pc' = [pc EXCEPT ![t] = "socket"] /\ cur' = [cur EXCEPT ![t] = n]
      BY <1>1 DEF ConnectStream, Begin
  <2> USE DEF CleanInv
  <2>3. StreamTypes'
      BY <2>1, <2>2, WinStreamAssumption DEF StreamTypes, Labels, queue, Connections
  <2>4. \A u \in Threads : Taker(u)' => Taker(u) /\ cur'[u] = cur[u]
      BY <2>2 DEF StreamTypes, Taker, TakerLabels
  <2> HIDE DEF n
  <2>5. n = connects + 1 /\ connects \in Nat
      BY WinStreamAssumption DEF n, StreamTypes
  <2>6. TasksOwn'
      BY <2>1, <2>5 DEF TasksOwn, queue
  <2>7. TakersOwn'
      BY <2>1, <2>4, <2>5 DEF TakersOwn, queue
  <2>8. OwnedIsLive'
      BY <2>1, <2>4, <2>5 DEF OwnedIsLive, queue, Connections
  <2> QED
      BY <2>3, <2>6, <2>7, <2>8
<1>2. CASE SocketFor(t)
  <2>1. Quiet
      BY <1>2, QueueKept DEF SocketFor, counts
  <2>2. To(t, "issue") \/ To(t, "idle") \/ To(t, "user")
      BY <1>2 DEF SocketFor, Home
  <2> QED
      BY <2>1, <2>2, MovesTo DEF Labels, TakerLabels
<1>3. CASE ConnectEx(t)
  <2>1. Quiet
      BY <1>3, QueueKept DEF ConnectEx
  <2>2. To(t, "idle") \/ To(t, "user")
      BY <1>3 DEF ConnectEx, Home
  <2> QED
      BY <2>1, <2>2, MovesTo DEF Labels, TakerLabels
<1>4. CASE ConnectExFails(t)
  <2>1. cur[t] # Null /\ UNCHANGED <<connects, queue>>
      BY <1>4, WinStreamAssumption DEF ConnectExFails, Using, Dangling, Connections, Null, counts
  <2>2. Home(t) \in Labels /\ Home(t) \notin TakerLabels /\ Home(t) # "failed"
      BY DEF Home, Labels, TakerLabels
  <2> QED
      BY <1>4, <2>1, <2>2, DeletesOwn DEF ConnectExFails
<1>5. CASE SetsHandle(t)
  <2>1. /\ connects = 0 /\ connects' = 1 /\ m_context = Null /\ m_context' \in {Null, 1}
        /\ 1 \in Connections /\ deletes[1] = 0
        /\ UNCHANGED <<deletes, threads, task, executor>>
      BY <1>5, WinStreamAssumption
      DEF SetsHandle, SetHandleOf, SetHandleThrows, SetHandleFails, SetHandle, CleanInv,
          StreamTypes, OwnedIsLive, Connections, Null
  <2>2. Named(tasks) = {} /\ \A u \in Threads : ~Taker(u)
      BY <2>1 DEF CleanInv, TasksOwn, TakersOwn
  <2>3. /\ tasks' \in Seq(StreamTask) /\ OnceEach(tasks') /\ Named(tasks') \subseteq {1}
        /\ m_context' \notin Named(tasks')
    <3>1. CASE UNCHANGED tasks
        BY <2>1, <2>2, <3>1 DEF CleanInv, StreamTypes, TasksOwn
    <3>2. CASE SetHandleFails(t)
      <4> DEFINE s == tasks \o Posted("failure", 1)
                 x == [kind |-> "cleanup_io", n |-> 1]
      <4>1. 1 \in Ids /\ x \in StreamTask /\ x.kind = "cleanup_io" /\ x.n = 1
          BY <2>1, WinStreamAssumption DEF Connections, Ids, StreamTask, Kinds
      <4>2. tasks' = s \o Posted("cleanup_io", 1) /\ m_context' = Null
          BY <2>1, <3>2 DEF SetHandleFails
      <4>3. s \in Seq(StreamTask) /\ Named(s) = {} /\ OnceEach(s)
          BY <2>2, <4>1, PostedOther DEF CleanInv, TasksOwn, Kinds
      <4>4. CASE executor
        <5>1. tasks' = s \o <<x>>
            BY <4>2, <4>4 DEF Posted
        <5> HIDE DEF s, x
        <5>2. tasks' \in Seq(StreamTask) /\ Named(tasks') = Named(s) \cup {1} /\ OnceEach(tasks')
            BY <4>1, <4>3, <5>1, PostedOne
        <5> QED
            BY <4>2, <4>3, <5>2 DEF Null
      <4>5. CASE ~executor
        <5>1. tasks' = s
            BY <4>2, <4>3, <4>5, ConcatEmptySeq DEF Posted
        <5> HIDE DEF s
        <5> QED
            BY <4>3, <5>1
      <4> QED
          BY <4>4, <4>5 DEF CleanInv, StreamTypes
    <3> QED
        BY <1>5, <3>1, <3>2 DEF SetsHandle, SetHandleOf, SetHandleThrows
  <2> USE DEF CleanInv
  <2>4. StreamTypes'
      BY <2>1, <2>3, WinStreamAssumption DEF StreamTypes, threads, Connections, Null
  <2>5. TasksOwn'
      BY <2>1, <2>3 DEF TasksOwn
  <2>6. TakersOwn'
      BY <2>1, <2>2 DEF TakersOwn, threads, Taker
  <2>7. OwnedIsLive'
      BY <2>1, <2>2, <2>3 DEF OwnedIsLive, threads, Taker, Connections, Null
  <2> QED
      BY <2>4, <2>5, <2>6, <2>7
<1> QED
    BY <1>1, <1>2, <1>3, <1>4, <1>5

\* Taking the context out of m_context makes the thread its owner.
LEMMA TakesOwn == ASSUME CleanInv, NEW t \in Threads, TakeContext(t) PROVE CleanInv'
<1>0. UNCHANGED <<connects, deletes, queue>> /\ m_context' = Null
    BY DEF TakeContext, TakeContextAs, counts
<1>1. CASE m_context = Null
  <2>1. Quiet
      BY <1>0, <1>1, QueueKept
  <2>2. To(t, "idle") \/ To(t, "user")
      BY <1>1 DEF TakeContext, TakeContextAs, Home
  <2> QED
      BY <2>1, <2>2, MovesTo DEF Labels, TakerLabels
<1>2. CASE m_context # Null
  <2> DEFINE n == m_context
  <2>1. /\ n \in 1 .. connects /\ n \in Ids /\ deletes[n] = 0 /\ n \notin Named(tasks)
      BY <1>2, WinStreamAssumption DEF CleanInv, StreamTypes, OwnedIsLive, TasksOwn, Null, Ids
  <2>2. PICK l \in {"close", "close_abort"} :
           pc' = [pc EXCEPT ![t] = l] /\ cur' = [cur EXCEPT ![t] = n]
      BY <1>2 DEF TakeContext, TakeContextAs, Begin
  <2>3. \A u \in Threads : Taker(u)' => \/ u = t /\ cur'[u] = n
                                        \/ u # t /\ Taker(u) /\ cur'[u] = cur[u] /\ cur[u] # n
      BY <2>2 DEF CleanInv, StreamTypes, Taker, TakersOwn
  <2> HIDE DEF n
  <2> USE DEF CleanInv
  <2>4. StreamTypes'
      BY <1>0, <2>1, <2>2, WinStreamAssumption DEF StreamTypes, Labels, TakerLabels, queue, Null
  <2>5. TasksOwn'
      BY <1>0 DEF TasksOwn, queue, Null
  <2>6. TakersOwn'
      BY <1>0, <2>1, <2>3 DEF TakersOwn, queue, Null
  <2>7. OwnedIsLive'
      BY <1>0, <2>1, <2>3 DEF OwnedIsLive, queue, Null
  <2> QED
      BY <2>4, <2>5, <2>6, <2>7
<1> QED
    BY <1>1, <1>2

\* disconnect, the destructor, and the cleanup by the thread that took the context.
LEMMA DisconnectSteps ==
    ASSUME CleanInv, NEW t \in Threads,
           \/ DisconnectStream(t) \/ DestroyStream(t) \/ SetDisconnecting(t)
           \/ CloseSocket(t) \/ WaitForCallbacks(t) \/ StartCleanup(t)
    PROVE  CleanInv'
<1>0. m_context \in Ids /\ cur[t] \in Ids
    BY WinStreamAssumption DEF CleanInv, StreamTypes, Ids
<1> USE DEF Labels, TakerLabels
<1>1. CASE DisconnectStream(t)
  <2>1. Quiet /\ Begin(t, "state", m_context)
      BY <1>1, QueueKept DEF DisconnectStream, counts
  <2> QED
      BY <1>0, <2>1, MovesBegin
<1>2. CASE DestroyStream(t)
  <2>1. Quiet
      BY <1>2, QueueKept DEF DestroyStream, counts
  <2>2. \/ Begin(t, "user", m_context) \/ Begin(t, "state", m_context)
        \/ UNCHANGED threads
      BY <1>2 DEF DestroyStream
  <2> QED
      BY <1>0, <2>1, <2>2, MovesBegin, Stays
<1>3. CASE SetDisconnecting(t)
  <2>1. Quiet
      BY <1>3, QueueKept DEF SetDisconnecting, counts
  <2>2. To(t, "take") \/ To(t, "abort") \/ To(t, "idle") \/ To(t, "user")
      BY <1>3 DEF SetDisconnecting, Home
  <2> QED
      BY <2>1, <2>2, MovesTo
<1>4. CASE CloseSocket(t)
  <2>1. Quiet
    <3>1. CASE pc[t] = "close_abort"
        BY <1>0, <1>4, <3>1, QueueGrows DEF CloseSocket, CloseThen, counts, Kinds
    <3>2. CASE pc[t] # "close_abort"
        BY <1>4, <3>2, QueueKept DEF CloseSocket, CloseThen, counts
    <3> QED
        BY <3>1, <3>2
  <2>2. To(t, "callbacks") /\ Taker(t)
      BY <1>4 DEF CloseSocket, CloseThen, Taker
  <2> QED
      BY <2>1, <2>2, MovesTo
<1>5. CASE WaitForCallbacks(t)
  <2>1. Quiet
      BY <1>5, QueueKept DEF WaitForCallbacks, counts
  <2>2. (To(t, "crashed") \/ To(t, "cleanup")) /\ Taker(t)
      BY <1>5 DEF WaitForCallbacks, Place, Taker
  <2> QED
      BY <2>1, <2>2, MovesTo
<1>6. CASE StartCleanup(t)
  <2>1. Quiet
      BY <1>0, <1>6, QueueGrows DEF StartCleanup, counts, Kinds
  <2>2. (To(t, "wait") \/ To(t, "idle") \/ To(t, "user")) /\ Taker(t)
      BY <1>6 DEF StartCleanup, Using, Place, Taker, Home
  <2> QED
      BY <2>1, <2>2, MovesTo
<1> QED
    BY <1>1, <1>2, <1>3, <1>4, <1>5, <1>6

\* The thread that took a context deletes it, and owns nothing any more.
LEMMA CleansUp == ASSUME CleanInv, NEW t \in Threads, CleanedUp(t) PROVE CleanInv'
<1> DEFINE n == cur[t]
<1>1. /\ Taker(t) /\ n \in 1 .. connects /\ n \in Connections /\ deletes[n] = 0
      /\ n # m_context /\ n \notin Named(tasks)
    BY WinStreamAssumption
    DEF CleanedUp, Place, Taker, TakerLabels, CleanInv, TakersOwn, OwnedIsLive, StreamTypes,
        Connections
<1>2. deletes' = [deletes EXCEPT ![n] = 1]
    BY <1>1 DEF CleanedUp, CleanInv, StreamTypes
<1>3. UNCHANGED <<m_context, queue, connects>>
    BY DEF CleanedUp, counts
<1>4. /\ pc' = [pc EXCEPT ![t] = Home(t)] /\ Home(t) \in {"idle", "user"}
      /\ cur' = [cur EXCEPT ![t] = Null]
    BY DEF CleanedUp, To, Home
<1>5. \A u \in Threads : Taker(u)' => Taker(u) /\ cur'[u] = cur[u] /\ cur[u] # n
    BY <1>1, <1>4 DEF Taker, TakerLabels, CleanInv, TakersOwn, StreamTypes
<1> HIDE DEF n
<1> USE DEF CleanInv
<1>6. StreamTypes'
    BY <1>1, <1>2, <1>3, <1>4, WinStreamAssumption DEF StreamTypes, Labels, queue, Null, Ids
<1>7. TasksOwn'
    BY <1>3 DEF TasksOwn, queue
<1>8. TakersOwn'
    BY <1>3, <1>5 DEF TakersOwn, queue
<1>9. \A u \in Threads : Taker(u)' => cur[u] \in Connections
    BY <1>5, WinStreamAssumption DEF TakersOwn, StreamTypes, Connections
<1>10. /\ \A k \in Named(tasks) : k \in Connections
       /\ m_context # Null => m_context \in Connections
    BY WinStreamAssumption DEF TasksOwn, StreamTypes, Connections, Null
<1>11. OwnedIsLive'
    BY <1>1, <1>2, <1>3, <1>5, <1>9, <1>10 DEF OwnedIsLive, StreamTypes, queue
<1> QED
    BY <1>6, <1>7, <1>8, <1>11

\* write and a use of a deleted context: no owner changes.
LEMMA WriteSteps ==
    ASSUME CleanInv, NEW t \in Threads,
           \/ WriteStream(t) \/ CheckConnected(t) \/ PrepareUnlessBusy(t) \/ WriteFile(t)
           \/ Crashes(t)
    PROVE  CleanInv'
<1>0. m_context \in Ids
    BY WinStreamAssumption DEF CleanInv, StreamTypes, Ids
<1>1. Quiet
    BY QueueKept DEF WriteStream, CheckConnected, PrepareUnlessBusy, Prepare, Refuse,
                     WriteFile, Crashes, counts
<1>2. CASE WriteStream(t)
  <2>1. Begin(t, "check", m_context)
      BY <1>2 DEF WriteStream
  <2> QED
      BY <1>0, <1>1, <2>1, MovesBegin DEF Labels, TakerLabels
<1>3. CASE CheckConnected(t) \/ PrepareUnlessBusy(t) \/ WriteFile(t) \/ Crashes(t)
  <2>1. \/ To(t, "busy") \/ To(t, "file") \/ To(t, "crashed")
        \/ To(t, "idle") \/ To(t, "user")
      BY <1>3 DEF CheckConnected, PrepareUnlessBusy, Prepare, Refuse, WriteFile, Crashes, Home
  <2> QED
      BY <1>1, <2>1, MovesTo DEF Labels, TakerLabels
<1> QED
    BY <1>2, <1>3

\* The completions on the pool: only a failed connect takes the context.
LEMMA CallbackSteps ==
    ASSUME CleanInv, NEW w \in Workers, OnPool(w)
    PROVE  CleanInv'
<1>0. w \in Threads /\ cur[w] \in Ids
    BY DEF Threads, CleanInv, StreamTypes
<1> USE DEF Labels, TakerLabels
<1>1. ASSUME NEW n \in Connections, OnRead(w, n) \/ OnWritten(w, n) PROVE CleanInv'
  <2>1. Quiet
      BY <1>1, QueueKept DEF OnRead, OnWritten, counts
  <2>2. n \in Ids /\ n # Null
      BY WinStreamAssumption DEF Connections, Ids, Null
  <2>3. PICK l \in {"crashed", "failed", "acknowledge", "received", "ended", "event", "idle"} :
           Begin(w, l, n)
    <3>1. CASE OnRead(w, n)
      <4>1. PICK k \in {"failed", "acknowledge", "received", "ended"} : Completion(w, n, k)
          BY <3>1 DEF OnRead
      <4> QED
          BY <4>1 DEF Completion
    <3>2. CASE OnWritten(w, n)
      <4>1. PICK k \in {"event", "idle"} : Completion(w, n, k)
          BY <3>2 DEF OnWritten
      <4> QED
          BY <4>1 DEF Completion
    <3> QED
        BY <1>1, <3>1, <3>2
  <2> QED
      BY <1>0, <2>1, <2>2, <2>3, MovesBegin
<1>2. CASE Acknowledge(w) \/ ProcessWrite(w)
  <2>1. Quiet
      BY <1>2, QueueKept DEF Acknowledge, ProcessWrite, counts
  <2>2. To(w, "post") \/ To(w, "idle") \/ To(w, "file") \/ To(w, "written")
      BY <1>2 DEF Acknowledge, ProcessWrite
  <2> QED
      BY <1>0, <2>1, <2>2, MovesTo
<1>3. CASE PostConnect(w) \/ ProcessRead(w) \/ PostWritten(w)
  <2>1. PICK kind \in {"connect", "on_read", "on_event", "on_write"} : Post(kind, cur[w])
      BY <1>3 DEF PostConnect, ProcessRead, PostWritten
  <2>2. Quiet
      BY <1>0, <1>3, <2>1, QueueGrows DEF PostConnect, ProcessRead, PostWritten, counts, Kinds
  <2>3. To(w, "idle")
      BY <1>3 DEF PostConnect, ProcessRead, PostWritten
  <2> QED
      BY <1>0, <2>2, <2>3, MovesTo
<1>4. CASE FailIfTaken(w)
  <2>1. cur[w] # Null /\ Fail(w, m_context = cur[w])
      BY <1>0, <1>4 DEF FailIfTaken, Place, CleanInv, StreamTypes
  <2> QED
      BY <1>0, <2>1, FailsOwn
<1> QED
    BY <1>1, <1>2, <1>3, <1>4 DEF OnPool

\* A cleanup on the executor: the context is deleted by the task that owns it, or
\* its taker, who waits for the task, may go on.
LEMMA CleanupOwn == ASSUME CleanInv, Cleanup PROVE CleanInv'
<1> DEFINE n == Head(tasks).n
<1>0. tasks # << >> /\ tasks' = Tail(tasks) /\ UNCHANGED <<m_context, connects, task, executor, cur>>
    BY DEF Cleanup, NextIs, counts
<1>1. /\ Head(tasks) \in StreamTask /\ tasks' \in Seq(StreamTask)
      /\ Named(tasks') \subseteq Named(tasks) /\ OnceEach(tasks')
      /\ Head(tasks).kind = "cleanup_io" => n \in Named(tasks) /\ n \notin Named(tasks')
    BY <1>0, WithoutFirst DEF CleanInv, StreamTypes, TasksOwn
<1>2. CASE Head(tasks).kind = "cleanup"
  <2>1. /\ pc' = [t \in Threads |-> IF pc[t] = "wait" /\ cur[t] = n THEN "finished" ELSE pc[t]]
        /\ UNCHANGED deletes
      BY <1>2 DEF Cleanup
  <2> HIDE DEF n
  <2>2. \A t \in Threads : Taker(t)' => Taker(t) /\ cur'[t] = cur[t]
      BY <1>0, <2>1 DEF Taker, TakerLabels
  <2> USE DEF CleanInv
  <2>3. StreamTypes'
      BY <1>0, <1>1, <2>1 DEF StreamTypes, Labels, TakerLabels
  <2>4. TasksOwn'
      BY <1>0, <1>1 DEF TasksOwn
  <2>5. TakersOwn'
      BY <1>0, <1>1, <2>2 DEF TakersOwn
  <2>6. OwnedIsLive'
      BY <1>0, <1>1, <2>1, <2>2 DEF OwnedIsLive
  <2> QED
      BY <2>3, <2>4, <2>5, <2>6
<1>3. CASE Head(tasks).kind = "cleanup_io"
  <2>1. /\ n \in Named(tasks) /\ n \notin Named(tasks') /\ n \in 1 .. connects
        /\ n \in Connections /\ deletes[n] = 0 /\ n # m_context
      BY <1>1, <1>3, WinStreamAssumption
      DEF CleanInv, StreamTypes, TasksOwn, OwnedIsLive, Connections
  <2>2. deletes' = [deletes EXCEPT ![n] = 1] /\ pc' = pc
      BY <1>3, <2>1 DEF Cleanup, Dangling, CleanInv, StreamTypes
  <2>3. \A u \in Threads : Taker(u)' => Taker(u) /\ cur'[u] = cur[u] /\ cur[u] # n
      BY <1>0, <2>1, <2>2 DEF Taker, CleanInv, TakersOwn
  <2> HIDE DEF n
  <2> USE DEF CleanInv
  <2>4. StreamTypes'
      BY <1>0, <1>1, <2>1, <2>2 DEF StreamTypes
  <2>5. TasksOwn'
      BY <1>0, <1>1 DEF TasksOwn
  <2>6. TakersOwn'
      BY <1>0, <1>1, <2>3 DEF TakersOwn
  <2>7. /\ \A u \in Threads : Taker(u)' => cur[u] \in Connections
        /\ \A k \in Named(tasks) : k \in Connections
        /\ m_context # Null => m_context \in Connections
      BY <2>3, WinStreamAssumption DEF TasksOwn, TakersOwn, StreamTypes, Connections, Null
  <2>8. OwnedIsLive'
      BY <1>0, <1>1, <2>1, <2>2, <2>3, <2>7 DEF OwnedIsLive, StreamTypes
  <2> QED
      BY <2>4, <2>5, <2>6, <2>8
<1> QED
    BY <1>2, <1>3 DEF Cleanup, NextIs

\* The executor: callbacks, the next read, and the last reference.
LEMMA ExecutorSteps == ASSUME CleanInv, OnExecutor \/ ExecutorDestroyed PROVE CleanInv'
<1>0. /\ Executor \in Threads /\ cur[Executor] \in Ids /\ m_context \in Ids
      /\ task.n \in Ids /\ Null \in Ids /\ NoTask \in StreamTask
    BY WinStreamAssumption
    DEF Threads, CleanInv, StreamTypes, StreamTask, Kinds, NoTask, Ids, Null
<1>1. CASE CallUser
  <2>1. /\ tasks # << >> /\ tasks' = Tail(tasks) /\ pc[Executor] = "idle"
        /\ UNCHANGED <<m_context, connects, deletes, executor, cur>>
      BY <1>1 DEF CallUser, NextIs, counts
  <2>2. Head(tasks) \in StreamTask
      BY <2>1, WithoutFirst DEF CleanInv, StreamTypes
  <2>3. task' \in StreamTask
      BY <1>1, <2>2 DEF CallUser, CleanInv, StreamTypes
  <2>4. Quiet
      BY <2>1, <2>3, WithoutFirst DEF Quiet, CleanInv, StreamTypes, TasksOwn
  <2>5. pc' = [pc EXCEPT ![Executor] = "user"] \/ pc' = pc
      BY <1>1 DEF CallUser
  <2>6. cur' = [cur EXCEPT ![Executor] = cur[Executor]]
      BY <1>0, <2>1 DEF CleanInv, StreamTypes
  <2> QED
      BY <1>0, <2>1, <2>4, <2>5, <2>6, Moves, Stays DEF Labels, TakerLabels, threads
<1>2. CASE UserReturns
  <2>1. task' = NoTask /\ UNCHANGED <<m_context, connects, deletes, tasks, executor>>
      BY <1>2 DEF UserReturns, counts
  <2>2. Quiet
      BY <1>0, <2>1 DEF Quiet, CleanInv, StreamTypes, TasksOwn
  <2>3. Begin(Executor, "read", task.n) \/ Begin(Executor, "leave", Null)
      BY <1>2 DEF UserReturns
  <2> QED
      BY <1>0, <2>2, <2>3, MovesBegin DEF Labels, TakerLabels
<1>3. CASE StartRead
  <2>1. Quiet /\ To(Executor, "leave")
      BY <1>3, QueueKept DEF StartRead, counts
  <2> QED
      BY <1>0, <2>1, MovesTo DEF Labels, TakerLabels
<1>4. CASE StartReadFails
  <2>1. cur[Executor] # Null
      BY <1>4, WinStreamAssumption DEF StartReadFails, Using, Dangling, Connections, Null
  <2>2. CASE get_state \in {"connecting", "connected"}
      BY <1>0, <1>4, <2>1, <2>2, FailsOwn DEF StartReadFails
  <2>3. CASE get_state \notin {"connecting", "connected"}
      BY <1>0, <1>4, <2>1, <2>3, DeletesOwn DEF StartReadFails, Labels, TakerLabels, counts
  <2> QED
      BY <2>2, <2>3
<1>5. CASE LeaveCallback
  <2>1. Quiet
      BY <1>5, QueueKept DEF LeaveCallback, counts
  <2>2. Begin(Executor, "state", m_context) \/ To(Executor, "idle")
      BY <1>5 DEF LeaveCallback
  <2> QED
      BY <1>0, <2>1, <2>2, MovesBegin, MovesTo DEF Labels, TakerLabels
<1>6. CASE Cleanup
    BY <1>6, CleanupOwn
<1>7. CASE ExecutorDestroyed
  <2>1. Named(<< >>) = {} /\ OnceEach(<< >>)
      BY DEF Named, OnceEach, Cleanups
  <2>2. /\ tasks' = << >> /\ executor' = FALSE
        /\ UNCHANGED <<m_context, connects, deletes, task, threads>>
      BY <1>7 DEF ExecutorDestroyed, counts
  <2>3. << >> \in Seq(StreamTask) /\ Named(<< >>) \subseteq Named(tasks)
      BY <2>1
  <2>4. Quiet
      BY <2>1, <2>2, <2>3 DEF Quiet, CleanInv, StreamTypes
  <2> QED
      BY <2>2, <2>4, Stays
<1> QED
    BY <1>1, <1>2, <1>3, <1>4, <1>5, <1>6, <1>7 DEF OnExecutor

\* The peer moves no context.
LEMMA PeerSteps ==
    ASSUME CleanInv, NEW n \in Connections,
           PeerAnswers(n) \/ PeerSends(n) \/ PeerCloses(n) \/ WriteCompletes(n)
    PROVE  CleanInv'
<1>1. Quiet /\ UNCHANGED threads
    BY QueueKept DEF PeerAnswers, PeerSends, PeerCloses, WriteCompletes, Completes, counts
<1> QED
    BY <1>1, Stays

LEMMA CleanStep == CleanInv /\ [StreamNext]_streamVars => CleanInv'
<1> SUFFICES ASSUME CleanInv, [StreamNext]_streamVars PROVE CleanInv'
    OBVIOUS
<1>1. ASSUME NEW t \in Threads,
             \/ ConnectStream(t) \/ SetsHandle(t) \/ WriteStream(t)
             \/ DisconnectStream(t) \/ DestroyStream(t) \/ OnThread(t)
      PROVE  CleanInv'
    BY <1>1, ConnectSteps, TakesOwn, DisconnectSteps, CleansUp, WriteSteps DEF OnThread
<1>2. ASSUME NEW w \in Workers, OnPool(w) PROVE CleanInv'
    BY <1>2, CallbackSteps
<1>3. CASE OnExecutor \/ ExecutorDestroyed
    BY <1>3, ExecutorSteps
<1>4. ASSUME NEW n \in Connections,
             PeerAnswers(n) \/ PeerSends(n) \/ PeerCloses(n) \/ WriteCompletes(n)
      PROVE  CleanInv'
    BY <1>4, PeerSteps
<1>5. CASE UNCHANGED streamVars
  <2>1. Quiet /\ UNCHANGED threads
      BY <1>5, QueueKept DEF streamVars, counts
  <2> QED
      BY <2>1, Stays
<1> QED
    BY <1>1, <1>2, <1>3, <1>4, <1>5 DEF StreamNext, Runs

LEMMA CleanInit == StreamInit => CleanInv
<1> SUFFICES ASSUME StreamInit PROVE CleanInv
    OBVIOUS
<1>1. Named(tasks) = {} /\ OnceEach(tasks)
    BY DEF StreamInit, Named, OnceEach, Cleanups
<1>2. \A t \in Threads : ~Taker(t) /\ pc[t] \in Labels /\ pc[t] # "failed"
    BY DEF StreamInit, Taker, TakerLabels, Labels
<1>3. StreamTypes
    BY <1>2, WinStreamAssumption DEF StreamInit, StreamTypes, StreamTask, Kinds, NoTask, Ids, Null
<1>4. TasksOwn /\ TakersOwn /\ OwnedIsLive
    BY <1>1, <1>2 DEF StreamInit, TasksOwn, TakersOwn, OwnedIsLive
<1> QED
    BY <1>3, <1>4 DEF CleanInv

(***************************************************************************)
(* Whatever disconnect(), the destructor, failed connects and failed reads *)
(* find at the same time, and however many connections there are, one of   *)
(* them deletes the context of each (start_cleanup and the completion      *)
(* callbacks of class stream).                                             *)
(***************************************************************************)
THEOREM DeletesOnce == WinStreamSpec => []CleanedUpOnce
<1>1. CleanInv => CleanedUpOnce
    BY DEF CleanInv, StreamTypes, CleanedUpOnce
<1> QED
    BY <1>1, CleanInit, CleanStep, PTL DEF WinStreamSpec
-----------------------------------------------------------------------------
(* The stream: what m_wr_busy protects.                                     *)

Context == [st : {"connecting", "connected", "disconnecting"}, socket : {"none", "open", "closed"},
            busy : BOOLEAN, data : Nat, pos : Nat]

ContextShape == ctx \in [Connections -> Context] /\ DOMAIN wr = Connections

\* A thread that is about to call WriteFile or works on its completion.
Transmits(t, n) == cur[t] = n /\ pc[t] \in {"event", "file"}

\* One of them at most, or the operation on its way, has m_wr_busy.
OneTransmits(n) ==
    /\ wr[n] # "none" => ctx[n].busy /\ \A t \in Threads : ~Transmits(t, n)
    /\ \A t \in Threads :
          Transmits(t, n) => ctx[n].busy /\ \A u \in Threads : Transmits(u, n) => u = t

BusyInv == ContextShape /\ \A n \in Connections : OneTransmits(n)

\* The data stays, while any of them is there.
DataKept ==
    \A n \in Connections :
        wr[n] # "none" \/ (\E w \in Workers : cur[w] = n /\ pc[w] \in {"event", "file"})
            => ctx'[n].data = ctx[n].data

\* A step that leaves m_wr_busy and the data alone, and begins no transmission.
KeepsBusy ==
    /\ \A n \in Connections :
          /\ ctx'[n].busy = ctx[n].busy
          /\ ctx'[n].data = ctx[n].data
          /\ wr'[n] # "none" => wr[n] # "none"
          /\ \A t \in Threads : Transmits(t, n)' => Transmits(t, n)
    /\ ContextShape'

LEMMA BusyKept == BusyInv /\ KeepsBusy => BusyInv' /\ DataKept
  BY DEF BusyInv, KeepsBusy, OneTransmits, DataKept

\* A step of a thread to a place where it does not transmit.
LEMMA LeavesTransmission ==
    ASSUME StreamTypes, NEW t \in Threads, NEW l \in Labels \ {"event", "file"},
           pc' = [pc EXCEPT ![t] = l], \A u \in Threads \ {t} : cur'[u] = cur[u]
    PROVE  \A n \in Connections : \A u \in Threads : Transmits(u, n)' => Transmits(u, n)
  BY DEF StreamTypes, Transmits

LEMMA ContextsKept ==
    ASSUME BusyInv, UNCHANGED <<ctx, wr>>,
           \A n \in Connections : \A u \in Threads : Transmits(u, n)' => Transmits(u, n)
    PROVE  BusyInv' /\ DataKept
<1>1. KeepsBusy
    BY DEF BusyInv, KeepsBusy, ContextShape
<1> QED
    BY <1>1, BusyKept

LEMMA MovesOn ==
    ASSUME CleanInv, BusyInv, UNCHANGED <<ctx, wr>>, NEW t \in Threads,
           NEW l \in Labels \ {"event", "file"}, NEW n, To(t, l) \/ Begin(t, l, n)
    PROVE  BusyInv' /\ DataKept
<1>1. pc' = [pc EXCEPT ![t] = l] /\ \A u \in Threads \ {t} : cur'[u] = cur[u]
    BY DEF To, Begin, CleanInv, StreamTypes
<1> QED
    BY <1>1, LeavesTransmission, ContextsKept DEF CleanInv


\* The steps of the threads that change no context and no operation.
LEMMA ThreadsKeepBusy ==
    ASSUME CleanInv, BusyInv, NEW t \in Threads,
           \/ ConnectStream(t) \/ WriteStream(t) \/ DisconnectStream(t)
           \/ DestroyStream(t) \/ ConnectEx(t) \/ ConnectExFails(t)
           \/ TakeContext(t) \/ StartCleanup(t) \/ CleanedUp(t) \/ CheckConnected(t) \/ Crashes(t)
    PROVE  BusyInv' /\ DataKept
<1>1. UNCHANGED <<ctx, wr>>
    BY DEF ConnectStream, WriteStream, DisconnectStream, DestroyStream, ConnectEx, ConnectExFails,
           TakeContext, TakeContextAs, StartCleanup, CleanedUp, CheckConnected, Crashes, io
<1>2. CASE UNCHANGED threads
    BY <1>1, <1>2, ContextsKept DEF Transmits, threads
<1>3. CASE \E l \in Labels \ {"event", "file"} : To(t, l) \/ \E n : Begin(t, l, n)
    BY <1>1, <1>3, MovesOn
<1>4. UNCHANGED threads \/ \E l \in Labels \ {"event", "file"} : To(t, l) \/ \E n : Begin(t, l, n)
  <2>1. {"user", "idle", "socket", "state", "close", "close_abort", "check", "wait", "busy",
         "crashed"} \subseteq Labels \ {"event", "file"}
      BY DEF Labels, TakerLabels
  <2>2. CASE ConnectStream(t) \/ WriteStream(t) \/ DisconnectStream(t) \/ DestroyStream(t)
      BY <2>1, <2>2 DEF ConnectStream, WriteStream, DisconnectStream, DestroyStream
  <2>3. CASE ConnectEx(t) \/ ConnectExFails(t) \/ TakeContext(t)
      BY <2>1, <2>3 DEF ConnectEx, ConnectExFails, TakeContext, TakeContextAs, Home
  <2>4. CASE StartCleanup(t) \/ CleanedUp(t) \/ CheckConnected(t) \/ Crashes(t)
      BY <2>1, <2>4 DEF StartCleanup, CleanedUp, CheckConnected, Crashes, Home
  <2> QED
      BY <2>2, <2>3, <2>4
<1> QED
    BY <1>2, <1>3, <1>4

\* The steps that change the state or the socket of a context.
LEMMA ContextsKeepBusy ==
    ASSUME CleanInv, BusyInv, NEW t \in Threads,
           \/ SocketFor(t) \/ SetsHandle(t) \/ SetDisconnecting(t) \/ CloseSocket(t)
           \/ WaitForCallbacks(t) \/ Acknowledge(t)
    PROVE  BusyInv' /\ DataKept
<1> USE DEF BusyInv, ContextShape
<1> DEFINE Sets == SetsHandle(t)
<1>0. Sets => UNCHANGED <<threads, wr>> /\ ctx' \in {ctx, Accepted}
    BY DEF SetsHandle, SetHandleOf, SetHandleThrows, SetHandleFails, SetHandle
<1> HIDE DEF Sets
<1>1. PICK l \in Labels \ {"event", "file"} : To(t, l) \/ UNCHANGED threads
  <2>1. {"user", "idle", "issue", "take", "abort", "callbacks", "cleanup", "crashed", "post"}
            \subseteq Labels \ {"event", "file"}
      BY DEF Labels, TakerLabels
  <2>2. CASE SocketFor(t) \/ Sets \/ Acknowledge(t)
      BY <1>0, <2>1, <2>2 DEF SocketFor, Acknowledge, Home
  <2>3. CASE SetDisconnecting(t)
      BY <2>1, <2>3 DEF SetDisconnecting, Home
  <2>4. CASE CloseSocket(t) \/ WaitForCallbacks(t)
      BY <2>1, <2>4 DEF CloseSocket, CloseThen, WaitForCallbacks
  <2> QED
      BY <2>2, <2>3, <2>4 DEF Sets
<1>2. \A n \in Connections : \A u \in Threads : Transmits(u, n)' => Transmits(u, n)
  <2>1. CASE To(t, l)
      BY <2>1, LeavesTransmission DEF To, CleanInv, StreamTypes
  <2>2. CASE UNCHANGED threads
      BY <2>2 DEF Transmits, threads
  <2> QED
      BY <1>1, <2>1, <2>2
<1> DEFINE Sockets == {"none", "open", "closed"}
           States == {"connecting", "connected", "disconnecting"}
           Same == /\ ctx' \in [Connections -> Context]
                   /\ \A n \in Connections : ctx'[n].busy = ctx[n].busy /\ ctx'[n].data = ctx[n].data
<1>3. ASSUME NEW k, NEW x \in Sockets, ctx' = [ctx EXCEPT ![k].socket = x] PROVE Same
    BY <1>3 DEF Context
<1>4. ASSUME NEW k, NEW y \in States, ctx' = [ctx EXCEPT ![k].st = y] PROVE Same
    BY <1>4 DEF Context
<1>5. ASSUME ctx' = [ctx EXCEPT ![1].st = "connected", ![1].socket = "open"] PROVE Same
  <2> DEFINE mid == [ctx EXCEPT ![1].st = "connected"]
  <2>1. /\ mid \in [Connections -> Context]
        /\ \A n \in Connections : mid[n].busy = ctx[n].busy /\ mid[n].data = ctx[n].data
      BY DEF Context
  <2>2. ctx' = [mid EXCEPT ![1].socket = "open"]
      BY <1>5
  <2> HIDE DEF mid
  <2>3. ASSUME NEW n \in Connections
        PROVE  ctx'[n] \in Context /\ ctx'[n].busy = mid[n].busy /\ ctx'[n].data = mid[n].data
    <3>1. mid[n] \in Context /\ (ctx'[n] = mid[n] \/ ctx'[n] = [mid[n] EXCEPT !.socket = "open"])
        BY <2>1, <2>2
    <3> QED
        BY <3>1 DEF Context
  <2>4. ctx' = [n \in Connections |-> ctx'[n]]
      BY <2>1, <2>2
  <2> QED
      BY <2>1, <2>3, <2>4
<1>6. CASE SocketFor(t) \/ Sets \/ SetDisconnecting(t) \/ Acknowledge(t)
  <2>1. UNCHANGED wr
      BY <1>0, <1>6 DEF SocketFor, SetDisconnecting, Acknowledge, io
  <2>2. ASSUME SocketFor(t) PROVE Same
    <3>1. ctx' = ctx \/ ctx' = [ctx EXCEPT ![cur[t]].socket = "open"]
        BY <2>2 DEF SocketFor
    <3> QED
        BY <1>3, <3>1
  <2>3. ASSUME Sets PROVE Same
      BY <1>0, <1>5, <2>3 DEF Accepted
  <2>4. ASSUME SetDisconnecting(t) PROVE Same
    <3> DEFINE y == IF ctx[cur[t]].st = "connected" THEN "disconnecting" ELSE ctx[cur[t]].st
    <3>1. ctx' = [ctx EXCEPT ![cur[t]].st = y] /\ y \in States
        BY <2>4 DEF SetDisconnecting, Using, Dangling, Context
    <3> HIDE DEF y
    <3> QED
        BY <1>4, <3>1
  <2>5. ASSUME Acknowledge(t) PROVE Same
    <3>1. ctx' = ctx \/ ctx' = [ctx EXCEPT ![m_context].st = "connected"]
        BY <2>5 DEF Acknowledge
    <3> QED
        BY <1>4, <3>1
  <2> QED
      BY <1>2, <1>6, <2>1, <2>2, <2>3, <2>4, <2>5, BusyKept DEF KeepsBusy
<1>7. CASE CloseSocket(t)
  <2> DEFINE x == IF ctx[cur[t]].socket = "open" THEN "closed" ELSE ctx[cur[t]].socket
  <2>1. cur[t] \in Connections
      BY <1>7, WinStreamAssumption DEF CloseSocket, CloseThen, CleanInv, TakersOwn, Taker, TakerLabels,
         StreamTypes, Connections
  <2>2. ctx' = [ctx EXCEPT ![cur[t]].socket = x] /\ x \in Sockets
      BY <1>7, <2>1 DEF CloseSocket, CloseThen, Context
  <2>3. wr' = AbortedIo(wr, cur[t])
      BY <1>7 DEF CloseSocket, CloseThen
  <2> HIDE DEF x
  <2> QED
      BY <1>2, <1>3, <2>2, <2>3, BusyKept DEF KeepsBusy, AbortedIo
<1>8. CASE WaitForCallbacks(t)
  <2>1. wr' = [wr EXCEPT ![cur[t]] = "none"] /\ ctx' = ctx
      BY <1>8 DEF WaitForCallbacks
  <2> QED
      BY <1>2, <2>1, BusyKept DEF KeepsBusy
<1> QED
    BY <1>6, <1>7, <1>8 DEF Sets

\* write() goes on if it finds m_wr_busy clear; then nobody transmits.
LEMMA WritesAlone ==
    ASSUME CleanInv, BusyInv, NEW t \in Threads, PrepareUnlessBusy(t) \/ WriteFile(t)
    PROVE  BusyInv' /\ DataKept
<1>1. CASE Refuse(t)
  <2>1. UNCHANGED <<ctx, wr>> /\ (To(t, "user") \/ To(t, "idle"))
      BY <1>1 DEF Refuse, io, Home
  <2> QED
      BY <2>1, MovesOn DEF Labels, TakerLabels
<1>2. CASE Prepare(t) /\ ~(cur[t] # Null /\ ctx[cur[t]].busy)
  <2> DEFINE k == cur[t]
  <2>1. k \in Connections /\ k # Null /\ pc[t] = "busy"
      BY <1>2, WinStreamAssumption DEF Prepare, Using, Place, Dangling, Connections, Null
  <2>2. /\ ctx' = [ctx EXCEPT ![k].busy = TRUE, ![k].data = @ + 1, ![k].pos = 0]
        /\ wr' = wr
        /\ pc' = [pc EXCEPT ![t] = "file"] /\ cur' = cur
      BY <1>2 DEF Prepare, To, io, CleanInv, StreamTypes
  <2>3. ~ctx[k].busy
      BY <1>2, <2>1
  <2> HIDE DEF k
  <2>4. /\ ctx' \in [Connections -> Context] /\ ctx'[k].busy
        /\ \A n \in Connections \ {k} : ctx'[n] = ctx[n]
      BY <2>1, <2>2 DEF BusyInv, ContextShape, Context
  <2>5. wr[k] = "none" /\ \A u \in Threads : ~Transmits(u, k)
      BY <2>1, <2>3 DEF BusyInv, OneTransmits
  <2>6. /\ \A u \in Threads \ {t} : \A n \in Connections : Transmits(u, n)' <=> Transmits(u, n)
        /\ \A n \in Connections \ {k} : ~Transmits(t, n)'
        /\ \A n \in Connections : ~Transmits(t, n)
      BY <2>1, <2>2 DEF Transmits, CleanInv, StreamTypes, k
  <2>7. ASSUME NEW n \in Connections PROVE OneTransmits(n)'
      BY <2>2, <2>4, <2>5, <2>6, <2>7 DEF BusyInv, OneTransmits
  <2>8. DataKept
      BY <2>4, <2>5 DEF DataKept, Transmits, Threads
  <2> QED
      BY <2>2, <2>4, <2>7, <2>8 DEF BusyInv, ContextShape
<1>3. CASE WriteFile(t)
  <2> DEFINE k == cur[t]
  <2>1. k \in Connections /\ Transmits(t, k)
      BY <1>3 DEF WriteFile, Using, Place, Dangling, Transmits
  <2>2. /\ ctx' = ctx
        /\ wr' = wr \/ wr' = [wr EXCEPT ![k] = "write"]
        /\ \E l \in {"user", "idle"} : pc' = [pc EXCEPT ![t] = l] /\ cur' = [cur EXCEPT ![t] = Null]
      BY <1>3 DEF WriteFile, To, Home
  <2> HIDE DEF k
  <2>3. /\ \A u \in Threads \ {t} : \A n \in Connections : Transmits(u, n)' <=> Transmits(u, n)
        /\ \A n \in Connections : ~Transmits(t, n)'
      BY <2>2 DEF Transmits, CleanInv, StreamTypes
  <2>4. ASSUME NEW n \in Connections PROVE OneTransmits(n)'
      BY <2>1, <2>2, <2>3 DEF BusyInv, OneTransmits, ContextShape
  <2>5. ContextShape' /\ DataKept
      BY <2>2 DEF BusyInv, ContextShape, DataKept
  <2> QED
      BY <2>4, <2>5 DEF BusyInv
<1> QED
    BY <1>1, <1>2, <1>3 DEF PrepareUnlessBusy

\* A completion of WriteFile becomes a callback, the only one that transmits.
LEMMA CompletesAlone ==
    ASSUME CleanInv, BusyInv, NEW w \in Workers, NEW k \in Connections, OnWritten(w, k)
    PROVE  BusyInv' /\ DataKept
<1>1. /\ wr[k] # "none" /\ ctx' = ctx /\ wr' = [wr EXCEPT ![k] = "none"]
      /\ w \in Threads /\ pc[w] = "idle"
    BY DEF OnWritten, Completion, Place, Threads
<1>2. PICK l \in {"event", "idle", "crashed"} :
          /\ pc' = [pc EXCEPT ![w] = l]
          /\ \A u \in Threads \ {w} : cur'[u] = cur[u]
          /\ l = "event" => cur'[w] = k
    BY DEF OnWritten, Completion, Begin, CleanInv, StreamTypes
<1>3. /\ \A u \in Threads \ {w} : \A n \in Connections : Transmits(u, n)' <=> Transmits(u, n)
      /\ \A n \in Connections \ {k} : ~Transmits(w, n)'
    BY <1>1, <1>2 DEF Transmits, CleanInv, StreamTypes
<1>4. ctx[k].busy /\ \A u \in Threads : ~Transmits(u, k)
    BY <1>1 DEF BusyInv, OneTransmits
<1>5. ASSUME NEW n \in Connections PROVE OneTransmits(n)'
    BY <1>1, <1>3, <1>4 DEF BusyInv, OneTransmits, ContextShape
<1>6. ContextShape' /\ DataKept
    BY <1>1 DEF BusyInv, ContextShape, DataKept
<1> QED
    BY <1>5, <1>6 DEF BusyInv

\* It goes on with the rest, or clears m_wr_busy when it is the last to transmit.
LEMMA ProcessesAlone ==
    ASSUME CleanInv, BusyInv, NEW w \in Workers, ProcessWrite(w)
    PROVE  BusyInv' /\ DataKept
<1>1. PICK k \in Connections : k = cur[w] /\ Transmits(w, k) /\ w \in Threads
    BY DEF ProcessWrite, Using, Place, Dangling, Transmits, Threads
<1>2. PICK j \in 1..(WriteSize - ctx[k].pos) :
          /\ ctx' = [ctx EXCEPT ![k].pos = @ + j,
                               ![k].busy = (@ /\ ctx[k].pos + j < WriteSize)]
          /\ To(w, IF ctx[k].pos + j < WriteSize THEN "file" ELSE "written")
    BY <1>1 DEF ProcessWrite
<1>3. wr' = wr
    BY DEF ProcessWrite, io
<1> DEFINE more == ctx[k].pos + j < WriteSize
<1>4. /\ pc' = [pc EXCEPT ![w] = IF more THEN "file" ELSE "written"]
      /\ cur' = cur
    BY <1>2 DEF To, CleanInv, StreamTypes
<1>5. ctx[k] \in Context /\ ctx[k].busy /\ wr[k] = "none" /\ \A u \in Threads : Transmits(u, k) => u = w
    BY <1>1 DEF BusyInv, OneTransmits, ContextShape
<1>6. ctx' = [ctx EXCEPT ![k] = [ctx[k] EXCEPT !.pos = ctx[k].pos + j, !.busy = more]]
  <2>1. (ctx[k].busy /\ more) = more
      BY <1>5
  <2> QED
      BY <1>1, <1>2, <1>5, <2>1 DEF BusyInv, ContextShape, Context
<1>7. ctx[k].pos + j \in Nat
    BY <1>5, WinStreamAssumption DEF Context
<1>8. [ctx[k] EXCEPT !.pos = ctx[k].pos + j, !.busy = more] \in Context
  <2> DEFINE c == ctx[k]
             p == ctx[k].pos + j
  <2>1. c \in Context /\ p \in Nat /\ more \in BOOLEAN
      BY <1>5, <1>7
  <2> HIDE DEF c, p, more
  <2>2. [c EXCEPT !.pos = p, !.busy = more] \in Context
      BY <2>1 DEF Context
  <2> QED
      BY <2>2 DEF c, p
<1> HIDE DEF more
<1>9. /\ ctx' \in [Connections -> Context]
      /\ \A n \in Connections \ {k} : ctx'[n] = ctx[n]
      /\ (more => ctx'[k].busy) /\ ctx'[k].data = ctx[k].data
    BY <1>1, <1>5, <1>6, <1>8 DEF BusyInv, ContextShape, Context
<1>10. /\ \A u \in Threads \ {w} : \A n \in Connections : Transmits(u, n)' <=> Transmits(u, n)
       /\ \A n \in Connections \ {k} : ~Transmits(w, n)'
       /\ Transmits(w, k)' => more
    BY <1>1, <1>4 DEF Transmits, CleanInv, StreamTypes
<1>11. ASSUME NEW n \in Connections PROVE OneTransmits(n)'
  <2>1. CASE n # k
    <3>1. \A u \in Threads : Transmits(u, n)' => Transmits(u, n)
        BY <1>10, <2>1
    <3> QED
        BY <1>3, <1>9, <2>1, <3>1 DEF BusyInv, OneTransmits
  <2>2. CASE n = k
    <3>1. \A u \in Threads : Transmits(u, k)' => u = w /\ ctx[k].busy'
        BY <1>5, <1>9, <1>10
    <3> QED
        BY <1>3, <1>5, <2>2, <3>1 DEF OneTransmits
  <2> QED
      BY <2>1, <2>2
<1>12. ContextShape' /\ DataKept
    BY <1>3, <1>9 DEF BusyInv, ContextShape, DataKept
<1> QED
    BY <1>11, <1>12 DEF BusyInv

\* The other steps of the pool, of the executor and of the peer.
LEMMA OthersKeepBusy ==
    ASSUME CleanInv, BusyInv,
           \/ \E w \in Workers :
                 \/ \E n \in Connections : OnRead(w, n)
                 \/ PostConnect(w) \/ FailIfTaken(w) \/ ProcessRead(w) \/ PostWritten(w)
           \/ UserReturns \/ StartRead \/ StartReadFails \/ LeaveCallback
    PROVE  BusyInv' /\ DataKept
<1>1. UNCHANGED <<ctx, wr>>
    BY DEF OnRead, PostConnect, FailIfTaken, Fail, ProcessRead, PostWritten, UserReturns, StartRead,
           StartReadFails, LeaveCallback, io
<1>2. {"user", "idle", "failed", "acknowledge", "received", "ended", "leave", "read", "state", "crashed"}
          \subseteq Labels \ {"event", "file"}
    BY DEF Labels, TakerLabels
<1>3. Executor \in Threads /\ Workers \subseteq Threads
    BY DEF Threads
<1> DEFINE Elsewhere(t) == \E l \in Labels \ {"event", "file"} : To(t, l) \/ \E n : Begin(t, l, n)
<1>4. ASSUME NEW w \in Workers, NEW n \in Connections, OnRead(w, n) PROVE Elsewhere(w)
  <2>1. PICK l \in {"failed", "acknowledge", "received", "ended"} : Completion(w, n, l)
      BY <1>4 DEF OnRead
  <2> QED
      BY <1>2, <2>1 DEF Completion
<1>5. ASSUME NEW w \in Workers, PostConnect(w) \/ FailIfTaken(w) \/ ProcessRead(w) \/ PostWritten(w)
      PROVE  Elsewhere(w)
    BY <1>2, <1>5 DEF PostConnect, FailIfTaken, Fail, ProcessRead, PostWritten
<1>6. ASSUME UserReturns \/ StartRead \/ StartReadFails \/ LeaveCallback PROVE Elsewhere(Executor)
  <2>1. CASE UserReturns
      BY <1>2, <2>1 DEF UserReturns
  <2>2. CASE StartRead
      BY <1>2, <2>2 DEF StartRead
  <2>3. CASE StartReadFails
      BY <1>2, <2>3 DEF StartReadFails, Fail
  <2>4. CASE LeaveCallback
      BY <1>2, <2>4 DEF LeaveCallback
  <2> QED
      BY <1>6, <2>1, <2>2, <2>3, <2>4
<1>7. \E t \in Threads : Elsewhere(t)
    BY <1>3, <1>4, <1>5, <1>6
<1> QED
    BY <1>1, <1>7, MovesOn

\* The executor's queue, and the network.
LEMMA QueueKeepsBusy ==
    ASSUME CleanInv, BusyInv,
           \/ CallUser \/ Cleanup \/ ExecutorDestroyed \/ UNCHANGED streamVars
           \/ \E n \in Connections : PeerAnswers(n) \/ PeerSends(n) \/ PeerCloses(n) \/ WriteCompletes(n)
    PROVE  BusyInv' /\ DataKept
<1>1. ctx' = ctx /\ cur' = cur
    BY DEF CallUser, Cleanup, ExecutorDestroyed, PeerAnswers, PeerSends, PeerCloses, Completes,
           WriteCompletes, threads, streamVars
<1>2. /\ DOMAIN wr' = DOMAIN wr
      /\ \A n \in Connections : wr'[n] # "none" => wr[n] # "none"
  <2>1. CASE CallUser \/ ExecutorDestroyed \/ UNCHANGED streamVars
      BY <2>1 DEF CallUser, ExecutorDestroyed, streamVars, io
  <2>2. CASE Cleanup
    <3>1. wr' = [wr EXCEPT ![Head(tasks).n] = "none"]
        BY <2>2 DEF Cleanup
    <3> QED
        BY <3>1 DEF BusyInv, ContextShape
  <2>3. ASSUME NEW n \in Connections, PeerAnswers(n) \/ PeerSends(n) \/ PeerCloses(n)
        PROVE  wr' = wr
      BY <2>3 DEF PeerAnswers, PeerSends, PeerCloses, Completes
  <2>4. ASSUME NEW n \in Connections, WriteCompletes(n)
        PROVE  DOMAIN wr' = DOMAIN wr /\ \A k \in Connections : wr'[k] # "none" => wr[k] # "none"
      BY <2>4 DEF WriteCompletes, BusyInv, ContextShape
  <2> QED
      BY <2>1, <2>2, <2>3, <2>4
<1>3. \A t \in Threads : pc'[t] \in {"event", "file"} => pc'[t] = pc[t]
    BY DEF CallUser, Cleanup, ExecutorDestroyed, PeerAnswers, PeerSends, PeerCloses, Completes,
           WriteCompletes, threads, streamVars, CleanInv, StreamTypes
<1>4. KeepsBusy
    BY <1>1, <1>2, <1>3 DEF KeepsBusy, BusyInv, ContextShape, Transmits
<1> QED
    BY <1>4, BusyKept

LEMMA BusyStep == CleanInv /\ BusyInv /\ [StreamNext]_streamVars => BusyInv' /\ DataKept
<1> SUFFICES ASSUME CleanInv, BusyInv, [StreamNext]_streamVars PROVE BusyInv' /\ DataKept
    OBVIOUS
<1>1. ASSUME NEW t \in Threads,
             \/ ConnectStream(t) \/ SetsHandle(t) \/ WriteStream(t)
             \/ DisconnectStream(t) \/ DestroyStream(t) \/ OnThread(t)
      PROVE  BusyInv' /\ DataKept
    BY <1>1, ThreadsKeepBusy, ContextsKeepBusy, WritesAlone DEF OnThread
<1>2. ASSUME NEW w \in Workers, OnPool(w) PROVE BusyInv' /\ DataKept
  <2>1. w \in Threads
      BY DEF Threads
  <2> QED
      BY <1>2, <2>1, OthersKeepBusy, ContextsKeepBusy, CompletesAlone, ProcessesAlone DEF OnPool
<1>3. CASE OnExecutor
    BY <1>3, OthersKeepBusy, QueueKeepsBusy DEF OnExecutor
<1> QED
    BY <1>1, <1>2, <1>3, QueueKeepsBusy DEF StreamNext, Runs

LEMMA BusyInit == StreamInit => BusyInv
  BY DEF StreamInit, BusyInv, ContextShape, Context, NewContext, OneTransmits, Transmits

(***************************************************************************)
(* However many threads call write() and however the completions of        *)
(* WriteFile fall between their steps, no call replaces the data of a      *)
(* context while it is transmitted, or while a completion is worked on and *)
(* m_wr_busy is set, in any number of connections (write and               *)
(* process_event_write).  Nothing is said of what on_write is given: the   *)
(* code reads it after m_wr_busy is cleared.                               *)
(***************************************************************************)
THEOREM WriteIsUndisturbed == WinStreamSpec => WrittenUndisturbed
<1>1. CleanInv /\ BusyInv /\ [StreamNext]_streamVars => [DataKept]_streamVars
    BY BusyStep
<1>2. WrittenUndisturbed <=> [][DataKept]_streamVars
    BY DEF WrittenUndisturbed, DataKept
<1> QED
    BY <1>1, <1>2, CleanInit, CleanStep, BusyInit, BusyStep, PTL DEF WinStreamSpec
=============================================================================
