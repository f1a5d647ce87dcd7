------------------------------- MODULE GcdTimer -------------------------------
(***************************************************************************)
(* The timer on libdispatch (lib/src/async/gcd/event_sources.cpp, class    *)
(* impl::timer; lib/src/async/event_sources.cpp, class timer).  Clones are *)
(* the user's copies of one timer: they share the implementation, and each *)
(* of them shuts it down when it is destroyed.                             *)
(*                                                                         *)
(* The wrapper dispatch_source keeps a flag that decides whether suspend   *)
(* and resume reach libdispatch; the flag and the call are two steps.      *)
(* Handlers execute on the timer's own queue.  External is what            *)
(* libdispatch does: it delivers the event and the cancellation of a       *)
(* source that is not suspended, and a resume of a source that is not      *)
(* suspended ends the program.                                             *)
(***************************************************************************)
EXTENDS Integers, FiniteSets

CONSTANTS Clones,        \* copies of the timer, each used by a thread of its own
          Periods        \* periods the user asks for, in microseconds

ASSUME ClonesAssumption == IsFiniteSet(Clones) /\ Clones # {}
ASSUME PeriodsAssumption == Periods \subseteq Nat /\ Periods # {}

VARIABLES
    clones,              \* the copies that exist
    tmSource,            \* m_source: "live", "cancelled" or "deleted"
    tmActive,            \* m_source.m_active
    suspensions,         \* calls of dispatch_suspend not yet undone
    period,              \* m_period, in nanoseconds
    armed,               \* the period of dispatch_source_set_timer, or NotArmed
    tmAt,                \* the step each clone and the handler are at
    runner,              \* the runner of the timer's task exists
    due                  \* history: started, and neither triggered, stopped nor restarted since

timerVars == <<clones, tmSource, tmActive, suspensions, period, armed, tmAt, runner, due>>

NotArmed == -1
Handler == "handler"
Actors == Clones \cup {Handler}

\* A source is created suspended.
TimerInit ==
    /\ clones = Clones
    /\ tmSource = "live"
    /\ tmActive = FALSE
    /\ suspensions = 1
    /\ period \in {1000 * p : p \in Periods}
    /\ armed = NotArmed
    /\ tmAt = [t \in Actors |-> "idle"]
    /\ runner = TRUE
    /\ due = FALSE

Moves(t, from, to) == tmAt[t] = from /\ tmAt' = [tmAt EXCEPT ![t] = to]

\* The flag of the wrapper: a compare-exchange that finds no change ends there.
Suspend(t, from, called, skipped) ==
    /\ Moves(t, from, IF tmActive THEN called ELSE skipped)
    /\ tmActive' = FALSE

ResumeCall(t, from, called, skipped) ==
    /\ Moves(t, from, IF tmActive THEN skipped ELSE called)
    /\ tmActive' = TRUE

dispatch_suspend(t, from, to) ==
    /\ Moves(t, from, to)
    /\ suspensions' = suspensions + 1
    /\ UNCHANGED <<clones, tmSource, tmActive, period, armed, runner, due>>

dispatch_resume(t, from, to) ==
    /\ Moves(t, from, IF suspensions = 0 THEN "crashed" ELSE to)
    /\ suspensions' = IF suspensions = 0 THEN 0 ELSE suspensions - 1
    /\ UNCHANGED <<clones, tmSource, tmActive, period, armed, runner, due>>
-----------------------------------------------------------------------------
(* The user: timer::start, stop and the destructor. *)

StartTimer(c) ==
    /\ c \in clones
    /\ Suspend(c, "idle", "start_suspend", "set_timer")
    /\ due' = FALSE
    /\ UNCHANGED <<clones, tmSource, suspensions, period, armed, runner>>

SetTimer(c) ==
    /\ Moves(c, "set_timer", "start_resume")
    /\ armed' = period
    /\ UNCHANGED <<clones, tmSource, tmActive, suspensions, period, runner, due>>

StartResume(c) ==
    /\ ResumeCall(c, "start_resume", "start_call", "idle")
    /\ due' = TRUE
    /\ UNCHANGED <<clones, tmSource, suspensions, period, armed, runner>>

StopKeepsFlag(c) ==
    /\ c \in clones
    /\ Moves(c, "idle", IF tmActive THEN "stop_call" ELSE "idle")
    /\ due' = FALSE
    /\ UNCHANGED <<clones, tmSource, tmActive, suspensions, period, armed, runner>>

StopTimer(c) ==
    /\ c \in clones
    /\ Suspend(c, "idle", "stop_call", "idle")
    /\ due' = FALSE
    /\ UNCHANGED <<clones, tmSource, suspensions, period, armed, runner>>

ShutdownSuspended(c) ==
    /\ c \in clones
    /\ Moves(c, "idle", "cancel")
    /\ due' = FALSE
    /\ UNCHANGED <<clones, tmSource, tmActive, suspensions, period, armed, runner>>

\* A suspended source would never deliver its cancel handler.
ShutdownTimer(c) ==
    /\ c \in clones
    /\ ResumeCall(c, "idle", "shutdown_call", "cancel")
    /\ due' = FALSE
    /\ UNCHANGED <<clones, tmSource, suspensions, period, armed, runner>>

CancelTimer(c) ==
    /\ Moves(c, "cancel", "gone")
    /\ tmSource' = IF tmSource = "live" THEN "cancelled" ELSE tmSource
    /\ clones' = clones \ {c}
    /\ UNCHANGED <<tmActive, suspensions, period, armed, runner, due>>

\* timer::period refuses 0, which the constructor takes; start() arms what it sets.
SetPeriod(c) ==
    /\ c \in clones
    /\ tmAt[c] = "idle"
    /\ \E p \in Periods \ {0} : period' = 1000 * p
    /\ UNCHANGED <<clones, tmSource, tmActive, suspensions, armed, tmAt, runner, due>>

InTimer(c) ==
    \/ dispatch_suspend(c, "start_suspend", "set_timer")
    \/ SetTimer(c)
    \/ StartResume(c)
    \/ dispatch_resume(c, "start_call", "idle")
    \/ dispatch_suspend(c, "stop_call", "idle")
    \/ dispatch_resume(c, "shutdown_call", "cancel")
    \/ CancelTimer(c)
-----------------------------------------------------------------------------
(* context::on_event and on_cancel, on the timer's queue. *)

Deliverable(source) == tmSource = source /\ suspensions = 0 /\ tmAt[Handler] = "idle"

\* With no clone left m_timer cannot be locked: nothing is run.
TimerEvent ==
    /\ Deliverable("live")
    /\ armed # NotArmed
    /\ clones # {}
    /\ Moves(Handler, "idle", "run")
    /\ UNCHANGED <<clones, tmSource, tmActive, suspensions, period, armed, runner, due>>

RunTask ==
    /\ runner
    /\ Moves(Handler, "run", "idle")
    /\ due' = FALSE
    /\ UNCHANGED <<clones, tmSource, tmActive, suspensions, period, armed, runner>>

\* runner_not_available: the handler stops the timer.
RunFails ==
    /\ ~runner
    /\ Suspend(Handler, "run", "handler_call", "idle")
    /\ due' = FALSE
    /\ UNCHANGED <<clones, tmSource, suspensions, period, armed, runner>>

TimerCancel ==
    /\ Deliverable("cancelled")
    /\ tmSource' = "deleted"
    /\ UNCHANGED <<clones, tmActive, suspensions, period, armed, tmAt, runner, due>>

RunnerGone ==
    /\ runner
    /\ runner' = FALSE
    /\ UNCHANGED <<clones, tmSource, tmActive, suspensions, period, armed, tmAt, due>>

OnTimer == TimerEvent \/ RunTask \/ RunFails \/ TimerCancel
              \/ dispatch_suspend(Handler, "handler_call", "idle")

OverResumed == \E t \in Actors : tmAt[t] = "crashed"

\* A start() or stop() on a context that is deleted is undefined: the model ends.
TimerDefined == ~OverResumed /\ (tmSource = "deleted" => clones = {})

TimerNext ==
    /\ TimerDefined
    /\ \/ \E c \in Clones :
             StartTimer(c) \/ StopTimer(c) \/ SetPeriod(c) \/ ShutdownTimer(c) \/ InTimer(c)
       \/ OnTimer
       \/ RunnerGone

TimerFairness ==
    /\ \A c \in Clones : WF_timerVars(TimerDefined /\ InTimer(c))
    /\ WF_timerVars(TimerDefined /\ OnTimer)
-----------------------------------------------------------------------------
(***************************************************************************)
(* A timer that was started triggers, unless it is stopped or destroyed    *)
(* before or the runner of its task is gone (event_sources.h, start: "the  *)
(* timer will trigger one full period after the call to start()"): start,  *)
(* stop and restart leave libdispatch's suspend count and the wrapper's    *)
(* flag in step.                                                           *)
(***************************************************************************)
TimerTriggers == due ~> (~due \/ ~runner \/ tmSource # "live")

(***************************************************************************)
(* A timer that is destroyed, whether it was running or not, releases its  *)
(* context, source and queue (on_cancel), unless the handler stopped it    *)
(* meanwhile because the runner of its task was gone.                      *)
(***************************************************************************)
TimerReleased == (clones = {}) ~> (tmSource = "deleted" \/ ~runner)

(***************************************************************************)
(* start() on a timer that exists arms a source that can trigger           *)
(* (event_sources.h: copies are clones that refer to the same timer, and   *)
(* after start() the timer triggers "in either case").                     *)
(***************************************************************************)
StartReachesTimer == \A c \in clones : tmAt[c] = "set_timer" => tmSource = "live"
=============================================================================
