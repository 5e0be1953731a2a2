----------------------------- MODULE WindowsPower -----------------------------
(***************************************************************************)
(* The daemon as a Windows service: WindowsPowerMonitor.cpp.  Three        *)
(* threads: serviceMain, the control handler on the service manager's      *)
(* thread, which only records, and the worker, which sends.  They share    *)
(* the fields under queueMutex_; each block under the lock is one step,    *)
(* with the notify_all that follows it.                                    *)
(*                                                                         *)
(* The transport is the abstract link of TvLink.  A suspended machine is   *)
(* one in which no step happens for a while.  PBT_APMRESUMEAUTOMATIC,      *)
(* PBT_APMRESUMECRITICAL and SERVICE_CONTROL_INTERROGATE change no state.  *)
(***************************************************************************)
EXTENDS Naturals

CONSTANT MaxEvents      \* bound: control codes delivered to the handler

ASSUME WindowsAssumption == MaxEvents \in Nat

VARIABLES
    status,         \* status_.dwCurrentState, as last reported
    main,           \* where serviceMain is
    registered,     \* displayNotify_ and deviceNotify_
    graceOver,      \* ARRIVAL_GRACE has passed since serviceStartedAt_
    events,         \* control codes so far
    \* the handler's own
    desiredOn, lastDisplayState,
    \* under queueMutex_
    pendingOn, shutdownRequested, stopRequested, deviceGone,
    \* the worker
    worker,         \* where workerLoop is
    batch,          \* want, doShutdown and doStop, its locals
    \* the transport
    busy, cmd, ok, owed, tv

Cmd == {"ON", "OFF"}
Maybe == Cmd \cup {"none"}          \* std::optional<bool>

handlerVars == <<desiredOn, lastDisplayState>>
queueVars   == <<pendingOn, shutdownRequested, stopRequested, deviceGone>>
serviceVars == <<status, main, registered, graceOver>>
linkVars    == <<busy, cmd, ok, owed, tv>>
vars == <<serviceVars, events, handlerVars, queueVars, worker, batch, linkVars>>

Link == INSTANCE TvLink

NoBatch == [want |-> "none", shutdown |-> FALSE, stop |-> FALSE]

TypeOK ==
    /\ status \in {"start_pending", "running", "stop_pending", "stopped"}
    /\ main \in {"starting", "registering", "waiting", "gone"}
    /\ registered \subseteq {"display", "device"}
    /\ graceOver \in BOOLEAN
    /\ events \in 0 .. MaxEvents
    /\ desiredOn \in Maybe /\ lastDisplayState \in Maybe /\ pendingOn \in Maybe
    /\ shutdownRequested \in BOOLEAN /\ stopRequested \in BOOLEAN
    /\ deviceGone \in BOOLEAN
    /\ worker \in {"none", "initial", "check", "asleep", "act", "send", "done"}
    /\ batch \in [want : Maybe, shutdown : BOOLEAN, stop : BOOLEAN]
    /\ busy \in BOOLEAN /\ (busy <=> worker = "send")
    /\ cmd \in Cmd /\ tv \in Cmd /\ owed \subseteq Cmd
    /\ ok \in BOOLEAN

-----------------------------------------------------------------------------
(* serviceMain                                                             *)

ServiceRuns ==
    /\ main = "starting"
    /\ main' = "registering"
    /\ status' = "running"
    /\ UNCHANGED <<registered, graceOver, events, handlerVars, queueVars,
                   worker, batch, linkVars>>

\* CreateEvent fails.
ServiceFails ==
    /\ main = "starting"
    /\ main' = "gone"
    /\ status' = "stopped"
    /\ UNCHANGED <<registered, graceOver, events, handlerVars, queueVars,
                   worker, batch, linkVars>>

(* The notifications that can be had, one call each; then the worker, which *)
(* may find requests waiting.                                               *)
Registers ==
    /\ main = "registering"
    /\ worker = "none"
    /\ \E n \in {"display", "device"} \ registered : registered' = registered \cup {n}
    /\ UNCHANGED <<status, main, graceOver, events, handlerVars, queueVars,
                   worker, batch, linkVars>>

StartsWorker ==
    /\ main = "registering"
    /\ main' = "waiting"
    /\ worker' = "initial"
    /\ UNCHANGED <<status, registered, graceOver, events, handlerVars, queueVars,
                   batch, linkVars>>

ServiceEnds ==
    /\ main = "waiting"
    /\ worker = "done"
    /\ main' = "gone"
    /\ registered' = {}
    /\ status' = "stopped"
    /\ UNCHANGED <<graceOver, events, handlerVars, queueVars, worker, batch, linkVars>>

ServiceMain == ServiceRuns \/ ServiceFails \/ Registers \/ StartsWorker \/ ServiceEnds

-----------------------------------------------------------------------------
(* serviceCtrlHandler                                                      *)

\* Mutant: the worker is not woken.
NotifyNoOne == worker' = worker

\* queueCv_.notify_all()
Notify == worker' = IF worker = "asleep" THEN "check" ELSE worker

\* A control code is delivered, to a service that reported it accepts any.
Control(states) ==
    /\ status \in states
    /\ events < MaxEvents
    /\ events' = events + 1

Accepting == {"running", "stop_pending"}

RequestState(c) ==
    /\ desiredOn' = c
    /\ pendingOn' = c
    /\ Notify
    /\ UNCHANGED <<shutdownRequested, stopRequested, deviceGone>>

\* DISPLAY_DIMMED is treated as on.
DisplayCommand(state) == IF state = "off" THEN "OFF" ELSE "ON"

OnDisplayState(state) ==
    /\ "display" \in registered
    /\ Control(Accepting)
    /\ lastDisplayState' = DisplayCommand(state)
    /\ RequestState(DisplayCommand(state))
    /\ UNCHANGED <<serviceVars, batch, linkVars>>

\* Mutant: the handler sends the OFF itself.
OnSuspendSending ==
    /\ Control(Accepting)
    /\ Link!Call("OFF")
    /\ desiredOn' = "OFF"
    /\ UNCHANGED <<serviceVars, lastDisplayState, queueVars, worker, batch>>

OnSuspend ==
    /\ Control(Accepting)
    /\ RequestState("OFF")
    /\ UNCHANGED <<serviceVars, lastDisplayState, batch, linkVars>>

\* Mutant: the resume does not look at the display.
OnResumeAnyway ==
    /\ Control(Accepting)
    /\ RequestState("ON")
    /\ UNCHANGED <<serviceVars, lastDisplayState, batch, linkVars>>

\* PBT_APMRESUMESUSPEND
OnResume ==
    /\ Control(Accepting)
    /\ lastDisplayState # "OFF"
    /\ RequestState("ON")
    /\ UNCHANGED <<serviceVars, lastDisplayState, batch, linkVars>>

\* A late arrival, or one with nothing decided yet, changes nothing.
OnArrival ==
    /\ "device" \in registered
    /\ Control(Accepting)
    /\ ~graceOver
    /\ desiredOn # "none"
    /\ RequestState(desiredOn)
    /\ UNCHANGED <<serviceVars, lastDisplayState, batch, linkVars>>

OnRemoval ==
    /\ "device" \in registered
    /\ Control(Accepting)
    /\ deviceGone' = TRUE
    /\ Notify
    /\ UNCHANGED <<serviceVars, handlerVars, pendingOn, shutdownRequested,
                   stopRequested, batch, linkVars>>

(* The service manager sends neither to a service that is being stopped.    *)
OnPreshutdown ==
    /\ Control({"running"})
    /\ status' = "stop_pending"
    /\ shutdownRequested' = TRUE
    /\ Notify
    /\ UNCHANGED <<main, registered, graceOver, handlerVars, pendingOn,
                   stopRequested, deviceGone, batch, linkVars>>

OnStop ==
    /\ Control({"running"})
    /\ status' = "stop_pending"
    /\ stopRequested' = TRUE
    /\ Notify
    /\ UNCHANGED <<main, registered, graceOver, handlerVars, pendingOn,
                   shutdownRequested, deviceGone, batch, linkVars>>

Handler ==
    \/ \E state \in {"on", "off", "dimmed"} : OnDisplayState(state)
    \/ OnSuspend \/ OnResume
    \/ OnArrival \/ OnRemoval
    \/ OnPreshutdown \/ OnStop

GracePasses ==
    /\ ~graceOver
    /\ graceOver' = TRUE
    /\ UNCHANGED <<status, main, registered, events, handlerVars, queueVars,
                   worker, batch, linkVars>>

-----------------------------------------------------------------------------
(* workerLoop                                                              *)

\* Mutants: one of the flags is missing from the predicate.
SomethingButShutdown == pendingOn # "none" \/ stopRequested \/ deviceGone

\* The predicate of both waits.
Something == pendingOn # "none" \/ shutdownRequested \/ stopRequested \/ deviceGone

\* wait_for(INITIAL_STATE_WAIT): over with a request or without.
InitialWait ==
    /\ worker = "initial"
    /\ worker' = "check"
    /\ UNCHANGED <<serviceVars, events, handlerVars, queueVars, batch, linkVars>>

Sleep ==
    /\ worker = "check"
    /\ ~Something
    /\ worker' = "asleep"
    /\ UNCHANGED <<serviceVars, events, handlerVars, queueVars, batch, linkVars>>

(* The block under the lock.  A removal is passed on to the transport, which *)
(* drops its handle and makes no other difference to the link.              *)
Take ==
    /\ worker = "check"
    /\ Something
    /\ batch' = [want |-> pendingOn, shutdown |-> shutdownRequested,
                 stop |-> stopRequested]
    /\ pendingOn' = "none"
    /\ deviceGone' = FALSE
    /\ worker' = "act"
    /\ UNCHANGED <<serviceVars, events, handlerVars, shutdownRequested,
                   stopRequested, linkVars>>

\* Mutant: the request is forgotten when its send is over.
RoundOverForgetting ==
    /\ worker' = IF batch.shutdown \/ batch.stop THEN "done" ELSE "check"
    /\ batch' = NoBatch
    /\ pendingOn' = "none"

RoundOver ==
    /\ worker' = IF batch.shutdown \/ batch.stop THEN "done" ELSE "check"
    /\ batch' = NoBatch
    /\ UNCHANGED pendingOn

\* Mutant: a request that is waiting goes before the shutdown.
CommandWantFirst ==
    IF batch.want = "none" /\ batch.shutdown THEN "OFF" ELSE batch.want

\* Shutting down takes precedence over whatever was asked for.
Command == IF batch.shutdown THEN "OFF" ELSE batch.want

Act ==
    /\ worker = "act"
    /\ \/ Command = "none" /\ RoundOver /\ UNCHANGED linkVars
       \/ Command # "none" /\ Link!Refuse /\ RoundOver
       \/ /\ Command # "none"
          /\ Link!Call(Command)
          /\ worker' = "send"
          /\ UNCHANGED <<batch, pendingOn>>
    /\ UNCHANGED <<serviceVars, events, handlerVars, shutdownRequested,
                   stopRequested, deviceGone>>

SendReturns ==
    /\ worker = "send"
    /\ Link!Confirm \/ Link!Fail
    /\ RoundOver
    /\ UNCHANGED <<serviceVars, events, handlerVars, shutdownRequested,
                   stopRequested, deviceGone>>

Worker == InitialWait \/ Sleep \/ Take \/ Act \/ SendReturns

StickStep ==
    /\ Link!Reach \/ Link!Lose
    /\ UNCHANGED <<serviceVars, events, handlerVars, queueVars, worker, batch>>

Init ==
    /\ status = "start_pending" /\ main = "starting"
    /\ registered = {} /\ graceOver = FALSE /\ events = 0
    /\ desiredOn = "none" /\ lastDisplayState = "none" /\ pendingOn = "none"
    /\ shutdownRequested = FALSE /\ stopRequested = FALSE /\ deviceGone = FALSE
    /\ worker = "none" /\ batch = NoBatch
    /\ cmd \in Cmd /\ tv \in Cmd /\ Link!Init

Next == ServiceMain \/ Handler \/ GracePasses \/ Worker \/ StickStep

\* serviceMain and the worker are scheduled; sends return (HidConversation).
Fairness == WF_vars(ServiceMain) /\ WF_vars(Worker)

Spec == Init /\ [][Next]_vars /\ Fairness

-----------------------------------------------------------------------------
(* Requests are coalesced into one slot while the worker sends (requestState *)
(* and workerLoop), and the latest one wins: a worker with nothing to do    *)
(* whose last send was confirmed has left the TV in the state asked for     *)
(* last.                                                                    *)
LatestRequestWins ==
    worker = "asleep" /\ ok /\ desiredOn # "none" => tv = desiredOn

(* "The TV mirrors the display; anything else is a secondary trigger, not a *)
(* competing policy" (brief.md): no suspend, resume or arrival leaves the   *)
(* TV confirmed on behind a display known to be off.                        *)
DarkDisplayDarkTv ==
    worker = "asleep" /\ ok /\ lastDisplayState = "OFF" => tv = "OFF"

(* "Windows shutdown: guaranteed" (brief.md): a service that was told of the *)
(* shutdown reports itself stopped only with the OFF behind it; no request  *)
(* that was waiting or running has the last word.                           *)
OffBeforeStopped ==
    status = "stopped" /\ shutdownRequested /\ ok => tv = "OFF"

(* The handler sets the flags while the worker sends, tests them or waits   *)
(* (queueCv_): whatever came when, a worker that is asleep has left nothing *)
(* behind it.                                                               *)
NothingSleptThrough == worker = "asleep" => ~Something

(* A service that was asked to stop, or told of a shutdown, does stop.      *)
StopsWhenTold == (shutdownRequested \/ stopRequested) ~> status = "stopped"

(* No request is left in the queue with the worker asleep.                  *)
RequestsServed ==
    (pendingOn # "none" \/ deviceGone) ~>
        (pendingOn = "none" /\ ~deviceGone) \/ status = "stopped"
=============================================================================
