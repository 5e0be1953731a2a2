------------------------------ MODULE LinuxPower ------------------------------
(***************************************************************************)
(* The daemon on Linux: main.cpp and LinuxPowerMonitor.cpp, one thread     *)
(* that polls D-Bus and udev and calls the transport from its handlers,    *)
(* with systemd-logind and udev around it.                                 *)
(*                                                                         *)
(* The transport is the abstract link of TvLink, which HidConversation     *)
(* implements: at = "send" is a call of it that is running.                *)
(* Time passes only while a send runs; everything else is instantaneous.   *)
(***************************************************************************)
EXTENDS Naturals, Sequences

CONSTANTS
    InhibitDelay,   \* logind's InhibitDelayMaxSec, in ticks
    SendTimeout,    \* the transport's SEND_TIMEOUT, in ticks
    MaxAnnounced,   \* bound: sleeps and shutdowns announced
    MaxAdds,        \* bound: udev events for the stick
    MaxStops,       \* bound: times the service is stopped and started again
    Cancels,        \* TRUE: a shutdown may be cancelled in the delay window
    Refusals        \* TRUE: logind may refuse to renew an inhibitor lock

ASSUME LinuxAssumption ==
    /\ InhibitDelay \in Nat /\ SendTimeout \in Nat \ {0}
    /\ MaxAnnounced \in Nat /\ MaxAdds \in Nat /\ MaxStops \in Nat
    /\ Cancels \in BOOLEAN /\ Refusals \in BOOLEAN

VARIABLES
    \* logind and the machine
    phase,          \* "up", "announced" (delay window open), "down"
    kind,           \* what was announced last: "sleep" or "shutdown"
    waiting,        \* logind waits for the daemon's lock to be closed
    window,         \* ticks since the announcement
    announced,      \* announcements so far
    \* what the daemon is going to be told
    signals,        \* D-Bus signals not dispatched yet
    adds,           \* udev "add" events not drained yet
    addsSeen,       \* such events so far
    fresh,          \* systemJustBooted()
    \* the daemon
    at,             \* where its thread is
    why,            \* the reason of the send that runs, or ran last
    lock,           \* inhibitorFd_.has_value()
    watching,       \* deviceWatchFd_ >= 0
    bootOnPending,
    spent,          \* ticks since the send began
    stops,
    \* ghosts, for the properties
    asked,          \* this announcement found the daemon holding a lock
    off,            \* the OFF of this announcement: "none", "failed", "confirmed"
    ahead,          \* sends logind waited for that were not the OFF
    \* the transport
    busy, cmd, ok, owed, tv

Cmd == {"ON", "OFF"}
Kind == {"sleep", "shutdown"}
Reason == {"startup", "device_ready", "sleep", "wake", "shutdown"}
Signal == [kind : Kind, start : BOOLEAN]

logindVars == <<phase, kind, waiting, window, announced>>
newsVars   == <<signals, adds, addsSeen, fresh>>
daemonVars == <<at, why, lock, watching, bootOnPending, spent, stops>>
ghostVars  == <<asked, off, ahead>>
linkVars   == <<busy, cmd, ok, owed, tv>>
vars == <<logindVars, newsVars, daemonVars, ghostVars, linkVars>>

Link == INSTANCE TvLink

TypeOK ==
    /\ phase \in {"up", "announced", "down"}
    /\ kind \in Kind
    /\ waiting \in BOOLEAN
    /\ window \in 0 .. InhibitDelay
    /\ announced \in 0 .. MaxAnnounced
    /\ signals \in Seq(Signal)
    /\ addsSeen \in 0 .. MaxAdds
    /\ adds \in 0 .. addsSeen
    /\ fresh \in BOOLEAN
    /\ at \in {"out", "boot", "poll", "drain", "bus", "send"}
    /\ why \in Reason
    /\ lock \in BOOLEAN
    /\ watching \in BOOLEAN
    /\ bootOnPending \in BOOLEAN
    /\ spent \in 0 .. SendTimeout
    /\ stops \in 0 .. MaxStops
    /\ asked \in BOOLEAN
    /\ off \in {"none", "failed", "confirmed"}
    /\ ahead \in Nat
    /\ busy \in BOOLEAN /\ (busy <=> at = "send")
    /\ cmd \in Cmd /\ tv \in Cmd /\ owed \subseteq Cmd
    /\ ok \in BOOLEAN

-----------------------------------------------------------------------------
(* Sends: how the callbacks main() hands to the monitor call the transport, *)
(* and what each handler does with the result, ok' .                        *)

\* Mutant: the ON is repeated until it is confirmed.
BootOnTriedUntilConfirmed(next) ==
    /\ at' = IF ok' \/ next # "poll" THEN next ELSE "boot"
    /\ bootOnPending' = ~ok'
    /\ UNCHANGED <<lock, waiting, off>>

\* main(), "startup" and "device_ready": an ON that failed stays owed.
BootOnTried(next) ==
    /\ at' = next
    /\ bootOnPending' = ~ok'
    /\ UNCHANGED <<lock, waiting, off>>

\* Mutant: a failed OFF keeps the lock.
DownTriedIfConfirmed ==
    /\ at' = "bus"
    /\ lock' = ~ok'
    /\ waiting' = ~ok'
    /\ off' = IF ok' THEN "confirmed" ELSE "failed"
    /\ UNCHANGED bootOnPending

\* onPrepareForSleep and onPrepareForShutdown let go whatever the send said.
DownTried ==
    /\ at' = "bus"
    /\ lock' = FALSE
    /\ waiting' = FALSE
    /\ off' = IF ok' THEN "confirmed" ELSE "failed"
    /\ UNCHANGED bootOnPending

\* Mutant: the lock is taken again only after a confirmed ON.
WakeTriedIfConfirmed ==
    /\ at' = "bus"
    /\ lock' \in (IF ok' THEN {TRUE} ELSE {lock})
    /\ UNCHANGED <<bootOnPending, waiting, off>>

\* onPrepareForSleep(false): takeInhibitorLock, whatever the send said; its
\* own failure is logged and not retried.
WakeTried ==
    /\ at' = "bus"
    /\ lock' \in (IF Refusals THEN {TRUE, lock} ELSE {TRUE})
    /\ UNCHANGED <<bootOnPending, waiting, off>>

Tried(reason) ==
    \/ reason = "startup" /\ BootOnTried("poll")
    \/ reason = "device_ready" /\ BootOnTried("drain")
    \/ reason \in Kind /\ DownTried
    \/ reason = "wake" /\ WakeTried

\* A send that logind has to wait for, other than the OFF it waits for.
GetsAhead(reason) ==
    ahead' = IF waiting /\ reason \notin Kind THEN ahead + 1 ELSE ahead

\* Mutant: the lock is let go before the send.
SendReleasingFirst(c, reason) ==
    /\ why' = reason
    /\ spent' = 0
    /\ \/ Link!Refuse /\ Tried(reason) /\ UNCHANGED ahead
       \/ /\ Link!Call(c)
          /\ at' = "send"
          /\ GetsAhead(reason)
          /\ lock' = IF reason \in Kind THEN FALSE ELSE lock
          /\ waiting' = IF reason \in Kind THEN FALSE ELSE waiting
          /\ UNCHANGED <<bootOnPending, off>>

(* A send that is refused (nothing enumerates) is over at once.            *)
Send(c, reason) ==
    /\ why' = reason
    /\ spent' = 0
    /\ \/ Link!Refuse /\ Tried(reason) /\ UNCHANGED ahead
       \/ /\ Link!Call(c)
          /\ at' = "send"
          /\ GetsAhead(reason)
          /\ UNCHANGED <<lock, waiting, bootOnPending, off>>

SendReturns ==
    /\ at = "send"
    /\ Link!Confirm \/ Link!Fail
    /\ Tried(why)
    /\ spent' = 0
    /\ UNCHANGED <<phase, kind, window, announced, newsVars, why, watching,
                   stops, asked, ahead>>

-----------------------------------------------------------------------------
(* The daemon's thread                                                     *)

(* The constructors: the lock is taken or the process exits and is started *)
(* again; a udev watch that cannot be set up is done without.              *)
ProcessStarts ==
    /\ at = "out"
    /\ at' = "boot"
    /\ lock' = TRUE
    /\ watching' \in BOOLEAN
    /\ UNCHANGED <<logindVars, newsVars, ghostVars, linkVars, why,
                   bootOnPending, spent, stops>>

(* main() from the monitor's construction to monitor->run().               *)
StartupOn ==
    /\ at = "boot"
    /\ fresh
    /\ Send("ON", "startup")
    /\ UNCHANGED <<phase, kind, window, announced, newsVars, watching, stops, asked>>

StartupSkipped ==
    /\ at = "boot"
    /\ ~fresh
    /\ at' = "poll"
    /\ UNCHANGED <<logindVars, newsVars, ghostVars, linkVars, why, lock,
                   watching, bootOnPending, spent, stops>>

(* run(): poll returns; udev first if it had something by then.            *)
Poll ==
    /\ at = "poll"
    /\ adds > 0 \/ signals # <<>>
    /\ at' = IF adds > 0 THEN "drain" ELSE "bus"
    /\ UNCHANGED <<logindVars, newsVars, ghostVars, linkVars, why, lock,
                   watching, bootOnPending, spent, stops>>

\* Mutant: whether the machine has just booted is not checked again.
BootOnOwedStill == bootOnPending

\* The condition of main()'s device callback.
BootOnOwed == bootOnPending /\ fresh

(* drainDeviceEvents: one udev event, and the callback it makes.           *)
DrainAdd ==
    /\ at = "drain"
    /\ adds > 0
    /\ adds' = adds - 1
    /\ \/ BootOnOwed /\ Send("ON", "device_ready")
       \/ /\ ~BootOnOwed
          /\ UNCHANGED <<at, why, lock, waiting, bootOnPending, spent, off, ahead,
                         linkVars>>
    /\ UNCHANGED <<phase, kind, window, announced, signals, addsSeen, fresh,
                   watching, stops, asked>>

Drained ==
    /\ at = "drain"
    /\ adds = 0
    /\ at' = "bus"
    /\ UNCHANGED <<logindVars, newsVars, ghostVars, linkVars, why, lock,
                   watching, bootOnPending, spent, stops>>

(* processPendingEvent dispatches one signal.                              *)
OnPrepareForSleepOrShutdown ==
    /\ at = "bus"
    /\ signals # <<>>
    /\ signals' = Tail(signals)
    /\ LET s == Head(signals) IN
         \/ s.start /\ Send("OFF", s.kind)
         \/ ~s.start /\ s.kind = "sleep" /\ Send("ON", "wake")
         \/ /\ ~s.start /\ s.kind = "shutdown"
            /\ UNCHANGED <<at, why, lock, waiting, bootOnPending, spent, off, ahead,
                           linkVars>>
    /\ UNCHANGED <<phase, kind, window, announced, adds, addsSeen, fresh,
                   watching, stops, asked>>

Dispatched ==
    /\ at = "bus"
    /\ signals = <<>>
    /\ at' = "poll"
    /\ UNCHANGED <<logindVars, newsVars, ghostVars, linkVars, why, lock,
                   watching, bootOnPending, spent, stops>>

(* The daemon's steps; a machine that is down runs no process.             *)
DaemonStep ==
    /\ phase # "down"
    /\ \/ ProcessStarts \/ StartupOn \/ StartupSkipped
       \/ Poll \/ DrainAdd \/ Drained
       \/ OnPrepareForSleepOrShutdown \/ Dispatched
       \/ SendReturns

\* The process is gone, and with it its lock, its signals and its call.
ProcessEnds ==
    /\ at' = "out"
    /\ lock' = FALSE
    /\ waiting' = FALSE
    /\ asked' = FALSE
    /\ bootOnPending' = FALSE
    /\ signals' = <<>>
    /\ adds' = 0
    /\ spent' = 0
    /\ ahead' = 0
    /\ Link!Fail \/ Link!Refuse
    /\ UNCHANGED <<kind, announced, addsSeen, off, why, watching>>

(* systemctl stop, at any point: SIGTERM has its default effect.           *)
ServiceStops ==
    /\ phase # "down"
    /\ at # "out"
    /\ stops < MaxStops
    /\ stops' = stops + 1
    /\ ProcessEnds
    /\ UNCHANGED <<phase, window, fresh>>

-----------------------------------------------------------------------------
(* logind, udev, the clock                                                 *)

\* A signal reaches a process that has subscribed.
Broadcast(k, start) ==
    signals' = IF at = "out" THEN signals
               ELSE Append(signals, [kind |-> k, start |-> start])

(* logind collects who holds a delay lock, broadcasts, and opens the window. *)
Announce(k) ==
    /\ phase = "up"
    /\ announced < MaxAnnounced
    /\ announced' = announced + 1
    /\ phase' = "announced"
    /\ kind' = k
    /\ waiting' = lock
    /\ asked' = lock
    /\ window' = 0
    /\ off' = "none"
    /\ ahead' = IF at = "send" /\ why \notin Kind THEN 1 ELSE 0
    /\ Broadcast(k, TRUE)
    /\ UNCHANGED <<adds, addsSeen, fresh, daemonVars, linkVars>>

GoDown ==
    /\ phase = "announced"
    /\ ~waiting \/ window = InhibitDelay
    /\ phase' = "down"
    /\ UNCHANGED <<kind, waiting, window, announced, newsVars, daemonVars,
                   ghostVars, linkVars>>

\* The delay window is over.
Closes ==
    /\ phase' = "up"
    /\ waiting' = FALSE
    /\ window' = 0
    /\ ahead' = 0

CancelShutdown ==
    /\ Cancels
    /\ phase = "announced"
    /\ kind = "shutdown"
    /\ Closes
    /\ Broadcast("shutdown", FALSE)
    /\ UNCHANGED <<kind, announced, adds, addsSeen, fresh, daemonVars,
                   asked, off, linkVars>>

Wake ==
    /\ phase = "down"
    /\ kind = "sleep"
    /\ Closes
    /\ Broadcast("sleep", FALSE)
    /\ UNCHANGED <<kind, announced, adds, addsSeen, fresh, daemonVars,
                   asked, off, linkVars>>

Boot ==
    /\ phase = "down"
    /\ kind = "shutdown"
    /\ phase' = "up"
    /\ fresh' = TRUE
    /\ window' = 0
    /\ ProcessEnds
    /\ UNCHANGED stops

UdevAdd ==
    /\ phase # "down"
    /\ at # "out"
    /\ watching
    /\ addsSeen < MaxAdds
    /\ addsSeen' = addsSeen + 1
    /\ adds' = adds + 1
    /\ UNCHANGED <<logindVars, signals, fresh, daemonVars, ghostVars, linkVars>>

BootWindowPasses ==
    /\ fresh
    /\ fresh' = FALSE
    /\ UNCHANGED <<logindVars, signals, adds, addsSeen, daemonVars, ghostVars, linkVars>>

\* Mutant: the deadline is looked at one tick late.
TickPastDeadline ==
    /\ phase # "down"
    /\ at = "send"
    /\ spent <= SendTimeout
    /\ spent' = spent + 1
    /\ UNCHANGED <<logindVars, newsVars, at, why, lock, watching, bootOnPending,
                   stops, ghostVars, linkVars>>

\* awaitAck and the retries of the send that runs, against its one deadline.
Tick ==
    /\ phase # "down"
    /\ at = "send"
    /\ spent < SendTimeout
    /\ spent' = spent + 1
    /\ window' = IF phase = "announced" /\ window < InhibitDelay
                 THEN window + 1 ELSE window
    /\ UNCHANGED <<phase, kind, waiting, announced, newsVars, at, why, lock,
                   watching, bootOnPending, stops, ghostVars, linkVars>>

\* What is under way to the TV gets there, or is lost, at any time.
StickStep ==
    /\ Link!Reach \/ Link!Lose
    /\ UNCHANGED <<logindVars, newsVars, daemonVars, ghostVars>>

Environment ==
    \/ \E k \in Kind : Announce(k)
    \/ GoDown \/ CancelShutdown \/ Wake \/ Boot
    \/ UdevAdd \/ BootWindowPasses \/ Tick \/ StickStep
    \/ ServiceStops

Init ==
    /\ phase = "up" /\ kind = "sleep" /\ waiting = FALSE
    /\ window = 0 /\ announced = 0
    /\ signals = <<>> /\ adds = 0 /\ addsSeen = 0 /\ fresh \in BOOLEAN
    /\ at = "out" /\ why = "startup" /\ lock = FALSE /\ watching = FALSE
    /\ bootOnPending = FALSE /\ spent = 0 /\ stops = 0
    /\ asked = FALSE /\ off = "none" /\ ahead = 0
    /\ cmd \in Cmd /\ tv \in Cmd /\ Link!Init

Next == DaemonStep \/ Environment

\* The daemon's thread runs, and its sends return (HidConversation).
Fairness == WF_vars(DaemonStep)

Spec == Init /\ [][Next]_vars /\ Fairness

-----------------------------------------------------------------------------
(* "Linux sleep / shutdown: guaranteed" (brief.md): a machine whose logind  *)
(* found the daemon's lock goes down only after the OFF has been tried,     *)
(* however many sends were queued up before it.                            *)
OffTriedBeforeDown == phase = "down" /\ asked => off # "none"

(* What the ratio of the two times does give: an OFF that logind did not    *)
(* wait for had other sends in front of it that, with its own, last as long *)
(* as the delay window. With 5 s and 2 s one such send is never too much.   *)
OffTriedInTime ==
    phase = "down" /\ asked /\ (ahead + 1) * SendTimeout < InhibitDelay => off # "none"

(* And few can be in front of it, whatever fails: the start-up ON or one    *)
(* that was running, the ON of one wake-up, and one for each udev event.    *)
FewAhead == phase = "announced" /\ waiting => ahead <= MaxAdds + 2

(* "The TV is genuinely off before the PC goes down" (brief.md): an OFF     *)
(* that was confirmed is what the TV is left with while the machine is down. *)
ConfirmedOffStays == phase = "down" /\ asked /\ off = "confirmed" => tv = "OFF"

(* No package upgrade and no replugging turns the TV on (main.cpp): an ON   *)
(* is begun only for a wake-up or while the machine has just booted.        *)
OnIsExplained ==
    [][at # "send" /\ at' = "send" /\ cmd' = "ON" => fresh \/ why' = "wake"]_vars

(* Between two rounds of poll, with every signal dispatched, the daemon     *)
(* keeps logind waiting for nothing, and after a sleep it has its lock      *)
(* again, whatever its sends returned and whatever came between the sleep   *)
(* and the wake-up (onPrepareForSleep).                                     *)
LockAtRest ==
    at = "poll" /\ signals = <<>> =>
        /\ phase = "announced" => ~waiting
        /\ phase = "up" /\ kind = "sleep" => lock \/ Refusals

(* "A false from send() must never stop the machine" (brief.md): logind is  *)
(* not left waiting for the daemon's lock, whether or not the OFF got       *)
(* through, and whatever was queued before it.                              *)
LockIsLetGo ==
    (phase = "announced" /\ waiting) ~> (~waiting \/ phase # "announced")

(* A machine that has woken up gets its lock back, whatever became of the   *)
(* sends; "a sleep/wake cycle repairs" the one a cancelled shutdown leaves   *)
(* released (brief.md, known gaps).                                         *)
LockComesBack ==
    (phase = "up" /\ kind = "sleep" /\ ~lock) ~> (lock \/ phase # "up")
=============================================================================
