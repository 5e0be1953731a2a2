-------------------------- MODULE LinuxPower_proofs --------------------------
(***************************************************************************)
(* Proofs about LinuxPower: for any number of announcements, cancelled     *)
(* shutdowns and stops of the service.                                     *)
(***************************************************************************)
EXTENDS LinuxPower, TLAPS

-----------------------------------------------------------------------------
(* The inductive invariant.                                                *)

\* A process has a lock before logind waits for it, and signals reach it only
\* while it runs.
LockFollowed ==
    /\ waiting => lock /\ at # "out"
    /\ at = "out" => ~lock /\ signals = <<>>

\* Every announcement is followed by its end before there is another.
Alternating ==
    /\ \A i \in 1 .. Len(signals) - 1 : signals[i].start # signals[i + 1].start
    /\ signals # <<>> => (signals[Len(signals)].start <=> phase # "up")

\* Sends in the queue up to the first OFF.
Ahead == IF Len(signals) = 0 THEN 0
         ELSE IF signals[1].start THEN 1 ELSE 2

\* Sends still to begin before logind's lock is let go: the start-up ON, one
\* for each udev event, the ON of a wake-up, the OFF.
Backlog == (IF at = "boot" THEN 1 ELSE 0) + adds + (MaxAdds - addsSeen) + Ahead

\* The same, once the OFF itself may be under way.
Turns == IF at = "send" /\ why \in Kind THEN 1 ELSE Backlog

\* So many sends are begun while logind waits, or are still to begin.
FewTurns == phase = "announced" /\ waiting => ahead + Turns <= MaxAdds + 3

\* Each tick of the window was spent on a send: on one that got ahead of the OFF,
\* or on the OFF.
Accounted ==
    phase = "announced" /\ waiting =>
        /\ at # "send" => window <= ahead * SendTimeout
        /\ at = "send" /\ why \in Kind => window <= ahead * SendTimeout + spent
        /\ at = "send" /\ why \notin Kind =>
              window + SendTimeout <= ahead * SendTimeout + spent

\* Only an OFF that was tried, or the end of the process, ends the wait.
WaitsForOff ==
    /\ phase = "announced" /\ asked => waiting \/ off # "none"
    /\ OffTriedInTime

IInv == TypeOK /\ LockFollowed /\ Accounted /\ WaitsForOff

-----------------------------------------------------------------------------
(* Types                                                                   *)

LEMMA LinkInit == Link!Init => busy = FALSE /\ ok = FALSE /\ owed = {}
  BY Zenon DEF Link!Init

LEMMA InitType == Init => TypeOK
<1> SUFFICES ASSUME Init PROVE TypeOK
  OBVIOUS
<1>1. /\ busy \in BOOLEAN /\ ~busy /\ ok \in BOOLEAN /\ owed \subseteq Cmd
      /\ waiting \in BOOLEAN /\ fresh \in BOOLEAN /\ lock \in BOOLEAN
      /\ watching \in BOOLEAN /\ bootOnPending \in BOOLEAN /\ asked \in BOOLEAN
  BY LinkInit, Zenon DEF Init
<1> QED
  BY <1>1, LinuxAssumption DEF Init, TypeOK, Kind, Reason, Cmd

\* What a send's result leaves behind.
LEMMA TriedType ==
    ASSUME TypeOK, ok' \in BOOLEAN, NEW reason \in Reason, Tried(reason)
    PROVE  /\ at' \in {"poll", "drain", "bus"}
           /\ lock' \in BOOLEAN /\ waiting' \in BOOLEAN /\ bootOnPending' \in BOOLEAN
           /\ off' \in {"none", "failed", "confirmed"}
<1> USE DEF TypeOK
<1>1. CASE BootOnTried("poll") \/ BootOnTried("drain")
  <2>1. bootOnPending' \in BOOLEAN
    BY <1>1, Zenon DEF BootOnTried
  <2> QED
    BY <1>1, <2>1 DEF BootOnTried
<1>2. CASE DownTried
  <2>1. lock' \in BOOLEAN /\ waiting' \in BOOLEAN
    BY <1>2, Zenon DEF DownTried
  <2>2. at' = "bus" /\ bootOnPending' = bootOnPending
        /\ off' \in {"failed", "confirmed"}
    BY <1>2 DEF DownTried
  <2> QED
    BY <2>1, <2>2
<1>3. CASE WakeTried
  <2>1. lock' \in BOOLEAN
    BY <1>3 DEF WakeTried
  <2> QED
    BY <1>3, <2>1 DEF WakeTried
<1> QED
  BY <1>1, <1>2, <1>3 DEF Tried

LEMMA SendType ==
    ASSUME TypeOK, NEW c \in Cmd, NEW reason \in Reason, Send(c, reason)
    PROVE  /\ at' \in {"poll", "drain", "bus", "send"}
           /\ why' = reason /\ spent' = 0
           /\ lock' \in BOOLEAN /\ waiting' \in BOOLEAN /\ bootOnPending' \in BOOLEAN
           /\ off' \in {"none", "failed", "confirmed"}
           /\ busy' \in BOOLEAN /\ (busy' <=> at' = "send")
           /\ cmd' \in Cmd /\ tv' \in Cmd /\ owed' \subseteq Cmd /\ ok' \in BOOLEAN
           /\ ahead' \in Nat
<1>1. why' = reason /\ spent' = 0
  BY DEF Send
<1>4. ahead' \in Nat
  BY DEF Send, GetsAhead, TypeOK
<1>2. CASE Link!Refuse /\ Tried(reason)
  <2>1. ok' \in BOOLEAN /\ UNCHANGED <<busy, cmd, owed, tv>> /\ ~busy
    BY <1>2, Zenon DEF Link!Refuse
  <2> QED
    BY <1>1, <1>2, <1>4, <2>1, TriedType DEF TypeOK
<1>3. CASE Link!Call(c) /\ at' = "send" /\ UNCHANGED <<lock, waiting, bootOnPending, off>>
  <2>1. ok' \in BOOLEAN /\ busy' \in BOOLEAN /\ busy'
    BY <1>3, Zenon DEF Link!Call
  <2> QED
    BY <1>1, <1>3, <1>4, <2>1 DEF Link!Call, TypeOK
<1> QED
  BY <1>2, <1>3 DEF Send

LEMMA DaemonType ==
    ASSUME TypeOK, DaemonStep
    PROVE  TypeOK'
<1> USE DEF logindVars, newsVars, ghostVars, linkVars
<1>1. CASE ProcessStarts
  <2>1. lock' \in BOOLEAN
    BY <1>1, Zenon DEF ProcessStarts
  <2> QED
    BY <1>1, <2>1 DEF ProcessStarts, TypeOK
<1>2. CASE StartupOn
  <2>1. "ON" \in Cmd /\ "startup" \in Reason
    BY DEF Cmd, Reason
  <2> QED
    BY <1>2, <2>1, SendType, LinuxAssumption DEF StartupOn, TypeOK
<1>3. CASE StartupSkipped \/ Drained \/ Dispatched
  BY <1>3 DEF StartupSkipped, Drained, Dispatched, TypeOK
<1>4. CASE Poll
  BY <1>4 DEF Poll, TypeOK
<1>5. CASE DrainAdd
  <2>1. adds' \in 0 .. addsSeen'
    BY <1>5 DEF DrainAdd, TypeOK
  <2>2. CASE Send("ON", "device_ready")
    <3>1. "ON" \in Cmd /\ "device_ready" \in Reason
      BY DEF Cmd, Reason
    <3> QED
      BY <1>5, <2>1, <2>2, <3>1, SendType, LinuxAssumption DEF DrainAdd, TypeOK
  <2> QED
    BY <1>5, <2>1, <2>2 DEF DrainAdd, TypeOK
<1>6. CASE OnPrepareForSleepOrShutdown
  <2>1. Head(signals) \in Signal /\ signals' \in Seq(Signal)
    BY <1>6 DEF OnPrepareForSleepOrShutdown, TypeOK
  <2>2. Head(signals).kind \in Reason
    BY <2>1 DEF Signal, Kind, Reason
  <2>3. "ON" \in Cmd /\ "OFF" \in Cmd /\ "wake" \in Reason
    BY DEF Cmd, Reason
  <2>4. CASE Send("OFF", Head(signals).kind)
    BY <1>6, <2>1, <2>2, <2>3, <2>4, SendType, LinuxAssumption
       DEF OnPrepareForSleepOrShutdown, TypeOK
  <2>5. CASE Send("ON", "wake")
    BY <1>6, <2>1, <2>3, <2>5, SendType, LinuxAssumption
       DEF OnPrepareForSleepOrShutdown, TypeOK
  <2> QED
    BY <1>6, <2>1, <2>4, <2>5 DEF OnPrepareForSleepOrShutdown, TypeOK
<1>7. CASE SendReturns
  <2>1. /\ ok' \in BOOLEAN /\ busy' \in BOOLEAN /\ ~busy'
        /\ UNCHANGED <<cmd, tv>> /\ owed' \subseteq owed
    BY <1>7, Zenon DEF SendReturns, Link!Confirm, Link!Fail
  <2>2. why \in Reason /\ Tried(why)
    BY <1>7 DEF SendReturns, TypeOK
  <2> QED
    BY <1>7, <2>1, <2>2, TriedType, LinuxAssumption DEF SendReturns, TypeOK
<1> QED
  BY <1>1, <1>2, <1>3, <1>4, <1>5, <1>6, <1>7 DEF DaemonStep

LEMMA EndsType ==
    ASSUME TypeOK, ProcessEnds
    PROVE  /\ at' = "out" /\ signals' = <<>> /\ signals' \in Seq(Signal)
           /\ adds' = 0 /\ adds' \in 0 .. addsSeen'
           /\ lock' \in BOOLEAN /\ ~lock' /\ waiting' \in BOOLEAN /\ ~waiting'
           /\ asked' \in BOOLEAN /\ ~asked' /\ bootOnPending' \in BOOLEAN
           /\ spent' = 0 /\ ahead' = 0
           /\ busy' \in BOOLEAN /\ ~busy' /\ ok' \in BOOLEAN
           /\ UNCHANGED <<cmd, tv>> /\ owed' \subseteq owed
           /\ UNCHANGED <<kind, announced, addsSeen, off, why, watching>>
<1>1. /\ lock' \in BOOLEAN /\ ~lock' /\ waiting' \in BOOLEAN /\ ~waiting'
      /\ asked' \in BOOLEAN /\ ~asked' /\ bootOnPending' \in BOOLEAN
  BY Zenon DEF ProcessEnds
<1>2. /\ busy' \in BOOLEAN /\ ~busy' /\ ok' \in BOOLEAN
      /\ UNCHANGED <<cmd, tv>> /\ owed' \subseteq owed
  <2>1. CASE Link!Fail
    BY <2>1, Zenon DEF Link!Fail
  <2>2. CASE Link!Refuse
    <3>1. owed' = owed
      BY <2>2 DEF Link!Refuse
    <3>2. busy' \in BOOLEAN /\ ~busy' /\ ok' \in BOOLEAN /\ UNCHANGED <<cmd, tv>>
      BY <2>2, Zenon DEF Link!Refuse, TypeOK
    <3> QED
      BY <3>1, <3>2
  <2> QED
    BY <2>1, <2>2 DEF ProcessEnds
<1>3. signals' \in Seq(Signal)
  BY DEF ProcessEnds
<1> QED
  BY <1>1, <1>2, <1>3 DEF ProcessEnds, TypeOK

LEMMA BroadcastType ==
    ASSUME TypeOK, NEW k \in Kind, NEW start \in BOOLEAN, Broadcast(k, start)
    PROVE  signals' \in Seq(Signal)
<1>1. [kind |-> k, start |-> start] \in Signal
  BY DEF Signal
<1> QED
  BY <1>1 DEF Broadcast, TypeOK

LEMMA EnvironmentType ==
    ASSUME TypeOK, Environment
    PROVE  TypeOK'
<1> USE LinuxAssumption DEF logindVars, newsVars, daemonVars, ghostVars, linkVars
<1>1. ASSUME NEW k \in Kind, Announce(k)
      PROVE  TypeOK'
  <2>1. signals' \in Seq(Signal)
    BY <1>1, BroadcastType DEF Announce
  <2>2. waiting' \in BOOLEAN /\ asked' \in BOOLEAN
    BY <1>1 DEF Announce, TypeOK
  <2> QED
    BY <1>1, <2>1, <2>2 DEF Announce, TypeOK
<1>2. CASE GoDown
  BY <1>2 DEF GoDown, TypeOK
<1>3. CASE CancelShutdown
  <2>1. waiting' \in BOOLEAN
    BY <1>3, Zenon DEF CancelShutdown, Closes
  <2>2. signals' \in Seq(Signal)
    BY <1>3, BroadcastType DEF CancelShutdown, Kind
  <2> QED
    BY <1>3, <2>1, <2>2 DEF CancelShutdown, Closes, TypeOK
<1>4. CASE Wake
  <2>1. waiting' \in BOOLEAN
    BY <1>4, Zenon DEF Wake, Closes
  <2>2. signals' \in Seq(Signal)
    BY <1>4, BroadcastType DEF Wake, Kind
  <2> QED
    BY <1>4, <2>1, <2>2 DEF Wake, Closes, TypeOK
<1>5. CASE Boot
  <2>1. fresh' \in BOOLEAN
    BY <1>5, Zenon DEF Boot
  <2> QED
    BY <1>5, <2>1, EndsType DEF Boot, TypeOK
<1>6. CASE UdevAdd
  BY <1>6 DEF UdevAdd, TypeOK
<1>7. CASE BootWindowPasses
  <2>1. fresh' \in BOOLEAN
    BY <1>7, Zenon DEF BootWindowPasses
  <2> QED
    BY <1>7, <2>1 DEF BootWindowPasses, TypeOK
<1>8. CASE Tick
  BY <1>8 DEF Tick, TypeOK
<1>9. CASE StickStep
  <2>1. UNCHANGED <<busy, cmd, ok>> /\ tv' \in Cmd /\ owed' \subseteq Cmd
    BY <1>9 DEF StickStep, Link!Reach, Link!Lose, TypeOK
  <2> QED
    BY <1>9, <2>1 DEF StickStep, TypeOK
<1>10. CASE ServiceStops
  BY <1>10, EndsType DEF ServiceStops, TypeOK
<1> QED
  BY <1>1, <1>2, <1>3, <1>4, <1>5, <1>6, <1>7, <1>8, <1>9, <1>10 DEF Environment

LEMMA TypeStep ==
    ASSUME TypeOK, [Next]_vars
    PROVE  TypeOK'
<1>1. CASE UNCHANGED vars
  BY <1>1 DEF TypeOK, vars, logindVars, newsVars, daemonVars, ghostVars, linkVars
<1> QED
  BY <1>1, DaemonType, EnvironmentType DEF Next

(* Type correctness, however the daemon, logind, udev and the link meet.    *)
THEOREM TypeCorrect == Spec => []TypeOK
  BY InitType, TypeStep, PTL DEF Spec

-----------------------------------------------------------------------------
(* Every ON has a reason                                                   *)

(* No ON is begun but for a wake-up or while the machine has just booted:   *)
(* not by replugging, not by a restart of the service.                      *)
THEOREM OnExplained == Spec => OnIsExplained
<1>1. ASSUME [Next]_vars, at # "send", at' = "send", cmd' = "ON"
      PROVE  fresh \/ why' = "wake"
  <2>1. CASE DaemonStep
    <3>1. CASE StartupOn
      BY <3>1 DEF StartupOn
    <3>2. CASE DrainAdd
      BY <1>1, <3>2 DEF DrainAdd, BootOnOwed
    <3>3. CASE OnPrepareForSleepOrShutdown
      <4>1. CASE Send("OFF", Head(signals).kind)
        <5>1. CASE Link!Refuse /\ Tried(Head(signals).kind)
          BY <1>1, <5>1 DEF Tried, BootOnTried, DownTried, WakeTried
        <5>2. CASE Link!Call("OFF")
          BY <1>1, <5>2 DEF Link!Call
        <5> QED
          BY <4>1, <5>1, <5>2 DEF Send
      <4> QED
        BY <1>1, <3>3, <4>1 DEF OnPrepareForSleepOrShutdown, Send
    <3> QED
      BY <1>1, <2>1, <3>1, <3>2, <3>3 DEF DaemonStep, ProcessStarts,
         StartupSkipped, Poll, Drained, Dispatched, SendReturns
  <2>2. CASE Environment
    BY <1>1, <2>2 DEF Environment, Announce, GoDown, CancelShutdown, Wake, Boot,
       UdevAdd, BootWindowPasses, Tick, StickStep, ServiceStops, ProcessEnds,
       daemonVars
  <2>3. CASE UNCHANGED vars
    BY <1>1, <2>3 DEF vars, daemonVars
  <2> QED
    BY <1>1, <2>1, <2>2, <2>3 DEF Next
<1> QED
  BY <1>1, PTL DEF Spec, OnIsExplained

-----------------------------------------------------------------------------
(* The lock and the signals                                                *)

LEMMA LockInit ==
    Init => LockFollowed /\ Alternating /\ FewTurns /\ Accounted /\ WaitsForOff
  BY DEF Init, LockFollowed, Alternating, FewTurns, Accounted, WaitsForOff,
     OffTriedInTime

LEMMA TriedLock ==
    ASSUME TypeOK, LockFollowed, at # "out", NEW reason \in Reason, Tried(reason)
    PROVE  at' # "out" /\ (waiting' => lock')
<1>1. at' # "out"
  BY DEF Tried, BootOnTried, DownTried, WakeTried
<1>2. CASE BootOnTried("poll") \/ BootOnTried("drain")
  BY <1>1, <1>2 DEF BootOnTried, LockFollowed
<1>3. CASE DownTried
  BY <1>1, <1>3 DEF DownTried
<1>4. CASE WakeTried
  BY <1>1, <1>4 DEF WakeTried, LockFollowed, TypeOK
<1> QED
  BY <1>2, <1>3, <1>4 DEF Tried

LEMMA SendLock ==
    ASSUME TypeOK, LockFollowed, at # "out", NEW c, NEW reason \in Reason,
           Send(c, reason)
    PROVE  at' # "out" /\ (waiting' => lock')
  BY TriedLock DEF Send, LockFollowed

LEMMA LockStep ==
    ASSUME TypeOK, LockFollowed, [Next]_vars
    PROVE  LockFollowed'
<1> USE DEF LockFollowed, logindVars, newsVars, daemonVars
<1>1. CASE DaemonStep
  <2>1. CASE ProcessStarts
    BY <2>1 DEF ProcessStarts
  <2>2. CASE StartupOn
    BY <2>2, SendLock DEF StartupOn, Reason
  <2>3. CASE StartupSkipped \/ Poll \/ Drained \/ Dispatched
    BY <2>3 DEF StartupSkipped, Poll, Drained, Dispatched
  <2>4. CASE DrainAdd
    BY <2>4, SendLock DEF DrainAdd, Reason
  <2>5. CASE OnPrepareForSleepOrShutdown
    <3>4. Head(signals) \in Signal
      BY <2>5 DEF OnPrepareForSleepOrShutdown, TypeOK
    <3>1. Head(signals).kind \in Reason /\ "wake" \in Reason
      BY <3>4 DEF Signal, Kind, Reason
    <3>2. CASE Send("OFF", Head(signals).kind)
      BY <2>5, <3>1, <3>2, SendLock DEF OnPrepareForSleepOrShutdown
    <3>3. CASE Send("ON", "wake")
      BY <2>5, <3>1, <3>3, SendLock DEF OnPrepareForSleepOrShutdown
    <3> QED
      BY <2>5, <3>2, <3>3 DEF OnPrepareForSleepOrShutdown
  <2>6. CASE SendReturns
    BY <2>6, TriedLock DEF SendReturns, TypeOK
  <2> QED
    BY <1>1, <2>1, <2>2, <2>3, <2>4, <2>5, <2>6 DEF DaemonStep
<1>2. CASE Boot \/ ServiceStops
  BY <1>2, EndsType DEF Boot, ServiceStops
<1>3. ASSUME NEW k \in Kind, Announce(k)
      PROVE  LockFollowed'
  BY <1>3 DEF Announce, Broadcast
<1>4. CASE CancelShutdown \/ Wake
  BY <1>4 DEF CancelShutdown, Wake, Closes, Broadcast
<1>5. CASE GoDown \/ UdevAdd \/ BootWindowPasses \/ Tick \/ StickStep \/ UNCHANGED vars
  BY <1>5 DEF GoDown, UdevAdd, BootWindowPasses, Tick, StickStep, vars
<1> QED
  BY <1>1, <1>2, <1>3, <1>4, <1>5 DEF Next, Environment

LEMMA TailAlternates ==
    ASSUME TypeOK, Alternating, signals # <<>>, signals' = Tail(signals),
           phase' = phase
    PROVE  Alternating'
<1>1. /\ signals \in Seq(Signal) /\ Len(signals') = Len(signals) - 1
      /\ \A i \in 1 .. Len(signals') : signals'[i] = signals[i + 1]
  BY DEF TypeOK
<1>2. ASSUME NEW i \in 1 .. Len(signals') - 1
      PROVE  signals'[i].start # signals'[i + 1].start
  <2>1. i + 1 \in 1 .. Len(signals) - 1 /\ signals'[i] = signals[i + 1]
        /\ signals'[i + 1] = signals[(i + 1) + 1]
    BY <1>1, <1>2
  <2> QED
    BY <2>1 DEF Alternating
<1>3. ASSUME signals' # <<>>
      PROVE  signals'[Len(signals')] = signals[Len(signals)]
  BY <1>1, <1>3
<1> QED
  BY <1>2, <1>3 DEF Alternating

LEMMA BroadcastAlternates ==
    ASSUME TypeOK, LockFollowed, Alternating, NEW k \in Kind, NEW start \in BOOLEAN,
           Broadcast(k, start), start <=> phase = "up", start <=> phase' # "up"
    PROVE  Alternating'
<1>1. CASE at = "out"
  BY <1>1 DEF Broadcast, LockFollowed, Alternating
<1>2. CASE at # "out"
  <2> DEFINE s == [kind |-> k, start |-> start]
  <2>1. signals \in Seq(Signal) /\ s \in Signal /\ signals' = Append(signals, s)
    BY <1>2 DEF TypeOK, Signal, Broadcast
  <2>2. /\ Len(signals') = Len(signals) + 1
        /\ \A i \in 1 .. Len(signals) : signals'[i] = signals[i]
        /\ signals'[Len(signals')] = s
    BY <2>1
  <2>3. ASSUME NEW i \in 1 .. Len(signals') - 1
        PROVE  signals'[i].start # signals'[i + 1].start
    <3>1. CASE i = Len(signals)
      <4>1. signals # <<>> /\ signals'[i] = signals[Len(signals)] /\ signals'[i + 1] = s
        BY <2>1, <2>2, <2>3, <3>1
      <4>2. signals[Len(signals)].start <=> ~start
        BY <4>1 DEF Alternating
      <4> QED
        BY <4>1, <4>2
    <3>2. CASE i # Len(signals)
      BY <2>1, <2>2, <2>3, <3>2 DEF Alternating
    <3> QED
      BY <3>1, <3>2
  <2> QED
    BY <2>2, <2>3 DEF Alternating
<1> QED
  BY <1>1, <1>2

LEMMA AlternatingStep ==
    ASSUME TypeOK, LockFollowed, Alternating, [Next]_vars
    PROVE  Alternating'
<1> USE DEF logindVars, newsVars, daemonVars
<1>1. CASE signals' = <<>>
  BY <1>1 DEF Alternating
<1>2. CASE signals' = signals /\ (phase' = "up" <=> phase = "up")
  BY <1>2 DEF Alternating
<1>3. CASE DaemonStep
  <2>1. CASE OnPrepareForSleepOrShutdown
    BY <2>1, TailAlternates DEF OnPrepareForSleepOrShutdown
  <2>2. CASE ~OnPrepareForSleepOrShutdown
    <3>1. signals' = signals /\ phase' = phase
      BY <1>3, <2>2 DEF DaemonStep, ProcessStarts, StartupOn, StartupSkipped, Poll,
         DrainAdd, Drained, Dispatched, SendReturns
    <3> QED
      BY <1>2, <3>1
  <2> QED
    BY <2>1, <2>2
<1>4. CASE Boot \/ ServiceStops
  BY <1>1, <1>4, EndsType DEF Boot, ServiceStops
<1>5. ASSUME NEW k \in Kind, Announce(k)
      PROVE  Alternating'
  BY <1>5, BroadcastAlternates DEF Announce
<1>6. CASE CancelShutdown \/ Wake
  BY <1>6, BroadcastAlternates DEF CancelShutdown, Wake, Closes, Kind
<1>7. CASE GoDown \/ UdevAdd \/ BootWindowPasses \/ Tick \/ StickStep \/ UNCHANGED vars
  BY <1>2, <1>7 DEF GoDown, UdevAdd, BootWindowPasses, Tick, StickStep, vars
<1> QED
  BY <1>3, <1>4, <1>5, <1>6, <1>7 DEF Next, Environment

-----------------------------------------------------------------------------
(* The backlog                                                             *)

LEMMA Less ==
    ASSUME NEW a \in Nat, NEW b \in Nat, a + 1 <= b
    PROVE  a + 1 \in Nat /\ a <= b /\ b <= b
  OBVIOUS

LEMMA AddsLeft ==
    ASSUME NEW seen \in 0 .. MaxAdds, NEW n \in 0 .. seen
    PROVE  MaxAdds - seen \in Nat /\ n \in Nat /\ n + (MaxAdds - seen) <= MaxAdds
  BY LinuxAssumption

LEMMA BacklogType ==
    ASSUME TypeOK
    PROVE  /\ Ahead \in 0 .. 2 /\ Backlog \in Nat /\ Backlog <= MaxAdds + 3
           /\ at # "boot" => Backlog <= MaxAdds + 2
  BY LinuxAssumption DEF TypeOK, Ahead, Backlog

LEMMA NextBacklogType ==
    ASSUME TypeOK'
    PROVE  /\ Ahead' \in 0 .. 2 /\ Backlog' \in Nat /\ Backlog' <= MaxAdds + 3
           /\ at' # "boot" => Backlog' + 1 <= MaxAdds + 3
<1>1. Ahead' \in 0 .. 2
  BY DEF Ahead
<1>4. adds' \in 0 .. addsSeen' /\ addsSeen' \in 0 .. MaxAdds
  BY Zenon DEF TypeOK
<1>2. /\ adds' \in Nat /\ MaxAdds - addsSeen' \in Nat
      /\ adds' + (MaxAdds - addsSeen') <= MaxAdds
  BY <1>4, AddsLeft, Zenon
<1>3. Backlog' = (IF at' = "boot" THEN 1 ELSE 0) + adds' + (MaxAdds - addsSeen') + Ahead'
  BY DEF Backlog
<1> QED
  BY <1>1, <1>2, <1>3, LinuxAssumption

LEMMA Sums ==
    ASSUME NEW n \in Nat
    PROVE  1 + n = n + 1 /\ 0 + n = n /\ 0 + 1 <= MaxAdds + 3
  BY LinuxAssumption

LEMMA OneLess ==
    ASSUME NEW n \in Nat, NEW left \in Nat, NEW a \in Nat, NEW b \in Nat, b + 1 = a
    PROVE  (0 + n + left + b) + 1 <= 0 + n + left + a
  OBVIOUS

\* In the window an end is followed by the start that opened it.
LEMMA AheadTail ==
    ASSUME TypeOK, Alternating, phase = "announced", signals # <<>>,
           signals' = Tail(signals), ~Head(signals).start
    PROVE  Ahead' + 1 = Ahead
<1>1. signals \in Seq(Signal)
  BY DEF TypeOK
<1>2. Len(signals) > 1
  BY <1>1 DEF Alternating
<1>3. signals[2].start
  <2>1. 1 \in 1 .. Len(signals) - 1 /\ signals[1] = Head(signals)
        /\ signals[1] \in Signal /\ signals[1 + 1] \in Signal
    BY <1>1, <1>2
  <2>2. signals[1].start # signals[1 + 1].start
    BY <2>1 DEF Alternating
  <2> QED
    BY <2>1, <2>2 DEF Signal
<1>4. Len(signals') = Len(signals) - 1 /\ signals'[1] = signals[2]
  BY <1>1, <1>2
<1> QED
  BY <1>1, <1>2, <1>3, <1>4 DEF Ahead

\* What is ahead and what is to come, when one of them shrinks.
LEMMA StillFits ==
    ASSUME NEW a \in Nat, NEW t \in Nat, NEW u \in Nat, u <= t, a + t <= MaxAdds + 3
    PROVE  a + u <= MaxAdds + 3
  BY LinuxAssumption

\* A place in the backlog becomes a send ahead.
LEMMA OneTaken ==
    ASSUME NEW a \in Nat, NEW t \in Nat, NEW u \in Nat, u + 1 <= t, a + t <= MaxAdds + 3
    PROVE  u <= t /\ a + 1 + u <= MaxAdds + 3
  BY LinuxAssumption

\* A send uses up its place in the backlog.
LEMMA SendTurns ==
    ASSUME TypeOK, TypeOK', FewTurns, NEW c \in Cmd, NEW reason \in Reason,
           Send(c, reason), at # "send", phase' = phase, waiting' => waiting,
           phase = "announced" /\ reason \in Kind => Backlog >= 1,
           phase = "announced" /\ reason \notin Kind => Backlog' + 1 <= Backlog
    PROVE  FewTurns'
<1> SUFFICES ASSUME phase = "announced", waiting', waiting
             PROVE  ahead' + Turns' <= MaxAdds + 3
  BY DEF FewTurns
<1>1. ahead + Backlog <= MaxAdds + 3
  BY DEF FewTurns, Turns
<1>2. Backlog \in Nat /\ Backlog' \in Nat /\ ahead \in Nat
  BY BacklogType, NextBacklogType DEF TypeOK
<1>3. why' = reason
  BY DEF Send
<1>4. CASE Link!Refuse /\ Tried(reason) /\ UNCHANGED ahead
  <2>1. at' # "send"
    BY <1>4 DEF Tried, BootOnTried, DownTried, WakeTried
  <2>2. reason \notin Kind
    BY <1>4 DEF Tried, DownTried, Kind
  <2>3. Turns' = Backlog'
    BY <2>1 DEF Turns
  <2>4. Backlog' + 1 <= Backlog
    BY <2>2, Zenon
  <2>5. Backlog' <= Backlog
    BY <1>1, <1>2, <2>4, OneTaken, Zenon
  <2>6. ahead + Backlog' <= MaxAdds + 3
    BY <1>1, <1>2, <2>5, StillFits, Zenon
  <2> QED
    BY <1>4, <2>3, <2>6, Zenon
<1>5. CASE Link!Call(c) /\ at' = "send" /\ GetsAhead(reason)
  <2>1. CASE reason \in Kind
    <3>1. Turns' = 1 /\ ahead' = ahead
      BY <1>3, <1>5, <2>1 DEF Turns, GetsAhead
    <3>2. Backlog >= 1
      BY <2>1, Zenon
    <3>3. ahead + 1 <= MaxAdds + 3
      BY <1>1, <1>2, <3>2, StillFits
    <3> QED
      BY <3>1, <3>3, Zenon
  <2>2. CASE reason \notin Kind
    <3>1. Turns' = Backlog' /\ ahead' = ahead + 1
      BY <1>3, <1>5, <2>2 DEF Turns, GetsAhead
    <3>2. Backlog' + 1 <= Backlog
      BY <2>2, Zenon
    <3>3. ahead + 1 + Backlog' <= MaxAdds + 3
      BY <1>1, <1>2, <3>2, OneTaken, Zenon
    <3> QED
      BY <3>1, <3>3, Zenon
  <2> QED
    BY <2>1, <2>2
<1> QED
  BY <1>4, <1>5 DEF Send

\* Nothing else adds to it.
LEMMA OtherTurns ==
    ASSUME TypeOK, TypeOK', FewTurns, at # "send", at' # "send", ahead' = ahead,
           phase' = phase, waiting' => waiting, phase = "announced" => Backlog' <= Backlog
    PROVE  FewTurns'
<1>1. Backlog \in Nat /\ Backlog' \in Nat /\ ahead \in Nat
  BY BacklogType, NextBacklogType DEF TypeOK
<1>2. Turns' = Backlog' /\ Turns = Backlog
  BY DEF Turns
<1> SUFFICES ASSUME phase = "announced", waiting'
             PROVE  ahead' + Turns' <= MaxAdds + 3
  BY DEF FewTurns
<1>3. Backlog' <= Backlog
  BY Zenon
<1>4. ahead + Turns <= MaxAdds + 3
  BY DEF FewTurns
<1>5. ahead + Backlog' <= MaxAdds + 3
  BY <1>1, <1>2, <1>3, <1>4, StillFits, Zenon
<1> QED
  BY <1>2, <1>5, Zenon

LEMMA TriedWaits ==
    ASSUME NEW reason, Tried(reason)
    PROVE  /\ at' \in {"poll", "drain", "bus"}
           /\ (UNCHANGED <<waiting, off>>) \/ (~waiting' /\ off' # "none")
           /\ reason \in Kind => ~waiting'
  BY DEF Tried, BootOnTried, DownTried, WakeTried, Kind

LEMMA SendWaits ==
    ASSUME NEW c, NEW reason, Send(c, reason)
    PROVE  /\ at' \in {"poll", "drain", "bus", "send"}
           /\ (UNCHANGED <<waiting, off>>) \/ (~waiting' /\ off' # "none")
  BY TriedWaits DEF Send

LEMMA BacklogSame ==
    ASSUME UNCHANGED <<adds, addsSeen, signals>>, at' = "boot" <=> at = "boot"
    PROVE  Backlog' = Backlog
  BY DEF Backlog, Ahead

LEMMA TurnsDaemon ==
    ASSUME TypeOK, TypeOK', LockFollowed, Alternating, FewTurns, DaemonStep
    PROVE  FewTurns'
<1> USE DEF logindVars, newsVars, ghostVars
<1>1. CASE ProcessStarts
  BY <1>1 DEF ProcessStarts, LockFollowed, FewTurns
<1>2. CASE StartupOn
  <2>1. Send("ON", "startup") /\ "ON" \in Cmd /\ "startup" \in Reason
        /\ "startup" \notin Kind
    BY <1>2 DEF StartupOn, Cmd, Reason, Kind
  <2>2. at' # "boot" /\ (waiting' => waiting)
    BY <2>1, SendWaits
  <2>3. Backlog' + 1 <= Backlog
    <3>1. Ahead' = Ahead
      BY <1>2 DEF StartupOn, Ahead
    <3> QED
      BY <1>2, <2>2, <3>1, BacklogType, LinuxAssumption DEF StartupOn, Backlog, TypeOK
  <2> QED
    BY <1>2, <2>1, <2>2, <2>3, SendTurns DEF StartupOn
<1>3. CASE StartupSkipped
  <2>1. Backlog' <= Backlog
    <3>1. Ahead' = Ahead
      BY <1>3 DEF StartupSkipped, Ahead
    <3> QED
      BY <1>3, <3>1, BacklogType, LinuxAssumption DEF StartupSkipped, Backlog, TypeOK
  <2> QED
    BY <1>3, <2>1, OtherTurns DEF StartupSkipped
<1>4. CASE Poll \/ Drained \/ Dispatched
  <2>1. /\ UNCHANGED <<adds, addsSeen, signals, phase, waiting, ahead>>
        /\ at # "send" /\ at' # "send" /\ at # "boot" /\ at' # "boot"
    BY <1>4 DEF Poll, Drained, Dispatched
  <2>2. Backlog' <= Backlog
    BY <2>1, BacklogSame, BacklogType
  <2> QED
    BY <2>1, <2>2, OtherTurns
<1>5. CASE DrainAdd
  <2>1. Backlog' + 1 <= Backlog \/ at' = "boot"
    <3>1. Ahead' = Ahead
      BY <1>5 DEF DrainAdd, Ahead
    <3> QED
      BY <1>5, <3>1, BacklogType, LinuxAssumption DEF DrainAdd, Backlog, TypeOK
  <2>2. CASE Send("ON", "device_ready")
    <3>1. "ON" \in Cmd /\ "device_ready" \in Reason /\ "device_ready" \notin Kind
      BY DEF Cmd, Reason, Kind
    <3>2. at' # "boot" /\ (waiting' => waiting)
      BY <2>2, SendWaits
    <3> QED
      BY <1>5, <2>1, <2>2, <3>1, <3>2, SendTurns DEF DrainAdd
  <2>3. CASE UNCHANGED <<at, waiting, ahead>>
    <3>1. at' # "boot" /\ at' # "send"
      BY <1>5, <2>3 DEF DrainAdd
    <3>2. Backlog' <= Backlog
      BY <2>1, <3>1, BacklogType, NextBacklogType, Less
    <3> QED
      BY <1>5, <2>3, <3>1, <3>2, OtherTurns DEF DrainAdd
  <2> QED
    BY <1>5, <2>2, <2>3 DEF DrainAdd
<1>6. CASE OnPrepareForSleepOrShutdown
  <2>1. /\ signals # <<>> /\ signals' = Tail(signals) /\ at = "bus"
        /\ UNCHANGED <<adds, addsSeen, phase>>
        /\ Head(signals) \in Signal
    BY <1>6 DEF OnPrepareForSleepOrShutdown, TypeOK
  <2>2. "ON" \in Cmd /\ "OFF" \in Cmd /\ "wake" \in Reason /\ "wake" \notin Kind
        /\ Head(signals).kind \in Kind /\ Head(signals).kind \in Reason
    BY <2>1 DEF Cmd, Reason, Kind, Signal
  <2>3. ASSUME phase = "announced", ~Head(signals).start, at' # "boot"
        PROVE  Backlog' + 1 <= Backlog
    <3>1. Ahead' + 1 = Ahead
      BY <2>1, <2>3, AheadTail
    <3>2. adds \in Nat /\ MaxAdds - addsSeen \in Nat
      BY LinuxAssumption DEF TypeOK
    <3>3. Ahead \in Nat /\ Ahead' \in Nat
      BY BacklogType, NextBacklogType
    <3>4. /\ Backlog = 0 + adds + (MaxAdds - addsSeen) + Ahead
          /\ Backlog' = 0 + adds + (MaxAdds - addsSeen) + Ahead'
      BY <2>1, <2>3 DEF Backlog
    <3> QED
      BY <3>1, <3>2, <3>3, <3>4, OneLess, Zenon
  <2>4. CASE Head(signals).start /\ Send("OFF", Head(signals).kind)
    <3>1. Backlog >= 1
      <4>1. Len(signals) # 0
        BY <2>1 DEF TypeOK
      <4>2. Ahead >= 1
        BY <4>1 DEF Ahead
      <4> QED
        BY <4>2, BacklogType, LinuxAssumption DEF Backlog, TypeOK
    <3>2. waiting' => waiting
      BY <2>4, SendWaits
    <3> QED
      BY <2>1, <2>2, <2>4, <3>1, <3>2, SendTurns
  <2>5. CASE ~Head(signals).start /\ Send("ON", "wake")
    <3>1. at' # "boot" /\ (waiting' => waiting)
      BY <2>5, SendWaits
    <3>2. phase = "announced" => Backlog' + 1 <= Backlog
      BY <2>3, <2>5, <3>1
    <3> QED
      BY <2>1, <2>2, <2>5, <3>1, <3>2, SendTurns
  <2>6. CASE ~Head(signals).start /\ UNCHANGED <<at, waiting, ahead>>
    <3>1. phase = "announced" => Backlog' + 1 <= Backlog
      BY <2>1, <2>3, <2>6
    <3>2. phase = "announced" => Backlog' <= Backlog
      BY <3>1, BacklogType, NextBacklogType, Less
    <3> QED
      BY <2>1, <2>6, <3>2, OtherTurns
  <2> QED
    BY <1>6, <2>4, <2>5, <2>6 DEF OnPrepareForSleepOrShutdown
<1>7. CASE SendReturns
  <2>1. /\ UNCHANGED <<adds, addsSeen, signals, phase>>
        /\ at = "send" /\ at' \in {"poll", "drain", "bus"}
        /\ waiting' => waiting /\ why \notin Kind
        /\ UNCHANGED <<ahead, why>>
    BY <1>7, TriedWaits DEF SendReturns
  <2>2. Backlog' = Backlog
    BY <2>1, BacklogSame
  <2> SUFFICES ASSUME phase = "announced", waiting'
               PROVE  ahead' + Turns' <= MaxAdds + 3
    BY <2>1 DEF FewTurns
  <2>3. Turns' = Backlog' /\ Turns = Backlog
    BY <2>1 DEF Turns
  <2>4. ahead + Turns <= MaxAdds + 3
    BY <2>1 DEF FewTurns
  <2> QED
    BY <2>1, <2>2, <2>3, <2>4, Zenon
<1> QED
  BY <1>1, <1>2, <1>3, <1>4, <1>5, <1>6, <1>7 DEF DaemonStep

LEMMA TurnsAnnounced ==
    ASSUME TypeOK, TypeOK', NEW k \in Kind, Announce(k)
    PROVE  FewTurns'
<1>1. /\ UNCHANGED <<at, why>>
      /\ ahead' = IF at = "send" /\ why \notin Kind THEN 1 ELSE 0
  BY DEF Announce, daemonVars
<1>2. /\ Backlog' \in Nat /\ Backlog' <= MaxAdds + 3
      /\ at' # "boot" => Backlog' + 1 <= MaxAdds + 3
  BY NextBacklogType
<1>3. CASE at = "send" /\ why \notin Kind
  <2>1. ahead' = 1 /\ Turns' = Backlog' /\ at' # "boot"
    BY <1>1, <1>3 DEF Turns
  <2>2. 1 + Backlog' <= MaxAdds + 3
    BY <1>2, <2>1, Sums, Zenon
  <2>3. ahead' + Turns' <= MaxAdds + 3
    BY <2>1, <2>2, Zenon
  <2> QED
    BY <2>3 DEF FewTurns
<1>4. CASE ~(at = "send" /\ why \notin Kind)
  <2>1. ahead' = 0 /\ (Turns' = 1 \/ Turns' = Backlog')
    BY <1>1, <1>4 DEF Turns
  <2>2. 0 + 1 <= MaxAdds + 3 /\ 0 + Backlog' <= MaxAdds + 3
    BY <1>2, Sums, Zenon
  <2>3. ahead' + Turns' <= MaxAdds + 3
    BY <2>1, <2>2, Zenon
  <2> QED
    BY <2>3 DEF FewTurns
<1> QED
  BY <1>3, <1>4

LEMMA TurnsSame ==
    ASSUME FewTurns, Backlog' = Backlog, UNCHANGED <<phase, waiting, at, why, ahead>>
    PROVE  FewTurns'
  BY DEF FewTurns, Turns

LEMMA TurnsStep ==
    ASSUME TypeOK, TypeOK', LockFollowed, Alternating, FewTurns, [Next]_vars
    PROVE  FewTurns'
<1> USE DEF logindVars, newsVars, daemonVars, ghostVars
<1>1. CASE phase' # "announced" \/ ~waiting'
  BY <1>1 DEF FewTurns
<1>2. CASE GoDown \/ CancelShutdown \/ Wake \/ Boot
  BY <1>1, <1>2 DEF GoDown, CancelShutdown, Wake, Closes, Boot
<1>3. CASE ServiceStops
  BY <1>1, <1>3, EndsType DEF ServiceStops
<1>4. CASE UdevAdd
  <2>1. UNCHANGED <<phase, waiting, at, why, ahead>>
    BY <1>4 DEF UdevAdd
  <2>2. Ahead' = Ahead
    BY <1>4 DEF UdevAdd, Ahead
  <2>3. Backlog' = Backlog
    BY <1>4, <2>1, <2>2, BacklogType, LinuxAssumption DEF UdevAdd, Backlog, TypeOK
  <2> QED
    BY <2>1, <2>3, TurnsSame
<1>5. CASE BootWindowPasses \/ StickStep \/ Tick \/ UNCHANGED vars
  <2>1. UNCHANGED <<phase, waiting, at, why, ahead, adds, addsSeen, signals>>
    BY <1>5 DEF BootWindowPasses, StickStep, Tick, vars
  <2> QED
    BY <2>1, BacklogSame, TurnsSame
<1> QED
  BY <1>2, <1>3, <1>4, <1>5, TurnsAnnounced, TurnsDaemon DEF Next, Environment

-----------------------------------------------------------------------------
(* The window                                                              *)

LEMMA Times ==
    ASSUME NEW a \in Nat
    PROVE  /\ a * SendTimeout \in Nat
           /\ (a + 1) * SendTimeout = a * SendTimeout + SendTimeout
  BY LinuxAssumption

\* A send that begins is one of those ahead, or the OFF.
LEMMA SendAccounted ==
    ASSUME TypeOK, Accounted, NEW c, NEW reason \in Reason, Send(c, reason),
           at # "send", UNCHANGED <<phase, window>>
    PROVE  Accounted'
<1> SUFFICES ASSUME phase = "announced", waiting'
             PROVE  Accounted'
  BY DEF Accounted
<1>1. why' = reason /\ spent' = 0 /\ window \in Nat /\ ahead \in Nat
  BY LinuxAssumption DEF Send, TypeOK
<1>2. waiting
  BY SendWaits
<1>3. window <= ahead * SendTimeout
  BY <1>2 DEF Accounted
<1>4. ahead * SendTimeout \in Nat
      /\ (ahead + 1) * SendTimeout = ahead * SendTimeout + SendTimeout
  BY <1>1, Times
<1>5. CASE Link!Refuse /\ Tried(reason) /\ UNCHANGED ahead
  <2>1. at' # "send"
    BY <1>5, TriedWaits
  <2> QED
    BY <1>3, <1>5, <2>1 DEF Accounted
<1>6. CASE at' = "send" /\ GetsAhead(reason)
  <2>1. CASE reason \in Kind
    <3>1. ahead' = ahead
      BY <1>6, <2>1 DEF GetsAhead
    <3> QED
      BY <1>1, <1>3, <1>4, <1>6, <2>1, <3>1 DEF Accounted
  <2>2. CASE reason \notin Kind
    <3>1. ahead' = ahead + 1
      BY <1>2, <1>6, <2>2 DEF GetsAhead
    <3>2. window + SendTimeout <= ahead' * SendTimeout + spent'
      BY <1>1, <1>3, <1>4, <3>1, LinuxAssumption
    <3> QED
      BY <1>1, <1>6, <2>2, <3>2 DEF Accounted
  <2> QED
    BY <2>1, <2>2
<1> QED
  BY <1>5, <1>6 DEF Send

LEMMA AccountedSame ==
    ASSUME Accounted, at' = at \/ (at # "send" /\ at' # "send"),
           UNCHANGED <<phase, waiting, window, why, spent, ahead>>
    PROVE  Accounted'
  BY DEF Accounted

LEMMA AccountedDaemon ==
    ASSUME TypeOK, LockFollowed, Accounted, DaemonStep
    PROVE  Accounted'
<1> USE DEF logindVars, newsVars, ghostVars
<1>1. CASE ProcessStarts
  BY <1>1 DEF ProcessStarts, LockFollowed, Accounted
<1>2. CASE StartupOn
  BY <1>2, SendAccounted DEF StartupOn, Reason
<1>3. CASE StartupSkipped \/ Poll \/ Drained \/ Dispatched
  BY <1>3, AccountedSame DEF StartupSkipped, Poll, Drained, Dispatched
<1>4. CASE DrainAdd
  <2>1. CASE Send("ON", "device_ready")
    BY <1>4, <2>1, SendAccounted DEF DrainAdd, Reason
  <2> QED
    BY <1>4, <2>1, AccountedSame DEF DrainAdd
<1>5. CASE OnPrepareForSleepOrShutdown
  <2>1. Head(signals).kind \in Reason /\ "wake" \in Reason
    <3>1. Head(signals) \in Signal
      BY <1>5 DEF OnPrepareForSleepOrShutdown, TypeOK
    <3> QED
      BY <3>1 DEF Signal, Kind, Reason
  <2>2. CASE Send("OFF", Head(signals).kind)
    BY <1>5, <2>1, <2>2, SendAccounted DEF OnPrepareForSleepOrShutdown
  <2>3. CASE Send("ON", "wake")
    BY <1>5, <2>1, <2>3, SendAccounted DEF OnPrepareForSleepOrShutdown
  <2> QED
    BY <1>5, <2>2, <2>3, AccountedSame DEF OnPrepareForSleepOrShutdown
<1>6. CASE SendReturns
  <2> SUFFICES ASSUME phase = "announced", waiting'
               PROVE  window' <= ahead' * SendTimeout
    BY <1>6, TriedWaits DEF SendReturns, Accounted
  <2>1. waiting /\ why \notin Kind /\ UNCHANGED <<window, ahead>> /\ at = "send"
    BY <1>6, TriedWaits DEF SendReturns
  <2>2. window + SendTimeout <= ahead * SendTimeout + spent
    BY <2>1 DEF Accounted
  <2>3. /\ window \in Nat /\ spent \in 0 .. SendTimeout /\ ahead \in Nat
        /\ ahead * SendTimeout \in Nat
    BY Times, LinuxAssumption DEF TypeOK
  <2> QED
    BY <2>1, <2>2, <2>3, LinuxAssumption
<1> QED
  BY <1>1, <1>2, <1>3, <1>4, <1>5, <1>6 DEF DaemonStep

LEMMA AccountedStep ==
    ASSUME TypeOK, LockFollowed, Accounted, [Next]_vars
    PROVE  Accounted'
<1> USE DEF logindVars, newsVars, daemonVars, ghostVars
<1>1. CASE phase' # "announced" \/ ~waiting'
  BY <1>1 DEF Accounted
<1>2. CASE GoDown \/ CancelShutdown \/ Wake \/ Boot
  BY <1>1, <1>2 DEF GoDown, CancelShutdown, Wake, Closes, Boot
<1>3. CASE ServiceStops
  BY <1>1, <1>3, EndsType DEF ServiceStops
<1>4. ASSUME NEW k \in Kind, Announce(k)
      PROVE  Accounted'
  <2>1. /\ UNCHANGED <<at, why, spent>> /\ window' = 0
        /\ ahead' = IF at = "send" /\ why \notin Kind THEN 1 ELSE 0
    BY <1>4 DEF Announce
  <2>2. spent \in Nat /\ SendTimeout \in Nat
    BY LinuxAssumption DEF TypeOK
  <2>3. ahead' * SendTimeout = IF at = "send" /\ why \notin Kind THEN SendTimeout ELSE 0
    BY <2>1, <2>2
  <2> QED
    BY <2>1, <2>2, <2>3 DEF Accounted
<1>5. CASE Tick
  <2>1. /\ UNCHANGED <<phase, waiting, at, why, ahead>> /\ at = "send"
        /\ spent' = spent + 1 /\ window' \in {window, window + 1}
    BY <1>5 DEF Tick
  <2>2. /\ window \in Nat /\ spent \in Nat /\ ahead * SendTimeout \in Nat
        /\ SendTimeout \in Nat
    BY Times, LinuxAssumption DEF TypeOK
  <2> QED
    BY <2>1, <2>2 DEF Accounted
<1>6. CASE UdevAdd \/ BootWindowPasses \/ StickStep \/ UNCHANGED vars
  BY <1>6, AccountedSame DEF UdevAdd, BootWindowPasses, StickStep, vars
<1> QED
  BY <1>2, <1>3, <1>4, <1>5, <1>6, AccountedDaemon DEF Next, Environment

-----------------------------------------------------------------------------
(* The OFF before the machine goes down                                    *)

LEMMA WaitStep ==
    ASSUME TypeOK, Accounted, WaitsForOff, [Next]_vars
    PROVE  WaitsForOff'
<1> USE DEF WaitsForOff, OffTriedInTime, logindVars, ghostVars
<1>1. CASE DaemonStep
  <2>1. phase' = phase /\ asked' = asked /\ phase # "down"
    BY <1>1 DEF DaemonStep, ProcessStarts, StartupOn, StartupSkipped, Poll, DrainAdd,
       Drained, OnPrepareForSleepOrShutdown, Dispatched, SendReturns
  <2>2. (UNCHANGED <<waiting, off>>) \/ off' # "none"
    BY <1>1, SendWaits, TriedWaits DEF DaemonStep, ProcessStarts, StartupOn,
       StartupSkipped, Poll, DrainAdd, Drained, OnPrepareForSleepOrShutdown,
       Dispatched, SendReturns
  <2> QED
    BY <2>1, <2>2
<1>2. CASE GoDown
  <2>1. waiting /\ window = InhibitDelay => InhibitDelay <= (ahead + 1) * SendTimeout
    <3> SUFFICES ASSUME waiting, window = InhibitDelay
                 PROVE  InhibitDelay <= (ahead + 1) * SendTimeout
      OBVIOUS
    <3>1. /\ ahead * SendTimeout \in Nat /\ SendTimeout \in Nat
          /\ (ahead + 1) * SendTimeout = ahead * SendTimeout + SendTimeout
          /\ spent \in 0 .. SendTimeout /\ window \in Nat
      BY Times, LinuxAssumption DEF TypeOK
    <3>2. \/ window <= ahead * SendTimeout
          \/ window <= ahead * SendTimeout + spent
          \/ window + SendTimeout <= ahead * SendTimeout + spent
      BY <1>2 DEF GoDown, Accounted
    <3> QED
      BY <3>1, <3>2
  <2>2. (ahead + 1) * SendTimeout \in Nat /\ InhibitDelay \in Nat
    BY LinuxAssumption DEF TypeOK
  <2>3. /\ UNCHANGED <<asked, off, ahead>> /\ phase = "announced"
        /\ ~waiting \/ (waiting /\ window = InhibitDelay)
    BY <1>2 DEF GoDown
  <2> QED
    BY <1>2, <2>1, <2>2, <2>3 DEF GoDown
<1>3. ASSUME NEW k \in Kind, Announce(k)
      PROVE  WaitsForOff'
  BY <1>3 DEF Announce
<1>4. CASE CancelShutdown \/ Wake \/ Boot
  BY <1>4 DEF CancelShutdown, Wake, Closes, Boot
<1>5. CASE ServiceStops
  BY <1>5, EndsType DEF ServiceStops
<1>6. CASE UdevAdd \/ BootWindowPasses \/ Tick \/ StickStep \/ UNCHANGED vars
  BY <1>6 DEF UdevAdd, BootWindowPasses, Tick, StickStep, vars
<1> QED
  BY <1>1, <1>2, <1>3, <1>4, <1>5, <1>6 DEF Next, Environment

(* A machine whose logind found the lock goes down without the OFF tried    *)
(* only when the sends that were in front of it take up the delay window    *)
(* with it: for every delay window and every send timeout, however many     *)
(* announcements, udev events, cancelled shutdowns and restarts there are.  *)
THEOREM OffTried == Spec => []OffTriedInTime
<1>1. Init => IInv
  BY InitType, LockInit DEF IInv
<1>2. IInv /\ [Next]_vars => IInv'
  BY TypeStep, LockStep, AccountedStep, WaitStep DEF IInv
<1>3. IInv => OffTriedInTime
  BY DEF IInv, WaitsForOff
<1> QED
  BY <1>1, <1>2, <1>3, PTL DEF Spec

-----------------------------------------------------------------------------
(* The lock at rest                                                        *)

\* The last signal of a machine that is up ends what was announced last.
LastEnds == signals # <<>> /\ phase = "up" => signals[Len(signals)].kind = kind

\* Logind waits only for an OFF that is on its way.
WaitsForNews ==
    phase = "announced" /\ waiting => signals # <<>> \/ (at = "send" /\ why \in Kind)

\* A machine that woke up has its lock once the wake-up is dealt with.
Regained ==
    phase = "up" /\ kind = "sleep" /\ at # "out" /\ signals = <<>> /\ ~Refusals =>
        \/ at = "send" /\ why = "wake"
        \/ lock /\ ~(at = "send" /\ why \in Kind)

LEMMA TailLast ==
    ASSUME signals \in Seq(Signal), signals # <<>>, signals' = Tail(signals)
    PROVE  /\ signals' # <<>> => signals'[Len(signals')] = signals[Len(signals)]
           /\ signals' = <<>> => signals[Len(signals)] = Head(signals)
<1>1. Len(signals) \in Nat \ {0} /\ Len(signals') = Len(signals) - 1
      /\ \A i \in 1 .. Len(signals') : signals'[i] = signals[i + 1]
  OBVIOUS
<1>2. ASSUME signals' # <<>>
      PROVE  signals'[Len(signals')] = signals[Len(signals)]
  BY <1>1, <1>2
<1>3. ASSUME signals' = <<>>
      PROVE  signals[Len(signals)] = Head(signals)
  <2>1. Len(signals') = 0
    <3>1. Len(<<>>) = 0
      OBVIOUS
    <3> QED
      BY <1>3, <3>1, Zenon
  <2>2. Len(signals) = 1 /\ Head(signals) = signals[1]
    BY <1>1, <2>1
  <2> QED
    BY <2>2
<1> QED
  BY <1>2, <1>3

\* A signal that a running process gets is there to be dispatched.
LEMMA BroadcastLast ==
    ASSUME TypeOK, LockFollowed, NEW k \in Kind, NEW start \in BOOLEAN, Broadcast(k, start)
    PROVE  /\ at # "out" => signals' # <<>>
           /\ signals' # <<>> => signals'[Len(signals')].kind = k
<1>1. CASE at = "out"
  BY <1>1 DEF Broadcast, LockFollowed
<1>2. CASE at # "out"
  <2> DEFINE s == [kind |-> k, start |-> start]
  <2>1. signals \in Seq(Signal) /\ s \in Signal /\ signals' = Append(signals, s)
    BY <1>2 DEF TypeOK, Signal, Broadcast
  <2>2. signals'[Len(signals')] = s /\ signals' # <<>>
    BY <2>1
  <2> QED
    BY <2>2
<1> QED
  BY <1>1, <1>2

LEMMA LastEndsStep ==
    ASSUME TypeOK, LockFollowed, LastEnds, [Next]_vars
    PROVE  LastEnds'
<1> USE DEF LastEnds, logindVars, newsVars, daemonVars
<1>1. CASE signals' = <<>> \/ phase' # "up"
  BY <1>1
<1>2. CASE UNCHANGED <<signals, phase, kind>>
  BY <1>2
<1>3. CASE DaemonStep
  <2>1. CASE OnPrepareForSleepOrShutdown
    <3>1. /\ signals \in Seq(Signal) /\ signals # <<>> /\ signals' = Tail(signals)
          /\ UNCHANGED <<phase, kind>>
      BY <2>1 DEF OnPrepareForSleepOrShutdown, TypeOK
    <3> QED
      BY <3>1, TailLast
  <2>2. CASE ~OnPrepareForSleepOrShutdown
    <3>1. UNCHANGED <<signals, phase, kind>>
      BY <1>3, <2>2 DEF DaemonStep, ProcessStarts, StartupOn, StartupSkipped, Poll,
         DrainAdd, Drained, Dispatched, SendReturns
    <3> QED
      BY <1>2, <3>1
  <2> QED
    BY <2>1, <2>2
<1>4. CASE Boot \/ ServiceStops
  BY <1>1, <1>4, EndsType DEF Boot, ServiceStops
<1>5. ASSUME NEW k \in Kind, Announce(k)
      PROVE  LastEnds'
  BY <1>1, <1>5 DEF Announce
<1>6. CASE CancelShutdown \/ Wake
  BY <1>6, BroadcastLast DEF CancelShutdown, Wake, Closes, Kind
<1>7. CASE GoDown \/ UdevAdd \/ BootWindowPasses \/ Tick \/ StickStep \/ UNCHANGED vars
  BY <1>1, <1>2, <1>7 DEF GoDown, UdevAdd, BootWindowPasses, Tick, StickStep, vars
<1> QED
  BY <1>3, <1>4, <1>5, <1>6, <1>7 DEF Next, Environment

\* Any send but an OFF and a wake-up's ON leaves the lock to logind as it was.
LEMMA OtherSends ==
    ASSUME TypeOK, NEW c, NEW reason, reason \in {"startup", "device_ready"},
           Send(c, reason)
    PROVE  UNCHANGED <<lock, waiting>> /\ why' = reason /\ at' # "out"
  BY DEF Send, Tried, BootOnTried, Kind

LEMMA RestStep ==
    ASSUME TypeOK, LockFollowed, Alternating, LastEnds, WaitsForNews, Regained,
           [Next]_vars
    PROVE  WaitsForNews' /\ Regained'
<1> USE DEF WaitsForNews, Regained, logindVars, newsVars, daemonVars
<1>1. ASSUME UNCHANGED <<phase, kind, signals, at, why>>,
             UNCHANGED lock, UNCHANGED waiting
      PROVE  WaitsForNews' /\ Regained'
  BY <1>1
<1>2. CASE DaemonStep
  <2>1. CASE ProcessStarts
    <3>1. at = "out" /\ at' = "boot" /\ lock' /\ UNCHANGED <<phase, kind, signals>>
          /\ UNCHANGED waiting
      BY <2>1 DEF ProcessStarts
    <3>2. ~waiting'
      BY <3>1 DEF LockFollowed
    <3> QED
      BY <3>1, <3>2
  <2>2. ASSUME NEW reason \in {"startup", "device_ready"}, Send("ON", reason),
               UNCHANGED <<phase, kind, signals>>, at # "send", at # "out"
        PROVE  WaitsForNews' /\ Regained'
    BY <2>2, OtherSends DEF Kind
  <2>3. CASE StartupOn
    BY <2>2, <2>3 DEF StartupOn
  <2>4. CASE StartupSkipped \/ Poll \/ Drained \/ Dispatched
    BY <2>4 DEF StartupSkipped, Poll, Drained, Dispatched
  <2>5. CASE DrainAdd
    <3>1. CASE Send("ON", "device_ready")
      BY <2>2, <2>5, <3>1 DEF DrainAdd
    <3> QED
      BY <2>5, <3>1 DEF DrainAdd
  <2>6. CASE OnPrepareForSleepOrShutdown
    <3>1. /\ signals \in Seq(Signal) /\ signals # <<>> /\ signals' = Tail(signals)
          /\ at = "bus" /\ UNCHANGED <<phase, kind>> /\ Head(signals) \in Signal
      BY <2>6 DEF OnPrepareForSleepOrShutdown, TypeOK
    <3>2. Head(signals).kind \in Kind
      BY <3>1 DEF Signal
    <3>3. signals' = <<>> =>
            /\ phase = "announced" => Head(signals).start
            /\ phase = "up" /\ kind = "sleep" =>
                  ~Head(signals).start /\ Head(signals).kind = "sleep"
      BY <3>1, TailLast DEF Alternating, LastEnds
    <3>4. CASE Head(signals).start /\ Send("OFF", Head(signals).kind)
      <4>1. CASE Link!Refuse /\ Tried(Head(signals).kind)
        <5>1. DownTried
          BY <3>2, <4>1 DEF Tried, Kind
        <5> QED
          BY <3>1, <3>3, <3>4, <5>1 DEF DownTried
      <4>2. CASE at' = "send" /\ why' \in Kind
        BY <3>1, <3>3, <3>4, <4>2
      <4> QED
        BY <3>2, <3>4, <4>1, <4>2 DEF Send
    <3>5. CASE ~Head(signals).start /\ Send("ON", "wake")
      <4>1. CASE Tried("wake")
        <5>1. WakeTried
          BY <4>1 DEF Tried, Kind
        <5>2. at' = "bus" /\ (~Refusals => lock')
          BY <5>1 DEF WakeTried
        <5> QED
          BY <3>1, <3>3, <3>5, <5>2
      <4>2. CASE at' = "send" /\ why' = "wake"
        BY <3>1, <3>3, <3>5, <4>2
      <4> QED
        BY <3>5, <4>1, <4>2 DEF Send
    <3>6. CASE /\ ~Head(signals).start /\ Head(signals).kind = "shutdown"
               /\ at' = "bus"
      BY <3>1, <3>3, <3>6
    <3> QED
      BY <2>6, <3>1, <3>4, <3>5, <3>6 DEF OnPrepareForSleepOrShutdown
  <2>7. CASE SendReturns
    <3>1. at = "send" /\ Tried(why) /\ UNCHANGED <<phase, kind, signals>>
      BY <2>7 DEF SendReturns
    <3>2. CASE \/ why = "startup" /\ BootOnTried("poll")
               \/ why = "device_ready" /\ BootOnTried("drain")
      <4>1. /\ UNCHANGED lock /\ UNCHANGED waiting /\ at' # "send" /\ at' # "out"
        BY <3>2 DEF BootOnTried
      <4> QED
        BY <3>1, <3>2, <4>1 DEF Kind
    <3>3. CASE why \in Kind /\ DownTried
      <4>1. ~waiting'
        BY <3>3 DEF DownTried
      <4> QED
        BY <3>1, <3>3, <4>1 DEF Kind
    <3>4. CASE why = "wake" /\ WakeTried
      <4>1. at' = "bus" /\ (~Refusals => lock') /\ UNCHANGED waiting
        BY <3>4 DEF WakeTried
      <4> QED
        BY <3>1, <3>4, <4>1 DEF Kind
    <3> QED
      BY <3>1, <3>2, <3>3, <3>4 DEF Tried
  <2> QED
    BY <1>2, <2>1, <2>3, <2>4, <2>5, <2>6, <2>7 DEF DaemonStep
<1>3. CASE Boot \/ ServiceStops
  BY <1>3, EndsType DEF Boot, ServiceStops
<1>4. ASSUME NEW k \in Kind, Announce(k)
      PROVE  WaitsForNews' /\ Regained'
  <2>1. lock => signals' # <<>>
    BY <1>4, BroadcastLast DEF Announce, LockFollowed
  <2>2. phase' = "announced" /\ (waiting' <=> lock)
    BY <1>4 DEF Announce
  <2> QED
    BY <2>1, <2>2
<1>5. CASE CancelShutdown
  <2>1. phase' = "up" /\ kind' = "shutdown"
    BY <1>5 DEF CancelShutdown, Closes
  <2> QED
    BY <2>1
<1>6. CASE Wake
  <2>1. phase' = "up" /\ UNCHANGED at /\ (at # "out" => signals' # <<>>)
    BY <1>6, BroadcastLast DEF Wake, Closes, Kind
  <2> QED
    BY <2>1
<1>7. CASE GoDown
  BY <1>7 DEF GoDown
<1>8. CASE UdevAdd \/ BootWindowPasses \/ Tick \/ StickStep \/ UNCHANGED vars
  BY <1>1, <1>8 DEF UdevAdd, BootWindowPasses, Tick, StickStep, vars
<1> QED
  BY <1>2, <1>3, <1>4, <1>5, <1>6, <1>7, <1>8 DEF Next, Environment

(* Between two rounds of poll logind waits for nothing, and after a sleep   *)
(* the daemon has its lock, for any queue of signals, any refused or        *)
(* failed send, any cancelled shutdown and any restart in between.          *)
THEOREM LockIsAtRest == Spec => []LockAtRest
<1>1. Init => LockFollowed /\ Alternating /\ LastEnds /\ WaitsForNews /\ Regained
  BY LockInit DEF Init, LastEnds, WaitsForNews, Regained
<1>2. TypeOK /\ LockFollowed /\ Alternating /\ LastEnds /\ WaitsForNews /\ Regained
        /\ [Next]_vars =>
            LockFollowed' /\ Alternating' /\ LastEnds' /\ WaitsForNews' /\ Regained'
  BY LockStep, AlternatingStep, LastEndsStep, RestStep
<1>3. ASSUME WaitsForNews, Regained, at = "poll", signals = <<>>
      PROVE  /\ phase = "announced" => ~waiting
             /\ phase = "up" /\ kind = "sleep" => lock \/ Refusals
  BY <1>3, Zenon DEF WaitsForNews, Regained
<1>4. WaitsForNews /\ Regained => LockAtRest
  BY <1>3 DEF LockAtRest
<1> QED
  BY <1>1, <1>2, <1>4, TypeCorrect, PTL DEF Spec
-----------------------------------------------------------------------------
(* How many sends can be in front of the OFF                               *)

(* While logind waits, the sends that came before the OFF are at most the   *)
(* start-up ON or one that was running, the ON of one wake-up and one for   *)
(* each udev event, whatever failed and whatever was announced before.      *)
THEOREM FewGetAhead == Spec => []FewAhead
<1>1. Init => /\ LockFollowed /\ Alternating /\ FewTurns
              /\ LastEnds /\ WaitsForNews /\ Regained
  BY LockInit DEF Init, LastEnds, WaitsForNews, Regained
<1>2. TypeOK /\ TypeOK' /\ LockFollowed /\ Alternating /\ FewTurns /\ LastEnds
        /\ WaitsForNews /\ Regained /\ [Next]_vars =>
            /\ LockFollowed' /\ Alternating' /\ FewTurns'
            /\ LastEnds' /\ WaitsForNews' /\ Regained'
  BY LockStep, AlternatingStep, TurnsStep, LastEndsStep, RestStep
<1>3. ASSUME TypeOK, FewTurns, WaitsForNews, phase = "announced", waiting
      PROVE  ahead <= MaxAdds + 2
  <2>1. Turns \in Nat /\ Turns >= 1
    <3>1. CASE at = "send" /\ why \in Kind
      BY <3>1 DEF Turns
    <3>2. CASE ~(at = "send" /\ why \in Kind)
      <4>1. Len(signals) # 0
        BY <1>3, <3>2 DEF WaitsForNews, TypeOK
      <4>2. Ahead >= 1
        BY <4>1 DEF Ahead
      <4>3. Backlog \in Nat /\ Backlog >= 1
        BY <1>3, <4>2, BacklogType, LinuxAssumption DEF Backlog, TypeOK
      <4> QED
        BY <3>2, <4>3 DEF Turns
    <3> QED
      BY <3>1, <3>2
  <2>2. ahead + Turns <= MaxAdds + 3 /\ ahead \in Nat
    BY <1>3 DEF FewTurns, TypeOK
  <2> QED
    BY <2>1, <2>2, LinuxAssumption
<1>4. TypeOK /\ FewTurns /\ WaitsForNews => FewAhead
  BY <1>3 DEF FewAhead
<1> QED
  BY <1>1, <1>2, <1>4, TypeCorrect, PTL DEF Spec
=============================================================================
