------------------------ MODULE WindowsPower_proofs ------------------------
(***************************************************************************)
(* Proofs about WindowsPower, for any number of control codes in any       *)
(* order.                                                                  *)
(***************************************************************************)
EXTENDS WindowsPower, TLAPS

-----------------------------------------------------------------------------
(* The inductive invariant.                                                *)

\* There is no worker before serviceMain starts it.
WorkerStarted == main \in {"starting", "registering"} => worker = "none"

\* A request that waits is the last one made, and is not slept through.
SlotIsLatest ==
    /\ pendingOn # "none" => pendingOn = desiredOn
    /\ worker = "asleep" => pendingOn = "none"

\* The last request made waits, is being acted on, or is what the last send
\* that was confirmed asked for; unless a shutdown took its place.
LatestFollowed ==
    pendingOn = "none" /\ desiredOn # "none" =>
        /\ worker \in {"none", "initial", "check", "asleep"} /\ ok => cmd = desiredOn
        /\ worker = "act" => \/ batch.want = desiredOn
                             \/ batch.want = "none" /\ (ok => cmd = desiredOn)
        /\ worker = "send" => batch.shutdown \/ cmd = desiredOn

\* No resume and no arrival asks for ON behind a display known to be off.
DisplayDecides == lastDisplayState = "OFF" => desiredOn = "OFF"

\* A service is told of its end once, and the worker ends for nothing else.
ToldOnce ==
    /\ main = "starting" => status = "start_pending"
    /\ shutdownRequested \/ stopRequested => status \in {"stop_pending", "stopped"}
    /\ ~(shutdownRequested /\ stopRequested)
    /\ batch.shutdown => shutdownRequested
    /\ batch.stop => stopRequested
    /\ worker = "done" => shutdownRequested \/ stopRequested

\* The end of a service that was told of a shutdown is its OFF.
OffIsLast ==
    /\ worker = "send" /\ batch.shutdown => cmd = "OFF"
    /\ worker = "done" /\ shutdownRequested /\ ok => cmd = "OFF"
    /\ status = "stopped" => main = "gone" /\ worker \in {"none", "done"}
    /\ worker = "none" => ~ok

IInv ==
    /\ TypeOK /\ WorkerStarted
    /\ Link!Promise
    /\ SlotIsLatest /\ LatestFollowed /\ DisplayDecides /\ ToldOnce /\ OffIsLast

-----------------------------------------------------------------------------
(* The parts, action by action.                                            *)

LEMMA LinkKept ==
    ASSUME Link!Promise, Link!Next \/ UNCHANGED linkVars
    PROVE  Link!Promise'
<1>1. CASE (\E c \in Cmd : Link!Call(c)) \/ Link!Refuse \/ Link!Fail
  <2>1. ok' = FALSE
    BY <1>1 DEF Link!Call, Link!Refuse, Link!Fail
  <2> QED
    BY <2>1 DEF Link!Promise
<1>2. CASE Link!Confirm
  BY <1>2 DEF Link!Confirm, Link!Promise
<1>3. CASE Link!Reach \/ Link!Lose
  BY <1>3 DEF Link!Reach, Link!Lose, Link!Promise
<1>4. CASE UNCHANGED linkVars
  BY <1>4 DEF linkVars, Link!Promise
<1> QED
  BY <1>1, <1>2, <1>3, <1>4 DEF Link!Next

\* No step of the service does anything to the link that TvLink does not know.
LEMMA LinkStep ==
    ASSUME TypeOK, [Next]_vars
    PROVE  Link!Next \/ UNCHANGED linkVars
<1>1. ASSUME ServiceMain \/ Handler \/ GracePasses \/ UNCHANGED vars
      PROVE  UNCHANGED linkVars
  BY <1>1 DEF ServiceMain, ServiceRuns, ServiceFails, Registers, StartsWorker,
     ServiceEnds, Handler, OnDisplayState, OnSuspend, OnResume, OnArrival,
     OnRemoval, OnPreshutdown, OnStop, GracePasses, vars
<1>2. CASE InitialWait \/ Sleep \/ Take
  BY <1>2 DEF InitialWait, Sleep, Take
<1>3. CASE Act
  <2>1. batch \in [want : Maybe, shutdown : BOOLEAN, stop : BOOLEAN]
    BY DEF TypeOK
  <2>2. Command # "none" => Command \in Cmd
    BY <2>1 DEF Command, Maybe, Cmd
  <2> QED
    BY <1>3, <2>2 DEF Act, Link!Next
<1>4. CASE SendReturns
  BY <1>4 DEF SendReturns, Link!Next
<1>5. CASE StickStep
  BY <1>5 DEF StickStep, Link!Next
<1> QED
  BY <1>1, <1>2, <1>3, <1>4, <1>5 DEF Next, Worker

\* Types of what the handler leaves to Zenon and to SMT.
LEMMA NotifyType ==
    ASSUME TypeOK, Notify
    PROVE  /\ worker' \in {"none", "initial", "check", "asleep", "act", "send", "done"}
           /\ worker' = "send" <=> worker = "send"
  BY DEF TypeOK, Notify

LEMMA HandlerType ==
    ASSUME TypeOK, Handler
    PROVE  TypeOK'
<1> USE NotifyType, WindowsAssumption
    DEF TypeOK, Control, RequestState, serviceVars, handlerVars, linkVars, Maybe, Cmd
<1>1. ASSUME NEW state \in {"on", "off", "dimmed"}, OnDisplayState(state)
      PROVE  TypeOK'
  <2>1. DisplayCommand(state) \in Cmd
    BY DEF DisplayCommand
  <2> QED
    BY <1>1, <2>1 DEF OnDisplayState
<1>2. CASE OnSuspend
  BY <1>2 DEF OnSuspend
<1>3. CASE OnResume
  BY <1>3 DEF OnResume
<1>4. CASE OnArrival
  BY <1>4 DEF OnArrival
<1>5. CASE OnRemoval
  <2>1. deviceGone' \in BOOLEAN
    BY <1>5, Zenon DEF OnRemoval
  <2> QED
    BY <1>5, <2>1 DEF OnRemoval
<1>6. CASE OnPreshutdown
  <2>1. shutdownRequested' \in BOOLEAN
    BY <1>6, Zenon DEF OnPreshutdown
  <2> QED
    BY <1>6, <2>1 DEF OnPreshutdown
<1>7. CASE OnStop
  <2>1. stopRequested' \in BOOLEAN
    BY <1>7, Zenon DEF OnStop
  <2> QED
    BY <1>7, <2>1 DEF OnStop
<1> QED
  BY <1>1, <1>2, <1>3, <1>4, <1>5, <1>6, <1>7 DEF Handler

LEMMA WorkerType ==
    ASSUME TypeOK, Worker
    PROVE  TypeOK'
<1> USE DEF TypeOK, serviceVars, handlerVars, queueVars, linkVars, Maybe
<1>1. CASE InitialWait
  BY <1>1 DEF InitialWait
<1>6. CASE Sleep
  BY <1>6 DEF Sleep
<1>2. CASE Take
  <2>1. deviceGone' \in BOOLEAN
    BY <1>2, Zenon DEF Take
  <2> QED
    BY <1>2, <2>1 DEF Take
<1>3. NoBatch \in [want : Maybe, shutdown : BOOLEAN, stop : BOOLEAN]
  BY DEF NoBatch
<1>4. CASE Act
  <2>1. CASE RoundOver /\ UNCHANGED linkVars
    BY <1>3, <1>4, <2>1 DEF Act, RoundOver
  <2>2. CASE Link!Refuse /\ RoundOver
    <3>1. ok' \in BOOLEAN
      BY <2>2, Zenon DEF Link!Refuse
    <3> QED
      BY <1>3, <1>4, <2>2, <3>1 DEF Act, RoundOver, Link!Refuse
  <2>3. CASE /\ Command # "none"
             /\ Link!Call(Command)
             /\ worker' = "send"
             /\ UNCHANGED <<batch, pendingOn>>
    <3>1. Command \in Cmd
      BY <2>3 DEF Command, Cmd
    <3>2. ok' \in BOOLEAN /\ busy' \in BOOLEAN /\ busy'
      BY <2>3, Zenon DEF Link!Call
    <3> QED
      BY <1>4, <2>3, <3>1, <3>2 DEF Act, Link!Call
  <2> QED
    BY <1>4, <2>1, <2>2, <2>3 DEF Act
<1>5. CASE SendReturns
  <2>1. ok' \in BOOLEAN /\ busy' \in BOOLEAN /\ ~busy'
    BY <1>5, Zenon DEF SendReturns, Link!Confirm, Link!Fail
  <2> QED
    BY <1>3, <1>5, <2>1 DEF SendReturns, RoundOver, Link!Confirm, Link!Fail
<1> QED
  BY <1>1, <1>2, <1>4, <1>5, <1>6 DEF Worker

LEMMA TypeStep ==
    ASSUME TypeOK, WorkerStarted, [Next]_vars
    PROVE  TypeOK'
<1>1. CASE ServiceMain
  <2> USE DEF TypeOK, handlerVars, queueVars, linkVars
  <2>1. CASE ServiceRuns
    BY <2>1 DEF ServiceRuns
  <2>5. CASE ServiceFails
    BY <2>5 DEF ServiceFails
  <2>2. CASE Registers
    BY <2>2 DEF Registers
  <2>3. CASE StartsWorker
    BY <2>3 DEF StartsWorker, WorkerStarted
  <2>4. CASE ServiceEnds
    BY <2>4 DEF ServiceEnds
  <2> QED
    BY <1>1, <2>1, <2>2, <2>3, <2>4, <2>5 DEF ServiceMain
<1>2. CASE GracePasses
  <2>1. graceOver' \in BOOLEAN
    BY <1>2, Zenon DEF GracePasses
  <2> QED
    BY <1>2, <2>1 DEF TypeOK, GracePasses, handlerVars, queueVars, linkVars
<1>3. CASE StickStep
  BY <1>3 DEF TypeOK, StickStep, serviceVars, handlerVars, queueVars,
     Link!Reach, Link!Lose
<1>4. CASE UNCHANGED vars
  BY <1>4 DEF TypeOK, vars, serviceVars, handlerVars, queueVars, linkVars
<1> QED
  BY <1>1, <1>2, <1>3, <1>4, HandlerType, WorkerType DEF Next

LEMMA StartedStep ==
    ASSUME WorkerStarted, [Next]_vars
    PROVE  WorkerStarted'
<1> USE DEF WorkerStarted, serviceVars, queueVars, linkVars
<1>1. CASE ServiceMain
  BY <1>1 DEF ServiceMain, ServiceRuns, ServiceFails, Registers, StartsWorker,
     ServiceEnds
<1>2. CASE Handler
  BY <1>2 DEF Handler, OnDisplayState, OnSuspend, OnResume, OnArrival, OnRemoval,
     OnPreshutdown, OnStop, RequestState, Notify
<1>3. CASE Worker
  BY <1>3 DEF Worker, InitialWait, Sleep, Take, Act, SendReturns, RoundOver
<1>4. CASE GracePasses \/ StickStep \/ UNCHANGED vars
  BY <1>4 DEF GracePasses, StickStep, vars
<1> QED
  BY <1>1, <1>2, <1>3, <1>4 DEF Next

LEMMA InitStates == Init => IInv
<1> SUFFICES ASSUME Init PROVE IInv
  OBVIOUS
<1> USE DEF Init, Link!Init
<1>1. /\ busy \in BOOLEAN /\ ok \in BOOLEAN /\ graceOver \in BOOLEAN
      /\ shutdownRequested \in BOOLEAN /\ stopRequested \in BOOLEAN
      /\ deviceGone \in BOOLEAN
  BY Zenon
<1>2. TypeOK
  BY <1>1, WindowsAssumption DEF TypeOK, NoBatch, Maybe, Cmd
<1> QED
  BY <1>2 DEF IInv, WorkerStarted, Link!Promise, SlotIsLatest, LatestFollowed,
     DisplayDecides, ToldOnce, OffIsLast, NoBatch

(* Type correctness: in every order of control codes and thread steps.      *)
THEOREM TypeCorrect == Spec => []TypeOK
<1>1. TypeOK /\ WorkerStarted /\ [Next]_vars => TypeOK' /\ WorkerStarted'
  BY TypeStep, StartedStep
<1>2. Init => TypeOK /\ WorkerStarted
  BY InitStates DEF IInv
<1> QED
  BY <1>1, <1>2, PTL DEF Spec

-----------------------------------------------------------------------------
(* What serviceMain and the handler do to the worker.                      *)

LEMMA ServiceFrame ==
    ASSUME WorkerStarted, ServiceMain
    PROVE  /\ UNCHANGED <<handlerVars, queueVars, batch, linkVars>>
           /\ worker' = worker \/ (worker' = "initial" /\ worker = "none")
<1>1. UNCHANGED <<handlerVars, queueVars, batch, linkVars>>
  BY DEF ServiceMain, ServiceRuns, ServiceFails, Registers, StartsWorker, ServiceEnds
<1>2. CASE StartsWorker
  BY <1>1, <1>2 DEF StartsWorker, WorkerStarted
<1>3. CASE worker' = worker
  BY <1>1, <1>3
<1> QED
  BY <1>2, <1>3 DEF ServiceMain, ServiceRuns, ServiceFails, Registers, ServiceEnds

LEMMA HandlerFrame ==
    ASSUME Handler
    PROVE  /\ UNCHANGED <<main, batch, linkVars>>
           /\ worker' = worker \/ (worker = "asleep" /\ worker' = "check")
           /\ status' = status \/ status' = "stop_pending"
           /\ status \in {"running", "stop_pending"}
<1> USE DEF Notify, Control, Accepting, serviceVars
<1>1. CASE OnRemoval
  BY <1>1 DEF OnRemoval
<1>2. CASE OnPreshutdown
  BY <1>2 DEF OnPreshutdown
<1>3. CASE OnStop
  BY <1>3 DEF OnStop
<1>4. CASE OnSuspend \/ OnResume \/ OnArrival
  BY <1>4 DEF OnSuspend, OnResume, OnArrival, RequestState
<1>5. CASE \E state \in {"on", "off", "dimmed"} : OnDisplayState(state)
  BY <1>5 DEF OnDisplayState, RequestState
<1> QED
  BY <1>1, <1>2, <1>3, <1>4, <1>5 DEF Handler

-----------------------------------------------------------------------------
(* The latest request                                                      *)

LEMMA SlotStep ==
    ASSUME TypeOK, SlotIsLatest, WorkerStarted, [Next]_vars
    PROVE  SlotIsLatest'
<1> USE DEF SlotIsLatest
<1>1. CASE ServiceMain
  <2>1. UNCHANGED <<pendingOn, desiredOn>> /\ (worker' = "asleep" => worker = "asleep")
    BY <1>1 DEF ServiceMain, ServiceRuns, ServiceFails, Registers, StartsWorker,
       ServiceEnds, queueVars, handlerVars
  <2> QED
    BY <2>1
<1>2. ASSUME NEW c \in Cmd, RequestState(c)
      PROVE  SlotIsLatest'
  BY <1>2 DEF RequestState, Notify
<1>3. CASE Handler
  <2>1. \A state \in {"on", "off", "dimmed"} : DisplayCommand(state) \in Cmd
    BY DEF DisplayCommand, Cmd
  <2>2. desiredOn # "none" => desiredOn \in Cmd
    BY DEF TypeOK, Maybe
  <2>3. CASE OnRemoval \/ OnPreshutdown \/ OnStop
    BY <2>3 DEF OnRemoval, OnPreshutdown, OnStop, Notify, handlerVars
  <2> QED
    BY <1>2, <1>3, <2>1, <2>2, <2>3 DEF Handler, OnDisplayState, OnSuspend,
       OnResume, OnArrival, Cmd
<1>4. CASE Worker
  BY <1>4 DEF Worker, InitialWait, Sleep, Take, Act, SendReturns, RoundOver,
     Something, handlerVars, queueVars
<1>5. CASE GracePasses \/ StickStep \/ UNCHANGED vars
  BY <1>5 DEF GracePasses, StickStep, vars, handlerVars, queueVars
<1> QED
  BY <1>1, <1>3, <1>4, <1>5 DEF Next

LEMMA LatestStep ==
    ASSUME TypeOK, SlotIsLatest, LatestFollowed, WorkerStarted, [Next]_vars
    PROVE  LatestFollowed'
<1> SUFFICES ASSUME pendingOn' = "none", desiredOn' # "none"
             PROVE  LatestFollowed'
  BY DEF LatestFollowed
<1> USE DEF LatestFollowed
<1>1. CASE ServiceMain
  BY <1>1, ServiceFrame DEF handlerVars, queueVars, linkVars
<1>2. CASE Handler
  <2>1. ~(\E c \in Cmd : RequestState(c))
    BY DEF RequestState, Cmd
  <2>2. \A state \in {"on", "off", "dimmed"} : DisplayCommand(state) \in Cmd
    BY DEF DisplayCommand, Cmd
  <2>3. desiredOn # "none" => desiredOn \in Cmd
    BY DEF TypeOK, Maybe
  <2>4. OnRemoval \/ OnPreshutdown \/ OnStop
    BY <1>2, <2>1, <2>2, <2>3 DEF Handler, OnDisplayState, OnSuspend, OnResume,
       OnArrival, Cmd
  <2> QED
    BY <2>4 DEF OnRemoval, OnPreshutdown, OnStop, Notify, handlerVars, linkVars
<1>3. CASE InitialWait \/ Sleep
  BY <1>3 DEF InitialWait, Sleep, handlerVars, queueVars, linkVars
<1>4. CASE Take
  <2>1. batch'.want = pendingOn
    BY <1>4 DEF Take
  <2> QED
    BY <1>4, <2>1 DEF Take, SlotIsLatest, handlerVars, linkVars
<1>5. CASE Act
  <2>1. CASE RoundOver /\ UNCHANGED linkVars /\ Command = "none"
    BY <1>5, <2>1 DEF Act, RoundOver, Command, handlerVars, linkVars
  <2>2. CASE Link!Refuse /\ RoundOver
    BY <1>5, <2>2 DEF Act, RoundOver, handlerVars, Link!Refuse
  <2>3. CASE Command # "none" /\ Link!Call(Command) /\ worker' = "send"
             /\ UNCHANGED <<batch, pendingOn>>
    <3>1. cmd' = Command
      BY <2>3 DEF Link!Call
    <3> QED
      BY <1>5, <2>3, <3>1 DEF Act, Command, handlerVars
  <2> QED
    BY <1>5, <2>1, <2>2, <2>3 DEF Act
<1>6. CASE SendReturns
  <2>1. /\ cmd' = cmd /\ desiredOn' = desiredOn /\ pendingOn' = pendingOn
        /\ worker = "send"
        /\ worker' = IF batch.shutdown \/ batch.stop THEN "done" ELSE "check"
    BY <1>6 DEF SendReturns, RoundOver, handlerVars, Link!Confirm, Link!Fail
  <2> QED
    BY <2>1
<1>7. CASE StickStep
  <2>1. UNCHANGED <<ok, cmd>>
    BY <1>7 DEF StickStep, Link!Reach, Link!Lose
  <2> QED
    BY <1>7, <2>1 DEF StickStep, handlerVars, queueVars
<1>8. CASE GracePasses \/ UNCHANGED vars
  BY <1>8 DEF GracePasses, vars, handlerVars, queueVars, linkVars
<1> QED
  BY <1>1, <1>2, <1>3, <1>4, <1>5, <1>6, <1>7, <1>8 DEF Next, Worker

LEMMA DisplayStep ==
    ASSUME DisplayDecides, [Next]_vars
    PROVE  DisplayDecides'
<1> USE DEF DisplayDecides
<1>1. CASE Handler
  BY <1>1 DEF Handler, OnDisplayState, OnSuspend, OnResume, OnArrival, OnRemoval,
     OnPreshutdown, OnStop, RequestState, handlerVars
<1>2. CASE UNCHANGED handlerVars
  BY <1>2 DEF handlerVars
<1> QED
  BY <1>1, <1>2 DEF Next, ServiceMain, ServiceRuns, ServiceFails, Registers,
     StartsWorker, ServiceEnds, GracePasses, Worker, InitialWait, Sleep, Take, Act,
     SendReturns, StickStep, vars

-----------------------------------------------------------------------------
(* The end of the service                                                  *)

LEMMA ToldStep ==
    ASSUME TypeOK, ToldOnce, OffIsLast, WorkerStarted, [Next]_vars
    PROVE  ToldOnce'
<1> USE DEF ToldOnce
<1>1. CASE ServiceMain
  <2>1. UNCHANGED <<queueVars, batch>>
    BY <1>1 DEF ServiceMain, ServiceRuns, ServiceFails, Registers, StartsWorker,
       ServiceEnds
  <2>2. /\ worker' = "done" => worker = "done"
        /\ status' = status \/ status' = "stopped" \/ status = "start_pending"
        /\ main' = "starting" => main = "starting" /\ status' = status
    BY <1>1 DEF ServiceMain, ServiceRuns, ServiceFails, Registers, StartsWorker,
       ServiceEnds
  <2> QED
    BY <2>1, <2>2 DEF queueVars
<1>2. CASE Handler
  BY <1>2 DEF Handler, OnDisplayState, OnSuspend, OnResume, OnArrival, OnRemoval,
     OnPreshutdown, OnStop, RequestState, Notify, Control, serviceVars
<1>3. CASE InitialWait \/ Sleep
  BY <1>3 DEF InitialWait, Sleep, serviceVars, queueVars
<1>4. CASE Take
  BY <1>4 DEF Take, serviceVars
<1>5. CASE RoundOver /\ UNCHANGED <<main, status, shutdownRequested, stopRequested>>
  BY <1>5 DEF RoundOver, NoBatch
<1>6. CASE Act \/ SendReturns
  BY <1>5, <1>6 DEF Act, SendReturns, serviceVars
<1>7. CASE GracePasses \/ StickStep \/ UNCHANGED vars
  BY <1>7 DEF GracePasses, StickStep, vars, serviceVars, queueVars
<1> QED
  BY <1>1, <1>2, <1>3, <1>4, <1>6, <1>7 DEF Next, Worker

LEMMA LastStep ==
    ASSUME TypeOK, ToldOnce, OffIsLast, WorkerStarted, [Next]_vars
    PROVE  OffIsLast'
<1> USE DEF OffIsLast
<1>1. CASE ServiceMain
  <2>1. UNCHANGED <<shutdownRequested, batch, ok, cmd>>
    BY <1>1 DEF ServiceMain, ServiceRuns, ServiceFails, Registers, StartsWorker,
       ServiceEnds, queueVars, linkVars
  <2> QED
    BY <1>1, <2>1 DEF ServiceMain, ServiceRuns, ServiceFails, Registers,
       StartsWorker, ServiceEnds, WorkerStarted
<1>2. CASE Handler
  <2>1. (shutdownRequested' <=> shutdownRequested) \/ status = "running"
    BY <1>2 DEF Handler, OnDisplayState, OnSuspend, OnResume, OnArrival, OnRemoval,
       OnPreshutdown, OnStop, RequestState, Notify, Control, Accepting, serviceVars
  <2> QED
    BY <1>2, <2>1, HandlerFrame DEF ToldOnce, linkVars
<1>3. CASE InitialWait \/ Sleep \/ Take
  BY <1>3 DEF InitialWait, Sleep, Take, serviceVars, queueVars, linkVars
<1>4. CASE Act
  <2>1. ASSUME RoundOver, cmd' = cmd, ok' => batch.want = "none" /\ ~batch.shutdown
        PROVE  OffIsLast'
    BY <1>4, <2>1 DEF Act, RoundOver, ToldOnce, NoBatch, serviceVars
  <2>2. CASE RoundOver /\ UNCHANGED linkVars /\ Command = "none"
    BY <2>1, <2>2 DEF Command, linkVars
  <2>3. CASE Link!Refuse /\ RoundOver
    BY <2>1, <2>3 DEF Link!Refuse
  <2>4. CASE Command # "none" /\ Link!Call(Command) /\ worker' = "send"
             /\ UNCHANGED <<batch, pendingOn>>
    <3>1. cmd' = Command /\ ~ok'
      BY <2>4 DEF Link!Call
    <3> QED
      BY <1>4, <2>4, <3>1 DEF Act, Command, serviceVars
  <2> QED
    BY <1>4, <2>2, <2>3, <2>4 DEF Act
<1>5. CASE SendReturns
  <2>1. cmd' = cmd
    BY <1>5 DEF SendReturns, Link!Confirm, Link!Fail
  <2> QED
    BY <1>5, <2>1 DEF SendReturns, RoundOver, ToldOnce, NoBatch, serviceVars
<1>6. CASE StickStep
  <2>1. UNCHANGED <<ok, cmd>>
    BY <1>6 DEF StickStep, Link!Reach, Link!Lose
  <2> QED
    BY <1>6, <2>1 DEF StickStep, serviceVars, queueVars
<1>7. CASE GracePasses \/ UNCHANGED vars
  BY <1>7 DEF GracePasses, vars, serviceVars, queueVars, linkVars
<1> QED
  BY <1>1, <1>2, <1>3, <1>4, <1>5, <1>6, <1>7 DEF Next, Worker

LEMMA InvariantStep == IInv /\ [Next]_vars => IInv'
  BY TypeStep, StartedStep, LinkStep, LinkKept, SlotStep, LatestStep, DisplayStep,
     ToldStep, LastStep DEF IInv

LEMMA Invariant == Spec => []IInv
  BY InitStates, InvariantStep, PTL DEF Spec

(* Requests are coalesced while the worker sends, in any number, and the    *)
(* latest wins: once the worker sleeps after a confirmed send, the TV is    *)
(* what was asked for last.                                                 *)
THEOREM LatestWins == Spec => []LatestRequestWins
<1>1. IInv => LatestRequestWins
  BY DEF IInv, Link!Promise, SlotIsLatest, LatestFollowed, LatestRequestWins
<1> QED
  BY <1>1, Invariant, PTL

(* The TV mirrors the display: no order of suspends, resumes, arrivals and  *)
(* display changes leaves a TV confirmed on behind a dark display.          *)
THEOREM DarkStaysDark == Spec => []DarkDisplayDarkTv
<1>1. IInv => DarkDisplayDarkTv
  BY DEF IInv, Link!Promise, SlotIsLatest, LatestFollowed, DisplayDecides,
     DarkDisplayDarkTv
<1> QED
  BY <1>1, Invariant, PTL

(* A service that was told of the shutdown is not stopped with its last     *)
(* confirmed command anything but OFF, whatever was queued or being sent.   *)
THEOREM OffPrecedesStop == Spec => []OffBeforeStopped
<1>1. IInv => OffBeforeStopped
  BY DEF IInv, Link!Promise, OffIsLast, OffBeforeStopped
<1> QED
  BY <1>1, Invariant, PTL

-----------------------------------------------------------------------------
(* Sleeping                                                                *)

LEMMA HandlerWakes ==
    ASSUME Handler
    PROVE  worker' # "asleep"
<1>1. Notify => worker' # "asleep"
  BY DEF Notify
<1> QED
  BY <1>1 DEF Handler, OnDisplayState, OnSuspend, OnResume, OnArrival, OnRemoval,
     OnPreshutdown, OnStop, RequestState

LEMMA SleepStep ==
    ASSUME WorkerStarted, NothingSleptThrough, [Next]_vars
    PROVE  NothingSleptThrough'
<1> USE DEF NothingSleptThrough, Something, queueVars
<1>1. CASE ServiceMain
  BY <1>1, ServiceFrame
<1>2. CASE Handler
  BY <1>2, HandlerWakes
<1>3. CASE Sleep
  BY <1>3 DEF Sleep
<1>4. CASE InitialWait \/ Take \/ Act \/ SendReturns
  BY <1>4 DEF InitialWait, Take, Act, SendReturns, RoundOver
<1>5. CASE GracePasses \/ StickStep \/ UNCHANGED vars
  BY <1>5 DEF GracePasses, StickStep, vars
<1> QED
  BY <1>1, <1>2, <1>3, <1>4, <1>5 DEF Next, Worker

(* No wakeup is lost: whatever the handler recorded while the worker was    *)
(* sending, testing or waiting, a worker that is asleep has nothing to do.  *)
THEOREM NothingIsSleptThrough == Spec => []NothingSleptThrough
<1>1. Init => WorkerStarted /\ NothingSleptThrough
  BY DEF Init, WorkerStarted, NothingSleptThrough
<1>2. WorkerStarted /\ NothingSleptThrough /\ [Next]_vars =>
        WorkerStarted' /\ NothingSleptThrough'
  BY StartedStep, SleepStep
<1> QED
  BY <1>1, <1>2, PTL DEF Spec
=============================================================================
