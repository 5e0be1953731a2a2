----------------------- MODULE HidConversation_proofs -----------------------
(***************************************************************************)
(* Proofs about HidConversation, for every value of its constants.         *)
(***************************************************************************)
EXTENDS HidConversation, SequenceTheorems, TLAPS

-----------------------------------------------------------------------------
(* What the queue operations of the transport do to the queue's elements.  *)

LEMMA ElemsAppend ==
    ASSUME NEW S, NEW q \in Seq(S), NEW x \in S
    PROVE  /\ Append(q, x) \in Seq(S)
           /\ Elems(Append(q, x)) \subseteq Elems(q) \cup {x}
<1>1. /\ Append(q, x) \in Seq(S)
      /\ Len(Append(q, x)) = Len(q) + 1
      /\ \A i \in 1 .. Len(q) : Append(q, x)[i] = q[i]
      /\ Append(q, x)[Len(q) + 1] = x
  BY AppendProperties
<1>2. ASSUME NEW i \in DOMAIN Append(q, x)
      PROVE  Append(q, x)[i] \in Elems(q) \cup {x}
  <2>1. CASE i = Len(q) + 1
    BY <1>1, <2>1
  <2>2. CASE i # Len(q) + 1
    <3>1. DOMAIN Append(q, x) = 1 .. Len(q) + 1 /\ DOMAIN q = 1 .. Len(q)
      BY <1>1
    <3>2. i \in DOMAIN q
      BY <1>2, <2>2, <3>1
    <3> QED
      BY <1>1, <3>1, <3>2 DEF Elems
  <2> QED
    BY <2>1, <2>2
<1> QED
  BY <1>1, <1>2 DEF Elems

LEMMA ElemsTail ==
    ASSUME NEW S, NEW q \in Seq(S), q # <<>>
    PROVE  /\ Tail(q) \in Seq(S)
           /\ Elems(Tail(q)) \subseteq Elems(q)
           /\ Head(q) \in Elems(q)
  BY DEF Elems

LEMMA ElemsDrained ==
    ASSUME NEW S, NEW q \in Seq(S)
    PROVE  /\ Drained(q) \in Seq(S)
           /\ Elems(Drained(q)) \subseteq Elems(q)
  BY TransportAssumption DEF Elems, Drained

LEMMA ElemsEmpty == Elems(<<>>) = {}
  BY DEF Elems
-----------------------------------------------------------------------------
(* Every variable keeps the type the code declares for it, whatever the     *)
(* sizes, timeouts and kinds of failure.                                    *)

LEMMA NextSequenceType ==
    ASSUME NEW s \in SeqByte
    PROVE  NextSequence(s) \in SeqByte \ {0}
  BY BusAssumption DEF SeqByte, NextSequence

LEMMA Constants ==
    /\ NoReport \in Report /\ NoReply \in Reply
    /\ 0 \in SeqByte
    /\ <<>> \in Seq(Reply)
  BY BusAssumption DEF NoReport, NoReply, Report, Reply, SeqByte, Word, Cmd

LEMMA SendStepType ==
    ASSUME TypeOK, SendStep
    PROVE  BusTypeOK' /\ TransportTypeOK'
<1> USE TransportAssumption, Constants
    DEF TypeOK, BusTypeOK, TransportTypeOK, InTime, Elapse
<1>1. CASE WriteOk
  BY <1>1 DEF WriteOk
<1>2. CASE WriteRetried
  <2>1. ok' \in BOOLEAN
    BY <1>2, Zenon DEF WriteRetried
  <2> QED
    BY <1>2, <2>1 DEF WriteRetried, WriteFails, CloseDevice, Handle
<1>3. CASE WriteAbandoned
  <2>1. spent' \in Nat /\ outPkt' \in Report
    BY <1>3 DEF WriteAbandoned, WriteFails
  <2>2. ok' \in BOOLEAN
    BY <1>3, Zenon DEF WriteAbandoned, Return
  <2> QED
    BY <1>3, <2>1, <2>2 DEF WriteAbandoned, WriteFails, CloseDevice, Return, Handle
<1>4. CASE ReopenNap
  BY <1>4 DEF ReopenNap, busVars
<1>11. CASE ReopenAbandoned
  BY <1>11 DEF ReopenAbandoned, Return, busVars
<1>12. CASE ReopenDone
  BY <1>12 DEF ReopenDone, EnsureOpen, OpenOutcomes, Handle
<1>13. CASE AttemptsExhausted
  BY <1>13 DEF AttemptsExhausted, CloseDevice, Return, Handle
<1>5. CASE AwaitMatch
  <2>1. Head(inq) \in Reply /\ Tail(inq) \in Seq(Reply)
    BY <1>5, HeadTailProperties DEF AwaitMatch
  <2>2. Head(inq).ack \in BOOLEAN
    BY <2>1 DEF Reply
  <2>3. ok' \in BOOLEAN
    BY <1>5, <2>2, Zenon DEF AwaitMatch, Return, Verdict
  <2> QED
    BY <1>5, <2>1, <2>3 DEF AwaitMatch, Return
<1>6. CASE AwaitDiscard
  BY <1>6, ElemsTail DEF AwaitDiscard, transportVars
<1>7. CASE AwaitUnexpected
  BY <1>7 DEF AwaitUnexpected, Return, busVars
<1>8. CASE AwaitError
  BY <1>8 DEF AwaitError, CloseDevice, Return, Handle
<1>9. CASE AwaitTick
  BY <1>9 DEF AwaitTick, busVars
<1>10. CASE AwaitTimeout
  BY <1>10 DEF AwaitTimeout, Return, busVars
<1> QED
  BY <1>1, <1>2, <1>3, <1>4, <1>5, <1>6, <1>7, <1>8, <1>9, <1>10,
     <1>11, <1>12, <1>13 DEF SendStep

LEMMA DaemonType ==
    ASSUME TypeOK, Daemon
    PROVE  TypeOK'
<1> USE TransportAssumption, Constants
    DEF TypeOK, BusTypeOK, TransportTypeOK, InTime, Elapse
<1>1. StickTypeOK'
  BY DEF Daemon, StickTypeOK, stickVars, usbTaskVars, loopVars, flagVars
<1>2. CASE SendNoDevice
  BY <1>1, <1>2 DEF SendNoDevice, Return, busVars
<1>3. ASSUME NEW c \in Cmd, SendStarts(c)
      PROVE  TypeOK'
  <2>1. seq' \in SeqByte /\ txBuf' \in Report
    BY <1>3, NextSequenceType DEF SendStarts, Report, Word
  <2>2. inq' \in Seq(Reply)
    BY <1>3, ElemsDrained DEF SendStarts
  <2>3. dev' \in Handle
    BY <1>3 DEF SendStarts, EnsureOpen, OpenOutcomes, Handle
  <2>4. ok' \in BOOLEAN
    BY <1>3, Zenon DEF SendStarts
  <2>5. attempt' \in 0 .. MaxWriteAttempts
    BY <1>3 DEF SendStarts
  <2> QED
    BY <1>1, <1>3, <2>1, <2>2, <2>3, <2>4, <2>5 DEF SendStarts
<1>4. CASE SendStep
  BY <1>1, <1>4, SendStepType
<1>5. CASE Invalidate
  BY <1>1, <1>5 DEF Invalidate, CloseDevice, Handle, transportVars
<1>6. CASE DaemonRestart
  <2>1. dev' \in Handle
    BY <1>6 DEF DaemonRestart, OpenOutcomes, Handle
  <2>2. restarts' \in 0 .. MaxRestarts
    BY <1>6 DEF DaemonRestart
  <2>3. ok' \in BOOLEAN
    BY <1>6, Zenon DEF DaemonRestart
  <2> QED
    BY <1>1, <1>6, <2>1, <2>2, <2>3 DEF DaemonRestart
<1> QED
  BY <1>2, <1>3, <1>4, <1>5, <1>6 DEF Daemon

LEMMA StickType ==
    ASSUME TypeOK, Stick
    PROVE  TypeOK'
<1> USE StickAssumption, Constants DEF TypeOK, BusTypeOK, StickTypeOK
<1>1. TransportTypeOK'
  BY DEF Stick, TransportTypeOK, transportVars
<1>2. CASE UsbTask
  BY <1>1, <1>2 DEF UsbTask, OnOutput, OnOutputHeader, OnOutputRest, Report,
       busVars, loopVars, flagVars
<1>3. CASE OnSuspend \/ OnResume
  <2>1. faults' \in 0 .. MaxFaults
    BY <1>3 DEF OnSuspend, OnResume
  <2>2. usbWasSuspended' \in BOOLEAN /\ usbResumePending' \in BOOLEAN
    BY <1>3, Zenon DEF OnSuspend, OnResume
  <2> QED
    BY <1>1, <1>3, <2>1, <2>2 DEF OnSuspend, OnResume, busVars, usbTaskVars, loopVars
<1>4. CASE LoopStep
  <2>1. CASE RecoveryDetach
    BY <1>1, <2>1 DEF RecoveryDetach, StickVanishes, Handle, usbTaskVars
  <2>2. CASE RecoveryAttach
    BY <1>1, <2>2 DEF RecoveryAttach, StickAppears, usbTaskVars, flagVars
  <2>3. CASE TestReceived
    BY <1>1, <2>3 DEF TestReceived, busVars, usbTaskVars, flagVars
  <2>4. CASE ClearReceived
    BY <1>1, <2>4 DEF ClearReceived, busVars, flagVars
  <2>5. CASE ReadSeq
    BY <1>1, <2>5 DEF ReadSeq, Report, NoReport, Word, busVars, usbTaskVars, flagVars
  <2>6. CASE ReadCmd
    BY <1>1, <2>6 DEF ReadCmd, Report, Word, busVars, usbTaskVars, flagVars
  <2>7. CASE TransmitIR
    BY <1>1, <2>7 DEF TransmitIR, Transmits, Report, Reply, Emission, busVars,
         usbTaskVars, flagVars
  <2>8. CASE QueueReply
    BY <1>1, <2>8 DEF QueueReply, usbTaskVars, flagVars
  <2> QED
    BY <1>4, <2>1, <2>2, <2>3, <2>4, <2>5, <2>6, <2>7, <2>8 DEF LoopStep
<1>6. CASE StickResets
  <2>1. BusTypeOK'
    BY <1>6 DEF StickResets, StickVanishes, Handle
  <2>2. faults' \in 0 .. MaxFaults
    BY <1>6 DEF StickResets
  <2>3. /\ received' \in BOOLEAN
        /\ usbWasSuspended' \in BOOLEAN
        /\ usbResumePending' \in BOOLEAN
    BY <1>6, Zenon DEF StickResets
  <2> QED
    BY <1>1, <1>6, <2>1, <2>2, <2>3 DEF StickResets
<1>7. CASE StickBoots
  BY <1>1, <1>7 DEF StickBoots, StickAppears, usbTaskVars, flagVars
<1> QED
  BY <1>2, <1>3, <1>4, <1>6, <1>7 DEF Stick

LEMMA HostType ==
    ASSUME TypeOK, Host
    PROVE  TypeOK'
<1> USE Constants DEF TypeOK, BusTypeOK
<1>1. TransportTypeOK' /\ StickTypeOK'
  BY DEF Host, TransportTypeOK, StickTypeOK, transportVars, stickVars,
       usbTaskVars, loopVars, flagVars
<1> QED
  BY <1>1, ElemsAppend DEF Host, HostStep, DeliverReply, DiscardReply

LEMMA StutterType ==
    ASSUME TypeOK, UNCHANGED vars
    PROVE  TypeOK'
  BY DEF TypeOK, BusTypeOK, TransportTypeOK, StickTypeOK, vars, busVars,
       transportVars, stickVars, usbTaskVars, loopVars, flagVars

LEMMA InitType == Init => TypeOK
<1> SUFFICES ASSUME Init PROVE TypeOK
  OBVIOUS
<1> USE DEF Init
<1>1. BusTypeOK
  BY Constants DEF BusInit, TransportInit, BusTypeOK, OpenOutcomes, Handle
<1>2. TransportTypeOK
  <2>1. ok \in BOOLEAN
    BY Zenon DEF TransportInit
  <2> QED
    BY <2>1, TransportAssumption, Constants DEF TransportInit, TransportTypeOK
<1>3. StickTypeOK
  <2>1. received \in BOOLEAN /\ usbWasSuspended \in BOOLEAN
        /\ usbResumePending \in BOOLEAN
    BY Zenon DEF StickInit
  <2>2. loop \in {"top", "boot"} /\ tv \in Emission
    BY DEF StickInit, Emission, Word
  <2> QED
    BY <2>1, <2>2, StickAssumption, Constants DEF StickInit, StickTypeOK
<1> QED
  BY <1>1, <1>2, <1>3 DEF TypeOK

(* Type correctness: with any sizes, timeouts, failures, restarts and       *)
(* interleavings the conversation never leaves the types of its variables.  *)
THEOREM TypeCorrect == SafeSpec => []TypeOK
<1>1. TypeOK /\ [Next]_vars => TypeOK'
  BY DaemonType, StickType, HostType, StutterType DEF Next
<1> QED
  BY InitType, <1>1, PTL DEF SafeSpec

-----------------------------------------------------------------------------
(* Commands in order, for every value of the constants: with torn reads,    *)
(* resets and daemon restarts alike.                                        *)

LEMMA FieldTypes ==
    ASSUME TypeOK
    PROVE  /\ txBuf.sid \in Nat /\ txBuf.cid \in Nat /\ txBuf.cmd \in Word
           /\ outPkt.sid \in Nat /\ outPkt.cid \in Nat /\ outPkt.cmd \in Word
           /\ rx.sid \in Nat /\ rx.cid \in Nat /\ rx.cmd \in Word
           /\ cur.sid \in Nat /\ cur.cid \in Nat /\ cur.cmd \in Word
           /\ tv.id \in Nat /\ tv.cmd \in Word
           /\ txBuf.seq \in SeqByte /\ outPkt.seq \in SeqByte
           /\ rx.seq \in SeqByte /\ cur.seq \in SeqByte
  BY DEF TypeOK, BusTypeOK, TransportTypeOK, StickTypeOK, Report, Emission

LEMMA InFlightType ==
    ASSUME TypeOK
    PROVE  InFlight \subseteq Reply
  BY DEF TypeOK, BusTypeOK, StickTypeOK, InFlight, Elems

(* Replies come into being in TransmitIR only.                             *)
LEMMA NewReplies ==
    ASSUME TypeOK, Next, NEW r \in InFlight'
    PROVE  r \in InFlight \/ r = NoReply \/ (TransmitIR /\ r = rep')
<1> USE DEF InFlight
<1>0. inq \in Seq(Reply) /\ inEp \in Reply
  BY DEF TypeOK, BusTypeOK
<1>1. CASE Daemon
  <2>1. UNCHANGED <<rep, inEp>>
    BY <1>1 DEF Daemon, stickVars, loopVars, SendNoDevice, SendStarts, SendStep,
         WriteOk, WriteRetried, WriteAbandoned, WriteFails, ReopenNap,
         ReopenAbandoned, ReopenDone, AttemptsExhausted, AwaitMatch, AwaitDiscard,
         AwaitUnexpected, AwaitError, AwaitTick, AwaitTimeout, Invalidate,
         DaemonRestart, busVars
  <2>2. Elems(inq') \subseteq Elems(inq)
    <3>1. CASE \E c \in Cmd : SendStarts(c)
      BY <1>0, <3>1, ElemsDrained DEF SendStarts
    <3>2. CASE AwaitMatch \/ AwaitDiscard
      BY <1>0, <3>2, ElemsTail DEF AwaitMatch, AwaitDiscard
    <3>3. CASE inq' = inq \/ inq' = <<>>
      BY <3>3, ElemsEmpty
    <3> QED
      BY <1>1, <3>1, <3>2, <3>3 DEF Daemon, SendNoDevice, SendStep,
           WriteOk, WriteRetried, WriteAbandoned, WriteFails, ReopenNap,
           ReopenAbandoned, ReopenDone, AttemptsExhausted, AwaitUnexpected,
           AwaitError, AwaitTick, AwaitTimeout, Invalidate, DaemonRestart,
           CloseDevice, busVars
  <2> QED
    BY <2>1, <2>2
<1>2. CASE Stick
  <2>1. CASE TransmitIR
    BY <2>1 DEF TransmitIR, busVars
  <2>2. CASE QueueReply
    BY <2>2 DEF QueueReply
  <2>3. CASE RecoveryDetach \/ StickResets
    BY <2>3, ElemsEmpty DEF RecoveryDetach, StickResets, StickVanishes
  <2>4. CASE UNCHANGED <<rep, inEp, inq>>
    BY <2>4
  <2> QED
    BY <1>2, <2>1, <2>2, <2>3, <2>4 DEF Stick, UsbTask, OnOutput, OnOutputHeader,
         OnOutputRest, OnSuspend, OnResume, LoopStep, RecoveryAttach, TestReceived,
         ClearReceived, ReadSeq, ReadCmd, StickBoots, StickAppears,
         busVars, loopVars
<1>3. CASE Host
  <2>1. rep' = rep
    BY <1>3 DEF Host, stickVars, loopVars
  <2>2. CASE DeliverReply
    BY <1>0, <2>1, <2>2, ElemsAppend DEF DeliverReply
  <2>3. CASE DiscardReply
    BY <2>1, <2>3 DEF DiscardReply
  <2> QED
    BY <1>3, <2>2, <2>3 DEF Host, HostStep
<1> QED
  BY <1>1, <1>2, <1>3 DEF Next

LEMMA OrderInit == Init => CommandsInOrder /\ AcksFollow
<1> SUFFICES ASSUME Init PROVE CommandsInOrder /\ AcksFollow
  OBVIOUS
<1> USE DEF Init, BusInit, TransportInit, StickInit, NoReport, NoReply
<1>1. CommandsInOrder
  BY DEF CommandsInOrder, InOrder, Agrees
<1>2. AcksFollow
  BY ElemsEmpty DEF AcksFollow, InFlight
<1> QED
  BY <1>1, <1>2

LEMMA OrderStep ==
    ASSUME TypeOK, CommandsInOrder, Next
    PROVE  CommandsInOrder'
<1> USE FieldTypes DEF CommandsInOrder, InOrder, Agrees
<1>1. CASE Daemon
  <2> USE DEF stickVars, usbTaskVars, loopVars
  <2>0. UNCHANGED stickVars
    BY <1>1 DEF Daemon
  <2>1. ASSUME NEW c \in Cmd, SendStarts(c)
        PROVE  CommandsInOrder'
    BY <2>0, <2>1 DEF SendStarts
  <2>2. CASE WriteOk
    BY <2>0, <2>2 DEF WriteOk
  <2>3. CASE WriteFails
    BY <2>0, <2>3 DEF WriteFails
  <2>4. CASE UNCHANGED <<txBuf, outPkt>>
    BY <2>0, <2>4
  <2> QED
    BY <1>1, <2>1, <2>2, <2>3, <2>4 DEF Daemon, SendNoDevice, SendStep,
         WriteRetried, WriteAbandoned, ReopenNap,
         ReopenAbandoned, ReopenDone, AttemptsExhausted, AwaitMatch, AwaitDiscard,
         AwaitUnexpected, AwaitError, AwaitTick, AwaitTimeout, Invalidate,
         DaemonRestart, busVars, transportVars
<1>2. CASE Stick
  <2> USE DEF transportVars
  <2>0. UNCHANGED txBuf
    BY <1>2 DEF Stick
  <2>1. CASE OnOutput
    BY <2>0, <2>1 DEF OnOutput, loopVars, NoReport
  <2>2. CASE OnOutputHeader
    BY <2>0, <2>2 DEF OnOutputHeader, busVars, loopVars, Report
  <2>3. CASE OnOutputRest
    BY <2>0, <2>3 DEF OnOutputRest, loopVars, NoReport
  <2>4. CASE ReadSeq
    BY <2>0, <2>4 DEF ReadSeq, busVars, usbTaskVars, NoReport
  <2>5. CASE ReadCmd
    <3>1. UNCHANGED <<outPkt, rx, usb, tv>> /\ loop' = "transmit"
      BY <2>5 DEF ReadCmd, busVars, usbTaskVars
    <3>2. cur'.cid = rx.cid /\ cur'.cmd \in {rx.cmd, "junk"}
      BY <2>5 DEF ReadCmd, TypeOK, StickTypeOK, Report
    <3> QED
      BY <2>0, <3>1, <3>2
  <2>6. CASE TransmitIR
    <3>1. UNCHANGED <<outPkt, rx, usb>>
      BY <2>6 DEF TransmitIR, busVars, usbTaskVars
    <3>2. cur'.cid = 0 /\ cur'.cmd = "junk"
      BY <2>6 DEF TransmitIR, NoReport
    <3>3. CASE tv' = [id |-> cur.cid, cmd |-> cur.cmd] /\ cur.cmd \in Cmd
      <4>1. tv'.id = cur.cid /\ tv'.cmd = cur.cmd
        BY <3>3
      <4> QED
        BY <2>0, <3>1, <3>2, <3>3, <4>1
    <3>4. CASE tv' = tv
      BY <2>0, <2>6, <3>1, <3>2, <3>4 DEF TransmitIR
    <3> QED
      BY <2>6, <3>3, <3>4 DEF TransmitIR, Transmits
  <2>7. CASE RecoveryDetach
    BY <2>0, <2>7 DEF RecoveryDetach, StickVanishes, usbTaskVars, NoReport
  <2>8. CASE StickResets
    BY <2>0, <2>8 DEF StickResets, StickVanishes, NoReport
  <2>9. CASE UNCHANGED <<outPkt, rx, cur, tv, usb>> /\ loop # "transmit"
    BY <2>0, <2>9
  <2> QED
    BY <1>2, <2>1, <2>2, <2>3, <2>4, <2>5, <2>6, <2>7, <2>8, <2>9
       DEF Stick, UsbTask, OnSuspend, OnResume, LoopStep, RecoveryAttach,
         TestReceived, ClearReceived, QueueReply, StickBoots,
         StickAppears, busVars, usbTaskVars, loopVars
<1>3. CASE Host
  BY <1>3 DEF Host, HostStep, DeliverReply, DiscardReply, transportVars, stickVars,
       usbTaskVars, loopVars
<1> QED
  BY <1>1, <1>2, <1>3 DEF Next

LEMMA OrderStutter ==
    ASSUME CommandsInOrder, UNCHANGED vars
    PROVE  CommandsInOrder'
  BY DEF CommandsInOrder, InOrder, Agrees, vars, busVars, transportVars,
         stickVars, usbTaskVars, loopVars

\* tv changes in TransmitIR only, and the command it takes is not an older one.
LEMMA TvAdvances ==
    ASSUME TypeOK, CommandsInOrder, Next
    PROVE  \/ tv' = tv
           \/ /\ TransmitIR
              /\ cur.cid # 0 /\ tv'.id = cur.cid /\ tv'.id >= tv.id
              /\ tv'.cmd = cur.cmd /\ cur.cmd \in Cmd
<1>1. CASE TransmitIR
  <2>1. CASE tv' = [id |-> cur.cid, cmd |-> cur.cmd] /\ cur.cmd \in Cmd
    <3>1. cur.cid # 0
      BY <2>1 DEF CommandsInOrder, Cmd
    <3>2. tv'.id = cur.cid /\ tv'.cmd = cur.cmd
      BY <2>1
    <3> QED
      BY <1>1, <2>1, <3>1, <3>2, FieldTypes DEF CommandsInOrder, InOrder
  <2>2. CASE tv' = tv
    BY <2>2
  <2> QED
    BY <1>1, <2>1, <2>2 DEF TransmitIR, Transmits
<1>2. CASE Daemon \/ Host
  BY <1>2 DEF Daemon, Host, stickVars, loopVars
<1>3. CASE Stick /\ ~TransmitIR
  BY <1>3 DEF Stick, UsbTask, OnOutput, OnOutputHeader, OnOutputRest, OnSuspend,
       OnResume, LoopStep, RecoveryDetach, RecoveryAttach, TestReceived,
       ClearReceived, ReadSeq, ReadCmd, QueueReply, StickResets,
       StickBoots, loopVars
<1> QED
  BY <1>1, <1>2, <1>3 DEF Next

LEMMA OrderAlways == SafeSpec => [](TypeOK /\ CommandsInOrder)
<1>1. Init => TypeOK /\ CommandsInOrder
  BY InitType, OrderInit
<1>2. TypeOK /\ CommandsInOrder /\ [Next]_vars => (TypeOK /\ CommandsInOrder)'
  BY DaemonType, StickType, HostType, StutterType, OrderStep, OrderStutter DEF Next
<1> QED
  BY <1>1, <1>2, PTL DEF SafeSpec

(* Commands reach the IR LED in the order they were sent and as they were   *)
(* sent: whatever is retried, duplicated, overwritten, torn or reset, the   *)
(* stick never transmits an older command after a newer one, nor a word     *)
(* that was not sent (_onOutput, loop, sendIR).                             *)
THEOREM CommandOrder == SafeSpec => CommandsAsSent
<1>1. TypeOK /\ CommandsInOrder /\ [Next]_vars => [TransmitsAsSent]_tv
  <2> SUFFICES ASSUME TypeOK, CommandsInOrder, [Next]_vars, tv' # tv
               PROVE  TransmitsAsSent
    OBVIOUS
  <2>1. Next
    BY DEF vars, stickVars, loopVars
  <2>2. /\ cur.cid # 0 /\ tv'.id = cur.cid /\ tv'.id >= tv.id
        /\ tv'.cmd = cur.cmd /\ cur.cmd \in Cmd
    BY <2>1, TvAdvances
  <2>3. cur.cid = txBuf.sid => cur.cmd = txBuf.cmd
    BY <2>2 DEF CommandsInOrder, Agrees, Cmd
  <2> QED
    BY <2>2, <2>3 DEF TransmitsAsSent
<1> QED
  BY OrderAlways, <1>1, PTL DEF SafeSpec, CommandsAsSent

-----------------------------------------------------------------------------
(* The sequence byte, in one life of the daemon.                           *)

\* Numbers drawn one after the other keep apart until they have gone round.
LEMMA SeqTellsAges ==
    ASSUME NEW m, m.sid \in Nat, m.seq \in SeqByte,
           NEW t, t.sid \in Nat, t.seq \in SeqByte,
           NEW u, u.sid = t.sid + 1, u.seq = NextSequence(t.seq),
           SeqTells(m, t),
           m.sid # 0 => t.sid + 1 - m.sid <= SeqMod - 2
    PROVE  SeqTells(m, u)
  BY BusAssumption DEF SeqTells, SeqByte, NextSequence

\* The stick's own steps leave the daemon alone.
LEMMA TransmitKeeps ==
    ASSUME Next, TransmitIR
    PROVE  UNCHANGED <<txBuf, pc, ok>>
<1>1. loop # loop'
  BY DEF TransmitIR
<1>2. Stick
  BY <1>1 DEF Next, Daemon, Host, stickVars, loopVars
<1> QED
  BY <1>2 DEF Stick, transportVars

LEMMA SequenceInit == Init => SequenceTells /\ RepliesTell
<1> SUFFICES ASSUME Init PROVE SequenceTells /\ RepliesTell
  OBVIOUS
<1> USE DEF Init, BusInit, TransportInit, StickInit, NoReport, NoReply
<1>1. SequenceTells
  BY DEF SequenceTells, SeqTells, RxLive
<1>2. RepliesTell
  BY ElemsEmpty DEF RepliesTell, InFlight, SeqTells
<1> QED
  BY <1>1, <1>2

LEMMA HeldInTime ==
    ASSUME TypeOK, StickKeepsUp
    PROVE  /\ outPkt.sid # 0 => txBuf.sid + 1 - outPkt.sid <= SeqMod - 2
           /\ cur.sid # 0 => txBuf.sid + 1 - cur.sid <= SeqMod - 2
           /\ RxLive /\ rx.sid # 0 => txBuf.sid + 1 - rx.sid <= SeqMod - 2
           /\ \A r \in InFlight : r.sid # 0 => txBuf.sid + 1 - r.sid <= SeqMod - 2
  BY DEF StickKeepsUp, HeldSids, InFlight

LEMMA SequenceStep ==
    ASSUME MaxRestarts = 0, TypeOK, SequenceTells, Next
    PROVE  SequenceTells'
<1> USE FieldTypes DEF SequenceTells, RxLive
<1>1. CASE Daemon
  <2> USE DEF stickVars, usbTaskVars, loopVars
  <2>0. UNCHANGED stickVars
    BY <1>1 DEF Daemon
  <2>1. ASSUME NEW c \in Cmd, StickKeepsUp, SendStarts(c)
        PROVE  SequenceTells'
    <3>1. /\ UNCHANGED <<outPkt, cur, rx, received, loop>>
          /\ seq' = NextSequence(seq) /\ txBuf'.seq = seq'
          /\ txBuf'.sid = txBuf.sid + 1
      BY <2>0, <2>1 DEF SendStarts
    <3>2. SeqTells(outPkt, txBuf') /\ SeqTells(cur, txBuf')
      BY <2>1, <3>1, HeldInTime, SeqTellsAges
    <3>3. RxLive => SeqTells(rx, txBuf')
      BY <2>1, <3>1, HeldInTime, SeqTellsAges
    <3>4. seq' # 0
      BY <3>1, NextSequenceType DEF TypeOK, TransportTypeOK
    <3> QED
      BY <3>1, <3>2, <3>3, <3>4
  <2>2. CASE WriteOk \/ WriteFails
    <3>1. SeqTells(txBuf, txBuf)
      BY BusAssumption DEF SeqTells, SeqByte
    <3>2. UNCHANGED <<seq, txBuf>> /\ outPkt' \in {outPkt, txBuf}
      BY <2>2 DEF WriteOk, WriteFails
    <3> QED
      BY <2>0, <3>1, <3>2
  <2>3. CASE UNCHANGED <<seq, txBuf, outPkt>>
    BY <2>0, <2>3
  <2>4. ~DaemonRestart
    BY DEF DaemonRestart, TypeOK, TransportTypeOK
  <2> QED
    BY <1>1, <2>1, <2>2, <2>3, <2>4 DEF Daemon, SendNoDevice, SendStep,
         WriteRetried, WriteAbandoned, ReopenNap,
         ReopenAbandoned, ReopenDone, AttemptsExhausted, AwaitMatch, AwaitDiscard,
         AwaitUnexpected, AwaitError, AwaitTick, AwaitTimeout, Invalidate,
         busVars, transportVars
<1>2. CASE Stick
  <2>0. UNCHANGED <<seq, txBuf>>
    BY <1>2 DEF Stick, transportVars
  <2>00. SeqTells(NoReport, txBuf)
    BY DEF SeqTells, NoReport
  <2>1. CASE OnOutput
    BY <2>0, <2>00, <2>1 DEF OnOutput, loopVars
  <2>2. CASE OnOutputHeader
    <3>1. rx'.sid = outPkt.sid /\ rx'.seq = outPkt.seq
      BY <2>2 DEF OnOutputHeader, TypeOK, StickTypeOK, Report
    <3> QED
      BY <2>0, <2>2, <3>1 DEF OnOutputHeader, busVars, loopVars, SeqTells
  <2>3. CASE OnOutputRest
    BY <2>0, <2>00, <2>3 DEF OnOutputRest, loopVars
  <2>4. CASE ReadSeq
    <3>1. cur'.sid = rx.sid /\ cur'.seq = rx.seq
      BY <2>4 DEF ReadSeq, NoReport
    <3> QED
      BY <2>0, <2>4, <3>1 DEF ReadSeq, busVars, usbTaskVars, SeqTells
  <2>5. CASE ReadCmd
    <3>1. cur'.sid = cur.sid /\ cur'.seq = cur.seq
      BY <2>5 DEF ReadCmd, TypeOK, StickTypeOK, Report
    <3> QED
      BY <2>0, <2>5, <3>1 DEF ReadCmd, busVars, usbTaskVars, SeqTells
  <2>6. CASE TransmitIR
    BY <2>0, <2>00, <2>6 DEF TransmitIR, busVars, usbTaskVars
  <2>7. CASE RecoveryDetach
    BY <2>0, <2>00, <2>7 DEF RecoveryDetach, StickVanishes, usbTaskVars
  <2>8. CASE StickResets
    BY <2>0, <2>00, <2>8 DEF StickResets, StickVanishes
  <2>9. CASE UNCHANGED <<outPkt, rx, cur>> /\ (RxLive' => RxLive)
    BY <2>0, <2>9
  <2>10. CASE TestReceived \/ ClearReceived
    BY <2>9, <2>10 DEF TestReceived, ClearReceived, busVars, usbTaskVars
  <2> QED
    BY <1>2, <2>1, <2>2, <2>3, <2>4, <2>5, <2>6, <2>7, <2>8, <2>9, <2>10
       DEF Stick, UsbTask, OnSuspend, OnResume, LoopStep, RecoveryAttach,
         QueueReply, StickBoots, StickAppears, busVars, usbTaskVars,
         loopVars
<1>3. CASE Host
  BY <1>3 DEF Host, HostStep, DeliverReply, DiscardReply, transportVars, stickVars,
       usbTaskVars, loopVars
<1> QED
  BY <1>1, <1>2, <1>3 DEF Next

LEMMA RepliesStep ==
    ASSUME MaxRestarts = 0, TypeOK, SequenceTells, RepliesTell, Next
    PROVE  RepliesTell'
<1> SUFFICES ASSUME NEW r \in InFlight' PROVE SeqTells(r, txBuf')
  BY DEF RepliesTell
<1>1. CASE r \in InFlight
  <2>1. SeqTells(r, txBuf) /\ r.sid \in Nat /\ r.seq \in SeqByte
    BY <1>1, InFlightType DEF RepliesTell, Reply
  <2>2. ASSUME NEW c \in Cmd, StickKeepsUp, SendStarts(c)
        PROVE  SeqTells(r, txBuf')
    <3>1. seq' = NextSequence(seq) /\ txBuf'.seq = seq' /\ txBuf'.sid = txBuf.sid + 1
      BY <2>2 DEF SendStarts
    <3>2. r.sid # 0 => txBuf.sid + 1 - r.sid <= SeqMod - 2
      BY <1>1, <2>2, HeldInTime
    <3> QED
      BY <2>1, <3>1, <3>2, SeqTellsAges, FieldTypes DEF SequenceTells
  <2>3. CASE txBuf' = txBuf
    BY <2>1, <2>3
  <2> QED
    BY <2>2, <2>3 DEF Next, Daemon, Stick, Host, SendNoDevice, SendStep, WriteOk,
       WriteFails, WriteRetried, WriteAbandoned, ReopenNap, ReopenAbandoned,
       ReopenDone, AttemptsExhausted, AwaitMatch, AwaitDiscard, AwaitUnexpected,
       AwaitError, AwaitTick, AwaitTimeout, Invalidate, DaemonRestart, transportVars
<1>2. CASE r = NoReply
  BY <1>2 DEF NoReply, SeqTells
<1>3. CASE TransmitIR /\ r = rep'
  <2>1. r.sid = cur.sid /\ r.seq = cur.seq
    BY <1>3 DEF TransmitIR
  <2>2. txBuf' = txBuf
    BY <1>3, TransmitKeeps
  <2> QED
    BY <2>1, <2>2 DEF SequenceTells, SeqTells
<1> QED
  BY <1>1, <1>2, <1>3, NewReplies

LEMMA SequenceStutter ==
    ASSUME SequenceTells, RepliesTell, UNCHANGED vars
    PROVE  SequenceTells' /\ RepliesTell'
  BY DEF SequenceTells, RepliesTell, RxLive, InFlight, Elems, vars, busVars,
         transportVars, stickVars, usbTaskVars, loopVars

LEMMA SequenceAlways ==
    ASSUME MaxRestarts = 0
    PROVE  SafeSpec => [](TypeOK /\ SequenceTells /\ RepliesTell)
<1> DEFINE Inv == TypeOK /\ SequenceTells /\ RepliesTell
<1>1. Init => Inv
  BY InitType, SequenceInit
<1>2. Inv /\ [Next]_vars => Inv'
  BY DaemonType, StickType, HostType, StutterType, SequenceStep, RepliesStep,
     SequenceStutter DEF Next
<1> QED
  BY <1>1, <1>2, PTL DEF SafeSpec

(* In one life of the daemon the sequence byte does its work, torn reads    *)
(* included: while awaitAck waits, nothing under way that answers an        *)
(* earlier send carries the byte it waits for, before and after the wrap.   *)
THEOREM NoStaleMatch ==
    ASSUME MaxRestarts = 0
    PROVE  SafeSpec => []StaleNeverMatches
<1>1. TypeOK /\ SequenceTells /\ RepliesTell => StaleNeverMatches
  <2> SUFFICES ASSUME TypeOK, SequenceTells, RepliesTell,
                      NEW r \in InFlight, r.sid # 0, r.seq = txBuf.seq
               PROVE  r.sid = txBuf.sid
    BY DEF StaleNeverMatches
  <2>1. r.sid \in Nat /\ SeqTells(r, txBuf)
    BY InFlightType DEF RepliesTell, Reply
  <2> QED
    BY <2>1, BusAssumption, FieldTypes DEF SeqTells, SeqByte
<1> QED
  BY SequenceAlways, <1>1, PTL

-----------------------------------------------------------------------------
(* What a confirmation is worth, when _onOutput's copy is not torn.        *)

LEMMA HeadersInit == Init => HeadersNotAhead /\ RepliesMatch /\ Confirmed
<1> SUFFICES ASSUME Init PROVE HeadersNotAhead /\ RepliesMatch /\ Confirmed
  OBVIOUS
<1> USE DEF Init, BusInit, TransportInit, StickInit, NoReport, NoReply
<1>1. HeadersNotAhead /\ Confirmed
  BY DEF HeadersNotAhead, RxLive, Confirmed
<1>2. RepliesMatch
  BY ElemsEmpty DEF RepliesMatch, InFlight
<1> QED
  BY <1>1, <1>2

LEMMA HeadersStep ==
    ASSUME ~HandOffTears, TypeOK, CommandsInOrder, HeadersNotAhead, Next
    PROVE  HeadersNotAhead'
<1> USE FieldTypes DEF HeadersNotAhead, RxLive
<1>1. CASE Daemon \/ Host
  BY <1>1 DEF Daemon, Host, stickVars, usbTaskVars, loopVars
<1>2. CASE Stick
  <2>1. CASE OnOutput
    <3>1. /\ rx' = outPkt /\ outPkt.sid # 0
          /\ outPkt.cid = outPkt.sid /\ outPkt.cmd \in Cmd
      BY <2>1 DEF OnOutput, CommandsInOrder
    <3>2. UNCHANGED <<usb, loop, cur>>
      BY <2>1 DEF OnOutput, loopVars
    <3>3. loop = "cmd" => cur.sid <= outPkt.cid
      BY <3>1 DEF CommandsInOrder, InOrder
    <3> QED
      BY <3>1, <3>2, <3>3
  <2>2. CASE ReadSeq
    <3>1. cur'.sid = rx.sid /\ UNCHANGED <<usb, rx, received>>
      BY <2>2 DEF ReadSeq, NoReport, usbTaskVars
    <3> QED
      BY <2>2, <3>1 DEF ReadSeq
  <2>3. CASE ReadCmd
    <3>1. /\ cur'.sid = cur.sid /\ cur'.cid = rx.cid /\ cur'.cmd = rx.cmd
          /\ UNCHANGED <<usb, rx, received>>
      BY <2>3 DEF ReadCmd, TypeOK, StickTypeOK, Report, usbTaskVars
    <3> QED
      BY <2>3, <3>1 DEF ReadCmd
  <2>4. CASE TransmitIR
    BY <2>4 DEF TransmitIR, usbTaskVars
  <2>5. CASE StickResets
    BY <2>5 DEF StickResets, NoReport
  <2>6. CASE /\ UNCHANGED <<usb, rx, cur>>
             /\ RxLive' => RxLive
             /\ loop' \notin {"cmd", "transmit"} \/ loop' = loop
    BY <2>6
  <2>7. CASE TestReceived \/ ClearReceived
    BY <2>6, <2>7 DEF TestReceived, ClearReceived, usbTaskVars
  <2>8. ~OnOutputHeader /\ ~OnOutputRest
    BY DEF OnOutputHeader, OnOutputRest
  <2> QED
    BY <1>2, <2>1, <2>2, <2>3, <2>4, <2>5, <2>6, <2>7, <2>8
       DEF Stick, UsbTask, OnSuspend, OnResume, LoopStep, RecoveryDetach,
         RecoveryAttach, QueueReply, StickBoots, usbTaskVars, loopVars
<1> QED
  BY <1>1, <1>2 DEF Next

LEMMA SendsGrow ==
    ASSUME TypeOK, Next
    PROVE  txBuf' = txBuf \/ (pc' = "write" /\ txBuf'.sid = txBuf.sid + 1)
<1>1. ASSUME NEW c \in Cmd, SendStarts(c)
      PROVE  pc' = "write" /\ txBuf'.sid = txBuf.sid + 1
  BY <1>1 DEF SendStarts
<1>2. CASE txBuf' = txBuf
  BY <1>2
<1> QED
  BY <1>1, <1>2 DEF Next, Daemon, Stick, Host, SendNoDevice, SendStarts, SendStep, WriteOk,
     WriteFails, WriteRetried, WriteAbandoned, ReopenNap, ReopenAbandoned,
     ReopenDone, AttemptsExhausted, AwaitMatch, AwaitDiscard, AwaitUnexpected,
     AwaitError, AwaitTick, AwaitTimeout, Invalidate, DaemonRestart, transportVars

LEMMA MatchStep ==
    ASSUME TypeOK, CommandsInOrder, HeadersNotAhead, AcksFollow, RepliesMatch, Next
    PROVE  AcksFollow' /\ RepliesMatch'
<1> SUFFICES ASSUME NEW r \in InFlight'
             PROVE  /\ r.ack => r.cid <= tv'.id
                    /\ r.sid <= r.cid /\ r.cid <= txBuf'.sid /\ (r.ack => r.sid # 0)
  BY DEF AcksFollow, RepliesMatch
<1>1. CASE r \in InFlight
  <2>1. /\ r.ack => r.cid <= tv.id
        /\ r.sid <= r.cid /\ r.cid <= txBuf.sid /\ (r.ack => r.sid # 0)
        /\ r.cid \in Nat
    BY <1>1, InFlightType DEF AcksFollow, RepliesMatch, Reply
  <2>2. tv'.id \in Nat /\ tv.id <= tv'.id
    BY TvAdvances, FieldTypes
  <2>3. txBuf.sid <= txBuf'.sid /\ txBuf'.sid \in Nat
    BY SendsGrow, FieldTypes
  <2>4. r.ack => r.cid <= tv'.id
    BY <2>1, <2>2, FieldTypes
  <2>5. r.sid <= r.cid /\ r.cid <= txBuf'.sid /\ (r.ack => r.sid # 0)
    BY <2>1, <2>3, FieldTypes
  <2> QED
    BY <2>4, <2>5
<1>2. CASE r = NoReply
  <2>1. txBuf'.sid \in Nat
    BY SendsGrow, FieldTypes
  <2> QED
    BY <1>2, <2>1 DEF NoReply
<1>3. CASE TransmitIR /\ r = rep'
  <2>1. r.sid = cur.sid /\ r.cid = cur.cid
    BY <1>3 DEF TransmitIR
  <2>2. r.ack => tv'.id = cur.cid
    BY <1>3 DEF TransmitIR
  <2>3. /\ cur.sid <= cur.cid /\ cur.sid # 0
        /\ cur.cid <= txBuf.sid /\ txBuf' = txBuf
    BY <1>3, TransmitKeeps DEF TransmitIR, HeadersNotAhead, CommandsInOrder
  <2>4. r.sid <= r.cid /\ r.cid <= txBuf'.sid /\ (r.ack => r.sid # 0)
    BY <2>1, <2>3
  <2>5. r.ack => r.cid <= tv'.id
    BY <2>1, <2>2, FieldTypes
  <2> QED
    BY <2>4, <2>5
<1> QED
  BY <1>1, <1>2, <1>3, NewReplies

\* A matched ACK is an ACK to this send, and its command has been transmitted.
LEMMA MatchConfirms ==
    ASSUME TypeOK, CommandsInOrder, AcksFollow, RepliesMatch, SequenceTells,
           RepliesTell, AwaitMatch, ok'
    PROVE  tv.id = txBuf.sid /\ txBuf.sid # 0
<1> DEFINE r == Head(inq)
<1>1. r \in InFlight /\ r \in Reply
  BY ElemsTail, InFlightType DEF AwaitMatch, InFlight, TypeOK, BusTypeOK
<1>2. r.seq = txBuf.seq /\ r.ack
  BY DEF AwaitMatch, Return, Matches, Verdict
<1>3. /\ r.sid <= r.cid /\ r.cid <= txBuf.sid /\ r.sid # 0
      /\ r.cid <= tv.id /\ SeqTells(r, txBuf)
  BY <1>1, <1>2 DEF RepliesMatch, AcksFollow, RepliesTell
<1>4. r.sid \in Nat /\ r.cid \in Nat
  BY <1>1 DEF Reply
<1>5. r.sid = txBuf.sid
  BY <1>2, <1>3, <1>4, BusAssumption, FieldTypes DEF SeqTells, SeqByte
<1>6. tv.id <= txBuf.sid
  BY DEF CommandsInOrder
<1> QED
  BY <1>3, <1>4, <1>5, <1>6, FieldTypes

LEMMA ConfirmedStep ==
    ASSUME TypeOK, CommandsInOrder, AcksFollow, RepliesMatch, SequenceTells,
           RepliesTell, Confirmed, Next
    PROVE  Confirmed'
<1> USE FieldTypes DEF Confirmed
<1>1. CASE Daemon
  <2>0. tv' = tv
    BY <1>1 DEF Daemon, stickVars, loopVars
  <2>1. CASE AwaitMatch
    <3>1. SUFFICES ASSUME ok' PROVE txBuf'.sid # 0 /\ tv'.id = txBuf'.sid
      OBVIOUS
    <3>2. tv.id = txBuf.sid /\ txBuf.sid # 0
      BY <2>1, <3>1, MatchConfirms
    <3> QED
      BY <2>0, <2>1, <3>2 DEF AwaitMatch
  <2>2. CASE pc' # "idle" \/ ~ok' \/ UNCHANGED <<pc, ok, txBuf>>
    BY <2>0, <2>2
  <2> QED
    BY <1>1, <2>1, <2>2 DEF Daemon, SendNoDevice, SendStarts, SendStep, WriteOk,
         WriteRetried, WriteAbandoned, ReopenNap, ReopenAbandoned, ReopenDone,
         AttemptsExhausted, AwaitDiscard, AwaitUnexpected, AwaitError, AwaitTick,
         AwaitTimeout, Invalidate, DaemonRestart, Return, transportVars
<1>2. CASE Stick
  <2>1. UNCHANGED <<pc, ok, txBuf>>
    BY <1>2 DEF Stick, transportVars
  <2>2. CASE tv' = tv
    BY <2>1, <2>2
  <2>3. CASE TransmitIR /\ tv'.id = cur.cid /\ tv'.id >= tv.id
    BY <2>1, <2>3 DEF CommandsInOrder
  <2> QED
    BY <2>2, <2>3, TvAdvances
<1>3. CASE Host
  BY <1>3 DEF Host, transportVars, stickVars, loopVars
<1> QED
  BY <1>1, <1>2, <1>3 DEF Next

(* The whole inductive invariant, for every number of sends, sequence      *)
(* numbers that wrap, full queues and stale reports: the stick never holds *)
(* a command the daemon did not send last, or a reply it would take for    *)
(* another's. It rests on one life of the daemon, since a new one starts   *)
(* its sequence numbers again, and on an _onOutput that loop() does not    *)
(* read half-way; the runs restart and torn break it without them.         *)
THEOREM Invariance ==
    ASSUME MaxRestarts = 0, ~HandOffTears
    PROVE  SafeSpec => []IInv
<1> USE DEF IInv
<1>1. Init => IInv
  BY InitType, OrderInit, SequenceInit, HeadersInit
<1>2. ASSUME IInv, Next
      PROVE  IInv'
  <2>1. TypeOK'
    BY <1>2, DaemonType, StickType, HostType DEF Next
  <2>2. CommandsInOrder' /\ SequenceTells' /\ RepliesTell' /\ HeadersNotAhead'
    BY <1>2, OrderStep, SequenceStep, RepliesStep, HeadersStep
  <2>3. AcksFollow' /\ RepliesMatch' /\ Confirmed'
    BY <1>2, MatchStep, ConfirmedStep
  <2> QED
    BY <2>1, <2>2, <2>3
<1>3. ASSUME IInv, UNCHANGED vars
      PROVE  IInv'
  <2>1. TypeOK' /\ CommandsInOrder' /\ SequenceTells' /\ RepliesTell'
    BY <1>3, StutterType, OrderStutter, SequenceStutter
  <2>2. InFlight' = InFlight
    BY <1>3 DEF InFlight, Elems, vars, busVars, stickVars, loopVars
  <2>3. AcksFollow' /\ RepliesMatch'
    BY <1>3, <2>2 DEF AcksFollow, RepliesMatch, vars, transportVars, stickVars, loopVars
  <2>4. HeadersNotAhead' /\ Confirmed'
    BY <1>3 DEF HeadersNotAhead, RxLive, Confirmed, vars, transportVars, stickVars,
         usbTaskVars, loopVars
  <2> QED
    BY <2>1, <2>3, <2>4
<1>4. IInv /\ [Next]_vars => IInv'
  BY <1>2, <1>3
<1> QED
  BY <1>1, <1>4, PTL DEF SafeSpec

(* A send() that returned true is worth its word: the TV was last sent the  *)
(* command of that very send, and stays so until the next send.  It rests   *)
(* on one life of the daemon and on a copy in _onOutput that loop() does    *)
(* not read half-way.                                                       *)
THEOREM ConfirmedIsTransmitted ==
    ASSUME MaxRestarts = 0, ~HandOffTears
    PROVE  SafeSpec => []ConfirmedTv
<1>1. IInv => ConfirmedTv
  <2> SUFFICES ASSUME IInv, pc = "idle", ok
               PROVE  tv.id = txBuf.sid /\ tv.cmd = txBuf.cmd
    BY DEF ConfirmedTv
  <2>1. tv.id = txBuf.sid /\ txBuf.sid # 0
    BY DEF IInv, Confirmed
  <2>2. tv.cmd \in Cmd /\ tv.cmd \in {txBuf.cmd, "junk"}
    BY <2>1 DEF IInv, CommandsInOrder, Agrees
  <2> QED
    BY <2>1, <2>2 DEF Cmd
<1> QED
  BY Invariance, <1>1, PTL

-----------------------------------------------------------------------------
(* The refinement of TvLink.                                               *)

LEMMA LinkInit == Init => Link!Init
  BY DEF Init, BusInit, TransportInit, StickInit, NoReport, Link!Init, Owed, RxLive

\* When the last command transmitted is the current one, nothing else is owed.
LEMMA NothingElseOwed ==
    ASSUME IInv, pc = "await", tv.id = txBuf.sid, txBuf.sid # 0
    PROVE  tv.cmd = txBuf.cmd /\ Owed \subseteq {txBuf.cmd}
<1> USE FieldTypes DEF IInv, CommandsInOrder, InOrder, Agrees, HeadersNotAhead
<1>1. tv.cmd = txBuf.cmd
  BY DEF Cmd
<1>2. outPkt.sid # 0 => outPkt.cmd = txBuf.cmd
  BY DEF Cmd
<1>3. RxLive => rx.cmd = txBuf.cmd
  BY DEF Cmd
<1>4. loop = "transmit" => cur.cmd = txBuf.cmd
  BY DEF Cmd
<1> QED
  BY <1>1, <1>2, <1>3, <1>4 DEF Owed

LEMMA LinkDaemon ==
    ASSUME MaxRestarts = 0, IInv, Daemon
    PROVE  [Link!Next]_(Link!vars)
<1> USE DEF Link!Next, Link!vars
<1>0. UNCHANGED <<cur, rx, received, loop, tv>>
  BY DEF Daemon, stickVars, usbTaskVars, loopVars
<1>1. CASE SendNoDevice
  <2>1. Owed' = Owed
    BY <1>0, <1>1 DEF SendNoDevice, Return, busVars, Owed, RxLive
  <2> QED
    BY <1>0, <1>1, <2>1 DEF SendNoDevice, Return, Link!Refuse
<1>2. ASSUME NEW c \in Cmd, SendStarts(c)
      PROVE  Link!Next
  <2>1. Owed' \subseteq Owed \cup {c}
    BY <1>0, <1>2 DEF SendStarts, Owed, RxLive
  <2> QED
    BY <1>0, <1>2, <2>1 DEF SendStarts, Link!Call
<1>3. CASE SendStep
  <2>0. UNCHANGED txBuf /\ pc # "idle"
    BY <1>3 DEF SendStep, WriteOk, WriteRetried, WriteAbandoned, WriteFails,
       ReopenNap, ReopenAbandoned, ReopenDone, AttemptsExhausted, Waiting,
       AwaitMatch, AwaitDiscard, AwaitUnexpected, AwaitError, AwaitTick,
       AwaitTimeout, transportVars
  <2>1. Owed' \subseteq Owed
    <3>1. CASE WriteOk \/ WriteRetried \/ WriteAbandoned
      BY <1>0, <2>0, <3>1 DEF WriteOk, WriteRetried, WriteAbandoned, WriteFails,
         Return, Owed, RxLive
    <3>2. CASE UNCHANGED outPkt /\ (pc' \in {"write", "reopen"} => pc \in {"write", "reopen"})
      BY <1>0, <2>0, <3>2 DEF Owed, RxLive
    <3> QED
      BY <1>3, <3>1, <3>2 DEF SendStep, ReopenNap, ReopenAbandoned, ReopenDone,
         AttemptsExhausted, Waiting, AwaitMatch, AwaitDiscard, AwaitUnexpected,
         AwaitError, AwaitTick, AwaitTimeout, Return, transportVars, busVars
  <2>2. CASE pc' # "idle" /\ UNCHANGED <<ok>>
    BY <1>0, <2>0, <2>1, <2>2 DEF Link!Lose
  <2>3. CASE pc' = "idle" /\ ok' = FALSE
    BY <1>0, <2>0, <2>1, <2>3 DEF Link!Fail
  <2>4. CASE AwaitMatch /\ ok'
    <3>1. tv.cmd = txBuf.cmd /\ Owed \subseteq {txBuf.cmd}
      BY <2>4, MatchConfirms, NothingElseOwed DEF IInv, AwaitMatch, Waiting
    <3>2. pc' = "idle" /\ ok' = TRUE
      BY <2>4 DEF AwaitMatch, Return, TypeOK, TransportTypeOK
    <3> QED
      BY <1>0, <2>0, <2>1, <3>1, <3>2 DEF Link!Confirm
  <2>5. CASE AwaitMatch
    <3>1. pc' = "idle"
      BY <2>5 DEF AwaitMatch, Return
    <3>2. ok' \in BOOLEAN
      BY DaemonType DEF IInv, TypeOK, TransportTypeOK
    <3>3. ok' \/ ok' = FALSE
      BY <3>2, Zenon
    <3> QED
      BY <2>3, <2>4, <2>5, <3>1, <3>3
  <2>6. CASE AwaitTick \/ AwaitDiscard
    <3>1. pc' # "idle" /\ UNCHANGED <<ok>>
      BY <2>0, <2>6 DEF AwaitTick, AwaitDiscard, transportVars
    <3> QED
      BY <2>2, <3>1
  <2>7. CASE WriteOk \/ WriteRetried \/ ReopenNap \/ ReopenDone
    <3>1. pc' # "idle"
      BY <2>0, <2>7 DEF WriteOk, WriteRetried, ReopenNap, ReopenDone
    <3>2. UNCHANGED <<ok>>
      BY <2>7, Zenon DEF WriteOk, WriteRetried, ReopenNap, ReopenDone
    <3> QED
      BY <2>2, <3>1, <3>2
  <2>8. CASE \/ WriteAbandoned \/ ReopenAbandoned \/ AttemptsExhausted
             \/ AwaitUnexpected \/ AwaitError \/ AwaitTimeout
    <3>1. pc' = "idle" /\ ok' = FALSE
      BY <2>8, Zenon DEF WriteAbandoned, ReopenAbandoned, AttemptsExhausted,
         AwaitUnexpected, AwaitError, AwaitTimeout, Return
    <3> QED
      BY <2>3, <3>1
  <2> QED
    BY <1>3, <2>5, <2>6, <2>7, <2>8 DEF SendStep
<1>4. CASE Invalidate
  BY <1>0, <1>4 DEF Invalidate, transportVars, Owed, RxLive
<1>5. ~DaemonRestart
  BY DEF DaemonRestart, IInv, TypeOK, TransportTypeOK
<1> QED
  BY <1>1, <1>2, <1>3, <1>4, <1>5 DEF Daemon

LEMMA LinkStick ==
    ASSUME ~HandOffTears, IInv, Stick
    PROVE  [Link!Next]_(Link!vars)
<1> USE FieldTypes DEF IInv, HeadersNotAhead, Link!Next, Link!vars
<1>0. UNCHANGED <<pc, txBuf, ok>>
  BY DEF Stick, transportVars
<1>1. CASE TransmitIR
  <2>1. Owed' \subseteq Owed
    BY <1>0, <1>1 DEF TransmitIR, busVars, usbTaskVars, Owed, RxLive
  <2>2. tv' = tv \/ tv'.cmd = cur.cmd
    BY <1>1 DEF TransmitIR
  <2>3. cur.cmd \in Owed
    BY <1>1 DEF TransmitIR, Owed
  <2> QED
    BY <1>0, <2>1, <2>2, <2>3 DEF Link!Reach, Link!Lose
<1>2. CASE Owed' \subseteq Owed /\ tv' = tv
  BY <1>0, <1>2 DEF Link!Lose
<1>3. CASE OnOutput
  <2>1. Owed' \subseteq Owed
    BY <1>0, <1>3 DEF OnOutput, loopVars, NoReport, Owed, RxLive
  <2> QED
    BY <1>2, <1>3, <2>1 DEF OnOutput, loopVars
<1>4. CASE ReadCmd
  <2>1. cur'.cmd = rx.cmd
    BY <1>4 DEF ReadCmd, TypeOK, StickTypeOK, Report
  <2>2. Owed' \subseteq Owed
    BY <1>0, <1>4, <2>1 DEF ReadCmd, busVars, usbTaskVars, Owed, RxLive
  <2> QED
    BY <1>2, <1>4, <2>2 DEF ReadCmd
<1>5. CASE RecoveryDetach \/ StickResets
  <2>1. Owed' \subseteq Owed
    BY <1>0, <1>5 DEF RecoveryDetach, StickResets, StickVanishes, usbTaskVars,
       NoReport, Owed, RxLive
  <2> QED
    BY <1>2, <1>5, <2>1 DEF RecoveryDetach, StickResets
<1>6. CASE /\ UNCHANGED <<outPkt, rx, tv>>
           /\ RxLive' => RxLive
           /\ loop' # "transmit" \/ UNCHANGED <<loop, cur>>
  BY <1>0, <1>2, <1>6 DEF Owed
<1>7. CASE TestReceived \/ ClearReceived
  BY <1>6, <1>7 DEF TestReceived, ClearReceived, RxLive, busVars, usbTaskVars
<1>8. CASE ReadSeq \/ QueueReply \/ RecoveryAttach \/ StickBoots
  BY <1>6, <1>8 DEF ReadSeq, QueueReply, RecoveryAttach, StickBoots,
     StickAppears, RxLive, busVars, usbTaskVars
<1>9. CASE OnSuspend \/ OnResume
  BY <1>6, <1>9 DEF OnSuspend, OnResume, RxLive, busVars, usbTaskVars, loopVars
<1>10. ~OnOutputHeader /\ ~OnOutputRest
  BY DEF OnOutputHeader, OnOutputRest
<1> QED
  BY <1>1, <1>3, <1>4, <1>5, <1>7, <1>8, <1>9, <1>10 DEF Stick, UsbTask, LoopStep

LEMMA LinkHost ==
    ASSUME Host
    PROVE  [Link!Next]_(Link!vars)
  BY DEF Host, HostStep, DeliverReply, DiscardReply, transportVars, stickVars,
     usbTaskVars, loopVars, Owed, RxLive, Link!vars

(* The transport and the stick together keep ITransport's promise: every    *)
(* step of the conversation is a step of TvLink or leaves it unchanged.     *)
THEOREM ConversationImplementsTvLink ==
    ASSUME MaxRestarts = 0, ~HandOffTears
    PROVE  SafeSpec => ImplementsTvLink
<1>1. IInv /\ [Next]_vars => [Link!Next]_(Link!vars)
  <2> SUFFICES ASSUME IInv, [Next]_vars
               PROVE  [Link!Next]_(Link!vars)
    OBVIOUS
  <2>1. CASE Next
    BY <2>1, LinkDaemon, LinkStick, LinkHost DEF Next
  <2>2. CASE UNCHANGED vars
    BY <2>2 DEF vars, busVars, transportVars, stickVars, usbTaskVars, loopVars,
       Owed, RxLive, Link!vars
  <2> QED
    BY <2>1, <2>2
<1> QED
  BY LinkInit, Invariance, <1>1, PTL DEF SafeSpec, ImplementsTvLink, Link!Spec

-----------------------------------------------------------------------------
(* The deadline.                                                           *)

(* Whatever mixture of failing writes, naps, polls and waiting a send goes  *)
(* through, it overruns SEND_TIMEOUT by less than one blocked hid_write,    *)
(* and not at all when writes do not block (send, reopenBefore, awaitAck).  *)
THEOREM BudgetKept == SafeSpec => []SendWithinBudget
<1> DEFINE Inv == WritesInTime /\ SendWithinBudget
<1>1. Init => Inv
  BY TransportAssumption DEF Init, TransportInit, WritesInTime, SendWithinBudget, InTime
<1>2. TypeOK /\ Inv /\ [Next]_vars => Inv'
  <2> SUFFICES ASSUME TypeOK, Inv, [Next]_vars
               PROVE  Inv'
    OBVIOUS
  <2> USE DEF WritesInTime, SendWithinBudget, InTime, Elapse
  <2>0. spent \in Nat
    BY DEF TypeOK, TransportTypeOK
  <2>1. CASE UNCHANGED <<pc, spent>>
    BY <2>1
  <2>2. CASE SendNoDevice \/ (\E c \in Cmd : SendStarts(c)) \/ DaemonRestart
    <3>1. spent' = 0
      BY <2>2 DEF SendNoDevice, SendStarts, DaemonRestart
    <3> QED
      BY <3>1, TransportAssumption
  <2>3. CASE WriteOk
    BY <2>0, <2>3, TransportAssumption DEF WriteOk
  <2>4. CASE WriteRetried
    BY <2>0, <2>4, TransportAssumption DEF WriteRetried
  <2>5. CASE WriteAbandoned
    BY <2>0, <2>5, TransportAssumption DEF WriteAbandoned, WriteFails, Return
  <2>6. CASE ReopenNap
    BY <2>0, <2>6, TransportAssumption DEF ReopenNap
  <2>7. CASE AwaitTick
    BY <2>0, <2>7, TransportAssumption DEF AwaitTick, Waiting, busVars
  <2>8. CASE \/ ReopenAbandoned \/ ReopenDone \/ AttemptsExhausted \/ AwaitMatch
             \/ AwaitUnexpected \/ AwaitError \/ AwaitTimeout
    <3>1. spent' = spent /\ (pc' = "idle" \/ pc = "reopen")
      BY <2>8 DEF ReopenAbandoned, ReopenDone, AttemptsExhausted, AwaitMatch,
         AwaitUnexpected, AwaitError, AwaitTimeout, Return
    <3> QED
      BY <3>1
  <2>9. CASE AwaitDiscard \/ Invalidate \/ Stick \/ Host \/ UNCHANGED vars
    BY <2>1, <2>9 DEF AwaitDiscard, Invalidate, Stick, Host, transportVars, vars
  <2> QED
    BY <2>2, <2>3, <2>4, <2>5, <2>6, <2>7, <2>8, <2>9 DEF Next, Daemon, SendStep
<1> QED
  BY TypeCorrect, <1>1, <1>2, PTL DEF SafeSpec
=============================================================================
