-------------------------- MODULE HidConversation --------------------------
(***************************************************************************)
(* The daemon's HIDTransport and the stick's command path in conversation  *)
(* over USB: the whole way of a command from send() to the IR LED and of   *)
(* its reply back.                                                         *)
(***************************************************************************)
EXTENDS HIDTransport, StickCommand

vars == <<busVars, transportVars, stickVars>>

-----------------------------------------------------------------------------
(* Reports and replies still under way, by the send they belong to.        *)

\* loop() is going to read rxBuf_: it has not been taken, or is being taken.
RxLive == received \/ loop \in {"clear", "seq", "cmd"}

HeldSids ==
    ({outPkt.sid, cur.sid, rep.sid, inEp.sid}
        \cup (IF RxLive THEN {rx.sid} ELSE {})
        \cup {r.sid : r \in Elems(inq)}) \ {0}

(* The one assumption the sequence byte rests on: the stick does not hold   *)
(* on to a report or a reply while the daemon draws SeqMod - 2 further      *)
(* numbers.  With 254 sends against a 20 s firmware watchdog it does not.   *)
StickKeepsUp == \A s \in HeldSids : txBuf.sid + 1 - s <= SeqMod - 2

-----------------------------------------------------------------------------
Init == BusInit /\ TransportInit /\ StickInit

Daemon ==
    /\ \/ SendNoDevice
       \/ StickKeepsUp /\ \E c \in Cmd : SendStarts(c)
       \/ SendStep
       \/ Invalidate
       \/ DaemonRestart
    /\ UNCHANGED stickVars

Stick ==
    /\ \/ UsbTask
       \/ OnSuspend \/ OnResume
       \/ LoopStep
       \/ StickResets \/ StickBoots
    /\ UNCHANGED transportVars

Host == HostStep /\ UNCHANGED <<transportVars, stickVars>>

Next == Daemon \/ Stick \/ Host

(* send() runs to its end in the daemon's only thread, the firmware's two   *)
(* tasks are scheduled, and the host polls an endpoint it has open.  Bus    *)
(* resumes, power coming back and the caller's sends are not promised.      *)
Fairness ==
    /\ WF_vars(SendStep /\ UNCHANGED stickVars)
    /\ WF_vars(UsbTask /\ UNCHANGED transportVars)
    /\ WF_vars(LoopStep /\ UNCHANGED transportVars)
    /\ WF_vars(Host)

SafeSpec == Init /\ [][Next]_vars

Spec == SafeSpec /\ Fairness

-----------------------------------------------------------------------------
(* Every variable keeps the type the code declares for it.                 *)
TypeOK == BusTypeOK /\ TransportTypeOK /\ StickTypeOK

(* The race the sequence byte exists for (HIDTransport::awaitAck): while a  *)
(* send waits, no reply to an earlier send that is still in the stick, in   *)
(* the endpoint or in the host's queue carries the byte it waits for.       *)
InFlight == {rep, inEp} \cup Elems(inq)

StaleNeverMatches ==
    pc = "await" =>
        \A r \in InFlight : r.sid # 0 /\ r.seq = txBuf.seq => r.sid = txBuf.sid

(* When send() has returned true the TV was last sent the very command of   *)
(* that send, and stays so until the next one: no late report of an earlier *)
(* send reaches the IR LED after the confirmation (send, loop, _onOutput).  *)
ConfirmedTv ==
    pc = "idle" /\ ok => tv.id = txBuf.sid /\ tv.cmd = txBuf.cmd

(* "One timeout covers a whole send", as far as the code can make it: a     *)
(* send overruns SEND_TIMEOUT by at most one blocked hid_write, whatever    *)
(* mixture of failing writes, naps, reopening and waiting it went through.  *)
SendWithinBudget == spent <= SendTimeout \/ spent < SendTimeout + WriteStall

(* ACK means the infrared signal was actually transmitted (brief.md): when   *)
(* send() has returned true, the TV was not last told the opposite.         *)
AckMeansTransmitted == pc = "idle" /\ ok => tv.cmd = txBuf.cmd

(* Commands reach the IR LED in the order they were sent and as they were   *)
(* sent: with retries, duplicates, overwritten reports, torn reads and      *)
(* resets, the stick never transmits an older command after a newer one,    *)
(* and never one that nobody asked for (_onOutput, loop, sendIR).           *)
TransmitsAsSent ==
    /\ tv'.id >= tv.id
    /\ tv'.cmd \in Cmd
    /\ tv'.id = txBuf.sid => tv'.cmd = txBuf.cmd

CommandsAsSent == [][TransmitsAsSent]_tv

(* Every send() returns, with the stick gone, silent or answering others.  *)
EverySendReturns == pc # "idle" ~> pc = "idle"

(* A report that has been copied in is taken by loop() and answered unless  *)
(* a later one replaces it or the stick resets: none is lost to the flag    *)
(* being cleared around the copy.                                           *)
Arrived(n)   == received /\ usb = "idle" /\ rx.cid = n
AnsweredOrReplaced(n) == rep.cid = n \/ rx.cid # n
NoReportForgotten ==
    \A n \in 1 .. MaxSends : Arrived(n) ~> AnsweredOrReplaced(n)

-----------------------------------------------------------------------------
(* Why these hold: the inductive invariant, in parts that rest on different *)
(* assumptions.                                                             *)

\* 0 is "nothing here" and is in order with everything.
InOrder(a, b) == a = 0 \/ b = 0 \/ a <= b

\* A command of the current send is the command of the current send.
Agrees(n, c) == n # 0 /\ n = txBuf.sid => c \in {txBuf.cmd, "junk"}

(* Along the way IR LED - cur - rxBuf_ - endpoint - txBuf commands only get *)
(* newer, and an ACK is put together after its command was transmitted.     *)
CommandsInOrder ==
    /\ txBuf.cid = txBuf.sid
    /\ outPkt.cid = outPkt.sid
    /\ \A m \in {txBuf, outPkt} : m.sid # 0 => m.cmd \in Cmd
    /\ \A n \in {tv.id, cur.cid, rx.cid, outPkt.cid} : n <= txBuf.sid
    /\ \A n \in {cur.cid, rx.cid, outPkt.cid} : InOrder(tv.id, n)
    /\ \A n \in {rx.cid, outPkt.cid} : InOrder(cur.cid, n)
    /\ InOrder(rx.cid, outPkt.cid)
    /\ cur.cid # 0 => loop = "transmit"
    /\ usb = "copying" => outPkt.sid # 0
    /\ Agrees(outPkt.cid, outPkt.cmd) /\ Agrees(rx.cid, rx.cmd)
    /\ Agrees(cur.cid, cur.cmd) /\ Agrees(tv.id, tv.cmd)
    /\ tv.id # 0 => tv.cmd \in Cmd
    /\ \A m \in {rx, cur} : m.cid = 0 => m.cmd = "junk"

AcksFollow == \A r \in InFlight : r.ack => r.cid <= tv.id

(* Without restarts: the byte of everything under way tells how many sends  *)
(* before t it was made, round the wrap that leaves out 0.                  *)
SeqTells(m, t) ==
    m.sid # 0 =>
        /\ t.sid - m.sid \in 0 .. SeqMod - 2
        /\ m.seq # 0
        /\ \/ m.seq = t.seq - (t.sid - m.sid)
           \/ m.seq = t.seq - (t.sid - m.sid) + SeqMod - 1

SequenceTells ==
    /\ seq = txBuf.seq
    /\ txBuf.sid = 0 <=> seq = 0
    /\ SeqTells(outPkt, txBuf) /\ SeqTells(cur, txBuf)
    /\ RxLive => SeqTells(rx, txBuf)

RepliesTell == \A r \in InFlight : SeqTells(r, txBuf)

(* Without torn reads: a reply never carries the byte of a later report     *)
(* than the one whose command it answers.                                   *)
HeadersNotAhead ==
    /\ usb = "idle"
    /\ rx.sid = rx.cid
    /\ RxLive => rx.sid # 0 /\ rx.cmd \in Cmd
    /\ loop \in {"cmd", "transmit"} => cur.sid # 0
    /\ loop = "cmd" => cur.sid <= rx.cid
    /\ loop = "transmit" => cur.sid <= cur.cid /\ cur.cmd \in Cmd

RepliesMatch ==
    \A r \in InFlight :
        r.sid <= r.cid /\ r.cid <= txBuf.sid /\ (r.ack => r.sid # 0)

Confirmed == pc = "idle" /\ ok => txBuf.sid # 0 /\ tv.id = txBuf.sid

\* A write is only ever begun in time.
WritesInTime == pc \in {"write", "reopen"} => InTime(spent)

IInv ==
    /\ TypeOK
    /\ CommandsInOrder /\ AcksFollow
    /\ SequenceTells /\ RepliesTell
    /\ HeadersNotAhead /\ RepliesMatch
    /\ Confirmed

-----------------------------------------------------------------------------
(* The transport as its caller sees it.  Owed is what the stick, the wire   *)
(* and the running send may still hand to the IR LED.                       *)
Owed ==
    (IF pc \in {"write", "reopen"} THEN {txBuf.cmd} ELSE {})
    \cup (IF outPkt.sid # 0 THEN {outPkt.cmd} ELSE {})
    \cup (IF RxLive THEN {rx.cmd} ELSE {})
    \cup (IF loop = "transmit" THEN {cur.cmd} ELSE {})

Link == INSTANCE TvLink WITH
            busy <- pc # "idle", cmd <- txBuf.cmd, owed <- Owed, tv <- tv.cmd

(* The conversation implements the abstract link.                          *)
ImplementsTvLink == Link!Spec
=============================================================================
