---------------------------- MODULE StickCommand ----------------------------
(***************************************************************************)
(* The firmware's command path (firmware/src/main.cpp): the USB task that  *)
(* runs VendorHID::_onOutput and onUsbEvent, and loop(), which answers.    *)
(* The two tasks share received_, rxBuf_ and the two USB flags with no     *)
(* lock; every access below that another task can come between is a step.  *)
(***************************************************************************)
EXTENDS UsbBus

CONSTANTS
    HandOffTears,   \* TRUE: loop() may read rxBuf_ while _onOutput copies into it
    MaxFaults       \* bound: resets, unpluggings and bus suspends

ASSUME StickAssumption == HandOffTears \in BOOLEAN /\ MaxFaults \in Nat

VARIABLES
    usb,                \* _onOutput: "idle", or "copying" past the first byte
    received,           \* received_
    rx,                 \* rxBuf_
    loop,               \* where loop() is
    cur,                \* seq and cmd, loop()'s locals
    rep,                \* response, before it is queued
    tv,                 \* the last command the IR LED sent for the host
    usbWasSuspended,
    usbResumePending,
    faults

usbTaskVars == <<usb, received, rx>>
loopVars    == <<loop, cur, rep, tv>>
flagVars    == <<usbWasSuspended, usbResumePending>>
stickVars   == <<usbTaskVars, loopVars, flagVars, faults>>

Emission == [id : Nat, cmd : Word]

StickTypeOK ==
    /\ usb \in {"idle", "copying"}
    /\ received \in BOOLEAN
    /\ rx \in Report
    /\ loop \in {"top", "clear", "seq", "cmd", "transmit", "reply",
                 "detached", "boot"}
    /\ cur \in Report
    /\ rep \in Reply
    /\ tv \in Emission
    /\ usbWasSuspended \in BOOLEAN
    /\ usbResumePending \in BOOLEAN
    /\ faults \in 0 .. MaxFaults

\* The stick is in its loop, or still unplugged.
StickInit ==
    /\ usb = "idle"
    /\ received = FALSE
    /\ rx = NoReport
    /\ loop = IF present THEN "top" ELSE "boot"
    /\ cur = NoReport
    /\ rep = NoReply
    /\ tv = [id |-> 0, cmd |-> "junk"]
    /\ usbWasSuspended = FALSE
    /\ usbResumePending = FALSE
    /\ faults = 0

-----------------------------------------------------------------------------
(* The USB task.                                                           *)

(* _onOutput as one uninterrupted burst.  rxBuf_ holds one report: one that *)
(* loop() has not taken yet is overwritten.                                 *)
OnOutput ==
    /\ usb = "idle"
    /\ outPkt.sid # 0
    /\ rx' = outPkt
    /\ received' = TRUE
    /\ outPkt' = NoReport
    /\ UNCHANGED <<present, inEp, dev, inq, usb, loopVars, flagVars, faults>>

(* The same with loop() running on the other core: the sequence byte is     *)
(* copied first, the rest and received_ follow.                             *)
OnOutputHeader ==
    /\ HandOffTears
    /\ usb = "idle"
    /\ outPkt.sid # 0
    /\ usb' = "copying"
    /\ rx' = [rx EXCEPT !.sid = outPkt.sid, !.seq = outPkt.seq]
    /\ UNCHANGED <<busVars, received, loopVars, flagVars, faults>>

OnOutputRest ==
    /\ usb = "copying"
    /\ usb' = "idle"
    /\ rx' = outPkt
    /\ received' = TRUE
    /\ outPkt' = NoReport
    /\ UNCHANGED <<present, inEp, dev, inq, loopVars, flagVars, faults>>

UsbTask == OnOutput \/ OnOutputHeader \/ OnOutputRest

(* onUsbEvent                                                              *)
OnSuspend ==
    /\ present
    /\ faults < MaxFaults
    /\ faults' = faults + 1
    /\ usbWasSuspended' = TRUE
    /\ UNCHANGED <<busVars, usbTaskVars, loopVars, usbResumePending>>

OnResume ==
    /\ present
    /\ usbWasSuspended
    /\ usbWasSuspended' = FALSE
    /\ usbResumePending' = TRUE
    /\ UNCHANGED <<busVars, usbTaskVars, loopVars, faults>>

-----------------------------------------------------------------------------
(* loop()                                                                  *)

(* serviceUsbRecovery: off the bus, 100 ms, on again; a copy the USB task   *)
(* has begun is over before the bus sees the detach.                        *)
RecoveryDetach ==
    /\ loop = "top"
    /\ usb = "idle"
    /\ usbResumePending
    /\ usbResumePending' = FALSE
    /\ StickVanishes
    /\ loop' = "detached"
    /\ UNCHANGED <<usbTaskVars, cur, rep, tv, usbWasSuspended, faults>>

RecoveryAttach ==
    /\ loop = "detached"
    /\ StickAppears
    /\ loop' = "top"
    /\ UNCHANGED <<usbTaskVars, cur, rep, tv, flagVars, faults>>

(* if (!received_) return;                                                 *)
TestReceived ==
    /\ loop = "top"
    /\ ~usbResumePending
    /\ received
    /\ loop' = "clear"
    /\ UNCHANGED <<busVars, usbTaskVars, cur, rep, tv, flagVars, faults>>

ClearReceived ==
    /\ loop = "clear"
    /\ received' = FALSE
    /\ loop' = "seq"
    /\ UNCHANGED <<busVars, usb, rx, cur, rep, tv, flagVars, faults>>

ReadSeq ==
    /\ loop = "seq"
    /\ cur' = [NoReport EXCEPT !.sid = rx.sid, !.seq = rx.seq]
    /\ loop' = "cmd"
    /\ UNCHANGED <<busVars, usbTaskVars, rep, tv, flagVars, faults>>

(* String(rxBuf_ + 1): in the middle of a copy, the old word or a mixture. *)
ReadCmd ==
    /\ loop = "cmd"
    /\ \/ cur' = [cur EXCEPT !.cid = rx.cid, !.cmd = rx.cmd]
       \/ usb = "copying" /\ cur' = [cur EXCEPT !.cid = rx.cid, !.cmd = "junk"]
    /\ loop' = "transmit"
    /\ UNCHANGED <<busVars, usbTaskVars, rep, tv, flagVars, faults>>

\* Mutant: whatever is not ON counts as OFF.
TransmitsOffByDefault(codes) == (IF cur.cmd = "ON" THEN "ON" ELSE "OFF") \in codes

\* sendIR has something to send: a known word, and a code for it.
Transmits(codes) == cur.cmd \in codes

(* sendIR and the verdict that goes into the response.  codes are the       *)
(* directions the active profile has a code for: handleClient and the       *)
(* button change it between two rounds of loop(), in any way.  A 63-byte    *)
(* copy is over long before the IR LED is.                                  *)
TransmitIR ==
    /\ loop = "transmit"
    /\ usb = "idle"
    /\ \E codes \in SUBSET Cmd :
         /\ tv' = IF Transmits(codes) THEN [id |-> cur.cid, cmd |-> cur.cmd] ELSE tv
         /\ rep' = [sid |-> cur.sid, seq |-> cur.seq, cid |-> cur.cid,
                    ack |-> Transmits(codes)]
    /\ cur' = NoReport
    /\ loop' = "reply"
    /\ UNCHANGED <<busVars, usbTaskVars, flagVars, faults>>

\* Mutant: received_ cleared at the end of the round instead of at its start.
QueueReplyThenClear ==
    /\ loop = "reply"
    /\ inEp' = IF present /\ inEp.sid = 0 THEN rep ELSE inEp
    /\ rep' = NoReply
    /\ received' = FALSE
    /\ loop' = "top"
    /\ UNCHANGED <<present, outPkt, dev, inq, usb, rx, cur, tv, flagVars, faults>>

(* hidDevice.send: refused when the endpoint is still full or the stick is  *)
(* off the bus; the reply is then dropped.                                  *)
QueueReply ==
    /\ loop = "reply"
    /\ inEp' = IF present /\ inEp.sid = 0 THEN rep ELSE inEp
    /\ rep' = NoReply
    /\ loop' = "top"
    /\ UNCHANGED <<present, outPkt, dev, inq, usbTaskVars, cur, tv,
                   flagVars, faults>>

LoopStep ==
    \/ RecoveryDetach \/ RecoveryAttach
    \/ TestReceived \/ ClearReceived \/ ReadSeq \/ ReadCmd
    \/ TransmitIR \/ QueueReply

-----------------------------------------------------------------------------
(* The stick is unplugged or its watchdog fires: RAM is gone.  setup()      *)
(* brings it back on the bus, if it is ever powered again.                  *)
StickResets ==
    /\ loop # "boot"
    /\ faults < MaxFaults
    /\ faults' = faults + 1
    /\ StickVanishes
    /\ usb' = "idle"
    /\ received' = FALSE
    /\ rx' = NoReport
    /\ loop' = "boot"
    /\ cur' = NoReport
    /\ rep' = NoReply
    /\ usbWasSuspended' = FALSE
    /\ usbResumePending' = FALSE
    /\ UNCHANGED tv

StickBoots ==
    /\ loop = "boot"
    /\ StickAppears
    /\ loop' = "top"
    /\ UNCHANGED <<usbTaskVars, cur, rep, tv, flagVars, faults>>
=============================================================================
