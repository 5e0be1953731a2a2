------------------------------- MODULE UsbBus -------------------------------
(***************************************************************************)
(* What the daemon and the stick share: the wire format of reports and     *)
(* replies, the USB endpoints, and the input queue the host operating      *)
(* system keeps behind an open HID handle.                                 *)
(*                                                                         *)
(* A report is the 64-byte output report built by HIDTransport::send: a    *)
(* sequence byte, then a command word.  A reply is the input report built  *)
(* by the firmware's loop(): the echoed sequence byte, then ACK or ERR.    *)
(*                                                                         *)
(* Every report carries ghost numbers that are not on the wire: sid is the *)
(* number of the send whose sequence byte it carries and cid the number of *)
(* the send whose command word it carries.  They differ only when the      *)
(* stick puts a reply together from two reports.  0 means "nothing here".  *)
(***************************************************************************)
EXTENDS Integers, Sequences

CONSTANTS
    SeqMod,     \* values of the sequence byte, 0 included: 2^8 in the code
    Foreign     \* TRUE: another device with the same VID and PID is plugged in

ASSUME BusAssumption ==
    /\ SeqMod \in Nat /\ SeqMod >= 3
    /\ Foreign \in BOOLEAN

VARIABLES
    present,    \* the stick is enumerated
    outPkt,     \* report the stick's OUT endpoint has accepted, not yet copied
    inEp,       \* reply waiting in the stick's IN endpoint
    dev,        \* what the daemon's handle dev_ refers to
    inq         \* input reports the host has queued behind that handle

busVars == <<present, outPkt, inEp, dev, inq>>

-----------------------------------------------------------------------------
Cmd  == {"ON", "OFF"}
Word == Cmd \cup {"junk"}           \* "junk": neither ON nor OFF
SeqByte == 0 .. SeqMod - 1

Report == [sid : Nat, seq : SeqByte, cid : Nat, cmd : Word]
Reply  == [sid : Nat, seq : SeqByte, cid : Nat, ack : BOOLEAN]

NoReport == [sid |-> 0, seq |-> 0, cid |-> 0, cmd |-> "junk"]
NoReply  == [sid |-> 0, seq |-> 0, cid |-> 0, ack |-> FALSE]

\* "dead": the handle is still held, the device it was opened on has gone.
Handle == {"none", "stick", "foreign", "dead"}

\* The replies in a queue.
Elems(q) == {q[i] : i \in DOMAIN q}

BusTypeOK ==
    /\ present \in BOOLEAN
    /\ outPkt \in Report
    /\ inEp \in Reply
    /\ dev \in Handle
    /\ inq \in Seq(Reply)

BusInit ==
    /\ present \in BOOLEAN
    /\ outPkt = NoReport
    /\ inEp = NoReply
    /\ inq = <<>>

-----------------------------------------------------------------------------
(* The device leaves the bus: its endpoints are flushed and a handle to it *)
(* goes dead, together with whatever the host had queued behind it.        *)
StickVanishes ==
    /\ present' = FALSE
    /\ outPkt' = NoReport
    /\ inEp' = NoReply
    /\ dev' = IF dev = "stick" THEN "dead" ELSE dev
    /\ inq' = IF dev = "stick" THEN <<>> ELSE inq

StickAppears ==
    /\ present' = TRUE
    /\ UNCHANGED <<outPkt, inEp, dev, inq>>

(* The host polls the IN endpoint and queues the reply.                    *)
DeliverReply ==
    /\ inEp.sid # 0
    /\ dev = "stick"
    /\ inq' = Append(inq, inEp)
    /\ inEp' = NoReply
    /\ UNCHANGED <<present, outPkt, dev>>

(* With no handle open on it a reply may sit in the endpoint (Linux stops  *)
(* polling) or be polled and thrown away (the Windows HID class driver).   *)
DiscardReply ==
    /\ inEp.sid # 0
    /\ dev # "stick"
    /\ inEp' = NoReply
    /\ UNCHANGED <<present, outPkt, dev, inq>>

HostStep == DeliverReply \/ DiscardReply
=============================================================================
