---------------------------- MODULE HIDTransport ----------------------------
(***************************************************************************)
(* daemon/src/HIDTransport.cpp: one synchronous send() at a time, with one *)
(* deadline over opening, write attempts and the wait for the reply.       *)
(*                                                                         *)
(* Time is counted in ticks from the start of the send (spent).  Only      *)
(* sleeps, blocked writes and waiting for a reply take time.               *)
(***************************************************************************)
EXTENDS UsbBus

CONSTANTS
    SendTimeout,        \* SEND_TIMEOUT, in ticks
    OpenPoll,           \* OPEN_POLL
    WriteRetryDelay,    \* WRITE_RETRY_DELAY
    WriteStall,         \* longest a single hid_write can block
    MaxWriteAttempts,   \* MAX_WRITE_ATTEMPTS
    MaxDrain,           \* MAX_DRAIN_REPORTS
    MaxSends,           \* bound: sends that get as far as building a report
    MaxRestarts         \* bound: daemon process restarts

ASSUME TransportAssumption ==
    /\ SendTimeout \in Nat \ {0}
    /\ OpenPoll \in Nat \ {0}
    /\ WriteRetryDelay \in Nat
    /\ WriteStall \in Nat
    /\ MaxWriteAttempts \in Nat \ {0}
    /\ MaxDrain \in Nat
    /\ MaxSends \in Nat
    /\ MaxRestarts \in Nat

VARIABLES
    pc,         \* where send() is: "idle", "write", "reopen", "await"
    seq,        \* seq_
    txBuf,      \* txBuf: the last report built; its sid numbers the sends
    attempt,    \* attempt, in the write loop
    spent,      \* Clock::now() minus the start of the send
    ok,         \* what the last send() returned; FALSE while one runs
    restarts

transportVars == <<pc, seq, txBuf, attempt, spent, ok, restarts>>

TransportTypeOK ==
    /\ pc \in {"idle", "write", "reopen", "await"}
    /\ seq \in SeqByte
    /\ txBuf \in Report
    /\ attempt \in 0 .. MaxWriteAttempts
    /\ spent \in Nat
    /\ ok \in BOOLEAN
    /\ restarts \in 0 .. MaxRestarts

-----------------------------------------------------------------------------
(* openMatching: with one match it is opened whatever it calls itself, with *)
(* several the one named like the stick wins.  hid_open itself may fail.    *)
OpenOutcomes ==
    {"none"} \cup (IF present THEN {"stick"}
                   ELSE IF Foreign THEN {"foreign"} ELSE {})

(* ensureOpen: a handle already held is used as it is.                     *)
EnsureOpen == IF dev # "none" THEN {dev} ELSE OpenOutcomes

TransportInit ==
    /\ pc = "idle"
    /\ seq = 0
    /\ txBuf = NoReport
    /\ attempt = 0
    /\ spent = 0
    /\ ok = FALSE
    /\ restarts = 0
    /\ dev \in OpenOutcomes

CloseDevice == dev' = "none" /\ inq' = <<>>

Return(result) == pc' = "idle" /\ ok' = result

\* Mutants: a counter that starts over in every send, one that sticks at its
\* largest value.
NextSequenceFixed(s)  == 1
NextSequenceSticks(s) == IF s = SeqMod - 1 THEN s ELSE s + 1

NextSequence(s) == IF s = SeqMod - 1 THEN 1 ELSE s + 1

Drained(q) == SubSeq(q, MaxDrain + 1, Len(q))

\* Mutants: a timeout for each phase of a send; time that is not counted.
InTimePerPhase(t)  == t < 2 * SendTimeout
ElapseUncounted(d) == spent' = spent

\* Clock::now() + ... against the deadline, and the passing of time.
InTime(t) == t < SendTimeout
Elapse(d) == spent' = spent + d

-----------------------------------------------------------------------------
(* send() when nothing enumerates: FALSE at once, nothing is waited for.   *)
SendNoDevice ==
    /\ pc = "idle"
    /\ "none" \in EnsureOpen
    /\ Return(FALSE)
    /\ spent' = 0
    /\ UNCHANGED <<busVars, seq, txBuf, attempt, restarts>>

(* send() up to the write loop.                                            *)
SendStarts(c) ==
    /\ pc = "idle"
    /\ txBuf.sid < MaxSends
    /\ dev' \in EnsureOpen \ {"none"}
    /\ inq' = Drained(inq)
    /\ seq' = NextSequence(seq)
    /\ txBuf' = [sid |-> txBuf.sid + 1, seq |-> seq',
                 cid |-> txBuf.sid + 1, cmd |-> c]
    /\ attempt' = 1
    /\ spent' = 0
    /\ ok' = FALSE
    /\ pc' = "write"
    /\ UNCHANGED <<present, outPkt, inEp, restarts>>

(* hid_write succeeds: the report is in the stick's endpoint, or went to    *)
(* whatever else the handle refers to.                                      *)
WriteOk ==
    /\ pc = "write"
    /\ \/ dev = "stick" /\ outPkt.sid = 0 /\ outPkt' = txBuf
       \/ dev = "foreign" /\ outPkt' = outPkt
    /\ \E stall \in 0 .. WriteStall : Elapse(stall)
    /\ pc' = "await"
    /\ UNCHANGED <<present, inEp, dev, inq, seq, txBuf, attempt, ok, restarts>>

(* hid_write fails.  On a live handle the report may have got through all   *)
(* the same.  The handle is dropped either way.                             *)
WriteFails ==
    /\ pc = "write"
    /\ \/ outPkt' = outPkt
       \/ dev = "stick" /\ outPkt.sid = 0 /\ outPkt' = txBuf
    /\ CloseDevice
    /\ UNCHANGED <<present, inEp, seq, txBuf, attempt, restarts>>

\* The deadline leaves room for another attempt: the loop naps first.
WriteRetried ==
    /\ WriteFails
    /\ \E stall \in 0 .. WriteStall :
         /\ InTime(spent + stall + WriteRetryDelay)
         /\ Elapse(stall + WriteRetryDelay)
    /\ pc' = "reopen"
    /\ ok' = ok

WriteAbandoned ==
    /\ WriteFails
    /\ \E stall \in 0 .. WriteStall :
         /\ ~InTime(spent + stall + WriteRetryDelay)
         /\ Elapse(stall)
    /\ Return(FALSE)

(* reopenBefore: nothing to open, and another poll still fits or does not. *)
ReopenNap ==
    /\ pc = "reopen"
    /\ "none" \in EnsureOpen
    /\ InTime(spent + OpenPoll)
    /\ Elapse(OpenPoll)
    /\ UNCHANGED <<busVars, pc, seq, txBuf, attempt, ok, restarts>>

ReopenAbandoned ==
    /\ pc = "reopen"
    /\ "none" \in EnsureOpen
    /\ ~InTime(spent + OpenPoll)
    /\ Return(FALSE)
    /\ UNCHANGED <<busVars, seq, txBuf, attempt, spent, restarts>>

\* Mutant: one attempt too many.
ReopenDoneOnceMore ==
    /\ pc = "reopen"
    /\ attempt <= MaxWriteAttempts
    /\ attempt' = attempt + 1
    /\ dev' \in EnsureOpen \ {"none"}
    /\ pc' = "write"
    /\ UNCHANGED <<present, outPkt, inEp, inq, seq, txBuf, spent, ok, restarts>>

(* reopenBefore succeeds and the write is tried again.                     *)
ReopenDone ==
    /\ pc = "reopen"
    /\ attempt < MaxWriteAttempts
    /\ attempt' = attempt + 1
    /\ dev' \in EnsureOpen \ {"none"}
    /\ pc' = "write"
    /\ UNCHANGED <<present, outPkt, inEp, inq, seq, txBuf, spent, ok, restarts>>

(* It succeeds after the last attempt: the fresh handle is closed again.   *)
AttemptsExhausted ==
    /\ pc = "reopen"
    /\ attempt >= MaxWriteAttempts
    /\ EnsureOpen # {"none"}
    /\ CloseDevice
    /\ Return(FALSE)
    /\ UNCHANGED <<present, outPkt, inEp, seq, txBuf, attempt, spent, restarts>>

-----------------------------------------------------------------------------
(* awaitAck, one action per way out of one round of its loop.              *)
Waiting == pc = "await" /\ InTime(spent)

\* Mutants: any reply will do; ERR taken for ACK.
MatchesAnything(r) == TRUE
VerdictOfAny(r)    == TRUE

Matches(r) == r.seq = txBuf.seq
Verdict(r) == r.ack

AwaitMatch ==
    /\ Waiting
    /\ inq # <<>>
    /\ Matches(Head(inq))
    /\ Return(Verdict(Head(inq)))
    /\ inq' = Tail(inq)
    /\ UNCHANGED <<present, outPkt, inEp, dev, seq, txBuf, attempt, spent, restarts>>

AwaitDiscard ==
    /\ Waiting
    /\ inq # <<>>
    /\ ~Matches(Head(inq))
    /\ inq' = Tail(inq)
    /\ UNCHANGED <<present, outPkt, inEp, dev, transportVars>>

(* An input report of another device whose first byte happens to match.    *)
AwaitUnexpected ==
    /\ Waiting
    /\ dev = "foreign"
    /\ Return(FALSE)
    /\ UNCHANGED <<busVars, seq, txBuf, attempt, spent, restarts>>

AwaitError ==
    /\ Waiting
    /\ dev = "dead"
    /\ CloseDevice
    /\ Return(FALSE)
    /\ UNCHANGED <<present, outPkt, inEp, seq, txBuf, attempt, spent, restarts>>

AwaitTick ==
    /\ Waiting
    /\ Elapse(1)
    /\ UNCHANGED <<busVars, pc, seq, txBuf, attempt, ok, restarts>>

(* The handle stays open after a timeout.                                  *)
AwaitTimeout ==
    /\ pc = "await"
    /\ ~InTime(spent)
    /\ Return(FALSE)
    /\ UNCHANGED <<busVars, seq, txBuf, attempt, spent, restarts>>

-----------------------------------------------------------------------------
(* invalidate(): the monitor reports the device removed, between sends.    *)
Invalidate ==
    /\ pc = "idle"
    /\ dev # "none"
    /\ CloseDevice
    /\ UNCHANGED <<present, outPkt, inEp, transportVars>>

(* The daemon is stopped or crashes at any point and a new process starts: *)
(* its constructor opens the device and its sequence starts over.          *)
DaemonRestart ==
    /\ restarts < MaxRestarts
    /\ restarts' = restarts + 1
    /\ pc' = "idle"
    /\ seq' = 0
    /\ attempt' = 0
    /\ spent' = 0
    /\ ok' = FALSE
    /\ dev' \in OpenOutcomes
    /\ inq' = <<>>
    /\ UNCHANGED <<present, outPkt, inEp, txBuf>>

(* The steps of a running send().                                          *)
SendStep ==
    \/ WriteOk \/ WriteRetried \/ WriteAbandoned
    \/ ReopenNap \/ ReopenAbandoned \/ ReopenDone \/ AttemptsExhausted
    \/ AwaitMatch \/ AwaitDiscard \/ AwaitUnexpected \/ AwaitError
    \/ AwaitTick \/ AwaitTimeout
=============================================================================
