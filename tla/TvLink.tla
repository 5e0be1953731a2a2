------------------------------- MODULE TvLink -------------------------------
(***************************************************************************)
(* What ITransport::send promises the power monitors, with no USB in it.   *)
(*                                                                         *)
(* A call is refused, or runs and returns TRUE or FALSE.  Commands handed  *)
(* over may still be on their way (owed) after a call returned FALSE: they *)
(* can reach the TV late or get lost.  TRUE is a promise: the TV has been  *)
(* sent this command, and nothing else is on its way to it.                *)
(***************************************************************************)
CONSTANT Cmd

VARIABLES
    busy,   \* a call is running
    cmd,    \* the command of the last call that was not refused
    ok,     \* the last call returned TRUE
    owed,   \* commands that may still reach the TV
    tv      \* the last command the TV was sent

vars == <<busy, cmd, ok, owed, tv>>

Init ==
    /\ busy = FALSE
    /\ ok = FALSE
    /\ owed = {}

Call(c) ==
    /\ ~busy
    /\ busy' = TRUE
    /\ cmd' = c
    /\ ok' = FALSE
    /\ owed' \in SUBSET (owed \cup {c})
    /\ UNCHANGED tv

Refuse ==
    /\ ~busy
    /\ ok' = FALSE
    /\ UNCHANGED <<busy, cmd, owed, tv>>

Confirm ==
    /\ busy
    /\ tv = cmd
    /\ owed \subseteq {cmd}
    /\ busy' = FALSE
    /\ ok' = TRUE
    /\ owed' \in SUBSET owed
    /\ UNCHANGED <<cmd, tv>>

Fail ==
    /\ busy
    /\ busy' = FALSE
    /\ ok' = FALSE
    /\ owed' \in SUBSET owed
    /\ UNCHANGED <<cmd, tv>>

Reach ==
    /\ tv' \in owed
    /\ owed' \in SUBSET owed
    /\ UNCHANGED <<busy, cmd, ok>>

Lose ==
    /\ owed' \in SUBSET owed
    /\ UNCHANGED <<busy, cmd, ok, tv>>

Next == (\E c \in Cmd : Call(c)) \/ Refuse \/ Confirm \/ Fail \/ Reach \/ Lose

Spec == Init /\ [][Next]_vars

(* A confirmed command is the last thing the TV was sent, for as long as    *)
(* the caller makes no other call.                                          *)
Promise == ok => tv = cmd /\ owed \subseteq {cmd}
=============================================================================
