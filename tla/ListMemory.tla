----------------------------- MODULE ListMemory -----------------------------
(***************************************************************************)
(* What Profiles.cpp promises for the list of TVs, with no files in it: a  *)
(* memory of one list that outlives the power. A boot puts the list that   *)
(* is kept to use; a list sent by the page is put to use and then kept; a  *)
(* factory reset keeps the defaults and puts them to use. What is kept is  *)
(* replaced as a whole or lost, and lost only when the flash fails.        *)
(***************************************************************************)
CONSTANTS
    List,        \* lists that may be sent
    Defaults

VARIABLES
    mode,        \* what the memory is doing
    inUse,       \* the list the stick works with, <<>> if it has none
    kept,        \* {l} if the list l outlives the power, else {}
    sure,        \* a list is kept, and was neither lost nor misread since
    sound        \* the flash has always worked

vars == <<mode, inUse, kept, sure, sound>>

Goes(from, to) == mode = from /\ mode' = to

Init ==
    /\ mode = "off" /\ inUse = <<>>
    /\ kept = {} /\ sure = FALSE /\ sound = TRUE

\* The mount may fail, or format.
SwitchOn ==
    /\ Goes("off", "loading")
    /\ \/ UNCHANGED <<kept, sure, sound>>
       \/ sound' = FALSE /\ UNCHANGED <<kept, sure>>
       \/ sound' = FALSE /\ kept' = {} /\ sure' = FALSE
    /\ UNCHANGED inUse

\* The defaults, where there is no list to be sure of.
Install ==
    /\ Goes("loading", "loading")
    /\ ~sure
    /\ kept' = {Defaults} /\ sure' = TRUE
    /\ UNCHANGED <<inUse, sound>>

AfterLoad == Goes("loading", "loading") \/ Goes("reloading", "using")

Load ==
    /\ AfterLoad
    /\ inUse' \in kept
    /\ UNCHANGED <<kept, sure, sound>>

LoadNothing ==
    /\ AfterLoad
    /\ inUse' = <<>>
    /\ \/ kept = {} \/ ~sound
       \/ sound' = FALSE
    /\ sound' => sound
    /\ sure' => sure
    /\ UNCHANGED kept

Start ==
    /\ Goes("loading", "using")
    /\ sound => kept = {inUse}
    /\ UNCHANGED <<inUse, kept, sure, sound>>

Change ==
    /\ Goes("using", "saving")
    /\ inUse' \in List
    /\ UNCHANGED <<kept, sure, sound>>

Save ==
    /\ Goes("saving", "using")
    /\ kept' = {inUse} /\ sure' = TRUE
    /\ UNCHANGED <<inUse, sound>>

Reset ==
    /\ Goes("using", "resetting")
    /\ UNCHANGED <<inUse, kept, sure, sound>>

Restore ==
    /\ Goes("resetting", "reloading")
    /\ kept' = {Defaults} /\ sure' = TRUE
    /\ UNCHANGED <<inUse, sound>>

\* A flash that has failed keeps the old list, or loses it, or puts nothing in
\* its place.
KeepsOld ==
    /\ Goes("saving", "using") \/ Goes("resetting", "reloading")
    /\ sound' = FALSE
    /\ UNCHANGED <<inUse, kept, sure>>

KeepsNothing ==
    /\ Goes("saving", "using") \/ Goes("resetting", "reloading")
    /\ ~sound
    /\ kept' = {} /\ sure' = FALSE
    /\ UNCHANGED <<inUse, sound>>

Lose ==
    /\ mode \in {"loading", "saving", "resetting"}
    /\ ~sound
    /\ kept' = {} /\ sure' = FALSE
    /\ UNCHANGED <<mode, inUse, sound>>

Fault ==
    /\ sound' = FALSE
    /\ UNCHANGED <<mode, inUse, kept, sure>>

\* At any point, and nothing is lost but what was in use.
PowerLoss ==
    /\ mode' = "off" /\ inUse' = <<>>
    /\ UNCHANGED <<kept, sure, sound>>

Next ==
    \/ SwitchOn \/ Install \/ Load \/ LoadNothing \/ Start
    \/ Change \/ Save \/ Reset \/ Restore \/ KeepsOld \/ KeepsNothing
    \/ Lose \/ Fault \/ PowerLoss

Spec == Init /\ [][Next]_vars

(* While the flash works, the list in use is the one the next boot loads,  *)
(* whenever nothing is being saved or loaded.                              *)
InUseIsKept == mode = "using" /\ sound => kept = {inUse}
=============================================================================
