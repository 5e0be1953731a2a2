-------------------------------- MODULE Button --------------------------------
(***************************************************************************)
(* Button.cpp: what update() makes of one sample of the pin. Points in     *)
(* time are ages, counted up by the time that passes between two samples   *)
(* and no further than the largest threshold they are compared with.       *)
(***************************************************************************)
EXTENDS Naturals

CONSTANTS Debounce, PressMax, ConfigTime, ResetStart, ResetEnd   \* HoldTimings.h

ASSUME ButtonAssumption ==
    /\ Debounce \in Nat \ {0} /\ PressMax \in Nat /\ ConfigTime \in Nat
    /\ ResetStart \in Nat /\ ResetEnd \in Nat
    /\ Debounce < PressMax /\ PressMax < ConfigTime
    /\ ConfigTime < ResetStart /\ ResetStart < ResetEnd

VARIABLES
    lastRaw, pressed, resetFired,   \* lastRaw_, pressed_, resetFired_
    sinceEdge,                      \* millis() - lastDebounce_
    held,                           \* millis() - pressTime_, while pressed
    seenDown                        \* ghost: held when the pin was last seen low,
                                    \* as far as PressMax

buttonVars == <<lastRaw, pressed, resetFired, sinceEdge, held, seenDown>>

UpTo(n, cap) == IF n < cap THEN n ELSE cap

ButtonAges(d) ==
    /\ sinceEdge' = UpTo(sinceEdge + d, Debounce)
    /\ held' = IF pressed THEN UpTo(held + d, ResetEnd) ELSE held
    /\ UNCHANGED <<lastRaw, pressed, resetFired, seenDown>>

\* An edge starts the debounce time again, so a fresh one never settles.
Settled(raw) == raw = lastRaw /\ sinceEdge >= Debounce

Bounces(raw) ==
    /\ ~Settled(raw)
    /\ lastRaw' = raw
    /\ sinceEdge' = IF raw = lastRaw THEN sinceEdge ELSE 0
    /\ seenDown' = IF raw /\ pressed THEN UpTo(held, PressMax) ELSE seenDown
    /\ UNCHANGED <<pressed, resetFired, held>>

PressBegins(raw) ==
    /\ Settled(raw) /\ raw /\ ~pressed
    /\ pressed' = TRUE
    /\ resetFired' = FALSE
    /\ held' = 0
    /\ seenDown' = 0
    /\ UNCHANGED <<lastRaw, sinceEdge>>

StaysUp(raw) == Settled(raw) /\ ~raw /\ ~pressed /\ UNCHANGED buttonVars

\* Released(raw) and how long the press was decide the callback; held and
\* seenDown are not read again until the next press.
Released(raw) ==
    /\ Settled(raw) /\ ~raw /\ pressed
    /\ pressed' = FALSE
    /\ held' = 0
    /\ seenDown' = 0
    /\ resetFired' = FALSE
    /\ UNCHANGED <<lastRaw, sinceEdge>>

Press     == held < PressMax
Config    == ~resetFired /\ ConfigTime <= held /\ held < ResetStart
Cancelled == \/ PressMax <= held /\ held < ConfigTime
             \/ ~resetFired /\ ResetStart <= held
Spent     == resetFired /\ ConfigTime <= held    \* no callback

StaysDown(raw) ==
    /\ Settled(raw) /\ raw /\ pressed
    /\ seenDown' = UpTo(held, PressMax)
    /\ UNCHANGED <<lastRaw, pressed, sinceEdge, held>>

HoldReported == held >= PressMax
ResetDue == held >= ResetEnd /\ ~resetFired

ButtonLosesPower ==
    /\ lastRaw' = FALSE /\ pressed' = FALSE /\ resetFired' = FALSE
    /\ sinceEdge' = Debounce /\ held' = 0 /\ seenDown' = 0

ButtonInit ==
    /\ lastRaw = FALSE /\ pressed = FALSE /\ resetFired = FALSE
    /\ sinceEdge = Debounce /\ held = 0 /\ seenDown = 0

ButtonTypeOK ==
    /\ lastRaw \in BOOLEAN /\ pressed \in BOOLEAN /\ resetFired \in BOOLEAN
    /\ sinceEdge \in 0 .. Debounce
    /\ held \in 0 .. ResetEnd /\ seenDown \in 0 .. ResetEnd
=============================================================================
