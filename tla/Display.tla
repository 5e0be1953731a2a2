------------------------------- MODULE Display -------------------------------
(***************************************************************************)
(* Display.cpp: what the OLED shows and the timer that changes it. A       *)
(* screen is named for its layout; the two layouts of the status screen    *)
(* are "status" and "wifiStatus", and both show lastProfile.               *)
(***************************************************************************)
EXTENDS Naturals

CONSTANTS Tv, ScreenTime     \* the three *_TIMEOUT_MS are equal

ASSUME DisplayAssumption == ScreenTime \in Nat \ {0}

VARIABLES
    oled,          \* ok_
    oledWifi,      \* wifiActive_
    screen,        \* what is drawn
    lastProfile,   \* lastProfile_
    bar,           \* barKind_, barFilled_, barFlag_
    timer,         \* timerAction_, "none" when the timer is not active
    elapsed        \* millis() - timerStart_

displayVars == <<oled, oledWifi, screen, lastProfile, bar, timer, elapsed>>

Screen == {"dark", "status", "wifiStatus", "result", "lock",
           "holdBar", "release", "resetBar"}

NoBar == <<"None", 0, FALSE>>

DisplayAges(d) ==
    /\ elapsed' = IF timer = "none" THEN elapsed
                  ELSE IF elapsed + d < ScreenTime THEN elapsed + d ELSE ScreenTime
    /\ UNCHANGED <<oled, oledWifi, screen, lastProfile, bar, timer>>

StatusLayout(wifi) == IF wifi THEN "wifiStatus" ELSE "status"

\* Every function but setWifiActive does nothing without a display.
Absent == ~oled /\ UNCHANGED <<oled, screen, lastProfile, bar, timer, elapsed>>

Draw(layout, tv, action) ==
    \/ /\ oled
       /\ screen' = layout
       /\ lastProfile' = tv
       /\ bar' = NoBar
       /\ timer' = action
       /\ elapsed' = 0
       /\ UNCHANGED oled
    \/ Absent

\* setWifiActive(wifi), where it changes, then showStatus.
ShowStatus(tv, alwaysOn, wifi) ==
    /\ oledWifi' = wifi
    /\ Draw(StatusLayout(wifi), tv, IF alwaysOn THEN "none" ELSE "TurnOff")

\* Mutant: the bar that was overwritten still counts as drawn.
ShowResultOverBar(alwaysOn, tv) ==
    /\ oled
    /\ screen' = "result"
    /\ lastProfile' = tv
    /\ timer' = IF alwaysOn THEN "ShowStatus" ELSE "TurnOff"
    /\ elapsed' = 0
    /\ UNCHANGED <<oled, oledWifi, bar>>

\* Mutant: the result always blanks the screen when its time is over.
ShowResultThenDark(alwaysOn, tv) ==
    Draw("result", tv, "TurnOff") /\ UNCHANGED oledWifi

\* showIRConfirm; showNotConfigured differs in its words only.
ShowResult(alwaysOn, tv) ==
    /\ Draw("result", tv, IF alwaysOn THEN "ShowStatus" ELSE "TurnOff")
    /\ UNCHANGED oledWifi

ShowConfigRelease == Draw("release", lastProfile, "none") /\ UNCHANGED oledWifi

ShowWifiLockMessage == Draw("lock", lastProfile, "ShowStatus") /\ UNCHANGED oledWifi

\* showHoldBar and showResetBar: a bar that is up already is not drawn again.
ShowBar(layout, b) ==
    /\ \/ /\ oled
          /\ timer' = "none"
          /\ elapsed' = 0
          /\ bar' = b
          /\ screen' = IF bar = b THEN screen ELSE layout
          /\ UNCHANGED <<oled, lastProfile>>
       \/ Absent
    /\ UNCHANGED oledWifi

\* One block per second held, and what letting go will do.
ShowHoldBar(time, entering) == ShowBar("holdBar", <<"Hold", time, entering>>)
ShowResetBar(time) == ShowBar("resetBar", <<"Reset", time, FALSE>>)

\* update(), by what the timer says.
TimerDue == oled /\ timer # "none" /\ elapsed >= ScreenTime

Expires(action, layout) ==
    /\ TimerDue
    /\ timer = action
    /\ timer' = "none"
    /\ screen' = layout
    /\ bar' = NoBar
    /\ elapsed' = 0
    /\ UNCHANGED <<oled, oledWifi, lastProfile>>

TurnsOff == Expires("TurnOff", "dark")
StatusReturns == Expires("ShowStatus", StatusLayout(oledWifi))

\* begin(), when the display answers, and the first status screen.
DisplayStarts(tv, alwaysOn) ==
    /\ oled' = TRUE
    /\ oledWifi' = FALSE
    /\ screen' = "status"
    /\ lastProfile' = tv
    /\ bar' = NoBar
    /\ timer' = IF alwaysOn THEN "none" ELSE "TurnOff"
    /\ elapsed' = 0

DisplayLosesPower(tv) ==
    /\ oled' = FALSE /\ oledWifi' = FALSE /\ screen' = "dark" /\ lastProfile' = tv
    /\ bar' = NoBar /\ timer' = "none" /\ elapsed' = 0

DisplayInit(tv) ==
    /\ oled = FALSE /\ oledWifi = FALSE /\ screen = "dark" /\ lastProfile = tv
    /\ bar = NoBar /\ timer = "none" /\ elapsed = 0

DisplayTypeOK ==
    /\ oled \in BOOLEAN /\ oledWifi \in BOOLEAN
    /\ screen \in Screen /\ lastProfile \in Tv
    /\ timer \in {"none", "TurnOff", "ShowStatus"}
    /\ elapsed \in 0 .. ScreenTime
=============================================================================
