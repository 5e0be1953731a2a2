-------------------------- MODULE FirmwareUi_proofs --------------------------
(***************************************************************************)
(* Proofs about FirmwareUi and the modules it is made of: for every list   *)
(* of profiles, every threshold, stall, number of faults and power losses. *)
(***************************************************************************)
EXTENDS FirmwareUi, WellFoundedInduction, TLAPS

-----------------------------------------------------------------------------
(* The screen: a count that is not 0 stands for a lit one, and a bar that  *)
(* counts as drawn is on it.                                               *)

Lit == oled /\ pressCount # 0 => screen # "dark"

BarDrawn ==
    /\ oled /\ bar[1] = "Hold" => screen = "holdBar"
    /\ oled /\ bar[1] = "Reset" => screen = "resetBar"

ScreenInv == Lit /\ BarDrawn

LEMMA BarKinds ==
    /\ NoBar[1] = "None"
    /\ \A time, flag : <<"Hold", time, flag>>[1] = "Hold"
    /\ \A time, flag : <<"Reset", time, flag>>[1] = "Reset"
  BY DEF NoBar

LEMMA Drawn ==
    ASSUME ScreenInv, NEW layout, layout # "dark", NEW tv, NEW action,
           Draw(layout, tv, action)
    PROVE  ScreenInv'
<1> USE DEF ScreenInv, Lit, BarDrawn
<1>1. CASE Absent
  BY <1>1 DEF Absent
<1>2. CASE oled /\ screen' = layout /\ bar' = NoBar
  <2>1. bar'[1] = "None"
    BY <1>2, BarKinds
  <2> QED
    BY <1>2, <2>1
<1> QED
  BY <1>1, <1>2 DEF Draw

LEMMA StatusDrawn ==
    ASSUME ScreenInv, NEW tv, NEW alwaysOn, NEW wifi, ShowStatus(tv, alwaysOn, wifi)
    PROVE  ScreenInv'
<1>1. StatusLayout(wifi) # "dark"
  BY DEF StatusLayout
<1> QED
  BY <1>1, Drawn DEF ShowStatus

LEMMA BarStays ==
    ASSUME ScreenInv, pressCount' = 0, NEW layout, NEW b, ShowBar(layout, b),
           \/ b[1] = "Hold" /\ layout = "holdBar"
           \/ b[1] = "Reset" /\ layout = "resetBar"
    PROVE  ScreenInv' /\ (oled => screen' = layout)
<1> USE DEF ScreenInv, Lit, BarDrawn
<1>1. CASE Absent
  BY <1>1 DEF Absent
<1>2. CASE /\ oled /\ bar' = b
           /\ screen' = IF bar = b THEN screen ELSE layout
  <2>1. screen' = layout
    BY <1>2
  <2> QED
    BY <1>2, <2>1
<1> QED
  BY <1>1, <1>2 DEF ShowBar

LEMMA HoldDrawn ==
    ASSUME ScreenInv, pressCount' = 0, NEW time
    PROVE  /\ \A entering : ShowHoldBar(time, entering) =>
                  ScreenInv' /\ (oled => screen' = "holdBar")
           /\ ShowResetBar(time) => ScreenInv' /\ (oled => screen' = "resetBar")
  BY BarStays, BarKinds DEF ShowHoldBar, ShowResetBar

LEMMA HoldKept ==
    ASSUME ScreenInv, pressCount' = 0, HoldScreen
    PROVE  ScreenInv'
<1>1. CASE SameDisplay
  BY <1>1 DEF SameDisplay, displayVars, ScreenInv, Lit, BarDrawn
<1>2. CASE ShowConfigRelease
  BY <1>2, Drawn DEF ShowConfigRelease
<1> QED
  BY <1>1, <1>2, HoldDrawn DEF HoldScreen

LEMMA ScreenStep ==
    ASSUME ScreenInv, [Next]_vars
    PROVE  ScreenInv'
<1> USE DEF SameDisplay, SameUi, uiVars, displayVars
<1>1. CASE UNCHANGED <<displayVars, pressCount>>
  BY <1>1 DEF ScreenInv, Lit, BarDrawn
<1>2. CASE Turn \/ HandleClient
  BY <1>2 DEF Turn, HandleClient, DisplayAges, ScreenInv, Lit, BarDrawn
<1>3. CASE ButtonReleased
  <2>1. CASE PressLocked
    BY <2>1, Drawn DEF PressLocked, ShowWifiLockMessage
  <2>2. CASE PressCycles
    BY <1>1, <2>2 DEF PressCycles
  <2> QED
    BY <1>3, <2>1, <2>2, StatusDrawn DEF ButtonReleased, PressWakes, HoldCancelled,
       ConfigThreshold, FinishExitWifi
<1>4. CASE ButtonHeld
  BY <1>4, HoldKept DEF ButtonHeld, ButtonHold
<1>5. CASE Cycled \/ WasReset \/ WifiExits \/ Posted
  BY <1>5, StatusDrawn DEF Cycled, WasReset, WifiExits, Posted, FinishExitWifi
<1>6. CASE DisplayUpdate
  <2>1. CASE TurnsOff /\ pressCount' = 0
    BY <2>1, BarKinds DEF TurnsOff, Expires, ScreenInv, Lit, BarDrawn
  <2>2. CASE StatusReturns
    <3>1. StatusLayout(oledWifi) # "dark"
      BY DEF StatusLayout
    <3> QED
      BY <2>2, <3>1, BarKinds DEF StatusReturns, Expires, ScreenInv, Lit, BarDrawn
  <2> QED
    BY <1>1, <1>6, <2>1, <2>2 DEF DisplayUpdate
<1>7. CASE Command
  BY <1>7, Drawn DEF Command, ShowResult
<1>8. CASE Setup
  BY <1>1, <1>8, BarKinds DEF Setup, DisplayStarts, ScreenInv, Lit, BarDrawn
<1>9. CASE PowerLoss
  BY <1>9, BarKinds DEF PowerLoss, DisplayLosesPower, ScreenInv, Lit, BarDrawn
<1>10. CASE UNCHANGED vars
  BY <1>1, <1>10 DEF vars
<1>11. CASE PowerOn \/ Store \/ NothingPressed \/ Serve \/ Wiped \/ NoCommand
  BY <1>1, <1>11 DEF PowerOn, Store, NothingPressed, Serve, Unserved,
     PostFactoryReset, PostExit, PostProfiles, PostSettings, Wiped, NoCommand
<1> QED
  BY <1>2, <1>3, <1>4, <1>5, <1>6, <1>7, <1>8, <1>9, <1>10, <1>11 DEF Next, Device

LEMMA ScreenInit == Init => ScreenInv
  BY BarKinds DEF Init, DisplayInit, ScreenInv, Lit, BarDrawn

(* A press in the dark lights the screen and changes nothing: whatever has  *)
(* set the count in the meantime, the profile is changed only while the     *)
(* user can see it.                                                         *)
THEOREM NoSwitchInTheDark == Spec => NoBlindSwitch
<1>1. ScreenInv /\ [Next]_vars => [PressCycles => ~oled \/ screen # "dark"]_vars
  BY DEF ScreenInv, Lit, PressCycles
<1>2. ScreenInv /\ [Next]_vars => ScreenInv'
  BY ScreenStep
<1> QED
  BY <1>1, <1>2, ScreenInit, PTL DEF Spec, NoBlindSwitch


-----------------------------------------------------------------------------
(* The list of profiles                                                    *)

LEMMA Below ==
    ASSUME NEW i \in Nat, NEW j \in Nat, j < i
    PROVE  <<j, i>> \in OpToRel(<, Nat)
  BY DEF OpToRel

LEMMA HasLeast ==
    ASSUME NEW S \in SUBSET Nat, S # {}
    PROVE  \E i \in S : \A j \in S : i <= j
<1>1. \E i \in S : \A j \in S : ~(<<j, i>> \in OpToRel(<, Nat))
  BY NatLessThanWellFounded, WFMin, Zenon
<1>2. PICK i \in S : \A j \in S : ~(<<j, i>> \in OpToRel(<, Nat))
  BY <1>1, Zenon
<1>3. ASSUME NEW j \in S PROVE i <= j
  <2>1. ~(j < i)
    BY <1>2, <1>3, Below, Zenon
  <2> QED
    BY <2>1
<1> QED
  BY <1>3

LEMMA Remainder ==
    ASSUME NEW a \in Nat, NEW n \in Nat \ {0}
    PROVE  a % n \in Nat /\ a % n < n
  OBVIOUS

LEMMA DefaultsTyped ==
    DefaultProfiles \in Seq(Profile) /\ DefaultProfiles # <<>>
    /\ DefaultProfiles[1].tv \in Tv
<1>1. DefaultProfiles \in Seq(Profile) /\ DefaultProfiles # <<>>
  BY UiAssumption, StoreAssumption
<1>2. DefaultProfiles[1] \in Profile
  BY <1>1
<1> QED
  BY <1>1, <1>2 DEF Profile

LEMMA ClampedType ==
    ASSUME NEW s \in [active : Nat, alwaysOn : BOOLEAN], NEW n \in Nat
    PROVE  /\ Clamped(s, n) \in [active : Nat, alwaysOn : BOOLEAN]
           /\ n > 0 => Clamped(s, n).active < n
  BY DEF Clamped

LEMMA ActiveType ==
    ASSUME StoreTypeOK(Profile)
    PROVE  Active.tv \in Tv
<1>1. CASE profiles = <<>>
  BY <1>1, DefaultsTyped DEF Active
<1>2. CASE profiles # <<>>
  <2>1. profiles \in Seq(Profile) /\ Len(profiles) \in Nat /\ Len(profiles) > 0
    BY <1>2 DEF StoreTypeOK
  <2>2. Clamped(settings, Len(profiles)).active \in Nat
        /\ Clamped(settings, Len(profiles)).active < Len(profiles)
    BY <2>1, ClampedType DEF StoreTypeOK
  <2>3. profiles[Clamped(settings, Len(profiles)).active + 1] \in Profile
    BY <2>1, <2>2
  <2> QED
    BY <1>2, <2>3 DEF Active, Profile
<1> QED
  BY <1>1, <1>2

LEMMA NextVisibleType ==
    ASSUME StoreTypeOK(Profile)
    PROVE  /\ NextVisibleIndex \in Nat
           /\ settings.active < Len(profiles) => NextVisibleIndex < Len(profiles)
<1> DEFINE n == Len(profiles)
           visibleAfter == {i \in 1 .. n - 1 :
                              profiles[((settings.active + i) % n) + 1].visible}
           first == CHOOSE i \in visibleAfter : \A j \in visibleAfter : i <= j
<1>1. n \in Nat /\ settings.active \in Nat
  BY DEF StoreTypeOK
<1>2. CASE n = 0
  BY <1>1, <1>2 DEF NextVisibleIndex
<1>3. CASE n # 0 /\ visibleAfter = {}
  BY <1>1, <1>3 DEF NextVisibleIndex
<1>4. CASE n # 0 /\ visibleAfter # {}
  <2>1. visibleAfter \in SUBSET Nat
    BY <1>1
  <2>2. first \in visibleAfter
    BY <1>4, <2>1, HasLeast
  <2>3. first \in Nat
    BY <2>1, <2>2
  <2>4. NextVisibleIndex = (settings.active + first) % n
    BY <1>4 DEF NextVisibleIndex
  <2>5. settings.active + first \in Nat /\ n \in Nat \ {0}
    BY <1>1, <1>4, <2>3
  <2>6. (settings.active + first) % n \in Nat /\ (settings.active + first) % n < n
    BY <2>5, Remainder
  <2> QED
    BY <2>4, <2>6
<1> QED
  BY <1>2, <1>3, <1>4

-----------------------------------------------------------------------------
(* Types                                                                   *)

BarTypeOK == bar \in {"None", "Hold", "Reset"} \X (0 .. ResetEnd) \X BOOLEAN

UiTypeOK ==
    /\ at \in {"off", "booting", "top", "button", "cycling", "resetting", "display",
               "wifi", "serve", "posting", "wiping", "hid"}
    /\ pressCount \in {0, 1}
    /\ wifiActive \in BOOLEAN /\ apOn \in BOOLEAN
    /\ powerLosses \in 0 .. MaxPowerLosses

LEMMA Capped ==
    ASSUME NEW n \in Nat, NEW cap \in Nat
    PROVE  UpTo(n, cap) \in 0 .. cap
  BY DEF UpTo

LEMMA ButtonTyped ==
    ASSUME ButtonTypeOK, [Next]_vars
    PROVE  ButtonTypeOK'
<1> USE ButtonAssumption DEF ButtonTypeOK
<1>1. CASE UNCHANGED buttonVars
  BY <1>1 DEF buttonVars
<1>2. ASSUME NEW d \in Nat, ButtonAges(d)
      PROVE  ButtonTypeOK'
  <2>1. sinceEdge + d \in Nat /\ held + d \in Nat
    OBVIOUS
  <2>2. UpTo(sinceEdge + d, Debounce) \in 0 .. Debounce
    BY <2>1, Capped
  <2>3. UpTo(held + d, ResetEnd) \in 0 .. ResetEnd
    BY <2>1, Capped
  <2> QED
    BY <1>2, <2>2, <2>3 DEF ButtonAges
<1>3. CASE Turn \/ HandleClient
  BY <1>2, <1>3, UiAssumption DEF Turn, HandleClient
<1>4. UpTo(held, PressMax) \in 0 .. ResetEnd
  BY DEF UpTo
<1>5. ASSUME NEW raw \in BOOLEAN, UNCHANGED resetFired, Bounces(raw) \/ StaysDown(raw)
      PROVE  ButtonTypeOK'
  BY <1>4, <1>5 DEF Bounces, StaysDown, Settled
<1>6. ASSUME NEW raw \in BOOLEAN, PressBegins(raw) \/ StaysUp(raw) \/ Released(raw)
      PROVE  ButtonTypeOK'
  <2>1. lastRaw' \in BOOLEAN /\ pressed' \in BOOLEAN /\ resetFired' \in BOOLEAN
    BY <1>6, Zenon DEF PressBegins, StaysUp, Released, buttonVars
  <2>2. /\ sinceEdge' \in 0 .. Debounce
        /\ held' \in 0 .. ResetEnd /\ seenDown' \in 0 .. ResetEnd
    BY <1>6 DEF PressBegins, StaysUp, Released, buttonVars
  <2> QED
    BY <2>1, <2>2
<1>7. CASE NothingPressed
  BY <1>5, <1>6, <1>7 DEF NothingPressed, Bounces
<1>8. CASE ButtonReleased
  BY <1>6, <1>8 DEF ButtonReleased
<1>9. CASE ButtonHeld
  <2>1. CASE resetFired' = TRUE
    BY <1>4, <1>9, <2>1 DEF ButtonHeld, StaysDown
  <2>2. CASE UNCHANGED resetFired
    BY <1>5, <1>9, <2>2 DEF ButtonHeld
  <2> QED
    BY <1>9, <2>1, <2>2 DEF ButtonHeld
<1>10. CASE PowerLoss
  <2>1. lastRaw' \in BOOLEAN /\ pressed' \in BOOLEAN /\ resetFired' \in BOOLEAN
    BY <1>10, Zenon DEF PowerLoss, ButtonLosesPower
  <2>2. /\ sinceEdge' \in 0 .. Debounce
        /\ held' \in 0 .. ResetEnd /\ seenDown' \in 0 .. ResetEnd
    BY <1>10 DEF PowerLoss, ButtonLosesPower
  <2> QED
    BY <2>1, <2>2
<1>11. CASE \/ PowerOn \/ Setup \/ Store \/ Cycled \/ WasReset \/ DisplayUpdate
            \/ WifiExits \/ Serve \/ Posted \/ Wiped \/ NoCommand \/ Command
  BY <1>1, <1>11 DEF SameButton, PowerOn, Setup, Store, Cycled, WasReset, DisplayUpdate,
     WifiExits, Serve, Unserved, PostFactoryReset, PostExit, PostProfiles, PostSettings,
     Posted, Wiped, NoCommand, Command
<1>12. CASE UNCHANGED vars
  BY <1>1, <1>12 DEF vars
<1> QED
  BY <1>3, <1>7, <1>8, <1>9, <1>10, <1>11, <1>12 DEF Next, Device

LEMMA Triple ==
    ASSUME NEW A, NEW B, NEW C, NEW a \in A, NEW b \in B, NEW c \in C
    PROVE  <<a, b, c>> \in A \X B \X C
  OBVIOUS

LEMMA BarSet ==
    ASSUME NEW kind \in {"None", "Hold", "Reset"}, NEW n \in 0 .. ResetEnd,
           NEW flag \in BOOLEAN
    PROVE  <<kind, n, flag>> \in {"None", "Hold", "Reset"} \X (0 .. ResetEnd) \X BOOLEAN
  BY Triple, Zenon

LEMMA DisplayDrawn ==
    ASSUME DisplayTypeOK, BarTypeOK, NEW tv \in Tv, NEW layout \in Screen,
           NEW action \in {"none", "TurnOff", "ShowStatus"},
           Draw(layout, tv, action), oledWifi' \in BOOLEAN
    PROVE  DisplayTypeOK' /\ BarTypeOK'
<1> USE DisplayAssumption, ButtonAssumption DEF DisplayTypeOK
<1>1. NoBar \in {"None", "Hold", "Reset"} \X (0 .. ResetEnd) \X BOOLEAN
  <2>1. "None" \in {"None", "Hold", "Reset"} /\ 0 \in 0 .. ResetEnd
    OBVIOUS
  <2>2. FALSE \in BOOLEAN
    OBVIOUS
  <2> QED
    BY <2>1, <2>2, BarSet, Zenon DEF NoBar
<1>2. CASE oled
  BY <1>1, <1>2 DEF Draw, Absent, BarTypeOK
<1>3. CASE ~oled
  BY <1>3 DEF Draw, Absent, BarTypeOK
<1> QED
  BY <1>2, <1>3

LEMMA StatusTyped ==
    ASSUME DisplayTypeOK, BarTypeOK, NEW tv \in Tv, NEW alwaysOn, NEW wifi \in BOOLEAN,
           ShowStatus(tv, alwaysOn, wifi)
    PROVE  DisplayTypeOK' /\ BarTypeOK'
<1> DEFINE action == IF alwaysOn THEN "none" ELSE "TurnOff"
<1>1. action \in {"none", "TurnOff", "ShowStatus"} /\ StatusLayout(wifi) \in Screen
  BY DEF StatusLayout, Screen
<1>2. Draw(StatusLayout(wifi), tv, action) /\ oledWifi' \in BOOLEAN
  BY DEF ShowStatus
<1> QED
  BY <1>1, <1>2, DisplayDrawn

LEMMA BarTyped ==
    ASSUME DisplayTypeOK, BarTypeOK, NEW layout \in Screen,
           NEW b \in {"None", "Hold", "Reset"} \X (0 .. ResetEnd) \X BOOLEAN,
           ShowBar(layout, b)
    PROVE  DisplayTypeOK' /\ BarTypeOK'
<1> USE DisplayAssumption DEF DisplayTypeOK, BarTypeOK
<1>1. CASE oled
  BY <1>1 DEF ShowBar, Absent
<1>2. CASE ~oled
  BY <1>2 DEF ShowBar, Absent
<1> QED
  BY <1>1, <1>2

LEMMA HoldTyped ==
    ASSUME DisplayTypeOK, BarTypeOK, UiTypeOK, ButtonTypeOK, HoldScreen
    PROVE  DisplayTypeOK' /\ BarTypeOK'
<1>1. held \in 0 .. ResetEnd /\ (~wifiActive) \in BOOLEAN
  BY Zenon DEF ButtonTypeOK
<1>2. "Hold" \in {"None", "Hold", "Reset"} /\ "Reset" \in {"None", "Hold", "Reset"}
      /\ FALSE \in BOOLEAN /\ "holdBar" \in Screen /\ "resetBar" \in Screen
  BY DEF Screen
<1>3. CASE SameDisplay
  BY <1>3 DEF SameDisplay, displayVars, DisplayTypeOK, BarTypeOK
<1>4. CASE ShowResetBar(held)
  BY <1>1, <1>2, <1>4, BarSet, BarTyped, Zenon DEF ShowResetBar
<1>5. CASE ShowHoldBar(held, ~wifiActive)
  BY <1>1, <1>2, <1>5, BarSet, BarTyped, Zenon DEF ShowHoldBar
<1>6. CASE ShowConfigRelease
  <2>1. "release" \in Screen /\ lastProfile \in Tv /\ oledWifi' \in BOOLEAN
    BY <1>6 DEF ShowConfigRelease, Screen, DisplayTypeOK
  <2> QED
    BY <1>6, <2>1, DisplayDrawn DEF ShowConfigRelease
<1> QED
  BY <1>3, <1>4, <1>5, <1>6, Zenon DEF HoldScreen

LEMMA AllStatusTyped ==
    ASSUME DisplayTypeOK, BarTypeOK, StoreTypeOK(Profile),
           NEW alwaysOn, NEW wifi \in BOOLEAN, ShowStatus(Active.tv, alwaysOn, wifi)
    PROVE  DisplayTypeOK' /\ BarTypeOK'
  BY ActiveType, StatusTyped

LEMMA DisplayTyped ==
    ASSUME DisplayTypeOK, BarTypeOK, UiTypeOK, ButtonTypeOK, StoreTypeOK(Profile),
           [Next]_vars
    PROVE  DisplayTypeOK' /\ BarTypeOK'
<1> USE DisplayAssumption
<1>1. NoBar \in {"None", "Hold", "Reset"} \X (0 .. ResetEnd) \X BOOLEAN
  <2>1. "None" \in {"None", "Hold", "Reset"} /\ 0 \in 0 .. ResetEnd
    BY ButtonAssumption
  <2>2. FALSE \in BOOLEAN
    OBVIOUS
  <2> QED
    BY <2>1, <2>2, BarSet, Zenon DEF NoBar
<1>2. oledWifi \in BOOLEAN /\ TRUE \in BOOLEAN /\ FALSE \in BOOLEAN
      /\ lastProfile \in Tv /\ Active.tv \in Tv
  BY ActiveType DEF DisplayTypeOK
<1>3. CASE UNCHANGED displayVars
  BY <1>3 DEF displayVars, DisplayTypeOK, BarTypeOK
<1>4. ASSUME NEW d \in Nat, DisplayAges(d)
      PROVE  DisplayTypeOK' /\ BarTypeOK'
  BY <1>4 DEF DisplayAges, DisplayTypeOK, BarTypeOK
<1>5. CASE Turn \/ HandleClient
  BY <1>4, <1>5, UiAssumption DEF Turn, HandleClient
<1>6. CASE ButtonReleased
  <2>1. CASE PressWakes \/ HoldCancelled
    BY <1>2, <2>1, AllStatusTyped DEF PressWakes, HoldCancelled
  <2>2. CASE PressLocked
    <3>1. "lock" \in Screen /\ oledWifi' = oledWifi
      BY <2>2 DEF PressLocked, ShowWifiLockMessage, Screen
    <3> QED
      BY <1>2, <2>2, <3>1, DisplayDrawn DEF PressLocked, ShowWifiLockMessage
  <2>3. CASE PressCycles
    BY <1>3, <2>3 DEF PressCycles, SameDisplay
  <2>4. CASE ConfigThreshold
    BY <1>2, <2>4, AllStatusTyped DEF ConfigThreshold, FinishExitWifi
  <2> QED
    BY <1>6, <2>1, <2>2, <2>3, <2>4 DEF ButtonReleased
<1>7. CASE ButtonHeld
  BY <1>7, HoldTyped DEF ButtonHeld, ButtonHold
<1>8. CASE Cycled \/ WasReset \/ WifiExits \/ Posted
  BY <1>2, <1>8, AllStatusTyped DEF Cycled, WasReset, WifiExits, Posted, FinishExitWifi
<1>9. CASE DisplayUpdate
  <2>1. ASSUME NEW action, NEW layout \in Screen, Expires(action, layout)
        PROVE  DisplayTypeOK' /\ BarTypeOK'
    BY <1>1, <2>1 DEF Expires, DisplayTypeOK, BarTypeOK
  <2>2. "dark" \in Screen /\ StatusLayout(oledWifi) \in Screen
    BY DEF StatusLayout, Screen
  <2> QED
    BY <1>3, <1>9, <2>1, <2>2 DEF DisplayUpdate, TurnsOff, StatusReturns, SameDisplay
<1>10. CASE Command
  <2>1. "result" \in Screen /\ oledWifi' = oledWifi
    BY <1>10 DEF Command, ShowResult, Screen
  <2>2. (IF AlwaysOn THEN "ShowStatus" ELSE "TurnOff") \in {"none", "TurnOff", "ShowStatus"}
    OBVIOUS
  <2> QED
    BY <1>2, <1>10, <2>1, <2>2, DisplayDrawn DEF Command, ShowResult
<1>11. CASE Setup
  <2>1. CASE DisplayStarts(Active.tv, settings.alwaysOn)
    <3>1. oled' \in BOOLEAN /\ oledWifi' \in BOOLEAN
      BY <2>1, Zenon DEF DisplayStarts
    <3> QED
      BY <1>1, <1>2, <2>1, <3>1 DEF DisplayStarts, DisplayTypeOK, BarTypeOK, Screen
  <2> QED
    BY <1>3, <1>11, <2>1 DEF Setup, SameDisplay
<1>12. CASE PowerLoss
  <2>1. DisplayLosesPower(DefaultProfiles[1].tv)
    BY <1>12 DEF PowerLoss
  <2>2. oled' \in BOOLEAN /\ oledWifi' \in BOOLEAN
    BY <2>1, Zenon DEF DisplayLosesPower
  <2> QED
    BY <1>1, <2>1, <2>2, DefaultsTyped DEF DisplayLosesPower, DisplayTypeOK, BarTypeOK,
       Screen
<1>13. CASE \/ PowerOn \/ Store \/ NothingPressed \/ Serve \/ Wiped \/ NoCommand
            \/ UNCHANGED vars
  BY <1>3, <1>13 DEF vars, SameDisplay, PowerOn, Store, NothingPressed, Serve, Unserved,
     PostFactoryReset, PostExit, PostProfiles, PostSettings, Wiped, NoCommand
<1> QED
  BY <1>5, <1>6, <1>7, <1>8, <1>9, <1>10, <1>11, <1>12, <1>13 DEF Next, Device

LEMMA UiTyped ==
    ASSUME UiTypeOK, [Next]_vars
    PROVE  UiTypeOK'
<1> USE UiAssumption DEF SameUi, uiVars, UiTypeOK, At
<1>1. CASE UNCHANGED <<pressCount, wifiActive, apOn, powerLosses>>
           /\ at' \in {"off", "booting", "top", "button", "cycling", "resetting",
                     "display", "wifi", "serve", "posting", "wiping", "hid"}
  BY <1>1
<1>2. CASE \/ PowerOn \/ Setup \/ Store \/ Turn \/ NothingPressed \/ HandleClient
           \/ NoCommand \/ Command \/ Posted
  BY <1>1, <1>2 DEF PowerOn, Setup, Store, Turn, NothingPressed, HandleClient, NoCommand,
     Command, Posted
<1>3. CASE Serve \/ Wiped
  BY <1>3 DEF Wiped, Serve, Unserved, PostFactoryReset, PostExit, PostProfiles,
     PostSettings, FactoryReset
<1>4. CASE ButtonReleased
  <2>1. CASE ConfigThreshold
    <3>1. wifiActive' \in BOOLEAN /\ apOn' \in BOOLEAN
      BY <2>1, Zenon DEF ConfigThreshold, FinishExitWifi
    <3> QED
      BY <1>4, <2>1, <3>1 DEF ButtonReleased, ConfigThreshold, FinishExitWifi
  <2>2. CASE PressWakes \/ PressLocked \/ PressCycles \/ HoldCancelled
    BY <1>4, <2>2 DEF ButtonReleased, PressWakes, PressLocked, PressCycles, HoldCancelled
  <2> QED
    BY <1>4, <2>1, <2>2 DEF ButtonReleased
<1>5. CASE ButtonHeld
  BY <1>5 DEF ButtonHeld, ButtonHold, FactoryReset
<1>6. CASE Cycled \/ DisplayUpdate
  BY <1>6 DEF Cycled, DisplayUpdate, AfterDisplay
<1>7. CASE WasReset \/ WifiExits
  <2>1. wifiActive' \in BOOLEAN /\ apOn' \in BOOLEAN
    BY <1>7, Zenon DEF WasReset, WifiExits, FinishExitWifi
  <2> QED
    BY <1>7, <2>1 DEF WasReset, WifiExits, FinishExitWifi
<1>8. CASE PowerLoss
  <2>1. wifiActive' \in BOOLEAN /\ apOn' \in BOOLEAN
    BY <1>8, Zenon DEF PowerLoss
  <2> QED
    BY <1>8, <2>1 DEF PowerLoss
<1>9. CASE UNCHANGED vars
  BY <1>1, <1>9 DEF vars
<1> QED
  BY <1>2, <1>3, <1>4, <1>5, <1>6, <1>7, <1>8, <1>9 DEF Next, Device

Settings == [active : Nat, alwaysOn : BOOLEAN]

RamTypeOK == profiles \in Seq(Profile) /\ settings \in Settings

FlashTypeOK ==
    /\ mounted \in BOOLEAN /\ trusted \in BOOLEAN
    /\ DOMAIN file = File
    /\ file["profiles"] \subseteq Seq(Profile) /\ file["settings"] \subseteq Settings
    /\ torn \subseteq File

WorkTypeOK ==
    /\ short \in BOOLEAN
    /\ job \in Seq(Op)
    /\ step \in {"open", "serialize", "rename", "remove", "again"}
    /\ faults \in 0 .. MaxFaults

LEMMA StoreParts ==
    StoreTypeOK(Profile) <=> RamTypeOK /\ FlashTypeOK /\ WorkTypeOK
  BY DEF StoreTypeOK, RamTypeOK, FlashTypeOK, WorkTypeOK, Settings

LEMMA DefaultSettingsTyped == DefaultSettings \in Settings
  BY DEF DefaultSettings, Settings

LEMMA ClampedSettings ==
    ASSUME NEW s \in Settings, NEW n \in Nat
    PROVE  Clamped(s, n) \in Settings /\ (n > 0 => Clamped(s, n).active < n)
  BY ClampedType DEF Settings

LEMMA ReturnsTyped ==
    ASSUME WorkTypeOK, job # <<>>, Returns, faults' \in 0 .. MaxFaults
    PROVE  WorkTypeOK'
<1>1. short' \in BOOLEAN
  BY Zenon DEF Returns
<1>2. job' \in Seq(Op)
  BY DEF Returns, WorkTypeOK
<1> QED
  BY <1>1, <1>2 DEF Returns, WorkTypeOK

LEMMA FailsTyped ==
    ASSUME WorkTypeOK, Fails
    PROVE  faults' \in 0 .. MaxFaults
  BY StoreAssumption DEF WorkTypeOK, Fails

LEMMA FileTyped ==
    ASSUME FlashTypeOK, NEW f \in File, NEW content,
           f = "profiles" => content \subseteq Seq(Profile),
           f = "settings" => content \subseteq Settings
    PROVE  LET new == [file EXCEPT ![f] = content]
           IN  /\ DOMAIN new = File
               /\ new["profiles"] \subseteq Seq(Profile)
               /\ new["settings"] \subseteq Settings
  BY DEF FlashTypeOK, File

LEMMA DocumentTyped ==
    ASSUME RamTypeOK, NEW op \in Writes
    PROVE  /\ FileOf(op) \in File
           /\ FileOf(op) = "profiles" => Document(op) \in Seq(Profile)
           /\ FileOf(op) = "settings" => Document(op) \in Settings
<1>1. CASE op = "saveProfiles"
  BY <1>1 DEF FileOf, Document, File, RamTypeOK
<1>2. CASE op = "defaultProfiles"
  BY <1>2, DefaultsTyped DEF FileOf, Document, File
<1>3. CASE op = "saveSettings"
  BY <1>3 DEF FileOf, Document, File, RamTypeOK
<1>4. CASE op = "defaultSettings"
  BY <1>4, DefaultSettingsTyped DEF FileOf, Document, File
<1> QED
  BY <1>1, <1>2, <1>3, <1>4 DEF Writes

LEMMA RenamedTyped ==
    ASSUME RamTypeOK, FlashTypeOK, WorkTypeOK, job # <<>>, Head(job) \in Writes, Renamed
    PROVE  RamTypeOK' /\ FlashTypeOK' /\ WorkTypeOK'
<1> DEFINE op == Head(job)
           content == IF short THEN {} ELSE {Document(op)}
<1>1. /\ FileOf(op) \in File
      /\ FileOf(op) = "profiles" => content \subseteq Seq(Profile)
      /\ FileOf(op) = "settings" => content \subseteq Settings
  BY DocumentTyped
<1>2. /\ DOMAIN file' = File
      /\ file'["profiles"] \subseteq Seq(Profile) /\ file'["settings"] \subseteq Settings
  <2>1. file' = [file EXCEPT ![FileOf(op)] = content]
    BY DEF Renamed
  <2> HIDE DEF content
  <2> QED
    BY <1>1, <2>1, FileTyped
<1>3. torn' \subseteq File
  BY <1>1 DEF Renamed, FlashTypeOK
<1>4. mounted' \in BOOLEAN
  BY DEF Renamed, FlashTypeOK
<1>5. trusted' \in BOOLEAN
  <2>1. trusted' = ~short \/ UNCHANGED trusted
    BY DEF Renamed
  <2> QED
    BY <2>1, Zenon DEF WorkTypeOK, FlashTypeOK
<1>6. RamTypeOK'
  BY DEF Renamed, ramVars, RamTypeOK
<1>7. WorkTypeOK'
  <2>1. Returns /\ faults' \in 0 .. MaxFaults
    BY DEF Renamed, WorkTypeOK
  <2> QED
    BY <2>1, ReturnsTyped
<1> QED
  BY <1>2, <1>3, <1>4, <1>5, <1>6, <1>7 DEF FlashTypeOK

LEMMA LoadTyped ==
    ASSUME RamTypeOK, FlashTypeOK, WorkTypeOK, LoadProfiles \/ LoadSettings
    PROVE  RamTypeOK' /\ FlashTypeOK' /\ WorkTypeOK'
<1>1. WorkTypeOK'
  <2>1. faults' \in 0 .. MaxFaults
    BY FailsTyped DEF LoadProfiles, LoadSettings, WorkTypeOK
  <2>2. job # <<>> /\ Returns
    BY DEF LoadProfiles, LoadSettings, Doing
  <2> QED
    BY <2>1, <2>2, ReturnsTyped
<1>2. trusted' \in BOOLEAN
  <2>1. UNCHANGED trusted \/ trusted' = FALSE
    BY DEF LoadProfiles, LoadSettings
  <2> QED
    BY <2>1, Zenon DEF FlashTypeOK
<1>3. FlashTypeOK'
  BY <1>2 DEF LoadProfiles, LoadSettings, flashVars, FlashTypeOK
<1>4. CASE LoadProfiles
  <2>1. ASSUME NEW list \in file["profiles"]
        PROVE  SubSeq(list, 1, IF Len(list) < MaxProfiles THEN Len(list) ELSE MaxProfiles)
                   \in Seq(Profile)
    <3>1. list \in Seq(Profile) /\ Len(list) \in Nat
      BY <2>1 DEF FlashTypeOK
    <3>2. (IF Len(list) < MaxProfiles THEN Len(list) ELSE MaxProfiles) \in 0 .. Len(list)
      BY <3>1, StoreAssumption
    <3> QED
      BY <3>1, <3>2
  <2>2. <<>> \in Seq(Profile)
    OBVIOUS
  <2>3. profiles' \in Seq(Profile)
    BY <1>4, <2>1, <2>2 DEF LoadProfiles
  <2> QED
    BY <1>3, <1>4, <1>1, <2>3 DEF LoadProfiles, RamTypeOK
<1>5. CASE LoadSettings
  <2>1. Len(profiles) \in Nat
    BY DEF RamTypeOK
  <2>2. settings' \in Settings
    BY <1>5, <2>1, ClampedSettings, DefaultSettingsTyped DEF LoadSettings, FlashTypeOK
  <2> QED
    BY <1>3, <1>5, <1>1, <2>2 DEF LoadSettings, RamTypeOK
<1> QED
  BY <1>4, <1>5

LEMMA WriteTyped ==
    ASSUME RamTypeOK, FlashTypeOK, WorkTypeOK,
           \/ OpenTmp \/ OpenTmpFails \/ Serialize \/ CloseFails \/ ShortWrite
           \/ Rename \/ RenameFails \/ RemoveTarget \/ RenameAgain \/ RenameAgainFails
    PROVE  RamTypeOK' /\ FlashTypeOK' /\ WorkTypeOK'
<1> USE DEF ramVars, flashVars, Writing
<1>1. ASSUME job # <<>>, UNCHANGED <<ramVars, flashVars, trusted>>,
             \/ Returns
             \/ /\ UNCHANGED job /\ short' \in BOOLEAN
                /\ step' \in {"open", "serialize", "rename", "remove", "again"},
             Fails \/ UNCHANGED faults
      PROVE  RamTypeOK' /\ FlashTypeOK' /\ WorkTypeOK'
  <2>1. RamTypeOK' /\ FlashTypeOK'
    BY <1>1 DEF RamTypeOK, FlashTypeOK
  <2>2. faults' \in 0 .. MaxFaults
    BY <1>1, FailsTyped DEF WorkTypeOK
  <2>3. WorkTypeOK'
    BY <1>1, <2>2, ReturnsTyped DEF WorkTypeOK
  <2> QED
    BY <2>1, <2>3
<1>2. CASE OpenTmp \/ Serialize \/ CloseFails \/ RenameFails
  <2>1. short' \in BOOLEAN
    <3>1. UNCHANGED short \/ short' = TRUE
      BY <1>2 DEF OpenTmp, Serialize, CloseFails, RenameFails
    <3> QED
      BY <3>1, Zenon DEF WorkTypeOK
  <2> QED
    BY <1>1, <1>2, <2>1 DEF OpenTmp, Serialize, CloseFails, RenameFails
<1>3. CASE OpenTmpFails \/ ShortWrite \/ RenameAgainFails
  BY <1>1, <1>3 DEF OpenTmpFails, ShortWrite, RenameAgainFails
<1>4. CASE Rename \/ RenameAgain
  BY <1>4, RenamedTyped DEF Rename, RenameAgain
<1>5. CASE RemoveTarget
  <2>1. FileOf(Head(job)) \in File
    BY DEF FileOf, File
  <2>2. WorkTypeOK' /\ RamTypeOK'
    BY <1>5 DEF RemoveTarget, WorkTypeOK, RamTypeOK
  <2>3. trusted' \in BOOLEAN
    <3>1. UNCHANGED trusted \/ trusted' = (trusted /\ FileOf(Head(job)) # "profiles")
      BY <1>5 DEF RemoveTarget
    <3> QED
      BY <3>1, Zenon DEF FlashTypeOK
  <2>4. /\ DOMAIN file' = File
        /\ file'["profiles"] \subseteq Seq(Profile) /\ file'["settings"] \subseteq Settings
    <3>1. UNCHANGED file \/ file' = [file EXCEPT ![FileOf(Head(job))] = {}]
      BY <1>5 DEF RemoveTarget
    <3> QED
      BY <2>1, <3>1, FileTyped DEF FlashTypeOK
  <2>5. torn' \subseteq File /\ mounted' \in BOOLEAN
    BY <1>5 DEF RemoveTarget, FlashTypeOK
  <2> QED
    BY <2>2, <2>3, <2>4, <2>5 DEF FlashTypeOK
<1> QED
  BY <1>2, <1>3, <1>4, <1>5

LEMMA RestoreTyped ==
    ASSUME RamTypeOK, FlashTypeOK, WorkTypeOK, RestoreDefaults
    PROVE  RamTypeOK' /\ FlashTypeOK' /\ WorkTypeOK'
<1>1. <<"defaultProfiles", "loadProfiles">> \in Seq(Op) /\ <<>> \in Seq(Op)
  BY DEF Op, Writes
<1>2. Tail(job) \in Seq(Op)
  BY DEF RestoreDefaults, Doing, WorkTypeOK
<1>3. job' \in Seq(Op)
  BY <1>1, <1>2 DEF RestoreDefaults
<1> QED
  BY <1>3 DEF RestoreDefaults, ramVars, flashVars, RamTypeOK, FlashTypeOK, WorkTypeOK

LEMMA BeginOpsTyped ==
    ASSUME NEW exist
    PROVE  BeginOps(exist) \in Seq(Op)
<1> DEFINE first == IF "profiles" \in exist THEN <<>> ELSE <<"defaultProfiles">>
           second == IF "settings" \in exist THEN <<>> ELSE <<"defaultSettings">>
           last == <<"loadProfiles", "restoreDefaults", "loadSettings">>
<1>0. <<"defaultProfiles">> \in Seq(Op) /\ <<"defaultSettings">> \in Seq(Op)
      /\ <<>> \in Seq(Op)
  BY DEF Op, Writes
<1>1. first \in Seq(Op)
  BY <1>0
<1>2. second \in Seq(Op)
  BY <1>0
<1>3. last \in Seq(Op)
  BY DEF Op, Writes
<1>4. BeginOps(exist) = first \o second \o last
  BY DEF BeginOps
<1> HIDE DEF first, second, last
<1> QED
  BY <1>1, <1>2, <1>3, <1>4

LEMMA BeginTyped ==
    ASSUME RamTypeOK, FlashTypeOK, WorkTypeOK, Begin
    PROVE  RamTypeOK' /\ FlashTypeOK' /\ WorkTypeOK'
<1>1. RamTypeOK'
  BY DEF Begin, ramVars, RamTypeOK
<1>2. faults' \in 0 .. MaxFaults
  BY FailsTyped DEF Begin, WorkTypeOK
<1>3. job' \in Seq(Op)
  BY BeginOpsTyped DEF Begin, WorkTypeOK
<1>4. WorkTypeOK'
  BY <1>2, <1>3 DEF Begin, WorkTypeOK
<1>5. mounted' \in BOOLEAN
  BY Zenon DEF Begin
<1>6. trusted' \in BOOLEAN
  <2>1. UNCHANGED trusted \/ trusted' = FALSE
    BY DEF Begin
  <2> QED
    BY <2>1, Zenon DEF FlashTypeOK
<1>7. /\ DOMAIN file' = File
      /\ file'["profiles"] \subseteq Seq(Profile) /\ file'["settings"] \subseteq Settings
      /\ torn' \subseteq File
  <2>1. CASE UNCHANGED <<file, torn>>
    BY <2>1 DEF FlashTypeOK
  <2>2. CASE file' = [f \in File |-> {}] /\ torn' = {}
    BY <2>2 DEF File
  <2> QED
    BY <2>1, <2>2 DEF Begin
<1> QED
  BY <1>1, <1>4, <1>5, <1>6, <1>7 DEF FlashTypeOK

LEMMA EmptyStore ==
    ASSUME profiles' = <<>>, settings' = DefaultSettings, job' = <<>>, step' = "open",
           short' = FALSE
    PROVE  RamTypeOK' /\ (faults' \in 0 .. MaxFaults => WorkTypeOK')
<1>1. short' \in BOOLEAN
  BY Zenon
<1> QED
  BY <1>1, DefaultSettingsTyped DEF RamTypeOK, WorkTypeOK

LEMMA StoreTyped ==
    ASSUME StoreTypeOK(Profile), [Next]_vars
    PROVE  StoreTypeOK(Profile)'
<1> USE DEF SameStore, storeVars
<1> SUFFICES RamTypeOK' /\ FlashTypeOK' /\ WorkTypeOK'
  BY DEF StoreTypeOK, RamTypeOK, FlashTypeOK, WorkTypeOK, Settings
<1>1. RamTypeOK /\ FlashTypeOK /\ WorkTypeOK
  BY StoreParts
<1>2. CASE UNCHANGED storeVars
  BY <1>1, <1>2 DEF ramVars, flashVars, workVars, RamTypeOK, FlashTypeOK, WorkTypeOK
<1>3. ASSUME NEW ops \in Seq(Op), Queue(ops), RamTypeOK'
      PROVE  RamTypeOK' /\ FlashTypeOK' /\ WorkTypeOK'
  BY <1>1, <1>3 DEF Queue, flashVars, FlashTypeOK, WorkTypeOK
<1>4. FactoryResetOps \in Seq(Op)
  BY DEF FactoryResetOps, Op, Writes
<1>5. CASE Store
  BY <1>1, <1>5, WriteTyped, LoadTyped, RestoreTyped DEF Store, StoreStep
<1>6. CASE ButtonReleased
  <2>1. CASE PressCycles
    <3>1. RamTypeOK'
      <4>1. NextVisibleIndex \in Nat
        BY NextVisibleType
      <4> QED
        BY <1>1, <2>1, <4>1 DEF PressCycles, RamTypeOK, Settings
    <3>2. <<"saveSettings">> \in Seq(Op)
      BY DEF Op, Writes
    <3> QED
      BY <1>3, <2>1, <3>1, <3>2 DEF PressCycles
  <2>2. CASE PressWakes \/ PressLocked \/ HoldCancelled \/ ConfigThreshold
    BY <1>2, <2>2 DEF PressWakes, PressLocked, HoldCancelled, ConfigThreshold
  <2> QED
    BY <1>6, <2>1, <2>2 DEF ButtonReleased
<1>7. ASSUME NEW next, FactoryReset(next)
      PROVE  RamTypeOK' /\ FlashTypeOK' /\ WorkTypeOK'
  <2>1. RamTypeOK'
    BY <1>1, <1>7 DEF FactoryReset, ramVars, RamTypeOK
  <2> QED
    BY <1>3, <1>4, <1>7, <2>1 DEF FactoryReset
<1>8. CASE ButtonHeld
  BY <1>2, <1>7, <1>8 DEF ButtonHeld
<1>9. CASE Serve
  <2>1. ASSUME NEW list \in Uploads, PostProfiles(list)
        PROVE  RamTypeOK' /\ FlashTypeOK' /\ WorkTypeOK'
    <3>1. list \in Seq(Profile) /\ Len(list) \in Nat
      BY <2>1, UiAssumption
    <3>2. RamTypeOK'
      BY <1>1, <2>1, <3>1, ClampedSettings DEF PostProfiles, ReplaceAll, RamTypeOK
    <3>3. <<"saveProfiles", "saveSettings">> \in Seq(Op)
      BY DEF Op, Writes
    <3> QED
      BY <1>3, <2>1, <3>2, <3>3 DEF PostProfiles
  <2>2. ASSUME NEW index \in 0 .. MaxProfiles, NEW alwaysOn \in BOOLEAN,
               PostSettings(index, alwaysOn)
        PROVE  RamTypeOK' /\ FlashTypeOK' /\ WorkTypeOK'
    <3>1. (IF index < Len(profiles) THEN index ELSE settings.active) \in Nat
      BY <1>1, StoreAssumption DEF RamTypeOK, Settings
    <3>2. settings' \in Settings
      BY <2>2, <3>1 DEF PostSettings, Settings
    <3>3. RamTypeOK' /\ <<"saveSettings">> \in Seq(Op)
      BY <1>1, <2>2, <3>2 DEF PostSettings, RamTypeOK, Op, Writes
    <3> QED
      BY <1>3, <2>2, <3>3 DEF PostSettings
  <2>3. CASE Unserved \/ PostExit
    BY <1>2, <2>3 DEF Unserved, PostExit
  <2>4. CASE PostFactoryReset
    BY <1>7, <2>4 DEF PostFactoryReset
  <2> QED
    BY <1>9, <2>1, <2>2, <2>3, <2>4 DEF Serve
<1>10. CASE PowerOn
  BY <1>1, <1>10, BeginTyped DEF PowerOn
<1>11. CASE PowerLoss
  <2>1. StoreLosesPower
    BY <1>11 DEF PowerLoss
  <2>2. RamTypeOK' /\ WorkTypeOK'
    BY <1>1, <2>1, EmptyStore DEF StoreLosesPower, WorkTypeOK
  <2>3. mounted' \in BOOLEAN
    BY <2>1, Zenon DEF StoreLosesPower
  <2> QED
    BY <1>1, <2>1, <2>2, <2>3 DEF StoreLosesPower, FlashTypeOK
<1>12. CASE \/ Setup \/ Turn \/ NothingPressed \/ Cycled \/ WasReset \/ DisplayUpdate
            \/ WifiExits \/ HandleClient \/ Posted \/ Wiped \/ NoCommand \/ Command
            \/ UNCHANGED vars
  BY <1>2, <1>12 DEF vars, Setup, Turn, NothingPressed, Cycled, WasReset, DisplayUpdate,
     WifiExits, HandleClient, Posted, Wiped, NoCommand, Command
<1> QED
  BY <1>5, <1>6, <1>8, <1>9, <1>10, <1>11, <1>12 DEF Next, Device

LEMMA TypesInit == Init => TypeOK
<1> SUFFICES ASSUME Init PROVE TypeOK
  OBVIOUS
<1>1. RamTypeOK /\ WorkTypeOK
  <2>1. short \in BOOLEAN /\ faults \in 0 .. MaxFaults
    <3>1. short \in BOOLEAN
      BY Zenon DEF Init, StoreInit
    <3> QED
      BY <3>1, StoreAssumption DEF Init, StoreInit
  <2> QED
    BY <2>1, DefaultSettingsTyped DEF Init, StoreInit, RamTypeOK, WorkTypeOK
<1>2. FlashTypeOK
  <2>1. mounted \in BOOLEAN /\ trusted \in BOOLEAN
    BY Zenon DEF Init, StoreInit
  <2> QED
    BY <2>1 DEF Init, StoreInit, FlashTypeOK, File
<1>3. ButtonTypeOK
  <2>1. lastRaw \in BOOLEAN /\ pressed \in BOOLEAN /\ resetFired \in BOOLEAN
    BY Zenon DEF Init, ButtonInit
  <2> QED
    BY <2>1, ButtonAssumption DEF Init, ButtonInit, ButtonTypeOK
<1>4. DisplayTypeOK /\ BarTypeOK
  <2>1. oled \in BOOLEAN /\ oledWifi \in BOOLEAN
    BY Zenon DEF Init, DisplayInit
  <2>2. "None" \in {"None", "Hold", "Reset"} /\ 0 \in 0 .. ResetEnd
    BY ButtonAssumption
  <2>3. FALSE \in BOOLEAN
    OBVIOUS
  <2>4. BarTypeOK
    BY <2>2, <2>3, BarSet, Zenon DEF Init, DisplayInit, NoBar, BarTypeOK
  <2> QED
    BY <2>1, <2>4, DisplayAssumption, DefaultsTyped DEF Init, DisplayInit, DisplayTypeOK,
       Screen
<1>5. UiTypeOK
  <2>1. wifiActive \in BOOLEAN /\ apOn \in BOOLEAN
    BY Zenon DEF Init
  <2> QED
    BY <2>1, UiAssumption DEF Init, UiTypeOK
<1> QED
  BY <1>1, <1>2, <1>3, <1>4, <1>5, StoreParts DEF TypeOK, BarTypeOK, UiTypeOK

(* Whatever the order of presses, requests, faults and power losses: the   *)
(* index, the held time and the bar stay in their ranges, a file holds one *)
(* document of its kind or none, and the count is 0 or 1 between steps.    *)
THEOREM TypeCorrect == Spec => []TypeOK
<1>1. TypeOK /\ [Next]_vars => TypeOK'
  <2> SUFFICES ASSUME TypeOK, [Next]_vars PROVE TypeOK'
    OBVIOUS
  <2>1. StoreTypeOK(Profile) /\ ButtonTypeOK /\ DisplayTypeOK /\ BarTypeOK /\ UiTypeOK
    BY DEF TypeOK, BarTypeOK, UiTypeOK
  <2>2. StoreTypeOK(Profile)' /\ ButtonTypeOK' /\ DisplayTypeOK' /\ BarTypeOK' /\ UiTypeOK'
    BY <2>1, StoreTyped, ButtonTyped, DisplayTyped, UiTyped
  <2> QED
    BY <2>2 DEF TypeOK, BarTypeOK, UiTypeOK
<1> QED
  BY <1>1, TypesInit, PTL DEF Spec

-----------------------------------------------------------------------------
(* The hold screens                                                        *)

LEMMA HoldScreenShown ==
    ASSUME ScreenInv, ButtonTypeOK, ButtonHeld, oled, held < ResetEnd
    PROVE  screen' = IF held >= ResetStart THEN "resetBar"
                     ELSE IF held >= ConfigTime THEN "release" ELSE "holdBar"
<1>1. pressCount' = 0 /\ HoldScreen
  BY DEF ButtonHeld, ButtonHold
<1>2. held \in Nat
  BY ButtonAssumption DEF ButtonTypeOK
<1>3. CASE held >= ResetStart
  <2>1. ShowResetBar(held)
    BY <1>1, <1>2, <1>3, ButtonAssumption DEF HoldScreen
  <2> QED
    BY <1>1, <1>3, <2>1, HoldDrawn
<1>4. CASE held < ResetStart /\ held >= ConfigTime
  <2>1. ShowConfigRelease
    BY <1>1, <1>2, <1>4, ButtonAssumption DEF HoldScreen
  <2>2. ~(held >= ResetStart)
    BY <1>2, <1>4, ButtonAssumption
  <2> QED
    BY <1>4, <2>1, <2>2 DEF ShowConfigRelease, Draw, Absent
<1>5. CASE held < ConfigTime
  <2>1. ShowHoldBar(held, ~wifiActive) /\ ~(held >= ResetStart) /\ ~(held >= ConfigTime)
    BY <1>1, <1>2, <1>5, ButtonAssumption DEF HoldScreen
  <2> QED
    BY <1>1, <2>1, HoldDrawn
<1> QED
  BY <1>2, <1>3, <1>4, <1>5, ButtonAssumption

(* A bar that is up is not drawn again, yet what is on the screen while    *)
(* the button is held is always what letting go will do: everything drawn  *)
(* over a bar clears the record of it.                                     *)
THEOREM HoldShown == Spec => HoldIsShown
<1>1. ScreenInv /\ TypeOK /\ [Next]_vars =>
        [ButtonHeld /\ oled /\ held < ResetEnd =>
           screen' = IF held >= ResetStart THEN "resetBar"
                     ELSE IF held >= ConfigTime THEN "release" ELSE "holdBar"]_vars
  BY HoldScreenShown DEF TypeOK
<1>2. ScreenInv /\ [Next]_vars => ScreenInv'
  BY ScreenStep
<1> QED
  BY <1>1, <1>2, ScreenInit, TypeCorrect, PTL DEF Spec, HoldIsShown

-----------------------------------------------------------------------------
(* The active index: out of the list it is only while a load of the        *)
(* settings, which clamps it, is still to come.                            *)

InRange == profiles # <<>> => settings.active < Len(profiles)

LastLoads == job # <<>> /\ job[Len(job)] = "loadSettings"

JobShape ==
    \A i \in 1 .. Len(job) :
        job[i] \in {"loadProfiles", "restoreDefaults", "defaultSettings"} => LastLoads

Idle ==
    at \in {"off", "top", "button", "display", "wifi", "serve", "hid"} => job = <<>>

RangeInv == Idle /\ JobShape /\ (InRange \/ LastLoads)

LEMMA TailShape ==
    ASSUME job \in Seq(Op), job # <<>>, JobShape, job' = Tail(job)
    PROVE  JobShape' /\ (LastLoads /\ Head(job) # "loadSettings" => LastLoads')
<1>1. Len(job) \in Nat \ {0} /\ Len(Tail(job)) = Len(job) - 1 /\ Tail(job) \in Seq(Op)
  OBVIOUS
<1>2. \A i \in 1 .. Len(Tail(job)) : Tail(job)[i] = job[i + 1] /\ i + 1 \in 1 .. Len(job)
  BY <1>1
<1>3. Head(job) = job[1]
  OBVIOUS
<1>4. ASSUME LastLoads, Len(job) # 1 PROVE LastLoads'
  <2>1. Tail(job) # <<>> /\ Tail(job)[Len(Tail(job))] = job[Len(job)]
    <3>1. Len(Tail(job)) \in 1 .. Len(Tail(job)) /\ Len(Tail(job)) + 1 = Len(job)
      BY <1>1, <1>4
    <3>2. Tail(job)[Len(Tail(job))] = job[Len(job)]
      BY <1>2, <3>1
    <3>3. Tail(job) # <<>>
      BY <1>1, <1>4
    <3> QED
      BY <3>2, <3>3
  <2> QED
    BY <1>4, <2>1 DEF LastLoads
<1>5. JobShape'
  <2> SUFFICES ASSUME NEW i \in 1 .. Len(job'),
                      job'[i] \in {"loadProfiles", "restoreDefaults", "defaultSettings"}
               PROVE  LastLoads'
    BY DEF JobShape
  <2>1. /\ job[i + 1] \in {"loadProfiles", "restoreDefaults", "defaultSettings"}
        /\ i + 1 \in 1 .. Len(job)
    BY <1>2
  <2>2. LastLoads /\ Len(job) # 1
    BY <1>1, <2>1 DEF JobShape
  <2> QED
    BY <1>4, <2>2
<1>6. LastLoads /\ Head(job) # "loadSettings" => Len(job) # 1
  BY <1>3 DEF LastLoads
<1> QED
  BY <1>4, <1>5, <1>6

LEMMA QueueShape ==
    /\ LastLoads' => JobShape'
    /\ job' = <<>> => JobShape'
    /\ job' = <<"saveSettings">> => JobShape'
    /\ job' = <<"saveProfiles", "saveSettings">> => JobShape'
    /\ job' = FactoryResetOps => LastLoads'
<1>1. LastLoads' => JobShape'
  BY DEF JobShape
<1>2. job' = <<>> => JobShape'
  BY DEF JobShape
<1>3. job' = <<"saveSettings">> => JobShape'
  <2> SUFFICES ASSUME job' = <<"saveSettings">> PROVE JobShape'
    OBVIOUS
  <2>1. Len(job') = 1 /\ job'[1] = "saveSettings"
    OBVIOUS
  <2> QED
    BY <2>1 DEF JobShape
<1>4. job' = <<"saveProfiles", "saveSettings">> => JobShape'
  <2> SUFFICES ASSUME job' = <<"saveProfiles", "saveSettings">> PROVE JobShape'
    OBVIOUS
  <2>1. Len(job') = 2 /\ job'[1] = "saveProfiles" /\ job'[2] = "saveSettings"
    OBVIOUS
  <2>2. \A i \in 1 .. Len(job') : i = 1 \/ i = 2
    BY <2>1
  <2> QED
    BY <2>1, <2>2 DEF JobShape
<1>5. job' = FactoryResetOps => LastLoads'
  <2> SUFFICES ASSUME job' = FactoryResetOps PROVE LastLoads'
    OBVIOUS
  <2>1. Len(FactoryResetOps) = 4 /\ FactoryResetOps[4] = "loadSettings"
        /\ FactoryResetOps # <<>>
    BY DEF FactoryResetOps
  <2> QED
    BY <2>1 DEF LastLoads
<1> QED
  BY <1>1, <1>2, <1>3, <1>4, <1>5

LEMMA LoadsAfter ==
    ASSUME NEW front \in Seq(Op), NEW back \in Seq(Op),
           back # <<>>, back[Len(back)] = "loadSettings", job' = front \o back
    PROVE  LastLoads'
  BY DEF LastLoads

LEMMA BeginShape ==
    ASSUME NEW exist, job' = BeginOps(exist)
    PROVE  LastLoads'
<1> DEFINE first == IF "profiles" \in exist THEN <<>> ELSE <<"defaultProfiles">>
           second == IF "settings" \in exist THEN <<>> ELSE <<"defaultSettings">>
           last == <<"loadProfiles", "restoreDefaults", "loadSettings">>
<1>1. <<"defaultProfiles">> \in Seq(Op) /\ <<"defaultSettings">> \in Seq(Op)
      /\ <<>> \in Seq(Op)
  BY DEF Op, Writes
<1>2. first \in Seq(Op) /\ second \in Seq(Op)
  BY <1>1
<1>3. last \in Seq(Op) /\ last # <<>> /\ last[Len(last)] = "loadSettings"
  BY DEF Op, Writes
<1>4. job' = (first \o second) \o last
  BY DEF BeginOps
<1> HIDE DEF first, second, last
<1>5. first \o second \in Seq(Op)
  BY <1>2
<1> QED
  BY <1>3, <1>4, <1>5, LoadsAfter

LEMMA StoreRange ==
    ASSUME RamTypeOK, FlashTypeOK, WorkTypeOK, RangeInv, Store
    PROVE  RangeInv'
<1> USE DEF Writing, Doing
<1>1. job \in Seq(Op) /\ UNCHANGED at
  BY DEF WorkTypeOK, Store
<1>2. job # <<>>
  BY DEF Store, StoreStep, OpenTmp, OpenTmpFails, Serialize, CloseFails,
     ShortWrite, Rename, RenameFails, RemoveTarget, RenameAgain,
     RenameAgainFails, LoadProfiles, LoadSettings, RestoreDefaults
<1>3. Idle'
  BY <1>1, <1>2 DEF RangeInv, Idle
<1>4. CASE UNCHANGED ramVars /\ UNCHANGED job
  BY <1>3, <1>4 DEF RangeInv, JobShape, LastLoads, InRange, ramVars
<1>5. CASE UNCHANGED ramVars /\ job' = Tail(job) /\ Head(job) \in Writes
  <2>1. Head(job) # "loadSettings"
    BY <1>5 DEF Writes
  <2>2. JobShape' /\ (LastLoads => LastLoads')
    BY <1>1, <1>2, <1>5, <2>1, TailShape DEF RangeInv
  <2> QED
    BY <1>3, <1>5, <2>2 DEF RangeInv, InRange, ramVars
<1>6. CASE OpenTmp \/ Serialize \/ CloseFails \/ RenameFails \/ RemoveTarget
  BY <1>4, <1>6 DEF OpenTmp, Serialize, CloseFails, RenameFails, RemoveTarget
<1>7. CASE \/ OpenTmpFails \/ ShortWrite \/ RenameAgainFails
           \/ Rename \/ RenameAgain
  BY <1>5, <1>7 DEF OpenTmpFails, ShortWrite, RenameAgainFails, Rename, RenameAgain,
     Renamed, Returns
<1>8. CASE LoadProfiles
  <2>1. Head(job) = "loadProfiles" /\ job' = Tail(job) /\ job[1] = "loadProfiles"
    BY <1>1, <1>8 DEF LoadProfiles, Returns
  <2>2. LastLoads
    BY <1>1, <1>2, <2>1 DEF RangeInv, JobShape
  <2> QED
    BY <1>1, <1>2, <1>3, <2>1, <2>2, TailShape DEF RangeInv
<1>9. CASE LoadSettings
  <2>1. JobShape'
    BY <1>1, <1>2, <1>9, TailShape DEF RangeInv, LoadSettings, Returns
  <2>2. Len(profiles) \in Nat /\ (profiles # <<>> => Len(profiles) > 0)
        /\ UNCHANGED profiles
    BY <1>9 DEF RamTypeOK, LoadSettings
  <2>3. profiles # <<>> => settings'.active < Len(profiles)
    BY <1>9, <2>2, ClampedSettings DEF LoadSettings, FlashTypeOK, DefaultSettings
  <2> QED
    BY <1>3, <2>1, <2>2, <2>3 DEF RangeInv, InRange
<1>10. CASE RestoreDefaults
  <2>1. Head(job) = "restoreDefaults" /\ job[1] = "restoreDefaults"
    BY <1>1, <1>10 DEF RestoreDefaults
  <2>2. LastLoads
    BY <1>1, <1>2, <2>1 DEF RangeInv, JobShape
  <2>3. /\ Tail(job) \in Seq(Op) /\ Tail(job) # <<>>
        /\ Tail(job)[Len(Tail(job))] = "loadSettings"
    BY <1>1, <1>2, <2>1, <2>2 DEF LastLoads
  <2>4. <<"defaultProfiles", "loadProfiles">> \in Seq(Op) /\ <<>> \in Seq(Op)
    BY DEF Op, Writes
  <2>5. PICK front \in Seq(Op) : job' = front \o Tail(job)
    BY <1>10, <2>4 DEF RestoreDefaults
  <2>6. LastLoads'
    BY <2>3, <2>5, LoadsAfter
  <2> QED
    BY <1>3, <2>6, QueueShape DEF RangeInv
<1> QED
  BY <1>6, <1>7, <1>8, <1>9, <1>10 DEF Store, StoreStep

LEMMA RangeStep ==
    ASSUME StoreTypeOK(Profile), RangeInv, [Next]_vars
    PROVE  RangeInv'
<1> USE DEF SameStore, storeVars, At
<1>1. RamTypeOK /\ FlashTypeOK /\ WorkTypeOK
  BY StoreParts
<1>2. ASSUME UNCHANGED storeVars, Idle'
      PROVE  RangeInv'
  BY <1>2 DEF RangeInv, JobShape, LastLoads, InRange, ramVars, workVars
<1>3. CASE Store
  BY <1>1, <1>3, StoreRange
<1>4. ASSUME NEW next \in {"resetting", "wiping"}, FactoryReset(next)
      PROVE  RangeInv'
  BY <1>4, QueueShape DEF FactoryReset, Queue, RangeInv, Idle
<1>5. CASE ButtonReleased
  <2>1. CASE PressCycles
    <3>1. job = <<>> /\ InRange
      BY <1>5 DEF ButtonReleased, RangeInv, Idle, LastLoads
    <3>2. InRange'
      BY <2>1, <3>1, NextVisibleType DEF PressCycles, InRange, StoreTypeOK
    <3>3. JobShape' /\ Idle'
      BY <2>1, QueueShape DEF PressCycles, Queue, Idle
    <3> QED
      BY <3>2, <3>3 DEF RangeInv
  <2>2. CASE PressWakes \/ PressLocked \/ HoldCancelled \/ ConfigThreshold
    <3>1. UNCHANGED storeVars /\ at' = "display" /\ at = "button"
      BY <1>5, <2>2 DEF ButtonReleased, PressWakes, PressLocked, HoldCancelled,
         ConfigThreshold
    <3>2. job' = <<>>
      BY <3>1 DEF RangeInv, Idle, workVars
    <3> QED
      BY <1>2, <3>1, <3>2 DEF Idle
  <2> QED
    BY <1>5, <2>1, <2>2 DEF ButtonReleased
<1>6. CASE ButtonHeld
  <2>1. CASE FactoryReset("resetting")
    BY <1>4, <2>1
  <2>2. CASE UNCHANGED storeVars /\ at' = "display"
    <3>1. job' = <<>>
      BY <1>6, <2>2 DEF ButtonHeld, RangeInv, Idle, workVars
    <3> QED
      BY <1>2, <2>2, <3>1 DEF Idle
  <2> QED
    BY <1>6, <2>1, <2>2 DEF ButtonHeld
<1>7. CASE Serve
  <2>1. at = "serve" /\ job = <<>> /\ InRange
    BY <1>7 DEF Serve, Unserved, PostFactoryReset, PostExit, PostProfiles, PostSettings,
       RangeInv, Idle, LastLoads
  <2>2. ASSUME NEW list \in Uploads, PostProfiles(list)
        PROVE  RangeInv'
    <3>1. Len(list) \in Nat /\ Len(list) > 0
      BY <2>2, UiAssumption DEF PostProfiles
    <3>2. InRange'
      BY <1>1, <2>2, <3>1, ClampedSettings DEF PostProfiles, ReplaceAll, InRange,
         RamTypeOK
    <3> QED
      BY <2>2, <3>2, QueueShape DEF PostProfiles, Queue, RangeInv, Idle
  <2>3. ASSUME NEW index \in 0 .. MaxProfiles, NEW alwaysOn \in BOOLEAN,
               PostSettings(index, alwaysOn)
        PROVE  RangeInv'
    <3>1. settings'.active =
             (IF index < Len(profiles) THEN index ELSE settings.active)
          /\ profiles' = profiles
      BY <2>3 DEF PostSettings
    <3>2. InRange'
      BY <2>1, <3>1 DEF InRange
    <3> QED
      BY <2>3, <3>2, QueueShape DEF PostSettings, Queue, RangeInv, Idle
  <2>4. CASE Unserved \/ PostExit
    BY <1>2, <2>1, <2>4 DEF Unserved, PostExit, Idle, workVars
  <2>5. CASE PostFactoryReset
    BY <1>4, <2>5 DEF PostFactoryReset
  <2> QED
    BY <1>7, <2>2, <2>3, <2>4, <2>5 DEF Serve
<1>8. CASE PowerOn
  <2>1. job = <<>> /\ InRange /\ UNCHANGED ramVars /\ at' = "booting"
    BY <1>8 DEF PowerOn, Begin, RangeInv, Idle, LastLoads
  <2>2. InRange' /\ Idle'
    BY <2>1 DEF InRange, ramVars, Idle
  <2>3. JobShape'
    <3>1. CASE UNCHANGED job
      BY <2>1, <3>1, QueueShape
    <3>2. CASE \E exist : job' = BeginOps(exist)
      BY <3>2, BeginShape, QueueShape
    <3> QED
      BY <1>8, <3>1, <3>2 DEF PowerOn, Begin
  <2> QED
    BY <2>2, <2>3 DEF RangeInv
<1>9. CASE PowerLoss
  <2>1. profiles' = <<>> /\ job' = <<>>
    BY <1>9 DEF PowerLoss, StoreLosesPower
  <2> QED
    BY <2>1, QueueShape DEF RangeInv, Idle, InRange
<1>10. CASE Setup \/ Cycled \/ WasReset \/ Posted \/ Wiped
  <2>1. UNCHANGED storeVars /\ job = <<>>
    BY <1>10 DEF Setup, Cycled, WasReset, Posted, Wiped
  <2> QED
    BY <1>2, <2>1 DEF Idle, workVars
<1>11. CASE \/ Turn \/ NothingPressed \/ DisplayUpdate \/ WifiExits \/ HandleClient
            \/ NoCommand \/ Command
  <2>1. UNCHANGED storeVars /\ at \in {"top", "button", "display", "wifi", "hid"}
    BY <1>11 DEF Turn, NothingPressed, DisplayUpdate, WifiExits, HandleClient, NoCommand,
       Command
  <2> QED
    BY <1>2, <2>1 DEF RangeInv, Idle, workVars
<1>12. CASE UNCHANGED vars
  <2>1. UNCHANGED storeVars /\ UNCHANGED at
    BY <1>12 DEF vars
  <2> QED
    BY <1>2, <2>1 DEF RangeInv, Idle, workVars
<1> QED
  BY <1>3, <1>5, <1>6, <1>7, <1>8, <1>9, <1>10, <1>11, <1>12 DEF Next, Device

LEMMA RangeInit == Init => RangeInv
  BY QueueShape DEF Init, StoreInit, RangeInv, Idle, InRange, JobShape

(* Press, hold, request, boot, reset, power loss, failed save: loop()      *)
(* never starts a turn with an active index outside the list.              *)
THEOREM ActiveStaysInRange == Spec => []ActiveInRange
<1>1. Init => RangeInv
  BY RangeInit
<1>2. TypeOK /\ RangeInv /\ [Next]_vars => RangeInv'
  BY RangeStep DEF TypeOK
<1>3. RangeInv => ActiveInRange
  BY DEF RangeInv, Idle, InRange, LastLoads, ActiveInRange
<1> QED
  BY <1>1, <1>2, <1>3, TypeCorrect, PTL DEF Spec

-----------------------------------------------------------------------------
(* What is left to do at each place of loop(). A list of profiles is       *)
(* written first or not at all, restoreDefaults follows the load whose     *)
(* result it looks at, and the default profiles are loaded when written.   *)

Order ==
    \A i \in 2 .. Len(job) :
        /\ job[i] \notin {"saveProfiles", "defaultProfiles"}
        /\ job[i] = "restoreDefaults" => job[i - 1] = "loadProfiles"
        /\ job[i] = "defaultSettings" => job[i - 1] = "defaultProfiles"

Jobs ==
    /\ Has("saveProfiles") => at = "posting"
    /\ Has("loadProfiles") => at # "posting"
    /\ Has("restoreDefaults") => at = "booting"
    /\ Has("defaultProfiles") => Has("loadProfiles")
    /\ Order

LEMMA HasOfTail ==
    ASSUME job \in Seq(Op), job # <<>>, job' = Tail(job)
    PROVE  /\ \A op : Has(op)' => Has(op)
           /\ \A op : Has(op) /\ Head(job) # op => Has(op)'
           /\ Order => Order'
           /\ Order => ~Has("saveProfiles")' /\ ~Has("defaultProfiles")'
           /\ Order /\ Head(job) # "defaultProfiles" => ~Has("defaultSettings")'
           /\ Order /\ job' # <<>> => Head(job') # "defaultProfiles"
           /\ Order /\ job' # <<>> /\ Head(job') = "restoreDefaults" =>
                 Head(job) = "loadProfiles"
<1>1. Len(job) \in Nat \ {0} /\ Len(Tail(job)) = Len(job) - 1 /\ Tail(job) \in Seq(Op)
  OBVIOUS
<1>2. \A i \in 1 .. Len(Tail(job)) : Tail(job)[i] = job[i + 1] /\ i + 1 \in 1 .. Len(job)
  BY <1>1
<1>3. Head(job) = job[1]
  OBVIOUS
<1>4. \A op : Has(op)' => Has(op)
  BY <1>1, <1>2 DEF Has
<1>5. ASSUME NEW op, Has(op), Head(job) # op
      PROVE  Has(op)'
  <2>1. PICK i \in 1 .. Len(job) : job[i] = op
    BY <1>5 DEF Has
  <2>2. i - 1 \in 1 .. Len(Tail(job)) /\ (i - 1) + 1 = i
    BY <1>1, <1>3, <1>5, <2>1
  <2>3. Tail(job)[i - 1] = job[i]
    BY <1>2, <2>2
  <2> QED
    BY <2>1, <2>2, <2>3 DEF Has
<1>6. ASSUME Order
      PROVE  Order'
  <2> SUFFICES ASSUME NEW i \in 2 .. Len(job')
               PROVE  /\ job'[i] \notin {"saveProfiles", "defaultProfiles"}
                      /\ job'[i] = "restoreDefaults" => job'[i - 1] = "loadProfiles"
                      /\ job'[i] = "defaultSettings" => job'[i - 1] = "defaultProfiles"
    BY DEF Order
  <2>1. i + 1 \in 2 .. Len(job) /\ (i + 1) - 1 = i /\ (i - 1) + 1 = i
        /\ i \in 1 .. Len(Tail(job)) /\ i - 1 \in 1 .. Len(Tail(job))
    BY <1>1
  <2>2. job'[i] = job[i + 1] /\ job'[i - 1] = job[i]
    BY <1>2, <2>1
  <2> QED
    BY <1>6, <2>1, <2>2 DEF Order
<1>7. ASSUME Order, job' # <<>>
      PROVE  /\ Head(job') # "defaultProfiles"
             /\ Head(job') = "restoreDefaults" => Head(job) = "loadProfiles"
  <2>1. Len(job) >= 2 /\ Head(job') = job'[1]
    BY <1>1, <1>7
  <2>2. 1 \in 1 .. Len(Tail(job)) /\ 2 \in 2 .. Len(job)
    BY <1>1, <2>1
  <2>3. job'[1] = job[2]
    BY <1>2, <2>2
  <2> QED
    BY <1>3, <1>7, <2>1, <2>2, <2>3 DEF Order
<1>8. ASSUME Order
      PROVE  ~Has("saveProfiles")' /\ ~Has("defaultProfiles")'
  BY <1>1, <1>2, <1>8 DEF Order, Has
<1>9. ASSUME Order, Head(job) # "defaultProfiles"
      PROVE  ~Has("defaultSettings")'
  <2> SUFFICES ASSUME NEW i \in 1 .. Len(Tail(job)), Tail(job)[i] = "defaultSettings"
               PROVE  FALSE
    BY DEF Has
  <2>1. job[i + 1] = "defaultSettings" /\ i + 1 \in 2 .. Len(job) /\ (i + 1) - 1 = i
    BY <1>1, <1>2
  <2>2. job[i] = "defaultProfiles" /\ (i = 1 \/ i \in 2 .. Len(job))
    BY <1>1, <1>9, <2>1 DEF Order
  <2> QED
    BY <1>3, <1>9, <2>2 DEF Order
<1> QED
  BY <1>4, <1>5, <1>6, <1>7, <1>8, <1>9

LEMMA QueuedOps ==
    /\ job' = <<>> => \A op : ~Has(op)'
    /\ job' = <<"saveSettings">> => \A op : Has(op)' <=> op = "saveSettings"
    /\ job' = <<"saveProfiles", "saveSettings">> =>
          \A op : Has(op)' <=> op \in {"saveProfiles", "saveSettings"}
    /\ job' = FactoryResetOps =>
          /\ \A op : Has(op)' <=> op \in {"defaultProfiles", "defaultSettings",
                                        "loadProfiles", "loadSettings"}
          /\ Order'
    /\ job' \in {<<>>, <<"saveSettings">>, <<"saveProfiles", "saveSettings">>} => Order'
<1>1. job' = <<>> => \A op : ~Has(op)'
  BY DEF Has
<1>2. ASSUME job' = <<"saveSettings">>
      PROVE  (\A op : Has(op)' <=> op = "saveSettings") /\ Order'
  <2>1. Len(job') = 1 /\ job'[1] = "saveSettings"
    BY <1>2
  <2> QED
    BY <2>1 DEF Has, Order
<1>3. ASSUME job' = <<"saveProfiles", "saveSettings">>
      PROVE  (\A op : Has(op)' <=> op \in {"saveProfiles", "saveSettings"}) /\ Order'
  <2>1. Len(job') = 2 /\ job'[1] = "saveProfiles" /\ job'[2] = "saveSettings"
    BY <1>3
  <2>2. \A i : i \in 1 .. Len(job') <=> i = 1 \/ i = 2
    BY <2>1
  <2> QED
    BY <2>1, <2>2 DEF Has, Order
<1>4. ASSUME job' = FactoryResetOps
      PROVE  /\ \A op : Has(op)' <=> op \in {"defaultProfiles", "defaultSettings",
                                           "loadProfiles", "loadSettings"}
             /\ Order'
  <2>1. /\ Len(job') = 4
        /\ job'[1] = "defaultProfiles" /\ job'[2] = "defaultSettings"
        /\ job'[3] = "loadProfiles" /\ job'[4] = "loadSettings"
    BY <1>4 DEF FactoryResetOps
  <2>2. \A i : i \in 1 .. Len(job') <=> i = 1 \/ i = 2 \/ i = 3 \/ i = 4
    BY <2>1
  <2>3. \A op : Has(op)' <=> op \in {"defaultProfiles", "defaultSettings",
                                   "loadProfiles", "loadSettings"}
    BY <2>1, <2>2 DEF Has
  <2>4. Order'
    BY <2>1, <2>2 DEF Order
  <2> QED
    BY <2>3, <2>4
<1>5. job' = <<>> => Order'
  BY DEF Order
<1> QED
  BY <1>1, <1>2, <1>3, <1>4, <1>5

LEMMA Joined ==
    ASSUME NEW s \in Seq(Op), NEW t \in Seq(Op)
    PROVE  /\ s \o t \in Seq(Op) /\ Len(s \o t) = Len(s) + Len(t)
           /\ \A i \in 1 .. Len(s) : (s \o t)[i] = s[i]
           /\ \A i \in 1 .. Len(t) : (s \o t)[Len(s) + i] = t[i]
  OBVIOUS

LEMMA Places ==
    ASSUME NEW n \in {0, 1}, NEW m \in {0, 1}, NEW i \in 1 .. n + m + 3
    PROVE  \/ i = 1 /\ n = 1
           \/ i = n + 1 /\ m = 1
           \/ i = n + m + 1 \/ i = n + m + 2 \/ i = n + m + 3
  OBVIOUS

LEMMA BegunOps ==
    ASSUME NEW exist, job' = BeginOps(exist)
    PROVE  /\ Order'
           /\ ~Has("saveProfiles")' /\ ~Has("saveSettings")'
           /\ Has("loadProfiles")' /\ Has("loadSettings")'
           /\ "profiles" \in exist <=> ~Has("defaultProfiles")'
           /\ "settings" \in exist <=> ~Has("defaultSettings")'
           /\ job' # <<>>
           /\ Head(job') # "restoreDefaults"
           /\ "profiles" \in exist => Head(job') # "defaultProfiles"
<1> DEFINE first == IF "profiles" \in exist THEN <<>> ELSE <<"defaultProfiles">>
           second == IF "settings" \in exist THEN <<>> ELSE <<"defaultSettings">>
           last == <<"loadProfiles", "restoreDefaults", "loadSettings">>
           n == Len(first)
           m == Len(second)
<1>1. <<"defaultProfiles">> \in Seq(Op) /\ <<"defaultSettings">> \in Seq(Op)
      /\ <<>> \in Seq(Op)
  BY DEF Op, Writes
<1>2. first \in Seq(Op) /\ second \in Seq(Op)
  BY <1>1
<1>3. /\ last \in Seq(Op) /\ Len(last) = 3
      /\ last[1] = "loadProfiles" /\ last[2] = "restoreDefaults" /\ last[3] = "loadSettings"
  BY DEF Op, Writes
<1>4. n \in {0, 1} /\ (n = 1 => first[1] = "defaultProfiles")
      /\ (n = 1 <=> "profiles" \notin exist)
  BY <1>1
<1>5. m \in {0, 1} /\ (m = 1 => second[1] = "defaultSettings")
      /\ (m = 1 <=> "settings" \notin exist)
  BY <1>1
<1>6. job' = (first \o second) \o last
  BY DEF BeginOps
<1> HIDE DEF first, second, last
<1>7. /\ first \o second \in Seq(Op) /\ Len(first \o second) = n + m
      /\ n = 1 => (first \o second)[1] = "defaultProfiles"
      /\ m = 1 => (first \o second)[n + 1] = "defaultSettings"
  BY <1>2, <1>4, <1>5
<1>8. /\ Len(job') = n + m + 3 /\ job' \in Seq(Op)
      /\ n = 1 => job'[1] = "defaultProfiles"
      /\ m = 1 => job'[n + 1] = "defaultSettings"
      /\ job'[n + m + 1] = "loadProfiles"
      /\ job'[n + m + 2] = "restoreDefaults"
      /\ job'[n + m + 3] = "loadSettings"
  <2>1. /\ Len(job') = n + m + 3 /\ job' \in Seq(Op)
        /\ \A i \in 1 .. n + m : job'[i] = (first \o second)[i]
        /\ \A i \in 1 .. 3 : job'[n + m + i] = last[i]
    <3> DEFINE front == first \o second
    <3>1. front \in Seq(Op) /\ Len(front) = n + m /\ job' = front \o last
      BY <1>6, <1>7
    <3> HIDE DEF front
    <3>2. /\ front \o last \in Seq(Op) /\ Len(front \o last) = Len(front) + Len(last)
          /\ \A i \in 1 .. Len(front) : (front \o last)[i] = front[i]
          /\ \A i \in 1 .. Len(last) : (front \o last)[Len(front) + i] = last[i]
      BY <1>3, <3>1, Joined, Zenon
    <3>3. /\ Len(job') = n + m + 3 /\ job' \in Seq(Op)
          /\ \A i \in 1 .. n + m : job'[i] = front[i]
          /\ \A i \in 1 .. 3 : job'[n + m + i] = last[i]
      BY <1>3, <3>1, <3>2
    <3> QED
      BY <3>3 DEF front
  <2> QED
    BY <1>3, <1>4, <1>5, <1>7, <2>1
<1>9. \A i \in 1 .. Len(job') :
         \/ i = 1 /\ n = 1
         \/ i = n + 1 /\ m = 1
         \/ i = n + m + 1 \/ i = n + m + 2 \/ i = n + m + 3
  BY <1>4, <1>5, <1>8, Places
<1>10. Order'
  BY <1>4, <1>5, <1>8, <1>9 DEF Order
<1>11. ~Has("saveProfiles")' /\ ~Has("saveSettings")'
  BY <1>8, <1>9 DEF Has
<1>12. job' # <<>> /\ Head(job') = job'[1] /\ 1 \in 1 .. Len(job')
  BY <1>4, <1>5, <1>8
<1>13. job'[1] # "restoreDefaults"
  BY <1>4, <1>5, <1>8, <1>9, <1>12
<1>14. "profiles" \in exist => job'[1] # "defaultProfiles"
  BY <1>4, <1>5, <1>8, <1>9, <1>12
<1>15. Has("loadProfiles")' /\ Has("loadSettings")'
  <2>1. n + m + 1 \in 1 .. Len(job') /\ n + m + 3 \in 1 .. Len(job')
    BY <1>4, <1>5, <1>8
  <2> QED
    BY <1>8, <2>1 DEF Has
<1>16. "profiles" \in exist <=> ~Has("defaultProfiles")'
  <2>1. n = 1 => Has("defaultProfiles")'
    BY <1>8, <1>12 DEF Has
  <2>2. Has("defaultProfiles")' => n = 1
    BY <1>8, <1>9 DEF Has
  <2> QED
    BY <1>4, <2>1, <2>2
<1>17. "settings" \in exist <=> ~Has("defaultSettings")'
  <2>1. m = 1 => n + 1 \in 1 .. Len(job')
    BY <1>4, <1>5, <1>8
  <2>2. m = 1 => Has("defaultSettings")'
    BY <1>8, <2>1 DEF Has
  <2>3. Has("defaultSettings")' => m = 1
    BY <1>8, <1>9 DEF Has
  <2> QED
    BY <1>5, <2>2, <2>3
<1> QED
  BY <1>10, <1>11, <1>12, <1>13, <1>14, <1>15, <1>16, <1>17

LEMMA RestoredOps ==
    ASSUME job \in Seq(Op), Order, RestoreDefaults
    PROVE  /\ Order'
           /\ \A op : Has(op)' => Has(op) \/ op \in {"defaultProfiles", "loadProfiles"}
           /\ \A op : Has(op) /\ op # "restoreDefaults" => Has(op)'
           /\ \/ Has("defaultProfiles")' /\ Has("loadProfiles")'
              \/ \A op : Has(op)' => Has(op)
           /\ Has("defaultProfiles")' => Has("loadProfiles")'
           /\ profiles # <<>> /\ job' # <<>> =>
                 Head(job') \notin {"defaultProfiles", "restoreDefaults"}
           /\ job' # <<>> => Head(job') # "restoreDefaults"
<1> DEFINE front == IF profiles = <<>> THEN <<"defaultProfiles", "loadProfiles">> ELSE <<>>
           n == Len(front)
           t == Tail(job)
<1>1. job # <<>> /\ job[1] = "restoreDefaults" /\ job' = front \o t
  BY DEF RestoreDefaults, Doing
<1>2. <<"defaultProfiles", "loadProfiles">> \in Seq(Op) /\ <<>> \in Seq(Op)
  BY DEF Op, Writes
<1>3. /\ front \in Seq(Op) /\ n \in {0, 2}
      /\ n = 2 => front[1] = "defaultProfiles" /\ front[2] = "loadProfiles"
      /\ profiles # <<>> => n = 0
  BY <1>2
<1>4. Len(job) \in Nat \ {0} /\ Len(t) = Len(job) - 1 /\ t \in Seq(Op)
  BY <1>1
<1>5. \A i \in 1 .. Len(t) : t[i] = job[i + 1] /\ i + 1 \in 2 .. Len(job)
  BY <1>1, <1>4
<1>6. \A i \in 1 .. Len(t) :
          /\ t[i] \notin {"saveProfiles", "defaultProfiles", "defaultSettings"}
          /\ t[i] = "restoreDefaults" => job[i] = "loadProfiles"
  <2> SUFFICES ASSUME NEW i \in 1 .. Len(t)
               PROVE  /\ t[i] \notin {"saveProfiles", "defaultProfiles", "defaultSettings"}
                      /\ t[i] = "restoreDefaults" => job[i] = "loadProfiles"
    OBVIOUS
  <2>1. t[i] = job[i + 1] /\ i + 1 \in 2 .. Len(job) /\ (i + 1) - 1 = i
    BY <1>5
  <2>2. i = 1 \/ i \in 2 .. Len(job)
    BY <1>4
  <2> QED
    BY <1>1, <2>1, <2>2 DEF Order
<1>7. \A i \in 1 .. Len(t) : t[i] = "restoreDefaults" =>
          i \in 2 .. Len(t) /\ t[i - 1] = "loadProfiles"
  <2> SUFFICES ASSUME NEW i \in 1 .. Len(t), t[i] = "restoreDefaults"
               PROVE  i \in 2 .. Len(t) /\ t[i - 1] = "loadProfiles"
    OBVIOUS
  <2>1. i \in 2 .. Len(t)
    BY <1>1, <1>4, <1>6
  <2>2. i - 1 \in 1 .. Len(t) /\ (i - 1) + 1 = i
    BY <1>4, <2>1
  <2>3. t[i - 1] = job[i]
    BY <1>5, <2>2
  <2> QED
    BY <1>6, <2>1, <2>3
<1> HIDE DEF front, t
<1>8. /\ Len(job') = n + Len(t) /\ job' \in Seq(Op)
      /\ \A i \in 1 .. n : job'[i] = front[i]
      /\ \A i \in n + 1 .. n + Len(t) : job'[i] = t[i - n] /\ i - n \in 1 .. Len(t)
      /\ \A i \in 1 .. Len(t) : job'[n + i] = t[i]
  <2>1. /\ Len(job') = n + Len(t) /\ job' \in Seq(Op)
        /\ \A i \in 1 .. n : job'[i] = front[i]
        /\ \A i \in 1 .. Len(t) : job'[n + i] = t[i]
    <3>1. /\ front \o t \in Seq(Op) /\ Len(front \o t) = n + Len(t)
          /\ \A i \in 1 .. n : (front \o t)[i] = front[i]
          /\ \A i \in 1 .. Len(t) : (front \o t)[n + i] = t[i]
      BY <1>3, <1>4, Joined, Zenon
    <3> QED
      BY <1>1, <3>1
  <2>2. \A i \in n + 1 .. n + Len(t) : i - n \in 1 .. Len(t) /\ n + (i - n) = i
    BY <1>3, <1>4
  <2> QED
    BY <2>1, <2>2
<1>9. Order'
  <2> SUFFICES ASSUME NEW i \in 2 .. Len(job')
               PROVE  /\ job'[i] \notin {"saveProfiles", "defaultProfiles"}
                      /\ job'[i] = "restoreDefaults" => job'[i - 1] = "loadProfiles"
                      /\ job'[i] = "defaultSettings" => job'[i - 1] = "defaultProfiles"
    BY DEF Order
  <2>1. CASE i \in 1 .. n
    <3>1. n = 2 /\ i = 2 /\ job'[i] = "loadProfiles"
      BY <1>3, <1>8, <2>1
    <3> QED
      BY <3>1
  <2>2. CASE i \in n + 1 .. n + Len(t)
    <3>1. job'[i] = t[i - n] /\ i - n \in 1 .. Len(t)
      BY <1>8, <2>2
    <3>2. job'[i] \notin {"saveProfiles", "defaultProfiles", "defaultSettings"}
      BY <1>6, <3>1
    <3>3. ASSUME job'[i] = "restoreDefaults" PROVE job'[i - 1] = "loadProfiles"
      <4>1. i - n \in 2 .. Len(t) /\ t[(i - n) - 1] = "loadProfiles"
        BY <1>7, <3>1, <3>3
      <4>2. i - 1 \in n + 1 .. n + Len(t) /\ (i - 1) - n = (i - n) - 1
        BY <1>3, <1>4, <4>1
      <4> QED
        BY <1>8, <4>1, <4>2
    <3> QED
      BY <3>2, <3>3
  <2> QED
    BY <1>3, <1>4, <1>8, <2>1, <2>2
<1>10. ASSUME NEW op, Has(op)'
       PROVE  Has(op) \/ op \in {"defaultProfiles", "loadProfiles"}
  <2>1. PICK i \in 1 .. Len(job') : job'[i] = op
    BY <1>10 DEF Has
  <2>2. CASE i \in 1 .. n
    BY <1>3, <1>8, <2>1, <2>2
  <2>3. CASE i \in n + 1 .. n + Len(t)
    <3>1. t[i - n] = op /\ i - n \in 1 .. Len(t)
      BY <1>8, <2>1, <2>3
    <3>2. job[(i - n) + 1] = op /\ (i - n) + 1 \in 1 .. Len(job)
      BY <1>4, <1>5, <3>1
    <3> QED
      BY <3>2 DEF Has
  <2> QED
    BY <1>3, <1>4, <1>8, <2>2, <2>3
<1>11. ASSUME job' # <<>>
       PROVE  Head(job') # "restoreDefaults"
              /\ (profiles # <<>> => Head(job') # "defaultProfiles")
  <2>1. Head(job') = job'[1] /\ Len(job') >= 1
    BY <1>8, <1>11
  <2>2. CASE n = 2
    BY <1>3, <1>8, <2>1, <2>2
  <2>3. CASE n = 0
    <3>1. 1 \in n + 1 .. n + Len(t) /\ 1 - n = 1
      BY <1>4, <1>8, <2>1, <2>3
    <3>2. job'[1] = t[1] /\ 1 \in 1 .. Len(t)
      BY <1>8, <3>1
    <3> QED
      BY <1>6, <1>7, <2>1, <3>2
  <2> QED
    BY <1>3, <2>2, <2>3
<1>12. ASSUME NEW op, Has(op), op # "restoreDefaults"
       PROVE  Has(op)'
  <2>1. PICK i \in 1 .. Len(job) : job[i] = op
    BY <1>12 DEF Has
  <2>2. i - 1 \in 1 .. Len(t) /\ (i - 1) + 1 = i
    BY <1>1, <1>4, <1>12, <2>1
  <2>3. t[i - 1] = op
    BY <1>5, <2>1, <2>2
  <2>4. n + (i - 1) \in 1 .. Len(job')
    BY <1>3, <1>4, <1>8, <2>2
  <2>5. job'[n + (i - 1)] = op /\ n + (i - 1) \in 1 .. Len(job')
    BY <1>8, <2>2, <2>3, <2>4
  <2> QED
    BY <2>5 DEF Has
<1>13. CASE n = 2
  <2>1. 1 \in 1 .. n /\ 2 \in 1 .. n /\ 1 \in 1 .. Len(job') /\ 2 \in 1 .. Len(job')
    BY <1>4, <1>8, <1>13
  <2>2. Has("defaultProfiles")' /\ Has("loadProfiles")'
    BY <1>3, <1>8, <1>13, <2>1 DEF Has
  <2> QED
    BY <1>9, <1>10, <1>11, <1>12, <2>2
<1>14. CASE n = 0
  <2>1. ASSUME NEW op, Has(op)' PROVE Has(op) /\ op # "defaultProfiles"
    <3>1. PICK i \in 1 .. Len(job') : job'[i] = op
      BY <2>1 DEF Has
    <3>2. i \in n + 1 .. n + Len(t) /\ i - n = i
      BY <1>4, <1>8, <1>14
    <3>3. t[i] = op /\ i \in 1 .. Len(t)
      BY <1>8, <3>1, <3>2
    <3>4. job[i + 1] = op /\ i + 1 \in 1 .. Len(job)
      BY <1>4, <1>5, <3>3
    <3> QED
      BY <1>6, <3>3, <3>4 DEF Has
  <2> QED
    BY <1>9, <1>10, <1>11, <1>12, <2>1
<1> QED
  BY <1>3, <1>13, <1>14

LEMMA NoJob ==
    ASSUME job' = <<>>
    PROVE  Jobs'
<1>1. \A op : ~Has(op)'
  BY QueuedOps
<1>2. Order'
  BY DEF Order
<1> QED
  BY <1>1, <1>2 DEF Jobs

\* What a step of the store does to the work and to the place in loop().
LEMMA StoreMoves ==
    ASSUME Store
    PROVE  /\ job # <<>> /\ UNCHANGED at
           /\ UNCHANGED job \/ job' = Tail(job) \/ RestoreDefaults
  BY DEF Store, StoreStep, OpenTmp, OpenTmpFails, Serialize, CloseFails,
     ShortWrite, Rename, RenameFails, RemoveTarget, RenameAgain,
     RenameAgainFails, LoadProfiles, LoadSettings, RestoreDefaults, Writing, Doing,
     Renamed, Returns

LEMMA JobsStep ==
    ASSUME StoreTypeOK(Profile), RangeInv, Jobs, [Next]_vars
    PROVE  Jobs'
<1> USE DEF SameStore, storeVars, workVars, At
<1>1. job \in Seq(Op) /\ Idle
  BY DEF StoreTypeOK, RangeInv
<1>2. CASE Store
  <2>1. CASE UNCHANGED job
    BY <1>2, <2>1, StoreMoves DEF Jobs, Has, Order
  <2>2. CASE job' = Tail(job)
    <3>1. /\ job # <<>> /\ UNCHANGED at
      BY <1>2, StoreMoves
    <3>2. /\ \A op : Has(op)' => Has(op)
          /\ Order' /\ ~Has("defaultProfiles")'
      BY <1>1, <2>2, <3>1, HasOfTail DEF Jobs
    <3> QED
      BY <3>1, <3>2 DEF Jobs
  <2>3. CASE RestoreDefaults
    <3>1. UNCHANGED at /\ Has("restoreDefaults")
      BY <1>1, <1>2, <2>3, StoreMoves DEF RestoreDefaults, Doing, Has
    <3>2. at = "booting" /\ Order
      BY <3>1 DEF Jobs
    <3>3. /\ Order'
          /\ \A op : Has(op)' => Has(op) \/ op \in {"defaultProfiles", "loadProfiles"}
          /\ Has("defaultProfiles")' => Has("loadProfiles")'
      BY <1>1, <2>3, <3>2, RestoredOps
    <3>4. ~Has("saveProfiles")
      BY <3>2 DEF Jobs
    <3> QED
      BY <3>1, <3>2, <3>3, <3>4 DEF Jobs
  <2> QED
    BY <1>2, <2>1, <2>2, <2>3, StoreMoves
<1>3. CASE at \in {"off", "top", "button", "display", "wifi", "serve", "hid"}
           /\ UNCHANGED storeVars
  BY <1>1, <1>3, NoJob DEF Idle
<1>4. CASE UNCHANGED storeVars /\ job = <<>>
  BY <1>4, NoJob
<1>5. ASSUME NEW next \in {"resetting", "wiping"}, FactoryReset(next)
      PROVE  Jobs'
  <2>1. /\ \A op : Has(op)' <=> op \in {"defaultProfiles", "defaultSettings",
                                      "loadProfiles", "loadSettings"}
        /\ Order'
    BY <1>5, QueuedOps DEF FactoryReset, Queue
  <2>2. /\ ~Has("saveProfiles")' /\ ~Has("restoreDefaults")' /\ Has("loadProfiles")'
        /\ at' # "posting"
    BY <1>5, <2>1 DEF FactoryReset
  <2> QED
    BY <2>1, <2>2 DEF Jobs
<1>6. CASE ButtonReleased
  <2>1. CASE PressCycles
    <3>1. (\A op : Has(op)' <=> op = "saveSettings") /\ Order'
      BY <2>1, QueuedOps DEF PressCycles, Queue
    <3> QED
      BY <2>1, <3>1 DEF PressCycles, Jobs
  <2>2. CASE PressWakes \/ PressLocked \/ HoldCancelled \/ ConfigThreshold
    BY <1>3, <1>6, <2>2 DEF ButtonReleased, PressWakes, PressLocked, HoldCancelled,
       ConfigThreshold
  <2> QED
    BY <1>6, <2>1, <2>2 DEF ButtonReleased
<1>7. CASE ButtonHeld
  BY <1>3, <1>5, <1>7 DEF ButtonHeld
<1>8. CASE Serve
  <2>1. ASSUME NEW list, PostProfiles(list)
        PROVE  Jobs'
    <3>1. (\A op : Has(op)' <=> op \in {"saveProfiles", "saveSettings"}) /\ Order'
      BY <2>1, QueuedOps DEF PostProfiles, Queue
    <3> QED
      BY <2>1, <3>1 DEF PostProfiles, Jobs
  <2>2. ASSUME NEW index, NEW alwaysOn, PostSettings(index, alwaysOn)
        PROVE  Jobs'
    <3>1. (\A op : Has(op)' <=> op = "saveSettings") /\ Order'
      BY <2>2, QueuedOps DEF PostSettings, Queue
    <3> QED
      BY <2>2, <3>1 DEF PostSettings, Jobs
  <2>3. CASE Unserved \/ PostExit
    BY <1>3, <2>3 DEF Unserved, PostExit
  <2>4. CASE PostFactoryReset
    BY <1>5, <2>4 DEF PostFactoryReset
  <2> QED
    BY <1>8, <2>1, <2>2, <2>3, <2>4 DEF Serve
<1>9. CASE PowerOn
  <2>1. CASE \E exist : job' = BeginOps(exist)
    <3>1. Order' /\ ~Has("saveProfiles")' /\ Has("loadProfiles")'
      BY <2>1, BegunOps
    <3> QED
      BY <1>9, <3>1 DEF PowerOn, Jobs
  <2>2. CASE UNCHANGED job
    BY <1>1, <1>9, <2>2, NoJob DEF PowerOn, Idle
  <2> QED
    BY <1>9, <2>1, <2>2 DEF PowerOn, Begin
<1>10. CASE PowerLoss
  BY <1>10, NoJob DEF PowerLoss, StoreLosesPower
<1>11. CASE Setup \/ Cycled \/ WasReset \/ Posted \/ Wiped
  BY <1>4, <1>11 DEF Setup, Cycled, WasReset, Posted, Wiped
<1>12. CASE \/ Turn \/ NothingPressed \/ DisplayUpdate \/ WifiExits \/ HandleClient
            \/ NoCommand \/ Command
  BY <1>3, <1>12 DEF Turn, NothingPressed, DisplayUpdate, WifiExits, HandleClient,
     NoCommand, Command
<1>13. CASE UNCHANGED vars
  BY <1>13 DEF vars, Jobs, Has, Order
<1> QED
  BY <1>2, <1>6, <1>7, <1>8, <1>9, <1>10, <1>11, <1>12, <1>13 DEF Next, Device

-----------------------------------------------------------------------------
(* The list in the flash                                                   *)

\* What is short or torn is the trace of a fault.
Whole ==
    /\ short \/ torn # {} => faults # 0
    /\ \A list \in file["profiles"] : list # <<>>
    /\ Has("saveProfiles") => profiles # <<>>
    /\ trusted => file["profiles"] # {}

BootReads ==
    /\ at = "booting" /\ job # <<>> => mounted
    /\ at = "booting" /\ trusted /\ job # <<>> =>
          /\ Head(job) # "defaultProfiles"
          /\ Head(job) = "restoreDefaults" => profiles # <<>>

LEMMA WholeUnfailed ==
    ASSUME Whole, WorkTypeOK, faults = 0
    PROVE  short = FALSE /\ torn = {}
<1>1. ~short /\ torn = {}
  BY DEF Whole
<1> QED
  BY <1>1, Zenon DEF WorkTypeOK

LEMMA WholeRenamed ==
    ASSUME FlashTypeOK, WorkTypeOK, Whole, job # <<>>, Head(job) \in Writes, Renamed
    PROVE  Whole'
<1> DEFINE op == Head(job)
           content == IF short THEN {} ELSE {Document(op)}
<1>1. op = "saveProfiles" => Has("saveProfiles")
  BY DEF WorkTypeOK, Has
<1>2. FileOf(op) = "profiles" => Document(op) # <<>>
  BY <1>1, DefaultsTyped DEF FileOf, Document, Whole, Writes
<1>3. /\ UNCHANGED faults
      /\ (torn' = torn \cup {FileOf(op)} /\ short) \/ (torn' = torn \ {FileOf(op)})
  BY DEF Renamed
<1>8. file' = [file EXCEPT ![FileOf(op)] = content]
  BY DEF Renamed
<1>4. short' = FALSE /\ (torn' # {} => faults' # 0)
  BY <1>3 DEF Renamed, Returns, Whole
<1>5. Has("saveProfiles")' => profiles' # <<>>
  BY HasOfTail DEF Whole, WorkTypeOK, Renamed, Returns, ramVars
<1>6. CASE FileOf(op) = "profiles"
  <2>1. file'["profiles"] = content
    <3> HIDE DEF content, op
    <3> QED
      BY <1>8, <1>6 DEF FlashTypeOK, File
  <2>2. \A list \in file'["profiles"] : list # <<>>
    BY <1>2, <1>6, <2>1
  <2>3. trusted' = ~short
    BY <1>6 DEF Renamed
  <2>4. trusted' => file'["profiles"] # {}
    <3> SUFFICES ASSUME trusted' PROVE content # {}
      BY <2>1
    <3>1. ~short
      BY <2>3, Zenon DEF WorkTypeOK
    <3> QED
      BY <3>1
  <2> QED
    BY <1>4, <1>5, <2>2, <2>4 DEF Whole
<1>7. CASE FileOf(op) # "profiles"
  <2>1. file'["profiles"] = file["profiles"]
    <3> HIDE DEF content, op
    <3> QED
      BY <1>8, <1>7 DEF FlashTypeOK, File
  <2>2. trusted' = trusted
    BY <1>7 DEF Renamed
  <2> QED
    BY <1>4, <1>5, <2>1, <2>2 DEF Whole
<1> QED
  BY <1>6, <1>7

\* A fault is counted, and none is forgotten.
LEMMA FaultsStay ==
    ASSUME WorkTypeOK, Fails \/ UNCHANGED faults
    PROVE  /\ faults \in Nat
           /\ faults # 0 => faults' # 0
           /\ Fails => faults' # 0
  BY DEF WorkTypeOK, Fails

LEMMA StoreWhole ==
    ASSUME RamTypeOK, FlashTypeOK, WorkTypeOK, Jobs, Whole, Store
    PROVE  Whole'
<1> USE DEF Writing, Doing, ramVars, flashVars
<1>1. job \in Seq(Op) /\ job # <<>> /\ UNCHANGED at
  BY StoreMoves DEF WorkTypeOK
<1>2. CASE OpenTmp \/ Serialize \/ CloseFails \/ RenameFails
  <2>1. UNCHANGED <<ramVars, flashVars, job, trusted>>
    BY <1>2 DEF OpenTmp, Serialize, CloseFails, RenameFails
  <2>2. (UNCHANGED short /\ (Fails \/ UNCHANGED faults)) \/ Fails
    BY <1>2 DEF OpenTmp, Serialize, CloseFails, RenameFails
  <2>3. short' \/ torn' # {} => faults' # 0
    BY <2>1, <2>2, FaultsStay DEF Whole
  <2> QED
    BY <2>1, <2>3 DEF Whole, Has
<1>3. CASE OpenTmpFails \/ ShortWrite \/ RenameAgainFails
  <2>1. /\ UNCHANGED <<ramVars, flashVars, trusted>> /\ ~short' /\ job' = Tail(job)
        /\ Fails \/ UNCHANGED faults
    BY <1>3 DEF OpenTmpFails, ShortWrite, RenameAgainFails, Returns
  <2> QED
    BY <1>1, <2>1, HasOfTail, FaultsStay DEF Whole
<1>4. CASE Rename \/ RenameAgain
  BY <1>4, WholeRenamed DEF Rename, RenameAgain
<1>5. CASE RemoveTarget
  <2>1. FileOf(Head(job)) \in {"profiles", "settings"}
    BY DEF FileOf
  <2>2. /\ UNCHANGED <<ramVars, job, short, faults>> /\ torn' \subseteq torn
        /\ \/ UNCHANGED <<file, trusted>>
           \/ /\ file' = [file EXCEPT ![FileOf(Head(job))] = {}]
              /\ trusted' => trusted /\ FileOf(Head(job)) # "profiles"
    BY <1>5 DEF RemoveTarget
  <2>3. /\ \A list \in file'["profiles"] : list # <<>>
        /\ trusted' => file'["profiles"] # {}
    BY <2>1, <2>2 DEF Whole, FlashTypeOK, File
  <2> QED
    BY <2>2, <2>3 DEF Whole, Has
<1>6. CASE LoadProfiles
  <2>1. Has("loadProfiles")
    BY <1>1, <1>6 DEF LoadProfiles, Has
  <2>2. ~Has("saveProfiles")'
    BY <1>1, <1>6, <2>1, HasOfTail DEF Jobs, LoadProfiles, Returns
  <2>3. /\ ~short' /\ UNCHANGED <<torn, file>> /\ (trusted' => trusted)
        /\ Fails \/ UNCHANGED faults
    BY <1>6 DEF LoadProfiles, Returns
  <2> QED
    BY <2>2, <2>3, FaultsStay DEF Whole
<1>7. CASE LoadSettings
  <2>1. /\ UNCHANGED <<profiles, file, torn, trusted>> /\ ~short'
        /\ job' = Tail(job)
        /\ Fails \/ UNCHANGED faults
    BY <1>7 DEF LoadSettings, Returns
  <2>2. torn' # {} => faults' # 0
    BY <2>1, FaultsStay DEF Whole
  <2>3. Has("saveProfiles")' => Has("saveProfiles")
    BY <1>1, <2>1, HasOfTail, Zenon
  <2> QED
    BY <2>1, <2>2, <2>3 DEF Whole
<1>8. CASE RestoreDefaults
  <2>1. Has("restoreDefaults")
    BY <1>1, <1>8 DEF RestoreDefaults, Has
  <2>2. Order /\ ~Has("saveProfiles")
    BY <2>1 DEF Jobs
  <2>3. ~Has("saveProfiles")'
    BY <1>1, <1>8, <2>2, RestoredOps
  <2> QED
    BY <1>8, <2>3 DEF RestoreDefaults, Whole
<1> QED
  BY <1>2, <1>3, <1>4, <1>5, <1>6, <1>7, <1>8 DEF Store, StoreStep

LEMMA NextOp ==
    ASSUME job \in Seq(Op), job # <<>>, job' = Tail(job), Jobs, BootReads,
           UNCHANGED <<at, mounted>>, Head(job) # "loadProfiles"
    PROVE  BootReads'
<1>1. at = "booting" => Order
  BY DEF Jobs
<1>2. at = "booting" /\ job' # <<>> =>
        Head(job') # "defaultProfiles" /\ Head(job') # "restoreDefaults"
  BY <1>1, HasOfTail
<1> QED
  BY <1>2 DEF BootReads

LEMMA BootKept ==
    ASSUME BootReads, UNCHANGED <<at, job, profiles, mounted>>, trusted' => trusted
    PROVE  BootReads'
<1>1. mounted => mounted'
  BY Zenon
<1> QED
  BY <1>1 DEF BootReads

LEMMA StoreBoot ==
    ASSUME RamTypeOK, FlashTypeOK, WorkTypeOK, Jobs, Whole, BootReads, Store
    PROVE  BootReads'
<1> USE DEF Writing, Doing, ramVars, flashVars
<1>1. job \in Seq(Op) /\ job # <<>> /\ UNCHANGED at
  BY StoreMoves DEF WorkTypeOK
<1>2. CASE OpenTmp \/ Serialize \/ CloseFails \/ RenameFails
  <2>1. UNCHANGED <<at, job, profiles, mounted, trusted>>
    BY <1>1, <1>2 DEF OpenTmp, Serialize, CloseFails, RenameFails
  <2> QED
    BY <2>1, BootKept, Zenon
<1>3. CASE \/ OpenTmpFails \/ ShortWrite \/ RenameAgainFails \/ Rename \/ RenameAgain
  <2>1. Head(job) # "loadProfiles" /\ job' = Tail(job) /\ UNCHANGED mounted
    BY <1>3 DEF OpenTmpFails, ShortWrite, RenameAgainFails, Rename, RenameAgain, Renamed,
       Returns, Writes
  <2> QED
    BY <1>1, <2>1, NextOp
<1>4. CASE RemoveTarget
  <2>1. UNCHANGED <<at, job, profiles>>
    BY <1>1, <1>4 DEF RemoveTarget
  <2>2. UNCHANGED mounted
    BY <1>4, Zenon DEF RemoveTarget
  <2>3. trusted' => trusted
    BY <1>4, Zenon DEF RemoveTarget
  <2> QED
    BY <2>1, <2>2, <2>3, BootKept, Zenon
<1>5. CASE LoadProfiles
  <2>1. job' = Tail(job) /\ Head(job) = "loadProfiles" /\ UNCHANGED <<mounted, file>>
    BY <1>5 DEF LoadProfiles, Returns
  <2>2. ASSUME at = "booting", trusted', job' # <<>>
        PROVE  Head(job') # "defaultProfiles" /\ profiles' # <<>>
    <3>1. Order /\ mounted
      BY <1>1, <2>2 DEF Jobs, BootReads
    <3>2. Head(job') # "defaultProfiles"
      BY <1>1, <2>1, <2>2, <3>1, HasOfTail
    <3>3. UNCHANGED trusted \/ trusted' = FALSE
      BY <1>5 DEF LoadProfiles
    <3>4. trusted /\ file["profiles"] # {}
      BY <2>2, <3>3 DEF Whole
    <3>5. PICK list \in file["profiles"] :
            profiles' = SubSeq(list, 1, IF Len(list) < MaxProfiles
                                        THEN Len(list) ELSE MaxProfiles)
      BY <1>5, <2>2, <3>1, <3>4 DEF LoadProfiles
    <3>6. list \in Seq(Profile) /\ list # <<>>
      BY <3>5 DEF FlashTypeOK, Whole
    <3>7. (IF Len(list) < MaxProfiles THEN Len(list) ELSE MaxProfiles) \in 1 .. Len(list)
      BY <3>6, StoreAssumption
    <3>8. Len(profiles') # 0
      BY <3>5, <3>6, <3>7
    <3> QED
      BY <3>2, <3>8
  <2> QED
    BY <1>1, <2>1, <2>2 DEF BootReads
<1>6. CASE LoadSettings
  BY <1>1, <1>6, NextOp DEF LoadSettings, Returns
<1>7. CASE RestoreDefaults
  <2>1. Head(job) = "restoreDefaults" /\ Has("restoreDefaults")
    BY <1>1, <1>7 DEF RestoreDefaults, Has
  <2>2. at = "booting" /\ Order
    BY <2>1 DEF Jobs
  <2>3. /\ profiles # <<>> /\ job' # <<>> =>
              Head(job') \notin {"defaultProfiles", "restoreDefaults"}
        /\ job' # <<>> => Head(job') # "restoreDefaults"
    BY <1>1, <1>7, <2>2, RestoredOps
  <2>4. UNCHANGED <<mounted, trusted, profiles>>
    BY <1>7 DEF RestoreDefaults
  <2>5. mounted /\ (trusted => profiles # <<>>)
    BY <1>1, <2>1, <2>2 DEF BootReads
  <2> QED
    BY <2>3, <2>4, <2>5 DEF BootReads
<1> QED
  BY <1>2, <1>3, <1>4, <1>5, <1>6, <1>7 DEF Store, StoreStep

LEMMA KeepStep ==
    ASSUME StoreTypeOK(Profile), RangeInv, Jobs, Whole, BootReads, [Next]_vars
    PROVE  Whole' /\ BootReads'
<1> USE DEF SameStore, storeVars, workVars, flashVars, At
<1>1. RamTypeOK /\ FlashTypeOK /\ WorkTypeOK /\ Idle
  BY StoreParts DEF RangeInv
<1>2. CASE Store
  BY <1>1, <1>2, StoreWhole, StoreBoot
<1>3. ASSUME UNCHANGED storeVars, at' # "booting"
      PROVE  Whole' /\ BootReads'
  BY <1>3 DEF Whole, BootReads, Has, ramVars
<1>4. ASSUME UNCHANGED <<flashVars, short, faults, trusted>>, at' # "booting",
             Has("saveProfiles")' => profiles' # <<>>
      PROVE  Whole' /\ BootReads'
  BY <1>4 DEF Whole, BootReads
<1>5. ASSUME NEW next \in {"resetting", "wiping"}, FactoryReset(next)
      PROVE  Whole' /\ BootReads'
  <2>1. ~Has("saveProfiles")'
    BY <1>5, QueuedOps DEF FactoryReset, Queue
  <2> QED
    BY <1>4, <1>5, <2>1 DEF FactoryReset, Queue
<1>6. CASE ButtonReleased
  <2>1. CASE PressCycles
    <3>1. ~Has("saveProfiles")'
      BY <2>1, QueuedOps DEF PressCycles, Queue
    <3> QED
      BY <1>4, <2>1, <3>1 DEF PressCycles, Queue
  <2>2. CASE PressWakes \/ PressLocked \/ HoldCancelled \/ ConfigThreshold
    BY <1>3, <2>2 DEF PressWakes, PressLocked, HoldCancelled, ConfigThreshold
  <2> QED
    BY <1>6, <2>1, <2>2 DEF ButtonReleased
<1>7. CASE ButtonHeld
  BY <1>3, <1>5, <1>7 DEF ButtonHeld
<1>8. CASE Serve
  <2>1. ASSUME NEW list \in Uploads, PostProfiles(list)
        PROVE  Whole' /\ BootReads'
    <3>1. list \in Seq(Profile) /\ Len(list) # 0 /\ profiles' = list
      BY <2>1, UiAssumption DEF PostProfiles, ReplaceAll
    <3> QED
      BY <1>4, <2>1, <3>1 DEF PostProfiles, Queue
  <2>2. ASSUME NEW index, NEW alwaysOn, PostSettings(index, alwaysOn)
        PROVE  Whole' /\ BootReads'
    <3>1. ~Has("saveProfiles")'
      BY <2>2, QueuedOps DEF PostSettings, Queue
    <3> QED
      BY <1>4, <2>2, <3>1 DEF PostSettings, Queue
  <2>3. CASE Unserved \/ PostExit
    BY <1>3, <2>3 DEF Unserved, PostExit
  <2>4. CASE PostFactoryReset
    BY <1>5, <2>4 DEF PostFactoryReset
  <2> QED
    BY <1>8, <2>1, <2>2, <2>3, <2>4 DEF Serve
<1>9. CASE PowerOn
  <2>1. job = <<>> /\ UNCHANGED <<ramVars, short>> /\ Begin /\ at' = "booting"
    BY <1>1, <1>9 DEF PowerOn, Idle, Begin
  <2>5. Fails \/ UNCHANGED faults
    BY <2>1 DEF Begin
  <2>2. CASE /\ mounted' = TRUE
             /\ job' = BeginOps({f \in File : file[f] # {}} \cup torn)
             /\ UNCHANGED <<file, torn, faults, trusted>>
    <3>1. ~Has("saveProfiles")' /\ Head(job') # "restoreDefaults"
      BY <2>2, BegunOps
    <3>2. ASSUME trusted PROVE Head(job') # "defaultProfiles"
      <4>1. "profiles" \in {f \in File : file[f] # {}} \cup torn
        BY <3>2 DEF Whole, File
      <4> QED
        BY <2>2, <4>1, BegunOps
    <3> QED
      BY <2>1, <2>2, <3>1, <3>2 DEF Whole, BootReads
  <2>3. CASE /\ mounted' = TRUE
             /\ file' = [f \in File |-> {}] /\ torn' = {}
             /\ trusted' = FALSE
             /\ job' = BeginOps({})
    <3>1. ~Has("saveProfiles")' /\ file'["profiles"] = {}
      BY <2>3, BegunOps DEF File
    <3>2. short => faults' # 0
      BY <1>1, <2>1, <2>5, FaultsStay DEF Whole
    <3> QED
      BY <2>1, <2>3, <3>1, <3>2 DEF Whole, BootReads
  <2>4. CASE UNCHANGED <<file, torn, job, trusted>>
    <3>1. short \/ torn # {} => faults' # 0
      BY <1>1, <2>5, FaultsStay DEF Whole
    <3> QED
      BY <2>1, <2>4, <3>1 DEF Whole, BootReads, Has, ramVars
  <2> QED
    BY <2>1, <2>2, <2>3, <2>4 DEF Begin
<1>10. CASE PowerLoss
  <2>1. job' = <<>> /\ ~short' /\ UNCHANGED <<file, torn, faults, trusted>>
    BY <1>10 DEF PowerLoss, StoreLosesPower
  <2>2. ~Has("saveProfiles")'
    BY <2>1, QueuedOps
  <2> QED
    BY <1>10, <2>1, <2>2 DEF PowerLoss, Whole, BootReads
<1>11. CASE \/ Setup \/ Turn \/ NothingPressed \/ Cycled \/ WasReset \/ DisplayUpdate
            \/ WifiExits \/ HandleClient \/ Posted \/ Wiped \/ NoCommand \/ Command
  <2>1. UNCHANGED storeVars /\ at' # "booting"
    BY <1>11 DEF Setup, Turn, NothingPressed, Cycled, WasReset, DisplayUpdate,
       AfterDisplay, WifiExits, HandleClient, Posted, Wiped, NoCommand, Command
  <2> QED
    BY <1>3, <2>1
<1>12. CASE UNCHANGED vars
  BY <1>12 DEF vars, Whole, BootReads, Has, ramVars
<1> QED
  BY <1>2, <1>6, <1>7, <1>8, <1>9, <1>10, <1>11, <1>12 DEF Next, Device

LEMMA KeepHolds ==
    ASSUME StoreTypeOK(Profile), Jobs, BootReads
    PROVE  BootKeepsTheList
<1> SUFFICES ASSUME at = "booting", trusted, NEW i \in 1 .. Len(job)
             PROVE  job[i] # "defaultProfiles"
  BY DEF BootKeepsTheList, Has
<1>1. job \in Seq(Op) /\ job # <<>> /\ Head(job) = job[1]
  BY DEF StoreTypeOK
<1>2. job[1] # "defaultProfiles"
  BY <1>1 DEF BootReads
<1>3. i \in 2 .. Len(job) => job[i] # "defaultProfiles"
  BY DEF Jobs, Order
<1> QED
  BY <1>1, <1>2, <1>3

LEMMA JobsInit == Init => Jobs
<1> SUFFICES ASSUME job = <<>> PROVE Jobs
  BY DEF Init, StoreInit
<1>1. \A op : ~Has(op)
  BY DEF Has
<1>2. Order
  BY DEF Order
<1> QED
  BY <1>1, <1>2 DEF Jobs

LEMMA KeepInit == Init => Whole /\ BootReads
<1> SUFFICES ASSUME Init PROVE Whole /\ BootReads
  OBVIOUS
<1>1. file["profiles"] = {}
  BY DEF Init, StoreInit, File
<1>2. ~Has("saveProfiles")
  BY DEF Init, StoreInit, Has
<1>3. ~short /\ torn = {} /\ ~trusted
  BY Zenon DEF Init, StoreInit
<1>4. BootReads
  BY DEF Init, BootReads
<1> QED
  BY <1>1, <1>2, <1>3, <1>4 DEF Whole

(* Power lost between any two steps, a write found short, a rename that    *)
(* fails: a boot writes the default profiles over the user's only where    *)
(* the flash had lost them already, to a format, a read, a removal or a    *)
(* close that failed.                                                      *)
THEOREM ListKept == Spec => []BootKeepsTheList
<1>1. TypeOK /\ RangeInv /\ [Next]_vars => RangeInv'
  BY RangeStep DEF TypeOK
<1>2. TypeOK /\ RangeInv /\ Jobs /\ [Next]_vars => Jobs'
  BY JobsStep DEF TypeOK
<1>3. TypeOK /\ RangeInv /\ Jobs /\ Whole /\ BootReads /\ [Next]_vars =>
        Whole' /\ BootReads'
  BY KeepStep DEF TypeOK
<1>4. TypeOK /\ Jobs /\ BootReads => BootKeepsTheList
  BY KeepHolds DEF TypeOK
<1> QED
  BY <1>1, <1>2, <1>3, <1>4, RangeInit, JobsInit, KeepInit, TypeCorrect, PTL DEF Spec

-----------------------------------------------------------------------------
(* As long as the flash works, each file holds what is in RAM unless a     *)
(* save or a load of it is still to be done.                               *)

Fitting ==
    /\ \A list \in file["profiles"] : Len(list) <= MaxProfiles
    /\ Has("saveProfiles") => Len(profiles) <= MaxProfiles
    /\ \A f \in File : \A d, e \in file[f] : d = e

SettingsKept == \E s \in file["settings"] : Clamped(s, Len(profiles)) = settings

Fresh ==
    faults = 0 =>
        /\ at # "off" => mounted
        /\ step \in {"open", "serialize", "rename"}
        /\ at # "off" /\ ~Has("saveProfiles") /\ ~Has("loadProfiles") =>
              file["profiles"] = {profiles}
        /\ at # "off" /\ ~Has("saveSettings") /\ ~Has("loadSettings") => SettingsKept
        /\ Has("loadProfiles") /\ ~Has("defaultProfiles") => file["profiles"] # {}
        /\ Has("loadSettings") /\ ~Has("defaultSettings") => file["settings"] # {}

LEMMA FittingRenamed ==
    ASSUME FlashTypeOK, WorkTypeOK, Jobs, Whole, Fitting,
           job # <<>>, Head(job) \in Writes, Renamed
    PROVE  Fitting'
<1> DEFINE op == Head(job)
<1>1. job \in Seq(Op) /\ job' = Tail(job) /\ ~Has("saveProfiles")'
  BY HasOfTail DEF WorkTypeOK, Renamed, Returns, Jobs
<1>2. op = "saveProfiles" => Has("saveProfiles")
  BY <1>1 DEF Has
<1>3. op = "defaultProfiles" => Len(Document(op)) <= MaxProfiles
  BY StoreAssumption DEF Document
<1>4. FileOf(op) = "profiles" => Len(Document(op)) <= MaxProfiles
  BY <1>2, <1>3 DEF FileOf, Document, Fitting, Writes
<1>5. FileOf(op) \in File
  BY DEF FileOf, File
<1>6. file' = [file EXCEPT ![FileOf(op)] = IF short THEN {} ELSE {Document(op)}]
  BY DEF Renamed
<1>7. /\ file'[FileOf(op)] \subseteq {Document(op)}
      /\ \A f \in File : f # FileOf(op) => file'[f] = file[f]
  BY <1>5, <1>6 DEF FlashTypeOK
<1>8. \A list \in file'["profiles"] : Len(list) <= MaxProfiles
  BY <1>4, <1>7 DEF Fitting, File
<1>9. \A f \in File : \A d, e \in file'[f] : d = e
  BY <1>7 DEF Fitting
<1> QED
  BY <1>1, <1>8, <1>9 DEF Fitting

LEMMA StoreFitting ==
    ASSUME FlashTypeOK, WorkTypeOK, Jobs, Whole, Fitting, Store
    PROVE  Fitting'
<1> USE DEF Writing, Doing, ramVars, flashVars
<1>1. job \in Seq(Op) /\ job # <<>>
  BY StoreMoves DEF WorkTypeOK
<1>2. CASE OpenTmp \/ Serialize \/ CloseFails \/ RenameFails
  BY <1>2 DEF OpenTmp, Serialize, CloseFails, RenameFails, Fitting, Has
<1>3. CASE \/ OpenTmpFails \/ ShortWrite \/ RenameAgainFails
           \/ LoadProfiles \/ LoadSettings
  <2>1. UNCHANGED file /\ job' = Tail(job)
    BY <1>3 DEF OpenTmpFails, ShortWrite, RenameAgainFails, LoadProfiles, LoadSettings,
       Returns
  <2>2. ~Has("saveProfiles")'
    BY <1>1, <2>1, HasOfTail DEF Jobs
  <2> QED
    BY <2>1, <2>2 DEF Fitting
<1>4. CASE Rename \/ RenameAgain
  BY <1>4, FittingRenamed DEF Rename, RenameAgain
<1>5. CASE RemoveTarget
  <2>1. FileOf(Head(job)) \in File
    BY DEF FileOf, File
  <2>2. UNCHANGED <<ramVars, job>>
        /\ (UNCHANGED file \/ file' = [file EXCEPT ![FileOf(Head(job))] = {}])
    BY <1>5 DEF RemoveTarget
  <2>3. /\ \A list \in file'["profiles"] : Len(list) <= MaxProfiles
        /\ \A f \in File : \A d, e \in file'[f] : d = e
    BY <2>1, <2>2 DEF Fitting, FlashTypeOK, File
  <2> QED
    BY <2>2, <2>3 DEF Fitting, Has
<1>6. CASE RestoreDefaults
  <2>1. Has("restoreDefaults")
    BY <1>1, <1>6 DEF RestoreDefaults, Has
  <2>2. ~Has("saveProfiles")'
    BY <1>1, <1>6, <2>1, RestoredOps DEF Jobs
  <2> QED
    BY <1>6, <2>2 DEF RestoreDefaults, Fitting
<1> QED
  BY <1>2, <1>3, <1>4, <1>5, <1>6 DEF Store, StoreStep

LEMMA NoFault ==
    ASSUME WorkTypeOK, Store, faults' = 0
    PROVE  faults = 0 /\ ~Fails
<1>1. ~Fails
  BY StoreAssumption DEF WorkTypeOK, Fails
<1>2. UNCHANGED faults
  BY <1>1 DEF Store, StoreStep, OpenTmp, OpenTmpFails, Serialize, CloseFails,
     ShortWrite, Rename, RenameFails, RemoveTarget, RenameAgain,
     RenameAgainFails, LoadProfiles, LoadSettings, RestoreDefaults, Renamed
<1> QED
  BY <1>1, <1>2

LEMMA FreshRenamed ==
    ASSUME RamTypeOK, FlashTypeOK, WorkTypeOK, RangeInv, Jobs, Whole, Fresh,
           job # <<>>, Head(job) \in Writes, Renamed, UNCHANGED at,
           faults = 0, at # "off"
    PROVE  Fresh'
<1> DEFINE op == Head(job)
<1>1. job \in Seq(Op) /\ job' = Tail(job) /\ UNCHANGED <<profiles, settings>>
      /\ step' = "open"
  BY DEF WorkTypeOK, Renamed, Returns, ramVars
<1>2. mounted'
  <2>1. mounted
    BY DEF Fresh
  <2> QED
    BY <2>1, Zenon DEF Renamed
<1>3. /\ \A o : Has(o)' => Has(o)
      /\ \A o : Has(o) /\ op # o => Has(o)'
      /\ ~Has("saveProfiles")' /\ ~Has("defaultProfiles")'
  BY <1>1, HasOfTail DEF Jobs
<1>4. short = FALSE /\ FileOf(op) \in File
  <2>1. short = FALSE
    BY WholeUnfailed
  <2> QED
    BY <2>1 DEF FileOf, File
<1>5. file' = [file EXCEPT ![FileOf(op)] = {Document(op)}]
  BY <1>4 DEF Renamed
<1>6. /\ file'[FileOf(op)] = {Document(op)}
      /\ \A f \in File : f # FileOf(op) => file'[f] = file[f]
  BY <1>4, <1>5 DEF FlashTypeOK
<1>7. job[1] = op /\ 1 \in 1 .. Len(job) /\ Has(op)
  BY <1>1 DEF Has
<1>8. LastLoads => Has("loadSettings")
  BY <1>1 DEF LastLoads, Has
<1>9. ASSUME ~Has("saveProfiles")', ~Has("loadProfiles")'
      PROVE  file'["profiles"] = {profiles}
  <2>1. CASE op = "saveProfiles"
    BY <1>6, <2>1 DEF FileOf, Document
  <2>2. CASE op = "defaultProfiles"
    BY <1>3, <1>7, <1>9, <2>2 DEF Jobs
  <2>3. CASE op \in {"saveSettings", "defaultSettings"}
    <3>1. ~Has("saveProfiles") /\ ~Has("loadProfiles")
      BY <1>3, <1>9, <2>3
    <3> QED
      BY <1>6, <2>3, <3>1 DEF FileOf, File, Fresh
  <2> QED
    BY <2>1, <2>2, <2>3 DEF Writes
<1>10. ASSUME ~Has("saveSettings")', ~Has("loadSettings")'
       PROVE  SettingsKept'
  <2>1. CASE op \in {"saveProfiles", "defaultProfiles"}
    <3>1. ~Has("saveSettings") /\ ~Has("loadSettings")
      BY <1>3, <1>10, <2>1
    <3>2. file'["settings"] = file["settings"]
      BY <1>6, <2>1 DEF FileOf, File
    <3> QED
      BY <1>1, <3>1, <3>2 DEF Fresh, SettingsKept
  <2>2. CASE op = "saveSettings"
    <3>1. ~Has("loadSettings") /\ ~Has("saveProfiles")
      BY <1>3, <1>10, <2>2
    <3>2. ~LastLoads /\ ~Has("loadProfiles")
      BY <1>8, <3>1 DEF RangeInv, JobShape, Has
    <3>3. profiles # <<>> /\ settings.active < Len(profiles)
      BY <3>1, <3>2 DEF Fresh, Whole, RangeInv, InRange
    <3>4. Clamped(settings, Len(profiles)) = settings
      BY <3>3 DEF Clamped
    <3>5. file'["settings"] = {settings}
      BY <1>6, <2>2 DEF FileOf, Document
    <3> QED
      BY <1>1, <3>4, <3>5 DEF SettingsKept
  <2>3. CASE op = "defaultSettings"
    <3>1. LastLoads
      BY <1>7, <2>3 DEF RangeInv, JobShape
    <3> QED
      BY <1>3, <1>8, <1>10, <2>3, <3>1
  <2> QED
    BY <2>1, <2>2, <2>3 DEF Writes
<1>11. Has("loadProfiles")' => file'["profiles"] # {}
  <2>1. CASE FileOf(op) = "profiles"
    BY <1>6, <2>1
  <2>2. CASE FileOf(op) # "profiles"
    <3>1. op # "defaultProfiles" /\ file'["profiles"] = file["profiles"]
      BY <1>6, <2>2 DEF FileOf, File
    <3>2. ~Has("defaultProfiles")
      BY <1>3, <3>1
    <3> QED
      BY <1>3, <3>1, <3>2 DEF Fresh
  <2> QED
    BY <2>1, <2>2
<1>12. Has("loadSettings")' /\ ~Has("defaultSettings")' => file'["settings"] # {}
  <2>1. CASE FileOf(op) = "settings"
    BY <1>6, <2>1
  <2>2. CASE FileOf(op) # "settings"
    <3>1. op # "defaultSettings" /\ file'["settings"] = file["settings"]
      BY <1>6, <2>2 DEF FileOf, File
    <3> QED
      BY <1>3, <3>1 DEF Fresh
  <2> QED
    BY <2>1, <2>2
<1> QED
  BY <1>1, <1>2, <1>9, <1>10, <1>11, <1>12 DEF Fresh

LEMMA StoreFresh ==
    ASSUME RamTypeOK, FlashTypeOK, WorkTypeOK, RangeInv, Jobs, Whole, Fitting, Fresh, Store
    PROVE  Fresh'
<1> SUFFICES ASSUME faults' = 0 PROVE Fresh'
  BY DEF Fresh
<1> USE DEF Writing, Doing, ramVars, flashVars
<1>1. faults = 0 /\ ~Fails
  BY NoFault
<1>2. job \in Seq(Op) /\ job # <<>> /\ UNCHANGED at /\ at # "off"
  BY StoreMoves DEF WorkTypeOK, RangeInv, Idle
<1>3. mounted /\ step \in {"open", "serialize", "rename"}
  BY <1>1, <1>2 DEF Fresh
<1>4. CASE OpenTmp \/ Serialize
  <2>1. /\ UNCHANGED <<profiles, settings, file, job, at>> /\ mounted'
        /\ step' \in {"open", "serialize", "rename"}
    BY <1>2, <1>3, <1>4 DEF OpenTmp, Serialize
  <2> QED
    BY <1>1, <2>1 DEF Fresh, SettingsKept, Has
<1>5. CASE \/ OpenTmpFails \/ CloseFails \/ ShortWrite \/ RenameFails
           \/ RemoveTarget \/ RenameAgain \/ RenameAgainFails
  <2>1. ~short
    BY <1>1, WholeUnfailed
  <2> QED
    BY <1>1, <1>3, <1>5, <2>1 DEF OpenTmpFails, CloseFails, ShortWrite, RenameFails,
       RemoveTarget, RenameAgain, RenameAgainFails
<1>6. CASE Rename
  BY <1>1, <1>2, <1>6, FreshRenamed DEF Rename
<1>7. CASE LoadProfiles
  <2>1. job' = Tail(job) /\ Head(job) = "loadProfiles" /\ Has("loadProfiles")
        /\ job[1] = "loadProfiles" /\ 1 \in 1 .. Len(job)
        /\ UNCHANGED <<file, settings>> /\ step' = "open"
    BY <1>2, <1>7 DEF LoadProfiles, Returns, Has
  <2>2. mounted'
    BY <1>3, <1>7 DEF LoadProfiles
  <2>3. /\ \A o : Has(o)' => Has(o)
        /\ \A o : Has(o) /\ "loadProfiles" # o => Has(o)'
        /\ ~Has("saveProfiles")' /\ ~Has("defaultProfiles")'
    BY <1>2, <2>1, HasOfTail DEF Jobs
  <2>4. ~Has("defaultProfiles") /\ file["profiles"] # {}
    BY <1>1, <2>1, <2>3 DEF Fresh
  <2>5. PICK list \in file["profiles"] :
          profiles' = SubSeq(list, 1, IF Len(list) < MaxProfiles
                                      THEN Len(list) ELSE MaxProfiles)
    BY <1>1, <1>3, <1>7, <2>4 DEF LoadProfiles
  <2>6. list \in Seq(Profile) /\ Len(list) <= MaxProfiles /\ Len(list) \in Nat
    BY <2>5 DEF FlashTypeOK, Fitting
  <2>7. (IF Len(list) < MaxProfiles THEN Len(list) ELSE MaxProfiles) = Len(list)
    BY <2>6, StoreAssumption
  <2>8. profiles' = list
    BY <2>5, <2>6, <2>7
  <2>9. file["profiles"] = {profiles'}
    BY <2>5, <2>8 DEF Fitting, File
  <2>10. LastLoads /\ Has("loadSettings")'
    <3>1. LastLoads
      BY <2>1 DEF RangeInv, JobShape
    <3>2. Has("loadSettings")
      BY <1>2, <3>1 DEF LastLoads, Has
    <3> QED
      BY <2>3, <3>1, <3>2
  <2>11. ~Has("defaultSettings")' => file["settings"] # {}
    <3>1. ~Has("defaultSettings")' => ~Has("defaultSettings")
      BY <2>3
    <3> QED
      BY <1>1, <2>3, <2>10, <3>1 DEF Fresh
  <2> QED
    BY <2>1, <2>2, <2>4, <2>9, <2>10, <2>11 DEF Fresh
<1>8. CASE LoadSettings
  <2>1. job' = Tail(job) /\ Head(job) = "loadSettings" /\ Has("loadSettings")
        /\ UNCHANGED <<file, profiles>> /\ step' = "open"
    BY <1>2, <1>8 DEF LoadSettings, Returns, Has
  <2>2. mounted'
    BY <1>3, <1>8 DEF LoadSettings
  <2>3. /\ \A o : Has(o)' => Has(o)
        /\ \A o : Has(o) /\ "loadSettings" # o => Has(o)'
        /\ ~Has("defaultSettings")'
    BY <1>2, <2>1, HasOfTail DEF Jobs
  <2>4. ~Has("defaultSettings") /\ file["settings"] # {}
    BY <1>1, <2>1, <2>3 DEF Fresh
  <2>5. \E s \in file["settings"] : settings' = Clamped(s, Len(profiles))
    BY <1>1, <1>3, <1>8, <2>4 DEF LoadSettings
  <2>6. SettingsKept'
    BY <2>1, <2>5 DEF SettingsKept
  <2>7. ~Has("saveProfiles")' /\ ~Has("loadProfiles")' => file'["profiles"] = {profiles'}
    BY <1>1, <1>2, <2>1, <2>3 DEF Fresh
  <2>8. Has("loadProfiles")' /\ ~Has("defaultProfiles")' => file'["profiles"] # {}
    BY <1>1, <2>1, <2>3 DEF Fresh
  <2> QED
    BY <2>1, <2>2, <2>4, <2>6, <2>7, <2>8 DEF Fresh
<1>9. CASE RestoreDefaults
  <2>1. /\ UNCHANGED <<profiles, settings, file, step>> /\ mounted'
    BY <1>3, <1>9 DEF RestoreDefaults
  <2>2. /\ \A op : Has(op) /\ op # "restoreDefaults" => Has(op)'
        /\ \/ Has("defaultProfiles")' /\ Has("loadProfiles")'
           \/ \A op : Has(op)' => Has(op)
        /\ \A op : Has(op)' => Has(op) \/ op \in {"defaultProfiles", "loadProfiles"}
    BY <1>2, <1>9, RestoredOps DEF Jobs
  <2>3. SettingsKept => SettingsKept'
    BY <2>1 DEF SettingsKept
  <2> QED
    BY <1>1, <1>2, <1>3, <2>1, <2>2, <2>3 DEF Fresh
<1> QED
  BY <1>4, <1>5, <1>6, <1>7, <1>8, <1>9 DEF Store, StoreStep

LEMMA FreshStep ==
    ASSUME StoreTypeOK(Profile), RangeInv, Jobs, Whole, Fitting, Fresh, [Next]_vars
    PROVE  Fitting' /\ Fresh'
<1> USE DEF SameStore, storeVars, workVars, flashVars, At
<1>1. RamTypeOK /\ FlashTypeOK /\ WorkTypeOK /\ Idle
  BY StoreParts DEF RangeInv
<1>2. CASE Store
  BY <1>1, <1>2, StoreFitting, StoreFresh
<1>3. ASSUME UNCHANGED storeVars, at # "off" \/ UNCHANGED at
      PROVE  Fitting' /\ Fresh'
  <2>1. /\ UNCHANGED <<profiles, settings, file, job, step, faults>> /\ (mounted => mounted')
    BY <1>3, Zenon DEF ramVars
  <2> QED
    BY <1>3, <2>1 DEF Fitting, Fresh, SettingsKept, Has
<1>4. ASSUME UNCHANGED mounted, UNCHANGED file, UNCHANGED step, UNCHANGED faults, at # "off",
             Has("saveSettings")' \/ (Has("loadSettings")' /\ Has("defaultSettings")'),
             Has("saveProfiles")' => Len(profiles') <= MaxProfiles,
             \/ Has("saveProfiles")'
             \/ Has("loadProfiles")' /\ Has("defaultProfiles")'
             \/ UNCHANGED profiles /\ ~Has("saveProfiles") /\ ~Has("loadProfiles"),
             Has("loadProfiles")' => Has("defaultProfiles")',
             Has("loadSettings")' => Has("defaultSettings")'
      PROVE  Fitting' /\ Fresh'
  <2>1. Fitting'
    BY <1>4 DEF Fitting
  <2>2. UNCHANGED <<file, step, faults>> /\ (mounted => mounted')
    BY <1>4, Zenon
  <2>3. faults = 0 /\ ~Has("saveProfiles")' /\ ~Has("loadProfiles")' =>
            file'["profiles"] = {profiles'}
    BY <1>4, <2>2 DEF Fresh
  <2> QED
    BY <1>4, <2>1, <2>2, <2>3 DEF Fresh
<1>5. ASSUME NEW next, FactoryReset(next), at # "off"
      PROVE  Fitting' /\ Fresh'
  <2>1. \A op : Has(op)' <=> op \in {"defaultProfiles", "defaultSettings",
                                   "loadProfiles", "loadSettings"}
    BY <1>5, QueuedOps DEF FactoryReset, Queue
  <2>2. ~Has("saveProfiles")' /\ Has("defaultProfiles")' /\ Has("loadProfiles")'
        /\ Has("loadSettings")' /\ Has("defaultSettings")'
    BY <2>1
  <2> QED
    BY <1>4, <1>5, <2>2 DEF FactoryReset, Queue
<1>6. ASSUME at \in {"button", "serve"}
      PROVE  \A op : ~Has(op)
  BY <1>1, <1>6 DEF Idle, Has
<1>7. CASE ButtonReleased
  <2>1. CASE PressCycles
    <3>1. \A op : Has(op)' <=> op = "saveSettings"
      BY <2>1, QueuedOps DEF PressCycles, Queue
    <3>2. Has("saveSettings")' /\ ~Has("saveProfiles")' /\ ~Has("loadProfiles")'
          /\ ~Has("loadSettings")'
      BY <3>1
    <3>3. UNCHANGED profiles /\ UNCHANGED mounted /\ UNCHANGED file /\ UNCHANGED step
          /\ UNCHANGED faults /\ at # "off"
          /\ ~Has("saveProfiles") /\ ~Has("loadProfiles")
      BY <1>6, <1>7, <2>1 DEF ButtonReleased, PressCycles, Queue
    <3> QED
      BY <1>4, <3>2, <3>3, Zenon
  <2>2. CASE PressWakes \/ PressLocked \/ HoldCancelled \/ ConfigThreshold
    BY <1>3, <1>7, <2>2 DEF ButtonReleased, PressWakes, PressLocked, HoldCancelled,
       ConfigThreshold
  <2> QED
    BY <1>7, <2>1, <2>2 DEF ButtonReleased
<1>8. CASE ButtonHeld
  BY <1>3, <1>5, <1>8 DEF ButtonHeld
<1>9. CASE Serve
  <2>1. ASSUME NEW list \in Uploads, PostProfiles(list)
        PROVE  Fitting' /\ Fresh'
    <3>1. \A op : Has(op)' <=> op \in {"saveProfiles", "saveSettings"}
      BY <2>1, QueuedOps DEF PostProfiles, Queue
    <3>2. Has("saveSettings")' /\ Has("saveProfiles")' /\ ~Has("loadProfiles")'
          /\ ~Has("loadSettings")'
      BY <3>1
    <3>3. UNCHANGED mounted /\ UNCHANGED file /\ UNCHANGED step /\ UNCHANGED faults /\ at # "off"
          /\ Len(profiles') <= MaxProfiles
      BY <2>1, StoreAssumption DEF PostProfiles, Queue, ReplaceAll
    <3> QED
      BY <1>4, <3>2, <3>3, Zenon
  <2>2. ASSUME NEW index, NEW alwaysOn, PostSettings(index, alwaysOn)
        PROVE  Fitting' /\ Fresh'
    <3>1. \A op : Has(op)' <=> op = "saveSettings"
      BY <2>2, QueuedOps DEF PostSettings, Queue
    <3>2. Has("saveSettings")' /\ ~Has("saveProfiles")' /\ ~Has("loadProfiles")'
          /\ ~Has("loadSettings")'
      BY <3>1
    <3>3. UNCHANGED profiles /\ UNCHANGED mounted /\ UNCHANGED file /\ UNCHANGED step
          /\ UNCHANGED faults /\ at # "off"
          /\ ~Has("saveProfiles") /\ ~Has("loadProfiles")
      BY <1>6, <2>2 DEF PostSettings, Queue
    <3> QED
      BY <1>4, <3>2, <3>3, Zenon
  <2>3. CASE Unserved \/ PostExit
    BY <1>3, <2>3 DEF Unserved, PostExit
  <2>4. CASE PostFactoryReset
    BY <1>5, <2>4 DEF PostFactoryReset
  <2> QED
    BY <1>9, <2>1, <2>2, <2>3, <2>4 DEF Serve
<1>10. CASE PowerOn
  <2>1. job = <<>> /\ UNCHANGED <<ramVars, step>> /\ Begin
    BY <1>1, <1>10 DEF PowerOn, Idle, Begin
  <2>2. CASE /\ mounted' = TRUE
             /\ job' = BeginOps({f \in File : file[f] # {}} \cup torn)
             /\ UNCHANGED <<file, torn, faults, trusted>>
    <3> DEFINE exist == {f \in File : file[f] # {}} \cup torn
    <3>1. /\ ~Has("saveProfiles")' /\ Has("loadProfiles")' /\ Has("loadSettings")'
          /\ "profiles" \in exist <=> ~Has("defaultProfiles")'
          /\ "settings" \in exist <=> ~Has("defaultSettings")'
      BY <2>2, BegunOps
    <3>2. faults = 0 =>
            /\ "profiles" \in exist => file["profiles"] # {}
            /\ "settings" \in exist => file["settings"] # {}
      BY DEF Whole
    <3> QED
      BY <2>1, <2>2, <3>1, <3>2 DEF Fitting, Fresh
  <2>3. CASE Fails
    <3>1. faults' # 0
      BY <1>1, <2>3, StoreAssumption DEF WorkTypeOK, Fails
    <3>2. ~Has("saveProfiles")'
      <4>1. CASE UNCHANGED job
        BY <2>1, <4>1, QueuedOps
      <4>2. CASE \E exist : job' = BeginOps(exist)
        BY <4>2, BegunOps
      <4> QED
        BY <2>1, <4>1, <4>2 DEF Begin
    <3>3. UNCHANGED file \/ file' = [f \in File |-> {}]
      BY <2>1 DEF Begin
    <3>4. /\ \A list \in file'["profiles"] : Len(list) <= MaxProfiles
          /\ \A f \in File : \A d, e \in file'[f] : d = e
      BY <3>3 DEF Fitting, File
    <3> QED
      BY <3>1, <3>2, <3>4 DEF Fitting, Fresh
  <2> QED
    BY <2>1, <2>2, <2>3 DEF Begin
<1>11. CASE PowerLoss
  <2>1. job' = <<>> /\ UNCHANGED <<file, faults>> /\ step' = "open" /\ at' = "off"
    BY <1>11 DEF PowerLoss, StoreLosesPower
  <2>2. \A op : ~Has(op)'
    BY <2>1, QueuedOps
  <2> QED
    BY <2>1, <2>2 DEF Fitting, Fresh
<1>12. CASE \/ Setup \/ Turn \/ NothingPressed \/ Cycled \/ WasReset \/ DisplayUpdate
            \/ WifiExits \/ HandleClient \/ Posted \/ Wiped \/ NoCommand \/ Command
  <2>1. UNCHANGED storeVars /\ at # "off"
    BY <1>12 DEF Setup, Turn, NothingPressed, Cycled, WasReset, DisplayUpdate,
       AfterDisplay, WifiExits, HandleClient, Posted, Wiped, NoCommand, Command
  <2> QED
    BY <1>3, <2>1
<1>13. CASE UNCHANGED vars
  <2>1. UNCHANGED storeVars /\ UNCHANGED at
    BY <1>13 DEF vars
  <2> QED
    BY <1>3, <2>1
<1> QED
  BY <1>2, <1>7, <1>8, <1>9, <1>10, <1>11, <1>12, <1>13 DEF Next, Device

LEMMA FreshInit == Init => Fitting /\ Fresh
<1> SUFFICES ASSUME Init PROVE Fitting /\ Fresh
  OBVIOUS
<1>1. \A f \in File : file[f] = {}
  BY DEF Init, StoreInit
<1>2. \A op : ~Has(op)
  BY DEF Init, StoreInit, Has
<1>3. at = "off" /\ step = "open"
  BY DEF Init, StoreInit
<1> QED
  BY <1>1, <1>2, <1>3 DEF Fitting, Fresh, File

(* Through every press, request, reset and power loss, as long as no flash *)
(* operation fails: what loop() works with is what the next boot loads.    *)
THEOREM RamIsKept == Spec => []RamIsFlash
<1>1. TypeOK /\ RangeInv /\ [Next]_vars => RangeInv'
  BY RangeStep DEF TypeOK
<1>2. TypeOK /\ RangeInv /\ Jobs /\ [Next]_vars => Jobs'
  BY JobsStep DEF TypeOK
<1>3. TypeOK /\ RangeInv /\ Jobs /\ Whole /\ BootReads /\ [Next]_vars =>
        Whole' /\ BootReads'
  BY KeepStep DEF TypeOK
<1>4. TypeOK /\ RangeInv /\ Jobs /\ Whole /\ Fitting /\ Fresh /\ [Next]_vars =>
        Fitting' /\ Fresh'
  BY FreshStep DEF TypeOK
<1>5. RangeInv /\ Fresh => RamIsFlash
  BY DEF RangeInv, Idle, Fresh, Has, SettingsKept, RamIsFlash
<1> QED
  BY <1>1, <1>2, <1>3, <1>4, <1>5, RangeInit, JobsInit, KeepInit, FreshInit, TypeCorrect,
     PTL DEF Spec

-----------------------------------------------------------------------------
(* The status screen                                                       *)

\* Requests come in config mode only, and the display knows the radio.
RadioInv ==
    /\ at \in {"serve", "posting", "wiping"} => wifiActive
    /\ wifiActive => apOn
    /\ oledWifi <=> apOn
    /\ at \in {"off", "booting"} => ~oled /\ ~apOn

LEMMA RadioKept ==
    ASSUME RadioInv, UNCHANGED wifiActive, UNCHANGED apOn, oledWifi' = oledWifi,
           at' \in {"serve", "posting", "wiping"} =>
               at \in {"serve", "posting", "wiping"} \/ wifiActive,
           at' \in {"off", "booting"} =>
               at \in {"off", "booting"} /\ (oled' => oled)
    PROVE  RadioInv'
<1>1. /\ wifiActive' <=> wifiActive
      /\ apOn' <=> apOn
      /\ oledWifi' <=> oledWifi
  BY Zenon
<1> QED
  BY <1>1 DEF RadioInv

LEMMA DrawKeepsOled ==
    ASSUME NEW layout, NEW tv, NEW action, Draw(layout, tv, action)
    PROVE  UNCHANGED oled
  BY DEF Draw, Absent

LEMMA HoldKeepsRadio ==
    ASSUME HoldScreen
    PROVE  oledWifi' = oledWifi
  BY DEF HoldScreen, SameDisplay, displayVars, ShowResetBar, ShowHoldBar, ShowBar,
     ShowConfigRelease

LEMMA ExitsRadio ==
    ASSUME RadioInv, FinishExitWifi, at' \in {"display", "hid"}
    PROVE  RadioInv'
<1>1. ~wifiActive' /\ ~apOn' /\ ~oledWifi'
  BY Zenon DEF FinishExitWifi, ShowStatus
<1> QED
  BY <1>1 DEF RadioInv

LEMMA RadioStep ==
    ASSUME RadioInv, [Next]_vars
    PROVE  RadioInv'
<1> USE DEF SameDisplay, SameUi, displayVars, uiVars, At
<1>1. CASE \/ PowerOn \/ Store \/ Turn \/ NothingPressed \/ NoCommand
           \/ Unserved \/ PostFactoryReset
  <2>1. /\ UNCHANGED wifiActive /\ UNCHANGED apOn /\ oledWifi' = oledWifi /\ UNCHANGED oled
        /\ at' \in {"serve", "posting", "wiping"} => at \in {"serve", "posting", "wiping"}
        /\ at' \in {"off", "booting"} => at \in {"off", "booting"}
    BY <1>1 DEF PowerOn, Store, Turn, NothingPressed, NoCommand, Unserved,
       PostFactoryReset, FactoryReset, DisplayAges
  <2> QED
    BY <2>1, RadioKept
<1>2. CASE HandleClient
  <2>1. /\ UNCHANGED wifiActive /\ UNCHANGED apOn /\ oledWifi' = oledWifi
        /\ wifiActive /\ at' = "serve"
    BY <1>2 DEF HandleClient, DisplayAges
  <2> QED
    BY <2>1, RadioKept
<1>3. ASSUME NEW list, PostProfiles(list)
      PROVE  RadioInv'
  <2>1. /\ UNCHANGED wifiActive /\ UNCHANGED apOn /\ oledWifi' = oledWifi
        /\ at = "serve" /\ at' = "posting"
    BY <1>3 DEF PostProfiles
  <2> QED
    BY <2>1, RadioKept
<1>4. ASSUME NEW index, NEW alwaysOn, PostSettings(index, alwaysOn)
      PROVE  RadioInv'
  <2>1. /\ UNCHANGED wifiActive /\ UNCHANGED apOn /\ oledWifi' = oledWifi
        /\ at = "serve" /\ at' = "posting"
    BY <1>4 DEF PostSettings
  <2> QED
    BY <2>1, RadioKept
<1>5. CASE PostExit \/ Wiped
  <2>1. ~wifiActive' /\ apOn' = apOn /\ oledWifi' = oledWifi
    BY <1>5, Zenon DEF PostExit, Wiped
  <2>2. (apOn' <=> apOn) /\ (oledWifi' <=> oledWifi)
    BY <2>1, Zenon
  <2>3. at' = "hid"
    BY <1>5 DEF PostExit, Wiped
  <2> QED
    BY <2>1, <2>2, <2>3 DEF RadioInv
<1>6. CASE Serve
  BY <1>1, <1>3, <1>4, <1>5, <1>6 DEF Serve
<1>7. CASE ButtonReleased
  <2>1. CASE PressWakes \/ PressLocked \/ PressCycles \/ HoldCancelled
    <3>1. UNCHANGED wifiActive /\ UNCHANGED apOn /\ oledWifi' = oledWifi
      BY <2>1 DEF PressWakes, PressLocked, PressCycles, HoldCancelled, ShowStatus,
         ShowWifiLockMessage
    <3>2. at' \in {"display", "cycling"}
      BY <2>1 DEF PressWakes, PressLocked, PressCycles, HoldCancelled
    <3> QED
      BY <3>1, <3>2, RadioKept
  <2>2. CASE ConfigThreshold
    <3>1. at' = "display"
      BY <2>2 DEF ConfigThreshold
    <3>2. CASE FinishExitWifi
      BY <3>1, <3>2, ExitsRadio
    <3>3. CASE ~wifiActive
      <4>1. wifiActive' /\ apOn' /\ oledWifi'
        BY <2>2, <3>3, Zenon DEF ConfigThreshold, ShowStatus
      <4> QED
        BY <3>1, <4>1 DEF RadioInv
    <3> QED
      BY <2>2, <3>2, <3>3 DEF ConfigThreshold
  <2> QED
    BY <1>7, <2>1, <2>2 DEF ButtonReleased
<1>8. CASE ButtonHeld
  <2>1. UNCHANGED wifiActive /\ UNCHANGED apOn /\ oledWifi' = oledWifi
    BY <1>8, HoldKeepsRadio DEF ButtonHeld, ButtonHold
  <2>2. at' \in {"display", "resetting"}
    BY <1>8 DEF ButtonHeld, FactoryReset
  <2> QED
    BY <2>1, <2>2, RadioKept
<1>9. CASE Cycled \/ Posted \/ Command
  <2>1. UNCHANGED wifiActive /\ UNCHANGED apOn /\ oledWifi' = oledWifi
    BY <1>9 DEF Cycled, Posted, Command, ShowStatus, ShowResult
  <2>2. at' \in {"display", "hid", "top"}
    BY <1>9 DEF Cycled, Posted, Command
  <2> QED
    BY <2>1, <2>2, RadioKept
<1>10. CASE WasReset \/ WifiExits
  <2>1. FinishExitWifi /\ at' \in {"display", "hid"}
    BY <1>10 DEF WasReset, WifiExits
  <2> QED
    BY <2>1, ExitsRadio
<1>11. CASE DisplayUpdate
  <2>1. UNCHANGED wifiActive /\ UNCHANGED apOn /\ oledWifi' = oledWifi
    BY <1>11 DEF DisplayUpdate, TurnsOff, StatusReturns, Expires
  <2>2. at' \in {"wifi", "hid"}
    BY <1>11 DEF DisplayUpdate, AfterDisplay
  <2> QED
    BY <2>1, <2>2, RadioKept
<1>12. CASE Setup
  <2>1. at = "booting" /\ at' = "top" /\ UNCHANGED wifiActive /\ UNCHANGED apOn
    BY <1>12 DEF Setup
  <2>2. CASE SameDisplay
    BY <2>1, <2>2, RadioKept
  <2>3. CASE DisplayStarts(Active.tv, settings.alwaysOn)
    <3>1. ~oledWifi' /\ (apOn' <=> apOn) /\ (wifiActive' <=> wifiActive)
      BY <2>1, <2>3, Zenon DEF DisplayStarts
    <3> QED
      BY <2>1, <3>1 DEF RadioInv
  <2> QED
    BY <1>12, <2>2, <2>3 DEF Setup
<1>13. CASE PowerLoss
  <2>1. ~wifiActive' /\ ~apOn' /\ ~oledWifi' /\ ~oled'
    BY <1>13, Zenon DEF PowerLoss, DisplayLosesPower
  <2>2. at' = "off"
    BY <1>13 DEF PowerLoss
  <2> QED
    BY <2>1, <2>2 DEF RadioInv
<1>14. CASE UNCHANGED vars
  <2>1. /\ UNCHANGED wifiActive /\ UNCHANGED apOn /\ oledWifi' = oledWifi
        /\ UNCHANGED oled /\ UNCHANGED at
    BY <1>14 DEF vars
  <2> QED
    BY <2>1, RadioKept
<1> QED
  BY <1>1, <1>2, <1>5, <1>6, <1>7, <1>8, <1>9, <1>10, <1>11, <1>12, <1>13, <1>14
     DEF Next, Device

LEMMA RadioInit == Init => RadioInv
<1> SUFFICES ASSUME Init PROVE RadioInv
  OBVIOUS
<1>1. ~wifiActive /\ ~apOn /\ ~oledWifi /\ ~oled
  BY Zenon DEF Init, DisplayInit
<1> QED
  BY <1>1 DEF Init, RadioInv

\* Where nothing is under way between RAM and the screen.
Shown == at \in {"top", "button", "display", "wifi", "serve", "hid"}

StatusInv ==
    /\ oled /\ screen \in {"status", "wifiStatus"} => screen = StatusLayout(oledWifi)
    /\ Shown /\ oled /\ (apOn <=> wifiActive) => lastProfile = Active.tv

LEMMA ActiveKept ==
    ASSUME UNCHANGED ramVars
    PROVE  Active' = Active
  BY DEF ramVars, Active, Clamped

LEMMA StatusKept ==
    ASSUME StatusInv, UNCHANGED ramVars, UNCHANGED wifiActive, UNCHANGED apOn,
           oled' => oled, oledWifi' = oledWifi, lastProfile' = lastProfile,
           screen' = screen \/ screen' \notin {"status", "wifiStatus"},
           Shown' => Shown
    PROVE  StatusInv'
<1>1. /\ wifiActive' <=> wifiActive
      /\ apOn' <=> apOn
      /\ oledWifi' <=> oledWifi
  BY Zenon
<1> QED
  BY <1>1, ActiveKept DEF StatusInv, StatusLayout

LEMMA StatusRedrawn ==
    ASSUME NEW alwaysOn, NEW wifi, UNCHANGED ramVars, ShowStatus(Active.tv, alwaysOn, wifi)
    PROVE  StatusInv'
<1>1. oled' => screen' = StatusLayout(wifi) /\ lastProfile' = Active.tv
  BY DEF ShowStatus, Draw, Absent
<1>2. StatusLayout(oledWifi)' = StatusLayout(wifi)
  BY Zenon DEF ShowStatus, StatusLayout
<1> QED
  BY <1>1, <1>2, ActiveKept DEF StatusInv

LEMMA ScreenDrawn ==
    ASSUME NEW layout, NEW tv, NEW action, Draw(layout, tv, action),
           tv = lastProfile \/ tv = Active.tv, StatusInv, UNCHANGED ramVars,
           UNCHANGED wifiActive, UNCHANGED apOn, oledWifi' = oledWifi,
           layout \notin {"status", "wifiStatus"}, Shown
    PROVE  StatusInv'
<1>1. /\ wifiActive' <=> wifiActive
      /\ apOn' <=> apOn
      /\ oledWifi' <=> oledWifi
  BY Zenon
<1>2. CASE Absent
  BY <1>2 DEF Absent, StatusInv
<1>3. CASE ~Absent
  <2>1. oled /\ oled' = oled /\ screen' = layout /\ lastProfile' = tv
    BY <1>3 DEF Draw
  <2> QED
    BY <1>1, <2>1, ActiveKept DEF StatusInv
<1> QED
  BY <1>2, <1>3

LEMMA StatusHidden ==
    ASSUME StatusInv, SameDisplay, ~Shown'
    PROVE  StatusInv'
<1>1. (oledWifi' <=> oledWifi) /\ oled' = oled /\ screen' = screen
  BY Zenon DEF SameDisplay, displayVars
<1> QED
  BY <1>1 DEF StatusInv, StatusLayout

LEMMA StatusApart ==
    ASSUME StatusInv, SameDisplay, ~wifiActive', apOn'
    PROVE  StatusInv'
<1>1. (oledWifi' <=> oledWifi) /\ oled' = oled /\ screen' = screen
  BY Zenon DEF SameDisplay, displayVars
<1> QED
  BY <1>1 DEF StatusInv, StatusLayout

LEMMA HoldKeepsStatus ==
    ASSUME HoldScreen
    PROVE  /\ oled' => oled
           /\ lastProfile' = lastProfile
           /\ screen' = screen \/ screen' \notin {"status", "wifiStatus"}
<1>1. CASE SameDisplay
  BY <1>1 DEF SameDisplay, displayVars
<1>2. ASSUME NEW layout, NEW b, layout \notin {"status", "wifiStatus"}, ShowBar(layout, b)
      PROVE  /\ oled' => oled
             /\ lastProfile' = lastProfile
             /\ screen' = screen \/ screen' \notin {"status", "wifiStatus"}
  BY <1>2 DEF ShowBar, Absent
<1>3. CASE ShowConfigRelease
  BY <1>3 DEF ShowConfigRelease, Draw, Absent
<1>4. CASE ShowResetBar(held) \/ ShowHoldBar(held, ~wifiActive)
  BY <1>2, <1>4 DEF ShowResetBar, ShowHoldBar
<1> QED
  BY <1>1, <1>3, <1>4 DEF HoldScreen

LEMMA StatusStep ==
    ASSUME RadioInv, Idle, StatusInv, [Next]_vars
    PROVE  StatusInv'
<1> USE DEF At
<1>1. CASE \/ Turn \/ NothingPressed \/ HandleClient \/ Unserved \/ NoCommand
           \/ UNCHANGED vars
  <2>1. CASE Turn \/ HandleClient
    BY <2>1, StatusKept DEF Turn, HandleClient, SameStore, storeVars, SameUi, uiVars,
       DisplayAges, Shown
  <2>2. CASE NothingPressed \/ Unserved \/ NoCommand
    BY <2>2, StatusKept DEF NothingPressed, Unserved, NoCommand, SameStore, storeVars,
       SameUi, uiVars, SameDisplay, displayVars, Shown
  <2>3. CASE UNCHANGED vars
    BY <2>3, StatusKept DEF vars, storeVars, uiVars, displayVars, Shown
  <2> QED
    BY <1>1, <2>1, <2>2, <2>3
<1>2. CASE Store
  <2>1. job # <<>> /\ at' = at /\ SameDisplay
    BY <1>2 DEF Store, StoreStep, OpenTmp, OpenTmpFails, Serialize, CloseFails,
       ShortWrite, Rename, RenameFails, RemoveTarget, RenameAgain,
       RenameAgainFails, LoadProfiles, LoadSettings, RestoreDefaults, Writing, Doing
  <2> QED
    BY <2>1, StatusHidden DEF Idle, Shown
<1>3. CASE PowerOn \/ PostFactoryReset
  BY <1>3, StatusHidden DEF PowerOn, PostFactoryReset, FactoryReset, Shown
<1>4. ASSUME NEW list, PostProfiles(list)
      PROVE  StatusInv'
  BY <1>4, StatusHidden DEF PostProfiles, Shown
<1>5. ASSUME NEW index, NEW alwaysOn, PostSettings(index, alwaysOn)
      PROVE  StatusInv'
  BY <1>5, StatusHidden DEF PostSettings, Shown
<1>6. CASE PostExit \/ Wiped
  <2>1. at \in {"serve", "posting", "wiping"} /\ SameDisplay
    BY <1>6 DEF PostExit, Wiped
  <2>2. ~wifiActive' /\ apOn' = apOn
    BY <1>6, Zenon DEF PostExit, Wiped
  <2>3. wifiActive
    BY <2>1, Zenon DEF RadioInv
  <2>4. apOn'
    BY <2>2, <2>3, Zenon DEF RadioInv
  <2> QED
    BY <2>1, <2>2, <2>4, StatusApart
<1>7. CASE Serve
  BY <1>1, <1>3, <1>4, <1>5, <1>6, <1>7 DEF Serve
<1>8. CASE ButtonReleased
  <2>1. at = "button"
    BY <1>8 DEF ButtonReleased
  <2>2. CASE PressWakes \/ HoldCancelled
    BY <2>2, StatusRedrawn DEF PressWakes, HoldCancelled, SameStore, storeVars
  <2>3. CASE PressLocked
    BY <2>1, <2>3, ScreenDrawn DEF PressLocked, ShowWifiLockMessage, SameStore, storeVars,
       Shown
  <2>4. CASE PressCycles
    BY <2>4, StatusHidden DEF PressCycles, Shown
  <2>5. CASE ConfigThreshold
    BY <2>5, StatusRedrawn DEF ConfigThreshold, FinishExitWifi, SameStore, storeVars
  <2> QED
    BY <1>8, <2>2, <2>3, <2>4, <2>5 DEF ButtonReleased
<1>9. CASE ButtonHeld
  <2>1. HoldScreen /\ UNCHANGED wifiActive /\ UNCHANGED apOn /\ Shown
    BY <1>9 DEF ButtonHeld, ButtonHold, Shown
  <2>2. UNCHANGED ramVars
    BY <1>9 DEF ButtonHeld, FactoryReset, SameStore, storeVars
  <2> QED
    BY <2>1, <2>2, HoldKeepsRadio, HoldKeepsStatus, StatusKept
<1>10. CASE Cycled \/ WasReset \/ WifiExits \/ Posted
  BY <1>10, StatusRedrawn DEF Cycled, WasReset, WifiExits, Posted, FinishExitWifi,
     SameStore, storeVars
<1>11. CASE Command
  BY <1>11, ScreenDrawn DEF Command, ShowResult, SameStore, storeVars, SameUi, uiVars,
     Shown
<1>12. CASE DisplayUpdate
  <2>1. /\ UNCHANGED ramVars /\ UNCHANGED wifiActive /\ UNCHANGED apOn
        /\ oledWifi' = oledWifi /\ lastProfile' = lastProfile /\ Shown
        /\ oled' => oled
    BY <1>12 DEF DisplayUpdate, SameStore, storeVars, SameUi, uiVars, SameDisplay,
       displayVars, TurnsOff, StatusReturns, Expires, Shown
  <2>2. CASE StatusReturns
    <3>1. (oledWifi' <=> oledWifi) /\ (apOn' <=> apOn) /\ (wifiActive' <=> wifiActive)
      BY <2>1, Zenon
    <3>2. oled' = oled /\ screen' = StatusLayout(oledWifi)
      BY <2>2 DEF StatusReturns, Expires
    <3> QED
      BY <2>1, <3>1, <3>2, ActiveKept DEF StatusInv, StatusLayout
  <2>3. CASE ~StatusReturns
    <3>1. screen' = screen \/ screen' \notin {"status", "wifiStatus"}
      BY <1>12, <2>3 DEF DisplayUpdate, SameDisplay, displayVars, TurnsOff, Expires
    <3> QED
      BY <2>1, <3>1, StatusKept
  <2> QED
    BY <2>2, <2>3
<1>13. CASE Setup
  <2>1. at = "booting" /\ SameUi /\ SameStore
    BY <1>13 DEF Setup
  <2>2. CASE SameDisplay
    BY <2>1, <2>2 DEF RadioInv, StatusInv, SameDisplay, displayVars
  <2>3. CASE DisplayStarts(Active.tv, settings.alwaysOn)
    <3>1. ~oledWifi'
      BY <2>3, Zenon DEF DisplayStarts
    <3>2. screen' = "status" /\ lastProfile' = Active.tv
      BY <2>3 DEF DisplayStarts
    <3> QED
      BY <2>1, <3>1, <3>2, ActiveKept DEF StatusInv, StatusLayout, SameStore, storeVars
  <2> QED
    BY <1>13, <2>2, <2>3 DEF Setup
<1>14. CASE PowerLoss
  <2>1. ~oled'
    BY <1>14, Zenon DEF PowerLoss, DisplayLosesPower
  <2> QED
    BY <2>1 DEF StatusInv
<1> QED
  BY <1>1, <1>2, <1>3, <1>6, <1>7, <1>8, <1>9, <1>10, <1>11, <1>12, <1>13, <1>14
     DEF Next, Device

LEMMA StatusInit == Init => StatusInv
<1> SUFFICES ASSUME Init PROVE StatusInv
  OBVIOUS
<1>1. ~oled
  BY Zenon DEF Init, DisplayInit
<1> QED
  BY <1>1 DEF StatusInv

(* The status screen names the profile the next command is sent with and   *)
(* says whether config mode is on, after any sequence of presses, holds,   *)
(* requests, resets and power losses. Between a page's exit and the        *)
(* teardown of the access point one round later it need not: there the two *)
(* flags disagree.                                                         *)
THEOREM StatusIsTrue == Spec => []StatusTellsActive
<1>1. TypeOK /\ RangeInv /\ [Next]_vars => RangeInv'
  BY RangeStep DEF TypeOK
<1>2. RadioInv /\ [Next]_vars => RadioInv'
  BY RadioStep
<1>3. RadioInv /\ RangeInv /\ StatusInv /\ [Next]_vars => StatusInv'
  BY StatusStep DEF RangeInv
<1>4. TypeOK /\ RadioInv /\ StatusInv => StatusTellsActive
  BY DEF TypeOK, RadioInv, StatusInv, StatusTellsActive, StatusLayout, Shown
<1> QED
  BY <1>1, <1>2, <1>3, <1>4, RangeInit, RadioInit, StatusInit, TypeCorrect, PTL DEF Spec

-----------------------------------------------------------------------------
(* The screen and its timer                                                *)

MayBeDark == ~settings.alwaysOn /\ ~wifiActive
MayLast == settings.alwaysOn \/ apOn
Holding == pressed /\ held >= PressMax /\ ~resetFired

\* What is shown goes when it should: the timer that is set, or none.
Suits ==
    /\ screen = "dark" \/ timer = "TurnOff" => MayBeDark
    /\ timer = "ShowStatus" => MayLast
    /\ screen # "dark" /\ timer = "none" => MayLast \/ Holding

SpentHold == resetFired => held >= ResetEnd

SetInv ==
    /\ SpentHold
    /\ Shown /\ oled => Suits
    /\ at = "wiping" /\ oled => screen # "dark" /\ timer # "TurnOff"

LEMMA Online ==
    ASSUME RadioInv
    PROVE  /\ wifiActive => apOn
           /\ at \in {"serve", "posting", "wiping"} => wifiActive /\ apOn
           /\ at \in {"off", "booting"} => ~oled
  BY Zenon DEF RadioInv

LEMMA ButtonKept ==
    ASSUME UNCHANGED buttonVars
    PROVE  (Holding' <=> Holding) /\ (SpentHold' <=> SpentHold)
<1>1. (pressed' <=> pressed) /\ (resetFired' <=> resetFired) /\ held' = held
  BY Zenon DEF buttonVars
<1> QED
  BY <1>1 DEF Holding, SpentHold

LEMMA HeldLonger ==
    ASSUME ButtonTypeOK, NEW d \in Nat, ButtonAges(d)
    PROVE  (Holding => Holding') /\ (SpentHold => SpentHold')
<1>1. (pressed' <=> pressed) /\ (resetFired' <=> resetFired)
  BY Zenon DEF ButtonAges
<1>2. held \in 0 .. ResetEnd /\ ResetEnd \in Nat /\ PressMax \in Nat /\ PressMax < ResetEnd
  BY ButtonAssumption DEF ButtonTypeOK
<1>3. held' = held \/ held' = UpTo(held + d, ResetEnd)
  BY DEF ButtonAges
<1>4. /\ held' >= held
      /\ held >= ResetEnd => held' >= ResetEnd
      /\ held >= PressMax => held' >= PressMax
  BY <1>2, <1>3 DEF UpTo
<1> QED
  BY <1>1, <1>4 DEF Holding, SpentHold

LEMMA Sampled ==
    ASSUME NEW raw,
           \/ Bounces(raw) \/ PressBegins(raw) \/ StaysUp(raw)
           \/ Released(raw) /\ Spent
           \/ StaysDown(raw) /\ UNCHANGED resetFired
    PROVE  (Holding => Holding') /\ (SpentHold => SpentHold')
<1>1. CASE StaysUp(raw)
  BY <1>1, ButtonKept DEF StaysUp
<1>2. CASE Bounces(raw) \/ (StaysDown(raw) /\ UNCHANGED resetFired)
  <2>1. pressed' = pressed /\ resetFired' = resetFired /\ held' = held
    BY <1>2 DEF Bounces, StaysDown
  <2>2. (pressed' <=> pressed) /\ (resetFired' <=> resetFired)
    BY <2>1, Zenon
  <2> QED
    BY <2>1, <2>2 DEF Holding, SpentHold
<1>3. CASE PressBegins(raw) \/ (Released(raw) /\ Spent)
  <2>1. ~resetFired'
    BY <1>3, Zenon DEF PressBegins, Released
  <2>2. ~Holding
    BY <1>3, Zenon DEF PressBegins, Spent, Holding
  <2> QED
    BY <2>1, <2>2 DEF SpentHold
<1> QED
  BY <1>1, <1>2, <1>3

LEMMA SettingsSame ==
    ASSUME UNCHANGED settings, UNCHANGED wifiActive, UNCHANGED apOn
    PROVE  (MayBeDark' <=> MayBeDark) /\ (MayLast' <=> MayLast)
  BY Zenon DEF MayBeDark, MayLast

LEMMA SuitsKept ==
    ASSUME Suits, screen' = screen, timer' = timer,
           MayBeDark => MayBeDark', MayLast => MayLast', Holding => Holding'
    PROVE  Suits'
  BY DEF Suits

LEMMA StatusSuits ==
    ASSUME NEW tv, NEW alwaysOn, NEW wifi, ShowStatus(tv, alwaysOn, wifi), oled',
           alwaysOn => MayLast', ~alwaysOn => MayBeDark'
    PROVE  Suits'
<1>1. oled
  BY DEF ShowStatus, Draw, Absent
<1>2. screen' = StatusLayout(wifi) /\ timer' = IF alwaysOn THEN "none" ELSE "TurnOff"
  BY <1>1 DEF ShowStatus, Draw, Absent
<1>3. screen' # "dark"
  BY <1>2 DEF StatusLayout
<1> QED
  BY <1>2, <1>3 DEF Suits

LEMMA DrawnSuits ==
    ASSUME NEW layout, layout # "dark", NEW tv, NEW action, Draw(layout, tv, action), oled',
           action = "TurnOff" => MayBeDark', action = "ShowStatus" => MayLast',
           action # "none"
    PROVE  Suits'
<1>1. oled
  BY DEF Draw, Absent
<1>2. screen' = layout /\ timer' = action
  BY <1>1 DEF Draw, Absent
<1> QED
  BY <1>2 DEF Suits

LEMMA HoldSuits ==
    ASSUME HoldScreen, held < ResetEnd, held \in Nat, oled', Holding',
           oled => Suits, MayBeDark => MayBeDark'
    PROVE  Suits'
<1>1. ASSUME NEW layout, layout # "dark", NEW b, ShowBar(layout, b)
      PROVE  Suits'
  <2>1. oled
    BY <1>1 DEF ShowBar, Absent
  <2>2. timer' = "none" /\ (screen' = screen \/ screen' = layout)
    BY <1>1, <2>1 DEF ShowBar, Absent
  <2> QED
    BY <1>1, <2>1, <2>2 DEF Suits
<1>2. CASE ShowConfigRelease
  <2>1. oled
    BY <1>2 DEF ShowConfigRelease, Draw, Absent
  <2>2. timer' = "none" /\ screen' = "release"
    BY <1>2, <2>1 DEF ShowConfigRelease, Draw, Absent
  <2> QED
    BY <2>2 DEF Suits
<1>3. CASE ShowResetBar(held) \/ ShowHoldBar(held, ~wifiActive)
  BY <1>1, <1>3 DEF ShowResetBar, ShowHoldBar
<1>4. ~(held >= ResetEnd)
  BY ButtonAssumption
<1> QED
  BY <1>2, <1>3, <1>4 DEF HoldScreen

LEMMA SetKept ==
    ASSUME SetInv, SpentHold => SpentHold', oled' => oled, screen' = screen, timer' = timer,
           Shown' => Shown /\ (MayBeDark => MayBeDark') /\ (MayLast => MayLast')
                           /\ (Holding => Holding'),
           at' = "wiping" => at = "wiping"
    PROVE  SetInv'
<1>1. Shown' /\ oled' => Suits'
  BY SuitsKept DEF SetInv
<1> QED
  BY <1>1 DEF SetInv

LEMMA SetRedrawn ==
    ASSUME SetInv, SpentHold => SpentHold', oled' => Suits', at' # "wiping"
    PROVE  SetInv'
  BY DEF SetInv

\* The status screen, as every caller but the teardown asks for it.
LEMMA StatusFits ==
    ASSUME RadioInv, NEW wifi, ShowStatus(Active.tv, AlwaysOn, wifi), oled',
           UNCHANGED settings, UNCHANGED wifiActive, UNCHANGED apOn
    PROVE  Suits'
<1>1. AlwaysOn => MayLast
  BY Online, Zenon DEF AlwaysOn, MayLast
<1>2. ~AlwaysOn => MayBeDark
  BY Zenon DEF AlwaysOn, MayBeDark
<1> QED
  BY <1>1, <1>2, SettingsSame, StatusSuits

LEMMA ExitFits ==
    ASSUME FinishExitWifi, UNCHANGED settings, oled'
    PROVE  Suits'
<1>1. settings.alwaysOn => MayLast'
  BY Zenon DEF MayLast
<1>2. ~settings.alwaysOn => MayBeDark'
  BY Zenon DEF MayBeDark, FinishExitWifi
<1> QED
  BY <1>1, <1>2, StatusSuits DEF FinishExitWifi

LEMMA EntryFits ==
    ASSUME ShowStatus(Active.tv, TRUE, TRUE), apOn' = TRUE, oled'
    PROVE  Suits'
<1>1. MayLast'
  BY Zenon DEF MayLast
<1> QED
  BY <1>1, StatusSuits

LEMMA SetStep ==
    ASSUME ButtonTypeOK, RadioInv, Idle, SetInv, [Next]_vars
    PROVE  SetInv'
<1> USE DEF At
<1>1. CASE Turn \/ HandleClient
  <2>1. PICK d \in Nat : ButtonAges(d) /\ DisplayAges(d)
    BY <1>1, UiAssumption DEF Turn, HandleClient
  <2>2. /\ UNCHANGED settings /\ UNCHANGED wifiActive /\ UNCHANGED apOn
        /\ Shown /\ at' # "wiping"
    BY <1>1 DEF Turn, HandleClient, SameStore, storeVars, ramVars, SameUi, uiVars, Shown
  <2>3. oled' = oled /\ screen' = screen /\ timer' = timer
    BY <2>1 DEF DisplayAges
  <2> QED
    BY <2>1, <2>2, <2>3, HeldLonger, SettingsSame, SetKept
<1>2. CASE NothingPressed
  <2>1. (Holding => Holding') /\ (SpentHold => SpentHold')
    BY <1>2, Sampled DEF NothingPressed
  <2>2. /\ UNCHANGED settings /\ UNCHANGED wifiActive /\ UNCHANGED apOn
        /\ Shown /\ at' # "wiping"
        /\ oled' = oled /\ screen' = screen /\ timer' = timer
    BY <1>2 DEF NothingPressed, SameStore, storeVars, ramVars, SameUi, uiVars,
       SameDisplay, displayVars, Shown
  <2> QED
    BY <2>1, <2>2, SettingsSame, SetKept
<1>3. CASE Unserved \/ NoCommand \/ UNCHANGED vars
  <2>1. UNCHANGED buttonVars
    BY <1>3 DEF Unserved, NoCommand, SameButton, vars
  <2>2. /\ UNCHANGED settings /\ UNCHANGED wifiActive /\ UNCHANGED apOn
        /\ oled' = oled /\ screen' = screen /\ timer' = timer
    BY <1>3 DEF Unserved, NoCommand, SameStore, storeVars, ramVars, SameUi, uiVars,
       SameDisplay, displayVars, vars
  <2>3. (Shown' => Shown) /\ (at' = "wiping" => at = "wiping")
    BY <1>3 DEF Unserved, NoCommand, vars, Shown
  <2> QED
    BY <2>1, <2>2, <2>3, ButtonKept, SettingsSame, SetKept
<1>4. CASE Store
  <2>1. job # <<>>
    BY <1>4 DEF Store, StoreStep, OpenTmp, OpenTmpFails, Serialize, CloseFails,
       ShortWrite, Rename, RenameFails, RemoveTarget, RenameAgain,
       RenameAgainFails, LoadProfiles, LoadSettings, RestoreDefaults, Writing, Doing
  <2>2. /\ at' = at /\ UNCHANGED buttonVars
        /\ oled' = oled /\ screen' = screen /\ timer' = timer
    BY <1>4 DEF Store, SameButton, SameDisplay, displayVars
  <2>3. ~Shown'
    BY <2>1, <2>2 DEF Idle, Shown
  <2> QED
    BY <2>2, <2>3, ButtonKept, SetKept
<1>5. CASE PowerOn
  <2>1. /\ at' = "booting" /\ UNCHANGED buttonVars
        /\ oled' = oled /\ screen' = screen /\ timer' = timer
    BY <1>5 DEF PowerOn, SameButton, SameDisplay, displayVars
  <2>2. ~Shown'
    BY <2>1 DEF Shown
  <2> QED
    BY <2>1, <2>2, ButtonKept, SetKept
<1>6. ASSUME UNCHANGED buttonVars, SameDisplay, at' = "posting"
      PROVE  SetInv'
  <2>1. ~Shown' /\ oled' = oled /\ screen' = screen /\ timer' = timer
    BY <1>6 DEF Shown, SameDisplay, displayVars
  <2> QED
    BY <1>6, <2>1, ButtonKept, SetKept
<1>7. CASE PostFactoryReset
  <2>1. /\ at = "serve" /\ at' = "wiping" /\ UNCHANGED buttonVars
        /\ oled' = oled /\ screen' = screen /\ timer' = timer
    BY <1>7 DEF PostFactoryReset, FactoryReset, SameButton, SameDisplay, displayVars
  <2>2. ~MayBeDark
    BY <2>1, Online, Zenon DEF MayBeDark
  <2>3. oled => Suits
    BY <2>1 DEF SetInv, Shown
  <2>4. oled => screen # "dark" /\ timer # "TurnOff"
    BY <2>2, <2>3 DEF Suits
  <2>5. ~Shown'
    BY <2>1 DEF Shown
  <2> QED
    BY <2>1, <2>4, <2>5, ButtonKept DEF SetInv
<1>8. CASE PostExit
  <2>1. /\ at = "serve" /\ at' = "hid" /\ UNCHANGED buttonVars
        /\ oled' = oled /\ screen' = screen /\ timer' = timer
        /\ wifiActive' = FALSE /\ apOn' = apOn /\ UNCHANGED settings
    BY <1>8 DEF PostExit, SameStore, storeVars, ramVars, SameButton, SameDisplay,
       displayVars
  <2>2. MayBeDark => MayBeDark'
    BY <2>1, Zenon DEF MayBeDark
  <2>3. MayLast => MayLast'
    BY <2>1, Zenon DEF MayLast
  <2>4. Shown
    BY <2>1 DEF Shown
  <2> QED
    BY <2>1, <2>2, <2>3, <2>4, ButtonKept, SetKept
<1>9. CASE Wiped
  <2>1. /\ at = "wiping" /\ at' = "hid" /\ UNCHANGED buttonVars
        /\ oled' = oled /\ screen' = screen /\ timer' = timer /\ apOn' = apOn
    BY <1>9 DEF Wiped, SameButton, SameDisplay, displayVars
  <2>2. at \in {"serve", "posting", "wiping"}
    BY <2>1
  <2>3. MayLast'
    BY <2>1, <2>2, Online, Zenon DEF MayLast
  <2>4. oled' => screen' # "dark" /\ timer' # "TurnOff"
    BY <2>1 DEF SetInv
  <2>5. oled' => Suits'
    BY <2>3, <2>4 DEF Suits
  <2> QED
    BY <2>1, <2>5, ButtonKept, SetRedrawn
<1>10. CASE Serve
  <2>1. ASSUME NEW list, PostProfiles(list)
        PROVE  SetInv'
    BY <1>6, <2>1 DEF PostProfiles, SameButton
  <2>2. ASSUME NEW index, NEW alwaysOn, PostSettings(index, alwaysOn)
        PROVE  SetInv'
    BY <1>6, <2>2 DEF PostSettings, SameButton
  <2> QED
    BY <1>3, <1>7, <1>8, <1>10, <2>1, <2>2 DEF Serve
<1>11. CASE ButtonReleased
  <2>1. Released(FALSE) /\ at = "button"
    BY <1>11 DEF ButtonReleased
  <2>2. SpentHold'
    BY <2>1, Zenon DEF Released, SpentHold
  <2>3. CASE PressWakes \/ HoldCancelled
    <3>1. /\ ShowStatus(Active.tv, AlwaysOn, oledWifi) /\ at' = "display"
          /\ UNCHANGED settings /\ UNCHANGED wifiActive /\ UNCHANGED apOn
      BY <2>3 DEF PressWakes, HoldCancelled, SameStore, storeVars, ramVars
    <3> QED
      BY <2>2, <3>1, StatusFits, SetRedrawn
  <2>4. CASE PressLocked
    <3>1. /\ Draw("lock", lastProfile, "ShowStatus") /\ at' = "display"
          /\ wifiActive /\ apOn' = apOn
      BY <2>4 DEF PressLocked, ShowWifiLockMessage
    <3>2. MayLast'
      BY <3>1, Online, Zenon DEF MayLast
    <3> QED
      BY <2>2, <3>1, <3>2, DrawnSuits, SetRedrawn
  <2>5. CASE PressCycles
    <3>1. at' = "cycling"
      BY <2>5 DEF PressCycles
    <3> QED
      BY <2>2, <3>1 DEF SetInv, Shown
  <2>6. CASE ConfigThreshold
    <3>1. at' = "display" /\ UNCHANGED settings
      BY <2>6 DEF ConfigThreshold, SameStore, storeVars, ramVars
    <3>2. FinishExitWifi \/ (ShowStatus(Active.tv, TRUE, TRUE) /\ apOn' = TRUE)
      BY <2>6 DEF ConfigThreshold
    <3> QED
      BY <2>2, <3>1, <3>2, ExitFits, EntryFits, SetRedrawn
  <2> QED
    BY <1>11, <2>3, <2>4, <2>5, <2>6 DEF ButtonReleased
<1>12. CASE ButtonHeld
  <2>1. /\ at = "button" /\ StaysDown(TRUE) /\ HoldReported /\ HoldScreen
        /\ UNCHANGED wifiActive /\ UNCHANGED apOn
    BY <1>12 DEF ButtonHeld, ButtonHold
  <2>2. CASE ResetDue /\ resetFired' = TRUE /\ FactoryReset("resetting")
    <3>1. ~Shown' /\ at' # "wiping"
      BY <2>2 DEF FactoryReset, Shown
    <3>2. held' >= ResetEnd
      BY <2>1, <2>2 DEF StaysDown, ResetDue
    <3> QED
      BY <3>1, <3>2 DEF SetInv, SpentHold
  <2>3. CASE ~ResetDue /\ at' = "display" /\ SameStore /\ UNCHANGED resetFired
    <3>1. (Holding => Holding') /\ (SpentHold => SpentHold')
      BY <2>1, <2>3, Sampled
    <3>2. UNCHANGED settings
      BY <2>3 DEF SameStore, storeVars, ramVars
    <3>3. Shown /\ at' # "wiping"
      BY <2>1, <2>3 DEF Shown
    <3>4. CASE held >= ResetEnd
      <4>1. SameDisplay
        BY <2>1, <3>4, ButtonAssumption DEF HoldScreen, ButtonTypeOK
      <4>2. oled' = oled /\ screen' = screen /\ timer' = timer
        BY <4>1 DEF SameDisplay, displayVars
      <4> QED
        BY <2>1, <3>1, <3>2, <3>3, <4>2, SettingsSame, SetKept
    <3>5. CASE ~(held >= ResetEnd)
      <4>1. held \in Nat /\ held < ResetEnd
        BY <3>5, ButtonAssumption DEF ButtonTypeOK
      <4>2. ~resetFired
        BY <3>5 DEF SetInv, SpentHold
      <4>3. Holding
        BY <2>1, <4>2, Zenon DEF StaysDown, HoldReported, Holding
      <4>4. oled' => Suits'
        BY <2>1, <3>1, <3>2, <3>3, <4>1, <4>3, SettingsSame, HoldSuits DEF SetInv
      <4> QED
        BY <3>1, <3>3, <4>4, SetRedrawn
    <3> QED
      BY <3>4, <3>5
  <2> QED
    BY <1>12, <2>2, <2>3 DEF ButtonHeld
<1>13. CASE Cycled
  <2>1. /\ ShowStatus(Active.tv, AlwaysOn, oledWifi) /\ at' = "display"
        /\ UNCHANGED settings /\ UNCHANGED wifiActive /\ UNCHANGED apOn
        /\ UNCHANGED buttonVars
    BY <1>13 DEF Cycled, SameStore, storeVars, ramVars, SameButton
  <2> QED
    BY <2>1, ButtonKept, StatusFits, SetRedrawn
<1>14. CASE WasReset \/ WifiExits
  <2>1. /\ FinishExitWifi /\ at' \in {"display", "hid"}
        /\ UNCHANGED settings /\ UNCHANGED buttonVars
    BY <1>14 DEF WasReset, WifiExits, SameStore, storeVars, ramVars, SameButton
  <2> QED
    BY <2>1, ButtonKept, ExitFits, SetRedrawn
<1>15. CASE Posted
  <2>1. /\ ShowStatus(Active.tv, TRUE, oledWifi) /\ at = "posting" /\ at' = "hid"
        /\ apOn' = apOn /\ UNCHANGED buttonVars
    BY <1>15 DEF Posted, SameUi, uiVars, SameButton
  <2>2. at \in {"serve", "posting", "wiping"}
    BY <2>1
  <2>3. MayLast'
    BY <2>1, <2>2, Online, Zenon DEF MayLast
  <2>4. oled' => Suits'
    BY <2>1, <2>3, StatusSuits
  <2> QED
    BY <2>1, <2>4, ButtonKept, SetRedrawn
<1>16. CASE Command
  <2>1. /\ Draw("result", Active.tv, IF AlwaysOn THEN "ShowStatus" ELSE "TurnOff")
        /\ at' = "top" /\ UNCHANGED settings /\ UNCHANGED wifiActive /\ UNCHANGED apOn
        /\ UNCHANGED buttonVars
    BY <1>16 DEF Command, ShowResult, SameStore, storeVars, ramVars, SameUi, uiVars,
       SameButton
  <2>2. AlwaysOn => MayLast
    BY Online, Zenon DEF AlwaysOn, MayLast
  <2>3. ~AlwaysOn => MayBeDark
    BY Zenon DEF AlwaysOn, MayBeDark
  <2>4. oled' => Suits'
    BY <2>1, <2>2, <2>3, SettingsSame, DrawnSuits
  <2> QED
    BY <2>1, <2>4, ButtonKept, SetRedrawn
<1>17. CASE DisplayUpdate
  <2>1. /\ at = "display" /\ UNCHANGED settings /\ UNCHANGED wifiActive
        /\ UNCHANGED apOn /\ UNCHANGED buttonVars
    BY <1>17 DEF DisplayUpdate, SameStore, storeVars, ramVars, SameUi, uiVars, SameButton
  <2>2. at' # "wiping" /\ Shown
    BY <1>17 DEF DisplayUpdate, AfterDisplay, Shown
  <2>3. CASE SameDisplay
    <3>1. oled' = oled /\ screen' = screen /\ timer' = timer
      BY <2>3 DEF SameDisplay, displayVars
    <3> QED
      BY <2>1, <2>2, <3>1, ButtonKept, SettingsSame, SetKept
  <2>4. CASE TurnsOff
    <3>1. oled' = oled /\ timer = "TurnOff" /\ timer' = "none" /\ screen' = "dark"
      BY <2>4 DEF TurnsOff, Expires
    <3>2. oled' => MayBeDark
      BY <2>2, <3>1 DEF SetInv, Suits
    <3>3. oled' => Suits'
      BY <2>1, <3>1, <3>2, SettingsSame DEF Suits
    <3> QED
      BY <2>1, <2>2, <3>3, ButtonKept, SetRedrawn
  <2>5. CASE StatusReturns
    <3>1. /\ oled' = oled /\ timer = "ShowStatus" /\ timer' = "none"
          /\ screen' = StatusLayout(oledWifi)
      BY <2>5 DEF StatusReturns, Expires
    <3>2. oled' => MayLast
      BY <2>2, <3>1 DEF SetInv, Suits
    <3>3. screen' # "dark"
      BY <3>1 DEF StatusLayout
    <3>4. oled' => Suits'
      BY <2>1, <3>1, <3>2, <3>3, SettingsSame DEF Suits
    <3> QED
      BY <2>1, <2>2, <3>4, ButtonKept, SetRedrawn
  <2> QED
    BY <1>17, <2>3, <2>4, <2>5 DEF DisplayUpdate
<1>18. CASE Setup
  <2>1. /\ at = "booting" /\ at' = "top" /\ UNCHANGED settings
        /\ UNCHANGED wifiActive /\ UNCHANGED buttonVars
    BY <1>18 DEF Setup, SameStore, storeVars, ramVars, SameUi, uiVars, SameButton
  <2>2. CASE SameDisplay
    <3>1. ~oled'
      BY <2>1, <2>2, Online DEF SameDisplay, displayVars
    <3> QED
      BY <2>1, <3>1, ButtonKept, SetRedrawn
  <2>3. CASE DisplayStarts(Active.tv, settings.alwaysOn)
    <3>1. screen' = "status" /\ timer' = IF settings.alwaysOn THEN "none" ELSE "TurnOff"
      BY <2>3 DEF DisplayStarts
    <3>2. settings.alwaysOn => MayLast'
      BY <2>1, Zenon DEF MayLast
    <3>3. ~wifiActive
      BY <2>1, Zenon DEF RadioInv
    <3>4. ~settings.alwaysOn => MayBeDark'
      BY <2>1, <3>3, Zenon DEF MayBeDark
    <3>5. Suits'
      BY <3>1, <3>2, <3>4 DEF Suits
    <3> QED
      BY <2>1, <3>5, ButtonKept, SetRedrawn
  <2> QED
    BY <1>18, <2>2, <2>3 DEF Setup
<1>19. CASE PowerLoss
  <2>1. ~oled' /\ ~resetFired'
    BY <1>19, Zenon DEF PowerLoss, DisplayLosesPower, ButtonLosesPower
  <2> QED
    BY <2>1 DEF SetInv, SpentHold
<1> QED
  BY <1>1, <1>2, <1>3, <1>4, <1>5, <1>9, <1>10, <1>11, <1>12, <1>13, <1>14, <1>15,
     <1>16, <1>17, <1>18, <1>19 DEF Next, Device

LEMMA SetInit == Init => SetInv
<1> SUFFICES ASSUME Init PROVE SetInv
  OBVIOUS
<1>1. ~oled /\ ~resetFired
  BY Zenon DEF Init, DisplayInit, ButtonInit
<1> QED
  BY <1>1 DEF SetInv, SpentHold

(* The screen is dark only where it may be, and stays lit without a timer  *)
(* only where it must or while a hold is shown, for every order of presses,*)
(* holds, requests, commands, failed writes and power losses.              *)
THEOREM ScreenIsAsSet == Spec => []ScreenAsSet
<1>1. TypeOK /\ RangeInv /\ [Next]_vars => RangeInv'
  BY RangeStep DEF TypeOK
<1>2. RadioInv /\ [Next]_vars => RadioInv'
  BY RadioStep
<1>3. TypeOK /\ RadioInv /\ RangeInv /\ SetInv /\ [Next]_vars => SetInv'
  BY SetStep DEF TypeOK, RangeInv
<1>4. SetInv => ScreenAsSet
  BY DEF SetInv, Suits, MayBeDark, MayLast, Holding, ScreenAsSet, Shown
<1> QED
  BY <1>1, <1>2, <1>3, <1>4, RangeInit, RadioInit, SetInit, TypeCorrect, PTL DEF Spec

-----------------------------------------------------------------------------
(* A press goes on to the next visible profile.                            *)

LEMMA WrapsRound ==
    ASSUME NEW n \in Nat \ {0}, NEW x \in Nat, x < 2 * n
    PROVE  x % n = IF x < n THEN x ELSE x - n
<1>1. CASE x < n
  <2>1. x \in 0 .. n - 1
    BY <1>1
  <2>2. x % n = x
    BY <2>1
  <2> QED
    BY <1>1, <2>2
<1>2. CASE ~(x < n)
  <2>1. x \in n .. 2 * n - 1
    BY <1>2
  <2>2. x % n = x - n
    BY <2>1
  <2> QED
    BY <1>2, <2>2
<1> QED
  BY <1>1, <1>2

\* The places passed over are those a smaller step would have come to.
Over(n, from, d) ==
    IF from < (from + d) % n THEN from + 1 .. ((from + d) % n) - 1
    ELSE (from + 1 .. n - 1) \cup (0 .. ((from + d) % n) - 1)

LEMMA PassedOver ==
    ASSUME NEW n \in Nat \ {0}, NEW from \in 0 .. n - 1, NEW d \in 1 .. n,
           NEW i \in Over(n, from, d)
    PROVE  \E k \in 1 .. d - 1 : (from + k) % n = i
<1> USE DEF Over
<1>1. (from + d) % n = IF from + d < n THEN from + d ELSE from + d - n
  <2> DEFINE x == from + d
  <2>1. x \in Nat /\ x < 2 * n
    OBVIOUS
  <2> HIDE DEF x
  <2>2. x % n = IF x < n THEN x ELSE x - n
    BY <2>1, WrapsRound
  <2> QED
    BY <2>2 DEF x
<1>2. i \in 0 .. n - 1
  BY <1>1
<1>3. CASE i > from
  <2>1. i - from \in 1 .. d - 1 /\ from + (i - from) = i
    BY <1>1, <1>2, <1>3
  <2>2. i % n = i
    BY <1>2, WrapsRound
  <2> QED
    BY <2>1, <2>2
<1>4. CASE i <= from
  <2>1. i + n - from \in 1 .. d - 1 /\ from + (i + n - from) = i + n
    BY <1>1, <1>2, <1>4
  <2>2. (i + n) % n = i
    BY <1>2, WrapsRound
  <2> QED
    BY <2>1, <2>2
<1> QED
  BY <1>2, <1>3, <1>4

LEMMA NextVisible ==
    ASSUME StoreTypeOK(Profile), profiles # <<>>, InRange
    PROVE  /\ NextVisibleIndex \in 0 .. Len(profiles) - 1
           /\ NextVisibleIndex = settings.active \/ SeenAt(NextVisibleIndex)
           /\ \A i \in Between(settings.active, NextVisibleIndex) : ~SeenAt(i)
<1> DEFINE n == Len(profiles)
           from == settings.active
           visibleAfter == {i \in 1 .. n - 1 : profiles[((from + i) % n) + 1].visible}
           first == CHOOSE i \in visibleAfter : \A j \in visibleAfter : i <= j
<1>1. n \in Nat \ {0} /\ from \in 0 .. n - 1
  BY DEF StoreTypeOK, InRange
<1>2. ASSUME NEW d \in 1 .. n, NextVisibleIndex = (from + d) % n,
             \A k \in 1 .. d - 1 : k \notin visibleAfter,
             NEW i \in Between(from, NextVisibleIndex)
      PROVE  ~SeenAt(i)
  <2>1. PICK k \in 1 .. d - 1 : (from + k) % n = i
    <3>1. i \in Over(n, from, d)
      BY <1>2 DEF Between, Over
    <3> HIDE DEF n, from
    <3>2. d \in 1 .. n
      BY <1>2
    <3> QED
      BY <1>1, <3>1, <3>2, PassedOver, Zenon
  <2>2. k \in 1 .. n - 1 /\ k \notin visibleAfter
    BY <1>1, <1>2
  <2> QED
    BY <2>1, <2>2 DEF SeenAt
<1>3. CASE visibleAfter = {}
  <2>1. NextVisibleIndex = from
    BY <1>1, <1>3 DEF NextVisibleIndex
  <2> HIDE DEF n, from
  <2>2. from + n \in Nat /\ from + n < 2 * n /\ ~(from + n < n)
    BY <1>1
  <2>3. (from + n) % n = from
    BY <1>1, <2>2, WrapsRound
  <2>4. n \in 1 .. n /\ NextVisibleIndex = (from + n) % n
    BY <1>1, <2>1, <2>3
  <2>5. \A i \in Between(from, NextVisibleIndex) : ~SeenAt(i)
    BY <1>2, <1>3, <2>4, Zenon
  <2>6. NextVisibleIndex \in 0 .. n - 1
    BY <1>1, <2>1
  <2> QED
    BY <2>1, <2>5, <2>6 DEF n, from
<1>4. CASE visibleAfter # {}
  <2>1. visibleAfter \in SUBSET Nat
    BY <1>1
  <2>2. \E i \in visibleAfter : \A j \in visibleAfter : i <= j
    BY <1>4, <2>1, HasLeast
  <2>3. first \in visibleAfter /\ \A j \in visibleAfter : first <= j
    BY <2>2
  <2>4. NextVisibleIndex = (from + first) % n
    BY <1>1, <1>4 DEF NextVisibleIndex
  <2> HIDE DEF first
  <2>5. first \in 1 .. n - 1 /\ profiles[((from + first) % n) + 1].visible
    BY <2>3
  <2>6. \A k \in 1 .. first - 1 : k \notin visibleAfter
    BY <1>1, <2>3, <2>5
  <2>7. NextVisibleIndex \in 0 .. n - 1
    <3> HIDE DEF n, from
    <3> DEFINE x == from + first
    <3>1. x \in Nat /\ x < 2 * n
      BY <1>1, <2>5
    <3> HIDE DEF x
    <3>2. x % n = IF x < n THEN x ELSE x - n
      BY <1>1, <3>1, WrapsRound
    <3>3. x % n \in 0 .. n - 1
      BY <1>1, <3>1, <3>2
    <3> QED
      BY <2>4, <3>3 DEF x
  <2>8. SeenAt(NextVisibleIndex)
    BY <2>4, <2>5 DEF SeenAt
  <2>9. first \in 1 .. n
    BY <1>1, <2>5
  <2> QED
    BY <1>2, <2>4, <2>6, <2>7, <2>8, <2>9
<1> QED
  BY <1>3, <1>4

(* For every list and every choice of hidden profiles, the index wrapping  *)
(* round its end included, a press passes over none that could be seen.    *)
THEOREM PressGoesToNextVisible == Spec => CyclesToNextVisible
<1>1. TypeOK /\ RangeInv /\ [Next]_vars => RangeInv'
  BY RangeStep DEF TypeOK
<1>2. ASSUME TypeOK, RangeInv, [Next]_vars
      PROVE  [ButtonReleased /\ PressCycles /\ profiles # <<>> =>
                 LET from == settings.active
                     to == settings'.active
                 IN  /\ to \in 0 .. Len(profiles) - 1
                     /\ to = from \/ SeenAt(to)
                     /\ \A i \in Between(from, to) : ~SeenAt(i)]_vars
  <2> SUFFICES ASSUME ButtonReleased, PressCycles, profiles # <<>>, ~(UNCHANGED vars)
               PROVE  /\ settings'.active \in 0 .. Len(profiles) - 1
                      /\ settings'.active = settings.active \/ SeenAt(settings'.active)
                      /\ \A i \in Between(settings.active, settings'.active) : ~SeenAt(i)
    OBVIOUS
  <2>1. settings'.active = NextVisibleIndex
    BY <1>2 DEF PressCycles, TypeOK, StoreTypeOK
  <2>2. at = "button"
    BY DEF ButtonReleased
  <2>3. InRange
    BY <1>2, <2>2 DEF RangeInv, Idle, LastLoads
  <2> QED
    BY <1>2, <2>1, <2>3, NextVisible DEF TypeOK
<1> QED
  BY <1>1, <1>2, RangeInit, TypeCorrect, PTL DEF Spec, CyclesToNextVisible

=============================================================================
