------------------------------ MODULE FirmwareUi ------------------------------
(***************************************************************************)
(* The stick's loop(): the button, the display, the web server of wireless *)
(* config mode and the commands of the PC, over the profile store, with    *)
(* the watchdog's reset or a power loss at any point.                      *)
(*                                                                         *)
(* One turn of loop() goes top, button, display, wifi, serve, hid. A       *)
(* handler that writes flash leaves the turn for cycling, resetting,       *)
(* posting or wiping until the store is done.                              *)
(***************************************************************************)
EXTENDS ProfileStore, Button, Display

CONSTANTS
    Uploads,          \* the lists a page may post
    Stall,            \* ticks handleClient may block for
    MaxPowerLosses    \* bound

Profile == [tv : Tv, visible : BOOLEAN]

ASSUME UiAssumption ==
    /\ Stall \in Nat /\ MaxPowerLosses \in Nat
    /\ DefaultProfiles \in Seq(Profile) /\ Uploads \subseteq Seq(Profile)

VARIABLES
    at,               \* where loop() is
    pressCount,
    wifiActive,
    apOn,             \* WiFi.getMode() # WIFI_OFF
    powerLosses

uiVars == <<pressCount, wifiActive, apOn>>
vars == <<storeVars, buttonVars, displayVars, uiVars, at, powerLosses>>

At(here, next) == at = here /\ at' = next

\* The parts an action leaves alone, by name.
SameStore == UNCHANGED storeVars
SameButton == UNCHANGED buttonVars
SameDisplay == UNCHANGED displayVars
SameUi == UNCHANGED uiVars

AlwaysOn == settings.alwaysOn \/ wifiActive

-----------------------------------------------------------------------------
(* The callbacks setup() gives the button                                  *)

FinishExitWifi ==
    /\ apOn' = FALSE
    /\ wifiActive' = FALSE
    /\ ShowStatus(Active.tv, settings.alwaysOn, FALSE)
    /\ pressCount' = 1

\* A press that finds pressCount = 0 wakes the screen; in config mode any
\* other only explains itself.
PressWakes ==
    /\ pressCount = 0
    /\ ShowStatus(Active.tv, AlwaysOn, oledWifi)
    /\ pressCount' = 1
    /\ at' = "display"
    /\ SameStore /\ UNCHANGED <<wifiActive, apOn>>

\* Mutant: the message does not set the count back.
PressLockedCounting ==
    /\ pressCount # 0 /\ wifiActive
    /\ ShowWifiLockMessage
    /\ pressCount' = pressCount + 1
    /\ at' = "display"
    /\ SameStore /\ UNCHANGED <<wifiActive, apOn>>

PressLocked ==
    /\ pressCount # 0 /\ wifiActive
    /\ ShowWifiLockMessage
    /\ pressCount' = 1
    /\ at' = "display"
    /\ SameStore /\ UNCHANGED <<wifiActive, apOn>>

\* Mutant: the new index is not saved.
PressCyclesUnsaved ==
    /\ pressCount # 0 /\ ~wifiActive
    /\ settings' = [settings EXCEPT !.active = NextVisibleIndex]
    /\ Queue(<<>>)
    /\ at' = "cycling"
    /\ SameDisplay /\ SameUi /\ UNCHANGED profiles

PressCycles ==
    /\ pressCount # 0 /\ ~wifiActive
    /\ settings' = [settings EXCEPT !.active = NextVisibleIndex]
    /\ Queue(<<"saveSettings">>)
    /\ at' = "cycling"
    /\ SameDisplay /\ SameUi /\ UNCHANGED profiles

Cycled ==
    /\ job = <<>> /\ At("cycling", "display")
    /\ ShowStatus(Active.tv, AlwaysOn, oledWifi)
    /\ pressCount' = 1
    /\ SameStore /\ SameButton /\ UNCHANGED <<wifiActive, apOn, powerLosses>>

HoldCancelled ==
    /\ ShowStatus(Active.tv, AlwaysOn, oledWifi)
    /\ pressCount' = 1
    /\ at' = "display"
    /\ SameStore /\ UNCHANGED <<wifiActive, apOn>>

ConfigThreshold ==
    /\ \/ wifiActive /\ FinishExitWifi
       \/ /\ ~wifiActive
          /\ wifiActive' = TRUE
          /\ apOn' = TRUE
          /\ ShowStatus(Active.tv, TRUE, TRUE)
          /\ pressCount' = 1
    /\ at' = "display"
    /\ SameStore

HoldScreen ==
    \/ held >= ResetEnd /\ SameDisplay
    \/ ResetStart <= held /\ held < ResetEnd /\ ShowResetBar(held)
    \/ ConfigTime <= held /\ held < ResetStart /\ ShowConfigRelease
    \/ held < ConfigTime /\ ShowHoldBar(held, ~wifiActive)

ButtonHold ==
    /\ pressCount' = 0
    /\ HoldScreen
    /\ UNCHANGED <<wifiActive, apOn>>

FactoryReset(next) ==
    /\ Queue(FactoryResetOps)
    /\ at' = next
    /\ UNCHANGED ramVars

WasReset ==
    /\ job = <<>> /\ At("resetting", "display")
    /\ FinishExitWifi
    /\ SameStore /\ SameButton /\ UNCHANGED powerLosses

-----------------------------------------------------------------------------
(* One turn of loop()                                                      *)

Turn ==
    /\ At("top", "button")
    /\ \E d \in {0, 1} : ButtonAges(d) /\ DisplayAges(d)
    /\ SameStore /\ SameUi /\ UNCHANGED powerLosses

\* button.update(), by what the sample calls for.
NothingPressed ==
    /\ at = "button" /\ at' = "display"
    /\ \E raw \in BOOLEAN :
          \/ Bounces(raw) \/ PressBegins(raw) \/ StaysUp(raw)
          \/ Released(raw) /\ Spent
          \/ StaysDown(raw) /\ ~HoldReported /\ UNCHANGED resetFired
    /\ SameStore /\ SameDisplay /\ SameUi /\ UNCHANGED powerLosses

ButtonReleased ==
    /\ at = "button"
    /\ Released(FALSE)
    /\ \/ Press /\ (PressWakes \/ PressLocked \/ PressCycles)
       \/ Cancelled /\ HoldCancelled
       \/ Config /\ ConfigThreshold
    /\ UNCHANGED powerLosses

ButtonHeld ==
    /\ at = "button"
    /\ StaysDown(TRUE) /\ HoldReported
    /\ ButtonHold
    /\ \/ /\ ResetDue
          /\ resetFired' = TRUE
          /\ FactoryReset("resetting")
       \/ /\ ~ResetDue
          /\ at' = "display"
          /\ SameStore /\ UNCHANGED resetFired
    /\ UNCHANGED powerLosses

\* What follows display.update() depends on the radio.
AfterDisplay == at' = IF wifiActive \/ apOn THEN "wifi" ELSE "hid"

\* Mutant: the screen goes dark and onExpire is not called.
DisplayUpdateNoExpire ==
    /\ at = "display" /\ AfterDisplay
    /\ \/ ~TimerDue /\ SameDisplay
       \/ TurnsOff \/ StatusReturns
    /\ SameUi
    /\ SameStore /\ SameButton /\ UNCHANGED powerLosses

DisplayUpdate ==
    /\ at = "display" /\ AfterDisplay
    /\ \/ ~TimerDue /\ SameDisplay /\ SameUi
       \/ TurnsOff /\ pressCount' = 0 /\ UNCHANGED <<wifiActive, apOn>>
       \/ StatusReturns /\ SameUi
    /\ SameStore /\ SameButton /\ UNCHANGED powerLosses

WifiExits ==
    /\ ~wifiActive
    /\ At("wifi", "hid")
    /\ FinishExitWifi
    /\ SameStore /\ SameButton /\ UNCHANGED powerLosses

\* handleClient blocks on its client, and then has a request or none.
HandleClient ==
    /\ wifiActive
    /\ At("wifi", "serve")
    /\ \E d \in 0 .. Stall : ButtonAges(d) /\ DisplayAges(d)
    /\ SameStore /\ SameUi /\ UNCHANGED powerLosses

\* No request, one that changes nothing, or one refused.
Unserved ==
    /\ At("serve", "hid")
    /\ SameStore /\ SameButton /\ SameDisplay /\ SameUi /\ UNCHANGED powerLosses

PostProfiles(list) ==
    /\ At("serve", "posting")
    /\ Len(list) \in 1 .. MaxProfiles
    /\ ReplaceAll(list)
    /\ Queue(<<"saveProfiles", "saveSettings">>)
    /\ SameButton /\ SameDisplay /\ SameUi /\ UNCHANGED powerLosses

\* An index outside the list is passed over, the rest of the request is not.
PostSettings(index, alwaysOn) ==
    /\ At("serve", "posting")
    /\ settings' = [active |-> IF index < Len(profiles) THEN index ELSE settings.active,
                    alwaysOn |-> alwaysOn]
    /\ Queue(<<"saveSettings">>)
    /\ SameButton /\ SameDisplay /\ SameUi /\ UNCHANGED <<profiles, powerLosses>>

\* Mutant: the status screen is left as it was.
PostedUnseen ==
    /\ job = <<>> /\ At("posting", "hid")
    /\ SameDisplay
    /\ SameStore /\ SameButton /\ SameUi /\ UNCHANGED powerLosses

\* The end of both handlers; the answer is {"ok":true}.
Posted ==
    /\ job = <<>> /\ At("posting", "hid")
    /\ ShowStatus(Active.tv, TRUE, oledWifi)
    /\ SameStore /\ SameButton /\ SameUi /\ UNCHANGED powerLosses

PostFactoryReset ==
    /\ at = "serve"
    /\ FactoryReset("wiping")
    /\ SameButton /\ SameDisplay /\ SameUi /\ UNCHANGED powerLosses

Wiped ==
    /\ job = <<>> /\ At("wiping", "hid")
    /\ wifiActive' = FALSE
    /\ SameStore /\ SameButton /\ SameDisplay
    /\ UNCHANGED <<pressCount, apOn, powerLosses>>

PostExit ==
    /\ At("serve", "hid")
    /\ wifiActive' = FALSE
    /\ SameStore /\ SameButton /\ SameDisplay
    /\ UNCHANGED <<pressCount, apOn, powerLosses>>

\* A command of the PC, when one came in.
NoCommand ==
    /\ At("hid", "top")
    /\ SameStore /\ SameButton /\ SameDisplay /\ SameUi /\ UNCHANGED powerLosses

Command ==
    /\ At("hid", "top")
    /\ ShowResult(AlwaysOn, Active.tv)
    /\ SameStore /\ SameButton /\ SameUi /\ UNCHANGED powerLosses

Store ==
    /\ StoreStep
    /\ SameButton /\ SameDisplay /\ SameUi /\ UNCHANGED <<at, powerLosses>>

-----------------------------------------------------------------------------
(* Power                                                                   *)

PowerOn ==
    /\ At("off", "booting")
    /\ Begin
    /\ SameButton /\ SameDisplay /\ SameUi /\ UNCHANGED powerLosses

\* setup() after Profiles::begin(), with a display or without one.
Setup ==
    /\ job = <<>> /\ At("booting", "top")
    /\ DisplayStarts(Active.tv, settings.alwaysOn) \/ SameDisplay
    /\ SameStore /\ SameButton /\ SameUi /\ UNCHANGED powerLosses

PowerLoss ==
    /\ at # "off"
    /\ powerLosses < MaxPowerLosses
    /\ powerLosses' = powerLosses + 1
    /\ at' = "off"
    /\ StoreLosesPower
    /\ ButtonLosesPower /\ DisplayLosesPower(DefaultProfiles[1].tv)
    /\ pressCount' = 0 /\ wifiActive' = FALSE /\ apOn' = FALSE

Serve ==
    \/ Unserved \/ PostFactoryReset \/ PostExit
    \/ \E list \in Uploads : PostProfiles(list)
    \/ \E index \in 0 .. MaxProfiles, alwaysOn \in BOOLEAN : PostSettings(index, alwaysOn)

Device ==
    \/ PowerOn \/ Setup \/ Store
    \/ Turn \/ NothingPressed \/ ButtonReleased \/ ButtonHeld
    \/ Cycled \/ WasReset \/ DisplayUpdate
    \/ WifiExits \/ HandleClient \/ Serve \/ Posted \/ Wiped
    \/ NoCommand \/ Command

Init ==
    /\ StoreInit /\ ButtonInit /\ DisplayInit(DefaultProfiles[1].tv)
    /\ pressCount = 0 /\ wifiActive = FALSE /\ apOn = FALSE
    /\ at = "off" /\ powerLosses = 0

Next == Device \/ PowerLoss

Spec == Init /\ [][Next]_vars

-----------------------------------------------------------------------------
(* Types; between two steps pressCount is 0 or 1.                          *)
TypeOK ==
    /\ StoreTypeOK(Profile) /\ ButtonTypeOK /\ DisplayTypeOK
    /\ at \in {"off", "booting", "top", "button", "cycling", "resetting", "display",
               "wifi", "serve", "posting", "wiping", "hid"}
    /\ pressCount \in {0, 1}
    /\ wifiActive \in BOOLEAN /\ apOn \in BOOLEAN
    /\ powerLosses \in 0 .. MaxPowerLosses
    /\ bar \in {"None", "Hold", "Reset"} \X (0 .. ResetEnd) \X BOOLEAN

(* "That stops a blind press in the dark silently switching TVs" (README): *)
(* a press changes the active profile only while the screen is lit.        *)
NoBlindSwitch == [][PressCycles => ~oled \/ screen # "dark"]_vars

(* "It blanks after two seconds unless you turn on display always on"      *)
(* (README): whatever was shown last, the screen is dark only where it may *)
(* be, and stays lit without a timer only where it must or while a hold is *)
(* shown.                                                                  *)
ScreenAsSet ==
    at = "top" /\ oled =>
        /\ screen = "dark" => ~settings.alwaysOn /\ ~wifiActive
        /\ screen # "dark" /\ timer = "none" =>
               \/ settings.alwaysOn \/ apOn
               \/ pressed /\ held >= PressMax

(* The status screen names the profile the next command is sent with, and  *)
(* says whether config mode is on: whichever handler ran last drew it.     *)
StatusTellsActive ==
    at = "top" /\ oled /\ apOn = wifiActive
        /\ screen \in {"status", "wifiStatus"} =>
            lastProfile = Active.tv /\ screen = StatusLayout(wifiActive)

(* While the button is held the screen says what letting go will do, also  *)
(* after a command's result was drawn over it.                             *)
HoldIsShown ==
    [][ButtonHeld /\ oled /\ held < ResetEnd =>
          screen' = IF held >= ResetStart THEN "resetBar"
                    ELSE IF held >= ConfigTime THEN "release" ELSE "holdBar"]_vars

(* Press, hold, request, boot, reset: the active index is inside the list  *)
(* at every turn of loop().                                                *)
ActiveInRange == at = "top" /\ profiles # <<>> => settings.active < Len(profiles)

(* What loop() works with is what the next boot will load, through any     *)
(* power loss, as long as the flash works.                                 *)
RamIsFlash ==
    at = "top" /\ faults = 0 =>
        /\ file["profiles"] = {profiles}
        /\ \E s \in file["settings"] : Clamped(s, Len(profiles)) = settings

(* "Flash writes are atomic and length-checked" (brief.md): a boot writes  *)
(* the default profiles over a list only if the flash had lost that list   *)
(* before, by a read, a format, a removal or a close that failed. A power  *)
(* loss at any step of a save, and a write found short, do not lose it.    *)
BootKeepsTheList == at = "booting" /\ trusted => ~Has("defaultProfiles")

(* A list that survives power losses (README): for the list of TVs the two *)
(* files, the five steps of a write, the boot and the reset come to what    *)
(* ListMemory says.                                                         *)
Mode ==
    IF at = "off" THEN "off"
    ELSE IF at = "booting" THEN "loading"
    ELSE IF Has("saveProfiles") THEN "saving"
    ELSE IF Has("defaultProfiles") THEN "resetting"
    ELSE IF Has("loadProfiles") THEN "reloading"
    ELSE "using"

Memory == INSTANCE ListMemory WITH
    List <- {list \in Uploads : Len(list) \in 1 .. MaxProfiles},
    Defaults <- DefaultProfiles,
    mode <- Mode, inUse <- profiles, kept <- file["profiles"],
    sure <- trusted, sound <- (faults = 0)

ImplementsMemory == Memory!Spec

(* "Factory reset - restores the default profiles" (README): the button's  *)
(* and the page's end, whatever was saved before, with the default list    *)
(* and settings in use, as long as the flash works; factoryReset() gets    *)
(* them there by way of the files.                                         *)
ResetRestores ==
    [][(WasReset \/ Wiped) /\ faults = 0 =>
          profiles = DefaultProfiles /\ settings = DefaultSettings]_vars

(* A press goes on to the next profile that is not hidden, round the end   *)
(* of the list, and passes over none that could be seen; it stays only     *)
(* where every other one is hidden (nextVisibleIndex).                     *)
Between(from, to) ==
    IF from < to THEN from + 1 .. to - 1
    ELSE (from + 1 .. Len(profiles) - 1) \cup (0 .. to - 1)

SeenAt(i) == profiles[i + 1].visible

CyclesToNextVisible ==
    [][ButtonReleased /\ PressCycles /\ profiles # <<>> =>
          LET from == settings.active
              to == settings'.active
          IN  /\ to \in 0 .. Len(profiles) - 1
              /\ to = from \/ SeenAt(to)
              /\ \A i \in Between(from, to) : ~SeenAt(i)]_vars

(* index.html exits config mode "only if the save actually succeeded":     *)
(* what was answered with ok is in the flash.                              *)
OkMeansSaved ==
    [][Posted => file["profiles"] = {profiles} /\ file["settings"] = {settings}]_vars

(* brief.md's table: under 0.3 s is a press. A release that enters or      *)
(* leaves config mode ends a hold that was seen to last longer than that.  *)
TapIsPress == [][ButtonReleased /\ Config => seenDown >= PressMax]_vars
=============================================================================
