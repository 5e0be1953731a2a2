----------------------------- MODULE ProfileStore -----------------------------
(***************************************************************************)
(* Profiles.cpp: the TV profiles and settings in RAM, the two JSON files   *)
(* that keep them in flash, and the steps of writing, loading and          *)
(* restoring them. A profile is [tv, visible]; its name, protocol and      *)
(* codes are the model value tv.                                           *)
(*                                                                         *)
(* loop() waits for the flash, so the work a call began is a list of       *)
(* operations, job, that runs to its end unless power is lost. Every flash *)
(* operation may fail; MaxFaults bounds the faults. LittleFS renames       *)
(* atomically. A .tmp file a power loss leaves is truncated by the next    *)
(* open and read by nothing, so only the one being written is state, and a *)
(* short one does not parse.                                               *)
(***************************************************************************)
EXTENDS Naturals, Sequences

CONSTANTS
    DefaultProfiles,   \* DEFAULT_PROFILES
    MaxProfiles,       \* MAX_PROFILES
    MaxFaults          \* bound: faults of the flash

ASSUME StoreAssumption ==
    /\ Len(DefaultProfiles) \in 1 .. MaxProfiles
    /\ MaxProfiles \in Nat /\ MaxFaults \in Nat

VARIABLES
    profiles, settings,   \* profiles_, settings_
    mounted,              \* LittleFS is usable
    file,                 \* file[f] is {d} if f holds the document d, else {}
    torn,                 \* the files whose content does not parse
    job,                  \* operations still to do, the first one under way
    step,                 \* where writeJsonAtomic is
    short,                \* the .tmp file holds less than the document
    faults,
    trusted               \* ghost: the profiles file was written, and no read,
                          \* removal, format or close since then has lost it

ramVars   == <<profiles, settings>>
flashVars == <<mounted, file, torn>>
workVars  == <<job, step, short>>
storeVars == <<ramVars, flashVars, workVars, faults, trusted>>

File == {"profiles", "settings"}
DefaultSettings == [active |-> 0, alwaysOn |-> FALSE]

Writes == {"saveProfiles", "saveSettings", "defaultProfiles", "defaultSettings"}
Op == Writes \cup {"loadProfiles", "loadSettings", "restoreDefaults"}

-----------------------------------------------------------------------------
(* What the rest of the firmware asks                                      *)

Clamped(s, n) == IF s.active < n THEN s ELSE [s EXCEPT !.active = 0]

\* getActive, FALLBACK included.
Active ==
    IF profiles = <<>> THEN DefaultProfiles[1]
    ELSE profiles[Clamped(settings, Len(profiles)).active + 1]

\* Mutant: hidden profiles are not passed over.
NextIndex ==
    IF profiles = <<>> THEN 0 ELSE (settings.active + 1) % Len(profiles)

NextVisibleIndex ==
    LET n == Len(profiles)
        visibleAfter == {i \in 1 .. n - 1 :
                            profiles[((settings.active + i) % n) + 1].visible}
        first == CHOOSE i \in visibleAfter : \A j \in visibleAfter : i <= j
    IN  IF n = 0 THEN 0
        ELSE IF visibleAfter = {} THEN settings.active
        ELSE (settings.active + first) % n

\* Mutant: the index is kept whatever the new list's length.
ReplaceAllUnclamped(list) ==
    /\ profiles' = list
    /\ UNCHANGED settings

ReplaceAll(list) ==
    /\ profiles' = list
    /\ settings' = Clamped(settings, Len(list))

\* Mutant: the settings are loaded before they are written.
FactoryResetOpsLoadingFirst ==
    <<"defaultProfiles", "loadProfiles", "loadSettings", "defaultSettings">>

FactoryResetOps ==
    <<"defaultProfiles", "defaultSettings", "loadProfiles", "loadSettings">>

Queue(ops) ==
    /\ job' = ops
    /\ UNCHANGED <<flashVars, step, short, faults, trusted>>

-----------------------------------------------------------------------------
(* writeJsonAtomic                                                         *)

FileOf(op) == IF op \in {"saveProfiles", "defaultProfiles"} THEN "profiles"
              ELSE "settings"

Document(op) ==
    CASE op = "saveProfiles" -> profiles
      [] op = "saveSettings" -> settings
      [] op = "defaultProfiles" -> DefaultProfiles
      [] op = "defaultSettings" -> DefaultSettings

Has(op) == \E i \in 1 .. Len(job) : job[i] = op

Doing(op) == job # <<>> /\ Head(job) = op
Writing(s) == job # <<>> /\ Head(job) \in Writes /\ step = s

Fails == faults < MaxFaults /\ faults' = faults + 1

\* The operation under way is over, its result ignored by every caller.
Returns ==
    /\ job' = Tail(job)
    /\ step' = "open"
    /\ short' = FALSE

OpenTmp ==
    /\ Writing("open")
    /\ mounted
    /\ step' = "serialize"
    /\ UNCHANGED <<ramVars, flashVars, job, short, faults, trusted>>

OpenTmpFails ==
    /\ Writing("open")
    /\ \/ mounted /\ Fails
       \/ ~mounted /\ UNCHANGED faults
    /\ Returns
    /\ UNCHANGED <<ramVars, flashVars, trusted>>

\* The document is written, and f.close() brings it to the flash.
Serialize ==
    /\ Writing("serialize")
    /\ step' = "rename"
    /\ UNCHANGED <<ramVars, flashVars, job, short, faults, trusted>>

\* The file buffers what serializeJson counts as written, and close() returns
\* nothing: what cannot be flushed there is missing from a file of the right
\* count.
CloseFails ==
    /\ Writing("serialize")
    /\ Fails
    /\ short' = TRUE
    /\ step' = "rename"
    /\ UNCHANGED <<ramVars, flashVars, job, trusted>>

\* A write that the file refuses shows in the count: the short .tmp file is
\* discarded, and the save with it.
ShortWrite ==
    /\ Writing("serialize")
    /\ Fails
    /\ Returns
    /\ UNCHANGED <<ramVars, flashVars, trusted>>

Renamed ==
    LET op == Head(job) IN
    /\ file' = [file EXCEPT ![FileOf(op)] = IF short THEN {} ELSE {Document(op)}]
    /\ torn' = IF short THEN torn \cup {FileOf(op)} ELSE torn \ {FileOf(op)}
    /\ trusted' = IF FileOf(op) = "profiles" THEN ~short ELSE trusted
    /\ Returns
    /\ UNCHANGED <<ramVars, mounted, faults>>

Rename == Writing("rename") /\ Renamed

RenameFails ==
    /\ Writing("rename")
    /\ Fails \/ (short /\ UNCHANGED faults)
    /\ step' = "remove"
    /\ UNCHANGED <<ramVars, flashVars, job, short, trusted>>

\* The target goes, and the name is free for the second rename, or it stays;
\* what fails after the first failure of a write is still the same fault.
RemoveTarget ==
    LET target == FileOf(Head(job)) IN
    /\ Writing("remove")
    /\ step' = "again"
    /\ \/ /\ file' = [file EXCEPT ![target] = {}]
          /\ torn' = torn \ {target}
          /\ trusted' = (trusted /\ target # "profiles")
       \/ UNCHANGED <<file, torn, trusted>>
    /\ UNCHANGED <<ramVars, mounted, job, short, faults>>

RenameAgain == Writing("again") /\ Renamed

RenameAgainFails ==
    /\ Writing("again")
    /\ Returns
    /\ UNCHANGED <<ramVars, flashVars, faults, trusted>>

-----------------------------------------------------------------------------
(* Loading, begin() and factoryReset()                                     *)

\* The file is opened and parsed; a read that fails finds nothing, and costs
\* begin()'s caller the file.
LoadProfiles ==
    /\ Doing("loadProfiles")
    /\ \/ /\ mounted
          /\ \E list \in file["profiles"] :
                profiles' = SubSeq(list, 1, IF Len(list) < MaxProfiles
                                            THEN Len(list) ELSE MaxProfiles)
          /\ UNCHANGED <<faults, trusted>>
       \/ /\ ~mounted \/ file["profiles"] = {}
          /\ profiles' = <<>>
          /\ UNCHANGED <<faults, trusted>>
       \/ /\ mounted /\ file["profiles"] # {}
          /\ Fails
          /\ profiles' = <<>>
          /\ trusted' = FALSE
    /\ Returns
    /\ UNCHANGED <<settings, flashVars>>

LoadSettings ==
    /\ Doing("loadSettings")
    /\ \/ /\ mounted
          /\ \E s \in file["settings"] : settings' = Clamped(s, Len(profiles))
          /\ UNCHANGED faults
       \/ /\ ~mounted \/ file["settings"] = {}
          /\ settings' = DefaultSettings
          /\ UNCHANGED faults
       \/ /\ mounted /\ file["settings"] # {}
          /\ Fails
          /\ settings' = DefaultSettings
    /\ Returns
    /\ UNCHANGED <<profiles, flashVars, trusted>>

\* begin(): no profile could be loaded.
RestoreDefaults ==
    /\ Doing("restoreDefaults")
    /\ job' = (IF profiles = <<>> THEN <<"defaultProfiles", "loadProfiles">>
               ELSE <<>>) \o Tail(job)
    /\ UNCHANGED <<ramVars, flashVars, step, short, faults, trusted>>

\* begin() after the mount, for the files the mount leaves.
BeginOps(exist) ==
    (IF "profiles" \in exist THEN <<>> ELSE <<"defaultProfiles">>)
    \o (IF "settings" \in exist THEN <<>> ELSE <<"defaultSettings">>)
    \o <<"loadProfiles", "restoreDefaults", "loadSettings">>

\* LittleFS.begin(true): mounted as it is, formatted first, or not usable.
Begin ==
    /\ \/ /\ mounted' = TRUE
          /\ job' = BeginOps({f \in File : file[f] # {}} \cup torn)
          /\ UNCHANGED <<file, torn, faults, trusted>>
       \/ /\ Fails
          /\ mounted' = TRUE
          /\ file' = [f \in File |-> {}]
          /\ torn' = {}
          /\ trusted' = FALSE
          /\ job' = BeginOps({})
       \/ /\ Fails
          /\ mounted' = FALSE
          /\ UNCHANGED <<file, torn, job, trusted>>
    /\ UNCHANGED <<ramVars, step, short>>

StoreStep ==
    \/ OpenTmp \/ OpenTmpFails \/ Serialize \/ CloseFails \/ ShortWrite
    \/ Rename \/ RenameFails \/ RemoveTarget \/ RenameAgain \/ RenameAgainFails
    \/ LoadProfiles \/ LoadSettings \/ RestoreDefaults

\* Mutant: the document is written in place.
StoreLosesPowerAndFile ==
    /\ profiles' = <<>>
    /\ settings' = DefaultSettings
    /\ mounted' = FALSE
    /\ job' = <<>>
    /\ step' = "open"
    /\ short' = FALSE
    /\ file' = IF Writing("serialize") THEN [file EXCEPT ![FileOf(Head(job))] = {}]
               ELSE file
    /\ UNCHANGED <<torn, faults, trusted>>

\* What is left of the store when power goes.
StoreLosesPower ==
    /\ profiles' = <<>>
    /\ settings' = DefaultSettings
    /\ mounted' = FALSE
    /\ job' = <<>>
    /\ step' = "open"
    /\ short' = FALSE
    /\ UNCHANGED <<file, torn, faults, trusted>>

\* A stick that has never been switched on.
StoreInit ==
    /\ profiles = <<>> /\ settings = DefaultSettings
    /\ mounted = FALSE
    /\ file = [f \in File |-> {}] /\ torn = {}
    /\ job = <<>> /\ step = "open" /\ short = FALSE
    /\ faults = 0 /\ trusted = FALSE

StoreTypeOK(Profile) ==
    /\ profiles \in Seq(Profile)
    /\ settings \in [active : Nat, alwaysOn : BOOLEAN]
    /\ mounted \in BOOLEAN /\ short \in BOOLEAN /\ trusted \in BOOLEAN
    /\ DOMAIN file = File
    /\ file["profiles"] \subseteq Seq(Profile)
    /\ file["settings"] \subseteq [active : Nat, alwaysOn : BOOLEAN]
    /\ torn \subseteq File
    /\ job \in Seq(Op)
    /\ step \in {"open", "serialize", "rename", "remove", "again"}
    /\ faults \in 0 .. MaxFaults
=============================================================================
