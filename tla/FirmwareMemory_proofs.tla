------------------------ MODULE FirmwareMemory_proofs ------------------------
(***************************************************************************)
(* Proofs about what the stick remembers: FirmwareUi implements ListMemory *)
(* and a factory reset ends with the defaults in use, for every list of    *)
(* profiles, number of faults and power losses.                            *)
(***************************************************************************)
EXTENDS FirmwareUi_proofs

-----------------------------------------------------------------------------
(* What is left to do, once a handler has begun it                         *)

ResetTail1 == <<"defaultSettings", "loadProfiles", "loadSettings">>
ResetTail2 == <<"loadProfiles", "loadSettings">>
ResetTail3 == <<"loadSettings">>
PostOps    == <<"saveProfiles", "saveSettings">>
CycleOps   == <<"saveSettings">>

Left ==
    /\ at \in {"resetting", "wiping"} =>
          job \in {FactoryResetOps, ResetTail1, ResetTail2, ResetTail3, <<>>}
    /\ at \in {"cycling", "posting"} => job \in {PostOps, CycleOps, <<>>}

LEMMA Lengths ==
    /\ Len(FactoryResetOps) = 4 /\ Len(ResetTail1) = 3 /\ Len(ResetTail2) = 2
    /\ Len(ResetTail3) = 1 /\ Len(PostOps) = 2 /\ Len(CycleOps) = 1
    /\ Len(<<>>) = 0
  BY DEF FactoryResetOps, ResetTail1, ResetTail2, ResetTail3, PostOps, CycleOps

LEMMA Heads ==
    /\ Head(FactoryResetOps) = "defaultProfiles" /\ Head(ResetTail1) = "defaultSettings"
    /\ Head(ResetTail2) = "loadProfiles" /\ Head(ResetTail3) = "loadSettings"
    /\ Head(PostOps) = "saveProfiles" /\ Head(CycleOps) = "saveSettings"
  BY DEF FactoryResetOps, ResetTail1, ResetTail2, ResetTail3, PostOps, CycleOps

LEMMA Tails ==
    /\ Tail(FactoryResetOps) = ResetTail1 /\ Tail(ResetTail1) = ResetTail2
    /\ Tail(ResetTail2) = ResetTail3 /\ Tail(ResetTail3) = <<>>
    /\ Tail(PostOps) = CycleOps /\ Tail(CycleOps) = <<>>
  BY DEF FactoryResetOps, ResetTail1, ResetTail2, ResetTail3, PostOps, CycleOps

LEMMA LeftInit == Init => Left
  BY DEF Init, Left

LEMMA LeftStep ==
    ASSUME StoreTypeOK(Profile), RangeInv, Jobs, Left, [Next]_vars
    PROVE  Left'
<1> USE DEF At, SameStore, storeVars, workVars
<1>1. CASE Store
  <2>1. job # <<>> /\ UNCHANGED at
        /\ (UNCHANGED job \/ job' = Tail(job) \/ RestoreDefaults)
    BY <1>1, StoreMoves
  <2>2. CASE RestoreDefaults
    <3>1. Head(job) = "restoreDefaults" /\ job \in Seq(Op)
      BY <2>2 DEF RestoreDefaults, Doing, StoreTypeOK
    <3>2. Has("restoreDefaults")
      BY <2>1, <3>1 DEF Has
    <3>3. at = "booting"
      BY <3>2 DEF Jobs
    <3> QED
      BY <2>1, <3>3 DEF Left
  <2>3. CASE UNCHANGED job
    BY <2>1, <2>3 DEF Left
  <2>4. CASE job' = Tail(job)
    BY <2>1, <2>4, Tails DEF Left
  <2> QED
    BY <2>1, <2>2, <2>3, <2>4
<1>2. ASSUME job = <<>>, UNCHANGED job PROVE Left'
  BY <1>2 DEF Left
<1>3. ASSUME at' \notin {"resetting", "wiping", "cycling", "posting"} PROVE Left'
  BY <1>3 DEF Left
<1>4. ASSUME NEW next \in {"resetting", "wiping"}, FactoryReset(next) PROVE Left'
  BY <1>4 DEF Left, FactoryReset, Queue
<1>5. CASE ButtonReleased
  <2>1. CASE PressCycles
    BY <2>1 DEF PressCycles, Queue, Left, CycleOps
  <2>2. CASE PressWakes \/ PressLocked \/ HoldCancelled \/ ConfigThreshold
    BY <1>3, <2>2 DEF PressWakes, PressLocked, HoldCancelled, ConfigThreshold
  <2> QED
    BY <1>5, <2>1, <2>2 DEF ButtonReleased
<1>6. CASE ButtonHeld
  BY <1>3, <1>4, <1>6 DEF ButtonHeld
<1>7. CASE Serve
  <2>1. ASSUME NEW list, PostProfiles(list) PROVE Left'
    BY <2>1 DEF PostProfiles, Queue, Left, PostOps
  <2>2. ASSUME NEW index, NEW alwaysOn, PostSettings(index, alwaysOn) PROVE Left'
    BY <2>2 DEF PostSettings, Queue, Left, CycleOps
  <2>3. CASE Unserved \/ PostExit
    BY <1>3, <2>3 DEF Unserved, PostExit
  <2>4. CASE PostFactoryReset
    BY <1>4, <2>4 DEF PostFactoryReset
  <2> QED
    BY <1>7, <2>1, <2>2, <2>3, <2>4 DEF Serve
<1>8. CASE PowerOn \/ PowerLoss
  BY <1>3, <1>8 DEF PowerOn, PowerLoss
<1>9. CASE \/ Setup \/ Turn \/ NothingPressed \/ Cycled \/ WasReset \/ DisplayUpdate
           \/ WifiExits \/ HandleClient \/ Posted \/ Wiped \/ NoCommand \/ Command
  BY <1>3, <1>9 DEF Setup, Turn, NothingPressed, Cycled, WasReset, DisplayUpdate,
     AfterDisplay, WifiExits, HandleClient, Posted, Wiped, NoCommand, Command
<1>10. CASE UNCHANGED vars
  BY <1>10 DEF vars, Left
<1> QED
  BY <1>1, <1>5, <1>6, <1>7, <1>8, <1>9, <1>10 DEF Next, Device

-----------------------------------------------------------------------------
(* Everything known of the store between two steps                         *)

StoreInv ==
    /\ UiTypeOK /\ StoreTypeOK(Profile) /\ RangeInv /\ Jobs
    /\ Whole /\ BootReads /\ Fitting /\ Fresh /\ Left

LEMMA StoreInvariance == Spec => []StoreInv
<1>1. TypeOK /\ RangeInv /\ [Next]_vars => RangeInv'
  BY RangeStep DEF TypeOK
<1>2. TypeOK /\ RangeInv /\ Jobs /\ [Next]_vars => Jobs'
  BY JobsStep DEF TypeOK
<1>3. TypeOK /\ RangeInv /\ Jobs /\ Whole /\ BootReads /\ [Next]_vars =>
        Whole' /\ BootReads'
  BY KeepStep DEF TypeOK
<1>4. TypeOK /\ RangeInv /\ Jobs /\ Whole /\ Fitting /\ Fresh /\ [Next]_vars =>
        Fitting' /\ Fresh'
  BY FreshStep DEF TypeOK
<1>5. TypeOK /\ RangeInv /\ Jobs /\ Left /\ [Next]_vars => Left'
  BY LeftStep DEF TypeOK
<1>6. TypeOK /\ RangeInv /\ Jobs /\ Whole /\ BootReads /\ Fitting /\ Fresh /\ Left =>
        StoreInv
  BY DEF TypeOK, UiTypeOK, StoreInv
<1> QED
  BY <1>1, <1>2, <1>3, <1>4, <1>5, <1>6, RangeInit, JobsInit, KeepInit, FreshInit,
     LeftInit, TypeCorrect, PTL DEF Spec

-----------------------------------------------------------------------------
(* The refinement of ListMemory                                            *)

In(op, ops) == \E i \in 1 .. Len(ops) : ops[i] = op

ModeOf(place, ops) ==
    IF place = "off" THEN "off"
    ELSE IF place = "booting" THEN "loading"
    ELSE IF In("saveProfiles", ops) THEN "saving"
    ELSE IF In("defaultProfiles", ops) THEN "resetting"
    ELSE IF In("loadProfiles", ops) THEN "reloading"
    ELSE "using"

LEMMA ModeIs == Mode = ModeOf(at, job) /\ Mode' = ModeOf(at', job')
  BY DEF Mode, ModeOf, Has, In

LEMMA InOps ==
    ASSUME NEW op
    PROVE  /\ In(op, FactoryResetOps) <=> op \in {"defaultProfiles", "defaultSettings",
                                                 "loadProfiles", "loadSettings"}
           /\ In(op, ResetTail1) <=> op \in {"defaultSettings", "loadProfiles", "loadSettings"}
           /\ In(op, ResetTail2) <=> op \in {"loadProfiles", "loadSettings"}
           /\ In(op, ResetTail3) <=> op = "loadSettings"
           /\ In(op, PostOps) <=> op \in {"saveProfiles", "saveSettings"}
           /\ In(op, CycleOps) <=> op = "saveSettings"
           /\ ~In(op, <<>>)
<1>1. In(op, FactoryResetOps) <=> op \in {"defaultProfiles", "defaultSettings",
                                         "loadProfiles", "loadSettings"}
  <2> DEFINE s == FactoryResetOps
  <2>1. /\ Len(s) = 4 /\ s[1] = "defaultProfiles" /\ s[2] = "defaultSettings"
        /\ s[3] = "loadProfiles" /\ s[4] = "loadSettings"
    BY DEF FactoryResetOps
  <2> HIDE DEF s
  <2>2. \A i : i \in 1 .. Len(s) <=> i = 1 \/ i = 2 \/ i = 3 \/ i = 4
    BY <2>1
  <2>3. In(op, s) <=> op \in {"defaultProfiles", "defaultSettings",
                              "loadProfiles", "loadSettings"}
    BY <2>1, <2>2 DEF In
  <2> QED
    BY <2>3 DEF s
<1>2. In(op, ResetTail1) <=> op \in {"defaultSettings", "loadProfiles", "loadSettings"}
  <2> DEFINE s == ResetTail1
  <2>1. /\ Len(s) = 3 /\ s[1] = "defaultSettings"
        /\ s[2] = "loadProfiles" /\ s[3] = "loadSettings"
    BY DEF ResetTail1
  <2> HIDE DEF s
  <2>2. \A i : i \in 1 .. Len(s) <=> i = 1 \/ i = 2 \/ i = 3
    BY <2>1
  <2>3. In(op, s) <=> op \in {"defaultSettings", "loadProfiles", "loadSettings"}
    BY <2>1, <2>2 DEF In
  <2> QED
    BY <2>3 DEF s
<1>3. ASSUME NEW s, NEW a, NEW b, Len(s) = 2, s[1] = a, s[2] = b
      PROVE  In(op, s) <=> op \in {a, b}
  <2>1. \A i : i \in 1 .. Len(s) <=> i = 1 \/ i = 2
    BY <1>3
  <2> QED
    BY <1>3, <2>1 DEF In
<1>4. ASSUME NEW s, NEW a, Len(s) = 1, s[1] = a
      PROVE  In(op, s) <=> op = a
  <2>1. \A i : i \in 1 .. Len(s) <=> i = 1
    BY <1>4
  <2> QED
    BY <1>4, <2>1 DEF In
<1>5. /\ ResetTail2[1] = "loadProfiles" /\ ResetTail2[2] = "loadSettings"
      /\ ResetTail3[1] = "loadSettings"
      /\ PostOps[1] = "saveProfiles" /\ PostOps[2] = "saveSettings"
      /\ CycleOps[1] = "saveSettings"
  BY DEF ResetTail2, ResetTail3, PostOps, CycleOps
<1>6. In(op, ResetTail2) <=> op \in {"loadProfiles", "loadSettings"}
  BY <1>3, <1>5, Lengths
<1>7. In(op, PostOps) <=> op \in {"saveProfiles", "saveSettings"}
  BY <1>3, <1>5, Lengths
<1>8. In(op, ResetTail3) <=> op = "loadSettings"
  BY <1>4, <1>5, Lengths
<1>9. In(op, CycleOps) <=> op = "saveSettings"
  BY <1>4, <1>5, Lengths
<1>10. ~In(op, <<>>)
  BY DEF In
<1> QED
  BY <1>1, <1>2, <1>6, <1>7, <1>8, <1>9, <1>10

LEMMA ModeOfOps ==
    ASSUME NEW place, place # "off", place # "booting"
    PROVE  /\ ModeOf(place, FactoryResetOps) = "resetting"
           /\ ModeOf(place, ResetTail1) = "reloading"
           /\ ModeOf(place, ResetTail2) = "reloading"
           /\ ModeOf(place, ResetTail3) = "using"
           /\ ModeOf(place, PostOps) = "saving"
           /\ ModeOf(place, CycleOps) = "using"
           /\ ModeOf(place, <<>>) = "using"
  BY InOps DEF ModeOf

\* What the operation under way says of the mode before and after it.
LEMMA ModeMoves ==
    ASSUME StoreInv, job # <<>>, UNCHANGED at, job' = Tail(job)
    PROVE  /\ at = "booting" => Mode = "loading" /\ Mode' = "loading"
           /\ at # "booting" =>
                 /\ Head(job) = "saveProfiles" => Mode = "saving" /\ Mode' = "using"
                 /\ Head(job) = "defaultProfiles" => Mode = "resetting" /\ Mode' = "reloading"
                 /\ Head(job) = "loadProfiles" => Mode = "reloading" /\ Mode' = "using"
           /\ Head(job) \notin {"saveProfiles", "defaultProfiles", "loadProfiles"} =>
                 Mode' = Mode
<1>1. at # "off"
  BY DEF StoreInv, RangeInv, Idle
<1>2. CASE at = "booting"
  BY <1>2, ModeIs DEF ModeOf
<1>3. CASE at # "booting"
  <2>1. job \in {FactoryResetOps, ResetTail1, ResetTail2, ResetTail3, PostOps, CycleOps}
    BY <1>1, <1>3 DEF StoreInv, Left, RangeInv, Idle, UiTypeOK
  <2>2. Mode = ModeOf(at, job) /\ Mode' = ModeOf(at, Tail(job))
    BY ModeIs
  <2> HIDE DEF Mode
  <2>3. CASE job = FactoryResetOps
    BY <1>1, <1>3, <2>2, <2>3, ModeOfOps, Heads, Tails
  <2>4. CASE job = ResetTail1
    <3>1. Mode = "reloading" /\ Mode' = "reloading"
      BY <1>1, <1>3, <2>2, <2>4, ModeOfOps, Tails
    <3> QED
      BY <1>3, <2>4, <3>1, Heads
  <2>5. CASE job = ResetTail2
    BY <1>1, <1>3, <2>2, <2>5, ModeOfOps, Heads, Tails
  <2>6. CASE job = ResetTail3
    <3>1. ModeOf(at, ResetTail3) = "using" /\ ModeOf(at, <<>>) = "using"
      BY <1>1, <1>3, ModeOfOps
    <3>2. Tail(job) = <<>>
      BY <2>6, Tails
    <3>3. Mode = "using" /\ Mode' = "using"
      BY <2>2, <2>6, <3>1, <3>2, Zenon
    <3> QED
      BY <1>3, <2>6, <3>3, Heads
  <2>7. CASE job = PostOps
    BY <1>1, <1>3, <2>2, <2>7, ModeOfOps, Heads, Tails
  <2>8. CASE job = CycleOps
    <3>1. ModeOf(at, CycleOps) = "using" /\ ModeOf(at, <<>>) = "using"
      BY <1>1, <1>3, ModeOfOps
    <3>2. Tail(job) = <<>>
      BY <2>8, Tails
    <3>3. Mode = "using" /\ Mode' = "using"
      BY <2>2, <2>8, <3>1, <3>2, Zenon
    <3> QED
      BY <1>3, <2>8, <3>3, Heads
  <2> QED
    BY <2>1, <2>3, <2>4, <2>5, <2>6, <2>7, <2>8
<1> QED
  BY <1>2, <1>3

SameMemory == UNCHANGED profiles /\ UNCHANGED file /\ UNCHANGED trusted

LEMMA Quiet ==
    ASSUME faults \in Nat, Mode' = Mode, SameMemory, UNCHANGED faults \/ Fails
    PROVE  [Memory!Next]_(Memory!vars)
<1>1. CASE UNCHANGED faults
  BY <1>1 DEF SameMemory, Memory!vars
<1>2. CASE Fails
  <2>1. faults' # 0
    BY <1>2 DEF Fails
  <2>2. (faults' = 0) = FALSE
    BY <2>1
  <2>3. Memory!Fault
    BY <2>2 DEF SameMemory, Memory!Fault
  <2> QED
    BY <2>3 DEF Memory!Next
<1> QED
  BY <1>1, <1>2

\* A file that is short took its place: the list is gone.
LEMMA NothingWritten ==
    ASSUME StoreInv, job # <<>>, UNCHANGED at, short,
           Head(job) \in {"saveProfiles", "defaultProfiles"},
           UNCHANGED profiles, UNCHANGED faults, job' = Tail(job),
           file'["profiles"] = {}, trusted' = FALSE
    PROVE  Memory!Next
<1>1. (faults = 0) = FALSE /\ (faults' = 0) = FALSE
  BY DEF StoreInv, Whole
<1>2. CASE at = "booting"
  <2>1. Mode = "loading" /\ Mode' = "loading"
    BY <1>2, ModeMoves
  <2>2. Memory!Lose
    BY <1>1, <2>1 DEF Memory!Lose
  <2> QED
    BY <2>2 DEF Memory!Next
<1>3. CASE at # "booting"
  <2>1. \/ Mode = "saving" /\ Mode' = "using"
        \/ Mode = "resetting" /\ Mode' = "reloading"
    BY <1>3, ModeMoves DEF Writes
  <2>2. Memory!KeepsNothing
    BY <1>1, <2>1 DEF Memory!KeepsNothing, Memory!Goes
  <2> QED
    BY <2>2 DEF Memory!Next
<1> QED
  BY <1>2, <1>3

LEMMA ListWritten ==
    ASSUME StoreInv, job # <<>>, UNCHANGED at, Head(job) \in Writes, Renamed
    PROVE  [Memory!Next]_(Memory!vars)
<1>1. /\ UNCHANGED profiles /\ UNCHANGED faults /\ job' = Tail(job)
      /\ job \in Seq(Op) /\ faults \in Nat
  BY DEF Renamed, Returns, ramVars, StoreInv, StoreTypeOK
<1>2. short \in BOOLEAN /\ DOMAIN file = File
  BY DEF StoreInv, StoreTypeOK
<1>3. FileOf(Head(job)) \in File
  BY DEF FileOf, File
<1> DEFINE content == IF short THEN {} ELSE {Document(Head(job))}
<1>4. file' = [file EXCEPT ![FileOf(Head(job))] = content]
  BY DEF Renamed
<1> HIDE DEF content
<1>5. CASE FileOf(Head(job)) = "settings"
  <2>1. file'["profiles"] = file["profiles"]
    BY <1>2, <1>4, <1>5 DEF File
  <2>2. trusted' = trusted
    BY <1>5, Zenon DEF Renamed, StoreInv, StoreTypeOK
  <2>3. Head(job) \notin {"saveProfiles", "defaultProfiles", "loadProfiles"}
    BY <1>5 DEF FileOf, Writes
  <2>4. Mode' = Mode
    BY <1>1, <2>3, ModeMoves
  <2> QED
    BY <1>1, <2>1, <2>2, <2>4 DEF Memory!vars
<1>6. CASE Head(job) \in {"saveProfiles", "defaultProfiles"}
  <2>1. FileOf(Head(job)) = "profiles"
    BY <1>6 DEF FileOf
  <2>8. file'["profiles"] = content
    BY <1>2, <1>4, <2>1 DEF File
  <2>9. trusted' = ~short
    BY <2>1 DEF Renamed
  <2>10. CASE short
    <3>1. file'["profiles"] = {} /\ trusted' = FALSE
      BY <1>2, <2>8, <2>9, <2>10 DEF content
    <3> QED
      BY <1>1, <1>6, <2>10, <3>1, NothingWritten
  <2> SUFFICES ASSUME ~short
               PROVE  [Memory!Next]_(Memory!vars)
    BY <2>10
  <2>2. file'["profiles"] = {Document(Head(job))}
    BY <2>8 DEF content
  <2>3. trusted' = TRUE
    BY <2>9, Zenon
  <2>4. (faults' = 0) = (faults = 0)
    BY <1>1
  <2>5. CASE at = "booting"
    <3>1. Head(job) # "saveProfiles"
      <4>1. Head(job) = "saveProfiles" => Has("saveProfiles")
        BY <1>1 DEF Has
      <4> QED
        BY <2>5, <4>1 DEF StoreInv, Jobs
    <3>2. file'["profiles"] = {DefaultProfiles}
      BY <1>6, <2>2, <3>1 DEF Document
    <3>3. ~trusted
      BY <1>6, <2>5, <3>1 DEF StoreInv, BootReads
    <3>4. Mode = "loading" /\ Mode' = "loading"
      BY <1>1, <2>5, ModeMoves
    <3>5. Memory!Install
      BY <1>1, <2>3, <2>4, <3>2, <3>3, <3>4 DEF Memory!Install, Memory!Goes
    <3> QED
      BY <3>5 DEF Memory!Next
  <2>6. CASE at # "booting" /\ Head(job) = "saveProfiles"
    <3>1. Mode = "saving" /\ Mode' = "using" /\ file'["profiles"] = {profiles}
      BY <1>1, <2>2, <2>6, ModeMoves DEF Document
    <3>2. Memory!Save
      BY <1>1, <2>3, <2>4, <3>1 DEF Memory!Save, Memory!Goes
    <3> QED
      BY <3>2 DEF Memory!Next
  <2>7. CASE at # "booting" /\ Head(job) = "defaultProfiles"
    <3>1. /\ Mode = "resetting" /\ Mode' = "reloading"
          /\ file'["profiles"] = {DefaultProfiles}
      BY <1>1, <2>2, <2>7, ModeMoves DEF Document
    <3>2. Memory!Restore
      BY <1>1, <2>3, <2>4, <3>1 DEF Memory!Restore, Memory!Goes
    <3> QED
      BY <3>2 DEF Memory!Next
  <2> QED
    BY <1>6, <2>5, <2>6, <2>7
<1> QED
  BY <1>5, <1>6 DEF FileOf, Writes

\* A write that gives up leaves the old list, and only a flash that has
\* failed gives up.
LEMMA ListNotWritten ==
    ASSUME StoreInv, job # <<>>, UNCHANGED at, Head(job) \in Writes,
           SameMemory, job' = Tail(job), UNCHANGED faults \/ Fails, faults' # 0
    PROVE  [Memory!Next]_(Memory!vars)
<1>1. faults \in Nat
  BY DEF StoreInv, StoreTypeOK
<1>2. CASE Mode' = Mode
  BY <1>1, <1>2, Quiet
<1>3. CASE Mode' # Mode
  <2>1. \/ Mode = "saving" /\ Mode' = "using"
        \/ Mode = "resetting" /\ Mode' = "reloading"
    BY <1>3, ModeMoves DEF Writes
  <2>2. (faults' = 0) = FALSE
    OBVIOUS
  <2>3. Memory!KeepsOld
    BY <2>1, <2>2 DEF Memory!KeepsOld, Memory!Goes, SameMemory
  <2> QED
    BY <2>3 DEF Memory!Next
<1> QED
  BY <1>2, <1>3

LEMMA ListRemoved ==
    ASSUME StoreInv, UNCHANGED at, RemoveTarget
    PROVE  [Memory!Next]_(Memory!vars)
<1>1. /\ job # <<>> /\ Head(job) \in Writes /\ step = "remove"
      /\ UNCHANGED job /\ UNCHANGED profiles /\ UNCHANGED faults
  BY DEF RemoveTarget, Writing, ramVars
<1>2. DOMAIN file = File /\ FileOf(Head(job)) \in File /\ faults \in Nat
  BY DEF FileOf, File, StoreInv, StoreTypeOK
<1>3. Mode' = Mode
  BY <1>1, ModeIs
<1>4. CASE UNCHANGED <<file, trusted>>
  BY <1>1, <1>2, <1>3, <1>4, Quiet DEF SameMemory
<1>5. CASE /\ file' = [file EXCEPT ![FileOf(Head(job))] = {}]
           /\ trusted' = (trusted /\ FileOf(Head(job)) # "profiles")
  <2>1. CASE FileOf(Head(job)) = "settings"
    <3>1. file'["profiles"] = file["profiles"]
      BY <1>2, <1>5, <2>1 DEF File
    <3>2. trusted' = trusted
      <4>1. FileOf(Head(job)) # "profiles"
        BY <2>1
      <4> QED
        BY <1>5, <4>1, Zenon DEF StoreInv, StoreTypeOK
    <3> QED
      BY <1>1, <1>3, <3>1, <3>2 DEF Memory!vars
  <2>2. CASE FileOf(Head(job)) = "profiles"
    <3>1. file'["profiles"] = {}
      BY <1>2, <1>5, <2>2 DEF File
    <3>2. trusted' = FALSE
      BY <1>5, <2>2, Zenon
    <3>3. ~(faults = 0)
      BY <1>1 DEF StoreInv, Fresh
    <3>4. Mode \in {"loading", "saving", "resetting"}
      <4>1. Head(job) \in {"saveProfiles", "defaultProfiles"} /\ job \in Seq(Op)
        BY <1>1, <2>2 DEF FileOf, StoreInv, StoreTypeOK
      <4>2. In("saveProfiles", job) \/ In("defaultProfiles", job)
        BY <1>1, <4>1 DEF In
      <4>3. at # "off"
        BY <1>1 DEF StoreInv, RangeInv, Idle
      <4> QED
        BY <4>2, <4>3, ModeIs DEF ModeOf
    <3>5. (faults' = 0) = (faults = 0)
      BY <1>1
    <3>6. Memory!Lose
      BY <1>1, <1>3, <3>1, <3>2, <3>3, <3>4, <3>5 DEF Memory!Lose
    <3> QED
      BY <3>6 DEF Memory!Next
  <2> QED
    BY <1>2, <2>1, <2>2 DEF File
<1> QED
  BY <1>4, <1>5 DEF RemoveTarget

LEMMA ListLoaded ==
    ASSUME StoreInv, UNCHANGED at, LoadProfiles
    PROVE  [Memory!Next]_(Memory!vars)
<1>1. /\ job # <<>> /\ Head(job) = "loadProfiles" /\ job' = Tail(job)
      /\ UNCHANGED file /\ faults \in Nat /\ at # "off"
  BY DEF LoadProfiles, Doing, Returns, flashVars, StoreInv, StoreTypeOK, RangeInv, Idle
<1>2. Memory!AfterLoad
  BY <1>1, ModeMoves DEF Memory!AfterLoad, Memory!Goes
<1>3. CASE /\ mounted
           /\ \E list \in file["profiles"] :
                 profiles' = SubSeq(list, 1, IF Len(list) < MaxProfiles
                                             THEN Len(list) ELSE MaxProfiles)
           /\ UNCHANGED <<faults, trusted>>
  <2>1. PICK list \in file["profiles"] :
           profiles' = SubSeq(list, 1, IF Len(list) < MaxProfiles
                                       THEN Len(list) ELSE MaxProfiles)
    BY <1>3
  <2>2. list \in Seq(Profile) /\ Len(list) <= MaxProfiles /\ Len(list) \in Nat
    BY DEF StoreInv, StoreTypeOK, Fitting
  <2>3. (IF Len(list) < MaxProfiles THEN Len(list) ELSE MaxProfiles) = Len(list)
    BY <2>2, StoreAssumption
  <2>4. profiles' = list
    BY <2>1, <2>2, <2>3
  <2>5. (faults' = 0) = (faults = 0) /\ trusted' = trusted
    BY <1>3
  <2>6. Memory!Load
    BY <1>1, <1>2, <2>4, <2>5 DEF Memory!Load
  <2> QED
    BY <2>6 DEF Memory!Next
<1>4. CASE /\ ~mounted \/ file["profiles"] = {}
           /\ profiles' = <<>>
           /\ UNCHANGED <<faults, trusted>>
  <2>1. file["profiles"] = {} \/ ~(faults = 0)
    BY <1>1, <1>4 DEF StoreInv, Fresh
  <2>2. (faults' = 0) = (faults = 0) /\ trusted' = trusted
    BY <1>4
  <2>3. Memory!LoadNothing
    BY <1>1, <1>2, <1>4, <2>1, <2>2 DEF Memory!LoadNothing
  <2> QED
    BY <2>3 DEF Memory!Next
<1>5. CASE Fails /\ profiles' = <<>> /\ trusted' = FALSE
  <2>1. faults' # 0
    BY <1>1, <1>5 DEF Fails
  <2>2. (faults' = 0) = FALSE
    BY <2>1
  <2>3. Memory!LoadNothing
    BY <1>1, <1>2, <1>5, <2>2 DEF Memory!LoadNothing
  <2> QED
    BY <2>3 DEF Memory!Next
<1> QED
  BY <1>3, <1>4, <1>5 DEF LoadProfiles

LEMMA StoreMemory ==
    ASSUME StoreInv, Store
    PROVE  [Memory!Next]_(Memory!vars)
<1>1. job # <<>> /\ UNCHANGED at /\ at # "off" /\ faults \in Nat
  BY StoreMoves DEF StoreInv, StoreTypeOK, RangeInv, Idle
<1>2. CASE OpenTmp \/ Serialize \/ CloseFails \/ RenameFails
  <2>1. UNCHANGED job /\ SameMemory /\ (UNCHANGED faults \/ Fails)
    BY <1>2 DEF OpenTmp, Serialize, CloseFails, RenameFails, SameMemory, ramVars, flashVars
  <2>2. Mode' = Mode
    BY <1>1, <2>1, ModeIs
  <2> QED
    BY <1>1, <2>1, <2>2, Quiet
<1>3. CASE OpenTmpFails \/ ShortWrite \/ RenameAgainFails
  <2>1. /\ Head(job) \in Writes /\ SameMemory /\ job' = Tail(job)
        /\ UNCHANGED faults \/ Fails
    BY <1>3 DEF OpenTmpFails, ShortWrite, RenameAgainFails, Writing, Returns, SameMemory,
       ramVars, flashVars
  <2>2. CASE Fails
    <3>1. faults' # 0
      BY <1>1, <2>2 DEF Fails
    <3> QED
      BY <1>1, <2>1, <3>1, ListNotWritten
  <2>3. CASE ~Fails
    <3>1. ~mounted \/ step = "again"
      BY <1>3, <2>3 DEF OpenTmpFails, ShortWrite, RenameAgainFails, Writing
    <3>2. faults # 0
      BY <1>1, <3>1 DEF StoreInv, Fresh
    <3>3. faults' # 0
      BY <2>1, <2>3, <3>2
    <3> QED
      BY <1>1, <2>1, <3>3, ListNotWritten
  <2> QED
    BY <2>2, <2>3
<1>4. CASE Rename \/ RenameAgain
  BY <1>1, <1>4, ListWritten DEF Rename, RenameAgain, Writing
<1>5. CASE RemoveTarget
  BY <1>1, <1>5, ListRemoved
<1>6. CASE LoadProfiles
  BY <1>1, <1>6, ListLoaded
<1>7. CASE LoadSettings
  <2>1. /\ Head(job) = "loadSettings" /\ SameMemory /\ job' = Tail(job)
        /\ UNCHANGED faults \/ Fails
    BY <1>7 DEF LoadSettings, Doing, Returns, SameMemory, flashVars
  <2>2. Mode' = Mode
    BY <1>1, <2>1, ModeMoves
  <2> QED
    BY <1>1, <2>1, <2>2, Quiet
<1>8. CASE RestoreDefaults
  <2>1. at = "booting"
    <3>1. Has("restoreDefaults")
      BY <1>1, <1>8 DEF RestoreDefaults, Doing, Has, StoreInv, StoreTypeOK
    <3> QED
      BY <3>1 DEF StoreInv, Jobs
  <2>2. Mode' = Mode
    BY <1>1, <2>1, ModeIs DEF ModeOf
  <2>3. SameMemory /\ UNCHANGED faults
    BY <1>8 DEF RestoreDefaults, SameMemory, ramVars, flashVars
  <2> QED
    BY <1>1, <2>2, <2>3, Quiet
<1> QED
  BY <1>2, <1>3, <1>4, <1>5, <1>6, <1>7, <1>8 DEF Store, StoreStep

\* Where no handler waits for the store there is nothing left to do.
LEMMA ModeAtRest ==
    ASSUME StoreInv, at \in {"button", "serve"}
    PROVE  job = <<>> /\ Mode = "using"
<1>1. job = <<>> /\ at # "off" /\ at # "booting"
  BY DEF StoreInv, RangeInv, Idle
<1>2. ModeOf(at, <<>>) = "using"
  BY <1>1, ModeOfOps
<1> QED
  BY <1>1, <1>2, ModeIs, Zenon

LEMMA ResetMemory ==
    ASSUME StoreInv, at \in {"button", "serve"}, NEW next \in {"resetting", "wiping"},
           FactoryReset(next)
    PROVE  [Memory!Next]_(Memory!vars)
<1>1. /\ UNCHANGED profiles /\ UNCHANGED file /\ UNCHANGED trusted /\ UNCHANGED faults
      /\ job' = FactoryResetOps /\ at' = next
  BY DEF FactoryReset, Queue, ramVars, flashVars
<1>2. Mode' = "resetting"
  BY <1>1, ModeIs, ModeOfOps
<1>3. Memory!Reset
  BY <1>1, <1>2, ModeAtRest DEF Memory!Reset, Memory!Goes
<1> QED
  BY <1>3 DEF Memory!Next

\* The settings are no part of the list.
LEMMA SettingsMemory ==
    ASSUME StoreInv, at \in {"button", "serve"}, at' \in {"cycling", "posting"},
           UNCHANGED profiles, Queue(CycleOps)
    PROVE  [Memory!Next]_(Memory!vars)
<1>1. SameMemory /\ UNCHANGED faults /\ job' = CycleOps
  BY DEF Queue, flashVars, SameMemory
<1>2. Mode' = "using"
  BY <1>1, ModeIs, ModeOfOps
<1>3. Mode' = Mode /\ faults \in Nat
  BY <1>2, ModeAtRest DEF StoreInv, StoreTypeOK
<1> QED
  BY <1>1, <1>3, Quiet

LEMMA BootMemory ==
    ASSUME StoreInv, PowerOn
    PROVE  [Memory!Next]_(Memory!vars)
<1>1. at = "off" /\ at' = "booting" /\ Begin /\ UNCHANGED profiles /\ faults \in Nat
  BY DEF PowerOn, At, Begin, ramVars, StoreInv, StoreTypeOK
<1>2. Mode = "off" /\ Mode' = "loading"
  BY <1>1, ModeIs DEF ModeOf
<1>3. ASSUME Fails PROVE (faults' = 0) = FALSE
  <2>1. faults' # 0
    BY <1>1, <1>3 DEF Fails
  <2> QED
    BY <2>1
<1>4. Memory!SwitchOn
  <2>1. CASE UNCHANGED <<file, faults, trusted>>
    BY <1>1, <1>2, <2>1 DEF Memory!SwitchOn, Memory!Goes
  <2>2. CASE Fails /\ file' = [f \in File |-> {}] /\ trusted' = FALSE
    <3>1. file'["profiles"] = {}
      BY <2>2 DEF File
    <3> QED
      BY <1>1, <1>2, <1>3, <2>2, <3>1 DEF Memory!SwitchOn, Memory!Goes
  <2>3. CASE Fails /\ UNCHANGED <<file, trusted>>
    BY <1>1, <1>2, <1>3, <2>3 DEF Memory!SwitchOn, Memory!Goes
  <2> QED
    BY <1>1, <2>1, <2>2, <2>3 DEF Begin
<1> QED
  BY <1>4 DEF Memory!Next

LEMMA MemoryStep ==
    ASSUME StoreInv, [Next]_vars
    PROVE  [Memory!Next]_(Memory!vars)
<1> USE DEF At
<1>1. CASE Store
  BY <1>1, StoreMemory
<1>2. ASSUME SameStore, at \notin {"off", "booting"}, at' \notin {"off", "booting"}
      PROVE  [Memory!Next]_(Memory!vars)
  <2>1. SameMemory /\ UNCHANGED faults /\ UNCHANGED job
    BY <1>2 DEF SameStore, storeVars, ramVars, flashVars, workVars, SameMemory
  <2>2. Mode' = Mode
    BY <1>2, <2>1, ModeIs DEF ModeOf
  <2> QED
    BY <2>1, <2>2, Quiet DEF StoreInv, StoreTypeOK
<1>3. CASE ButtonReleased
  <2>1. at = "button"
    BY <1>3 DEF ButtonReleased
  <2>2. CASE PressCycles
    BY <2>1, <2>2, SettingsMemory DEF PressCycles, CycleOps
  <2>3. CASE PressWakes \/ PressLocked \/ HoldCancelled \/ ConfigThreshold
    <3>1. SameStore /\ at' = "display"
      BY <2>3 DEF PressWakes, PressLocked, HoldCancelled, ConfigThreshold
    <3> QED
      BY <1>2, <2>1, <3>1
  <2> QED
    BY <1>3, <2>2, <2>3 DEF ButtonReleased
<1>4. CASE ButtonHeld
  <2>1. at = "button"
    BY <1>4 DEF ButtonHeld
  <2>2. FactoryReset("resetting") \/ (at' = "display" /\ SameStore)
    BY <1>4 DEF ButtonHeld
  <2> QED
    BY <1>2, <2>1, <2>2, ResetMemory
<1>5. CASE Serve
  <2>1. ASSUME NEW list \in Uploads, PostProfiles(list)
        PROVE  [Memory!Next]_(Memory!vars)
    <3>1. /\ at = "serve" /\ at' = "posting" /\ Len(list) \in 1 .. MaxProfiles
          /\ profiles' = list /\ job' = PostOps
          /\ UNCHANGED file /\ UNCHANGED faults /\ UNCHANGED trusted
      BY <2>1 DEF PostProfiles, ReplaceAll, Queue, flashVars, PostOps
    <3>2. Mode = "using" /\ Mode' = "saving"
      BY <3>1, ModeAtRest, ModeIs, ModeOfOps
    <3>3. Memory!Change
      BY <3>1, <3>2 DEF Memory!Change, Memory!Goes
    <3> QED
      BY <3>3 DEF Memory!Next
  <2>2. ASSUME NEW index, NEW alwaysOn, PostSettings(index, alwaysOn)
        PROVE  [Memory!Next]_(Memory!vars)
    BY <2>2, SettingsMemory DEF PostSettings, CycleOps
  <2>3. CASE Unserved \/ PostExit
    BY <1>2, <2>3 DEF Unserved, PostExit
  <2>4. CASE PostFactoryReset
    BY <2>4, ResetMemory DEF PostFactoryReset
  <2> QED
    BY <1>5, <2>1, <2>2, <2>3, <2>4 DEF Serve
<1>6. CASE PowerOn
  BY <1>6, BootMemory
<1>7. CASE Setup
  <2>1. /\ at = "booting" /\ at' = "top" /\ job = <<>> /\ UNCHANGED job
        /\ SameMemory /\ UNCHANGED faults
    BY <1>7 DEF Setup, SameStore, storeVars, ramVars, flashVars, workVars, SameMemory
  <2>2. Mode = "loading" /\ Mode' = "using"
    <3>1. ModeOf("top", <<>>) = "using" /\ ModeOf("booting", <<>>) = "loading"
      BY ModeOfOps DEF ModeOf
    <3> QED
      BY <2>1, <3>1, ModeIs, Zenon
  <2>3. faults = 0 => file["profiles"] = {profiles}
    <3>1. ~Has("saveProfiles") /\ ~Has("loadProfiles")
      BY <2>1 DEF Has
    <3> QED
      BY <2>1, <3>1 DEF StoreInv, Fresh
  <2>4. Memory!Start
    BY <2>1, <2>2, <2>3 DEF Memory!Start, Memory!Goes, SameMemory
  <2> QED
    BY <2>4 DEF Memory!Next
<1>8. CASE PowerLoss
  <2>1. /\ at' = "off" /\ profiles' = <<>>
        /\ UNCHANGED file /\ UNCHANGED faults /\ UNCHANGED trusted
    BY <1>8 DEF PowerLoss, StoreLosesPower
  <2>2. Mode' = "off"
    BY <2>1, ModeIs DEF ModeOf
  <2>3. Memory!PowerLoss
    BY <2>1, <2>2 DEF Memory!PowerLoss
  <2> QED
    BY <2>3 DEF Memory!Next
<1>9. CASE \/ Turn \/ NothingPressed \/ Cycled \/ WasReset \/ DisplayUpdate
           \/ WifiExits \/ HandleClient \/ Posted \/ Wiped \/ NoCommand \/ Command
  <2>1. SameStore /\ at \notin {"off", "booting"} /\ at' \notin {"off", "booting"}
    BY <1>9 DEF Turn, NothingPressed, Cycled, WasReset, DisplayUpdate,
       AfterDisplay, WifiExits, HandleClient, Posted, Wiped, NoCommand, Command
  <2> QED
    BY <1>2, <2>1
<1>10. CASE UNCHANGED vars
  <2>1. SameMemory /\ UNCHANGED faults /\ UNCHANGED job /\ UNCHANGED at
    BY <1>10 DEF vars, storeVars, ramVars, flashVars, workVars, SameMemory
  <2>2. Mode' = Mode
    BY <2>1, ModeIs
  <2> QED
    BY <2>1, <2>2, Quiet DEF StoreInv, StoreTypeOK
<1> QED
  BY <1>1, <1>3, <1>4, <1>5, <1>6, <1>7, <1>8, <1>9, <1>10 DEF Next, Device

LEMMA MemoryInit == Init => Memory!Init
<1> SUFFICES ASSUME Init PROVE Memory!Init
  OBVIOUS
<1>1. /\ at = "off" /\ profiles = <<>> /\ file["profiles"] = {} /\ faults = 0
      /\ trusted = FALSE
  BY DEF Init, StoreInit, File
<1>2. Mode = "off"
  BY <1>1 DEF Mode
<1> QED
  BY <1>1, <1>2 DEF Memory!Init

(* Every step of the stick, a flash fault and a power loss at any point of *)
(* a write included, is one the memory of a single list may take, or leaves *)
(* that memory as it was.                                                  *)
THEOREM StickImplementsMemory == Spec => ImplementsMemory
<1>1. StoreInv /\ [Next]_vars => [Memory!Next]_(Memory!vars)
  BY MemoryStep
<1> QED
  BY <1>1, MemoryInit, StoreInvariance, PTL DEF Spec, ImplementsMemory, Memory!Spec

-----------------------------------------------------------------------------
(* A factory reset: what its writes and loads have done so far.            *)

ResetSoFar ==
    at \in {"resetting", "wiping"} /\ faults = 0 =>
        /\ job # FactoryResetOps => file["profiles"] = {DefaultProfiles}
        /\ job # FactoryResetOps /\ job # ResetTail1 =>
              file["settings"] = {DefaultSettings}
        /\ job = ResetTail3 \/ job = <<>> => profiles = DefaultProfiles
        /\ job = <<>> => settings = DefaultSettings

LEMMA AllApart ==
    /\ FactoryResetOps # ResetTail1 /\ FactoryResetOps # ResetTail2
    /\ FactoryResetOps # ResetTail3 /\ FactoryResetOps # <<>>
    /\ ResetTail1 # ResetTail2 /\ ResetTail1 # ResetTail3 /\ ResetTail1 # <<>>
    /\ ResetTail2 # ResetTail3 /\ ResetTail2 # <<>> /\ ResetTail3 # <<>>
<1>1. /\ FactoryResetOps # ResetTail1 /\ FactoryResetOps # ResetTail2
      /\ FactoryResetOps # ResetTail3 /\ ResetTail1 # ResetTail2
      /\ ResetTail1 # ResetTail3 /\ ResetTail2 # ResetTail3
  BY Lengths
<1>2. FactoryResetOps # <<>> /\ ResetTail1 # <<>> /\ ResetTail2 # <<>>
      /\ ResetTail3 # <<>>
  BY DEF FactoryResetOps, ResetTail1, ResetTail2, ResetTail3
<1> QED
  BY <1>1, <1>2

LEMMA DefaultsClamped ==
    Clamped(DefaultSettings, Len(DefaultProfiles)) = DefaultSettings
<1>1. Len(DefaultProfiles) > 0 /\ DefaultSettings.active = 0
  BY StoreAssumption DEF DefaultSettings
<1> QED
  BY <1>1, StoreAssumption DEF Clamped

LEMMA ResetWork ==
    ASSUME StoreInv, ResetSoFar, at \in {"resetting", "wiping"}, faults' = 0, Store
    PROVE  ResetSoFar'
<1> USE DEF Writing, Doing, ramVars, flashVars
<1>1. faults = 0 /\ ~Fails
  BY NoFault, StoreParts DEF StoreInv
<1>2. /\ job # <<>> /\ UNCHANGED at /\ at # "off" /\ DOMAIN file = File
      /\ job \in {FactoryResetOps, ResetTail1, ResetTail2, ResetTail3}
  BY StoreMoves DEF StoreInv, StoreTypeOK, Left
<1>3. mounted /\ step \in {"open", "serialize", "rename"}
  BY <1>1, <1>2 DEF StoreInv, Fresh
<1>4. CASE OpenTmp \/ Serialize
  <2>1. UNCHANGED <<profiles, settings, file, job, faults>>
    BY <1>4 DEF OpenTmp, Serialize
  <2> QED
    BY <1>2, <2>1 DEF ResetSoFar
<1>5. CASE \/ OpenTmpFails \/ CloseFails \/ ShortWrite \/ RenameFails
           \/ RemoveTarget \/ RenameAgain \/ RenameAgainFails
  <2>1. ~short
    BY <1>1, StoreParts, WholeUnfailed DEF StoreInv
  <2> QED
    BY <1>1, <1>3, <1>5, <2>1 DEF OpenTmpFails, CloseFails, ShortWrite, RenameFails,
       RemoveTarget, RenameAgain, RenameAgainFails
<1>6. CASE Rename
  <2>1. /\ Head(job) \in Writes /\ job' = Tail(job)
        /\ UNCHANGED profiles /\ UNCHANGED settings
    BY <1>6 DEF Rename, Renamed, Returns
  <2>2. short = FALSE
    BY <1>1, StoreParts, WholeUnfailed DEF StoreInv
  <2>3. file' = [file EXCEPT ![FileOf(Head(job))] = {Document(Head(job))}]
    BY <1>6, <2>2 DEF Rename, Renamed
  <2>4. CASE job = FactoryResetOps
    <3>1. job' = ResetTail1 /\ Head(job) = "defaultProfiles"
      BY <2>1, <2>4, Heads, Tails
    <3>2. file'["profiles"] = {DefaultProfiles}
      BY <1>2, <2>3, <3>1 DEF FileOf, Document, File
    <3> QED
      BY <3>1, <3>2, AllApart DEF ResetSoFar
  <2>5. CASE job = ResetTail1
    <3>1. job' = ResetTail2 /\ Head(job) = "defaultSettings"
      BY <2>1, <2>5, Heads, Tails
    <3>2. /\ file'["settings"] = {DefaultSettings}
          /\ file'["profiles"] = file["profiles"]
      BY <1>2, <2>3, <3>1 DEF FileOf, Document, File
    <3>3. file["profiles"] = {DefaultProfiles}
      BY <1>1, <2>5, AllApart DEF ResetSoFar
    <3> QED
      BY <3>1, <3>2, <3>3, AllApart DEF ResetSoFar
  <2>6. CASE job \in {ResetTail2, ResetTail3}
    BY <2>1, <2>6, Heads DEF Writes
  <2> QED
    BY <1>2, <2>4, <2>5, <2>6
<1>7. CASE LoadProfiles
  <2>1. Head(job) = "loadProfiles" /\ job' = Tail(job) /\ UNCHANGED file
    BY <1>7 DEF LoadProfiles, Returns
  <2>2. job = ResetTail2 /\ job' = ResetTail3
    BY <1>2, <2>1, Heads, Tails
  <2>3. file["profiles"] = {DefaultProfiles} /\ file["settings"] = {DefaultSettings}
    BY <1>1, <2>2, AllApart DEF ResetSoFar
  <2>4. profiles' = SubSeq(DefaultProfiles, 1,
                           IF Len(DefaultProfiles) < MaxProfiles
                           THEN Len(DefaultProfiles) ELSE MaxProfiles)
    BY <1>1, <1>3, <1>7, <2>3 DEF LoadProfiles
  <2>5. (IF Len(DefaultProfiles) < MaxProfiles
         THEN Len(DefaultProfiles) ELSE MaxProfiles) = Len(DefaultProfiles)
    BY StoreAssumption
  <2>6. profiles' = DefaultProfiles
    BY <2>4, <2>5, UiAssumption
  <2> QED
    BY <2>1, <2>2, <2>3, <2>6, AllApart DEF ResetSoFar
<1>8. CASE LoadSettings
  <2>1. /\ Head(job) = "loadSettings" /\ job' = Tail(job)
        /\ UNCHANGED file /\ UNCHANGED profiles
    BY <1>8 DEF LoadSettings, Returns
  <2>2. job = ResetTail3 /\ job' = <<>>
    BY <1>2, <2>1, Heads, Tails
  <2>3. /\ file["profiles"] = {DefaultProfiles} /\ file["settings"] = {DefaultSettings}
        /\ profiles = DefaultProfiles
    BY <1>1, <2>2, AllApart DEF ResetSoFar
  <2>4. settings' = Clamped(DefaultSettings, Len(profiles))
    BY <1>1, <1>3, <1>8, <2>3 DEF LoadSettings
  <2>5. settings' = DefaultSettings
    BY <2>3, <2>4, DefaultsClamped
  <2> QED
    BY <2>1, <2>2, <2>3, <2>5, AllApart DEF ResetSoFar
<1>9. CASE RestoreDefaults
  BY <1>2, <1>9, Heads DEF RestoreDefaults
<1> QED
  BY <1>4, <1>5, <1>6, <1>7, <1>8, <1>9 DEF Store, StoreStep

LEMMA ResetStep ==
    ASSUME StoreInv, ResetSoFar, [Next]_vars
    PROVE  ResetSoFar'
<1> SUFFICES ASSUME at' \in {"resetting", "wiping"}, faults' = 0
             PROVE  ResetSoFar'
  BY DEF ResetSoFar
<1> USE DEF At
<1>1. CASE Store
  <2>1. at \in {"resetting", "wiping"}
    BY <1>1, StoreMoves
  <2> QED
    BY <1>1, <2>1, ResetWork
<1>2. ASSUME NEW next, FactoryReset(next) PROVE ResetSoFar'
  <2>1. job' = FactoryResetOps
    BY <1>2 DEF FactoryReset, Queue
  <2> QED
    BY <2>1, AllApart DEF ResetSoFar
<1>3. CASE ButtonHeld
  BY <1>2, <1>3 DEF ButtonHeld
<1>4. CASE ButtonReleased
  BY <1>4 DEF ButtonReleased, PressWakes, PressLocked, PressCycles, HoldCancelled,
     ConfigThreshold
<1>5. CASE Serve
  BY <1>2, <1>5 DEF Serve, Unserved, PostExit, PostProfiles, PostSettings,
     PostFactoryReset
<1>6. CASE \/ PowerOn \/ PowerLoss \/ Setup \/ Turn \/ NothingPressed \/ Cycled
           \/ WasReset \/ DisplayUpdate \/ WifiExits \/ HandleClient \/ Posted
           \/ Wiped \/ NoCommand \/ Command
  BY <1>6 DEF PowerOn, PowerLoss, Setup, Turn, NothingPressed, Cycled, WasReset,
     DisplayUpdate, AfterDisplay, WifiExits, HandleClient, Posted, Wiped, NoCommand,
     Command
<1>7. CASE UNCHANGED vars
  <2>1. UNCHANGED <<profiles, settings, file, job, faults, at>>
    BY <1>7 DEF vars, storeVars, ramVars, flashVars, workVars
  <2> QED
    BY <2>1 DEF ResetSoFar
<1> QED
  BY <1>1, <1>3, <1>4, <1>5, <1>6, <1>7 DEF Next, Device

LEMMA ResetInit == Init => ResetSoFar
  BY DEF Init, ResetSoFar

(* A reset of the button or of the page, begun from any list, settings and *)
(* files, ends with the defaults in use unless a flash operation has       *)
(* failed.                                                                 *)
THEOREM ResetGivesDefaults == Spec => ResetRestores
<1>1. StoreInv /\ ResetSoFar /\ [Next]_vars => ResetSoFar'
  BY ResetStep
<1>2. StoreInv /\ ResetSoFar /\ [Next]_vars =>
        [(WasReset \/ Wiped) /\ faults = 0 =>
            profiles = DefaultProfiles /\ settings = DefaultSettings]_vars
  BY DEF ResetSoFar, WasReset, Wiped, At
<1> QED
  BY <1>1, <1>2, ResetInit, StoreInvariance, PTL DEF Spec, ResetRestores

=============================================================================
