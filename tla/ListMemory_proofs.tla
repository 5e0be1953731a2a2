-------------------------- MODULE ListMemory_proofs --------------------------
(***************************************************************************)
(* What follows from ListMemory alone, for every set of lists.             *)
(***************************************************************************)
EXTENDS ListMemory, TLAPS

One == \A a, b \in kept : a = b

\* A reset has something to load, unless the flash has failed.
Restored == mode = "reloading" /\ sound => kept # {}

MemoryInv == One /\ Restored /\ InUseIsKept

LEMMA MemoryInit == Init => MemoryInv
  BY DEF Init, MemoryInv, One, Restored, InUseIsKept

LEMMA MemoryStep ==
    ASSUME MemoryInv, [Next]_vars
    PROVE  MemoryInv'
<1> USE DEF MemoryInv, One, Restored, InUseIsKept, Goes
<1>1. CASE SwitchOn
  BY <1>1 DEF SwitchOn
<1>2. CASE Install
  BY <1>2 DEF Install
<1>3. CASE Load
  <2>1. kept' = kept /\ sound' = sound /\ inUse' \in kept /\ mode' # "reloading"
    BY <1>3 DEF Load, AfterLoad
  <2>2. kept = {inUse'}
    BY <2>1
  <2> QED
    BY <2>1, <2>2
<1>4. CASE LoadNothing
  <2>1. kept' = kept /\ (sound' => sound /\ kept = {})
    BY <1>4 DEF LoadNothing
  <2>2. CASE Goes("loading", "loading")
    BY <2>1, <2>2
  <2>3. CASE Goes("reloading", "using")
    BY <2>1, <2>3
  <2> QED
    BY <1>4, <2>2, <2>3 DEF LoadNothing, AfterLoad
<1>5. CASE Start
  BY <1>5 DEF Start
<1>6. CASE Change
  BY <1>6 DEF Change
<1>7. CASE Save
  BY <1>7 DEF Save
<1>8. CASE Reset
  BY <1>8 DEF Reset
<1>9. CASE Restore
  BY <1>9 DEF Restore
<1>10. CASE KeepsOld
  <2>1. ~sound' /\ kept' = kept
    BY <1>10, Zenon DEF KeepsOld
  <2> QED
    BY <2>1
<1>11. CASE Lose
  <2>1. ~sound' /\ kept' = {}
    BY <1>11, Zenon DEF Lose
  <2> QED
    BY <2>1
<1>12. CASE Fault
  <2>1. ~sound' /\ kept' = kept
    BY <1>12, Zenon DEF Fault
  <2> QED
    BY <2>1
<1>13. CASE PowerLoss
  BY <1>13 DEF PowerLoss
<1>14. CASE UNCHANGED vars
  BY <1>14 DEF vars
<1>15. CASE KeepsNothing
  <2>1. ~sound' /\ kept' = {}
    BY <1>15, Zenon DEF KeepsNothing
  <2> QED
    BY <2>1
<1> QED
  BY <1>1, <1>2, <1>3, <1>4, <1>5, <1>6, <1>7, <1>8, <1>9, <1>10, <1>11, <1>12, <1>13,
     <1>14, <1>15 DEF Next

(* However changes, resets and power losses follow one another, the list   *)
(* in use is the one the next boot loads whenever nothing is being saved   *)
(* or loaded, as long as the flash works: what a caller of Profiles.cpp    *)
(* may rely on, by ListMemory alone.                                       *)
THEOREM InUseStaysKept == Spec => []InUseIsKept
<1>1. MemoryInv /\ [Next]_vars => MemoryInv'
  BY MemoryStep
<1>2. MemoryInv => InUseIsKept
  BY DEF MemoryInv
<1> QED
  BY <1>1, <1>2, MemoryInit, PTL DEF Spec
=============================================================================
