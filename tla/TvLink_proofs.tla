---------------------------- MODULE TvLink_proofs ----------------------------
(***************************************************************************)
(* What the abstract link is worth to its callers.                         *)
(***************************************************************************)
EXTENDS TvLink, TLAPS

(* send() returning true means the same in the abstract link as in the      *)
(* daemon's log: until the next call the TV is left with that command and   *)
(* nothing that was given up on earlier can overtake it.                    *)
THEOREM LinkKeepsPromise == Spec => []Promise
<1>1. Init => Promise
  BY DEF Init, Promise
<1>2. ASSUME Promise, [Next]_vars
      PROVE  Promise'
  <2>1. CASE (\E c \in Cmd : Call(c)) \/ Refuse \/ Fail
    <3>1. ok' = FALSE
      BY <2>1 DEF Call, Refuse, Fail
    <3> QED
      BY <3>1 DEF Promise
  <2>2. CASE Confirm
    BY <2>2 DEF Confirm, Promise
  <2>3. CASE Reach \/ Lose
    BY <1>2, <2>3 DEF Reach, Lose, Promise
  <2>4. CASE UNCHANGED vars
    BY <1>2, <2>4 DEF vars, Promise
  <2> QED
    BY <1>2, <2>1, <2>2, <2>3, <2>4 DEF Next
<1> QED
  BY <1>1, <1>2, PTL DEF Spec
=============================================================================
