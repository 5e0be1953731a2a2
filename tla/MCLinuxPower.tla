---------------------------- MODULE MCLinuxPower ----------------------------
(* Instances of LinuxPower for TLC; the .cfg files give the constants.     *)
EXTENDS LinuxPower
=============================================================================
