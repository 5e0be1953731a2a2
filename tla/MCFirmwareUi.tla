---------------------------- MODULE MCFirmwareUi ----------------------------
(* Instances of FirmwareUi for TLC: the default profiles, and the lists a   *)
(* page may post: one that is shorter, has another TV and one the button    *)
(* passes over, and one that is too long.                                  *)
EXTENDS FirmwareUi

CONSTANTS lg, sony, own

Visible(tv) == [tv |-> tv, visible |-> TRUE]
Hidden(tv) == [tv |-> tv, visible |-> FALSE]

MCTv == {lg, sony, own}
MCDefaults == <<Visible(lg), Visible(sony), Visible(own)>>
MCUploads == {<<Hidden(own), Visible(lg)>>, Append(MCDefaults, Visible(own))}
=============================================================================
