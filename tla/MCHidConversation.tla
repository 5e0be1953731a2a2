------------------------- MODULE MCHidConversation -------------------------
(* Instances of HidConversation for TLC; the .cfg files give the constants. *)
EXTENDS HidConversation
=============================================================================
