--------------------------- MODULE MCReadYourWrites ---------------------------
(* ReadYourWrites with the request bodies and symmetries of MCLinkForwarding. *)
EXTENDS ReadYourWrites, MCLinkForwarding
===============================================================================
