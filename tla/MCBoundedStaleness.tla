-------------------------- MODULE MCBoundedStaleness --------------------------
(* BoundedStaleness with the request bodies and symmetries of MCLinkForwarding. *)
EXTENDS BoundedStaleness, MCLinkForwarding
===============================================================================
