----------------------------- MODULE MCLinkListing -----------------------------
(* Link ids and times for checking LinkListing with TLC. *)
EXTENDS LinkListing

ThreeIds == 1..3
TwoTimes == 1..2
===============================================================================
