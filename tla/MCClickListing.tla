---------------------------- MODULE MCClickListing ----------------------------
(* Click ids and clock values for checking ClickListing with TLC.  Four clicks
   are the least that make two pages of different size and a click beyond. *)
EXTENDS ClickListing, TLC

FourIds == 1..4
TwoTimes == 1..2
Symmetry == Permutations(LinkIds)
===============================================================================
