--------------------------- MODULE MCLinkForwarding ---------------------------
(* Request bodies, symmetries and bounds for checking LinkForwarding with TLC. *)
EXTENDS LinkForwarding, TLC

CONSTANTS t1, t2, p1, d1

\* A public link to the first target.
PlainCreations ==
  {[target |-> t1, status |-> "active", expires_at |-> Null, password |-> Null]}

\* The link points elsewhere.
RetargetPatches == {[NoChange EXCEPT !.target = t2]}

\* A link with a deadline behind a password, and the patch that takes both away
\* and points it elsewhere.
ProtectedCreations ==
  {[c EXCEPT !.expires_at = d1, !.password = p1] : c \in PlainCreations}

OpeningPatches ==
  {[NoChange EXCEPT !.target = t2, !.expires_at = Null, !.password = Null]}

\* Patches that meet in one field only; the second restates it for a new link.
OverlappingPatches ==
  OpeningPatches \cup {[NoChange EXCEPT !.target = t1, !.status = "disabled"]}

Symmetry == Permutations(Readers) \cup Permutations(Writers) \cup Permutations(Ids)
===============================================================================
