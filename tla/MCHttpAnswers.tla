---------------------------- MODULE MCHttpAnswers ----------------------------
(* The links and symmetries for checking HttpAnswers with TLC. *)
EXTENDS HttpAnswers, TLC

CONSTANTS t1, p1, p2

Public == [target |-> t1, status |-> "active", expired |-> FALSE, password |-> Null]

\* Public, disabled, expired, protected.
OneReasonEach ==
  {Public, [Public EXCEPT !.status = "disabled"], [Public EXCEPT !.expired = TRUE],
   [Public EXCEPT !.password = p1]}

Symmetry == Permutations(Tabs) \cup Permutations(Slugs)
===============================================================================
