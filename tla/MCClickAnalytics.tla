--------------------------- MODULE MCClickAnalytics ---------------------------
(* Time zones and clicks for checking ClickAnalytics with TLC. *)
EXTENDS ClickAnalytics, TLC

\* Set forward and set back, and never changed; midnight at an even or odd instant.
SmallZones ==
  [before: {0, 1}, after: {0, 1}, change: {3}]
    \cup {z \in [before: {0, 1}, after: {0, 1}, change: {4, 5}] : z.before # z.after}

SmallKinds == [country: {1, 2, Null}, source: {"LNKR_APP"}]
                \cup {[country |-> 1, source |-> "PUBLIC_API"]}

OneSeed == {[days_ago |-> 1, country |-> 1, source |-> "LNKR_APP"]}

Symmetry == Permutations(ClickIds)
===============================================================================
