----------------------------- MODULE MCAuthTokens -----------------------------
(* Symmetries for checking AuthTokens with TLC. *)
EXTENDS AuthTokens, TLC

Symmetry == Permutations(Requests) \cup Permutations(UserIds)
              \cup Permutations(LoginValues) \cup Permutations(RefreshValues)
===============================================================================
