------------------------------ MODULE SessionsMC ------------------------------
(***************************************************************************)
(* The requests, the secrets, the sessions and the logins are               *)
(* interchangeable.                                                        *)
(***************************************************************************)
EXTENDS Sessions, TLC

Symmetry ==
    Permutations(Requests) \cup Permutations(Secrets)
        \cup Permutations(Rows) \cup Permutations(Logins)

===============================================================================
