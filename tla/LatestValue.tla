----------------------------- MODULE LatestValue ------------------------------
(***************************************************************************)
(* What a coalescing throttle promises for each key: a value may be skipped *)
(* when a newer one replaces it, but what is sent is always the newest      *)
(* value asked for, and the newest value is sent in the end.                *)
(***************************************************************************)
CONSTANTS Keys, Values, None

VARIABLES
    asked,                \* the newest value asked for, per key
    shown                 \* the value sent last, per key

vars == <<asked, shown>>

Init ==
    /\ asked = [k \in Keys |-> None]
    /\ shown = [k \in Keys |-> None]

\* The newest value is sent at once or later.
Ask(k, v) ==
    /\ asked' = [asked EXCEPT ![k] = v]
    /\ \/ shown' = [shown EXCEPT ![k] = v]
       \/ UNCHANGED shown

Show(k) ==
    /\ shown' = [shown EXCEPT ![k] = asked[k]]
    /\ UNCHANGED asked

Next == \E k \in Keys : Show(k) \/ \E v \in Values : Ask(k, v)

SafeSpec == Init /\ [][Next]_vars

Spec == SafeSpec /\ \A k \in Keys : WF_vars(Show(k))

===============================================================================
