------------------------------ MODULE DoubleTap -------------------------------
(***************************************************************************)
(* Two taps on the button of one scene, the second before MinInterval has  *)
(* passed: what the throttle does with a command that, unlike a slider      *)
(* position, is not idempotent (WsGatewayService.ts, case "runScene").      *)
(***************************************************************************)
EXTENDS CommandThrottle

VARIABLES taps, plays     \* taps handled, runScene commands sent upstream

tapVars == <<since, timer, pendingRaw, latest, out, gaps, taps, plays>>

TapInit == Init /\ taps = 0 /\ plays = 0

\* A second tap that comes later than MinInterval is no double tap.
Tap ==
    \E scene \in Keys, run \in Values :
        /\ taps < 2 /\ (taps = 1 => since[scene] < MinInterval)
        /\ Schedule(scene, run)
        /\ taps' = taps + 1
        /\ plays' = IF since[scene] >= MinInterval THEN plays + 1 ELSE plays

SceneTimerFires ==
    \E scene \in Keys :
        /\ TimerFires(scene)
        /\ plays' = IF pendingRaw[scene] # None THEN plays + 1 ELSE plays
        /\ UNCHANGED taps

TimePasses == Tick /\ UNCHANGED <<taps, plays>>

TapNext == Tap \/ SceneTimerFires \/ TimePasses

TapSpec == TapInit /\ [][TapNext]_tapVars

\* A double tap on the run button plays the scene once, which the comment on
\* the "runScene" case of the gateway gives as the reason for throttling it.
PlayedOnce == plays <= 1

===============================================================================
