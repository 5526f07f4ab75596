------------------------------ MODULE CommandPath ------------------------------
(***************************************************************************)
(* WsGatewayService.handleConnection: the way of a command from a browser  *)
(* through the limiter of its connection into the throttle, which all      *)
(* browsers share, under one clock.                                        *)
(***************************************************************************)
EXTENDS CommandThrottle, InboundRateLimiter

pathVars == <<vars, limiterVars>>

PathInit == Init /\ LimiterInit

PathTick == Tick /\ LimiterTick

\* A message of the browser: dropped by its limiter, or let through, and then a
\* throttled command unless it is of another kind, refused or unreadable.
Message ==
    \/ Refuse /\ UNCHANGED vars
    \/ /\ Allow
       /\ \/ \E k \in Keys, v \in Values : Schedule(k, v)
          \/ UNCHANGED vars

\* A command of another browser, which has a limiter of its own.
OtherCommand ==
    /\ \E k \in Keys, v \in Values : Schedule(k, v)
    /\ UNCHANGED limiterVars

Fires(k) == TimerFires(k) /\ UNCHANGED limiterVars

PathNext == PathTick \/ Message \/ OtherCommand \/ \E k \in Keys : Fires(k)

PathSpec ==
    /\ PathInit /\ [][PathNext]_pathVars
    /\ WF_pathVars(PathTick)
    /\ \A k \in Keys : WF_pathVars(Fires(k))

===============================================================================
