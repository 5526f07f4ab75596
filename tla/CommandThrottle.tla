--------------------------- MODULE CommandThrottle ----------------------------
(***************************************************************************)
(* services/wsGateway/CommandThrottle.ts: the trailing throttle in front   *)
(* of the upstream link.  A key is "deviceId:field" or "runScene:number".   *)
(*                                                                         *)
(* Time is kept relative, so that it needs no bound: since[k] is            *)
(* Date.now() - lastSentAt, cut off at MinInterval (beyond it the code       *)
(* cannot tell the difference; -Infinity is MinInterval), and timer[k] is   *)
(* what is left of the timer's delay.  A timer whose delay has run out may  *)
(* fire late: the event loop can be busy, and the next command can be       *)
(* handled before it.                                                       *)
(***************************************************************************)
EXTENDS Integers

CONSTANTS
    Keys,
    Values,               \* raw commands
    None,                 \* null
    MinInterval           \* minIntervalMs, in ticks

ASSUME ThrottleAssumption == None \notin Values /\ MinInterval \in Nat \ {0}

VARIABLES
    since,                \* Date.now() - state.lastSentAt, at most MinInterval
    timer,                \* state.timer: Off, or the rest of its delay
    pendingRaw,           \* state.pendingRaw
    latest,               \* history: the last value passed to schedule()
    out,                  \* history: the last value passed to send()
    gaps                  \* history: time between the last two calls of send(),
                          \* and between the two before, each cut off likewise

vars == <<since, timer, pendingRaw, latest, out, gaps>>

Off == -1

Init ==
    /\ since = [k \in Keys |-> MinInterval]
    /\ timer = [k \in Keys |-> Off]
    /\ pendingRaw = [k \in Keys |-> None]
    /\ latest = [k \in Keys |-> None]
    /\ out = [k \in Keys |-> None]
    /\ gaps = [k \in Keys |-> [last |-> MinInterval, before |-> MinInterval]]

-------------------------------------------------------------------------------
\* flush(): a pending value is forgotten, because the one sent is newer.
FlushKeepingPending(k, v) ==
    /\ since' = [since EXCEPT ![k] = 0]
    /\ out' = [out EXCEPT ![k] = v]
    /\ gaps' = [gaps EXCEPT ![k] = [last |-> since[k], before |-> @.last]]
    /\ UNCHANGED pendingRaw

Flush(k, v) ==
    /\ since' = [since EXCEPT ![k] = 0]
    /\ pendingRaw' = [pendingRaw EXCEPT ![k] = None]
    /\ out' = [out EXCEPT ![k] = v]
    /\ gaps' = [gaps EXCEPT ![k] = [last |-> since[k], before |-> @.last]]

\* The delay a new timer is given.
DelayOneMore(k) == MinInterval - since[k] + 1

DelayFromNow(k) == since[k]

Delay(k) == MinInterval - since[k]

\* A command too soon after the last one replaces the pending one; the timer
\* that is already set, even one that is overdue, is kept.
DropTooSoon(k, v) ==
    /\ timer' = [timer EXCEPT ![k] = IF @ = Off THEN Delay(k) ELSE @]
    /\ UNCHANGED <<pendingRaw, since, out, gaps>>

Coalesce(k, v) ==
    /\ pendingRaw' = [pendingRaw EXCEPT ![k] = v]
    /\ timer' = [timer EXCEPT ![k] = IF @ = Off THEN Delay(k) ELSE @]
    /\ UNCHANGED <<since, out, gaps>>

\* schedule(): an immediate flush leaves a timer that is set alone.
Schedule(k, v) ==
    /\ latest' = [latest EXCEPT ![k] = v]
    /\ \/ /\ since[k] >= MinInterval
          /\ Flush(k, v)
          /\ UNCHANGED timer
       \/ /\ since[k] < MinInterval
          /\ Coalesce(k, v)

\* The callback of the timer.
TimerFires(k) ==
    /\ timer[k] = 0
    /\ timer' = [timer EXCEPT ![k] = Off]
    /\ \/ /\ pendingRaw[k] # None
          /\ Flush(k, pendingRaw[k])
       \/ /\ pendingRaw[k] = None
          /\ UNCHANGED <<since, pendingRaw, out, gaps>>
    /\ UNCHANGED latest

Tick ==
    /\ since' = [k \in Keys |-> IF since[k] < MinInterval THEN since[k] + 1
                                                          ELSE MinInterval]
    /\ timer' = [k \in Keys |-> IF timer[k] > 0 THEN timer[k] - 1 ELSE timer[k]]
    /\ UNCHANGED <<pendingRaw, latest, out, gaps>>

Next ==
    \/ Tick
    \/ \E k \in Keys : TimerFires(k) \/ \E v \in Values : Schedule(k, v)

SafeSpec == Init /\ [][Next]_vars

\* Time passes and the event loop runs every timer that is due.
Spec ==
    /\ SafeSpec
    /\ WF_vars(Tick)
    /\ \A k \in Keys : WF_vars(TimerFires(k))

-------------------------------------------------------------------------------
(* Properties                                                              *)

TypeOK ==
    /\ since \in [Keys -> 0 .. MinInterval]
    /\ timer \in [Keys -> Off .. MinInterval]
    /\ pendingRaw \in [Keys -> Values \cup {None}]
    /\ latest \in [Keys -> Values \cup {None}]
    /\ out \in [Keys -> Values \cup {None}]
    /\ gaps \in [Keys -> [last : 0 .. MinInterval, before : 0 .. MinInterval]]

\* The final position of a slider is never lost: the last value scheduled has
\* been sent, or it is pending and a timer is set that will send it.
FinalValueKept ==
    \A k \in Keys :
        IF pendingRaw[k] = None
        THEN out[k] = latest[k]
        ELSE pendingRaw[k] = latest[k] /\ timer[k] # Off

\* Two commands of one key may follow each other closely when an overdue timer
\* fires after an immediate send, but any three of them span MinInterval.
BurstBound == \A k \in Keys : gaps[k].last + gaps[k].before >= MinInterval

\* The throttle coalesces: it never sends a value that a newer one has already
\* replaced, and the newest value reaches the upstream link in the end.
Promise == INSTANCE LatestValue WITH asked <- latest, shown <- out

ImplementsLatestValue == Promise!Spec

===============================================================================
