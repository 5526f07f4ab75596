-------------------------- MODULE InboundRateLimiter --------------------------
(***************************************************************************)
(* services/wsGateway/InboundRateLimiter.ts: the fixed-window counter of   *)
(* the messages of one browser connection.  Time is relative, as in        *)
(* CommandThrottle: elapsed is Date.now() - windowStart, cut off at        *)
(* WindowMs, and ages are the ages of the messages let through, the        *)
(* latest first, cut off at one more than WindowMs.                        *)
(***************************************************************************)
EXTENDS Integers

CONSTANTS
    MaxPerWindow,         \* maxPerWindow
    WindowMs              \* windowMs, in ticks

ASSUME LimiterAssumption ==
    MaxPerWindow \in Nat \ {0} /\ WindowMs \in Nat \ {0}

VARIABLES
    elapsed,              \* Date.now() - this.windowStart, at most WindowMs
    count,                \* this.count, at most MaxPerWindow + 1
    ages                  \* history: how long ago messages were let through

limiterVars == <<elapsed, count, ages>>

Old == WindowMs + 1

\* The messages whose ages are kept: one more than two windows let through.
Kept == 1 .. 2 * MaxPerWindow + 1

LimiterInit ==
    /\ elapsed = 0
    /\ count = 0
    /\ ages = [i \in Kept |-> Old]

-------------------------------------------------------------------------------
WindowOver == elapsed >= WindowMs

\* What this.count is before it is increased.
CountedInAnyWindow == count

Counted == IF WindowOver THEN 0 ELSE count

\* Both outcomes of allow(): a refused message is counted, too.
Count(n) ==
    /\ elapsed' = IF WindowOver THEN 0 ELSE elapsed
    /\ count' = IF n > MaxPerWindow THEN MaxPerWindow + 1 ELSE n

AllowOneMore ==
    /\ Count(Counted + 1)
    /\ Counted <= MaxPerWindow
    /\ ages' = [i \in Kept |-> IF i = 1 THEN 0 ELSE ages[i - 1]]

Allow ==
    /\ Count(Counted + 1)
    /\ Counted + 1 <= MaxPerWindow
    /\ ages' = [i \in Kept |-> IF i = 1 THEN 0 ELSE ages[i - 1]]

Refuse ==
    /\ Count(Counted + 1)
    /\ Counted + 1 > MaxPerWindow
    /\ UNCHANGED ages

LimiterTick ==
    /\ elapsed' = IF elapsed < WindowMs THEN elapsed + 1 ELSE elapsed
    /\ ages' = [i \in Kept |-> IF ages[i] < Old THEN ages[i] + 1 ELSE Old]
    /\ UNCHANGED count

LimiterNext == Allow \/ Refuse \/ LimiterTick

LimiterSpec == LimiterInit /\ [][LimiterNext]_limiterVars

-------------------------------------------------------------------------------
(* Properties                                                              *)

\* Fixed windows let a burst through on both sides of a boundary, but never
\* more than twice the limit within WindowMs, wherever that time begins.
TwiceTheLimit == ages[2 * MaxPerWindow + 1] > WindowMs

\* A message is refused only to a browser that was heard MaxPerWindow times
\* within the last WindowMs: windows that are counted wrongly, or a counter that
\* outlives its window, would silence one that keeps to the limit.
HeardBelowLimit ==
    [][Refuse => ages[MaxPerWindow] < WindowMs]_limiterVars

===============================================================================
