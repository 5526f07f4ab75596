--------------------------- MODULE CommandPath_proofs ---------------------------
(***************************************************************************)
(* Proofs about CommandThrottle and InboundRateLimiter, for any keys, any   *)
(* commands, any interval, limit and window, and that both keep their       *)
(* specifications on the path of a command.                                 *)
(***************************************************************************)
EXTENDS CommandPath, TLAPS

(* The throttle                                                            *)

\* After a gap shorter than MinInterval the timer, if one is set, runs at least
\* until MinInterval has passed since the last send: a late timer can cut one
\* gap short, never two in a row.
NoSecondShortGap ==
    \A k \in Keys :
        gaps[k].last < MinInterval =>
            timer[k] = Off \/ timer[k] + since[k] >= MinInterval

ThrottleInv == TypeOK /\ FinalValueKept /\ BurstBound /\ NoSecondShortGap

LEMMA ThrottleInvInit == Init => ThrottleInv
BY ThrottleAssumption
   DEF Init, ThrottleInv, TypeOK, FinalValueKept, BurstBound, NoSecondShortGap, Off

\* A flush of the newest value keeps the invariant when it is not the second of
\* two that come too soon and the timer is not left behind with nothing to wait
\* for.
LEMMA FlushKeepsInv ==
    ASSUME ThrottleInv, NEW k \in Keys, NEW v \in Values, Flush(k, v),
           since[k] + gaps[k].last >= MinInterval,
           latest' = [latest EXCEPT ![k] = v],
           \/ timer' = [timer EXCEPT ![k] = Off]
           \/ since[k] = MinInterval /\ UNCHANGED timer
    PROVE  ThrottleInv'
<1> USE ThrottleAssumption DEF ThrottleInv, TypeOK, Off
<1>1. TypeOK'
  BY DEF Flush
<1>2. FinalValueKept'
  BY DEF Flush, FinalValueKept
<1>3. BurstBound'
  BY DEF Flush, BurstBound
<1>4. NoSecondShortGap'
  BY DEF Flush, NoSecondShortGap
<1> QED BY <1>1, <1>2, <1>3, <1>4

LEMMA ThrottleInvStep == ThrottleInv /\ [Next]_vars => ThrottleInv'
<1> SUFFICES ASSUME ThrottleInv, [Next]_vars PROVE ThrottleInv'
  OBVIOUS
<1> USE ThrottleAssumption DEF ThrottleInv, TypeOK, Off
<1>1. CASE Tick
  <2>1. TypeOK'
    BY <1>1 DEF Tick
  <2>2. FinalValueKept'
    BY <1>1 DEF Tick, FinalValueKept
  <2>3. BurstBound'
    BY <1>1 DEF Tick, BurstBound
  <2>4. NoSecondShortGap'
    BY <1>1 DEF Tick, NoSecondShortGap
  <2> QED BY <2>1, <2>2, <2>3, <2>4
<1>2. ASSUME NEW k \in Keys, TimerFires(k) PROVE ThrottleInv'
  <2>1. CASE pendingRaw[k] # None
    <3>1. pendingRaw[k] \in Values /\ Flush(k, pendingRaw[k])
      BY <1>2, <2>1 DEF TimerFires
    <3>2. since[k] + gaps[k].last >= MinInterval
      BY <1>2 DEF TimerFires, NoSecondShortGap
    <3>3. latest' = [latest EXCEPT ![k] = pendingRaw[k]]
      BY <1>2, <2>1 DEF TimerFires, FinalValueKept
    <3> QED BY <1>2, <3>1, <3>2, <3>3, FlushKeepsInv DEF TimerFires
  <2>2. CASE pendingRaw[k] = None
    <3>1. TypeOK'
      BY <1>2, <2>2 DEF TimerFires, Flush
    <3>2. FinalValueKept'
      BY <1>2, <2>2 DEF TimerFires, FinalValueKept
    <3>3. BurstBound'
      BY <1>2, <2>2 DEF TimerFires, BurstBound
    <3>4. NoSecondShortGap'
      BY <1>2, <2>2 DEF TimerFires, NoSecondShortGap
    <3> QED BY <3>1, <3>2, <3>3, <3>4
  <2> QED BY <2>1, <2>2
<1>3. ASSUME NEW k \in Keys, NEW v \in Values, Schedule(k, v) PROVE ThrottleInv'
  <2>1. CASE since[k] >= MinInterval
    <3>0. since[k] \in 0 .. MinInterval
      OBVIOUS
    <3> HIDE DEF ThrottleInv, TypeOK
    <3>1. since[k] = MinInterval /\ ~(since[k] < MinInterval)
      BY <2>1, <3>0
    <3>2. Flush(k, v) /\ UNCHANGED timer /\ latest' = [latest EXCEPT ![k] = v]
      BY <1>3, <3>1, Zenon DEF Schedule
    <3>3. since[k] + gaps[k].last >= MinInterval
      BY <3>1 DEF ThrottleInv, TypeOK
    <3> QED BY <3>1, <3>2, <3>3, FlushKeepsInv
  <2>2. CASE since[k] < MinInterval
    <3>1. Coalesce(k, v)
      BY <1>3, <2>2 DEF Schedule
    <3>2. TypeOK'
      BY <1>3, <2>2, <3>1 DEF Schedule, Coalesce, Delay
    <3>3. FinalValueKept'
      BY <1>3, <2>2, <3>1 DEF Schedule, Coalesce, Delay, FinalValueKept
    <3>4. BurstBound'
      BY <3>1 DEF Coalesce, BurstBound
    <3>5. NoSecondShortGap'
      BY <2>2, <3>1 DEF Coalesce, Delay, NoSecondShortGap
    <3> QED BY <3>2, <3>3, <3>4, <3>5
  <2> QED BY <2>1, <2>2
<1>4. CASE UNCHANGED vars
  BY <1>4 DEF vars, FinalValueKept, BurstBound, NoSecondShortGap
<1> QED BY <1>1, <1>2, <1>3, <1>4 DEF Next

LEMMA ThrottleInvAlways == SafeSpec => []ThrottleInv
BY ThrottleInvInit, ThrottleInvStep, PTL DEF SafeSpec

\* Every variable of the throttle keeps its type.
THEOREM ThrottleTypeCorrect == Spec => []TypeOK
<1>1. ThrottleInv => TypeOK
  BY DEF ThrottleInv
<1> QED BY <1>1, ThrottleInvAlways, PTL DEF Spec

\* The last value scheduled is never dropped, however the timer and the commands
\* interleave.
THEOREM NothingForgotten == Spec => []FinalValueKept
<1>1. ThrottleInv => FinalValueKept
  BY DEF ThrottleInv
<1> QED BY <1>1, ThrottleInvAlways, PTL DEF Spec

\* Any three commands of a key span at least the interval, even when the timer
\* fires late.
THEOREM Throttled == Spec => []BurstBound
<1>1. ThrottleInv => BurstBound
  BY DEF ThrottleInv
<1> QED BY <1>1, ThrottleInvAlways, PTL DEF Spec

-------------------------------------------------------------------------------
LEMMA LatestInit == Init => Promise!Init
BY DEF Init, Promise!Init

LEMMA LatestStep == ThrottleInv /\ [Next]_vars => [Promise!Next]_(Promise!vars)
<1> SUFFICES ASSUME ThrottleInv, [Next]_vars
             PROVE  Promise!Next \/ UNCHANGED Promise!vars
  OBVIOUS
<1>1. CASE Tick
  BY <1>1 DEF Tick, Promise!vars
<1>2. ASSUME NEW k \in Keys, TimerFires(k)
      PROVE  Promise!Next \/ UNCHANGED Promise!vars
  <2>1. CASE pendingRaw[k] # None
    <3>1. Promise!Show(k)
      BY <1>2, <2>1
         DEF TimerFires, Flush, ThrottleInv, FinalValueKept, Promise!Show
    <3> QED BY <3>1 DEF Promise!Next
  <2>2. CASE pendingRaw[k] = None
    BY <1>2, <2>2 DEF TimerFires, Promise!vars
  <2> QED BY <2>1, <2>2
<1>3. ASSUME NEW k \in Keys, NEW v \in Values, Schedule(k, v)
      PROVE  Promise!Next \/ UNCHANGED Promise!vars
  <2>1. Promise!Ask(k, v)
    BY <1>3 DEF Schedule, Flush, Coalesce, Promise!Ask
  <2> QED BY <2>1 DEF Promise!Next
<1>4. CASE UNCHANGED vars
  BY <1>4 DEF vars, Promise!vars
<1> QED BY <1>1, <1>2, <1>3, <1>4 DEF Next

\* The throttle never sends a value that a newer one has replaced.
THEOREM OnlyLatestSent == Spec => Promise!SafeSpec
BY LatestInit, LatestStep, ThrottleInvAlways, PTL DEF Spec, SafeSpec, Promise!SafeSpec

-------------------------------------------------------------------------------
(* The limiter                                                             *)

LimiterTyped ==
    /\ elapsed \in 0 .. WindowMs
    /\ count \in 0 .. MaxPerWindow + 1
    /\ ages \in [Kept -> 0 .. Old]

\* How many messages of the window that is counted were let through.
Heard == IF count > MaxPerWindow THEN MaxPerWindow ELSE count

\* The messages heard in this window are the latest ones, and as old as it at
\* most; all others are older.
WindowsApart ==
    \A i \in Kept :
        IF i <= Heard THEN elapsed = WindowMs \/ ages[i] <= elapsed
                      ELSE ages[i] > elapsed

\* What is older than this window's messages and MaxPerWindow more is older
\* than the window before.
OlderGone == \A i \in Kept : i > Heard + MaxPerWindow => ages[i] = Old

\* A window that is over has been waited out since the latest message.
WaitedOut == elapsed = WindowMs => \A i \in Kept : ages[i] > 0

LimiterInv == LimiterTyped /\ WindowsApart /\ OlderGone /\ WaitedOut

-------------------------------------------------------------------------------
LEMMA InitWindows == LimiterInit => LimiterInv
  BY LimiterAssumption
  DEF LimiterInit, LimiterInv, LimiterTyped, WindowsApart, OlderGone, WaitedOut,
      Heard, Kept, Old

\* A message is let through in the window that is counted.
LEMMA AllowInWindow ==
  ASSUME LimiterInv, Allow, ~WindowOver
  PROVE  LimiterInv'
<1> USE LimiterAssumption
<1> USE DEF LimiterInv, LimiterTyped, Kept, Old
<1>1. /\ elapsed' = elapsed /\ elapsed < WindowMs
      /\ count < MaxPerWindow /\ count' = count + 1
      /\ Heard = count /\ Heard' = Heard + 1
      /\ ages' = [i \in Kept |-> IF i = 1 THEN 0 ELSE ages[i - 1]]
  BY DEF Allow, Count, Counted, WindowOver, Heard
<1>2. LimiterTyped'
  BY <1>1
<1>3. WindowsApart'
  <2> SUFFICES ASSUME NEW i \in Kept
               PROVE  IF i <= Heard' THEN elapsed' = WindowMs \/ ages'[i] <= elapsed'
                                     ELSE ages'[i] > elapsed'
    BY DEF WindowsApart
  <2>1. CASE i = 1
    BY <1>1, <2>1
  <2>2. CASE i # 1
    <3>1. i - 1 \in Kept /\ ages'[i] = ages[i - 1]
      BY <1>1, <2>2
    <3> QED
      BY <1>1, <3>1 DEF WindowsApart, Heard
  <2> QED
    BY <2>1, <2>2
<1>4. OlderGone'
  <2> SUFFICES ASSUME NEW i \in Kept, i > Heard' + MaxPerWindow
               PROVE  ages'[i] = Old
    BY DEF OlderGone
  <2>1. i # 1 /\ i - 1 \in Kept /\ i - 1 > Heard + MaxPerWindow
    BY <1>1
  <2> QED
    BY <1>1, <2>1 DEF OlderGone
<1>5. WaitedOut'
  BY <1>1 DEF WaitedOut
<1> QED
  BY <1>2, <1>3, <1>4, <1>5

\* The first message after a window that is over begins the next one.
LEMMA AllowBeginsWindow ==
  ASSUME LimiterInv, Allow, WindowOver
  PROVE  LimiterInv'
<1> USE LimiterAssumption
<1> USE DEF LimiterInv, LimiterTyped, Kept, Old
<1>1. /\ elapsed = WindowMs /\ elapsed' = 0
      /\ count' = 1 /\ Heard' = 1
      /\ Heard \in 0 .. MaxPerWindow
      /\ ages' = [i \in Kept |-> IF i = 1 THEN 0 ELSE ages[i - 1]]
  BY DEF Allow, Count, Counted, WindowOver, Heard
<1>2. LimiterTyped'
  BY <1>1
<1>3. WindowsApart'
  <2> SUFFICES ASSUME NEW i \in Kept
               PROVE  IF i <= Heard' THEN elapsed' = WindowMs \/ ages'[i] <= elapsed'
                                     ELSE ages'[i] > elapsed'
    BY DEF WindowsApart
  <2>1. CASE i = 1
    BY <1>1, <2>1
  <2>2. CASE i # 1
    <3>1. i - 1 \in Kept /\ ages'[i] = ages[i - 1]
      BY <1>1, <2>2
    <3> QED
      BY <1>1, <2>2, <3>1 DEF WaitedOut
  <2> QED
    BY <2>1, <2>2
<1>4. OlderGone'
  <2> SUFFICES ASSUME NEW i \in Kept, i > Heard' + MaxPerWindow
               PROVE  ages'[i] = Old
    BY DEF OlderGone
  <2>1. i # 1 /\ i - 1 \in Kept /\ i - 1 > Heard
    BY <1>1
  <2>2. ages[i - 1] > WindowMs
    BY <1>1, <2>1 DEF WindowsApart
  <2> QED
    BY <1>1, <2>1, <2>2
<1>5. WaitedOut'
  BY <1>1 DEF WaitedOut
<1> QED
  BY <1>2, <1>3, <1>4, <1>5

\* A refusal changes the count only, above the limit.
LEMMA RefusalKeepsWindows ==
  ASSUME LimiterInv, Refuse
  PROVE  LimiterInv'
<1> USE LimiterAssumption
<1>1. /\ elapsed' = elapsed /\ ages' = ages
      /\ count >= MaxPerWindow /\ count' = MaxPerWindow + 1
  BY DEF Refuse, Count, Counted, WindowOver, LimiterInv, LimiterTyped
<1>2. Heard = MaxPerWindow /\ Heard' = MaxPerWindow
  BY <1>1 DEF Heard, LimiterInv, LimiterTyped
<1>3. LimiterTyped'
  BY <1>1 DEF LimiterInv, LimiterTyped
<1>4. WindowsApart' /\ OlderGone' /\ WaitedOut'
  BY <1>1, <1>2 DEF LimiterInv, WindowsApart, OlderGone, WaitedOut
<1> QED
  BY <1>3, <1>4 DEF LimiterInv

\* Time makes the window and the messages older alike.
LEMMA TickKeepsWindows ==
  ASSUME LimiterInv, LimiterTick
  PROVE  LimiterInv'
<1> USE LimiterAssumption
<1> USE DEF LimiterInv, LimiterTyped, Kept, Old
<1>1. /\ elapsed' = IF elapsed < WindowMs THEN elapsed + 1 ELSE elapsed
      /\ ages' = [i \in Kept |-> IF ages[i] < Old THEN ages[i] + 1 ELSE Old]
      /\ count' = count /\ Heard' = Heard
      /\ Heard \in 0 .. MaxPerWindow
  BY DEF LimiterTick, Heard
<1>2. LimiterTyped'
  BY <1>1
<1>3. WindowsApart'
  <2> SUFFICES ASSUME NEW i \in Kept
               PROVE  IF i <= Heard' THEN elapsed' = WindowMs \/ ages'[i] <= elapsed'
                                     ELSE ages'[i] > elapsed'
    BY DEF WindowsApart
  <2> QED
    BY <1>1 DEF WindowsApart
<1>4. OlderGone'
  BY <1>1 DEF OlderGone
<1>5. WaitedOut'
  BY <1>1 DEF WaitedOut
<1> QED
  BY <1>2, <1>3, <1>4, <1>5

LEMMA WindowsInvariant == LimiterSpec => []LimiterInv
<1>1. LimiterInv /\ [LimiterNext]_limiterVars => LimiterInv'
  <2> SUFFICES ASSUME LimiterInv, [LimiterNext]_limiterVars
               PROVE  LimiterInv'
    OBVIOUS
  <2>1. CASE Allow
    BY <2>1, AllowInWindow, AllowBeginsWindow
  <2>2. CASE Refuse
    BY <2>2, RefusalKeepsWindows
  <2>3. CASE LimiterTick
    BY <2>3, TickKeepsWindows
  <2>4. CASE UNCHANGED limiterVars
    BY <2>4 DEF limiterVars, LimiterInv, LimiterTyped, WindowsApart, OlderGone,
                WaitedOut, Heard
  <2> QED
    BY <2>1, <2>2, <2>3, <2>4 DEF LimiterNext
<1> QED
  BY <1>1, InitWindows, PTL DEF LimiterSpec

-------------------------------------------------------------------------------
\* At most twice the limit is let through in any time of WindowMs.
THEOREM BurstsBounded == LimiterSpec => []TwiceTheLimit
<1>1. LimiterInv => TwiceTheLimit
  <2> SUFFICES ASSUME LimiterInv PROVE TwiceTheLimit
    OBVIOUS
  <2>1. 2 * MaxPerWindow + 1 \in Kept /\ 2 * MaxPerWindow + 1 > Heard + MaxPerWindow
    BY LimiterAssumption DEF Kept, Heard, LimiterInv, LimiterTyped
  <2> QED
    BY <2>1, LimiterAssumption DEF LimiterInv, OlderGone, TwiceTheLimit, Old
<1> QED
  BY <1>1, WindowsInvariant, PTL

\* Nobody is refused who was heard less than the limit within WindowMs.
THEOREM SlowOnesHeard == LimiterSpec => HeardBelowLimit
<1>1. LimiterInv /\ Refuse => ages[MaxPerWindow] < WindowMs
  <2> SUFFICES ASSUME LimiterInv, Refuse PROVE ages[MaxPerWindow] < WindowMs
    OBVIOUS
  <2>1. elapsed < WindowMs /\ count >= MaxPerWindow
    BY LimiterAssumption DEF Refuse, Counted, WindowOver, LimiterInv, LimiterTyped
  <2>2. Heard = MaxPerWindow /\ MaxPerWindow \in Kept
    BY <2>1, LimiterAssumption DEF Heard, Kept, LimiterInv, LimiterTyped
  <2> QED
    BY <2>1, <2>2, LimiterAssumption DEF LimiterInv, LimiterTyped, WindowsApart, Old
<1>2. LimiterInv /\ [LimiterNext]_limiterVars
      => [Refuse => ages[MaxPerWindow] < WindowMs]_limiterVars
  BY <1>1
<1> QED
  BY <1>2, WindowsInvariant, PTL DEF LimiterSpec, HeardBelowLimit

\* On the way of a command the limiter and the throttle each do what their own
\* specifications say, hence what is proved of them holds there.
THEOREM PathKeepsBoth == PathSpec => LimiterSpec /\ SafeSpec
<1>1. PathInit => LimiterInit /\ Init
  BY DEF PathInit
<1>2. [PathNext]_pathVars => [LimiterNext]_limiterVars /\ [Next]_vars
  BY DEF PathNext, PathTick, Message, OtherCommand, Fires, pathVars, LimiterNext, Next
<1> QED
  BY <1>1, <1>2, PTL DEF PathSpec, LimiterSpec, SafeSpec

===============================================================================
