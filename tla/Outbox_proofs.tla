---------------------------- MODULE Outbox_proofs ----------------------------
(***************************************************************************)
(* The outbox never reorders or repeats a message, whatever is lost.       *)
(***************************************************************************)
EXTENDS Outbox, SequenceTheorems, TLAPS

UpTo(q, n) == \A i \in 1 .. Len(q) : q[i] <= n

\* Every message that is anywhere has been submitted: the next one is larger
\* than all of them, which is what keeps the sequences increasing.
OutboxInv ==
    /\ submitted \in Nat
    /\ backlog \in Seq(Nat) /\ flight \in Seq(Nat) /\ delivered \in Seq(Nat)
    /\ UpTo(backlog, submitted)
    /\ UpTo(flight, submitted)
    /\ UpTo(delivered, submitted)
    /\ NothingOvertakes

\* Appending a number larger than all elements keeps a sequence increasing.
LEMMA AppendFresh ==
    ASSUME NEW q \in Seq(Nat), NEW n \in Nat, UpTo(q, n), Increasing(q)
    PROVE  /\ Append(q, n + 1) \in Seq(Nat)
           /\ UpTo(Append(q, n + 1), n + 1)
           /\ Increasing(Append(q, n + 1))
<1> DEFINE r == Append(q, n + 1)
<1>1. /\ r \in Seq(Nat)
      /\ Len(r) = Len(q) + 1
      /\ \A i \in 1 .. Len(q) : r[i] = q[i]
      /\ r[Len(q) + 1] = n + 1
  BY AppendProperties
<1>2. \A i \in 1 .. Len(q) : q[i] \in Nat
  BY ElementOfSeq
<1>3. Len(q) \in Nat
  BY LenProperties
<1> HIDE DEF r
<1>4. \A i \in 1 .. Len(r) : i \in 1 .. Len(q) \/ i = Len(q) + 1
  BY <1>1, <1>3
<1>5. UpTo(r, n + 1)
  BY <1>1, <1>2, <1>4 DEF UpTo
<1>6. Increasing(r)
  <2> SUFFICES ASSUME NEW i \in 1 .. Len(r), NEW j \in 1 .. Len(r), i < j
               PROVE  r[i] < r[j]
    BY DEF Increasing
  <2>1. i \in 1 .. Len(q)
    BY <1>1, <1>3
  <2>2. CASE j \in 1 .. Len(q)
    BY <1>1, <2>1, <2>2 DEF Increasing
  <2>3. CASE j = Len(q) + 1
    BY <1>1, <1>2, <2>1, <2>3 DEF UpTo
  <2> QED BY <1>4, <2>2, <2>3
<1> QED BY <1>1, <1>5, <1>6 DEF r

\* A sequence whose elements are bounded stays before one that grows by a
\* larger number.
LEMMA BeforeFresh ==
    ASSUME NEW p \in Seq(Nat), NEW q \in Seq(Nat), NEW n \in Nat,
           UpTo(p, n), Before(p, q)
    PROVE  Before(p, Append(q, n + 1)) /\ UpTo(p, n + 1)
<1> DEFINE r == Append(q, n + 1)
<1>1. /\ Len(r) = Len(q) + 1
      /\ \A i \in 1 .. Len(q) : r[i] = q[i]
      /\ r[Len(q) + 1] = n + 1
  BY AppendProperties
<1>2. \A i \in 1 .. Len(p) : p[i] \in Nat
  BY ElementOfSeq
<1>3. Len(q) \in Nat
  BY LenProperties
<1> HIDE DEF r
<1>4. Before(p, r)
  <2> SUFFICES ASSUME NEW i \in 1 .. Len(p), NEW j \in 1 .. Len(r)
               PROVE  p[i] < r[j]
    BY DEF Before
  <2>1. CASE j \in 1 .. Len(q)
    BY <1>1, <2>1 DEF Before
  <2>2. CASE j = Len(q) + 1
    BY <1>1, <1>2, <2>2 DEF UpTo
  <2> QED BY <1>1, <1>3, <2>1, <2>2
<1>5. UpTo(p, n + 1)
  BY <1>2 DEF UpTo
<1> QED BY <1>4, <1>5 DEF r

\* Elements of a sequence after its head has moved away.
LEMMA TailShifts ==
    ASSUME NEW q \in Seq(Nat), q # <<>>
    PROVE  /\ Tail(q) \in Seq(Nat) /\ Head(q) \in Nat
           /\ Head(q) = q[1] /\ 1 \in 1 .. Len(q)
           /\ Len(Tail(q)) = Len(q) - 1
           /\ \A i \in 1 .. Len(Tail(q)) :
                 i + 1 \in 1 .. Len(q) /\ Tail(q)[i] = q[i + 1]
<1>1. /\ Tail(q) \in Seq(Nat) /\ Len(Tail(q)) = Len(q) - 1
      /\ \A i \in 1 .. Len(Tail(q)) : Tail(q)[i] = q[i + 1]
  BY HeadTailProperties
<1>2. Head(q) \in Nat /\ Head(q) = q[1]
  BY HeadTailProperties
<1>3. Len(q) \in Nat /\ Len(q) # 0
  BY LenProperties, EmptySeq
<1> QED BY <1>1, <1>2, <1>3

\* Moving the head of q behind p keeps both increasing and p before q.
LEMMA MoveHead ==
    ASSUME NEW p \in Seq(Nat), NEW q \in Seq(Nat), NEW n \in Nat, q # <<>>,
           UpTo(p, n), UpTo(q, n), Increasing(p), Increasing(q), Before(p, q)
    PROVE  /\ Append(p, Head(q)) \in Seq(Nat) /\ Tail(q) \in Seq(Nat)
           /\ UpTo(Append(p, Head(q)), n) /\ UpTo(Tail(q), n)
           /\ Increasing(Append(p, Head(q))) /\ Increasing(Tail(q))
           /\ Before(Append(p, Head(q)), Tail(q))
<1> DEFINE h == Head(q)
           t == Tail(q)
           r == Append(p, h)
<1>1. /\ t \in Seq(Nat) /\ h \in Nat /\ h = q[1] /\ 1 \in 1 .. Len(q)
      /\ \A i \in 1 .. Len(t) : i + 1 \in 1 .. Len(q) /\ t[i] = q[i + 1]
      /\ Len(t) = Len(q) - 1
  BY TailShifts
<1>2. /\ r \in Seq(Nat) /\ Len(r) = Len(p) + 1
      /\ \A i \in 1 .. Len(p) : r[i] = p[i]
      /\ r[Len(p) + 1] = h
  BY <1>1, AppendProperties
<1>3. /\ \A i \in 1 .. Len(p) : p[i] \in Nat
      /\ \A i \in 1 .. Len(q) : q[i] \in Nat
  BY ElementOfSeq
<1>4. Len(p) \in Nat /\ Len(q) \in Nat
  BY LenProperties
<1> HIDE DEF h, t, r
<1>5. \A i \in 1 .. Len(r) : i \in 1 .. Len(p) \/ i = Len(p) + 1
  BY <1>2, <1>4
<1>6. UpTo(r, n) /\ UpTo(t, n)
  BY <1>1, <1>2, <1>5 DEF UpTo
<1>7. Increasing(r)
  <2> SUFFICES ASSUME NEW i \in 1 .. Len(r), NEW j \in 1 .. Len(r), i < j
               PROVE  r[i] < r[j]
    BY DEF Increasing
  <2>1. i \in 1 .. Len(p)
    BY <1>2, <1>4
  <2>2. CASE j \in 1 .. Len(p)
    BY <1>2, <2>1, <2>2 DEF Increasing
  <2>3. CASE j = Len(p) + 1
    BY <1>1, <1>2, <2>1, <2>3 DEF Before
  <2> QED BY <1>5, <2>2, <2>3
<1>8. Increasing(t)
  <2> SUFFICES ASSUME NEW i \in 1 .. Len(t), NEW j \in 1 .. Len(t), i < j
               PROVE  t[i] < t[j]
    BY DEF Increasing
  <2>1. i + 1 < j + 1 /\ q[i + 1] = t[i] /\ q[j + 1] = t[j]
    BY <1>1
  <2>2. i + 1 \in 1 .. Len(q) /\ j + 1 \in 1 .. Len(q)
    BY <1>1
  <2> QED BY <2>1, <2>2 DEF Increasing
<1>9. Before(r, t)
  <2> SUFFICES ASSUME NEW i \in 1 .. Len(r), NEW j \in 1 .. Len(t)
               PROVE  r[i] < t[j]
    BY DEF Before
  <2>1. CASE i \in 1 .. Len(p)
    BY <1>1, <1>2, <2>1 DEF Before
  <2>2. CASE i = Len(p) + 1
    <3>1. 1 < j + 1 /\ j + 1 \in 1 .. Len(q) /\ t[j] = q[j + 1]
      BY <1>1
    <3> QED BY <1>1, <1>2, <2>2, <3>1 DEF Increasing
  <2> QED BY <1>5, <2>1, <2>2
<1> QED BY <1>1, <1>2, <1>6, <1>7, <1>8, <1>9 DEF h, t, r

\* What is before both q and r stays before them when q's head moves; what the
\* head leaves behind is still before r.
LEMMA MoveHeadBefore ==
    ASSUME NEW p \in Seq(Nat), NEW q \in Seq(Nat), NEW r \in Seq(Nat), q # <<>>,
           Before(p, r), Before(q, r)
    PROVE  Before(Append(p, Head(q)), r) /\ Before(Tail(q), r)
<1>1. Before(Tail(q), r)
  BY TailShifts DEF Before
<1> DEFINE h == Head(q)
           s == Append(p, h)
<1>2. h \in Nat /\ h = q[1] /\ 1 \in 1 .. Len(q)
  BY TailShifts
<1>3. /\ Len(s) = Len(p) + 1
      /\ \A i \in 1 .. Len(p) : s[i] = p[i]
      /\ s[Len(p) + 1] = h
  BY <1>2, AppendProperties
<1> HIDE DEF h, s
<1>4. \A i \in 1 .. Len(s) : i \in 1 .. Len(p) \/ i = Len(p) + 1
  BY <1>3, LenProperties
<1>5. Before(s, r)
  BY <1>2, <1>3, <1>4 DEF Before
<1> QED BY <1>1, <1>5 DEF h, s

LEMMA EmptyIsOrdered ==
    ASSUME NEW q, NEW n
    PROVE  /\ <<>> \in Seq(Nat) /\ UpTo(<<>>, n) /\ Increasing(<<>>)
           /\ Before(<<>>, q) /\ Before(q, <<>>)
BY DEF UpTo, Increasing, Before

LEMMA OutboxInvInit == Init => OutboxInv
BY EmptyIsOrdered DEF Init, OutboxInv, NothingOvertakes

LEMMA OutboxInvStep == OutboxInv /\ [Next]_vars => OutboxInv'
<1> SUFFICES ASSUME OutboxInv, [Next]_vars PROVE OutboxInv'
  OBVIOUS
<1> USE DEF OutboxInv, NothingOvertakes
<1>1. CASE Submit
  <2>1. CASE backlog = <<>> /\ flight' = Append(flight, submitted')
             /\ UNCHANGED backlog
    <3>1. /\ submitted' = submitted + 1 /\ submitted \in Nat
          /\ backlog' = <<>> /\ delivered' = delivered
          /\ flight' = Append(flight, submitted + 1)
      BY <1>1, <2>1 DEF Submit
    <3>2. /\ flight' \in Seq(Nat) /\ UpTo(flight', submitted')
          /\ Increasing(flight')
      BY <3>1, AppendFresh
    <3>3. Before(delivered', flight') /\ UpTo(delivered', submitted')
      BY <3>1, BeforeFresh
    <3>4. /\ UpTo(backlog', submitted') /\ Increasing(backlog')
          /\ Before(delivered', backlog') /\ Before(flight', backlog')
          /\ backlog' \in Seq(Nat)
      BY <3>1, EmptyIsOrdered
    <3> QED BY <3>1, <3>2, <3>3, <3>4
  <2>2. CASE backlog' = Append(backlog, submitted') /\ UNCHANGED flight
    BY <1>1, <2>2, AppendFresh, BeforeFresh DEF Submit
  <2> QED BY <1>1, <2>1, <2>2 DEF Submit
<1>2. CASE Release
  BY <1>2, EmptyIsOrdered DEF Release
<1>3. CASE Deliver
  BY <1>3, MoveHead, MoveHeadBefore DEF Deliver
<1>4. CASE Lose
  BY <1>4, EmptyIsOrdered DEF Lose
<1>5. CASE UNCHANGED vars
  BY <1>5 DEF vars, UpTo, Increasing, Before
<1> QED BY <1>1, <1>2, <1>3, <1>4, <1>5 DEF Next

\* Messages are delivered in the order of submission and at most once, for
\* every number of messages and every pattern of losses.
THEOREM OutboxOrdered == SafeSpec => []NothingOvertakes
<1>1. OutboxInv => NothingOvertakes
  BY DEF OutboxInv
<1> QED BY <1>1, OutboxInvInit, OutboxInvStep, PTL DEF SafeSpec

===============================================================================
