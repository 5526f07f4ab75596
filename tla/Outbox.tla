-------------------------------- MODULE Outbox --------------------------------
(***************************************************************************)
(* What the upstream link promises to the rest of the gateway, with the    *)
(* sockets, the reconnect timer and the connection events left out.        *)
(*                                                                         *)
(* Messages are numbered in the order they are submitted.  A message waits *)
(* in the backlog, or is in flight, or has been delivered to the iRidium   *)
(* server.  A connection that ends may take what is in flight with it, but *)
(* never a message of the backlog, and nothing overtakes the backlog.      *)
(***************************************************************************)
EXTENDS Naturals, Sequences

CONSTANT MaxSends         \* bound on the number of submitted messages

VARIABLES
    submitted,            \* number of messages submitted so far
    backlog,              \* messages that wait for a connection
    flight,               \* messages written to the connection, not yet read
    delivered             \* messages the iRidium server has read, in order

vars == <<submitted, backlog, flight, delivered>>

Init ==
    /\ submitted = 0
    /\ backlog = <<>>
    /\ flight = <<>>
    /\ delivered = <<>>

\* A message goes straight to the connection only if nothing waits before it.
Submit ==
    /\ submitted < MaxSends
    /\ submitted' = submitted + 1
    /\ \/ /\ backlog = <<>>
          /\ flight' = Append(flight, submitted')
          /\ UNCHANGED backlog
       \/ /\ backlog' = Append(backlog, submitted')
          /\ UNCHANGED flight
    /\ UNCHANGED delivered

\* The whole backlog goes out at once, on a connection that carries nothing yet.
Release ==
    /\ backlog # <<>>
    /\ flight = <<>>
    /\ flight' = backlog
    /\ backlog' = <<>>
    /\ UNCHANGED <<submitted, delivered>>

Deliver ==
    /\ flight # <<>>
    /\ delivered' = Append(delivered, Head(flight))
    /\ flight' = Tail(flight)
    /\ UNCHANGED <<submitted, backlog>>

Lose ==
    /\ flight # <<>>
    /\ flight' = <<>>
    /\ UNCHANGED <<submitted, backlog, delivered>>

Next == Submit \/ Release \/ Deliver \/ Lose

SafeSpec == Init /\ [][Next]_vars

\* A backlog does not wait for ever, and what is in flight arrives or is lost.
Spec == SafeSpec /\ WF_vars(Release) /\ WF_vars(Deliver \/ Lose)

-------------------------------------------------------------------------------
Increasing(q) == \A i, j \in 1 .. Len(q) : i < j => q[i] < q[j]

Before(p, q) == \A i \in 1 .. Len(p), j \in 1 .. Len(q) : p[i] < q[j]

\* Messages are delivered in the order of their submission and at most once,
\* and one that waits in the backlog is not overtaken by a later one.
NothingOvertakes ==
    /\ Increasing(delivered) /\ Increasing(flight) /\ Increasing(backlog)
    /\ Before(delivered, flight)
    /\ Before(delivered, backlog)
    /\ Before(flight, backlog)

===============================================================================
