----------------------------- MODULE Datagrams -----------------------------
(***************************************************************************)
(* UDP as the RPC client and server see it (external): a datagram may be   *)
(* lost, may overtake others and may be delivered again.  A datagram that  *)
(* is never delivered is a lost one.                                       *)
(***************************************************************************)
EXTENDS Naturals

CONSTANT MaxDups    \* bound: deliveries that leave the datagram in the network

ASSUME NetworkAssumption == MaxDups \in Nat

VARIABLES net,      \* datagrams in flight
          dups      \* deliveries so far that left their datagram in flight

network == << net, dups >>

\* sendto
SendTo(m) == net' = net \cup {m} /\ UNCHANGED dups

\* recvfrom returns m and some datagrams are sent in the same step.
RecvFrom(m, sent) ==
    /\ m \in net
    /\ \/ net' = (net \ {m}) \cup sent /\ UNCHANGED dups
       \/ dups < MaxDups /\ net' = net \cup sent /\ dups' = dups + 1
=============================================================================
