---------------------------- MODULE HHDelivery ----------------------------
(***************************************************************************)
(* What a hinted-handoff node processor promises, per remote node, without *)
(* timers, locks, the concurrency gate or crashes: writes are queued in    *)
(* the order they were accepted, the node sees them in that order, and a   *)
(* frame leaves the queue only after it was delivered (Ack) or by one of   *)
(* the documented drops (rejected when the queue is full, poison frame,    *)
(* age purge, directory purge).  Delivery is at-least-once: the head may   *)
(* be delivered again until it is acknowledged.                            *)
(***************************************************************************)
EXTENDS Naturals, Sequences, SequencesExt

CONSTANTS Nodes,      \* remote nodes, one processor each
          MaxWrites   \* writes accepted per node

VARIABLES q,          \* q[n]: ids of the frames queued for n, oldest first
          delivered,  \* delivered[n]: ids handed to the remote writer, in order
          dropped,    \* dropped[n]: ids discarded by a documented policy
          issued      \* issued[n]: number of writes accepted for n

vars == <<q, delivered, dropped, issued>>

Ids == 1..MaxWrites

TypeOK ==
    /\ q \in [Nodes -> Seq(Ids)]
    /\ delivered \in [Nodes -> Seq(Ids)]
    /\ dropped \in [Nodes -> SUBSET Ids]
    /\ issued \in [Nodes -> 0..MaxWrites]

Init ==
    /\ q = [n \in Nodes |-> <<>>]
    /\ delivered = [n \in Nodes |-> <<>>]
    /\ dropped = [n \in Nodes |-> {}]
    /\ issued = [n \in Nodes |-> 0]

\* A write gets the next id and is either queued or rejected.
Write(n) ==
    /\ issued[n] < MaxWrites
    /\ issued' = [issued EXCEPT ![n] = @ + 1]
    /\ \/ /\ q' = [q EXCEPT ![n] = Append(@, issued'[n])]
          /\ UNCHANGED dropped
       \/ /\ dropped' = [dropped EXCEPT ![n] = @ \cup {issued'[n]}]
          /\ UNCHANGED q
    /\ UNCHANGED delivered

\* The head is handed to the remote node; it stays queued until acked.
Deliver(n) ==
    /\ q[n] # <<>>
    /\ delivered' = [delivered EXCEPT ![n] = Append(@, Head(q[n]))]
    /\ UNCHANGED <<q, dropped, issued>>

\* A delivered head leaves the queue.
Ack(n) ==
    /\ q[n] # <<>>
    /\ Head(q[n]) \in ToSet(delivered[n])
    /\ q' = [q EXCEPT ![n] = Tail(@)]
    /\ UNCHANGED <<delivered, dropped, issued>>

\* A non-empty prefix of the queue is discarded by policy.
Drop(n) ==
    \E k \in 1..Len(q[n]) :
        /\ q' = [q EXCEPT ![n] = SubSeq(@, k + 1, Len(@))]
        /\ dropped' = [dropped EXCEPT ![n] = @ \cup ToSet(SubSeq(q[n], 1, k))]
        /\ UNCHANGED <<delivered, issued>>

Next == \E n \in Nodes : Write(n) \/ Deliver(n) \/ Ack(n) \/ Drop(n)

Spec == Init /\ [][Next]_vars

=============================================================================
