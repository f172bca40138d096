-------------------------- MODULE LeaseRefinement --------------------------
(***************************************************************************)
(* The registry implements the board: the holder of a seat is whoever      *)
(* opened the live row whose peer is the seat.                             *)
(***************************************************************************)
EXTENDS OpenThreads

CONSTANT Nobody

ASSUME NobodyIsNoAgent == Nobody \notin Agents

\* Who opened the row of S whose peer is p.
Opener(S, p) ==
    IF \E e \in S : e.peer = p
    THEN (CHOOSE e \in S : e.peer = p).opened_by
    ELSE Nobody

Board == INSTANCE LeaseBoard WITH
            holder <- [p \in Agents |-> Opener(LiveRows, p)]

\* The atomic check-and-claim of inbound_gate and claim_outbound: a seat
\* passes from one agent to another only through being free, by a release or
\* by the expiry of the lease.
ImplementsBoard == Board!Spec
=============================================================================
