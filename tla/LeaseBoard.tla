----------------------------- MODULE LeaseBoard -----------------------------
(***************************************************************************)
(* What the thread gate promises of a seat: at most one agent holds it, a  *)
(* held seat is never handed from one agent straight to another, and it is *)
(* claimed only when nobody holds it.                                      *)
(***************************************************************************)
CONSTANTS
    Agents,
    Nobody      \* the holder of a free seat, no agent

VARIABLE holder     \* who holds each agent's seat

Init == holder = [p \in Agents |-> Nobody]

Claim(p, a) ==
    /\ holder[p] = Nobody
    /\ holder' = [holder EXCEPT ![p] = a]

\* Seats fall free, several at once when leases expire together.
Vacate(S) ==
    holder' = [p \in Agents |-> IF p \in S THEN Nobody ELSE holder[p]]

Next ==
    \/ \E p, a \in Agents : Claim(p, a)
    \/ \E S \in SUBSET Agents : Vacate(S)

Spec == Init /\ [][Next]_holder
=============================================================================
