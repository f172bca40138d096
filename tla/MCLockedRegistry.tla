-------------------------- MODULE MCLockedRegistry --------------------------
(***************************************************************************)
(* Two processes that share a registry, for TLC: both may claim the seat   *)
(* of cyd, for ana and for bea, and release what they claimed.             *)
(***************************************************************************)
EXTENDS LockedRegistry

CONSTANTS t1, t2, harness, tool, ana, bea, cyd

MCHome == [t \in {t1, t2} |-> IF t = t1 THEN harness ELSE tool]
MCAgents == {ana, bea, cyd}

Ask(s, r, now) == [sender |-> s, peer |-> cyd, reply |-> r, now |-> now, minutes |-> 1]

MCAsks == {Ask(s, "yes", now) : s \in {ana, bea}, now \in 0 .. MaxTime}
              \cup {Ask(ana, "end", 0)}
MCDrops == {[sender |-> ana, peer |-> cyd]}

\* The rows these calls can write, in every set that tells them apart.
MCRow(n) == [thread_id : {n}, opened_by : {ana, bea}, peer : {cyd},
             lease_until : 1 .. MaxTime + 1, lease_minutes : {1}]
MCRows(n) == {{}} \cup {{e} : e \in MCRow(n)}
MCContents ==
    {[rows |-> {}, minted |-> 0]}
        \cup [rows : MCRows(1), minted : {1}]
        \cup [rows : {S \cup T : S \in MCRows(1), T \in MCRows(2)}, minted : {2}]

MCOps == MCAsks \cup MCDrops
MCEmpty == [rows |-> {}, minted |-> 0]
MCUnread == [c \in MCContents |-> [c EXCEPT !.rows = {}]]

MCUpdate ==
    [o \in MCOps |-> [c \in MCContents |->
        IF o \in MCAsks THEN Decided(o, c) ELSE Dropped(o, c)]]
=============================================================================
