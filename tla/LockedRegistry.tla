--------------------------- MODULE LockedRegistry ---------------------------
(***************************************************************************)
(* The registry's operations as they run: a call samples the clock, goes   *)
(* through the locks of RegistryLock, and in the locked section reads the  *)
(* file, decides and writes it back (open_threads.py inbound_gate,         *)
(* claim_outbound, release_pair), while time passes and other calls are    *)
(* between any two of their steps.  That is what OpenThreads takes for two *)
(* steps of a call, and it implements OpenThreads.                         *)
(*                                                                         *)
(* What RegistryLock leaves open is fixed here: what a call is asked for,  *)
(* what the file holds, and what a call leaves behind when it finds a      *)
(* content.                                                                *)
(***************************************************************************)
EXTENDS RegistryLock, Integers

CONSTANTS
    Agents, LeaseMinutes, MaxWait, MaxTime, MaxMinted,      \* as in OpenThreads
    Asks,           \* calls of inbound_gate and claim_outbound, each with the
                    \* time it sampled and the MESH_LEASE_MINUTES it runs under
    Drops           \* calls of release_pair

VARIABLE clock

lockedVars == <<vars, clock>>

Stamp(o) == [sender |-> o.sender, peer |-> o.peer, reply |-> o.reply, now |-> o.now]

\* A call waits to decide from the sampling of its time until its section has
\* ended.
Deciding(t) == Stage(t) = "asked" /\ op[t] \in Asks

\* The calls that wait to decide, as OpenThreads has them.
Waiting ==
    [t \in Threads |-> IF Deciding(t) THEN Stamp(op[t]) ELSE [reply |-> "none"]]

Registry == INSTANCE OpenThreads WITH
                Workers <- Threads,
                Requests <- [sender : Agents, peer : Agents, reply : {"yes", "no", "end"}],
                ReadFaults <- "read" \in Faults,
                entries <- file.rows,
                minted <- file.minted,
                call <- Waiting

-----------------------------------------------------------------------------
(* What a call does to the rows it finds *)

Pairs(o, rows) == {e \in rows : Registry!IsPair(e, o.sender, o.peer)}

LivePairs(o, rows) == {e \in Pairs(o, rows) : Registry!Live(e, o.now)}

Others(o, rows) == {e \in rows : /\ Registry!Live(e, o.now)
                                 /\ e.peer = o.peer
                                 /\ e.opened_by # o.sender}

Refresh(o, c) ==
    LET e == CHOOSE e \in LivePairs(o, c.rows) : Registry!IsFirst(e, LivePairs(o, c.rows))
    IN [c EXCEPT !.rows = (@ \ {e}) \cup
                              {[e EXCEPT !.lease_until = o.now + e.lease_minutes]}]

Append(o, c) ==
    [rows |-> c.rows \cup {[thread_id |-> c.minted + 1, opened_by |-> o.sender,
                            peer |-> o.peer, lease_until |-> o.now + o.minutes,
                            lease_minutes |-> o.minutes]},
     minted |-> c.minted + 1]

\* A gate or a claim.  No row is appended beyond MaxMinted.
Decided(o, c) ==
    CASE o.reply # "yes" -> c
      [] o.reply = "yes" /\ LivePairs(o, c.rows) # {} -> Refresh(o, c)
      [] o.reply = "yes" /\ LivePairs(o, c.rows) = {} ->
            IF Others(o, c.rows) = {} /\ c.minted < MaxMinted THEN Append(o, c) ELSE c

Dropped(o, c) == [c EXCEPT !.rows = @ \ Pairs(o, c.rows)]

ASSUME LockedAssumption ==
    /\ LeaseMinutes \subseteq Nat /\ MaxMinted \in Nat /\ MaxWait \in Nat /\ MaxTime \in Nat
    /\ Nobody \notin Agents
    /\ Ops = Asks \cup Drops
    /\ Asks \cap Drops = {}
    /\ Asks \subseteq [sender : Agents, peer : Agents, reply : Registry!Replies,
                       now : Nat, minutes : LeaseMinutes]
    /\ Drops \subseteq [sender : Agents, peer : Agents]
    /\ Contents \subseteq [rows : SUBSET Registry!Row, minted : Nat]
    /\ Empty = [rows |-> {}, minted |-> 0]
    /\ \A c \in Contents :
          /\ Unread[c] = [c EXCEPT !.rows = {}]
          /\ \A o \in Asks : Update[o][c] = Decided(o, c)
          /\ \A o \in Drops : Update[o][c] = Dropped(o, c)

-----------------------------------------------------------------------------
LockedInit == Init /\ file = Empty /\ clock = 0

\* Both entry points sample the clock before they open the lock file.
Stamped == \A t \in Threads, o \in Asks : Call(t, o) => o.now = clock

LockStep == Next /\ Stamped /\ UNCHANGED clock

\* Time passes wherever the calls are, MaxWait at most between the sampling and
\* the end of a section.
Tick ==
    /\ clock < MaxTime
    /\ \A t \in Threads : Deciding(t) => clock - op[t].now < MaxWait
    /\ clock' = clock + 1
    /\ UNCHANGED vars

LockedSpec == LockedInit /\ [][LockStep \/ Tick]_lockedVars

-----------------------------------------------------------------------------
\* Calls that read, decide and write under the locks, each at its own pace and
\* with a time it sampled before, do to the registry what the two-step calls of
\* OpenThreads do: no row is decided upon that another call has changed since
\* it was read, and a call that raises or dies leaves the rows as they were
\* ("safe under concurrent access", the docstring of open_threads.py).
ImplementsOpenThreads == Registry!Spec
=============================================================================
