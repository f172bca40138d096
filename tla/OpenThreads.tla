---------------------------- MODULE OpenThreads ----------------------------
(***************************************************************************)
(* The lease registry of src/diploid_mesh/open_threads.py: a list of rows  *)
(* in one JSON file, changed by requests that run in the threads of one or *)
(* more processes, each under the registry lock.                           *)
(*                                                                         *)
(* A request samples the wall clock first and only then waits for the lock *)
(* (lines 225-227 and 291-293), so it decides at one instant with the time *)
(* of an earlier one.  Begin is the sampling; Merge, Refuse, Mint and      *)
(* Exempt are the locked section.  A locked section is one step: the lock  *)
(* excludes the others and os.replace makes the write all or nothing.      *)
(* inbound_gate and claim_outbound decide alike, so one set of actions     *)
(* stands for both: a claim is a request whose reply is "yes".             *)
(*                                                                         *)
(* Time is in ticks, which a lease's minutes are counted in; it never runs *)
(* backwards.  thread_id is the position at which the row was appended, so *)
(* the list order of the file is the order of the ids.                     *)
(* opened_at and replies are written and never read by a decision: left    *)
(* out.                                                                    *)
(***************************************************************************)
EXTENDS Integers, FiniteSets

CONSTANTS
    Agents,         \* the names a row can carry
    Requests,       \* who asks for what: [sender, peer, reply] records
    Workers,        \* threads that call the registry, whatever their process
    LeaseMinutes,   \* the values MESH_LEASE_MINUTES may have; 0 is legal
    MaxWait,        \* longest time from sampling the clock to holding the lock
                    \* (no code bounds it on POSIX); 0: the clock stands still
    ReadFaults,     \* whether reading the file may fail and be taken for []
    MaxTime,        \* bound on the clock
    MaxMinted       \* bound on the rows ever minted

Replies == {"yes", "no", "end"}

ASSUME RequestAssumption ==
    Requests \subseteq [sender : Agents, peer : Agents, reply : Replies]
ASSUME LeaseAssumption == LeaseMinutes \subseteq Nat
ASSUME WaitAssumption == MaxWait \in Nat
ASSUME FaultAssumption == ReadFaults \in BOOLEAN
ASSUME BoundAssumption == MaxTime \in Nat /\ MaxMinted \in Nat

VARIABLES
    clock,      \* time.time()
    entries,    \* the rows of open-threads.json
    minted,     \* rows ever appended: the next thread_id
    call        \* what each worker has sampled and waits to decide

vars == <<clock, entries, minted, call>>

Row == [thread_id : Nat, opened_by : Agents, peer : Agents,
        lease_until : Nat, lease_minutes : LeaseMinutes]

Call == [sender : Agents, peer : Agents, reply : Replies, now : Nat]

NoCall == [reply |-> "none"]

-----------------------------------------------------------------------------
(* The row predicates *)

Live(e, now) == e.lease_until > now

Parties(e) == {e.opened_by, e.peer}

\* Mutant of IsPair: the pair is matched in one direction only.
IsPairOneWay(e, a, b) == e.opened_by = a /\ e.peer = b

IsPair(e, a, b) == Parties(e) = {a, b}

\* Mutants of PairRows and BusyRows: an expired row still matches; the row's
\* names are compared the wrong way round; any foreign row makes any peer busy.
PairRowsOfAnyAge(c) == {e \in entries : IsPair(e, c.sender, c.peer)}

BusyRowsCrossed(c) == {e \in entries : /\ Live(e, c.now)
                                       /\ e.opened_by = c.peer
                                       /\ e.peer # c.sender}

BusyRowsOfAnyPeer(c) == {e \in entries : Live(e, c.now) /\ e.opened_by # c.sender}

\* The live rows of the caller's pair, and those that make the peer busy.
PairRows(c) == {e \in entries : IsPair(e, c.sender, c.peer) /\ Live(e, c.now)}

BusyRows(c) == {e \in entries : /\ Live(e, c.now)
                                /\ e.peer = c.peer
                                /\ e.opened_by # c.sender}

\* next(...) over the list: the row appended first
IsFirst(e, S) == e \in S /\ \A f \in S : e.thread_id <= f.thread_id

Claims(c) == c # NoCall /\ c.reply = "yes"

-----------------------------------------------------------------------------
\* The rows keep the fields _new_lease gives them, whatever is merged,
\* released or lost, and a pending call the time it sampled.
TypeOK ==
    /\ clock \in Nat
    /\ entries \subseteq Row
    /\ minted \in Nat
    /\ call \in [Workers -> Call \cup {NoCall}]

Init ==
    /\ clock = 0
    /\ entries = {}
    /\ minted = 0
    /\ call = [w \in Workers |-> NoCall]

\* Both entry points up to the lock: the time is sampled, nothing is read.
Begin(w, q) ==
    /\ call[w] = NoCall
    /\ call' = [call EXCEPT ![w] = [sender |-> q.sender, peer |-> q.peer,
                                    reply |-> q.reply, now |-> clock]]
    /\ UNCHANGED <<clock, entries, minted>>

Return(w) == call' = [call EXCEPT ![w] = NoCall]

\* A notice or a terminator at the gate: delivered, nothing written.
Exempt(w) ==
    /\ call[w] # NoCall
    /\ call[w].reply # "yes"
    /\ Return(w)
    /\ UNCHANGED <<clock, entries, minted>>

\* Mutants of Merge: the minutes are added to what is left of the lease; the
\* lease configured now instead of the row's own.
MergeOntoLease(w) ==
    /\ Claims(call[w])
    /\ \E e \in entries :
          /\ IsFirst(e, PairRows(call[w]))
          /\ entries' = (entries \ {e}) \cup
                {[e EXCEPT !.lease_until = @ + e.lease_minutes]}
    /\ Return(w)
    /\ UNCHANGED <<clock, minted>>

MergeWithCurrentLease(w) ==
    /\ Claims(call[w])
    /\ \E e \in entries, minutes \in LeaseMinutes :
          /\ IsFirst(e, PairRows(call[w]))
          /\ entries' = (entries \ {e}) \cup
                {[e EXCEPT !.lease_until = call[w].now + minutes]}
    /\ Return(w)
    /\ UNCHANGED <<clock, minted>>

\* Thread traffic: the first live row of the pair gets a new expiry.
Merge(w) ==
    /\ Claims(call[w])
    /\ \E e \in entries :
          /\ IsFirst(e, PairRows(call[w]))
          /\ entries' = (entries \ {e}) \cup
                {[e EXCEPT !.lease_until = call[w].now + e.lease_minutes]}
    /\ Return(w)
    /\ UNCHANGED <<clock, minted>>

\* Somebody else holds the peer.
Refuse(w) ==
    /\ Claims(call[w])
    /\ PairRows(call[w]) = {}
    /\ BusyRows(call[w]) # {}
    /\ Return(w)
    /\ UNCHANGED <<clock, entries, minted>>

NewLease(c, minutes) ==
    [thread_id |-> minted + 1, opened_by |-> c.sender, peer |-> c.peer,
     lease_until |-> c.now + minutes, lease_minutes |-> minutes]

\* Nobody holds the peer: a row is appended.
Mint(w) ==
    /\ Claims(call[w])
    /\ minted < MaxMinted
    /\ PairRows(call[w]) = {}
    /\ BusyRows(call[w]) = {}
    /\ \E minutes \in LeaseMinutes :
          entries' = entries \cup {NewLease(call[w], minutes)}
    /\ minted' = minted + 1
    /\ Return(w)
    /\ UNCHANGED clock

\* The file could not be read: _read_entries answers [], the caller mints and
\* writes a list of that one row over whatever the file held.
MintBlind(w) ==
    /\ ReadFaults
    /\ Claims(call[w])
    /\ minted < MaxMinted
    /\ \E minutes \in LeaseMinutes : entries' = {NewLease(call[w], minutes)}
    /\ minted' = minted + 1
    /\ Return(w)
    /\ UNCHANGED clock

\* The lock or the write raises (os.replace did not happen), or a process dies
\* with all its workers: their calls are gone, the file is as it was.
Abandon(ws) ==
    /\ call' = [w \in Workers |-> IF w \in ws THEN NoCall ELSE call[w]]
    /\ UNCHANGED <<clock, entries, minted>>

\* Every row of the pair goes, live or not.  release_pair reads no clock, so
\* there is nothing to sample.
ReleasePair(a, b) ==
    /\ entries' = {e \in entries : ~IsPair(e, a, b)}
    /\ UNCHANGED <<clock, minted, call>>

\* The file could not be read: _read_entries answers [], so release_pair finds
\* nothing to remove, writes nothing and returns as if there had been no row.
ReleaseBlind == ReadFaults /\ UNCHANGED vars

\* Time passes while no worker has waited for the lock longer than MaxWait.
Tick ==
    /\ clock < MaxTime
    /\ \A w \in Workers : call[w] # NoCall => clock - call[w].now < MaxWait
    /\ clock' = clock + 1
    /\ UNCHANGED <<entries, minted, call>>

Decide(w) == Exempt(w) \/ Merge(w) \/ Refuse(w) \/ Mint(w) \/ MintBlind(w)

Next ==
    \/ \E w \in Workers, q \in Requests : Begin(w, q)
    \/ \E w \in Workers : Decide(w)
    \/ \E ws \in SUBSET Workers : Abandon(ws)
    \/ \E q \in Requests : ReleasePair(q.sender, q.peer)
    \/ ReleaseBlind
    \/ Tick

Spec == Init /\ [][Next]_vars

-----------------------------------------------------------------------------
(* Properties *)

LiveRows == {e \in entries : Live(e, clock)}

\* At every instant at most one live row names an agent as its peer: the busy
\* check leaves one claimant per seat, however many requests race for it, and
\* a pair never holds two live threads (the busy and pair checks of
\* inbound_gate and claim_outbound).
OneClaimPerPeer ==
    \A e, f \in LiveRows :
        e.peer = f.peer \/ Parties(e) = Parties(f) => e = f

\* A row that had expired is live again under the same thread_id: a merge
\* decided with a time sampled before the expiry.
LateRefresh ==
    \E e \in entries \ LiveRows, f \in LiveRows' : e.thread_id = f.thread_id

\* However long the lock is waited for, only a late refresh can put a second
\* claimant beside the first; minting with a stale time never does.
OnlyLateRefreshBreaks ==
    [][OneClaimPerPeer /\ ~LateRefresh => OneClaimPerPeer']_vars

\* A refresh brings an expiry forward by no more than its caller waited for the
\* lock, and never if nobody waits: the row's own lease_minutes are counted, and
\* from a clock at most MaxWait behind the one of the last refresh.
RefreshOnlyExtends ==
    [][\A e \in entries, f \in entries' :
          e.thread_id = f.thread_id => f.lease_until + MaxWait >= e.lease_until]_vars

\* A seat comes free: a holder that falls silent has it for the minutes of its
\* row and no longer, however often it refreshed the row before, and however
\* late its last request was let in (inbound_gate, claim_outbound).
SilenceFreesSeat == \A e \in entries : e.lease_until <= clock + e.lease_minutes
=============================================================================
