------------------------ MODULE LockedRegistryProofs ------------------------
(***************************************************************************)
(* Calls that go through the locks step by step do to the registry what    *)
(* the two-step calls of OpenThreads do, for any threads, processes,       *)
(* platforms, agents, leases, waits and faults; and what OpenThreadsProofs *)
(* shows of those holds of them.                                           *)
(***************************************************************************)
EXTENDS LockedRegistry, RegistryLockProofs, WellFoundedInduction

NotWaiting == [reply |-> "none"]

-----------------------------------------------------------------------------
(* The file *)

LEMMA FileRows ==
    ASSUME TypeOK
    PROVE  /\ file \in Contents
           /\ file \in [rows : SUBSET Registry!Row, minted : Nat]
BY LockedAssumption DEF TypeOK

\* A set of ids has a least one.
LEMMA LeastId ==
    ASSUME NEW ids, ids \subseteq Nat, ids # {}
    PROVE  \E n \in ids : \A m \in ids : n <= m
<1>1. PICK n \in ids : \A m \in ids : ~ (<<m, n>> \in OpToRel(<, Nat))
  BY NatLessThanWellFounded, WFMin
<1>2. ASSUME NEW m \in ids PROVE n <= m
  <2>1. m \in Nat /\ n \in Nat
    OBVIOUS
  <2>2. ~ (m < n)
    BY <1>1, <2>1 DEF OpToRel
  <2> QED
    BY <2>1, <2>2
<1> QED
  BY <1>2

\* Some row of the pair was appended first.
LEMMA FirstOfPair ==
    ASSUME TypeOK, NEW o, LivePairs(o, file.rows) # {}
    PROVE  \E e \in LivePairs(o, file.rows) : Registry!IsFirst(e, LivePairs(o, file.rows))
<1> DEFINE S == LivePairs(o, file.rows)
<1>1. S \subseteq Registry!Row
  BY FileRows DEF LivePairs, Pairs
<1>2. \A e \in S : e.thread_id \in Nat
  BY <1>1 DEF Registry!Row
<1> DEFINE ids == {e.thread_id : e \in S}
<1>3. ids \subseteq Nat /\ ids # {}
  BY <1>2
<1> HIDE DEF ids
<1>4. PICK n \in ids : \A m \in ids : n <= m
  BY <1>3, LeastId
<1>5. PICK e \in S : e.thread_id = n
  BY <1>4 DEF ids
<1>6. \A f \in S : e.thread_id <= f.thread_id
  BY <1>4, <1>5 DEF ids
<1> QED
  BY <1>5, <1>6 DEF Registry!IsFirst

\* A section leaves behind what its call makes of what the file held at that
\* instant, or of a file it could not read.
LEMMA Effect ==
    ASSUME TypeOK, NEW t \in Threads, Calls!Apply(t)
    PROVE  \/ file' = Update[op[t]][file]
           \/ "read" \in Faults /\ Calls!Leaves(t, Unread[file])
BY DEF Calls!Apply, Calls!Leaves

-----------------------------------------------------------------------------
(* Who waits to decide *)

\* One call begins or ends to wait.
LEMMA OneWaits ==
    ASSUME NEW t \in Threads, NEW c, Waiting'[t] = c,
           \A u \in Threads \ {t} : Waiting'[u] = Waiting[u]
    PROVE  Waiting' = [Waiting EXCEPT ![t] = c]
BY DEF Waiting

LEMMA WaitingOf ==
    ASSUME NEW t \in Threads
    PROVE  /\ Deciding(t) => Waiting[t] = Stamp(op[t])
           /\ ~Deciding(t) => Waiting[t] = NotWaiting
           /\ Deciding(t)' => Waiting'[t] = Stamp(op'[t])
           /\ ~Deciding(t)' => Waiting'[t] = NotWaiting
BY DEF Waiting, NotWaiting

\* A stage a call is in and what it was asked make up what it waits for.
LEMMA StagesTell ==
    ASSUME NEW t \in Threads,
           [u \in Threads |-> Stage(u)]' = [[u \in Threads |-> Stage(u)] EXCEPT ![t] = Stage(t)'],
           \A u \in Threads \ {t} : op'[u] = op[u]
    PROVE  \A u \in Threads \ {t} : Waiting'[u] = Waiting[u]
<1>1. \A u \in Threads \ {t} : Stage(u)' = Stage(u)
  OBVIOUS
<1> QED
  BY <1>1 DEF Waiting, Deciding

-----------------------------------------------------------------------------
(* A locked section is a decision of OpenThreads *)

\* A claim that has not found its effect yet is a claim of OpenThreads.
LEMMA ClaimOf ==
    ASSUME NEW t \in Threads, Deciding(t), op[t].reply = "yes"
    PROVE  /\ Registry!Claims(Waiting[t])
           /\ Registry!PairRows(Waiting[t]) = LivePairs(op[t], file.rows)
           /\ Registry!BusyRows(Waiting[t]) = Others(op[t], file.rows)
<1>1. Waiting[t] = Stamp(op[t])
  BY WaitingOf
<1> QED
  BY <1>1 DEF Stamp, Registry!Claims, Registry!NoCall, Registry!PairRows,
     Registry!BusyRows, LivePairs, Pairs, Others

\* What a section that asks for the gate or a claim does is deciding.
LEMMA SectionDecides ==
    ASSUME TypeOK, NEW t \in Threads, Deciding(t),
           file' = Decided(op[t], file), clock' = clock,
           Waiting' = [Waiting EXCEPT ![t] = NotWaiting]
    PROVE  Registry!Next
<1> DEFINE o == op[t]
<1> DEFINE S == LivePairs(o, file.rows)
<1>0. /\ o \in Asks
      /\ o \in [sender : Agents, peer : Agents, reply : Registry!Replies,
                now : Nat, minutes : LeaseMinutes]
      /\ Waiting[t] = Stamp(o)
  BY WaitingOf, LockedAssumption DEF Deciding
<1>1. Registry!Return(t)
  BY DEF Registry!Return, Registry!NoCall, NotWaiting
<1>2. CASE o.reply # "yes"
  <2>1. file' = file
    BY <1>2 DEF Decided
  <2>2. Registry!Exempt(t)
    BY <1>0, <1>1, <1>2, <2>1 DEF Registry!Exempt, Registry!NoCall, Stamp, Registry!Replies
  <2> QED
    BY <2>2 DEF Registry!Next, Registry!Decide
<1>3. CASE o.reply = "yes" /\ S # {}
  <2>1. file' = Refresh(o, file)
    BY <1>3 DEF Decided
  <2>2. PICK e \in S : /\ Registry!IsFirst(e, S)
                       /\ file' = [file EXCEPT !.rows = (@ \ {e}) \cup
                              {[e EXCEPT !.lease_until = o.now + e.lease_minutes]}]
    BY <1>3, <2>1, FirstOfPair DEF Refresh
  <2>3. /\ file'.rows = (file.rows \ {e}) \cup
                            {[e EXCEPT !.lease_until = o.now + e.lease_minutes]}
        /\ file'.minted = file.minted
    BY <2>2, FileRows
  <2>4. /\ e \in file.rows
        /\ Registry!IsFirst(e, Registry!PairRows(Waiting[t]))
        /\ Registry!Claims(Waiting[t])
    BY <1>3, <2>2, ClaimOf DEF LivePairs, Pairs
  <2>5. Waiting[t].now = o.now
    BY <1>0 DEF Stamp
  <2>6. Registry!Merge(t)
    BY <1>1, <2>3, <2>4, <2>5 DEF Registry!Merge
  <2> QED
    BY <2>6 DEF Registry!Next, Registry!Decide
<1>4. CASE o.reply = "yes" /\ S = {} /\ Others(o, file.rows) # {}
  <2>1. file' = file
    BY <1>4 DEF Decided
  <2>2. Registry!Refuse(t)
    BY <1>1, <1>4, <2>1, ClaimOf DEF Registry!Refuse
  <2> QED
    BY <2>2 DEF Registry!Next, Registry!Decide
<1>5. CASE /\ o.reply = "yes" /\ S = {} /\ Others(o, file.rows) = {}
           /\ file.minted < MaxMinted
  <2>1. file' = Append(o, file)
    BY <1>5 DEF Decided
  <2>2. /\ file'.rows = file.rows \cup {Registry!NewLease(Waiting[t], o.minutes)}
        /\ file'.minted = file.minted + 1
    BY <1>0, <2>1 DEF Append, Registry!NewLease, Stamp
  <2>3. Registry!Mint(t)
    BY <1>0, <1>1, <1>5, <2>2, ClaimOf DEF Registry!Mint
  <2> QED
    BY <2>3 DEF Registry!Next, Registry!Decide
<1>6. CASE /\ o.reply = "yes" /\ S = {} /\ Others(o, file.rows) = {}
           /\ ~(file.minted < MaxMinted)
  <2>1. file' = file
    BY <1>6 DEF Decided
  <2>2. Registry!Abandon({t})
    BY <2>1 DEF Registry!Abandon, Registry!NoCall, NotWaiting, Waiting
  <2> QED
    BY <2>2 DEF Registry!Next
<1> QED
  BY <1>2, <1>3, <1>4, <1>5, <1>6

\* Who cannot read the file takes it for one without rows.
LEMMA Blank ==
    ASSUME TypeOK, NEW o
    PROVE  /\ Unread[file] = [rows |-> {}, minted |-> file.minted]
           /\ LivePairs(o, Unread[file].rows) = {}
           /\ Others(o, Unread[file].rows) = {}
<1>1. Unread[file] = [file EXCEPT !.rows = {}]
  BY FileRows, LockedAssumption
<1>2. Unread[file] = [rows |-> {}, minted |-> file.minted]
  BY <1>1, FileRows
<1> QED
  BY <1>2 DEF LivePairs, Pairs, Others

\* A gate or a claim that could not read the file mints whatever it held.
LEMMA SectionDecidesBlindly ==
    ASSUME TypeOK, NEW t \in Threads, Deciding(t), "read" \in Faults,
           Calls!Leaves(t, Unread[file]), clock' = clock,
           Waiting' = [Waiting EXCEPT ![t] = NotWaiting]
    PROVE  Registry!Next
<1> DEFINE o == op[t]
           blank == Unread[file]
<1>0. /\ o \in Asks
      /\ o \in [sender : Agents, peer : Agents, reply : Registry!Replies,
                now : Nat, minutes : LeaseMinutes]
      /\ Waiting[t] = Stamp(o)
      /\ blank \in Contents
  BY WaitingOf, LockedAssumption, LockAssumption DEF Deciding, TypeOK
<1>1. Update[o][blank] = Decided(o, blank)
  BY <1>0, LockedAssumption
<1>2. Registry!Return(t)
  BY DEF Registry!Return, Registry!NoCall, NotWaiting
<1>3. CASE o.reply # "yes"
  <2>1. file' = file
    BY <1>1, <1>3 DEF Decided, Calls!Leaves
  <2>2. Registry!Exempt(t)
    BY <1>0, <1>2, <1>3, <2>1 DEF Registry!Exempt, Registry!NoCall, Stamp, Registry!Replies
  <2> QED
    BY <2>2 DEF Registry!Next, Registry!Decide
<1>4. CASE o.reply = "yes" /\ file.minted < MaxMinted
  <2>1. Update[o][blank] = Append(o, blank)
    BY <1>1, <1>4, Blank DEF Decided
  <2>2. Append(o, blank).minted # blank.minted
    BY FileRows, Blank DEF Append
  <2>3. file' = Append(o, blank)
    BY <2>1, <2>2 DEF Calls!Leaves
  <2>4. /\ file'.rows = {Registry!NewLease(Waiting[t], o.minutes)}
        /\ file'.minted = file.minted + 1
    BY <1>0, <2>3, Blank DEF Append, Registry!NewLease, Stamp
  <2>5. Registry!MintBlind(t)
    BY <1>0, <1>2, <1>4, <2>4, ClaimOf DEF Registry!MintBlind
  <2> QED
    BY <2>5 DEF Registry!Next, Registry!Decide
<1>5. CASE o.reply = "yes" /\ ~(file.minted < MaxMinted)
  <2>1. file' = file
    BY <1>1, <1>5, Blank DEF Decided, Calls!Leaves
  <2>2. Registry!Abandon({t})
    BY <2>1 DEF Registry!Abandon, Registry!NoCall, NotWaiting, Waiting
  <2> QED
    BY <2>2 DEF Registry!Next
<1> QED
  BY <1>3, <1>4, <1>5

\* A section of release_pair drops the rows of its pair, and makes nobody wait.
LEMMA SectionDrops ==
    ASSUME TypeOK, NEW t \in Threads, op[t] \in Drops,
           file' = Dropped(op[t], file), clock' = clock, Waiting' = Waiting
    PROVE  Registry!Next
<1> DEFINE o == op[t]
<1>1. o \in [sender : Agents, peer : Agents]
  BY LockedAssumption
<1> DEFINE q == [sender |-> o.sender, peer |-> o.peer, reply |-> "no"]
<1>2. q \in [sender : Agents, peer : Agents, reply : {"yes", "no", "end"}]
  BY <1>1
<1>3. file'.rows = file.rows \ Pairs(o, file.rows) /\ file'.minted = file.minted
  BY FileRows DEF Dropped
<1>4. file'.rows = {e \in file.rows : ~Registry!IsPair(e, o.sender, o.peer)}
  BY <1>3 DEF Pairs
<1>5. Registry!ReleasePair(q.sender, q.peer)
  BY <1>3, <1>4 DEF Registry!ReleasePair
<1> QED
  BY <1>2, <1>5 DEF Registry!Next

\* A release that could not read the file removes nothing and writes nothing.
LEMMA SectionDropsBlindly ==
    ASSUME TypeOK, NEW t \in Threads, op[t] \in Drops, Calls!Leaves(t, Unread[file])
    PROVE  file' = file
<1>1. Unread[file] \in Contents
  BY LockAssumption DEF TypeOK
<1>2. Update[op[t]][Unread[file]] = Dropped(op[t], Unread[file])
  BY <1>1, LockedAssumption
<1>3. Dropped(op[t], Unread[file]) = Unread[file]
  BY Blank DEF Dropped
<1> QED
  BY <1>2, <1>3 DEF Calls!Leaves

-----------------------------------------------------------------------------
(* Every step of a call is one of OpenThreads, or none *)

LEMMA CallBegins ==
    ASSUME IInv, NEW t \in Threads, NEW o \in Ops, Call(t, o),
           o \in Asks => o.now = clock, clock' = clock
    PROVE  [Registry!Next]_(Registry!vars)
<1>1. Calls!Ask(t, o)
  BY Asking
<1>2. /\ Stage(t) = "idle" /\ Stage(t)' = "asked" /\ file' = file /\ op'[t] = o
      /\ \A u \in Threads \ {t} : Waiting'[u] = Waiting[u]
  BY <1>1, StagesTell DEF Calls!Ask, IInv, TypeOK
<1>3. Waiting[t] = NotWaiting
  BY <1>2, WaitingOf DEF Deciding
<1>4. CASE o \in Asks
  <2>1. Waiting' = [Waiting EXCEPT ![t] = Stamp(o)]
    BY <1>2, <1>4, WaitingOf, OneWaits DEF Deciding
  <2> DEFINE q == [sender |-> o.sender, peer |-> o.peer, reply |-> o.reply]
  <2>2. q \in [sender : Agents, peer : Agents, reply : {"yes", "no", "end"}]
    BY <1>4, LockedAssumption DEF Registry!Replies
  <2>3. Registry!Begin(t, q)
    BY <1>2, <1>3, <1>4, <2>1 DEF Registry!Begin, Registry!NoCall, NotWaiting, Stamp
  <2> QED
    BY <2>2, <2>3 DEF Registry!Next
<1>5. CASE o \notin Asks
  <2>1. Waiting' = [Waiting EXCEPT ![t] = NotWaiting]
    BY <1>2, <1>5, WaitingOf, OneWaits DEF Deciding
  <2>2. Waiting' = Waiting
    BY <1>3, <2>1 DEF Waiting
  <2> QED
    BY <1>2, <2>2 DEF Registry!vars
<1> QED
  BY <1>4, <1>5

LEMMA CallTakesEffect ==
    ASSUME IInv, NEW t \in Threads, Write(t) \/ Keep(t), clock' = clock
    PROVE  [Registry!Next]_(Registry!vars)
<1>0. TypeOK
  BY DEF IInv
<1>1. Calls!Apply(t)
  BY Effective
<1>2. \/ file' = Update[op[t]][file]
      \/ "read" \in Faults /\ Calls!Leaves(t, Unread[file])
  BY <1>0, <1>1, Effect
<1>3. /\ Stage(t) = "asked" /\ Stage(t)' = "applied" /\ op' = op
      /\ \A u \in Threads \ {t} : Waiting'[u] = Waiting[u]
  BY <1>1, StagesTell DEF Calls!Apply
<1>4. Waiting' = [Waiting EXCEPT ![t] = NotWaiting]
  BY <1>3, WaitingOf, OneWaits DEF Deciding
<1>5. op[t] \in Ops
  BY DEF IInv, TypeOK, OutcomeKnown, Write, Keep, Move
<1>6. CASE op[t] \in Asks
  <2>1. Deciding(t)
    BY <1>3, <1>6 DEF Deciding
  <2>2. CASE file' = Update[op[t]][file]
    <3>1. file' = Decided(op[t], file)
      BY <1>0, <1>6, <2>2, FileRows, LockedAssumption
    <3> QED
      BY <1>0, <1>4, <2>1, <3>1, SectionDecides
  <2> QED
    BY <1>0, <1>2, <1>4, <2>1, <2>2, SectionDecidesBlindly
<1>7. CASE op[t] \in Drops
  <2>1. Waiting[t] = NotWaiting
    BY <1>7, WaitingOf, LockedAssumption DEF Deciding
  <2>2. Waiting' = Waiting
    BY <1>4, <2>1 DEF Waiting
  <2>3. CASE file' = Update[op[t]][file]
    <3>1. file' = Dropped(op[t], file)
      BY <1>0, <1>7, <2>3, FileRows, LockedAssumption
    <3> QED
      BY <1>0, <1>7, <2>2, <3>1, SectionDrops
  <2>4. CASE Calls!Leaves(t, Unread[file])
    BY <1>0, <1>7, <2>2, <2>4, SectionDropsBlindly DEF Registry!vars
  <2> QED
    BY <1>2, <2>3, <2>4
<1> QED
  BY <1>5, <1>6, <1>7, LockedAssumption

LEMMA CallRaises ==
    ASSUME IInv, NEW t \in Threads, PassDeadline(t) \/ LockFails(t) \/ WriteFails(t),
           clock' = clock
    PROVE  Registry!Next
<1>1. Calls!Raise(t)
  BY Raising
<1>2. /\ Stage(t)' = "raised" /\ file' = file
      /\ \A u \in Threads \ {t} : Waiting'[u] = Waiting[u]
  BY <1>1, StagesTell DEF Calls!Raise
<1>3. Waiting' = [Waiting EXCEPT ![t] = NotWaiting]
  BY <1>2, WaitingOf, OneWaits DEF Deciding
<1>4. Registry!Abandon({t})
  BY <1>2, <1>3 DEF Registry!Abandon, Registry!NoCall, NotWaiting, Waiting
<1> QED
  BY <1>4 DEF Registry!Next

LEMMA CallReturns ==
    ASSUME IInv, NEW t \in Threads, Close(t) \/ UnlockRaises(t), clock' = clock
    PROVE  UNCHANGED Registry!vars
<1>1. Calls!Return(t)
  BY Returning
<1>2. /\ Stage(t) # "asked" /\ Stage(t)' = "idle" /\ file' = file
      /\ \A u \in Threads \ {t} : Waiting'[u] = Waiting[u]
  BY <1>1, StagesTell DEF Calls!Return, IInv, TypeOK
<1>3. Waiting[t] = NotWaiting /\ Waiting'[t] = NotWaiting
  BY <1>2, WaitingOf DEF Deciding
<1>4. Waiting' = Waiting
  BY <1>2, <1>3, OneWaits DEF Waiting
<1> QED
  BY <1>2, <1>4 DEF Registry!vars

LEMMA ProcessDies ==
    ASSUME IInv, NEW p \in Processes, Crash(p), clock' = clock
    PROVE  Registry!Next
<1>1. Calls!Die(ThreadsOf(p)) /\ ThreadsOf(p) \in SUBSET Threads
  BY Dying
<1>2. /\ file' = file
      /\ \A u \in Threads :
            /\ Stage(u)' = IF u \in ThreadsOf(p) THEN "idle" ELSE Stage(u)
            /\ u \notin ThreadsOf(p) => op'[u] = op[u]
  BY <1>1 DEF Calls!Die
<1>3. \A u \in Threads : Waiting'[u] = IF u \in ThreadsOf(p) THEN NotWaiting ELSE Waiting[u]
  BY <1>2 DEF Waiting, Deciding, NotWaiting
<1>4. Registry!Abandon(ThreadsOf(p))
  BY <1>2, <1>3 DEF Registry!Abandon, Registry!NoCall, NotWaiting, Waiting
<1> QED
  BY <1>1, <1>4 DEF Registry!Next

LEMMA StepImplements ==
    ASSUME IInv, [LockStep \/ Tick]_lockedVars
    PROVE  [Registry!Next]_(Registry!vars)
<1>1. ASSUME UNCHANGED <<file, op, pc, outcome, clock>>
      PROVE  UNCHANGED Registry!vars
  BY <1>1 DEF Registry!vars, Waiting, Deciding, Stage
<1>2. CASE UNCHANGED lockedVars
  BY <1>1, <1>2 DEF lockedVars, vars, local
<1>3. CASE Tick
  <2>1. file' = file /\ Waiting' = Waiting
    BY <1>3 DEF Tick, vars, local, Waiting, Deciding, Stage
  <2>2. ASSUME NEW t \in Threads, Waiting[t] # Registry!NoCall
        PROVE  clock - Waiting[t].now < MaxWait
    <3>1. Deciding(t) /\ Waiting[t] = Stamp(op[t])
      BY <2>2, WaitingOf DEF Registry!NoCall, NotWaiting
    <3> QED
      BY <1>3, <3>1 DEF Tick, Stamp
  <2>3. Registry!Tick
    BY <1>3, <2>1, <2>2 DEF Tick, Registry!Tick
  <2> QED
    BY <2>3 DEF Registry!Next
<1>4. CASE LockStep
  <2>1. Next /\ Stamped /\ clock' = clock
    BY <1>4 DEF LockStep
  <2>2. ASSUME NEW t \in Threads, Step(t) PROVE [Registry!Next]_(Registry!vars)
    <3>1. CASE EnterGate(t) \/ Acquire(t) \/ TryAgain(t) \/ Read(t) \/ Unlock(t)
      <4>1. UNCHANGED <<file, op, [u \in Threads |-> Stage(u)]>>
        BY <3>1, Invisible DEF Calls!vars
      <4>2. \A u \in Threads : Stage(u)' = Stage(u)
        BY <4>1
      <4> QED
        BY <2>1, <4>1, <4>2 DEF Registry!vars, Waiting, Deciding
    <3>2. CASE Write(t) \/ Keep(t)
      BY <2>1, <3>2, CallTakesEffect
    <3>3. CASE PassDeadline(t) \/ LockFails(t) \/ WriteFails(t)
      BY <2>1, <3>3, CallRaises
    <3>4. CASE Close(t) \/ UnlockRaises(t)
      BY <2>1, <3>4, CallReturns
    <3> QED
      BY <2>2, <3>1, <3>2, <3>3, <3>4 DEF Step
  <2>3. ASSUME NEW t \in Threads, NEW o \in Ops, Call(t, o)
        PROVE  [Registry!Next]_(Registry!vars)
    BY <2>1, <2>3, CallBegins DEF Stamped
  <2>4. ASSUME NEW p \in Processes, Crash(p) PROVE [Registry!Next]_(Registry!vars)
    BY <2>1, <2>4, ProcessDies
  <2>5. CASE Rest
    BY <1>1, <2>1, <2>5 DEF Rest, vars, local
  <2> QED
    BY <2>1, <2>2, <2>3, <2>4, <2>5 DEF Next
<1> QED
  BY <1>2, <1>3, <1>4

\* The registry under its locks implements OpenThreads, for any threads,
\* processes, platforms, agents, leases, waits and faults: calls that sample the
\* clock, wait for two locks, read or cannot read, decide, write and may raise or
\* die at each of these steps do what the two-step calls of OpenThreads do, so
\* that what is proved of those holds of them (inbound_gate, claim_outbound,
\* release_pair under _registry_lock).
THEOREM LockedCallsImplementRegistry == LockedSpec => ImplementsOpenThreads
<1>1. LockedSpec => Spec
  <2>1. LockedInit => Init
    BY DEF LockedInit
  <2>2. [LockStep \/ Tick]_lockedVars => [Next]_vars
    BY DEF LockStep, Tick, lockedVars
  <2> QED
    BY <2>1, <2>2, PTL DEF LockedSpec, Spec
<1>2. LockedInit => Registry!Init
  BY LockedAssumption DEF LockedInit, Init, Registry!Init, Registry!NoCall, Waiting,
     Deciding, Stage
<1>3. IInv /\ [LockStep \/ Tick]_lockedVars => [Registry!Next]_(Registry!vars)
  BY StepImplements
<1> QED
  BY <1>1, <1>2, <1>3, Inductive, PTL DEF LockedSpec, ImplementsOpenThreads, Registry!Spec

-----------------------------------------------------------------------------
(* What is proved of the registry, under its locks *)

Seats == INSTANCE OpenThreadsProofs WITH
            Workers <- Threads,
            Requests <- [sender : Agents, peer : Agents, reply : {"yes", "no", "end"}],
            ReadFaults <- "read" \in Faults,
            entries <- file.rows,
            minted <- file.minted,
            call <- Waiting

\* The assumptions of OpenThreads hold of the calls.
LEMMA SeatsAssumed ==
    /\ Seats!RequestAssumption /\ Seats!LeaseAssumption /\ Seats!WaitAssumption
    /\ Seats!FaultAssumption /\ Seats!BoundAssumption /\ Seats!NobodyIsNoAgent
BY LockedAssumption DEF Seats!RequestAssumption, Seats!LeaseAssumption, Seats!WaitAssumption,
   Seats!FaultAssumption, Seats!BoundAssumption, Seats!NobodyIsNoAgent, Seats!Replies

\* The registry of the model and the one of the proofs are the same.
LEMMA SameRegistry ==
    /\ Registry!Init => Seats!Init
    /\ [Registry!Next]_(Registry!vars) => [Seats!Next]_(Seats!vars)
<1> USE DEF Registry!vars, Seats!vars, Registry!NoCall, Seats!NoCall,
            Registry!Return, Seats!Return, Registry!Claims, Seats!Claims,
            Registry!Live, Seats!Live, Registry!Parties, Seats!Parties,
            Registry!IsPair, Seats!IsPair, Registry!IsFirst, Seats!IsFirst,
            Registry!PairRows, Seats!PairRows, Registry!BusyRows, Seats!BusyRows,
            Registry!NewLease, Seats!NewLease
<1>1. \A w, q : Registry!Begin(w, q) => Seats!Begin(w, q)
  BY DEF Registry!Begin, Seats!Begin
<1>2. \A w : Registry!Exempt(w) => Seats!Exempt(w)
  BY DEF Registry!Exempt, Seats!Exempt
<1>3. \A w : Registry!Merge(w) => Seats!Merge(w)
  BY DEF Registry!Merge, Seats!Merge
<1>4. \A w : Registry!Refuse(w) => Seats!Refuse(w)
  BY DEF Registry!Refuse, Seats!Refuse
<1>5. \A w : Registry!Mint(w) => Seats!Mint(w)
  BY DEF Registry!Mint, Seats!Mint
<1>6. \A w : Registry!MintBlind(w) => Seats!MintBlind(w)
  BY DEF Registry!MintBlind, Seats!MintBlind
<1>7. \A ws : Registry!Abandon(ws) => Seats!Abandon(ws)
  BY DEF Registry!Abandon, Seats!Abandon
<1>8. \A a, b : Registry!ReleasePair(a, b) => Seats!ReleasePair(a, b)
  BY DEF Registry!ReleasePair, Seats!ReleasePair
<1>9. Registry!ReleaseBlind => Seats!ReleaseBlind
  BY DEF Registry!ReleaseBlind, Seats!ReleaseBlind
<1>10. Registry!Tick => Seats!Tick
  BY DEF Registry!Tick, Seats!Tick
<1>11. Registry!Init => Seats!Init
  BY DEF Registry!Init, Seats!Init
<1> QED
  BY <1>1, <1>2, <1>3, <1>4, <1>5, <1>6, <1>7, <1>8, <1>9, <1>10, <1>11
     DEF Registry!Next, Registry!Decide, Seats!Next, Seats!Decide

LEMMA LockedSeats == LockedSpec => Seats!Spec
<1>1. LockedSpec => Registry!Spec
  BY LockedCallsImplementRegistry DEF ImplementsOpenThreads
<1> QED
  BY <1>1, SameRegistry, PTL DEF Registry!Spec, Seats!Spec

\* However calls wait for the locks, are refused, raise or die under them, a
\* second claimant of a seat comes only from refreshing a lease that ran out
\* meanwhile (inbound_gate, claim_outbound under _registry_lock).
THEOREM LockedRefreshIsTheOnlyHole == LockedSpec => Seats!OnlyLateRefreshBreaks
<1>1. Seats!Spec => Seats!OnlyLateRefreshBreaks
  BY SeatsAssumed, Seats!LateRefreshIsTheOnlyHole
<1> QED
  BY <1>1, LockedSeats

\* The whole chain: threads and processes that reach the file through the two
\* locks, and are not kept waiting past a tick of the clock, hand a seat from
\* one agent to another only through its being free.
THEOREM LockedCallsImplementBoard ==
    ASSUME MaxWait = 0, "read" \notin Faults
    PROVE  LockedSpec => Seats!ImplementsBoard
<1>1. Seats!Spec => Seats!ImplementsBoard
  BY SeatsAssumed, Seats!RegistryImplementsBoard
<1> QED
  BY <1>1, LockedSeats
=============================================================================
