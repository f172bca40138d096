------------------------- MODULE OpenThreadsProofs -------------------------
(***************************************************************************)
(* What the registry guarantees for every set of agents, workers, requests *)
(* and lease lengths.  IInv is inductive as it stands; OneClaimPerPeer is  *)
(* kept by every step that refreshes no expired row, and with no wait for  *)
(* the lock no step does.  From it follows that the registry implements    *)
(* the board.                                                              *)
(***************************************************************************)
EXTENDS LeaseRefinement, TLAPS

\* A pending call sampled the clock at most MaxWait ago.
Timely ==
    \A w \in Workers : call[w] # NoCall =>
        call[w].now <= clock /\ clock - call[w].now <= MaxWait

\* Rows are told apart by their thread_id, and ids are never reused.
UniqueIds ==
    /\ \A e \in entries : e.thread_id <= minted
    /\ \A e, f \in entries : e.thread_id = f.thread_id => e = f

IInv == TypeOK /\ Timely /\ UniqueIds

-----------------------------------------------------------------------------
(* What a merge writes *)

Refreshed(e, c) == [e EXCEPT !.lease_until = c.now + e.lease_minutes]

\* A claim that is being decided is a call with its four fields.
LEMMA ClaimIsCall ==
    ASSUME TypeOK, NEW w \in Workers, Claims(call[w])
    PROVE  call[w] \in Call /\ call[w].now \in Nat
BY DEF TypeOK, Claims, Call

\* A merge changes one row of the caller's pair, live at the sampled time, and
\* only its expiry.
LEMMA MergeStep ==
    ASSUME TypeOK, NEW w \in Workers, Merge(w)
    PROVE  \E e \in entries :
              /\ Live(e, call[w].now)
              /\ entries' = (entries \ {e}) \cup {Refreshed(e, call[w])}
              /\ Refreshed(e, call[w]) \in Row
              /\ Refreshed(e, call[w]).thread_id = e.thread_id
              /\ Refreshed(e, call[w]).peer = e.peer
              /\ Refreshed(e, call[w]).opened_by = e.opened_by
              /\ Refreshed(e, call[w]).lease_minutes = e.lease_minutes
              /\ Refreshed(e, call[w]).lease_until = call[w].now + e.lease_minutes
<1>1. PICK e \in entries :
          /\ IsFirst(e, PairRows(call[w]))
          /\ entries' = (entries \ {e}) \cup {Refreshed(e, call[w])}
  BY DEF Merge, Refreshed
<1>2. Live(e, call[w].now)
  BY <1>1 DEF IsFirst, PairRows
<1>3. call[w].now \in Nat
  BY ClaimIsCall DEF Merge
<1>4. e \in Row
  BY DEF TypeOK
<1>5. call[w].now + e.lease_minutes \in Nat
  <2>1. e.lease_minutes \in Nat
    BY <1>4, LeaseAssumption DEF Row
  <2> QED
    BY <1>3, <2>1
<1> QED
  BY <1>1, <1>2, <1>4, <1>5 DEF Refreshed, Row

\* A minted row carries the next id and expires a lease after the sampled time.
LEMMA NewLeaseType ==
    ASSUME TypeOK, NEW w \in Workers, Claims(call[w]), NEW m \in LeaseMinutes
    PROVE  NewLease(call[w], m) \in Row
<1>1. call[w] \in Call /\ call[w].now \in Nat
  BY ClaimIsCall
<1>2. call[w].now + m \in Nat
  BY <1>1, LeaseAssumption
<1> QED
  BY <1>1, <1>2 DEF NewLease, Row, Call, TypeOK

-----------------------------------------------------------------------------
(* The inductive invariant *)

LEMMA InitIInv == Init => IInv
BY DEF Init, IInv, TypeOK, Timely, UniqueIds

\* Every step keeps the types.
LEMMA NextTypeOK == TypeOK /\ [Next]_vars => TypeOK'
<1> SUFFICES ASSUME TypeOK, [Next]_vars PROVE TypeOK'
  OBVIOUS
<1>1. ASSUME NEW w \in Workers, NEW q \in Requests, Begin(w, q) PROVE TypeOK'
  <2>1. [sender |-> q.sender, peer |-> q.peer, reply |-> q.reply,
         now |-> clock] \in Call
    BY RequestAssumption DEF TypeOK, Call
  <2> QED
    BY <1>1, <2>1 DEF Begin, TypeOK
<1>2. ASSUME NEW w \in Workers, Merge(w) PROVE TypeOK'
  <2>1. entries' \subseteq Row
    BY <1>2, MergeStep DEF TypeOK
  <2> QED
    BY <1>2, <2>1 DEF Merge, Return, TypeOK
<1>3. ASSUME NEW w \in Workers, Mint(w) PROVE TypeOK'
  <2>1. PICK m \in LeaseMinutes : entries' = entries \cup {NewLease(call[w], m)}
    BY <1>3 DEF Mint
  <2>2. entries' \subseteq Row
    BY <1>3, <2>1, NewLeaseType DEF Mint, TypeOK
  <2> QED
    BY <1>3, <2>2 DEF Mint, Return, TypeOK
<1>4. ASSUME NEW w \in Workers, MintBlind(w) PROVE TypeOK'
  <2>1. PICK m \in LeaseMinutes : entries' = {NewLease(call[w], m)}
    BY <1>4 DEF MintBlind
  <2>2. entries' \subseteq Row
    BY <1>4, <2>1, NewLeaseType DEF MintBlind
  <2> QED
    BY <1>4, <2>2 DEF MintBlind, Return, TypeOK
<1>5. ASSUME NEW w \in Workers, Exempt(w) \/ Refuse(w) PROVE TypeOK'
  BY <1>5 DEF Exempt, Refuse, Return, TypeOK
<1>9. ASSUME NEW ws \in SUBSET Workers, Abandon(ws) PROVE TypeOK'
  BY <1>9 DEF Abandon, TypeOK
<1>6. ASSUME NEW q \in Requests, ReleasePair(q.sender, q.peer) PROVE TypeOK'
  BY <1>6 DEF ReleasePair, TypeOK
<1>7. CASE Tick
  BY <1>7 DEF Tick, TypeOK
<1>8. CASE UNCHANGED vars
  BY <1>8 DEF vars, TypeOK
<1> QED
  BY <1>1, <1>2, <1>3, <1>4, <1>5, <1>6, <1>7, <1>8, <1>9 DEF Next, Decide, ReleaseBlind, vars

\* TypeOK is an invariant: every row and every pending call is well formed.
THEOREM TypeCorrect == Spec => []TypeOK
<1>1. Init => TypeOK
  BY InitIInv DEF IInv
<1> QED
  BY <1>1, NextTypeOK, PTL DEF Spec

-----------------------------------------------------------------------------
(* Calls and ids *)

\* No step lets a pending call grow staler than MaxWait.
LEMMA NextTimely == TypeOK /\ Timely /\ [Next]_vars => Timely'
<1> SUFFICES ASSUME TypeOK, Timely, [Next]_vars,
                    NEW v \in Workers, call'[v] # NoCall
             PROVE  call'[v].now <= clock' /\ clock' - call'[v].now <= MaxWait
  BY DEF Timely
<1> USE DEF TypeOK
<1>1. ASSUME NEW w \in Workers, NEW q \in Requests, Begin(w, q)
      PROVE  call'[v].now <= clock' /\ clock' - call'[v].now <= MaxWait
  <2>1. CASE v = w
    BY <1>1, <2>1, WaitAssumption DEF Begin
  <2>2. CASE v # w
    BY <1>1, <2>2 DEF Begin, Timely
  <2> QED
    BY <2>1, <2>2
<1>2. ASSUME NEW w \in Workers, Decide(w)
      PROVE  call'[v].now <= clock' /\ clock' - call'[v].now <= MaxWait
  <2>1. clock' = clock /\ Return(w)
    BY <1>2 DEF Decide, Exempt, Merge, Refuse, Mint, MintBlind
  <2>2. v # w /\ call'[v] = call[v]
    BY <2>1 DEF Return
  <2> QED
    BY <2>1, <2>2 DEF Timely
<1>3. ASSUME NEW q \in Requests, ReleasePair(q.sender, q.peer)
      PROVE  call'[v].now <= clock' /\ clock' - call'[v].now <= MaxWait
  BY <1>3 DEF ReleasePair, Timely
<1>4. CASE Tick
  <2>1. call[v].now \in Nat
    BY <1>4 DEF Tick, Call
  <2> QED
    BY <1>4, <2>1, WaitAssumption DEF Tick, Timely
<1>5. ASSUME NEW ws \in SUBSET Workers, Abandon(ws)
      PROVE  call'[v].now <= clock' /\ clock' - call'[v].now <= MaxWait
  BY <1>5 DEF Abandon, Timely
<1>6. CASE UNCHANGED vars
  BY <1>6 DEF vars, Timely
<1> QED
  BY <1>1, <1>2, <1>3, <1>4, <1>5, <1>6 DEF Next, ReleaseBlind, vars

\* No step reuses an id: rows are appended with the next one, and a refresh
\* keeps the row's.
LEMMA NextUniqueIds == TypeOK /\ UniqueIds /\ [Next]_vars => UniqueIds'
<1> SUFFICES ASSUME TypeOK, UniqueIds, [Next]_vars PROVE UniqueIds'
  OBVIOUS
<1>0. minted \in Nat /\ \A e \in entries : e.thread_id \in Nat
  BY DEF TypeOK, Row
<1>1. ASSUME NEW w \in Workers, Merge(w) PROVE UniqueIds'
  <2>1. PICK e \in entries :
            /\ entries' = (entries \ {e}) \cup {Refreshed(e, call[w])}
            /\ Refreshed(e, call[w]).thread_id = e.thread_id
    BY <1>1, MergeStep
  <2>2. minted' = minted
    BY <1>1 DEF Merge
  <2> QED
    BY <2>1, <2>2 DEF UniqueIds
<1>2. ASSUME NEW w \in Workers, Mint(w) PROVE UniqueIds'
  <2>1. PICK m \in LeaseMinutes : entries' = entries \cup {NewLease(call[w], m)}
    BY <1>2 DEF Mint
  <2>2. NewLease(call[w], m).thread_id = minted + 1 /\ minted' = minted + 1
    BY <1>2 DEF Mint, NewLease
  <2> QED
    BY <1>0, <2>1, <2>2 DEF UniqueIds
<1>3. ASSUME NEW w \in Workers, MintBlind(w) PROVE UniqueIds'
  <2>1. PICK m \in LeaseMinutes : entries' = {NewLease(call[w], m)}
    BY <1>3 DEF MintBlind
  <2>2. NewLease(call[w], m).thread_id = minted + 1 /\ minted' = minted + 1
    BY <1>3 DEF MintBlind, NewLease
  <2> QED
    BY <1>0, <2>1, <2>2 DEF UniqueIds
<1>4. ASSUME entries' \subseteq entries, minted' = minted PROVE UniqueIds'
  BY <1>4 DEF UniqueIds
<1>5. ASSUME NEW w \in Workers, Exempt(w) \/ Refuse(w)
      PROVE  UniqueIds'
  BY <1>4, <1>5 DEF Exempt, Refuse
<1> QED
  BY <1>1, <1>2, <1>3, <1>4, <1>5
     DEF Next, Decide, Begin, Abandon, ReleasePair, ReleaseBlind, Tick, vars

LEMMA NextIInv == IInv /\ [Next]_vars => IInv'
BY NextTypeOK, NextTimely, NextUniqueIds DEF IInv

LEMMA Inductive == Spec => []IInv
BY InitIInv, NextIInv, PTL DEF Spec

-----------------------------------------------------------------------------
(* One claimant per seat *)

\* The steps that only take rows away, or only let time pass, cannot add a
\* claimant.
LEMMA FewerRows ==
    ASSUME TypeOK, OneClaimPerPeer, entries' \subseteq entries,
           clock' \in Nat, clock <= clock'
    PROVE  OneClaimPerPeer'
<1>1. LiveRows' \subseteq LiveRows
  BY DEF LiveRows, Live, TypeOK, Row
<1> QED
  BY <1>1 DEF OneClaimPerPeer

\* What is live now was live when a pending call sampled the clock.
LEMMA LiveThen ==
    ASSUME IInv, NEW w \in Workers, Claims(call[w]), NEW e \in LiveRows
    PROVE  e \in entries /\ Live(e, call[w].now)
<1>1. call[w].now \in Nat /\ call[w].now <= clock
  BY ClaimIsCall DEF IInv, Timely, Claims
<1>2. e \in entries /\ e.lease_until > clock /\ e.lease_until \in Nat
  BY DEF LiveRows, Live, IInv, TypeOK, Row
<1> QED
  BY <1>1, <1>2 DEF Live, IInv, TypeOK

\* A row minted however late names a seat nobody holds and a pair with no
\* live thread.
LEMMA MintKeepsOneClaim ==
    ASSUME IInv, OneClaimPerPeer, NEW w \in Workers, Mint(w)
    PROVE  OneClaimPerPeer'
<1> DEFINE c == call[w]
<1>1. PICK m \in LeaseMinutes : entries' = entries \cup {NewLease(c, m)}
  BY DEF Mint
<1> DEFINE new == NewLease(c, m)
<1>2. new.opened_by = c.sender /\ new.peer = c.peer
  BY DEF NewLease
<1>3. ASSUME NEW e \in LiveRows
      PROVE  e.peer # new.peer /\ Parties(e) # Parties(new)
  <2>1. e \in entries /\ Live(e, c.now)
    BY LiveThen DEF Mint
  <2>2. ~IsPair(e, c.sender, c.peer)
    BY <2>1 DEF Mint, PairRows
  <2>3. ~(e.peer = c.peer /\ e.opened_by # c.sender)
    BY <2>1 DEF Mint, BusyRows
  <2> QED
    BY <1>2, <2>2, <2>3 DEF IsPair, Parties
<1>4. LiveRows' \subseteq LiveRows \cup {new}
  BY <1>1 DEF LiveRows, Mint
<1> QED
  BY <1>3, <1>4 DEF OneClaimPerPeer

\* A merge with a row that is still live moves its expiry only.
LEMMA MergeKeepsOneClaim ==
    ASSUME IInv, OneClaimPerPeer, NEW w \in Workers, Merge(w), ~LateRefresh
    PROVE  OneClaimPerPeer'
<1> DEFINE c == call[w]
<1>1. TypeOK
  BY DEF IInv
<1>2. PICK e \in entries :
          /\ entries' = (entries \ {e}) \cup {Refreshed(e, c)}
          /\ Refreshed(e, c).thread_id = e.thread_id
          /\ Refreshed(e, c).peer = e.peer
          /\ Refreshed(e, c).opened_by = e.opened_by
  BY <1>1, MergeStep
<1>3. clock' = clock
  BY DEF Merge
<1>4. LiveRows' \subseteq (LiveRows \ {e}) \cup {Refreshed(e, c)}
  BY <1>2, <1>3 DEF LiveRows
<1>5. Refreshed(e, c) \in LiveRows' => e \in LiveRows
  BY <1>2 DEF LateRefresh
<1>6. Parties(Refreshed(e, c)) = Parties(e)
  BY <1>2 DEF Parties
<1> QED
  BY <1>2, <1>4, <1>5, <1>6 DEF OneClaimPerPeer

\* No step adds a claimant, but for a late refresh.
LEMMA NextOneClaim ==
    IInv /\ OneClaimPerPeer /\ ~LateRefresh /\ [Next]_vars => OneClaimPerPeer'
<1> SUFFICES ASSUME IInv, OneClaimPerPeer, ~LateRefresh, [Next]_vars
             PROVE  OneClaimPerPeer'
  OBVIOUS
<1>1. TypeOK /\ clock \in Nat
  BY DEF IInv, TypeOK
<1>2. ASSUME NEW w \in Workers, MintBlind(w) PROVE OneClaimPerPeer'
  BY <1>2 DEF MintBlind, OneClaimPerPeer, LiveRows
<1>3. ASSUME NEW w \in Workers, Exempt(w) \/ Refuse(w)
      PROVE  OneClaimPerPeer'
  BY <1>1, <1>3, FewerRows DEF Exempt, Refuse
<1>4. ASSUME NEW w \in Workers, NEW q \in Requests, Begin(w, q)
      PROVE  OneClaimPerPeer'
  BY <1>1, <1>4, FewerRows DEF Begin
<1>5. ASSUME NEW q \in Requests, ReleasePair(q.sender, q.peer)
      PROVE  OneClaimPerPeer'
  BY <1>1, <1>5, FewerRows DEF ReleasePair
<1>6. CASE Tick
  BY <1>1, <1>6, FewerRows DEF Tick
<1>7. CASE UNCHANGED vars
  BY <1>1, <1>7, FewerRows DEF vars
<1>8. ASSUME NEW ws \in SUBSET Workers, Abandon(ws) PROVE OneClaimPerPeer'
  BY <1>1, <1>8, FewerRows DEF Abandon
<1> QED
  BY <1>2, <1>3, <1>4, <1>5, <1>6, <1>7, <1>8, MintKeepsOneClaim, MergeKeepsOneClaim
     DEF Next, Decide, ReleaseBlind

\* However long calls wait for the lock, only a merge with an expired row can
\* put a second claimant on a seat.
THEOREM LateRefreshIsTheOnlyHole == Spec => OnlyLateRefreshBreaks
<1>1. IInv /\ [Next]_vars => (OneClaimPerPeer /\ ~LateRefresh => OneClaimPerPeer')
  BY NextOneClaim
<1> QED
  BY <1>1, Inductive, PTL DEF Spec, OnlyLateRefreshBreaks

\* With no time between sampling and deciding, a step refreshes live rows only.
LEMMA PromptRefresh ==
    ASSUME MaxWait = 0, IInv, [Next]_vars
    PROVE  ~LateRefresh
<1>1. ASSUME NEW w \in Workers, Merge(w) PROVE ~LateRefresh
  <2>1. PICK e \in entries :
            /\ Live(e, call[w].now)
            /\ entries' = (entries \ {e}) \cup {Refreshed(e, call[w])}
            /\ Refreshed(e, call[w]).thread_id = e.thread_id
    BY <1>1, MergeStep DEF IInv
  <2>2. call[w].now = clock
    BY <1>1, ClaimIsCall DEF IInv, Timely, TypeOK, Merge, Claims
  <2>3. e \in LiveRows
    BY <2>1, <2>2 DEF LiveRows
  <2>4. clock' = clock
    BY <1>1 DEF Merge
  <2>5. SUFFICES ASSUME NEW f \in entries \ LiveRows, NEW g \in LiveRows',
                        f.thread_id = g.thread_id
                 PROVE  FALSE
    BY DEF LateRefresh
  <2>6. CASE g = Refreshed(e, call[w])
    BY <2>1, <2>3, <2>5, <2>6 DEF IInv, UniqueIds
  <2>7. CASE g # Refreshed(e, call[w])
    BY <2>1, <2>4, <2>5, <2>7 DEF LiveRows, IInv, UniqueIds
  <2> QED
    BY <2>6, <2>7
<1>2. ASSUME NEW w \in Workers, NEW m \in LeaseMinutes,
             Mint(w) \/ MintBlind(w),
             entries' \subseteq entries \cup {NewLease(call[w], m)}
      PROVE  ~LateRefresh
  <2>1. NewLease(call[w], m).thread_id = minted + 1
    BY DEF NewLease
  <2>2. \A f \in entries : f.thread_id # minted + 1
    BY DEF IInv, UniqueIds, TypeOK, Row
  <2>3. clock' = clock
    BY <1>2 DEF Mint, MintBlind
  <2> QED
    BY <1>2, <2>1, <2>2, <2>3 DEF LateRefresh, LiveRows, IInv, UniqueIds
<1>3. ASSUME entries' \subseteq entries, clock' \in Nat, clock <= clock'
      PROVE  ~LateRefresh
  BY <1>3 DEF LateRefresh, LiveRows, Live, IInv, UniqueIds, TypeOK, Row
<1>4. clock \in Nat
  BY DEF IInv, TypeOK
<1>5. ASSUME NEW w \in Workers, Decide(w) PROVE ~LateRefresh
  <2>1. CASE Mint(w) \/ MintBlind(w)
    BY <1>2, <2>1 DEF Mint, MintBlind
  <2>2. CASE Exempt(w) \/ Refuse(w)
    BY <1>3, <1>4, <2>2 DEF Exempt, Refuse
  <2> QED
    BY <1>1, <1>5, <2>1, <2>2 DEF Decide
<1>6. CASE Tick
  BY <1>3, <1>4, <1>6 DEF Tick
<1> QED
  BY <1>3, <1>4, <1>5, <1>6 DEF Next, Begin, Abandon, ReleasePair, ReleaseBlind, vars

\* A registry whose callers decide with the current time keeps one claimant on
\* every seat and one live thread in every pair.
THEOREM OneClaimant ==
    ASSUME MaxWait = 0
    PROVE  Spec => []OneClaimPerPeer
<1>1. Init => OneClaimPerPeer
  BY DEF Init, OneClaimPerPeer, LiveRows
<1>2. IInv /\ OneClaimPerPeer /\ [Next]_vars => OneClaimPerPeer'
  BY NextOneClaim, PromptRefresh
<1> QED
  BY <1>1, <1>2, Inductive, PTL DEF Spec

-----------------------------------------------------------------------------
(* Refreshing *)

\* No step lets a row outlive its minutes: whatever is written is counted from
\* a time that is not ahead of the clock.
LEMMA NextSilence == IInv /\ SilenceFreesSeat /\ [Next]_vars => SilenceFreesSeat'
<1> SUFFICES ASSUME IInv, SilenceFreesSeat, [Next]_vars PROVE SilenceFreesSeat'
  OBVIOUS
<1>0. /\ clock \in Nat
      /\ \A e \in entries : e.lease_until \in Nat /\ e.lease_minutes \in Nat
  BY LeaseAssumption DEF IInv, TypeOK, Row
<1>1. ASSUME NEW w \in Workers, Merge(w) PROVE SilenceFreesSeat'
  <2>1. PICK e \in entries :
            /\ entries' = (entries \ {e}) \cup {Refreshed(e, call[w])}
            /\ Refreshed(e, call[w]).lease_minutes = e.lease_minutes
            /\ Refreshed(e, call[w]).lease_until = call[w].now + e.lease_minutes
    BY <1>1, MergeStep DEF IInv
  <2>2. call[w].now \in Nat /\ call[w].now <= clock /\ clock' = clock
    BY <1>1, ClaimIsCall DEF IInv, Timely, Merge, Claims
  <2> QED
    BY <1>0, <2>1, <2>2 DEF SilenceFreesSeat
<1>2. ASSUME NEW w \in Workers, Mint(w) \/ MintBlind(w) PROVE SilenceFreesSeat'
  <2>1. PICK m \in LeaseMinutes : entries' \subseteq entries \cup {NewLease(call[w], m)}
    BY <1>2 DEF Mint, MintBlind
  <2>2. call[w].now \in Nat /\ call[w].now <= clock /\ clock' = clock
    BY <1>2, ClaimIsCall DEF IInv, Timely, Mint, MintBlind, Claims
  <2>3. m \in Nat
    BY LeaseAssumption
  <2>4. /\ NewLease(call[w], m).lease_until = call[w].now + m
        /\ NewLease(call[w], m).lease_minutes = m
    BY DEF NewLease
  <2> QED
    BY <2>1, <2>2, <2>3, <2>4, <1>0 DEF SilenceFreesSeat
<1>3. ASSUME entries' \subseteq entries, clock' \in Nat, clock <= clock'
      PROVE  SilenceFreesSeat'
  BY <1>0, <1>3 DEF SilenceFreesSeat
<1>4. ASSUME NEW w \in Workers, Exempt(w) \/ Refuse(w)
      PROVE  SilenceFreesSeat'
  BY <1>0, <1>3, <1>4 DEF Exempt, Refuse
<1>5. CASE Tick
  BY <1>0, <1>3, <1>5 DEF Tick
<1> QED
  BY <1>0, <1>1, <1>2, <1>3, <1>4, <1>5 DEF Next, Decide, Begin, Abandon, ReleasePair,
     ReleaseBlind, vars

\* Whatever the wait for the lock, no row outlives its own minutes counted from
\* now: a seat comes free that long after its holder falls silent.
THEOREM SeatsComeFree == Spec => []SilenceFreesSeat
<1>1. Init => SilenceFreesSeat
  BY DEF Init, SilenceFreesSeat
<1> QED
  BY <1>1, Inductive, NextSilence, PTL DEF Spec

\* Whatever the wait for the lock, a refresh brings an expiry forward by no more
\* than that wait; with the current time it only ever moves it later.
THEOREM RefreshExtends == Spec => RefreshOnlyExtends
<1> DEFINE Extends == \A e \in entries, f \in entries' :
                         e.thread_id = f.thread_id => f.lease_until + MaxWait >= e.lease_until
<1>1. IInv /\ SilenceFreesSeat /\ [Next]_vars => Extends
  <2> SUFFICES ASSUME IInv, SilenceFreesSeat, [Next]_vars PROVE Extends
    OBVIOUS
  <2>0. /\ minted \in Nat
        /\ \A e \in entries :
              /\ e.lease_until \in Nat /\ e.lease_minutes \in Nat
              /\ e.thread_id \in Nat /\ e.thread_id <= minted
        /\ \A e, f \in entries : e.thread_id = f.thread_id => e = f
    BY LeaseAssumption DEF IInv, TypeOK, UniqueIds, Row
  <2>1. ASSUME NEW w \in Workers, Merge(w) PROVE Extends
    <3>1. PICK e \in entries :
              /\ entries' = (entries \ {e}) \cup {Refreshed(e, call[w])}
              /\ Refreshed(e, call[w]).thread_id = e.thread_id
              /\ Refreshed(e, call[w]).lease_until = call[w].now + e.lease_minutes
      BY <2>1, MergeStep DEF IInv
    <3>2. call[w].now \in Nat /\ clock - call[w].now <= MaxWait
      BY <2>1, ClaimIsCall DEF IInv, Timely, Merge, Claims
    <3>3. clock \in Nat
      BY DEF IInv, TypeOK
    <3>4. Refreshed(e, call[w]).lease_until + MaxWait >= e.lease_until
      BY <2>0, <3>1, <3>2, <3>3, WaitAssumption DEF SilenceFreesSeat
    <3> QED
      BY <2>0, <3>1, <3>4, WaitAssumption
  <2>2. ASSUME NEW w \in Workers, Mint(w) \/ MintBlind(w) PROVE Extends
    <3>1. PICK m \in LeaseMinutes : entries' \subseteq entries \cup {NewLease(call[w], m)}
      BY <2>2 DEF Mint, MintBlind
    <3>2. NewLease(call[w], m).thread_id = minted + 1
      BY DEF NewLease
    <3> QED
      BY <2>0, <3>1, <3>2, WaitAssumption
  <2>3. ASSUME entries' \subseteq entries PROVE Extends
    BY <2>0, <2>3, WaitAssumption
  <2> QED
    BY <2>1, <2>2, <2>3
       DEF Next, Decide, Begin, Abandon, Exempt, Refuse, ReleasePair, ReleaseBlind, Tick, vars
<1> QED
  BY <1>1, Inductive, SeatsComeFree, PTL DEF Spec, RefreshOnlyExtends

-----------------------------------------------------------------------------
(* The board of seats *)

\* In a set with one row per peer, the opener of p is that row's.
OneEach(S) == \A e, f \in S : e.peer = f.peer => e = f

LEMMA OpenerIs ==
    ASSUME NEW S, OneEach(S), NEW e \in S
    PROVE  Opener(S, e.peer) = e.opened_by
BY DEF OneEach, Opener

\* Rows that stand for rows of the board before only free seats.
LEMMA Vacated ==
    ASSUME OneEach(LiveRows), OneEach(LiveRows'),
           \A f \in LiveRows' : \E e \in LiveRows :
               e.peer = f.peer /\ e.opened_by = f.opened_by
    PROVE  \E S \in SUBSET Agents : Board!Vacate(S)
<1> DEFINE Freed == {p \in Agents : \A f \in LiveRows' : f.peer # p}
<1>1. ASSUME NEW p \in Agents
      PROVE  Opener(LiveRows', p) =
                 IF p \in Freed THEN Nobody ELSE Opener(LiveRows, p)
  <2>1. CASE p \in Freed
    BY <2>1 DEF Opener
  <2>2. CASE p \notin Freed
    <3>1. PICK f \in LiveRows' : f.peer = p
      BY <2>2
    <3>2. PICK e \in LiveRows : e.peer = p /\ e.opened_by = f.opened_by
      BY <3>1
    <3> QED
      BY <2>2, <3>1, <3>2, OpenerIs
  <2> QED
    BY <2>1, <2>2
<1> QED
  BY <1>1 DEF Board!Vacate

\* A row that takes a free seat is a claim.
LEMMA Claimed ==
    ASSUME OneEach(LiveRows), OneEach(LiveRows'),
           NEW new \in LiveRows', new.peer \in Agents,
           \A e \in LiveRows : e.peer # new.peer,
           LiveRows' = LiveRows \cup {new}
    PROVE  Board!Claim(new.peer, new.opened_by)
<1>1. Opener(LiveRows, new.peer) = Nobody
  BY DEF Opener
<1>2. Opener(LiveRows', new.peer) = new.opened_by
  BY OpenerIs
<1>3. ASSUME NEW p \in Agents, p # new.peer
      PROVE  Opener(LiveRows', p) = Opener(LiveRows, p)
  <2>1. CASE \E e \in LiveRows : e.peer = p
    BY <2>1, OpenerIs
  <2>2. CASE ~ \E e \in LiveRows : e.peer = p
    BY <1>3, <2>2 DEF Opener
  <2> QED
    BY <2>1, <2>2
<1> QED
  BY <1>1, <1>2, <1>3 DEF Board!Claim

\* One claimant per seat makes the holder well defined.
LEMMA OneClaimIsOneEach == OneClaimPerPeer => OneEach(LiveRows)
BY DEF OneClaimPerPeer, OneEach

\* Every step of the registry is a claim of a free seat or a release.
LEMMA BoardStep ==
    ASSUME MaxWait = 0, ~ReadFaults, IInv, OneClaimPerPeer, OneClaimPerPeer',
           [Next]_vars
    PROVE  Board!Next
<1> DEFINE Rep == \A f \in LiveRows' : \E e \in LiveRows :
                     e.peer = f.peer /\ e.opened_by = f.opened_by
<1>0. OneEach(LiveRows) /\ OneEach(LiveRows')
  BY OneClaimIsOneEach DEF OneClaimPerPeer, OneEach
<1>1. ASSUME Rep PROVE Board!Next
  BY <1>0, <1>1, Vacated DEF Board!Next
<1>2. ASSUME entries' \subseteq entries, clock' \in Nat, clock <= clock'
      PROVE  Board!Next
  <2>1. LiveRows' \subseteq LiveRows
    BY <1>2 DEF LiveRows, Live, IInv, TypeOK, Row
  <2> QED
    BY <1>1, <2>1
<1>3. ASSUME NEW w \in Workers, Merge(w) PROVE Board!Next
  <2>1. PICK e \in entries :
            /\ Live(e, call[w].now)
            /\ entries' = (entries \ {e}) \cup {Refreshed(e, call[w])}
            /\ Refreshed(e, call[w]).peer = e.peer
            /\ Refreshed(e, call[w]).opened_by = e.opened_by
    BY <1>3, MergeStep DEF IInv
  <2>2. call[w].now = clock /\ clock' = clock
    BY <1>3, ClaimIsCall DEF IInv, Timely, TypeOK, Merge, Claims
  <2>3. e \in LiveRows
    BY <2>1, <2>2 DEF LiveRows
  <2>4. LiveRows' \subseteq LiveRows \cup {Refreshed(e, call[w])}
    BY <2>1, <2>2 DEF LiveRows
  <2>5. Rep
    BY <2>1, <2>3, <2>4
  <2> QED
    BY <1>1, <2>5
<1>4. ASSUME NEW w \in Workers, Mint(w) PROVE Board!Next
  <2>1. PICK m \in LeaseMinutes : entries' = entries \cup {NewLease(call[w], m)}
    BY <1>4 DEF Mint
  <2> DEFINE new == NewLease(call[w], m)
  <2>2. clock' = clock
    BY <1>4 DEF Mint
  <2>3. CASE new \notin LiveRows'
    <3>1. LiveRows' \subseteq LiveRows
      BY <2>1, <2>2, <2>3 DEF LiveRows
    <3> QED
      BY <1>1, <3>1
  <2>4. CASE new \in LiveRows'
    <3>1. LiveRows' = LiveRows \cup {new}
      BY <2>1, <2>2, <2>4 DEF LiveRows
    <3>2. new \in Row
      BY <1>4, NewLeaseType DEF Mint, IInv
    <3>3. ASSUME NEW e \in LiveRows PROVE e.peer # new.peer
      <4>1. new.thread_id = minted + 1
        BY DEF NewLease
      <4>2. e \in entries /\ e.thread_id \in Nat /\ minted \in Nat
        BY DEF LiveRows, IInv, TypeOK, Row
      <4>3. e # new
        BY <4>1, <4>2 DEF IInv, UniqueIds
      <4> QED
        BY <1>0, <2>4, <3>1, <4>3 DEF OneEach
    <3>4. Board!Claim(new.peer, new.opened_by)
      BY <1>0, <2>4, <3>1, <3>2, <3>3, Claimed DEF Row
    <3> QED
      BY <3>2, <3>4 DEF Board!Next, Row
  <2> QED
    BY <2>3, <2>4
<1>5. ASSUME NEW w \in Workers, Exempt(w) \/ Refuse(w)
      PROVE  Board!Next
  BY <1>2, <1>5 DEF Exempt, Refuse, IInv, TypeOK
<1>6. clock \in Nat
  BY DEF IInv, TypeOK
<1>7. CASE Tick
  BY <1>2, <1>6, <1>7 DEF Tick
<1> QED
  BY <1>2, <1>3, <1>4, <1>5, <1>6, <1>7
     DEF Next, Decide, MintBlind, Begin, Abandon, ReleasePair, ReleaseBlind, vars

\* The registry implements the board: a seat changes hands only through being
\* free.
THEOREM RegistryImplementsBoard ==
    ASSUME MaxWait = 0, ~ReadFaults
    PROVE  Spec => ImplementsBoard
<1>1. Init => Board!Init
  BY DEF Init, LiveRows, Opener, Board!Init
<1>2. IInv /\ OneClaimPerPeer /\ OneClaimPerPeer' /\ [Next]_vars => Board!Next
  BY BoardStep
<1>3. Spec => []OneClaimPerPeer
  BY OneClaimant
<1> QED
  BY <1>1, <1>2, <1>3, Inductive, PTL DEF Spec, ImplementsBoard, Board!Spec
=============================================================================
