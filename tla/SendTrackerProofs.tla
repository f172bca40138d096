------------------------- MODULE SendTrackerProofs -------------------------
(***************************************************************************)
(* The send budget for every cap and every number of turns.  The argument  *)
(* for the cap: a turn other than the one being counted that has been      *)
(* granted a call is over, so no later call can be counted against it.     *)
(***************************************************************************)
EXTENDS SendTracker, TLAPS

Pending == asked # NoCall

-----------------------------------------------------------------------------
\* Every step keeps the types.
LEMMA NextTypeOK == TypeOK /\ [Next]_vars => TypeOK'
<1> SUFFICES ASSUME TypeOK, [Next]_vars PROVE TypeOK'
  OBVIOUS
<1> USE BudgetAssumption DEF TypeOK, Turns
<1>1. CASE StartTurn
  BY <1>1 DEF StartTurn, trackerVars
<1>2. CASE EndTurn
  BY <1>2 DEF EndTurn, trackerVars
<1>3. CASE Ask
  <2>1. Current \in 0 .. MaxTurns
    BY DEF Current
  <2>2. asked' \in [in : 0 .. MaxTurns, seen : 0 .. MaxTurns]
    BY <1>3, <2>1 DEF Ask
  <2>3. disturbed' \subseteq Turns
    <3>1. CASE UNCHANGED disturbed
      BY <3>1
    <3>2. CASE Disturb
      BY <2>1, <3>2 DEF Disturb
    <3> QED
      BY <1>3, <3>1, <3>2 DEF Ask
  <2> QED
    BY <1>3, <2>2, <2>3 DEF Ask
<1>4. CASE AllowUncounted
  BY <1>4 DEF AllowUncounted, Grant, NoCall
<1>5. ASSUME Counted
      PROVE  asked \in [in : 0 .. MaxTurns, seen : 1 .. MaxTurns]
             /\ asked' = NoCall /\ count' \in Nat /\ turnStart' \in 0 .. MaxTurns
  BY <1>5 DEF Counted, Number, NoCall
<1>6. CASE Allow
  <2>1. granted' \in [0 .. MaxTurns -> Nat]
    BY <1>5, <1>6 DEF Allow, Counted, Grant
  <2>2. toldLast' \subseteq Turns
    BY <1>5, <1>6 DEF Allow, Counted
  <2> QED
    BY <1>5, <1>6, <2>1, <2>2 DEF Allow, Counted
<1>7. CASE Block
  BY <1>5, <1>7 DEF Block, Counted
<1>8. CASE RestartServer
  BY <1>8 DEF RestartServer, Disturb, Current
<1>9. CASE UNCHANGED vars
  BY <1>9 DEF vars, trackerVars
<1> QED
  BY <1>1, <1>2, <1>3, <1>4, <1>6, <1>7, <1>8, <1>9 DEF Next

LEMMA InitTypeOK == Init => TypeOK
<1> SUFFICES ASSUME Init PROVE TypeOK
  OBVIOUS
<1>1. /\ turn \in 0 .. MaxTurns /\ turnStart \in 0 .. MaxTurns /\ count \in Nat
      /\ granted \in [0 .. MaxTurns -> Nat]
  BY BudgetAssumption DEF Init
<1>2. /\ refused \subseteq Turns
      /\ toldLast \subseteq Turns /\ disturbed \subseteq Turns
  BY DEF Init
<1>3. running \in BOOLEAN /\ asked = NoCall
  BY DEF Init
<1> QED
  BY <1>1, <1>2, <1>3 DEF TypeOK

\* TypeOK is an invariant: the tracker's count is a number of calls of the turn
\* it names, whatever fails.
THEOREM TypeCorrect == Spec => []TypeOK
<1>1. Init => TypeOK
  BY InitTypeOK
<1> QED
  BY <1>1, NextTypeOK, PTL DEF Spec

-----------------------------------------------------------------------------
(* A block is earned, whatever fails *)

\* The turn being counted was granted what was counted, up to the cap; a call
\* that saw a turn is made in it.
Earned ==
    /\ BlockIsEarned
    /\ turnStart > 0 => \/ granted[turnStart] >= count
                        \/ granted[turnStart] >= MaxSends
    /\ Pending /\ asked.seen > 0 => asked.in = asked.seen

\* No step counts a call that was not granted, below the cap.
LEMMA NextEarned == TypeOK /\ Earned /\ [Next]_vars => Earned'
<1> SUFFICES ASSUME TypeOK, Earned, [Next]_vars PROVE Earned'
  OBVIOUS
<1> USE BudgetAssumption DEF TypeOK, Turns, Earned, BlockIsEarned, Pending
<1>1. CASE StartTurn
  BY <1>1 DEF StartTurn, trackerVars
<1>2. CASE EndTurn
  BY <1>2 DEF EndTurn, trackerVars
<1>3. CASE Ask
  BY <1>3 DEF Ask, Current
<1>4. CASE AllowUncounted
  BY <1>4 DEF AllowUncounted, Grant, NoCall
<1>5. CASE Allow
  BY <1>5 DEF Allow, Counted, Grant, Number, NoCall
<1>6. CASE Block
  BY <1>6 DEF Block, Counted, OverCap, Number, NoCall
<1>7. CASE RestartServer
  BY <1>7 DEF RestartServer
<1>8. CASE UNCHANGED vars
  BY <1>8 DEF vars, trackerVars
<1> QED
  BY <1>1, <1>2, <1>3, <1>4, <1>5, <1>6, <1>7, <1>8 DEF Next

\* Whether or not the harness answers and the server restarts, a call is only
\* blocked in a turn that had its full budget.
THEOREM BlocksAreEarned == Spec => []BlockIsEarned
<1>1. Init => TypeOK /\ Earned
  BY InitTypeOK DEF Init, Earned, BlockIsEarned, Pending
<1>2. Earned => BlockIsEarned
  BY DEF Earned
<1> QED
  BY <1>1, <1>2, NextTypeOK, NextEarned, PTL DEF Spec

-----------------------------------------------------------------------------
(* The cap, in the turns nothing disturbs *)

\* No pending call and no later one can be counted against t.
Over(t) ==
    /\ t <= turn
    /\ t < turn \/ ~running
    /\ Pending /\ asked.seen > 0 => t < asked.seen

Budgeted ==
    /\ running => turn > 0
    /\ turnStart <= turn
    /\ Pending => asked.seen <= turn
    /\ Pending /\ asked.seen > 0 => asked.in = asked.seen /\ turnStart <= asked.seen
    /\ Pending /\ asked.seen = 0 =>
          /\ asked.in = 0 \/ asked.in \in disturbed
          /\ turnStart < turn \/ ~running \/ turnStart \in disturbed
    /\ \A t \in Turns \ disturbed : granted[t] > 0 => t = turnStart \/ Over(t)
    /\ turnStart > 0 /\ turnStart \notin disturbed => granted[turnStart] <= count
    /\ HardLimit
    /\ \A t \in toldLast \ disturbed :
          /\ MaxSends > 0
          /\ (t = turnStart /\ count >= MaxSends) \/ Over(t)

\* No step grants a call that is not counted, in a turn left alone.
LEMMA NextBudgeted ==
    ASSUME TypeOK, Budgeted, [Next]_vars
    PROVE  Budgeted'
<1> USE BudgetAssumption DEF TypeOK, Turns, Budgeted, HardLimit, Over, Pending
<1>1. CASE StartTurn
  BY <1>1 DEF StartTurn, trackerVars
<1>2. CASE EndTurn
  BY <1>2 DEF EndTurn, trackerVars
<1>3. CASE Ask
  <2>1. /\ ~Pending
        /\ UNCHANGED <<turn, running, count, turnStart, granted, toldLast>>
    BY <1>3 DEF Ask
  <2>2. /\ Current = turn \/ (Current = 0 /\ ~running)
        /\ Current > 0 <=> running
    BY DEF Current
  <2>3. /\ asked'.in = Current
        /\ \/ asked'.seen = Current /\ disturbed' = disturbed
           \/ asked'.seen = 0 /\ disturbed' = disturbed \cup ({Current} \ {0})
    BY <1>3 DEF Ask, Disturb
  <2>4. \A t \in Turns : Over(t) => Over(t)'
    BY <2>1, <2>2, <2>3
  <2>5. \A t \in Turns \ disturbed' : granted'[t] > 0 => t = turnStart' \/ Over(t)'
    BY <2>1, <2>3, <2>4
  <2>6. \A t \in toldLast' \ disturbed' :
           /\ MaxSends > 0
           /\ (t = turnStart' /\ count' >= MaxSends) \/ Over(t)'
    BY <2>1, <2>3, <2>4
  <2>7. HardLimit' /\ turnStart' <= turn' /\ (running' => turn' > 0)
    BY <2>1, <2>3
  <2>8. /\ asked'.seen <= turn'
        /\ asked'.seen > 0 => asked'.in = asked'.seen /\ turnStart' <= asked'.seen
        /\ asked'.seen = 0 =>
              /\ asked'.in = 0 \/ asked'.in \in disturbed'
              /\ turnStart' < turn' \/ ~running' \/ turnStart' \in disturbed'
    BY <2>1, <2>2, <2>3
  <2>9. turnStart' > 0 /\ turnStart' \notin disturbed' => granted'[turnStart'] <= count'
    BY <2>1, <2>3
  <2> QED
    BY <2>5, <2>6, <2>7, <2>8, <2>9
<1>4. CASE AllowUncounted
  BY <1>4 DEF AllowUncounted, Grant, NoCall
<1>5. CASE Allow
  <2>1. /\ Pending /\ asked.seen \in Turns /\ asked.in = asked.seen
        /\ ~Pending' /\ turnStart' = asked.seen /\ count' = Number
        /\ turn' = turn /\ running' = running /\ disturbed' = disturbed
    BY <1>5 DEF Allow, Counted, NoCall
  <2>2. granted' = [granted EXCEPT ![asked.seen] = @ + 1]
    BY <1>5, <2>1 DEF Allow, Grant
  <2>3. asked.seen \notin disturbed => granted[asked.seen] + 1 <= Number
    BY <2>1 DEF Number
  <2>4. MaxSends > 0 => Number <= MaxSends
    BY <1>5 DEF Allow, OverCap, Number
  <2>5. HardLimit'
    BY <2>1, <2>2, <2>3, <2>4 DEF Number
  <2>6. \A t \in Turns \ disturbed' : granted'[t] > 0 => t = turnStart' \/ Over(t)'
    BY <2>1, <2>2
  <2>7. \A t \in toldLast' \ disturbed' :
           /\ MaxSends > 0
           /\ (t = turnStart' /\ count' >= MaxSends) \/ Over(t)'
    <3>1. CASE ~IsLast
      BY <1>5, <2>1, <3>1 DEF Allow, Number
    <3>2. CASE IsLast
      BY <1>5, <2>1, <3>2 DEF Allow, IsLast, Number
    <3> QED
      BY <3>1, <3>2
  <2> QED
    BY <2>1, <2>2, <2>3, <2>5, <2>6, <2>7
<1>6. CASE Block
  BY <1>6 DEF Block, Counted, OverCap, Number, NoCall
<1>7. CASE RestartServer
  <2>1. /\ ~Pending' /\ turnStart' = 0 /\ count' = 0
        /\ UNCHANGED <<turn, running, granted, toldLast>>
        /\ disturbed' = disturbed \cup ({Current} \ {0})
    BY <1>7 DEF RestartServer, Disturb
  <2>2. running => Current = turn /\ turn \in disturbed'
    BY <2>1 DEF Current
  <2> QED
    BY <2>1, <2>2
<1>8. CASE UNCHANGED vars
  BY <1>8 DEF vars, trackerVars
<1> QED
  BY <1>1, <1>2, <1>3, <1>4, <1>5, <1>6, <1>7, <1>8 DEF Next

LEMMA BudgetInv == Spec => [](TypeOK /\ Budgeted)
<1>1. Init => TypeOK /\ Budgeted
  <2> SUFFICES ASSUME Init PROVE Budgeted
    BY InitTypeOK
  <2>1. /\ turn = 0 /\ turnStart = 0 /\ ~Pending /\ ~running /\ toldLast = {}
        /\ \A t \in Turns : granted[t] = 0
    BY DEF Init, Pending, Turns
  <2> QED
    BY <2>1, BudgetAssumption DEF Budgeted, HardLimit, Over
<1>2. TypeOK /\ Budgeted /\ [Next]_vars => (TypeOK /\ Budgeted)'
  BY NextTypeOK, NextBudgeted
<1> QED
  BY <1>1, <1>2, PTL DEF Spec

\* In every undisturbed turn the cap holds, for every cap, however turns, calls
\* and the failures of other turns interleave.
THEOREM CapIsHard == Spec => []HardLimit
<1>1. Budgeted => HardLimit
  BY DEF Budgeted
<1> QED
  BY <1>1, BudgetInv, PTL

\* ... and the call that _nudge told it is the last of its turn is the last.
THEOREM LastIsLast == Spec => LastMeansLast
<1>1. TypeOK /\ Budgeted /\ [Next]_vars => \A t \in toldLast \ disturbed' : granted'[t] = granted[t]
  <2> SUFFICES ASSUME TypeOK, Budgeted, [Next]_vars, NEW t \in toldLast \ disturbed'
               PROVE  granted'[t] = granted[t]
    OBVIOUS
  <2> USE BudgetAssumption DEF TypeOK, Turns, Budgeted, Over, Pending
  <2>1. CASE Allow
    <3>1. Pending /\ asked.seen > 0 /\ asked.in = asked.seen /\ disturbed' = disturbed
      BY <2>1 DEF Allow, Counted, NoCall
    <3>3. granted' = [granted EXCEPT ![asked.seen] = @ + 1]
      BY <2>1, <3>1 DEF Allow, Grant
    <3>2. t # asked.seen
      BY <2>1, <3>1 DEF Allow, OverCap, Number
    <3> QED
      BY <3>2, <3>3
  <2>2. CASE AllowUncounted
    BY <2>2 DEF AllowUncounted, Grant, NoCall
  <2>3. t \in Turns \ disturbed'
    OBVIOUS
  <2> QED
    BY <2>1, <2>2 DEF Next, StartTurn, EndTurn, Ask, Block, RestartServer,
                      trackerVars, vars
<1> QED
  BY <1>1, BudgetInv, PTL DEF Spec, LastMeansLast
=============================================================================
