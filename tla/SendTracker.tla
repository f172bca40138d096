---------------------------- MODULE SendTracker ----------------------------
(***************************************************************************)
(* The send budget of src/diploid_mesh/mcp.py, MeshSendTracker.allowed.    *)
(* The MCP server reads one request at a time; before a mesh_send it asks  *)
(* the harness for the turn of its chat (_turn_status) and then counts the *)
(* call against the turn it was told of.  The turn belongs to the harness, *)
(* which starts and ends it while the server asks and counts.              *)
(*                                                                         *)
(* A turn is known by its start_time; here turns are numbered, 0 is "no    *)
(* running turn" and stands for Python's None in _turn_start.              *)
(***************************************************************************)
EXTENDS Integers

CONSTANTS
    MaxSends,       \* max_sends_per_turn, 0 = no cap
    Suggestion,     \* max_message_in_turn_suggestion
    Faults,         \* "unreachable": /turn may not answer; "restart": the server may
    MaxTurns,       \* bound on the turns
    MaxCalls        \* bound on the calls of a turn, and between two turns

ASSUME BudgetAssumption ==
    /\ MaxSends \in Nat /\ Suggestion \in Nat
    /\ MaxTurns \in Nat /\ MaxCalls \in Nat
    /\ Faults \subseteq {"unreachable", "restart"}

VARIABLES
    turn,       \* the harness: number of the last turn started
    running,    \* ... and whether it is under way
    asked,      \* the call being answered: the turn it is made in, the turn
                \* the harness was heard to name; or NoCall
    count,      \* _count
    turnStart,  \* _turn_start
    granted,    \* mesh_send calls allowed, by the turn they were made in
    refused,    \* turns in which a call was blocked
    toldLast,   \* turns in which a call was told it was the last
    disturbed   \* turns in which /turn did not answer or the server restarted

trackerVars == <<asked, count, turnStart, granted, refused, toldLast, disturbed>>
vars == <<turn, running, trackerVars>>

Turns == 1 .. MaxTurns
NoCall == [in |-> 0, seen |-> -1]

\* count and turnStart name a turn and a number of calls, never None or less
\* than nothing (MeshSendTracker, _count and _turn_start).
TypeOK ==
    /\ turn \in 0 .. MaxTurns
    /\ running \in BOOLEAN
    /\ asked \in [in : 0 .. MaxTurns, seen : 0 .. MaxTurns] \cup {NoCall}
    /\ count \in Nat
    /\ turnStart \in 0 .. MaxTurns
    /\ granted \in [0 .. MaxTurns -> Nat]
    /\ refused \subseteq Turns
    /\ toldLast \subseteq Turns
    /\ disturbed \subseteq Turns

Init ==
    /\ turn = 0
    /\ running = FALSE
    /\ asked = NoCall
    /\ count = 0
    /\ turnStart = 0
    /\ granted = [t \in 0 .. MaxTurns |-> 0]
    /\ refused = {}
    /\ toldLast = {}
    /\ disturbed = {}

-----------------------------------------------------------------------------
(* The harness *)

StartTurn ==
    /\ ~running
    /\ turn < MaxTurns
    /\ turn' = turn + 1
    /\ running' = TRUE
    /\ UNCHANGED trackerVars

EndTurn ==
    /\ running
    /\ running' = FALSE
    /\ UNCHANGED <<turn, trackerVars>>

-----------------------------------------------------------------------------
(* The tracker *)

Current == IF running THEN turn ELSE 0

Disturb == disturbed' = disturbed \cup ({Current} \ {0})

\* _turn_status: a harness that does not answer is heard as "no running turn".
Ask ==
    /\ asked = NoCall
    /\ granted[Current] < MaxCalls
    /\ turnStart = Current => count < MaxCalls
    /\ \/ asked' = [in |-> Current, seen |-> Current] /\ UNCHANGED disturbed
       \/ "unreachable" \in Faults /\ asked' = [in |-> Current, seen |-> 0] /\ Disturb
    /\ UNCHANGED <<turn, running, count, turnStart, granted, refused, toldLast>>

Grant == granted' = [granted EXCEPT ![asked.in] = @ + 1]

\* Outside a turn nothing is counted, and the count starts over.
AllowUncounted ==
    /\ asked.seen = 0
    /\ count' = 0
    /\ turnStart' = 0
    /\ Grant
    /\ asked' = NoCall
    /\ UNCHANGED <<turn, running, refused, toldLast, disturbed>>

\* Mutants of Number: a new turn does not start over; the count runs down.
NumberOverall == count + 1
NumberDown == IF asked.seen = turnStart THEN count - 1 ELSE 1

\* The call's number in the turn that was named.
Number == IF asked.seen = turnStart THEN count + 1 ELSE 1

\* Mutant of OverCap: one call too many.
OverCapByOne == MaxSends > 0 /\ Number > MaxSends + 1

OverCap == MaxSends > 0 /\ Number > MaxSends

\* Mutant of IsLast: told one call early.
IsLastButOne == MaxSends > 0 /\ Number >= Suggestion /\ Number + 1 = MaxSends

\* _nudge tells the call that uses up the cap that it was the last.
IsLast == MaxSends > 0 /\ Number >= Suggestion /\ Number = MaxSends

Counted ==
    /\ asked.seen > 0
    /\ count' = Number
    /\ turnStart' = asked.seen
    /\ asked' = NoCall
    /\ UNCHANGED <<turn, running, disturbed>>

Allow ==
    /\ Counted
    /\ ~OverCap
    /\ Grant
    /\ toldLast' = IF IsLast THEN toldLast \cup {asked.seen} ELSE toldLast
    /\ UNCHANGED refused

Block ==
    /\ Counted
    /\ OverCap
    /\ refused' = refused \cup {asked.seen}
    /\ UNCHANGED <<granted, toldLast>>

\* A new server process starts from zero.
RestartServer ==
    /\ "restart" \in Faults
    /\ asked' = NoCall
    /\ count' = 0
    /\ turnStart' = 0
    /\ Disturb
    /\ UNCHANGED <<turn, running, granted, refused, toldLast>>

Next ==
    \/ StartTurn
    \/ EndTurn
    \/ Ask \/ AllowUncounted \/ Allow \/ Block
    \/ RestartServer

Spec == Init /\ [][Next]_vars

-----------------------------------------------------------------------------
(* Properties *)

\* No more calls of one turn are allowed than max_sends_per_turn, however the
\* turns and the calls interleave (README, Per-turn send cap).  Excepted is the
\* turn in which the harness did not answer or the server restarted, and no
\* turn after it.
HardLimit == MaxSends > 0 => \A t \in Turns \ disturbed : granted[t] <= MaxSends

\* A call is blocked only in a turn whose budget was spent, whatever fails:
\* starting over between turns never carries a count across.
BlockIsEarned == \A t \in refused : granted[t] >= MaxSends

\* The call that is told it is the last of its turn is the last, unless the
\* turn is disturbed.
LastMeansLast ==
    [][\A t \in toldLast \ disturbed' : granted'[t] = granted[t]]_vars
=============================================================================
