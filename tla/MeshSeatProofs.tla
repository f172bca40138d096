--------------------------- MODULE MeshSeatProofs ---------------------------
(***************************************************************************)
(* What a seat guarantees for every set of agents, envelopes, POSTs, sends *)
(* and faults.  RegistryStep shows the registry part of every step to be a *)
(* step of the registry, so that what is proved of OpenThreads holds in a  *)
(* seat.  The rest are invariants of the handlers, each with what it needs *)
(* to know of a handler half-way.                                          *)
(***************************************************************************)
EXTENDS MeshSeat, OpenThreadsProofs

\* The assumptions on the workers and the envelopes, in the form the steps use.
LEMMA SeatFacts ==
    /\ Handlers \subseteq Workers /\ Senders \subseteq Workers
    /\ Handlers \cap Senders = {}
    /\ Inbox \subseteq Envelopes /\ Outbox \subseteq Envelopes
    /\ \A m \in Envelopes : Asks(m) \in Requests /\ m.id \in Ids
    /\ MaxRestarts \in Nat
BY SeatAssumption DEF Envelopes, Ids

LEMMA TaskOf ==
    ASSUME SeatTypeOK, NEW w \in Workers, task[w].pc # "idle"
    PROVE  task[w] \in Task /\ task[w].msg \in Envelopes /\ task[w].msg.id \in Ids
<1>1. task[w] \in Task \cup {Idle}
  BY DEF SeatTypeOK
<1>2. task[w] # Idle
  BY DEF Idle
<1> QED
  BY <1>1, <1>2, SeatFacts DEF Task

-----------------------------------------------------------------------------
(* The registry part of a step *)

\* A release by a handler or a sender is a release of the registry.
LEMMA ReleaseStep ==
    ASSUME SeatTypeOK, NEW w \in Workers, task[w].pc # "idle", Release(task[w].msg)
    PROVE  Next
<1> DEFINE q == Asks(task[w].msg)
<1>1. q \in Requests
  BY TaskOf, SeatFacts
<1>2. q.sender = task[w].msg.sender /\ q.peer = task[w].msg.recipient
  BY DEF Asks
<1> QED
  BY <1>1, <1>2 DEF Release, Next

\* A release that reads no file changes nothing.
LEMMA BlindStep == ReleaseBlind => UNCHANGED vars
BY DEF ReleaseBlind

LEMMA BeginStep ==
    ASSUME NEW w \in Workers, NEW m \in Envelopes, Begin(w, Asks(m))
    PROVE  Next
BY SeatFacts DEF Next

LEMMA AbandonStep ==
    ASSUME NEW ws \in SUBSET Workers, Abandon(ws)
    PROVE  Next
BY DEF Next

LEMMA ContestStep ==
    ASSUME NEW w \in Workers, NEW from, NEW to, Contest(w, from, to)
    PROVE  Next
<1>1. CASE Abandon({w})
  BY <1>1, AbandonStep
<1>2. CASE Merge(w) \/ Mint(w) \/ MintBlind(w) \/ Refuse(w)
  BY <1>2 DEF Next, Decide
<1> QED
  BY <1>1, <1>2 DEF Contest

LEMMA HandleStep ==
    ASSUME SeatTypeOK, NEW h \in Handlers, Handle(h)
    PROVE  [Next]_vars
<1>0. h \in Workers
  BY SeatFacts
<1>1. CASE CheckAnchor(h)
  <2>1. task[h].msg \in Envelopes
    BY <1>0, <1>1, TaskOf DEF CheckAnchor
  <2> QED
    BY <1>0, <1>1, <2>1, BeginStep DEF CheckAnchor
<1>2. CASE Gate(h)
  BY <1>0, <1>2, ContestStep DEF Gate
<1>3. CASE GateExempt(h)
  BY <1>0, <1>3 DEF GateExempt, Next, Decide
<1>4. CASE ReleaseMinted(h)
  BY <1>0, <1>4, ReleaseStep, BlindStep DEF ReleaseMinted
<1>5. CASE FreePair(h, "accepted")
  BY <1>0, <1>5, ReleaseStep, BlindStep DEF FreePair
<1>6. CASE MarkSeen(h) \/ RecordDsn(h) \/ EnqueueWake(h) \/ EnqueueFails(h)
           \/ DiscardMark(h) \/ RecordClose(h)
  BY <1>6 DEF MarkSeen, RecordDsn, EnqueueWake, EnqueueFails, DiscardMark, RecordClose
<1> QED
  BY <1>1, <1>2, <1>3, <1>4, <1>5, <1>6 DEF Handle

LEMMA TransmitStep ==
    ASSUME SeatTypeOK, NEW s \in Senders, Transmit(s)
    PROVE  [Next]_vars
<1>0. s \in Workers
  BY SeatFacts
<1>1. CASE Claim(s)
  BY <1>0, <1>1, ContestStep DEF Claim
<1>2. CASE GiveUp(s)
  BY <1>0, <1>2, ReleaseStep, BlindStep DEF GiveUp
<1>3. CASE FreePair(s, "delivered")
  BY <1>0, <1>3, ReleaseStep, BlindStep DEF FreePair
<1>4. CASE Delivered(s) \/ WireFails(s) \/ RecordClose(s)
  BY <1>4 DEF Delivered, WireFails, RecordClose
<1> QED
  BY <1>1, <1>2, <1>3, <1>4 DEF Transmit

\* Nothing the handlers and the senders do, a restart included, changes the
\* registry but by its operations.
LEMMA RegistryStep == SeatTypeOK /\ [SeatNext]_allVars => [Next]_vars
<1> SUFFICES ASSUME SeatTypeOK, [SeatNext]_allVars PROVE [Next]_vars
  OBVIOUS
<1>1. ASSUME NEW s \in Senders, NEW m \in Outbox, Send(s, m) PROVE [Next]_vars
  BY <1>1, SeatFacts, BeginStep DEF Send
<1>2. ASSUME NEW s \in Senders, SenderDies(s) PROVE [Next]_vars
  BY <1>2, SeatFacts, AbandonStep DEF SenderDies
<1>3. CASE Restart
  BY <1>3, AbandonStep DEF Restart
<1>4. ASSUME NEW h \in Handlers, NEW m \in Inbox, Receive(h, m) PROVE [Next]_vars
  BY <1>4 DEF Receive
<1>5. ASSUME NEW id \in Ids, Evict(id) PROVE [Next]_vars
  BY <1>5 DEF Evict
<1>6. CASE Tick
  BY <1>6 DEF Next
<1>7. CASE Quiet \/ UNCHANGED allVars
  BY <1>7 DEF Quiet, allVars, vars
<1> QED
  BY <1>1, <1>2, <1>3, <1>4, <1>5, <1>6, <1>7, HandleStep, TransmitStep DEF SeatNext

-----------------------------------------------------------------------------
(* Types *)

Places == {"anchor", "gate", "mark", "loop", "record", "release",
           "discard", "claim", "wire", "giveup", "close", "free", "done"}

Statuses == {"", "rejected", "duplicate", "closed", "busy", "error",
             "accepted", "not-found", "failed", "failed-unread", "delivered", "lost"}

Tasks == [Workers -> Task \cup {Idle}]

LEMMA GotoType ==
    ASSUME SeatTypeOK, NEW w \in Workers, task[w].pc # "idle",
           NEW pc \in Places, Goto(w, pc)
    PROVE  task' \in Tasks
<1>1. [task[w] EXCEPT !.pc = pc] \in Task
  BY TaskOf DEF Task, Places
<1>2. task' = [task EXCEPT ![w] = [task[w] EXCEPT !.pc = pc]]
  BY DEF Goto
<1> QED
  BY <1>1, <1>2 DEF SeatTypeOK, Tasks

LEMMA AnswerType ==
    ASSUME SeatTypeOK, NEW w \in Workers, task[w].pc # "idle",
           NEW status \in Statuses, Answer(w, status)
    PROVE  task' \in Tasks
<1>1. [task[w] EXCEPT !.pc = "done", !.status = status] \in Task
  BY TaskOf DEF Task, Statuses
<1>2. task' = [task EXCEPT ![w] = [task[w] EXCEPT !.pc = "done", !.status = status]]
  BY TaskOf DEF Answer, SeatTypeOK
<1> QED
  BY <1>1, <1>2 DEF SeatTypeOK, Tasks

LEMMA StartType ==
    ASSUME SeatTypeOK, NEW w \in Workers, NEW m \in Envelopes,
           NEW pc \in Places, NEW status \in Statuses, Start(w, m, pc, status)
    PROVE  task' \in Tasks
<1>1. [pc |-> pc, msg |-> m, thread |-> 0, created |-> FALSE, status |-> status] \in Task
  BY DEF Task, Places, Statuses
<1> QED
  BY <1>1 DEF Start, SeatTypeOK, Tasks

LEMMA GrantedType ==
    ASSUME SeatTypeOK, NEW w \in Workers, task[w].pc # "idle", NEW pc \in Places,
           NEW thread \in Nat, NEW created \in BOOLEAN, Granted(w, pc, thread, created)
    PROVE  task' \in Tasks
<1>1. [task[w] EXCEPT !.pc = pc, !.thread = thread, !.created = created] \in Task
  BY TaskOf DEF Task, Places
<1>2. task' = [task EXCEPT ![w] =
                  [task[w] EXCEPT !.pc = pc, !.thread = thread, !.created = created]]
  BY TaskOf DEF Granted, SeatTypeOK
<1> QED
  BY <1>1, <1>2 DEF SeatTypeOK, Tasks

\* The row a merge answers with is in the list.
LEMMA FirstThreadType ==
    ASSUME TypeOK, NEW w \in Workers, Merge(w)
    PROVE  FirstThread(PairRows(call[w])) \in Nat
<1> DEFINE S == PairRows(call[w])
<1>1. \E e \in S : IsFirst(e, S)
  BY DEF Merge, IsFirst
<1>2. (CHOOSE e \in S : IsFirst(e, S)) \in S
  BY <1>1
<1>3. S \subseteq Row
  BY DEF PairRows, TypeOK
<1> HIDE DEF S
<1>4. FirstThread(S) \in Nat
  BY <1>2, <1>3 DEF FirstThread, Row
<1> QED
  BY <1>4 DEF S

LEMMA ContestType ==
    ASSUME SeatTypeOK, NEW w \in Workers, NEW from \in Places, NEW to \in Places,
           Contest(w, from, to)
    PROVE  task' \in Tasks
<1>1. task[w].pc # "idle" /\ TypeOK /\ minted + 1 \in Nat
  BY DEF Contest, Places, SeatTypeOK, TypeOK
<1>2. CASE Merge(w) /\ Granted(w, to, FirstThread(PairRows(call[w])), FALSE)
  BY <1>1, <1>2, FirstThreadType, GrantedType
<1>3. CASE Granted(w, to, minted + 1, TRUE)
  BY <1>1, <1>3, GrantedType
<1>4. CASE Answer(w, "busy") \/ Answer(w, "error")
  BY <1>1, <1>4, AnswerType DEF Statuses
<1> QED
  BY <1>2, <1>3, <1>4 DEF Contest

LEMMA HandleTypes ==
    ASSUME SeatTypeOK, NEW h \in Handlers, Handle(h)
    PROVE  task' \in Tasks
<1>0. h \in Workers
  BY SeatFacts
<1>1. CASE CheckAnchor(h)
  BY <1>0, <1>1, GotoType, AnswerType DEF CheckAnchor, Places, Statuses
<1>2. CASE Gate(h)
  BY <1>0, <1>2, ContestType DEF Gate, Places
<1>3. CASE GateExempt(h) \/ MarkSeen(h)
  <2>1. task[h].pc # "idle" /\ \E pc \in Places : Goto(h, pc)
    BY <1>3 DEF GateExempt, MarkSeen, Places
  <2> QED
    BY <1>0, <2>1, GotoType
<1>4. CASE RecordDsn(h) \/ DiscardMark(h)
  BY <1>0, <1>4, AnswerType DEF RecordDsn, DiscardMark, Statuses
<1>5. CASE EnqueueWake(h)
  BY <1>0, <1>5, GotoType, AnswerType DEF EnqueueWake, Places, Statuses
<1>6. CASE EnqueueFails(h)
  <2>1. task[h].pc # "idle" /\ \E pc \in Places : Goto(h, pc)
    BY <1>6 DEF EnqueueFails, Places
  <2> QED
    BY <1>0, <2>1, GotoType
<1>7. CASE ReleaseMinted(h) \/ RecordClose(h)
  BY <1>0, <1>7, GotoType, AnswerType DEF ReleaseMinted, RecordClose, Places, Statuses
<1>8. CASE FreePair(h, "accepted")
  BY <1>0, <1>8, AnswerType DEF FreePair, Statuses
<1> QED
  BY <1>1, <1>2, <1>3, <1>4, <1>5, <1>6, <1>7, <1>8 DEF Handle

LEMMA TransmitTypes ==
    ASSUME SeatTypeOK, NEW s \in Senders, Transmit(s)
    PROVE  task' \in Tasks
<1>0. s \in Workers
  BY SeatFacts
<1>1. CASE Claim(s)
  BY <1>0, <1>1, ContestType DEF Claim, Places
<1>2. CASE Delivered(s) \/ RecordClose(s)
  BY <1>0, <1>2, GotoType, AnswerType DEF Delivered, RecordClose, Places, Statuses
<1>3. CASE WireFails(s) \/ GiveUp(s)
  BY <1>0, <1>3, GotoType, AnswerType DEF WireFails, GiveUp, Places, Statuses
<1>4. CASE FreePair(s, "delivered")
  BY <1>0, <1>4, AnswerType DEF FreePair, Statuses
<1> QED
  BY <1>1, <1>2, <1>3, <1>4 DEF Transmit

\* What a restart answers.
LEMMA RestartTypes ==
    ASSUME SeatTypeOK, Restart
    PROVE  task' \in Tasks
<1>1. ASSUME NEW w \in Workers
      PROVE  task'[w] \in Task \cup {Idle}
  <2>1. CASE InFlight(w)
    <3>1. task[w] \in Task
      BY <2>1 DEF InFlight, Idle, SeatTypeOK
    <3>2. task'[w] = [task[w] EXCEPT !.pc = "done", !.status = "lost"]
      BY <2>1 DEF Restart
    <3> QED
      BY <3>1, <3>2 DEF Task
  <2>2. CASE ~InFlight(w)
    BY <2>2 DEF Restart, SeatTypeOK
  <2> QED
    BY <2>1, <2>2
<1> QED
  BY <1>1 DEF Restart, Tasks

LEMMA NextTasks == SeatTypeOK /\ [SeatNext]_allVars => task' \in Tasks
<1> SUFFICES ASSUME SeatTypeOK, [SeatNext]_allVars PROVE task' \in Tasks
  OBVIOUS
<1>1. ASSUME NEW s \in Senders, NEW m \in Outbox, Send(s, m) PROVE task' \in Tasks
  BY <1>1, SeatFacts, StartType DEF Send, Places, Statuses
<1>2. ASSUME NEW s \in Senders, SenderDies(s) PROVE task' \in Tasks
  BY <1>2, SeatFacts, AnswerType DEF SenderDies, InFlight, Statuses
<1>3. ASSUME NEW h \in Handlers, NEW m \in Inbox, Receive(h, m) PROVE task' \in Tasks
  <2>1. Verdict(m) \in {"rejected", "duplicate", ""}
    BY DEF Verdict
  <2>2. \E pc \in Places, status \in Statuses : Start(h, m, pc, status)
    BY <1>3, <2>1 DEF Receive, Places, Statuses
  <2> QED
    BY <2>2, SeatFacts, StartType
<1>4. CASE task' = task
  BY <1>4 DEF SeatTypeOK, Tasks
<1> QED
  BY <1>1, <1>2, <1>3, <1>4, HandleTypes, TransmitTypes, RestartTypes
     DEF SeatNext, Evict, Quiet, seatVars, allVars

\* What a message does to the marks, the closes and the counts.
SetsOK ==
    /\ replay \subseteq Ids
    /\ closed \subseteq Ids
    /\ handed \in [Ids -> Nat]
    /\ restarts \in 0 .. MaxRestarts

LEMMA NextSets == SeatTypeOK /\ [SeatNext]_allVars => SetsOK'
<1> SUFFICES ASSUME SeatTypeOK, [SeatNext]_allVars PROVE SetsOK'
  OBVIOUS
<1>0. ASSUME UNCHANGED <<replay, closed, handed, restarts>> PROVE SetsOK'
  BY <1>0 DEF SeatTypeOK, SetsOK
<1>1. ASSUME NEW w \in Workers, RecordClose(w) PROVE SetsOK'
  <2>1. task[w].msg.id \in Ids
    BY <1>1, TaskOf DEF RecordClose
  <2> QED
    BY <1>1, <2>1 DEF RecordClose, SeatTypeOK, SetsOK
<1>2. ASSUME NEW h \in Handlers, Handle(h) PROVE SetsOK'
  <2>0. h \in Workers
    BY SeatFacts
  <2>1. CASE MarkSeen(h) \/ RecordDsn(h) \/ EnqueueWake(h) \/ DiscardMark(h)
    <3>1. task[h].msg.id \in Ids
      BY <2>0, <2>1, TaskOf DEF MarkSeen, RecordDsn, EnqueueWake, DiscardMark
    <3> QED
      BY <2>1, <3>1 DEF MarkSeen, RecordDsn, EnqueueWake, DiscardMark, HandOn, SeatTypeOK, SetsOK
  <2> QED
    BY <1>0, <1>1, <1>2, <2>0, <2>1
       DEF Handle, CheckAnchor, Gate, Contest, GateExempt, EnqueueFails, ReleaseMinted,
           FreePair
<1>3. ASSUME NEW s \in Senders, Transmit(s) PROVE SetsOK'
  <2>0. s \in Workers
    BY SeatFacts
  <2>1. CASE Delivered(s) \/ WireFails(s)
    <3>1. task[s].msg.id \in Ids
      BY <2>0, <2>1, TaskOf DEF Delivered, WireFails
    <3> QED
      BY <2>1, <3>1 DEF Delivered, WireFails, HandOn, SeatTypeOK, SetsOK
  <2> QED
    BY <1>0, <1>1, <1>3, <2>0, <2>1 DEF Transmit, Claim, Contest, GiveUp, FreePair
<1>4. CASE Restart
  <2>1. restarts < MaxRestarts /\ restarts' = restarts + 1 /\ restarts \in 0 .. MaxRestarts
    BY <1>4 DEF Restart, SeatTypeOK
  <2>2. restarts' \in 0 .. MaxRestarts
    BY <2>1, SeatFacts
  <2> QED
    BY <1>4, <2>2 DEF Restart, SeatTypeOK, SetsOK
<1>5. ASSUME NEW id \in Ids, Evict(id) PROVE SetsOK'
  BY <1>5 DEF Evict, SeatTypeOK, SetsOK
<1>6. ASSUME NEW w \in Workers,
             (\E m \in Inbox : Receive(w, m)) \/ (\E m \in Outbox : Send(w, m))
                 \/ SenderDies(w)
      PROVE  SetsOK'
  BY <1>0, <1>6 DEF Receive, Send, SenderDies
<1>7. CASE UNCHANGED seatVars
  BY <1>0, <1>7 DEF seatVars
<1>8. CASE Quiet \/ UNCHANGED allVars
  BY <1>7, <1>8 DEF Quiet, allVars
<1> QED
  BY <1>2, <1>3, <1>4, <1>5, <1>6, <1>7, <1>8, SeatFacts DEF SeatNext

LEMMA InitSeatTypeOK == SeatInit => SeatTypeOK
BY InitIInv, SeatFacts DEF SeatInit, SeatTypeOK, IInv

LEMMA NextSeatTypeOK == SeatTypeOK /\ [SeatNext]_allVars => SeatTypeOK'
BY RegistryStep, NextTypeOK, NextTasks, NextSets DEF SeatTypeOK, Tasks, SetsOK

\* Every worker is at a place of its handler with an envelope in hand, only
\* ids are marked and closed, and the registry keeps its types under the
\* handlers.
THEOREM SeatTypeCorrect == SeatSpec => []SeatTypeOK
BY InitSeatTypeOK, NextSeatTypeOK, PTL DEF SeatSpec

\* A seat implements the registry: its handlers reach the file by the
\* registry's operations alone, so what is proved of the registry holds in
\* every seat, whatever fails and however often the process restarts.
THEOREM SeatImplementsRegistry == SeatSpec => ImplementsRegistry
<1>1. SeatInit => Init
  BY DEF SeatInit
<1> QED
  BY <1>1, RegistryStep, SeatTypeCorrect, PTL DEF SeatSpec, ImplementsRegistry, Spec

\* What the seat promises its agents, through both layers: with prompt locks and
\* a readable file, whatever else fails, dies or restarts, nobody is handed a
\* seat that somebody holds (handle, send and all they call).
THEOREM SeatImplementsBoard ==
    ASSUME MaxWait = 0, ~ReadFaults
    PROVE  SeatSpec => ImplementsBoard
BY RegistryImplementsBoard, SeatImplementsRegistry, PTL DEF ImplementsRegistry

-----------------------------------------------------------------------------
(* One worker's move *)

\* Nobody but w moves, and w keeps its envelope.
Alone(w) == \A v \in Workers \ {w} : task'[v] = task[v]

Keeps(w) ==
    /\ task'[w].msg = task[w].msg
    /\ task'[w].thread = task[w].thread
    /\ task'[w].created = task[w].created

LEMMA Went ==
    ASSUME SeatTypeOK, NEW w \in Workers, task[w].pc # "idle", NEW pc, Goto(w, pc)
    PROVE  Alone(w) /\ Keeps(w) /\ task'[w].pc = pc /\ task'[w].status = task[w].status
BY TaskOf DEF Goto, Alone, Keeps, SeatTypeOK, Task

LEMMA Answered ==
    ASSUME SeatTypeOK, NEW w \in Workers, task[w].pc # "idle", NEW status, Answer(w, status)
    PROVE  Alone(w) /\ Keeps(w) /\ task'[w].pc = "done" /\ task'[w].status = status
BY TaskOf DEF Answer, Alone, Keeps, SeatTypeOK, Task

LEMMA Started ==
    ASSUME SeatTypeOK, NEW w \in Workers, NEW m, NEW pc, NEW status, Start(w, m, pc, status)
    PROVE  /\ Alone(w) /\ task'[w].msg = m /\ task'[w].pc = pc
           /\ task'[w].status = status /\ task'[w].created = FALSE
BY DEF Start, Alone, SeatTypeOK

LEMMA WasGranted ==
    ASSUME SeatTypeOK, NEW w \in Workers, task[w].pc # "idle",
           NEW pc, NEW thread, NEW created, Granted(w, pc, thread, created)
    PROVE  /\ Alone(w) /\ task'[w].msg = task[w].msg /\ task'[w].pc = pc
           /\ task'[w].thread = thread /\ task'[w].created = created
           /\ task'[w].status = task[w].status
BY TaskOf DEF Granted, Alone, SeatTypeOK, Task

\* Closes and hand-overs are never taken back.
Grows ==
    /\ closed \subseteq closed'
    /\ \A id \in Ids : handed[id] > 0 => handed'[id] > 0

LEMMA HandedOn ==
    ASSUME SeatTypeOK, NEW id \in Ids, HandOn(id)
    PROVE  handed'[id] > 0 /\ \A i \in Ids : handed[i] > 0 => handed'[i] > 0
<1>1. handed'[id] = handed[id] + 1 /\ handed[id] \in Nat
  BY DEF HandOn, SeatTypeOK
<1>2. \A i \in Ids \ {id} : handed'[i] = handed[i]
  BY DEF HandOn, SeatTypeOK
<1> QED
  BY <1>1, <1>2

LEMMA NextGrows == SeatTypeOK /\ [SeatNext]_allVars => Grows
<1> SUFFICES ASSUME SeatTypeOK, [SeatNext]_allVars PROVE Grows
  OBVIOUS
<1>0. ASSUME UNCHANGED <<closed, handed>> PROVE Grows
  BY <1>0 DEF Grows
<1>1. ASSUME NEW w \in Workers, RecordClose(w) PROVE Grows
  BY <1>1 DEF RecordClose, Grows
<1>2. ASSUME NEW w \in Workers, task[w].pc # "idle", UNCHANGED closed,
             HandOn(task[w].msg.id)
      PROVE  Grows
  BY <1>2, TaskOf, HandedOn DEF Grows
<1>3. ASSUME NEW h \in Handlers, Handle(h) PROVE Grows
  <2>0. h \in Workers
    BY SeatFacts
  <2>1. CASE RecordDsn(h) \/ EnqueueWake(h)
    BY <1>0, <1>2, <2>0, <2>1 DEF RecordDsn, EnqueueWake
  <2> QED
    BY <1>0, <1>1, <1>3, <2>0, <2>1
       DEF Handle, CheckAnchor, Gate, Contest, GateExempt, MarkSeen, EnqueueFails,
           ReleaseMinted, DiscardMark, FreePair
<1>4. ASSUME NEW s \in Senders, Transmit(s) PROVE Grows
  <2>0. s \in Workers
    BY SeatFacts
  <2>1. CASE Delivered(s) \/ WireFails(s)
    BY <1>0, <1>2, <2>0, <2>1 DEF Delivered, WireFails
  <2> QED
    BY <1>0, <1>1, <1>4, <2>0, <2>1 DEF Transmit, Claim, Contest, GiveUp, FreePair
<1>5. ASSUME NEW w, (\E m \in Inbox : Receive(w, m)) \/ (\E m \in Outbox : Send(w, m))
                        \/ SenderDies(w)
      PROVE  Grows
  BY <1>0, <1>5 DEF Receive, Send, SenderDies
<1>6. CASE Restart \/ \E id \in Ids : Evict(id)
  BY <1>0, <1>6 DEF Restart, Evict
<1>7. CASE UNCHANGED seatVars
  BY <1>0, <1>7 DEF seatVars
<1>8. CASE Quiet \/ UNCHANGED allVars
  BY <1>7, <1>8 DEF Quiet, allVars
<1> QED
  BY <1>3, <1>4, <1>5, <1>6, <1>7, <1>8 DEF SeatNext

-----------------------------------------------------------------------------
(* Closes *)

\* A worker that writes the close, or has, handed the terminator on.
ClosersHandedOn ==
    \A w \in Workers :
        task[w].pc \in {"close", "free"} => handed[task[w].msg.id] > 0

CloseInv == CloseFollowsMessage /\ ClosersHandedOn

\* Moves that write no close; one that leads to a close handed the message on.
LEMMA MoveKeepsCloses ==
    ASSUME SeatTypeOK, CloseInv, Grows, closed' = closed, NEW w \in Workers, Alone(w),
           task'[w].pc \in {"close", "free"} => handed'[task'[w].msg.id] > 0
    PROVE  CloseInv'
<1>1. CloseFollowsMessage'
  BY DEF CloseInv, CloseFollowsMessage, SeatTypeOK, Grows
<1>2. ASSUME NEW v \in Workers \ {w}, task'[v].pc \in {"close", "free"}
      PROVE  handed'[task'[v].msg.id] > 0
  <2>1. task'[v] = task[v]
    BY DEF Alone
  <2>2. task[v].msg.id \in Ids /\ handed[task[v].msg.id] > 0
    BY <1>2, <2>1, TaskOf DEF CloseInv, ClosersHandedOn
  <2> QED
    BY <2>1, <2>2 DEF Grows
<1> QED
  BY <1>1, <1>2 DEF CloseInv, ClosersHandedOn

LEMMA RecordKeepsCloses ==
    ASSUME SeatTypeOK, CloseInv, Grows, NEW w \in Workers, RecordClose(w)
    PROVE  CloseInv'
<1> DEFINE id == task[w].msg.id
<1>1. task[w].pc = "close" /\ handed[id] > 0 /\ handed' = handed
  BY DEF RecordClose, CloseInv, ClosersHandedOn
<1>2. closed' \subseteq closed \cup {id}
  BY DEF RecordClose
<1>3. CloseFollowsMessage'
  BY <1>1, <1>2 DEF CloseInv, CloseFollowsMessage
<1>4. Alone(w) /\ Keeps(w)
  BY <1>1, Went, Answered DEF RecordClose
<1>5. ClosersHandedOn'
  BY <1>1, <1>4 DEF Alone, Keeps, CloseInv, ClosersHandedOn
<1> QED
  BY <1>3, <1>5 DEF CloseInv

\* What a contest answers: the row's thread and whether it was minted, or out.
LEMMA Contested ==
    ASSUME SeatTypeOK, NEW w \in Workers, NEW from \in Places, NEW to, Contest(w, from, to)
    PROVE  /\ Alone(w) /\ task'[w].msg = task[w].msg
           /\ UNCHANGED <<replay, closed, handed, restarts>>
           /\ \/ /\ task'[w].pc = "done" /\ task'[w].status \in {"busy", "error"}
                 /\ Keeps(w) /\ entries' = entries /\ minted' = minted
              \/ /\ task'[w].pc = to /\ task'[w].status = task[w].status
                 /\ \/ Merge(w) /\ task'[w].created = FALSE
                    \/ /\ Mint(w) \/ MintBlind(w)
                       /\ task'[w].created = TRUE /\ task'[w].thread = minted + 1
<1>1. task[w].pc # "idle"
  BY DEF Contest, Places
<1>2. CASE Merge(w) /\ Granted(w, to, FirstThread(PairRows(call[w])), FALSE)
  BY <1>1, <1>2, WasGranted DEF Contest
<1>3. CASE (Mint(w) \/ MintBlind(w)) /\ Granted(w, to, minted + 1, TRUE)
  BY <1>1, <1>3, WasGranted DEF Contest
<1>4. CASE Refuse(w) /\ Answer(w, "busy")
  <2>1. Alone(w) /\ Keeps(w) /\ task'[w].pc = "done" /\ task'[w].status = "busy"
    BY <1>1, <1>4, Answered
  <2>2. entries' = entries /\ minted' = minted
    BY <1>4 DEF Refuse
  <2> QED
    BY <2>1, <2>2 DEF Contest, Keeps
<1>5. CASE Abandon({w}) /\ Answer(w, "error")
  <2>1. Alone(w) /\ Keeps(w) /\ task'[w].pc = "done" /\ task'[w].status = "error"
    BY <1>1, <1>5, Answered
  <2>2. entries' = entries /\ minted' = minted
    BY <1>5 DEF Abandon
  <2> QED
    BY <2>1, <2>2 DEF Contest, Keeps
<1> QED
  BY <1>2, <1>3, <1>4, <1>5 DEF Contest

LEMMA HandleKeepsCloses ==
    ASSUME SeatTypeOK, CloseInv, Grows, NEW h \in Handlers, Handle(h)
    PROVE  CloseInv'
<1>0. h \in Workers
  BY SeatFacts
<1>1. CASE Gate(h)
  <2>1. Alone(h) /\ task'[h].pc \notin {"close", "free"} /\ closed' = closed
    <3>1. Contest(h, "gate", "mark") /\ "gate" \in Places
      BY <1>1 DEF Gate, Places
    <3>2. /\ Alone(h) /\ UNCHANGED <<replay, closed, handed, restarts>>
          /\ task'[h].pc = "done" \/ task'[h].pc = "mark"
      BY <1>0, <3>1, Contested
    <3> QED
      BY <3>2
  <2> QED
    BY <1>0, <2>1, MoveKeepsCloses
<1>2. CASE CheckAnchor(h) \/ GateExempt(h) \/ MarkSeen(h)
  <2>1. Alone(h) /\ task'[h].pc \notin {"close", "free"} /\ closed' = closed
    BY <1>0, <1>2, Went, Answered DEF CheckAnchor, GateExempt, MarkSeen
  <2> QED
    BY <1>0, <2>1, MoveKeepsCloses
<1>3. CASE RecordDsn(h) \/ EnqueueFails(h) \/ ReleaseMinted(h) \/ DiscardMark(h)
  <2>1. Alone(h) /\ task'[h].pc \notin {"close", "free"} /\ closed' = closed
    BY <1>0, <1>3, Went, Answered DEF RecordDsn, EnqueueFails, ReleaseMinted, DiscardMark
  <2> QED
    BY <1>0, <2>1, MoveKeepsCloses
<1>4. CASE EnqueueWake(h)
  <2>1. Alone(h) /\ Keeps(h) /\ task[h].msg.id \in Ids
    BY <1>0, <1>4, Went, Answered, TaskOf DEF EnqueueWake
  <2>2. handed'[task[h].msg.id] > 0
    BY <1>4, <2>1, HandedOn DEF EnqueueWake
  <2> QED
    BY <1>0, <1>4, <2>1, <2>2, MoveKeepsCloses DEF EnqueueWake, Keeps
<1>5. CASE FreePair(h, "accepted")
  <2>1. Alone(h) /\ task'[h].pc = "done" /\ closed' = closed
    BY <1>0, <1>5, Answered DEF FreePair
  <2> QED
    BY <1>0, <2>1, MoveKeepsCloses
<1> QED
  BY <1>0, <1>1, <1>2, <1>3, <1>4, <1>5, RecordKeepsCloses DEF Handle

LEMMA TransmitKeepsCloses ==
    ASSUME SeatTypeOK, CloseInv, Grows, NEW s \in Senders, Transmit(s)
    PROVE  CloseInv'
<1>0. s \in Workers
  BY SeatFacts
<1>1. CASE Claim(s)
  <2>1. Alone(s) /\ task'[s].pc \notin {"close", "free"} /\ closed' = closed
    <3>1. Contest(s, "claim", "wire") /\ "claim" \in Places
      BY <1>1 DEF Claim, Places
    <3>2. /\ Alone(s) /\ UNCHANGED <<replay, closed, handed, restarts>>
          /\ task'[s].pc = "done" \/ task'[s].pc = "wire"
      BY <1>0, <3>1, Contested
    <3> QED
      BY <3>2
  <2> QED
    BY <1>0, <2>1, MoveKeepsCloses
<1>2. CASE WireFails(s) \/ GiveUp(s) \/ FreePair(s, "delivered")
  <2>1. Alone(s) /\ task'[s].pc \notin {"close", "free"} /\ closed' = closed
    BY <1>0, <1>2, Went, Answered DEF WireFails, GiveUp, FreePair
  <2> QED
    BY <1>0, <2>1, MoveKeepsCloses
<1>3. CASE Delivered(s)
  <2>1. Alone(s) /\ Keeps(s) /\ task[s].msg.id \in Ids
    BY <1>0, <1>3, Went, Answered, TaskOf DEF Delivered
  <2>2. handed'[task[s].msg.id] > 0
    BY <1>3, <2>1, HandedOn DEF Delivered
  <2> QED
    BY <1>0, <1>3, <2>1, <2>2, MoveKeepsCloses DEF Delivered, Keeps
<1> QED
  BY <1>0, <1>1, <1>2, <1>3, RecordKeepsCloses DEF Transmit

\* Whatever a restart kills is done, and keeps its envelope.
LEMMA Restarted ==
    ASSUME SeatTypeOK, Restart, NEW w \in Workers
    PROVE  \/ task'[w] = task[w] /\ ~InFlight(w)
           \/ /\ InFlight(w) /\ Keeps(w)
              /\ task'[w].pc = "done" /\ task'[w].status = "lost"
<1>1. CASE InFlight(w)
  <2>1. task[w].pc # "idle"
    BY <1>1 DEF InFlight
  <2>2. task'[w] = [task[w] EXCEPT !.pc = "done", !.status = "lost"]
    BY <1>1 DEF Restart
  <2> QED
    BY <1>1, <2>1, <2>2, TaskOf DEF Task, Keeps
<1>2. CASE ~InFlight(w)
  BY <1>2 DEF Restart
<1> QED
  BY <1>1, <1>2

LEMMA NextCloseInv == SeatTypeOK /\ CloseInv /\ [SeatNext]_allVars => CloseInv'
<1> SUFFICES ASSUME SeatTypeOK, CloseInv, [SeatNext]_allVars PROVE CloseInv'
  OBVIOUS
<1>0. Grows
  BY NextGrows
<1>1. ASSUME NEW h \in Handlers, NEW m \in Inbox, Receive(h, m) PROVE CloseInv'
  <2>1. Alone(h) /\ task'[h].pc \in {"anchor", "done"} /\ closed' = closed
    BY <1>1, SeatFacts, Started DEF Receive
  <2> QED
    BY <1>0, <2>1, SeatFacts, MoveKeepsCloses
<1>2. ASSUME NEW s \in Senders, NEW m \in Outbox, Send(s, m) PROVE CloseInv'
  <2>1. Alone(s) /\ task'[s].pc \in {"wire", "claim", "done"} /\ closed' = closed
    BY <1>2, SeatFacts, Started DEF Send
  <2> QED
    BY <1>0, <2>1, SeatFacts, MoveKeepsCloses
<1>3. ASSUME NEW s \in Senders, SenderDies(s) PROVE CloseInv'
  <2>1. Alone(s) /\ task'[s].pc = "done" /\ closed' = closed
    BY <1>3, SeatFacts, Answered DEF SenderDies, InFlight
  <2> QED
    BY <1>0, <2>1, SeatFacts, MoveKeepsCloses
<1>4. CASE Restart
  BY <1>4, Restarted DEF Restart, InFlight, CloseInv, CloseFollowsMessage, ClosersHandedOn
<1>5. ASSUME UNCHANGED <<task, closed, handed>> PROVE CloseInv'
  BY <1>5 DEF CloseInv, CloseFollowsMessage, ClosersHandedOn
<1>6. CASE \E id \in Ids : Evict(id)
  BY <1>5, <1>6 DEF Evict
<1>7. CASE UNCHANGED seatVars
  BY <1>5, <1>7 DEF seatVars
<1>8. CASE Quiet \/ UNCHANGED allVars
  BY <1>7, <1>8 DEF Quiet, allVars
<1> QED
  BY <1>0, <1>1, <1>2, <1>3, <1>4, <1>6, <1>7, <1>8, HandleKeepsCloses, TransmitKeepsCloses
     DEF SeatNext

LEMMA SeatCloses == SeatSpec => []CloseInv
<1>1. SeatInit => CloseInv
  BY DEF SeatInit, Idle, CloseInv, CloseFollowsMessage, ClosersHandedOn
<1> QED
  BY <1>1, NextCloseInv, SeatTypeCorrect, PTL DEF SeatSpec

\* No close is ever on disk for a terminator that was not handed onward, on
\* either side, whatever fails, whoever dies and however often the seat
\* restarts.
THEOREM ClosesFollow == SeatSpec => []CloseFollowsMessage
BY SeatCloses, PTL DEF CloseInv

-----------------------------------------------------------------------------
(* Accepted terminators *)

\* Only a DSN is recorded as one, a worker frees the pair after its close, and
\* a terminator that was answered has one.
EndOf(w) ==
    /\ task[w].pc = "record" => IsDsn(task[w].msg)
    /\ task[w].pc = "free" => task[w].msg.id \in closed
    /\ task[w].pc = "done" /\ task[w].status \in {"accepted", "delivered"} =>
          (task[w].msg.reply = "end" /\ ~IsDsn(task[w].msg) => task[w].msg.id \in closed)

EndInv == \A w \in Workers : EndOf(w)

LEMMA MoveKeepsEnds ==
    ASSUME EndInv, Grows, NEW w \in Workers, Alone(w), EndOf(w)'
    PROVE  EndInv'
<1>1. ASSUME NEW v \in Workers \ {w} PROVE EndOf(v)'
  BY DEF Alone, Grows, EndInv, EndOf
<1> QED
  BY <1>1 DEF EndInv

LEMMA CloseKeepsEnds ==
    ASSUME SeatTypeOK, EndInv, NEW w \in Workers, RecordClose(w)
    PROVE  Alone(w) /\ EndOf(w)'
<1>1. Alone(w) /\ Keeps(w) /\ task[w].pc = "close"
  BY Went, Answered DEF RecordClose
<1>2. CASE closed' = closed \cup {task[w].msg.id} /\ Goto(w, "free")
  BY <1>1, <1>2, Went DEF EndOf, Keeps
<1>3. CASE Answer(w, "error")
  BY <1>1, <1>3, Answered DEF EndOf
<1> QED
  BY <1>2, <1>3 DEF RecordClose

LEMMA FreeKeepsEnds ==
    ASSUME SeatTypeOK, EndInv, NEW w \in Workers, NEW status, FreePair(w, status)
    PROVE  Alone(w) /\ EndOf(w)'
<1>1. Alone(w) /\ Keeps(w) /\ task'[w].pc = "done" /\ closed' = closed
  BY Answered DEF FreePair
<1>2. task[w].msg.id \in closed
  BY DEF FreePair, EndInv, EndOf
<1> QED
  BY <1>1, <1>2 DEF EndOf, Keeps

LEMMA ContestKeepsEnds ==
    ASSUME SeatTypeOK, NEW w \in Workers, NEW from \in Places, NEW to,
           to \notin {"record", "free", "done"}, Contest(w, from, to)
    PROVE  Alone(w) /\ EndOf(w)'
<1>1. /\ Alone(w)
      /\ task'[w].pc = to \/ (task'[w].pc = "done" /\ task'[w].status \in {"busy", "error"})
  BY Contested
<1> QED
  BY <1>1 DEF EndOf

LEMMA HandleKeepsEnds ==
    ASSUME SeatTypeOK, EndInv, NEW h \in Handlers, Handle(h)
    PROVE  Alone(h) /\ EndOf(h)'
<1>0. h \in Workers
  BY SeatFacts
<1>1. CASE Gate(h)
  <2>1. Contest(h, "gate", "mark") /\ "gate" \in Places
    BY <1>1 DEF Gate, Places
  <2> QED
    BY <1>0, <2>1, ContestKeepsEnds
<1>2. CASE CheckAnchor(h) \/ GateExempt(h) \/ EnqueueFails(h) \/ ReleaseMinted(h)
           \/ DiscardMark(h)
  <2>1. Alone(h) /\ task'[h].pc \notin {"record", "free"}
        /\ (task'[h].pc = "done" => task'[h].status \in {"closed", "error"})
    BY <1>0, <1>2, Went, Answered
       DEF CheckAnchor, GateExempt, EnqueueFails, ReleaseMinted, DiscardMark
  <2> QED
    BY <2>1 DEF EndOf
<1>3. CASE MarkSeen(h)
  <2>1. Alone(h) /\ Keeps(h)
        /\ task'[h].pc = IF IsDsn(task[h].msg) THEN "record" ELSE "loop"
    BY <1>0, <1>3, Went DEF MarkSeen
  <2> QED
    BY <2>1 DEF EndOf, Keeps
<1>4. CASE RecordDsn(h)
  <2>1. Alone(h) /\ Keeps(h) /\ task'[h].pc = "done" /\ task[h].pc = "record"
    BY <1>0, <1>4, Answered DEF RecordDsn
  <2>2. IsDsn(task[h].msg)
    BY <1>0, <2>1 DEF EndInv, EndOf
  <2> QED
    BY <2>1, <2>2 DEF EndOf, Keeps
<1>5. CASE EnqueueWake(h)
  <2>1. /\ Alone(h) /\ Keeps(h)
        /\ task'[h].pc = "close" \/ (task'[h].pc = "done" /\ task[h].msg.reply # "end")
    BY <1>0, <1>5, Went, Answered DEF EnqueueWake
  <2> QED
    BY <2>1 DEF EndOf, Keeps
<1> QED
  BY <1>0, <1>1, <1>2, <1>3, <1>4, <1>5, CloseKeepsEnds, FreeKeepsEnds DEF Handle

LEMMA TransmitKeepsEnds ==
    ASSUME SeatTypeOK, EndInv, NEW s \in Senders, Transmit(s)
    PROVE  Alone(s) /\ EndOf(s)'
<1>0. s \in Workers
  BY SeatFacts
<1>1. CASE Claim(s)
  <2>1. Contest(s, "claim", "wire") /\ "claim" \in Places
    BY <1>1 DEF Claim, Places
  <2> QED
    BY <1>0, <2>1, ContestKeepsEnds
<1>2. CASE WireFails(s) \/ GiveUp(s)
  <2>1. Alone(s) /\ task'[s].pc \notin {"record", "free"}
        /\ (task'[s].pc = "done" => task'[s].status \in {"failed", "failed-unread", "error"})
    BY <1>0, <1>2, Went, Answered DEF WireFails, GiveUp
  <2> QED
    BY <2>1 DEF EndOf
<1>3. CASE Delivered(s)
  <2>1. /\ Alone(s) /\ Keeps(s)
        /\ task'[s].pc = "close" \/ (task'[s].pc = "done" /\ task[s].msg.reply # "end")
    BY <1>0, <1>3, Went, Answered DEF Delivered
  <2> QED
    BY <2>1 DEF EndOf, Keeps
<1> QED
  BY <1>0, <1>1, <1>2, <1>3, CloseKeepsEnds, FreeKeepsEnds DEF Transmit

LEMMA NextEndInv == SeatTypeOK /\ EndInv /\ [SeatNext]_allVars => EndInv'
<1> SUFFICES ASSUME SeatTypeOK, EndInv, [SeatNext]_allVars PROVE EndInv'
  OBVIOUS
<1>0. Grows
  BY NextGrows
<1>1. ASSUME NEW w \in Workers, Alone(w), EndOf(w)' PROVE EndInv'
  BY <1>0, <1>1, MoveKeepsEnds
<1>2. ASSUME NEW h \in Handlers, NEW m \in Inbox, Receive(h, m) PROVE EndInv'
  <2>1. Verdict(m) \in {"rejected", "duplicate", ""}
    BY DEF Verdict
  <2>2. /\ Alone(h)
        /\ task'[h].pc \in {"anchor", "done"}
        /\ task'[h].status \in {"rejected", "duplicate", ""}
    BY <1>2, <2>1, SeatFacts, Started DEF Receive
  <2>3. EndOf(h)'
    BY <2>2 DEF EndOf
  <2> QED
    BY <1>1, <2>2, <2>3, SeatFacts
<1>3. ASSUME NEW s \in Senders, NEW m \in Outbox, Send(s, m) PROVE EndInv'
  <2>1. /\ Alone(s)
        /\ task'[s].pc \in {"wire", "claim", "done"}
        /\ task'[s].status \in {"not-found", ""}
    BY <1>3, SeatFacts, Started DEF Send
  <2>2. EndOf(s)'
    BY <2>1 DEF EndOf
  <2> QED
    BY <1>1, <2>1, <2>2, SeatFacts
<1>4. ASSUME NEW s \in Senders, SenderDies(s) PROVE EndInv'
  <2>1. Alone(s) /\ task'[s].pc = "done" /\ task'[s].status = "lost"
    BY <1>4, SeatFacts, Answered DEF SenderDies, InFlight
  <2>2. EndOf(s)'
    BY <2>1 DEF EndOf
  <2> QED
    BY <1>1, <2>1, <2>2, SeatFacts
<1>5. CASE Restart
  <2>1. ASSUME NEW w \in Workers PROVE EndOf(w)'
    <3>1. task'[w] = task[w] \/ (task'[w].pc = "done" /\ task'[w].status = "lost")
      BY <1>5, Restarted
    <3>2. closed' = closed
      BY <1>5 DEF Restart
    <3> QED
      BY <3>1, <3>2 DEF EndInv, EndOf
  <2> QED
    BY <2>1 DEF EndInv
<1>6. ASSUME UNCHANGED <<task, closed>> PROVE EndInv'
  BY <1>6 DEF EndInv, EndOf
<1>7. CASE \E id \in Ids : Evict(id)
  BY <1>6, <1>7 DEF Evict
<1>8. CASE UNCHANGED seatVars
  BY <1>6, <1>8 DEF seatVars
<1>9. CASE Quiet \/ UNCHANGED allVars
  BY <1>8, <1>9 DEF Quiet, allVars
<1>10. ASSUME NEW h \in Handlers, Handle(h) PROVE EndInv'
  BY <1>1, <1>10, HandleKeepsEnds, SeatFacts
<1>11. ASSUME NEW s \in Senders, Transmit(s) PROVE EndInv'
  BY <1>1, <1>11, TransmitKeepsEnds, SeatFacts
<1> QED
  BY <1>2, <1>3, <1>4, <1>5, <1>7, <1>8, <1>9, <1>10, <1>11 DEF SeatNext

\* A terminator answered accepted or delivered has its close on disk, whatever
\* fails beside it and whatever restarts come after.
THEOREM EndsAreClosed == SeatSpec => []AcceptedEndIsClosed
<1>1. SeatInit => EndInv
  BY DEF SeatInit, Idle, EndInv, EndOf
<1>2. EndInv => AcceptedEndIsClosed
  BY DEF EndInv, EndOf, AcceptedEndIsClosed
<1> QED
  BY <1>1, <1>2, NextEndInv, SeatTypeCorrect, PTL DEF SeatSpec

-----------------------------------------------------------------------------
(* Marks *)

\* h will hand the id on or take its mark back, or was told that it failed.
Accounts(h, id) ==
    /\ task[h] # Idle /\ task[h].msg.id = id
    /\ HoldsMark(h) \/ (task[h].pc = "done" /\ task[h].status = "error")

\* A move that leaves no id without somebody who accounts for it.
LEMMA MoveKeepsReports ==
    ASSUME SeatTypeOK, UnhandedIsReported, Grows, NEW w \in Workers, Alone(w),
           \A id \in replay' : id \in replay \/ (w \in Handlers /\ Accounts(w, id)'),
           \A id \in replay' : w \in Handlers /\ Accounts(w, id) =>
                                  Accounts(w, id)' \/ handed'[id] > 0
    PROVE  UnhandedIsReported'
<1> SUFFICES ASSUME NEW id \in replay'
             PROVE  handed'[id] > 0 \/ \E h \in Handlers : Accounts(h, id)'
  BY DEF UnhandedIsReported, Accounts
<1>1. CASE w \in Handlers /\ Accounts(w, id)'
  BY <1>1
<1>2. CASE id \in replay
  <2>1. id \in Ids
    BY <1>2 DEF SeatTypeOK
  <2>2. handed[id] > 0 \/ \E h \in Handlers : Accounts(h, id)
    BY <1>2 DEF UnhandedIsReported, Accounts
  <2>3. ASSUME NEW h \in Handlers, Accounts(h, id), h # w PROVE Accounts(h, id)'
    <3>1. task'[h] = task[h]
      BY <2>3, SeatFacts DEF Alone
    <3> QED
      BY <2>3, <3>1 DEF Accounts, HoldsMark, InFlight
  <2> QED
    BY <2>1, <2>2, <2>3 DEF Grows
<1> QED
  BY <1>1, <1>2

\* A worker with no mark in hand accounts for none.
LEMMA BeforeTheMark ==
    ASSUME NEW h \in Handlers, task[h].pc \in {"anchor", "gate", "mark"}, NEW id
    PROVE  ~Accounts(h, id)
BY DEF Accounts, HoldsMark

LEMMA HandleKeepsReports ==
    ASSUME SeatTypeOK, CloseInv, UnhandedIsReported, Grows, NEW h \in Handlers, Handle(h)
    PROVE  UnhandedIsReported'
<1>0. h \in Workers
  BY SeatFacts
<1>1. CASE CheckAnchor(h) \/ GateExempt(h)
  <2>1. Alone(h) /\ replay' = replay
    BY <1>0, <1>1, Went, Answered DEF CheckAnchor, GateExempt
  <2>2. task[h].pc \in {"anchor", "gate"}
    BY <1>1 DEF CheckAnchor, GateExempt
  <2> QED
    BY <1>0, <2>1, <2>2, BeforeTheMark, MoveKeepsReports
<1>2. CASE Gate(h)
  <2>1. Contest(h, "gate", "mark") /\ "gate" \in Places
    BY <1>2 DEF Gate, Places
  <2>2. Alone(h) /\ replay' = replay
    BY <1>0, <2>1, Contested
  <2>3. task[h].pc = "gate"
    BY <2>1 DEF Contest
  <2> QED
    BY <1>0, <2>2, <2>3, BeforeTheMark, MoveKeepsReports
<1>3. CASE MarkSeen(h)
  <2>1. /\ Alone(h) /\ Keeps(h) /\ task'[h].pc \in {"record", "loop"}
        /\ task[h].pc = "mark" /\ replay' = replay \cup {task[h].msg.id}
    BY <1>0, <1>3, Went DEF MarkSeen
  <2>2. ASSUME NEW id \in replay', id \notin replay PROVE Accounts(h, id)'
    <3>1. id = task'[h].msg.id
      BY <2>1, <2>2 DEF Keeps
    <3> QED
      BY <2>1, <3>1 DEF Accounts, HoldsMark, InFlight, Idle
  <2>3. \A id : ~Accounts(h, id)
    BY <2>1, BeforeTheMark
  <2> QED
    BY <1>0, <2>1, <2>2, <2>3, MoveKeepsReports
<1>4. ASSUME Alone(h), Keeps(h), task[h].pc # "idle", replay' = replay,
             \/ HoldsMark(h)'
             \/ task'[h].pc = "done" /\ task'[h].status = "error"
             \/ handed'[task[h].msg.id] > 0
      PROVE  UnhandedIsReported'
  <2>1. ASSUME NEW id, Accounts(h, id), ~(handed'[id] > 0) PROVE Accounts(h, id)'
    <3>1. HoldsMark(h)' \/ (task'[h].pc = "done" /\ task'[h].status = "error")
      BY <1>4, <2>1 DEF Accounts
    <3>2. task'[h] # Idle
      BY <3>1 DEF HoldsMark, InFlight, Idle
    <3> QED
      BY <1>4, <2>1, <3>1, <3>2 DEF Accounts, Keeps
  <2> QED
    BY <1>0, <1>4, <2>1, MoveKeepsReports
<1>5. CASE RecordDsn(h)
  <2>1. /\ Alone(h) /\ Keeps(h) /\ task[h].pc # "idle" /\ replay' = replay
        /\ task[h].msg.id \in Ids
    BY <1>0, <1>5, Answered, TaskOf DEF RecordDsn
  <2>2. CASE HandOn(task[h].msg.id)
    BY <1>4, <2>1, <2>2, HandedOn
  <2>3. CASE Answer(h, "error")
    BY <1>0, <1>4, <2>1, <2>3, Answered
  <2> QED
    BY <1>5, <2>2, <2>3 DEF RecordDsn
<1>6. CASE EnqueueWake(h)
  <2>1. /\ Alone(h) /\ Keeps(h) /\ task[h].pc # "idle" /\ replay' = replay
        /\ task[h].msg.id \in Ids
    BY <1>0, <1>6, Went, Answered, TaskOf DEF EnqueueWake
  <2>2. handed'[task[h].msg.id] > 0
    BY <1>6, <2>1, HandedOn DEF EnqueueWake
  <2> QED
    BY <1>4, <2>1, <2>2
<1>7. CASE EnqueueFails(h) \/ ReleaseMinted(h) \/ RecordClose(h)
  <2>1. /\ Alone(h) /\ Keeps(h) /\ task[h].pc # "idle" /\ replay' = replay
        /\ \/ task'[h].pc \in {"release", "discard", "free"}
           \/ task'[h].pc = "done" /\ task'[h].status = "error"
    BY <1>0, <1>7, Went, Answered DEF EnqueueFails, ReleaseMinted, RecordClose
  <2>2. HoldsMark(h)' \/ (task'[h].pc = "done" /\ task'[h].status = "error")
    BY <2>1 DEF HoldsMark, InFlight
  <2> QED
    BY <1>4, <2>1, <2>2
<1>8. CASE DiscardMark(h)
  <2>1. Alone(h) /\ replay' = replay \ {task[h].msg.id}
    BY <1>0, <1>8, Answered DEF DiscardMark
  <2>2. \A id \in replay' : id \in replay /\ ~Accounts(h, id)
    BY <2>1 DEF Accounts
  <2> QED
    BY <1>0, <2>1, <2>2, MoveKeepsReports
<1>9. CASE FreePair(h, "accepted")
  <2>1. /\ Alone(h) /\ Keeps(h) /\ task[h].pc = "free" /\ replay' = replay
        /\ handed' = handed
    BY <1>0, <1>9, Answered DEF FreePair
  <2>2. handed'[task[h].msg.id] > 0
    BY <1>0, <2>1 DEF CloseInv, ClosersHandedOn
  <2> QED
    BY <1>4, <2>1, <2>2
<1> QED
  BY <1>1, <1>2, <1>3, <1>5, <1>6, <1>7, <1>8, <1>9 DEF Handle

\* A sender holds no mark.
LEMMA TransmitAlone ==
    ASSUME SeatTypeOK, NEW s \in Senders, Transmit(s)
    PROVE  Alone(s) /\ replay' = replay
<1>0. s \in Workers
  BY SeatFacts
<1>1. CASE Claim(s)
  <2>1. Contest(s, "claim", "wire") /\ "claim" \in Places
    BY <1>1 DEF Claim, Places
  <2> QED
    BY <1>0, <2>1, Contested
<1>2. CASE Delivered(s) \/ WireFails(s) \/ GiveUp(s)
  BY <1>0, <1>2, Went, Answered DEF Delivered, WireFails, GiveUp
<1>3. CASE RecordClose(s) \/ FreePair(s, "delivered")
  BY <1>0, <1>3, Went, Answered DEF RecordClose, FreePair
<1> QED
  BY <1>1, <1>2, <1>3 DEF Transmit

LEMMA NextReports ==
    SeatTypeOK /\ CloseInv /\ UnhandedIsReported /\ [SeatNext]_allVars => UnhandedIsReported'
<1> SUFFICES ASSUME SeatTypeOK, CloseInv, UnhandedIsReported, [SeatNext]_allVars
             PROVE  UnhandedIsReported'
  OBVIOUS
<1>0. Grows
  BY NextGrows
<1>1. ASSUME NEW s \in Senders, Alone(s), replay' = replay PROVE UnhandedIsReported'
  BY <1>0, <1>1, SeatFacts, MoveKeepsReports
<1>2. ASSUME NEW h \in Handlers, NEW m \in Inbox, Receive(h, m) PROVE UnhandedIsReported'
  <2>1. Alone(h) /\ replay' = replay /\ task[h] = Idle
    BY <1>2, SeatFacts, Started DEF Receive
  <2>2. \A id : ~Accounts(h, id)
    BY <2>1 DEF Accounts
  <2> QED
    BY <1>0, <2>1, <2>2, SeatFacts, MoveKeepsReports
<1>3. ASSUME NEW s \in Senders, NEW m \in Outbox, Send(s, m) PROVE UnhandedIsReported'
  <2>1. Alone(s) /\ replay' = replay
    BY <1>3, SeatFacts, Started DEF Send
  <2> QED
    BY <1>1, <2>1
<1>4. ASSUME NEW s \in Senders, SenderDies(s) PROVE UnhandedIsReported'
  <2>1. Alone(s) /\ replay' = replay
    BY <1>4, SeatFacts, Answered DEF SenderDies, InFlight
  <2> QED
    BY <1>1, <2>1
<1>5. CASE Restart
  BY <1>5 DEF Restart, UnhandedIsReported
<1>6. ASSUME UNCHANGED <<task, handed>>, replay' \subseteq replay PROVE UnhandedIsReported'
  BY <1>6 DEF UnhandedIsReported, HoldsMark, InFlight
<1>7. CASE \E id \in Ids : Evict(id)
  BY <1>6, <1>7 DEF Evict
<1>8. CASE UNCHANGED seatVars
  BY <1>6, <1>8 DEF seatVars
<1>9. CASE Quiet \/ UNCHANGED allVars
  BY <1>8, <1>9 DEF Quiet, allVars
<1>10. ASSUME NEW s \in Senders, Transmit(s) PROVE UnhandedIsReported'
  BY <1>1, <1>10, TransmitAlone
<1> QED
  BY <1>0, <1>2, <1>3, <1>4, <1>5, <1>7, <1>8, <1>9, <1>10, HandleKeepsReports
     DEF SeatNext

\* No id stays marked as seen for a message that was handed to nobody, unless a
\* POST of it is still handled or was answered with an error.
THEOREM UnhandedAreReported == SeatSpec => []UnhandedIsReported
<1>1. SeatInit => UnhandedIsReported
  BY DEF SeatInit, UnhandedIsReported
<1> QED
  BY <1>1, NextReports, SeatCloses, SeatTypeCorrect, PTL DEF SeatSpec

-----------------------------------------------------------------------------
(* Leases *)

\* What w minted is the thread of its own pair, and it asks for its own pair.
Own(w) ==
    task[w].pc # "idle" =>
        /\ task[w].pc \in {"anchor", "gate", "claim"} => ~task[w].created
        /\ task[w].pc \in {"release", "giveup"} => task[w].created
        /\ task[w].created =>
              /\ task[w].thread <= minted
              /\ \A e \in entries : e.thread_id = task[w].thread =>
                    IsPair(e, task[w].msg.sender, task[w].msg.recipient)
        /\ task[w].pc \in {"gate", "claim"} /\ call[w] # NoCall =>
              /\ call[w].sender = task[w].msg.sender
              /\ call[w].peer = task[w].msg.recipient

\* w minted the thread and still works on it, or answered for it.
Answers(w, thread) ==
    /\ task[w].pc # "idle" /\ task[w].created /\ task[w].thread = thread
    /\ InFlight(w) \/ task[w].status \in {"accepted", "delivered", "error", "lost", "failed-unread"}

LeaseInv == LeakIsReported /\ \A w \in Workers : Own(w)

\* A row of the file is one of before with the same parties, or a new one.
Descends ==
    /\ minted' \in Nat /\ minted <= minted'
    /\ \A f \in entries' :
          \/ f.thread_id > minted
          \/ \E e \in entries : e.thread_id = f.thread_id /\ Parties(e) = Parties(f)

LEMMA FewerDescend ==
    ASSUME TypeOK, entries' \subseteq entries, minted' = minted
    PROVE  Descends
BY DEF Descends, TypeOK

LEMMA MintedRow ==
    ASSUME TypeOK, NEW w \in Workers, Mint(w) \/ MintBlind(w)
    PROVE  /\ minted' = minted + 1
           /\ \A f \in entries' : f \in entries \/
                 (f.thread_id = minted + 1 /\ Parties(f) = {call[w].sender, call[w].peer})
<1>1. PICK m \in LeaseMinutes : entries' \subseteq entries \cup {NewLease(call[w], m)}
  BY DEF Mint, MintBlind
<1>2. /\ NewLease(call[w], m).thread_id = minted + 1
      /\ Parties(NewLease(call[w], m)) = {call[w].sender, call[w].peer}
  BY DEF NewLease, Parties
<1> QED
  BY <1>1, <1>2 DEF Mint, MintBlind

LEMMA MintDescends ==
    ASSUME TypeOK, NEW w \in Workers, Mint(w) \/ MintBlind(w)
    PROVE  Descends
<1>1. minted \in Nat /\ minted' = minted + 1
  BY MintedRow DEF TypeOK
<1>2. ASSUME NEW f \in entries', f \notin entries PROVE f.thread_id > minted
  BY <1>1, <1>2, MintedRow
<1> QED
  BY <1>1, <1>2 DEF Descends

LEMMA MergeDescends ==
    ASSUME TypeOK, NEW w \in Workers, Merge(w)
    PROVE  Descends /\ minted' = minted /\ \A f \in entries' : \E e \in entries :
               e.thread_id = f.thread_id /\ Parties(e) = Parties(f)
<1>1. PICK e \in entries :
          /\ entries' = (entries \ {e}) \cup {Refreshed(e, call[w])}
          /\ Refreshed(e, call[w]).thread_id = e.thread_id
          /\ Refreshed(e, call[w]).peer = e.peer
          /\ Refreshed(e, call[w]).opened_by = e.opened_by
  BY MergeStep
<1>2. minted' = minted /\ minted \in Nat
  BY DEF Merge, TypeOK
<1>3. \A f \in entries' : \E g \in entries :
          g.thread_id = f.thread_id /\ Parties(g) = Parties(f)
  BY <1>1 DEF Parties
<1> QED
  BY <1>2, <1>3 DEF Descends

OnlyCallOf(w) == \A v \in Workers \ {w} : call'[v] = call[v]

\* Whoever does not move keeps what it owns and what it answers for.
LEMMA MoveKeepsLeases ==
    ASSUME SeatTypeOK, UniqueIds, LeaseInv, Descends,
           NEW w \in Workers, Alone(w), OnlyCallOf(w), Own(w)',
           \A f \in entries' : Answers(w, f.thread_id) => Answers(w, f.thread_id)',
           \A f \in entries' : f.thread_id > minted => Answers(w, f.thread_id)'
    PROVE  LeaseInv'
<1>0. minted \in Nat /\ minted' \in Nat /\ minted <= minted'
  BY DEF Descends, SeatTypeOK, TypeOK
<1>1. ASSUME NEW v \in Workers, v # w PROVE Own(v)'
  <2>1. task'[v] = task[v] /\ call'[v] = call[v]
    BY <1>1 DEF Alone, OnlyCallOf
  <2>2. Own(v)
    BY DEF LeaseInv
  <2>3. ASSUME task[v].pc # "idle", task[v].created
        PROVE  /\ task[v].thread <= minted'
               /\ \A f \in entries' : f.thread_id = task[v].thread =>
                     IsPair(f, task[v].msg.sender, task[v].msg.recipient)
    <3>1. task[v].thread <= minted /\ task[v].thread \in Nat
      BY <2>2, <2>3, TaskOf DEF Own, Task
    <3>2. task[v].thread <= minted'
      BY <3>1, <1>0
    <3>3. ASSUME NEW f \in entries', f.thread_id = task[v].thread
          PROVE  IsPair(f, task[v].msg.sender, task[v].msg.recipient)
      <4>1. ~(f.thread_id > minted)
        BY <3>1, <3>3, <1>0
      <4>2. PICK e \in entries : e.thread_id = f.thread_id /\ Parties(e) = Parties(f)
        BY <4>1 DEF Descends
      <4>3. IsPair(e, task[v].msg.sender, task[v].msg.recipient)
        BY <2>2, <2>3, <3>3, <4>2 DEF Own
      <4> QED
        BY <4>2, <4>3 DEF IsPair
    <3> QED
      BY <3>2, <3>3
  <2> QED
    BY <2>1, <2>2, <2>3 DEF Own
<1>2. ASSUME NEW f \in entries' PROVE \E v \in Workers : Answers(v, f.thread_id)'
  <2>1. CASE f.thread_id > minted
    BY <2>1
  <2>2. CASE ~(f.thread_id > minted)
    <3>1. PICK e \in entries : e.thread_id = f.thread_id
      BY <2>2 DEF Descends
    <3>2. PICK v \in Workers : Answers(v, f.thread_id)
      BY <3>1 DEF LeaseInv, LeakIsReported, Answers
    <3>3. CASE v = w
      BY <3>2, <3>3
    <3>4. CASE v # w
      BY <3>2, <3>4 DEF Alone, Answers, InFlight
    <3> QED
      BY <3>3, <3>4
  <2> QED
    BY <2>1, <2>2
<1>3. LeakIsReported'
  BY <1>2 DEF LeakIsReported, Answers
<1> QED
  BY <1>1, <1>3 DEF LeaseInv

\* Moves that add no row, by a worker that keeps its thread.
LEMMA QuietMove ==
    ASSUME SeatTypeOK, UniqueIds, LeaseInv, NEW w \in Workers, task[w].pc # "idle",
           Alone(w), Keeps(w), OnlyCallOf(w), entries' \subseteq entries, minted' = minted,
           task'[w].pc \notin {"idle", "anchor", "claim", "gate"},
           task'[w].pc \in {"release", "giveup"} => task[w].created,
           task[w].created =>
              \/ task'[w].pc # "done"
              \/ task'[w].status \in {"accepted", "delivered", "error", "lost", "failed-unread"}
              \/ \A e \in entries' : ~IsPair(e, task[w].msg.sender, task[w].msg.recipient)
    PROVE  LeaseInv'
<1>1. Own(w)
  BY DEF LeaseInv
<1>2. Own(w)'
  BY <1>1 DEF Own, Keeps, IsPair, Parties
<1>3. ASSUME NEW f \in entries', Answers(w, f.thread_id) PROVE Answers(w, f.thread_id)'
  <2>1. IsPair(f, task[w].msg.sender, task[w].msg.recipient)
    BY <1>1, <1>3 DEF Own, Answers
  <2> QED
    BY <1>3, <2>1 DEF Answers, Keeps, InFlight
<1>4. \A f \in entries' : ~(f.thread_id > minted)
  BY DEF UniqueIds, SeatTypeOK, TypeOK, Row
<1>5. Descends
  BY FewerDescend DEF SeatTypeOK
<1> QED
  BY <1>2, <1>3, <1>4, <1>5, MoveKeepsLeases

\* A decided contest: the thread of a merge is not the caller's own, a minted
\* one is, and a refusal mints none.
LEMMA ContestKeepsLeases ==
    ASSUME SeatTypeOK, UniqueIds, LeaseInv, NEW w \in Workers,
           NEW from \in {"gate", "claim"}, NEW to \in {"mark", "wire"}, Contest(w, from, to)
    PROVE  LeaseInv'
<1>0. /\ task[w].pc = from /\ task[w].pc # "idle" /\ ~task[w].created /\ TypeOK
      /\ minted \in Nat /\ \A e \in entries : e.thread_id \in Nat /\ e.thread_id <= minted
  BY DEF Contest, LeaseInv, Own, SeatTypeOK, TypeOK, Row, UniqueIds
<1>1. from \in Places
  BY DEF Places
<1>2. \A thread : ~Answers(w, thread)
  BY <1>0 DEF Answers
<1>3. OnlyCallOf(w)
  BY DEF Contest, Merge, Mint, MintBlind, Refuse, Return, Abandon, OnlyCallOf, SeatTypeOK, TypeOK
<1>4. /\ Alone(w) /\ task'[w].msg = task[w].msg
      /\ \/ task'[w].pc = "done" /\ Keeps(w) /\ entries' = entries /\ minted' = minted
         \/ task'[w].pc = to /\ Merge(w) /\ task'[w].created = FALSE
         \/ /\ task'[w].pc = to /\ (Mint(w) \/ MintBlind(w))
            /\ task'[w].created = TRUE /\ task'[w].thread = minted + 1
  BY <1>1, Contested
<1>5. CASE task'[w].pc = "done" /\ Keeps(w) /\ entries' = entries /\ minted' = minted
  BY <1>0, <1>3, <1>4, <1>5, QuietMove
<1>6. CASE task'[w].pc = to /\ Merge(w) /\ task'[w].created = FALSE
  <2>1. Own(w)'
    BY <1>6 DEF Own
  <2>2. Descends /\ \A f \in entries' : ~(f.thread_id > minted)
    <3>1. /\ Descends
          /\ \A f \in entries' : \E e \in entries :
                e.thread_id = f.thread_id /\ Parties(e) = Parties(f)
      BY <1>0, <1>6, MergeDescends
    <3> QED
      BY <3>1, <1>0
  <2> QED
    BY <1>2, <1>3, <1>4, <2>1, <2>2, MoveKeepsLeases
<1>7. CASE /\ task'[w].pc = to /\ (Mint(w) \/ MintBlind(w))
           /\ task'[w].created = TRUE /\ task'[w].thread = minted + 1
  <2>1. /\ minted' = minted + 1
        /\ \A f \in entries' : f \in entries \/
              (f.thread_id = minted + 1 /\ Parties(f) = {call[w].sender, call[w].peer})
    BY <1>0, <1>7, MintedRow
  <2>2. call[w].sender = task[w].msg.sender /\ call[w].peer = task[w].msg.recipient
    BY <1>0, <1>7 DEF Mint, MintBlind, Claims, LeaseInv, Own
  <2>3. \A f \in entries' : f.thread_id = minted + 1 =>
            IsPair(f, task[w].msg.sender, task[w].msg.recipient)
    BY <1>0, <2>1, <2>2 DEF IsPair
  <2>4. task'[w].thread <= minted'
    BY <1>0, <1>7, <2>1
  <2>5. Own(w)'
    BY <1>4, <1>7, <2>3, <2>4 DEF Own, IsPair, Parties
  <2>6. ASSUME NEW f \in entries', f.thread_id > minted PROVE Answers(w, f.thread_id)'
    <3>1. f.thread_id = minted + 1
      BY <1>0, <2>1, <2>6
    <3> QED
      BY <3>1, <1>7 DEF Answers, InFlight
  <2>7. Descends
    BY <1>0, <1>7, MintDescends
  <2> QED
    BY <1>2, <1>3, <1>4, <2>5, <2>6, <2>7, MoveKeepsLeases
<1> QED
  BY <1>4, <1>5, <1>6, <1>7

\* Releasing the pair leaves no row of it, and touches nothing else.
LEMMA Released ==
    ASSUME NEW m, Release(m)
    PROVE  /\ entries' \subseteq entries /\ minted' = minted /\ call' = call
           /\ \A e \in entries' : ~IsPair(e, m.sender, m.recipient)
BY DEF Release, ReleasePair, IsPair, Parties

\* A move that leaves the registry alone, or only takes rows away.
LEMMA PlainMove ==
    ASSUME SeatTypeOK, UniqueIds, LeaseInv, NEW w \in Workers, task[w].pc # "idle",
           Alone(w), Keeps(w), UNCHANGED vars \/ Release(task[w].msg),
           task'[w].pc \notin {"idle", "anchor", "claim", "gate"},
           task'[w].pc \in {"release", "giveup"} => task[w].created,
           task[w].created =>
              \/ task'[w].pc # "done"
              \/ task'[w].status \in {"accepted", "delivered", "error", "lost", "failed-unread"}
              \/ Release(task[w].msg)
    PROVE  LeaseInv'
<1>1. entries' \subseteq entries /\ minted' = minted /\ call' = call
  BY Released DEF vars
<1>2. OnlyCallOf(w)
  BY <1>1 DEF OnlyCallOf
<1>3. Release(task[w].msg) =>
          \A e \in entries' : ~IsPair(e, task[w].msg.sender, task[w].msg.recipient)
  BY Released
<1> QED
  BY <1>1, <1>2, <1>3, QuietMove

LEMMA AnchorKeepsLeases ==
    ASSUME SeatTypeOK, UniqueIds, LeaseInv, NEW h \in Handlers, CheckAnchor(h)
    PROVE  LeaseInv'
<1>0. h \in Workers /\ task[h].pc = "anchor" /\ task[h].pc # "idle" /\ ~task[h].created
  BY SeatFacts DEF CheckAnchor, LeaseInv, Own
<1>1. CASE UNCHANGED vars /\ (Goto(h, "mark") \/ Answer(h, "closed"))
  <2>1. Alone(h) /\ Keeps(h) /\ task'[h].pc \in {"mark", "done"}
    BY <1>0, <1>1, Went, Answered
  <2> QED
    BY <1>0, <1>1, <2>1, PlainMove
<1>2. CASE Goto(h, "gate") /\ Begin(h, Asks(task[h].msg))
  <2>1. Alone(h) /\ Keeps(h) /\ task'[h].pc = "gate"
    BY <1>0, <1>2, Went
  <2>2. /\ call'[h].sender = task[h].msg.sender /\ call'[h].peer = task[h].msg.recipient
        /\ OnlyCallOf(h) /\ entries' = entries /\ minted' = minted
    BY <1>0, <1>2 DEF Begin, Asks, OnlyCallOf, SeatTypeOK, TypeOK
  <2>3. Own(h)'
    BY <1>0, <2>1, <2>2 DEF Own, Keeps
  <2>4. \A thread : ~Answers(h, thread)
    BY <1>0 DEF Answers
  <2>5. Descends /\ \A f \in entries' : ~(f.thread_id > minted)
    BY <2>2, FewerDescend DEF UniqueIds, SeatTypeOK, TypeOK, Row
  <2> QED
    BY <1>0, <2>1, <2>2, <2>3, <2>4, <2>5, MoveKeepsLeases
<1> QED
  BY <1>1, <1>2 DEF CheckAnchor

LEMMA HandleKeepsLeases ==
    ASSUME SeatTypeOK, UniqueIds, LeaseInv, NEW h \in Handlers, Handle(h)
    PROVE  LeaseInv'
<1>0. h \in Workers
  BY SeatFacts
<1>1. CASE Gate(h)
  BY <1>0, <1>1, ContestKeepsLeases DEF Gate
<1>2. CASE GateExempt(h)
  <2>1. Alone(h) /\ Keeps(h) /\ task'[h].pc = "mark" /\ task[h].pc # "idle"
    BY <1>0, <1>2, Went DEF GateExempt
  <2>2. OnlyCallOf(h) /\ entries' = entries /\ minted' = minted
    BY <1>0, <1>2 DEF GateExempt, Exempt, Return, OnlyCallOf, SeatTypeOK, TypeOK
  <2> QED
    BY <1>0, <2>1, <2>2, QuietMove
<1>3. CASE MarkSeen(h) \/ RecordDsn(h) \/ EnqueueWake(h) \/ DiscardMark(h) \/ RecordClose(h)
  <2>1. /\ Alone(h) /\ Keeps(h) /\ task[h].pc # "idle" /\ UNCHANGED vars
        /\ \/ task'[h].pc \in {"record", "loop", "close", "free"}
           \/ task'[h].pc = "done" /\ task'[h].status \in {"accepted", "error"}
    BY <1>0, <1>3, Went, Answered DEF MarkSeen, RecordDsn, EnqueueWake, DiscardMark, RecordClose
  <2> QED
    BY <1>0, <2>1, PlainMove
<1>4. CASE EnqueueFails(h)
  <2>1. /\ Alone(h) /\ Keeps(h) /\ task[h].pc # "idle" /\ UNCHANGED vars
        /\ task'[h].pc = IF task[h].created THEN "release" ELSE "discard"
    BY <1>0, <1>4, Went DEF EnqueueFails
  <2> QED
    BY <1>0, <2>1, PlainMove
<1>5. CASE ReleaseMinted(h) \/ FreePair(h, "accepted")
  <2>1. /\ Alone(h) /\ Keeps(h) /\ task[h].pc # "idle"
        /\ UNCHANGED vars \/ Release(task[h].msg)
        /\ \/ task'[h].pc = "discard"
           \/ task'[h].pc = "done" /\ task'[h].status \in {"accepted", "error"}
    BY <1>0, <1>5, Went, Answered, BlindStep DEF ReleaseMinted, FreePair
  <2> QED
    BY <1>0, <2>1, PlainMove
<1> QED
  BY <1>1, <1>2, <1>3, <1>4, <1>5, AnchorKeepsLeases DEF Handle

LEMMA TransmitKeepsLeases ==
    ASSUME SeatTypeOK, UniqueIds, LeaseInv, NEW s \in Senders, Transmit(s)
    PROVE  LeaseInv'
<1>0. s \in Workers
  BY SeatFacts
<1>1. CASE Claim(s)
  BY <1>0, <1>1, ContestKeepsLeases DEF Claim
<1>2. CASE Delivered(s) \/ RecordClose(s)
  <2>1. /\ Alone(s) /\ Keeps(s) /\ task[s].pc # "idle" /\ UNCHANGED vars
        /\ \/ task'[s].pc \in {"close", "free"}
           \/ task'[s].pc = "done" /\ task'[s].status \in {"delivered", "error"}
    BY <1>0, <1>2, Went, Answered DEF Delivered, RecordClose
  <2> QED
    BY <1>0, <2>1, PlainMove
<1>3. CASE WireFails(s)
  <2>1. /\ Alone(s) /\ Keeps(s) /\ task[s].pc # "idle" /\ UNCHANGED vars
        /\ task'[s].pc = IF task[s].created THEN "giveup" ELSE "done"
    BY <1>0, <1>3, Went, Answered DEF WireFails
  <2> QED
    BY <1>0, <2>1, PlainMove
<1>4. CASE GiveUp(s) \/ FreePair(s, "delivered")
  <2>1. /\ Alone(s) /\ Keeps(s) /\ task[s].pc # "idle" /\ task'[s].pc = "done"
        /\ \/ Release(task[s].msg)
           \/ UNCHANGED vars /\ task'[s].status \in {"delivered", "error", "failed-unread"}
    BY <1>0, <1>4, Answered, BlindStep DEF GiveUp, FreePair
  <2> QED
    BY <1>0, <2>1, PlainMove
<1> QED
  BY <1>1, <1>2, <1>3, <1>4 DEF Transmit

\* A worker that was idle answers for nothing, and asks for its own pair.
LEMMA StartKeepsLeases ==
    ASSUME SeatTypeOK, UniqueIds, LeaseInv, NEW w \in Workers, task[w] = Idle,
           NEW m \in Envelopes, NEW pc, NEW status, Start(w, m, pc, status),
           pc \notin {"release", "giveup"},
           \/ UNCHANGED vars /\ pc \notin {"gate", "claim"}
           \/ Begin(w, Asks(m))
    PROVE  LeaseInv'
<1>1. /\ Alone(w) /\ task'[w].msg = m /\ task'[w].pc = pc /\ task'[w].created = FALSE
  BY Started
<1>2. OnlyCallOf(w) /\ entries' = entries /\ minted' = minted
  BY DEF Begin, vars, OnlyCallOf, SeatTypeOK, TypeOK
<1>3. pc \in {"gate", "claim"} =>
          call'[w].sender = task'[w].msg.sender /\ call'[w].peer = task'[w].msg.recipient
  BY <1>1 DEF Begin, Asks, SeatTypeOK, TypeOK
<1>4. Own(w)'
  BY <1>1, <1>3 DEF Own
<1>5. \A thread : ~Answers(w, thread)
  BY DEF Answers, Idle
<1>6. Descends /\ \A f \in entries' : ~(f.thread_id > minted)
  BY <1>2, FewerDescend DEF UniqueIds, SeatTypeOK, TypeOK, Row
<1> QED
  BY <1>1, <1>2, <1>4, <1>5, <1>6, MoveKeepsLeases

LEMMA RestartKeepsLeases ==
    ASSUME SeatTypeOK, LeaseInv, Restart
    PROVE  LeaseInv'
<1>1. entries' = entries /\ minted' = minted
  BY DEF Restart, Abandon
<1>2. ASSUME NEW w \in Workers PROVE Own(w)'
  <2>1. Own(w) /\ call'[w] = NoCall
    BY DEF LeaseInv, Restart, Abandon
  <2>2. \/ task'[w] = task[w]
        \/ InFlight(w) /\ Keeps(w) /\ task'[w].pc = "done"
    BY Restarted
  <2> QED
    BY <1>1, <2>1, <2>2 DEF Own, Keeps, IsPair, Parties, InFlight
<1>3. ASSUME NEW w \in Workers, NEW thread, Answers(w, thread) PROVE Answers(w, thread)'
  <2>1. \/ task'[w] = task[w]
        \/ Keeps(w) /\ task'[w].pc = "done" /\ task'[w].status = "lost"
    BY Restarted
  <2>2. CASE task'[w] = task[w]
    BY <1>3, <2>2 DEF Answers, InFlight
  <2>3. CASE Keeps(w) /\ task'[w].pc = "done" /\ task'[w].status = "lost"
    BY <1>3, <2>3 DEF Answers, Keeps
  <2> QED
    BY <2>1, <2>2, <2>3
<1>4. ASSUME NEW e \in entries' PROVE \E w \in Workers : Answers(w, e.thread_id)'
  <2>1. PICK w \in Workers : Answers(w, e.thread_id)
    BY <1>1, <1>4 DEF LeaseInv, LeakIsReported, Answers
  <2> QED
    BY <1>3, <2>1
<1>5. LeakIsReported'
  BY <1>4 DEF LeakIsReported, Answers
<1> QED
  BY <1>2, <1>5 DEF LeaseInv

LEMMA NextLeaseInv ==
    SeatTypeOK /\ UniqueIds /\ LeaseInv /\ [SeatNext]_allVars => LeaseInv'
<1> SUFFICES ASSUME SeatTypeOK, UniqueIds, LeaseInv, [SeatNext]_allVars PROVE LeaseInv'
  OBVIOUS
<1>1. ASSUME NEW h \in Handlers, NEW m \in Inbox, Receive(h, m) PROVE LeaseInv'
  <2>1. /\ task[h] = Idle /\ UNCHANGED vars
        /\ \E pc \in {"anchor", "done"} : Start(h, m, pc, Verdict(m))
    BY <1>1 DEF Receive
  <2> QED
    BY <2>1, SeatFacts, StartKeepsLeases
<1>2. ASSUME NEW s \in Senders, NEW m \in Outbox, Send(s, m) PROVE LeaseInv'
  <2>0. s \in Workers /\ m \in Envelopes /\ task[s] = Idle
    BY <1>2, SeatFacts DEF Send
  <2>1. CASE UNCHANGED vars /\ (Start(s, m, "done", "not-found") \/ Start(s, m, "wire", ""))
    <3>1. \E pc \in {"done", "wire"}, status \in {"not-found", ""} : Start(s, m, pc, status)
      BY <2>1
    <3> QED
      BY <2>0, <2>1, <3>1, StartKeepsLeases
  <2>2. CASE Start(s, m, "claim", "") /\ Begin(s, Asks(m))
    <3>1. \E pc \in {"claim"}, status \in {""} : Start(s, m, pc, status)
      BY <2>2
    <3> QED
      BY <2>0, <2>2, <3>1, StartKeepsLeases
  <2> QED
    BY <1>2, <2>1, <2>2 DEF Send
<1>3. ASSUME NEW s \in Senders, SenderDies(s) PROVE LeaseInv'
  <2>0. s \in Workers /\ task[s].pc # "idle"
    BY <1>3, SeatFacts DEF SenderDies, InFlight
  <2>1. Alone(s) /\ Keeps(s) /\ task'[s].pc = "done" /\ task'[s].status = "lost"
    BY <1>3, <2>0, Answered DEF SenderDies
  <2>2. OnlyCallOf(s) /\ entries' = entries /\ minted' = minted
    BY <1>3, <2>0 DEF SenderDies, Abandon, OnlyCallOf
  <2> QED
    BY <2>0, <2>1, <2>2, QuietMove
<1>4. ASSUME UNCHANGED <<task, entries, minted, call>> PROVE LeaseInv'
  BY <1>4 DEF LeaseInv, LeakIsReported, InFlight, Own, IsPair, Parties
<1>5. CASE \E id \in Ids : Evict(id)
  BY <1>4, <1>5 DEF Evict, vars
<1>6. CASE Tick /\ UNCHANGED seatVars
  BY <1>4, <1>6 DEF Tick, seatVars
<1>7. CASE Quiet \/ UNCHANGED allVars
  BY <1>4, <1>7 DEF Quiet, allVars, vars, seatVars
<1> QED
  BY <1>1, <1>2, <1>3, <1>5, <1>6, <1>7, HandleKeepsLeases, TransmitKeepsLeases,
     RestartKeepsLeases DEF SeatNext

\* The registry's own invariants hold under the handlers.
LEMMA SeatIInv == SeatSpec => []IInv
BY SeatImplementsRegistry, Inductive, PTL DEF ImplementsRegistry

LEMMA SeatLeases == SeatSpec => []LeaseInv
<1>1. SeatInit => LeaseInv
  BY DEF SeatInit, Init, Idle, LeaseInv, LeakIsReported, Own
<1>2. IInv => UniqueIds
  BY DEF IInv
<1> QED
  BY <1>1, <1>2, NextLeaseInv, SeatIInv, SeatTypeCorrect, PTL DEF SeatSpec

\* Every row is the thread of a request under way, of a message that went in or
\* out, of one that ended in an error or died with its process, or of a send
\* that failed and could not read the registry to release it: a refusal, a
\* duplicate, and a give-up that could, leave no lease behind.
THEOREM LeaksAreReported == SeatSpec => []LeakIsReported
BY SeatLeases, PTL DEF LeaseInv

-----------------------------------------------------------------------------
(* Giving up *)

\* With one live thread to a pair, a release by the pair takes no live row but
\* the one minted here.
LEMMA GiveUpStep ==
    ASSUME SeatTypeOK, LeaseInv, OneClaimPerPeer, [SeatNext]_allVars,
           NEW w \in Workers, task[w].pc \in {"release", "giveup"},
           task'[w].pc # task[w].pc,
           NEW own \in LiveRows, own.thread_id = task[w].thread,
           NEW e \in LiveRows, e \notin entries'
    PROVE  e.thread_id = task[w].thread
<1> DEFINE m == task[w].msg
<1>0. task[w].pc # "idle"
  OBVIOUS
<1>1. IsPair(own, m.sender, m.recipient)
  BY <1>0 DEF LeaseInv, Own, LiveRows
<1>2. CASE Release(m)
  <2>1. IsPair(e, m.sender, m.recipient)
    BY <1>2 DEF Release, ReleasePair, LiveRows
  <2> QED
    BY <1>1, <2>1 DEF IsPair, OneClaimPerPeer
<1>3. CASE entries' = entries
  BY <1>3 DEF LiveRows
<1>4. ASSUME NEW v \in Workers, Alone(v) PROVE v = w
  BY <1>4 DEF Alone
<1>5. ASSUME NEW h \in Handlers, Handle(h) PROVE Release(m) \/ entries' = entries
  <2>0. h \in Workers
    BY SeatFacts
  <2>1. CASE h = w
    BY <1>5, <2>1
       DEF Handle, CheckAnchor, Gate, Contest, GateExempt, MarkSeen, RecordDsn, EnqueueWake,
           EnqueueFails, ReleaseMinted, DiscardMark, RecordClose, FreePair, ReleaseBlind, vars
  <2>2. CASE h # w
    <3>1. task'[w] = task[w]
      BY <1>5, <2>0, <2>2
         DEF Handle, CheckAnchor, Gate, Contest, GateExempt, MarkSeen, RecordDsn,
             EnqueueWake, EnqueueFails, ReleaseMinted, DiscardMark, RecordClose, FreePair,
             Goto, Answer, Granted, SeatTypeOK
    <3> QED
      BY <3>1
  <2> QED
    BY <2>1, <2>2
<1>6. ASSUME NEW s \in Senders, Transmit(s) PROVE Release(m) \/ entries' = entries
  <2>0. s \in Workers
    BY SeatFacts
  <2>1. s = w
    BY <1>4, <1>6, <2>0, TransmitAlone
  <2> QED
    BY <1>6, <2>1
       DEF Transmit, Claim, Contest, Delivered, WireFails, GiveUp, RecordClose, FreePair,
           ReleaseBlind, vars
<1>7. ASSUME NEW s \in Senders, NEW n \in Outbox, Send(s, n) PROVE entries' = entries
  BY <1>7 DEF Send, vars, Begin
<1>8. ASSUME \/ \E h \in Handlers, n \in Inbox : Receive(h, n)
             \/ \E s \in Senders : SenderDies(s)
             \/ Restart \/ (\E id \in Ids : Evict(id)) \/ Quiet \/ UNCHANGED allVars
             \/ Tick
      PROVE  entries' = entries
  BY <1>8 DEF Receive, SenderDies, Restart, Abandon, Evict, Quiet, allVars, vars, Tick
<1> QED
  BY <1>2, <1>3, <1>5, <1>6, <1>7, <1>8 DEF SeatNext

\* Giving up takes the claim the request created and no live thread of others,
\* as long as that claim is live itself and calls do not wait for the lock.
THEOREM GiveUpIsLocal ==
    ASSUME MaxWait = 0
    PROVE  SeatSpec => GiveUpSparesOthers
<1>1. SeatSpec => []OneClaimPerPeer
  BY OneClaimant, SeatImplementsRegistry, PTL DEF ImplementsRegistry
<1>2. SeatTypeOK /\ LeaseInv /\ OneClaimPerPeer /\ [SeatNext]_allVars =>
          \A w \in Workers :
              /\ task[w].pc \in {"release", "giveup"} /\ task'[w].pc # task[w].pc
              /\ \E e \in LiveRows : e.thread_id = task[w].thread
              => \A e \in LiveRows \ entries' : e.thread_id = task[w].thread
  BY GiveUpStep
<1> QED
  BY <1>1, <1>2, SeatLeases, SeatTypeCorrect, PTL DEF SeatSpec, GiveUpSparesOthers

-----------------------------------------------------------------------------
(* Accepted messages *)

Errored(h, id) ==
    task[h].pc = "done" /\ task[h].status = "error" /\ task[h].msg.id = id

\* A message past the mark is marked, unless another POST of it took the mark
\* back and was told so.
SeenOf(h) ==
    \/ task[h].pc \in {"loop", "record", "release", "discard", "close", "free"}
    \/ task[h].pc = "done" /\ task[h].status = "accepted"
    => \/ task[h].msg.id \in replay
       \/ \E g \in Handlers \ {h} : Errored(g, task[h].msg.id)

SeenInv == \A h \in Handlers : SeenOf(h)

\* Whoever does not move stays seen: a mark is only taken back by a POST that
\* is told of an error.
LEMMA MoveKeepsSeen ==
    ASSUME SeatTypeOK, SeenInv, NEW w \in Workers, Alone(w), task[w].pc # "done",
           \A id \in replay \ replay' : w \in Handlers /\ Errored(w, id)',
           w \in Handlers => SeenOf(w)'
    PROVE  SeenInv'
<1>1. ASSUME NEW h \in Handlers, h # w PROVE SeenOf(h)'
  <2>1. task'[h] = task[h]
    BY <1>1, SeatFacts DEF Alone
  <2>2. ASSUME NEW g \in Handlers, Errored(g, task[h].msg.id)
        PROVE  Errored(g, task[h].msg.id)'
    <3>1. task'[g] = task[g]
      BY <2>2, SeatFacts DEF Alone, Errored
    <3> QED
      BY <2>1, <2>2, <3>1 DEF Errored
  <2>3. SeenOf(h)
    BY DEF SeenInv
  <2>4. CASE task[h].msg.id \in replay \ replay'
    <3>1. w \in Handlers /\ task'[w].pc = "done" /\ task'[w].status = "error"
          /\ task'[w].msg.id = task'[h].msg.id
      BY <2>1, <2>4 DEF Errored
    <3> QED
      BY <1>1, <3>1 DEF SeenOf, Errored
  <2>5. CASE task[h].msg.id \notin replay \ replay'
    BY <2>1, <2>2, <2>3, <2>5 DEF SeenOf, Errored
  <2> QED
    BY <2>4, <2>5
<1> QED
  BY <1>1 DEF SeenInv

\* A move past the mark that takes no mark back.
LEMMA PastTheMark ==
    ASSUME SeatTypeOK, SeenInv, NEW h \in Handlers, Alone(h), Keeps(h), replay' = replay,
           task[h].pc \in {"loop", "record", "release", "discard", "close", "free"}
    PROVE  SeenInv'
<1>1. SeenOf(h)
  BY DEF SeenInv
<1>2. \A g \in Handlers \ {h} : task'[g] = task[g]
  BY SeatFacts DEF Alone
<1>3. SeenOf(h)'
  BY <1>1, <1>2 DEF SeenOf, Errored, Keeps
<1> QED
  BY <1>3, SeatFacts, MoveKeepsSeen

\* A move of a handler that leads to no message past the mark, or of a sender.
LEMMA BesideTheMark ==
    ASSUME SeatTypeOK, SeenInv, NEW w \in Workers, Alone(w), replay' = replay,
           task[w].pc # "done",
           w \in Handlers =>
              \/ task'[w].pc \in {"anchor", "gate", "mark"}
              \/ task'[w].pc = "done" /\ task'[w].status # "accepted"
    PROVE  SeenInv'
<1>1. w \in Handlers => SeenOf(w)'
  BY DEF SeenOf
<1> QED
  BY <1>1, MoveKeepsSeen

LEMMA HandleKeepsSeen ==
    ASSUME SeatTypeOK, SeenInv, NEW h \in Handlers, Handle(h)
    PROVE  SeenInv'
<1>0. h \in Workers
  BY SeatFacts
<1>1. CASE CheckAnchor(h) \/ GateExempt(h)
  <2>1. /\ Alone(h) /\ replay' = replay /\ task[h].pc # "done"
        /\ \/ task'[h].pc \in {"gate", "mark"}
           \/ task'[h].pc = "done" /\ task'[h].status = "closed"
    BY <1>0, <1>1, Went, Answered DEF CheckAnchor, GateExempt
  <2> QED
    BY <1>0, <2>1, BesideTheMark
<1>2. CASE Gate(h)
  <2>1. Contest(h, "gate", "mark") /\ "gate" \in Places /\ task[h].pc = "gate"
    BY <1>2 DEF Gate, Contest, Places
  <2>2. /\ Alone(h) /\ replay' = replay
        /\ \/ task'[h].pc = "mark"
           \/ task'[h].pc = "done" /\ task'[h].status \in {"busy", "error"}
    BY <1>0, <2>1, Contested
  <2> QED
    BY <1>0, <2>1, <2>2, BesideTheMark
<1>3. CASE MarkSeen(h)
  <2>1. /\ Alone(h) /\ Keeps(h) /\ task[h].pc = "mark"
        /\ replay' = replay \cup {task[h].msg.id}
    BY <1>0, <1>3, Went DEF MarkSeen
  <2>2. SeenOf(h)'
    BY <2>1 DEF SeenOf, Keeps
  <2> QED
    BY <1>0, <2>1, <2>2, MoveKeepsSeen
<1>4. CASE DiscardMark(h)
  <2>1. /\ Alone(h) /\ Keeps(h) /\ task[h].pc = "discard"
        /\ task'[h].pc = "done" /\ task'[h].status = "error"
        /\ replay' = replay \ {task[h].msg.id}
    BY <1>0, <1>4, Answered DEF DiscardMark
  <2>2. ASSUME NEW id \in replay \ replay' PROVE Errored(h, id)'
    BY <2>1, <2>2 DEF Errored, Keeps
  <2>3. SeenOf(h)'
    BY <2>1 DEF SeenOf
  <2> QED
    BY <1>0, <2>1, <2>2, <2>3, MoveKeepsSeen
<1>5. CASE RecordDsn(h) \/ EnqueueWake(h) \/ EnqueueFails(h) \/ ReleaseMinted(h)
           \/ RecordClose(h) \/ FreePair(h, "accepted")
  <2>1. task[h].pc \in {"loop", "record", "release", "close", "free"} /\ replay' = replay
    BY <1>5 DEF RecordDsn, EnqueueWake, EnqueueFails, ReleaseMinted, RecordClose, FreePair
  <2>2. Alone(h) /\ Keeps(h)
    BY <1>0, <1>5, Went, Answered
       DEF RecordDsn, EnqueueWake, EnqueueFails, ReleaseMinted, RecordClose, FreePair
  <2> QED
    BY <2>1, <2>2, PastTheMark
<1> QED
  BY <1>1, <1>2, <1>3, <1>4, <1>5 DEF Handle

LEMMA NextSeenInv ==
    ASSUME "evict" \notin Faults, MaxRestarts = 0
    PROVE  SeatTypeOK /\ SeenInv /\ [SeatNext]_allVars => SeenInv'
<1> SUFFICES ASSUME SeatTypeOK, SeenInv, [SeatNext]_allVars PROVE SeenInv'
  OBVIOUS
<1>1. ASSUME NEW h \in Handlers, NEW m \in Inbox, Receive(h, m) PROVE SeenInv'
  <2>1. Verdict(m) \in {"rejected", "duplicate", ""}
    BY DEF Verdict
  <2>2. /\ Alone(h) /\ replay' = replay
        /\ \/ task'[h].pc = "anchor"
           \/ task'[h].pc = "done" /\ task'[h].status # "accepted"
    BY <1>1, <2>1, SeatFacts, Started DEF Receive
  <2>3. task[h].pc # "done"
    <3>1. task[h] = Idle /\ Idle.pc = "idle"
      BY <1>1 DEF Receive, Idle
    <3> QED
      BY <3>1
  <2> QED
    BY <2>2, <2>3, SeatFacts, BesideTheMark
<1>2. ASSUME NEW s \in Senders, Alone(s), replay' = replay, task[s].pc # "done"
      PROVE  SeenInv'
  BY <1>2, SeatFacts, BesideTheMark
<1>3. ASSUME NEW s \in Senders, NEW m \in Outbox, Send(s, m) PROVE SeenInv'
  <2>1. Alone(s) /\ replay' = replay
    BY <1>3, SeatFacts, Started DEF Send
  <2>2. task[s].pc # "done"
    <3>1. task[s] = Idle /\ Idle.pc = "idle"
      BY <1>3 DEF Send, Idle
    <3> QED
      BY <3>1
  <2> QED
    BY <1>2, <2>1, <2>2
<1>4. ASSUME NEW s \in Senders, Transmit(s) PROVE SeenInv'
  <2>1. task[s].pc # "done"
    BY <1>4 DEF Transmit, Claim, Contest, Delivered, WireFails, GiveUp, RecordClose, FreePair
  <2> QED
    BY <1>2, <1>4, <2>1, TransmitAlone
<1>5. ASSUME NEW s \in Senders, SenderDies(s) PROVE SeenInv'
  <2>1. Alone(s) /\ replay' = replay /\ task[s].pc # "done"
    BY <1>5, SeatFacts, Answered DEF SenderDies, InFlight
  <2> QED
    BY <1>2, <2>1
<1>6. ~Restart
  BY DEF Restart, SeatTypeOK
<1>7. \A id \in Ids : ~Evict(id)
  BY DEF Evict
<1>8. ASSUME UNCHANGED <<task, replay>> PROVE SeenInv'
  BY <1>8 DEF SeenInv, SeenOf, Errored
<1>9. CASE (Tick /\ UNCHANGED seatVars) \/ Quiet \/ UNCHANGED allVars
  BY <1>8, <1>9 DEF Quiet, allVars, seatVars
<1> QED
  BY <1>1, <1>3, <1>4, <1>5, <1>6, <1>7, <1>9, HandleKeepsSeen DEF SeatNext

\* In a process that does not restart, with a replay window that forgets
\* nothing, an accepted message keeps its mark, unless another POST of it failed
\* and said so.
THEOREM AcceptedStaySeen ==
    ASSUME "evict" \notin Faults, MaxRestarts = 0
    PROVE  SeatSpec => []AcceptedStaysSeen
<1>1. SeatInit => SeenInv
  BY SeatFacts DEF SeatInit, Idle, SeenInv, SeenOf
<1>2. SeenInv => AcceptedStaysSeen
  BY DEF SeenInv, SeenOf, Errored, AcceptedStaysSeen
<1> QED
  BY <1>1, <1>2, NextSeenInv, SeatTypeCorrect, PTL DEF SeatSpec
-----------------------------------------------------------------------------
(* First moves *)

LEMMA LocalTypes ==
    ASSUME SeatTypeOK, NEW w \in Workers, task[w].pc # "idle"
    PROVE  task[w].thread \in Nat /\ task[w].created \in BOOLEAN
<1>1. task[w] \in Task
  BY TaskOf
<1> QED
  BY <1>1 DEF Task

\* A POST that starts holds nothing, and is at the anchor for this seat alone.
LEMMA ReceiveMove ==
    ASSUME SeatTypeOK, NEW h \in Handlers, NEW m \in Inbox, Receive(h, m)
    PROVE  /\ Alone(h) /\ UNCHANGED <<vars, replay, closed, handed, restarts>>
           /\ task[h] = Idle /\ task'[h].created = FALSE /\ task'[h].msg = m
           /\ task'[h].pc = "anchor" => m.recipient = Me
<1>1. PICK pc : /\ Start(h, m, pc, Verdict(m))
                /\ pc = "anchor" => m.recipient = Me
  <2>1. CASE Verdict(m) = ""
    <3>1. m.recipient = Me
      BY <2>1, Zenon DEF Verdict
    <3>2. Start(h, m, "anchor", Verdict(m))
      BY <2>1 DEF Receive
    <3> QED
      BY <3>1, <3>2
  <2>2. CASE Verdict(m) # ""
    <3>1. Start(h, m, "done", Verdict(m))
      BY <2>2 DEF Receive
    <3>2. "done" # "anchor"
      OBVIOUS
    <3> QED
      BY <3>1, <3>2
  <2> QED
    BY <2>1, <2>2
<1>2. /\ Alone(h) /\ task'[h].msg = m /\ task'[h].pc = pc /\ task'[h].created = FALSE
  BY <1>1, SeatFacts, Started
<1>3. task[h] = Idle /\ UNCHANGED <<vars, replay, closed, handed, restarts>>
  BY DEF Receive
<1> QED
  BY <1>1, <1>2, <1>3

\* A send that starts holds nothing, and asks the registry for a peer.
LEMMA SendMove ==
    ASSUME SeatTypeOK, NEW s \in Senders, NEW m \in Outbox, Send(s, m)
    PROVE  /\ Alone(s) /\ UNCHANGED <<replay, closed, handed, restarts>>
           /\ task[s] = Idle /\ task'[s].created = FALSE /\ task'[s].msg = m
           /\ task'[s].pc # "done" \/ task'[s].status # "busy"
           /\ \/ UNCHANGED vars
              \/ Begin(s, Asks(m)) /\ m.recipient \in Peers
<1>1. PICK pc, status : Start(s, m, pc, status) /\ (pc = "done" => status # "busy")
  <2>1. CASE Start(s, m, "done", "not-found")
    <3>1. "done" = "done" => "not-found" # "busy"
      OBVIOUS
    <3> QED
      BY <2>1, <3>1
  <2>2. CASE Start(s, m, "wire", "") \/ Start(s, m, "claim", "")
    <3>1. "wire" # "done" /\ "claim" # "done"
      OBVIOUS
    <3> QED
      BY <2>2, <3>1, Zenon
  <2> QED
    BY <2>1, <2>2 DEF Send
<1>2. /\ Alone(s) /\ task'[s].msg = m /\ task'[s].pc = pc /\ task'[s].status = status
      /\ task'[s].created = FALSE
  BY <1>1, SeatFacts, Started
<1>3. task'[s].pc # "done" \/ task'[s].status # "busy"
  BY <1>1, <1>2
<1>4. /\ task[s] = Idle /\ UNCHANGED <<replay, closed, handed, restarts>>
      /\ UNCHANGED vars \/ (Begin(s, Asks(m)) /\ m.recipient \in Peers)
  BY DEF Send
<1> QED
  BY <1>2, <1>3, <1>4

-----------------------------------------------------------------------------
(* Marks of a registry and a DSN record that do not fail *)

\* h will hand the id on or take its mark back.
Carries(h, id) == task[h] # Idle /\ task[h].msg.id = id /\ HoldsMark(h)

\* A move that leaves no id without somebody who carries it.
LEMMA MoveKeepsCarried ==
    ASSUME SeatTypeOK, SeenIsHanded, Grows, NEW w \in Workers, Alone(w),
           \A id \in replay' : id \in replay \/ (w \in Handlers /\ Carries(w, id)'),
           \A id \in replay' : w \in Handlers /\ Carries(w, id) =>
                                  Carries(w, id)' \/ handed'[id] > 0
    PROVE  SeenIsHanded'
<1> SUFFICES ASSUME NEW id \in replay'
             PROVE  handed'[id] > 0 \/ \E h \in Handlers : Carries(h, id)'
  BY DEF SeenIsHanded, Carries
<1>1. CASE w \in Handlers /\ Carries(w, id)'
  BY <1>1
<1>2. CASE id \in replay
  <2>1. id \in Ids
    BY <1>2 DEF SeatTypeOK
  <2>2. handed[id] > 0 \/ \E h \in Handlers : Carries(h, id)
    BY <1>2 DEF SeenIsHanded, Carries
  <2>3. ASSUME NEW h \in Handlers, Carries(h, id), h # w PROVE Carries(h, id)'
    <3>1. task'[h] = task[h]
      BY <2>3, SeatFacts DEF Alone
    <3> QED
      BY <2>3, <3>1 DEF Carries, HoldsMark, InFlight
  <2> QED
    BY <2>1, <2>2, <2>3 DEF Grows
<1> QED
  BY <1>1, <1>2

\* A move that keeps the mark in hand, or has handed the message on.
LEMMA CarriedMove ==
    ASSUME SeatTypeOK, SeenIsHanded, Grows, NEW h \in Handlers, Alone(h), Keeps(h),
           replay' = replay, HoldsMark(h)' \/ handed'[task[h].msg.id] > 0
    PROVE  SeenIsHanded'
<1>1. ASSUME NEW id, Carries(h, id), ~(handed'[id] > 0) PROVE Carries(h, id)'
  <2>1. HoldsMark(h)'
    BY <1>1 DEF Carries
  <2>2. task'[h] # Idle
    BY <2>1 DEF HoldsMark, InFlight, Idle
  <2> QED
    BY <1>1, <2>1, <2>2 DEF Carries, Keeps
<1> QED
  BY <1>1, SeatFacts, MoveKeepsCarried

LEMMA HandleKeepsCarried ==
    ASSUME "record" \notin Faults, "lock" \notin Faults,
           SeatTypeOK, CloseInv, SeenIsHanded, Grows, NEW h \in Handlers, Handle(h)
    PROVE  SeenIsHanded'
<1>0. h \in Workers
  BY SeatFacts
<1>1. ASSUME Alone(h), replay' = replay, task[h].pc \in {"anchor", "gate", "mark"}
      PROVE  SeenIsHanded'
  <2>1. \A id : ~Carries(h, id)
    BY <1>1 DEF Carries, HoldsMark
  <2> QED
    BY <1>0, <1>1, <2>1, MoveKeepsCarried
<1>2. CASE CheckAnchor(h) \/ GateExempt(h)
  <2>1. Alone(h) /\ replay' = replay
    BY <1>0, <1>2, Went, Answered DEF CheckAnchor, GateExempt
  <2> QED
    BY <1>1, <1>2, <2>1 DEF CheckAnchor, GateExempt
<1>3. CASE Gate(h)
  <2>1. Contest(h, "gate", "mark") /\ "gate" \in Places
    BY <1>3 DEF Gate, Places
  <2>2. Alone(h) /\ replay' = replay
    BY <1>0, <2>1, Contested
  <2> QED
    BY <1>1, <2>1, <2>2 DEF Contest
<1>4. CASE MarkSeen(h)
  <2>1. /\ Alone(h) /\ Keeps(h) /\ task'[h].pc \in {"record", "loop"}
        /\ task[h].pc = "mark" /\ replay' = replay \cup {task[h].msg.id}
    BY <1>0, <1>4, Went DEF MarkSeen
  <2>2. ASSUME NEW id \in replay', id \notin replay PROVE Carries(h, id)'
    <3>1. id = task'[h].msg.id
      BY <2>1, <2>2 DEF Keeps
    <3> QED
      BY <2>1, <3>1 DEF Carries, HoldsMark, InFlight, Idle
  <2>3. \A id : ~Carries(h, id)
    BY <2>1 DEF Carries, HoldsMark
  <2> QED
    BY <1>0, <2>1, <2>2, <2>3, MoveKeepsCarried
<1>5. CASE RecordDsn(h) \/ EnqueueWake(h)
  <2>1. /\ Alone(h) /\ Keeps(h) /\ task[h].pc # "idle" /\ replay' = replay
        /\ task[h].msg.id \in Ids /\ HandOn(task[h].msg.id)
    BY <1>0, <1>5, Went, Answered, TaskOf DEF RecordDsn, EnqueueWake
  <2>2. handed'[task[h].msg.id] > 0
    BY <2>1, HandedOn
  <2> QED
    BY <2>1, <2>2, CarriedMove
<1>6. CASE EnqueueFails(h) \/ ReleaseMinted(h)
  <2>1. /\ Alone(h) /\ Keeps(h) /\ replay' = replay
        /\ task'[h].pc \in {"release", "discard"}
    BY <1>0, <1>6, Went DEF EnqueueFails, ReleaseMinted
  <2>2. HoldsMark(h)'
    BY <2>1 DEF HoldsMark, InFlight
  <2> QED
    BY <2>1, <2>2, CarriedMove
<1>7. CASE RecordClose(h) \/ FreePair(h, "accepted")
  <2>1. /\ Alone(h) /\ Keeps(h) /\ task[h].pc \in {"close", "free"} /\ replay' = replay
        /\ handed' = handed
    BY <1>0, <1>7, Went, Answered DEF RecordClose, FreePair
  <2>2. handed'[task[h].msg.id] > 0
    BY <1>0, <2>1 DEF CloseInv, ClosersHandedOn
  <2> QED
    BY <2>1, <2>2, CarriedMove
<1>8. CASE DiscardMark(h)
  <2>1. Alone(h) /\ replay' = replay \ {task[h].msg.id}
    BY <1>0, <1>8, Answered DEF DiscardMark
  <2>2. \A id \in replay' : id \in replay /\ ~Carries(h, id)
    BY <2>1 DEF Carries
  <2> QED
    BY <1>0, <2>1, <2>2, MoveKeepsCarried
<1> QED
  BY <1>2, <1>3, <1>4, <1>5, <1>6, <1>7, <1>8 DEF Handle

LEMMA NextSeenIsHanded ==
    ASSUME "record" \notin Faults, "lock" \notin Faults
    PROVE  SeatTypeOK /\ CloseInv /\ SeenIsHanded /\ [SeatNext]_allVars => SeenIsHanded'
<1> SUFFICES ASSUME SeatTypeOK, CloseInv, SeenIsHanded, [SeatNext]_allVars
             PROVE  SeenIsHanded'
  OBVIOUS
<1>0. Grows
  BY NextGrows
<1>1. ASSUME NEW s \in Senders, Alone(s), replay' = replay PROVE SeenIsHanded'
  BY <1>0, <1>1, SeatFacts, MoveKeepsCarried
<1>2. ASSUME NEW h \in Handlers, NEW m \in Inbox, Receive(h, m) PROVE SeenIsHanded'
  <2>1. Alone(h) /\ replay' = replay /\ task[h] = Idle
    BY <1>2, ReceiveMove
  <2>2. \A id : ~Carries(h, id)
    BY <2>1 DEF Carries
  <2> QED
    BY <1>0, <2>1, <2>2, SeatFacts, MoveKeepsCarried
<1>3. ASSUME NEW s \in Senders, NEW m \in Outbox, Send(s, m) PROVE SeenIsHanded'
  BY <1>1, <1>3, SendMove
<1>4. ASSUME NEW s \in Senders, SenderDies(s) PROVE SeenIsHanded'
  BY <1>1, <1>4, SeatFacts, Answered DEF SenderDies, InFlight
<1>5. ASSUME NEW s \in Senders, Transmit(s) PROVE SeenIsHanded'
  BY <1>1, <1>5, TransmitAlone
<1>6. CASE Restart
  <2>1. replay' = {}
    BY <1>6 DEF Restart
  <2> QED
    BY <2>1 DEF SeenIsHanded
<1>7. ASSUME UNCHANGED <<task, handed>>, replay' \subseteq replay PROVE SeenIsHanded'
  BY <1>7 DEF SeenIsHanded, HoldsMark, InFlight
<1>8. CASE \E id \in Ids : Evict(id)
  BY <1>7, <1>8 DEF Evict
<1>9. CASE UNCHANGED seatVars
  BY <1>7, <1>9 DEF seatVars
<1>10. CASE Quiet \/ UNCHANGED allVars
  BY <1>9, <1>10 DEF Quiet, allVars
<1> QED
  BY <1>0, <1>2, <1>3, <1>4, <1>5, <1>6, <1>8, <1>9, <1>10, HandleKeepsCarried DEF SeatNext

\* When the registry answers and DSNs can be recorded, a marked id is that of a
\* message that was handed on, or of one a POST still carries: no failure to
\* enqueue leaves a mark behind, with restarts and a forgetful window beside it.
THEOREM SeenAreHanded ==
    ASSUME "record" \notin Faults, "lock" \notin Faults
    PROVE  SeatSpec => []SeenIsHanded
<1>1. SeatInit => SeenIsHanded
  BY DEF SeatInit, SeenIsHanded
<1> QED
  BY <1>1, NextSeenIsHanded, SeatCloses, SeatTypeCorrect, PTL DEF SeatSpec

-----------------------------------------------------------------------------
(* Leases of requests that failed *)

\* The registry only appends rows, takes them away, or refreshes them.
LEMMA NextDescends == TypeOK /\ [Next]_vars => Descends
<1> SUFFICES ASSUME TypeOK, [Next]_vars PROVE Descends
  OBVIOUS
<1>1. ASSUME NEW w \in Workers, Merge(w) PROVE Descends
  BY <1>1, MergeDescends
<1>2. ASSUME NEW w \in Workers, Mint(w) \/ MintBlind(w) PROVE Descends
  BY <1>2, MintDescends
<1>3. ASSUME entries' \subseteq entries, minted' = minted PROVE Descends
  BY <1>3, FewerDescend
<1>4. ASSUME NEW w \in Workers, Exempt(w) \/ Refuse(w) \/ \E q \in Requests : Begin(w, q)
      PROVE  Descends
  BY <1>3, <1>4 DEF Exempt, Refuse, Begin
<1>5. ASSUME NEW q \in Requests, ReleasePair(q.sender, q.peer) PROVE Descends
  BY <1>3, <1>5 DEF ReleasePair
<1>6. CASE Tick \/ (\E ws \in SUBSET Workers : Abandon(ws)) \/ ReleaseBlind \/ UNCHANGED vars
  BY <1>3, <1>6 DEF Tick, Abandon, ReleaseBlind, vars
<1> QED
  BY <1>1, <1>2, <1>4, <1>5, <1>6 DEF Next, Decide

\* A request that minted a thread and then failed has taken its row away.
Spent(w) ==
    /\ task[w].pc # "idle" /\ task[w].created
    /\ \/ task[w].pc = "discard"
       \/ task[w].pc = "done" /\ task[w].status \in {"error", "lost", "failed-unread"}
    => \A e \in entries : e.thread_id # task[w].thread

SpentInv == \A w \in Workers : Spent(w)

\* A row that is gone does not come back.
LEMMA GoneIsGone ==
    ASSUME SeatTypeOK, LeaseInv, Descends, NEW w \in Workers,
           task[w].pc # "idle", task[w].created,
           \A e \in entries : e.thread_id # task[w].thread
    PROVE  \A e \in entries' : e.thread_id # task[w].thread
<1>1. task[w].thread \in Nat /\ task[w].thread <= minted /\ minted \in Nat
  BY LocalTypes DEF LeaseInv, Own, SeatTypeOK, TypeOK
<1>2. ASSUME NEW f \in entries', f.thread_id > minted PROVE f.thread_id # task[w].thread
  BY <1>1, <1>2
<1> QED
  BY <1>2 DEF Descends

\* Whoever does not move stays spent.
LEMMA MoveKeepsSpent ==
    ASSUME SeatTypeOK, LeaseInv, SpentInv, Descends, NEW w \in Workers, Alone(w), Spent(w)'
    PROVE  SpentInv'
<1>1. ASSUME NEW v \in Workers, v # w PROVE Spent(v)'
  <2>1. task'[v] = task[v]
    BY <1>1 DEF Alone
  <2> QED
    BY <2>1, GoneIsGone DEF SpentInv, Spent
<1> QED
  BY <1>1 DEF SpentInv

\* A move to a place where nothing needs to be spent.
LEMMA FreshMove ==
    ASSUME SeatTypeOK, LeaseInv, SpentInv, Descends, NEW w \in Workers, Alone(w),
           \/ task'[w].pc \notin {"discard", "done"}
           \/ task'[w].pc = "done" /\ task'[w].status \notin {"error", "lost", "failed-unread"}
           \/ ~task'[w].created
    PROVE  SpentInv'
BY MoveKeepsSpent DEF Spent

LEMMA ContestKeepsSpent ==
    ASSUME "lock" \notin Faults, SeatTypeOK, LeaseInv, SpentInv, Descends,
           NEW w \in Workers, NEW from \in Places, NEW to \in {"mark", "wire"},
           Contest(w, from, to)
    PROVE  SpentInv'
<1>1. task[w].pc # "idle"
  BY DEF Contest, Places
<1>2. \/ Refuse(w) /\ Answer(w, "busy")
      \/ \E thread, created : Granted(w, to, thread, created)
  BY DEF Contest
<1>3. /\ Alone(w)
      /\ \/ task'[w].pc \in {"mark", "wire"}
         \/ task'[w].pc = "done" /\ task'[w].status = "busy"
  BY <1>1, <1>2, Answered, WasGranted
<1> QED
  BY <1>3, FreshMove

LEMMA HandleKeepsSpent ==
    ASSUME "lock" \notin Faults, "record" \notin Faults, "close" \notin Faults, ~ReadFaults,
           SeatTypeOK, LeaseInv, SpentInv, Descends, NEW h \in Handlers, Handle(h)
    PROVE  SpentInv'
<1>0. h \in Workers
  BY SeatFacts
<1>1. CASE Gate(h)
  <2>1. Contest(h, "gate", "mark") /\ "gate" \in Places
    BY <1>1 DEF Gate, Places
  <2> QED
    BY <1>0, <2>1, ContestKeepsSpent
<1>2. CASE EnqueueFails(h)
  <2>1. /\ Alone(h) /\ Keeps(h)
        /\ task'[h].pc = IF task[h].created THEN "release" ELSE "discard"
    BY <1>0, <1>2, Went DEF EnqueueFails
  <2>2. task[h].created \in BOOLEAN
    BY <1>0, <1>2, LocalTypes DEF EnqueueFails
  <2>3. task'[h].pc = "release" \/ ~task'[h].created
    BY <2>1, <2>2 DEF Keeps
  <2> QED
    BY <1>0, <2>1, <2>3, FreshMove
<1>3. CASE ReleaseMinted(h)
  <2>1. /\ Alone(h) /\ Keeps(h) /\ task'[h].pc = "discard" /\ task[h].pc = "release"
        /\ Release(task[h].msg)
    BY <1>0, <1>3, Went DEF ReleaseMinted, ReleaseBlind
  <2>2. task[h].created /\ \A e \in entries : e.thread_id = task[h].thread =>
            IsPair(e, task[h].msg.sender, task[h].msg.recipient)
    BY <1>0, <2>1 DEF LeaseInv, Own
  <2>3. \A e \in entries' : e \in entries /\ e.thread_id # task[h].thread
    BY <2>1, <2>2, Released
  <2>4. Spent(h)'
    BY <2>1, <2>3 DEF Spent, Keeps
  <2> QED
    BY <1>0, <2>1, <2>4, MoveKeepsSpent
<1>4. CASE DiscardMark(h)
  <2>1. Alone(h) /\ Keeps(h) /\ task[h].pc = "discard" /\ entries' = entries
    BY <1>0, <1>4, Answered DEF DiscardMark, vars
  <2>2. Spent(h)'
    BY <1>0, <2>1 DEF SpentInv, Spent, Keeps
  <2> QED
    BY <1>0, <2>1, <2>2, MoveKeepsSpent
<1>5. CASE CheckAnchor(h) \/ GateExempt(h) \/ MarkSeen(h) \/ RecordDsn(h)
           \/ EnqueueWake(h) \/ RecordClose(h) \/ FreePair(h, "accepted")
  <2>1. /\ Alone(h)
        /\ \/ task'[h].pc \notin {"discard", "done"}
           \/ task'[h].pc = "done" /\ task'[h].status \in {"closed", "accepted"}
    BY <1>0, <1>5, Went, Answered
       DEF CheckAnchor, GateExempt, MarkSeen, RecordDsn, EnqueueWake, RecordClose, FreePair
  <2> QED
    BY <1>0, <2>1, FreshMove
<1> QED
  BY <1>1, <1>2, <1>3, <1>4, <1>5 DEF Handle

LEMMA TransmitKeepsSpent ==
    ASSUME "lock" \notin Faults, "close" \notin Faults, ~ReadFaults,
           SeatTypeOK, LeaseInv, SpentInv, Descends, NEW s \in Senders, Transmit(s)
    PROVE  SpentInv'
<1>0. s \in Workers
  BY SeatFacts
<1>1. CASE Claim(s)
  <2>1. Contest(s, "claim", "wire") /\ "claim" \in Places
    BY <1>1 DEF Claim, Places
  <2> QED
    BY <1>0, <2>1, ContestKeepsSpent
<1>2. CASE Delivered(s) \/ WireFails(s) \/ GiveUp(s) \/ RecordClose(s)
           \/ FreePair(s, "delivered")
  <2>1. /\ Alone(s)
        /\ \/ task'[s].pc \notin {"discard", "done"}
           \/ task'[s].pc = "done" /\ task'[s].status \in {"delivered", "failed"}
    BY <1>0, <1>2, Went, Answered
       DEF Delivered, WireFails, GiveUp, RecordClose, FreePair, ReleaseBlind
  <2> QED
    BY <1>0, <2>1, FreshMove
<1> QED
  BY <1>1, <1>2 DEF Transmit

\* The registry can be locked, read and written, closes and DSNs can be written,
\* and no process dies: what is left to fail is the wake and the wire.
NoFailures ==
    /\ Faults \cap {"lock", "record", "close", "die"} = {}
    /\ ~ReadFaults
    /\ MaxRestarts = 0

LEMMA NextSpentInv ==
    ASSUME NoFailures
    PROVE  SeatTypeOK /\ LeaseInv /\ SpentInv /\ [SeatNext]_allVars => SpentInv'
<1> SUFFICES ASSUME SeatTypeOK, LeaseInv, SpentInv, [SeatNext]_allVars PROVE SpentInv'
  OBVIOUS
<1>0. Descends
  BY RegistryStep, NextDescends DEF SeatTypeOK
<1>1. ASSUME NEW h \in Handlers, NEW m \in Inbox, Receive(h, m) PROVE SpentInv'
  <2>1. Alone(h) /\ task'[h].created = FALSE
    BY <1>1, ReceiveMove
  <2> QED
    BY <1>0, <2>1, SeatFacts, FreshMove
<1>2. ASSUME NEW s \in Senders, NEW m \in Outbox, Send(s, m) PROVE SpentInv'
  <2>1. Alone(s) /\ task'[s].created = FALSE
    BY <1>2, SendMove
  <2> QED
    BY <1>0, <2>1, SeatFacts, FreshMove
<1>3. ~Restart /\ \A s \in Senders : ~SenderDies(s)
  BY DEF Restart, SenderDies, SeatTypeOK, NoFailures
<1>4. ASSUME UNCHANGED <<task, entries>> PROVE SpentInv'
  BY <1>4 DEF SpentInv, Spent
<1>5. CASE (\E id \in Ids : Evict(id)) \/ (Tick /\ UNCHANGED seatVars) \/ Quiet
           \/ UNCHANGED allVars
  BY <1>4, <1>5 DEF Evict, Tick, Quiet, allVars, seatVars, vars
<1>6. ASSUME NEW h \in Handlers, Handle(h) PROVE SpentInv'
  BY <1>0, <1>6, HandleKeepsSpent DEF NoFailures
<1>7. ASSUME NEW s \in Senders, Transmit(s) PROVE SpentInv'
  BY <1>0, <1>7, TransmitKeepsSpent DEF NoFailures
<1> QED
  BY <1>1, <1>2, <1>3, <1>5, <1>6, <1>7 DEF SeatNext

\* In a process that lives, whose files can be read and written, no lease outlives a
\* request that failed: every row is the thread of a request that is under way
\* or whose message was accepted or delivered, however often the wake or the
\* wire fails.
THEOREM LeasesDoNotLeak ==
    ASSUME NoFailures
    PROVE  SeatSpec => []NoLeakedLease
<1>1. SeatInit => SpentInv
  BY DEF SeatInit, Idle, SpentInv, Spent
<1>2. LeaseInv /\ SpentInv => NoLeakedLease
  <2> SUFFICES ASSUME LeaseInv, SpentInv, NEW e \in entries
               PROVE  \E w \in Workers : /\ task[w].pc # "idle"
                                         /\ task[w].thread = e.thread_id
                                         /\ InFlight(w) \/ Succeeded(w)
    BY DEF NoLeakedLease
  <2>1. PICK w \in Workers : Answers(w, e.thread_id)
    BY DEF LeaseInv, LeakIsReported, Answers
  <2>2. InFlight(w) \/ Succeeded(w)
    BY <2>1 DEF Answers, SpentInv, Spent, Succeeded, InFlight
  <2> QED
    BY <2>1, <2>2 DEF Answers
<1> QED
  BY <1>1, <1>2, NextSpentInv, SeatLeases, SeatTypeCorrect, PTL DEF SeatSpec

-----------------------------------------------------------------------------
(* The busy check of a send *)

\* Every row and every call is one of this seat, and so is every envelope past
\* the address check.
RowsOfMe == \A e \in entries : Me \in Parties(e)

CallsOfMe ==
    /\ \A w \in Workers : call[w] # NoCall => Me \in {call[w].sender, call[w].peer}
    /\ \A s \in Senders : call[s] # NoCall => call[s].sender = Me

TasksOfMe == \A h \in Handlers : task[h].pc = "anchor" => task[h].msg.recipient = Me

OwnInv == RowsOfMe /\ CallsOfMe /\ TasksOfMe /\ OnlySelfIsBusy

LEMMA ContestKeepsOwn ==
    ASSUME SeatTypeOK, LeaseInv, OwnInv, NEW w \in Workers, NEW from \in {"gate", "claim"},
           NEW to \in {"mark", "wire"}, Contest(w, from, to)
    PROVE  OwnInv'
<1>0. from \in Places
  BY DEF Places
<1>1. /\ Alone(w) /\ task'[w].msg = task[w].msg
      /\ \/ task'[w].pc = "done" /\ task'[w].status \in {"busy", "error"}
         \/ task'[w].pc = to
  BY <1>0, Contested
<1>2. RowsOfMe'
  <2>1. CASE Merge(w)
    BY <2>1, MergeDescends DEF SeatTypeOK, OwnInv, RowsOfMe
  <2>2. CASE Mint(w) \/ MintBlind(w)
    <3>1. Me \in {call[w].sender, call[w].peer}
      BY <2>2, ClaimIsCall DEF OwnInv, CallsOfMe, Mint, MintBlind, Claims
    <3> QED
      BY <2>2, <3>1, MintedRow DEF SeatTypeOK, OwnInv, RowsOfMe
  <2>3. CASE entries' = entries
    BY <2>3 DEF OwnInv, RowsOfMe
  <2> QED
    BY <1>0, <2>1, <2>2, <2>3, Contested
<1>3. call' \in [Workers -> Call \cup {NoCall}] /\
          \A v \in Workers : call'[v] = call[v] \/ call'[v] = NoCall
  BY DEF Contest, Merge, Mint, MintBlind, Refuse, Abandon, Return, SeatTypeOK, TypeOK
<1>4. CallsOfMe'
  BY <1>3, SeatFacts DEF OwnInv, CallsOfMe
<1>5. TasksOfMe'
  BY <1>1, SeatFacts DEF Alone, OwnInv, TasksOfMe
<1>6. w \in Senders /\ Refuse(w) => task[w].msg.recipient = Me
  <2> SUFFICES ASSUME w \in Senders, Refuse(w) PROVE task[w].msg.recipient = Me
    OBVIOUS
  <2>1. call[w] # NoCall /\ call[w].sender = Me
    BY DEF OwnInv, CallsOfMe, Refuse, Claims
  <2>2. PICK e \in entries : e.peer = call[w].peer /\ e.opened_by # call[w].sender
    BY DEF Refuse, BusyRows
  <2>3. Me \in Parties(e)
    BY DEF OwnInv, RowsOfMe
  <2>4. call[w].peer = Me
    BY <2>1, <2>2, <2>3 DEF Parties
  <2>5. task[w].pc \in {"gate", "claim"} /\ Own(w)
    BY DEF Contest, LeaseInv
  <2> QED
    BY <2>1, <2>4, <2>5 DEF Own
<1>7. w \in Senders /\ task'[w].pc = "done" /\ task'[w].status = "busy" =>
          task'[w].msg.recipient = Me
  <2>1. task[w].pc # "idle"
    BY <1>0 DEF Contest, Places
  <2>2. CASE Refuse(w)
    BY <1>1, <1>6, <2>2
  <2>3. CASE Answer(w, "error") \/ \E thread, created : Granted(w, to, thread, created)
    BY <2>1, <2>3, Answered, WasGranted
  <2> QED
    BY <2>2, <2>3 DEF Contest
<1>8. OnlySelfIsBusy'
  BY <1>1, <1>7, SeatFacts DEF Alone, OwnInv, OnlySelfIsBusy
<1> QED
  BY <1>2, <1>4, <1>5, <1>8 DEF OwnInv

\* What a move of one worker beside the contests may do to its task.
MovesOwn(w) ==
    /\ w \in Handlers /\ task'[w].pc = "anchor" => task'[w].msg.recipient = Me
    /\ w \in Senders =>
          (task'[w].pc = "done" /\ task'[w].status = "busy" => task'[w].msg.recipient = Me)

LEMMA TasksKeepOwn ==
    ASSUME OwnInv, NEW w \in Workers, Alone(w), MovesOwn(w)
    PROVE  TasksOfMe' /\ OnlySelfIsBusy'
<1>1. TasksOfMe'
  BY SeatFacts DEF Alone, OwnInv, TasksOfMe, MovesOwn
<1>2. OnlySelfIsBusy'
  BY SeatFacts DEF Alone, OwnInv, OnlySelfIsBusy, MovesOwn
<1> QED
  BY <1>1, <1>2

LEMMA PlainKeepsOwn ==
    ASSUME SeatTypeOK, OwnInv, NEW w \in Workers, Alone(w), MovesOwn(w),
           entries' \subseteq entries,
           \A v \in Workers : call'[v] = call[v] \/ call'[v] = NoCall
    PROVE  OwnInv'
<1>1. RowsOfMe'
  BY DEF OwnInv, RowsOfMe
<1>2. CallsOfMe'
  BY SeatFacts DEF OwnInv, CallsOfMe
<1> QED
  BY <1>1, <1>2, TasksKeepOwn DEF OwnInv

\* A call for an envelope to this seat, or for one of its own.
LEMMA AskKeepsOwn ==
    ASSUME SeatTypeOK, OwnInv, NEW w \in Workers, Alone(w), MovesOwn(w),
           NEW m, Begin(w, Asks(m)),
           \/ w \notin Senders /\ m.recipient = Me
           \/ m.sender = Me
    PROVE  OwnInv'
<1>1. RowsOfMe'
  BY DEF OwnInv, RowsOfMe, Begin
<1>2. /\ call'[w].sender = m.sender /\ call'[w].peer = m.recipient
      /\ \A v \in Workers \ {w} : call'[v] = call[v]
  BY DEF Begin, Asks, SeatTypeOK, TypeOK
<1>3. CallsOfMe'
  BY <1>2, SeatFacts DEF OwnInv, CallsOfMe
<1> QED
  BY <1>1, <1>3, TasksKeepOwn DEF OwnInv

LEMMA HandleKeepsOwn ==
    ASSUME SeatTypeOK, LeaseInv, OwnInv, NEW h \in Handlers, Handle(h)
    PROVE  OwnInv'
<1>0. h \in Workers /\ h \notin Senders
  BY SeatFacts
<1>1. CASE Gate(h)
  <2>1. Contest(h, "gate", "mark")
    BY <1>1 DEF Gate
  <2> QED
    BY <1>0, <2>1, ContestKeepsOwn
<1>2. CASE CheckAnchor(h)
  <2>1. Alone(h) /\ task'[h].pc # "anchor"
    BY <1>0, <1>2, Went, Answered DEF CheckAnchor
  <2>2. task[h].msg.recipient = Me
    BY <1>2 DEF CheckAnchor, OwnInv, TasksOfMe
  <2>3. MovesOwn(h)
    BY <1>0, <2>1 DEF MovesOwn
  <2>4. CASE UNCHANGED vars
    BY <1>0, <2>1, <2>3, <2>4, PlainKeepsOwn DEF vars
  <2>5. CASE Begin(h, Asks(task[h].msg))
    BY <1>0, <2>1, <2>2, <2>3, <2>5, AskKeepsOwn
  <2> QED
    BY <1>2, <2>4, <2>5 DEF CheckAnchor
<1>3. CASE GateExempt(h) \/ MarkSeen(h) \/ RecordDsn(h) \/ EnqueueWake(h) \/ EnqueueFails(h)
           \/ ReleaseMinted(h) \/ DiscardMark(h) \/ RecordClose(h) \/ FreePair(h, "accepted")
  <2>1. Alone(h) /\ task'[h].pc # "anchor"
    BY <1>0, <1>3, Went, Answered
       DEF GateExempt, MarkSeen, RecordDsn, EnqueueWake, EnqueueFails, ReleaseMinted,
           DiscardMark, RecordClose, FreePair
  <2>2. entries' \subseteq entries /\ \A v \in Workers : call'[v] = call[v] \/ call'[v] = NoCall
    BY <1>0, <1>3, Released, BlindStep
       DEF GateExempt, MarkSeen, RecordDsn, EnqueueWake, EnqueueFails, ReleaseMinted,
           DiscardMark, RecordClose, FreePair, Exempt, Return, vars, SeatTypeOK, TypeOK
  <2> QED
    BY <1>0, <2>1, <2>2, PlainKeepsOwn DEF MovesOwn
<1> QED
  BY <1>1, <1>2, <1>3 DEF Handle

LEMMA TransmitKeepsOwn ==
    ASSUME SeatTypeOK, LeaseInv, OwnInv, NEW s \in Senders, Transmit(s)
    PROVE  OwnInv'
<1>0. s \in Workers /\ s \notin Handlers
  BY SeatFacts
<1>1. CASE Claim(s)
  <2>1. Contest(s, "claim", "wire")
    BY <1>1 DEF Claim
  <2> QED
    BY <1>0, <2>1, ContestKeepsOwn
<1>2. CASE Delivered(s) \/ WireFails(s) \/ GiveUp(s) \/ RecordClose(s)
           \/ FreePair(s, "delivered")
  <2>1. Alone(s) /\ (task'[s].pc # "done" \/ task'[s].status # "busy")
    BY <1>0, <1>2, Went, Answered
       DEF Delivered, WireFails, GiveUp, RecordClose, FreePair
  <2>2. entries' \subseteq entries /\ call' = call
    BY <1>2, Released, BlindStep DEF Delivered, WireFails, GiveUp, RecordClose, FreePair, vars
  <2> QED
    BY <1>0, <2>1, <2>2, PlainKeepsOwn DEF MovesOwn
<1> QED
  BY <1>1, <1>2 DEF Transmit

LEMMA NextOwnInv == SeatTypeOK /\ LeaseInv /\ OwnInv /\ [SeatNext]_allVars => OwnInv'
<1> SUFFICES ASSUME SeatTypeOK, LeaseInv, OwnInv, [SeatNext]_allVars PROVE OwnInv'
  OBVIOUS
<1>1. ASSUME NEW h \in Handlers, NEW m \in Inbox, Receive(h, m) PROVE OwnInv'
  <2>0. h \in Workers /\ h \notin Senders
    BY SeatFacts
  <2>1. Alone(h) /\ (task'[h].pc = "anchor" => task'[h].msg.recipient = Me)
    BY <1>1, ReceiveMove
  <2>2. entries' = entries /\ call' = call
    BY <1>1, ReceiveMove DEF vars
  <2> QED
    BY <2>0, <2>1, <2>2, PlainKeepsOwn DEF MovesOwn
<1>2. ASSUME NEW s \in Senders, NEW m \in Outbox, Send(s, m) PROVE OwnInv'
  <2>0. s \in Workers /\ s \notin Handlers /\ m.sender = Me
    BY SeatFacts, SeatAssumption
  <2>1. Alone(s) /\ (task'[s].pc # "done" \/ task'[s].status # "busy")
    BY <1>2, SendMove
  <2>2. CASE UNCHANGED vars
    BY <2>0, <2>1, <2>2, PlainKeepsOwn DEF vars, MovesOwn
  <2>3. CASE Begin(s, Asks(m))
    BY <2>0, <2>1, <2>3, AskKeepsOwn DEF MovesOwn
  <2> QED
    BY <1>2, <2>2, <2>3, SendMove
<1>3. ASSUME NEW s \in Senders, SenderDies(s) PROVE OwnInv'
  <2>0. s \in Workers /\ s \notin Handlers
    BY SeatFacts
  <2>1. Alone(s) /\ task'[s].status = "lost"
    BY <1>3, <2>0, Answered DEF SenderDies, InFlight
  <2>2. entries' = entries /\ \A v \in Workers : call'[v] = call[v] \/ call'[v] = NoCall
    BY <1>3 DEF SenderDies, Abandon
  <2> QED
    BY <2>0, <2>1, <2>2, PlainKeepsOwn DEF MovesOwn
<1>4. CASE Restart
  <2>1. entries' = entries /\ \A v \in Workers : call'[v] = NoCall
    BY <1>4 DEF Restart, Abandon
  <2>2. RowsOfMe' /\ CallsOfMe'
    BY <2>1, SeatFacts DEF OwnInv, RowsOfMe, CallsOfMe
  <2>3. TasksOfMe' /\ OnlySelfIsBusy'
    BY <1>4, SeatFacts, Restarted DEF OwnInv, TasksOfMe, OnlySelfIsBusy
  <2> QED
    BY <2>2, <2>3 DEF OwnInv
<1>5. ASSUME UNCHANGED <<task, entries, call>> PROVE OwnInv'
  BY <1>5 DEF OwnInv, RowsOfMe, CallsOfMe, TasksOfMe, OnlySelfIsBusy
<1>6. CASE (\E id \in Ids : Evict(id)) \/ (Tick /\ UNCHANGED seatVars) \/ Quiet
           \/ UNCHANGED allVars
  BY <1>5, <1>6 DEF Evict, Tick, Quiet, allVars, seatVars, vars
<1> QED
  BY <1>1, <1>2, <1>3, <1>4, <1>6, HandleKeepsOwn, TransmitKeepsOwn DEF SeatNext

\* A send is refused as busy only if it is addressed to the seat it is sent from,
\* whatever fails: in a registry one seat writes alone every row has the seat for
\* a party, so one that names another agent as its peer was opened by the seat.
THEOREM OnlySelfIsRefused == SeatSpec => []OnlySelfIsBusy
<1>1. SeatInit => OwnInv
  BY SeatFacts DEF SeatInit, Init, Idle, OwnInv, RowsOfMe, CallsOfMe, TasksOfMe,
     OnlySelfIsBusy
<1>2. OwnInv => OnlySelfIsBusy
  BY DEF OwnInv
<1> QED
  BY <1>1, <1>2, NextOwnInv, SeatLeases, SeatTypeCorrect, PTL DEF SeatSpec
-----------------------------------------------------------------------------
(* No worker goes back *)

\* What WorkersAdvance says of a step.
Onward(w) ==
    task[w].pc # "idle" =>
        \/ task'[w] = task[w]
        \/ Station(w)' > Station(w) /\ task'[w].msg = task[w].msg

\* A worker's own step leaves the others where they are.
LEMMA OthersStay ==
    ASSUME NEW w \in Workers, Alone(w), NEW v \in Workers, v # w
    PROVE  Onward(v)
BY DEF Alone, Onward

LEMMA ContestAdvances ==
    ASSUME SeatTypeOK, NEW w \in Workers, NEW from \in {"gate", "claim"},
           NEW to \in {"mark", "wire"}, Contest(w, from, to)
    PROVE  Alone(w) /\ Onward(w)
<1>1. from \in Places
  BY DEF Places
<1>2. /\ Alone(w) /\ task'[w].msg = task[w].msg
      /\ task'[w].pc \in {"done", "mark", "wire"}
  BY <1>1, Contested
<1>3. task[w].pc \in {"gate", "claim"}
  BY DEF Contest
<1> QED
  BY <1>2, <1>3 DEF Onward, Station

LEMMA HandleAdvances ==
    ASSUME SeatTypeOK, NEW h \in Handlers, Handle(h)
    PROVE  Alone(h) /\ Onward(h)
<1> USE DEF Onward, Station
<1>0. h \in Workers
  BY SeatFacts
<1>1. CASE CheckAnchor(h)
  <2>1. task[h].pc = "anchor"
    BY <1>1 DEF CheckAnchor
  <2>2. Goto(h, "mark") \/ Answer(h, "closed") \/ Goto(h, "gate")
    BY <1>1 DEF CheckAnchor
  <2>3. Alone(h) /\ Keeps(h) /\ task'[h].pc \in {"mark", "done", "gate"}
    BY <1>0, <2>1, <2>2, Went, Answered
  <2> QED
    BY <2>1, <2>3 DEF Keeps
<1>2. CASE Gate(h)
  BY <1>0, <1>2, ContestAdvances DEF Gate
<1>3. CASE GateExempt(h)
  <2>1. task[h].pc = "gate" /\ Goto(h, "mark")
    BY <1>3 DEF GateExempt
  <2>2. Alone(h) /\ Keeps(h) /\ task'[h].pc = "mark"
    BY <1>0, <2>1, Went
  <2> QED
    BY <2>1, <2>2 DEF Keeps
<1>4. CASE MarkSeen(h)
  <2>1. task[h].pc = "mark" /\ (Goto(h, "record") \/ Goto(h, "loop"))
    BY <1>4 DEF MarkSeen
  <2>2. Alone(h) /\ Keeps(h) /\ task'[h].pc \in {"record", "loop"}
    BY <1>0, <2>1, Went
  <2> QED
    BY <2>1, <2>2 DEF Keeps
<1>5. CASE RecordDsn(h)
  <2>1. task[h].pc = "record" /\ (Answer(h, "accepted") \/ Answer(h, "error"))
    BY <1>5 DEF RecordDsn
  <2>2. Alone(h) /\ Keeps(h) /\ task'[h].pc = "done"
    BY <1>0, <2>1, Answered
  <2> QED
    BY <2>1, <2>2 DEF Keeps
<1>6. CASE EnqueueWake(h)
  <2>1. task[h].pc = "loop" /\ (Goto(h, "close") \/ Answer(h, "accepted"))
    BY <1>6 DEF EnqueueWake
  <2>2. Alone(h) /\ Keeps(h) /\ task'[h].pc \in {"close", "done"}
    BY <1>0, <2>1, Went, Answered
  <2> QED
    BY <2>1, <2>2 DEF Keeps
<1>7. CASE EnqueueFails(h)
  <2>1. task[h].pc = "loop" /\ (Goto(h, "release") \/ Goto(h, "discard"))
    BY <1>7 DEF EnqueueFails
  <2>2. Alone(h) /\ Keeps(h) /\ task'[h].pc \in {"release", "discard"}
    BY <1>0, <2>1, Went
  <2> QED
    BY <2>1, <2>2 DEF Keeps
<1>8. CASE ReleaseMinted(h)
  <2>1. task[h].pc = "release" /\ (Goto(h, "discard") \/ Answer(h, "error"))
    BY <1>8 DEF ReleaseMinted
  <2>2. Alone(h) /\ Keeps(h) /\ task'[h].pc \in {"discard", "done"}
    BY <1>0, <2>1, Went, Answered
  <2> QED
    BY <2>1, <2>2 DEF Keeps
<1>9. CASE DiscardMark(h)
  <2>1. task[h].pc = "discard" /\ Answer(h, "error")
    BY <1>9 DEF DiscardMark
  <2>2. Alone(h) /\ Keeps(h) /\ task'[h].pc = "done"
    BY <1>0, <2>1, Answered
  <2> QED
    BY <2>1, <2>2 DEF Keeps
<1>10. CASE RecordClose(h)
  <2>1. task[h].pc = "close" /\ (Goto(h, "free") \/ Answer(h, "error"))
    BY <1>10 DEF RecordClose
  <2>2. Alone(h) /\ Keeps(h) /\ task'[h].pc \in {"free", "done"}
    BY <1>0, <2>1, Went, Answered
  <2> QED
    BY <2>1, <2>2 DEF Keeps
<1>11. CASE FreePair(h, "accepted")
  <2>1. task[h].pc = "free" /\ (Answer(h, "accepted") \/ Answer(h, "error"))
    BY <1>11 DEF FreePair
  <2>2. Alone(h) /\ Keeps(h) /\ task'[h].pc = "done"
    BY <1>0, <2>1, Answered
  <2> QED
    BY <2>1, <2>2 DEF Keeps
<1> QED
  BY <1>1, <1>2, <1>3, <1>4, <1>5, <1>6, <1>7, <1>8, <1>9, <1>10, <1>11 DEF Handle

LEMMA TransmitAdvances ==
    ASSUME SeatTypeOK, NEW s \in Senders, Transmit(s)
    PROVE  Alone(s) /\ Onward(s)
<1> USE DEF Onward, Station
<1>0. s \in Workers
  BY SeatFacts
<1>1. CASE Claim(s)
  BY <1>0, <1>1, ContestAdvances DEF Claim
<1>2. CASE Delivered(s)
  <2>1. task[s].pc = "wire" /\ (Goto(s, "close") \/ Answer(s, "delivered"))
    BY <1>2 DEF Delivered
  <2>2. Alone(s) /\ Keeps(s) /\ task'[s].pc \in {"close", "done"}
    BY <1>0, <2>1, Went, Answered
  <2> QED
    BY <2>1, <2>2 DEF Keeps
<1>3. CASE WireFails(s)
  <2>1. task[s].pc = "wire" /\ (Goto(s, "giveup") \/ Answer(s, "failed"))
    BY <1>3 DEF WireFails
  <2>2. Alone(s) /\ Keeps(s) /\ task'[s].pc \in {"giveup", "done"}
    BY <1>0, <2>1, Went, Answered
  <2> QED
    BY <2>1, <2>2 DEF Keeps
<1>4. CASE GiveUp(s)
  <2>1. task[s].pc = "giveup" /\ (\E status : Answer(s, status))
    BY <1>4 DEF GiveUp
  <2>2. Alone(s) /\ Keeps(s) /\ task'[s].pc = "done"
    BY <1>0, <2>1, Answered
  <2> QED
    BY <2>1, <2>2 DEF Keeps
<1>5. CASE RecordClose(s)
  <2>1. task[s].pc = "close" /\ (Goto(s, "free") \/ Answer(s, "error"))
    BY <1>5 DEF RecordClose
  <2>2. Alone(s) /\ Keeps(s) /\ task'[s].pc \in {"free", "done"}
    BY <1>0, <2>1, Went, Answered
  <2> QED
    BY <2>1, <2>2 DEF Keeps
<1>6. CASE FreePair(s, "delivered")
  <2>1. task[s].pc = "free" /\ (Answer(s, "delivered") \/ Answer(s, "error"))
    BY <1>6 DEF FreePair
  <2>2. Alone(s) /\ Keeps(s) /\ task'[s].pc = "done"
    BY <1>0, <2>1, Answered
  <2> QED
    BY <2>1, <2>2 DEF Keeps
<1> QED
  BY <1>1, <1>2, <1>3, <1>4, <1>5, <1>6 DEF Transmit

\* Who is cut off in the middle is answered, too.
LEMMA CutOff ==
    ASSUME SeatTypeOK, NEW w \in Workers, InFlight(w), Keeps(w), task'[w].pc = "done"
    PROVE  Onward(w)
<1>1. task[w] \in Task /\ task[w].pc \notin {"idle", "done"}
  BY TaskOf DEF InFlight
<1>2. task[w].pc \in Places
  BY <1>1 DEF Task, Places
<1>3. Station(w) < 7
  BY <1>1, <1>2 DEF Places, Station
<1>4. Station(w)' = 7
  BY DEF Station
<1> QED
  BY <1>3, <1>4 DEF Onward, Keeps

LEMMA NextAdvances ==
    ASSUME SeatTypeOK, [SeatNext]_allVars, NEW w \in Workers
    PROVE  Onward(w)
<1>1. ASSUME NEW h \in Handlers, NEW m \in Inbox, Receive(h, m) PROVE Onward(w)
  <2>1. Alone(h) /\ task[h] = Idle
    BY <1>1, ReceiveMove
  <2>2. CASE h = w
    BY <2>1, <2>2 DEF Onward, Idle
  <2>3. CASE h # w
    BY <2>1, <2>3, SeatFacts, OthersStay
  <2> QED
    BY <2>2, <2>3
<1>2. ASSUME NEW h \in Handlers, Handle(h) PROVE Onward(w)
  BY <1>2, HandleAdvances, SeatFacts, OthersStay
<1>3. ASSUME NEW s \in Senders, NEW m \in Outbox, Send(s, m) PROVE Onward(w)
  <2>1. Alone(s) /\ task[s] = Idle
    BY <1>3, SendMove
  <2>2. CASE s = w
    BY <2>1, <2>2 DEF Onward, Idle
  <2>3. CASE s # w
    BY <2>1, <2>3, SeatFacts, OthersStay
  <2> QED
    BY <2>2, <2>3
<1>4. ASSUME NEW s \in Senders, Transmit(s) PROVE Onward(w)
  BY <1>4, TransmitAdvances, SeatFacts, OthersStay
<1>5. ASSUME NEW s \in Senders, SenderDies(s) PROVE Onward(w)
  <2>1. s \in Workers /\ InFlight(s) /\ task[s].pc # "idle" /\ Answer(s, "lost")
    BY <1>5, SeatFacts DEF SenderDies, InFlight
  <2>2. Alone(s) /\ Keeps(s) /\ task'[s].pc = "done"
    BY <2>1, Answered
  <2> QED
    BY <2>1, <2>2, CutOff, OthersStay
<1>6. CASE Restart
  BY <1>6, Restarted, CutOff DEF Onward
<1>7. CASE UNCHANGED task
  BY <1>7 DEF Onward
<1> QED
  BY <1>1, <1>2, <1>3, <1>4, <1>5, <1>6, <1>7
     DEF SeatNext, Evict, Quiet, allVars, seatVars

\* No POST and no send goes back or is answered twice, whatever fails, dies or
\* restarts: each has seven steps at most, which is the half of PostsAnswered
\* that needs no fairness.
THEOREM WorkersGoForward == SeatSpec => WorkersAdvance
<1>1. SeatTypeOK /\ [SeatNext]_allVars =>
          \A w \in Workers : task[w].pc # "idle" =>
              \/ task'[w] = task[w]
              \/ Station(w)' > Station(w) /\ task'[w].msg = task[w].msg
  BY NextAdvances DEF Onward
<1> QED
  BY <1>1, SeatTypeCorrect, PTL DEF SeatSpec, WorkersAdvance
=============================================================================
