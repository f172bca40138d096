------------------------------ MODULE MeshSeat ------------------------------
(***************************************************************************)
(* One seat of the mesh: the POSTs its ingress handles (ingress.py handle, *)
(* core.py verify_request and commit_terminator) and the sends its tools   *)
(* make (core.py send), over the registry of OpenThreads in its vault.     *)
(*                                                                         *)
(* A handler is one POST, a sender one call of send; several POSTs may     *)
(* carry one envelope, which is what a retry does.  verify_request runs in *)
(* the thread pool, so the POSTs interleave at every step of it.  What     *)
(* handle does after its await runs on the one event loop: a handler there *)
(* excludes the other handlers' loop sections (LoopFree), and nothing else.*)
(***************************************************************************)
EXTENDS OpenThreads

CONSTANTS
    Me,             \* agent_name of this seat
    Peers,          \* the agents the vault holds a URL and a key for; a seat
                    \* that joined the mesh is among its own
    Handlers,       \* POSTs
    Senders,        \* calls of send
    Inbox,          \* envelopes a POST may carry
    Outbox,         \* envelopes a send may make
    Faults,         \* what may go wrong, see below
    MaxRestarts     \* bound on the restarts of the process

\* "wake"    wake_queue.enqueue raises        "record"  a DSN cannot be recorded
\* "lock"    a registry operation raises      "close"   the close cannot be written
\* "wire"    a delivery ends in an error     "die"     the process of a sender dies
\* "evict"   the replay window forgets an id (its ttl or its size)
FaultKinds == {"wake", "record", "lock", "close", "wire", "die", "evict"}

Envelopes == Inbox \cup Outbox

Asks(m) == [sender |-> m.sender, peer |-> m.recipient, reply |-> m.reply]

ASSUME SeatAssumption ==
    /\ Me \in Agents
    /\ Peers \subseteq Agents
    /\ Workers = Handlers \cup Senders
    /\ Handlers \cap Senders = {}
    /\ \A m \in Envelopes :
          /\ {m.sender, m.recipient} \subseteq Agents
          /\ m.reply \in Replies
          /\ m.dsn \in {"no", "header", "body"}
          /\ Asks(m) \in Requests
    /\ \A m \in Outbox : m.sender = Me /\ m.dsn = "no"
    /\ Faults \subseteq FaultKinds
    /\ MaxRestarts \in Nat

VARIABLES
    task,       \* each worker's place in its handler, and its locals
    replay,     \* ReplayWindow: ids seen (in memory)
    closed,     \* the thread-closed anchors of the vault (on disk)
    handed,     \* how often an id was handed onward: to the wake queue, to
                \* the DSN record, to the peer of a send (outside this code)
    restarts

seatVars == <<task, replay, closed, handed, restarts>>
allVars == <<vars, seatVars>>

Ids == {m.id : m \in Envelopes}

Idle == [pc |-> "idle"]

\* "failed-unread" is answered as "failed" is: the send's release found the
\* registry unreadable, which is logged and told to nobody.
Task == [pc : {"anchor", "gate", "mark", "loop", "record", "release",
               "discard", "claim", "wire", "giveup", "close", "free", "done"},
         msg : Envelopes,
         thread : Nat,          \* thread_id of the row the gate answered, or 0
         created : BOOLEAN,     \* gate_created, claim_created
         status : {"", "rejected", "duplicate", "closed", "busy", "error",
                   "accepted", "not-found", "failed", "failed-unread",
                   "delivered", "lost"}]

InFlight(w) == task[w].pc \notin {"idle", "done"}

Loop == {"release", "discard", "close", "free"}

LoopFree(h) == \A g \in Handlers \ {h} : task[g].pc \notin Loop

\* The ingress tells a DSN by its header or by its body, verify_request by the
\* header alone.
IsDsn(m) == m.dsn # "no"
HeaderDsn(m) == m.dsn = "header"

-----------------------------------------------------------------------------
(* Steps shared by the handlers and the senders *)

Start(w, m, pc, status) ==
    task' = [task EXCEPT ![w] = [pc |-> pc, msg |-> m, thread |-> 0,
                                 created |-> FALSE, status |-> status]]

Goto(w, pc) == task' = [task EXCEPT ![w].pc = pc]

Answer(w, status) == task' = [task EXCEPT ![w].pc = "done", ![w].status = status]

\* Mutant of Release: every thread the sender opened goes.
ReleaseSender(m) ==
    /\ entries' = {e \in entries : m.sender \notin Parties(e)}
    /\ UNCHANGED <<clock, minted, call>>

Release(m) == ReleasePair(m.sender, m.recipient)

FirstThread(S) == (CHOOSE e \in S : IsFirst(e, S)).thread_id

Granted(w, pc, thread, created) ==
    task' = [task EXCEPT ![w].pc = pc, ![w].thread = thread, ![w].created = created]

\* The answer of inbound_gate or claim_outbound, from the place "from" to the
\* place "to" or out.
Contest(w, from, to) ==
    /\ task[w].pc = from
    /\ \/ Merge(w) /\ Granted(w, to, FirstThread(PairRows(call[w])), FALSE)
       \/ Mint(w) /\ Granted(w, to, minted + 1, TRUE)
       \/ MintBlind(w) /\ Granted(w, to, minted + 1, TRUE)
       \/ Refuse(w) /\ Answer(w, "busy")
       \/ "lock" \in Faults /\ Abandon({w}) /\ Answer(w, "error")
    /\ UNCHANGED <<replay, closed, handed, restarts>>

\* The close is written, then the pair's rows are removed.
RecordClose(w) ==
    /\ task[w].pc = "close"
    /\ \/ closed' = closed \cup {task[w].msg.id} /\ Goto(w, "free")
       \/ "close" \in Faults /\ UNCHANGED closed /\ Answer(w, "error")
    /\ UNCHANGED <<vars, replay, handed, restarts>>

FreePair(w, status) ==
    /\ task[w].pc = "free"
    /\ \/ Release(task[w].msg) /\ Answer(w, status)
       \/ ReleaseBlind /\ Answer(w, status)
       \/ "lock" \in Faults /\ UNCHANGED vars /\ Answer(w, "error")
    /\ UNCHANGED <<replay, closed, handed, restarts>>
-----------------------------------------------------------------------------
(* A POST *)

\* What the checks before the anchor answer, "" if they let m pass.  Signature,
\* timestamp and JSON checks change nothing: failing one is being rejected.  The
\* replay window is asked before the address is looked at.
Verdict(m) ==
    CASE m.sender \notin Peers -> "rejected"
      [] m.sender \in Peers /\ m.id \in replay -> "duplicate"
      [] m.sender \in Peers /\ m.id \notin replay /\ m.recipient # Me -> "rejected"
      [] OTHER -> ""

Receive(h, m) ==
    /\ task[h] = Idle
    /\ Start(h, m, IF Verdict(m) = "" THEN "anchor" ELSE "done", Verdict(m))
    /\ UNCHANGED <<vars, replay, closed, handed, restarts>>

\* THREAD_CLOSED; an envelope that passes goes to the gate, which samples the
\* clock.  A DSN by header skips both.
CheckAnchor(h) ==
    /\ task[h].pc = "anchor"
    /\ LET m == task[h].msg IN
       \/ HeaderDsn(m) /\ Goto(h, "mark") /\ UNCHANGED vars
       \/ ~HeaderDsn(m) /\ m.ref \in closed /\ Answer(h, "closed") /\ UNCHANGED vars
       \/ ~HeaderDsn(m) /\ m.ref \notin closed /\ Goto(h, "gate") /\ Begin(h, Asks(m))
    /\ UNCHANGED <<replay, closed, handed, restarts>>

Gate(h) == Contest(h, "gate", "mark")

\* Notices and terminators pass the gate and leave no row.
GateExempt(h) ==
    /\ task[h].pc = "gate"
    /\ Exempt(h)
    /\ Goto(h, "mark")
    /\ UNCHANGED <<replay, closed, handed, restarts>>

\* Mutants of MarkSeen: the close is recorded with the mark; a terminator is not
\* marked; the sender is marked instead of the id.
MarkSeenAndClosed(h) ==
    /\ task[h].pc = "mark"
    /\ replay' = replay \cup {task[h].msg.id}
    /\ closed' = IF task[h].msg.reply = "end" THEN closed \cup {task[h].msg.id} ELSE closed
    /\ Goto(h, IF IsDsn(task[h].msg) THEN "record" ELSE "loop")
    /\ UNCHANGED <<vars, handed, restarts>>

MarkAsking(h) ==
    /\ task[h].pc = "mark"
    /\ replay' = IF task[h].msg.reply = "end" THEN replay ELSE replay \cup {task[h].msg.id}
    /\ Goto(h, IF IsDsn(task[h].msg) THEN "record" ELSE "loop")
    /\ UNCHANGED <<vars, closed, handed, restarts>>

MarkSender(h) ==
    /\ task[h].pc = "mark"
    /\ replay' = replay \cup {task[h].msg.sender}
    /\ Goto(h, IF IsDsn(task[h].msg) THEN "record" ELSE "loop")
    /\ UNCHANGED <<vars, closed, handed, restarts>>

\* The last step of verify_request in the pool's thread.
MarkSeen(h) ==
    /\ task[h].pc = "mark"
    /\ replay' = replay \cup {task[h].msg.id}
    /\ Goto(h, IF IsDsn(task[h].msg) THEN "record" ELSE "loop")
    /\ UNCHANGED <<vars, closed, handed, restarts>>

HandOn(id) == handed' = [handed EXCEPT ![id] = @ + 1]

\* Mutant of RecordDsn: the failure is swallowed.
RecordDsnQuietly(h) ==
    /\ task[h].pc = "record"
    /\ HandOn(task[h].msg.id) \/ ("record" \in Faults /\ UNCHANGED handed)
    /\ Answer(h, "accepted")
    /\ UNCHANGED <<vars, replay, closed, restarts>>

\* A DSN is recorded in the pool and wakes nobody.
RecordDsn(h) ==
    /\ task[h].pc = "record"
    /\ \/ HandOn(task[h].msg.id) /\ Answer(h, "accepted")
       \/ "record" \in Faults /\ UNCHANGED handed /\ Answer(h, "error")
    /\ UNCHANGED <<vars, replay, closed, restarts>>

\* Mutant of EnqueueWake: the terminator is answered, its close forgotten.
EnqueueWakeOnly(h) ==
    /\ task[h].pc = "loop"
    /\ LoopFree(h)
    /\ HandOn(task[h].msg.id)
    /\ Answer(h, "accepted")
    /\ UNCHANGED <<vars, replay, closed, restarts>>

\* The wake is enqueued; a terminator goes on to commit its close.
EnqueueWake(h) ==
    /\ task[h].pc = "loop"
    /\ LoopFree(h)
    /\ HandOn(task[h].msg.id)
    /\ IF task[h].msg.reply = "end" THEN Goto(h, "close") ELSE Answer(h, "accepted")
    /\ UNCHANGED <<vars, replay, closed, restarts>>

\* Mutants of EnqueueFails: only a POST that minted takes its mark back; the
\* claim is kept.
EnqueueFailsMarked(h) ==
    /\ "wake" \in Faults
    /\ task[h].pc = "loop"
    /\ LoopFree(h)
    /\ IF task[h].created THEN Goto(h, "release") ELSE Answer(h, "error")
    /\ UNCHANGED <<vars, replay, closed, handed, restarts>>

EnqueueFailsHolding(h) ==
    /\ "wake" \in Faults
    /\ task[h].pc = "loop"
    /\ LoopFree(h)
    /\ Goto(h, "discard")
    /\ UNCHANGED <<vars, replay, closed, handed, restarts>>

\* enqueue raises: the claim this POST minted is dropped, then the mark.
EnqueueFails(h) ==
    /\ "wake" \in Faults
    /\ task[h].pc = "loop"
    /\ LoopFree(h)
    /\ Goto(h, IF task[h].created THEN "release" ELSE "discard")
    /\ UNCHANGED <<vars, replay, closed, handed, restarts>>

\* Mutant of ReleaseMinted: having released, it tries the wake again.
ReleaseAndRetry(h) ==
    /\ task[h].pc = "release"
    /\ Release(task[h].msg)
    /\ Goto(h, "loop")
    /\ UNCHANGED <<replay, closed, handed, restarts>>

\* A release that read no file goes on to the discard like any other.
ReleaseMinted(h) ==
    /\ task[h].pc = "release"
    /\ \/ Release(task[h].msg) /\ Goto(h, "discard")
       \/ ReleaseBlind /\ Goto(h, "discard")
       \/ "lock" \in Faults /\ UNCHANGED vars /\ Answer(h, "error")
    /\ UNCHANGED <<replay, closed, handed, restarts>>

DiscardMark(h) ==
    /\ task[h].pc = "discard"
    /\ replay' = replay \ {task[h].msg.id}
    /\ Answer(h, "error")
    /\ UNCHANGED <<vars, closed, handed, restarts>>

Handle(h) ==
    \/ CheckAnchor(h) \/ Gate(h) \/ GateExempt(h) \/ MarkSeen(h)
    \/ RecordDsn(h) \/ EnqueueWake(h) \/ EnqueueFails(h)
    \/ ReleaseMinted(h) \/ DiscardMark(h)
    \/ RecordClose(h) \/ FreePair(h, "accepted")

-----------------------------------------------------------------------------
(* A send *)

\* Only a message that wants a reply claims the pair.
Send(s, m) ==
    /\ task[s] = Idle
    /\ \/ /\ m.recipient \notin Peers
          /\ Start(s, m, "done", "not-found")
          /\ UNCHANGED vars
       \/ /\ m.recipient \in Peers /\ m.reply # "yes"
          /\ Start(s, m, "wire", "")
          /\ UNCHANGED vars
       \/ /\ m.recipient \in Peers /\ m.reply = "yes"
          /\ Start(s, m, "claim", "")
          /\ Begin(s, Asks(m))
    /\ UNCHANGED <<replay, closed, handed, restarts>>

Claim(s) == Contest(s, "claim", "wire")

Delivered(s) ==
    /\ task[s].pc = "wire"
    /\ HandOn(task[s].msg.id)
    /\ IF task[s].msg.reply = "end" THEN Goto(s, "close") ELSE Answer(s, "delivered")
    /\ UNCHANGED <<vars, replay, closed, restarts>>

\* Refused by the peer, not delivered, or delivered and the answer lost: all
\* three are an error to send.
WireFails(s) ==
    /\ "wire" \in Faults
    /\ task[s].pc = "wire"
    /\ HandOn(task[s].msg.id) \/ UNCHANGED handed
    /\ IF task[s].created THEN Goto(s, "giveup") ELSE Answer(s, "failed")
    /\ UNCHANGED <<vars, replay, closed, restarts>>

\* Mutant of GiveUp: the claim is kept.
GiveUpHolding(s) ==
    /\ task[s].pc = "giveup"
    /\ Answer(s, "failed")
    /\ UNCHANGED <<vars, replay, closed, handed, restarts>>

GiveUp(s) ==
    /\ task[s].pc = "giveup"
    /\ \/ Release(task[s].msg) /\ Answer(s, "failed")
       \/ ReleaseBlind /\ Answer(s, "failed-unread")
       \/ "lock" \in Faults /\ UNCHANGED vars /\ Answer(s, "error")
    /\ UNCHANGED <<replay, closed, handed, restarts>>

\* The tool's process is killed between two steps.
SenderDies(s) ==
    /\ "die" \in Faults
    /\ InFlight(s)
    /\ Abandon({s})
    /\ Answer(s, "lost")
    /\ UNCHANGED <<replay, closed, handed, restarts>>

Transmit(s) ==
    \/ Claim(s) \/ Delivered(s) \/ WireFails(s) \/ GiveUp(s)
    \/ RecordClose(s) \/ FreePair(s, "delivered")

-----------------------------------------------------------------------------
(* The seat *)

\* Mutant of Restart: the registry is swept on the way up.
RestartSweeping ==
    /\ restarts < MaxRestarts
    /\ restarts' = restarts + 1
    /\ replay' = {}
    /\ task' = [w \in Workers |->
                   IF InFlight(w) THEN [task[w] EXCEPT !.pc = "done", !.status = "lost"]
                                  ELSE task[w]]
    /\ call' = [w \in Workers |-> NoCall]
    /\ entries' = {}
    /\ UNCHANGED <<clock, minted, closed, handed>>

\* The process dies with its POSTs and its tools, and its replay window with
\* it; the vault stays.
Restart ==
    /\ restarts < MaxRestarts
    /\ restarts' = restarts + 1
    /\ replay' = {}
    /\ task' = [w \in Workers |->
                   IF InFlight(w) THEN [task[w] EXCEPT !.pc = "done", !.status = "lost"]
                                  ELSE task[w]]
    /\ Abandon(Workers)
    /\ UNCHANGED <<closed, handed>>

Evict(id) ==
    /\ "evict" \in Faults
    /\ id \in replay
    /\ replay' = replay \ {id}
    /\ UNCHANGED <<vars, task, closed, handed, restarts>>

\* Nothing more is asked of the seat.
Quiet ==
    /\ \A w \in Workers : task[w].pc = "done"
    /\ UNCHANGED allVars

SeatInit ==
    /\ Init
    /\ task = [w \in Workers |-> Idle]
    /\ replay = {}
    /\ closed = {}
    /\ handed = [id \in Ids |-> 0]
    /\ restarts = 0

SeatNext ==
    \/ \E h \in Handlers, m \in Inbox : Receive(h, m)
    \/ \E h \in Handlers : Handle(h)
    \/ \E s \in Senders, m \in Outbox : Send(s, m)
    \/ \E s \in Senders : Transmit(s) \/ SenderDies(s)
    \/ Restart
    \/ \E id \in Ids : Evict(id)
    \/ Tick /\ UNCHANGED seatVars
    \/ Quiet

SeatSpec == SeatInit /\ [][SeatNext]_allVars

\* The pool and the event loop run every handler that can move.
FairSeat == SeatSpec /\ \A h \in Handlers : WF_allVars(Handle(h))

-----------------------------------------------------------------------------
(* Properties *)

\* The registry's types, and the seat's: only ids are marked and closed
\* (replay.add, record_thread_close), and a worker knows its message.
SeatTypeOK ==
    /\ TypeOK
    /\ task \in [Workers -> Task \cup {Idle}]
    /\ replay \subseteq Ids
    /\ closed \subseteq Ids
    /\ handed \in [Ids -> Nat]
    /\ restarts \in 0 .. MaxRestarts

\* The registry part of every step is a step of the registry: nothing the
\* handlers do, a restart included, writes the file outside its operations.
ImplementsRegistry == Spec

\* Between the mark and the answer.
HoldsMark(h) == InFlight(h) /\ task[h].pc \notin {"anchor", "gate", "mark"}

\* Where only the enqueue fails, the mark of an id is kept only for a message
\* that was handed on or is in the hands of a POST that will hand it on or take
\* the mark back (replay.add, then enqueue or discard).
SeenIsHanded ==
    \A id \in replay :
        \/ handed[id] > 0
        \/ \E h \in Handlers : task[h] # Idle /\ task[h].msg.id = id /\ HoldsMark(h)

\* Whatever fails, a message whose mark outlives it without being handed on had
\* a POST that was told so.
UnhandedIsReported ==
    \A id \in replay :
        \/ handed[id] > 0
        \/ \E h \in Handlers :
              /\ task[h] # Idle /\ task[h].msg.id = id
              /\ HoldsMark(h) \/ (task[h].pc = "done" /\ task[h].status = "error")

\* A close exists only for a terminator that was handed onward (N8), on the
\* receiving and on the sending side, whatever fails and whoever dies.
CloseFollowsMessage == \A id \in closed : handed[id] > 0

\* A terminator answered accepted or delivered has its close on disk.
AcceptedEndIsClosed ==
    \A w \in Workers :
        task[w].pc = "done" /\ task[w].status \in {"accepted", "delivered"} =>
            (task[w].msg.reply = "end" /\ ~IsDsn(task[w].msg) => task[w].msg.id \in closed)

Succeeded(w) == task[w].pc = "done" /\ task[w].status \in {"accepted", "delivered"}

\* As long as the registry can be locked and read, every row is the thread of a
\* request that succeeded or is under way: a request that gave up leaves no row
\* behind to keep others out (N4).
NoLeakedLease ==
    \A e \in entries : \E w \in Workers :
        /\ task[w].pc # "idle"
        /\ task[w].thread = e.thread_id
        /\ InFlight(w) \/ Succeeded(w)

\* Whatever fails, a lease that outlives the request that minted it is the
\* thread of a message that went out or in, or somebody was told of an error, or
\* a process died, or it is a send's whose release read no file: a refusal, a
\* duplicate, and a give-up that could read the registry, never leave a lease
\* behind (verify_request, handle, send, release_pair).
LeakIsReported ==
    \A e \in entries : \E w \in Workers :
        /\ task[w].pc # "idle" /\ task[w].created
        /\ task[w].thread = e.thread_id
        /\ \/ InFlight(w)
           \/ task[w].status \in {"accepted", "delivered", "error", "lost", "failed-unread"}

\* An accepted message keeps its mark, so that a redelivery is not accepted
\* again, unless a POST of the same envelope that was verified beside it could
\* not enqueue its own wake (replay.add, replay.discard).
AcceptedStaysSeen ==
    \A h \in Handlers :
        task[h].pc = "done" /\ task[h].status = "accepted" =>
            \/ task[h].msg.id \in replay
            \/ \E g \in Handlers \ {h} :
                  /\ task[g].pc = "done" /\ task[g].status = "error"
                  /\ task[g].msg.id = task[h].msg.id

\* Giving up drops the claim the request created (N4) and no live thread of
\* others, as long as that claim is live: the release goes by the pair, and no
\* pair has two live threads (send, handle).
GiveUpSparesOthers ==
    [][\A w \in Workers :
          /\ task[w].pc \in {"release", "giveup"} /\ task'[w].pc # task[w].pc
          /\ \E e \in LiveRows : e.thread_id = task[w].thread
          => \A e \in LiveRows \ entries' : e.thread_id = task[w].thread]_allVars

\* The only seat a send can find busy is its own: a row that names another agent
\* as its peer was opened here, so that busy is answered only to a send that
\* this seat, which is in its own vault, addresses to itself while a peer of it
\* holds it (claim_outbound; rows come in by inbound_gate with this seat as their
\* peer).
OnlySelfIsBusy ==
    \A s \in Senders :
        task[s].pc = "done" /\ task[s].status = "busy" => task[s].msg.recipient = Me

\* How far a worker has come.
Station(w) ==
    CASE task[w].pc = "anchor" -> 1
      [] task[w].pc \in {"gate", "claim"} -> 2
      [] task[w].pc = "mark" -> 3
      [] task[w].pc \in {"record", "loop", "wire"} -> 4
      [] task[w].pc \in {"release", "giveup", "close"} -> 5
      [] task[w].pc \in {"discard", "free"} -> 6
      [] OTHER -> 7

\* No POST and no send goes back, and its answer is given once: whatever fails,
\* dies or restarts, a step takes it nearer to its answer with the envelope it
\* began with, so that it claims, hands on and closes once each and has seven
\* steps at most (verify_request, handle, send).
WorkersAdvance ==
    [][\A w \in Workers : task[w].pc # "idle" =>
          \/ task'[w] = task[w]
          \/ Station(w)' > Station(w) /\ task'[w].msg = task[w].msg]_allVars

\* Every POST is answered (handle): no handler waits for ever for the pool, the
\* registry or the loop.
PostsAnswered ==
    \A h \in Handlers : task[h].pc # "idle" ~> task[h].pc = "done"

-----------------------------------------------------------------------------
(* What comments and tests of the code say and the code does not do *)

\* "Already seen" proves the envelope was accepted before (ReplaySeenError,
\* ingress handle): once nobody handles the id any more, a POST that was
\* answered duplicate stands for a message that was handed on.
DuplicateMeansHanded ==
    \A h \in Handlers :
        /\ task[h].pc = "done" /\ task[h].status = "duplicate"
        /\ \A g \in Handlers : InFlight(g) => task[g].msg.id # task[h].msg.id
        => handed[task[h].msg.id] > 0
=============================================================================
