---------------------------- MODULE Conversation ----------------------------
(***************************************************************************)
(* Conversations between the chats of two seats or more: the chat an       *)
(* inbound message wakes (core.py resolve_chat_id), the session tokens and *)
(* the ref a mesh_send is given (mcp.py _infer_thread and the handler's    *)
(* defaults), what each chat remembers of the last message (current_mesh,  *)
(* mesh_threads), and the closes both seats record for a reply=end.        *)
(*                                                                         *)
(* A delivery is a POST that may be late, lost, or answered too late to be *)
(* heard, and tried again with the same id.  Its handler checks it, marks  *)
(* its id as seen, enqueues the wake and, for a terminator, records the    *)
(* close; others run, fail or restart the seat between any two of these.   *)
(* The leases are MeshSeat's, the writes of the state file ChatState's.    *)
(***************************************************************************)
EXTENDS Naturals, Sequences, FiniteSets, FiniteSetsExt

CONSTANTS
    Agents,
    ChatsOf,        \* the chats of each agent
    MeshChat,       \* MeshChat[a][p]: the chat mesh:<p> of a
    Telegram,       \* the chats whose id is a Telegram one
    Known,          \* the peers each agent's vault or registry knows
    Sessions,
    None,
    Worlds          \* how the harnesses are configured, and what may happen

Chats == UNION {ChatsOf[a] : a \in Agents}

Owner(c) == CHOOSE a \in Agents : c \in ChatsOf[a]

\* The chat map is a sequence, as the entries of a dict have an order.
Seat == [mapping : {"single", "per_sender", "session"},
         chat_map : Seq((Sessions \cup Agents) \X Chats), fallback : Chats]

World == [seat : [Agents -> Seat],
          active : SUBSET Chats,    \* the chats whose agents send
          given : SUBSET Sessions,  \* the tokens they pass explicitly
          passed : SUBSET SUBSET {"session", "from_session", "ref"},
                                    \* the arguments they pass at once
          faults : SUBSET {"wire",  \* a POST or its answer is lost
                           "wake",  \* the receiver cannot enqueue the wake
                           "close"},    \* the receiver cannot write its close
          messages : Nat, tries : Nat \ {0}, restarts : Nat,  \* bounds,
          atOnce : Nat]             \* this one on the messages under way

ASSUME ConversationAssumption ==
    /\ \A a, b \in Agents : a # b => ChatsOf[a] \cap ChatsOf[b] = {}
    /\ \A a \in Agents : Known[a] \subseteq Agents
    /\ \A a \in Agents : \A p \in Known[a] : MeshChat[a][p] \in ChatsOf[a]
    /\ None \notin Sessions \cup Agents \cup Chats
    /\ Worlds \subseteq World
    /\ \A w \in Worlds, a \in Agents :
          LET s == w.seat[a] IN
          /\ s.fallback \in ChatsOf[a]
          /\ \A i \in DOMAIN s.chat_map : s.chat_map[i][2] \in ChatsOf[a]
          /\ \A i, j \in DOMAIN s.chat_map : s.chat_map[i][1] = s.chat_map[j][1] => i = j

VARIABLES
    world,
    mail,       \* the messages composed so far; one is known by its number
    mesh,       \* current_mesh of each chat, 0 for none
    threads,    \* mesh_threads of each chat
    call,       \* the delivery each chat's server is waiting for
    net,        \* POSTs <<message, try>> that may still arrive
    verifying,  \* POSTs that passed the replay window, their id not marked
    marked,     \* POSTs whose id is marked and whose wake is not enqueued
    handling,   \* POSTs whose wake is enqueued and whose close is not recorded
    wakes,      \* messages enqueued and not yet popped
    seen,       \* the replay window of each agent
    closed,     \* the anchors in each agent's vault
    unclosed,   \* terminators whose receiver could not record the close
    dropped,    \* terminators of which a marked POST was not enqueued
    doubted,    \* terminators whose sender took a duplicate's word for delivered
    refused,    \* messages answered THREAD_CLOSED
    restarts

local == <<mesh, threads>>
remote == <<net, verifying, marked, handling, wakes, seen>>
history == <<unclosed, dropped, doubted, refused>>
vars == <<world, mail, local, call, remote, closed, history, restarts>>

NoCall == [msg |-> 0, try |-> 0, status |-> ""]

Init ==
    /\ world \in Worlds
    /\ mail = <<>>
    /\ mesh = [c \in Chats |-> 0]
    /\ threads = [c \in Chats |-> [a \in Agents |-> 0]]
    /\ call = [c \in Chats |-> NoCall]
    /\ net = {} /\ verifying = {} /\ marked = {} /\ handling = {} /\ wakes = {}
    /\ seen = [a \in Agents |-> {}]
    /\ closed = [a \in Agents |-> {}]
    /\ unclosed = {} /\ dropped = {} /\ doubted = {} /\ refused = {}
    /\ restarts = 0

-----------------------------------------------------------------------------
(* Routing *)

Entries(a) == {world.seat[a].chat_map[i] : i \in DOMAIN world.seat[a].chat_map}

MappedKeys(a) == {e[1] : e \in Entries(a)}

MappedChat(a, key) == (CHOOSE e \in Entries(a) : e[1] = key)[2]

Unmapped(a, sender) ==
    IF world.seat[a].fallback \notin Telegram /\ sender \in Known[a]
    THEN MeshChat[a][sender] ELSE world.seat[a].fallback

ResolveChatId(a, sender, session) ==
    IF world.seat[a].mapping = "single" THEN world.seat[a].fallback
    ELSE IF world.seat[a].mapping = "session" /\ session \in MappedKeys(a)
    THEN MappedChat(a, session)
    ELSE IF sender \in MappedKeys(a) THEN MappedChat(a, sender)
    ELSE Unmapped(a, sender)

\* The chat that message n wakes.
Woken(n) == ResolveChatId(mail[n].to, mail[n].from, mail[n].session)

-----------------------------------------------------------------------------
(* mesh_send *)

\* The first name of the chat map that means this chat.
NameOf(c) ==
    LET chat_map == world.seat[Owner(c)].chat_map
        I == {i \in DOMAIN chat_map : chat_map[i][2] = c}
    IN  IF I = {} THEN None ELSE chat_map[Min(I)][1]

Or(x, y) == IF x # None THEN x ELSE y

\* The message of the turn if it is the recipient's, else the thread's last.
Last(c, to) ==
    IF mesh[c] # 0 /\ mail[mesh[c]].from = to THEN mesh[c] ELSE threads[c][to]

HasTokens(n) == n # 0 /\ (mail[n].session # None \/ mail[n].from_session # None)

\* Mutant of InferRef: the closes are not looked at.
InferRefClosed(c, last) == last

InferRef(c, last) == IF last \in closed[Owner(c)] THEN 0 ELSE last

\* Mutant of InferThread: the tokens of a reply are not swapped.
InferThreadUnswapped(c, to) ==
    LET last == Last(c, to) IN
    IF HasTokens(last)
    THEN [answers |-> last, ref |-> InferRef(c, last),
          session |-> Or(mail[last].session, mail[last].from_session),
          from_session |-> Or(mail[last].from_session, mail[last].session)]
    ELSE [answers |-> 0, ref |-> 0, session |-> NameOf(c), from_session |-> NameOf(c)]

\* A reply swaps the tokens, a continuation keeps them, a first message names
\* this chat twice and refers to nothing.
InferThread(c, to) ==
    LET last == Last(c, to)
        m == mail[last]
        theirs == m.from # Owner(c)
    IN  IF HasTokens(last)
        THEN [answers |-> last, ref |-> InferRef(c, last),
              session |-> IF theirs THEN Or(m.from_session, m.session)
                                    ELSE Or(m.session, m.from_session),
              from_session |-> IF theirs THEN Or(m.session, m.from_session)
                                         ELSE Or(m.from_session, m.session)]
        ELSE [answers |-> 0, ref |-> 0, session |-> NameOf(c), from_session |-> NameOf(c)]

\* Where the sender means its answer to go, None if its tokens cannot say: the
\* chat of the from_session it passed, or this chat if it has a name for it, its
\* own or the one it was reached by.  Without a session mapping, the chat
\* everything from the peer goes to.
Door(c, to, from_session) ==
    LET a == Owner(c)
        thread == InferThread(c, to)
        m == mail[thread.answers]
    IN  CASE world.seat[a].mapping # "session" \/ from_session # None ->
                ResolveChatId(a, to, from_session)
          [] OTHER ->
                IF thread.answers = 0 THEN (IF thread.from_session = None THEN None ELSE c)
                ELSE IF m.from = a THEN m.door
                ELSE IF m.session = None THEN None ELSE c

\* A terminator this seat has not recorded as closed though its wake is here:
\* its handler is not done, or failed.
Unsettled(n) == (\E p \in handling : p[1] = n) \/ n \in unclosed

\* Messages being delivered, or enqueued and not yet read.
UnderWay ==
    {p[1] : p \in net \cup verifying \cup marked \cup handling}
        \cup wakes \cup ({call[c].msg : c \in Chats} \ {0})

Passed(session, from_session, ref) ==
    {x \in {"session", "from_session", "ref"} :
        CASE x = "session" -> session # None
          [] x = "from_session" -> from_session # None
          [] x = "ref" -> ref # 0}

\* In a turn a message woke, or in one of the user's.  The agent may pass a
\* session, a from_session or the ref of what it answers.
Send(c, to, reply, session, from_session, ref) ==
    LET thread == InferThread(c, to) IN
    /\ call[c] = NoCall
    /\ ref \in {0, Last(c, to)}
    /\ Passed(session, from_session, ref) \in world.passed
    /\ mail' = Append(mail,
          [from |-> Owner(c), to |-> to, chat |-> c, reply |-> reply,
           session |-> Or(session, thread.session),
           from_session |-> Or(from_session, thread.from_session),
           ref |-> IF ref # 0 THEN ref ELSE thread.ref,
           passed |-> Passed(session, from_session, ref),
           answers |-> thread.answers,
           unsettled |-> Unsettled(thread.ref),
           door |-> Door(c, to, from_session)])
    /\ call' = [call EXCEPT ![c] = [msg |-> Len(mail) + 1, try |-> 1, status |-> ""]]
    /\ net' = net \cup {<<Len(mail) + 1, 1>>}
    /\ UNCHANGED <<world, local, verifying, marked, handling, wakes, seen, closed,
                   history, restarts>>

Ends(S) == {n \in S : mail[n].reply = "end"}

\* Mutant of Closes: whatever the message wants.
ClosesAlways(a, n) == closed' = [closed EXCEPT ![a] = @ \cup {n}]

Closes(a, n) ==
    closed' = IF mail[n].reply = "end" THEN [closed EXCEPT ![a] = @ \cup {n}] ELSE closed

\* Accepted or a duplicate, both are 202.  The close is recorded by send, the
\* thread by _record_outbound.
Delivered(c) ==
    LET n == call[c].msg IN
    /\ call[c].status \in {"ok", "duplicate"}
    /\ doubted' = doubted \cup (IF call[c].status = "duplicate" THEN Ends({n}) ELSE {})
    /\ call' = [call EXCEPT ![c] = NoCall]
    /\ Closes(Owner(c), n)
    /\ threads' = [threads EXCEPT ![c][mail[n].to] = n]
    /\ UNCHANGED <<world, mail, mesh, remote, unclosed, dropped, refused, restarts>>

\* THREAD_CLOSED is not tried again.
Refused(c) ==
    /\ call[c].status = "closed"
    /\ call' = [call EXCEPT ![c] = NoCall]
    /\ refused' = refused \cup {call[c].msg}
    /\ UNCHANGED <<world, mail, local, remote, closed, unclosed, dropped, doubted, restarts>>

\* An error, or no answer in time.
Unanswered(c) == call[c] # NoCall /\ ("wire" \in world.faults \/ call[c].status = "error")

Retry(c) ==
    /\ Unanswered(c)
    /\ call[c].try < world.tries
    /\ call' = [call EXCEPT ![c] = [msg |-> @.msg, try |-> @.try + 1, status |-> ""]]
    /\ net' = net \cup {<<call[c].msg, call[c].try + 1>>}
    /\ UNCHANGED <<world, mail, local, verifying, marked, handling, wakes, seen, closed,
                   history, restarts>>

GiveUp(c) ==
    /\ Unanswered(c)
    /\ call' = [call EXCEPT ![c] = NoCall]
    /\ UNCHANGED <<world, mail, local, remote, closed, history, restarts>>

-----------------------------------------------------------------------------
(* The receiving seat *)

\* An answer reaches the try it was made for, or nobody.
Tell(post, status) ==
    LET c == mail[post[1]].chat IN
    call' = IF call[c].msg = post[1] /\ call[c].try = post[2]
            THEN [call EXCEPT ![c].status = status] ELSE call

\* The checks of verify_request: duplicate, THREAD_CLOSED, or passed.
Arrive(post) ==
    LET n == post[1]
        to == mail[n].to
    IN  /\ post \in net
        /\ net' = net \ {post}
        /\ \/ n \in seen[to] /\ Tell(post, "duplicate") /\ UNCHANGED verifying
           \/ /\ n \notin seen[to] /\ mail[n].ref \in closed[to]
              /\ Tell(post, "closed") /\ UNCHANGED verifying
           \/ /\ n \notin seen[to] /\ mail[n].ref \notin closed[to]
              /\ verifying' = verifying \cup {post} /\ UNCHANGED call
        /\ UNCHANGED <<world, mail, local, marked, handling, wakes, seen, closed,
                       history, restarts>>

\* The anchors are looked at after the replay window: the thread may have been
\* closed in between.
RefuseLate(post) ==
    LET n == post[1] IN
    /\ post \in verifying
    /\ mail[n].ref \in closed[mail[n].to]
    /\ verifying' = verifying \ {post}
    /\ Tell(post, "closed")
    /\ UNCHANGED <<world, mail, local, net, marked, handling, wakes, seen, closed,
                   history, restarts>>

MarkSeen(post) ==
    /\ post \in verifying
    /\ verifying' = verifying \ {post}
    /\ marked' = marked \cup {post}
    /\ seen' = [seen EXCEPT ![mail[post[1]].to] = @ \cup {post[1]}]
    /\ UNCHANGED <<world, mail, local, call, net, handling, wakes, closed, history, restarts>>

\* Mutant of Enqueue: a terminator is answered as any message is.
EnqueueAnswered(post) ==
    /\ post \in marked
    /\ marked' = marked \ {post}
    /\ wakes' = wakes \cup {post[1]}
    /\ Tell(post, "ok")
    /\ UNCHANGED <<world, mail, local, net, verifying, handling, seen, closed,
                   history, restarts>>

\* The message is accepted; a terminator is not answered before its close is
\* recorded.
Enqueue(post) ==
    /\ post \in marked
    /\ marked' = marked \ {post}
    /\ wakes' = wakes \cup {post[1]}
    /\ IF mail[post[1]].reply = "end"
       THEN handling' = handling \cup {post} /\ UNCHANGED call
       ELSE Tell(post, "ok") /\ UNCHANGED handling
    /\ UNCHANGED <<world, mail, local, net, verifying, seen, closed, history, restarts>>

\* enqueue raises: the mark is taken back, unless the release of the claim that
\* a question minted raises before it.
EnqueueFails(post) ==
    LET n == post[1] IN
    /\ "wake" \in world.faults
    /\ post \in marked
    /\ marked' = marked \ {post}
    /\ \/ seen' = [seen EXCEPT ![mail[n].to] = @ \ {n}]
       \/ mail[n].reply = "yes" /\ UNCHANGED seen
    /\ dropped' = dropped \cup Ends({n})
    /\ Tell(post, "error")
    /\ UNCHANGED <<world, mail, local, net, verifying, handling, wakes, closed,
                   unclosed, doubted, refused, restarts>>

CommitTerminator(post) ==
    /\ post \in handling
    /\ handling' = handling \ {post}
    /\ Closes(mail[post[1]].to, post[1])
    /\ Tell(post, "ok")
    /\ UNCHANGED <<world, mail, local, net, verifying, marked, wakes, seen, history, restarts>>

CommitFails(post) ==
    /\ "close" \in world.faults
    /\ post \in handling
    /\ handling' = handling \ {post}
    /\ unclosed' = unclosed \cup {post[1]}
    /\ Tell(post, "error")
    /\ UNCHANGED <<world, mail, local, net, verifying, marked, wakes, seen, closed,
                   dropped, doubted, refused, restarts>>

-----------------------------------------------------------------------------
(* Turns *)

\* on_waking.  The turn before it has ended: that its after_turn cleared
\* current_mesh makes no difference to what this one writes.
Wake(c, n) ==
    /\ n \in wakes
    /\ Woken(n) = c
    /\ wakes' = wakes \ {n}
    /\ mesh' = [mesh EXCEPT ![c] = n]
    /\ threads' = [threads EXCEPT ![c][mail[n].from] = n]
    /\ UNCHANGED <<world, mail, call, net, verifying, marked, handling, seen, closed,
                   history, restarts>>

\* after_turn, of the turn that was woken or, after a crash, of the next one of
\* the user; a send of the turn may outlive it.
AfterTurn(c) ==
    /\ mesh[c] # 0
    /\ mesh' = [mesh EXCEPT ![c] = 0]
    /\ UNCHANGED <<world, mail, threads, call, remote, closed, history, restarts>>

\* The harness dies with its ingress and its MCP servers; files and vault stay,
\* the wake queue may.
Restart(a) ==
    LET At(posts) == {p \in posts : mail[p[1]].to = a} IN
    /\ restarts < world.restarts
    /\ restarts' = restarts + 1
    /\ call' = [c \in Chats |-> IF c \in ChatsOf[a] THEN NoCall ELSE call[c]]
    /\ seen' = [seen EXCEPT ![a] = {}]
    /\ verifying' = verifying \ At(verifying)
    /\ marked' = marked \ At(marked)
    /\ dropped' = dropped \cup Ends({p[1] : p \in At(marked)})
    /\ handling' = handling \ At(handling)
    /\ unclosed' = unclosed \cup {p[1] : p \in At(handling)}
    /\ \/ UNCHANGED wakes
       \/ wakes' = {n \in wakes : mail[n].to # a}
    /\ UNCHANGED <<world, mail, mesh, threads, net, closed, doubted, refused>>

Next ==
    \/ /\ Len(mail) < world.messages /\ Cardinality(UnderWay) < world.atOnce
       /\ \E c \in world.active, to \in Agents, reply \in {"yes", "end"} :
             \E s, f \in world.given \cup {None}, ref \in 0 .. Len(mail) :
                to # Owner(c) /\ Send(c, to, reply, s, f, ref)
    \/ \E c \in Chats : Delivered(c) \/ Refused(c) \/ Retry(c) \/ GiveUp(c)
    \/ \E p \in net : Arrive(p)
    \/ \E p \in verifying : RefuseLate(p) \/ MarkSeen(p)
    \/ \E p \in marked : Enqueue(p) \/ EnqueueFails(p)
    \/ \E p \in handling : CommitTerminator(p) \/ CommitFails(p)
    \/ \E c \in Chats : AfterTurn(c) \/ \E n \in wakes : Wake(c, n)
    \/ \E a \in Agents : Restart(a)

Spec == Init /\ [][Next]_vars
-----------------------------------------------------------------------------
(* Properties *)

Numbers == 0 .. world.messages

Message == [from : Agents, to : Agents, chat : Chats, reply : {"yes", "end"},
            session : Sessions \cup Agents \cup {None},
            from_session : Sessions \cup Agents \cup {None},
            ref : Numbers, passed : SUBSET {"session", "from_session", "ref"}, answers : Numbers,
            unsettled : BOOLEAN, door : Chats \cup {None}]

\* A chat remembers messages it exchanged, and an agent closes terminators of
\* its own conversations (_record_outbound, on_waking, record_thread_close).
TypeOK ==
    /\ mail \in Seq(Message) /\ Len(mail) <= world.messages
    /\ mesh \in [Chats -> 0 .. Len(mail)]
    /\ threads \in [Chats -> [Agents -> 0 .. Len(mail)]]
    /\ call \in [Chats -> [msg : Numbers, try : 0 .. world.tries,
                           status : {"", "ok", "duplicate", "closed", "error"}]]
    /\ net \cup verifying \cup marked \cup handling
           \subseteq (1 .. Len(mail)) \X (1 .. world.tries)
    /\ wakes \cup unclosed \cup dropped \cup doubted \cup refused \subseteq 1 .. Len(mail)
    /\ {seen, closed} \subseteq [Agents -> SUBSET (1 .. Len(mail))]
    /\ world \in Worlds /\ restarts \in 0 .. world.restarts
    /\ \A c \in Chats, p \in Agents :
          threads[c][p] # 0 => LET m == mail[threads[c][p]] IN p \in {m.from, m.to} \ {Owner(c)}
    /\ \A a \in Agents : \A n \in closed[a] :
          mail[n].reply = "end" /\ a \in {mail[n].from, mail[n].to}

\* A conversation keeps its doors (_infer_thread, resolve_chat_id): unless the
\* agent asks for another session, an answer wakes the chat its message was
\* sent from, or the one its sender named, and a continuation the chat the last
\* message woke, through lost and late answers, closed threads, fallbacks and
\* restarts.
DoorKept ==
    \A r \in 1 .. Len(mail) :
        LET n == mail[r].answers
            m == mail[n]
        IN  n # 0 /\ "session" \notin mail[r].passed =>
               IF m.from = mail[r].from
               THEN m.session # None => Woken(r) = Woken(n)
               ELSE m.door # None => Woken(r) = m.door

\* A ref the server inferred is refused as closed only if it was inferred from
\* a terminator whose own close this seat had not recorded yet, or could not
\* (_infer_thread, commit_terminator, send).
RefusedIsUnsettled ==
    \A n \in refused : "ref" \notin mail[n].passed => mail[n].unsettled

\* Marked and not enqueued, now or for good.
Unwoken(n) == (\E p \in marked : p[1] = n) \/ n \in dropped

\* A thread its sender has closed is closed at the receiver, whichever answers
\* were lost and tries repeated, unless the receiver is still at its close or
\* failed to record it, or the sender took the word of a duplicate for it and a
\* POST whose mark that may have met has not enqueued its wake yet or never did
\* (handle, verify_request, send).
ClosesAgree ==
    \A n \in 1 .. Len(mail) :
        n \in closed[mail[n].from] =>
            \/ n \in closed[mail[n].to]
            \/ Unsettled(n)
            \/ n \in doubted /\ Unwoken(n)
=============================================================================
