------------------------ MODULE ConversationProofs ------------------------
(***************************************************************************)
(* What two seats agree about, for every configuration of their chats,     *)
(* every number of seats, messages, tries and restarts.                    *)
(*                                                                         *)
(* A terminator whose wake is enqueued is settled: its close is recorded   *)
(* at its receiver, or its handler is at it, or failed.  A chat that was   *)
(* woken by it and a sender that was told it is accepted know a settled    *)
(* one.  A mark, and a duplicate's answer made from it, say less: that the *)
(* terminator is settled, or that a marked POST has not enqueued its wake  *)
(* yet or never did (IInv).                                                *)
(***************************************************************************)
EXTENDS Conversation, WellFoundedInduction, TLAPS

Sent == 1 .. Len(mail)

\* If n ends its thread, its receiver has closed it, is at it, or failed.
Settled(n) == mail[n].reply = "end" => n \in closed[mail[n].to] \/ Unsettled(n)

\* If n ends its thread, it is settled, or a marked POST of it is, or was left,
\* without its wake.
Met(n) == Settled(n) \/ Unwoken(n)

\* What the chat c may remember of a message: it was one of the two ends.
Remembered(c, n) ==
    /\ Owner(c) \in {mail[n].from, mail[n].to}
    /\ IF mail[n].from = Owner(c)
       THEN mail[n].reply = "end" => n \in closed[Owner(c)]
       ELSE Settled(n)

MailInv ==
    \A n \in Sent :
        LET m == mail[n] IN
        /\ m.from = Owner(m.chat)
        /\ m.from # m.to
        /\ m.ref \in 0 .. Len(mail)
        /\ m.ref # 0 /\ "ref" \notin m.passed /\ mail[m.ref].reply = "end" => m.unsettled

ClosedRef(n) == mail[n].ref \in Sent /\ mail[mail[n].ref].reply = "end"

Memory(c) == {n \in Sent : n = mesh[c] \/ \E p \in Agents : n = threads[c][p]}

\* Whoever has learnt that the wake of n is enqueued: a chat it is to wake, the
\* chat that sent it, the sender that closed it on its receiver's word.
Learnt ==
    {n \in Sent : \/ n \in wakes
                  \/ \E c \in Chats : call[c].msg = n /\ call[c].status = "ok"
                  \/ n \in closed[mail[n].from] \ doubted}

\* Whoever goes by a mark of n: the replay window, and the sender that was, or is
\* being, told of a duplicate.
ByMark ==
    {n \in Sent : \/ \E a \in Agents : n \in seen[a]
                  \/ \E c \in Chats : call[c].msg = n /\ call[c].status = "duplicate"
                  \/ n \in doubted}

Denied ==
    {n \in Sent : n \in refused \/ \E c \in Chats : call[c].msg = n /\ call[c].status = "closed"}

PlaceInv ==
    /\ \A c \in Chats : call[c] = NoCall \/ (call[c].msg \in Sent /\ mail[call[c].msg].chat = c)
    /\ \A a \in Agents : \A n \in seen[a] : mail[n].to = a

SettledInv ==
    /\ \A c \in Chats : \A n \in Memory(c) : Remembered(c, n)
    /\ \A n \in Learnt : Settled(n)
    /\ \A n \in ByMark : Met(n)
    /\ \A n \in Denied : ClosedRef(n)

IInv == TypeOK /\ MailInv /\ PlaceInv /\ SettledInv

-----------------------------------------------------------------------------
(* Chats and their owners *)

Token == Sessions \cup Agents \cup {None}

LEMMA WorldTyped ==
    ASSUME world \in Worlds
    PROVE  /\ world.seat \in [Agents -> Seat]
           /\ world.active \subseteq Chats
           /\ world.given \subseteq Sessions
           /\ world.messages \in Nat
           /\ world.tries \in Nat \ {0}
           /\ world.restarts \in Nat
BY ConversationAssumption DEF World

LEMMA Owners ==
    /\ \A c \in Chats : Owner(c) \in Agents /\ c \in ChatsOf[Owner(c)]
    /\ \A a \in Agents : \A c \in ChatsOf[a] : c \in Chats /\ Owner(c) = a
<1>1. ASSUME NEW c \in Chats PROVE Owner(c) \in Agents /\ c \in ChatsOf[Owner(c)]
  <2>1. \E a \in Agents : c \in ChatsOf[a]
    BY DEF Chats
  <2> QED
    BY <2>1 DEF Owner
<1>2. ASSUME NEW a \in Agents, NEW c \in ChatsOf[a] PROVE c \in Chats /\ Owner(c) = a
  <2>1. c \in Chats
    BY DEF Chats
  <2>2. c \in ChatsOf[Owner(c)] /\ Owner(c) \in Agents
    BY <1>1, <2>1
  <2> QED
    BY <2>1, <2>2, ConversationAssumption
<1> QED
  BY <1>1, <1>2

\* A message wakes a chat of the agent it is addressed to (resolve_chat_id).
LEMMA Routed ==
    ASSUME world \in Worlds, NEW a \in Agents, NEW sender, NEW session
    PROVE  ResolveChatId(a, sender, session) \in ChatsOf[a]
<1>1. world.seat[a].fallback \in ChatsOf[a]
  BY ConversationAssumption
<1>2. \A e \in Entries(a) : e[2] \in ChatsOf[a]
  BY ConversationAssumption DEF Entries
<1>3. ASSUME NEW key \in MappedKeys(a) PROVE MappedChat(a, key) \in ChatsOf[a]
  <2>1. \E e \in Entries(a) : e[1] = key
    BY DEF MappedKeys
  <2> QED
    BY <2>1, <1>2 DEF MappedChat
<1>4. Unmapped(a, sender) \in ChatsOf[a]
  BY <1>1, ConversationAssumption DEF Unmapped
<1> QED
  BY <1>1, <1>3, <1>4 DEF ResolveChatId

LEMMA LeastOf ==
    ASSUME NEW S \in SUBSET Nat, S # {}
    PROVE  Min(S) \in S
<1> DEFINE R == OpToRel(<, Nat)
<1>1. \E n \in S : \A m \in S : <<m, n>> \notin R
  <2> HIDE DEF R
  <2>1. IsWellFoundedOn(R, Nat)
    BY NatLessThanWellFounded DEF R
  <2> QED
    BY <2>1, WFMin
<1>2. PICK n \in S : \A m \in S : <<m, n>> \notin R
  BY <1>1
<1>3. \A m \in S : n =< m
  <2> SUFFICES ASSUME NEW m \in S, ~(n =< m) PROVE FALSE
    OBVIOUS
  <2>1. <<m, n>> \in Nat \X Nat /\ m < n
    OBVIOUS
  <2>2. <<m, n>> \in {ss \in Nat \X Nat : ss[1] < ss[2]}
    BY <2>1
  <2>3. R = {ss \in Nat \X Nat : ss[1] < ss[2]}
    BY DEF OpToRel
  <2> QED
    BY <1>2, <2>2, <2>3
<1> QED
  BY <1>3 DEF Min

\* A chat's name is a key of its owner's chat map, or none.
LEMMA Named ==
    ASSUME world \in Worlds, NEW c \in Chats
    PROVE  NameOf(c) \in Token
<1> DEFINE chat_map == world.seat[Owner(c)].chat_map
           I == {i \in DOMAIN chat_map : chat_map[i][2] = c}
<1>1. chat_map \in Seq((Sessions \cup Agents) \X Chats)
  BY WorldTyped, Owners DEF Seat
<1>2. I \in SUBSET Nat /\ I \subseteq DOMAIN chat_map
  BY <1>1
<1>3. CASE I = {}
  BY <1>3 DEF NameOf, Token
<1>4. CASE I # {}
  <2>1. Min(I) \in DOMAIN chat_map
    BY <1>2, <1>4, LeastOf
  <2> HIDE DEF I, chat_map
  <2>2. chat_map[Min(I)] \in (Sessions \cup Agents) \X Chats
    BY <1>1, <2>1
  <2>3. NameOf(c) = chat_map[Min(I)][1]
    BY <1>4 DEF NameOf, I, chat_map
  <2> QED
    BY <2>2, <2>3 DEF Token
<1> QED
  BY <1>3, <1>4

Call == [msg : Numbers, try : 0 .. world.tries,
         status : {"", "ok", "duplicate", "closed", "error"}]

LEMMA NoCallTyped ==
    ASSUME world \in Worlds
    PROVE  NoCall \in Call
BY WorldTyped DEF NoCall, Call, Numbers

-----------------------------------------------------------------------------
(* What the server infers *)

LEMMA OneOfBoth == \A x, y \in Token : Or(x, y) \in Token
BY DEF Or

LEMMA Typed ==
    ASSUME TypeOK
    PROVE  /\ world \in Worlds
           /\ mail \in Seq(Message)
           /\ Len(mail) \in Nat
           /\ Len(mail) <= world.messages
           /\ mesh \in [Chats -> 0 .. Len(mail)]
           /\ threads \in [Chats -> [Agents -> 0 .. Len(mail)]]
           /\ call \in [Chats -> Call]
           /\ net \cup verifying \cup marked \cup handling \subseteq Sent \X (1 .. world.tries)
           /\ wakes \cup unclosed \cup dropped \cup doubted \cup refused \subseteq Sent
           /\ {seen, closed} \subseteq [Agents -> SUBSET Sent]
           /\ restarts \in 0 .. world.restarts
<1>1. mail \in Seq(Message) /\ world \in Worlds /\ Len(mail) <= world.messages
  BY Zenon DEF TypeOK
<1>2. Len(mail) \in Nat
  <2> HIDE DEF Message
  <2> QED
    BY <1>1
<1>3. mesh \in [Chats -> 0 .. Len(mail)] /\ threads \in [Chats -> [Agents -> 0 .. Len(mail)]]
  BY Zenon DEF TypeOK
<1>4. /\ call \in [Chats -> Call]
      /\ net \cup verifying \cup marked \cup handling \subseteq Sent \X (1 .. world.tries)
      /\ wakes \cup unclosed \cup dropped \cup doubted \cup refused \subseteq Sent
      /\ {seen, closed} \subseteq [Agents -> SUBSET Sent]
      /\ restarts \in 0 .. world.restarts
  BY Zenon DEF TypeOK, Sent, Call
<1> QED
  BY <1>1, <1>2, <1>3, <1>4

LEMMA Mails ==
    ASSUME TypeOK, NEW n \in Sent
    PROVE  mail[n] \in Message
<1>1. mail \in Seq(Message) /\ n \in 1 .. Len(mail)
  BY Typed DEF Sent
<1> QED
  BY <1>1

LEMMA LastRemembered ==
    ASSUME IInv, NEW c \in Chats, NEW to \in Agents
    PROVE  /\ Last(c, to) \in 0 .. Len(mail)
           /\ Last(c, to) # 0 => Remembered(c, Last(c, to))
<1>1. Last(c, to) \in 0 .. Len(mail)
  BY Typed DEF IInv, Last
<1>2. Last(c, to) # 0 => Last(c, to) \in Memory(c)
  BY Typed, <1>1 DEF IInv, Last, Memory, Sent
<1> QED
  BY <1>1, <1>2 DEF IInv, SettledInv

\* An inferred ref to a terminator is one whose close is outstanding here.
LEMMA Inferred ==
    ASSUME IInv, NEW c \in Chats, NEW to \in Agents
    PROVE  LET thread == InferThread(c, to) IN
           /\ thread.answers \in 0 .. Len(mail)
           /\ thread.ref \in 0 .. Len(mail)
           /\ thread.session \in Token
           /\ thread.from_session \in Token
           /\ thread.ref # 0 /\ mail[thread.ref].reply = "end" => Unsettled(thread.ref)
<1> DEFINE last == Last(c, to)
           ref == InferRef(c, last)
<1>1. last \in 0 .. Len(mail) /\ (last # 0 => Remembered(c, last))
  BY LastRemembered
<1>2. mail \in Seq(Message) /\ Len(mail) \in Nat
  BY Typed DEF IInv
<1>3. ref \in 0 .. Len(mail)
  BY <1>1, <1>2 DEF InferRef
<1>4. ref # 0 /\ mail[ref].reply = "end" => Unsettled(ref)
  BY <1>1 DEF InferRef, Remembered, Settled
<1>5. NameOf(c) \in Token
  BY Named, Typed DEF IInv
<1>6. CASE HasTokens(last)
  <2>1. last \in Sent
    BY <1>1, <1>2, <1>6 DEF HasTokens, Sent
  <2>2. mail[last].session \in Token /\ mail[last].from_session \in Token
    BY <2>1, Mails DEF Message, Token, IInv
  <2> HIDE DEF last, ref
  <2>3. /\ Or(mail[last].from_session, mail[last].session) \in Token
        /\ Or(mail[last].session, mail[last].from_session) \in Token
    BY <2>2, OneOfBoth
  <2>4. /\ InferThread(c, to).answers = last
        /\ InferThread(c, to).ref = ref
        /\ InferThread(c, to).session \in Token
        /\ InferThread(c, to).from_session \in Token
    BY <1>6, <2>3 DEF InferThread, last, ref
  <2> QED
    BY <1>1, <1>3, <1>4, <2>4
<1>7. CASE ~HasTokens(last)
  <2>1. InferThread(c, to) = [answers |-> 0, ref |-> 0, session |-> NameOf(c), from_session |-> NameOf(c)]
    BY <1>7 DEF InferThread
  <2> QED
    BY <1>2, <1>5, <2>1
<1> QED
  BY <1>6, <1>7

LEMMA Doors ==
    ASSUME IInv, NEW c \in Chats, NEW to \in Agents, NEW f
    PROVE  Door(c, to, f) \in Chats \cup {None}
<1> DEFINE thread == InferThread(c, to)
<1>1. ResolveChatId(Owner(c), to, f) \in Chats
  BY Routed, Owners, Typed DEF IInv
<1>2. thread.answers # 0 => mail[thread.answers].door \in Chats \cup {None}
  <2>1. thread.answers \in 0 .. Len(mail) /\ Len(mail) \in Nat
    BY Inferred, Typed DEF IInv
  <2>2. thread.answers # 0 => thread.answers \in Sent
    BY <2>1 DEF Sent
  <2> QED
    BY <2>2, Mails DEF IInv, Message
<1> QED
  BY <1>1, <1>2 DEF Door

-----------------------------------------------------------------------------
(* Nothing is unsettled *)

\* A step that sends nothing and forgets no close, but may hand a terminator
\* from its handler on to the vault or to the failures.
LEMMA Monotone ==
    ASSUME IInv, mail' = mail,
           \A a \in Agents : closed[a] \subseteq closed'[a],
           \A n \in Sent : mail[n].reply = "end" /\ Unsettled(n) =>
               Unsettled(n)' \/ n \in closed'[mail[n].to],
           \A n \in Sent : mail[n].reply = "end" /\ Unwoken(n) => Unwoken(n)' \/ Settled(n)'
    PROVE  /\ \A n \in Sent : Settled(n) => Settled(n)'
           /\ \A n \in Sent : Met(n) => Met(n)'
           /\ \A c \in Chats : \A n \in Sent : Remembered(c, n) => Remembered(c, n)'
           /\ MailInv'
<1>1. \A n \in Sent : mail[n].to \in Agents
  BY Mails DEF IInv, Message
<1>2. \A n \in Sent : Settled(n) => Settled(n)'
  BY <1>1 DEF Settled
<1>3. \A c \in Chats : \A n \in Sent : Remembered(c, n) => Remembered(c, n)'
  BY <1>2, Owners DEF Remembered
<1>4. \A n \in Sent : Met(n) => Met(n)'
  BY <1>2 DEF Met, Settled
<1>5. MailInv'
  BY DEF IInv, MailInv, Sent
<1> QED
  BY <1>2, <1>3, <1>4, <1>5

\* The types that the actions on an unchanged mail can disturb.
MoveOK ==
    /\ mesh \in [Chats -> 0 .. Len(mail)]
    /\ threads \in [Chats -> [Agents -> 0 .. Len(mail)]]
    /\ call \in [Chats -> Call]
    /\ net \cup verifying \cup marked \cup handling \subseteq Sent \X (1 .. world.tries)
    /\ wakes \cup unclosed \cup dropped \cup doubted \cup refused \subseteq Sent
    /\ {seen, closed} \subseteq [Agents -> SUBSET Sent]
    /\ restarts \in 0 .. world.restarts

Exchanged == \A c \in Chats, p \in Agents :
    threads[c][p] # 0 => LET m == mail[threads[c][p]] IN p \in {m.from, m.to} \ {Owner(c)}

EndsOnly == \A a \in Agents : \A n \in closed[a] :
    mail[n].reply = "end" /\ a \in {mail[n].from, mail[n].to}

LEMMA TypeParts == TypeOK <=> /\ mail \in Seq(Message) /\ Len(mail) <= world.messages
                              /\ world \in Worlds
                              /\ MoveOK /\ Exchanged /\ EndsOnly
BY Zenon DEF TypeOK, MoveOK, Exchanged, EndsOnly, Sent, Call

LEMMA SameMail ==
    ASSUME TypeOK, UNCHANGED <<mail, world>>, MoveOK', Exchanged', EndsOnly'
    PROVE  TypeOK'
<1>1. Message' = Message
  BY DEF Message, Numbers
<1>2. TypeOK' <=> /\ mail' \in Seq(Message') /\ Len(mail') <= world'.messages
                  /\ world' \in Worlds
                  /\ MoveOK' /\ Exchanged' /\ EndsOnly'
  BY Zenon DEF TypeOK, MoveOK, Exchanged, EndsOnly, Sent, Call
<1> QED
  BY <1>1, <1>2, TypeParts

\* What an action on an unchanged mail has to show.
LEMMA Carried ==
    ASSUME IInv, UNCHANGED <<mail, world>>,
           MoveOK', Exchanged', EndsOnly',
           \A a \in Agents : closed[a] \subseteq closed'[a],
           \A n \in Sent : mail[n].reply = "end" /\ Unsettled(n) =>
               Unsettled(n)' \/ n \in closed'[mail[n].to],
           \A n \in Sent : mail[n].reply = "end" /\ Unwoken(n) => Unwoken(n)' \/ Settled(n)',
           \A c \in Chats : call'[c] = NoCall \/ (call[c] # NoCall /\ call'[c].msg = call[c].msg),
           \A a \in Agents : \A n \in seen'[a] : n \in seen[a] \/ mail[n].to = a,
           \A c \in Chats : \A n \in Memory(c)' : n \in Memory(c) \/ Remembered(c, n)',
           \A n \in Learnt' : n \in Learnt \/ Settled(n)',
           \A n \in ByMark' : n \in ByMark \/ Met(n)',
           \A n \in Denied' : n \in Denied \/ ClosedRef(n)
    PROVE  IInv'
<1>1. /\ \A n \in Sent : (Settled(n) => Settled(n)') /\ (Met(n) => Met(n)')
      /\ \A c \in Chats : \A n \in Sent : Remembered(c, n) => Remembered(c, n)'
      /\ MailInv'
  BY Monotone
<1>2. TypeOK'
  BY SameMail DEF IInv
<1>3. PlaceInv'
  BY DEF IInv, PlaceInv, Sent
<1>4. \A c \in Chats : \A n \in Memory(c)' : Remembered(c, n)'
  BY <1>1 DEF IInv, SettledInv, Memory
<1>5. \A n \in Learnt' : Settled(n)'
  BY <1>1 DEF IInv, SettledInv, Learnt
<1>6. \A n \in ByMark' : Met(n)'
  BY <1>1 DEF IInv, SettledInv, ByMark
<1>7. \A n \in Denied' : ClosedRef(n)'
  BY DEF IInv, SettledInv, ClosedRef, Sent
<1> QED
  BY <1>1, <1>2, <1>3, <1>4, <1>5, <1>6, <1>7 DEF IInv, SettledInv

-----------------------------------------------------------------------------
(* The answers of a delivery *)

LEMMA Calling ==
    ASSUME IInv, NEW c \in Chats, call[c] # NoCall
    PROVE  /\ call[c].msg \in Sent
           /\ mail[call[c].msg] \in Message
           /\ mail[call[c].msg].from = Owner(c)
           /\ mail[call[c].msg].to # Owner(c)
<1>1. call[c].msg \in Sent /\ mail[call[c].msg].chat = c
  BY DEF IInv, PlaceInv
<1> QED
  BY <1>1, Mails DEF IInv, MailInv

LEMMA DeliveredKeeps ==
    ASSUME IInv, NEW c \in Chats, Delivered(c)
    PROVE  IInv'
<1> DEFINE n == call[c].msg
           to == mail[n].to
<1>1. /\ n \in Sent /\ mail[n] \in Message /\ to \in Agents
      /\ mail[n].from = Owner(c) /\ to # Owner(c) /\ Owner(c) \in Agents
  <2>1. call[c].status \in {"ok", "duplicate"}
    BY DEF Delivered
  <2>2. NoCall.status = ""
    BY DEF NoCall
  <2>3. call[c] # NoCall
    BY <2>1, <2>2
  <2> QED
    BY <2>3, Calling, Owners DEF Message
<1>2. /\ call[c].status \in {"ok", "duplicate"} /\ call' = [call EXCEPT ![c] = NoCall]
      /\ doubted' = doubted \cup (IF call[c].status = "duplicate" THEN Ends({n}) ELSE {})
      /\ threads' = [threads EXCEPT ![c][to] = n]
      /\ UNCHANGED <<world, mail, mesh, net, verifying, marked, handling, wakes, seen, unclosed,
                     dropped, refused, restarts>>
  BY DEF Delivered, remote, history
<1>3. MoveOK /\ Exchanged /\ EndsOnly
  BY TypeParts DEF IInv
<1> HIDE DEF n, to
<1>4. /\ closed' \in [Agents -> SUBSET Sent]
      /\ \A a \in Agents : closed[a] \subseteq closed'[a]
      /\ \A a \in Agents : closed'[a] \subseteq closed[a] \cup {n}
      /\ n \in closed'[Owner(c)] <=> n \in closed[Owner(c)] \/ mail[n].reply = "end"
      /\ \A a \in Agents \ {Owner(c)} : closed'[a] = closed[a]
      /\ mail[n].reply # "end" => closed' = closed
  BY <1>1, <1>3 DEF Delivered, Closes, MoveOK, n
<1>5. \A m \in Sent : (Unsettled(m) => Unsettled(m)') /\ (Unwoken(m) => Unwoken(m)')
  BY <1>2 DEF Unsettled, Unwoken
<1>6. /\ doubted' \subseteq doubted \cup {n} /\ doubted \subseteq doubted'
      /\ n \in doubted' => n \in doubted \/ call[c].status = "duplicate"
      /\ mail[n].reply = "end" /\ call[c].status # "ok" => n \in doubted'
  BY <1>2 DEF Ends
<1>7. Sent' = Sent
  BY <1>2 DEF Sent
<1>8. MoveOK'
  <2>1. NoCall \in Call
    BY NoCallTyped, Typed DEF IInv
  <2>2. call' \in [Chats -> Call]
    BY <1>2, <1>3, <2>1 DEF MoveOK
  <2>3. threads' \in [Chats -> [Agents -> 0 .. Len(mail)]]
    BY <1>1, <1>2, <1>3 DEF MoveOK, Sent
  <2>4. Call' = Call
    BY <1>2 DEF Call, Numbers
  <2> QED
    BY <1>1, <1>2, <1>3, <1>4, <1>6, <1>7, <2>2, <2>3, <2>4 DEF MoveOK
<1>9. Exchanged'
  BY <1>1, <1>2, <1>3 DEF Exchanged, MoveOK, to
<1>10. EndsOnly'
  BY <1>1, <1>2, <1>3, <1>4 DEF EndsOnly
<1>11. \A d \in Chats : \A m \in Memory(d)' : m \in Memory(d) \/ Remembered(d, m)'
  <2> SUFFICES ASSUME NEW d \in Chats, NEW m \in Memory(d)', m \notin Memory(d)
               PROVE  Remembered(d, m)'
    OBVIOUS
  <2>1. d = c /\ m = n
    BY <1>1, <1>2, <1>3, <1>7 DEF Memory, MoveOK
  <2> QED
    BY <1>1, <1>2, <1>4, <2>1 DEF Remembered
<1>12. Learnt' \subseteq Learnt
  <2> SUFFICES ASSUME NEW m \in Learnt' PROVE m \in Learnt
    OBVIOUS
  <2>1. NoCall.status = ""
    BY DEF NoCall
  <2>2. ASSUME NEW d \in Chats, call'[d].msg = m, call'[d].status = "ok" PROVE m \in Learnt
    BY <1>2, <1>3, <1>7, <2>1, <2>2 DEF Learnt, MoveOK
  <2>3. ASSUME m \in closed'[mail[m].from] \ doubted' PROVE m \in Learnt
    <3>1. m \in Sent /\ mail[m].from \in Agents
      BY <1>7, Mails DEF Learnt, IInv, Message
    <3>2. CASE m \in closed[mail[m].from]
      BY <1>6, <2>3, <3>1, <3>2 DEF Learnt
    <3>3. CASE m \notin closed[mail[m].from]
      <4>1. m = n /\ mail[n].reply = "end"
        BY <1>4, <2>3, <3>1, <3>3
      <4>2. call[c].status = "ok"
        BY <1>6, <2>3, <4>1
      <4> QED
        BY <1>1, <4>1, <4>2 DEF Learnt, n
    <3> QED
      BY <3>2, <3>3
  <2> QED
    BY <1>2, <1>7, <2>2, <2>3 DEF Learnt
<1>13. ByMark' \subseteq ByMark
  <2> SUFFICES ASSUME NEW m \in ByMark' PROVE m \in ByMark
    OBVIOUS
  <2>1. NoCall.status = ""
    BY DEF NoCall
  <2>2. ASSUME NEW d \in Chats, call'[d].msg = m, call'[d].status = "duplicate" PROVE m \in ByMark
    BY <1>2, <1>3, <1>7, <2>1, <2>2 DEF ByMark, MoveOK
  <2>3. ASSUME m \in doubted' PROVE m \in ByMark
    <3>1. m \in Sent
      BY <1>7 DEF ByMark
    <3>2. CASE m \in doubted
      BY <3>1, <3>2 DEF ByMark
    <3>3. CASE m \notin doubted
      BY <1>6, <2>3, <3>1, <3>3 DEF ByMark, n
    <3> QED
      BY <3>2, <3>3
  <2> QED
    BY <1>2, <1>7, <2>2, <2>3 DEF ByMark
<1>14. Denied' \subseteq Denied
  <2>1. NoCall.status = ""
    BY DEF NoCall
  <2> QED
    BY <1>2, <1>3, <1>7, <2>1 DEF Denied, MoveOK
<1>15. \A d \in Chats : call'[d] = NoCall \/ (call[d] # NoCall /\ call'[d].msg = call[d].msg)
  BY <1>2, <1>3 DEF MoveOK
<1> QED
  BY <1>2, <1>4, <1>5, <1>8, <1>9, <1>10, <1>11, <1>12, <1>13, <1>14, <1>15, Carried

LEMMA RefusedKeeps ==
    ASSUME IInv, NEW c \in Chats, Refused(c)
    PROVE  IInv'
<1>1. /\ call[c].status = "closed" /\ call' = [call EXCEPT ![c] = NoCall]
      /\ refused' = refused \cup {call[c].msg}
      /\ UNCHANGED <<world, mail, mesh, threads, net, verifying, marked, handling, wakes,
                     seen, closed, unclosed, dropped, doubted, restarts>>
  BY DEF Refused, local, remote
<1>2. MoveOK /\ Exchanged /\ EndsOnly
  BY TypeParts DEF IInv
<1>3. NoCall.status = "" /\ NoCall \in Call /\ Call' = Call
  BY <1>1, NoCallTyped, Typed DEF NoCall, IInv, Call, Numbers
<1>4. call[c] # NoCall
  BY <1>1, <1>3
<1>5. call[c].msg \in Sent
  BY <1>4, Calling
<1>6. MoveOK'
  BY <1>1, <1>2, <1>3, <1>5 DEF MoveOK, Sent
<1>7. Exchanged' /\ EndsOnly'
  BY <1>1, <1>2 DEF Exchanged, EndsOnly
<1>8. \A d \in Chats : Memory(d)' = Memory(d)
  BY <1>1 DEF Memory, Sent
<1>9. Learnt' \subseteq Learnt
  BY <1>1, <1>2, <1>3 DEF Learnt, MoveOK, Sent
<1>10. ByMark' \subseteq ByMark
  BY <1>1, <1>2, <1>3 DEF ByMark, MoveOK, Sent
<1>11. Denied' \subseteq Denied
  BY <1>1, <1>2, <1>3 DEF Denied, MoveOK, Sent
<1>12. \A d \in Chats : call'[d] = NoCall \/ (call[d] # NoCall /\ call'[d].msg = call[d].msg)
  BY <1>1, <1>2 DEF MoveOK
<1>13. \A n \in Sent : (Unsettled(n) => Unsettled(n)') /\ (Unwoken(n) => Unwoken(n)')
  BY <1>1 DEF Unsettled, Unwoken
<1> QED
  BY <1>1, <1>6, <1>7, <1>8, <1>9, <1>10, <1>11, <1>12, <1>13, Carried

LEMMA UnansweredKeeps ==
    ASSUME IInv, NEW c \in Chats, Retry(c) \/ GiveUp(c)
    PROVE  IInv'
<1>1. /\ call[c] # NoCall
      /\ UNCHANGED <<world, mail, mesh, threads, verifying, marked, handling, wakes, seen,
                     closed, unclosed, dropped, doubted, refused, restarts>>
  BY DEF Retry, GiveUp, Unanswered, local, remote, history
<1>2. MoveOK /\ Exchanged /\ EndsOnly
  BY TypeParts DEF IInv
<1>3. NoCall.status = "" /\ NoCall \in Call /\ Call' = Call
  BY <1>1, NoCallTyped, Typed DEF NoCall, IInv, Call, Numbers
<1>4. call[c] \in Call /\ call[c].msg \in Sent /\ world.tries \in Nat \ {0}
  BY <1>1, <1>2, Calling, WorldTyped, Typed DEF MoveOK, IInv
<1>5. /\ call' \in [Chats -> Call]
      /\ net' \subseteq Sent \X (1 .. world.tries)
      /\ \A d \in Chats \ {c} : call'[d] = call[d]
      /\ call'[c].status = ""
      /\ call'[c] = NoCall \/ call'[c].msg = call[c].msg
  <2>1. CASE Retry(c)
    <3> DEFINE again == [msg |-> call[c].msg, try |-> call[c].try + 1, status |-> ""]
    <3>1. call[c].try < world.tries /\ call[c].try \in 0 .. world.tries
      BY <1>4, <2>1 DEF Retry, Call
    <3>2. net' = net \cup {<<call[c].msg, call[c].try + 1>>}
      BY <2>1 DEF Retry
    <3>3. call' = [call EXCEPT ![c] = again]
      BY <2>1 DEF Retry
    <3>4. again \in Call
      <4>1. call[c].try + 1 \in 0 .. world.tries
        BY <1>4, <3>1
      <4>2. call[c].msg \in Numbers
        BY <1>4 DEF Call
      <4> QED
        BY <4>1, <4>2 DEF Call
    <3>5. <<call[c].msg, call[c].try + 1>> \in Sent \X (1 .. world.tries)
      BY <1>4, <3>1
    <3>6. again.msg = call[c].msg /\ again.status = ""
      OBVIOUS
    <3> HIDE DEF again
    <3> QED
      BY <1>2, <3>2, <3>3, <3>4, <3>5, <3>6 DEF MoveOK
  <2>2. CASE GiveUp(c)
    BY <1>2, <1>3, <2>2 DEF GiveUp, MoveOK, remote
  <2> QED
    BY <2>1, <2>2
<1>6. MoveOK'
  BY <1>1, <1>2, <1>3, <1>5 DEF MoveOK, Sent
<1>7. Exchanged' /\ EndsOnly'
  BY <1>1, <1>2 DEF Exchanged, EndsOnly
<1>8. \A d \in Chats : Memory(d)' = Memory(d)
  BY <1>1 DEF Memory, Sent
<1>9. Learnt' \subseteq Learnt
  BY <1>1, <1>5 DEF Learnt, Sent
<1>10. ByMark' \subseteq ByMark
  BY <1>1, <1>5 DEF ByMark, Sent
<1>11. Denied' \subseteq Denied
  BY <1>1, <1>5 DEF Denied, Sent
<1>12. \A d \in Chats : call'[d] = NoCall \/ (call[d] # NoCall /\ call'[d].msg = call[d].msg)
  BY <1>1, <1>5
<1>13. \A n \in Sent : (Unsettled(n) => Unsettled(n)') /\ (Unwoken(n) => Unwoken(n)')
  BY <1>1 DEF Unsettled, Unwoken
<1> QED
  BY <1>1, <1>6, <1>7, <1>8, <1>9, <1>10, <1>11, <1>12, <1>13, Carried

-----------------------------------------------------------------------------
(* A POST arrives *)

\* An answer changes the status of the call it is for.
LEMMA Told ==
    ASSUME IInv, NEW post \in Sent \X (1 .. world.tries),
           NEW status \in {"ok", "duplicate", "closed", "error"}, world' = world,
           Tell(post, status) \/ UNCHANGED call
    PROVE  /\ call' \in [Chats -> Call]
           /\ \A c \in Chats : call'[c] = NoCall \/ (call[c] # NoCall /\ call'[c].msg = call[c].msg)
           /\ \A c \in Chats :
                 \/ call'[c] = call[c]
                 \/ Tell(post, status) /\ call'[c].msg = post[1] /\ call'[c].status = status
<1>1. call \in [Chats -> Call]
  BY Typed DEF IInv
<1>2. CASE UNCHANGED call
  BY <1>1, <1>2
<1>3. CASE Tell(post, status)
  <2> DEFINE c == mail[post[1]].chat
  <2>1. c \in Chats /\ post[1] # 0
    BY Mails DEF IInv, Message, Sent
  <2>2. call' = IF call[c].msg = post[1] /\ call[c].try = post[2]
                THEN [call EXCEPT ![c] = [@ EXCEPT !.status = status]] ELSE call
    BY <1>3 DEF Tell
  <2>3. call[c] \in Call
    BY <1>1, <2>1
  <2> DEFINE answered == [call[c] EXCEPT !.status = status]
  <2>4. answered \in Call /\ answered.msg = call[c].msg /\ answered.status = status
    BY <2>3 DEF Call
  <2>5. call[c].msg = post[1] => call[c] # NoCall
    <3>1. NoCall.msg = 0
      BY DEF NoCall
    <3> QED
      BY <2>1, <3>1
  <2> HIDE DEF c, answered
  <2>6. \/ call' = call
        \/ call' = [call EXCEPT ![c] = answered] /\ call[c].msg = post[1]
    BY <2>2 DEF answered
  <2> QED
    BY <1>1, <1>3, <2>1, <2>4, <2>5, <2>6
<1> QED
  BY <1>2, <1>3

\* A POST at the receiver is one of a message that was sent.
LEMMA Posted ==
    ASSUME IInv, NEW post \in net \cup verifying \cup marked \cup handling
    PROVE  /\ post \in Sent \X (1 .. world.tries) /\ post[1] \in Sent
           /\ mail[post[1]] \in Message /\ mail[post[1]].to \in Agents
<1>1. post \in Sent \X (1 .. world.tries)
  BY Typed DEF IInv
<1> QED
  BY <1>1, Mails DEF IInv, Message

LEMMA ArriveKeeps ==
    ASSUME IInv, NEW post \in net, Arrive(post)
    PROVE  IInv'
<1> DEFINE n == post[1]
           to == mail[n].to
<1>1. /\ net' = net \ {post}
      /\ UNCHANGED <<world, mail, mesh, threads, marked, handling, wakes, seen, closed,
                     unclosed, dropped, doubted, refused, restarts>>
  BY DEF Arrive, local, history
<1>2. MoveOK /\ Exchanged /\ EndsOnly
  BY TypeParts DEF IInv
<1>3. post \in Sent \X (1 .. world.tries) /\ n \in Sent /\ mail[n] \in Message /\ to \in Agents
  BY Posted
<1>4. Call' = Call /\ Sent' = Sent
  BY <1>1 DEF Call, Numbers, Sent
<1>5. Exchanged' /\ EndsOnly'
  BY <1>1, <1>2 DEF Exchanged, EndsOnly
<1>6. \A d \in Chats : Memory(d)' = Memory(d)
  BY <1>1 DEF Memory, Sent
<1>7. \A m \in Sent : (Unsettled(m) => Unsettled(m)') /\ (Unwoken(m) => Unwoken(m)')
  BY <1>1 DEF Unsettled, Unwoken
<1>8. \/ n \in seen[to] /\ Tell(post, "duplicate") /\ UNCHANGED verifying
      \/ mail[n].ref \in closed[to] /\ Tell(post, "closed") /\ UNCHANGED verifying
      \/ verifying' = verifying \cup {post} /\ UNCHANGED call
  BY DEF Arrive
<1> HIDE DEF n, to
<1>9. CASE n \in seen[to] /\ Tell(post, "duplicate") /\ UNCHANGED verifying
  <2>1. /\ call' \in [Chats -> Call]
        /\ \A d \in Chats : call'[d] = NoCall \/ (call[d] # NoCall /\ call'[d].msg = call[d].msg)
        /\ \A d \in Chats : call'[d] = call[d] \/ (call'[d].msg = n /\ call'[d].status = "duplicate")
    BY <1>1, <1>3, <1>9, Told DEF n
  <2>2. MoveOK'
    BY <1>1, <1>2, <1>4, <1>9, <2>1 DEF MoveOK, Sent
  <2>3. n \in ByMark
    BY <1>3, <1>9 DEF ByMark
  <2>4. ByMark' \subseteq ByMark
    BY <1>1, <1>4, <2>1, <2>3 DEF ByMark
  <2>5. Learnt' \subseteq Learnt /\ Denied' \subseteq Denied
    BY <1>1, <1>4, <2>1 DEF Learnt, Denied
  <2> QED
    BY <1>1, <1>5, <1>6, <1>7, <2>1, <2>2, <2>4, <2>5, Carried
<1>10. CASE mail[n].ref \in closed[to] /\ Tell(post, "closed") /\ UNCHANGED verifying
  <2>1. /\ call' \in [Chats -> Call]
        /\ \A d \in Chats : call'[d] = NoCall \/ (call[d] # NoCall /\ call'[d].msg = call[d].msg)
        /\ \A d \in Chats : call'[d] = call[d] \/ (call'[d].msg = n /\ call'[d].status = "closed")
    BY <1>1, <1>3, <1>10, Told DEF n
  <2>2. MoveOK'
    BY <1>1, <1>2, <1>4, <1>10, <2>1 DEF MoveOK, Sent
  <2>3. ClosedRef(n)
    BY <1>2, <1>3, <1>10 DEF ClosedRef, EndsOnly, MoveOK
  <2>4. Learnt' \subseteq Learnt /\ ByMark' \subseteq ByMark
    BY <1>1, <1>4, <2>1 DEF Learnt, ByMark
  <2>5. \A m \in Denied' : m \in Denied \/ ClosedRef(m)
    BY <1>1, <1>4, <2>1, <2>3 DEF Denied
  <2> QED
    BY <1>1, <1>5, <1>6, <1>7, <2>1, <2>2, <2>4, <2>5, Carried
<1>11. CASE verifying' = verifying \cup {post} /\ UNCHANGED call
  <2>1. MoveOK'
    BY <1>1, <1>2, <1>3, <1>4, <1>11 DEF MoveOK, Sent
  <2>2. Learnt' \subseteq Learnt /\ ByMark' \subseteq ByMark /\ Denied' \subseteq Denied
    BY <1>1, <1>4, <1>11 DEF Learnt, ByMark, Denied
  <2>3. \A d \in Chats : call'[d] = NoCall \/ (call[d] # NoCall /\ call'[d].msg = call[d].msg)
    BY <1>11
  <2> QED
    BY <1>1, <1>5, <1>6, <1>7, <2>1, <2>2, <2>3, Carried
<1> QED
  BY <1>8, <1>9, <1>10, <1>11

LEMMA RefuseLateKeeps ==
    ASSUME IInv, NEW post \in verifying, RefuseLate(post)
    PROVE  IInv'
<1> DEFINE n == post[1]
           to == mail[n].to
<1>1. /\ mail[n].ref \in closed[to] /\ verifying' = verifying \ {post} /\ Tell(post, "closed")
      /\ UNCHANGED <<world, mail, mesh, threads, net, marked, handling, wakes, seen, closed,
                     unclosed, dropped, doubted, refused, restarts>>
  BY DEF RefuseLate, local, history
<1>2. MoveOK /\ Exchanged /\ EndsOnly
  BY TypeParts DEF IInv
<1>3. post \in Sent \X (1 .. world.tries) /\ n \in Sent /\ to \in Agents
  BY Posted
<1>4. Call' = Call /\ Sent' = Sent
  BY <1>1 DEF Call, Numbers, Sent
<1>5. Exchanged' /\ EndsOnly'
  BY <1>1, <1>2 DEF Exchanged, EndsOnly
<1>6. \A d \in Chats : Memory(d)' = Memory(d)
  BY <1>1 DEF Memory, Sent
<1>7. \A m \in Sent : (Unsettled(m) => Unsettled(m)') /\ (Unwoken(m) => Unwoken(m)')
  BY <1>1 DEF Unsettled, Unwoken
<1>8. /\ call' \in [Chats -> Call]
      /\ \A d \in Chats : call'[d] = NoCall \/ (call[d] # NoCall /\ call'[d].msg = call[d].msg)
      /\ \A d \in Chats : call'[d] = call[d] \/ (call'[d].msg = n /\ call'[d].status = "closed")
  BY <1>1, <1>3, Told
<1>9. ClosedRef(n)
  BY <1>1, <1>2, <1>3 DEF ClosedRef, EndsOnly, MoveOK
<1> HIDE DEF n, to
<1>10. MoveOK'
  BY <1>1, <1>2, <1>4, <1>8 DEF MoveOK, Sent
<1>11. Learnt' \subseteq Learnt /\ ByMark' \subseteq ByMark
  BY <1>1, <1>4, <1>8 DEF Learnt, ByMark
<1>12. \A m \in Denied' : m \in Denied \/ ClosedRef(m)
  BY <1>1, <1>4, <1>8, <1>9 DEF Denied
<1> QED
  BY <1>1, <1>5, <1>6, <1>7, <1>8, <1>10, <1>11, <1>12, Carried

LEMMA MarkSeenKeeps ==
    ASSUME IInv, NEW post \in verifying, MarkSeen(post)
    PROVE  IInv'
<1> DEFINE n == post[1]
           to == mail[n].to
<1>1. /\ verifying' = verifying \ {post} /\ marked' = marked \cup {post}
      /\ seen' = [seen EXCEPT ![to] = @ \cup {n}]
      /\ UNCHANGED <<world, mail, mesh, threads, call, net, handling, wakes, closed, unclosed,
                     dropped, doubted, refused, restarts>>
  BY DEF MarkSeen, local, history
<1>2. MoveOK /\ Exchanged /\ EndsOnly
  BY TypeParts DEF IInv
<1>3. post \in Sent \X (1 .. world.tries) /\ n \in Sent /\ to \in Agents
  BY Posted
<1>4. Call' = Call /\ Sent' = Sent
  BY <1>1 DEF Call, Numbers, Sent
<1>5. Exchanged' /\ EndsOnly'
  BY <1>1, <1>2 DEF Exchanged, EndsOnly
<1>6. \A d \in Chats : Memory(d)' = Memory(d)
  BY <1>1 DEF Memory, Sent
<1>7. \A m \in Sent : (Unsettled(m) => Unsettled(m)') /\ (Unwoken(m) => Unwoken(m)')
  BY <1>1 DEF Unsettled, Unwoken
<1>8. Met(n)'
  BY <1>1 DEF Met, Unwoken
<1> HIDE DEF n
<1>9. MoveOK'
  BY <1>1, <1>2, <1>3, <1>4 DEF MoveOK, Sent
<1>10. \A m \in ByMark' : m \in ByMark \/ m = n
  BY <1>1, <1>2, <1>3, <1>4 DEF ByMark, MoveOK
<1>11. Learnt' \subseteq Learnt /\ Denied' \subseteq Denied
  BY <1>1, <1>4 DEF Learnt, Denied
<1>12. \A a \in Agents : \A m \in seen'[a] : m \in seen[a] \/ mail[m].to = a
  BY <1>1, <1>2, <1>3 DEF MoveOK
<1>13. \A d \in Chats : call'[d] = NoCall \/ (call[d] # NoCall /\ call'[d].msg = call[d].msg)
  BY <1>1
<1> QED
  BY <1>1, <1>5, <1>6, <1>7, <1>8, <1>9, <1>10, <1>11, <1>12, <1>13, Carried

LEMMA EnqueueKeeps ==
    ASSUME IInv, NEW post \in marked, Enqueue(post)
    PROVE  IInv'
<1> DEFINE n == post[1]
<1>1. /\ marked' = marked \ {post} /\ wakes' = wakes \cup {n}
      /\ \/ mail[n].reply = "end" /\ handling' = handling \cup {post} /\ UNCHANGED call
         \/ mail[n].reply # "end" /\ Tell(post, "ok") /\ UNCHANGED handling
      /\ UNCHANGED <<world, mail, mesh, threads, net, verifying, seen, closed, unclosed,
                     dropped, doubted, refused, restarts>>
  BY DEF Enqueue, local, history
<1>2. MoveOK /\ Exchanged /\ EndsOnly
  BY TypeParts DEF IInv
<1>3. post \in Sent \X (1 .. world.tries) /\ n \in Sent
  BY Posted
<1>4. Call' = Call /\ Sent' = Sent
  BY <1>1 DEF Call, Numbers, Sent
<1>5. Exchanged' /\ EndsOnly'
  BY <1>1, <1>2 DEF Exchanged, EndsOnly
<1>6. \A d \in Chats : Memory(d)' = Memory(d)
  BY <1>1 DEF Memory, Sent
<1>7. Settled(n)'
  BY <1>1 DEF Settled, Unsettled
<1>8. \A m \in Sent : /\ Unsettled(m) => Unsettled(m)'
                      /\ Unwoken(m) => Unwoken(m)' \/ m = n
  BY <1>1 DEF Unsettled, Unwoken
<1>9. /\ call' \in [Chats -> Call]
      /\ \A d \in Chats : call'[d] = NoCall \/ (call[d] # NoCall /\ call'[d].msg = call[d].msg)
      /\ \A d \in Chats : call'[d] = call[d] \/ (call'[d].msg = n /\ call'[d].status = "ok")
  BY <1>1, <1>3, Told
<1> HIDE DEF n
<1>10. handling \subseteq handling' /\ handling' \subseteq handling \cup {post}
  BY <1>1
<1>11. MoveOK'
  BY <1>1, <1>2, <1>3, <1>4, <1>9, <1>10 DEF MoveOK, Sent
<1>12. \A m \in Learnt' : m \in Learnt \/ m = n
  BY <1>1, <1>4, <1>9 DEF Learnt
<1>13. ByMark' \subseteq ByMark /\ Denied' \subseteq Denied
  BY <1>1, <1>4, <1>9 DEF ByMark, Denied
<1> QED
  BY <1>1, <1>5, <1>6, <1>7, <1>8, <1>9, <1>11, <1>12, <1>13, Carried

LEMMA EnqueueFailsKeeps ==
    ASSUME IInv, NEW post \in marked, EnqueueFails(post)
    PROVE  IInv'
<1> DEFINE n == post[1]
           to == mail[n].to
<1>1. /\ marked' = marked \ {post} /\ dropped' = dropped \cup Ends({n}) /\ Tell(post, "error")
      /\ seen' = [seen EXCEPT ![to] = @ \ {n}] \/ UNCHANGED seen
      /\ UNCHANGED <<world, mail, mesh, threads, net, verifying, handling, wakes, closed,
                     unclosed, doubted, refused, restarts>>
  BY DEF EnqueueFails, local
<1>2. MoveOK /\ Exchanged /\ EndsOnly
  BY TypeParts DEF IInv
<1>3. post \in Sent \X (1 .. world.tries) /\ n \in Sent /\ to \in Agents
  BY Posted
<1>4. Call' = Call /\ Sent' = Sent
  BY <1>1 DEF Call, Numbers, Sent
<1>5. Exchanged' /\ EndsOnly'
  BY <1>1, <1>2 DEF Exchanged, EndsOnly
<1>6. \A d \in Chats : Memory(d)' = Memory(d)
  BY <1>1 DEF Memory, Sent
<1>7. \A m \in Sent : /\ Unsettled(m) => Unsettled(m)'
                      /\ mail[m].reply = "end" /\ Unwoken(m) => Unwoken(m)'
  BY <1>1 DEF Unsettled, Unwoken, Ends
<1>8. /\ call' \in [Chats -> Call]
      /\ \A d \in Chats : call'[d] = NoCall \/ (call[d] # NoCall /\ call'[d].msg = call[d].msg)
      /\ \A d \in Chats : call'[d] = call[d] \/ (call'[d].msg = n /\ call'[d].status = "error")
  BY <1>1, <1>3, Told
<1> HIDE DEF n
<1>9. \A a \in Agents : seen'[a] \subseteq seen[a]
  BY <1>1, <1>2, <1>3 DEF MoveOK
<1>10. seen' \in [Agents -> SUBSET Sent] /\ dropped' \subseteq Sent
  BY <1>1, <1>2, <1>3 DEF MoveOK, Ends
<1>11. MoveOK'
  BY <1>1, <1>2, <1>4, <1>8, <1>10 DEF MoveOK
<1>12. Learnt' \subseteq Learnt /\ ByMark' \subseteq ByMark /\ Denied' \subseteq Denied
  BY <1>1, <1>4, <1>8, <1>9 DEF Learnt, ByMark, Denied
<1> QED
  BY <1>1, <1>5, <1>6, <1>7, <1>8, <1>9, <1>11, <1>12, Carried

-----------------------------------------------------------------------------
(* The close of a terminator *)

LEMMA CommitTerminatorKeeps ==
    ASSUME IInv, NEW post \in handling, CommitTerminator(post)
    PROVE  IInv'
<1> DEFINE n == post[1]
           to == mail[n].to
<1>1. /\ handling' = handling \ {post} /\ Tell(post, "ok")
      /\ UNCHANGED <<world, mail, mesh, threads, net, verifying, marked, wakes, seen,
                     unclosed, dropped, doubted, refused, restarts>>
  BY DEF CommitTerminator, local, history
<1>2. MoveOK /\ Exchanged /\ EndsOnly
  BY TypeParts DEF IInv
<1>3. /\ post \in Sent \X (1 .. world.tries) /\ n \in Sent
      /\ mail[n] \in Message /\ to \in Agents
  <2>1. post \in Sent \X (1 .. world.tries)
    BY <1>2 DEF MoveOK
  <2> QED
    BY <2>1, Mails DEF IInv, Message
<1>4. Call' = Call /\ Sent' = Sent
  BY <1>1 DEF Call, Numbers, Sent
<1>5. /\ closed' \in [Agents -> SUBSET Sent]
      /\ \A a \in Agents : closed[a] \subseteq closed'[a]
      /\ \A a \in Agents : closed'[a] \subseteq closed[a] \cup {n}
      /\ mail[n].reply = "end" => n \in closed'[to]
      /\ mail[n].reply # "end" => closed' = closed
      /\ \A a \in Agents \ {to} : closed'[a] = closed[a]
  BY <1>2, <1>3 DEF CommitTerminator, Closes, MoveOK
<1>6. /\ call' \in [Chats -> Call]
      /\ \A d \in Chats : call'[d] = NoCall \/ (call[d] # NoCall /\ call'[d].msg = call[d].msg)
      /\ \A d \in Chats : call'[d] = call[d] \/ (call'[d].msg = n /\ call'[d].status = "ok")
  BY <1>1, <1>3, Told
<1>7. Exchanged'
  BY <1>1, <1>2 DEF Exchanged
<1>8. \A d \in Chats : Memory(d)' = Memory(d)
  BY <1>1 DEF Memory, Sent
<1>9. \A m \in Sent :
         /\ mail[m].reply = "end" /\ Unsettled(m) => Unsettled(m)' \/ m \in closed'[mail[m].to]
         /\ Unwoken(m) => Unwoken(m)'
  BY <1>1, <1>5 DEF Unsettled, Unwoken
<1> HIDE DEF n
<1>10. EndsOnly'
  BY <1>1, <1>2, <1>3, <1>5 DEF EndsOnly
<1>11. MoveOK'
  BY <1>1, <1>2, <1>4, <1>5, <1>6 DEF MoveOK, Sent
<1>12. Settled(n)'
  BY <1>1, <1>5 DEF Settled
<1>13. \A m \in Learnt' : m \in Learnt \/ m = n
  <2> SUFFICES ASSUME NEW m \in Learnt', m # n PROVE m \in Learnt
    OBVIOUS
  <2>1. m \in Sent /\ mail[m].from \in Agents
    BY <1>4, Mails DEF Learnt, IInv, Message
  <2> QED
    BY <1>1, <1>4, <1>5, <1>6, <2>1 DEF Learnt
<1>14. Denied' \subseteq Denied /\ ByMark' \subseteq ByMark
  BY <1>1, <1>4, <1>6 DEF Denied, ByMark
<1> QED
  BY <1>1, <1>5, <1>6, <1>7, <1>8, <1>9, <1>10, <1>11, <1>12, <1>13, <1>14, Carried

LEMMA CommitFailsKeeps ==
    ASSUME IInv, NEW post \in handling, CommitFails(post)
    PROVE  IInv'
<1> DEFINE n == post[1]
<1>1. /\ handling' = handling \ {post} /\ unclosed' = unclosed \cup {n} /\ Tell(post, "error")
      /\ UNCHANGED <<world, mail, mesh, threads, net, verifying, marked, wakes, seen,
                     closed, dropped, doubted, refused, restarts>>
  BY DEF CommitFails, local
<1>2. MoveOK /\ Exchanged /\ EndsOnly
  BY TypeParts DEF IInv
<1>3. post \in Sent \X (1 .. world.tries) /\ n \in Sent
  <2>1. post \in Sent \X (1 .. world.tries)
    BY <1>2 DEF MoveOK
  <2> QED
    BY <2>1
<1>4. Call' = Call /\ Sent' = Sent
  BY <1>1 DEF Call, Numbers, Sent
<1>5. /\ call' \in [Chats -> Call]
      /\ \A d \in Chats : call'[d] = NoCall \/ (call[d] # NoCall /\ call'[d].msg = call[d].msg)
      /\ \A d \in Chats : call'[d] = call[d] \/ (call'[d].msg = n /\ call'[d].status = "error")
  BY <1>1, <1>3, Told
<1>6. Exchanged' /\ EndsOnly'
  BY <1>1, <1>2 DEF Exchanged, EndsOnly
<1>7. \A d \in Chats : Memory(d)' = Memory(d)
  BY <1>1 DEF Memory, Sent
<1>8. \A m \in Sent : (Unsettled(m) => Unsettled(m)') /\ (Unwoken(m) => Unwoken(m)')
  BY <1>1 DEF Unsettled, Unwoken
<1> HIDE DEF n
<1>9. MoveOK'
  BY <1>1, <1>2, <1>3, <1>4, <1>5 DEF MoveOK, Sent
<1>10. Learnt' \subseteq Learnt /\ ByMark' \subseteq ByMark
  BY <1>1, <1>4, <1>5 DEF Learnt, ByMark
<1>11. Denied' \subseteq Denied
  BY <1>1, <1>4, <1>5 DEF Denied
<1> QED
  BY <1>1, <1>5, <1>6, <1>7, <1>8, <1>9, <1>10, <1>11, Carried

-----------------------------------------------------------------------------
(* Turns and restarts *)

LEMMA WakeKeeps ==
    ASSUME IInv, NEW c \in Chats, NEW n \in wakes, Wake(c, n)
    PROVE  IInv'
<1>1. /\ Woken(n) = c /\ wakes' = wakes \ {n}
      /\ mesh' = [mesh EXCEPT ![c] = n]
      /\ threads' = [threads EXCEPT ![c][mail[n].from] = n]
      /\ UNCHANGED <<world, mail, call, net, verifying, marked, handling, seen, closed,
                     unclosed, dropped, doubted, refused, restarts>>
  BY DEF Wake, history
<1>2. MoveOK /\ Exchanged /\ EndsOnly
  BY TypeParts DEF IInv
<1>3. n \in Sent /\ mail[n] \in Message
  BY <1>2, Mails DEF MoveOK, IInv
<1>4. Owner(c) = mail[n].to /\ mail[n].from \in Agents /\ mail[n].from # mail[n].to
  <2>1. mail[n].from \in Agents /\ mail[n].to \in Agents
    BY <1>3 DEF Message
  <2>2. c \in ChatsOf[mail[n].to]
    BY <1>1, <2>1, Routed, Typed DEF Woken, IInv
  <2> QED
    BY <1>3, <2>1, <2>2, Owners DEF IInv, MailInv
<1>5. Call' = Call /\ Sent' = Sent
  BY <1>1 DEF Call, Numbers, Sent
<1>6. MoveOK'
  <2>1. mesh' \in [Chats -> 0 .. Len(mail)]
    BY <1>1, <1>2, <1>3 DEF MoveOK, Sent
  <2>2. threads' \in [Chats -> [Agents -> 0 .. Len(mail)]]
    BY <1>1, <1>2, <1>3, <1>4 DEF MoveOK, Sent
  <2> QED
    BY <1>1, <1>2, <1>5, <2>1, <2>2 DEF MoveOK
<1>7. Exchanged'
  BY <1>1, <1>2, <1>4 DEF Exchanged, MoveOK
<1>8. EndsOnly'
  BY <1>1, <1>2 DEF EndsOnly
<1>9. \A m \in Sent : (Unsettled(m) => Unsettled(m)') /\ (Unwoken(m) => Unwoken(m)')
  BY <1>1 DEF Unsettled, Unwoken
<1>10. Remembered(c, n)'
  <2>1. Settled(n)
    BY <1>3 DEF IInv, SettledInv, Learnt
  <2>2. Settled(n)'
    BY <1>1, <2>1 DEF Settled, Unsettled
  <2> QED
    BY <1>1, <1>4, <2>2 DEF Remembered
<1>11. \A d \in Chats : \A m \in Memory(d)' : m \in Memory(d) \/ Remembered(d, m)'
  <2> SUFFICES ASSUME NEW d \in Chats, NEW m \in Memory(d)', m \notin Memory(d)
               PROVE  d = c /\ m = n
    BY <1>10
  <2> QED
    BY <1>1, <1>2, <1>4, <1>5 DEF Memory, MoveOK
<1>12. Learnt' \subseteq Learnt /\ ByMark' \subseteq ByMark /\ Denied' \subseteq Denied
  BY <1>1, <1>5 DEF Learnt, ByMark, Denied
<1> QED
  BY <1>1, <1>6, <1>7, <1>8, <1>9, <1>11, <1>12, Carried

LEMMA AfterTurnKeeps ==
    ASSUME IInv, NEW c \in Chats, AfterTurn(c)
    PROVE  IInv'
<1>1. /\ mesh' = [mesh EXCEPT ![c] = 0]
      /\ UNCHANGED <<world, mail, threads, call, net, verifying, marked, handling, wakes,
                     seen, closed, unclosed, dropped, doubted, refused, restarts>>
  BY DEF AfterTurn, remote, history
<1>2. MoveOK /\ Exchanged /\ EndsOnly
  BY TypeParts DEF IInv
<1>3. Call' = Call /\ Sent' = Sent
  BY <1>1 DEF Call, Numbers, Sent
<1>4. MoveOK'
  <2>1. 0 \in 0 .. Len(mail)
    BY Typed DEF IInv
  <2> QED
    BY <1>1, <1>2, <1>3, <2>1 DEF MoveOK
<1>5. Exchanged' /\ EndsOnly'
  BY <1>1, <1>2 DEF Exchanged, EndsOnly
<1>6. \A d \in Chats : Memory(d)' \subseteq Memory(d)
  BY <1>1, <1>2 DEF Memory, Sent, MoveOK
<1>7. Learnt' \subseteq Learnt /\ ByMark' \subseteq ByMark /\ Denied' \subseteq Denied
  BY <1>1, <1>3 DEF Learnt, ByMark, Denied
<1>8. \A n \in Sent : (Unsettled(n) => Unsettled(n)') /\ (Unwoken(n) => Unwoken(n)')
  BY <1>1 DEF Unsettled, Unwoken
<1> QED
  BY <1>1, <1>4, <1>5, <1>6, <1>7, <1>8, Carried

LEMMA RestartKeeps ==
    ASSUME IInv, NEW a \in Agents, Restart(a)
    PROVE  IInv'
<1> DEFINE cut == {p \in handling : mail[p[1]].to = a}
           left == {p \in marked : mail[p[1]].to = a}
<1>1. /\ call' = [c \in Chats |-> IF c \in ChatsOf[a] THEN NoCall ELSE call[c]]
      /\ seen' = [seen EXCEPT ![a] = {}]
      /\ handling' = handling \ cut
      /\ unclosed' = unclosed \cup {p[1] : p \in cut}
      /\ verifying' \subseteq verifying /\ marked' = marked \ left
      /\ dropped' = dropped \cup Ends({p[1] : p \in left})
      /\ wakes' \subseteq wakes
      /\ restarts < world.restarts /\ restarts' = restarts + 1
      /\ UNCHANGED <<world, mail, mesh, threads, net, closed, doubted, refused>>
  BY DEF Restart
<1>2. MoveOK /\ Exchanged /\ EndsOnly
  BY TypeParts DEF IInv
<1>3. Call' = Call /\ Sent' = Sent
  BY <1>1 DEF Call, Numbers, Sent
<1>4. NoCall.status = "" /\ NoCall \in Call
  BY NoCallTyped, Typed DEF NoCall, IInv
<1>5. \A p \in cut \cup left : p[1] \in Sent
  BY <1>2 DEF MoveOK
<1>6. \A n \in Sent : /\ Unsettled(n) => Unsettled(n)'
                      /\ mail[n].reply = "end" /\ Unwoken(n) => Unwoken(n)'
  BY <1>1 DEF Unsettled, Unwoken, Ends
<1> HIDE DEF cut, left
<1>7. MoveOK'
  <2>1. call' \in [Chats -> Call]
    BY <1>1, <1>2, <1>4 DEF MoveOK
  <2>2. restarts' \in 0 .. world.restarts
    BY <1>1, <1>2, WorldTyped, Typed DEF MoveOK, IInv
  <2>3. seen' \in [Agents -> SUBSET Sent]
    BY <1>1, <1>2 DEF MoveOK
  <2>4. wakes' \cup unclosed' \cup dropped' \cup doubted' \cup refused' \subseteq Sent
    BY <1>1, <1>2, <1>5 DEF MoveOK, Ends
  <2> QED
    BY <1>1, <1>2, <1>3, <2>1, <2>2, <2>3, <2>4 DEF MoveOK
<1>8. Exchanged' /\ EndsOnly'
  BY <1>1, <1>2 DEF Exchanged, EndsOnly
<1>9. \A d \in Chats : Memory(d)' = Memory(d)
  BY <1>1 DEF Memory, Sent
<1>10. \A b \in Agents : seen'[b] \subseteq seen[b]
  BY <1>1, <1>2 DEF MoveOK
<1>11. Learnt' \subseteq Learnt /\ ByMark' \subseteq ByMark /\ Denied' \subseteq Denied
  BY <1>1, <1>3, <1>4, <1>10 DEF Learnt, ByMark, Denied
<1>12. \A c \in Chats : call'[c] = NoCall \/ (call[c] # NoCall /\ call'[c].msg = call[c].msg)
  BY <1>1
<1> QED
  BY <1>1, <1>6, <1>7, <1>8, <1>9, <1>10, <1>11, <1>12, Carried

-----------------------------------------------------------------------------
(* A message is sent *)

LEMMA Appended ==
    ASSUME NEW S, NEW q \in Seq(S), NEW e
    PROVE  /\ e \in S => Append(q, e) \in Seq(S)
           /\ Len(Append(q, e)) = Len(q) + 1
           /\ Append(q, e)[Len(q) + 1] = e
           /\ \A n \in 1 .. Len(q) : Append(q, e)[n] = q[n]
OBVIOUS

LEMMA SendKeeps ==
    ASSUME IInv, NEW c \in Chats, NEW to \in Agents, NEW reply \in {"yes", "end"},
           NEW s \in Sessions \cup {None}, NEW f \in Sessions \cup {None}, NEW ref \in 0 .. Len(mail),
           Len(mail) < world.messages, to # Owner(c), Send(c, to, reply, s, f, ref)
    PROVE  IInv'
<1> DEFINE thread == InferThread(c, to)
           k == Len(mail) + 1
           m == [from |-> Owner(c), to |-> to, chat |-> c, reply |-> reply,
                 session |-> Or(s, thread.session),
                 from_session |-> Or(f, thread.from_session),
                 ref |-> IF ref # 0 THEN ref ELSE thread.ref,
                 passed |-> Passed(s, f, ref),
                 answers |-> thread.answers,
                 unsettled |-> Unsettled(thread.ref),
                 door |-> Door(c, to, f)]
<1>1. /\ mail' = Append(mail, m)
      /\ call' = [call EXCEPT ![c] = [msg |-> k, try |-> 1, status |-> ""]]
      /\ net' = net \cup {<<k, 1>>}
      /\ UNCHANGED <<world, mesh, threads, verifying, marked, handling, wakes, seen, closed,
                     unclosed, dropped, doubted, refused, restarts>>
  BY DEF Send, local, history
<1>2. MoveOK /\ Exchanged /\ EndsOnly
  BY TypeParts DEF IInv
<1>3. /\ mail \in Seq(Message) /\ Len(mail) \in Nat /\ world.messages \in Nat /\ world \in Worlds
      /\ world.tries \in Nat \ {0}
  BY WorldTyped, Typed DEF IInv
<1>4. k \in Nat /\ k <= world.messages /\ 0 .. Len(mail) \subseteq Numbers /\ k \in Numbers
  BY <1>3 DEF Numbers
<1>5. /\ thread.answers \in 0 .. Len(mail) /\ thread.ref \in 0 .. Len(mail)
      /\ thread.session \in Token /\ thread.from_session \in Token
      /\ thread.ref # 0 /\ mail[thread.ref].reply = "end" => Unsettled(thread.ref)
  BY Inferred
<1> HIDE DEF thread
<1>6. m \in Message
  <2>1. Owner(c) \in Agents
    BY Owners
  <2>2. Or(s, thread.session) \in Token /\ Or(f, thread.from_session) \in Token
    BY <1>5 DEF Token, Or
  <2>3. Door(c, to, f) \in Chats \cup {None}
    BY Doors
  <2>4. Passed(s, f, ref) \in SUBSET {"session", "from_session", "ref"}
    BY DEF Passed
  <2>5. Unsettled(thread.ref) \in BOOLEAN
    BY DEF Unsettled
  <2> HIDE DEF k
  <2> QED
    BY <1>4, <1>5, <2>1, <2>2, <2>3, <2>4, <2>5 DEF Message, Token
<1>7. /\ m.from = Owner(m.chat) /\ m.from # m.to /\ m.chat = c
      /\ m.ref \in 0 .. Len(mail)
      /\ m.ref # 0 /\ "ref" \notin m.passed /\ mail[m.ref].reply = "end" => m.unsettled
  BY <1>5 DEF Passed
<1> HIDE DEF m
<1>8. /\ mail' \in Seq(Message) /\ Len(mail') = k /\ mail'[k] = m
      /\ \A n \in Sent : mail'[n] = mail[n]
  <2>1. mail' = Append(mail, m)
    BY <1>1
  <2>2. /\ mail' \in Seq(Message) /\ Len(mail') = Len(mail) + 1
        /\ mail'[Len(mail) + 1] = m
        /\ \A n \in 1 .. Len(mail) : mail'[n] = mail[n]
    <3>1. /\ Append(mail, m) \in Seq(Message) /\ Len(Append(mail, m)) = Len(mail) + 1
          /\ Append(mail, m)[Len(mail) + 1] = m
          /\ \A n \in 1 .. Len(mail) : Append(mail, m)[n] = mail[n]
      <4>1. mail \in Seq(Message) /\ m \in Message
        BY <1>3, <1>6
      <4> QED
        BY <4>1, Appended
    <3> QED
      BY <2>1, <3>1, Zenon
  <2> QED
    BY <2>2 DEF Sent
<1>9. Sent' = Sent \cup {k} /\ k \notin Sent /\ k # 0
  BY <1>3, <1>8 DEF Sent
<1>10. \A n \in Sent : mail[n] \in Message /\ mail[n].to \in Agents /\ mail[n].from \in Agents
  BY Mails DEF IInv, Message
<1>11. MoveOK'
  <2>1. [msg |-> k, try |-> 1, status |-> ""] \in Call
    <3>1. 1 \in 0 .. world.tries
      BY <1>3
    <3> HIDE DEF k
    <3> QED
      BY <1>4, <3>1 DEF Call
  <2>2. call' \in [Chats -> Call']
    <3>1. Call' = Call
      BY <1>1 DEF Call, Numbers
    <3> HIDE DEF k
    <3> QED
      BY <1>1, <1>2, <2>1, <3>1 DEF MoveOK
  <2>3. 0 .. Len(mail) \subseteq 0 .. Len(mail')
    BY <1>3, <1>8
  <2>4. mesh' \in [Chats -> 0 .. Len(mail')] /\ threads' \in [Chats -> [Agents -> 0 .. Len(mail')]]
    BY <1>1, <1>2, <2>3 DEF MoveOK
  <2>5. net' \cup verifying' \cup marked' \cup handling' \subseteq Sent' \X (1 .. world'.tries)
    <3>1. <<k, 1>> \in Sent' \X (1 .. world.tries)
      <4>1. 1 \in 1 .. world.tries /\ k \in Sent'
        BY <1>3, <1>9
      <4> HIDE DEF k
      <4> QED
        BY <4>1
    <3>2. net \cup verifying \cup marked \cup handling \subseteq Sent' \X (1 .. world.tries)
      <4> HIDE DEF k
      <4> QED
        BY <1>2, <1>9 DEF MoveOK, Sent
    <3> HIDE DEF k
    <3> QED
      BY <1>1, <3>1, <3>2
  <2>6. wakes' \cup unclosed' \cup dropped' \cup doubted' \cup refused' \subseteq Sent'
    BY <1>1, <1>2, <1>9 DEF MoveOK
  <2>7. {seen', closed'} \subseteq [Agents -> SUBSET Sent']
    BY <1>1, <1>2, <1>9 DEF MoveOK
  <2> HIDE DEF k
  <2> QED
    BY <1>1, <1>2, <2>1, <2>2, <2>4, <2>5, <2>6, <2>7 DEF MoveOK
<1> HIDE DEF k
<1>12. Exchanged'
  <2> SUFFICES ASSUME NEW d \in Chats, NEW p \in Agents, threads[d][p] # 0
               PROVE  LET l == mail'[threads[d][p]] IN p \in {l.from, l.to} \ {Owner(d)}
    BY <1>1, Zenon DEF Exchanged
  <2>1. threads[d][p] \in 0 .. Len(mail)
    BY <1>2 DEF MoveOK
  <2>2. threads[d][p] \in Sent
    BY <1>3, <2>1 DEF Sent
  <2> QED
    BY <1>2, <1>8, <2>2 DEF Exchanged
<1>13. EndsOnly'
  BY <1>1, <1>2, <1>8 DEF EndsOnly, MoveOK
<1>14. TypeOK'
  <2>1. Message' = Message
    BY <1>1 DEF Message, Numbers
  <2>2. TypeOK' <=> /\ mail' \in Seq(Message') /\ Len(mail') <= world'.messages
                    /\ world' \in Worlds
                    /\ MoveOK' /\ Exchanged' /\ EndsOnly'
    BY Zenon DEF TypeOK, MoveOK, Exchanged, EndsOnly, Sent, Call
  <2> QED
    BY <1>1, <1>3, <1>4, <1>8, <1>11, <1>12, <1>13, <2>1, <2>2
<1>15. MailInv'
  <2>1. ASSUME NEW n \in Sent', n # k
        PROVE  /\ mail'[n] = mail[n] /\ mail[n].ref \in 0 .. Len(mail)
               /\ mail[n].from = Owner(mail[n].chat) /\ mail[n].from # mail[n].to
               /\ mail[n].ref # 0 /\ "ref" \notin mail[n].passed /\ mail[mail[n].ref].reply = "end"
                     => mail[n].unsettled
    BY <1>8, <1>9, <2>1 DEF IInv, MailInv
  <2>2. \A i \in 0 .. Len(mail) : i # 0 => mail'[i] = mail[i]
    BY <1>3, <1>8 DEF Sent
  <2>3. 0 .. Len(mail) \subseteq 0 .. Len(mail')
    BY <1>3, <1>8 DEF k
  <2> QED
    BY <1>7, <1>8, <2>1, <2>2, <2>3 DEF MailInv
<1>16. PlaceInv'
  <2>1. ASSUME NEW d \in Chats
        PROVE  call'[d] = NoCall \/ (call'[d].msg \in Sent' /\ mail'[call'[d].msg].chat = d)
    <3>1. CASE d = c
      BY <1>1, <1>2, <1>7, <1>8, <1>9, <3>1 DEF MoveOK
    <3>2. CASE d # c
      BY <1>1, <1>2, <1>8, <1>9, <3>2 DEF MoveOK, IInv, PlaceInv
    <3> QED
      BY <3>1, <3>2
  <2>2. ASSUME NEW a \in Agents, NEW n \in seen'[a] PROVE mail'[n].to = a
    BY <1>1, <1>2, <1>8 DEF MoveOK, IInv, PlaceInv
  <2> QED
    BY <2>1, <2>2 DEF PlaceInv
<1>17. \A n \in Sent : Unsettled(n)' = Unsettled(n) /\ Unwoken(n)' = Unwoken(n)
  BY <1>1 DEF Unsettled, Unwoken
<1>18. \A n \in Sent : (Settled(n) => Settled(n)') /\ (Met(n) => Met(n)')
  BY <1>1, <1>8, <1>17 DEF Settled, Met
<1>19. ASSUME NEW d \in Chats, NEW n \in Memory(d)' PROVE Remembered(d, n)'
  <2>1. n \in Sent
    <3>1. n # 0 /\ (n = mesh[d] \/ \E p \in Agents : n = threads[d][p])
      <4>1. n \in Sent' /\ 0 \notin Sent'
        BY <1>3, <1>9 DEF Memory, Sent
      <4> QED
        BY <1>1, <4>1 DEF Memory
    <3>2. n \in 0 .. Len(mail)
      BY <1>2, <3>1 DEF MoveOK
    <3> QED
      BY <1>3, <3>1, <3>2 DEF Sent
  <2>2. n \in Memory(d)
    BY <1>1, <2>1 DEF Memory
  <2>3. Remembered(d, n)
    BY <2>2 DEF IInv, SettledInv
  <2> QED
    BY <1>1, <1>8, <1>18, <2>1, <2>3 DEF Remembered
<1>20. Learnt' \subseteq Learnt
  <2> SUFFICES ASSUME NEW n \in Learnt' PROVE n \in Learnt
    OBVIOUS
  <2>1. \A d \in Chats : call'[d].status = "ok" => call'[d] = call[d]
    BY <1>1, <1>2 DEF MoveOK
  <2>2. \A d \in Chats : call[d].status = "ok" => call[d].msg \in Sent
    <3>1. NoCall.status = ""
      BY DEF NoCall
    <3> QED
      BY <3>1 DEF IInv, PlaceInv
  <2>3. ASSUME n = k PROVE n \notin Learnt'
    <3>1. mail'[n].from \in Agents
      BY <1>6, <1>8, <2>3 DEF Message
    <3> QED
      BY <1>1, <1>2, <1>9, <2>1, <2>2, <2>3, <3>1 DEF Learnt, MoveOK
  <2>4. n \in Sent
    BY <1>9, <2>3 DEF Learnt
  <2> QED
    BY <1>1, <1>8, <2>1, <2>4 DEF Learnt
<1>21. ByMark' \subseteq ByMark
  <2>1. \A d \in Chats : call'[d].status = "duplicate" => call'[d] = call[d]
    BY <1>1, <1>2 DEF MoveOK
  <2>2. \A d \in Chats : call[d].status = "duplicate" => call[d].msg \in Sent
    <3>1. NoCall.status = ""
      BY DEF NoCall
    <3> QED
      BY <3>1 DEF IInv, PlaceInv
  <2> QED
    BY <1>1, <1>2, <1>9, <2>1, <2>2 DEF ByMark, MoveOK
<1>22. ASSUME NEW n \in Denied' PROVE ClosedRef(n)'
  <2>1. \A d \in Chats : call'[d].status = "closed" => call'[d] = call[d]
    BY <1>1, <1>2 DEF MoveOK
  <2>2. \A d \in Chats : call[d].status = "closed" => call[d].msg \in Sent
    <3>1. NoCall.status = ""
      BY DEF NoCall
    <3> QED
      BY <3>1 DEF IInv, PlaceInv
  <2>3. n \in Sent /\ n \in Denied
    BY <1>1, <1>2, <1>9, <2>1, <2>2 DEF Denied, MoveOK
  <2>4. ClosedRef(n)
    BY <2>3 DEF IInv, SettledInv
  <2> QED
    BY <1>8, <1>9, <2>3, <2>4 DEF ClosedRef
<1>23. SettledInv'
  BY <1>18, <1>19, <1>20, <1>21, <1>22 DEF SettledInv, IInv, Learnt, ByMark
<1> QED
  BY <1>14, <1>15, <1>16, <1>23 DEF IInv

-----------------------------------------------------------------------------
(* The theorems *)

LEMMA InitIInv == Init => IInv
<1> SUFFICES ASSUME Init PROVE IInv
  OBVIOUS
<1>1. /\ mail = <<>> /\ Len(mail) = 0 /\ Sent = {} /\ world \in Worlds
      /\ world.messages \in Nat /\ world.restarts \in Nat
  BY WorldTyped DEF Init, Sent
<1>2. MoveOK
  BY <1>1, NoCallTyped DEF Init, MoveOK
<1>3. Exchanged /\ EndsOnly
  BY DEF Init, Exchanged, EndsOnly
<1>4. TypeOK
  BY <1>1, <1>2, <1>3, TypeParts
<1>5. MailInv /\ PlaceInv /\ SettledInv
  BY <1>1 DEF Init, MailInv, PlaceInv, SettledInv, Memory, Learnt, ByMark, Denied
<1> QED
  BY <1>4, <1>5 DEF IInv

LEMMA NextIInv == IInv /\ [Next]_vars => IInv'
<1> SUFFICES ASSUME IInv, [Next]_vars PROVE IInv'
  OBVIOUS
<1>1. ASSUME NEW c \in world.active, NEW to \in Agents, NEW reply \in {"yes", "end"},
             NEW s \in world.given \cup {None}, NEW f \in world.given \cup {None},
             NEW ref \in 0 .. Len(mail),
             Len(mail) < world.messages, to # Owner(c), Send(c, to, reply, s, f, ref)
      PROVE  IInv'
  <2>1. c \in Chats /\ s \in Sessions \cup {None} /\ f \in Sessions \cup {None}
    BY WorldTyped, Typed DEF IInv
  <2> QED
    BY <1>1, <2>1, SendKeeps
<1>2. ASSUME NEW c \in Chats, Delivered(c) \/ Refused(c) \/ Retry(c) \/ GiveUp(c)
      PROVE  IInv'
  BY <1>2, DeliveredKeeps, RefusedKeeps, UnansweredKeeps
<1>3. ASSUME NEW post \in net, Arrive(post)
      PROVE  IInv'
  BY <1>3, ArriveKeeps
<1>4. ASSUME NEW post \in verifying, RefuseLate(post) \/ MarkSeen(post)
      PROVE  IInv'
  BY <1>4, RefuseLateKeeps, MarkSeenKeeps
<1>5. ASSUME NEW post \in marked, Enqueue(post) \/ EnqueueFails(post)
      PROVE  IInv'
  BY <1>5, EnqueueKeeps, EnqueueFailsKeeps
<1>6. ASSUME NEW post \in handling, CommitTerminator(post) \/ CommitFails(post)
      PROVE  IInv'
  BY <1>6, CommitTerminatorKeeps, CommitFailsKeeps
<1>7. ASSUME NEW c \in Chats, AfterTurn(c) \/ \E n \in wakes : Wake(c, n)
      PROVE  IInv'
  BY <1>7, AfterTurnKeeps, WakeKeeps
<1>8. ASSUME NEW a \in Agents, Restart(a)
      PROVE  IInv'
  BY <1>8, RestartKeeps
<1>9. CASE UNCHANGED vars
  <2>1. UNCHANGED <<world, mail, mesh, threads, call, net, verifying, marked, handling,
                    wakes, seen, closed, unclosed, dropped, doubted, refused, restarts>>
    BY <1>9 DEF vars, local, remote, history
  <2>2. MoveOK /\ Exchanged /\ EndsOnly
    BY TypeParts DEF IInv
  <2>3. Call' = Call /\ Sent' = Sent
    BY <2>1 DEF Call, Numbers, Sent
  <2>4. MoveOK' /\ Exchanged' /\ EndsOnly'
    BY <2>1, <2>2, <2>3 DEF MoveOK, Exchanged, EndsOnly
  <2>5. \A d \in Chats : Memory(d)' = Memory(d)
    BY <2>1 DEF Memory, Sent
  <2>6. Learnt' \subseteq Learnt /\ ByMark' \subseteq ByMark /\ Denied' \subseteq Denied
    BY <2>1, <2>3 DEF Learnt, ByMark, Denied
  <2>7. \A n \in Sent : (Unsettled(n) => Unsettled(n)') /\ (Unwoken(n) => Unwoken(n)')
    BY <2>1 DEF Unsettled, Unwoken
  <2> QED
    BY <2>1, <2>4, <2>5, <2>6, <2>7, Carried
<1> QED
  BY <1>1, <1>2, <1>3, <1>4, <1>5, <1>6, <1>7, <1>8, <1>9 DEF Next

LEMMA Inductive == Spec => []IInv
BY InitIInv, NextIInv, PTL DEF Spec

-----------------------------------------------------------------------------
(* Doors *)

\* Answered with the tokens of n swapped, the answer comes to n's door.
Meant(n) ==
    LET m == mail[n] IN
    m.door # None => ResolveChatId(m.from, m.to, Or(m.from_session, m.session)) = m.door

\* What DoorKept says of one message.
Kept(r) ==
    LET n == mail[r].answers
        m == mail[n]
    IN  n # 0 /\ "session" \notin mail[r].passed =>
           IF m.from = mail[r].from
           THEN m.session # None => Woken(r) = Woken(n)
           ELSE m.door # None => Woken(r) = m.door

LEMMA KeptIs == DoorKept <=> \A r \in Sent : Kept(r)
BY Zenon DEF DoorKept, Kept, Sent

DoorInv ==
    /\ \A n \in Sent : Meant(n) /\ mail[n].answers \in 0 .. Len(mail)
    /\ \A c \in Chats : \A n \in Memory(c) : mail[n].from # Owner(c) => Woken(n) = c
    /\ DoorKept

\* A chat that has a name is reached by it, as names are the keys of a dict.
LEMMA NameReaches ==
    ASSUME world \in Worlds, NEW c \in Chats, NEW to, NameOf(c) # None,
           world.seat[Owner(c)].mapping = "session"
    PROVE  ResolveChatId(Owner(c), to, NameOf(c)) = c
<1> DEFINE chat_map == world.seat[Owner(c)].chat_map
           I == {i \in DOMAIN chat_map : chat_map[i][2] = c}
<1>1. chat_map \in Seq((Sessions \cup Agents) \X Chats)
  BY WorldTyped, Owners DEF Seat
<1>2. I \in SUBSET Nat /\ I # {}
  <2>1. DOMAIN chat_map \subseteq Nat
    BY <1>1
  <2>2. I # {}
    BY DEF NameOf
  <2> QED
    BY <2>1, <2>2
<1>3. Min(I) \in I
  BY <1>2, LeastOf
<1>4. NameOf(c) = chat_map[Min(I)][1]
  BY <1>2 DEF NameOf
<1>5. \A i, j \in DOMAIN chat_map : chat_map[i][1] = chat_map[j][1] => i = j
  BY ConversationAssumption, Owners
<1>6. PICK i \in DOMAIN chat_map : chat_map[i][1] = NameOf(c) /\ chat_map[i][2] = c
  BY <1>3, <1>4
<1>7. /\ chat_map[i] \in Entries(Owner(c))
      /\ \A e \in Entries(Owner(c)) : e[1] = NameOf(c) => e = chat_map[i]
  BY <1>5, <1>6 DEF Entries
<1>8. NameOf(c) \in MappedKeys(Owner(c))
  BY <1>6, <1>7 DEF MappedKeys
<1>9. MappedChat(Owner(c), NameOf(c)) = c
  <2> HIDE DEF chat_map
  <2>1. (CHOOSE e \in Entries(Owner(c)) : e[1] = NameOf(c)) = chat_map[i]
    BY <1>6, <1>7
  <2> QED
    BY <1>6, <2>1 DEF MappedChat
<1> QED
  BY <1>8, <1>9 DEF ResolveChatId

\* What a chat and a peer say to each other last is theirs alone.
LEMMA LastExchanged ==
    ASSUME IInv, NEW c \in Chats, NEW to \in Agents, to # Owner(c), Last(c, to) # 0
    PROVE  LET n == Last(c, to) IN
           /\ n \in Memory(c)
           /\ n \in Sent
           /\ \/ mail[n].from = to /\ mail[n].to = Owner(c)
              \/ mail[n].from = Owner(c) /\ mail[n].to = to
<1> DEFINE n == Last(c, to)
<1>1. n \in 0 .. Len(mail) /\ Remembered(c, n)
  BY LastRemembered
<1>2. n \in Sent /\ n \in Memory(c)
  BY Typed, <1>1 DEF IInv, Last, Memory, Sent
<1>3. to \in {mail[n].from, mail[n].to}
  BY TypeParts DEF IInv, Exchanged, Last
<1> HIDE DEF n
<1> QED
  BY <1>1, <1>2, <1>3 DEF Remembered, n

\* The session and the door a message of c is given.
LEMMA SendMeant ==
    ASSUME IInv, DoorInv, NEW c \in Chats, NEW to \in Agents, to # Owner(c),
           NEW s \in Sessions \cup {None}, NEW f \in Sessions \cup {None}
    PROVE  LET thread == InferThread(c, to)
               a == Owner(c)
               n == thread.answers
               from_session == Or(f, thread.from_session)
           IN  /\ Door(c, to, f) # None =>
                     ResolveChatId(a, to, Or(from_session, Or(s, thread.session))) = Door(c, to, f)
               /\ n # 0 /\ mail[n].from = a /\ mail[n].session # None =>
                     ResolveChatId(to, a, thread.session) = Woken(n)
               /\ n # 0 /\ mail[n].from # a /\ mail[n].door # None =>
                     ResolveChatId(to, a, thread.session) = mail[n].door
<1> DEFINE thread == InferThread(c, to)
           a == Owner(c)
           n == Last(c, to)
           m == mail[n]
           from_session == Or(f, thread.from_session)
           Goal == /\ Door(c, to, f) # None =>
                         ResolveChatId(a, to, Or(from_session, Or(s, thread.session))) = Door(c, to, f)
                   /\ thread.answers # 0 /\ mail[thread.answers].from = a
                         /\ mail[thread.answers].session # None =>
                         ResolveChatId(to, a, thread.session) = Woken(thread.answers)
                   /\ thread.answers # 0 /\ mail[thread.answers].from # a
                         /\ mail[thread.answers].door # None =>
                         ResolveChatId(to, a, thread.session) = mail[thread.answers].door
<1> SUFFICES Goal
  OBVIOUS
<1>1. world \in Worlds
  BY Typed DEF IInv
<1>2. world.seat[a].mapping # "session" =>
         \A x, y : ResolveChatId(a, to, x) = ResolveChatId(a, to, y)
  BY DEF ResolveChatId
<1>3. CASE ~HasTokens(n)
  <2>1. thread.answers = 0 /\ thread.session = NameOf(c) /\ thread.from_session = NameOf(c)
    BY <1>3 DEF InferThread
  <2>2. CASE world.seat[a].mapping # "session" \/ f # None
    BY <1>2, <2>1, <2>2 DEF Door, Or
  <2>3. CASE world.seat[a].mapping = "session" /\ f = None
    <3>1. Door(c, to, f) = IF NameOf(c) = None THEN None ELSE c
      BY <2>1, <2>3 DEF Door
    <3>2. NameOf(c) # None => Or(from_session, Or(s, thread.session)) = NameOf(c)
      BY <2>1, <2>3 DEF Or
    <3> QED
      BY <1>1, <2>1, <2>3, <3>1, <3>2, NameReaches
  <2> QED
    BY <2>1, <2>2, <2>3
<1>4. CASE HasTokens(n)
  <2>1. /\ n # 0 /\ (m.session # None \/ m.from_session # None)
        /\ n \in Memory(c) /\ n \in Sent
        /\ (m.from = to /\ m.to = a) \/ (m.from = a /\ m.to = to)
    BY <1>4, LastExchanged DEF HasTokens
  <2>2. /\ Meant(n)
        /\ m.from # a => Woken(n) = c
    BY <2>1 DEF DoorInv
  <2>3. thread.answers = n
    BY <1>4 DEF InferThread
  <2>4. /\ m.from = a => /\ thread.session = Or(m.session, m.from_session)
                         /\ thread.from_session = Or(m.from_session, m.session)
        /\ m.from # a => /\ thread.session = Or(m.from_session, m.session)
                         /\ thread.from_session = Or(m.session, m.from_session)
    BY <1>4 DEF InferThread
  <2>5. Door(c, to, f) = IF world.seat[a].mapping # "session" \/ f # None
                         THEN ResolveChatId(a, to, f)
                         ELSE IF m.from = a THEN m.door
                         ELSE IF m.session = None THEN None ELSE c
    BY <2>1, <2>3 DEF Door
  <2> HIDE DEF n, thread, a
  <2>6. CASE world.seat[a].mapping # "session" \/ f # None
    <3>1. Door(c, to, f) # None =>
             ResolveChatId(a, to, Or(from_session, Or(s, thread.session))) = Door(c, to, f)
      BY <1>2, <2>5, <2>6 DEF Or
    <3> QED
      BY <2>1, <2>2, <2>3, <2>4, <3>1 DEF Or, Woken, Meant
  <2>7. CASE ~(world.seat[a].mapping # "session" \/ f # None)
    <3>1. from_session = thread.from_session
      BY <2>7 DEF Or
    <3>2. CASE m.from = a
      BY <2>1, <2>2, <2>3, <2>4, <2>5, <2>7, <3>1, <3>2 DEF Or, Woken, Meant
    <3>3. CASE m.from # a
      BY <2>1, <2>2, <2>3, <2>4, <2>5, <2>7, <3>1, <3>3 DEF Or, Woken, Meant
    <3> QED
      BY <3>2, <3>3
  <2> QED
    BY <2>6, <2>7
<1> QED
  BY <1>3, <1>4

\* What a step that sends nothing has to show.
LEMMA DoorsCarried ==
    ASSUME IInv, DoorInv, UNCHANGED <<mail, world>>,
           \A c \in Chats : \A n \in Memory(c)' :
               n \in Memory(c) \/ mail[n].from = Owner(c) \/ Woken(n) = c
    PROVE  DoorInv'
<1>1. \A a, sender, session : ResolveChatId(a, sender, session)' = ResolveChatId(a, sender, session)
  BY DEF ResolveChatId, Unmapped, MappedKeys, MappedChat, Entries
<1>2. \A n : Woken(n)' = Woken(n) /\ Meant(n)' = Meant(n)
  BY <1>1 DEF Woken, Meant
<1>3. DoorKept'
  BY <1>2 DEF DoorInv, DoorKept
<1> QED
  BY <1>2, <1>3 DEF DoorInv, Sent

LEMMA MovesKeepDoors ==
    ASSUME IInv, DoorInv,
           \/ \E c \in Chats : Refused(c) \/ Retry(c) \/ GiveUp(c)
           \/ \E post \in net : Arrive(post)
           \/ \E post \in verifying : RefuseLate(post) \/ MarkSeen(post)
           \/ \E post \in marked : Enqueue(post) \/ EnqueueFails(post)
           \/ \E post \in handling : CommitTerminator(post) \/ CommitFails(post)
           \/ \E a \in Agents : Restart(a)
           \/ UNCHANGED vars
    PROVE  DoorInv'
<1>1. UNCHANGED <<world, mail, mesh, threads>>
  BY DEF Refused, Retry, GiveUp, Arrive, RefuseLate, MarkSeen, Enqueue, EnqueueFails, CommitTerminator,
         CommitFails, Restart, local, vars
<1> QED
  BY <1>1, DoorsCarried DEF Memory, Sent

LEMMA TurnsKeepDoors ==
    ASSUME IInv, DoorInv, NEW c \in Chats,
           Delivered(c) \/ AfterTurn(c) \/ \E n \in wakes : Wake(c, n)
    PROVE  DoorInv'
<1>1. MoveOK
  BY TypeParts DEF IInv
<1>2. CASE Delivered(c)
  <2> DEFINE n == call[c].msg
  <2>1. /\ threads' = [threads EXCEPT ![c][mail[n].to] = n]
        /\ UNCHANGED <<world, mail, mesh>>
    BY <1>2 DEF Delivered
  <2>2. mail[n].from = Owner(c)
    <3>1. call[c].status \in {"ok", "duplicate"} /\ NoCall.status = ""
      BY <1>2 DEF Delivered, NoCall
    <3> QED
      BY <3>1, Calling
  <2> HIDE DEF n
  <2>3. ASSUME NEW d \in Chats, NEW m \in Memory(d)', m \notin Memory(d)
        PROVE  d = c /\ m = n
    BY <1>1, <2>1, <2>3 DEF Memory, MoveOK, Sent
  <2> QED
    BY <2>1, <2>2, <2>3, DoorsCarried
<1>3. CASE AfterTurn(c)
  <2>1. mesh' = [mesh EXCEPT ![c] = 0] /\ UNCHANGED <<world, mail, threads>>
    BY <1>3 DEF AfterTurn
  <2>2. Len(mail) \in Nat
    BY Typed DEF IInv
  <2>3. \A d \in Chats : Memory(d)' \subseteq Memory(d)
    BY <1>1, <2>1, <2>2 DEF Memory, MoveOK, Sent
  <2> QED
    BY <2>1, <2>3, DoorsCarried
<1>4. ASSUME NEW n \in wakes, Wake(c, n) PROVE DoorInv'
  <2>1. /\ mesh' = [mesh EXCEPT ![c] = n]
        /\ threads' = [threads EXCEPT ![c][mail[n].from] = n]
        /\ UNCHANGED <<world, mail>> /\ Woken(n) = c
    BY <1>4 DEF Wake
  <2>2. ASSUME NEW d \in Chats, NEW m \in Memory(d)', m \notin Memory(d)
        PROVE  d = c /\ m = n
    BY <1>1, <2>1, <2>2 DEF Memory, MoveOK, Sent
  <2> QED
    BY <2>1, <2>2, DoorsCarried
<1> QED
  BY <1>2, <1>3, <1>4

LEMMA SendKeepsDoors ==
    ASSUME IInv, DoorInv, NEW c \in Chats, NEW to \in Agents, NEW reply \in {"yes", "end"},
           NEW s \in Sessions \cup {None}, NEW f \in Sessions \cup {None}, NEW ref \in 0 .. Len(mail),
           to # Owner(c), Send(c, to, reply, s, f, ref)
    PROVE  DoorInv'
<1> DEFINE thread == InferThread(c, to)
           k == Len(mail) + 1
           m == [from |-> Owner(c), to |-> to, chat |-> c, reply |-> reply,
                 session |-> Or(s, thread.session),
                 from_session |-> Or(f, thread.from_session),
                 ref |-> IF ref # 0 THEN ref ELSE thread.ref,
                 passed |-> Passed(s, f, ref),
                 answers |-> thread.answers,
                 unsettled |-> Unsettled(thread.ref),
                 door |-> Door(c, to, f)]
<1>1. mail' = Append(mail, m) /\ UNCHANGED <<world, mesh, threads>>
  BY DEF Send, local
<1>2. mail \in Seq(Message) /\ Len(mail) \in Nat /\ MoveOK
  BY Typed, TypeParts DEF IInv
<1>3. thread.answers \in 0 .. Len(mail)
  BY Inferred
<1>4. /\ Door(c, to, f) # None =>
            ResolveChatId(Owner(c), to, Or(Or(f, thread.from_session), Or(s, thread.session)))
                = Door(c, to, f)
      /\ thread.answers # 0 /\ mail[thread.answers].from = Owner(c)
            /\ mail[thread.answers].session # None =>
            ResolveChatId(to, Owner(c), thread.session) = Woken(thread.answers)
      /\ thread.answers # 0 /\ mail[thread.answers].from # Owner(c)
            /\ mail[thread.answers].door # None =>
            ResolveChatId(to, Owner(c), thread.session) = mail[thread.answers].door
  BY SendMeant
<1>5. s # None <=> "session" \in Passed(s, f, ref)
  BY DEF Passed
<1> HIDE DEF thread, m
<1>6. /\ Len(mail') = Len(mail) + 1 /\ mail'[Len(mail) + 1] = m
      /\ \A n \in 1 .. Len(mail) : mail'[n] = mail[n]
  <2>1. /\ Len(Append(mail, m)) = Len(mail) + 1 /\ Append(mail, m)[Len(mail) + 1] = m
        /\ \A n \in 1 .. Len(mail) : Append(mail, m)[n] = mail[n]
    BY <1>2, Appended
  <2> QED
    BY <1>1, <2>1, Zenon
<1>7. /\ Sent' = Sent \cup {k} /\ k \notin Sent /\ 0 \notin Sent'
      /\ mail'[k] = m
      /\ \A n \in Sent : mail'[n] = mail[n]
      /\ \A i \in 0 .. Len(mail) : i \in 0 .. Len(mail') /\ (i # 0 => i \in Sent)
  BY <1>2, <1>6 DEF Sent
<1> HIDE DEF k
<1>8. \A a, sender, session : ResolveChatId(a, sender, session)' = ResolveChatId(a, sender, session)
  BY <1>1 DEF ResolveChatId, Unmapped, MappedKeys, MappedChat, Entries
<1>9. \A n \in Sent : Woken(n)' = Woken(n) /\ Meant(n)' = Meant(n)
  BY <1>7, <1>8 DEF Woken, Meant
<1>10. ASSUME NEW n \in Sent' PROVE Meant(n)' /\ mail'[n].answers \in 0 .. Len(mail')
  <2>1. CASE n = k
    BY <1>3, <1>4, <1>7, <1>8, <2>1 DEF Meant, m
  <2>2. CASE n \in Sent
    BY <1>7, <1>9, <2>2 DEF DoorInv
  <2> QED
    BY <1>7, <2>1, <2>2
<1>11. ASSUME NEW d \in Chats, NEW n \in Memory(d)', mail'[n].from # Owner(d)
       PROVE  Woken(n)' = d
  <2>1. n \in Sent
    <3>1. n # 0 /\ (n = mesh[d] \/ \E p \in Agents : n = threads[d][p])
      BY <1>1, <1>7 DEF Memory
    <3>2. n \in 0 .. Len(mail)
      BY <1>2, <3>1 DEF MoveOK
    <3> QED
      BY <1>7, <3>1, <3>2
  <2>2. n \in Memory(d)
    BY <1>1, <2>1 DEF Memory
  <2> QED
    BY <1>7, <1>9, <1>11, <2>1, <2>2 DEF DoorInv
<1>12. ASSUME NEW r \in Sent', r = k
       PROVE  Kept(r)'
  <2>1. PICK n : n = thread.answers
    OBVIOUS
  <2>2. /\ mail'[r].answers = n /\ mail'[r].passed = Passed(s, f, ref)
        /\ mail'[r].from = Owner(c) /\ mail'[r].to = to
        /\ mail'[r].session = Or(s, thread.session)
    BY <1>7, <1>12, <2>1 DEF m
  <2>3. n # 0 => mail'[n] = mail[n] /\ Woken(n)' = Woken(n)
    BY <1>3, <1>7, <1>9, <2>1
  <2>4. s = None => Woken(r)' = ResolveChatId(to, Owner(c), thread.session)
    BY <1>8, <2>2 DEF Woken, Or
  <2> QED
    BY <1>4, <1>5, <2>1, <2>2, <2>3, <2>4 DEF Kept
<1>13. ASSUME NEW r \in Sent PROVE Kept(r)'
  <2>1. PICK n : n = mail[r].answers
    OBVIOUS
  <2>2. Kept(r) /\ n \in 0 .. Len(mail)
    BY <2>1, KeptIs DEF DoorInv
  <2>3. n # 0 => mail'[n] = mail[n] /\ Woken(n)' = Woken(n)
    BY <1>7, <1>9, <2>2
  <2>4. mail'[r] = mail[r] /\ Woken(r)' = Woken(r)
    BY <1>7, <1>9
  <2> QED
    BY <2>1, <2>2, <2>3, <2>4 DEF Kept
<1>14. DoorKept'
  <2>1. DoorKept' <=> \A r \in Sent' : Kept(r)'
    BY Zenon DEF DoorKept, Kept, Sent
  <2> QED
    BY <1>7, <1>12, <1>13, <2>1
<1> QED
  BY <1>10, <1>11, <1>14 DEF DoorInv

LEMMA DoorsInductive == Spec => []DoorInv
<1>1. Init => DoorInv
  <2> SUFFICES ASSUME Init PROVE DoorInv
    OBVIOUS
  <2>1. Sent = {}
    BY DEF Init, Sent
  <2> QED
    BY <2>1 DEF DoorInv, DoorKept, Memory, Sent
<1>2. IInv /\ DoorInv /\ [Next]_vars => DoorInv'
  <2> SUFFICES ASSUME IInv, DoorInv, [Next]_vars PROVE DoorInv'
    OBVIOUS
  <2>1. ASSUME NEW c \in world.active, NEW to \in Agents, NEW reply \in {"yes", "end"},
               NEW s \in world.given \cup {None}, NEW f \in world.given \cup {None},
               NEW ref \in 0 .. Len(mail), to # Owner(c), Send(c, to, reply, s, f, ref)
        PROVE  DoorInv'
    <3>1. c \in Chats /\ s \in Sessions \cup {None} /\ f \in Sessions \cup {None}
      BY WorldTyped, Typed DEF IInv
    <3> QED
      BY <2>1, <3>1, SendKeepsDoors
  <2>2. ASSUME NEW c \in Chats,
               \/ Delivered(c) \/ Refused(c) \/ Retry(c) \/ GiveUp(c)
               \/ AfterTurn(c) \/ \E n \in wakes : Wake(c, n)
        PROVE  DoorInv'
    BY <2>2, MovesKeepDoors, TurnsKeepDoors
  <2>3. CASE \/ \E post \in net : Arrive(post)
             \/ \E post \in verifying : RefuseLate(post) \/ MarkSeen(post)
             \/ \E post \in marked : Enqueue(post) \/ EnqueueFails(post)
             \/ \E post \in handling : CommitTerminator(post) \/ CommitFails(post)
             \/ \E a \in Agents : Restart(a)
             \/ UNCHANGED vars
    BY <2>3, MovesKeepDoors
  <2> QED
    BY <2>1, <2>2, <2>3 DEF Next
<1> QED
  BY <1>1, <1>2, Inductive, PTL DEF Spec

\* The chats and seats of a mesh are type correct for every configuration,
\* every number of messages, tries and restarts (_record_outbound, on_waking,
\* record_thread_close).
THEOREM TypeCorrect == Spec => []TypeOK
BY Inductive, PTL DEF IInv

\* The receiver of a terminator that its sender has closed has closed it too, or
\* is at it or failed, unless the sender took a duplicate's word for it: that word
\* comes from a mark, whose POST has closed it, is at it or failed as well, or has
\* not enqueued its wake, now or for good (handle, verify_request,
\* commit_terminator, send).
THEOREM ClosesAreAgreed == Spec => []ClosesAgree
<1>1. IInv => ClosesAgree
  <2> SUFFICES ASSUME IInv, NEW n \in Sent, n \in closed[mail[n].from]
               PROVE  \/ n \in closed[mail[n].to]
                      \/ Unsettled(n)
                      \/ n \in doubted /\ Unwoken(n)
    BY DEF ClosesAgree, Sent
  <2>1. mail[n].from \in Agents
    BY Mails DEF IInv, Message
  <2>2. mail[n].reply = "end"
    BY <2>1, TypeParts DEF IInv, EndsOnly
  <2>3. CASE n \in doubted
    <3>1. Met(n)
      BY <2>3 DEF IInv, SettledInv, ByMark
    <3> QED
      BY <2>2, <2>3, <3>1 DEF Met, Settled
  <2>4. CASE n \notin doubted
    <3>1. Settled(n)
      BY <2>4 DEF IInv, SettledInv, Learnt
    <3> QED
      BY <2>2, <3>1 DEF Settled
  <2> QED
    BY <2>3, <2>4
<1> QED
  BY <1>1, Inductive, PTL

\* A ref the server inferred is refused only while, or because, this seat has
\* not recorded the close of what it refers to (_infer_thread).
THEOREM RefusedAreUnsettled == Spec => []RefusedIsUnsettled
<1>1. IInv => RefusedIsUnsettled
  <2> SUFFICES ASSUME IInv, NEW n \in refused, "ref" \notin mail[n].passed
               PROVE  mail[n].unsettled
    BY DEF RefusedIsUnsettled
  <2>1. n \in Denied
    BY Typed DEF IInv, Denied
  <2>2. n \in Sent /\ ClosedRef(n) /\ Len(mail) \in Nat
    BY <2>1, Typed DEF IInv, SettledInv, Denied
  <2>3. mail[n].ref # 0 /\ mail[mail[n].ref].reply = "end"
    BY <2>2 DEF ClosedRef, Sent
  <2> QED
    BY <2>2, <2>3 DEF IInv, MailInv
<1> QED
  BY <1>1, Inductive, PTL

\* Replies and continuations keep their doors through every mapping, fallback
\* and chat map, lost answers, closed threads and restarts: an answer comes to
\* the chat its message named, a continuation to the chat the last message
\* woke (_infer_thread, resolve_chat_id).
THEOREM DoorsAreKept == Spec => []DoorKept
BY DoorsInductive, PTL DEF DoorInv
=============================================================================
