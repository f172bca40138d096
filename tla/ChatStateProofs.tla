-------------------------- MODULE ChatStateProofs --------------------------
(***************************************************************************)
(* What the two writers of a chat's state file guarantee for every number  *)
(* of peers, messages, turns and crashes.                                  *)
(*                                                                         *)
(* Whatever they tear or lose, every copy of the state holds, at the place *)
(* of a peer, a message exchanged with that peer (StateInv); that is why   *)
(* no send is misdirected.  While sends finish in their turns and nothing  *)
(* crashes the two writers take turns, and each leaves the other a copy    *)
(* that is up to date (TurnInv).                                           *)
(***************************************************************************)
EXTENDS ChatState, TLAPS

\* n is no message, or one of the first k, which "w" says was p's.
PlacedIn(n, p, k, w) == n = 0 \/ (n \in 1 .. k /\ w[n] = p)

StateIn(s, k, w) ==
    /\ s \in State
    /\ s.mesh \in 0 .. k
    /\ \A p \in Peers : PlacedIn(s.threads[p], p, k, w)

Serving == [pc : {"wire", "loaded", "saving"}, peer : Peers, ref : Numbers, state : State]

MailInv ==
    /\ messages \in Numbers
    /\ who \in [1 .. messages -> Peers]
    /\ latest \in [Peers -> Numbers]
    /\ ended \cup closing \subseteq Numbers

StateInv ==
    /\ file \in State \cup {Torn}
    /\ file # Torn => StateIn(file, messages, who)
    /\ StateIn(memory, messages, who)
    /\ server \in Serving \cup {NoCall}
    /\ server # NoCall =>
          /\ StateIn(server.state, messages, who)
          /\ PlacedIn(server.ref, server.peer, messages, who)

RestInv ==
    /\ plugin \in {"idle", "waking", "woke", "running", "ended", "saving"}
    /\ woken \in 0 .. messages
    /\ turns \in 0 .. MaxTurns
    /\ crashes \in 0 .. MaxCrashes
    /\ overlapped \in BOOLEAN

IInv == MailInv /\ StateInv /\ RestInv

-----------------------------------------------------------------------------
(* Records of two shapes *)

LEMMA Shapes ==
    /\ Torn \notin State
    /\ NoCall \notin Serving
    /\ Empty \in State
<1>1. Torn \notin State
  BY DEF Torn, State
<1>2. \A c \in Serving : c.pc # "idle"
  BY DEF Serving
<1>3. Empty \in State
  BY StateAssumption DEF Empty, State, Numbers
<1> QED
  BY <1>1, <1>2, <1>3 DEF NoCall

LEMMA EmptyIn ==
    ASSUME MailInv
    PROVE  StateIn(Empty, messages, who)
BY Shapes, StateAssumption DEF StateIn, Empty, PlacedIn, MailInv, Numbers

LEMMA LoadedIn ==
    ASSUME MailInv, StateInv
    PROVE  StateIn(Loaded, messages, who)
BY EmptyIn DEF Loaded, StateInv

-----------------------------------------------------------------------------
(* One more message *)

LEMMA ExchangeStep ==
    ASSUME MailInv, NEW p \in Peers, NEW recorded \in SUBSET {NewMessage},
           NEW awaited \in SUBSET {NewMessage}, Exchange(p, recorded, awaited)
    PROVE  /\ MailInv'
           /\ messages' = messages + 1
           /\ who'[messages'] = p
           /\ \A n \in 1 .. messages : who'[n] = who[n]
<1>1. messages \in Nat /\ messages + 1 \in Numbers /\ messages' = messages + 1
  BY StateAssumption DEF MailInv, Exchange, NewMessage, Numbers
<1>2. who' \in [1 .. messages' -> Peers]
  BY <1>1 DEF Exchange, NewMessage, MailInv
<1>3. latest' \in [Peers -> Numbers] /\ ended' \cup closing' \subseteq Numbers
  BY <1>1 DEF Exchange, NewMessage, MailInv
<1> QED
  BY <1>1, <1>2, <1>3 DEF MailInv, Exchange, NewMessage

\* What was in place stays in place.
LEMMA ExchangeKeeps ==
    ASSUME MailInv, NEW p \in Peers, NEW recorded \in SUBSET {NewMessage},
           NEW awaited \in SUBSET {NewMessage}, Exchange(p, recorded, awaited)
    PROVE  /\ \A n, q : PlacedIn(n, q, messages, who) => PlacedIn(n, q, messages', who')
           /\ \A s : StateIn(s, messages, who) => StateIn(s, messages', who')
<1>1. messages \in Nat /\ messages' = messages + 1 /\ \A n \in 1 .. messages : who'[n] = who[n]
  <2>1. messages' = messages + 1 /\ \A n \in 1 .. messages : who'[n] = who[n]
    BY ExchangeStep
  <2> QED
    BY <2>1 DEF MailInv, Numbers
<1>2. \A n, q : PlacedIn(n, q, messages, who) => PlacedIn(n, q, messages', who')
  BY <1>1 DEF PlacedIn
<1>3. 0 .. messages \subseteq 0 .. messages'
  BY <1>1
<1>4. ASSUME NEW s, StateIn(s, messages, who) PROVE StateIn(s, messages', who')
  BY <1>2, <1>3, <1>4 DEF StateIn
<1> QED
  BY <1>2, <1>4

\* Putting the new message where it belongs.
LEMMA PutNew ==
    ASSUME MailInv, NEW p \in Peers, NEW recorded \in SUBSET {NewMessage},
           NEW awaited \in SUBSET {NewMessage}, Exchange(p, recorded, awaited),
           NEW s, StateIn(s, messages, who)
    PROVE  /\ StateIn([s EXCEPT !.threads[p] = NewMessage], messages', who')
           /\ StateIn([mesh |-> NewMessage, threads |-> [s.threads EXCEPT ![p] = NewMessage]],
                      messages', who')
<1> DEFINE t == [s.threads EXCEPT ![p] = NewMessage]
<1>1. /\ messages' \in Numbers /\ messages' \in Nat /\ NewMessage = messages'
      /\ who'[messages'] = p /\ messages' \in 1 .. messages' /\ messages' \in 0 .. messages'
  <2>1. MailInv' /\ messages' = messages + 1 /\ who'[messages'] = p
    BY ExchangeStep
  <2>2. messages \in Nat /\ messages' \in Numbers
    BY <2>1 DEF MailInv, Numbers
  <2> QED
    BY <2>1, <2>2 DEF NewMessage
<1>2. StateIn(s, messages', who')
  BY ExchangeKeeps
<1>3. s \in State /\ s.threads \in [Peers -> Numbers] /\ s.mesh \in Numbers
  BY <1>2 DEF StateIn, State
<1>4. t \in [Peers -> Numbers]
  BY <1>1, <1>3
<1>5. \A q \in Peers : PlacedIn(t[q], q, messages', who')
  <2> SUFFICES ASSUME NEW q \in Peers PROVE PlacedIn(t[q], q, messages', who')
    OBVIOUS
  <2>1. CASE q = p
    BY <2>1, <1>1, <1>3 DEF PlacedIn
  <2>2. CASE q # p
    BY <2>2, <1>2, <1>3 DEF StateIn
  <2> QED
    BY <2>1, <2>2
<1>6. StateIn([mesh |-> NewMessage, threads |-> t], messages', who')
  BY <1>1, <1>4, <1>5 DEF StateIn, State
<1>7. [s EXCEPT !.threads[p] = NewMessage] = [mesh |-> s.mesh, threads |-> t]
  BY <1>3 DEF State
<1>8. StateIn([mesh |-> s.mesh, threads |-> t], messages', who')
  BY <1>2, <1>3, <1>4, <1>5 DEF StateIn, State
<1> QED
  BY <1>6, <1>7, <1>8

-----------------------------------------------------------------------------
(* Every step keeps the copies in place *)

LEMMA InitIInv == Init => IInv
<1> SUFFICES ASSUME Init PROVE IInv
  OBVIOUS
<1>1. MailInv
  BY StateAssumption DEF Init, MailInv, Numbers
<1>2. StateIn(Empty, messages, who)
  BY <1>1, EmptyIn
<1>3. StateInv
  BY <1>2, Shapes DEF Init, StateInv
<1>4. woken \in 0 .. messages /\ turns \in 0 .. MaxTurns /\ crashes \in 0 .. MaxCrashes
  BY StateAssumption DEF Init
<1>5. RestInv
  BY <1>4 DEF Init, RestInv
<1> QED
  BY <1>1, <1>3, <1>5 DEF IInv

LEMMA NextIInv == IInv /\ [Next]_vars => IInv'
<1> SUFFICES ASSUME IInv, [Next]_vars PROVE IInv'
  OBVIOUS
<1>0. MailInv /\ StateInv /\ RestInv /\ messages \in Nat
  BY DEF IInv, MailInv, Numbers
<1>1. ASSUME NEW p \in Peers, NEW end \in BOOLEAN, WakeForMesh(p, end) PROVE IInv'
  <2>1. Exchange(p, {}, Terminator(end)) /\ Terminator(end) \in SUBSET {NewMessage}
    BY <1>1 DEF WakeForMesh, Terminator
  <2>2. MailInv' /\ messages' = messages + 1
    BY <2>1, <1>0, ExchangeStep
  <2>3. StateIn(memory', messages', who')
    BY <2>1, <1>0, <1>1, PutNew DEF WakeForMesh, StateInv
  <2>4. StateInv'
    BY <2>1, <2>3, <1>0, <1>1, ExchangeKeeps DEF WakeForMesh, StateInv
  <2>5. RestInv'
    BY <2>2, <1>0, <1>1, StateAssumption DEF WakeForMesh, RestInv, NewMessage
  <2> QED
    BY <2>2, <2>4, <2>5 DEF IInv
<1>2. ASSUME UNCHANGED mail, StateInv', RestInv' PROVE IInv'
  BY <1>0, <1>2 DEF mail, MailInv, IInv
<1>3. CASE StartUserTurn
  BY <1>0, <1>2, <1>3, StateAssumption DEF StartUserTurn, StateInv, RestInv, mail
<1>4. CASE TruncateByPlugin
  <2>1. StateInv'
    BY <1>0, <1>4 DEF TruncateByPlugin, Truncate, StateInv, mail
  <2> QED
    BY <2>1, <1>0, <1>2, <1>4 DEF TruncateByPlugin, RestInv, mail
<1>5. CASE FillByPlugin
  <2>1. file' \in {memory, Torn}
    BY <1>5 DEF FillByPlugin, Fill
  <2>2. StateInv'
    BY <2>1, <1>0, <1>5 DEF FillByPlugin, StateInv, StateIn, mail
  <2> QED
    BY <2>2, <1>0, <1>2, <1>5 DEF FillByPlugin, RestInv, mail
<1>6. CASE AfterTurn
  <2>1. StateIn(memory', messages, who)
    <3>1. StateIn(Loaded, messages, who) /\ memory' = [Loaded EXCEPT !.mesh = 0]
      BY <1>0, <1>6, LoadedIn DEF AfterTurn
    <3> QED
      BY <3>1, <1>0, StateAssumption DEF StateIn, State, Numbers
  <2>2. StateInv'
    BY <2>1, <1>0, <1>6 DEF AfterTurn, StateInv, mail
  <2> QED
    BY <2>2, <1>0, <1>2, <1>6 DEF AfterTurn, RestInv, mail
<1>7. ASSUME NEW p \in Peers, CallMeshSend(p) PROVE IInv'
  <2>1. PICK ref \in {InferRef(p), 0} :
           server' = [pc |-> "wire", peer |-> p, ref |-> ref, state |-> Empty]
    BY <1>7 DEF CallMeshSend
  <2>2. PlacedIn(ref, p, messages, who) /\ ref \in Numbers
    <3>1. StateIn(Loaded, messages, who)
      BY <1>0, LoadedIn
    <3>2. Loaded.mesh \in 0 .. messages /\ PlacedIn(Loaded.threads[p], p, messages, who)
      BY <3>1 DEF StateIn
    <3>3. PlacedIn(InferRef(p), p, messages, who)
      BY <3>2, <1>0 DEF InferRef, PlacedIn
    <3>4. PlacedIn(ref, p, messages, who)
      BY <3>3 DEF PlacedIn
    <3> QED
      BY <3>4, <1>0, StateAssumption DEF PlacedIn, MailInv, Numbers
  <2>3. server' \in Serving /\ StateIn(server'.state, messages, who)
        /\ server'.ref = ref /\ server'.peer = p
    BY <2>1, <2>2, <1>0, EmptyIn, Shapes DEF Serving
  <2>4. StateInv'
    BY <2>2, <2>3, <1>0, <1>7 DEF CallMeshSend, StateInv, mail
  <2> QED
    BY <2>4, <1>0, <1>2, <1>7 DEF CallMeshSend, RestInv, mail
<1>8. CASE DeliveryFails
  BY <1>0, <1>2, <1>8 DEF DeliveryFails, StateInv, RestInv, mail
<1>9. ASSUME NEW end \in BOOLEAN, LoadByServer(end) PROVE IInv'
  <2>1. server \in Serving /\ server.peer \in Peers
    BY <1>0, <1>9 DEF LoadByServer, StateInv, NoCall, Serving
  <2>2. Exchange(server.peer, Terminator(end), {}) /\ Terminator(end) \in SUBSET {NewMessage}
    BY <1>9 DEF LoadByServer, Terminator
  <2>3. MailInv' /\ messages' = messages + 1
    BY <2>1, <2>2, <1>0, ExchangeStep
  <2> DEFINE s == [Loaded EXCEPT !.threads[server.peer] = NewMessage]
  <2>4. StateIn(s, messages', who')
    <3>1. StateIn(Loaded, messages, who)
      BY <1>0, LoadedIn
    <3>2. {} \in SUBSET {NewMessage}
      OBVIOUS
    <3> QED
      BY <2>1, <2>2, <3>1, <3>2, <1>0, PutNew, Zenon
  <2>5. server' = [server EXCEPT !.pc = "loaded", !.state = s]
    BY <1>9 DEF LoadByServer
  <2>6. /\ server' \in Serving /\ server'.state = s
        /\ server'.ref = server.ref /\ server'.peer = server.peer
    <3>1. s \in State
      BY <2>4 DEF StateIn
    <3> HIDE DEF s
    <3> QED
      BY <3>1, <2>1, <2>5 DEF Serving
  <2>7. /\ PlacedIn(server.ref, server.peer, messages', who')
        /\ StateIn(memory, messages', who')
        /\ file # Torn => StateIn(file, messages', who')
    BY <2>1, <2>2, <1>0, ExchangeKeeps, Shapes DEF StateInv
  <2>8. StateInv'
    BY <2>4, <2>6, <2>7, <1>0, <1>9 DEF LoadByServer, StateInv
  <2>9. RestInv'
    BY <2>3, <1>0, <1>9 DEF LoadByServer, RestInv
  <2> QED
    BY <2>3, <2>8, <2>9 DEF IInv
<1>10. CASE TruncateByServer
  <2>1. server \in Serving
    BY <1>0, <1>10 DEF TruncateByServer, StateInv, NoCall
  <2>2. server' \in Serving /\ server'.state = server.state
        /\ server'.ref = server.ref /\ server'.peer = server.peer
    BY <2>1, <1>10 DEF TruncateByServer, Serving
  <2>3. StateInv'
    BY <2>1, <2>2, <1>0, <1>10, Shapes DEF TruncateByServer, Truncate, StateInv, mail
  <2> QED
    BY <2>3, <1>0, <1>2, <1>10 DEF TruncateByServer, RestInv, mail
<1>11. CASE FillByServer
  <2>1. file' \in {server.state, Torn} /\ server # NoCall
    BY <1>11 DEF FillByServer, Fill, NoCall
  <2>2. StateInv'
    BY <2>1, <1>0, <1>11 DEF FillByServer, StateInv, StateIn, mail
  <2> QED
    BY <2>2, <1>0, <1>2, <1>11 DEF FillByServer, RestInv, mail
<1>12. CASE Crash
  <2>1. StateInv'
    BY <1>0, <1>12, LoadedIn DEF Crash, StateInv
  <2>2. MailInv' /\ RestInv'
    BY <1>0, <1>12, StateAssumption DEF Crash, MailInv, RestInv
  <2> QED
    BY <2>1, <2>2 DEF IInv
<1>13. ASSUME NEW n \in closing, CommitTerminator(n) PROVE IInv'
  BY <1>0, <1>13 DEF CommitTerminator, MailInv, StateInv, RestInv, IInv
<1>14. CASE UNCHANGED vars
  BY <1>0, <1>2, <1>14 DEF vars, StateInv, RestInv, mail
<1> QED
  BY <1>1, <1>3, <1>4, <1>5, <1>6, <1>7, <1>8, <1>9, <1>10, <1>11, <1>12, <1>13, <1>14 DEF Next

LEMMA Inductive == Spec => []IInv
BY InitIInv, NextIInv, PTL DEF Spec

\* The files and the copies of the two writers have their types, whatever is
\* torn or lost (_load_state, _save_state).
THEOREM TypeCorrect == Spec => []TypeOK
<1>1. IInv => TypeOK
  <2> SUFFICES ASSUME IInv PROVE TypeOK
    OBVIOUS
  <2>1. who \in UNION {[1 .. n -> Peers] : n \in Numbers}
    BY DEF IInv, MailInv
  <2> QED
    BY <2>1, StateAssumption DEF IInv, MailInv, StateInv, RestInv, TypeOK, StateIn, Serving, Numbers
<1> QED
  BY <1>1, Inductive, PTL

\* No send refers to a message of anybody but its recipient (_infer_thread).
THEOREM RefsAreTheRecipients == Spec => []RefIsOfRecipient
<1>1. IInv => RefIsOfRecipient
  BY DEF IInv, StateInv, RefIsOfRecipient, PlacedIn
<1> QED
  BY <1>1, Inductive, PTL
-----------------------------------------------------------------------------
(* The two writers take turns *)

\* What is up to date, while sends finish in their turns and nothing crashes.
Current(s, n) == s.mesh = n /\ s.threads = latest

TurnInv ==
    /\ plugin # "running" => server = NoCall
    /\ plugin \notin {"waking", "woke", "running"} => woken = 0
    /\ plugin \in {"idle", "ended", "saving"} => Current(memory, 0)
    /\ plugin \in {"waking", "woke"} => Current(memory, woken)
    /\ server.pc \in {"loaded", "saving"} => Current(server.state, woken)
    /\ plugin \in {"woke", "saving"} \/ server.pc = "saving" => file = Torn
    /\ Settled => file # Torn /\ Current(file, woken)

LEMMA InitTurnInv == Init => TurnInv
BY Shapes DEF Init, TurnInv, Current, Settled, Empty, NoCall, Torn, State

LEMMA NextTurnInv ==
    ASSUME IInv, [Next]_vars, Orderly => TurnInv
    PROVE  (Orderly => TurnInv)'
<1> SUFFICES ASSUME Orderly' PROVE TurnInv'
  OBVIOUS
<1>0. /\ MailInv /\ StateInv /\ RestInv /\ messages \in Nat /\ crashes \in Nat
      /\ memory \in State /\ Loaded \in State /\ NoCall.pc = "idle"
  BY LoadedIn DEF IInv, MailInv, RestInv, StateInv, StateIn, Numbers, NoCall
<1>1. Orderly
  <2>1. ~overlapped
    <3>1. overlapped => overlapped'
      BY Zenon DEF Next, vars, WakeForMesh, StartUserTurn, TruncateByPlugin, FillByPlugin,
         AfterTurn, CallMeshSend, DeliveryFails, LoadByServer, TruncateByServer,
         FillByServer, CommitTerminator, Crash
    <3> QED
      BY <3>1 DEF Orderly
  <2>2. crashes' = crashes \/ crashes' = crashes + 1
    BY DEF Next, vars, WakeForMesh, StartUserTurn, TruncateByPlugin, FillByPlugin,
       AfterTurn, CallMeshSend, DeliveryFails, LoadByServer, TruncateByServer,
       FillByServer, CommitTerminator, Crash
  <2>3. crashes = 0
    BY <2>2, <1>0 DEF Orderly
  <2> QED
    BY <2>1, <2>3 DEF Orderly
<1>2. TurnInv
  BY <1>1
<1>3. ASSUME NEW p \in Peers, NEW end \in BOOLEAN, WakeForMesh(p, end) PROVE TurnInv'
  <2>1. server = NoCall /\ memory.threads = latest
    BY <1>2, <1>3 DEF WakeForMesh, TurnInv, Current
  <2>2. Current(memory, woken)'
    BY <2>1, <1>3 DEF WakeForMesh, Exchange, Current
  <2> QED
    BY <2>1, <2>2, <1>0, <1>3 DEF WakeForMesh, TurnInv, Settled
<1>4. CASE StartUserTurn
  <2>1. server = NoCall /\ Settled /\ woken = 0
    BY <1>0, <1>2, <1>4 DEF StartUserTurn, TurnInv, Settled
  <2> QED
    BY <2>1, <1>0, <1>2, <1>4 DEF StartUserTurn, TurnInv, Settled, Current, mail
<1>5. CASE TruncateByPlugin
  <2>1. server = NoCall
    BY <1>2, <1>5 DEF TruncateByPlugin, TurnInv
  <2> QED
    BY <2>1, <1>0, <1>2, <1>5 DEF TruncateByPlugin, Truncate, TurnInv, Settled, Current, mail
<1>6. CASE FillByPlugin
  <2>1. server = NoCall /\ file = Torn
    BY <1>2, <1>6 DEF FillByPlugin, TurnInv
  <2>2. file' = memory /\ memory # Torn
    BY <2>1, <1>0, <1>6, Shapes DEF FillByPlugin, Fill
  <2> QED
    BY <2>1, <2>2, <1>0, <1>2, <1>6 DEF FillByPlugin, TurnInv, Settled, Current, mail
<1>7. CASE AfterTurn
  <2>1. server = NoCall
    <3>1. overlapped' = (overlapped \/ server # NoCall)
      BY <1>7 DEF AfterTurn
    <3>2. ~overlapped'
      BY DEF Orderly
    <3> QED
      BY <3>1, <3>2, Zenon
  <2>2. Loaded.threads = latest
    BY <2>1, <1>0, <1>2, <1>7 DEF AfterTurn, TurnInv, Settled, Current, Loaded
  <2>3. Current(memory, 0)'
    BY <2>2, <1>0, <1>7 DEF AfterTurn, Current, State, mail
  <2> QED
    BY <2>1, <2>3, <1>0, <1>7 DEF AfterTurn, TurnInv, Settled
<1>8. ASSUME NEW p \in Peers, CallMeshSend(p) PROVE TurnInv'
  <2>1. server'.pc = "wire" /\ plugin = "running"
    BY <1>8 DEF CallMeshSend
  <2>2. Settled
    BY <1>0, <1>8 DEF CallMeshSend, Settled
  <2> QED
    BY <2>1, <2>2, <1>2, <1>8 DEF CallMeshSend, TurnInv, Settled, Current, mail
<1>9. CASE DeliveryFails
  <2>1. server.pc = "wire" /\ server # NoCall /\ server'.pc = "idle"
    BY <1>0, <1>9 DEF DeliveryFails
  <2> QED
    BY <2>1, <1>2, <1>9 DEF DeliveryFails, TurnInv, Settled, Current, mail
<1>10. ASSUME NEW end \in BOOLEAN, LoadByServer(end) PROVE TurnInv'
  <2>1. server # NoCall /\ server \in Serving /\ server.peer \in Peers
    BY <1>0, <1>10 DEF LoadByServer, StateInv, Serving
  <2>2. plugin = "running" /\ Loaded.mesh = woken /\ Loaded.threads = latest
    BY <2>1, <1>2, <1>10 DEF LoadByServer, TurnInv, Settled, Current, Loaded
  <2> DEFINE s == [Loaded EXCEPT !.threads[server.peer] = NewMessage]
  <2>3. s.mesh = woken /\ s.threads = [latest EXCEPT ![server.peer] = NewMessage]
    BY <2>2, <1>0 DEF State
  <2>4. server' = [server EXCEPT !.pc = "loaded", !.state = s]
    BY <1>10 DEF LoadByServer
  <2>5. server'.pc = "loaded" /\ server'.state = s /\ server' # NoCall
    <3> HIDE DEF s
    <3> QED
      BY <2>1, <2>4, <1>0 DEF Serving
  <2>6. latest' = [latest EXCEPT ![server.peer] = NewMessage]
    BY <1>10 DEF LoadByServer, Exchange
  <2>7. Current(server.state, woken)'
    <3> HIDE DEF s
    <3> QED
      BY <2>3, <2>5, <2>6, <1>10 DEF LoadByServer, Current
  <2> QED
    BY <2>2, <2>5, <2>7, <1>10 DEF LoadByServer, TurnInv, Settled
<1>11. CASE TruncateByServer
  <2>1. server # NoCall /\ server \in Serving /\ server.pc = "loaded"
    BY <1>0, <1>11 DEF TruncateByServer, StateInv, Serving
  <2>2. server'.pc = "saving" /\ server'.state = server.state
    BY <2>1, <1>11 DEF TruncateByServer, Serving
  <2> QED
    BY <2>1, <2>2, <1>2, <1>11 DEF TruncateByServer, Truncate, TurnInv, Settled, Current, mail
<1>12. CASE FillByServer
  <2>1. server # NoCall /\ server \in Serving /\ server.state \in State
    BY <1>0, <1>12 DEF FillByServer, StateInv, StateIn
  <2>2. file = Torn /\ Current(server.state, woken) /\ plugin = "running"
    BY <2>1, <1>2, <1>12 DEF FillByServer, TurnInv
  <2>3. file' = server.state /\ file' # Torn
    BY <2>1, <2>2, <1>12, Shapes DEF FillByServer, Fill
  <2> QED
    BY <2>2, <2>3, <1>0, <1>2, <1>12 DEF FillByServer, TurnInv, Settled, Current, mail
<1>13. CASE Crash
  BY <1>0, <1>13 DEF Crash, Orderly
<1>14. ASSUME NEW n \in closing, CommitTerminator(n) PROVE TurnInv'
  BY <1>2, <1>14 DEF CommitTerminator, TurnInv, Settled, Current
<1>15. CASE UNCHANGED vars
  BY <1>2, <1>15 DEF vars, mail, TurnInv, Settled, Current
<1> QED
  BY <1>3, <1>4, <1>5, <1>6, <1>7, <1>8, <1>9, <1>10, <1>11, <1>12, <1>13, <1>14, <1>15
     DEF Next

LEMMA TurnsAreTaken == Spec => [](Orderly => TurnInv)
BY Inductive, InitTurnInv, NextTurnInv, PTL DEF Spec

\* No thread record is lost between the two writers (after_turn, on_waking).
THEOREM ThreadsAreKept == Spec => []ThreadsKept
<1>1. (Orderly => TurnInv) => ThreadsKept
  BY DEF TurnInv, ThreadsKept, Current
<1> QED
  BY <1>1, TurnsAreTaken, PTL

\* No turn takes another's message for its own (on_waking, after_turn).
THEOREM MeshIsTheTurns == Spec => []MeshIsOfTheTurn
<1>1. (Orderly => TurnInv) => MeshIsOfTheTurn
  BY DEF TurnInv, MeshIsOfTheTurn, Current, Loaded
<1> QED
  BY <1>1, TurnsAreTaken, PTL
=============================================================================
