----------------------------- MODULE ChatState -----------------------------
(***************************************************************************)
(* The state file of a chat, chat_mesh_state.json, and its two writers:    *)
(* the plugin in the harness process (plugin.py on_waking, after_turn,     *)
(* _load_state, _save_state), which also keeps a copy in memory, and the   *)
(* MCP server of the chat (mcp.py _infer_thread, _record_outbound,         *)
(* _load_state, _save_state).  Neither takes a lock, and write_text first  *)
(* truncates and then writes: between the two the file does not parse and  *)
(* reads as {}.                                                            *)
(*                                                                         *)
(* A message is its number; of what the code stores of it, who keeps the   *)
(* peer and ended the reply=end.  The session tokens are left out.         *)
(***************************************************************************)
EXTENDS Integers

CONSTANTS
    Peers,          \* senders of wakes and recipients of sends
    MaxMessages,    \* bound on the messages that come in or go out
    MaxTurns,       \* bound on the turns
    MaxCrashes      \* bound on the crashes of the harness

ASSUME StateAssumption ==
    /\ MaxMessages \in Nat /\ MaxTurns \in Nat /\ MaxCrashes \in Nat

VARIABLES
    file,       \* the state file: a State, or Torn
    memory,     \* the plugin's _state
    plugin,     \* what the plugin is at: its turn and its save
    woken,      \* the message the turn under way was woken for, or 0
    server,     \* what the MCP server is at, with its own copy of the state
    messages,   \* messages so far: the number of the last one
    turns,
    crashes,
    overlapped, \* whether a turn ended (cancelled, timed out) while a
                \* mesh_send of it was still in the server
    who,        \* the peer each message came from or went to
    ended,      \* the messages that closed their thread (anchors in the vault)
    closing,    \* inbound terminators whose close may still be recorded
    latest      \* the last message that came from or was delivered to each peer

mail == <<messages, who, ended, closing, latest>>
vars == <<file, memory, plugin, woken, server, turns, crashes, overlapped, mail>>

Numbers == 0 .. MaxMessages     \* 0: no message

\* mesh is current_mesh, threads is mesh_threads.
State == [mesh : Numbers, threads : [Peers -> Numbers]]
Torn == [torn |-> TRUE]

Empty == [mesh |-> 0, threads |-> [p \in Peers |-> 0]]

\* _load_state: what does not parse is {}.
Loaded == IF file = Torn THEN Empty ELSE file

NoCall == [pc |-> "idle"]

\* What the two writers leave in the file is a state or does not parse, and
\* the copies they hold are states (_load_state, _save_state).
TypeOK ==
    /\ file \in State \cup {Torn}
    /\ memory \in State
    /\ plugin \in {"idle", "waking", "woke", "running", "ended", "saving"}
    /\ woken \in Numbers
    /\ server \in [pc : {"wire", "loaded", "saving"}, peer : Peers,
                   ref : Numbers, state : State] \cup {NoCall}
    /\ messages \in Numbers
    /\ turns \in 0 .. MaxTurns
    /\ crashes \in 0 .. MaxCrashes
    /\ overlapped \in BOOLEAN
    /\ who \in UNION {[1 .. n -> Peers] : n \in Numbers}
    /\ ended \cup closing \subseteq Numbers
    /\ latest \in [Peers -> Numbers]

Init ==
    /\ file = Empty
    /\ memory = Empty
    /\ plugin = "idle"
    /\ woken = 0
    /\ server = NoCall
    /\ messages = 0
    /\ turns = 0
    /\ crashes = 0
    /\ overlapped = FALSE
    /\ who = <<>>
    /\ ended = {}
    /\ closing = {}
    /\ latest = [p \in Peers |-> 0]

-----------------------------------------------------------------------------
(* write_text *)

Truncate == file' = Torn

\* If the other writer filled the file after our truncation, ours is written
\* over its text, and the tail of a longer one remains: it does not parse.
Fill(state) ==
    \/ file' = state
    \/ file # Torn /\ file' = Torn

-----------------------------------------------------------------------------
(* The plugin *)

NewMessage == messages + 1

\* The new message if it ends its thread.
Terminator(end) == IF end THEN {NewMessage} ELSE {}

\* A message comes from p or goes to p.
Exchange(p, recorded, awaited) ==
    /\ messages < MaxMessages
    /\ messages' = NewMessage
    /\ who' = [n \in 1 .. NewMessage |-> IF n = NewMessage THEN p ELSE who[n]]
    /\ ended' = ended \cup recorded
    /\ closing' = closing \cup awaited
    /\ latest' = [latest EXCEPT ![p] = NewMessage]

\* The ingress records the close of a reply=end after it has enqueued the wake,
\* which may be popped before.
CommitTerminator(n) ==
    /\ n \in closing
    /\ closing' = closing \ {n}
    /\ ended' = ended \cup {n}
    /\ UNCHANGED <<file, memory, plugin, woken, server, turns, crashes, overlapped,
                   messages, who, latest>>

\* on_waking of a mesh wake, up to its save: both places of the message are
\* set in the copy in memory, which is not read from the file again.
WakeForMesh(p, end) ==
    /\ plugin = "idle"
    /\ turns < MaxTurns
    /\ Exchange(p, {}, Terminator(end))
    /\ memory' = [mesh |-> NewMessage, threads |-> [memory.threads EXCEPT ![p] = NewMessage]]
    /\ woken' = NewMessage
    /\ turns' = turns + 1
    /\ plugin' = "waking"
    /\ UNCHANGED <<file, server, crashes, overlapped>>

\* A turn of the user: on_waking returns early.
StartUserTurn ==
    /\ plugin = "idle"
    /\ turns < MaxTurns
    /\ turns' = turns + 1
    /\ woken' = 0
    /\ plugin' = "running"
    /\ UNCHANGED <<file, memory, server, crashes, overlapped, mail>>

\* _save_state in on_waking, then in after_turn.
TruncateByPlugin ==
    /\ Truncate
    /\ \/ plugin = "waking" /\ plugin' = "woke"
       \/ plugin = "ended" /\ plugin' = "saving"
    /\ UNCHANGED <<memory, woken, server, turns, crashes, overlapped, mail>>

FillByPlugin ==
    /\ Fill(memory)
    /\ \/ plugin = "woke" /\ plugin' = "running"
       \/ plugin = "saving" /\ plugin' = "idle"
    /\ UNCHANGED <<memory, woken, server, turns, crashes, overlapped, mail>>

\* Mutants of AfterTurn: the copy in memory is saved without reading the file;
\* current_mesh is kept.
AfterTurnFromMemory ==
    /\ plugin = "running"
    /\ overlapped' = (overlapped \/ server # NoCall)
    /\ memory' = [memory EXCEPT !.mesh = 0]
    /\ woken' = 0
    /\ plugin' = "ended"
    /\ UNCHANGED <<file, server, turns, crashes, mail>>

AfterTurnKeepingMesh ==
    /\ plugin = "running"
    /\ overlapped' = (overlapped \/ server # NoCall)
    /\ memory' = Loaded
    /\ woken' = 0
    /\ plugin' = "ended"
    /\ UNCHANGED <<file, server, turns, crashes, mail>>

\* after_turn: the file is read again, current_mesh dropped.
AfterTurn ==
    /\ plugin = "running"
    /\ overlapped' = (overlapped \/ server # NoCall)
    /\ memory' = [Loaded EXCEPT !.mesh = 0]
    /\ woken' = 0
    /\ plugin' = "ended"
    /\ UNCHANGED <<file, server, turns, crashes, mail>>

-----------------------------------------------------------------------------
(* The MCP server *)

\* Mutant of InferRef: the message of the turn, whoever it came from.
InferRefOfTurn(p) ==
    LET mesh == Loaded.mesh
        last == IF mesh # 0 THEN mesh ELSE Loaded.threads[p]
    IN  IF last \in ended THEN 0 ELSE last

\* _infer_thread: the message a send to p refers to.  The message of the turn
\* comes before the thread; a closed one is not referred to.  Nor is one that
\* carries no session tokens, which are not modelled: hence the choice of 0.
InferRef(p) ==
    LET mesh == Loaded.mesh
        last == IF mesh # 0 /\ who[mesh] = p THEN mesh ELSE Loaded.threads[p]
    IN  IF last \in ended THEN 0 ELSE last

CallMeshSend(p) ==
    /\ plugin = "running"
    /\ server = NoCall
    /\ \E ref \in {InferRef(p), 0} :
          server' = [pc |-> "wire", peer |-> p, ref |-> ref, state |-> Empty]
    /\ UNCHANGED <<file, memory, plugin, woken, turns, crashes, overlapped, mail>>

\* A delivery that fails is not recorded.
DeliveryFails ==
    /\ server.pc = "wire"
    /\ server' = NoCall
    /\ UNCHANGED <<file, memory, plugin, woken, turns, crashes, overlapped, mail>>

\* send has recorded the close of a terminator; _record_outbound reads the file
\* and sets the thread of the recipient.
LoadByServer(end) ==
    /\ server.pc = "wire"
    /\ Exchange(server.peer, Terminator(end), {})
    /\ server' = [server EXCEPT !.pc = "loaded",
                     !.state = [Loaded EXCEPT !.threads[server.peer] = NewMessage]]
    /\ UNCHANGED <<file, memory, plugin, woken, turns, crashes, overlapped>>

TruncateByServer ==
    /\ server.pc = "loaded"
    /\ Truncate
    /\ server' = [server EXCEPT !.pc = "saving"]
    /\ UNCHANGED <<memory, plugin, woken, turns, crashes, overlapped, mail>>

\* Mutant of FillByServer: the call is written, not the state.
FillByServerWithCall ==
    /\ server.pc = "saving"
    /\ Fill(server)
    /\ server' = NoCall
    /\ UNCHANGED <<memory, plugin, woken, turns, crashes, overlapped, mail>>

FillByServer ==
    /\ server.pc = "saving"
    /\ Fill(server.state)
    /\ server' = NoCall
    /\ UNCHANGED <<memory, plugin, woken, turns, crashes, overlapped, mail>>

-----------------------------------------------------------------------------
\* The harness dies with its ingress and its MCP server and comes back: the
\* plugin is made anew and reads the file.
Crash ==
    /\ crashes < MaxCrashes
    /\ crashes' = crashes + 1
    /\ memory' = Loaded
    /\ plugin' = "idle"
    /\ woken' = 0
    /\ server' = NoCall
    /\ closing' = {}
    /\ UNCHANGED <<file, turns, overlapped, messages, who, ended, latest>>

Next ==
    \/ \E p \in Peers, end \in BOOLEAN : WakeForMesh(p, end)
    \/ \E p \in Peers : CallMeshSend(p)
    \/ StartUserTurn \/ TruncateByPlugin \/ FillByPlugin \/ AfterTurn
    \/ DeliveryFails \/ (\E end \in BOOLEAN : LoadByServer(end))
    \/ TruncateByServer \/ FillByServer
    \/ \E n \in closing : CommitTerminator(n)
    \/ Crash

Spec == Init /\ [][Next]_vars

-----------------------------------------------------------------------------
(* Properties *)

\* Nobody is between reading the state and having written it.
Settled == plugin \in {"idle", "running"} /\ server.pc \in {"idle", "wire"}

\* Sends finish in their turns and nothing crashes.
Orderly == ~overlapped /\ crashes = 0

\* mesh_threads holds the last message of every peer, so that a later turn can
\* answer it on its door: what the server recorded during a turn survives the
\* plugin's save at the end of it, and the wakes after it (after_turn,
\* on_waking).
ThreadsKept == Orderly /\ Settled => file # Torn /\ file.threads = latest

\* While the file is at rest current_mesh is the message the turn under way was
\* woken for, and nothing outside its turn: no later turn takes it for its own.
MeshIsOfTheTurn == Orderly /\ Settled => Loaded.mesh = woken

\* Whatever the writers do to each other, a send refers to a message exchanged
\* with its own recipient or to none: neither a stale current_mesh nor a torn
\* file makes it answer somebody else's thread (_infer_thread).
RefIsOfRecipient ==
    server # NoCall => server.ref = 0 \/ who[server.ref] = server.peer
=============================================================================
