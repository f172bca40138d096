--------------------------- MODULE MCConversation ---------------------------
(***************************************************************************)
(* Two seats for TLC: ana has two named chats, one of them mesh:bea; bea   *)
(* has two as well, and names one of them, or routes by sender, or not at  *)
(* all.                                                                    *)
(***************************************************************************)
EXTENDS Conversation, TLC

CONSTANTS ana, bea, a1, a2, b1, ba

MCAgents == {ana, bea}
MCChatsOf == ana :> {a1, a2} @@ bea :> {b1, ba}
MCMeshChat == ana :> (bea :> a2) @@ bea :> (ana :> ba)
MCTelegram == {a1, b1}
MCKnown == ana :> {bea} @@ bea :> {ana}

Config(mapping, chat_map, fallback) ==
    [mapping |-> mapping, chat_map |-> chat_map, fallback |-> fallback]

TwoDoors == <<<<"chat", a1>>, <<"review", a2>>>>

MCSeats ==
    {ana :> Config("session", TwoDoors, a1) @@ bea :> s : s \in {
        Config("session", <<<<"chat", b1>>>>, ba),
        Config("session", <<<<"review", b1>>, <<ana, ba>>>>, b1),
        Config("per_sender", <<>>, b1),
        Config("single", <<<<"chat", ba>>>>, b1)}}

\* Every routing, every argument, exchanges on a wire that works: of three
\* messages where bea's chats have names, else of two.
Routes ==
    {[seat |-> s, active |-> {a1, a2, b1, ba}, given |-> {"review"},
      passed |-> {{}, {"session"}, {"from_session"}}, faults |-> {},
      messages |-> IF s[bea].mapping = "session" THEN 3 ELSE 2,
      tries |-> 1, restarts |-> 0, atOnce |-> 1] : s \in MCSeats}

\* Two chats, one of each agent, and what can go wrong.
OneDoor == ana :> Config("session", <<<<"chat", a1>>>>, a1)
           @@ bea :> Config("session", <<<<"chat", b1>>>>, b1)

Trouble(what, deaths, senders, passed, atOnce) ==
    [seat |-> OneDoor, active |-> senders, given |-> {}, passed |-> passed,
     faults |-> what, messages |-> 2, tries |-> 2, restarts |-> deaths, atOnce |-> atOnce]

\* Both talk and everything fails; one talks and a seat restarts; both talk in
\* turn and a seat restarts.
Troubles ==
    {Trouble({"wire", "wake", "close"}, 0, {a1, b1}, {{}}, 2),
     Trouble({"wire", "close"}, 1, {a1}, {{}}, 2),
     Trouble({"wire", "close"}, 1, {a1, b1}, {{}, {"ref"}}, 1)}

MCWorlds == Routes \cup Troubles
=============================================================================
