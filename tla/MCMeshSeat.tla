----------------------------- MODULE MCMeshSeat -----------------------------
(***************************************************************************)
(* A seat "me" with two peers, for TLC.  Ids tell the envelopes apart; two *)
(* handlers with one envelope are a message and its retry.                 *)
(***************************************************************************)
EXTENDS MeshSeat, TLC

CONSTANTS me, ana, bea, cyd

MCAgents == {me, ana, bea, cyd}
MCPeers == {me, ana, bea}

Mail(id, s, r, reply, ref, dsn) ==
    [id |-> id, sender |-> s, recipient |-> r, reply |-> reply, ref |-> ref, dsn |-> dsn]

AnaAsks == Mail("a1", ana, me, "yes", "", "no")
BeaAsks == Mail("b1", bea, me, "yes", "", "no")
AnaEnds == Mail("a2", ana, me, "end", "", "no")
AnaReplies == Mail("a3", ana, me, "yes", "m2", "no")    \* on a thread closed by m2
BeaTells == Mail("b2", bea, me, "no", "", "no")
HeaderDsnOfBea == Mail("b3", bea, me, "no", "", "header")
BodyDsnOfBea == Mail("b4", bea, me, "yes", "", "body")
Misaddressed == Mail("a4", ana, bea, "yes", "", "no")
Stranger == Mail("c1", cyd, me, "yes", "", "no")

MeAsks == Mail("m1", me, ana, "yes", "", "no")
MeEnds == Mail("m2", me, ana, "end", "", "no")
MeAsksMe == Mail("m4", me, me, "yes", "", "no")
MeAsksStranger == Mail("m3", me, cyd, "yes", "", "no")

MCRequests == {Asks(m) : m \in Inbox \cup Outbox}
MCWorkers == Handlers \cup Senders

\* A conversation with ana, contested by bea and by a question to oneself.
TalkIn == {AnaAsks, BeaAsks, AnaEnds, AnaReplies, MeAsksMe}
TalkOut == {MeAsks, MeEnds, MeAsksMe}

\* Everything a POST or a send can meet, one at a time.
AnyIn == {AnaAsks, AnaEnds, BeaTells, HeaderDsnOfBea, BodyDsnOfBea, Misaddressed, Stranger}
AnyOut == {MeAsks, MeEnds, MeAsksStranger}

\* One question, asked again.
OneQuestion == {AnaAsks}
QuestionOut == {MeAsks}

Interchangeable == Permutations(Handlers)
=============================================================================
