----------------------------- MODULE VaultSync -----------------------------
(***************************************************************************)
(* The identities of a vault and the registry of peers (core.py            *)
(* register_local, publish, join_mesh, sync_to_vault, _merge_identity).    *)
(* Every chat's MCP server is a process of its own on the one vault, joins *)
(* when it starts (auto_join) and again when its agent asks, and nothing   *)
(* locks identity.yaml: looking, reading and writing are steps.            *)
(*                                                                         *)
(* An identity is its key, its discovery fields (url, role, description:   *)
(* info), its platform tag and whether it carries the diploid markers.     *)
(* Reading and writing one file is taken to be atomic (mesh_core), and     *)
(* vault.save to write an identity without the markers, which is why       *)
(* register_local adds them afterwards.                                    *)
(***************************************************************************)
EXTENDS Naturals, FiniteSets

CONSTANTS
    Me, Others,     \* the agent of this vault, its peers
    Procs,          \* the processes that use the vault
    KeyOf,          \* the public key each process was started with
    Keys, Infos,
    None,           \* no key, no info, no file, no record
    HarnessUrl,     \* the info register_local derives from harness_url, or None
    Vaults, Registries,     \* what file and registry may hold at first
    Named,          \* the names the tools are given
    Offers,         \* what the registry may come to hold for each name
    Faults,         \* "publish" "list" "write"  an operation fails or raises
                    \* "record"  a peer's record the except branch raises on too
    MaxJobs,        \* bound on the tool calls of a process
    MaxNews         \* bound on the changes other agents make to the registry

Names == Others \cup {Me}

Record == [key : Keys \cup {None}, info : Infos, platform : {"hermes", "diploid"}]

Identity == [key : Keys \cup {None}, info : Infos \cup {None},
             platform : {"hermes", "diploid", ""}, marked : BOOLEAN]

ASSUME VaultAssumption ==
    /\ Me \notin Others
    /\ Named \subseteq Names
    /\ KeyOf \in [Procs -> Keys]
    /\ None \notin Keys \cup Infos \cup Identity \cup Record
    /\ HarnessUrl \in Infos \cup {None}
    /\ Vaults \subseteq [Names -> Identity \cup {None}]
    /\ Registries \subseteq [Names -> Record \cup {None}]
    /\ Offers \in [Names -> SUBSET Record]
    /\ MaxJobs \in Nat /\ MaxNews \in Nat

VARIABLES
    file,       \* identity.yaml of each name, None if there is none
    registry,   \* the registry's record of each name, None if it has none
    pc,         \* each process's place
    kind,       \* what it was asked for
    name,       \* whose file it is at
    raw,        \* what it has read of that file, None if it saw none
    listed,     \* the registry as it was listed
    todo,       \* peers of the list still to come
    failed,     \* peers it could not write
    jobs, news

disk == <<file, registry>>
local == <<kind, name, raw, listed, todo, failed>>
counts == <<jobs, news>>
vars == <<disk, pc, local, counts>>

Kinds == {"register", "join", "sync", "publish", "deregister"}

Empty == [n \in Names |-> None]

Init ==
    /\ file \in Vaults
    /\ registry \in Registries
    /\ pc = [p \in Procs |-> "idle"]
    /\ kind = [p \in Procs |-> "sync"]
    /\ name = [p \in Procs |-> Me]
    /\ raw = [p \in Procs |-> None]
    /\ listed = [p \in Procs |-> Empty]
    /\ todo = [p \in Procs |-> {}]
    /\ failed = [p \in Procs |-> {}]
    /\ jobs = [p \in Procs |-> 0]
    /\ news = 0

Move(p, from, to) == pc[p] = from /\ pc' = [pc EXCEPT ![p] = to]

Put(n, identity) == file' = [file EXCEPT ![n] = identity]

\* Back to the tool's caller; "error" if an exception ended it.
Ended == {"idle", "error"}

-----------------------------------------------------------------------------
(* register_local, publish, deregister *)

\* _default_receive_url: the harness, else what this agent's own file says.
ReceiveInfo ==
    IF HarnessUrl # None THEN HarnessUrl
    ELSE IF file[Me] # None THEN file[Me].info ELSE None

First(k) == CASE k \in {"register", "join"} -> "save"
              [] k = "sync" -> "list"
              [] k \in {"publish", "deregister"} -> k

\* A tool is called, or the server joins as it starts.
Ask(p, k, n) ==
    /\ pc[p] \in Ended
    /\ jobs[p] < MaxJobs
    /\ n = Me \/ (k \in {"register", "publish", "deregister"} /\ n \in Named)
    /\ k \in {"register", "join", "publish"} => ReceiveInfo # None
    /\ pc' = [pc EXCEPT ![p] = First(k)]
    /\ kind' = [kind EXCEPT ![p] = k]
    /\ name' = [name EXCEPT ![p] = n]
    /\ raw' = [raw EXCEPT ![p] = None]
    /\ listed' = [listed EXCEPT ![p] = Empty]
    /\ todo' = [todo EXCEPT ![p] = {}]
    /\ failed' = [failed EXCEPT ![p] = {}]
    /\ jobs' = [jobs EXCEPT ![p] = @ + 1]
    /\ UNCHANGED <<disk, news>>

Save(p) ==
    /\ Move(p, "save", "reread")
    /\ Put(name[p], [key |-> KeyOf[p], info |-> ReceiveInfo,
                     platform |-> "diploid", marked |-> FALSE])
    /\ UNCHANGED <<registry, local, counts>>

Reread(p) ==
    /\ Move(p, "reread", "mark")
    /\ raw' = [raw EXCEPT ![p] = file[name[p]]]
    /\ UNCHANGED <<disk, kind, name, listed, todo, failed, counts>>

\* What was reread is written back with the markers.
Mark(p) ==
    /\ Move(p, "mark", "publish")
    /\ Put(name[p], [raw[p] EXCEPT !.platform = "diploid", !.marked = TRUE])
    /\ UNCHANGED <<registry, local, counts>>

\* Writing raises: the tool answers with the error.
WriteFails(p) ==
    /\ "write" \in Faults
    /\ pc[p] \in {"save", "mark"}
    /\ pc' = [pc EXCEPT ![p] = "error"]
    /\ UNCHANGED <<disk, local, counts>>

Enlist(p) ==
    registry' = [registry EXCEPT ![name[p]] =
        [key |-> KeyOf[p], info |-> ReceiveInfo, platform |-> "hermes"]]

\* The registry's client answers, also that it could not enlist, and a join goes
\* on to synchronise either way.  mesh_register may be told not to publish.
Publish(p) ==
    /\ Move(p, "publish", IF kind[p] = "join" THEN "list" ELSE "idle")
    /\ \/ Enlist(p)
       \/ ("publish" \in Faults \/ kind[p] = "register") /\ UNCHANGED registry
    /\ UNCHANGED <<file, local, counts>>

\* The client raises, its request served or not: a join ends without its
\* synchronisation.
PublishRaises(p) ==
    /\ "publish" \in Faults
    /\ Move(p, "publish", "error")
    /\ Enlist(p) \/ UNCHANGED registry
    /\ UNCHANGED <<file, local, counts>>

Deregister(p) ==
    /\ Move(p, "deregister", "idle")
    /\ \/ registry' = [registry EXCEPT ![name[p]] = None]
       \/ "publish" \in Faults /\ UNCHANGED registry
    /\ UNCHANGED <<file, local, counts>>

-----------------------------------------------------------------------------
(* sync_to_vault *)

\* All peers, or the one the tool was given.
List(p) ==
    /\ Move(p, "list", "next")
    /\ \E S \in {Names} \cup {{n} : n \in Names} :
          /\ kind[p] = "join" => S = Names
          /\ todo' = [todo EXCEPT ![p] = {n \in S : registry[n] # None}]
    /\ listed' = [listed EXCEPT ![p] = registry]
    /\ UNCHANGED <<disk, kind, name, raw, failed, counts>>

ListFails(p) ==
    /\ "list" \in Faults
    /\ Move(p, "list", "error")
    /\ UNCHANGED <<disk, local, counts>>

\* Mutant of Look: the file is taken to be there.
LookUnseen(p, n) ==
    /\ n \in todo[p]
    /\ Move(p, "next", "load")
    /\ name' = [name EXCEPT ![p] = n]
    /\ raw' = [raw EXCEPT ![p] = None]
    /\ todo' = [todo EXCEPT ![p] = @ \ {n}]
    /\ UNCHANGED <<disk, kind, listed, failed, counts>>

\* path.exists()
Look(p, n) ==
    /\ n \in todo[p]
    /\ Move(p, "next", IF file[n] = None THEN "create" ELSE "load")
    /\ name' = [name EXCEPT ![p] = n]
    /\ raw' = [raw EXCEPT ![p] = None]
    /\ todo' = [todo EXCEPT ![p] = @ \ {n}]
    /\ UNCHANGED <<disk, kind, listed, failed, counts>>

\* There was no file: the registry's word is taken for everything.
Create(p) ==
    /\ Move(p, "create", "next")
    /\ LET r == listed[p][name[p]] IN
       Put(name[p], [key |-> r.key, info |-> r.info, platform |-> r.platform, marked |-> FALSE])
    /\ UNCHANGED <<registry, local, counts>>

Load(p) ==
    /\ Move(p, "load", "merge")
    /\ raw' = [raw EXCEPT ![p] = file[name[p]]]
    /\ UNCHANGED <<disk, kind, name, listed, todo, failed, counts>>

\* Mutant of Merged: the registry's key is taken, too.
MergedWithKey(i, r) ==
    [i EXCEPT !.info = r.info, !.key = IF r.key # None THEN r.key ELSE @]

\* Discovery fields are the registry's; key and platform only where the file
\* has none.
Merged(i, r) ==
    [i EXCEPT !.info = r.info,
              !.platform = IF @ = "" THEN r.platform ELSE @,
              !.key = IF @ = None THEN r.key ELSE @]

\* Written only if something changed.
Merge(p) ==
    /\ Move(p, "merge", "next")
    /\ LET merged == Merged(raw[p], listed[p][name[p]]) IN
       IF merged # raw[p] THEN Put(name[p], merged) ELSE UNCHANGED file
    /\ UNCHANGED <<registry, local, counts>>

\* Mutant of PeerFails: the first failure ends the loop.
PeerFailsAll(p) ==
    /\ "write" \in Faults
    /\ pc[p] \in {"create", "load", "merge"}
    /\ pc' = [pc EXCEPT ![p] = "next"]
    /\ failed' = [failed EXCEPT ![p] = @ \cup {name[p]}]
    /\ todo' = [todo EXCEPT ![p] = {}]
    /\ UNCHANGED <<disk, kind, name, raw, listed, counts>>

\* A peer that cannot be read or written is noted and the next one is taken.
PeerFails(p) ==
    /\ "write" \in Faults
    /\ pc[p] \in {"create", "load", "merge"}
    /\ pc' = [pc EXCEPT ![p] = "next"]
    /\ failed' = [failed EXCEPT ![p] = @ \cup {name[p]}]
    /\ UNCHANGED <<disk, kind, name, raw, listed, todo, counts>>

\* A record without a name: noting the failure fails.
RecordFails(p) ==
    /\ "record" \in Faults
    /\ todo[p] # {}
    /\ Move(p, "next", "error")
    /\ UNCHANGED <<disk, local, counts>>

Finish(p) ==
    /\ todo[p] = {}
    /\ Move(p, "next", "idle")
    /\ UNCHANGED <<disk, local, counts>>

Step(p) ==
    \/ Save(p) \/ Reread(p) \/ Mark(p) \/ WriteFails(p) \/ Publish(p)
    \/ PublishRaises(p) \/ Deregister(p) \/ List(p) \/ ListFails(p)
    \/ (\E n \in Names : Look(p, n)) \/ Create(p) \/ Load(p) \/ Merge(p)
    \/ PeerFails(p) \/ RecordFails(p) \/ Finish(p)

\* Another agent publishes: it is new, it moved, or it has a new key.
News(n) ==
    /\ news < MaxNews
    /\ news' = news + 1
    /\ \E r \in Offers[n] : registry' = [registry EXCEPT ![n] = r]
    /\ UNCHANGED <<file, pc, local, jobs>>

Quiet ==
    /\ \A p \in Procs : pc[p] \in Ended /\ jobs[p] = MaxJobs
    /\ UNCHANGED vars

Next ==
    \/ \E p \in Procs : Step(p) \/ \E k \in Kinds, n \in Named \cup {Me} : Ask(p, k, n)
    \/ \E n \in Others : News(n)
    \/ Quiet

Spec == Init /\ [][Next]_vars

-----------------------------------------------------------------------------
(* Properties *)

\* Whatever fails or crosses, a process at a file has a name, and one past its
\* reading holds an identity to write (register_local, sync_to_vault).
TypeOK ==
    /\ file \in [Names -> Identity \cup {None}]
    /\ registry \in [Names -> Record \cup {None}]
    /\ pc \in [Procs -> Ended \cup {"save", "reread", "mark", "publish", "deregister",
                                    "list", "next", "create", "load", "merge"}]
    /\ kind \in [Procs -> Kinds]
    /\ name \in [Procs -> Names]
    /\ raw \in [Procs -> Identity \cup {None}]
    /\ listed \in [Procs -> [Names -> Record \cup {None}]]
    /\ todo \in [Procs -> SUBSET Names]
    /\ failed \in [Procs -> SUBSET Names]
    /\ jobs \in [Procs -> 0 .. MaxJobs]
    /\ news \in 0 .. MaxNews
    /\ \A p \in Procs : pc[p] \in {"mark", "merge"} => raw[p] # None

\* What a step takes from an identity: its key, its platform tag, its markers.
TakesKey(n) == file[n] # None /\ file[n].key # None /\ file'[n].key # file[n].key
TakesTag(n) == file[n] # None /\ file[n].platform # "" /\ file'[n].platform # file[n].platform
TakesMarkers(n) == file[n] # None /\ file[n].marked /\ ~file'[n].marked

\* The file is not what this process saw.
Crossed(p) == raw[p] # file[name[p]]

\* The vault is the source of truth for keys and tags: however many processes
\* join, register and synchronise at once, and whatever the registry says of
\* whom, a synchronisation never takes a key, a tag or the markers from an
\* identity, and marking never a key, unless another process wrote the file
\* since this one looked at it (_merge_identity, sync_to_vault).
OnlyCrossingTakes ==
    [][\A p \in Procs : pc'[p] # pc[p] /\ ~Crossed(p) =>
          \A n \in Names :
             /\ TakesKey(n) => pc[p] = "save"
             /\ TakesTag(n) => pc[p] \in {"save", "mark"}
             /\ TakesMarkers(n) => pc[p] = "save"]_vars

\* A join that was answered has met every peer of the registry's list: it is in
\* the vault, or in the list of failures, wherever in the list others failed
\* (sync_to_vault).
JoinMeetsAll ==
    \A p \in Procs : pc[p] = "idle" /\ kind[p] = "join" =>
        \A n \in Names : listed[p][n] # None => file[n] # None \/ n \in failed[p]
=============================================================================
