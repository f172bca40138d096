---------------------------- MODULE AtomicCalls ----------------------------
(***************************************************************************)
(* What the registry lock is for: every call takes effect at one instant   *)
(* between being made and returning, on the file as it is at that instant. *)
(* A call whose section raised had no effect.                              *)
(***************************************************************************)
CONSTANTS
    Threads,
    Ops,            \* what a call may ask for
    NoOp,           \* what an idle thread asks for, none of Ops
    Contents,       \* what the file may hold
    Unread,         \* Unread[c]: what a file that holds c and cannot be read is
                    \* taken for
    Update,         \* Update[o][c]: the content o leaves behind when it finds c
    Blind           \* whether a call may fail to read the file

VARIABLES
    file,
    op,             \* what each call asks for
    stage           \* "idle", "asked", "applied", "raised"

vars == <<file, op, stage>>

Init ==
    /\ file \in Contents
    /\ op = [t \in Threads |-> NoOp]
    /\ stage = [t \in Threads |-> "idle"]

Ask(t, o) ==
    /\ stage[t] = "idle"
    /\ stage' = [stage EXCEPT ![t] = "asked"]
    /\ op' = [op EXCEPT ![t] = o]
    /\ UNCHANGED file

\* A call that leaves what it found writes nothing.
Leaves(t, found) ==
    \/ Update[op[t]][found] # found /\ file' = Update[op[t]][found]
    \/ Update[op[t]][found] = found /\ UNCHANGED file

Apply(t) ==
    /\ stage[t] = "asked"
    /\ stage' = [stage EXCEPT ![t] = "applied"]
    /\ Leaves(t, file) \/ (Blind /\ Leaves(t, Unread[file]))
    /\ UNCHANGED op

Raise(t) ==
    /\ stage[t] = "asked"
    /\ stage' = [stage EXCEPT ![t] = "raised"]
    /\ UNCHANGED <<file, op>>

Return(t) ==
    /\ stage[t] \in {"applied", "raised"}
    /\ stage' = [stage EXCEPT ![t] = "idle"]
    /\ op' = [op EXCEPT ![t] = NoOp]
    /\ UNCHANGED file

\* A process ends with all its calls, before or after they took effect.
Die(ts) ==
    /\ stage' = [t \in Threads |-> IF t \in ts THEN "idle" ELSE stage[t]]
    /\ op' = [t \in Threads |-> IF t \in ts THEN NoOp ELSE op[t]]
    /\ UNCHANGED file

Next ==
    \/ \E t \in Threads, o \in Ops : Ask(t, o)
    \/ \E t \in Threads : Apply(t) \/ Raise(t) \/ Return(t)
    \/ \E ts \in SUBSET Threads : Die(ts)

Spec == Init /\ [][Next]_vars
=============================================================================
