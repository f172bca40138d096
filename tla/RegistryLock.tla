---------------------------- MODULE RegistryLock ----------------------------
(***************************************************************************)
(* The lock under every registry operation (open_threads.py _registry_lock *)
(* with _read_entries and _write_entries): threads of several processes,   *)
(* an in-process lock around an operating-system lock on a lock file,      *)
(* which POSIX grants by blocking and Windows by polling with a deadline.  *)
(*                                                                         *)
(* It shows what OpenThreads takes for granted: a locked section is one    *)
(* step on the current file, or raises and changes nothing.  What a call   *)
(* does to the rows is left open (Update).  Every call opens the lock file *)
(* anew, so the OS lock belongs to the call, not to its process.           *)
(***************************************************************************)
EXTENDS Naturals

CONSTANTS
    Threads, Processes,
    Home,           \* the process of each thread
    Platforms,      \* of "posix" (flock) and "windows" (msvcrt.locking)
    Ops, NoOp, Contents, Update, Unread,    \* as in AtomicCalls
    Empty,          \* the content of a file without rows
    Nobody,         \* the holder of a free lock
    Faults,         \* "errno"  acquiring ends in an error that is not retried
                    \* "unlock" unlocking fails, which Windows code swallows
                    \* "leak"   it fails and raises, on POSIX
                    \* "read"   the file cannot be read and is taken for Unread
                    \* "write"  the new content cannot be written or renamed
    MaxTries,       \* attempts that fit before _LOCK_ACQUIRE_DEADLINE_S
    MaxCalls,       \* bound on the calls of a thread
    MaxCrashes      \* bound on the processes that die

ASSUME LockAssumption ==
    /\ Home \in [Threads -> Processes]
    /\ Platforms \subseteq {"posix", "windows"}
    /\ Empty \in Contents
    /\ NoOp \notin Ops
    /\ Update \in [Ops -> [Contents -> Contents]]
    /\ Unread \in [Contents -> Contents]
    /\ Nobody \notin Threads \cup Processes
    /\ Threads \cap Processes = {}
    /\ MaxTries \in Nat /\ MaxCalls \in Nat /\ MaxCrashes \in Nat

VARIABLES
    platform,       \* of the machine
    file,           \* the registry file; replaced as a whole by os.replace
    flock,          \* the call that holds the OS lock, or the process that is
                    \* left with its descriptor
    gate,           \* _WRITE_LOCK of each process: the thread that holds it
    pc,             \* each thread's place in _registry_lock and its body
    op, found,      \* what it was called for, and what it read
    outcome,        \* how its locked section ended
    tries,          \* its attempts at the OS lock
    calls, crashes

held == <<flock, gate>>
local == <<op, found, outcome, tries>>
counts == <<calls, crashes>>
vars == <<platform, file, held, pc, local, counts>>

Places == {"idle", "gate", "lock", "read", "write", "unlock", "close"}

Init ==
    /\ platform \in Platforms
    /\ file \in Contents
    /\ flock = Nobody
    /\ gate = [p \in Processes |-> Nobody]
    /\ pc = [t \in Threads |-> "idle"]
    /\ op = [t \in Threads |-> NoOp]
    /\ found = [t \in Threads |-> Empty]
    /\ outcome = [t \in Threads |-> "none"]
    /\ tries = [t \in Threads |-> 0]
    /\ calls = [t \in Threads |-> 0]
    /\ crashes = 0

ThreadsOf(p) == {t \in Threads : Home[t] = p}

Move(t, from, to) == pc[t] = from /\ pc' = [pc EXCEPT ![t] = to]

Ends(t, how) ==
    /\ outcome' = [outcome EXCEPT ![t] = how]
    /\ UNCHANGED <<op, found, tries>>

\* The frames of these threads are gone.
Forget(ts) ==
    /\ op' = [t \in Threads |-> IF t \in ts THEN NoOp ELSE op[t]]
    /\ found' = [t \in Threads |-> IF t \in ts THEN Empty ELSE found[t]]
    /\ outcome' = [t \in Threads |-> IF t \in ts THEN "none" ELSE outcome[t]]
    /\ tries' = [t \in Threads |-> IF t \in ts THEN 0 ELSE tries[t]]

-----------------------------------------------------------------------------
(* A call *)

\* The lock file is opened; nothing is held yet.
Call(t, o) ==
    /\ calls[t] < MaxCalls
    /\ Move(t, "idle", "gate")
    /\ op' = [op EXCEPT ![t] = o]
    /\ calls' = [calls EXCEPT ![t] = @ + 1]
    /\ UNCHANGED <<platform, file, held, found, outcome, tries, crashes>>

EnterGate(t) ==
    /\ gate[Home[t]] = Nobody
    /\ Move(t, "gate", "lock")
    /\ gate' = [gate EXCEPT ![Home[t]] = t]
    /\ UNCHANGED <<platform, file, flock, local, counts>>

\* Mutant of Acquire: the lock is shared (LOCK_SH).
AcquireShared(t) ==
    /\ Move(t, "lock", "read")
    /\ flock' = t
    /\ UNCHANGED <<platform, file, gate, local, counts>>

\* flock returns, or LK_NBLCK succeeds.
Acquire(t) ==
    /\ flock = Nobody
    /\ Move(t, "lock", "read")
    /\ flock' = t
    /\ UNCHANGED <<platform, file, gate, local, counts>>

\* Mutant of TryAgain: one attempt more than the deadline allows.
TryAgainPastDeadline(t) ==
    /\ platform = "windows"
    /\ flock # Nobody
    /\ tries[t] <= MaxTries
    /\ Move(t, "lock", "lock")
    /\ tries' = [tries EXCEPT ![t] = @ + 1]
    /\ UNCHANGED <<platform, file, held, op, found, outcome, counts>>

\* Windows polls: EACCES or EDEADLK, and the deadline is not over.
TryAgain(t) ==
    /\ platform = "windows"
    /\ flock # Nobody
    /\ tries[t] < MaxTries
    /\ Move(t, "lock", "lock")
    /\ tries' = [tries EXCEPT ![t] = @ + 1]
    /\ UNCHANGED <<platform, file, held, op, found, outcome, counts>>

\* ... or it is over.
PassDeadline(t) ==
    /\ platform = "windows"
    /\ flock # Nobody
    /\ tries[t] = MaxTries
    /\ Move(t, "lock", "unlock")
    /\ Ends(t, "raised")
    /\ UNCHANGED <<platform, file, held, counts>>

\* Mutant of LockFails: any error is retried, without a limit.
LockFailsAndRepeats(t) ==
    /\ "errno" \in Faults
    /\ Move(t, "lock", "gate")
    /\ gate' = [gate EXCEPT ![Home[t]] = Nobody]
    /\ UNCHANGED <<platform, file, flock, local, counts>>

LockFails(t) ==
    /\ "errno" \in Faults
    /\ Move(t, "lock", "unlock")
    /\ Ends(t, "raised")
    /\ UNCHANGED <<platform, file, held, counts>>

Read(t) ==
    /\ Move(t, "read", "write")
    /\ \E c \in {file} \cup (IF "read" \in Faults THEN {Unread[file]} ELSE {}) :
          found' = [found EXCEPT ![t] = c]
    /\ UNCHANGED <<platform, file, held, op, outcome, tries, counts>>

\* The temporary file is renamed over the registry.
Write(t) ==
    /\ Move(t, "write", "unlock")
    /\ Update[op[t]][found[t]] # found[t]
    /\ file' = Update[op[t]][found[t]]
    /\ Ends(t, "ok")
    /\ UNCHANGED <<platform, held, counts>>

\* Nothing to change, nothing written, or what was there is written again.
Keep(t) ==
    /\ Move(t, "write", "unlock")
    /\ Update[op[t]][found[t]] = found[t]
    /\ Ends(t, "ok")
    /\ UNCHANGED <<platform, file, held, counts>>

\* Mutant of WriteFails: the registry itself is opened for writing and is left
\* empty by the failure.
WriteFailsInPlace(t) ==
    /\ "write" \in Faults
    /\ Move(t, "write", "unlock")
    /\ file' = Empty
    /\ Ends(t, "raised")
    /\ UNCHANGED <<platform, held, counts>>

WriteFails(t) ==
    /\ "write" \in Faults
    /\ Move(t, "write", "unlock")
    /\ Ends(t, "raised")
    /\ UNCHANGED <<platform, file, held, counts>>

\* Mutant of Unlock: unlocking drops the lock whoever holds it.
UnlockAnyones(t) ==
    /\ Move(t, "unlock", "close")
    /\ flock' = Nobody
    /\ UNCHANGED <<platform, file, gate, local, counts>>

\* The finally branch runs however the section ended, also when the lock was
\* never granted: unlocking what another call holds fails or does nothing.
Unlock(t) ==
    /\ Move(t, "unlock", "close")
    /\ \/ flock' = IF flock = t THEN Nobody ELSE flock
       \/ "unlock" \in Faults /\ platform = "windows" /\ UNCHANGED flock
    /\ UNCHANGED <<platform, file, gate, local, counts>>

\* Mutant of Close: a call that raised leaves the in-process lock taken.
CloseHolding(t) ==
    /\ Move(t, "close", "idle")
    /\ flock' = IF flock = t THEN Nobody ELSE flock
    /\ gate' = IF outcome[t] = "raised" THEN gate ELSE [gate EXCEPT ![Home[t]] = Nobody]
    /\ Forget({t})
    /\ UNCHANGED <<platform, file, counts>>

\* Closing the file drops the OS lock if this call still has it; then the
\* in-process lock is left.
Close(t) ==
    /\ Move(t, "close", "idle")
    /\ flock' = IF flock = t THEN Nobody ELSE flock
    /\ gate' = [gate EXCEPT ![Home[t]] = Nobody]
    /\ Forget({t})
    /\ UNCHANGED <<platform, file, counts>>

\* An unlock that raises passes by os.close: the descriptor, and the lock if this
\* call had it, stay with the process.  The with statement leaves the in-process
\* lock, and the call ends with the exception, whatever its section did.
UnlockRaises(t) ==
    /\ "leak" \in Faults
    /\ platform = "posix"
    /\ Move(t, "unlock", "idle")
    /\ flock' = IF flock = t THEN Home[t] ELSE flock
    /\ gate' = [gate EXCEPT ![Home[t]] = Nobody]
    /\ Forget({t})
    /\ UNCHANGED <<platform, file, counts>>

Step(t) ==
    \/ EnterGate(t) \/ Acquire(t) \/ TryAgain(t) \/ PassDeadline(t) \/ LockFails(t)
    \/ Read(t) \/ Write(t) \/ Keep(t) \/ WriteFails(t) \/ Unlock(t) \/ UnlockRaises(t)
    \/ Close(t)

\* A process dies: the OS closes its files, its in-process lock and its calls
\* are gone, and its successor starts with threads that have called nothing.
Crash(p) ==
    /\ crashes < MaxCrashes
    /\ crashes' = crashes + 1
    /\ flock' = IF flock \in ThreadsOf(p) \cup {p} THEN Nobody ELSE flock
    /\ gate' = [gate EXCEPT ![p] = Nobody]
    /\ pc' = [t \in Threads |-> IF t \in ThreadsOf(p) THEN "idle" ELSE pc[t]]
    /\ Forget(ThreadsOf(p))
    /\ UNCHANGED <<platform, file, calls>>

\* Nobody has a call left to make.
Rest ==
    /\ \A t \in Threads : pc[t] = "idle" /\ calls[t] = MaxCalls
    /\ UNCHANGED vars

Next ==
    \/ \E t \in Threads : Step(t) \/ \E o \in Ops : Call(t, o)
    \/ \E p \in Processes : Crash(p)
    \/ Rest

Spec == Init /\ [][Next]_vars

\* A thread that can move does; who gets a free lock is anybody's choice.
FairSpec == Spec /\ \A t \in Threads : WF_vars(Step(t))

-----------------------------------------------------------------------------
(* Properties *)

\* A lock names a thread or nobody, or the process an unlock left it to, whatever
\* raises or dies (the finally branch of _registry_lock).
TypeOK ==
    /\ platform \in Platforms
    /\ file \in Contents
    /\ flock \in Threads \cup Processes \cup {Nobody}
    /\ gate \in [Processes -> Threads \cup {Nobody}]
    /\ pc \in [Threads -> Places]
    /\ op \in [Threads -> Ops \cup {NoOp}]
    /\ found \in [Threads -> Contents]
    /\ outcome \in [Threads -> {"none", "ok", "raised"}]
    /\ tries \in [Threads -> 0 .. MaxTries]
    /\ calls \in [Threads -> 0 .. MaxCalls]
    /\ crashes \in 0 .. MaxCrashes

InSection(t) == pc[t] \in {"read", "write"}

\* Two calls are never between lock and unlock at once, whatever their
\* processes, although the finally branch unlocks after failed acquisitions too
\* and an unlock may fail (_registry_lock).
MutualExclusion ==
    \A t, u \in Threads : InSection(t) /\ InSection(u) => t = u

Waits(t) ==
    \/ pc[t] = "gate" /\ gate[Home[t]] # Nobody
    \/ pc[t] = "lock" /\ flock # Nobody /\ platform = "posix"

\* The OS lock was left to a process that is still alive.
Leaked == flock \in Processes

\* As long as calls are under way one of them waits for nobody: threads that
\* wait for their process's lock and processes that wait for the OS lock never
\* wait in a circle, and what they wait for is never the lock of a call that
\* raised, returned or died, unless an unlock that raised left it to a process
\* (the two locks of _registry_lock and its finally).
SomeCallMoves ==
    (\E t \in Threads : pc[t] # "idle") /\ ~Leaked
        => \E t \in Threads : pc[t] # "idle" /\ ~Waits(t)

\* How far a call has come.
Progress(t) ==
    CASE pc[t] = "gate" -> 1 [] pc[t] = "lock" -> 2 [] pc[t] = "read" -> 3
      [] pc[t] = "write" -> 4 [] pc[t] = "unlock" -> 5 [] pc[t] = "close" -> 6
      [] OTHER -> 7

\* No call goes back: whatever is refused, fails or raises, a step takes its
\* call further or uses up one of its attempts, of which it has MaxTries.  Its
\* steps are therefore bounded, and with SomeCallMoves all calls come to an end.
CallsAdvance ==
    [][\A t \in Threads : pc[t] # "idle" =>
          \/ Progress(t)' > Progress(t)
          \/ /\ pc'[t] = pc[t]
             /\ tries'[t] = tries[t] \/ tries'[t] \in tries[t] + 1 .. MaxTries]_vars

Stage(t) ==
    CASE pc[t] = "idle" -> "idle"
      [] outcome[t] = "ok" -> "applied"
      [] outcome[t] = "raised" -> "raised"
      [] OTHER -> "asked"

Calls == INSTANCE AtomicCalls WITH
            Blind <- "read" \in Faults,
            stage <- [t \in Threads |-> Stage(t)]

\* Every registry call takes effect once, on the file as it is at that instant,
\* or has none and raises: no row another process wrote is lost (the docstring
\* of open_threads.py, "safe under concurrent access from multiple processes").
ImplementsAtomicCalls == Calls!Spec

\* Every call returns, raising or not, unless the lock stays for ever with a
\* process whose unlock raised: waiters never wait on each other, a lock is never
\* left behind by a call whose section raised or a process that died, and Windows
\* stops polling.
EveryCallReturns ==
    \/ <>[]Leaked
    \/ \A t \in Threads : pc[t] # "idle" ~> pc[t] = "idle"
=============================================================================
