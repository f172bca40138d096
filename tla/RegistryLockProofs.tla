------------------------ MODULE RegistryLockProofs ------------------------
(***************************************************************************)
(* Mutual exclusion of the registry lock, that calls under it are atomic,  *)
(* never wait in a circle and only go forward, for every number of         *)
(* threads, processes, attempts and crashes.                               *)
(***************************************************************************)
EXTENDS RegistryLock, TLAPS

\* Who is past the in-process lock holds it.
GateHeld ==
    \A t \in Threads : pc[t] \notin {"idle", "gate"} => gate[Home[t]] = t

\* Who is in the section holds the OS lock.
FlockHeld ==
    \A t \in Threads : InSection(t) => flock = t

\* What a call in the section read is still what the file holds.
FoundIsCurrent ==
    \A t \in Threads :
        pc[t] = "write" =>
            found[t] \in {file} \cup (IF "read" \in Faults THEN {Unread[file]} ELSE {})

\* A call knows its outcome from the end of its section to its return, and what
\* it was asked as long as it lasts.
OutcomeKnown ==
    \A t \in Threads :
        /\ outcome[t] # "none" <=> pc[t] \in {"unlock", "close"}
        /\ op[t] # NoOp <=> pc[t] # "idle"

IInv == TypeOK /\ GateHeld /\ FlockHeld /\ FoundIsCurrent /\ OutcomeKnown

-----------------------------------------------------------------------------
LEMMA TypePreserved ==
    ASSUME IInv, [Next]_vars
    PROVE  TypeOK'
<1> USE LockAssumption DEF TypeOK, Places, vars, held, local, counts
<1> USE DEF IInv
<1>1. ASSUME NEW t \in Threads, NEW o \in Ops, Call(t, o) PROVE TypeOK'
  BY <1>1 DEF Call, Move
<1>2. ASSUME NEW t \in Threads, EnterGate(t) PROVE TypeOK'
  BY <1>2 DEF EnterGate, Move
<1>3. ASSUME NEW t \in Threads, Acquire(t) PROVE TypeOK'
  BY <1>3 DEF Acquire, Move
<1>4. ASSUME NEW t \in Threads, TryAgain(t) PROVE TypeOK'
  BY <1>4 DEF TryAgain, Move
<1>5. ASSUME NEW t \in Threads, PassDeadline(t) PROVE TypeOK'
  BY <1>5 DEF PassDeadline, Move, Ends
<1>6. ASSUME NEW t \in Threads, LockFails(t) PROVE TypeOK'
  BY <1>6 DEF LockFails, Move, Ends
<1>7. ASSUME NEW t \in Threads, Read(t) PROVE TypeOK'
  BY <1>7 DEF Read, Move
<1>8. ASSUME NEW t \in Threads, Write(t) PROVE TypeOK'
  <2>1. op[t] \in Ops
    BY <1>8 DEF Write, Move, OutcomeKnown
  <2>2. Update[op[t]][found[t]] \in Contents
    BY <2>1
  <2> QED
    BY <1>8, <2>2 DEF Write, Move, Ends
<1>9. ASSUME NEW t \in Threads, Keep(t) PROVE TypeOK'
  BY <1>9 DEF Keep, Move, Ends
<1>10. ASSUME NEW t \in Threads, WriteFails(t) PROVE TypeOK'
  BY <1>10 DEF WriteFails, Move, Ends
<1>11. ASSUME NEW t \in Threads, Unlock(t) PROVE TypeOK'
  BY <1>11 DEF Unlock, Move
<1>12. ASSUME NEW t \in Threads, Close(t) PROVE TypeOK'
  BY <1>12 DEF Close, Move, Forget
<1>13. ASSUME NEW t \in Threads, UnlockRaises(t) PROVE TypeOK'
  BY <1>13 DEF UnlockRaises, Move, Forget
<1>14. ASSUME NEW p \in Processes, Crash(p) PROVE TypeOK'
  BY <1>14 DEF Crash, Forget, ThreadsOf
<1>15. CASE Rest
  BY <1>15 DEF Rest
<1>16. CASE UNCHANGED vars
  BY <1>16
<1> QED
  BY <1>1, <1>2, <1>3, <1>4, <1>5, <1>6, <1>7, <1>8, <1>9, <1>10, <1>11, <1>12,
     <1>13, <1>14, <1>15, <1>16 DEF Next, Step

\* The in-process lock and the OS lock protect the section together: the OS
\* lock belongs to the call in it, and nothing but that call gives it up.
LEMMA LocksPreserved ==
    ASSUME IInv, [Next]_vars
    PROVE  GateHeld' /\ FlockHeld'
<1> USE LockAssumption DEF TypeOK, Places, vars, held, local, counts
<1> USE DEF IInv, GateHeld, FlockHeld, InSection
<1>1. ASSUME NEW t \in Threads, NEW o \in Ops, Call(t, o) PROVE GateHeld' /\ FlockHeld'
  BY <1>1 DEF Call, Move
<1>2. ASSUME NEW t \in Threads, EnterGate(t) PROVE GateHeld' /\ FlockHeld'
  BY <1>2 DEF EnterGate, Move
<1>3. ASSUME NEW t \in Threads, Acquire(t) PROVE GateHeld' /\ FlockHeld'
  BY <1>3 DEF Acquire, Move
<1>4. ASSUME NEW t \in Threads, TryAgain(t) PROVE GateHeld' /\ FlockHeld'
  BY <1>4 DEF TryAgain, Move
<1>5. ASSUME NEW t \in Threads, PassDeadline(t) PROVE GateHeld' /\ FlockHeld'
  BY <1>5 DEF PassDeadline, Move, Ends
<1>6. ASSUME NEW t \in Threads, LockFails(t) PROVE GateHeld' /\ FlockHeld'
  BY <1>6 DEF LockFails, Move, Ends
<1>7. ASSUME NEW t \in Threads, Read(t) PROVE GateHeld' /\ FlockHeld'
  BY <1>7 DEF Read, Move
<1>8. ASSUME NEW t \in Threads, Write(t) PROVE GateHeld' /\ FlockHeld'
  BY <1>8 DEF Write, Move, Ends
<1>9. ASSUME NEW t \in Threads, Keep(t) PROVE GateHeld' /\ FlockHeld'
  BY <1>9 DEF Keep, Move, Ends
<1>10. ASSUME NEW t \in Threads, WriteFails(t) PROVE GateHeld' /\ FlockHeld'
  BY <1>10 DEF WriteFails, Move, Ends
<1>11. ASSUME NEW t \in Threads, Unlock(t) PROVE GateHeld' /\ FlockHeld'
  BY <1>11 DEF Unlock, Move
<1>12. ASSUME NEW t \in Threads, Close(t) PROVE GateHeld' /\ FlockHeld'
  BY <1>12 DEF Close, Move, Forget
<1>13. ASSUME NEW t \in Threads, UnlockRaises(t) PROVE GateHeld' /\ FlockHeld'
  BY <1>13 DEF UnlockRaises, Move, Forget
<1>14. ASSUME NEW p \in Processes, Crash(p) PROVE GateHeld' /\ FlockHeld'
  BY <1>14 DEF Crash, Forget, ThreadsOf
<1>15. CASE Rest
  BY <1>15 DEF Rest
<1>16. CASE UNCHANGED vars
  BY <1>16
<1> QED
  BY <1>1, <1>2, <1>3, <1>4, <1>5, <1>6, <1>7, <1>8, <1>9, <1>10, <1>11, <1>12,
     <1>13, <1>14, <1>15, <1>16 DEF Next, Step

\* Only the holder of the OS lock writes the file.
LEMMA FoundPreserved ==
    ASSUME IInv, [Next]_vars
    PROVE  FoundIsCurrent'
<1> USE LockAssumption DEF TypeOK, Places, vars, held, local, counts
<1> USE DEF IInv, FoundIsCurrent, FlockHeld, InSection
<1>1. ASSUME NEW t \in Threads, NEW o \in Ops, Call(t, o) PROVE FoundIsCurrent'
  BY <1>1 DEF Call, Move
<1>2. ASSUME NEW t \in Threads, EnterGate(t) PROVE FoundIsCurrent'
  BY <1>2 DEF EnterGate, Move
<1>3. ASSUME NEW t \in Threads, Acquire(t) PROVE FoundIsCurrent'
  BY <1>3 DEF Acquire, Move
<1>4. ASSUME NEW t \in Threads, TryAgain(t) PROVE FoundIsCurrent'
  BY <1>4 DEF TryAgain, Move
<1>5. ASSUME NEW t \in Threads, PassDeadline(t) PROVE FoundIsCurrent'
  BY <1>5 DEF PassDeadline, Move, Ends
<1>6. ASSUME NEW t \in Threads, LockFails(t) PROVE FoundIsCurrent'
  BY <1>6 DEF LockFails, Move, Ends
<1>7. ASSUME NEW t \in Threads, Read(t) PROVE FoundIsCurrent'
  BY <1>7 DEF Read, Move
<1>8. ASSUME NEW t \in Threads, Write(t) PROVE FoundIsCurrent'
  BY <1>8 DEF Write, Move, Ends
<1>9. ASSUME NEW t \in Threads, Keep(t) PROVE FoundIsCurrent'
  BY <1>9 DEF Keep, Move, Ends
<1>10. ASSUME NEW t \in Threads, WriteFails(t) PROVE FoundIsCurrent'
  BY <1>10 DEF WriteFails, Move, Ends
<1>11. ASSUME NEW t \in Threads, Unlock(t) PROVE FoundIsCurrent'
  BY <1>11 DEF Unlock, Move
<1>12. ASSUME NEW t \in Threads, Close(t) PROVE FoundIsCurrent'
  BY <1>12 DEF Close, Move, Forget
<1>13. ASSUME NEW t \in Threads, UnlockRaises(t) PROVE FoundIsCurrent'
  BY <1>13 DEF UnlockRaises, Move, Forget
<1>14. ASSUME NEW p \in Processes, Crash(p) PROVE FoundIsCurrent'
  BY <1>14 DEF Crash, Forget, ThreadsOf
<1>15. CASE Rest
  BY <1>15 DEF Rest
<1>16. CASE UNCHANGED vars
  BY <1>16
<1> QED
  BY <1>1, <1>2, <1>3, <1>4, <1>5, <1>6, <1>7, <1>8, <1>9, <1>10, <1>11, <1>12,
     <1>13, <1>14, <1>15, <1>16 DEF Next, Step

LEMMA OutcomePreserved ==
    ASSUME IInv, [Next]_vars
    PROVE  OutcomeKnown'
<1> USE LockAssumption DEF TypeOK, Places, vars, held, local, counts
<1> USE DEF IInv, OutcomeKnown
<1>1. ASSUME NEW t \in Threads, NEW o \in Ops, Call(t, o) PROVE OutcomeKnown'
  BY <1>1 DEF Call, Move
<1>2. ASSUME NEW t \in Threads, EnterGate(t) PROVE OutcomeKnown'
  BY <1>2 DEF EnterGate, Move
<1>3. ASSUME NEW t \in Threads, Acquire(t) PROVE OutcomeKnown'
  BY <1>3 DEF Acquire, Move
<1>4. ASSUME NEW t \in Threads, TryAgain(t) PROVE OutcomeKnown'
  BY <1>4 DEF TryAgain, Move
<1>5. ASSUME NEW t \in Threads, PassDeadline(t) PROVE OutcomeKnown'
  BY <1>5 DEF PassDeadline, Move, Ends
<1>6. ASSUME NEW t \in Threads, LockFails(t) PROVE OutcomeKnown'
  BY <1>6 DEF LockFails, Move, Ends
<1>7. ASSUME NEW t \in Threads, Read(t) PROVE OutcomeKnown'
  BY <1>7 DEF Read, Move
<1>8. ASSUME NEW t \in Threads, Write(t) PROVE OutcomeKnown'
  BY <1>8 DEF Write, Move, Ends
<1>9. ASSUME NEW t \in Threads, Keep(t) PROVE OutcomeKnown'
  BY <1>9 DEF Keep, Move, Ends
<1>10. ASSUME NEW t \in Threads, WriteFails(t) PROVE OutcomeKnown'
  BY <1>10 DEF WriteFails, Move, Ends
<1>11. ASSUME NEW t \in Threads, Unlock(t) PROVE OutcomeKnown'
  BY <1>11 DEF Unlock, Move
<1>12. ASSUME NEW t \in Threads, Close(t) PROVE OutcomeKnown'
  BY <1>12 DEF Close, Move, Forget
<1>13. ASSUME NEW t \in Threads, UnlockRaises(t) PROVE OutcomeKnown'
  BY <1>13 DEF UnlockRaises, Move, Forget
<1>14. ASSUME NEW p \in Processes, Crash(p) PROVE OutcomeKnown'
  BY <1>14 DEF Crash, Forget, ThreadsOf
<1>15. CASE Rest
  BY <1>15 DEF Rest
<1>16. CASE UNCHANGED vars
  BY <1>16
<1> QED
  BY <1>1, <1>2, <1>3, <1>4, <1>5, <1>6, <1>7, <1>8, <1>9, <1>10, <1>11, <1>12,
     <1>13, <1>14, <1>15, <1>16 DEF Next, Step

LEMMA Inductive == Spec => []IInv
<1>1. Init => IInv
  BY LockAssumption DEF Init, IInv, TypeOK, Places, GateHeld, FlockHeld, InSection,
     FoundIsCurrent, OutcomeKnown
<1>2. IInv /\ [Next]_vars => IInv'
  BY TypePreserved, LocksPreserved, FoundPreserved, OutcomePreserved DEF IInv
<1> QED
  BY <1>1, <1>2, PTL DEF Spec

-----------------------------------------------------------------------------
\* The registry lock's state is well typed, whatever fails (_registry_lock).
THEOREM TypeCorrect == Spec => []TypeOK
BY Inductive, PTL DEF IInv

\* Two calls are never between lock and unlock at once, for any threads and
\* processes, on POSIX and on Windows, whatever fails (_registry_lock).
THEOREM LockExcludes == Spec => []MutualExclusion
<1>1. IInv => MutualExclusion
  BY DEF IInv, FlockHeld, MutualExclusion
<1> QED
  BY Inductive, <1>1, PTL

-----------------------------------------------------------------------------
(* Calls are atomic *)

\* One thread moves on.
LEMMA OneMoves ==
    ASSUME NEW t \in Threads, NEW s, Stage(t)' = s,
           \A u \in Threads \ {t} : Stage(u)' = Stage(u)
    PROVE  [u \in Threads |-> Stage(u)]' = [[u \in Threads |-> Stage(u)] EXCEPT ![t] = s]
OBVIOUS

\* Steps before the effect and after it are invisible to the caller.
LEMMA Invisible ==
    ASSUME IInv, NEW t \in Threads,
           EnterGate(t) \/ Acquire(t) \/ TryAgain(t) \/ Read(t) \/ Unlock(t)
    PROVE  UNCHANGED Calls!vars
<1> USE DEF IInv, TypeOK, Places, OutcomeKnown, Stage, Move, held, local, counts
<1>1. \A u \in Threads : Stage(u)' = Stage(u)
  BY DEF EnterGate, Acquire, TryAgain, Read, Unlock
<1>2. file' = file /\ op' = op
  BY DEF EnterGate, Acquire, TryAgain, Read, Unlock
<1> QED
  BY <1>1, <1>2 DEF Calls!vars

\* A section that ends well is the call taking effect: what was read before is
\* what the file still holds.
LEMMA Effective ==
    ASSUME IInv, NEW t \in Threads, Write(t) \/ Keep(t)
    PROVE  Calls!Apply(t)
<1> USE DEF IInv, TypeOK, Places, OutcomeKnown, Stage, Move, Ends, held, local, counts
<1>1. Stage(t) = "asked" /\ Stage(t)' = "applied"
  BY DEF Write, Keep
<1>2. \A u \in Threads \ {t} : Stage(u)' = Stage(u)
  BY DEF Write, Keep
<1>3. found[t] = file \/ ("read" \in Faults /\ found[t] = Unread[file])
  BY DEF Write, Keep, FoundIsCurrent
<1>4. Calls!Leaves(t, found[t])
  BY DEF Write, Keep, Calls!Leaves
<1>5. op' = op
  BY DEF Write, Keep
<1> HIDE DEF IInv, TypeOK, Stage
<1> QED
  BY <1>1, <1>2, <1>3, <1>4, <1>5, OneMoves DEF Calls!Apply

LEMMA Raising ==
    ASSUME IInv, NEW t \in Threads, PassDeadline(t) \/ LockFails(t) \/ WriteFails(t)
    PROVE  Calls!Raise(t)
<1> USE DEF IInv, TypeOK, Places, OutcomeKnown, Stage, Move, Ends, held, local, counts
<1>1. Stage(t) = "asked" /\ Stage(t)' = "raised"
  BY DEF PassDeadline, LockFails, WriteFails
<1>2. \A u \in Threads \ {t} : Stage(u)' = Stage(u)
  BY DEF PassDeadline, LockFails, WriteFails
<1>3. file' = file /\ op' = op
  BY DEF PassDeadline, LockFails, WriteFails
<1> HIDE DEF IInv, TypeOK, Stage
<1> QED
  BY <1>1, <1>2, <1>3, OneMoves DEF Calls!Raise

\* Being called, returning and dying are what the caller sees of them.
LEMMA Asking ==
    ASSUME IInv, NEW t \in Threads, NEW o \in Ops, Call(t, o)
    PROVE  Calls!Ask(t, o)
<1> USE DEF IInv, TypeOK, Places, OutcomeKnown, Stage, Move, held, local, counts
<1>1. Stage(t) = "idle" /\ Stage(t)' = "asked"
  BY DEF Call
<1>2. \A u \in Threads \ {t} : Stage(u)' = Stage(u)
  BY DEF Call
<1> QED
  BY <1>1, <1>2, OneMoves DEF Call, Calls!Ask

LEMMA Returning ==
    ASSUME IInv, NEW t \in Threads, Close(t) \/ UnlockRaises(t)
    PROVE  Calls!Return(t)
<1> USE DEF IInv, TypeOK, Places, OutcomeKnown, Stage, Move, held, local, counts
<1>1. Stage(t) \in {"applied", "raised"} /\ Stage(t)' = "idle"
  <2>1. /\ outcome[t] \in {"ok", "raised"} /\ pc[t] \in {"unlock", "close"}
        /\ outcome'[t] = "none" /\ pc'[t] = "idle"
    BY DEF Close, UnlockRaises, Forget
  <2> HIDE DEF IInv, TypeOK, OutcomeKnown, Places
  <2> QED
    BY <2>1
<1>2. \A u \in Threads \ {t} : Stage(u)' = Stage(u)
  BY DEF Close, UnlockRaises, Forget
<1>3. op' = [op EXCEPT ![t] = NoOp] /\ file' = file
  BY DEF Close, UnlockRaises, Forget
<1> HIDE DEF IInv, TypeOK, Stage
<1> QED
  BY <1>1, <1>2, <1>3, OneMoves DEF Calls!Return

LEMMA Dying ==
    ASSUME IInv, NEW p \in Processes, Crash(p)
    PROVE  Calls!Die(ThreadsOf(p)) /\ ThreadsOf(p) \in SUBSET Threads
<1> USE DEF IInv, TypeOK, Places, OutcomeKnown, Stage, Move, held, local, counts
<1>1. \A u \in Threads : Stage(u)' = IF u \in ThreadsOf(p) THEN "idle" ELSE Stage(u)
  BY DEF Crash, Forget
<1>2. file' = file
  BY DEF Crash
<1>3. op' = [u \in Threads |-> IF u \in ThreadsOf(p) THEN NoOp ELSE op[u]]
  BY DEF Crash, Forget
<1> QED
  BY <1>1, <1>2, <1>3 DEF Calls!Die, ThreadsOf

LEMMA StepRefines ==
    ASSUME IInv, [Next]_vars
    PROVE  [Calls!Next]_(Calls!vars)
<1>1. CASE Rest \/ UNCHANGED vars
  BY <1>1 DEF Rest, vars, local, Stage, Calls!vars
<1>2. ASSUME NEW t \in Threads, Step(t) PROVE [Calls!Next]_(Calls!vars)
  <2>1. CASE EnterGate(t) \/ Acquire(t) \/ TryAgain(t) \/ Read(t) \/ Unlock(t)
    BY <2>1, Invisible
  <2>2. CASE Write(t) \/ Keep(t)
    BY <2>2, Effective DEF Calls!Next
  <2>3. CASE PassDeadline(t) \/ LockFails(t) \/ WriteFails(t)
    BY <2>3, Raising DEF Calls!Next
  <2>4. CASE Close(t) \/ UnlockRaises(t)
    BY <2>4, Returning DEF Calls!Next
  <2> QED
    BY <1>2, <2>1, <2>2, <2>3, <2>4 DEF Step
<1>3. ASSUME NEW t \in Threads, NEW o \in Ops, Call(t, o) PROVE Calls!Next
  BY <1>3, Asking DEF Calls!Next
<1>4. ASSUME NEW p \in Processes, Crash(p) PROVE Calls!Next
  BY <1>4, Dying DEF Calls!Next
<1> QED
  BY <1>1, <1>2, <1>3, <1>4 DEF Next

\* Every registry call takes effect once, on the file as it is at that instant,
\* or raises without an effect, for any threads, processes and faults: what
\* OpenThreads assumes of its locked sections (_registry_lock, _write_entries).
THEOREM LockImplementsAtomicCalls == Spec => ImplementsAtomicCalls
<1>1. Init => Calls!Init
  BY DEF Init, Calls!Init, Stage
<1>2. IInv /\ [Next]_vars => [Calls!Next]_(Calls!vars)
  BY StepRefines
<1> QED
  BY Inductive, <1>1, <1>2, PTL DEF Spec, ImplementsAtomicCalls, Calls!Spec

-----------------------------------------------------------------------------
(* Nobody waits for ever *)

\* A lock that is taken is the lock of a call that is past taking it, of the
\* process whose lock it is, or was left to a process.
LocksOwned ==
    /\ \A p \in Processes : gate[p] # Nobody =>
          Home[gate[p]] = p /\ pc[gate[p]] \notin {"idle", "gate"}
    /\ flock \in Threads => pc[flock] \in {"read", "write", "unlock", "close"}

\* A call takes a lock as it goes past it, and gives both up as it returns,
\* raises or dies.
LEMMA OwnedPreserved ==
    ASSUME IInv, LocksOwned, [Next]_vars
    PROVE  LocksOwned'
<1> USE LockAssumption DEF TypeOK, Places, vars, held, local, counts
<1> USE DEF IInv, GateHeld, LocksOwned
<1>1. ASSUME NEW t \in Threads, NEW o \in Ops, Call(t, o) PROVE LocksOwned'
  BY <1>1 DEF Call, Move
<1>2. ASSUME NEW t \in Threads, EnterGate(t) PROVE LocksOwned'
  BY <1>2 DEF EnterGate, Move
<1>3. ASSUME NEW t \in Threads, Acquire(t) PROVE LocksOwned'
  BY <1>3 DEF Acquire, Move
<1>4. ASSUME NEW t \in Threads, TryAgain(t) PROVE LocksOwned'
  BY <1>4 DEF TryAgain, Move
<1>5. ASSUME NEW t \in Threads, PassDeadline(t) PROVE LocksOwned'
  BY <1>5 DEF PassDeadline, Move, Ends
<1>6. ASSUME NEW t \in Threads, LockFails(t) PROVE LocksOwned'
  BY <1>6 DEF LockFails, Move, Ends
<1>7. ASSUME NEW t \in Threads, Read(t) PROVE LocksOwned'
  BY <1>7 DEF Read, Move
<1>8. ASSUME NEW t \in Threads, Write(t) PROVE LocksOwned'
  BY <1>8 DEF Write, Move, Ends
<1>9. ASSUME NEW t \in Threads, Keep(t) PROVE LocksOwned'
  BY <1>9 DEF Keep, Move, Ends
<1>10. ASSUME NEW t \in Threads, WriteFails(t) PROVE LocksOwned'
  BY <1>10 DEF WriteFails, Move, Ends
<1>11. ASSUME NEW t \in Threads, Unlock(t) PROVE LocksOwned'
  BY <1>11 DEF Unlock, Move
<1>12. ASSUME NEW t \in Threads, Close(t) PROVE LocksOwned'
  BY <1>12 DEF Close, Move, Forget
<1>13. ASSUME NEW t \in Threads, UnlockRaises(t) PROVE LocksOwned'
  BY <1>13 DEF UnlockRaises, Move, Forget
<1>14. ASSUME NEW p \in Processes, Crash(p) PROVE LocksOwned'
  BY <1>14 DEF Crash, Forget, ThreadsOf
<1>15. CASE Rest
  BY <1>15 DEF Rest
<1>16. CASE UNCHANGED vars
  BY <1>16
<1> QED
  BY <1>1, <1>2, <1>3, <1>4, <1>5, <1>6, <1>7, <1>8, <1>9, <1>10, <1>11, <1>12,
     <1>13, <1>14, <1>15, <1>16 DEF Next, Step

LEMMA LocksAreOwned == Spec => []LocksOwned
<1>1. Init => LocksOwned
  BY LockAssumption DEF Init, LocksOwned
<1> QED
  BY <1>1, OwnedPreserved, Inductive, PTL DEF Spec

\* Calls that are under way never all wait, for any threads and processes, on
\* both platforms, whatever raises and whoever dies, unless the OS lock was left
\* to a living process by an unlock that raised: who waits at the in-process lock
\* waits for a call at the OS lock or past it, and who waits there waits for a
\* call that waits for nobody.
THEOREM CallsNeverDeadlock == Spec => []SomeCallMoves
<1>1. ASSUME TypeOK, LocksOwned, ~Leaked, NEW t \in Threads, pc[t] # "idle"
      PROVE  \E u \in Threads : pc[u] # "idle" /\ ~Waits(u)
  <2>1. ASSUME NEW u \in Threads, pc[u] = "lock"
        PROVE  \E v \in Threads : pc[v] # "idle" /\ ~Waits(v)
    <3>1. CASE flock = Nobody
      BY <2>1, <3>1 DEF Waits
    <3>2. CASE flock # Nobody
      BY <1>1, <3>2 DEF TypeOK, LocksOwned, Leaked, Waits
    <3> QED
      BY <3>1, <3>2
  <2>2. CASE pc[t] = "gate" /\ gate[Home[t]] # Nobody
    <3>1. /\ gate[Home[t]] \in Threads
          /\ pc[gate[Home[t]]] \notin {"idle", "gate"}
      BY <1>1, <2>2, LockAssumption DEF TypeOK, LocksOwned
    <3> QED
      BY <2>1, <3>1 DEF Waits
  <2>3. CASE pc[t] = "gate" /\ gate[Home[t]] = Nobody
    BY <2>3 DEF Waits
  <2>4. CASE pc[t] \notin {"gate", "lock"}
    BY <1>1, <2>4 DEF Waits
  <2> QED
    BY <2>1, <2>2, <2>3, <2>4
<1>2. TypeOK /\ LocksOwned => SomeCallMoves
  BY <1>1 DEF SomeCallMoves
<1> QED
  BY <1>2, LocksAreOwned, TypeCorrect, PTL

-----------------------------------------------------------------------------
(* No call goes back *)

\* What CallsAdvance says of a step.
Advance(t) ==
    pc[t] # "idle" =>
        \/ Progress(t)' > Progress(t)
        \/ /\ pc'[t] = pc[t]
           /\ tries'[t] = tries[t] \/ tries'[t] \in tries[t] + 1 .. MaxTries

LEMMA StepAdvances ==
    ASSUME TypeOK, [Next]_vars, NEW u \in Threads
    PROVE  Advance(u)
<1> USE LockAssumption DEF TypeOK, Places, vars, held, local, counts, Advance, Progress
<1>1. ASSUME NEW t \in Threads, NEW o \in Ops, Call(t, o) PROVE Advance(u)
  BY <1>1 DEF Call, Move
<1>2. ASSUME NEW t \in Threads, EnterGate(t) PROVE Advance(u)
  BY <1>2 DEF EnterGate, Move
<1>3. ASSUME NEW t \in Threads, Acquire(t) PROVE Advance(u)
  BY <1>3 DEF Acquire, Move
<1>4. ASSUME NEW t \in Threads, TryAgain(t) PROVE Advance(u)
  BY <1>4 DEF TryAgain, Move
<1>5. ASSUME NEW t \in Threads, PassDeadline(t) PROVE Advance(u)
  BY <1>5 DEF PassDeadline, Move, Ends
<1>6. ASSUME NEW t \in Threads, LockFails(t) PROVE Advance(u)
  BY <1>6 DEF LockFails, Move, Ends
<1>7. ASSUME NEW t \in Threads, Read(t) PROVE Advance(u)
  BY <1>7 DEF Read, Move
<1>8. ASSUME NEW t \in Threads, Write(t) \/ Keep(t) \/ WriteFails(t) PROVE Advance(u)
  BY <1>8 DEF Write, Keep, WriteFails, Move, Ends
<1>9. ASSUME NEW t \in Threads, Unlock(t) PROVE Advance(u)
  BY <1>9 DEF Unlock, Move
<1>10. ASSUME NEW t \in Threads, Close(t) PROVE Advance(u)
  BY <1>10 DEF Close, Move, Forget
<1>11. ASSUME NEW t \in Threads, UnlockRaises(t) PROVE Advance(u)
  BY <1>11 DEF UnlockRaises, Move, Forget
<1>12. ASSUME NEW p \in Processes, Crash(p) PROVE Advance(u)
  BY <1>12 DEF Crash, Forget, ThreadsOf
<1>13. CASE Rest \/ UNCHANGED vars
  BY <1>13 DEF Rest
<1> QED
  BY <1>1, <1>2, <1>3, <1>4, <1>5, <1>6, <1>7, <1>8, <1>9, <1>10, <1>11,
     <1>12, <1>13 DEF Next, Step

\* A call only goes forward: every step of it takes it further or uses up an
\* attempt, whatever fails and on both platforms.  A call has so many steps at
\* most as it has places and attempts, and unless the lock is leaked, one of those
\* under way can take its next (CallsNeverDeadlock).
THEOREM CallsGoForward == Spec => CallsAdvance
<1>1. TypeOK /\ [Next]_vars =>
          \A t \in Threads : pc[t] # "idle" =>
              \/ Progress(t)' > Progress(t)
              \/ /\ pc'[t] = pc[t]
                 /\ tries'[t] = tries[t] \/ tries'[t] \in tries[t] + 1 .. MaxTries
  BY StepAdvances DEF Advance
<1> QED
  BY <1>1, TypeCorrect, PTL DEF Spec, CallsAdvance
=============================================================================
