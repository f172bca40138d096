# Verification of diploid-mesh

diploid-mesh makes a diploid-agent a peer of a mesh: it receives signed
envelopes over HTTP, wakes the agent for them, and gives the agent tools to
send its own. This directory holds TLA+ models of its state-changing parts, the
TLC runs that check them and TLAPS proofs of what matters most.

## The system

One *seat* is one agent with its harness process (diploid-agent), the ingress
that lives in it, one MCP server process per chat, and a *vault* directory
(`~/.mesh`). Seats talk over HTTP. Paths below are relative to
`src/diploid_mesh/`.

| component | state | operations | talks to |
|---|---|---|---|
| lease registry, `open_threads.py` | rows of `open-threads.json` in the vault (who opened a thread to whom, until when) | `inbound_gate`, `claim_outbound`, `release_pair`; `live_pair` and `summary` read | called from the pool threads and the event loop of the harness and from every MCP server |
| registry lock, `open_threads.py` 69-111 | a lock file and an in-process lock | acquire, release; a deadline on Windows | under every registry operation |
| ingress, `ingress.py` | none of its own | `handle`, one coroutine per POST | verification in the thread pool, wake queue and DSN record of the runtime, close |
| verification, gate, close, `core.py` 221-340 | replay window (memory), closed anchors (vault) | `verify_request`, `commit_terminator` | lease registry, vault |
| send, `core.py` 342-453 | none of its own | `send` | lease registry, delivery client, vault |
| send tracker, `mcp.py` 27-211 | `_count`, `_turn_start` | `allowed` | asks the harness for its turn |
| chat state file, `plugin.py`, `mcp.py` | `chat_mesh_state.json` and the plugin's copy | `on_waking`, `after_turn`, `_record_outbound`, `_infer_thread` | plugin (harness) and tracker (MCP server) share the file and no lock |
| session tokens of a reply, `mcp.py` 268-325, 490-545 | none of its own; reads the state file and the closes | `_infer_thread`, the defaults of `mesh_send` | tracker, send |
| chat routing, `core.py` 145-192 | none | `resolve_chat_id` | ingress |
| vault synchronisation, `core.py` 469-695 | identities in the vault | `register_local`, `publish`, `join_mesh`, `sync_to_vault` | peer registry |
| rendering: prompt blocks, MCP surface, Telegram notices, warnings | none | read only | |

What is hard about it:

- *Concurrency.* POSTs are verified in a thread pool, finished on the event
  loop; sends run in other processes; all of them change the registry. The
  chat's state file has two writers without a lock, and so have the identities
  of the vault.
- *Time.* Leases expire by the wall clock, which is sampled before the lock is
  waited for.
- *Failure between steps.* An envelope is marked as seen before it is handed
  on, a lease is minted before its message is delivered, a close is written
  after; every one of these can be the last thing that happens.
- *Retries.* A sender that hears nothing sends the envelope again, and another
  POST is running with it already; or the receiver has closed the thread, and
  the sender does not know.
- *Guesses.* The server infers the session and the ref of a reply from the last
  message the chat remembers, which may be older than the thread.

What makes each part correct:

- registry: one claimant per agent and one thread per pair at any instant;
  refreshing only extends; a seat changes hands only by being free;
- ingress and send: a mark stands for a message that was handed on or will be;
  a close stands for a message that was handed on; who gives up leaves nothing
  behind and takes nothing of others; every POST is answered;
- registry lock: a call happens at one instant on the file as it then is, or
  raises and has changed nothing; no call waits for ever;
- tracker: a hard limit per turn, no block a turn did not earn;
- chat state: no thread forgotten, no thread answered to the wrong peer;
- conversations: an answer comes to the chat its message named, and two seats
  agree about the threads that are closed;
- vault: the registry never takes away what the vault knows.

## The modules

    OpenThreads            the lease registry
      LeaseRefinement      ... implements LeaseBoard, the board of seats
        OpenThreadsProofs
      MeshSeat             the seat: POSTs and sends over the registry
        MeshSeatProofs
    RegistryLock           the lock under the registry,
                           implements AtomicCalls
      RegistryLockProofs
      LockedRegistry       the registry's operations under it, step by step,
                           implement OpenThreads
        LockedRegistryProofs
    SendTracker            the send budget of a turn
      SendTrackerProofs
    ChatState              the state file of a chat and its two writers
      ChatStateProofs
    Conversation           the chats of two seats or more: routing, tokens, closes
      ConversationProofs
    VaultSync              the identities of a vault and the peer registry
      VaultSyncProofs
    MC*                    instances for TLC

The layers build on each other. RegistryLock shows that a locked section takes
effect at one instant, for any operation; LockedRegistry puts the registry's own
operations and the clock into it and shows that they then do what OpenThreads
says, which has a locked section as one step. MeshSeat contains OpenThreads.
Conversation composes whole seats. Of a handler that MeshSeat takes apart it
keeps the steps that another seat can notice (the checks, the mark, the wake,
the close) and leaves out its leases; a write of the state file that ChatState
takes apart is one step there. That last layer is taken for granted, not shown.

### OpenThreads

`entries` is the list of rows; `thread_id` is the number at which a row was
appended, so that list order is the order of ids. An operation is two steps:
`Begin` samples the clock (line 225 or 291), and the locked section decides and
writes. Between them the worker waits for the lock, and time may pass: `MaxWait`
says how long (0: not at all). The locked section is one step, for the lock
excludes everyone else and the file is replaced by a rename. `inbound_gate` and
`claim_outbound` decide in the same words, so `Merge`, `Refuse` and `Mint` stand
for both; `Exempt` is the gate's answer to notices and terminators, which a send
never claims for. `MintBlind` is what happens when `_read_entries` fails and
answers `[]`: `pair` and `busy` are empty, and the file is overwritten.
`Abandon` is a lock or a write that raises, or a process that dies.
`ReleasePair` reads no clock and is one step; of a file that cannot be read it
removes nothing and returns as it always does (`ReleaseBlind`). Expired rows
stay in the file, as they do in the code. The lease minutes are chosen at every
mint, because the environment is read at every mint, and 0 is among them. One
tick of the clock is one minute of a lease. The clock does not run backwards;
the code would be exposed to that as well.

### LeaseBoard and LeaseRefinement

The abstract promise: each agent has a seat; it is claimed when free, and
falls free (by release or expiry, several at once). The refinement mapping
takes the opener of the live row whose peer is the agent as the holder.
`ImplementsBoard` says that no step of the registry hands a seat from one agent
directly to another, and that none is claimed while held.

### MeshSeat

Extends OpenThreads with its `vars` as they are. A handler is one POST, a
sender one call of `send`; `task[w]` is the worker's place and its locals. The
registry part of a step is a registry action, conjoined; `ImplementsRegistry`
checks that nothing else is ever done to it, restarts included.

| action | code |
|---|---|
| `Receive`, `Verdict` | `verify_request` to the address check, and the returns of `handle` for it |
| `CheckAnchor` | the THREAD_CLOSED check; samples the gate's clock |
| `Gate`, `GateExempt` | `inbound_gate` and what comes of it |
| `MarkSeen` | `replay.add` and the return to the loop |
| `RecordDsn` | the DSN branch of `handle` |
| `EnqueueWake`, `EnqueueFails`, `ReleaseMinted`, `DiscardMark` | the wake, and the give-up when it fails |
| `RecordClose`, `FreePair` | `commit_terminator`; the same two steps at the end of `send` |
| `Send`, `Claim`, `Delivered`, `WireFails`, `GiveUp` | `send` |
| `Restart`, `SenderDies`, `Evict` | the harness restarts with all its children; an MCP server dies; the replay window forgets |

Each of the three releases (`ReleaseMinted`, `FreePair`, `GiveUp`) succeeds,
raises, or reads no file: then `release_pair` finds no rows, logs a warning and
returns, and the caller goes on as if the lease was gone. A send whose give-up
ended like that is answered as any send that failed; the model calls its answer
"failed-unread", so that the properties can tell the two apart. A seat that
joined the mesh has its own url and key in its vault, so `Me` may be among
`Peers`, and a seat may write to itself.

Pool steps interleave freely. What `handle` does after its await runs on the one
event loop without another await, except for a DSN: a handler in that part
excludes the others' loop parts (`LoopFree`), but not the pool's threads or the
senders, so the steps within it (release, discard, close) are still steps of
their own. `handed` counts how often an envelope left this code: to the wake
queue, to the DSN record, to its peer. A delivery that ends in an error may have
been handed on all the same: its answer was lost. `from` in the POST body is
taken to be the sender of the envelope.

### RegistryLock and AtomicCalls

`_registry_lock` with the read and the write inside it. A call opens the lock
file anew (`Call`), takes the in-process lock (`EnterGate`), then the OS lock
(`Acquire`), reads, writes, and goes through the finally branch (`Unlock`,
`Close`). Because every call has a file of its own, the OS lock belongs to the
call and not to its process, also in the eyes of flock; that is why threads of
one process exclude each other twice and processes once. On POSIX a call waits
in `Acquire`; on Windows it polls (`TryAgain`), and when the deadline is over,
which is `MaxTries` attempts, it raises (`PassDeadline`). The finally branch
unlocks even if the lock was never granted. It does not take the lock away from
another call: on either platform an unlock through a file that does not hold the
lock does nothing or fails. An unlock that fails on Windows is swallowed, and
closing the file drops the lock. On POSIX it raises, and the close after it is
skipped (`UnlockRaises`, the fault "leak"): the call ends with the exception,
whatever its section did, and the lock stays with the process until that dies
(`flock` then names the process), while everyone else waits. MeshSeat does not
take that fault up. `Write` is the rename of the temporary file over what was
read and changed; `Keep` is a call that leaves the rows as they were, a refusal
or a release that found none. What a call does to the rows is a constant,
`Update`: the module is about any operation. `Unread` says what a file that
cannot be read is taken for.

AtomicCalls is the promise: a call is asked, takes effect once on the file as it
is at that instant or raises, and returns; a call whose unlock raises may have
done both. `Blind` says that it may find `Unread` of the file instead, as
`_read_entries` answers `[]` when reading fails.

### LockedRegistry

Extends RegistryLock and fixes what that module leaves open. The file holds the
rows and, as a ghost, the number of rows ever appended (the code draws a uuid).
An operation is a call of `inbound_gate` or `claim_outbound` (`Asks`), with the
time it sampled and the `MESH_LEASE_MINUTES` it runs under, or of `release_pair`
(`Drops`); `Decided` and `Dropped` say what it leaves of the rows it read, and
`LockedAssumption` that `Update` is exactly that. `Stamped` makes a call sample
the clock when it starts, before the lock file is opened; `Tick` lets time pass
at any step of any call, as far as `MaxWait` allows.

`ImplementsOpenThreads` maps the call of a worker that has sampled its time and
whose section has not ended to the waiting call of OpenThreads. A call that dies
or raises is its `Abandon`; a write is its `Merge`, `Mint`, `ReleasePair` or, if
nothing is to be written, its `Refuse` or `Exempt`. A file that cannot be read
is taken for one without rows (`Unread`, which keeps the ghost): a claim then
is `MintBlind`, and a release writes nothing. `MaxMinted` bounds the rows as it
does there.

### SendTracker

`allowed` first asks the harness (`Ask`) and then counts (`Allow`, `Block`,
`AllowUncounted`); the turn may end and another begin in between. Turns are
numbered and stand for their `start_time`. The MCP server answers one request at
a time. A call belongs to the turn that ran when it asked. `disturbed` is a
history variable: the turns in which the harness did not answer or the server
restarted. `reply=end` is not in the model, because `allowed` does not look at
it.

### ChatState

Reading the file, truncating it and filling it are steps of their own, because
`write_text` truncates first. Two writers that overlap may leave a text that
does not parse; it reads as `{}`. A message is its number, and of what is stored
about it the model keeps its peer and whether it ended the thread. `overlapped`
is a history variable: whether a turn has ended while a `mesh_send` of it was
still in the server (it was cancelled or ran out of time). `_infer_thread`
yields no ref for a message without session tokens; whether it has them is a
choice. The ingress records the close of a terminator after it has enqueued the
wake, which may be popped first: `closing` is the closes to come, and
`CommitTerminator` records one, unless the harness dies before it does.

### Conversation

Messages are numbered as they are composed, and a record keeps what was sent:
the two tokens, the ref, which of them the agent passed itself. `answers`,
`unsettled` and `door` in it are history: the message the server took the thread
from, whether that thread was a terminator whose close this seat had
outstanding, and the chat at which the sender means to be answered.

| definition | code |
|---|---|
| `ResolveChatId`, `Unmapped`, `MappedChat` | `resolve_chat_id`: single, per_sender, session; a known sender has a chat `mesh:<sender>` unless the fallback is a Telegram chat |
| `NameOf`, `Last`, `InferRef`, `InferThread` | `_infer_thread`: reply, continuation, first message |
| `Send` | the defaults of `mesh_send`; explicit arguments win |
| `Delivered`, `Refused`, `Retry`, `GiveUp` | what `send` and `_record_outbound` do with an answer; the retries are those of the delivery client |
| `Arrive` | the replay window and the anchors, and their answers |
| `RefuseLate` | the anchor of a thread that was closed after the replay window was asked |
| `MarkSeen` | `replay.add` |
| `Enqueue` | the wake; the answer, for all but a terminator |
| `EnqueueFails` | the wake raises: the mark is taken back and 500 answered |
| `CommitTerminator`, `CommitFails` | the close after the wake, before the answer |
| `Wake`, `AfterTurn` | `on_waking`, `after_turn` |
| `Restart` | the harness dies with its servers; files and vault stay |

A POST is in `net`, then `verifying` (not marked), `marked` (no wake yet), and a
terminator in `handling` (no close yet); others run, and a seat dies, in every
one of these places. Three more history variables say what became of
terminators: `unclosed`, the receiver could not record the close; `dropped`, a
marked POST of it never enqueued its wake; `doubted`, the sender was told
"duplicate" and took that for delivered.

`door` is defined only where the tokens can say what the sender means: an
unnamed chat that passes no from_session gives its receiver nothing to answer
to, and its answers land in the fallback.

A `World` is a configuration with the faults it is exposed to. The chat map is
what the seat was started with. Leases are left out here, for a busy peer
refuses a message as if it was never sent; they are MeshSeat's.

### VaultSync

Each MCP server is a process of its own on the vault. `register_local` saves,
reads again and saves with the markers (`Save`, `Reread`, `Mark`), then
publishes; `sync_to_vault` lists the peers once (`List`) and then takes them one
by one, looking whether there is a file, reading it and writing it back merged
(`Look`, `Create`, `Load`, `Merge`), each a step between which the other process
may do all of that too. `Publish` may fail quietly; `PublishRaises` is a client
that raises, which ends a join without its synchronisation. `PeerFails` is the
except branch, `RecordFails` the record whose except branch raises. `News` is
another agent that publishes.

An identity is reduced to what the merge tells apart: the key, the discovery
fields as one value, the platform tag, the markers. Reading or writing one file
is atomic, and `vault.save` drops the markers; both belong to mesh_core, which
is not in this repository. The url, role and description that a tool may be
given are not told apart from those derived.

## The runs

Each finishes within three minutes on two cores. Unless said otherwise deadlock
is checked: in the registry some worker can always begin or the clock move; a
seat whose workers are done stutters (`Quiet`), and so do the lock and the vault
when nobody has a call left. In LockedCalls and LockedRows an unlock may raise,
after which the others wait until a process dies, so the check is off there;
`SomeCallMoves` is its part that remains. The tracker, the chat and the
conversation have bounded numbers of turns and messages and simply stop there,
so their configurations turn the check off.

| run | bounds | shows |
|---|---|---|
| RegistryPrompt | 3 agents, 4 requests, 2 workers, leases of 0 and 2, time to 3, 3 rows, no waiting | `OneClaimPerPeer`, `ImplementsBoard` |
| RegistrySlowLock | the same, leases of 1 and 2, waits of 1, unreadable files | `OnlyLateRefreshBreaks`, `RefreshOnlyExtends`, `SilenceFreesSeat` |
| RegistryStaleClaim | the same without read faults | violates `OneClaimPerPeer` |
| SeatTalk | 2 POSTs of a contested conversation with terminator and reply to a closed thread, 1 send, to a peer or to the seat itself; wakes and deliveries fail; fair handlers | `SeenIsHanded`, `AcceptedEndIsClosed`, `NoLeakedLease`, `OnlySelfIsBusy`, `AcceptedStaysSeen`, `GiveUpSparesOthers`, `PostsAnswered` |
| SeatFaults | 2 POSTs of 7 kinds, 1 send of 3; every fault, one restart | `CloseFollowsMessage`, `UnhandedIsReported`, `LeakIsReported`, `ImplementsRegistry`, `WorkersAdvance` |
| SeatDuplicate | the smallest instance it needs | violates `DuplicateMeansHanded`, a statement of a docstring |
| TrackerBudget | 3 turns, 4 calls, cap 2, suggestion 1; the harness may not answer, the server may restart | `HardLimit`, `BlockIsEarned`, `LastMeansLast` |
| ChatRaces | 2 peers, 4 messages, 3 turns, one crash | `ThreadsKept`, `MeshIsOfTheTurn`, `RefIsOfRecipient` |
| LockedCalls | 3 threads of 2 processes, POSIX and Windows, a deadline of 1 attempt, 1 call each that adds or removes a row, 1 crash; acquiring, unlocking, reading and writing fail, and unlocks raise | `MutualExclusion`, `SomeCallMoves`, `CallsAdvance`, `ImplementsAtomicCalls`, `EveryCallReturns` |
| LockedRows | 2 processes, 2 calls each that claim a seat for either of two openers, end or release, POSIX, 1 crash, reads fail and unlocks raise, waits of 1, time to 1, 2 rows | `ImplementsOpenThreads` |
| VaultJoins | 2 processes with different keys, 1 other agent, 1 tool call each of 5 kinds, 1 publication from elsewhere, 3 vaults; everything fails | `JoinMeetsAll`, `OnlyCrossingTakes` |
| Conversation | two seats of two chats; `Routes`: 4 configurations, one message at a time, every argument, 3 messages where both seats map sessions, else 2; `Troubles`: 2 chats, 2 messages, 2 tries, lost answers and failing closes in three worlds: both chats send at once and wakes fail; one sends and a seat restarts; both send in turn, pass refs, and a seat restarts | `DoorKept`, `RefusedIsUnsettled`, `ClosesAgree` |

Some properties except a case, and the exception is how far the code goes.
`HardLimit` and `LastMeansLast` except the turns in `disturbed`. `ThreadsKept`
and `MeshIsOfTheTurn` hold until a turn ends under a send or the harness
crashes. `GiveUpSparesOthers` holds while the lease that is given up is live.
`AcceptedStaysSeen` excepts an envelope of which two POSTs were verified at once
and one could not enqueue its wake. `OnlyCrossingTakes` speaks of the steps
whose file nobody wrote since the process looked at it. `DoorKept` speaks of a
message only if its sender could say where it wants its answer.
`RefusedIsUnsettled` leaves to the agent the refs that it passes itself.
`LeakIsReported` excepts the give-up of a send that could not read the registry:
its lease stays, the sender hears of its delivery only, and nobody of the lease.
`ClosesAgree` excepts two receivers: one whose close failed, which disagrees
knowingly, for it has answered with an error; and one that marked a terminator
and then could not enqueue its wake, or died before, while a retry was answered
"duplicate" from the mark. The sender then closes a thread whose last message
nobody was woken for. The exception covers that one way only: a sender that was
told "accepted" is agreed with. `SomeCallMoves` excepts the time in which a
living process is left with the lock of an unlock that raised, and
`EveryCallReturns` a behaviour in which that time never ends. `BlockIsEarned`,
`RefIsOfRecipient` and `CloseFollowsMessage` hold without exception.

Why the bounds are enough: a claim can be contested by two workers for the seat
of a third agent, who may also write to one of them first; a third row suffices
for a mint after an expiry beside an old one, and three ticks for a lease to run
out, be taken over, and the new one to expire too. In the seat two POSTs are a
message and its retry, or two peers that contest, and the send contests with
both; every safety property of the seat is also proved, for any number of POSTs
and sends. Three turns contain one that begins after a turn whose count was used
up, and the turn after that. Three threads of two processes contain two that
meet at the in-process lock and one that meets them at the lock file. Two
processes of one vault can cross at every file, and the second key is what a
process that was not restarted still has. Three messages are a first one, its
reply and a continuation or a reply to that, which is where a token that was
swapped once too often shows; two messages with two tries are a terminator, its
retry, and a message that meets it on its way. What the bounds leave open in
these modules the proofs do not: see below. Symmetry is used among workers,
handlers or peers in runs of safety properties only, never in the run of a
liveness property.

`NoLeakedLease` and `SeenIsHanded` are checked without deaths, failing locks and
unreadable files. A process that dies between its claim and its message leaves
the lease to its expiry, which is the recovery the code has for it; and a
`release_pair` that raises in the give-up of a POST skips the discard of the
mark. `UnhandedIsReported` and `LeakIsReported` are what remains true then:
somebody heard of it, but for the give-up that read no file.

Fairness. `FairSeat` asks weak fairness of the steps of every handler: the pool
has threads for waiting POSTs, flock wakes its waiters, and the event loop runs
every ready coroutine. A section on the loop always ends, so weak fairness is
enough for the handlers that wait for it. `FairSpec` of RegistryLock asks weak
fairness of every thread's steps: a thread that can move does, and who gets a
free lock is anybody's choice. That every call returns then rests on the calls
being finitely many; a thread that others overtake for ever is not excluded,
neither by flock nor by the model. Nothing is asked of the arrival of POSTs, of
senders, of the clock, or of faults.

## Where the code and its words disagree

Each of these is a run that TLC finds violated; PROJECT.json quotes the lines.

1. *The gate's clock* (RegistryStaleClaim). The time is sampled before the
   lock. A caller that waits past an expiry refreshes a row that has run out;
   meanwhile another agent minted one. Both are live.
2. *"Already seen" is no proof of acceptance* (SeatDuplicate). The mark is set
   before the wake is enqueued; a retry in between hears "duplicate", and then
   the enqueue fails.

Met while modelling, without a run of their own; the properties above name them
as their exceptions where they bear on one:

- giving up with an unreadable registry: `release_pair` reads no rows, removes
  none and returns normally (`open_threads.py:119`, `open_threads.py:322`), so
  that the comment at `ingress.py:119` (the slot is not leaked) does not hold
  then, and a send that gives up keeps its claim (`core.py:431`) until it expires;
- a terminator whose wake could not be enqueued can be closed at its sender and
  open at its receiver, when its retry was answered "duplicate" in between
  (`core.py:307`, `ingress.py:118`); this is what the second run above does to
  two seats;
- a seat that joined the mesh is in its own vault, and a question to itself is
  refused as busy while a peer holds its seat, in spite of the docstring of
  `claim_outbound` (`open_threads.py:287`);
- a publication that raises ends `join_mesh` without the synchronisation it
  promises (`core.py:595`);
- an unlock that raises on POSIX skips `os.close` (`open_threads.py:104`), and
  the lock stays taken while the process lives;
- two copies of an envelope in the pool at once are both accepted, for `has` and
  `add` are apart (`core.py:255`, `core.py:307`; the test at
  `tests/test_verify_request.py:99` tries them one after the other);
- giving up releases by the pair: if the own lease has run out and the other
  side has opened a newer one, that one goes (`core.py:432`,
  `open_threads.py:285`);
- a send that finishes while its turn is being ended loses its record, or brings
  back what was cleared (`plugin.py:324`);
- a crash between truncating and writing the state file forgets every thread of
  the chat (`plugin.py:71`);
- `path.exists()` and the save after it are two steps, so that a synchronisation
  can replace a key that was registered in between (`core.py:643`), which the
  docstring of `sync_to_vault` rules out (`core.py:610`);
- `mesh_register` with the name of a peer writes this agent's own key there;
- a publication that failed leaves an old url in the registry, and the next
  synchronisation writes it back over the own identity;
- if the receiver's close fails and the retry is then answered "duplicate", the
  sender has closed the thread and the receiver has not (`ingress.py:140`);
- a chat without a name that passes a from_session makes the receiver guess, and
  an answer to a chat without a name lands in the fallback;
- a DSN that could not be recorded keeps its replay mark, so its retry hears
  "duplicate" (`ingress.py:85`); a DSN by body without the header goes through
  the gate and takes a lease (`ingress.py:61`, `core.py:267`);
- a harness that does not answer clears the count in the middle of a turn
  (`mcp.py:190`); README.md:70 and the docstring at `mcp.py:30` say that
  reply=end blocks every send, the comment at `mcp.py:185` that it deliberately
  does not.

## What is proved

Constants are arbitrary except for the named assumptions of the modules and
those stated in the theorem.

*OpenThreadsProofs.* For any wait for the lock `TypeCorrect`,
`LateRefreshIsTheOnlyHole`, `RefreshExtends` (a refresh takes at most the wait
off a lease) and `SeatsComeFree` (however often it was refreshed, a lease ends
within its own length from now). If the clock does not pass between sampling and
locking (`MaxWait = 0`), `OneClaimant`, and with a readable file
`RegistryImplementsBoard`. The invariant they rest on is `IInv`: besides the
types, every sampled time is at most `MaxWait` behind the clock and never ahead
of it (`Timely`), and ids are unique and below the counter (`UniqueIds`).
`Timely` is what makes "live at the sampled time" imply "live now" when
`MaxWait` is 0, and without `UniqueIds` a refresh could not be told from another
row. The argument: a mint happens when no row is live at the sampled time for
that pair or that peer from another opener; a row that is live now was live at
the sampled time, which is not later; so a mint never adds a second claimant. A
merge keeps peer and parties of its row, and unless the row had expired (a late
refresh) the live rows afterwards are the same threads as before. A release and
a tick only take live rows away.

For the board: every step of the registry is `Claim`, `Vacate` or a stutter
under the mapping. `OneClaimPerPeer` makes `Opener` well defined: the row that
`CHOOSE` picks is the only one.

*MeshSeatProofs.* `SeatImplementsRegistry`: every step of a seat is a step of
the registry or leaves it alone (`RegistryStep`), so that everything above holds
in a seat; `SeatImplementsBoard` draws that conclusion for the board. On it rest
`GiveUpIsLocal` (through `OneClaimant`, hence `MaxWait = 0`) and
`LeaksAreReported`, whose invariant says for each worker that has minted where
its row is and that ids are not used twice (`Own`); a release that read no file
leaves its caller with a lease and one of the answers the property names.
`ClosesFollow` needs to know that whoever is about to close has handed its
message on (`ClosersHandedOn`), which is true at the enqueue and stays true
because `handed` only grows; `EndsAreClosed` that a terminator passes through
its close on every way to a good answer (`EndOf`). `UnhandedAreReported` is
inductive as it stands. `AcceptedStaySeen` assumes that the window forgets
nothing and the harness does not restart; its invariant relates an accepted POST
to every other of its envelope, of which one that takes the mark back ends in an
error. `LeasesDoNotLeak` adds to `Own` that a request that minted and failed has
no row left (`Spent`), which holds as long as the registry can be read,
releases, records and closes succeed and nobody dies; wakes and deliveries may
fail at will. `SeenAreHanded` needs the registry and the DSN record to answer,
and allows everything else. `OnlySelfIsRefused` holds with every fault and
whoever the peers are, the seat itself included: every row and every call
involve this seat (`RowsOfMe`, `CallsOfMe`), so the row that would make another
agent busy was opened by the caller, and only a send to the seat itself can be
refused. The others hold with every fault and any number of restarts.
`WorkersGoForward`: each step of a POST or a send takes it to a later station
with the message it came with, and a done one stays as it is.

*RegistryLockProofs.* `LockExcludes` and `LockImplementsAtomicCalls`, on both
platforms, for any threads, processes and operations. Who is past the in-process
lock holds it, who is in the section holds the OS lock (`FlockHeld`), and
therefore what it has read is still what the file holds (`FoundIsCurrent`): a
write applies its operation to the current file. A section that raises has not
written. The finally branch gives up only what is its own. `CallsNeverDeadlock`:
a lock that is taken is held by a call on its way, and the holder of the OS lock
waits for nothing (`LocksOwned`), so among the calls under way one waits for
nobody; no fairness is needed for that, and a crash of any process keeps it. The
exception is a lock that an unlock left to a living process (`Leaked`).
`CallsGoForward`: a step takes its call to a later place or uses up one of its
attempts. Together they are the safety half of `EveryCallReturns`: as long as a
call is under way some call can take a step, and there are only boundedly many
to take.

*LockedRegistryProofs.* `LockedCallsImplementRegistry`, for any threads,
processes and platforms and with every fault, an unreadable file included. It
rests on the invariant of RegistryLock: what was read is what the file holds
when it is written, or `Unread` of that. The row that a refresh chooses is the
one of OpenThreads only if a set of ids has a least one; the proof gets it from
the well-foundedness of the natural numbers, which the library states without an
operator parameter. From the refinement follow `LockedRefreshIsTheOnlyHole` and,
if no time passes while a call waits and the file can be read,
`LockedCallsImplementBoard`: threads that lock, read and write keep the promise
of LeaseBoard.

*SendTrackerProofs.* `TypeCorrect`, `BlocksAreEarned`, `CapIsHard` and
`LastIsLast`, all with every fault. The inductive invariants relate the count to
what the counted turn was granted. `Earned`: at least as many calls were granted
in the turn as are counted for it, up to the cap. `Budgeted`: in a turn that
nothing disturbed at most as many were granted as are counted, and any other
turn that was granted a call is `Over`, so that neither a pending call nor a
later one can be counted against it. That is the argument for starting over
between turns.

*ChatStateProofs.* `RefsAreTheRecipients` with every overlap and crash: whatever
the writers tear or lose, each of their copies holds at the place of a peer a
message exchanged with that peer (`StateInv`), because a write is always of a
whole copy. `ThreadsAreKept` and `MeshIsTheTurns` while sends finish in their
turns: the writers then take turns, and each leaves the other a copy that is up
to date (`TurnInv`).

*ConversationProofs.* `ClosesAreAgreed` and `RefusedAreUnsettled`, for any
number of seats, chats, messages, tries and restarts, with every fault. A
terminator whose wake is enqueued is `Settled`: its receiver has closed it, is
at it, or failed. A chat that was woken by it and a sender that was told
"accepted" have learnt of it through that wake (`Learnt`), so they know settled
ones only. A mark says less: the terminator is settled, or a marked POST of it
has not enqueued its wake yet or never did (`Met`); and so does the answer of a
duplicate, which is made from a mark (`ByMark`). That is `SettledInv`. Hence a
close that the sender recorded on the word "accepted" is agreed with, and one on
the word of a duplicate is excepted exactly where the mark lied. A chat
remembers settled terminators and its own closed ones, so a ref inferred from
one that is not closed here is outstanding here. `DoorsAreKept`: the door a
message names is the chat that the swap of its tokens resolves to (`Meant`), and
a chat remembers of others only what woke it; it needs that the names of a chat
map are distinct, which they are as keys of a dict.

*VaultSyncProofs.* `JoinIsComplete` and `LocalFactsKept`, for any number of
processes and peers. What was listed and is not to come is there or among the
failures (`AllMet`); a file that is there never goes away; and who did not cross
another merges into what it sees.

Only model-checked: the liveness properties `PostsAnswered` and
`EveryCallReturns`, which are beyond the prover (as are fairness and ENABLED).
Of each the part that needs no fairness is proved: `WorkersGoForward`, and
`CallsNeverDeadlock` with `CallsGoForward`.

## Not modelled

- Rendering (prompt blocks, reply rules, tool schemas), JSON-RPC, logging,
  Telegram notices, the start-up warning for LAN peers: they read state or keep
  none.
- `mesh_map_session` and `_ensure_default_session_map` POST to an endpoint of
  the harness whose state is not in this repository, so what two servers of one
  seat do to each other's names is not known here. Conversation takes the chat
  map as fixed.
- Signatures, timestamps and parsing are one outcome ("rejected"), for they
  change nothing. The replay window's ttl and size are a forgetting at any time.
- A wall clock that steps back.
- mesh_core: the delivery client is its retries with one id, the vault files are
  read and written at once.

## Plan

Done: the registry, its abstraction and its lock; the operations under the lock
as an implementation of the registry; the seat; the tracker; the chat state
file; conversations of several seats; the vault; proofs of all of them.

Left, in this order:

1. Two seats with their leases: MeshSeat twice over a wire, with separate and
   with shared vaults; deadlock freedom of two seats that open to each other.
2. The session map of several servers, should its endpoint move into this
   repository.
