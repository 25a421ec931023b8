# TLA+ verification of the gjc session runtime

gjc is a coding-agent harness. Its `harness` command operates *sessions*: a
long-lived process, the **runtime owner**, runs an agent in a worktree; short
command-line calls talk to the owner over a Unix socket, and work on the session's
files themselves when nobody answers. Inside the agent's process background jobs
send their results into the agent's turns, clients of the SDK provide capabilities
under leases, and a daemon carries commands and messages between sessions and chat
services. All of it is processes, timers and callbacks, some of them dying at the
wrong moment, that share a handful of files and queues. That shared part is what
this project models.

Paths below are relative to `src/packages/coding-agent/src/`; `hcp/` stands for
`harness-control-plane/`.

## Contents

| module | what it models | proofs |
| --- | --- | --- |
| `FileLock` | `config/file-lock.ts`, `config/file-lock-gc.ts` | `FileLockProofs` |
| `RuntimeOwner` | `hcp/session-lease.ts`, `hcp/control-endpoint.ts`, start, heartbeat and stop of `hcp/owner.ts`, `hcp/gc-adapter.ts` | `RuntimeOwnerProofs` |
| `SingleOwner` | what the lease promises: the abstract specification `RuntimeOwner` implements | `RuntimeOwnerProofs` |
| `SessionControl` | the verbs in `commands/harness.ts` and the handlers in `hcp/owner.ts`, `hcp/lifecycle-reconciliation.ts`, `hcp/state-machine.ts` | `SessionControlProofs` |
| `ReceiptSpool` | `hcp/receipt-spool.ts` | `EvidenceProofs` |
| `Recovery` | `hcp/operate.ts`, `hcp/classifier.ts`, `hcp/preserve.ts`, the vanish receipt of `hcp/receipts.ts`, both `recover` paths | `EvidenceProofs` |
| `Finalize` | `hcp/finalize.ts`, `extractReviewVerdict` of `hcp/types.ts` | `EvidenceProofs` |
| `EffectJournal` | `sdk/bus/chat-effect-journal.ts` | `ChatDaemonProofs` |
| `ChatDaemon` | inbound, outbound and recovery paths of `sdk/bus/discord-daemon.ts`, over `EffectJournal` | `ChatDaemonProofs`, `ChatSendProofs` |
| `ReverseLeases` | `sdk/host/reverse-leases.ts` | `SessionHostProofs` |
| `SessionHost` | `sdk/host/host.ts` and `sdk/host/events.ts`, over `ReverseLeases` | `SessionHostProofs` |
| `JobManager` | `async/job-manager.ts`, the job tool `tools/job.ts` | `JobResultsProofs` |
| `JobResults` | `session/yield-queue.ts`, the turns, aborts, handoffs and changes of session of `session/agent-session.ts`, over `JobManager` | `JobResultsProofs` |

`MC<module>` instantiates a module for TLC. `PROJECT.json` lists the runs, the
mutants, the source lines behind every definition, the hazards and the theorems.

    tlc -config FileLock_plain.cfg MCFileLock      # one run
    tlapm FileLockProofs.tla                       # one set of proofs

Right before some definitions stands a variant of them (`RereadByPath` before `Reread`,
`DrainNothing` before `Drain`, `OldestAny` before `Oldest`). These are *mutants*: the
same piece of code with a plausible mistake. No specification uses them; each shows
that one property notices when that mistake is made. `PROJECT.json` pairs them.

## Inventory

What the system is made of, the state each part keeps, and what makes it hard.

| part | state | operations | hard behaviour | modelled |
| --- | --- | --- | --- | --- |
| file lock | lock directory, owner record, their ages | acquire, reclaim, release, collect | reclaim against re-creation, crash between two file operations, pid reuse, several machines | `FileLock` |
| runtime owner and lease | `lease.json`, control socket, transport, heartbeat | start, renew, serve, stop, take over, collect | overlapping owners, renewals beside a release, rollback of a failed start, suspended owners | `RuntimeOwner`, `SingleOwner` |
| session verbs | `state.json`, event log, lease as seen | start, submit, observe, classify, recover, validate, finalize, operate, retire | load, await, overwrite by nine writers; a client that times out while its handler goes on | `SessionControl` |
| receipt spool | `spool.jsonl`, cursor cache per process | append | several processes, torn lines, cached maximum | `ReceiptSpool` |
| recovery | worktree, observation, vanish receipt, budgets | observe, classify, preserve, restart, operate loop | the tree changes between the looks at it, every git command may fail, several budgets | `Recovery` |
| finalizer | commit, validation receipts, verdict | resolve, validate, cross-check, complete | the repository moves while commands run, damaged receipts, nothing to validate | `Finalize` |
| chat effect journal and daemon | effects, claims with epochs, receipts, recovery timer | take in, claim, renew, send, record, evict, recover | expired claims, uncertain outcomes, crashes between journal and conversation, tasks with stale lists | `EffectJournal`, `ChatDaemon` (Discord) |
| session SDK host | leases by capability, requests, event ring, readiness | register, hand over, reclaim, request, activate, publish, replay, stop | reconnect within the grace period, a gate that answers late, a stop that fails | `ReverseLeases`, `SessionHost` |
| async jobs and yield queue | jobs, delivery queue, watches, queued results, the turn | finish, poll, cancel, evict, deliver, flush, clear, hand off, switch | a result between two turns, a poll beside a delivery, contexts that change under a delivery | `JobManager`, `JobResults` |
| event log | `events.jsonl`, cursor | emit, read, sticky signals | concurrent emitters, lease handed over between check and append, torn line | no, see below |
| everything else | | | | no, see "Not modelled" |

## How the parts meet

`ReceiptSpool` and `RuntimeOwner` call the file lock; both take it to exclude, and
`FileLock` says when it does not. `SessionControl` sees of the owner whether it lives;
`RuntimeOwner` says when it does, and `SingleOwner` what its lease amounts to.
`operate` runs `Recovery`'s loop, whose last step is `Finalize`; `SessionControl`
keeps of both only what they write to `state.json`. `ChatDaemon` is composed of the
journal and the daemon's tasks, `SessionHost` of the lease registry and the host,
`JobResults` of the job manager and the session's queue: in each the second module
EXTENDS the first, and its actions call those of the first with the rest of the
state kept, so that every interleaving of the two is explored.

## The modules

### FileLock: `withFileLock` (config/file-lock.ts, config/file-lock-gc.ts)

Every shared file of the runtime is mutated under a lock directory
`<file>.lock`. A contender makes the directory (`mkdir`), writes its owner
record `info` (pid, start time, timestamp) into it, runs the operation and
removes the directory if it still carries its own record. With `ownerHostId`
(locks on a volume that machines share) a complete directory is prepared aside
and renamed into place. A contender that finds the directory judges the owner:
dead pid, or recycled pid and older than `staleMs`; a directory without owner
record is judged by its age alone.

State of the module: the directory at the lock path (`lockDir`, named after the
contender that made it), its `info`, whether either is older than `staleMs`
(`infoOld`, `dirOld`), the operating system's view of each pid (`procState`), and
for each contender its program counter and the locals of `acquireLock` (`role`,
`attempt`, `token`, `expected`, `startSeen`). One action is one file-system call
with the synchronous code after it: `TryMkdir`, `WriteLockInfo`,
`PreparePending`/`RenamePending` (host-qualified), `SnapshotInfo`,
`SnapshotNoInfo`, `SnapshotStat` (`staleLockSnapshot`), `Reread`
(`removeFileLockDirForGc`), `RereadNull`, `Restat` (`removeStaleLockForAcquire`),
`Unlink`, `Rmdir` (the recursive `fs.rm`), `Release`, `GcPrune`, and the world:
`Crash`, `ReusePid`, `Elapse`.

Two history variables are about the properties only. `intact[c]` says that
nothing was put at the lock path since c's identity check passed; `window`
collects the *escapes* that have happened: `read-unlink` (a removal met a
directory that is not the one it had checked), `slow-writer` (an owner-less
directory was reaped by age while its maker was about to write its record) and
`start-time` (a running owner whose recorded start time is `"unknown"` was judged
recycled). The comment at file-lock.ts:149 grants the first.

What is shown: exclusion, the presence of a held lock on disk and the success of
every release hold *unless* an escape has happened. These are model-checked
(`file_lock`, `file_lock_shared_volume`) and proved for all constants
(`FileLockProofs`), together with `NeverReapsLiveOwner`: no removal is aimed at a
running owner when every process can read its own start time. The unconditional
claims of the comments do not hold (see "What the comments say and the code does
not").

Bounds: three contenders in two processes (so two share a pid), two attempts, two
timestamps; the host-qualified instance has a contender on a second machine. The
passing runs stop exploring behind the first escape (`NoEscapeYet`), where the
properties are vacuous.

### RuntimeOwner: the lease, the socket and the life of an owner

Exactly one owner may drive a session. `acquireLease` writes `lease.json` under the
file lock and refuses while another owner's pid exists; an interval renews the
lease; `stop()` closes the transport, closes the control server (which waits for
connected clients), removes the socket path, fences the heartbeat, waits for
renewals under way and releases. A stage that fails is tried again. `start()` that
throws at any point runs the same `stop()`.

State: the lease (`lease`, `expired`), who is bound at the socket path (`socket`),
the operating system's view of each owner (`proc`), where `start` and `stop` of each
stand (`pc`, `down`), what each holds (`transport`, `listening`, `leaseHeld`,
`timer`, `renewals`), one request (`handler`: whether its client waits) and the
collector's candidate and view (`gc`). `start` and `stop` have separate
program counters because a heartbeat that finds the lease lost calls `stop()` while
`start()` is still on its way. Actions: `Spawn`, `Acquire`/`LeaseRefused`,
`RemoveStaleSocket`, `Bind`, `Announce`, `StartFails`; `HeartbeatTick`, `Renew`;
`Request`, `Respond` (or the client hangs up); `PollFindsNoOwner`, `BeginStop`, `CloseTransport`,
`StopListening`, `AwaitClients`, `RemoveSocket`, `Fence`, `Drain`, `Release`; the
world: `Die`, `ReusePid`, `Expire`, `GcLook`, `GcReap`.

Liveness of a pid is relative to the one who asks. Processes that share the session's
files may run in two pid namespaces (containers over one workspace): `blind` is the set
of owners in the second one, any subset of the constant `Blind`, chosen at the start,
and `kill(pid, 0)` across finds nothing, in either direction. So `Dead(l, seen)`, what
`classifyLeaseStatus` answers one that can probe the pids of `seen`, holds of a lease of
a dead owner and of a lease of an owner outside `seen`; `Beside(o)` is what owner `o` can
probe, `BesideGc` the views of collectors, one or both sides (`GcInside`). That a pid of
the one namespace happens to exist in the other is left out: the lease then counts as
alive, which only delays a take-over. `deposed` is a history: the owners that lost the
lease while they ran, which takes one that could not see them.

The run `owner` has two owners in one namespace or in two. An owner that believes in
its lease has it, its authority (transport, endpoint, waiting client) lies within the
lease, and a listener at the socket holds the lease, each unless the owner is deposed; no
renewal runs beside a release; a teardown ends, and an owner that lost its lease stops
serving. In one namespace nobody is deposed, and the exceptions are empty.
`ImplementsSingleOwner` is the refinement: with `holders` mapped to the owners that
believe they hold the lease and are not deposed, every behaviour is one of `SingleOwner`,
in which an owner takes the ownership only when it sees nobody that has it, so that
within a namespace it is given up before the next takes it. Bounds: one renewal at a
time, one request per owner, owners start once, collectors in the first namespace
(`GcInside = FALSE`). Two owners are enough for a take-over in one namespace and across,
a refused start, and a collector that cannot see the holder; the proofs cover any number
of owners and collectors on both sides.
With two owners the poll of `#runOwner` stops a deposed one in every case, since it cannot
see the successor either; the heartbeat's `not_lease_holder` is needed beside it when a
third owner, in the namespace of the deposed one, has the lease.

Fairness: weak, on every stage of `stop`, on a handler's return, on renewals and
ticks and on the 500 ms poll of `#runOwner`: the event loop runs what is ready,
`setInterval` keeps firing, and the retries of a teardown stage have no limit.
Nothing is assumed of starts, requests, deaths, expiry or the collector.

### SessionControl: the verbs and state.json

A call first tries the owner (`Route`); the owner's handler loads the record, waits
for git, the agent, a validation or the finalizer, and writes the whole record back.
A caller that gets no answer in five seconds (`GiveUp`), or finds no owner
(`Unrouted`), loads the record itself, looks at the session and the lease, applies
the three rules of `reconcileLifecycle` and writes it. `start --detach` writes its
copy again once the spawned owner answers. The frame pump of the owner writes
`finalizing` when the agent reports the end of a turn.

State: `state` (lifecycle and blockers), `events` (the furthest the log has come),
`owner` (the lease and its process), `git`, `busy`, the program counters and copies
of the pump, the starter, each `client` and each `handler`, and the history variable
`proof`. Actions follow the awaits: everything between two awaits is one action.

`session_verbs`: one call of any verb beside the handler it may leave behind, the
pump, the starter and an owner that stops or crashes, over a worktree that turns dirty
and clean; `completed` is only ever written with proof of a completion, a blocked
session names a blocker, and the call returns, under weak fairness of the caller's
own steps (its process runs and `callEndpoint` times out; nothing is assumed of the
owner or the agent). One call is the bound of the run; that the record stays
meaningful however many calls write stale copies over it is proved
(`SessionControlProofs`). `unknown` as a git answer, which differs from dirty only in
the guards of a respawn and of the owner's recover, is also left to the proof.

### ReceiptSpool: cursors across processes and crashes

An append takes the file lock, reads the highest cursor from a cache that is valid
for one mtime and size or by a scan that skips what does not parse, appends a line,
syncs, and caches. State: the cursors a scan finds (`readable`), the end of the file
(`tail`: closed, torn, or a whole record without its newline), the revision (`size`),
the lock, and per process `stage`, `mine`, `cache`. `Fragment` is a write that stops
half way, with the process dead (`DieWriting`) or told of the error (`FailWrite`);
`Glued` is what the next append makes of a torn end. The revision is a counter,
since every write makes the file longer.

`spool`: three processes, two appends each. Every record is written under a cursor
above all that are readable at that moment (one that was readable until an append was
glued to it may come again), a cache that is used is honest, and as long as no write was
torn the returned cursors are readable and unique.

### Recovery: classify, preserve, restart

`operate` submits, then observes, classifies and acts until it sees a completion,
is blocked, or runs out of iterations; `recover` does one round, in the owner or
without one. A restart needs a vanish receipt, for which the worktree is snapshotted
(`Preserve`). State: the worktree (`tree`), the observation, the receipt, the loop's
budgets and lifecycle, and histories of what was done and of what git reported and
the snapshot has no content of, or not even a hash (`lost`): the stash holds tracked changes
only, and of an untracked file the manifest has the path, the size and the hash. The worktree changes between any two steps (`Edit`, `Commit`,
`Remove`), and each git command of a snapshot may fail by itself.

The observation given to `operate` is a free input, since its provider is injected.
In production it is the owner's own `#observeGit`, which always says that the owner
is live and never `zero-delta`; the classes of a vanished owner are then not reached
from the loop, and the properties hold in that smaller set of behaviours too.

`recovery`: all three callers, four iterations, one change of the worktree, budgets
of two prompts and one restart, so that every budget can run out before the
iterations do. The loop acts only on a valid receipt for its decision, never
restarts clean what it saw dirty, stays within the budgets it counts, and restarts
only when the stash of its receipt holds the tracked changes that git reported and,
without a stash, every untracked file it reported is on record with its hash
(`RestartAccountsForWork`). The content of untracked files stays in the worktree, which
no restart of the loop cleans.

### Finalize: the evidence gate

`runFinalize` resolves HEAD, runs each validation command and stores its receipt,
looks for the commit on the branch and for a pull request, reads the receipts back
and writes the completion receipt. A review session ends on a verdict instead: the
operator's, or the last verdict word of the agent's text. State: the call
(`require`, `commands`, `review`), the stages (`pc`), their results, the stored
receipts and the repository. Others commit, amend, toggle the pull request and damage
receipts meanwhile.

`finalize`: every subset of two commands, all combinations of requirements, up to two
interferences, texts of up to two words from the verdicts, the alias and another
word. No production caller passes validation commands, so the empty set is the
case of every implementation session today: `validation-required-but-none-run`
blocks it when tests are required, and the completion receipt is invalid when they
are not.

### EffectJournal and ChatDaemon: commands and messages, once

The daemon carries commands from a chat thread to a session and messages back. Every
such *effect* has a record in a journal (`pending`, claimed by a worker under an
owner and an epoch, `accepted`, `uncertain`, `terminal`), and the conversation keeps a
receipt for every inbound effect that is not finished. A worker claims an effect,
renews its claim while it works, sends, and records the outcome if its owner and epoch
are still those of the record. Terminal effects beyond a limit are evicted, oldest
first, unless a receipt refers to them. A recovery timer is set whenever work is left,
and takes up posts, receipts and orphans (effects without a receipt).

`EffectJournal` has the record and the operators of `chat-effect-journal.ts`:
`CanClaim`, `Fenced`, `Create`, `Claim`, `Renew`, `Record`, `Oldest`, `SameGeneration`.
`ChatDaemon` has the tasks of the process, each with a program counter that moves from
one await to the next: a delivery (`HandleInbound`, `Reserve`, `Dispatch`), a post
(`Post`), the work on a claimed effect (`Ensure`, `Check`, `Send`, `RecordOutcome`), the
eviction (`Prune`, `Evict`, `Finish`), a recovery (`Recover`, `SweepOutbound`,
`SweepReceipt`, `SweepOrphan`) and the look that sets or clears the timer (`Look`,
`Schedule`). The world: `Expire`, `Throw`, `Move` (the binding of the conversation
changes), `Crash`. A send that fails may have arrived or not.

History variables: `life` counts how often an effect was created, `sent` how often it
reached the other side. Three exceptions of the properties are named as narrowly as the
code allows: `expired` has the effects of which a claim ran out while its task could still
send or had sent (a claim whose task is gone or has failed before it sent excuses nothing);
`raced` has the receipts that were taken of an effect that was gone or about to be evicted,
until the receipt is completed; and `timer` is `"lost"`, not `"off"`, from a late or failed
look that left it off although there was work to the next look that sets it or finds none.

`chat_effects`: one command that is delivered up to three times, one message, two
tasks, room for one terminal effect, one fault. Each of a crash, a stalled holder, an
uncertain answer and a change of the binding happens, beside redelivery and eviction;
the proofs lift all bounds. Fairness: weak, on each task's steps (promises settle, a
timer that is set fires), and a claim nobody renews runs out. `EffectsSettle` is the
liveness: every effect becomes terminal or stays uncertain, infinitely often unless the
timer is lost or a post has no endpoint. `MaxTries` bounds the claims of a post whose
endpoint is gone: the code takes it up again and again for as long as that lasts. The run
has the claim of the task that posts it, which finds the endpoint gone and leaves the post to
the recoveries; the repetitions, which differ only in their epochs, are left to the proofs.

### ReverseLeases and SessionHost: capabilities, readiness, replay

A client of a session's SDK host registers as the provider of a capability and gets a
lease; the session sends requests to the holder. Heartbeats keep the lease, a holder
may reserve it for another connection, and a connection that comes back within the
grace period reclaims it under its old id. `SessionHost` starts and stops, publishes
that the session is ready (at once, or after a gate has authorized an activation), and
keeps a ring of events that clients replay from.

`ReverseLeases` has one action per method, each of them synchronous in the code:
`Register`, `Release`, `Disconnect`, `Request`, `Respond`, `GiveUp`, `Notice`, `Sweep`,
`Dispose`, and time as `Lapse` and `GraceEnds`. `SessionHost` adds the host with its
awaits: `Start`, `Activate`, `ActivateOnce`, `GateAnswers`, `Stop`, `StopEnds`, and the
stream: `Emit`, `Ring`, `Gap`, `Replayed`.

`session_host`: one capability, two connections and definitions, one request at a
time, two lease ids, a ring of one with two events, two generations of the
host. That is enough for a reservation that is taken up by the wrong connection, a
reclaim after a lapse, a full ring, and a gate that answers in the next generation.
Capabilities do not interact except in the cancellation of a connection's requests,
which the proofs cover for any number. Fairness: weak, on the interval that sweeps and
on the return of `unregister`, with or without an error.

### JobManager and JobResults: from a background job to a turn

A job that finishes is queued; one delivery loop hands results to `onJobComplete`,
which formats them and puts them on the session's yield queue; the queue is flushed
into a running turn when the agent is about to yield, or by a scheduled flush that
starts a turn while the session is idle. A poll by the job tool watches the running
jobs it waits for, which holds their results back, and acknowledges the ones it shows,
which discards them. Every change of the context (a cleared context, a handoff, a new, a
forked, a branched or another session) cancels the jobs and acknowledges the deliveries
that are queued or in flight; only a cleared context and a handoff that ends well empty the
yield queue too.

`JobManager` has the manager and the tool: `Register`, `Finish`, `Cancel`, `Evict`,
`Pick`, `FlightFails`, `Acknowledge`, `PollStarts`, `PollEnds`. `JobResults` has the queue
and the turns: `Deliver`, `Prompt`, `Yield`, `TurnFails`, `Settle`, `Abort`, `IdleFlush`,
`InjectIdle`, and the changes of the context: `ClearContext`, `NewSession` (`newSession`,
`switchSession`), `Fork` (`fork`, `branch`), `HandoffStarts`, `HandoffCommits`,
`HandoffForgets`, `HandoffFails` (rolled back), `HandoffDegrades` (failed after its commit).
A change counts from the point past which it is not undone. The settling of the jobs and
the adoption of the successor are one step: the shutdown lease fences the deliveries and
no await lies between. The reload of the same file by `switchSession` is an abort and no
change of the context, nor are `navigateTree` and `compact`. A job is
known by its generation, which is never reused; its id is, after an eviction. The queue
is a set of generations with an order (`queue`, and `ahead[g]`, the deliveries in front
of g): a push puts a delivery behind all others (`Push`), an acknowledgement takes some
out (`Only`), an overflow keeps the last `MaxQueue` (`Kept`), the loop takes the first
that nothing suppresses (`First`). `poll` is the poll under way: the jobs it tracks, the
ids it watches, and the jobs that were over when it began (`over`). Only those may be
evicted while it waits: a poll waits for five minutes at most and a record is kept for
five minutes after its job ended, so the record of a job that ends during a poll outlives
the poll.
Histories: `shown` and `got` say where a result went, `dropped` that it was given up for
a reason the code names, `missed` that the queue may hold results with no flush to come: a
turn was past its last flush when they came in, failed over them, or was aborted with a
flush that was scheduled. It lasts until the next flush or clear.

`ended` has the jobs whose results their context took to its end: what ran, was queued or in
flight in the manager and, where the yield queue is emptied, what lay there.
`StaysInItsContext` says that none of it is put into a turn of another context.

`job_results`: two jobs, two ids (so that an id may be reused), a delivery queue of one,
two attempts, one fault, two contexts. Two jobs are enough for an overflow of the
queue, for a reused id and for a poll of one beside the delivery of another. Fairness:
weak, on the delivery loop, on the end of a poll's wait, on the end of a turn, on scheduled
flushes, and on the end of a handoff; strong on `Yield`, which a poll of the turn holds up
while it waits: a turn polls finitely often before it yields. Nobody has to prompt again.

## Runs

| run | expected | shows |
| --- | --- | --- |
| `file_lock` | pass | exclusion and its companions on one machine, up to the first escape |
| `file_lock_shared_volume` | pass | exclusion with prepared directories and a second machine |
| `owner` | pass | the owners of two pid namespaces implement one lease, authority lies within it, teardown ends, a deposed owner stops |
| `session_verbs` | pass | the record stays meaningful under any verb, the call returns |
| `spool` | pass | cursors ascend, are unique and readable while no write is torn |
| `recovery` | pass | gating by receipts, budgets, a restart accounts for the work git reported |
| `finalize` | pass | completions are proved, reviews decided by their last verdict, receipts honest |
| `chat_effects` | pass | one holder of a claim, effects sent once, kept while open, settled in the end |
| `session_host` | pass | leases, requests and definitions agree, readiness is authorized, replay complete, teardown lets go |
| `job_results` | pass | results are not lost, not echoed, not carried over from an ended context, and arrive |
| `job_stranded` | violation | a result that comes in at the end of a turn is not delivered |
| `finalize_commit` | violation | what was validated is not the commit that is named |

Deadlock is not checked: in every model the calls come to an end, the processes may
all be dead, and the bounded world stops.

Sizes (distinct states): `file_lock` 1.6 million, `file_lock_shared_volume` 1.5 million,
`recovery` 960,000, `finalize` 830,000, `job_results` 590,000, `chat_effects` 380,000,
`spool` 360,000, `session_host` 320,000, `owner` 210,000, `session_verbs` 140,000.

## What the comments say and the code does not

Two disagreements are kept as runs that TLC refutes:

* `job_stranded`: "Background job results are delivered automatically when complete."
  (`prompts/tools/job.md:3`). The yield queue schedules a flush only while the session
  is not streaming (`session/yield-queue.ts:63`). The session counts as streaming until
  `#endInFlight` (`session/agent-session.ts:2494`), which comes after the turn's last
  flush and does not arm the queue. A result that is delivered in between waits until
  something else starts a turn. `ResultsArrive` shows that the ends of turns, and aborts
  that cancel a flush, are the only places, apart from reused ids, and that the next flush
  takes up what they left.
* `finalize_commit`: "every required validation receipt is valid for the commit under
  test" (`hcp/finalize.ts:4`), but HEAD is resolved once, before commands that take
  minutes, and the freshness check compares that value with itself.

Others are visible in the models, as the exception a property makes or as a branch of
an action:

* `withFileLock` "Serializes all contenders" (`config/file-lock.ts:322`) up to the
  three escapes of `ExclusiveUnlessEscape`. On a shared volume the first needs neither
  a crash nor a stale lock: a rename lands in the directory that a release has emptied
  and not yet removed.
* "Exactly one live `RuntimeOwner` holds the lease" (`hcp/session-lease.ts:4`) holds where the owners can probe each
  other's pids. Across pid namespaces a live owner is found dead and deposed; it stops at its
  next heartbeat or poll (`Depose`, `DeposedOwnerStops`).
* "Owner process alive => endpoint reachable" (`hcp/owner.ts:970`): an owner refused with
  `lease_held` rolls back and removes the path the live owner listens on (`RemoveSocket`).
* "A stale lease (owner dead OR expired) may be taken over" (`hcp/session-lease.ts:5`):
  `MayAcquire` ignores the expiry, and the refinement depends on that (the mutant
  `MayAcquireExpired` breaks it).
* "there is no old authority left" after a stop (`hcp/owner.ts:916`):
  `AuthorityIsLeased` covers waiting clients; the handler of one that hung up runs on.
* A "live" lease makes a failed call "a transient observation gap"
  (`commands/harness.ts:369`), but observe, submit and recover reconcile with `ownerLive`
  false (`commands/harness.ts:1496`), so a submit that takes longer than the five seconds
  of the socket blocks its own session as `owner-vanished`.
* `retired` has no successor in `TRANSITIONS` (`hcp/state-machine.ts:23`), but no
  writer of `state.json` consults the table or reads the record again, so a late
  `start --detach`, handler or recover writes over it (`StartWrite`, `Write`,
  `Restore`).
* `recover` "to (re)spawn an owner" (`commands/harness.ts:347`) spawns one only if
  the lease is still there or the log is empty (`RespawnsOwner`).
* "restart-safe" cursors of the spool (`packages/coding-agent/CHANGELOG.md:1358`) hold up
  to the first torn line (`UniqueUnlessTorn`): the next record is glued to it, is not
  readable, and its cursor is given out again after a restart.
* "snapshotComplete iff every dirty component is actually captured"
  (`hcp/preserve.ts:90`), but a git command that fails counts as an empty result, so in a
  repository without a commit tracked changes are held nowhere, and of an untracked file the
  snapshot has a hash and no content. `RestartAccountsForWork` says what is left: of what git
  reported the tracked changes are stashed, and without a stash the rest is on record.
* The operate loop is bounded by "the per-classification retry budgets"
  (`hcp/operate.ts:6`) for two of the four (`RetriesBounded`).
* A receipt "MUST be valid before the action may proceed" (`hcp/types.ts:243`) in the
  loop only (`LoopActsOnReceipt` is about `operate`); both recover verbs go on as soon
  as the receipt is written.
* A completion receipt stands for the passed gate (`hcp/receipts.ts:13`) when all the
  evidence is required (`ReceiptMeansCompleted`).

In the chat daemon:

* A redelivered command takes its receipt without a look at `seenEventIds`. If its
  terminal effect is evicted around that moment the receipt stays without an effect, and
  every recovery fails on it and is repeated (`raced`, `SweepReceipt`).
* The epochs of an effect that was evicted and created again start at 1, so a task left
  over from its first life may pass the fence (`OneHolder` is about the first life).
* The generation that protects an eviction is that of the list, which a re-created
  effect may have again (`OpenIsKept`).
* A look at the journal that is late may clear a timer another task has just set, and a
  recovery that fails does not set it again (`LeftOff`).
* An uncertain post whose conversation is no longer active is neither sent nor ended;
  the timer goes off for it again and again (`Terminalize`).

In the session host:

* A lease that runs out does not cancel its requests; a release cancels all requests of
  the connection, whatever their capability (`Lapse`, `Cancelled`).
* The grace period does not exclude others: a lapsed lease may be taken by anybody
  (`Conflict`).
* An activation looks at `#stopping` only after its gate has answered, so a deferred host
  without a gate would publish readiness while it stops. No production host is built that
  way, and the model has none (`ActivateOnce`, `GateAnswers`).

In the delivery of results:

* A turn that fails or is aborted ends without a flush, and an abort while an idle flush
  is scheduled leaves `#idleFlushPending` set, so that later results schedule none until
  the queue is cleared or flushed (`TurnFails`, `Abort`).
* A flush whose turn is refused as busy has already drained the queue; the results are
  gone with a log line (`InjectIdle`).
* A flush that waits in `injectIdle` may put results into the next context, or repeat what
  a poll has shown meanwhile (`NoEcho` and `StaysInItsContext` except it).
* "never flush into the new session" (`session/agent-session.ts:12327`) holds of a
  handoff that ends well. One that fails after its commit throws before the queue is cleared,
  and its `finally` arms the queue again, so that the predecessor's results are flushed into
  the successor (`HandoffDegrades`). `newSession`, `switchSession`, `fork` and `branch` leave
  the yield queue alone and carry its results over in the same way (`NewSession`, `Fork`).
* When an id is reused after an eviction, a delivery of the older job is discarded
  (`Superseded`), and a delivery that fails after its record was evicted is not retried
  (`FlightFails`).

## Proofs

Each proof module has an inductive invariant for each specification it is about, a lemma
for each action or group of like actions, and the theorems at
its end. All hold for every value of the constants under the named assumptions of the
component's module (types and distinctness of the constants). The bounds on counters
are constants too, so the theorems hold for every bound.

* `FileLockProofs`. Theorems `TypeCorrect`, `Exclusion`, `HeldOnDisk`,
  `ReleaseSucceeds`, and, if every process can read its start time
  (`PsUnknown = {}`), `LiveOwnersAreSafe`. Exclusion by itself is not inductive: a
  removal under way may be about to delete a lock in use. `RemovalInv` excludes that
  for removals whose directory is still the one they checked, `AimInv` says that a
  removal is aimed at a stopped process, `StatInv` that the stat token of an owner-less
  directory vouches for it, and `DiskInv` ties the contender in its operation to the
  directory and its record.
* `RuntimeOwnerProofs`. `TypeCorrect`, `OneHolder`, `LeaseOutlivesAuthority`,
  `HeartbeatIsFenced`, `SocketOfHolder` and `Refinement`, for any number of owners in two pid
  namespaces with collectors in both. Each conjunct of `IInv` is about one owner that is not
  deposed, so that a step of another can disturb it through the lease only, and that needs a
  dead owner or deposes a running one (`Believes`, `Gone`); `Closed` records what each stage
  of the teardown has shut. `Refinement` shows that the initial state maps to one of
  `SingleOwner` and that every step takes the ownership when no owner in sight has it, gives
  it up, or leaves it.
* `SessionControlProofs`. `TypeCorrect`, `CompletionIsProved`, `BlockIsExplained`, for any
  number of concurrent calls. `Good` says of a record that it is completed only with proof
  and blocked only with a blocker; the invariant says it of `state.json` and of every copy
  a client, a handler, the starter or the pump holds, so that it does not matter whose
  copy is written last.
* `EvidenceProofs`, of the three parts that produce the evidence of a session.
  For the spool: `SpoolInvariance`, `HonestCache`, `WholeIsUnique`, `Ascending`. A cache of
  an older revision never becomes current (`Fresh`), so the lock holder's cursor is above
  every line (`Above`).
  For the finalizer: `CompletionIsProved`, `ReceiptIsHonest`, for any set of commands
  (`Clear` says what an empty set of blockers stands for at each stage), and
  `ReviewDecision`, for any text. `ExtractReviewVerdict` takes the last matching word by
  CHOOSE; that there is a last one follows without induction from the well-foundedness of
  `<` on the distances to the end of the text (`LastOf`, `LastVerdict`).
  For recovery: `LoopIsGated`, `Budgeted`, `WorkIsAccountedFor`, `FinalizedWasSeen`, for
  any number of iterations and any budgets. `Held` says that the receipt at hand is the one
  the decision asks for, and what it holds, `Spent` that budgets and retries add up.
  `Classified` is what the classifier guarantees of its answer, `Preserved` and `Written`
  what a snapshot and its receipt hold. Steps that act on nothing share `Idle`, steps that
  act on a decision share `Acts`.
* `SessionHostProofs`. `TypeCorrect`, `LiveIsInstalled`, `RequestsAreAnswerable`,
  `HandoffIsGranted` for the registry (`LInv`), `ReplayComplete` (`Contiguous`: the ring
  holds the last events without a hole) and `ReadinessIsAuthorized` (`Ready`: what was
  published, and for which generation the gate is being asked). `TeardownIsFinal` is the safety
  half of `TeardownSettles`: a registry that was disposed of stays empty, since the host that
  stopped does not listen any more (`Deaf`) and nothing else fills it.
* `ChatDaemonProofs`. `TypeCorrect`, `FenceIsExclusive`, `ReceiptsAreBacked`,
  `WorkIsWatched`, `OpenEffectsAreKept`, from the invariant `IInv`: `Fence` (the epoch of a
  task is at most that of the record, and equal for one task), `Kept` (an effect with
  a receipt is there and not listed for eviction), `Over` (what is listed is terminal),
  and `Watched` (work is left only with a task that will look, or with the timer set or
  `"lost"`).
* `ChatSendProofs`. `SentOnce`, from a second invariant, `Once`, that keeps accounts: for a
  command, what was sent, the tasks that may still send it (`Debtors`) and the claim that
  could still be made (`Claimable`) add up to no more than the times it was created; a
  message is terminal only after it was sent (`Posted`), and until then its worker is alone
  with it. A claim that runs out after its task has crashed or failed before the send
  excuses nothing: no task is left that could pass the fence (`Dropped`), so that the claim
  is still unspent (`Unused`) and whoever takes it over sends for the first time.
* `JobResultsProofs`. `NothingLost`, `Unrepeated`, `InItsContext`, for any number of jobs,
  ids, attempts and contexts and any limit of the queue. `NoResultLost` by itself is not
  inductive: a result that a watch holds back is safe only because the watch is of the last
  job of its id and ends with the poll (`Watches`, `Polls`), and an acknowledged one only
  because it was shown or given up before (`Excused`). `Records` says that the record under
  an id is of its last job, `Attempts` that a delivery is queued or in flight but not both.
  That a result on its way is carried on, the safety half of `ResultsArrive`, needs two more:
  `LoopOn` (a step that frees or queues a delivery turns the loop on; an eviction frees none,
  because a poll's watches are of records it keeps) and `Armed` (a pending flush is a scheduled
  one, and a turn that is past its flush leaves nothing queued, unless `missed`).
  `Unrepeated` rests on `Shown` (what was shown and is on record is acknowledged, and a
  flush asks for that), and its second half, that a result in a turn does not come again, on
  `Places`: a result is in one place of queue, formatting, yield queue, injection and turns,
  whatever deliveries are retried. `InItsContext` rests on `Over`: the jobs of an ended context
  have ceased, none of their results is being injected, none is in the yield queue once the
  handoff is over, and what the manager has of them is acknowledged or held by a watch of a
  poll that will show a job that has ceased too, and acknowledge it (`Held`). The watch is the
  subtle case: a watched delivery is not pending for the change of context, which therefore
  does not acknowledge it.

The proof of `NothingLost` found two faults of an earlier model that the two jobs of the
run do not reach. The record of a job that ended during a poll could be evicted before the
poll was over, which loses a result with three jobs; in the code the retention forbids it,
and `Evict` says so now. And an overflow of the queue dropped one delivery where the code
drops until the limit holds.

Only model-checked: the liveness properties (`TeardownCompletes`, `DeposedOwnerStops`,
`EveryCallReturns`, `EffectsSettle`, `LapsedIsRemoved`, `TeardownSettles`, `ResultsArrive`),
since the prover handles neither fairness nor ENABLED. Every safety property of a passing
run is proved.

## Abstractions

* A file operation is atomic; the recursive removal of a directory is two.
* Time is not counted. A lock grows old (`Elapse`), a lease or claim runs out (`Expire`,
  `Lapse`), a call times out (`GiveUp`, `Respond`) at any moment.
* Receipt hashes are reduced to intact, altered or missing, lines of the spool to their
  cursors, the event log to the furthest kind of event in it, effects and results to
  their identities.
* `git`, `gh`, `ps`, Discord, the agent and the operating system are modelled by the
  answers the code tells apart.
* Store writes of the journal and of the conversation are compare-and-swap loops under a
  lock; an update of one record is one step.
* A cancelled job settles within the retention of its record (`Evict`). One that ignored
  its abort for longer would schedule the eviction of the next job of its id.
* In `SessionControl` a handler whose client hung up ends with the owner (`Stopped`); in the
  code it runs on past the release, without a transport.
* The chat daemon's look after a refused claim or renewal is left to the look that ends the
  handler or the recovery (`Reschedule`).
* `StopEnds` stands for all callers of the host's `stop`: `stopSession` disposes of the
  registry whether `unregister` returned or threw, the preparation of a predecessor for its
  last response only when it returned, and other callers not at all.
* Everything between two awaits of one thread is one step; the daemon's helpers that
  await several times without a decision in between are one step where nobody else can
  change what they read.

## Not modelled

* The harness event log (`hcp/storage.ts`): `SessionControl` keeps the furthest kind of
  event, `Recovery` takes the signals read from the log as free inputs. The order of
  concurrent emitters and torn lines are therefore not covered.
* In modelled parts: the tmux launch and preflight of `start`, response texts, re-entry of
  `transport.close` into `stop` and the reporting of cleanup failures, reading verbs
  (`events`, `monitor`); of the chat daemon, interactions with callback tokens, threads
  with archiving and closing, rebinding to another endpoint and the sticky loss of a
  renewal; of the session host, the transport, the discovery file, idempotency keys and
  the validation of frames; of the job manager, monitors, paused and resumed subagents,
  `subagent` waits, drains at dispose and, of the shutdown lease of an owner, all but what it
  does to jobs and deliveries.
* The Slack daemon uses the same journal in the same way and is not translated again; the
  Telegram daemon has no journal.
* The SDK broker with its lifecycle ledger, the workflow runtimes, the coordinator, the
  workflow gate broker and the subagent executor keep state of their own; each is
  several thousand lines around external processes or model output. The edit path locks
  take file locks in sorted order, a thin client of `FileLock`. The tool-choice queue,
  the goal runtime, receipt ingest and the phase rollup run within one turn or call.
* Providers, tools, editor, terminal, MCP client, native crates and the vendored shell are
  input and output, rendering and text algorithms, without a protocol between actors.
