# Beryl: TLA+ specifications

Beryl is a desktop client for a coding agent. It keeps conversations, settings
and sessions in a *Beryl home*, a directory with a transactional database, and
moves data between bounded workers. This directory specifies the concurrent
parts of the home store (`crates/beryl-home-store`), the bounded channel and
page pool that the workers share (`crates/beryl-stream`), and those services of
the application (`crates/beryl-app`), and of the WSL supervisor
(`crates/beryl-wsl-supervisor`), whose threads coordinate through locks, wakes
and counted permits. TLC checks the specifications on small instances, and
TLAPS proves the safety properties of the twelve listed runs for every value of
the constants.

## The system and its parts

| Part | State | Operations | What makes it hard |
|---|---|---|---|
| Fixed channel (`beryl-stream/src/channel.rs`) | ring, head, tail, len, two open flags, counters | try and timed send and receive, drop of either half | one condition variable for both sides, notification outside the mutex, deadlines, close with messages queued |
| Health gate (`health.rs`, `initial_open.rs`, `recovery.rs`) | state, generation, active admissions, maintenance | admit, confirm, release, signal failure, publish, begin recovery, publish/abort/drop a candidate, close | drain shared with admission waiters, nested admissions, failure during recovery, stale generations |
| Reconciliation registry (`reconciliation.rs`, `reconciliation/registry.rs`) | scope slots, byte charges, tokens, flights, worker count | reserve, install, drop, reconcile, retry, close | index reuse under stale handles, one runner per flight, bounded workers with `notify_one`, close racing reservation |
| Serialized writer (`writer.rs`, `command/`) | database journal, writer mutex, home and domain revisions | execute a command, commit, persist, reconcile, recover | refused, lost and unknown commits, failed persist, panic, crash, revision numbers used again after recovery |
| Mutation observation (`mutation_observation.rs`) | revision, active flag, current registration | begin/finish a mutation, register, observe, elect, drop, close | wake after the locks are released, stale observations, revision exhaustion |
| Coherence (`coherence.rs`) | none of its own | elect over boundary, registry and gate together | three locks tried in turn while commands cross them one at a time, and recovery replaces the store under both |
| Page pool (`beryl-stream/src/page.rs`) | free pages, page generations, counters | lease, write, clear, drop | drop in two steps, exhaustion, generation exhaustion |
| Recovery source (`cas_projection/connection/recovery_source_broker.rs`) | one page, two channels of capacity one | request, read, reply, finish | each side waits for the other and either may unwind |
| Frozen reads (`read/frozen/`) | read slots, snapshots, request counts | capture, retain, read, drop, release, close | release racing requests and the close of the generation |
| Service supervision (`cas_projection/service_supervisor/`) | published service, lease count | acquire, drop, withdraw, dispose, shut down | order of reference drop and count, shutdown before a sleep |
| Persistent failure gate (`cas_projection/persistent_failure/`) | status, permits, cut election | authorize, commit, drop a permit, observe failure, cut, close, drain | a permit drop of four critical sections, shutdown against cut |
| Process admission (`process_admission.rs`) | epoch, fence, reservations | admit, reserve, settle, fence, close, reopen | nested locks taken in opposite orders |
| Worker pool (`cas_projection/service_config.rs`) | permits by class, demand flags | acquire, refuse, release, wake | a reserve that must survive every mixture, wakes outside the lock |
| Steering lane (`cas_projection/accepted_input_scheduler/`, `connection/router/`) | wake bits, scan bookmark, ready sources, workers, cancellation gate | wake, scan, launch, deliver, publish, cancel, shut down | wakes merged while a scan continues from a bookmark |
| Provider broker (`cas_projection/connection/provider_broker/`) | queue of one, acknowledgement slot, permit | submit, ingest, answer, cancel, join | cancellation between an idle check and the close of the slot |
| Window admission (`window_acquisition.rs`, `selection_admission.rs`, `close_admission.rs`) | windows, flights, selections, closes | reserve, select, commit, close | revisions compared by identity |
| Handoff coordinator (`discussion_settlement/`) | flights, signal, scan position | scan, reconcile, pause, dispatch, stop | a release that must resume a paused scan |
| Catalog queries (`catalog_query/`, `beryl-state/src/catalog/query/owner.rs`) | requests, collections, custody of reads | open, page, refine, drop, release, stop, retire | releases queued in one section and carried out in another |
| Theme watcher (`theme/watcher.rs`) | stamps, bounded queue of hints | poll, compare, push, take, reread | coalescing and overflow while files change |
| Generated readers (`beryl-backend/src/wsl_supervision/`, `beryl-wsl-supervisor/src/linux/`) | three tables, pipes, child processes | open, read, cancel, close, reap | each party decides from its own table while frames are in flight |
| Everything else | | | listed with a reason in `PROJECT.json`: durable state, syndic storage, backend transport, interface |

How they interact: every storage operation takes an admission of the health
gate. A command reserves a registry slot, takes the writer, marks a mutation at
the observation boundary, commits and persists. When its outcome is unknown the
slot becomes an installed scope that a reconciliation later resolves. A
structural failure closes the gate. The owner then drains it, reopens the
database as a new generation and publishes that; frozen reads of the old
generation end with it. In-memory state is published only by an election over
boundary, registry and gate.

Above the home, one projection service at a time is published by its
supervisor. Its commands hold live-command permits, which a persistent failure
or an orderly shutdown drains, and its threads hold permits of the worker pool.
The process admission gate stands before the locks of all of these when the
process shuts down. The provider broker, the recovery source and the steering
lane are threads of such a service.

## Modules

| Module | Contents |
|---|---|
| `FixedChannel` | the channel, one step per critical section |
| `BoundedFifo` | what the channel promises: a bounded queue with atomic operations |
| `HealthGate` | the gate and the owner that drives it |
| `HomeAvailability` | what the gate promises its users |
| `ReconciliationRegistry` | scopes, flights and workers |
| `HomeWriter` | commands, database, recovery and process termination |
| `MutationObservation` | boundary, observers and elections |
| `HomeCoherence` | composition: commands, boundary, registry and gate against elections |
| `FrozenReads` | read slots, requests, and the owner that ends a generation |
| `PagePool`, `RecoverySource` | the pool; and its composition with the replay of a recovery history |
| `ServiceSupervisor` | slot, leases, worker and shutdown |
| `LiveCommandGate` | permits, failure notification, cut worker and close |
| `AdmissionGate`, `ProcessAdmission` | the sections of the process gate; and their composition with the locks around them |
| `WorkerPool` | permits, reserve, demands and wakes |
| `SteeringLane`, `ProviderBroker`, `WindowAdmission`, `HandoffCoordinator`, `CatalogQuery`, `ThemeWatch`, `GeneratedReaders` | one service each, checked under configurations of their own (below) |
| `MC*` | symmetry sets of `ProcessAdmission`, contributions of `HomeWriter`, the connections of the threads of `SteeringLane` |
| `HomeWriterInvariant`, `HomeWriterProofs` | proofs of `HomeWriter`: the invariant and the steps that write, settle and refuse; the other steps and the theorems |
| `FixedCapacityProofs` | proofs of `FixedChannel`, `WorkerPool` and `LiveCommandGate` |
| `HomeBoundaryProofs` | proofs of `HealthGate` and `MutationObservation` |
| `ElectionProofs` | proofs of `HomeCoherence` |
| `BackgroundWorkProofs` | proofs of `ReconciliationRegistry` and `ServiceSupervisor` |
| `FrozenReadsProofs` | proofs of `FrozenReads` |
| `AdmissionReplayProofs` | proofs of `ProcessAdmission` and `RecoverySource` with `PagePool` |

Definitions marked "mutant" are faulty variants, used only to confirm that each
property can be violated.

### FixedChannel

`slots`, `head`, `tail`, `len`, `high_water`, `sends`, `receives` and the two
open flags are the fields of `ChannelState`. `pc`, `deadline`, `msg`, `status`
and `got` are the calls in progress. `CallSend` and `CallReceive` enter a call;
a deadline of "none" is the `try_` form. `SendClosed`, `SendStore`, `SendFull`,
`ReceiveTake`, `ReceiveClosed` and `ReceiveEmpty` are one pass of the loop under
the mutex. A pass that changed the state leaves the thread at "notify", and
`NotifyAll` is a step of its own because the code notifies after unlocking.
`Expire` is the clock and `Wake` is a wait that returns by timeout or
spuriously. Dropping a half needs exclusive access, so no call on that half is
in progress. A deadline that `checked_add` cannot represent behaves as one that
has passed. The full, wait and timeout counters are never read by the channel
and are left out.

### HealthGate

`state`, `generation`, `active` and `maintenance` are the fields behind the
mutex. `owner` is the position of the one value that owns the home (open
candidate, store, recovery candidate); it is moved and never shared.
`Admit`, `AdmitWoken`, `AdmitNested`, `Confirm`, `DropNested` and `Release` are
an operation. `SignalFailure` is a structural failure found by anyone.
`PublishOpening`, `BeginRecovery`, `BeginDrained`, `FinishFailed`, `ReopenFails`,
`ReopenSucceeds`, `PublishCandidate`, `AbortCandidate`, `DropCandidate`,
`CloseInitial`, `CloseHeld`, `Retire` and `RetireDrained` are the owner. Every
`notify_all` of this file happens under the mutex, so the waking is part of the
step. `Wake` and `WakeOwner` are spurious wakeups.

### ReconciliationRegistry

Scopes are indexed; a token names one scope and its flight for ever, while an
index is reused. `Reserve`, `DropSlot`, `Install`, `BeginClose` and `BeginDrop`
act on the table. `Call`, `Retry`, `Join`, `Acquire`, `Execute`, `Finish` and
`Complete` are a caller of `reconcile` or `retry_reconciliation`. `Execute`
chooses any answer, since what is read belongs to `HomeWriter`. A sealed
collision never costs more than the descriptor it replaces, as the code's
`debug_assert` at `reconciliation.rs:449` says.

### HomeWriter

`journal` is the sequence of batches the database shows, `synced` the length of
its durable prefix, and `latched` the failure that `Database::health()` retains.
A record is modelled by the number of the command that wrote it last. `Call`,
`RefuseEarly`, `Acquire`, `AcquirePoisoned`, `Admit`, `RefuseAdmission`,
`Prepare`, `Refuse`, `Panic`, `Commit`, `CommitRefused`, `CommitUnknown`,
`Persist`, `PersistFails` and `Settle` follow `execute_serialized`,
`execute_admitted` and `commit_prepared`. `ReconcileRead` and
`ReconcilePublish` are the two halves of a reconciliation: reading, and
publishing after `confirm_database`. `Fail`, `Recover` and `Crash` are the
environment and the owner. The gate and the registry appear only by what they
promise.

External assumptions about the database (fjall):

- opening it finds every synced batch and a prefix of the others, each whole;
- a batch whose commit was indeterminate is either visible at once or never;
- a failed persist or an indeterminate commit stays reported by
  `Database::health()` until the database is reopened. Only `ReconciledIsTrue`
  needs this.

Assumptions about commands: each writes fresh values. A natural record that
returns to an earlier value is excluded. `ExactSuccessor`, and commands through
a recovery candidate, are not modelled. The fault points of the test build do
nothing in the shipped one.

### MutationObservation

`revision`, `mutating` (`MutationState::active`) and `observer` are the boundary.
`Lock`, `Begin`, `Mutate`, `Finish` and `WakeObserver` are a writer; `Register`, `Observe`, `Elect` and
`DropObserver` are an elector. `version` counts the changes of the home and
`fact` is what an elector read, both history the properties need. `Close` ends
the boundary. An observer that was replaced is dropped at any later moment; its
drop compares registrations and leaves its successor's alone, which is the
second half of `RevocationIsFinal`.

### HomeCoherence

Each store has a boundary (`revision`, `active`, `closed`), a writer's mutex and
the generation it was admitted with. `recover_same_home` opens the next store
and shares registry and gate with it. Service references keep replaced stores in
use, so a command or an election names the store it goes through, and may name
any store there has been. A command may also go through a recovery candidate,
which it borrows.

A command is `Reserve`, `Abandon`, `Begin`, `Admit`, `Missing` (the database of
its store is gone), `Store`, `Report`, `Settle`, `DropAdmission` and `Finish`;
`Install` and `Resolve` are what becomes of an outcome in doubt, and `Panic`,
`FailClosedOnWriterPanic` and `Unwind` a panic. `Finish` releases the writer's
mutex inside the boundary's lock. Its critical sections are single steps.
Recovery is one step per section: `BeginRecovery` takes the gate to reopening,
`Reopen` waits for the admissions to drain, closes the old boundary and opens the
database, which may lose what was not durable, and `PrepareCandidate`,
`ValidateCandidate`, `PublishCandidate` and `AbortCandidate` handle the
candidate. `HomeFails` comes between any two of them.

An election tries the three locks in turn, checks under each and keeps all three
while its callback runs, so it alone holds a lock across steps. Elections with
and without an observation are both modelled, on any store and with any
generation met so far as the expected one.

Three mechanisms of the code protect an election from a recovery, and two of
them overlap. `MutationBoundary::close` (`recovery.rs:417`) needs the lock of the
boundary, so an election under way holds recovery up, and later elections on the
old boundary are refused. The gate refuses a command or an election whose
generation is not its own. A command admitted all the same through a replaced
store finds no database and fails the home. Without the gate's comparison of
generations both properties still hold, by the closed boundary and the missing
database. Without the check of `closed`, or of the observed revision, they do
not, and these are the mutants.

Left out: the fresh writer's mutex that the owner of a store gets when its
recovery failed (its commands find no database), and a candidate dropped without
abort, after which nobody can recover.

### FrozenReads

A slot is `{snapshot, active, closed}` with an id; a snapshot is the home
revision it shows. `Capture`, `Retain`, `ReadFrozen` and `ReleaseRead` start the
four calls, and `Lookup` to `Remove` are their critical sections in order.
`Owner*` ends the generation: it closes the gate, drains admissions, takes the
generation under the write lock and closes registry and slots. The reader-writer
lock lets a waiting writer in before later readers (external; `CloseEnds` needs
it).

### PagePool and RecoverySource

`PagePool` has one step for a lease, a write and a clear, and two for a drop: the
page is zeroed outside the mutex and put back under it. Bytes are "nothing" or
the generation of the lease that wrote them. `RecoverySource` instantiates it
with one page and two threads, and uses the two channels at the specification
`BoundedFifo` gives. `history` is the number of pages the cursor yields and
`replayed` the page numbers the driver wrote, 0 for a page with foreign bytes.
The command may be rejected before it runs, and the driver may stop at any page
(empty, too large, out of sequence, a failing transport), after it, or unwind
while it runs its operation; the service's closure may end, fail or unwind. A
page the driver stops at was served and is not replayed, so the captured count
may exceed the replayed pages by one. The polls of
20 ms only count waits and are left out. The branches of `SendRequest` and
`SendReply` that find the channel closed are kept as the code has them, but
cannot be reached in this composition.

### ServiceSupervisor

`arcs` is the set of holders of the service, `active_leases` the count that the
slot keeps of them. `DropLease` is the two steps of a lease's drop: the
reference first, then the count. The worker receives from a channel that a
failure or a shutdown signals, and then sleeps until the leases are gone. In the repository only tests start a
supervisor. The branches for a
notification channel that fails and for a missing notification cannot be
reached and are left out.

### LiveCommandGate

A permit is authorized, committed and dropped; `permits` is the count
`GateState::active`; a drop observes a failure,
signals it, decides and releases in four sections. `Worker*` is the thread that
cuts the service, `Close*`, `RuntimeRetires`, `RequestShutdown` and `JoinWorker`
are the close of the service. Permits are issued once the initial start
released the workers. A poisoned gate mutex is not modelled.

A permit may keep its count on purpose: `permit.rs:296` says "Keep the active
count closed when terminal waiter publication cannot be proven." That is the step
"kept", and a drain then waits for ever. `KeptOnlyUnstarted` says where this can
be: a failure was elected, and the start of its worker was cancelled before it
ran. `CloseEnds` promises the end of a close in every other case.

### AdmissionGate and ProcessAdmission

`AdmissionGate` has the sections of `process_admission.rs`. `ProcessAdmission`
gives every operation the sequence of locks the code takes, one step per lock:
permits lock the live-command gate first, the shutdown locks the process gate
first and only tries the others. A reservation is made by a permit
(`ReserveExecution`) or by a window selection, which needs no permit
(`ReserveSelection`); both are counted and dropped alike. `candidates`,
`published` and `fresh` are history: commands committed, a settlement published
behind the present fence, and permits issued since the last fence.
`WindowAdmission` uses the same sections.

### WorkerPool

The permits of each class, one demand flag per lane, and the wakes that a
release owes after it unlocked the pool. A permit that several owners share is
returned by the last of them. The pool's direct delivery of steering exists
only in the test build and is left out.

### SteeringLane

The scheduler thread sleeps on wake bits; a pass walks the ready sources page by
page under a budget and hands an input to a worker that waits at the launch
gate. Revisions are abstracted to "changed since it was read", and wake reasons
to those that open a pass and those that retry. `TargetReady` and the
cancellation wake are merged with the step that causes them. Handles that
cancel and renew are called by tests only. With no steering permit out the pool
grants one (`WorkerPool!ReserveKept`); otherwise it may refuse. The other lanes,
fatal failures, the persistent-failure cut and the loss of a target are left
out.

### ProviderBroker

Submitter, ingester and owner, each a thread with its position. An operation is
its number. Submissions start once the initial start opened the ingester.

### WindowAdmission

Flights, selections and closes over the registry of windows. A membership
revision is the identity of an allocation, modelled by the set of holders that
still share the registry's.

### HandoffCoordinator

A job is due, waiting or done. Flights are shared with dispatchers, and the
signal's flags are only raised under its mutex, so a waiting thread is a guard
on them. A retryable failure is folded into the wait for a turn; retargeting and
local boundaries are left out. The design is
`doc/systems/branch-discussion-handoff/design.md:330-338`.

### CatalogQuery

Requests, the worker, the owner of retained reads and the service's owner. A
read is named by the collection it was retained for; every operation on a
collection other than `refine` is "page".

### ThemeWatch

A file is the version of its stamp, which every write changes. The worker stamps
files one at a time while they are written. Rereads succeed; a change of the
active theme and the publication of settings are left out.

### GeneratedReaders

Backend, supervisor, init and reader children, each with its own table. A frame
is its kind, reader and sequence. Writes block only while the bytes of a page
are unread, and a read refused as busy is rolled back in one step. The socket
from supervisor to init is unbounded. Configuration is done, and what follows a
protocol fault or the loss of the namespace is left out.

## Runs

| Run | Instance | Question |
|---|---|---|
| `channel` | 2 senders, 1 receiver, 2 messages, capacity 2, counters saturating at 1 | ring and diagnostics consistent, no lost wakeup, `BoundedFifo` implemented, timed calls return |
| `health` | 3 threads, 2 admissions, 2 generations | exclusive reopening, wakeups, failure during recovery, `HomeAvailability` implemented, drains end |
| `reconciliation` | 3 threads, 2 slots, 1 worker, 2 tokens, 3 bytes | table and charges, one runner per scope, workers used, close, finality, calls return |
| `writer` | 2 threads, 2 domains, 3 commands, 3 revisions, 2 generations | the three outcomes mean what they say |
| `observation` | 2 writers, 2 electors, revisions to 2, 3 registrations | elections are current, stale observers are woken, revocations are final and spare the successor |
| `coherence` | 2 commands, 1 elector, 1 commit, 3 stores, 2 generations, revisions to 1 | an election sees one settled home and freezes it |
| `frozen` | 2 threads, 2 slots, 1 request, 3 ids, 2 revisions | counts exact, snapshots sound, closes end |
| `recovery_source` | histories to 4 pages, 4 page generations | one page suffices and comes back, both sides end |
| `supervisor` | 3 clients | the service is disposed of once, by its sole holder |
| `command_gate` | 2 commands, 2 authority changes | permits are counted and kept only where the start was cancelled, the elected end happens, the drain ends |
| `process_admission` | 2 workers and the owner, epochs to 2 | no cycle of waits, settled stays settled |
| `worker_pool` | capacity 6 | the steering reserve and the demands |

Why the bounds are enough. Capacity 2 makes the ring wrap with messages in it,
and two senders compete for the slot that one receive frees. Three threads on
two admissions give a waiter beside two holders. One worker for three callers
gives a running, a woken and a sleeping caller, and 3 bytes for descriptors of up
to 2 reach the byte limit. Three commands on three revisions give a refused, a
committed and an unknown command in one history, and use a revision number again
after a recovery. In `coherence` three stores give a replaced store, the one in
service and a reopening that failed or was aborted; two commands let one write
while the other is on its way out of a replaced store or in doubt, and revisions
to 1 reach exhaustion. One commit is enough to make a fact stale, and one elector
because electors meet only at locks they try; the theorems cover any number. One request per slot and three ids over
two slots reach the request limit and use a slot again. Four page generations
cover the replay of a short history, and run out in that of the longest. Three clients leave
two leases out when the third is dropped. Two authority changes let a command
lose its authority and another be authorized after that. Epochs to 2 allow a fence,
its reopening and permits of before, during and after it; the next fence meets
the limit. Capacity 6 lets a cold preparation, which needs four
permits, be granted and refused. The counter, token, revision and generation
bounds stand for the integer limits of the code, which are guards there too.

Runs that check a liveness property use no symmetry and pay for it with smaller
instances. Their safety properties were also checked, under `Spec`, on larger
ones: `FixedChannel` with counters to 3 (975,771 states), `HealthGate` with
three generations (453,430), `ReconciliationRegistry` with three slots, three
tokens and 4 bytes (8,121,984).

Symmetry is used only in the safety runs `writer`, `coherence` and
`process_admission`, over threads no operator tells apart. Deadlock checking is off where everybody may
be done: the channel with both halves dropped, a closed home, an ended replay,
service or gate, and an election once its counters are used up.

### Configurations outside the list of runs

These are run by hand in the same way; all but the last three rows end without
an error.

| Configuration | Module | Checks | States |
|---|---|---|---|
| `PagePool.cfg` | `PagePool` | pages conserved, leases counted, no foreign bytes, generations distinct | 304,068 |
| `SteeringLane.cfg` | `MCSteeringLane` | claims, launch gate, joins, single delivery, fresh retries, quiet end | 6,280,746 |
| `SteeringLane_live.cfg` | `MCSteeringLane` | admitted inputs are tried, parked ones retried, shutdown ends | 364,656 |
| `ProviderBroker.cfg` | `ProviderBroker` | replies, holders, permit order, closing, ends of both threads | 9,159 |
| `WindowAdmission.cfg` | `WindowAdmission` | exclusion, committed and closed window sets | 2,053,043 |
| `HandoffCoordinator.cfg` | `HandoffCoordinator` | no blind sleep, pauses have a cause and end, due jobs are reconciled, shutdown ends | 186,738 |
| `CatalogQuery.cfg` | `CatalogQuery` | custody of reads exact, releases owed, nothing stale, every request ends | 50,533 |
| `ThemeWatch.cfg` | `ThemeWatch` | no change lost, queue coalesced, changes arrive, worker ends | 19,174 |
| `GeneratedReaders.cfg` | `GeneratedReaders` | no protocol error, reservations agree, closed means reaped, closes end | 10,089 |
| `GeneratedReaders_receipt.cfg` | `GeneratedReaders` | `AcknowledgementDelivered`: violated | |
| `SteeringLane_publication.cfg` | `MCSteeringLane` | `AdmittedIsTried`: violated | |
| `SteeringLane_budget.cfg` | `MCSteeringLane` | `AdmittedIsTried`: violated | |

The mutants in these modules are the deliberately wrong forms their properties
were tried against. `SteeringLane_live.cfg` has no publications and a budget
that is not used up, because of the disagreements below.

## Disagreements met while modelling

Each is a behaviour of the model that contradicts a line of the repository. None
was reproduced by running the program.

1. `provider_broker/channel.rs:257`. The ingester finds its queue empty and
   cancellation requested (`ingester/core.rs:55-56`), leaves its loop and closes
   the acknowledgement slot (`core.rs:150`). A submitter that passed the checks
   of `channel.rs:206` before the cancellation can enqueue in between; it finds
   the slot closed without a reply and panics. The comment at
   `channel.rs:254-256` says "the ingester guard normally prevents this branch".
   (`ProviderBroker.cfg` with `INVARIANT NeverClosedUnanswered` for its
   properties.)
2. `provider_broker/ingester/core.rs:91`. When its live permit is refused the
   ingester stores the cancelled flag before it installs the terminal reply
   (`core.rs:93`). `doc/failures/cas-provider-broker-terminal-ack-ordering.md:32-34`
   says "Terminal completion now atomically installs the exact reply and closes
   later admission under the acknowledgement-slot mutex. Only after that
   linearization point may the ingester publish cancellation and retire."
   (`ProviderBroker.cfg` with `PROPERTY TerminalReplyFirst`.)
3. `beryl-wsl-supervisor/src/linux/sys.rs:252`. Taking a Closed frame up for
   sending removes the whole queue of its reader. If an automatic Closed and the
   Closed that acknowledges a close racing it are both queued behind a blocked
   write, sending the first drops the second, and the backend keeps its slot.
   `beryl-wsl-supervisor/doc/design.md:122-123` says "An automatic terminal
   receipt preserves its admitted reader reservation until an explicit final
   next-sequence cancel or close is acknowledged."; the test at
   `tests/native_readers.rs:322` asserts that acknowledgement without a blocked
   write. (`GeneratedReaders_receipt.cfg`.)
4. `catalog_query/worker.rs:119`. The worker takes a release from the queue under
   one lock and removes the collection under a later one (`worker.rs:132-137`).
   In between a response of the dismissed collection counts as current
   (`admission.rs:3-14`) and is accepted (`catalog_query.rs:191`). Its consumer
   has further checks of its own. `beryl-app/doc/design-catalog-and-composer.md:92-93`
   says "Late completion after supersession, cancellation, dismissal or recovery
   is discarded with its bounded custody." (`CatalogQuery.cfg` with `PROPERTY
   DismissedIsDiscarded`.)
5. `connection/router/permit.rs:636`. The end of a publication sends TargetReady
   only if the target became ready by it (`permit.rs:599-604`). A worker that met
   the publication was refused the target (`active_steering.rs:512-521`) and left
   the input; a target that was ready before gets no wake after.
   `doc/failures/cas-active-steering-blanket-retry-cooldown.md:29-30` says
   "Admitted work is immediately schedulable." (`SteeringLane_publication.cfg`.)
6. `accepted_input_scheduler/steering.rs:291`. A scan that used up its budget
   keeps its bookmark and wakes itself; a TargetReady for an entry before the
   bookmark is merged with that wake, and the scan ends without visiting it.
   `syndic-storage/doc/design-history-storage.md:859-860` says "The owning
   traversal must restart from the beginning when a change can create eligible
   work behind that bookmark." (`SteeringLane_budget.cfg`.)

## Fairness

- `FixedChannel!FairSpec`: threads that can run do, a pending deadline passes,
  and a wait past its deadline returns, as `wait_timeout` guarantees.
  `NoLostWakeup` is what holds without the clock.
- `HealthGate!FairSpec`: an operation finally drops its admission. The fairness
  is strong because an operation may nest another any number of times before.
  The owner continues when it may. Nothing is assumed of new requests.
- `ReconciliationRegistry!FairSpec`: a caller that can run does, and hooks
  return. The code has no guard against a hook that panics
  (`reconciliation.rs:235`). `CallsReturn` is conditional on calls not being
  started for ever, since a mutex promises no order between callers.
- `FrozenReads!FairSpec`: threads and the owner go on with a call they began.
- `RecoverySource!ReplayFairSpec`: both threads run. Rejection, failing and
  unwinding are choices of those steps.
- `ServiceSupervisor!SupervisorFairSpec`: a worker that is not asleep runs, a lease is
  dropped, an owner that began to shut down goes on, and a monitor that observed
  a failure sends it. Nobody has to acquire, fail or shut down.
- `LiveCommandGate!GateFairSpec`: threads run and a command drops its permit. The
  retirement of the runtime may be refused and is asked for again, so its
  fairness is strong. A service need never be closed. A kept permit is not
  dropped by anybody, and the property allows for it.
- The configurations outside the list: the threads of each service run, whoever
  owes a wake sends it, a publication ends, the kernel reports a dead child.
  Clients are not obliged to call anything.

## What is proved

TLAPS checks every theorem below for all values of the constants that satisfy
the named assumptions. These say that the sets of threads are finite where they
are counted, that capacities and bounds are positive, and that model values do
not coincide with labels.

A module that proves several components extends them. All but the first
therefore name their `Init`, `Next`, `Spec` and type invariant after themselves
(`PoolSpec`, `BoundarySpec`, `GateSpec`, `SupervisorSpec`, `ReplaySpec`). They
share no state. What the proofs need of finite sets is stated as a hypothesis of
the lemmas (`Countable`, `Counting`, `Weighed`, `Few`) and discharged before the
theorems, from the library's facts about cardinality: with those in scope
throughout, every step is slow.

- `FixedChannel` (`FixedCapacityProofs`): `TypeCorrect`, `RingIsConsistent`,
  `WakeupsAreNotLost`, `FifoIsImplemented`. The inductive invariant adds that a
  caller inside a send holds its message, and the refinement that a call under
  way has not answered. `PushTailRing` and `TakeHeadRing` carry the modular
  arithmetic; `PushTailAppends` and `TakeHeadRemoves` say that storing and taking
  append to and remove from the queue that the ring stands for.
- `WorkerPool` (`FixedCapacityProofs`): `PoolConservesPermits`,
  `PoolKeepsSteeringReserve`, `PoolDemandsAreUnmet`, `PoolTellsRefusedLanes`. The
  reserve follows from conservation and the admission test of each class; that a
  refused lane is told needs `ArmedIsUnserved`: a demand that is still armed could
  not be served now.
- `HealthGate` (`HomeBoundaryProofs`): `TypeCorrect`, `AdmissionsAreCounted`,
  `ReopenIsExclusive`, `WakeupsAreNotLost`, `FailuresStopPublication`,
  `AvailabilityIsImplemented`. The invariant adds `Phases` (which gate states go
  with which owner position), `Borrows` (who may use a candidate) and
  `GenerationsAgree`. Exclusion rests on these: a reopening gate admits nobody,
  and the drain ended at zero. The refinement maps each step to one step of
  `HomeAvailability` or to a stutter.
- `MutationObservation` (`HomeBoundaryProofs`): `BoundaryTypeCorrect`,
  `ElectionsAreCurrent`, `QuietHomesAreIdle`, `StaleObserversAreWoken`,
  `RevocationsAreFinal`. The invariant adds that one writer is active, that
  `active` says so, and that nothing changed since an observation whose revision
  is still current. That a drop spares its successor needs that registrations are
  numbered once and no two electors own the same one.
- `HomeCoherence` (`ElectionProofs`): `ElectionsPublishCurrentFacts`,
  `ElectionsFreezeTheHome`, for any number of commands, electors, stores and
  generations. The invariant ties each lock to the step of the election that
  holds it (`LocksOK`) and says what each lock keeps while it is held
  (`Guarded`): quiet for the boundary, only vacant scopes for the registry,
  health for the gate. `Lineage` says that every store but the last is closed,
  and the last one open while the home is healthy: an election that passed its
  checks is on the last store. `OneWriter` says that a command with a storage
  outcome not yet settled is on the last store, whatever store it was called on,
  so records change only behind an active boundary there. `Effects` follows a
  command's scope and doubt through its steps, and shows that no effect is in
  doubt under the three locks, although no lock guards doubt itself. `Intervals`
  says that facts read since an observation are current while its boundary is
  open and its revision stands.
- `LiveCommandGate` (`FixedCapacityProofs`): `OnlyUnstartedKeeps`,
  `CutExcludesShutdown`. The invariant has the exact count of live permits
  (`Exact`), which election the worker and close may act on (`Followed`), the
  phase of the cut at each of the worker's steps (`Cutting`) and the moments at
  which there are no permits (`Permits`). A permit that has to decide finds an
  ordinary shutdown elected, and is released, or a worker that left without
  having started (`Unstarted`), and is kept. A drain ends when the count is 0, so
  the last part rests on the count.
- `ReconciliationRegistry` (`BackgroundWorkProofs`): `TableStaysConsistent`,
  `OneRunner`, `NoWorkerIdles`, `CloseFindsNothing`, `ResolutionsStay`. `Owned` says that a
  slot owns the scope it indexes and that tokens are fresh, `Claimable` that a
  flight somebody may claim belongs to a scope still verifying. One runner per
  flight follows, and from it that nobody overwrites a resolution. `Awake` is the
  wakeup argument: while a thread sleeps, workers in use and threads on their way
  to one are together no fewer than the capacity. `Charges` carries the bytes: the
  sum of the charges is the number of pairs of a scope and a position below its
  charge (`Bytes`). A step charges one vacant scope (`Recharged`) or empties a set
  of them (`Uncharged`), so the number changes by the bytes of those scopes, with
  no induction over the table.
- `ServiceSupervisor` (`BackgroundWorkProofs`): `ServiceNeverStranded`,
  `ShutdownIsTruthful`. The holders of the service are exactly the slot, the
  worker and the clients that use a lease (`Held`), leases are counted until their
  reference is gone, and the worker passes its wait only at 0. So it is the sole
  holder when it takes the service apart.
- `ProcessAdmission` (`AdmissionReplayProofs`): `ShutdownNeverWaits`,
  `SettlementHolds`. `InOrder` says that a thread holds an initial part of its
  operation's locks. A thread that waits for the registry holds at most the
  process lock, one that waits for the process lock at most the gate, and one
  that waits for the gate nothing. A cycle would need one that holds more.
  `Permits` says that a permit of the current epoch was issued after the last
  fence, and `Reservations` counts those of permits and of window selections
  together.
- `FrozenReads` (`FrozenReadsProofs`): `RetentionBounded`, `SnapshotsShown`. The
  invariant says what a call holds at each of its steps (`CallOK`), that `active`
  counts the requests on a slot (`Counted`), that a slot not yet committed has one
  owner and no handle (`Reservations`), and that nobody is in the generation once
  its owner has taken it (`Generation`). `Snapshots` is the part about references:
  a slot keeps its snapshot while a request is on it, and both are of the revision
  the handle records. That nothing outlives the generation needs all of them: the
  owner passes a slot only when its count is 0, and a closed slot admits nobody.
- `RecoverySource` with `PagePool` (`AdmissionReplayProofs`): `ReplaySafe`,
  `ReplayStaysSound`, for every length of the history, every last generation and
  every width of the counters. The invariant is a protocol of turns: the driver
  has the turn, or waits for the service (`ServiceTurn`, one case for each place
  the request, the lease and the reply can be), or the exchange is over. In each
  the page is free, with one thread, or dropped and not yet back, and the pages
  replayed are all that the cursor yielded, or all but the one under way.
  Rejection, a page the driver stops at and unwinding of either side lead to one
  of these cases.
- `HomeWriter` (`HomeWriterProofs`): `TypeCorrect`, `BatchesAreSerial`,
  `PreparedCommandsAreCurrent`, `CommitsAreDurable`, `RefusalsAreAbsent`,
  `ReconciliationsAreTrue`. `HomeWriterInvariant` states the invariant; the two
  modules prove it step by step. `JournalOK` says that batches are numbered, each
  command wrote at most one, and each record names the batch it came from.
  `SampledOK` ties sampled revisions to the generation they were read in.
  `TailOK` says which command may own an unsynced batch. That is what a crash
  needs: what it drops belongs to a caller that was told neither Committed nor
  ExactNew. `ScopesOK` ties the two sides of a retained scope to the journal.

TLC also finds each inductive invariant true in every reachable state of the
component's listed configuration.

Only model-checked: the liveness properties, which the prover does not handle
(`CallsReturn`, `DrainEnds`, `CloseEnds`, `BothEnd`, `DisposalEnds`), and the
modules checked outside the list of runs, for which no inductive invariant is
written. Every invariant, action property and refinement of the listed runs is
proved.

## Not modelled

`PROJECT.json` lists every part with a reason. In short: encodings, content
validation and files are sequential transformations of bytes; the interface,
process launch and transport are input and output around external programs;
syndic storage and the conversation workflows are several hundred thousand lines
of record validation over the writer, with little concurrency of their own. The
modelled part is a small share of the repository's lines for that reason. Of the
application, the lanes of the scheduler other than steering, stop ownership, and
`app_services/attempt.rs` are left out: they decide over provider and history
state that would have to be modelled first.

## Plan

1. Proofs for the modules outside the list of runs, `SteeringLane` first: its
   permits are those of `WorkerPool`.
2. `ExactSuccessor`, candidate commands and natural records that return to an
   earlier value in `HomeWriter` (`reconciliation.rs:600`).
3. The other lanes of the scheduler over `WorkerPool`, and stop ownership.
4. Durable jobs of `beryl-state`, then the discussion gate over them.

## Running

    tlc -config FixedChannel.cfg FixedChannel
    tlc -config HomeWriter.cfg MCHomeWriter
    tlapm FixedCapacityProofs.tla

`PROJECT.json` pairs every configuration of the list with its module; the table
above does so for the others.
