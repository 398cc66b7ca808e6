# A TLA+ model of agentyc's host

agentyc lets agents work in a Chrome the user has open. A host process (Rust,
`crates/agentyc-host`) keeps *logical spaces* (groups of pages) in a ledger,
grants *leases* on them, fences them when authority changes hands, and sends
actions to the browser through a *bridge*. This project models the host: who may
do what to a space and when, what the bridge does with it, what clients observe
of it, and the process around it.

All paths below are relative to the repository; `broker.rs`, `ledger.rs`,
`cdp.rs` and so on are in `crates/agentyc-host/src`.

## 1. Inventory

| Part | State it keeps | Operations | What is hard about it |
|---|---|---|---|
| Operation scheduler (`scheduler.rs`) | one mutation permit and FIFO of waiters per space, read slots and their FIFO, under one mutex and condition variable | `acquire_mutation`, `acquire_read` (plain, cancellable, with deadline), dropping a permit | waiters give up while they stand in line; map entries removed while somebody waits; bounds |
| Broker (`broker.rs`, `leases.rs`) | in memory: host lifecycle, connections, lease holders; in the ledger: spaces, leases, pending fences, control tickets, takeover proofs, pages, receipts, queues | `hello`, `disconnect`, `acquire_lease`, `return_control`, `takeover`, `pause_space`, `handoff_space`, tickets, pages, `finish_space`, actions, reconciliation | the lock is left around every bridge call, so each operation is several critical sections; authority may be gone at each |
| Ledger (`ledger.rs`) | the durable records and their validity rules | `update` (validated transaction), `recover_after_restart` | a crash between any two critical sections |
| CDP bridge (`cdp.rs`, `bridge.rs`) | bindings of pages to targets, each with a lease epoch | `create_page`, `close_page`, `dispatch`, `fence`, `observe`, `rebind_page` | commands that arrive after the fence that should refuse them |
| Native messaging (`native_messaging.rs`) | handshake, sequence numbers and cursors, pending and timed-out requests, event queue, artifact transfers and their budget | `request_value`, the reader thread, artifact begin, chunk and end, `take_artifact` | late and duplicate answers, a timeout against an answer, an event queue that overflows, bytes left in the budget |
| Event router (`event_router.rs`) | bounded, coalesced history with cursors | publish, resume, read | gaps, a new broker epoch, cursors inside a merged event |
| Waits (`waits.rs`) | a registration with its own router and what it has observed | register, poll, cancel | commits between poll and sleep, responses before requests |
| Snapshots and references (`snapshots.rs`, `refs.rs`, `actionability.rs`) | a durable record and a cache entry per page, generations, active references | read, put, mark dirty, issue, act | a navigation between scan and commit, events later than observations |
| Context (`context.rs`) | none: what `snapshot.read` answers | focus, compaction, deltas, budgets | a base that does not fit, budgets that just miss |
| Connections (`protocol.rs`, `local_ipc.rs`) | record of requests, cancellation tokens, workers of waits | hello, request, cancel, close | a cancel that races its request into a worker |
| Host process (`bin/agentyc-native-host.rs`, `host.rs`, `ledger.rs`) | lock file, ledger file, two sockets, endpoint file | start, take over, supervise, leave | processes that start while others die or leave |
| Chrome extension (`extension/src`) | tab registry, tab-creation worker, port | messages | service-worker restarts |
| Node SDK, MCP server, CLI | one connection | wrappers | |

How they interact: clients reach the broker over local IPC; the broker calls the
ledger under its own mutex, and the scheduler and the bridge outside it; the
bridge talks to Chrome and reports lost targets and outages back to the broker
(`apply_bridge_event`, `mark_degraded`).

What makes the modelled parts correct:

* a space has one mutation at a time, requests are served in order of arrival,
  and a request that gives up leaves nothing behind (scheduler);
* nobody becomes the holder of a space without a new lease epoch, and a space
  the user has is only given back for the ticket issued for it (leases, fences);
* an action takes effect at most once, never under an epoch that was fenced, and
  what the ledger says of it agrees with what the browser did (actions);
* a finished space has no open page and no open action (finish);
* every write satisfies the ledger's own rules, whatever came before it;
* a call to the extension or to Chrome returns, its answer reaches the call it
  belongs to, and what it reports of the browser is true (bridges);
* a client misses no event without being told, and a wait neither sleeps through
  its event nor matches one that does not satisfy it (events, waits);
* a reference is acted on only in the document it was scanned from (snapshots);
* an answer that leaves something out says so, and a delta applied to its base
  gives the document (context);
* a cancel that was confirmed before a request ran keeps it from running
  (connections);
* an update that was acknowledged survives every restart, and the process that
  serves is the one clients find (host process).

`PROJECT.json` lists every hazard with its line and the properties about it.

## 2. Modules

| Module | Models | Based on |
|---|---|---|
| `FifoLock` | what the scheduler promises mutations: one line per space, the head holds | abstract |
| `Scheduler` | `scheduler.rs`, one action per critical section | refines `FifoLock` |
| `SchedulerProofs` | theorems about `Scheduler` | |
| `CdpBridge` | page bindings, epochs and effects of the live bridge | |
| `BrokerState` | the broker's state for one space and its shared checks | extends `CdpBridge` |
| `BrokerLease` | connections, host lifecycle, restart, leases, fences, tickets | extends `BrokerState` |
| `BrokerPages`, `BrokerFinish` | pages; the end of a space | extend `BrokerState` |
| `BrokerActions` | enqueue, dispatch, reconcile | extends `BrokerState` |
| `SpaceAuthority` | who may act on a space | abstract |
| `Broker` | the composition, and its properties | refines `SpaceAuthority` |
| `BrokerProofs` | theorems about `Broker`: authority, fences, the mutation in the bridge | |
| `BrokerLedgerProofs` | queues, receipts, effects, pages, the end of a space | extends `BrokerProofs` |
| `BrokerAuthorityProofs` | tickets, and the refinement of `SpaceAuthority` | extends `BrokerLedgerProofs` |
| `BrokerClaims` | what documents and comments say and the code does not keep | |
| `NativeMessaging` | the extension port, both ends | |
| `NativeArtifacts` | artifact transfers on the port, both directions | |
| `CdpClient` | the DevTools commands inside one bridge call | |
| `EventRouter` | the event stream, durable and in memory | |
| `Waits` | `wait.for` | extends `EventRouter` |
| `Snapshots` | snapshots, generations, references | |
| `Context` | what `snapshot.read` answers | |
| `Requests` | one local connection and its workers | |
| `HostProcess` | the processes over one state directory | |
| `InductionProofs` | induction over numbers and finite sets, sums, filtered sequences | |
| `NativeProofs` | theorems about `NativeMessaging`, `NativeArtifacts`, `CdpClient` | uses `InductionProofs` |
| `ObserveProofs` | theorems about `EventRouter`, `Waits`, `Snapshots` | uses `InductionProofs` |
| `ServiceProofs` | theorems about `Requests`, `HostProcess`, `Context` | |
| `MCScheduler`, `MCBroker`, `MCNative`, `MCObserve`, `MCService` | instances for TLC | |

### Scheduler

A thread is idle, waits, or holds a permit (`pc`); `mutations`, `active`,
`waiting`, `activeReads` and `readQueue` are the fields of `State`. `wait_for`
re-examines the state at least every 25 ms, so lost wake-ups are not a matter of
correctness and the condition variable is not modelled. `signal[t]` says that the
call's token is cancelled or its deadline past; threads in `Patient` use the
entry points that take neither. `DropMutationPermit` and `DropReadPermit` are the
`Drop` implementations with the removal of empty map entries.

### Broker

Every operation concerns one space, so the model has one. A `with_inner` block is
one atomic step: it runs under the broker's mutex and `Ledger::update` undoes it
if it fails or if the result breaks a rule of `validate_state`. Bridge calls are
made outside the lock. An operation that makes one is therefore several steps,
and what it captured before leaving the lock is a record in `fencing`,
`creating`, `closing`, `finishing`, `dispatching` or `reconciling`. `Restart` is
a crash at any point: these sets and everything kept in memory are gone, and the
next process has run `recover_after_restart`.

| Code | Actions |
|---|---|
| `takeover`, `pause_space`, `handoff_space` | `Takeover`, `BridgeFence`, `RebindPages`, `FinishFence`, `SettleFencedSpace`, `FenceEnds` |
| `return_control` | `ReturnControl`, `BridgeFence`, `FinishUserReturn`, `FenceEnds` |
| `acknowledge_fence(_with_ttl)`, `acknowledge_return_control` | `AcknowledgeFence`, `AcknowledgeReturnControl`, then as above |
| `create_managed_page` | `CreateManagedPage`, `BridgeCreatePage`, `BindManagedPage`, `CreateEnds` |
| `close_page` | `ClosePage`, `BridgeClosePage` or `BridgeCloseFails`, `FinishClosePage` or `CloseFailed`, `CloseEnds` |
| `finish_space` | `FinishSpace`, `ListMissingPages`, `SweepPage`, `DrainSpace`, `CleanupPage`, `BridgeCleanup`..., `CompleteFinish` |
| `dispatch_action` | `DispatchAction`, `AdmitMutation`, `GrantPermit`, `RecheckDispatch`, `BridgeDispatch` or `BridgeDispatchFails`, `FinishDispatch` |
| `reconcile_action` | `BeginReconcile`, `FinishReconcile` |

What is abstracted:

* `page`, `receipt` and `lease` keep the fields that guards read. Lease times are
  one flag, `expired`, that time may set at any moment. `now` is read once per
  operation, so the later checks of an operation (`StillAuthorized`) do not see
  an expiry the first one did not. `renew_lease` only keeps `expired` from being
  set, which time may do or not do anyway: it has no action of its own.
* Page generations are not kept. A generation that moved on can only refuse the
  last step of an operation, and `CreateEnds`, `CloseEnds` and `FinishEnds` allow
  that at any time. `reconcile_bridge_pages` only moves generations forward.
* The mutation permit inside `dispatch_action` is an exclusion without an order;
  the order is `Scheduler`'s subject.
* `executed[a]` counts what the browser really did, which no code can read; it
  ties receipts to effects. `barrier`, `issued` and `spent` are such history too:
  the largest fenced epoch the bridge acknowledged, and the control tickets that
  clients got and that were accepted.
* `ExtensionAttached` is `TRUE` for the production bridge: `rebind_page` is then
  refused, and the fence of a space with bound pages is never acknowledged (see
  section 3, disagreements). `FALSE` stands for bridges without extension epochs, as in the
  repository's tests, and lets runs explore what follows a completed fence.

### The extension port and the DevTools client

`NativeMessaging` has a caller per request. `Register`, `Post`, `Receive`,
`TimeOut` and `RememberTimedOut` are the steps of `request_value` between which
the reader thread can run: an answer may find the caller's entry, the note of its
timeout, or, in between, neither (which closes the connection). Sequence numbers
are given when a message is numbered and written later, so two callers can write
in either order; the extension then fails the port, as its code does. The
extension is modelled from `native-messaging.mjs`; what it does with a request is
external and counted in `performed`. Message shapes are one predicate, `WellFormed`.

`NativeArtifacts` keeps for a transfer how many bytes have come and whether they
are the right ones. `CdpClient` expands a call of `CdpBridge` into its commands:
each is answered, rejected or lost, and `effect` is what really happened. Only one
call has the bridge's mutex; the person at the browser and the pages go on.

### What clients observe

`EventRouter` keeps every event of an epoch in `log`; what the ledger still has is
its suffix `Durable`. `Ingest`, `Replay` and `IngestBatch` are the router's own
methods and are used for the broker's router and for the one of each wait. A wait's
own router is given only the events its scope and its principal's spaces admit, so it
merges over the ones that are left out: what stands for what is relative to the
events a router was given (`MergedInto(i, j, among)`). `reader.cut` is history: a
batch was larger than the limit the client gave. The
payload of an event is a `tag`: what the matchers of `waits.rs` tell apart. A wait
is a loop of `ReadGeneration`, `Poll` and `Wake`; commits come in between.

`Snapshots` compares two clocks: `live`, the browser's target, document and content
(`dom`, which stands for the snapshot's hash), and `known`, the generations in the
ledger. `read_snapshot` on a miss is `ScanObserve`, `ScanReconcile`, `ScanPage` and
`ScanCommit`, with everything else possible between them. `from` in records and
references is history: the document that was really scanned.

### The service

`Context` is an algorithm: a question (document, base, mode, focus, budgets) and
one step to its answer. Documents are small trees of elements whose value is
absent, plain, sensitive or masked; costs count elements and metadata. The client's
`SnapshotDelta::apply` is modelled as well, so that a delta can be checked against
the document it should give.

`Requests` is one connection. `HostProcess` has a `pc` per process; a process on its
way out drops what it holds in the order `cleanup` gives, which differs between the
error paths of `run`. Sockets and files are named by the process that made them.

The three modules of each `MC` module share no variable: `part` says which of them
a behaviour is about.

Definitions named "Altered" or "Mutant" are plausible mistakes in the code next to them. No
specification uses them; they show that the property they are paired with in
`PROJECT.json` notices the mistake.

## 3. Runs

Deadlock is checked for the scheduler. The broker's runs bound epochs, restarts
and connections and may stop when these are used up.

| Run | Instance | Checks |
|---|---|---|
| `scheduler` | 4 threads (2 uncancellable), 2 spaces, 1 read slot, wait queues of 2 | permits exclusive and within bounds, tokens and map entries neither lost nor leaked, every waiter returns, an uncancellable one is served, `FifoLock` is implemented |
| `authority` | 2 clients, 5 lease epochs, 1 restart, 2 requests in flight, failing writes | `SpaceAuthority` is implemented, a ticket is accepted once, `AuthorityValid` (the part of `LedgerValid` about leases, fences, tickets and proofs) |
| `actions` | 2 sessions of a client, 1 page, 2 mutations (one closes the page), 2 in flight | `LedgerValid`, effects agree with receipts, fences stop work, one mutation in the bridge, settled outcomes stay, no effect under a fenced epoch |
| `outcomes` | 1 session, 2 mutations, queues at their limit | an action that reached the bridge gets an outcome |
| `finish` | 2 sessions, 1 page, 1 action, 2 in flight, failing writes | a finished space is clean |
| `whole` | all operations, 2 pages, a restart, host outages, lost targets | `LedgerValid`, `FinishedIsClean` |
| `native` | 2 callers (one a fence), 1 timeout remembered, an event queue of 1; 2 artifacts of 0 to 3 bytes for 2 actions, budget of 4 and 6 bytes; 2 pages, 3 documents, 4 calls | calls return, answers belong to performed requests, lost events leave a marker, the budget is the bytes in flight, completed artifacts are whole and go to their owner, reports of the DevTools client are true and a failed creation leaves no tab |
| `observe` | 4 events per epoch of which 3 are kept (3 network events), 2 epochs, reads of 1 and of 4 events, waits of every kind at every cursor; 1 page, 2 frames, 3 changes, 2 references | no event is missed by a reader or a wait, a sleeper has seen the last event, responses and idle are matched rightly, references act on their own document, generations never go back |
| `service` | documents of up to 3 elements with every base, mode, focus and budget; 1 call, 2 waits, 6 frames, a record of 2; 3 processes | deltas reproduce the document, omissions are marked, cancels hold and end waits, acknowledged updates last, the serving process is reachable |

Bounds. Two sessions or clients are what a conflict needs; two pages let
`finish_space` be interrupted between them; two mutations let one be late while
the next is admitted. Five epochs give a space to the user twice, which a ticket
that is used late needs; two epochs are enough for one fence with late work on
both sides. Two requests in flight are an operation and the one that overtakes
it. Two callers are one that times out and one whose answer comes meanwhile; queues
of one or two overflow at once. Four events with three kept give a cursor
every position, before, in and after the gap, and let a wait's router merge two
events over one that it is not given. Three processes are one that leaves, one
that takes over and one that becomes a shim. `MaxRecovering = 1` in `service` lets
one process at a time be between judging a lock stale and removing it: with two,
`AckedDurable` fails too, for the reason `lock_race` shows. The second of two sessions of the same client is interchangeable with the
first: the safety runs use that symmetry.

Fairness. Scheduler: a waiting thread re-examines the state every 25 ms and a
permit is dropped when its operation returns. Broker (`DispatchProgress`,
`FenceProgress`): a request in flight is a thread of the host, its bridge calls
have deadlines, so it goes on. Port (`PortFairness`): a caller's `recv_timeout`
ends, and an answer taken out of `pending` is sent on; nothing is assumed of the
extension or of the reader's input. Connection (`RequestFairness`): a worker begins,
looks at its token every 50 ms and proves its authority with every read, and a
closing connection is closed. Nothing is assumed of clients, of time or of
crashes. `RetrySpec` adds a client that keeps retrying its fence.

### Disagreements with documents and comments

Three are runs that TLC refutes; `PROJECT.json` quotes the lines.

* `late_creation` - `CdpBridge::create_page` compares its epoch with nothing, and
  a space without pages acknowledges every fence: a delayed creation makes a
  target under the fenced epoch.
* `reconcile_crash` - a crash during a reconciliation leaves it in progress, which
  `begin_reconciliation` refuses from then on.
* `lock_race` - `LedgerLock::acquire` judges a lock stale and then removes whatever
  has its name. Of two processes that do so for one dead owner the second removes
  the lock the first has just created, and both load the ledger.

The following are definitions of the modules that TLC refutes when they are put
into the configuration named; each contradicts the text quoted beside it.

| Definition | Configuration | What happens | Against |
|---|---|---|---|
| `PausedIsQuiet` | `MCReconcileCrash` | work enqueued between the fence of a pause and its settling stays queued | broker.rs:1742 "A pause cancels queued work" |
| `OnlyHolderActs` | `MCReconcileCrash` | `acquire_lease` after an expiry has no fence; the old session's dispatch takes effect | architecture-existing-chrome.md:21 "A different connection cannot mutate or reconcile that space" |
| `FenceRetrySucceeds` | `MCReconcileCrash`, `RetrySpec`, `ExtensionAttached = TRUE` | the pages carry the new epoch, the retry sends the old one | broker.rs:1552 "The caller may retry" |
| `FreshCursorAccepted` | `MCObserve` | after an event that demands a resync the router refuses every cursor, the one it hands out included | event_router.rs "safe as a new registration point" |
| `LaggedMeansLost` | `MCObserve` | the wait's own router takes a batch that starts after hidden or foreign events for a gap | broker.rs:4690, "manufacture sequence gaps for multi-space clients" (the wait's own router does get the filtered batch) |
| `ReadsComplete` | `MCObserve` | `events.read` cuts the batch and returns the cursor of the whole of it | plans/phase-5-context-and-automation.md:94 "at-least-once replay semantics" |
| `IdleIsQuiet` | `MCObserve`, `NetworkKind = "page.changed"` | network events of a coalescible kind are merged whatever they say, and an open request disappears | the same plan, lines 94 and 112 |
| `PendingBeforeDeadline` | `MCObserve` | a condition on quiet that is satisfied without an event marks the wait finished and leaves it pending for good | waits.rs, `WaitOutcome::Pending` |
| `CleanIsCurrent` | `MCObserve` | after `Degrade` or a bridge event has dropped the record, `mark_snapshot_dirty` marks nothing, and the cache still serves | broker.rs:4565 "Mark a cached page dirty" |

Two more are visible in the actions. `mark_closed` tells waiting callers of a
failure, though the request was dispatched (`MarkClosed`; the execution plan of the
task spaces says "a lost response after dispatch is typed `unknown`"). And a process
that dies between creating its lock and writing its token leaves an empty lock that
is never judged stale (`CreateLock`, `KillHost`, `StaleLockOwner`).

Also met while modelling, and not stated as properties:
`finish_user_return` and `mark_page_lost` write closed pages as well, so a closed
page can become managed again; `finish_space` uses an inventory taken before the
lock, so a page that got its target in between is taken for closed; `disconnect`
leaves the space agent-owned; after an expiry `acquire_lease` leaves the actions of
the old epoch at the head of the queue, where the new holder cannot dispatch
them; a dispatch refused by the scheduler or at its second check leaves its
receipt Running. On the bridges: the seventeenth artifact that nobody has taken
closes the connection; a DevTools client that was lost once stays unusable; the
release of a click may be rejected after its press and the click is reported as
failed. On connections: the record of requests is never emptied, so a long-lived
one ends up refusing; a wait sent twice under one id runs twice. On processes:
`remove_socket_if_owned` removes any socket at its path, `supervise_native_connection`
installs a forwarded bridge before its handshake is complete and ends the process
when its hello is refused, and an accept loop that fails is not started again.

## 4. Proofs

Every safety property that a run checks is also a theorem, with one exception
(`FenceBarrier`, below): the run shows it on a small instance, the theorem for every
value of the constants that satisfies the module's named assumption. Each theorem
rests on an inductive invariant; this section says what had to be added to the
property to get one.

### Scheduler (`SchedulerProofs`)

For any number of threads and spaces and any limits (`SchedulerAssumption`):
`TypeCorrect`, `PermitExclusive`, `WaitersKeepToken`, `ReadsBounded`, `NoEntryLeaks`
and `GrantsInOrder`.

That a permit is exclusive is not inductive alone: a waiter is granted because it
is the head of its queue and `active` is false, so one needs that `active` is true
exactly while a thread holds the space, that every waiter's token is in the queue
of its own space, once, and that the space has a map entry. `MutationInv` is that
conjunction. Reads are independent of it: `ReadInv` says that `activeReads` is the
number of threads holding a read permit, from which the bound and the absence of
an underflow follow. The lemmas `AppendToken`, `TailToken` and `RemoveToken` say
what the three changes to a queue do to the set of tokens in it; from them and from
`MutationInv` it follows that an entry goes with the last thread that needs it.
`GrantsInOrder` maps a space's holder and its queue to the one line of `FifoLock`
and shows each step to be a step of it or none.

### Broker (`BrokerProofs`, `BrokerLedgerProofs`, `BrokerAuthorityProofs`)

For any connections, principals, pages and actions and any bounds
(`BrokerAssumption`).

`AuthorityInv` strengthens `AuthorityValid` (`AuthorityStaysValid`). Two facts have to
be added to make it inductive. A takeover proof must not survive into a lifecycle in
which somebody else may become the owner (`acquire_lease` keeps the proofs and changes
the owner), and its epoch is never larger than the lease's, so that a new epoch makes
it unusable instead of valid again (`ProofInv`). And only a pause or a handoff
settles its space after the fence (`SettleInv`), or else `SettleFencedSpace` could
leave an agent-owned space with a fenced lease. Operations on pages and on actions
are shown to leave authority alone; recovery, leases, fences and the end of a
space each have a lemma with one step per action.

`WorkInv` adds to `FenceStopsWork` and `OneMutationInBridge` the shape of receipts
and dispatches (a dispatch that is to be recorded has an outcome, a queued action
has a page). Its proof uses `AuthorityInv`. `FenceStopsWork` is kept because
everything that creates work needs an agent-owned space, and because each way into
a fenced, user-owned or orphaned space either interrupts the work or comes from a
space that had none; the latter is the takeover by ticket, which does not look at
actions at all. `OneMutationInBridge` needs that a dispatch gets past its admission
only while nobody else is (`FencedSpaceIsQuiet`, `MutationsExclusive`).

`LedgerInv` is about queue, receipts and effects: the queue holds exactly the queued
actions, once each; at most one mutation is `Running`; an action has at most one
dispatch in flight, which has performed it only when it comes back with an outcome;
what is queued, cancelled or new was never dispatched. Without the part on dispatches
in flight `ActionsPerformedOnce` is not inductive, because a late `FinishDispatch`
would be free to contradict the receipt. `OutcomesStayFinal` is the action property
that goes with it. `PageInv` adds the page records that can occur and that a queued
mutation's page is managed; together they give the whole of `validate_state`
(`LedgerStaysValid`). `FinishInv` says that a request which has come to the closing of
pages belongs to the epoch in which it drained the space, unless that epoch is over;
hence no other holder's page is found open in a finished space (`FinishedSpaceIsClean`).

`SessionInv` is what the refinement needs: nobody holds the user's space, and a
ticket is spent for an epoch that is over. From it, `TicketsSingleUse`, and step by
step `BrokerGrantsAuthority`: the broker implements `SpaceAuthority`.

### The bridges (`NativeProofs`)

For any requests, queue limits, artifacts, budgets and targets.

* `PortInv`: a request is in one place at a time (`Journey`): on the wire, with the
  extension, answered, taken by the reader thread, in its caller's channel. Each place
  says how often the request was performed. `PendingRequestsHaveCallers` and
  `AnswersAreTrue` follow. `EventLossIsVisible` is inductive with the type of the queue.
* `ArtifactInv`: a buffer is what a begin declared and the chunks since, a handle
  is about the request of its action (`CompletedArtifactsAreWhole`, `BytesReachTheirOwner`).
* `BudgetInv`: the bytes in flight are the sum over the buffers. It needs what a sum is
  after one buffer is added, grown or removed: `SumRemove` of `InductionProofs`.
* `CdpInv`: a call's remaining commands end with the one that makes it take effect, and
  have no other such (`BridgeReportsAreTrue`, `FailedCreationsLeaveNoTab`).

### What clients observe (`ObserveProofs`)

Snapshots: `SnapInv` says that a snapshot, a reference and a scan in progress carry
the generations of the document they were really taken from (`ActionsMeetTheirDocument`,
`GenerationsNeverMoveBack`).

Events: `StreamInv`, for any retention of the ledger and of a wait, any scopes,
conditions, templates, limits and restarts (`EventAssumption`, `WaitAssumption`). Its
heart is one statement about a router, proved once and used for the broker's and for
every wait's: the router's events are in order, are events of the log, are among those
it was given (`Ordered`), and for every number it was given since the oldest it
retains one of them stands for it, by being it or by merging it (`Covers`). `IngestKeeps`
shows that taking the next event keeps this, in the two cases of merging and of
appending with the oldest dropped. From there, in the order of the code:
`ReplayDelivers` and `ResumeGives` (what the broker answers to a cursor), `FeedAll` and
`BatchTaken` (what a batch does to a wait's router, by induction over the batch),
`ObserveAllGives` (what the events of a poll do to the state of a wait, by induction
again) and `PollStep`. The wait's part of the invariant says that its notes are complete
up to its cursor, and that the generation it read is not later than the cursor it sleeps
with. `NothingMissed`, `NoLostWakeup`, `ResponsesMeetRequests` and `IdleMeansQuiet` are
read off it. The last has a hypothesis, `RequestsKept`: events of requests are not of a
kind that the router merges. Section 3 has what happens without it.

### The service (`ServiceProofs`)

* `RequestInv`: a request whose cancel was confirmed is barred, by its record or by its
  token (`CancelledRequestsNeverRun`).
* `HostSafety`, for any number of processes, under the hypothesis `MaxRecovering = 1`
  (one process at a time between judging a lock stale and removing it, which the code
  does not enforce; `lock_race` shows the case of two): the lock is its owner's, what was
  acknowledged is in the file and in what the owner is about to write, who serves is
  published (`AcknowledgedUpdatesStay`, `ServersAreReachable`, `LiveOwnersKeepTheirLock`).
* `DeltasReproduceTheDocument` for any two documents; `OmissionsAreMarked` for any
  finite one.

### Induction over data

The library's induction theorems take an operator as a parameter, which the provers
at hand cannot instantiate. `InductionProofs` states them for a set instead
(`SetInduction`, `SubsetInduction`, from the library's theorem that a well-founded
relation has minimal elements): the property to be proved is the set of the arguments
that have it. Recursive functions are shown to exist the same way (`FilterExists`,
`SumExists`, `FedExists`, `ObservedExists`), since a recursive definition is a `CHOOSE`.

### Only model-checked

* Liveness, which is outside the proof system: `EveryWaiterReturns`, `OutcomeRecorded`,
  `CallsReturn`, `CancelEndsWait`.
* `FenceBarrier` (no effect under a fenced epoch). It holds in the instance of `actions`,
  whose pages are made by `create_managed_page`. It is not a theorem of `Spec`: when the
  page of a `create_managed_page` in flight is bound by hand meanwhile and a fence without
  targets is acknowledged, the late creation stamps the page with the old epoch, and the
  bridge accepts a dispatch of that epoch. The cause is the one `late_creation` shows.
* The disagreements of section 3.

## 5. Plan

1. `CdpBridge` as the abstraction that `CdpClient` implements, and the broker's page
   generations as state instead of refusals.
2. `FenceBarrier` under a hypothesis that excludes late creations.
3. User-intent tickets and profile rebinding in the broker
   (`mark_profile_rebind_required`).

## 6. Not modelled

File formats, encodings and the JSON shapes of messages (each is one predicate);
what a DOM scan extracts; redaction rules beyond the value of an element. Profile
rebinding and user-intent tickets in the broker. Eviction from the snapshot cache by
bytes, tombstones of references and evidence on layout, which only refuse more.
Reuse of a process id, and Windows paths of the host. Dialogs, downloads, traces and
metrics: bounded side state without authority, changed by single calls under one
lock. The bridge router and the fakes; the extension beyond its port; the SDK, the
MCP server and the CLI, which wrap one connection; probes, fixtures and scripts.
`PROJECT.json` lists each part with its reason.
