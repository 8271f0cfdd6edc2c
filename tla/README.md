# OpenAB: a TLA+ model of the broker's durable protocols

OpenAB connects chat platforms to ACP coding agents. Most of the repository is
I/O: adapters, formatting, configuration, deployment. What can go wrong in ways
no unit test reaches is the small part that keeps durable state next to an
external effect (a Discord message) or shares state between tasks. This project
models that part in TLA+, checks it with TLC and proves the main results with
TLAPS.

Paths below are relative to `src/`; `core/` stands for
`crates/openab-core/src/` and `cp/` for `crates/openab-cp/src/`.

## 1. Inventory

### Native workflow service (`core/workflow/`)

State: two JSON files of a project, `workflow_assignment.json` (stage, revision,
defect-loop counter, last transition, last message) and
`workflow_transitions.json` (the ledger: transition id -> RESERVED, PENDING,
DELIVERED or FAILED, and a message id); in memory, the `reconciled_projects`
cookie of each daemon. Operations: `on_turn_complete` after every agent turn
(load ledger, startup recovery on the first turn of a daemon, load assignment,
validate the completion claim, `commit_protocol`), `commit_protocol` (reserve a
row, save, mark PENDING, save, send one activation to the next bot, save the
assignment, mark DELIVERED, save), `reconcile_project_workflow`. Several daemons
(one per bot) share the files of a project with no lock between them. Called from
the dispatcher's consumer (`core/dispatch.rs`), wired in `src/main.rs`.

Hard: every `await` and every file write can be followed by a crash; writes fail;
a send reported as failed may have posted; a restarted daemon "repairs" rows that
belong to a live one; the id of a claim and the id of the row it is filed under
are computed by two different rules. Correct means: a transition wakes the next
bot at most once, what was announced is what is entered, the ledger never says
less than what was posted, a failed send stops the workflow instead of retrying,
work goes back for correction once.

### Terminal delivery outbox (`core/terminal_delivery.rs`, `core/terminal_delivery_worker.rs`)

State: one SQLite row per result of an agent turn (state, revision, attempt
counters, lease, message id, times). Operations: the repository's
compare-and-set transitions, each one Immediate transaction; `capture_and_deliver`
by a live turn (`core/adapter.rs`); `deliver_ready`; the reconciliation manager's
passes (`reconcile_once`): recovery of PENDING_RESULT and of stale DELIVERING
rows, delivery of READY and due RETRY rows, bounded reads of the remote message
for AMBIGUOUS ones.

Hard: workers hold copies of the row across awaits; a timed-out send may have
posted; a claim looks stale while its owner is only slow; several managers spend
one read budget; an operation takes two updates. Correct means: posted at most
once, never "delivered" without a message, never "rejected" after one, bounded
work, and every row ends somewhere.

### Native completion outbox (`core/native_completion.rs`)

State: a JSON file of completion envelopes (PENDING, DELIVERED,
PERMANENT_REJECTED) mirrored in memory. Operations: `capture`, `mark_delivered`,
`mark_permanently_rejected`, `submit`, `replay_pending`. Hard: live submission
races replay and the marks overwrite each other; memory changes before the file.
Correct means: a final verdict is not replaced, and memory and file agree.

### Session pool (`core/acp/pool.rs`)

State: the maps of active, suspended and persisted sessions and the mapping file;
a creating gate per thread; the count of outstanding creations; of each connection
a phase (IDLE, BUSY, EVICTING) and a mutex. Operations: `get_or_create` and its
lane for native dispatches, eviction at capacity, `with_connection`, the queries
that only lock the connection, `reset_session`, `cleanup_idle`, loading the file
at startup. Called by the dispatcher's consumers, commands and a timer.

Hard: several locks, some only tried; reservations, gates and claims that are given
back by destructors when a caller is cancelled; cleanup removes what it looked at
before; the maps and the file change at different moments. Correct means: active
plus outstanding never exceeds `max_sessions`, a thread's session is never created
twice at once, a session claimed for eviction has no prompt, one prompt at a
time, a crash loses no session of a live thread, no session stays busy for ever.

### Thread dispatcher (`core/dispatch.rs`)

State: a map of per-thread handles (channel, consumer task, generation); in each
consumer a queue, a message held back and the current batch. Operations: `submit`
with one retry, the consumer loop, `cancel_buffered_thread`, the sweep of finished
consumers, shutdown. Hard: the handle is cloned under a lock and used after it; a
submission parked on a full queue whose receiver goes away; generations that tell a
stale submitter from a fresh one; lanes of one thread that share a session. Correct
means: one consumer per key, messages in order and once, native messages alone, a
second attempt that does not repeat the first one's mistake, no submission that
waits for ever.

### Delegation control plane (`cp/router.rs`, `cp/registry.rs`, `cp/policy.rs`, `cp/server.rs`)

State: delegations in flight by (namespace, id) with the token of their admission;
the registry with a session counter per instance; an admission lock. Operations, on
the connection tasks: register, `delegate`, `complete` (peek, send, commit),
`cancel`, teardown with `fail_instance`; on a sweeper: `sweep_leases`,
`sweep_deadlines`. Hard: the table is locked without the admission lock, so that
results, removal, rollback and the re-admission of an id interleave; the registry
and the table are two locks; an instance is torn down twice. Correct means: a slot
is taken and given back once, an admission ends for its own reason and once, a
child's chain is its parent's, nothing stays in flight for the dead, every
admission ends.

### The rest

ACP connection, agent lease and admission, completion bridge and operators'
commands, conversation gating, schedulers, chat adapters, formatting and media,
configuration, ACP tunnel, webhook gateway, MCP client, platform schema and the
companion programs are listed in `PROJECT.json` with the reason each is not
modelled: they are I/O or pure conversions, or small sequential objects that come
after the concurrent ones.

How the parts meet: a chat adapter hands a message to the dispatcher, whose
consumer prompts an agent through the session pool; the text of the finished turn
goes to the terminal delivery outbox (the user's answer), to the native workflow
service (a role's completion claim) and to the native completion outbox (a
callback to the platform). The three share no state: a module each, with the
turn's text as an input, loses nothing of their interplay. Dispatcher and pool do
share something, the claim of a session: `Dispatcher` keeps the claim as
`SessionPool` shows it to behave, including that it may outlive its turn. The
control plane is a process of its own.

The hazards, each with its line and the properties aimed at it, are in
`PROJECT.json`.

## 2. Modules

| module | what it is |
| --- | --- |
| `WorkflowStages` | stages, roles, results, the transition table, the cap on correction rounds (`state.rs`, `validator.rs`) as sets and operators |
| `NativeWorkflow` | the two files, the daemons' turns, crashes, failed reads and writes |
| `NativeWorkflowPromise` | what the workflow promises: announce the next stage, then enter it |
| `NativeWorkflowProofs` | theorems about `NativeWorkflow` when turns do not overlap |
| `NativeWorkflowOverlapProofs` | theorems about `NativeWorkflow` that survive overlapping turns |
| `TerminalDelivery` | the outbox row, live turns and reconciliation managers |
| `TerminalDeliveryPromise` | what the outbox promises: post at most once, one true verdict |
| `TerminalDeliveryProofs` | theorems about `TerminalDelivery` |
| `DelegationRouter` | the in-flight table, the registry, connection tasks and sweeper of one namespace |
| `DelegationPromise` | what the control plane promises of an admission: open for a while, then ended once |
| `DelegationRouterProofs` | theorems about `DelegationRouter` |
| `SessionPool` | maps, gates, reservations, phases and mutexes; callers, cleanup, restarts |
| `SessionPoolProofs` | theorems about `SessionPool` |
| `Dispatcher` | submissions, consumers and the lanes of one thread |
| `DispatcherPromise` | what the dispatcher promises the senders: each message handed over once or refused, one server of a key |
| `DispatcherProofs` | theorems about `Dispatcher` |
| `SumTheorems` | lemmas about least numbers and recursively defined sums, for `DispatcherProofs` |
| `MCNativeWorkflow`, `MCTerminalDelivery`, `MCDelegationRouter`, `MCSessionPool`, `MCDispatcher` | instances for TLC |

Definitions named "mutated form of ..." are what a plausible slip would turn the
definition after them into; they are used by nothing and only exist so that each
property can be shown to fail when the code is wrong (`mutants` in
`PROJECT.json`).

### NativeWorkflow

`assignment` and `ledger` are the durable files; `reconciled` the set of daemons
whose cookie is set; `turn[d]` what `on_turn_complete` holds in memory of daemon
`d`, with `step` naming the place where it is; `activations` the messages Discord
posted, in order (a message's id is its place). One action per access to a file
or await:

| action | code |
| --- | --- |
| `BeginTurn` | entry of `on_turn_complete`, the claim in the turn's text, the cookie |
| `RecoverLoad`, `RecoverClassify`, `RecoverSave` | `reconcile_project_workflow`: ledger, assignment and classification of the rows, save; an unreadable ledger panics |
| `LoadAssignment`, `Validate` | load, `replay_state` and `validator::validate`: role, stage, transition table, correction cap, duplicates |
| `ReserveRow`, `SaveReserved`, `SavePending` | `commit_protocol` up to the durable PENDING row; stages that need no message go straight to the assignment |
| `Send`, `SaveFailed` | the activation: posted and reported, posted and reported as failed, or not posted; the FAILED row |
| `SaveAssignment`, `SaveDelivered` | the commit proper and the row's final state |
| `Crash` | the daemon stops at any step; its next turn runs recovery again |

A write either replaces the file or leaves it (`save_atomic`), and a failed write
takes the code's error path. `delivered_at`, which pruning sorts by, is represented
by the revision: deliveries happen in that order. The transition id is the tuple
the code hashes, without the workflow id (there is one) and the role (the stage
fixes it). Assignments are created by code outside this module, so `Init` has one.

A read fails in one of four ways, as the code has it. Recovery tries an unreadable
ledger twice more and then panics: the turn ends and the cookie stays (`RecoverLoad`).
An unreadable assignment proves no row to recovery: RESERVED rows are released,
PENDING ones stay, and the cookie stays too (`RecoverClassify`). The validator takes an
unreadable ledger for one without the row (`Validate`), so that only the second read of
`ReserveRow` is in the way of a repetition. The reads of `LoadAssignment` and
`ReserveRow` end the turn.

Left out: two daemons writing the same temporary file at the same moment, two turns of one
daemon at once, several workflow ids in a ledger. `RecoveryOutcome::MismatchedAssignment` is
documented in the code but nothing produces it, so the model has no such case.

### TerminalDelivery

`rec` is the row in the database, with the fields the code decides by; `reads`
the durable counter of evidence reads; `worker[w]` the place of each worker and
its copy of the row (`snap`); `sends`, `posts` and `gets` count what happened at
Discord; `faults` bounds crashes and failed writes. Each repository call is one
action, because each is one Immediate transaction: `Cas` is the compare-and-set
on state, revision and, where the code asks for it, lease. `Send` has the four
outcomes of `send_terminal`: accepted, permanently refused, refused for now,
unknown (timed out or cut after the write), the last with or without a post.
`TimePasses` lets the stored time become past and a claim become stale; it may do
so while the worker is alive, which is more than the five-minute bound
allows and therefore safe for the invariants.

A refused send (429, 5xx, failed connect) is taken not to have posted, as
`classify_adapter_error` says. A post that lands after the timeout is the same as
one that landed before it: an AMBIGUOUS row without a message id can only go to an
operator. Left out: corrupt payloads, integrity and lookup errors, errors of the
database itself, several rows (their candidates share a pass but no state), an
operator's decision about a held row (no code of this component makes it).

### DelegationRouter

`inflight[i]` is the admission that holds id `i`; an admission is named by its token,
and `adm` keeps the entry of every admission, which never changes. `active` are the
session counters of the registry, `listening` the handles whose outbound queue still
has its receiver, `task[t]` what the connection task of a handle or the sweeper has
under way. The last six variables are history: what was queued for whom and how
each admission left the table. Each critical section of the table, of the registry
and each `try_send` is a step.

| action | code |
| --- | --- |
| `Register`, `Break`, `DropReceiver` | the life of a connection task: `register_conn`, the `RegistrationGuard`'s deregistration, the end of `handle_connection` |
| `Delegate`, `Select`, `Reserve`, `Insert`, `Forward` | `delegate` under the admission lock: duplicate check and parent, `Registry::select` and `policy::check`, `adjust_sessions`, the insertion, the frame |
| `Rollback`, `Unreserve` | a forward that was refused: `remove_generation`, the slot |
| `Result`, `Deliver`, `Commit`, `FreeSlot` | `complete`: `peek_for_completion`, the frame to the initiator, `commit_completion`, the slot |
| `Cancel`, `ExpireLease`, `SweepDeadlines`, `FailInstance` | the other endings take their entries out of the table |
| `Release` | and then see to them one by one: the slot, the notice, the cancel |
| `Tick` | the clock |

Frames are refused where the code looks at the answer (`Forward`, `Deliver`); elsewhere
the code does not look, and the model counts the frame as queued if the handle is
registered. Which of the unsaturated candidates `select` prefers, the order within a
pass and the length of a lease are left open: any lease may expire, up to
`MaxLosses`. A request to close a connection is not kept: its task may break at any
idle moment anyway. One namespace is modelled. Entries and registrations of two
namespaces do not meet; what they share is the process-wide
`max_inflight_delegations`. A delegation refused because others use the bound up is
refused before anything is reserved, so here it is a `Delegate` that does not happen,
which no fairness excludes. `Delegate` merges the reads of the table under the lock:
between them entries only go. Left out: quotas and authentication of connections,
heartbeats, `list_agents`, what a queue contains.

### SessionPool

`active`, `suspended` and `persisted` are the maps, `saved` the file; `gate`,
`outstanding`, `phase` and `mutex` the things that callers take and give back;
`task[a]` the place of a caller and what it has read; `stale` and `hung` what the
cleanup pass has found and not yet removed. Every critical section of the state lock
is a step, so is every await on another lock or on an agent.

| action | code |
| --- | --- |
| `Begin`, `Look`, `Reserve`, `Evict`, `Exhausted` | `get_or_create` up to its reservation: the gate, the snapshot, the look at the old connection, `ensure_capacity_or_evict` |
| `SpawnFails`, `Connect`, `Yield`, `Insert` | the process, `session/load` or `session/new`, and the second look under the lock |
| `Prompt`, `Claim`, `Refused`, `Enter`, `Unlock`, `Release` | `with_connection` with its compare-and-set of the phase and its `PhaseGuard` |
| `Ask` | the calls that only lock the connection; they share `Enter` and `Unlock` |
| `Cancelled` | the caller's future is dropped at an await, and its locals with it, the last first |
| `Reset`, `Scan`, `Sweep` | `tear_down`, the two passes of `cleanup_idle` |
| `Die`, `Restart` | an agent process ends; the daemon ends and reads the file |

A session is named by the connection that opened it. Ages are not kept: any unlocked
session may be old enough, any prompt long enough, and any of the idle sessions the
oldest. `Scan` is one look at all connections, where `cleanup_idle` tries their locks
one after the other; what it has found is acted on later in both, after everything has
been free to change. Left out: project bindings and workspaces, facade tokens, failed writes of
the mapping file, `resume_approval`, the pass over all sessions at shutdown.

### Dispatcher

A consumer is named by its generation (the counter and the order of spawns are the
same thing). `registered` is the map `per_thread`; `queue`, `held`, `batch` and `step`
are the consumer's; `call[m]` is how far the submission of message `m` is and with
whose channel; `session` is the claim of the thread's session. History: what each
consumer was sent and has made turns of, and the messages refused by a session in use.

| action | code |
| --- | --- |
| `Look`, `Enqueue`, `SendFails`, `Evict`, `Retry` | `submit`: the entry of the map, `tx.send`, `try_evict_locked`, the second attempt |
| `Collect` | `consumer_loop`: the first message, the drain, the limits of the batch, `pending` |
| `TimedOut`, `Leave`, `Finish` | the idle exit, the receiver dropped, the task finished: three moments a submission can see |
| `EndsEarly`, `Prompt`, `Refused`, `EndTurn` | `dispatch_batch` by how it ends, with the claim of `with_connection` |
| `Die` | an aborted consumer at an await, or a panic in a turn |
| `Cancel`, `Sweep`, `Renew` | `cancel_buffered_thread` and shutdown, `sweep_stale`, a thread's new session |

`Collect` is one step: the drain does not wait, and a message that arrives during it
could as well have arrived before it; the channel and a batch have the same capacity,
so that such a message never exceeds either. Senders parked on a full queue are not
ordered among themselves. How far an aborted task runs on is left open. A consumer
may only be lost while one more can be spawned for each key (`Spare`), so that the
bound on consumers never cuts a retry short. A thread has one session here, for
native and ordinary prompts; in the code a native dispatch has a session of its own
(`SessionPool` has both). It matters only when a lost consumer's claim outlives its
turn: the next consumer's turn is then refused here even if it is of the other kind.
Left out: what a turn does, and the
ingress checks of a native dispatch.

## 3. Runs

All bounds are in the `.cfg` files and the MC modules. Symmetry is used only in
runs without liveness properties, over daemons, callers or ids that are alike.

| run | question | bounds | result |
| --- | --- | --- | --- |
| `workflow_serial` | do crashes, failed reads and failed writes at any point, in any number, break the ledger, repeat a message or the promise? | 2 daemons, any claims, all roles configured, ledger of 3 rows; revisions are bounded by the protocol itself | holds |
| `workflow_two_bots` | what survives when daemons' turns overlap? | 2 daemons with disjoint roles, no bot for the last stage, ledger of 1 row, up to revision 2 and 3 messages | holds |
| `workflow_overlap` | and is a message still never repeated? | 3 daemons, each its own role | **violated** |
| `delivery_managers` | safety, the promise and liveness of a row, with racing managers | 1 turn, 2 managers, 2 attempts, 1 read, 2 claim tries, 1 fault | holds |
| `delivery_budget` | are sends within the attempt budget? | 1 turn, 1 manager, 1 fault | **violated** |
| `router_two` | slots, endings, the promise and liveness of admissions | 2 agents, 1 id admitted twice, 2 losses, 3 instants | holds |
| `router_chain` | is ancestry that of the right admission? | 3 agents, 2 ids admitted 3 times in all, nobody lost, no time passes | holds |
| `router_orphan` | does the loss of a target fail its delegations? | 2 agents, 1 admission, 1 loss | **violated** |
| `pool` | capacity, exclusion, crash safety and privacy | 2 threads (one native), 2 slots, 2 callers, 2 processes, 1 restart | holds |
| `pool_stuck` | is a busy session always somebody's? | 2 threads, 1 slot, 3 callers, 2 processes | **violated** |
| `dispatcher` | one consumer, order, batches, the promise, and the end of every submission | 1 key, 3 messages (one native), queue of 2, 3 consumers | holds |
| `dispatcher_lanes` | do turns of two lanes wait for each other? | 2 keys, a message each, 4 consumers | **violated** |

Why the bounds are enough. In the serial workflow nothing is bounded but the
data: the number of crashes and turns is free, and the protocol ends in a terminal
stage after at most six commits. Three rows make pruning happen with rows to
keep and rows to drop; one row makes it happen at every delivery. Overlapping
turns need a bound because daemons can send for ever; the third revision includes
a restart during another's commit, which is the smallest harmful overlap. In the
outbox two attempts make "another one left" and "the last one" different; two
managers and a turn are the smallest set in which a worker can be overtaken twice;
one fault separates any two steps of a worker. In the router, one id admitted twice
is the smallest table in which a late step of the first admission meets the second,
and two losses let either end of it be torn down by its task and by the sweeper; a
chain needs three agents and a third admission to be a grandchild. In the pool two
slots let a dead session occupy one while its thread reconnects through the other,
and two threads and two callers contend for both; the third caller of `pool_stuck`
is the query that keeps a prompt waiting. In the dispatcher three messages fill a
queue of two and park the third, and three consumers let a consumer be lost twice.
The theorems of section 5 have no such bounds; those of the workflow hold when turns
do not overlap, some also when each bot has a role of its own, and only `TypeCorrect` and
`Announced` whatever overlaps.

Fairness. Outbox: weak fairness of each manager's next step, because `spawn` runs
`reconcile_once` on a timer for as long as the process lives and every step of a pass
ends (I/O has timeouts), and of `TimePasses`, because clocks advance; live turns
get none, since a turn may crash or hang for good. The network's bad luck is bounded
by `FlakyUpTo`: without a bound no retry loop could be shown to end. Router: weak
fairness of a task's steps once it has begun (frames are handled without awaiting a
peer), of the deadline sweep (a timer) and of the clock; none of `Register`, `Break`,
`Delegate`, `Result`, `Cancel` or lease expiry, which are the peers' and the
network's choice. Dispatcher: weak fairness of each submission once it has begun
and of each consumer's steps (a prompt has a time limit); none of the idle timeout,
cancellation, abortion, sweep or session renewal. Each is a property of the runtime's
scheduler and of bounded awaits.

There is no liveness property of the workflow: by design a FAILED row or an
UNKNOWN_DELIVERY stops it until a person acts ("no automatic retry"). There is none
of the pool: `with_connection` refuses instead of waiting, and section 4 shows why a
refusal need not end. Deadlock is not checked in the outbox, the router and the
dispatcher: they stop when the row is settled, when every connection is gone or when
every message has been dealt with.

## 4. What the violated properties show

Each quotes the code's own words; `PROJECT.json` has the lines.

1. `AtMostOneActivation` with overlapping turns: a daemon reserves a row and posts
   its message while another's first-turn recovery, which had read the row as
   RESERVED, writes the ledger back without it. The first daemon's assignment write
   fails, its next turn finds no row, and it announces the transition again.
2. `SendsWithinBudget`: an exhausted row passes through RETRY_SCHEDULED with a past
   time before it is held; a crash in between, or another manager, sends once more.
3. `DisconnectFails`: a target is torn down after it was selected and before the
   entry is inserted; its receiver still takes the frame, and the entry stays until
   its deadline. `SlotsAreCounted`, `NothingForTheDead` and `Settles` hold in spite of it.
4. `BusyMeansPrompt`: a caller cancelled while it waits for the lock of a connection
   that it has marked BUSY, or in its prompt, leaves the session BUSY with nobody in it.
5. `TurnsSerialise`: a turn of one lane is refused, and its messages are gone, while
   another lane prompts.

None of them breaks "posted at most once" of the outbox, which is proved.

## 5. Proofs

All proofs hold for every value of the constants that satisfies the named
assumptions in the modules (sets of daemons, workers, callers, keys and messages of
any size where the assumption does not ask for a finite one, any budgets and bounds,
any subset of configured roles).

`NativeWorkflowProofs`. `TypeCorrect` needs nothing more. The other theorems assume
`Overlap = FALSE`: without it `NoDuplicateActivation` is false (`workflow_overlap`), and
the invariant relates a turn's memory to files that nobody else writes meanwhile.
The safety properties are not inductive: they speak of the files and of what was
posted, while the next write depends on what a turn holds in memory. `IInv` adds
three kinds of facts: what the files say (no row is about a later revision, the
only row about the present one is the one the commit files its claim under, a
correction announced for the next revision is the first), what each step of a turn
knows (its copy of the assignment is the file's, its ledger is the file's with the
row it is about to save, whether its message is out), and that at most one turn is
under way. `Inductive` proves it with one lemma per action; the properties of
`workflow_serial` follow at every state, and `Refinement` shows that `Send` is an
announcement, `SaveAssignment` an entry, and every other step a stutter of
`NativeWorkflowPromise`.

`NativeWorkflowOverlapProofs`. What is left when turns of several daemons overlap and
nothing locks the files. `Announced` needs no assumption: an invariant follows a
message from the send through the memory of its turn (`ToldInv`), whatever the file
has become meanwhile. The other theorems assume `OneWriter`: turns do not overlap, or
(`RolesAreOwned`) no two daemons' agents claim the same role, which is the deployment
the code is written for, one bot per role. A stage has one role, so that among the
turns that have validated a claim against the present assignment all belong to one
daemon, and a daemon has one turn at a time: what such a turn has read of the
assignment is still the file when it writes (`WriterInv`). `NeverRegresses` is the
action property; `DeliveredAreCommitted` follows the rows from claim to commit with an
invariant (`DeliveryInv`) over the ledger, the copies of it in memory and what a
recovering turn is about to save. `WorkIsBounded` has a variant that weighs stage and
correction rounds: revisions end at six, so that no sequence of claims, crashes and
recoveries makes the bots wake each other for ever. `MessagesAreFew` is about turns
that do not overlap: every message announces one of the revisions one to five
(`Paced`: the sixth is the terminal one, for which nobody is woken) and no two
announce the same (`AtMostOneActivation`), so that there are five at most. With
overlapping turns `AtMostOneActivation` is false, and so are the invariants that
equate a turn's ledger with the file's.

`TerminalDeliveryProofs`. No assumption beyond those on the constants. `IInv` relates
the row to the copies that workers hold: a copy is never ahead of the row, a copy
of the row's revision agrees with it in state, lease and message, a worker between
its claim and the end of it is the only one there, what it is about to write is
true of the posts, and a row in an unsent state was not posted. Without the part
about copies a worker's late update could not be told from a timely one. One lemma
(`AdvancePreserves`) does the work of every compare-and-set; each action then shows
that it is one. `PostedOnce`, `VerdictsAreTrue`, `DeliveriesAreEvidenced`, `Counted`
and `Refinement` follow. `ReadsBudgeted` has an invariant of its own: reads made plus
workers about to read are at most the reads on record, because each of them put one
there; it is the one place where the number of workers matters, and it shows that
at any moment only finitely many have a read to make.

`SessionPoolProofs`. The invariant has five layers. Counting: the reservations counted
are those held by callers in `spawn` and `insert`. Gates: a caller creating a thread's
session holds its gate, and only its own call's end gives it back. Connections: a
caller between claim and release is the only one and has found the phase idle, a
claimed connection is marked busy, a new connection is known to its creator alone, one
key per connection, an evicted connection is out of the map. Files: the mapping
names the session of every live thread. Owners: no two threads last had the same
session, the one in the pool is the last, and what a caller is about to load or to put
in the pool is its thread's or nobody's yet; the layer needs the gates (nobody else
changes what the thread last had meanwhile) and the files (what is resumed is what it
last had). `Capacity`, `OneCreation`, `Exclusion`, `EvictionsAreSafe`,
`CrashKeepsSessions` and `Privacy` follow; the cancellation of a caller is a case of
each.

`DispatcherProofs`. To `TypeOK` and the properties, the invariant adds that consumers
not yet spawned have nothing and nobody calls them, and that a submission that was
refused has a consumer that no longer receives. With it `OneAtWork`, `OrderKept` and
`RetriesElsewhere` are inductive; order is an equation of sequences (sent = made turns
of, followed by held and queued) that each action rewrites. `BatchesFit`: the weight
of a batch is a recursive function; that it depends only on the messages in the batch
is shown without induction, by the least length at which two weights could differ
(`WeightOfFront`, with `SumTheorems`, which also shows that the recursion defines
what it says). `Refinement` needs three more facts (`RInv`): a consumer is registered
for its own key, a submission is with a consumer of its key, and the submission of
whatever a consumer was sent is over. Spawning a consumer is then the promise's `Open`,
a successful `tx.send` its `Accept`, the end of the second attempt its `Reject`, a batch
its `Take`, the receiver's end its `Close`, a cancellation its `Dismiss`, and every
other step a stutter.

`DelegationRouterProofs`. The invariant has five parts. `Typing`: the types, who may be
inside the admission lock, and that what a task has under way is about an admission of
its own connection. `AncestryFits`: the same of the entries, which never change.
`Recorded`: an admission is in the table, or its slot is owed by exactly one task
(`OwedOnce`), or neither; one in the table has not ended; a task between its read of the
table and its update knows what `Stage` says of it (in admission: its id is free and
there is room, because under the lock the table only shrinks; in a result: the
admission has not been answered yet, or was answered once; in an ending: all of its
batch ended the way its task ends admissions); and each ending has its reason. `DeadFits`:
no entry of an initiator survives the pass of its own teardown. `SlotsFit`: the counter
of a registered instance is the number of admissions in the table or owed that it
serves, and an instance about to be reserved has room. `HowStep` shows for each step
that an ending, once given, stays, which all later parts use. `Slots`, `TrueEnds`,
`Terminal`, `Ancestry` and `NothingLeft` follow. `Refinement` maps an admission to none,
open, completed or ended: `Insert` is the promise's `Admit`, a delivered result its
`Answer`, `Commit` its `Complete`, whatever else takes entries out of the table its
`End`, a notice its `Tell`, and every other step a stutter.

Only model-checked: `Settles` of the outbox and of the router and `EveryMessageEnds`,
because liveness under fairness and ENABLED are out of the prover's reach. Every other
property of a passing run is a theorem.

## 6. Not modelled

The native completion outbox and the components listed under "The rest", with the
reasons in `PROJECT.json`. Within the modelled components, what their sections list
as left out. The composition of `Dispatcher` with `SessionPool` is only through the
claim of a session, as said in section 1.

## 7. Plan

1. `CompletionOutbox` (`core/native_completion.rs`): file and memory, submission
   against replay.
2. Two turns of one daemon at once in `NativeWorkflow`; several rows and the
   candidate batch in `TerminalDelivery`; project bindings in `SessionPool`.
3. Conversation gating, lease heartbeats and schedulers, as far as they keep
   state worth a property.
