# Verification of the trpc-agent service

TLA+ models of the service's message path and of the parts around it, the TLC runs
that check them on small instances, and TLAPS proofs that hold for every value of
the constants. Paths are relative to the repository; `postgres.py` is
`trpc_service/storage/postgres.py`, migrations are named by their number.

## 1. The system

An IM message is accepted into PostgreSQL, executed by a worker as one agent turn
and answered through the IM provider:

    channel --accept--> mailbox rows --outbox--> relay --> Redis stream
       |                    ^                                  |
    emergency stream        |                                  v
    (PostgreSQL down)       +<------- claim/commit ------- worker permits
                            |                                  |
      sweeper, scheduler,   |                           turn: heartbeat, tools,
      reconciler -----------+                           artifacts, summary
                            |
                            +--outbox--> dispatcher --> IM provider

| Part | Code | Module | Hard behaviours |
|---|---|---|---|
| Session mailbox v2 | `postgres.py`, 0008, 0011 | `SessionMailbox` | leases lost and taken over, late commits, two slots of one worker, redelivered messages |
| Recovery roles | 0008, 0011, `agent/session_recovery.py` | `SessionMailbox` | three of them and a claim may take over one expired mailbox |
| SessionReady transport and worker consumer | `queue/session_ready*.py`, `queue/dispatcher.py`, `queue/session_worker_consumer.py` | `SessionReadyTransport` | notices lost, duplicated, stale; Redis rebuilt empty; ack before execution |
| Worker turn | `agent/worker.py`, `agent/runner.py`, `storage/services.py` | `WorkerTurn` | heartbeat beside the turn, answer of a commit lost, post-commit work of two workers |
| Outbound delivery, administrator's replay | `channels/dispatcher.py`, `postgres.py`, `tenant/control.py` | `OutboundDelivery` | claim lapses during the call, unknown outcome, two-step error handler |
| Tool ledger, governance, confirmations | `tool/` | `ToolExecution` | crash between call and finish; takeover of a call that is not idempotent |
| Artifacts and their collection | `storage/artifacts.py`, `storage/services.py`, `storage/artifact_gc.py` | `ArtifactLifecycle` | object and row change in two stores; pages listed before a commit |
| Callback gateway and emergency queue | `web/feishu_gateway.py`, `queue/emergency.py` | `EmergencyIntake` | accept, buffer, replay and ack are separate steps; key rotation |
| Control plane | `tenant/control.py`, `web/admin.py`, `runtime.py`, `agent/registry.py` | `ControlPlane` | lost replies, retried requests, optimistic versions |
| Storage migration | `storage/migration.py`, `storage/production_migration_control.py`, `scripts/` | `Migration` | stalled owners, crash between phases, writes during the copy |
| Mailbox stores | `storage/mailbox.py`, `storage/memory.py`, 0008, 0011 | `MailboxStores` | two implementations of one interface, each with its own recovery loops |
| v1 queue | `queue/worker_consumer.py`, `queue/redis_streams.py` | `LegacyScheduler` | reclaimed entries, cancelled tasks of one process, overlapping acceptances, workers of v2 on the same session |

`PROJECT.json` lists every part with its status, the source lines of every
definition, and the hazards at the line where each bites.

## 2. The models

Every action is one database transaction, one call of an outside service, or one
step of the code between two of them; what a process remembers between two steps is
part of its state. A transaction that locks its row first is atomic. Time is what
the comparisons of the code can tell apart: a lease is null, live or expired, a
retry time null, waiting or due. Crashes, failed calls and lapsed leases use up a
bound (`MaxFaults`, `MaxMishaps`, `MaxLapses`, `MaxLosses`, `MaxLost`, `MaxEvents`); the
proofs hold for every value of it. `MC...` modules give TLC its constants and symmetry.

**SessionMailbox.** Rows of different `(tenant, session)` keys never meet in one
transaction, so the module models one session. `mailbox` and `session` are the rows
of `session_mailboxes` and `sessions`; `queue`, `itemRetry` and `attempt` the items;
`inbound`, `turn` and `log` the messages, their turns and the event log; `ready` the
generations that have a `session.ready.v2` outbox row. A slot remembers what the
code keeps in its `SessionLease`. Any generation that ever had an outbox row may be
claimed at any time and any number of times: Redis at its worst. **OrderedInbox** is
what the mailbox promises: accepted once, resolved in order, one at a time.

**SessionReadyTransport** extends `SessionMailbox` and uses its actions as they are;
a claim now needs a delivered entry. A relay claims a row, publishes it and marks it
in three steps and may die between them; an entry stays pending until it is acked;
the Reclaimer takes over entries of lost or slow holders; `RedisLoss` empties the
stream and the pending list; the Reconciler opens the published row of a queued
mailbox again.

**WorkerTurn.** An execution is named by its fence, so those of the same and of
later turns overlap. Turn task, heartbeat task and the waiting caller interleave at
every await; a commit may succeed and lose its answer; memory and summary are
written after the commit, while the next turn may already run elsewhere. The mailbox
row is the part of `SessionMailbox` that the worker's calls read and write.

**OutboundDelivery.** One reply; `outbox` is its newest outbox row (the index
`uq_outbox_active_outbound` of 0010 keeps at most one open). `work[d]` is where
`_dispatch_record` of dispatcher `d` stands. The provider answers `delivered`,
`failed`, `retryable` or `ambiguous`; only an ambiguous answer leaves open whether it
took the reply. `provider` and `replays` are history variables.

**ToolExecution.** The calls of one turn: governance scan, confirmation token,
budget reservation, audit row, `begin`, the tool itself, `finish`, while the lease is
lost and taken over. `effects` is a history variable.

**ArtifactLifecycle.** One artifact: its row and row lock, the objects of the bucket,
the executions that stage and commit it and the collector. The staging TTL is assumed
to exceed the time between the upload and the commit of one execution.

**EmergencyIntake.** Callbacks with the gateway's route cache, acceptance, the
encrypted copy in Redis, the drainers, and a key rotation in any order. The lookup of
a route and the write of the cache are two steps, so an answer may be cached after the
binding was disabled; `cached` is the time the route still has, `out` the time since
the gateway could last learn that the binding is enabled. An `XADD` may take effect
and lose its answer. `early` remembers that the gateway wrote with a key that some
relay did not have.

**ControlPlane.** One tenant; a request is looked up by its Idempotency-Key, waits
for the row lock, and is applied with its stored response; replies are lost and
requests repeated. **Migration**: the processes that run the scripts, the lease and
write barrier, checkpoints and the configuration pointer.

**MailboxStores.** A behaviour is one deployment, with the in-memory store or with the
PostgreSQL one, chosen in `Init`: the mailbox row, its items, the outbox rows and the
notifications in Redis. Each store has its own acceptance, claim, commit, release and
recovery loops (`Mem...`, `Pg...`). They do not answer every call alike (section 6), so
no equality is checked but the same two properties of each. The lease of the
`sessions` row, which the executors of `SessionMailbox` hold, is left out here, and so
are `recover` and `reconcile` of one session on PostgreSQL, which nothing in the
service calls.

**LegacyScheduler.** v1 consumers with slots, the session lease and the pending list.
Messages are numbered in the order of `(accepted_at, inbound_id)` and become visible in
any order; `ahead[m]` are those that were visible when `m` was accepted. The first
`Old` messages are in the mailbox of v2: its workers claim, commit, retry or give them
up under the same session lease, and `acquire` waits until the mailbox is resolved.

## 3. Runs

| Run | Instance | States | Shows |
|---|---|---|---|
| `mailbox` | 2 messages, 3 slots of 2 workers, 2 attempts, 2 deliveries, 2 faults | 378,567 | no forgotten work, one execution, no lost update, ordered exactly once, no regression, and the refinement of `OrderedInbox` |
| `transport` | 1 message, 1 slot, 2 relays, 2 entries, 1 fault, 1 loss | 161,462 | a wake-up is never lost while Redis keeps its stream; every message is resolved; the service comes to rest |
| `delivery` | 2 dispatchers, 2 attempts, 1 replay, 2 faults, 2 lapses | 348,508 | no duplicate, no silent loss, calls within budget, late answers fenced, every reply settled |
| `tools` | 3 invocations of 2 tools, 1 token, budget 2, 2 fences | 92,249 | one effect at most, recorded successes are real, effects authorised, ledger fenced |
| `worker_turn` | 2 turns, 3 claims, 2 attempts, 2 faults | 1,048,689 | work under the lease, whole history, harmless late failures, derived rows of committed turns only |
| `artifacts` | 3 executions, 2 faults | 514,782 | a commit finds its object, a committed row keeps row and object, leftovers are collected |
| `emergency` | 2 messages (one refused by PostgreSQL), 2 drainers, 2 faults, a cache of 2 ticks, any rotation | 192,463 | an acknowledged message is stored or buffered, a disabled binding is closed in time, the stream drains |
| `control_plane` | 2 administrators, 3 keys, 1 message, 2 revisions, 1 lost reply | 600,709 | a key applies once, no lost update |
| `migration` | 2 processes, 2 records, 2 events, all three modes | 2,570,377 | pointer and control state agree, the barrier covers the target, a comparison holds, a pass is complete |
| `mailbox_stores` | either store, 2 messages, 2 workers, 2 faults | 186,684 | the status tells what the head needs, everything is resolved |
| `legacy_scheduler` | 2 consumers with 1 slot, 4 messages (1 of them in v2), 1 fault | 89,527 | commits in order, nothing lost, the stream drains but for two named blockages |
| `delivery_stranded` | 2 dispatchers, 1 lapse | | violation: section 6 |

**Bounds.** Two messages make a head and a successor, three slots a worker with two
slots and a rival, two attempts a retry and a give-up, two faults a takeover of a
takeover. Two dispatchers and two lapses let each lose its claim to the other in
mid-call, and one replay lets the administrator act in between. Three invocations
under two fences make a call, its repetition and a takeover; three claims a fenced-out
execution, its successor and the next turn. Two relays let one publish what the other
already sent. Larger instances only repeat these; where a theorem exists it removes
the bound. `transport` has one permit: that a second one takes over the entry of a live
holder is not reached. `legacy_scheduler` has fewer slots than messages, so that the
starvation of section 6 is reachable; with one slot per process a consumer never finds
its own message already active, which only the proofs cover. The generations and epochs
of `mailbox_stores` are capped where two faults cannot reach. `emergency` has one
callback per message because its liveness is checked too; the theorems have any number.
Slots of one worker, invocations, administrators, keys and processes are
interchangeable, hence the symmetry; no run with a liveness property uses it.

**Deadlock** is checked in `mailbox`, `transport`, `delivery` and `artifacts`, whose
loops never stop. The others really may stop: a turn has a bounded number of
invocations, claims and requests, a migration ends, and when a stream is drained
nobody has anything left to do.

**Fairness.** Every loop of the service (relay, receive, reclaim, sweeper, scheduler,
Reconciler, dispatcher, drainer, collector) catches its errors and polls again, a turn
is bounded by `run_timeout` and a provider call by the adapter's timeout, and time
passes: these are weakly fair. Faults are never fair and are finite; in particular a
PostgreSQL error that the drainer re-raises (`queue/emergency.py:281`) goes away, as one
that every replay of an entry meets would repeat for ever. `delivery`
assumes strong fairness of one thing: among repeated claims of a reply some reach
`begin_delivery`, that is, some replica serves the binding again and again.

## 4. Proofs

All theorems hold for every value of the constants that the named `ASSUME`s allow:
any set of messages, slots, workers and relays, any finite set of dispatchers and
invocations, any bounds. Each proof module proves `Spec => []Inv` for an inductive
`Inv`, with one lemma per action, and takes the properties from it. None of them is
inductive alone. `TurnProofs` and `RecordProofs` are about two components each, whose
modules share no name.

**`SessionMailboxProofs`** (`IndInv`): the safety properties of `mailbox`, the CHECK
constraints of the row (`NoConstraintTrips`), the attempt budget (`BudgetRespected`),
`NoRegression`, and `Refinement`. `IndInv` adds

* `ItemsInv`: sequence numbers are dense, a message has one item, and resolved
  items are exactly those committed or given up;
* `RetryInv`: a queued or running mailbox is not held back by its head's retry;
* `LeaseInv`: the leases in `session_mailboxes` and in `sessions` are one lease
  under one epoch, and a running mailbox is paired with the turn of its head;
* `TokenInv`: the tokens of the slots are distinct and none is newer than the
  rows, and the slot with the current one describes the running head. This is
  what turns "same owner" into "same execution".

Only a first acceptance, a commit and a give-up are visible to `OrderedInbox`, each
as exactly one of its steps; all others stutter.

**`SessionReadyTransportProofs`** (`TransportInv`): `WakeupsSurvive`, and that the
composition keeps every property of the mailbox (`MailboxUnderTransport`) and
implements `OrderedInbox` (`TransportImplementsInbox`). A step of the composition that
moves the rows is a step of the mailbox, so `IndInv` carries over. `CarriedInv`:
whatever travels has a row. `WakeInv`: a notice that was answered is of no current
generation, and while Redis kept its stream a notice that was sent, or whose row is
published, is in the stream or pending if it is still current. The second part is
needed because a relay sends and marks in two steps, the first because a delivery
acks after its claim.

**`OutboundDeliveryProofs`.** `LedgerInv` gives `NoDuplicateReply` and `NoSilentLoss`.
Its core is an account: replies taken plus calls that may still be made never exceed
one plus the confirmed replays, and for a reply that may be begun, or whose failure
may still be recorded, they do not even use the one. `begin_delivery` spends it only
for the holder of the row; a refused call gives it back. `BudgetInv` gives
`CallsWithinBudget` and `LateAnswerFenced`: each call has an attempt of its own, the
answer that `finish_delivery` accepts is that of the newest attempt, and a failed
reply that is open again has attempts left.

**`ToolExecutionProofs`.** `EffectInv` gives `AtMostOneEffect` (a call that is not
idempotent is begun by one invocation, which found no row) and, with the types,
`LedgerFenced`. `RecordInv` gives `SuccessIsReal` and `ResultIsRecorded`.
`AuthorityInv` gives `EffectsAuthorised`: the budget also counts reservations that have
no audit row yet, and an invocation past the token step is the only one that holds its
token, which no audit row names.

**`TurnProofs`, `WorkerTurn`** (`TurnInv`): `DerivedFromCommitted`, `WorkIsFenced`,
`NoMissedHistory`, `LateFailureIsHarmless` and `SummaryNeverGoesBack`. The invariant
says that an execution past its read has read its anchor, that the execution of the
current fence has the anchor and the turn of the row, and that one in its post-commit
phase speaks of a committed sequence.

**`TurnProofs`, `LegacyScheduler`** (`LegacyInv`): `CommitsInOrder` and `NothingLost`
of the v1 scheduler, for any interference of v2. `OrderInv`: what was committed is
committed in `inbound` and in its turn, and what is ahead of a message is visible: so
`acquire`, which looks for visible messages with a smaller key, waits for all of them. A
message with a smaller key that becomes visible later is ahead of nobody accepted
before it. `LeaseInv`: no token passes the epoch of the session, a turn that carries the
epoch of a living lease has everything ahead of it committed, and a task that lost the
lease cannot commit. `EntryInv`: a message Redis remembers is in the stream, has an owner in the
pending list or is committed, and a task acks only what is committed.

**`RecordProofs`, `ArtifactLifecycle`** (`ArtifactInv`): `CommitFindsObject` and
`CommittedIsFinal`. An execution on its way to a commit of its own key still has the
object (`Needed`), the row names only keys whose upload was recorded, and the
collector deletes keys of ended executions only and drops a row only under its lock.

**`EmergencyIntakeProofs`** (`IntakeInv`): `AcknowledgedForGood`, for every order of a
rotation. Unless the gateway was early, the relays read every key it uses (`KeyInv`),
and an entry is deleted only after its message was stored or refused, or as poison that
an early gateway wrote (`HandedInv`). `DisabledIsOut` rests on `RouteInv`: the time a
cached route has left and the time since the gateway could last learn of it never add
up to more than the life of the cache, and an answer on its way keeps the latter at
zero.

**`RecordProofs`, `ControlPlane`** (`ControlInv`): `AppliedOnce` (a key that was applied
has a row, expired or not), `NoLostUpdate` (an ETag equal to the version was read from this
state) and `PinsExist` (a revision is referred to only if it exists).

**`MigrationProofs`** (`MigrationInv`): `PointerTracked`, `BarrierCoversTarget`,
`ComparedHolds` and the action property `PassIsComplete`, for any number of records,
processes, faults and commands. Its parts, all defined and commented in `Migration`:

* `LeaseInv`: one lease is alive at most, as `acquire` looks at those of every
  migration. So a process that has the fence is alone with the target.
* `Coherent`: what a process remembers fits the place of the code it is at: its phases
  still to come include the comparison and no copy after it, and end with the terminal
  phase of its migration. This is why a checkpoint that is saved without a fence does
  no harm: a process never acts on what it did not find by itself.
* `StillThere`: what a fenced process has listed or found equal is still in the target.
  This carries `ComparedHolds` through the steps between a comparison and its report.
* `ControlInv`: one migration at most is at the target, a rolled-back state is at the
  source, and a run about to release has brought its control state to an end. Without
  the first, a rollback could leave the pointer to a second migration.
* `ManifestInv`: a production migration with a control state is the only one that has a
  manifest. So an acceptance run, which releases the same barrier, cannot release it
  while the application is at the production target.

## 5. Only model-checked, and not modelled

* Liveness needs fairness and `ENABLED`, out of the prover's reach:
  `EveryMessageResolved`, `EventuallyQuiet`, `EveryReplySettled`, `Collected`,
  `StreamDrains`, `AllResolved`, `Drains`.
* Safety that no theorem states: `StatusTellsHead` and `CommittedObjectKept`.
* The proofs about `SessionMailbox` and `WorkerTurn` are separate: that the row of
  `WorkerTurn` is an abstraction of the mailbox is by construction, not proved.
* Not modelled: batch sizes, jitter and the text of errors; wire codecs; audit rows
  other than ALLOW, and metrics; the content of turns, media and replies; row locks
  inside a transaction, and with them deadlocks PostgreSQL would break; an endless
  crash loop, as faults are finite. Parts without a module (WeCom connection manager,
  projector, media extraction, channel adapters, fault-stage controller, command line,
  configuration) are in `PROJECT.json` with the reason.

## 6. Where code and documents disagree

`delivery_stranded`: after one lapsed claim the handler of unknown results
(`channels/dispatcher.py:268`) marks a failed reply ambiguous and then fails to
dead-letter it, as only the second of its two transactions is fenced. The row is
claimed again for ever; `docs/operations.md:42` promises retry and then the DLQ.
This is also why `EveryReplySettled` speaks of behaviours without lapses and with one
crash or database error: a second one can hit the handler of the first.

Met while modelling, without a run:

* the Reconciler requeues an expired RUNNING mailbox (0011:206), which
  `docs/consistency.md:59` leaves to the sweeper and the claim; the safety properties
  hold all the same;
* the sweeper does not advance the fencing epoch (0011:102), though
  `docs/consistency.md:21` says so; the next claim does, which suffices;
* in a key rotation that reaches gateways before relays, buffered messages are deleted
  as undecryptable (`queue/emergency.py:203`); `docs/operations.md:38` says acknowledged
  only after PostgreSQL succeeded. `AcknowledgedIsDurable` names these messages as the
  only ones; a rotation that reaches the relays first loses none;
* `claim_session` of the PostgreSQL store, for a head whose retry is not due, executes a
  statement with a parameter it does not use (`storage/mailbox.py:1008-1018`), for which
  PostgreSQL knows no type: the call raises and its notification is kept, where the
  in-memory store moves the mailbox to RETRY_WAIT and answers EMPTY.
  `docs/consistency.md:118-120` asks for the same observable semantics;
* the in-memory Reconciler leaves every RUNNING mailbox alone (`storage/mailbox.py:629`),
  the one of 0011 takes an expired one, and `reconcile` of one session on PostgreSQL
  (`storage/mailbox.py:1484`) also clears the live lease of a mailbox when no lease of
  the `sessions` row backs it;
* `reconcile_session_mailboxes_v2` checks the range of its replay cooldown and then uses
  five seconds whatever it is (0011:215);
* v1 may stop in two ways. A busy delivery keeps its slot
  (`queue/worker_consumer.py:113`), so when every slot waits for an earlier message
  that nobody reads, nobody ever will (`Starved`). And a message that v2 gave up has no
  committed turn, so `acquire` (`postgres.py:1140`) refuses every later message of that
  session for ever;
* two v1 messages whose acceptances overlap may be committed in either order: the later
  key may be visible, and taken, first;
* `stage` of a committed artifact returns the committed key; when the commit of that
  execution then fails, `agent/worker.py:577-580` discards the object that the row still
  names. `CommittedObjectKept` allows for these executions and no others.
