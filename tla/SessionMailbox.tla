--------------------------- MODULE SessionMailbox ---------------------------
(***************************************************************************)
(* The PostgreSQL side of the Session Mailbox v2 for ONE session: the rows *)
(* of session_mailboxes, sessions, session_mailbox_items, inbound_messages,*)
(* session_turns, session_events and outbox_events of its key; rows        *)
(* of different (tenant, session) keys never meet in one transaction.      *)
(*                                                                         *)
(* Every action below is one PostgreSQL transaction of                     *)
(* storage/postgres.py or of the recovery functions in migrations/, or one *)
(* step of a worker's execution slot between two such transactions.  Each  *)
(* transaction locks the mailbox row first, so transactions on the session *)
(* are atomic with respect to each other.                                  *)
(*                                                                         *)
(* Time is abstracted to what a comparison with clock_timestamp() can tell *)
(* apart: a lease is NULL, live or expired, a retry_at is NULL, still      *)
(* waiting or due.  The relay and the Redis stream are abstracted to "any  *)
(* generation that ever had an outbox row may be claimed, at any time, any *)
(* number of times"; module SessionReadyTransport refines that.            *)
(***************************************************************************)
EXTENDS Naturals, Sequences, FiniteSets

CONSTANTS
    Msg,              \* external message ids of the session
    Slot,             \* execution slots (permits) of all workers
    Worker,           \* worker ids, the lease_owner of a claim
    OwnerOf,          \* OwnerOf[s]: the worker a slot belongs to
    None,             \* SQL NULL
    MaxTurnAttempts,  \* max_turn_attempts of the worker
    MaxDeliveries,    \* bound: deliveries of one external message
    MaxFaults         \* bound: crashes and lapsed leases of live workers

ASSUME OwnerAssumption == OwnerOf \in [Slot -> Worker] /\ None \notin Worker
ASSUME NoneAssumption == None \notin Msg
ASSUME BoundAssumption ==
    MaxTurnAttempts \in Nat \ {0} /\ MaxDeliveries \in Nat /\ MaxFaults \in Nat

VARIABLES
    mailbox,      \* the session_mailboxes row
    session,      \* the lease columns of the sessions row
    queue,        \* session_mailbox_items.inbound_id by sequence
    itemRetry,    \* session_mailbox_items.retry_at
    attempt,      \* session_mailbox_items.attempt
    inbound,      \* inbound_messages.status
    deliveries,   \* inbound_messages.delivery_count
    turn,         \* session_turns.status and .fencing_token
    log,          \* the turns whose events are in session_events, in order
    ready,        \* generations with a session.ready.v2 row in outbox_events
    slot,         \* what each execution slot of the workers is doing
    faults        \* crashes and lapsed leases so far

rows == <<mailbox, session, queue, itemRetry, attempt, inbound, deliveries,
          turn, log, ready>>
vars == <<rows, slot, faults>>

-----------------------------------------------------------------------------
(* The state *)

LeaseState == {"null", "live", "expired"}
RetryState == {"null", "waiting", "due"}
Status == {"IDLE", "QUEUED", "RUNNING", "RETRY_WAIT"}

\* A row of session_mailboxes.  processing = 0 is NULL.
MailboxRow ==
    [status : Status, accepted : Nat, resolved : Nat, processing : Nat,
     generation : Nat, owner : Worker \cup {None}, epoch : Nat,
     lease : LeaseState, retry : RetryState]

SessionRow == [owner : Worker \cup {None}, epoch : Nat, lease : LeaseState]

\* What a slot remembers of its claim: the message, the fencing token, the
\* attempt, the snapshot version anchored by the claim and, once it has read
\* the history, the version it computes its turn from.
SlotState ==
    [phase : {"idle", "claimed", "read", "hydrated"}, msg : Msg \cup {None},
     token : Nat, attempt : Nat, anchor : Nat, base : Nat]

IdleSlot ==
    [phase |-> "idle", msg |-> None, token |-> 0, attempt |-> 0,
     anchor |-> 0, base |-> 0]

TypeOK ==
    /\ mailbox \in MailboxRow
    /\ session \in SessionRow
    /\ queue \in Seq(Msg)
    /\ itemRetry \in [Msg -> RetryState]
    /\ attempt \in [Msg -> Nat]
    /\ inbound \in [Msg -> {"none", "accepted", "processing", "committed", "failed"}]
    /\ deliveries \in [Msg -> Nat]
    /\ turn \in [Msg -> [status : {"none", "processing", "committed", "failed"},
                         token : Nat]]
    /\ log \in Seq(Msg)
    /\ ready \subseteq Nat
    /\ slot \in [Slot -> SlotState]
    /\ faults \in Nat

Init ==
    /\ mailbox = [status |-> "IDLE", accepted |-> 0, resolved |-> 0,
                  processing |-> 0, generation |-> 0, owner |-> None,
                  epoch |-> 0, lease |-> "null", retry |-> "null"]
    /\ session = [owner |-> None, epoch |-> 0, lease |-> "null"]
    /\ queue = <<>>
    /\ itemRetry = [m \in Msg |-> "null"]
    /\ attempt = [m \in Msg |-> 0]
    /\ inbound = [m \in Msg |-> "none"]
    /\ deliveries = [m \in Msg |-> 0]
    /\ turn = [m \in Msg |-> [status |-> "none", token |-> 0]]
    /\ log = <<>>
    /\ ready = {}
    /\ slot = [s \in Slot |-> IdleSlot]
    /\ faults = 0

-----------------------------------------------------------------------------
(* Deciding the next mailbox state *)

\* Mutant: the newest accepted item is executed first.
HeadSeqNewest ==
    IF mailbox.processing # 0 THEN mailbox.processing
    ELSE IF mailbox.accepted > mailbox.resolved THEN mailbox.accepted ELSE mailbox.resolved + 1

\* The sequence a claim or a recovery function looks at.
HeadSeq == IF mailbox.processing # 0 THEN mailbox.processing ELSE mailbox.resolved + 1

\* Mutant: the last accepted item counts as resolved.
StatusAtOffByOne(k) ==
    IF k >= mailbox.accepted THEN "IDLE"
    ELSE IF itemRetry[queue[k]] = "waiting" THEN "RETRY_WAIT"
    ELSE "QUEUED"

\* The status of a mailbox whose next unresolved item is the one at sequence k.
StatusAt(k) ==
    IF k > mailbox.accepted THEN "IDLE"
    ELSE IF itemRetry[queue[k]] = "waiting" THEN "RETRY_WAIT"
    ELSE "QUEUED"

\* Mutant: an idle mailbox starts its generations afresh.
ReleasedResetsGeneration(r, st, bump) ==
    [mailbox EXCEPT
        !.status = st, !.resolved = r, !.processing = 0,
        !.owner = None, !.lease = "null",
        !.retry = IF st = "RETRY_WAIT" THEN "waiting" ELSE "null",
        !.generation = IF st = "IDLE" THEN 0 ELSE @ + bump]

\* The mailbox row once its processing columns are cleared, its resolved
\* sequence is r and its status is st; bump is the generation increment.
Released(r, st, bump) ==
    [mailbox EXCEPT
        !.status = st, !.resolved = r, !.processing = 0,
        !.owner = None, !.lease = "null",
        !.retry = IF st = "RETRY_WAIT" THEN "waiting" ELSE "null",
        !.generation = @ + bump]

Bump(st) == IF st = "QUEUED" THEN 1 ELSE 0

\* Moving to status st with a new generation inserts its wake-up row in the
\* same transaction (ON CONFLICT DO NOTHING: a set union).
EmitReady(row) == ready \cup (IF row.status = "QUEUED" THEN {row.generation} ELSE {})

\* The item at sequence r is done: resolve it and look at the next one.
Advance(r) ==
    LET st == StatusAt(r + 1)
    IN  /\ mailbox' = Released(r, st, Bump(st))
        /\ ready' = EmitReady(mailbox')

-----------------------------------------------------------------------------
(* Accepting an inbound message *)

\* A message seen before only counts another delivery.
AcceptDuplicate(m) ==
    /\ inbound[m] # "none"
    /\ deliveries[m] < MaxDeliveries
    /\ deliveries' = [deliveries EXCEPT ![m] = @ + 1]
    /\ UNCHANGED <<mailbox, session, queue, itemRetry, attempt, inbound, turn,
                   log, ready, slot, faults>>

\* The status and retry_at of the mailbox after a new item with retry time r is
\* appended.  Only the head of the queue may gate the session.
AcceptedStatus(r) ==
    IF mailbox.status = "RETRY_WAIT"
      THEN IF mailbox.retry = "waiting" THEN "RETRY_WAIT" ELSE "QUEUED"
    ELSE IF mailbox.status = "IDLE"
      THEN IF r = "waiting" THEN "RETRY_WAIT" ELSE "QUEUED"
    ELSE mailbox.status

AcceptInboundV2(m, r) ==
    LET st == AcceptedStatus(r)
        isReady == st = "QUEUED" /\ mailbox.status \in {"IDLE", "RETRY_WAIT"}
    IN  /\ inbound[m] = "none"
        /\ inbound' = [inbound EXCEPT ![m] = "accepted"]
        /\ deliveries' = [deliveries EXCEPT ![m] = 1]
        /\ queue' = Append(queue, m)
        /\ itemRetry' = [itemRetry EXCEPT ![m] = r]
        /\ mailbox' = [mailbox EXCEPT
               !.accepted = @ + 1, !.status = st,
               !.retry = IF st = "RETRY_WAIT" THEN "waiting"
                         ELSE IF isReady THEN "null" ELSE @,
               !.generation = IF isReady THEN @ + 1 ELSE @]
        /\ ready' = IF isReady THEN ready \cup {mailbox'.generation} ELSE ready
        /\ UNCHANGED <<session, attempt, turn, log, slot, faults>>

-----------------------------------------------------------------------------
(* Claiming a SessionReady notice *)

HeadMsg == queue[HeadSeq]

\* What claim_session_ready answers to a notice of generation g, in the order
\* of its early returns.  DEFERRED and REPAIRED are reported as EMPTY.
ClaimOutcome(g) ==
    IF g # mailbox.generation THEN "STALE"
    ELSE IF mailbox.lease = "live" THEN "RUNNING"
    ELSE IF HeadSeq > mailbox.accepted THEN "EMPTY"
    ELSE IF itemRetry[HeadMsg] = "waiting" THEN "DEFERRED"
    ELSE IF inbound[HeadMsg] = "committed" THEN "REPAIRED"
    ELSE IF session.lease = "live" THEN "RUNNING"
    ELSE IF turn[HeadMsg].status = "committed" THEN "REPAIRED"
    ELSE "CLAIMED"

\* The head item has to wait: its retry time becomes the mailbox's.
DeferToHead ==
    /\ mailbox' = [mailbox EXCEPT !.status = "RETRY_WAIT", !.retry = "waiting"]
    /\ UNCHANGED <<session, ready>>

\* Repair of a head that is already committed.  The session lease is cleared
\* only when it is the one the mailbox row represents.
ResolveMailboxItem ==
    /\ Advance(HeadSeq)
    /\ session' = IF session.owner = mailbox.owner /\ session.epoch = mailbox.epoch
                    THEN [session EXCEPT !.owner = None, !.lease = "null"]
                    ELSE session

\* Claims that answer EMPTY and still change the mailbox.
ClaimWithoutLease(g) ==
    /\ ClaimOutcome(g) \in {"DEFERRED", "REPAIRED"}
    /\ IF ClaimOutcome(g) = "DEFERRED" THEN DeferToHead ELSE ResolveMailboxItem
    /\ UNCHANGED <<queue, itemRetry, attempt, inbound, deliveries, turn, log,
                   slot, faults>>

\* Mutant: the claim takes over the epoch it found.
NextEpochReused ==
    IF mailbox.epoch >= session.epoch THEN mailbox.epoch ELSE session.epoch

NextEpoch ==
    1 + (IF mailbox.epoch >= session.epoch THEN mailbox.epoch ELSE session.epoch)

\* The claim proper: one transaction leases the sessions row and the mailbox
\* row under a new epoch and anchors the snapshot version.
ClaimSessionReady(s, g) ==
    LET m == HeadMsg
        e == NextEpoch
    IN  /\ slot[s].phase = "idle"
        /\ ClaimOutcome(g) = "CLAIMED"
        /\ turn' = [turn EXCEPT ![m] = [status |-> "processing", token |-> e]]
        /\ session' = [owner |-> OwnerOf[s], epoch |-> e, lease |-> "live"]
        /\ attempt' = [attempt EXCEPT ![m] = @ + 1]
        /\ mailbox' = [mailbox EXCEPT
               !.status = "RUNNING", !.processing = HeadSeq, !.owner = OwnerOf[s],
               !.epoch = e, !.lease = "live", !.retry = "null"]
        /\ inbound' = [inbound EXCEPT ![m] = "processing"]
        /\ slot' = [slot EXCEPT ![s] =
               [phase |-> "claimed", msg |-> m, token |-> e,
                attempt |-> attempt'[m], anchor |-> Len(log), base |-> 0]]
        /\ UNCHANGED <<queue, itemRetry, deliveries, log, ready, faults>>

-----------------------------------------------------------------------------
(* A worker executing its claim *)

\* The fence of _valid_v2_mailbox and of the paired sessions lease.
Owns(s) ==
    /\ slot[s].phase # "idle"
    /\ mailbox.status = "RUNNING"
    /\ queue[mailbox.processing] = slot[s].msg
    /\ mailbox.owner = OwnerOf[s]
    /\ mailbox.epoch = slot[s].token
    /\ mailbox.lease = "live"
    /\ session.owner = OwnerOf[s]
    /\ session.epoch = slot[s].token
    /\ session.lease = "live"

\* Mutant: only the turn and the inbound are checked, not the leases.
FencedByTurn(s) ==
    LET m == slot[s].msg
    IN  /\ slot[s].phase # "idle"
        /\ turn[m] = [status |-> "processing", token |-> slot[s].token]
        /\ inbound[m] = "processing"

\* commit, retry and fail also require the turn and the inbound to be processing.
Fenced(s) ==
    LET m == slot[s].msg
    IN  /\ Owns(s)
        /\ turn[m] = [status |-> "processing", token |-> slot[s].token]
        /\ inbound[m] = "processing"

\* get_session_snapshot, an unfenced read: the history must still be the one
\* the claim anchored, otherwise the worker raises FencingConflict.
ReadSnapshot(s) ==
    /\ slot[s].phase = "claimed"
    /\ Len(log) = slot[s].anchor
    /\ slot' = [slot EXCEPT ![s].phase = "read", ![s].base = Len(log)]
    /\ UNCHANGED <<rows, faults>>

\* Mutant: the lease the renewal returns replaces the one that holds the history.
RenewSessionReadyDropsHistory(s) ==
    /\ slot[s].phase \in {"read", "hydrated"}
    /\ Owns(s)
    /\ slot' = [slot EXCEPT ![s].phase = "hydrated", ![s].base = 0]
    /\ UNCHANGED <<rows, faults>>

\* The renewal that confirms the lease after the history read; heartbeats run
\* the same transaction in the later phases.  Renewing a live pair of leases
\* leaves them live.
RenewSessionReady(s) ==
    /\ slot[s].phase \in {"read", "hydrated"}
    /\ Owns(s)
    /\ slot' = [slot EXCEPT ![s].phase = "hydrated"]
    /\ mailbox' = [mailbox EXCEPT !.lease = "live"]
    /\ session' = [session EXCEPT !.lease = "live"]
    /\ UNCHANGED <<queue, itemRetry, attempt, inbound, deliveries, turn, log,
                   ready, faults>>

ReleasedSession == [session EXCEPT !.owner = None, !.lease = "null"]

CommitSessionReady(s) ==
    LET m == slot[s].msg
    IN  /\ slot[s].phase = "hydrated"
        /\ Fenced(s)
        /\ log' = Append(log, m)
        /\ session' = ReleasedSession
        /\ turn' = [turn EXCEPT ![m].status = "committed"]
        /\ inbound' = [inbound EXCEPT ![m] = "committed"]
        /\ Advance(mailbox.processing)
        /\ slot' = [slot EXCEPT ![s] = IdleSlot]
        /\ UNCHANGED <<queue, itemRetry, attempt, deliveries, faults>>

\* The worker retries a turn until the claim's attempt reaches the budget.
AttemptsLeft(s) == slot[s].attempt < MaxTurnAttempts

\* The turn failed, timed out or was cancelled and has attempts left: the item
\* waits for its backoff (at least a second, so retry_at is in the future).
RetrySessionReady(s) ==
    LET m == slot[s].msg
    IN  /\ slot[s].phase # "idle"
        /\ AttemptsLeft(s)
        /\ Fenced(s)
        /\ turn' = [turn EXCEPT ![m].status = "failed"]
        /\ inbound' = [inbound EXCEPT ![m] = "accepted"]
        /\ itemRetry' = [itemRetry EXCEPT ![m] = "waiting"]
        /\ mailbox' = Released(mailbox.resolved, "RETRY_WAIT", 0)
        /\ session' = ReleasedSession
        /\ slot' = [slot EXCEPT ![s] = IdleSlot]
        /\ UNCHANGED <<queue, attempt, deliveries, log, ready, faults>>

\* The same with no attempts left: the message is given up.
FailSessionReady(s) ==
    LET m == slot[s].msg
    IN  /\ slot[s].phase # "idle"
        /\ ~AttemptsLeft(s)
        /\ Fenced(s)
        /\ turn' = [turn EXCEPT ![m].status = "failed"]
        /\ inbound' = [inbound EXCEPT ![m] = "failed"]
        /\ Advance(mailbox.processing)
        /\ session' = ReleasedSession
        /\ slot' = [slot EXCEPT ![s] = IdleSlot]
        /\ UNCHANGED <<queue, itemRetry, attempt, deliveries, log, faults>>

\* Any fenced call of a worker that lost its lease raises FencingConflict and
\* rolls back; the release of the failed turn is refused the same way.
FencingConflict(s) ==
    /\ slot[s].phase # "idle"
    /\ ~Fenced(s)
    /\ slot' = [slot EXCEPT ![s] = IdleSlot]
    /\ UNCHANGED <<rows, faults>>

\* The worker dies, or its database calls fail, with the turn unreleased.
Crash(s) ==
    /\ slot[s].phase # "idle"
    /\ faults < MaxFaults
    /\ faults' = faults + 1
    /\ slot' = [slot EXCEPT ![s] = IdleSlot]
    /\ UNCHANGED rows

-----------------------------------------------------------------------------
(* Time *)

\* Heartbeats keep the leases of a working slot alive, so that one of them
\* lapses is a fault; without a holder leases just run out.
LapseCost == IF \E s \in Slot : Owns(s) THEN 1 ELSE 0

\* The two expiry times come from two clock reads: either may pass first.
MailboxLeaseExpires ==
    /\ mailbox.lease = "live"
    /\ faults + LapseCost <= MaxFaults
    /\ mailbox' = [mailbox EXCEPT !.lease = "expired"]
    /\ faults' = faults + LapseCost
    /\ UNCHANGED <<session, queue, itemRetry, attempt, inbound, deliveries,
                   turn, log, ready, slot>>

SessionLeaseExpires ==
    /\ session.lease = "live"
    /\ faults + LapseCost <= MaxFaults
    /\ session' = [session EXCEPT !.lease = "expired"]
    /\ faults' = faults + LapseCost
    /\ UNCHANGED <<mailbox, queue, itemRetry, attempt, inbound, deliveries,
                   turn, log, ready, slot>>

ItemRetryDue(m) ==
    /\ itemRetry[m] = "waiting"
    /\ itemRetry' = [itemRetry EXCEPT ![m] = "due"]
    /\ UNCHANGED <<mailbox, session, queue, attempt, inbound, deliveries, turn,
                   log, ready, slot, faults>>

\* mailbox.retry_at is never earlier than the head item's retry_at.
MailboxRetryDue ==
    /\ mailbox.retry = "waiting"
    /\ itemRetry[HeadMsg] # "waiting"
    /\ mailbox' = [mailbox EXCEPT !.retry = "due"]
    /\ UNCHANGED <<session, queue, itemRetry, attempt, inbound, deliveries,
                   turn, log, ready, slot, faults>>

-----------------------------------------------------------------------------
(* Recovery roles *)

\* sessions is cleared only when owner, epoch and expiry equal the mailbox's;
\* the two expiry times may or may not be equal.
ClearSessionLease ==
    \/ UNCHANGED session
    \/ /\ session.owner = mailbox.owner
       /\ session.epoch = mailbox.epoch
       /\ session.lease = mailbox.lease
       /\ session' = ReleasedSession

SweepExpiredSessionLeases ==
    /\ mailbox.status = "RUNNING"
    /\ mailbox.lease = "expired"
    /\ session.lease # "live"
    /\ LET st == IF mailbox.accepted <= mailbox.resolved THEN "IDLE"
                 ELSE StatusAt(mailbox.processing)
       IN  mailbox' = Released(mailbox.resolved, st, Bump(st))
    /\ ready' = EmitReady(mailbox')
    /\ ClearSessionLease
    /\ UNCHANGED <<queue, itemRetry, attempt, inbound, deliveries, turn, log,
                   slot, faults>>

ScheduleSessionMailboxRetries ==
    /\ mailbox.status = "RETRY_WAIT"
    /\ mailbox.retry = "due"
    /\ mailbox.resolved + 1 <= mailbox.accepted
    /\ mailbox' = [mailbox EXCEPT !.status = "QUEUED", !.retry = "null",
                                  !.generation = @ + 1]
    /\ ready' = EmitReady(mailbox')
    /\ UNCHANGED <<session, queue, itemRetry, attempt, inbound, deliveries,
                   turn, log, slot, faults>>

\* Rows reconcile_session_mailboxes_v2 selects.  The five-second age of a
\* QUEUED row is left to the scheduler's choice.
NeedsReconcile ==
    \/ mailbox.status # "RUNNING" /\ (mailbox.processing # 0 \/ mailbox.lease # "null")
    \/ mailbox.status = "RUNNING" /\ mailbox.lease = "expired"
    \/ mailbox.accepted <= mailbox.resolved /\ mailbox.status # "IDLE"
    \/ mailbox.accepted > mailbox.resolved /\ mailbox.status = "IDLE"
    \/ mailbox.status = "RETRY_WAIT" /\ mailbox.retry = "null"
    \/ mailbox.status = "QUEUED"
    \/ HeadSeq <= mailbox.accepted /\ inbound[HeadMsg] = "committed"

\* The generation moves only when the row was not queued already; a queued row
\* keeps its generation and re-opens the wake-up it has.
Requeue ==
    LET st == IF mailbox.accepted <= mailbox.resolved THEN "IDLE" ELSE StatusAt(HeadSeq)
        fresh == mailbox.status # "QUEUED" \/ mailbox.generation < 1
    IN  /\ mailbox' = Released(mailbox.resolved, st, IF fresh THEN Bump(st) ELSE 0)
        /\ ready' = EmitReady(mailbox')

ReconcileSessionMailboxes ==
    /\ NeedsReconcile
    /\ session.lease # "live"
    /\ IF HeadSeq <= mailbox.accepted /\ inbound[HeadMsg] = "committed"
         THEN Advance(HeadSeq)
         ELSE Requeue
    /\ ClearSessionLease
    /\ UNCHANGED <<queue, itemRetry, attempt, inbound, deliveries, turn, log,
                   slot, faults>>

-----------------------------------------------------------------------------
(* The specification *)

Accept ==
    \E m \in Msg : AcceptDuplicate(m) \/ \E r \in {"null", "waiting"} : AcceptInboundV2(m, r)

Claim(s) == \E g \in ready : ClaimSessionReady(s, g)

Execute(s) ==
    \/ ReadSnapshot(s)
    \/ RenewSessionReady(s)
    \/ CommitSessionReady(s)
    \/ RetrySessionReady(s)
    \/ FailSessionReady(s)
    \/ FencingConflict(s)
    \/ Crash(s)

Time ==
    \/ MailboxLeaseExpires
    \/ SessionLeaseExpires
    \/ MailboxRetryDue
    \/ \E m \in Msg : ItemRetryDue(m)

Recover ==
    \/ SweepExpiredSessionLeases
    \/ ScheduleSessionMailboxRetries
    \/ ReconcileSessionMailboxes

\* Everything is accepted and resolved: the only way the session may come to
\* rest, so that TLC reports any other state without a successor.
Quiescent ==
    /\ mailbox.status = "IDLE"
    /\ \A m \in Msg : inbound[m] # "none" /\ deliveries[m] >= MaxDeliveries
    /\ UNCHANGED vars

Next ==
    \/ Accept
    \/ \E s \in Slot : Claim(s) \/ Execute(s)
    \/ \E g \in ready : ClaimWithoutLease(g)
    \/ Time
    \/ Recover
    \/ Quiescent

Spec == Init /\ [][Next]_vars

-----------------------------------------------------------------------------
(* Properties *)

\* The CHECK constraints of session_mailboxes: no transaction of the workers or
\* of the recovery roles is ever aborted by one of them.  The one at risk is
\* the claim that finds its head waiting and writes RETRY_WAIT without clearing
\* the processing columns.
RowConstraints ==
    /\ mailbox.status = "RUNNING" <=> mailbox.processing # 0
    /\ mailbox.status = "RUNNING" <=> mailbox.lease # "null"
    /\ mailbox.status = "RUNNING" <=> mailbox.owner # None
    /\ mailbox.status = "RETRY_WAIT" <=> mailbox.retry # "null"
    /\ mailbox.resolved <= mailbox.accepted
    /\ mailbox.processing # 0 =>
          mailbox.resolved < mailbox.processing /\ mailbox.processing <= mailbox.accepted

\* Work is never forgotten: the mailbox is IDLE exactly when everything
\* accepted is resolved, and a queued mailbox has a durable wake-up of its
\* current generation for the relay to publish.
NoForgottenWork ==
    /\ mailbox.status = "IDLE" <=> mailbox.accepted = mailbox.resolved
    /\ mailbox.status = "QUEUED" => mailbox.generation \in ready

\* At most one execution can pass the fence, even when two slots of one worker
\* (the same lease_owner) have claimed the session one after the other.
SingleExecution ==
    \A s, t \in Slot : Owns(s) /\ Owns(t) => s = t

\* The turn a slot may commit was computed from the complete history: nothing
\* was committed since it read the snapshot.
NoLostUpdate ==
    \A s \in Slot : slot[s].phase = "hydrated" /\ Fenced(s) => slot[s].base = Len(log)

\* Turns are committed once each and in the order of acceptance: the committed
\* messages of the resolved prefix of the queue are exactly the event log, in
\* the order of their sequence numbers.
OrderedExactlyOnce ==
    /\ \A k \in 1 .. mailbox.resolved :
          inbound[queue[k]] = "committed" => \E i \in 1 .. Len(log) : log[i] = queue[k]
    /\ \A i \in 1 .. Len(log) :
          \E k \in 1 .. mailbox.resolved :
             queue[k] = log[i] /\ inbound[queue[k]] = "committed"
    /\ \A i, j \in 1 .. Len(log) : \A k, l \in 1 .. mailbox.resolved :
          i < j /\ queue[k] = log[i] /\ queue[l] = log[j] => k < l

\* A message is given up only after max_turn_attempts claims of it.
GivenUpAfterBudget ==
    \A m \in Msg : inbound[m] = "failed" => attempt[m] >= MaxTurnAttempts

\* What every step keeps: resolved messages stay as they are, the fencing epochs
\* and the generation never go back, and the resolved sequence moves by one.
Forward ==
    /\ \A m \in Msg : inbound[m] \in {"committed", "failed"} => inbound'[m] = inbound[m]
    /\ mailbox'.epoch >= mailbox.epoch
    /\ session'.epoch >= session.epoch
    /\ mailbox'.generation >= mailbox.generation
    /\ mailbox'.resolved \in {mailbox.resolved, mailbox.resolved + 1}

\* A message whose turn is committed or given up stays so: no late retry, sweep
\* or repair re-opens it; and neither the fencing epoch, the generation nor the
\* resolved sequence ever goes back.
NoRegression == [][Forward]_vars

\* The contract: with the leases, the workers, the wake-ups and the recovery
\* roles hidden, the session accepts each message once and commits or gives up
\* the oldest unresolved one, one at a time.
Inbox == INSTANCE OrderedInbox WITH
             inbox <- queue, resolved <- mailbox.resolved, log <- log

ImplementsInbox == Inbox!Spec

-----------------------------------------------------------------------------
(* The inductive invariant behind the properties above *)

\* The rows of one message move together: the sequence numbers are dense, each
\* message has one item, a resolved item is committed or given up, and one
\* that is not resolved is neither, in inbound_messages as in session_turns.
ItemsInv ==
    /\ mailbox.accepted = Len(queue)
    /\ \A i, j \in 1 .. Len(queue) : queue[i] = queue[j] => i = j
    /\ \A m \in Msg : inbound[m] = "none" <=> \A i \in 1 .. Len(queue) : queue[i] # m
    /\ \A i \in 1 .. Len(queue) :
          IF i <= mailbox.resolved
            THEN inbound[queue[i]] \in {"committed", "failed"}
            ELSE /\ inbound[queue[i]] \in {"accepted", "processing"}
                 /\ turn[queue[i]].status # "committed"
    /\ \A m \in Msg : inbound[m] = "none" => turn[m].status # "committed"

\* A mailbox that is queued or running is not held back by its head's retry_at,
\* and the mailbox's own retry_at is due only after the head's.
RetryInv ==
    (mailbox.status \in {"QUEUED", "RUNNING"} \/ mailbox.retry = "due")
        => itemRetry[queue[mailbox.resolved + 1]] # "waiting"

\* The mailbox lease and the sessions lease are one lease under one epoch: a
\* running mailbox is paired with the session row, the turn and the inbound of
\* its head, and a mailbox that is not running leaves no live session lease.
LeaseInv ==
    /\ mailbox.epoch = session.epoch
    /\ mailbox.status = "RUNNING" =>
          /\ mailbox.processing = mailbox.resolved + 1
          /\ session.owner = mailbox.owner
          /\ session.lease # "null"
          /\ inbound[queue[mailbox.processing]] = "processing"
          /\ turn[queue[mailbox.processing]]
                = [status |-> "processing", token |-> mailbox.epoch]
    /\ mailbox.status # "RUNNING" => session.lease # "live"

\* Fencing tokens of the slots are distinct and none is newer than the rows;
\* the slot that carries the current one describes the running head.
TokenInv ==
    /\ \A s \in Slot : slot[s].phase # "idle" =>
          /\ slot[s].token <= mailbox.epoch
          /\ slot[s].token = mailbox.epoch /\ mailbox.status = "RUNNING" =>
                /\ slot[s].msg = queue[mailbox.processing]
                /\ slot[s].attempt = attempt[slot[s].msg]
                /\ slot[s].phase # "claimed" => slot[s].base = Len(log)
    /\ \A s, t \in Slot :
          /\ slot[s].phase # "idle" /\ slot[t].phase # "idle"
          /\ slot[s].token = slot[t].token
          => s = t

IndInv ==
    /\ TypeOK
    /\ RowConstraints
    /\ NoForgottenWork
    /\ ItemsInv
    /\ RetryInv
    /\ LeaseInv
    /\ TokenInv
    /\ OrderedExactlyOnce
    /\ GivenUpAfterBudget
=============================================================================
