---------------------------- MODULE MailboxStores ----------------------------
(***************************************************************************)
(* storage/mailbox.py: the two implementations of SessionMailboxStore, the *)
(* in-memory one of local mode and of the contract tests and the one on    *)
(* PostgreSQL, for one session, with the recovery loops and the dispatcher *)
(* that serve each.  A behaviour is one of one of them: they do not answer *)
(* every call alike, so it is not their equality that is checked but what  *)
(* docs/consistency.md demands of a mailbox, of each.                      *)
(*                                                                         *)
(* Instants are kept as the time left until them (lease_expires_at,        *)
(* retry_at) or the age since them (updated_at), in ticks up to the        *)
(* largest distance that a comparison can tell apart.  Nobody holds the    *)
(* lease of the sessions row or commits the inbound here: the executors    *)
(* that do are the subject of module SessionMailbox.                       *)
(***************************************************************************)
EXTENDS Naturals, Sequences, FiniteSets

CONSTANTS Backend,    \* a subset of {"memory", "postgres"}
          Msg, Worker, None,
          LeaseFor, RetryIn, Grace,
          MaxGen, MaxEpoch,
          MaxFaults   \* retries, stalls, abandoned leases, lost wake-ups and lost answers

ASSUME StoresAssumption ==
    /\ Backend \subseteq {"memory", "postgres"}
    /\ {LeaseFor, RetryIn, Grace, MaxGen, MaxEpoch} \subseteq Nat \ {0} /\ MaxFaults \in Nat

VARIABLES backend,  \* the store of this deployment
          st,       \* the mailbox, its items, its outbox rows and its notifications
          lease,    \* the MailboxLease each worker has
          faults

vars == <<backend, st, lease, faults>>

NoLease == [seq |-> 0, epoch |-> 0]

EmptyStore ==
    [status |-> "IDLE", acc |-> 0, res |-> 0, proc |-> 0, owner |-> None, epoch |-> 0, exp |-> None,
     retry |-> None, gen |-> 0, upd |-> 0, items |-> <<>>,
     ready |-> [g \in {} |-> 0],   \* session.ready.v2 rows: "pending" or "published"
     wake |-> {}]                  \* generations whose notification Redis holds

Init ==
    /\ backend \in Backend
    /\ st = EmptyStore
    /\ lease = [w \in Worker |-> NoLease]
    /\ faults = 0

Future(at) == at # None /\ at # 0
Expired(s) == s.exp = 0
LeaseLive(s) == Future(s.exp)
Fault == faults < MaxFaults /\ faults' = faults + 1

\* A row for a generation, unless there is one.
AddRow(s, g) ==
    [s EXCEPT !.ready = [h \in DOMAIN @ \cup {g} |-> IF h \in DOMAIN @ THEN @[h] ELSE "pending"]]

\* A new generation and its wake-up.
Emit(s) == AddRow([s EXCEPT !.gen = @ + 1], s.gen + 1)

\* The wake-up of the current generation waits for publication again.
Reopen(s) == [AddRow(s, s.gen) EXCEPT !.ready[s.gen] = "pending"]

Freed(s) == [s EXCEPT !.proc = 0, !.owner = None, !.exp = None, !.upd = 0]

HeadOf(s) == IF s.proc # 0 THEN s.proc ELSE s.res + 1

\* Where a mailbox goes whose head is not being processed.
StatusFor(s, seq) ==
    IF seq > Len(s.items) \/ seq > s.acc THEN "IDLE"
    ELSE IF Future(s.items[seq].retry) THEN "RETRY_WAIT" ELSE "QUEUED"

RetryFor(s, seq) == IF StatusFor(s, seq) = "RETRY_WAIT" THEN s.items[seq].retry ELSE None

Owns(s, w, l) ==
    /\ s.status = "RUNNING" /\ s.proc = l.seq /\ s.owner = w /\ s.epoch = l.epoch /\ LeaseLive(s)

-----------------------------------------------------------------------------
(* InMemorySessionMailboxStore *)

MemAccept(s, m, at) ==
    LET due     == s.status = "RETRY_WAIT" /\ ~Future(s.retry)
        waits   == s.status = "IDLE" /\ Future(at)
        queued  == due \/ (s.status = "IDLE" /\ ~waits)
        t       == [s EXCEPT !.items = Append(@, [id |-> m, retry |-> at]), !.acc = @ + 1, !.upd = 0,
                             !.status = IF queued THEN "QUEUED" ELSE IF waits THEN "RETRY_WAIT" ELSE @,
                             !.retry = IF queued THEN None ELSE IF waits THEN at ELSE @]
    IN  IF \E i \in DOMAIN s.items : s.items[i].id = m THEN s
        ELSE IF queued THEN Emit(t) ELSE t

\* The head is taken; an expired lease is taken over with its sequence.
Taken(s, w, seq) ==
    [s EXCEPT !.status = "RUNNING", !.proc = seq, !.owner = w, !.epoch = @ + 1, !.exp = LeaseFor,
              !.retry = s.items[seq].retry, !.upd = 0]

MemClaim(s, w) ==
    IF LeaseLive(s) THEN s
    ELSE IF s.proc # 0 THEN Taken(s, w, s.proc)
    ELSE IF s.res >= s.acc THEN [s EXCEPT !.status = "IDLE", !.upd = 0]
    ELSE IF Future(s.items[s.res + 1].retry)
    THEN [s EXCEPT !.status = "RETRY_WAIT", !.retry = s.items[s.res + 1].retry, !.upd = 0]
    ELSE Taken(s, w, s.res + 1)

MemCommit(s) ==
    LET t == [Freed(s) EXCEPT !.res = s.proc, !.retry = RetryFor(s, s.proc + 1),
                              !.status = StatusFor(s, s.proc + 1)]
    IN  IF t.status = "QUEUED" THEN Emit(t) ELSE t

\* reschedule and retry; retry_without_wakeup leaves the mailbox waiting.
MemRelease(s, at, wake) ==
    LET t == [Freed(s) EXCEPT !.items[s.proc].retry = at, !.retry = at,
                              !.status = IF Future(at) \/ ~wake THEN "RETRY_WAIT" ELSE "QUEUED"]
    IN  IF t.status = "QUEUED" THEN Emit(t) ELSE t

\* sweep_expired_leases, with recover.
MemSweepDue(s) == Expired(s)
MemSweep(s) ==
    LET t == [Freed(s) EXCEPT !.status = StatusFor(s, HeadOf(s)), !.retry = RetryFor(s, HeadOf(s))]
    IN  IF t.status = "QUEUED" THEN Emit(t) ELSE t

\* reconcile of a mailbox that is not RUNNING, with the runtime outbox of the
\* repository: a recent QUEUED is left to the wake-up on its way, an older one
\* re-opens its generation, any other way into QUEUED opens a new one.
MemReconcile(s) ==
    LET t == [Freed(s) EXCEPT !.status = StatusFor(s, HeadOf(s)), !.retry = RetryFor(s, HeadOf(s))]
        replay == s.status = "QUEUED" /\ t.status = "QUEUED"
    IN  IF replay /\ s.upd < Grace THEN s
        ELSE IF replay /\ s.gen >= 1 THEN Reopen(t)
        ELSE IF t.status = "QUEUED" THEN Emit(t) ELSE t

\* reconcile_sessions leaves every RUNNING mailbox to the sweeper.
MemReconcileDue(s) == s.status # "RUNNING"

\* schedule_retries.
RetryDue(s) == s.status = "RETRY_WAIT" /\ s.retry = 0

-----------------------------------------------------------------------------
(* PostgresSessionMailboxStore *)

\* The increment of queue_generation and the row that goes with it.
Bumped(s, inc) == IF inc THEN AddRow([s EXCEPT !.gen = @ + 1], s.gen + 1) ELSE s

PgAcceptFromTail(s, m, at) ==
    LET emit == s.status \in {"IDLE", "RETRY_WAIT"} /\ ~Future(at)
    IN  IF \E i \in DOMAIN s.items : s.items[i].id = m THEN s
        ELSE Bumped([s EXCEPT !.items = Append(@, [id |-> m, retry |-> at]), !.acc = @ + 1, !.upd = 0,
                              !.status = IF emit THEN "QUEUED" ELSE IF @ = "IDLE" THEN "RETRY_WAIT" ELSE @,
                              !.retry = IF emit THEN None ELSE IF s.status = "IDLE" THEN at ELSE @], emit)

PgAccept(s, m, at) ==
    LET gate == IF s.status = "RETRY_WAIT" THEN s.retry ELSE at   \* what the head waits for
        idle == s.status \in {"IDLE", "RETRY_WAIT"}
        emit == idle /\ ~Future(gate)
    IN  IF \E i \in DOMAIN s.items : s.items[i].id = m THEN s
        ELSE Bumped([s EXCEPT !.items = Append(@, [id |-> m, retry |-> at]), !.acc = @ + 1, !.upd = 0,
                              !.status = IF emit THEN "QUEUED" ELSE IF idle THEN "RETRY_WAIT" ELSE @,
                              !.retry = IF emit THEN None ELSE IF idle THEN gate ELSE @], emit)

\* The statement for a head that still waits numbers a parameter it does not
\* use, for which PostgreSQL knows no type: the call ends with an error.
PgClaimRaises(s) ==
    ~LeaseLive(s) /\ HeadOf(s) <= s.acc /\ Future(s.items[HeadOf(s)].retry)

PgClaim(s, w) ==
    IF LeaseLive(s) \/ PgClaimRaises(s) THEN s
    ELSE IF HeadOf(s) > s.acc THEN [s EXCEPT !.status = "IDLE", !.upd = 0]
    ELSE Taken(s, w, HeadOf(s))

PgCommit(s) ==
    LET next == StatusFor(s, s.proc + 1)
    IN  Bumped([Freed(s) EXCEPT !.res = s.proc, !.status = next, !.retry = RetryFor(s, s.proc + 1)],
               next = "QUEUED")

PgRelease(s, at, wake) ==
    LET queued == ~Future(at) /\ wake
    IN  Bumped([Freed(s) EXCEPT !.items[s.proc].retry = at,
                                !.status = IF queued THEN "QUEUED" ELSE "RETRY_WAIT",
                                !.retry = IF queued THEN None ELSE at], queued)

\* sweep_expired_session_leases.
PgSweepDue(s) == s.status = "RUNNING" /\ Expired(s)
PgSweep(s) ==
    LET next == StatusFor(s, HeadOf(s))
    IN  Bumped([Freed(s) EXCEPT !.status = next, !.retry = RetryFor(s, HeadOf(s))], next = "QUEUED")

\* schedule_session_mailbox_retries.
PgSchedule(s) == Bumped([s EXCEPT !.status = "QUEUED", !.retry = None, !.upd = 0], TRUE)

\* What reconcile_session_mailboxes_v2 selects.
PgReconcileDue(s) ==
    \/ s.status # "RUNNING" /\ (s.proc # 0 \/ s.owner # None \/ s.exp # None)
    \/ s.status = "RUNNING" /\ Expired(s)
    \/ s.acc <= s.res /\ s.status # "IDLE"
    \/ s.acc > s.res /\ s.status = "IDLE"
    \/ s.status = "RETRY_WAIT" /\ s.retry = None
    \/ s.status = "QUEUED" /\ HeadOf(s) > Len(s.items)
    \/ s.status = "QUEUED" /\ s.upd = Grace

\* reconcile_session_mailboxes_v2 that adds a missing row but leaves a published one.
PgReconcileOnce(s) ==
    LET next == StatusFor(s, HeadOf(s))
        t    == [Freed(s) EXCEPT !.status = next, !.retry = RetryFor(s, HeadOf(s))]
    IN  IF next = "QUEUED" /\ s.status = "QUEUED" /\ s.gen >= 1 THEN AddRow(t, s.gen)
        ELSE Bumped(t, next = "QUEUED")

\* A queued mailbox keeps its generation and re-opens the row; any other way
\* into QUEUED is a new generation.
PgReconcile(s) ==
    LET next == StatusFor(s, HeadOf(s))
        t    == [Freed(s) EXCEPT !.status = next, !.retry = RetryFor(s, HeadOf(s))]
    IN  IF next = "QUEUED" /\ s.status = "QUEUED" /\ s.gen >= 1 THEN Reopen(t)
        ELSE Bumped(t, next = "QUEUED")

-----------------------------------------------------------------------------
(* The calls of the workers *)

InMemory == backend = "memory"
Room == st.gen < MaxGen

Accept(m, at) ==
    /\ Room
    /\ st' = IF InMemory THEN MemAccept(st, m, at) ELSE PgAccept(st, m, at)
    /\ UNCHANGED <<backend, lease, faults>>

\* claim_session with the generation of a notification: another generation is
\* STALE.  What was answered is acknowledged, unless that is lost; a call that
\* raised is rolled back and its notification kept, so it changes nothing.
Claim(w, g) ==
    LET s == IF st.gen # g THEN st ELSE IF InMemory THEN MemClaim(st, w) ELSE PgClaim(st, w)
    IN  /\ g \in st.wake /\ lease[w] = NoLease /\ st.epoch < MaxEpoch
        /\ InMemory \/ st.gen # g \/ ~PgClaimRaises(st)
        /\ \/ st' = [s EXCEPT !.wake = @ \ {g}] /\ UNCHANGED faults
           \/ st' = s /\ Fault
        /\ lease' = [lease EXCEPT ![w] = IF s.epoch > st.epoch
                                         THEN [seq |-> s.proc, epoch |-> s.epoch] ELSE @]
        /\ UNCHANGED backend

\* renew, or FencingConflict.
Renew(w) ==
    /\ lease[w] # NoLease
    /\ IF Owns(st, w, lease[w])
       THEN st' = [st EXCEPT !.exp = LeaseFor, !.upd = 0] /\ UNCHANGED lease
       ELSE lease' = [lease EXCEPT ![w] = NoLease] /\ UNCHANGED st
    /\ UNCHANGED <<backend, faults>>

\* A worker ends its lease; a store that no longer knows it as the owner
\* answers with FencingConflict and stays as it is.
Commit(w) ==
    /\ Room /\ lease[w] # NoLease
    /\ st' = IF ~Owns(st, w, lease[w]) THEN st ELSE IF InMemory THEN MemCommit(st) ELSE PgCommit(st)
    /\ lease' = [lease EXCEPT ![w] = NoLease]
    /\ UNCHANGED <<backend, faults>>

Release(w, at, wake) ==
    /\ Room /\ Fault /\ lease[w] # NoLease
    /\ st' = IF ~Owns(st, w, lease[w]) THEN st
             ELSE IF InMemory THEN MemRelease(st, at, wake) ELSE PgRelease(st, at, wake)
    /\ lease' = [lease EXCEPT ![w] = NoLease]
    /\ UNCHANGED backend

\* The worker dies.
Abandon(w) ==
    /\ Fault /\ lease[w] # NoLease
    /\ lease' = [lease EXCEPT ![w] = NoLease]
    /\ UNCHANGED <<backend, st>>

-----------------------------------------------------------------------------
(* The recovery loops, the dispatcher, Redis and time *)

Sweep ==
    /\ Room
    /\ \/ InMemory /\ MemSweepDue(st) /\ st' = MemSweep(st)
       \/ ~InMemory /\ PgSweepDue(st) /\ st' = PgSweep(st)
    /\ UNCHANGED <<backend, lease, faults>>

Schedule ==
    /\ Room /\ RetryDue(st)
    /\ st' = IF InMemory THEN MemReconcile(st) ELSE PgSchedule(st)
    /\ UNCHANGED <<backend, lease, faults>>

Reconcile ==
    /\ Room
    /\ \/ InMemory /\ MemReconcileDue(st) /\ st' = MemReconcile(st)
       \/ ~InMemory /\ PgReconcileDue(st) /\ st' = PgReconcile(st)
    /\ UNCHANGED <<backend, lease, faults>>

\* dispatch_once publishes a pending row and marks it, unless the answer of Redis
\* or the mark is lost: the row is released and published again.
Publish(g) ==
    /\ g \in DOMAIN st.ready /\ st.ready[g] = "pending"
    /\ \/ st' = [st EXCEPT !.ready[g] = "published", !.wake = @ \cup {g}] /\ UNCHANGED faults
       \/ st' = [st EXCEPT !.wake = @ \cup {g}] /\ Fault
    /\ UNCHANGED <<backend, lease>>

LoseWake(g) ==
    /\ Fault /\ g \in st.wake
    /\ st' = [st EXCEPT !.wake = @ \ {g}]
    /\ UNCHANGED <<backend, lease>>

Left(t) == IF t = None \/ t = 0 THEN t ELSE t - 1

\* The heartbeat of a worker renews its lease in time, unless the worker stalls.
Tick ==
    /\ IF \E w \in Worker : Owns(st, w, lease[w]) /\ st.exp = 1 THEN Fault ELSE UNCHANGED faults
    /\ st' = [st EXCEPT !.exp = Left(@), !.retry = Left(@), !.upd = IF @ = Grace THEN @ ELSE @ + 1,
                        !.items = [i \in DOMAIN @ |-> [@[i] EXCEPT !.retry = Left(@)]]]
    /\ st' # st
    /\ UNCHANGED <<backend, lease>>

At == {None, RetryIn}

Next ==
    \/ \E m \in Msg, at \in At : Accept(m, at)
    \/ \E w \in Worker, g \in 1 .. MaxGen : Claim(w, g)
    \/ \E w \in Worker : Renew(w)
    \/ \E w \in Worker : Commit(w)
    \/ \E w \in Worker, at \in At, wake \in BOOLEAN : Release(w, at, wake)
    \/ \E w \in Worker : Abandon(w)
    \/ Sweep
    \/ Schedule
    \/ Reconcile
    \/ \E g \in 1 .. MaxGen : Publish(g)
    \/ \E g \in 1 .. MaxGen : LoseWake(g)
    \/ Tick

Spec == Init /\ [][Next]_vars

\* The recovery loops and the dispatcher run, time passes, and a worker that is
\* notified claims and commits.
FairSpec ==
    /\ Spec
    /\ WF_vars(Sweep) /\ WF_vars(Schedule) /\ WF_vars(Reconcile) /\ WF_vars(Tick)
    /\ \A g \in 1 .. MaxGen : WF_vars(Publish(g)) /\ WF_vars(\E w \in Worker : Claim(w, g))
    /\ \A w \in Worker : WF_vars(Commit(w))

-----------------------------------------------------------------------------
(* Properties *)

\* On either store the status tells what the head needs, whatever was accepted
\* behind it and whoever gave it back: IDLE has nothing unresolved, QUEUED a head
\* that is due and an outbox row for its generation, RETRY_WAIT the timer of the
\* head and of no later item, RUNNING an owner of the head; the others have no
\* lease.
StatusTellsHead ==
    /\ st.status = "IDLE" <=> st.res = st.acc
    /\ st.status = "QUEUED" => st.gen \in DOMAIN st.ready /\ ~Future(st.items[st.res + 1].retry)
    /\ st.status = "RETRY_WAIT" => st.retry = st.items[st.res + 1].retry
    /\ IF st.status = "RUNNING" THEN st.proc = st.res + 1 /\ st.owner # None /\ st.exp # None
       ELSE st.proc = 0 /\ st.owner = None /\ st.exp = None

\* On either store every accepted message is resolved in the end, whatever
\* worker stalled or died and whatever notification or answer was lost.
AllResolved == <>[](st.res = st.acc)
=============================================================================
