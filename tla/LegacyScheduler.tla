-------------------------- MODULE LegacyScheduler --------------------------
(***************************************************************************)
(* The v1 scheduler, kept for draining: the outbox dispatcher              *)
(* (src/trpc_service/queue/dispatcher.py) publishes one stream entry per   *)
(* inbound message, the consumers of src/trpc_service/queue/               *)
(* worker_consumer.py read or reclaim entries                              *)
(* (src/trpc_service/queue/redis_streams.py) and run the turn under the    *)
(* lease of the session row (acquire, renew, commit and fail of            *)
(* src/trpc_service/storage/postgres.py).                                  *)
(*                                                                         *)
(* One session.  Message n is the n-th by (accepted_at, inbound_id).       *)
(* accepted_at is the start of the accepting transaction, so the messages  *)
(* become visible in any order.  The first Old of them were accepted by v2 *)
(* before a rollback: they are in the session's mailbox, whose workers     *)
(* share the lease of the session row.  A consumer is one process with     *)
(* Slots tasks; an error of one task ends the process, which cancels the   *)
(* others and is started again.                                            *)
(***************************************************************************)
EXTENDS Naturals, Sequences

CONSTANTS
    Consumer,    \* worker processes
    Slots,       \* worker_concurrency
    N,           \* messages of the session
    Old,         \* how many of them v2 accepted before the rollback
    MaxMishaps,  \* bound: crashes, failed turns, stalls and lost marks
    Mailbox,     \* the owner of a lease of the v2 workers
    Nobody       \* no owner

ASSUME LegacyAssumption ==
    /\ Slots \in Nat \ {0} /\ N \in Nat \ {0} /\ MaxMishaps \in Nat
    /\ Old \in 0..N
    /\ Nobody \notin Consumer /\ Mailbox \notin Consumer \cup {Nobody}

VARIABLES
    inbound,   \* inbound_messages.status; "none" until the row is visible
    ahead,     \* the earlier messages that were visible when a message became so
    outbox,    \* the outbox event of a message: none, ready, published
    deduped,   \* messages whose publication Redis remembers
    stream,    \* entries not yet delivered to the group
    pel,       \* delivered entries: their consumer, and whether they are idle
    lease,     \* the lease of the session row
    turn,      \* session_turns: status and fencing token
    task,      \* the tasks of the consumers
    commits,   \* the messages in the order of their commits
    mishaps    \* faults so far

legacyVars == <<inbound, ahead, outbox, deduped, stream, pel, lease, turn, task, commits, mishaps>>
db == <<inbound, ahead, lease, turn, commits>>

Message == 1..N
Mailboxed == 1..Old
Task == Consumer \X (1..Slots)
Free == [pc |-> "free", m |-> 0, epoch |-> 0]
Unowned == [owner |-> Nobody, idle |-> FALSE]
Unleased(e) == [owner |-> Nobody, epoch |-> e, live |-> FALSE]

LegacyInit ==
    /\ inbound = [m \in Message |-> IF m \in Mailboxed THEN "accepted" ELSE "none"]
    /\ ahead = [m \in Message |-> {}]
    /\ outbox = [m \in Message |-> "none"]
    /\ deduped = {} /\ stream = <<>>
    /\ pel = [m \in Message |-> Unowned]
    /\ lease = Unleased(0)
    /\ turn = [m \in Message |-> [status |-> "none", token |-> 0]]
    /\ task = [t \in Task |-> Free]
    /\ commits = <<>>
    /\ mishaps = 0

Goto(t, pc) == task' = [task EXCEPT ![t].pc = pc]
EndTask(t) == task' = [task EXCEPT ![t] = Free]
Active(c) == {task[<<c, i>>].m : i \in 1..Slots}
Mishap == mishaps < MaxMishaps /\ mishaps' = mishaps + 1

-----------------------------------------------------------------------------
(* The gateway and the dispatcher *)

\* accept_inbound: the message and its outbox event in one transaction, which
\* takes no lock of the session; the step is its commit.
Accept(m) ==
    /\ inbound[m] = "none"
    /\ inbound' = [inbound EXCEPT ![m] = "accepted"]
    /\ ahead' = [ahead EXCEPT ![m] = {n \in 1..(m - 1) : inbound[n] # "none"}]
    /\ outbox' = [outbox EXCEPT ![m] = "ready"]
    /\ UNCHANGED <<deduped, stream, pel, lease, turn, task, commits, mishaps>>

\* _PUBLISH_LUA: the entry is added unless the event was published before.
Added(m) == IF m \in deduped THEN stream ELSE Append(stream, m)

\* dispatch_once for one record.  A batch comes back in no fixed order.
Publish(m) ==
    /\ outbox[m] = "ready"
    /\ stream' = Added(m) /\ deduped' = deduped \cup {m}
    /\ outbox' = [outbox EXCEPT ![m] = "published"]
    /\ UNCHANGED <<db, pel, task, mishaps>>

\* The dispatcher ends between the publication and its mark.
PublishUnmarked(m) ==
    /\ outbox[m] = "ready" /\ Mishap
    /\ stream' = Added(m) /\ deduped' = deduped \cup {m}
    /\ UNCHANGED <<db, outbox, pel, task>>

-----------------------------------------------------------------------------
(* The entries of the stream *)

\* XAUTOCLAIM: an idle entry changes its owner, and is handed to a free task
\* unless this process is already working on it.
Reclaim(c, i, m) ==
    /\ task[<<c, i>>].pc = "free" /\ pel[m].idle
    /\ pel' = [pel EXCEPT ![m] = [owner |-> c, idle |-> FALSE]]
    /\ task' = IF m \in Active(c) THEN task
               ELSE [task EXCEPT ![<<c, i>>] = [Free EXCEPT !.pc = "acquire", !.m = m]]
    /\ UNCHANGED <<db, outbox, deduped, stream, mishaps>>

\* XREADGROUP, when nothing was reclaimed.
Read(c, i) ==
    /\ task[<<c, i>>].pc = "free" /\ stream # <<>>
    /\ \A m \in Message : pel[m].idle => m \in Active(c)
    /\ stream' = Tail(stream)
    /\ pel' = [pel EXCEPT ![Head(stream)] = [owner |-> c, idle |-> FALSE]]
    /\ task' = [task EXCEPT ![<<c, i>>] = [Free EXCEPT !.pc = "acquire", !.m = Head(stream)]]
    /\ UNCHANGED <<db, outbox, deduped, mishaps>>

InStream(s, m) == \E i \in 1..Len(s) : s[i] = m
Held(c, m) == pel[m].owner = c
Worked(m) == \E i \in 1..Slots : pel[m].owner # Nobody /\ task[<<pel[m].owner, i>>].m = m

\* An entry nobody refreshes becomes idle; the heartbeat of a task that works
\* on it fails to refresh it only by a fault.
BecomesIdle(m) ==
    /\ pel[m].owner # Nobody /\ ~pel[m].idle
    /\ IF Worked(m) THEN Mishap ELSE UNCHANGED mishaps
    /\ pel' = [pel EXCEPT ![m].idle = TRUE]
    /\ UNCHANGED <<db, outbox, deduped, stream, task>>

-----------------------------------------------------------------------------
(* The lease of the session *)

\* The mailbox of the session has work: an item that is neither committed nor
\* given up.
MailboxBusy == \E n \in Mailboxed : inbound[n] \in {"accepted", "processing"}

\* acquire without the check of the earlier messages.
AcquirableAnyOrder(m) == ~MailboxBusy /\ turn[m].status # "committed" /\ ~lease.live

\* acquire with a comparison that lets a message wait for itself.
AcquirableAtMost(m) ==
    AcquirableAnyOrder(m) /\ \A n \in 1..m : inbound[n] # "none" => turn[n].status = "committed"

\* acquire: the mailbox has no work, the session is unleased, and every earlier
\* message that is visible is committed; one that v2 gave up never is.
Acquirable(m) ==
    /\ ~MailboxBusy
    /\ turn[m].status # "committed"
    /\ ~lease.live
    /\ \A n \in 1..(m - 1) : inbound[n] # "none" => turn[n].status = "committed"

\* _process up to the turn: the lease, a duplicate, or busy.
Acquire(t) ==
    LET m == task[t].m
        e == lease.epoch + 1
    IN  /\ task[t].pc = "acquire"
        /\ IF Acquirable(m)
           THEN /\ lease' = [owner |-> t[1], epoch |-> e, live |-> TRUE]
                /\ turn' = [turn EXCEPT ![m] = [status |-> "processing", token |-> e]]
                /\ inbound' = [inbound EXCEPT ![m] = "processing"]
                /\ task' = [task EXCEPT ![t].pc = "turn", ![t].epoch = e]
           ELSE /\ Goto(t, IF inbound[m] = "committed" THEN "ack" ELSE "busy")
                /\ UNCHANGED <<inbound, lease, turn>>
        /\ UNCHANGED <<ahead, outbox, deduped, stream, pel, commits, mishaps>>

\* An acknowledgement of whatever the result of the turn was.
DeferAcked(t) ==
    /\ task[t].pc = "busy"
    /\ pel' = [pel EXCEPT ![task[t].m] = Unowned]
    /\ EndTask(t)
    /\ UNCHANGED <<db, outbox, deduped, stream, mishaps>>

\* defer: the task keeps its slot and tries again while the entry is its own.
Defer(t) ==
    /\ task[t].pc = "busy"
    /\ IF Held(t[1], task[t].m)
       THEN /\ pel' = [pel EXCEPT ![task[t].m].idle = FALSE]
            /\ Goto(t, "acquire")
       ELSE EndTask(t) /\ UNCHANGED pel
    /\ UNCHANGED <<db, outbox, deduped, stream, mishaps>>

\* A lease expires when nobody renews it, or by a fault.
Expire ==
    /\ lease.live
    /\ IF lease.owner = Mailbox \/ \E t \in Task : task[t].pc = "turn" /\ task[t].epoch = lease.epoch
       THEN Mishap ELSE UNCHANGED mishaps
    /\ lease' = [lease EXCEPT !.live = FALSE]
    /\ UNCHANGED <<inbound, ahead, turn, commits, outbox, deduped, stream, pel, task>>

\* commit: the lease is current and alive, and the turn is this one.
MayCommit(t) ==
    /\ lease.owner = t[1] /\ lease.epoch = task[t].epoch /\ lease.live
    /\ turn[task[t].m] = [status |-> "processing", token |-> task[t].epoch]

CommitTurn(t) ==
    LET m == task[t].m
    IN  /\ task[t].pc = "turn" /\ MayCommit(t)
        /\ commits' = Append(commits, m)
        /\ turn' = [turn EXCEPT ![m].status = "committed"]
        /\ inbound' = [inbound EXCEPT ![m] = "committed"]
        /\ lease' = Unleased(lease.epoch)
        /\ Goto(t, "ack")
        /\ UNCHANGED <<ahead, outbox, deduped, stream, pel, mishaps>>

\* fail for a set of tasks: each gives back what its token still covers.
Failing(ts) ==
    LET Owns(t) == lease.owner = t[1] /\ lease.epoch = task[t].epoch
        failed == {t \in ts : task[t].pc = "turn"}
    IN  /\ turn' = [m \in Message |->
             IF \E t \in failed : turn[m] = [status |-> "processing", token |-> task[t].epoch]
             THEN [turn[m] EXCEPT !.status = "failed"] ELSE turn[m]]
        /\ inbound' = [m \in Message |->
             IF \E t \in failed : task[t].m = m /\ Owns(t) THEN "accepted" ELSE inbound[m]]
        /\ lease' = IF \E t \in failed : Owns(t) THEN Unleased(lease.epoch) ELSE lease

Tasks(c) == {<<c, i>> : i \in 1..Slots}
Ended(ts) == [t \in Task |-> IF t \in ts THEN Free ELSE task[t]]

\* The process ends with an error: the tasks in flight are cancelled, and every
\* turn is failed.
Abort(c) ==
    /\ Failing(Tasks(c))
    /\ task' = Ended(Tasks(c))
    /\ UNCHANGED <<ahead, outbox, deduped, stream, pel, commits>>

\* The model, a tool or the database fails.
TurnFails(t) == task[t].pc = "turn" /\ Mishap /\ Abort(t[1])

\* A task that lost its lease is refused by renew or commit.
Fenced(t) ==
    /\ task[t].pc = "turn" /\ ~MayCommit(t)
    /\ Abort(t[1])
    /\ UNCHANGED mishaps

\* The heartbeat finds that the entry has another owner: the turn is cancelled
\* and the entry left to its owner.
OwnershipLost(t) ==
    /\ task[t].pc = "turn" /\ ~Held(t[1], task[t].m)
    /\ Failing({t})
    /\ EndTask(t)
    /\ UNCHANGED <<ahead, outbox, deduped, stream, pel, commits, mishaps>>

\* The process dies without cleaning up.
Dies(c) ==
    /\ \E t \in Tasks(c) : task[t].pc # "free"
    /\ Mishap
    /\ task' = Ended(Tasks(c))
    /\ UNCHANGED <<db, outbox, deduped, stream, pel>>

\* XACK of a finished message, by whoever finished it.
Ack(t) ==
    /\ task[t].pc = "ack"
    /\ pel' = [pel EXCEPT ![task[t].m] = Unowned]
    /\ EndTask(t)
    /\ UNCHANGED <<db, outbox, deduped, stream, mishaps>>

-----------------------------------------------------------------------------
(* The workers of the mailbox, where they share rows with v1 *)

\* claim_session_ready: the lease of the session row with the next epoch.
V2Claim(m) ==
    /\ inbound[m] \in {"accepted", "processing"} /\ ~lease.live
    /\ lease' = [owner |-> Mailbox, epoch |-> lease.epoch + 1, live |-> TRUE]
    /\ turn' = [turn EXCEPT ![m] = [status |-> "processing", token |-> lease.epoch + 1]]
    /\ inbound' = [inbound EXCEPT ![m] = "processing"]
    /\ UNCHANGED <<ahead, outbox, deduped, stream, pel, task, commits, mishaps>>

\* The end of a claimed turn with these statuses of its turn and its message.
V2End(m, status, verdict) ==
    /\ lease.owner = Mailbox /\ lease.live
    /\ turn[m] = [status |-> "processing", token |-> lease.epoch]
    /\ turn' = [turn EXCEPT ![m].status = status]
    /\ inbound' = [inbound EXCEPT ![m] = verdict]
    /\ lease' = Unleased(lease.epoch)
    /\ UNCHANGED <<ahead, outbox, deduped, stream, pel, task>>

\* commit_session_ready, retry_session_ready and fail_session_ready.
V2Commit(m) == V2End(m, "committed", "committed") /\ commits' = Append(commits, m) /\ UNCHANGED mishaps
V2Retry(m) == V2End(m, "failed", "accepted") /\ UNCHANGED commits /\ Mishap
V2Fail(m) == V2End(m, "failed", "failed") /\ UNCHANGED <<commits, mishaps>>

-----------------------------------------------------------------------------
(* The specification *)

TaskStep(t) == Acquire(t) \/ Defer(t) \/ CommitTurn(t) \/ Fenced(t) \/ OwnershipLost(t) \/ Ack(t)
Fetch(c, i) == (\E m \in Message : Reclaim(c, i, m)) \/ Read(c, i)

LegacyNext ==
    \/ \E m \in Message : Accept(m) \/ Publish(m) \/ PublishUnmarked(m) \/ BecomesIdle(m)
    \/ \E c \in Consumer, i \in 1..Slots : Fetch(c, i)
    \/ \E t \in Task : TaskStep(t) \/ TurnFails(t)
    \/ \E c \in Consumer : Dies(c)
    \/ \E m \in Mailboxed : V2Claim(m) \/ V2Commit(m) \/ V2Retry(m) \/ V2Fail(m)
    \/ Expire

LegacySpec == LegacyInit /\ [][LegacyNext]_legacyVars

\* Every process runs on, the dispatcher publishes, entries nobody works on
\* become idle and leases nobody renews expire.
LegacyFairSpec ==
    /\ LegacySpec
    /\ \A m \in Message : WF_legacyVars(Publish(m)) /\ WF_legacyVars(BecomesIdle(m) /\ ~Worked(m))
    /\ \A c \in Consumer, i \in 1..Slots : WF_legacyVars(Fetch(c, i))
    /\ \A t \in Task : WF_legacyVars(TaskStep(t))
    /\ WF_legacyVars(Expire /\ UNCHANGED mishaps)

-----------------------------------------------------------------------------
(* Properties *)

\* Each message is committed at most once, and after every earlier message that
\* was already visible when it was accepted, through crashes, expired leases,
\* stolen entries, cancelled turns and an overlap with v2.  Messages whose
\* acceptances overlap may be committed in either order.
CommitsInOrder ==
    \A i \in 1..Len(commits) :
       /\ \A j \in 1..(i - 1) : commits[j] # commits[i]
       /\ \A n \in ahead[commits[i]] : \E j \in 1..(i - 1) : commits[j] = n

\* No message is lost: one that was published and is neither in the stream nor
\* pending there has been committed.
NothingLost ==
    \A m \in Message : outbox[m] = "published" /\ ~InStream(stream, m) /\ pel[m].owner = Nobody
                          => inbound[m] = "committed"

\* Every task holds a message that waits for an earlier one no task holds: a
\* busy delivery keeps its slot, so nobody reads the earlier one.
Starved ==
    \A t \in Task : /\ task[t].pc \in {"acquire", "busy"}
                    /\ \E n \in 1..(task[t].m - 1) :
                          inbound[n] \in {"accepted", "processing"} /\ \A u \in Task : task[u].m # n

\* What draining relies on: a message that v1 accepted is committed, unless the
\* consumers remain starved or v2 keeps or gave up a message of the session.
Drains ==
    []<>~(Starved \/ \E n \in Mailboxed : inbound[n] # "committed") =>
       \A m \in Message \ Mailboxed : (inbound[m] = "accepted") ~> (inbound[m] = "committed")

-----------------------------------------------------------------------------
(* Why they hold *)

LegacyTypeOK ==
    /\ inbound \in [Message -> {"none", "accepted", "processing", "committed", "failed"}]
    /\ ahead \in [Message -> SUBSET Message]
    /\ outbox \in [Message -> {"none", "ready", "published"}]
    /\ deduped \subseteq Message /\ stream \in Seq(Message)
    /\ pel \in [Message -> [owner : Consumer \cup {Nobody}, idle : BOOLEAN]]
    /\ lease \in [owner : Consumer \cup {Nobody, Mailbox}, epoch : Nat, live : BOOLEAN]
    /\ turn \in [Message -> [status : {"none", "processing", "committed", "failed"}, token : Nat]]
    /\ task \in [Task -> [pc : {"free", "acquire", "turn", "busy", "ack"}, m : 0..N, epoch : Nat]]
    /\ commits \in Seq(Message)
    /\ mishaps \in Nat

\* The tables agree on what is committed, and what was visible stays so.
OrderInv ==
    /\ CommitsInOrder
    /\ \A m \in Message : turn[m].status = "committed" <=> \E i \in 1..Len(commits) : commits[i] = m
    /\ \A m \in Message : inbound[m] = "committed" <=> turn[m].status = "committed"
    /\ \A m \in Message : inbound[m] = "none" => turn[m].status = "none"
    /\ \A m \in Message : \A n \in ahead[m] : n < m /\ inbound[n] # "none"
    /\ \A m \in Mailboxed : ahead[m] = {} /\ inbound[m] # "none"

\* A turn can be committed under the living lease only when everything ahead of
\* its message is committed.
LeaseInv ==
    /\ \A m \in Message : turn[m].token <= lease.epoch
    /\ \A m \in Message :
          lease.live /\ turn[m] = [status |-> "processing", token |-> lease.epoch]
             => \A n \in ahead[m] : turn[n].status = "committed"
    /\ \A t \in Task : task[t].pc = "turn" =>
          /\ task[t].epoch <= lease.epoch
          /\ lease.owner = t[1] /\ lease.epoch = task[t].epoch
                => turn[task[t].m].status # "committed"

\* What Redis remembers was accepted, and is on its way until it is committed.
EntryInv ==
    /\ \A m \in Message :
          /\ outbox[m] = "published" => m \in deduped
          /\ outbox[m] # "none" \/ m \in deduped \/ pel[m].owner # Nobody \/ pel[m].idle
                => inbound[m] # "none"
          /\ m \in deduped =>
                InStream(stream, m) \/ pel[m].owner # Nobody \/ inbound[m] = "committed"
    /\ \A i \in 1..Len(stream) : inbound[stream[i]] # "none"
    /\ \A t \in Task : task[t].pc # "free" =>
          /\ task[t].m \in Message /\ inbound[task[t].m] # "none"
          /\ task[t].pc = "ack" => inbound[task[t].m] = "committed"

\* The inductive invariant.
LegacyInv == LegacyTypeOK /\ OrderInv /\ LeaseInv /\ EntryInv

=============================================================================
