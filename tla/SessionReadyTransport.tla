------------------------ MODULE SessionReadyTransport ------------------------
(***************************************************************************)
(* How a wake-up of the session travels: the outbox relay publishes the    *)
(* session.ready.v2 rows to a Redis stream, the consumers of the workers   *)
(* receive one entry per free permit, claim the session in PostgreSQL, ack *)
(* the entry and only then execute; the Reclaimer of each worker takes     *)
(* over entries left pending; the Reconciler re-opens published rows.      *)
(*                                                                         *)
(* The rows of the session are those of SessionMailbox, whose actions are  *)
(* used here as they are; there any generation in ready may be claimed at  *)
(* any time, here only one that an entry delivers.                         *)
(***************************************************************************)
EXTENDS SessionMailbox

CONSTANTS
    Relay,       \* outbox dispatcher instances
    MaxEntries,  \* bound: entries of the session in the stream and the PEL
    MaxLosses    \* bound: losses of the whole Redis stream

ASSUME TransportAssumption ==
    None \notin Relay /\ MaxEntries \in Nat \ {0} /\ MaxLosses \in Nat

VARIABLES
    outbox,      \* outbox_events: one row per generation in ready
    relay,       \* the row each relay is publishing
    stream,      \* entries the consumer group has not delivered yet
    pel,         \* entries delivered and not acknowledged
    delivery,    \* the entry each permit is working on
    losses       \* losses of the stream so far

transport == <<outbox, relay, stream, pel, delivery, losses>>
tvars == <<vars, transport>>

-----------------------------------------------------------------------------
(* The state *)

Entry == [id : 1 .. MaxEntries, gen : Nat]
NoEntry == [id |-> 0, gen |-> 0]
NoDelivery == [phase |-> "none", entry |-> NoEntry]
IdleRelay == [phase |-> "idle", gen |-> 0]

OutboxRow == [published : BOOLEAN, by : Relay \cup {None}, live : BOOLEAN]
RelayState == [phase : {"idle", "claimed", "sent"}, gen : Nat]
DeliveryState == [phase : {"none", "received", "answered"}, entry : Entry \cup {NoEntry}]

NewRow == [published |-> FALSE, by |-> None, live |-> FALSE]

TransportInit ==
    /\ Init
    /\ outbox = [g \in ready |-> NewRow]
    /\ relay = [r \in Relay |-> IdleRelay]
    /\ stream = <<>>
    /\ pel = {}
    /\ delivery = [s \in Slot |-> NoDelivery]
    /\ losses = 0

Queued == {stream[i] : i \in 1 .. Len(stream)}
Held == {delivery[s].entry : s \in Slot} \ {NoEntry}
UsedIds == {e.id : e \in Queued \cup pel \cup Held}

Fault == faults < MaxFaults /\ faults' = faults + 1

\* A transaction that emits a wake-up inserts its row, unpublished.
WithNewRows == [g \in ready' |-> IF g \in ready THEN outbox[g] ELSE NewRow]

-----------------------------------------------------------------------------
(* The outbox relay: claim a row, XADD its notice, mark the row published *)

\* claim_outbox_events takes an unpublished row nobody holds a live claim on.
ClaimOutbox(r) ==
    /\ relay[r].phase = "idle"
    /\ \E g \in ready :
          /\ ~outbox[g].published
          /\ ~outbox[g].live
          /\ outbox' = [outbox EXCEPT ![g].by = r, ![g].live = TRUE]
          /\ relay' = [relay EXCEPT ![r] = [phase |-> "claimed", gen |-> g]]
    /\ UNCHANGED <<vars, stream, pel, delivery, losses>>

PublishReady(r) ==
    /\ relay[r].phase = "claimed"
    /\ \E i \in 1 .. MaxEntries \ UsedIds :
          /\ \A j \in 1 .. MaxEntries \ UsedIds : i <= j
          /\ stream' = Append(stream, [id |-> i, gen |-> relay[r].gen])
    /\ relay' = [relay EXCEPT ![r].phase = "sent"]
    /\ UNCHANGED <<vars, outbox, pel, delivery, losses>>

\* Marking needs the claim to be the relay's own; a lost claim is refused.
MarkOutboxPublished(r) ==
    LET g == relay[r].gen
    IN  /\ relay[r].phase = "sent"
        /\ outbox' = IF outbox[g].by = r /\ ~outbox[g].published
                       THEN [outbox EXCEPT ![g] =
                               [published |-> TRUE, by |-> None, live |-> FALSE]]
                       ELSE outbox
        /\ relay' = [relay EXCEPT ![r] = IdleRelay]
        /\ UNCHANGED <<vars, stream, pel, delivery, losses>>

\* XADD or the marking failed: the row is given back if it is still held.
ReleaseOutbox(r) ==
    LET g == relay[r].gen
    IN  /\ relay[r].phase # "idle"
        /\ Fault
        /\ outbox' = IF outbox[g].by = r
                       THEN [outbox EXCEPT ![g].by = None, ![g].live = FALSE]
                       ELSE outbox
        /\ relay' = [relay EXCEPT ![r] = IdleRelay]
        /\ UNCHANGED <<rows, slot, stream, pel, delivery, losses>>

RelayCrash(r) ==
    /\ relay[r].phase # "idle"
    /\ Fault
    /\ relay' = [relay EXCEPT ![r] = IdleRelay]
    /\ UNCHANGED <<rows, slot, outbox, stream, pel, delivery, losses>>

\* The claim of a relay that works within its 30 seconds does not lapse.
OutboxClaimExpires(g) ==
    /\ outbox[g].live
    /\ IF relay[outbox[g].by] = IdleRelay \/ relay[outbox[g].by].gen # g
         THEN UNCHANGED faults
         ELSE Fault
    /\ outbox' = [outbox EXCEPT ![g].live = FALSE]
    /\ UNCHANGED <<rows, slot, relay, stream, pel, delivery, losses>>

-----------------------------------------------------------------------------
(* The consumer of a worker: receive or reclaim, claim, ack *)

Free(s) == slot[s].phase = "idle" /\ delivery[s] = NoDelivery

Deliver(s, e) == delivery' = [delivery EXCEPT ![s] = [phase |-> "received", entry |-> e]]

\* Mutant: XREADGROUP NOACK, the entry is gone once it is delivered.
ReceiveNewNoAck(s) ==
    /\ Free(s)
    /\ stream # <<>>
    /\ Deliver(s, Head(stream))
    /\ stream' = Tail(stream)
    /\ UNCHANGED <<vars, outbox, relay, pel, losses>>

ReceiveNew(s) ==
    /\ Free(s)
    /\ stream # <<>>
    /\ Deliver(s, Head(stream))
    /\ pel' = pel \cup {Head(stream)}
    /\ stream' = Tail(stream)
    /\ UNCHANGED <<vars, outbox, relay, losses>>

\* XAUTOCLAIM takes entries idle for min_idle_ms: those whose holder is gone,
\* and those of a holder that is too slow.
Reclaim(s) ==
    /\ Free(s)
    /\ \E e \in pel :
          /\ IF e \in Held THEN Fault ELSE UNCHANGED faults
          /\ Deliver(s, e)
    /\ UNCHANGED <<rows, slot, outbox, relay, stream, pel, losses>>

\* Mutant: only a notice that was claimed is acked.
ClaimDeliveredKeepsStale(s) ==
    LET g == delivery[s].entry.gen
    IN  /\ delivery[s].phase = "received"
        /\ \/ /\ ClaimSessionReady(s, g)
              /\ delivery' = [delivery EXCEPT ![s].phase = "answered"]
           \/ /\ \/ ClaimWithoutLease(g)
                 \/ ClaimOutcome(g) \in {"STALE", "RUNNING", "EMPTY"} /\ UNCHANGED vars
              /\ delivery' = [delivery EXCEPT ![s] = NoDelivery]
        /\ outbox' = WithNewRows
        /\ UNCHANGED <<relay, stream, pel, losses>>

\* The claim in PostgreSQL.  Whatever it answers, the entry is acked next.
ClaimDelivered(s) ==
    LET g == delivery[s].entry.gen
    IN  /\ delivery[s].phase = "received"
        /\ \/ ClaimSessionReady(s, g)
           \/ ClaimWithoutLease(g)
           \/ /\ ClaimOutcome(g) \in {"STALE", "RUNNING", "EMPTY"}
              /\ UNCHANGED vars
        /\ delivery' = [delivery EXCEPT ![s].phase = "answered"]
        /\ outbox' = WithNewRows
        /\ UNCHANGED <<relay, stream, pel, losses>>

\* XACK and XDEL; an entry taken over and acked by another is gone already.
Ack(s) ==
    /\ delivery[s].phase = "answered"
    /\ pel' = pel \ {delivery[s].entry}
    /\ delivery' = [delivery EXCEPT ![s] = NoDelivery]
    /\ UNCHANGED <<vars, outbox, relay, stream, losses>>

\* The ack fails or times out: best effort, the turn is executed all the same.
AckFails(s) ==
    /\ delivery[s].phase = "answered"
    /\ Fault
    /\ delivery' = [delivery EXCEPT ![s] = NoDelivery]
    /\ UNCHANGED <<rows, slot, outbox, relay, stream, pel, losses>>

\* The claim raises, or the worker dies before it: the entry stays pending.
ClaimFails(s) ==
    /\ delivery[s].phase = "received"
    /\ Fault
    /\ delivery' = [delivery EXCEPT ![s] = NoDelivery]
    /\ UNCHANGED <<rows, slot, outbox, relay, stream, pel, losses>>

\* Redis loses the stream and its group; receivers create the group anew.
RedisLoss ==
    /\ losses < MaxLosses
    /\ losses' = losses + 1
    /\ stream' = <<>>
    /\ pel' = {}
    /\ UNCHANGED <<vars, outbox, relay, delivery>>

-----------------------------------------------------------------------------
(* The rows of the session *)

\* A step of SessionMailbox that does not concern a delivery.
RowStep(A) ==
    /\ A
    /\ outbox' = WithNewRows
    /\ UNCHANGED <<relay, stream, pel, delivery, losses>>

\* The callers of accept_inbound_v2 pass no retry_at.
Arrive == \E m \in Msg : AcceptDuplicate(m) \/ AcceptInboundV2(m, "null")

\* A turn is executed once the ack was tried.
Work(s) ==
    /\ delivery[s] = NoDelivery
    /\ RowStep(ReadSnapshot(s) \/ RenewSessionReady(s) \/ CommitSessionReady(s)
               \/ RetrySessionReady(s) \/ FailSessionReady(s) \/ FencingConflict(s))

WorkerCrash(s) ==
    /\ Crash(s)
    /\ delivery' = [delivery EXCEPT ![s] = NoDelivery]
    /\ UNCHANGED <<outbox, relay, stream, pel, losses>>

\* Mutant: a published row is never published again.
ReconcileWithoutReplay == RowStep(ReconcileSessionMailboxes)

\* A queued mailbox keeps its generation, and its row is published again unless
\* a relay holds it.
Reconcile ==
    LET g == mailbox.generation
        reopen == mailbox.status = "QUEUED" /\ mailbox'.status = "QUEUED" /\ ~outbox[g].live
    IN  /\ ReconcileSessionMailboxes
        /\ outbox' = IF reopen THEN [WithNewRows EXCEPT ![g] = NewRow] ELSE WithNewRows
        /\ UNCHANGED <<relay, stream, pel, delivery, losses>>

-----------------------------------------------------------------------------
(* The specification *)

Relaying(r) ==
    \/ ClaimOutbox(r)
    \/ PublishReady(r)
    \/ MarkOutboxPublished(r)
    \/ ReleaseOutbox(r)
    \/ RelayCrash(r)

Consume(s) ==
    \/ ReceiveNew(s)
    \/ Reclaim(s)
    \/ ClaimDelivered(s)
    \/ Ack(s)
    \/ AckFails(s)
    \/ ClaimFails(s)
    \/ Work(s)
    \/ WorkerCrash(s)

TransportNext ==
    \/ RowStep(Arrive)
    \/ RowStep(Time)
    \/ RowStep(SweepExpiredSessionLeases)
    \/ RowStep(ScheduleSessionMailboxRetries)
    \/ Reconcile
    \/ RowStep(Quiescent)
    \/ \E r \in Relay : Relaying(r)
    \/ \E s \in Slot : Consume(s)
    \/ \E g \in ready : OutboxClaimExpires(g)
    \/ RedisLoss

\* Every loop of the service keeps running: the relay, the receive and reclaim
\* loops, the delivery tasks and the three recovery loops catch their errors and
\* poll again, time passes, and a turn ends because run_timeout bounds it.
\* Faults are not fair, and they are finite.
Unfaulted(A) == A /\ faults' = faults

Fairness ==
    /\ \A r \in Relay : WF_tvars(Unfaulted(Relaying(r)))
    /\ WF_tvars(\E s \in Slot : ReceiveNew(s))
    /\ WF_tvars(\E s \in Slot : Unfaulted(Reclaim(s)))
    /\ \A s \in Slot : /\ WF_tvars(ClaimDelivered(s))
                       /\ WF_tvars(Ack(s))
                       /\ WF_tvars(Work(s) /\ (slot[s].phase = "hydrated" => slot'[s] = IdleSlot))
    /\ WF_tvars(\E g \in ready : Unfaulted(OutboxClaimExpires(g)))
    /\ WF_tvars(RowStep(Unfaulted(MailboxLeaseExpires)))
    /\ WF_tvars(RowStep(Unfaulted(SessionLeaseExpires)))
    /\ WF_tvars(RowStep(MailboxRetryDue))
    /\ \A m \in Msg : WF_tvars(RowStep(ItemRetryDue(m)))
    /\ WF_tvars(RowStep(SweepExpiredSessionLeases))
    /\ WF_tvars(RowStep(ScheduleSessionMailboxRetries))
    /\ WF_tvars(Reconcile)

TransportSpec == TransportInit /\ [][TransportNext]_tvars /\ Fairness

-----------------------------------------------------------------------------
(* Properties *)

\* As long as Redis kept its stream, the wake-up of a queued session is still on
\* its way: its row is unpublished, or an entry of its generation waits in the
\* stream or is pending.  Neither a relay nor an ack drops the last one.
NoLostWakeup ==
    losses = 0 /\ mailbox.status = "QUEUED" =>
        \/ ~outbox[mailbox.generation].published
        \/ \E e \in Queued \cup pel : e.gen = mailbox.generation

TransportTypeOK ==
    /\ outbox \in [ready -> OutboxRow]
    /\ relay \in [Relay -> RelayState]
    /\ stream \in Seq(Entry) /\ pel \subseteq Entry
    /\ delivery \in [Slot -> DeliveryState]
    /\ losses \in Nat

\* The session is queued under generation g, and an entry of g is in Redis.
Current(g) == mailbox.status = "QUEUED" /\ mailbox.generation = g
OnItsWay(g) == \E e \in Queued \cup pel : e.gen = g

\* Whatever travels has a row, and no row is newer than the mailbox.
CarriedInv ==
    /\ \A g \in ready : g <= mailbox.generation
    /\ \A r \in Relay : relay[r].phase # "idle" => relay[r].gen \in ready
    /\ \A e \in Queued \cup pel : e.gen \in ready
    /\ \A s \in Slot : delivery[s].phase # "none" => delivery[s].entry.gen \in ready

\* A notice that was answered wakes nobody any more, and as long as Redis kept
\* its stream one that was sent, or whose row is published, is still there.
WakeInv ==
    /\ \A s \in Slot : delivery[s].phase = "answered" => ~Current(delivery[s].entry.gen)
    /\ losses = 0 =>
          /\ \A r \in Relay : relay[r].phase = "sent" /\ Current(relay[r].gen) => OnItsWay(relay[r].gen)
          /\ \A g \in ready : outbox[g].published /\ Current(g) => OnItsWay(g)

\* Why NoLostWakeup holds.
TransportInv == IndInv /\ TransportTypeOK /\ CarriedInv /\ WakeInv

\* Every accepted message is committed or given up in the end, through any
\* finite number of crashes, lapsed leases, lost acks and losses of Redis.
EveryMessageResolved ==
    \A m \in Msg : inbound[m] = "accepted" ~> inbound[m] \in {"committed", "failed"}

\* The service comes to rest: no notice of a resolved session is published,
\* delivered or reclaimed for ever.
EventuallyQuiet ==
    <>[](/\ mailbox.status = "IDLE"
         /\ stream = <<>> /\ pel = {}
         /\ \A g \in ready : outbox[g].published)
=============================================================================
