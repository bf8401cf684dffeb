-------------------- MODULE SessionReadyTransportProofs --------------------
(***************************************************************************)
(* What the composition of the mailbox with the outbox, the relays and the *)
(* Redis stream promises, for every number of messages, slots, relays and  *)
(* entries: the invariant of the mailbox still holds, because a claim that *)
(* an entry delivers is one of the claims of SessionMailbox, and no        *)
(* wake-up is lost.                                                        *)
(*                                                                         *)
(* The argument: a session that becomes queued gets a generation that no   *)
(* row has yet, so everything that travels already is about an older one;  *)
(* an entry is removed only after its claim was answered, and an answered  *)
(* generation is never queued again.                                       *)
(***************************************************************************)
EXTENDS SessionReadyTransport, SessionMailboxProofs

-----------------------------------------------------------------------------
(* The rows of the mailbox *)

\* A transaction keeps the wake-ups it finds and queues the session, if it does,
\* under the generation it had or under one that has no row yet.
Turned ==
    /\ ready \subseteq ready' /\ ready' \subseteq Nat
    /\ \A g \in ready : Current(g)' => Current(g)
    /\ \A g \in ready' : g <= mailbox'.generation

\* A step that leaves the status, the generation and the wake-ups.
LEMMA TurnedSame ==
    ASSUME IndInv, CarriedInv, ready' = ready,
           mailbox'.generation = mailbox.generation,
           mailbox'.status \in {mailbox.status, "IDLE", "RUNNING", "RETRY_WAIT"}
    PROVE  Turned
BY DEF Turned, Current, CarriedInv, IndInv, TypeOK

\* A step that queues the session under a new generation.
LEMMA TurnedNew ==
    ASSUME IndInv, CarriedInv, ready' = ready \cup {mailbox'.generation},
           mailbox'.generation = mailbox.generation + 1
    PROVE  Turned
<1>1. mailbox.generation \in Nat /\ ready \subseteq Nat
      BY MailboxFields DEF IndInv, TypeOK
<1>2. \A g \in ready : g \in Nat /\ g <= mailbox.generation
      BY <1>1 DEF CarriedInv
<1>3. \A g \in ready : g # mailbox'.generation
      BY <1>1, <1>2
<1>4. \A g \in ready' : g <= mailbox'.generation
      BY <1>1, <1>2
<1>5. ready \subseteq ready' /\ ready' \subseteq Nat
      <2>1. mailbox'.generation \in Nat
            BY <1>1
      <2> QED BY <1>1, <2>1, Zenon
<1>6. \A g \in ready : ~Current(g)'
      BY <1>3 DEF Current
<1> QED BY <1>4, <1>5, <1>6, Zenon DEF Turned

\* The processing columns are cleared and the next item is looked at.
LEMMA TurnedReleased ==
    ASSUME IndInv, CarriedInv, NEW r \in Nat, NEW st \in Status \ {"RUNNING"},
           NEW b \in {0, 1}, st = "QUEUED" /\ b = 0 => Current(mailbox.generation),
           st # "QUEUED" => b = 0,
           mailbox' = Released(r, st, b), ready' = EmitReady(mailbox')
    PROVE  Turned
<1>1. mailbox \in MailboxRow /\ b \in Nat /\ st \in Status /\ mailbox.generation \in Nat
      BY MailboxFields DEF IndInv, TypeOK
<1>2. mailbox'.status = st /\ mailbox'.generation = mailbox.generation + b
      <2>1. /\ Released(r, st, b).status = st
            /\ Released(r, st, b).generation = mailbox.generation + b
            BY <1>1, ReleasedRow
      <2> QED BY <2>1, Zenon
<1>3. CASE b = 1
      <2>1. st = "QUEUED"
            BY <1>3
      <2>2. ready' = ready \cup {mailbox'.generation}
            BY <1>2, <2>1 DEF EmitReady
      <2> QED BY <1>2, <1>3, <2>2, TurnedNew
<1>4. CASE b = 0
      <2>1. mailbox'.generation = mailbox.generation
            BY <1>1, <1>2, <1>4
      <2>2. ready' = ready
            <3>1. st = "QUEUED" => mailbox.generation \in ready
                  BY <1>4 DEF Current, IndInv, NoForgottenWork
            <3> QED BY <1>2, <2>1, <3>1 DEF EmitReady
      <2>3. mailbox'.status \in {mailbox.status, "IDLE", "RUNNING", "RETRY_WAIT"}
            BY <1>2, <1>4 DEF Status, Current
      <2> QED BY <2>1, <2>2, <2>3, TurnedSame
<1> QED BY <1>3, <1>4

\* The item at sequence r is resolved.
LEMMA TurnedAdvance ==
    ASSUME IndInv, CarriedInv, NEW r \in Nat, Advance(r)
    PROVE  Turned
<1> DEFINE st == StatusAt(r + 1)
<1>1. st \in Status \ {"RUNNING"}
      BY DEF StatusAt, Status
<1>2. Bump(st) \in {0, 1} /\ (st = "QUEUED" => Bump(st) # 0) /\ (st # "QUEUED" => Bump(st) = 0)
      BY DEF Bump
<1>3. mailbox' = Released(r, st, Bump(st)) /\ ready' = EmitReady(mailbox')
      BY DEF Advance
<1> HIDE DEF st
<1> DEFINE b == Bump(st)
<1>4. b \in {0, 1} /\ (st = "QUEUED" => b # 0) /\ (st # "QUEUED" => b = 0)
      BY <1>2
<1>5. mailbox' = Released(r, st, b)
      BY <1>3
<1> HIDE DEF b
<1> QED BY <1>1, <1>3, <1>4, <1>5, TurnedReleased

\* accept_inbound_v2 opens a new generation or leaves the one that is open.
LEMMA AcceptTurns ==
    ASSUME IndInv, CarriedInv, Arrive
    PROVE  Turned
<1>0. mailbox \in MailboxRow /\ mailbox.status \in Status
      BY MailboxFields DEF IndInv, TypeOK
<1>1. ASSUME NEW m \in Msg, AcceptDuplicate(m) PROVE Turned
      BY <1>1, TurnedSame DEF AcceptDuplicate
<1>2. ASSUME NEW m \in Msg, AcceptInboundV2(m, "null") PROVE Turned
      <2> DEFINE st == AcceptedStatus("null")
                 isReady == st = "QUEUED" /\ mailbox.status \in {"IDLE", "RETRY_WAIT"}
      <2>1. /\ mailbox'.status = st
            /\ mailbox'.generation = IF isReady THEN mailbox.generation + 1 ELSE mailbox.generation
            /\ ready' = IF isReady THEN ready \cup {mailbox'.generation} ELSE ready
            BY <1>0, <1>2, SMTT(20) DEF AcceptInboundV2, MailboxRow
      <2>2. CASE isReady
            <3>1. ready' = ready \cup {mailbox'.generation} /\ mailbox'.generation = mailbox.generation + 1
                  BY <2>1, <2>2
            <3> QED BY <3>1, TurnedNew
      <2>3. CASE ~isReady
            <3>1. ready' = ready /\ mailbox'.generation = mailbox.generation
                  BY <2>1, <2>3
            <3>2. mailbox'.status \in {mailbox.status, "IDLE", "RUNNING", "RETRY_WAIT"}
                  BY <1>0, <2>1, <2>3 DEF AcceptedStatus, Status
            <3> QED BY <3>1, <3>2, TurnedSame
      <2> QED BY <2>2, <2>3
<1> QED BY <1>1, <1>2 DEF Arrive

\* A lease lapses or a retry falls due: the session stays where it is.
LEMMA TimeTurns ==
    ASSUME IndInv, CarriedInv, Time
    PROVE  Turned
<1>0. mailbox \in MailboxRow
      BY DEF IndInv, TypeOK
<1>1. ready' = ready /\ mailbox'.status = mailbox.status /\ mailbox'.generation = mailbox.generation
      BY <1>0, SMTT(20) DEF Time, MailboxLeaseExpires, SessionLeaseExpires, MailboxRetryDue,
         ItemRetryDue, MailboxRow
<1> QED BY <1>1, TurnedSame

\* schedule_session_mailbox_retries opens a new generation.
LEMMA ScheduleTurns ==
    ASSUME IndInv, CarriedInv, ScheduleSessionMailboxRetries
    PROVE  Turned
<1>0. mailbox \in MailboxRow
      BY DEF IndInv, TypeOK
<1>1. mailbox'.status = "QUEUED" /\ mailbox'.generation = mailbox.generation + 1
      BY <1>0, SMTT(20) DEF ScheduleSessionMailboxRetries, MailboxRow
<1>2. ready' = ready \cup {mailbox'.generation}
      BY <1>1 DEF ScheduleSessionMailboxRetries, EmitReady
<1> QED BY <1>1, <1>2, TurnedNew

\* sweep_expired_session_leases opens a new generation or none.
LEMMA SweepTurns ==
    ASSUME IndInv, CarriedInv, SweepExpiredSessionLeases
    PROVE  Turned
<1> DEFINE st == IF mailbox.accepted <= mailbox.resolved THEN "IDLE"
                 ELSE StatusAt(mailbox.processing)
           b == Bump(st)
<1>1. st \in Status \ {"RUNNING"} /\ mailbox.resolved \in Nat
      BY MailboxFields DEF StatusAt, Status, IndInv, TypeOK
<1>2. mailbox' = Released(mailbox.resolved, st, b) /\ ready' = EmitReady(mailbox')
      BY DEF SweepExpiredSessionLeases
<1>3. b \in {0, 1} /\ (st = "QUEUED" => b # 0) /\ (st # "QUEUED" => b = 0)
      BY DEF Bump
<1> HIDE DEF st, b
<1> QED BY <1>1, <1>2, <1>3, TurnedReleased

\* reconcile_session_mailboxes keeps the generation of a queued session.
LEMMA ReconcileTurns ==
    ASSUME IndInv, CarriedInv, ReconcileSessionMailboxes
    PROVE  Turned
<1>0. mailbox.resolved \in Nat /\ HeadSeq \in Nat
      BY MailboxFields DEF IndInv, TypeOK, HeadSeq
<1>1. CASE Advance(HeadSeq)
      BY <1>0, <1>1, TurnedAdvance
<1>2. CASE Requeue
      <2> DEFINE st == IF mailbox.accepted <= mailbox.resolved THEN "IDLE" ELSE StatusAt(HeadSeq)
                 fresh == mailbox.status # "QUEUED" \/ mailbox.generation < 1
                 b == IF fresh THEN Bump(st) ELSE 0
      <2>1. st \in Status \ {"RUNNING"}
            BY DEF StatusAt, Status
      <2>2. mailbox' = Released(mailbox.resolved, st, b) /\ ready' = EmitReady(mailbox')
            BY <1>2 DEF Requeue
      <2>3. b \in {0, 1} /\ (st # "QUEUED" => b = 0)
            BY DEF Bump
      <2>4. st = "QUEUED" /\ b = 0 => Current(mailbox.generation)
            BY DEF Bump, Current
      <2> HIDE DEF st, b, fresh
      <2> QED BY <1>0, <2>1, <2>2, <2>3, <2>4, TurnedReleased
<1> QED BY <1>1, <1>2 DEF ReconcileSessionMailboxes

\* A claim, whatever it answers, takes the session out of the queue: the
\* generation it was made for is not waiting any more.
LEMMA ClaimTurns ==
    ASSUME IndInv, CarriedInv, NEW s \in Slot, NEW g,
           \/ ClaimSessionReady(s, g)
           \/ ClaimWithoutLease(g)
           \/ ClaimOutcome(g) \in {"STALE", "RUNNING", "EMPTY"} /\ UNCHANGED vars
    PROVE  Turned /\ ~Current(g)'
<1>0. mailbox \in MailboxRow
      BY DEF IndInv, TypeOK
<1>1. CASE ClaimSessionReady(s, g)
      <2>1. ready' = ready /\ mailbox'.status = "RUNNING" /\ mailbox'.generation = mailbox.generation
            BY <1>0, <1>1, SMTT(20) DEF ClaimSessionReady, MailboxRow
      <2> QED BY <2>1, TurnedSame DEF Current
<1>2. CASE ClaimWithoutLease(g)
      <2>1. DeferToHead
            BY <1>2, ClaimOutcomeFacts DEF ClaimWithoutLease
      <2>2. ready' = ready /\ mailbox'.status = "RETRY_WAIT" /\ mailbox'.generation = mailbox.generation
            BY <1>0, <2>1, SMTT(20) DEF DeferToHead, MailboxRow
      <2> QED BY <2>2, TurnedSame DEF Current
<1>3. CASE ClaimOutcome(g) \in {"STALE", "RUNNING", "EMPTY"} /\ UNCHANGED vars
      <2>1. UNCHANGED <<mailbox, ready>>
            BY <1>3 DEF vars, rows
      <2>2. ~Current(g)
            <3>1. SUFFICES ASSUME Current(g) PROVE FALSE
                  OBVIOUS
            <3>2. g = mailbox.generation /\ mailbox.status = "QUEUED"
                  BY <3>1 DEF Current
            <3>3. mailbox.lease # "live" /\ session.lease # "live"
                  BY <3>2 DEF IndInv, RowConstraints, LeaseInv
            <3>4. HeadSeq <= mailbox.accepted
                  <4>1. /\ mailbox.accepted \in Nat /\ mailbox.resolved \in Nat
                        /\ mailbox.resolved <= mailbox.accepted
                        /\ mailbox.accepted # mailbox.resolved
                        BY <3>2, MailboxFields DEF IndInv, TypeOK, RowConstraints, NoForgottenWork
                  <4>2. HeadSeq = mailbox.resolved + 1
                        BY HeadFacts
                  <4> QED BY <4>1, <4>2
            <3>5. HeadSeq \in Nat /\ mailbox.accepted \in Nat
                  BY MailboxFields DEF IndInv, TypeOK, HeadSeq
            <3>6. ~(HeadSeq > mailbox.accepted)
                  BY <3>4, <3>5
            <3> QED BY <1>3, <3>2, <3>3, <3>6 DEF ClaimOutcome
      <2>3. Turned
            BY <2>1, TurnedSame
      <2> QED BY <2>1, <2>2, <2>3 DEF Current
<1> QED BY <1>1, <1>2, <1>3

\* What a worker does with its claim.
LEMMA WorkTurns ==
    ASSUME IndInv, CarriedInv, NEW s \in Slot, Execute(s)
    PROVE  Turned
<1>0. mailbox \in MailboxRow /\ mailbox.resolved \in Nat /\ mailbox.processing \in Nat
      BY MailboxFields DEF IndInv, TypeOK
<1>1. CASE ReadSnapshot(s) \/ RenewSessionReady(s) \/ FencingConflict(s) \/ Crash(s)
      <2>1. ready' = ready /\ mailbox'.status = mailbox.status
            /\ mailbox'.generation = mailbox.generation
            BY <1>0, <1>1, SMTT(20) DEF ReadSnapshot, RenewSessionReady, FencingConflict, Crash, rows,
               MailboxRow
      <2> QED BY <2>1, TurnedSame
<1>2. CASE CommitSessionReady(s) \/ FailSessionReady(s)
      <2>1. Advance(mailbox.processing)
            BY <1>2 DEF CommitSessionReady, FailSessionReady
      <2> QED BY <1>0, <2>1, TurnedAdvance
<1>3. CASE RetrySessionReady(s)
      <2>1. mailbox' = Released(mailbox.resolved, "RETRY_WAIT", 0) /\ ready' = ready
            BY <1>3 DEF RetrySessionReady
      <2>2. mailbox'.status = "RETRY_WAIT" /\ mailbox'.generation = mailbox.generation + 0
            <3>1. "RETRY_WAIT" \in Status /\ 0 \in Nat
                  BY DEF Status
            <3>2. /\ Released(mailbox.resolved, "RETRY_WAIT", 0).status = "RETRY_WAIT"
                  /\ Released(mailbox.resolved, "RETRY_WAIT", 0).generation = mailbox.generation + 0
                  BY <1>0, <3>1, ReleasedRow
            <3> QED BY <2>1, <3>2, Zenon
      <2>3. mailbox'.generation = mailbox.generation
            BY <1>0, <2>2, MailboxFields
      <2> QED BY <2>1, <2>2, <2>3, TurnedSame
<1> QED BY <1>1, <1>2, <1>3 DEF Execute

-----------------------------------------------------------------------------
(* The outbox, the relays and the stream *)

\* A transaction of the mailbox, with the rows it adds to the outbox, unpublished,
\* and the answers it gives to deliveries, keeps the invariant.
LEMMA RowsTurn ==
    ASSUME TransportInv, IndInv', Turned, outbox' \in [ready' -> OutboxRow],
           \A g \in ready' : outbox'[g].published => g \in ready /\ outbox[g].published,
           UNCHANGED <<relay, stream, pel, losses>>,
           delivery' \in [Slot -> DeliveryState],
           \A s \in Slot : delivery'[s].phase # "none" =>
              /\ delivery[s].phase # "none" /\ delivery'[s].entry = delivery[s].entry
              /\ delivery'[s].phase = "answered" =>
                    delivery[s].phase = "answered" \/ ~Current(delivery[s].entry.gen)'
    PROVE  TransportInv'
<1>1. TransportTypeOK'
      BY DEF TransportInv, TransportTypeOK
<1>2. Queued' = Queued
      BY DEF Queued
<1>3. CarriedInv'
      BY <1>2 DEF TransportInv, CarriedInv, Turned
<1>4. \A g \in ready : Current(g)' => Current(g)
      BY DEF Turned
<1>5. \A g : OnItsWay(g)' <=> OnItsWay(g)
      BY <1>2 DEF OnItsWay
<1>6. \A s \in Slot : delivery'[s].phase = "answered" => ~Current(delivery[s].entry.gen)'
      BY <1>4 DEF TransportInv, CarriedInv, WakeInv
<1>7. ASSUME losses = 0, NEW r \in Relay, relay[r].phase = "sent", Current(relay[r].gen)'
      PROVE  OnItsWay(relay[r].gen)'
      BY <1>4, <1>5, <1>7 DEF TransportInv, CarriedInv, WakeInv
<1>8. ASSUME losses = 0, NEW g \in ready', outbox'[g].published, Current(g)'
      PROVE  OnItsWay(g)'
      BY <1>4, <1>5, <1>8 DEF TransportInv, WakeInv
<1>9. WakeInv'
      <2>1. losses' = 0 => \A r \in Relay :
               relay'[r].phase = "sent" /\ Current(relay[r].gen)' => OnItsWay(relay[r].gen)'
            BY <1>7
      <2>2. losses' = 0 => \A g \in ready' : outbox'[g].published /\ Current(g)' => OnItsWay(g)'
            BY <1>8
      <2> QED BY <1>6, <2>1, <2>2 DEF WakeInv
<1> QED BY <1>1, <1>3, <1>9 DEF TransportInv

\* The rows a transaction adds to the outbox.
LEMMA NewRows ==
    ASSUME outbox \in [ready -> OutboxRow], outbox' = WithNewRows
    PROVE  /\ outbox' \in [ready' -> OutboxRow]
           /\ \A g \in ready' : outbox'[g].published => g \in ready /\ outbox[g].published
           /\ \A g \in ready' : g \in ready => outbox'[g] = outbox[g]
<1>1. NewRow \in OutboxRow /\ ~NewRow.published
      BY Zenon DEF NewRow, OutboxRow
<1>2. \A g \in ready' : outbox'[g] = IF g \in ready THEN outbox[g] ELSE NewRow
      BY DEF WithNewRows
<1>3. outbox' \in [ready' -> OutboxRow]
      BY <1>1 DEF WithNewRows
<1> QED BY <1>1, <1>2, <1>3

\* A transaction of the mailbox that answers no delivery.
LEMMA RowStepKeeps ==
    ASSUME TransportInv, IndInv', Turned, outbox' = WithNewRows,
           UNCHANGED <<relay, stream, pel, delivery, losses>>
    PROVE  TransportInv'
<1>1. outbox \in [ready -> OutboxRow] /\ delivery \in [Slot -> DeliveryState]
      BY DEF TransportInv, TransportTypeOK
<1> QED BY <1>1, NewRows, RowsTurn

\* A step of a relay or of Redis that keeps the rows of the mailbox.
LEMMA TravelKeeps ==
    ASSUME TransportInv, IndInv', TransportTypeOK', UNCHANGED <<mailbox, ready>>,
           \A r \in Relay : relay'[r].phase # "idle" => relay'[r].gen \in ready,
           \A e \in Queued' \cup pel' : e.gen \in ready,
           \A s \in Slot : delivery'[s].phase # "none" => delivery'[s].entry.gen \in ready,
           \A s \in Slot : delivery'[s].phase = "answered" => ~Current(delivery'[s].entry.gen),
           \A g \in ready : losses' = 0 /\ Current(g) =>
              /\ \A r \in Relay : relay'[r].phase = "sent" /\ relay'[r].gen = g => OnItsWay(g)'
              /\ outbox'[g].published => OnItsWay(g)'
    PROVE  TransportInv'
<1>1. \A g : Current(g)' <=> Current(g)
      BY DEF Current
<1>2. CarriedInv'
      BY DEF TransportInv, CarriedInv
<1>3. WakeInv'
      BY <1>1 DEF WakeInv, Current
<1> QED BY <1>2, <1>3 DEF TransportInv

\* A relay is a record; the one that acts is the only one that moves.
LEMMA RelayMoves ==
    ASSUME relay \in [Relay -> RelayState], NEW r \in Relay, NEW x \in RelayState,
           relay' = [relay EXCEPT ![r] = x]
    PROVE  /\ relay' \in [Relay -> RelayState] /\ relay'[r] = x
           /\ \A q \in Relay : q # r => relay'[q] = relay[q]
OBVIOUS

\* A failed call is one more fault.
LEMMA FaultCounts ==
    ASSUME IndInv, Fault
    PROVE  faults' \in Nat
BY DEF Fault, IndInv, TypeOK

\* What the invariant says of the parts one by one.
LEMMA Parts ==
    ASSUME TransportInv
    PROVE  /\ IndInv /\ outbox \in [ready -> OutboxRow] /\ relay \in [Relay -> RelayState]
           /\ stream \in Seq(Entry) /\ pel \subseteq Entry
           /\ delivery \in [Slot -> DeliveryState] /\ losses \in Nat
           /\ \A r \in Relay : relay[r].phase # "idle" => relay[r].gen \in ready
           /\ \A e \in Queued \cup pel : e.gen \in ready
           /\ \A s \in Slot : delivery[s].phase # "none" => delivery[s].entry.gen \in ready
           /\ \A s \in Slot : delivery[s].phase = "answered" => ~Current(delivery[s].entry.gen)
           /\ \A g \in ready : losses = 0 /\ Current(g) =>
                 /\ \A r \in Relay : relay[r].phase = "sent" /\ relay[r].gen = g => OnItsWay(g)
                 /\ outbox[g].published => OnItsWay(g)
BY DEF TransportInv, TransportTypeOK, CarriedInv, WakeInv

\* A step outside PostgreSQL, failed or not, keeps the invariant of the mailbox.
LEMMA Outside ==
    ASSUME TransportInv, UNCHANGED <<rows, slot>>, Fault \/ UNCHANGED faults
    PROVE  IndInv' /\ UNCHANGED <<mailbox, ready>>
<1>1. IndInv /\ faults' \in Nat
      BY FaultCounts DEF TransportInv, IndInv, TypeOK
<1> QED BY <1>1, RowsKeptStep DEF rows

\* claim_outbox_events takes a row that exists.
LEMMA ClaimOutboxKeeps ==
    ASSUME TransportInv, NEW r \in Relay, ClaimOutbox(r)
    PROVE  TransportInv'
<1>1. PICK g \in ready :
         /\ outbox' = [outbox EXCEPT ![g].by = r, ![g].live = TRUE]
         /\ relay' = [relay EXCEPT ![r] = [phase |-> "claimed", gen |-> g]]
      BY DEF ClaimOutbox
<1>2. UNCHANGED <<vars, stream, pel, delivery, losses>>
      BY DEF ClaimOutbox
<1>3. UNCHANGED <<mailbox, ready>>
      BY <1>2 DEF vars, rows
<1>4. IndInv'
      BY <1>2, Outside DEF vars
<1>5. [phase |-> "claimed", gen |-> g] \in RelayState
      BY DEF TransportInv, IndInv, TypeOK, RelayState
<1>6. /\ relay' \in [Relay -> RelayState] /\ relay'[r] = [phase |-> "claimed", gen |-> g]
      /\ \A q \in Relay : q # r => relay'[q] = relay[q]
      BY <1>1, <1>5, Parts, RelayMoves
<1>7. outbox' \in [ready -> OutboxRow] /\ \A h \in ready : outbox'[h].published = outbox[h].published
      <2>1. outbox \in [ready -> OutboxRow] /\ outbox[g] \in OutboxRow
            BY Parts
      <2>2. /\ [outbox[g] EXCEPT !.by = r, !.live = TRUE] \in OutboxRow
            /\ [outbox[g] EXCEPT !.by = r, !.live = TRUE].published = outbox[g].published
            BY <2>1, ZenonT(40) DEF OutboxRow
      <2> QED BY <1>1, <2>1, <2>2
<1>8. Queued' = Queued /\ \A h : OnItsWay(h)' <=> OnItsWay(h)
      BY <1>2 DEF Queued, OnItsWay
<1>9. TransportTypeOK'
      BY <1>2, <1>3, <1>6, <1>7 DEF TransportInv, TransportTypeOK
<1> QED BY <1>2, <1>3, <1>4, <1>6, <1>7, <1>8, <1>9, Parts, TravelKeeps

\* XADD: the entry is in the stream before the relay goes on.
LEMMA PublishReadyKeeps ==
    ASSUME TransportInv, NEW r \in Relay, PublishReady(r)
    PROVE  TransportInv'
<1>1. PICK i \in 1 .. MaxEntries : stream' = Append(stream, [id |-> i, gen |-> relay[r].gen])
      BY DEF PublishReady
<1>2. /\ relay[r].phase = "claimed" /\ relay' = [relay EXCEPT ![r].phase = "sent"]
      /\ UNCHANGED <<vars, outbox, pel, delivery, losses>>
      BY DEF PublishReady
<1>3. IndInv' /\ UNCHANGED <<mailbox, ready>>
      BY <1>2, Outside DEF vars
<1> DEFINE e == [id |-> i, gen |-> relay[r].gen]
<1>4. relay[r] \in RelayState /\ relay[r].gen \in ready /\ relay[r].gen \in Nat
      BY <1>2, Parts DEF RelayState
<1>5. e \in Entry /\ e.gen = relay[r].gen
      BY <1>4 DEF Entry
<1>6. stream' = Append(stream, e)
      BY <1>1
<1> HIDE DEF e
<1>7. stream' \in Seq(Entry) /\ Queued' = Queued \cup {e}
      <2>1. stream \in Seq(Entry)
            BY Parts
      <2>2. /\ Len(stream') = Len(stream) + 1 /\ stream'[Len(stream) + 1] = e
            /\ \A k \in 1 .. Len(stream) : stream'[k] = stream[k]
            BY <1>5, <1>6, <2>1, AppendedSeq
      <2>3. Len(stream) \in Nat /\ stream' \in Seq(Entry)
            BY <1>5, <1>6, <2>1
      <2> QED BY <2>2, <2>3 DEF Queued
<1>8. /\ relay' \in [Relay -> RelayState] /\ relay'[r].gen = relay[r].gen
      /\ \A q \in Relay : q # r => relay'[q] = relay[q]
      <2>1. [relay[r] EXCEPT !.phase = "sent"] \in RelayState
            BY <1>4, ZenonT(40) DEF RelayState
      <2>2. [relay[r] EXCEPT !.phase = "sent"].gen = relay[r].gen
            BY <1>4 DEF RelayState
      <2> QED BY <1>2, <2>1, <2>2, Parts
<1>9. TransportTypeOK'
      BY <1>2, <1>3, <1>7, <1>8 DEF TransportInv, TransportTypeOK
<1>10. OnItsWay(relay[r].gen)' /\ \A g : OnItsWay(g) => OnItsWay(g)'
      <2>1. \E x \in Queued' \cup pel' : x.gen = relay[r].gen
            BY <1>5, <1>7
      <2>2. relay'[r].gen = relay[r].gen
            BY <1>8
      <2> QED BY <1>2, <1>7, <2>1, <2>2 DEF OnItsWay
<1>11. \A x \in Queued' \cup pel' : x.gen \in ready
      BY <1>2, <1>4, <1>5, <1>7, Parts
<1>12. \A q \in Relay : relay'[q].phase # "idle" => relay'[q].gen \in ready
      BY <1>4, <1>8, Parts
<1>13. \A g \in ready : losses' = 0 /\ Current(g) =>
         /\ \A q \in Relay : relay'[q].phase = "sent" /\ relay'[q].gen = g => OnItsWay(g)'
         /\ outbox'[g].published => OnItsWay(g)'
      BY <1>2, <1>8, <1>10, Parts
<1> QED BY <1>2, <1>3, <1>9, <1>11, <1>12, <1>13, Parts, TravelKeeps

\* A relay is done with its row, published or not: a row is marked published only
\* by a relay whose entry was added.
LEMMA RelayRests ==
    ASSUME TransportInv, NEW r \in Relay, relay' = [relay EXCEPT ![r] = IdleRelay],
           UNCHANGED <<rows, slot, stream, pel, delivery, losses>>, Fault \/ UNCHANGED faults,
           outbox' \in [ready -> OutboxRow],
           \A g \in ready : outbox'[g].published =>
              outbox[g].published \/ (relay[r].phase = "sent" /\ relay[r].gen = g)
    PROVE  TransportInv'
<1>1. IndInv' /\ UNCHANGED <<mailbox, ready>>
      BY Outside
<1>2. IdleRelay \in RelayState /\ IdleRelay.phase = "idle"
      BY DEF IdleRelay, RelayState
<1>3. /\ relay' \in [Relay -> RelayState] /\ relay'[r] = IdleRelay
      /\ \A q \in Relay : q # r => relay'[q] = relay[q]
      BY <1>2, Parts, RelayMoves
<1>4. TransportTypeOK'
      BY <1>1, <1>3 DEF TransportInv, TransportTypeOK
<1>5. Queued' = Queued /\ \A h : OnItsWay(h)' <=> OnItsWay(h)
      BY DEF Queued, OnItsWay
<1> QED BY <1>1, <1>2, <1>3, <1>4, <1>5, Parts, TravelKeeps

\* Marking a row published, giving it back, and the death of a relay.
LEMMA RelayEndKeeps ==
    ASSUME TransportInv, NEW r \in Relay,
           MarkOutboxPublished(r) \/ ReleaseOutbox(r) \/ RelayCrash(r)
    PROVE  TransportInv'
<1> DEFINE g == relay[r].gen
<1>1. relay[r].phase # "idle" => g \in ready /\ outbox[g] \in OutboxRow
      BY Parts
<1>2. outbox \in [ready -> OutboxRow]
      BY Parts
<1>3. CASE MarkOutboxPublished(r)
      <2>1. /\ relay[r].phase = "sent" /\ relay' = [relay EXCEPT ![r] = IdleRelay]
            /\ UNCHANGED <<vars, stream, pel, delivery, losses>>
            BY <1>3 DEF MarkOutboxPublished
      <2>2. [published |-> TRUE, by |-> None, live |-> FALSE] \in OutboxRow
            BY Zenon DEF OutboxRow
      <2>3. outbox' \in [ready -> OutboxRow] /\ \A h \in ready : h # g => outbox'[h] = outbox[h]
            BY <1>1, <1>2, <1>3, <2>1, <2>2 DEF MarkOutboxPublished
      <2> QED BY <2>1, <2>3, RelayRests DEF vars
<1>4. CASE ReleaseOutbox(r)
      <2>1. /\ relay[r].phase # "idle" /\ relay' = [relay EXCEPT ![r] = IdleRelay]
            /\ Fault /\ UNCHANGED <<rows, slot, stream, pel, delivery, losses>>
            BY <1>4 DEF ReleaseOutbox
      <2>2. /\ [outbox[g] EXCEPT !.by = None, !.live = FALSE] \in OutboxRow
            /\ [outbox[g] EXCEPT !.by = None, !.live = FALSE].published = outbox[g].published
            BY <1>1, <2>1, ZenonT(40) DEF OutboxRow
      <2>3. outbox' = outbox \/ outbox' = [outbox EXCEPT ![g].by = None, ![g].live = FALSE]
            BY <1>4 DEF ReleaseOutbox
      <2>4. outbox' \in [ready -> OutboxRow] /\ \A h \in ready : outbox'[h].published = outbox[h].published
            BY <1>1, <1>2, <2>1, <2>2, <2>3, ZenonT(40)
      <2> QED BY <2>1, <2>4, RelayRests
<1>5. CASE RelayCrash(r)
      BY <1>2, <1>5, RelayRests DEF RelayCrash
<1> QED BY <1>3, <1>4, <1>5

\* The claim of a row lapses; the row stays as published as it was.
LEMMA ClaimLapseKeeps ==
    ASSUME TransportInv, NEW g \in ready, OutboxClaimExpires(g)
    PROVE  TransportInv'
<1>1. /\ outbox' = [outbox EXCEPT ![g].live = FALSE] /\ (Fault \/ UNCHANGED faults)
      /\ UNCHANGED <<rows, slot, relay, stream, pel, delivery, losses>>
      BY DEF OutboxClaimExpires
<1>2. IndInv' /\ UNCHANGED <<mailbox, ready>>
      BY <1>1, Outside
<1>3. outbox' \in [ready -> OutboxRow] /\ \A h \in ready : outbox'[h].published = outbox[h].published
      <2>1. outbox \in [ready -> OutboxRow] /\ outbox[g] \in OutboxRow
            BY Parts
      <2>2. /\ [outbox[g] EXCEPT !.live = FALSE] \in OutboxRow
            /\ [outbox[g] EXCEPT !.live = FALSE].published = outbox[g].published
            BY <2>1, ZenonT(40) DEF OutboxRow
      <2> QED BY <1>1, <2>1, <2>2
<1>4. TransportTypeOK'
      BY <1>1, <1>2, <1>3 DEF TransportInv, TransportTypeOK
<1>5. Queued' = Queued /\ \A h : OnItsWay(h)' <=> OnItsWay(h)
      BY <1>1 DEF Queued, OnItsWay
<1> QED BY <1>1, <1>2, <1>3, <1>4, <1>5, Parts, TravelKeeps

\* Redis loses everything it had; the promise is about a Redis that did not.
LEMMA RedisLossKeeps ==
    ASSUME TransportInv, RedisLoss
    PROVE  TransportInv'
<1>1. IndInv' /\ UNCHANGED <<mailbox, ready>>
      BY Outside DEF RedisLoss, vars
<1>2. Queued' = {} /\ stream' \in Seq(Entry) /\ losses' \in Nat /\ losses' # 0
      <2>1. losses \in Nat
            BY Parts
      <2>2. stream' = <<>> /\ losses' = losses + 1
            BY DEF RedisLoss
      <2> QED BY <2>1, <2>2 DEF Queued
<1>3. TransportTypeOK'
      BY <1>1, <1>2 DEF TransportInv, TransportTypeOK, RedisLoss
<1> QED BY <1>1, <1>2, <1>3, Parts, TravelKeeps DEF RedisLoss

-----------------------------------------------------------------------------
(* The consumers *)

\* The slot that acts is the only one whose delivery changes.
LEMMA DeliveryMoves ==
    ASSUME delivery \in [Slot -> DeliveryState], NEW s \in Slot, NEW x \in DeliveryState,
           delivery' = [delivery EXCEPT ![s] = x]
    PROVE  /\ delivery' \in [Slot -> DeliveryState] /\ delivery'[s] = x
           /\ \A t \in Slot : t # s => delivery'[t] = delivery[t]
OBVIOUS

\* An entry is handed to a slot and is pending from then on.
LEMMA DeliverKeeps ==
    ASSUME TransportInv, NEW s \in Slot, NEW e \in Queued \cup pel, Deliver(s, e),
           UNCHANGED <<rows, slot, outbox, relay, losses>>, Fault \/ UNCHANGED faults,
           stream' \in Seq(Entry), pel' \subseteq Entry,
           Queued' \cup pel' = Queued \cup pel
    PROVE  TransportInv'
<1>1. IndInv' /\ UNCHANGED <<mailbox, ready>>
      BY Outside
<1> DEFINE d == [phase |-> "received", entry |-> e]
<1>2. e \in Entry /\ e.gen \in ready
      <2>1. stream \in Seq(Entry) /\ pel \subseteq Entry
            BY Parts
      <2>2. Queued \subseteq Entry
            BY <2>1 DEF Queued
      <2> QED BY <2>1, <2>2, Parts
<1>3. d \in DeliveryState /\ d.phase = "received" /\ d.entry = e
      BY <1>2 DEF DeliveryState
<1>4. delivery' = [delivery EXCEPT ![s] = d]
      BY DEF Deliver
<1> HIDE DEF d
<1>5. /\ delivery' \in [Slot -> DeliveryState] /\ delivery'[s] = d
      /\ \A t \in Slot : t # s => delivery'[t] = delivery[t]
      BY <1>3, <1>4, Parts, DeliveryMoves
<1>6. TransportTypeOK'
      BY <1>1, <1>5 DEF TransportInv, TransportTypeOK
<1>7. \A h : OnItsWay(h)' <=> OnItsWay(h)
      BY DEF OnItsWay
<1> QED BY <1>1, <1>2, <1>3, <1>5, <1>6, <1>7, Parts, TravelKeeps

\* XREADGROUP moves the head of the stream to the pending list, XAUTOCLAIM takes
\* an entry that is pending already.
LEMMA ReceiveKeeps ==
    ASSUME TransportInv, NEW s \in Slot, ReceiveNew(s) \/ Reclaim(s)
    PROVE  TransportInv'
<1>0. stream \in Seq(Entry) /\ pel \subseteq Entry
      BY Parts
<1>1. CASE ReceiveNew(s)
      <2>1. /\ stream # <<>> /\ Deliver(s, Head(stream)) /\ pel' = pel \cup {Head(stream)}
            /\ stream' = Tail(stream) /\ UNCHANGED <<vars, outbox, relay, losses>>
            BY <1>1 DEF ReceiveNew
      <2>2. /\ Len(stream) \in Nat /\ Len(stream) # 0 /\ Head(stream) = stream[1]
            /\ Head(stream) \in Entry /\ stream' \in Seq(Entry)
            /\ Len(stream') = Len(stream) - 1
            /\ \A i \in 1 .. Len(stream') : stream'[i] = stream[i + 1]
            BY <1>0, <2>1, SMTT(20)
      <2>3. Head(stream) \in Queued
            BY <2>2 DEF Queued
      <2>4. Queued \subseteq Queued' \cup {Head(stream)}
            <3>1. SUFFICES ASSUME NEW i \in 1 .. Len(stream)
                           PROVE  stream[i] \in Queued' \cup {Head(stream)}
                  BY DEF Queued
            <3>2. CASE i = 1
                  BY <2>2, <3>2
            <3>3. CASE i # 1
                  <4>1. i - 1 \in 1 .. Len(stream') /\ stream'[i - 1] = stream[i]
                        BY <2>2, <3>3
                  <4> QED BY <4>1 DEF Queued
            <3> QED BY <3>2, <3>3
      <2>5. Queued' \subseteq Queued
            <3>1. SUFFICES ASSUME NEW i \in 1 .. Len(stream')
                           PROVE  stream'[i] \in Queued
                  BY DEF Queued
            <3>2. i + 1 \in 1 .. Len(stream) /\ stream'[i] = stream[i + 1]
                  BY <2>2
            <3> QED BY <3>2 DEF Queued
      <2>6. Queued' \cup pel' = Queued \cup pel
            BY <2>1, <2>3, <2>4, <2>5, Zenon
      <2>7. pel' \subseteq Entry
            BY <1>0, <2>1, <2>2
      <2>8. UNCHANGED <<rows, slot, outbox, relay, losses>> /\ UNCHANGED faults
            BY <2>1 DEF vars
      <2> QED BY <2>1, <2>2, <2>3, <2>6, <2>7, <2>8, DeliverKeeps
<1>2. CASE Reclaim(s)
      <2>1. PICK e \in pel : Deliver(s, e) /\ (Fault \/ UNCHANGED faults)
            BY <1>2 DEF Reclaim
      <2>2. UNCHANGED <<rows, slot, outbox, relay, stream, pel, losses>>
            BY <1>2 DEF Reclaim
      <2>3. Queued' \cup pel' = Queued \cup pel
            BY <2>2 DEF Queued
      <2> QED BY <1>0, <2>1, <2>2, <2>3, DeliverKeeps
<1> QED BY <1>1, <1>2

\* The claim answers the delivery: its generation is not waiting any more.
LEMMA ClaimDeliveredKeeps ==
    ASSUME TransportInv, NEW s \in Slot, ClaimDelivered(s)
    PROVE  TransportInv'
<1>0. PICK g : g = delivery[s].entry.gen
      OBVIOUS
<1>1. \/ ClaimSessionReady(s, g)
      \/ ClaimWithoutLease(g)
      \/ ClaimOutcome(g) \in {"STALE", "RUNNING", "EMPTY"} /\ UNCHANGED vars
      BY <1>0 DEF ClaimDelivered
<1>2. /\ delivery[s].phase = "received" /\ delivery' = [delivery EXCEPT ![s].phase = "answered"]
      /\ outbox' = WithNewRows /\ UNCHANGED <<relay, stream, pel, losses>>
      BY DEF ClaimDelivered
<1>3. IndInv /\ CarriedInv /\ outbox \in [ready -> OutboxRow]
      BY Parts DEF TransportInv
<1>4. IndInv'
      <2>1. CASE UNCHANGED vars
            BY <2>1, Outside DEF vars
      <2> QED BY <1>1, <1>3, <2>1, ClaimStep, ClaimWithoutLeaseStep
<1>5. Turned /\ ~Current(g)'
      BY <1>1, <1>3, ClaimTurns
<1>6. /\ delivery' \in [Slot -> DeliveryState] /\ delivery'[s].entry = delivery[s].entry
      /\ \A t \in Slot : t # s => delivery'[t] = delivery[t]
      <2>1. delivery \in [Slot -> DeliveryState] /\ delivery[s] \in DeliveryState
            BY Parts
      <2>2. [delivery[s] EXCEPT !.phase = "answered"] \in DeliveryState
            BY <2>1, ZenonT(40) DEF DeliveryState
      <2>3. [delivery[s] EXCEPT !.phase = "answered"].entry = delivery[s].entry
            BY <2>1 DEF DeliveryState
      <2> QED BY <1>2, <2>1, <2>2, <2>3
<1>7. ~Current(delivery[s].entry.gen)'
      BY <1>0, <1>5, <1>6 DEF Current
<1>8. \A t \in Slot : delivery'[t].phase # "none" =>
         /\ delivery[t].phase # "none" /\ delivery'[t].entry = delivery[t].entry
         /\ delivery'[t].phase = "answered" =>
               delivery[t].phase = "answered" \/ ~Current(delivery[t].entry.gen)'
      BY <1>2, <1>6, <1>7
<1> QED BY <1>2, <1>3, <1>4, <1>5, <1>6, <1>8, NewRows, RowsTurn

\* A slot lets go of its entry; if it removes the entry, the entry was answered.
LEMMA LetGoKeeps ==
    ASSUME TransportInv, NEW s \in Slot, Ack(s) \/ AckFails(s) \/ ClaimFails(s)
    PROVE  TransportInv'
<1> DEFINE x == delivery[s].entry
<1>1. /\ delivery' = [delivery EXCEPT ![s] = NoDelivery]
      /\ pel' = pel \/ (pel' = pel \ {x} /\ delivery[s].phase = "answered")
      /\ UNCHANGED <<rows, slot, outbox, relay, stream, losses>> /\ (Fault \/ UNCHANGED faults)
      BY DEF Ack, AckFails, ClaimFails, vars
<1>2. IndInv' /\ UNCHANGED <<mailbox, ready>>
      BY <1>1, Outside
<1>3. NoDelivery \in DeliveryState /\ NoDelivery.phase = "none"
      BY DEF NoDelivery, DeliveryState
<1>4. /\ delivery' \in [Slot -> DeliveryState] /\ delivery'[s] = NoDelivery
      /\ \A t \in Slot : t # s => delivery'[t] = delivery[t]
      BY <1>1, <1>3, Parts, DeliveryMoves
<1>5. TransportTypeOK'
      BY <1>1, <1>2, <1>4 DEF TransportInv, TransportTypeOK
<1>6. Queued' = Queued
      BY <1>1 DEF Queued
<1>7. ASSUME NEW g, Current(g), OnItsWay(g) PROVE OnItsWay(g)'
      <2>1. PICK e \in Queued \cup pel : e.gen = g
            BY <1>7 DEF OnItsWay
      <2>2. delivery[s].phase = "answered" => x.gen # g
            BY <1>7, Parts
      <2>3. e \in Queued' \cup pel'
            BY <1>1, <1>6, <2>1, <2>2
      <2> QED BY <2>1, <2>3 DEF OnItsWay
<1> QED BY <1>1, <1>2, <1>3, <1>4, <1>5, <1>6, <1>7, Parts, TravelKeeps

-----------------------------------------------------------------------------
(* The composition *)

\* What a step of the composition does to the mailbox and the slots is a step of
\* SessionMailbox, or nothing: an entry delivers only a generation with a row.
LEMMA MailboxSteps ==
    ASSUME TransportInv, [TransportNext]_tvars
    PROVE  [Next]_vars \/ (UNCHANGED <<rows, slot>> /\ Fault)
<1>1. CASE RowStep(Arrive) \/ RowStep(Time) \/ RowStep(SweepExpiredSessionLeases)
           \/ RowStep(ScheduleSessionMailboxRetries) \/ Reconcile \/ RowStep(Quiescent)
      <2>1. Arrive => Accept
            BY DEF Arrive, Accept
      <2> QED BY <1>1, <2>1 DEF RowStep, Reconcile, Next, Recover
<1>2. ASSUME NEW r \in Relay, Relaying(r) PROVE UNCHANGED vars \/ (UNCHANGED <<rows, slot>> /\ Fault)
      BY <1>2 DEF Relaying, ClaimOutbox, PublishReady, MarkOutboxPublished, ReleaseOutbox, RelayCrash
<1>3. ASSUME NEW s \in Slot, Consume(s) PROVE [Next]_vars \/ (UNCHANGED <<rows, slot>> /\ Fault)
      <2>1. CASE ReceiveNew(s) \/ Reclaim(s) \/ Ack(s) \/ AckFails(s) \/ ClaimFails(s)
            BY <2>1 DEF ReceiveNew, Reclaim, Ack, AckFails, ClaimFails, vars
      <2>2. CASE ClaimDelivered(s)
            <3>1. delivery[s].entry.gen \in ready
                  BY <2>2, Parts DEF ClaimDelivered
            <3> QED BY <2>2, <3>1 DEF ClaimDelivered, Next, Claim
      <2>3. CASE Work(s) \/ WorkerCrash(s)
            BY <2>3 DEF Work, RowStep, WorkerCrash, Next, Execute
      <2> QED BY <1>3, <2>1, <2>2, <2>3 DEF Consume
<1>4. ASSUME NEW g \in ready, OutboxClaimExpires(g)
      PROVE  UNCHANGED vars \/ (UNCHANGED <<rows, slot>> /\ Fault)
      BY <1>4 DEF OutboxClaimExpires, vars
<1>5. CASE RedisLoss \/ UNCHANGED tvars
      BY <1>5 DEF RedisLoss, tvars
<1> QED BY <1>1, <1>2, <1>3, <1>4, <1>5 DEF TransportNext

\* The invariant of the mailbox alone is kept by the composition.
LEMMA MailboxKept ==
    ASSUME TransportInv, [TransportNext]_tvars
    PROVE  IndInv'
<1>1. IndInv
      BY Parts
<1>2. CASE [Next]_vars
      BY <1>1, <1>2, InvStep
<1>3. CASE UNCHANGED <<rows, slot>> /\ Fault
      BY <1>3, Outside
<1> QED BY <1>2, <1>3, MailboxSteps

\* The reconciler leaves the published flag of a row or opens the row again.
LEMMA ReconcileKeeps ==
    ASSUME TransportInv, IndInv', Reconcile
    PROVE  TransportInv'
<1> DEFINE g == mailbox.generation
<1>1. /\ ReconcileSessionMailboxes /\ UNCHANGED <<relay, stream, pel, delivery, losses>>
      /\ \/ outbox' = WithNewRows
         \/ mailbox.status = "QUEUED" /\ outbox' = [WithNewRows EXCEPT ![g] = NewRow]
      BY DEF Reconcile
<1>2. IndInv /\ CarriedInv /\ outbox \in [ready -> OutboxRow] /\ delivery \in [Slot -> DeliveryState]
      BY Parts DEF TransportInv
<1>3. Turned
      BY <1>1, <1>2, ReconcileTurns
<1>4. CASE outbox' = WithNewRows
      BY <1>1, <1>3, <1>4, RowStepKeeps
<1>5. CASE outbox' = [WithNewRows EXCEPT ![g] = NewRow]
      <2>1. NewRow \in OutboxRow /\ ~NewRow.published
            BY Zenon DEF NewRow, OutboxRow
      <2>2. WithNewRows \in [ready' -> OutboxRow]
            BY <1>2, <2>1 DEF WithNewRows
      <2>3. \A h \in ready' : outbox'[h] = NewRow \/ outbox'[h] = WithNewRows[h]
            BY <1>5, <2>2
      <2>4. \A h \in ready' : WithNewRows[h] = NewRow \/ (h \in ready /\ WithNewRows[h] = outbox[h])
            BY DEF WithNewRows
      <2>5. outbox' \in [ready' -> OutboxRow]
            BY <1>5, <2>1, <2>2
      <2>6. \A h \in ready' : outbox'[h].published => h \in ready /\ outbox[h].published
            BY <2>1, <2>3, <2>4
      <2> QED BY <1>1, <1>2, <1>3, <2>5, <2>6, RowsTurn
<1> QED BY <1>1, <1>4, <1>5

\* A worker dies: its claim stays in the rows and its entry stays pending.
LEMMA WorkerCrashKeeps ==
    ASSUME TransportInv, IndInv', NEW s \in Slot, WorkerCrash(s)
    PROVE  TransportInv'
<1>1. /\ UNCHANGED rows /\ delivery' = [delivery EXCEPT ![s] = NoDelivery]
      /\ UNCHANGED <<outbox, relay, stream, pel, losses>>
      BY DEF WorkerCrash, Crash
<1>2. UNCHANGED <<mailbox, ready>>
      BY <1>1 DEF rows
<1>3. NoDelivery \in DeliveryState /\ NoDelivery.phase = "none"
      BY DEF NoDelivery, DeliveryState
<1>4. /\ delivery' \in [Slot -> DeliveryState] /\ delivery'[s] = NoDelivery
      /\ \A t \in Slot : t # s => delivery'[t] = delivery[t]
      BY <1>1, <1>3, Parts, DeliveryMoves
<1>5. TransportTypeOK'
      BY <1>1, <1>2, <1>4 DEF TransportInv, TransportTypeOK
<1>6. Queued' = Queued /\ \A h : OnItsWay(h)' <=> OnItsWay(h)
      BY <1>1 DEF Queued, OnItsWay
<1> QED BY <1>1, <1>2, <1>3, <1>4, <1>5, <1>6, Parts, TravelKeeps

\* Nothing travels before the first message.
LEMMA TransportInitInv == TransportInit => TransportInv
<1> SUFFICES ASSUME TransportInit PROVE TransportInv
    OBVIOUS
<1>1. IndInv /\ ready = {}
      BY InitInv DEF TransportInit, Init
<1>2. Queued = {} /\ pel = {} /\ stream \in Seq(Entry)
      BY DEF TransportInit, Queued
<1>3. \A r \in Relay : relay[r] = IdleRelay /\ relay[r].phase = "idle"
      BY DEF TransportInit, IdleRelay
<1>4. \A s \in Slot : delivery[s] = NoDelivery /\ delivery[s].phase = "none"
      BY DEF TransportInit, NoDelivery
<1>5. TransportTypeOK
      <2>1. NoDelivery \in DeliveryState /\ IdleRelay \in RelayState
            BY DEF NoDelivery, DeliveryState, IdleRelay, RelayState
      <2>2. relay \in [Relay -> RelayState] /\ delivery \in [Slot -> DeliveryState]
            BY <2>1 DEF TransportInit
      <2>3. outbox \in [ready -> OutboxRow]
            BY <1>1 DEF TransportInit
      <2> QED BY <1>2, <2>2, <2>3 DEF TransportTypeOK, TransportInit
<1>6. CarriedInv
      BY <1>1, <1>2, <1>3, <1>4 DEF CarriedInv
<1>7. WakeInv
      BY <1>1, <1>3, <1>4 DEF WakeInv
<1> QED BY <1>1, <1>5, <1>6, <1>7 DEF TransportInv

\* Every step of the composition keeps the invariant.
LEMMA TransportStep == TransportInv /\ [TransportNext]_tvars => TransportInv'
<1> SUFFICES ASSUME TransportInv, [TransportNext]_tvars PROVE TransportInv'
    OBVIOUS
<1>0. IndInv' /\ IndInv /\ CarriedInv
      BY MailboxKept DEF TransportInv
<1>1. CASE RowStep(Arrive)
      BY <1>0, <1>1, AcceptTurns, RowStepKeeps DEF RowStep
<1>2. CASE RowStep(Time)
      BY <1>0, <1>2, TimeTurns, RowStepKeeps DEF RowStep
<1>3. CASE RowStep(SweepExpiredSessionLeases)
      BY <1>0, <1>3, SweepTurns, RowStepKeeps DEF RowStep
<1>4. CASE RowStep(ScheduleSessionMailboxRetries)
      BY <1>0, <1>4, ScheduleTurns, RowStepKeeps DEF RowStep
<1>5. CASE Reconcile
      BY <1>0, <1>5, ReconcileKeeps
<1>6. CASE RowStep(Quiescent)
      <2>1. UNCHANGED <<mailbox, ready>>
            BY <1>6 DEF RowStep, Quiescent, vars, rows
      <2>2. Turned
            BY <1>0, <2>1, TurnedSame
      <2> QED BY <1>0, <1>6, <2>2, RowStepKeeps DEF RowStep
<1>7. ASSUME NEW r \in Relay, Relaying(r) PROVE TransportInv'
      BY <1>7, ClaimOutboxKeeps, PublishReadyKeeps, RelayEndKeeps DEF Relaying
<1>8. ASSUME NEW s \in Slot, Consume(s) PROVE TransportInv'
      <2>1. CASE Work(s)
            <3>1. Execute(s)
                  BY <2>1 DEF Work, RowStep, Execute
            <3> QED BY <1>0, <2>1, <3>1, WorkTurns, RowStepKeeps DEF Work, RowStep
      <2> QED BY <1>0, <1>8, <2>1, ReceiveKeeps, ClaimDeliveredKeeps, LetGoKeeps, WorkerCrashKeeps
              DEF Consume
<1>9. ASSUME NEW g \in ready, OutboxClaimExpires(g) PROVE TransportInv'
      BY <1>9, ClaimLapseKeeps
<1>10. CASE RedisLoss
      BY <1>10, RedisLossKeeps
<1>11. CASE UNCHANGED tvars
      <2>1. UNCHANGED <<mailbox, ready, outbox, relay, stream, pel, delivery, losses>>
            BY <1>11 DEF tvars, transport, vars, rows
      <2>2. Queued' = Queued /\ \A h : OnItsWay(h)' <=> OnItsWay(h)
            BY <2>1 DEF Queued, OnItsWay
      <2>3. TransportTypeOK'
            BY <2>1 DEF TransportInv, TransportTypeOK
      <2> QED BY <1>0, <2>1, <2>2, <2>3, Parts, TravelKeeps
<1> QED BY <1>1, <1>2, <1>3, <1>4, <1>5, <1>6, <1>7, <1>8, <1>9, <1>10, <1>11 DEF TransportNext

-----------------------------------------------------------------------------
(* The theorems *)

\* The inductive invariant holds in every reachable state of the composition.
THEOREM TransportInvariance == TransportSpec => []TransportInv
<1> QED BY TransportInitInv, TransportStep, PTL DEF TransportSpec

\* The outbox rows, the stream and the deliveries keep their types.
THEOREM TransportTypeCorrect == TransportSpec => []TransportTypeOK
<1>1. TransportInv => TransportTypeOK
      BY DEF TransportInv
<1> QED BY <1>1, TransportInvariance, PTL

\* As long as Redis kept its stream, the wake-up of a queued session is in its
\* outbox row, in the stream or in the pending list, whatever relays, consumers
\* and acks fail.
THEOREM WakeupsSurvive == TransportSpec => []NoLostWakeup
<1>1. TransportInv => NoLostWakeup
      <2> SUFFICES ASSUME TransportInv, losses = 0, mailbox.status = "QUEUED",
                          outbox[mailbox.generation].published
                   PROVE  \E e \in Queued \cup pel : e.gen = mailbox.generation
          BY DEF NoLostWakeup
      <2>1. mailbox.generation \in ready /\ Current(mailbox.generation)
            BY DEF TransportInv, IndInv, NoForgottenWork, Current
      <2> QED BY <2>1, Parts DEF OnItsWay
<1> QED BY <1>1, TransportInvariance, PTL

\* With real wake-ups the mailbox still forgets no work, executes a session in
\* one slot at a time, from its whole history, once and in order.
THEOREM MailboxUnderTransport ==
    TransportSpec => [](NoForgottenWork /\ SingleExecution /\ NoLostUpdate /\ OrderedExactlyOnce)
<1>1. TransportInv => NoForgottenWork /\ SingleExecution /\ NoLostUpdate /\ OrderedExactlyOnce
      BY OwnersAgree, HistoryIsWhole DEF TransportInv, IndInv
<1> QED BY <1>1, TransportInvariance, PTL

\* The whole chain from accept_inbound_v2 through the outbox and Redis to the
\* worker implements the ordered inbox.
THEOREM TransportImplementsInbox == TransportSpec => ImplementsInbox
<1>1. TransportInit => Inbox!Init
      BY InitRefines DEF TransportInit
<1>2. TransportInv /\ [TransportNext]_tvars => [Inbox!Next]_(Inbox!vars)
      <2> SUFFICES ASSUME TransportInv, [TransportNext]_tvars PROVE [Inbox!Next]_(Inbox!vars)
          OBVIOUS
      <2>1. CASE [Next]_vars
            BY <2>1, Parts, StepRefines
      <2>2. CASE UNCHANGED <<rows, slot>>
            BY <2>2, Stutters DEF rows
      <2> QED BY <2>1, <2>2, MailboxSteps
<1> QED BY <1>1, <1>2, TransportInvariance, PTL DEF TransportSpec, ImplementsInbox, Inbox!Spec
=============================================================================
