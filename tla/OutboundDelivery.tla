--------------------------- MODULE OutboundDelivery ---------------------------
(***************************************************************************)
(* The delivery of ONE reply to its IM provider: its outbound_messages row,*)
(* its outbox_events rows, its delivery_attempts and its dead letters, the *)
(* ChannelDispatcher instances that compete for it and the administrator   *)
(* who may replay it.  Rows of different replies never meet.               *)
(*                                                                         *)
(* Every action is one PostgreSQL transaction or the call of the provider; *)
(* a dispatcher may be delayed anywhere between two of them, by the other  *)
(* records of its batch or by the provider.                                *)
(***************************************************************************)
EXTENDS Naturals, Sequences, FiniteSets

CONSTANTS
    Dispatcher,    \* ChannelDispatcher instances, the owner of a claim
    None,          \* SQL NULL
    MaxAttempts,   \* max_attempts of the dispatchers
    MaxReplays,    \* bound: replays by the administrator
    MaxFaults,     \* bound: crashes and database errors
    MaxLapses      \* bound: claims that lapse while their holder is at work

ASSUME DeliveryAssumption ==
    /\ IsFiniteSet(Dispatcher) /\ None \notin Dispatcher
    /\ MaxAttempts \in Nat \ {0}
    /\ MaxReplays \in Nat
    /\ MaxFaults \in Nat
    /\ MaxLapses \in Nat

VARIABLES
    outbox,    \* the newest outbox_events row; an older one is always published
    status,    \* outbound_messages.status
    attempts,  \* delivery_attempts.status by attempt_number
    letters,   \* open dead_letters of the reply
    payload,   \* whether the stored payload is a valid OutboundEnvelope
    work,      \* what each dispatcher is doing with the reply
    provider,  \* history: calls of the provider and replies it took
    replays,   \* history: replays, and those of an ambiguous delivery
    faults     \* faults so far: crashes and errors, and lapses

rows == <<outbox, status, attempts, letters, payload>>
vars == <<rows, work, provider, replays, faults>>

-----------------------------------------------------------------------------
(* The state *)

Receipt == {"delivered", "failed", "retryable", "ambiguous"}
AttemptStatus == {"sending", "delivered", "failed", "ambiguous"}

\* claims is the attempts column of the row; live says whether the claim holds.
OutboxRow ==
    [id : Nat, published : BOOLEAN, by : Dispatcher \cup {None},
     live : BOOLEAN, due : BOOLEAN, claims : 0 .. MaxAttempts]

\* What _dispatch_record holds between two transactions.
Work ==
    [phase : {"idle", "claimed", "begun", "answered", "progress",
              "displaced", "degraded", "unknown"},
     id : Nat, claims : 0 .. MaxAttempts, attempt : Nat, receipt : Receipt]

IdleWork == [phase |-> "idle", id |-> 0, claims |-> 0, attempt |-> 0, receipt |-> "failed"]

NewRow(i) ==
    [id |-> i, published |-> FALSE, by |-> None, live |-> FALSE, due |-> TRUE, claims |-> 0]

TypeOK ==
    /\ outbox \in OutboxRow
    /\ status \in {"pending", "sending", "delivered", "failed", "ambiguous"}
    /\ attempts \in Seq(AttemptStatus)
    /\ letters \in Nat
    /\ payload \in {"valid", "invalid"}
    /\ work \in [Dispatcher -> Work]
    /\ provider \in [calls : Nat, took : Nat]
    /\ replays \in [all : 0 .. MaxReplays, approved : 0 .. MaxReplays]
    /\ faults \in [down : 0 .. MaxFaults, lapsed : 0 .. MaxLapses]

\* A turn was committed with a reply.
Init ==
    /\ outbox = NewRow(1)
    /\ status = "pending"
    /\ attempts = <<>>
    /\ letters = 0
    /\ payload \in {"valid", "invalid"}
    /\ work = [d \in Dispatcher |-> IdleWork]
    /\ provider = [calls |-> 0, took |-> 0]
    /\ replays = [all |-> 0, approved |-> 0]
    /\ faults = [down |-> 0, lapsed |-> 0]

Fault == faults.down < MaxFaults /\ faults' = [faults EXCEPT !.down = faults.down + 1]
Lapse == faults.lapsed < MaxLapses /\ faults' = [faults EXCEPT !.lapsed = faults.lapsed + 1]
NoFault == UNCHANGED faults

Done(d) == work' = [work EXCEPT ![d] = IdleWork]
Turn(d, p) == work' = [work EXCEPT ![d].phase = p]

\* Mutant: the fence does not look at claimed_by.
HoldsUnowned(d) == outbox.id = work[d].id /\ ~outbox.published

\* The claim of d is current: claimed_by=owner and published_at IS NULL.  An
\* expired claim nobody took over still is.
Holds(d) == outbox.id = work[d].id /\ outbox.by = d /\ ~outbox.published

\* release_outbox: delayed until due, or available at once.
Release(due) == outbox' = [outbox EXCEPT !.by = None, !.live = FALSE, !.due = due]
Close == outbox' = [outbox EXCEPT !.by = None, !.live = FALSE, !.published = TRUE]

\* dead_letter_outbox
DeadLetter == Close /\ letters' = letters + 1

-----------------------------------------------------------------------------
(* Claiming a record, and the ways out before a delivery is begun *)

\* claim_outbox_events; claims beyond MaxAttempts are not told apart.
ClaimOutbox(d) ==
    /\ work[d].phase = "idle"
    /\ ~outbox.published /\ outbox.due /\ ~outbox.live
    /\ LET n == IF outbox.claims < MaxAttempts THEN outbox.claims + 1 ELSE MaxAttempts
       IN  /\ outbox' = [outbox EXCEPT !.by = d, !.live = TRUE, !.claims = n]
           /\ work' = [work EXCEPT ![d] = [IdleWork EXCEPT !.phase = "claimed",
                                                           !.id = outbox.id, !.claims = n]]
    /\ UNCHANGED <<status, attempts, letters, payload, provider, replays, faults>>

\* The dispatcher is stopping: it gives back the records it did not get to.
Drain(d) ==
    /\ work[d].phase = "claimed"
    /\ IF Holds(d) THEN Release(TRUE) ELSE UNCHANGED outbox
    /\ Done(d)
    /\ UNCHANGED <<status, attempts, letters, payload, provider, replays, faults>>

\* The payload does not validate: the record is dead-lettered unsent.
Quarantine(d) ==
    /\ work[d].phase = "claimed" /\ payload = "invalid"
    /\ IF Holds(d) THEN DeadLetter ELSE UNCHANGED <<outbox, letters>>
    /\ Done(d)
    /\ UNCHANGED <<status, attempts, payload, provider, replays, faults>>

\* The binding or its adapter is not available (_retry_or_dead_letter).
NoRoute(d) ==
    /\ work[d].phase = "claimed" /\ payload = "valid"
    /\ IF ~Holds(d) THEN Turn(d, "degraded") /\ UNCHANGED <<outbox, letters>>
       ELSE /\ Done(d)
            /\ IF work[d].claims >= MaxAttempts THEN DeadLetter
               ELSE Release(FALSE) /\ UNCHANGED letters
    /\ UNCHANGED <<status, attempts, payload, provider, replays, faults>>

\* Another replica owns the connection of the binding: the record is given back.
\* A refused release raises into the handler of unknown results.
Standby(d) ==
    /\ work[d].phase = "claimed" /\ payload = "valid"
    /\ IF Holds(d) THEN Release(FALSE) /\ Done(d)
       ELSE Turn(d, "displaced") /\ UNCHANGED outbox
    /\ UNCHANGED <<status, attempts, letters, payload, provider, replays, faults>>

\* resolve_binding, or the release of the record, fails.
RouteFails(d) ==
    /\ work[d].phase = "claimed" /\ payload = "valid"
    /\ Fault
    /\ Turn(d, "degraded")
    /\ UNCHANGED <<rows, provider, replays>>

-----------------------------------------------------------------------------
(* A delivery: begin, send, finish *)

\* Mutant: a delivery in progress is begun again.
MayBeginBlindly == status # "delivered"

\* A sending, delivered or ambiguous reply is not sent again.
MayBegin == status \in {"pending", "failed"}

BeginAttempt ==
    /\ attempts' = Append(attempts, "sending")
    /\ status' = "sending"

\* begin_delivery.  A refused claim and a reply that is not to be sent again end
\* the work on the record; a reply that is being sent is looked into.
BeginDelivery(d) ==
    /\ work[d].phase = "claimed" /\ payload = "valid"
    /\ \/ /\ Holds(d) /\ MayBegin
          /\ BeginAttempt
          /\ work' = [work EXCEPT ![d].phase = "begun", ![d].attempt = Len(attempts) + 1]
       \/ /\ Holds(d) /\ ~MayBegin /\ status = "sending"
          /\ work' = [work EXCEPT ![d].phase = "progress", ![d].attempt = Len(attempts)]
          /\ UNCHANGED <<status, attempts>>
       \/ /\ ~Holds(d) \/ (~MayBegin /\ status # "sending")
          /\ Done(d)
          /\ UNCHANGED <<status, attempts>>
    /\ UNCHANGED <<outbox, letters, payload, provider, replays, faults>>

\* begin_delivery commits and its answer is lost.
BeginAnswerLost(d) ==
    /\ work[d].phase = "claimed" /\ payload = "valid" /\ Holds(d) /\ MayBegin
    /\ Fault
    /\ BeginAttempt
    /\ Done(d)
    /\ UNCHANGED <<outbox, letters, payload, provider, replays>>

\* adapter.send: only an ambiguous answer leaves open whether the provider took
\* the reply; an exception counts as one.
Send(d) ==
    /\ work[d].phase = "begun"
    /\ \E r \in Receipt, took \in 0 .. 1 :
          /\ r = "delivered" => took = 1
          /\ r \in {"failed", "retryable"} => took = 0
          /\ work' = [work EXCEPT ![d].phase = "answered", ![d].receipt = r]
          /\ provider' = [calls |-> provider.calls + 1, took |-> provider.took + took]
    /\ UNCHANGED <<rows, replays, faults>>

\* Mutant: the budget counts the attempt after this one.
RetryingOffByOne(r, n) == r = "retryable" /\ n <= MaxAttempts

\* A failed attempt is retried while the attempts last.
Retrying(r, n) == r = "retryable" /\ n < MaxAttempts

\* The claim, the attempt and the reply are as begin_delivery left them.
MayFinish(d) == Holds(d) /\ attempts[work[d].attempt] = "sending" /\ status = "sending"

\* Mutant: a reply that was not delivered is closed without a dead letter.
SettleSilently(d, r) ==
    LET n == work[d].attempt
        s == IF r = "retryable" THEN "failed" ELSE r
    IN  /\ attempts' = [attempts EXCEPT ![n] = s]
        /\ status' = s
        /\ IF Retrying(r, n) THEN Release(FALSE) ELSE Close
        /\ UNCHANGED letters

\* finish_delivery, past its fences.
Settle(d, r) ==
    LET n == work[d].attempt
        s == IF r = "retryable" THEN "failed" ELSE r
    IN  /\ attempts' = [attempts EXCEPT ![n] = s]
        /\ status' = s
        /\ CASE r = "delivered"  -> Close /\ UNCHANGED letters
             [] Retrying(r, n)   -> Release(FALSE) /\ UNCHANGED letters
             [] OTHER            -> DeadLetter

FinishDelivery(d) ==
    /\ work[d].phase = "answered"
    /\ IF MayFinish(d) THEN Settle(d, work[d].receipt)
       ELSE UNCHANGED <<outbox, status, attempts, letters>>
    /\ Done(d)
    /\ UNCHANGED <<payload, provider, replays, faults>>

\* Mutant: an attempt in progress is left to its sender.
ResolveInProgressLater(d) ==
    /\ work[d].phase = "progress"
    /\ Done(d)
    /\ NoFault
    /\ UNCHANGED <<rows, provider, replays>>

\* The attempt in progress is closed as ambiguous; a lost claim, or an error,
\* raises into the handler of unknown results.
ResolveInProgress(d) ==
    /\ work[d].phase = "progress"
    /\ \/ MayFinish(d) /\ Settle(d, "ambiguous") /\ Done(d) /\ NoFault
       \/ /\ IF MayFinish(d) THEN Fault ELSE NoFault
          /\ Turn(d, "degraded")
          /\ UNCHANGED <<outbox, status, attempts, letters>>
    /\ UNCHANGED <<payload, provider, replays>>

-----------------------------------------------------------------------------
(* The handler of unknown results: record_delivery, then dead_letter_outbox *)

Unsettled == status # "delivered"

\* record_delivery is not fenced by the claim.
RecordDelivery(d) ==
    /\ work[d].phase \in {"degraded", "displaced"}
    /\ IF Unsettled
         THEN /\ attempts' = Append(attempts, "ambiguous")
              /\ status' = "ambiguous"
              /\ Turn(d, "unknown")
         ELSE Done(d) /\ UNCHANGED <<status, attempts>>
    /\ UNCHANGED <<outbox, letters, payload, provider, replays, faults>>

DeadLetterUnknown(d) ==
    /\ work[d].phase = "unknown"
    /\ IF Holds(d) THEN DeadLetter ELSE UNCHANGED <<outbox, letters>>
    /\ Done(d)
    /\ UNCHANGED <<status, attempts, payload, provider, replays, faults>>

-----------------------------------------------------------------------------
(* Faults, time and the administrator *)

\* The process dies, or the transaction it was about to run fails.
Abandon(d) ==
    /\ work[d].phase # "idle"
    /\ Fault
    /\ Done(d)
    /\ UNCHANGED <<rows, provider, replays>>

\* A claim lapses after its 30 seconds, even if its holder is still at work.
ClaimExpires ==
    /\ outbox.live
    /\ IF \E d \in Dispatcher : work[d].phase # "idle" /\ Holds(d) THEN Lapse ELSE NoFault
    /\ outbox' = [outbox EXCEPT !.live = FALSE]
    /\ UNCHANGED <<status, attempts, letters, payload, work, provider, replays>>

RetryDue ==
    /\ ~outbox.due
    /\ outbox' = [outbox EXCEPT !.due = TRUE]
    /\ UNCHANGED <<status, attempts, letters, payload, work, provider, replays, faults>>

\* replay_outbound: a failed reply, or an ambiguous one with confirmation.  The
\* index uq_outbox_active_outbound keeps a row that is still open.
ReplayOutbound ==
    /\ replays.all < MaxReplays
    /\ status \in {"failed", "ambiguous"}
    /\ status' = "pending"
    /\ outbox' = IF outbox.published THEN NewRow(outbox.id + 1) ELSE outbox
    /\ letters' = 0
    /\ replays' = [all |-> replays.all + 1,
                   approved |-> replays.approved + (IF status = "ambiguous" THEN 1 ELSE 0)]
    /\ UNCHANGED <<attempts, payload, work, provider, faults>>

\* Nothing to claim: the dispatchers poll.
Poll ==
    /\ outbox.published
    /\ \A d \in Dispatcher : work[d].phase = "idle"
    /\ UNCHANGED vars

-----------------------------------------------------------------------------
(* The specification *)

Dispatch(d) ==
    \/ ClaimOutbox(d)
    \/ Drain(d)
    \/ Quarantine(d)
    \/ NoRoute(d)
    \/ Standby(d)
    \/ RouteFails(d)
    \/ BeginDelivery(d)
    \/ BeginAnswerLost(d)
    \/ Send(d)
    \/ FinishDelivery(d)
    \/ ResolveInProgress(d)
    \/ RecordDelivery(d)
    \/ DeadLetterUnknown(d)
    \/ Abandon(d)

Next ==
    \/ \E d \in Dispatcher : Dispatch(d)
    \/ ClaimExpires
    \/ RetryDue
    \/ ReplayOutbound
    \/ Poll

Spec == Init /\ [][Next]_vars

\* The loops of the dispatchers keep running and each call they make ends; time
\* passes; a dispatcher that serves the binding claims the reply again and again.
Fairness ==
    /\ \A d \in Dispatcher :
          /\ WF_vars(ClaimOutbox(d))
          /\ WF_vars(Send(d))
          /\ WF_vars(FinishDelivery(d))
          /\ WF_vars(ResolveInProgress(d) /\ NoFault)
          /\ WF_vars(RecordDelivery(d))
          /\ WF_vars(DeadLetterUnknown(d))
          /\ WF_vars(Drain(d) \/ Quarantine(d) \/ BeginDelivery(d))
    /\ SF_vars(\E d \in Dispatcher : Quarantine(d) \/ BeginDelivery(d))
    /\ WF_vars(ClaimExpires /\ NoFault)
    /\ WF_vars(RetryDue)

FairSpec == Spec /\ Fairness

-----------------------------------------------------------------------------
(* Properties *)

\* The provider takes the reply once, and once more for every replay of an
\* ambiguous delivery that the administrator confirmed: neither a claim that
\* lapsed while its holder was sending, nor a crash, nor a lost answer makes
\* begin_delivery start a second call.
NoDuplicateReply == provider.took <= 1 + replays.approved

\* A reply whose outbox row is closed was delivered, or a dead letter is open
\* for it; a delivered reply was taken by the provider and has no open row.
NoSilentLoss ==
    /\ outbox.published => status = "delivered" \/ letters > 0
    /\ status = "delivered" => outbox.published /\ provider.took > 0

\* The provider is called at most max_attempts times, and once more for every
\* replay, however the claims of the record were lost and taken over.
CallsWithinBudget == provider.calls <= MaxAttempts + replays.all

\* finish_delivery is fenced: an attempt is settled only while no newer one is
\* being sent, so a late answer never decides for the attempt after it.
LateAnswer ==
    \A n \in 1 .. Len(attempts) :
        attempts[n] = "sending" /\ attempts'[n] # "sending" =>
            \A k \in n + 1 .. Len(attempts) : attempts[k] # "sending"
LateAnswerFenced == [][LateAnswer]_vars

\* Calls that may still be made: dispatchers between begin_delivery and the call.
Begun == {d \in Dispatcher : work[d].phase = "begun"}

\* The provider took, or may be about to take, at most `bound` replies.
Spent(bound) == provider.took + Cardinality(Begun) <= bound

\* A reply that may be begun has spent nothing beyond the approved replays.
SpentInv ==
    /\ replays.approved <= replays.all
    /\ Spent(1 + replays.approved)
    /\ status \in {"pending", "failed"} => Spent(replays.approved)

\* Neither has a reply whose failure can still be recorded: begin_delivery runs
\* only for the holder of the row, and every other answer is fenced off.
AnswerInv ==
    /\ status = "sending" => Len(attempts) > 0
    /\ \A d \in Dispatcher :
          /\ work[d].phase \in {"begun", "answered", "progress"} =>
                work[d].attempt \in 1 .. Len(attempts)
          /\ work[d].phase = "answered" /\ work[d].receipt = "delivered" => provider.took > 0
          /\ /\ work[d].phase = "answered" /\ work[d].receipt \in {"failed", "retryable"}
             /\ MayFinish(d)
             => Spent(replays.approved)

\* Why NoDuplicateReply and NoSilentLoss hold, whatever the order of the steps.
LedgerInv == TypeOK /\ NoSilentLoss /\ SpentInv /\ AnswerInv

\* The answer that finish_delivery accepts is that of the newest attempt: only the
\* holder of the row begins one.
NewestInv ==
    \A d \in Dispatcher :
        /\ work[d].phase \in {"begun", "answered", "progress"}
        /\ Holds(d) /\ status = "sending"
        => work[d].attempt = Len(attempts)

\* Calls made and calls that may still be made are within `bound`.
Called(bound) == provider.calls + Cardinality(Begun) <= bound

\* Why CallsWithinBudget holds: every call has an attempt of its own, a reply open
\* for a retry has attempts left, and a replay pays for one more.
BudgetInv ==
    /\ NewestInv
    /\ Called(Len(attempts))
    /\ Called(MaxAttempts + replays.all)
    /\ status = "pending" => provider.calls + Cardinality(Begun) < MaxAttempts + replays.all
    /\ status = "failed" /\ ~outbox.published => Len(attempts) < MaxAttempts

\* As long as no claim lapses under its holder, every reply is settled in the
\* end: its outbox row is closed, whatever crash or database error came between,
\* and wherever.  A second one can hit the handler of the first and strand it.
EveryReplySettled == [](faults.lapsed = 0 /\ faults.down <= 1) => <>[]outbox.published

\* A definite failure is retried with backoff until the reply is delivered or
\* dead-lettered, as the table of failures in docs/operations.md says.
FailureRetriedOrDeadLettered == (status = "failed") ~> outbox.published
=============================================================================
