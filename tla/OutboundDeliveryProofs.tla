------------------------ MODULE OutboundDeliveryProofs ------------------------
(***************************************************************************)
(* A reply is neither sent twice nor lost, for every number of dispatchers,*)
(* attempts, replays, faults and lapses of OutboundDelivery.               *)
(***************************************************************************)
EXTENDS OutboundDelivery, SequenceTheorems, FiniteSetTheorems, TLAPS

\* The calls that may still be made are finitely many.
LEMMA BegunCounted ==
    /\ IsFiniteSet(Begun) /\ Cardinality(Begun) \in Nat
    /\ IsFiniteSet(Begun') /\ Cardinality(Begun') \in Nat
<1>1. Begun \subseteq Dispatcher /\ Begun' \subseteq Dispatcher
  BY DEF Begun
<1>2. IsFiniteSet(Begun) /\ IsFiniteSet(Begun')
  BY <1>1, FS_Subset, DeliveryAssumption
<1>3. QED
  BY <1>2, FS_CardinalityType

\* A step that begins no delivery does not add to the calls that may be made.
LEMMA BegunShrinks ==
    Begun' \subseteq Begun => Cardinality(Begun') <= Cardinality(Begun)
BY BegunCounted, FS_Subset

\* begin_delivery adds one call.
LEMMA BegunGrows ==
    ASSUME NEW d \in Dispatcher, Begun' \subseteq Begun \cup {d}
    PROVE  Cardinality(Begun') <= Cardinality(Begun) + 1
<1>1. /\ IsFiniteSet(Begun \cup {d})
      /\ Cardinality(Begun \cup {d}) \in {Cardinality(Begun), Cardinality(Begun) + 1}
  BY BegunCounted, FS_AddElement
<1>2. Cardinality(Begun') <= Cardinality(Begun \cup {d})
  BY <1>1, FS_Subset
<1>3. QED
  BY <1>1, <1>2, BegunCounted

\* The call of the provider uses one up.
LEMMA BegunCalled ==
    ASSUME NEW d \in Begun, Begun' = Begun \ {d}
    PROVE  Cardinality(Begun') = Cardinality(Begun) - 1
BY BegunCounted, FS_RemoveElement

\* Settling an attempt rewrites its row and no other.
LEMMA AttemptRewritten ==
    ASSUME NEW S, NEW q \in Seq(S), NEW i \in 1 .. Len(q), NEW v \in S
    PROVE  /\ [q EXCEPT ![i] = v] \in Seq(S)
           /\ Len([q EXCEPT ![i] = v]) = Len(q)
BY ExceptSeq

\* Beginning or recording an attempt appends a row.
LEMMA AttemptAppended ==
    ASSUME NEW S, NEW q \in Seq(S), NEW v \in S
    PROVE  /\ Append(q, v) \in Seq(S)
           /\ Len(Append(q, v)) = Len(q) + 1
           /\ Len(q) \in Nat
           /\ Append(q, v)[Len(q) + 1] = v
           /\ \A i \in 1 .. Len(q) : Append(q, v)[i] = q[i]
BY AppendProperties, LenProperties

\* A turn has just been committed: nothing is claimed and nothing was sent.
LEMMA InitLedger == Init => LedgerInv
<1> SUFFICES ASSUME Init PROVE LedgerInv
  OBVIOUS
<1>1. TypeOK
  BY DeliveryAssumption DEF Init, TypeOK, NewRow, IdleWork, Receipt, OutboxRow, Work
<1>2. NoSilentLoss
  BY DEF Init, NoSilentLoss, NewRow
<1>3. Begun = {} /\ Cardinality(Begun) = 0
  BY FS_EmptySet, ZenonT(40) DEF Init, Begun, IdleWork
<1>4. SpentInv
  BY <1>3 DEF Init, SpentInv, Spent
<1>5. AnswerInv
  BY DEF Init, AnswerInv, IdleWork
<1>6. QED
  BY <1>1, <1>2, <1>4, <1>5 DEF LedgerInv

\* What the steps that neither begin a delivery, nor call the provider, nor
\* replay the reply have in common: they keep what was spent, and make no answer
\* acceptable that was not.
LEMMA QuietStep ==
    ASSUME LedgerInv, TypeOK', NoSilentLoss',
           UNCHANGED <<provider, replays>>,
           status' \in {"pending", "failed"} =>
               status \in {"pending", "failed"} \/ Spent(replays.approved),
           status' = "sending" => Len(attempts') > 0,
           Len(attempts) <= Len(attempts'),
           \A e \in Dispatcher :
               /\ work'[e] = work[e] \/ work'[e].phase \notin {"begun", "answered", "progress"}
               /\ work'[e].phase = "answered" /\ MayFinish(e)' => MayFinish(e)
    PROVE  LedgerInv'
<1>1. Begun' \subseteq Begun
  BY DEF Begun
<1>2. Cardinality(Begun') <= Cardinality(Begun)
  BY <1>1, BegunShrinks
<1>3. /\ provider.took \in Nat /\ replays.approved \in Nat
      /\ Len(attempts) \in Nat /\ Len(attempts') \in Nat
  BY LenProperties DEF LedgerInv, TypeOK
<1>4. SpentInv'
  BY <1>2, <1>3, BegunCounted, SMTT(20) DEF LedgerInv, SpentInv, Spent
<1>5. AnswerInv'
  <2> SUFFICES ASSUME NEW e \in Dispatcher,
                      work'[e].phase \in {"begun", "answered", "progress"}
               PROVE  /\ work'[e].attempt \in 1 .. Len(attempts')
                      /\ work'[e].phase = "answered" /\ work'[e].receipt = "delivered" =>
                            provider'.took > 0
                      /\ /\ work'[e].phase = "answered"
                         /\ work'[e].receipt \in {"failed", "retryable"}
                         /\ MayFinish(e)'
                         => Spent(replays.approved)'
    BY DEF AnswerInv
  <2>1. work'[e] = work[e]
    OBVIOUS
  <2>2. work'[e].attempt \in 1 .. Len(attempts')
    BY <2>1, <1>3 DEF LedgerInv, AnswerInv
  <2>3. work'[e].phase = "answered" /\ work'[e].receipt = "delivered" => provider'.took > 0
    BY <2>1 DEF LedgerInv, AnswerInv
  <2>4. ASSUME work'[e].phase = "answered", work'[e].receipt \in {"failed", "retryable"},
               MayFinish(e)'
        PROVE  Spent(replays.approved)'
    <3>1. Spent(replays.approved)
      BY <2>1, <2>4 DEF LedgerInv, AnswerInv
    <3>2. QED
      BY <3>1, <1>2, <1>3, BegunCounted DEF Spent
  <2>5. QED
    BY <2>2, <2>3, <2>4
<1>6. QED
  BY <1>4, <1>5 DEF LedgerInv

\* One dispatcher moves on; the others keep what they hold.
LEMMA WorkMoves ==
    ASSUME work \in [Dispatcher -> Work], NEW d \in Dispatcher, NEW w \in Work, 
           work' = [work EXCEPT ![d] = w]
    PROVE  /\ work' \in [Dispatcher -> Work]
           /\ work'[d] = w
           /\ \A e \in Dispatcher : e # d => work'[e] = work[e]
OBVIOUS

\* The dispatcher lets go of the record.
LEMMA IdleTyped == IdleWork \in Work /\ IdleWork.phase = "idle"
BY DeliveryAssumption DEF IdleWork, Work, Receipt

\* The dispatcher goes on to another phase.
LEMMA PhaseTyped ==
    ASSUME NEW w \in Work, NEW p \in {"degraded", "displaced", "unknown"}
    PROVE  [w EXCEPT !.phase = p] \in Work /\ [w EXCEPT !.phase = p].phase = p
BY DEF Work

\* release_outbox keeps the row open.
LEMMA RowReleased ==
    ASSUME outbox \in OutboxRow, NEW b \in BOOLEAN, Release(b)
    PROVE  outbox' \in OutboxRow /\ outbox'.by = None /\ outbox'.published = outbox.published
BY ZenonT(40) DEF OutboxRow, Release

\* A row is closed by its delivery or by a dead letter.
LEMMA RowClosed ==
    ASSUME outbox \in OutboxRow, Close
    PROVE  outbox' \in OutboxRow /\ outbox'.by = None /\ outbox'.published
BY ZenonT(40) DEF OutboxRow, Close

\* dead_letter_outbox opens a dead letter.
LEMMA LetterOpened ==
    ASSUME letters \in Nat, DeadLetter
    PROVE  letters' \in Nat /\ letters' > 0 /\ Close
BY DEF DeadLetter

\* The bounds on the faults of the model.
LEMMA FaultTyped ==
    ASSUME faults \in [down : 0 .. MaxFaults, lapsed : 0 .. MaxLapses],
           faults' = faults \/ Fault \/ Lapse
    PROVE  faults' \in [down : 0 .. MaxFaults, lapsed : 0 .. MaxLapses]
BY DeliveryAssumption DEF Fault, Lapse

\* Claiming the row: the previous holder, if any, is fenced off.
LEMMA ClaimStep ==
    ASSUME LedgerInv, NEW d \in Dispatcher, ClaimOutbox(d)
    PROVE  LedgerInv'
<1>0. outbox \in OutboxRow /\ work \in [Dispatcher -> Work]
  BY SMTT(20) DEF LedgerInv, TypeOK
<1>1. PICK n \in 0 .. MaxAttempts :
         /\ outbox' = [outbox EXCEPT !.by = d, !.live = TRUE, !.claims = n]
         /\ work' = [work EXCEPT ![d] = [IdleWork EXCEPT !.phase = "claimed",
                                                         !.id = outbox.id, !.claims = n]]
  <2>1. outbox.claims \in 0 .. MaxAttempts
    BY <1>0 DEF OutboxRow
  <2>2. (IF outbox.claims < MaxAttempts THEN outbox.claims + 1 ELSE MaxAttempts) \in 0 .. MaxAttempts
    BY <2>1, DeliveryAssumption
  <2>3. QED
    BY <2>2, ZenonT(40) DEF ClaimOutbox
<1>2. /\ UNCHANGED <<status, attempts, letters, payload, provider, replays, faults>>
      /\ ~outbox.published
  BY DEF ClaimOutbox
<1>3. outbox' \in OutboxRow /\ outbox'.by = d /\ outbox'.published = outbox.published
  BY <1>0, <1>1, ZenonT(40) DEF OutboxRow
<1> DEFINE w == [IdleWork EXCEPT !.phase = "claimed", !.id = outbox.id, !.claims = n]
<1>4. w \in Work /\ w.phase = "claimed"
  BY <1>0, IdleTyped, ZenonT(40) DEF OutboxRow, Work
<1> HIDE DEF w
<1>5. /\ work' \in [Dispatcher -> Work] /\ work'[d].phase = "claimed"
      /\ \A e \in Dispatcher : e # d => work'[e] = work[e]
  <2>1. work' = [work EXCEPT ![d] = w]
    BY <1>1 DEF w
  <2>2. QED
    BY <2>1, <1>0, <1>4, WorkMoves
<1>6. TypeOK'
  BY <1>2, <1>3, <1>5 DEF LedgerInv, TypeOK
<1>7. NoSilentLoss'
  BY <1>2, <1>3 DEF LedgerInv, NoSilentLoss
<1>8. \A e \in Dispatcher :
         /\ work'[e] = work[e] \/ work'[e].phase \notin {"begun", "answered", "progress"}
         /\ work'[e].phase = "answered" /\ MayFinish(e)' => MayFinish(e)
  BY <1>3, <1>5 DEF MayFinish, Holds
<1>9. /\ UNCHANGED <<provider, replays>>
      /\ status' \in {"pending", "failed"} =>
             status \in {"pending", "failed"} \/ Spent(replays.approved)
      /\ status' = "sending" => Len(attempts') > 0
      /\ Len(attempts) <= Len(attempts')
  BY <1>2, LenProperties DEF LedgerInv, AnswerInv, TypeOK
<1>10. QED
  BY <1>6, <1>7, <1>8, <1>9, QuietStep

\* Giving the row back, dead-lettering it unsent or failing on the way to a
\* delivery settles no attempt.
LEMMA WayOutStep ==
    ASSUME LedgerInv, NEW d \in Dispatcher,
           \/ Drain(d) \/ Quarantine(d) \/ NoRoute(d) \/ Standby(d) \/ RouteFails(d)
           \/ DeadLetterUnknown(d) \/ Abandon(d)
    PROVE  LedgerInv'
<1>0. outbox \in OutboxRow /\ work \in [Dispatcher -> Work] /\ letters \in Nat
  BY DEF LedgerInv, TypeOK
<1>1. UNCHANGED <<status, attempts, payload, provider, replays>>
  BY ZenonT(40) DEF Drain, Quarantine, NoRoute, Standby, RouteFails, DeadLetterUnknown, Abandon, rows
<1>2. faults' = faults \/ Fault
  BY ZenonT(40) DEF Drain, Quarantine, NoRoute, Standby, RouteFails, DeadLetterUnknown, Abandon
<1>3. \/ outbox' = outbox /\ letters' = letters
      \/ (\E b \in BOOLEAN : Release(b)) /\ letters' = letters
      \/ DeadLetter
  BY ZenonT(40) DEF Drain, Quarantine, NoRoute, Standby, RouteFails, DeadLetterUnknown, Abandon, rows
<1>4. \/ Done(d) \/ Turn(d, "degraded") \/ Turn(d, "displaced")
  BY ZenonT(40) DEF Drain, Quarantine, NoRoute, Standby, RouteFails, DeadLetterUnknown, Abandon
<1>5. /\ work' \in [Dispatcher -> Work]
      /\ work'[d].phase \in {"idle", "degraded", "displaced"}
      /\ \A e \in Dispatcher : e # d => work'[e] = work[e]
  <2>1. CASE Done(d)
    BY <2>1, <1>0, IdleTyped, WorkMoves DEF Done
  <2>2. ASSUME NEW p \in {"degraded", "displaced", "unknown"}, Turn(d, p)
        PROVE  /\ work' \in [Dispatcher -> Work] /\ work'[d].phase = p
               /\ \A e \in Dispatcher : e # d => work'[e] = work[e]
    <3>1. work' = [work EXCEPT ![d] = [work[d] EXCEPT !.phase = p]]
      BY <2>2 DEF Turn
    <3>2. work[d] \in Work
      BY <1>0
    <3>3. [work[d] EXCEPT !.phase = p] \in Work /\ [work[d] EXCEPT !.phase = p].phase = p
      BY <3>2, PhaseTyped, ZenonT(40)
    <3>4. QED
      BY <1>0, <3>1, <3>3, WorkMoves, Zenon
  <2>3. QED
    BY <2>1, <2>2, <1>4
<1>6. /\ outbox' \in OutboxRow /\ letters' \in Nat
      /\ outbox' = outbox \/ outbox'.by = None
      /\ outbox'.published => letters' > 0 \/ (outbox.published /\ letters' = letters)
      /\ outbox.published => outbox'.published
  <2>1. CASE outbox' = outbox /\ letters' = letters
    BY <2>1, <1>0
  <2>2. CASE (\E b \in BOOLEAN : Release(b)) /\ letters' = letters
    BY <2>2, <1>0, RowReleased
  <2>3. CASE DeadLetter
    BY <2>3, <1>0, LetterOpened, RowClosed
  <2>4. QED
    BY <2>1, <2>2, <2>3, <1>3
<1>7. TypeOK'
  <2>1. faults' \in [down : 0 .. MaxFaults, lapsed : 0 .. MaxLapses]
    BY <1>2, FaultTyped DEF LedgerInv, TypeOK
  <2>2. QED
    BY <2>1, <1>1, <1>5, <1>6 DEF LedgerInv, TypeOK
<1>8. NoSilentLoss'
  BY <1>0, <1>1, <1>6 DEF LedgerInv, NoSilentLoss
<1>9. \A e \in Dispatcher :
         /\ work'[e] = work[e] \/ work'[e].phase \notin {"begun", "answered", "progress"}
         /\ work'[e].phase = "answered" /\ MayFinish(e)' => MayFinish(e)
  BY <1>1, <1>5, <1>6, DeliveryAssumption DEF MayFinish, Holds
<1>10. /\ UNCHANGED <<provider, replays>>
       /\ status' \in {"pending", "failed"} =>
              status \in {"pending", "failed"} \/ Spent(replays.approved)
       /\ status' = "sending" => Len(attempts') > 0
       /\ Len(attempts) <= Len(attempts')
  BY <1>1, LenProperties DEF LedgerInv, AnswerInv, TypeOK
<1>11. QED
  BY <1>7, <1>8, <1>9, <1>10, QuietStep

\* The dispatcher lets go of the record while its rows change.
LEMMA DoneMoves ==
    ASSUME work \in [Dispatcher -> Work], NEW d \in Dispatcher, Done(d)
    PROVE  /\ work' \in [Dispatcher -> Work] /\ work'[d].phase = "idle"
           /\ \A e \in Dispatcher : e # d => work'[e] = work[e]
BY IdleTyped, WorkMoves DEF Done

\* record_delivery, and a begin_delivery whose answer is lost: an attempt is added
\* that no dispatcher will settle.
LEMMA AddedAttemptStep ==
    ASSUME LedgerInv, NEW d \in Dispatcher, RecordDelivery(d) \/ BeginAnswerLost(d)
    PROVE  LedgerInv'
<1>0. /\ outbox \in OutboxRow /\ work \in [Dispatcher -> Work]
      /\ attempts \in Seq(AttemptStatus)
  BY DEF LedgerInv, TypeOK
<1>1. UNCHANGED <<outbox, letters, payload, provider, replays>> /\ (faults' = faults \/ Fault)
  BY DEF RecordDelivery, BeginAnswerLost
<1>2. \/ /\ attempts' = Append(attempts, "ambiguous") /\ status' = "ambiguous"
         /\ status # "delivered"
      \/ /\ attempts' = Append(attempts, "sending") /\ status' = "sending"
         /\ Holds(d) /\ Done(d)
      \/ UNCHANGED <<status, attempts>>
  BY ZenonT(40) DEF RecordDelivery, BeginAnswerLost, Unsettled, BeginAttempt
<1>3. /\ work' \in [Dispatcher -> Work]
      /\ work'[d].phase \in {"idle", "unknown"}
      /\ \A e \in Dispatcher : e # d => work'[e] = work[e]
  <2>1. CASE Done(d)
    BY <2>1, <1>0, DoneMoves
  <2>2. CASE Turn(d, "unknown")
    <3>1. work' = [work EXCEPT ![d] = [work[d] EXCEPT !.phase = "unknown"]]
      BY <2>2 DEF Turn
    <3>2. /\ [work[d] EXCEPT !.phase = "unknown"] \in Work
          /\ [work[d] EXCEPT !.phase = "unknown"].phase = "unknown"
      BY <1>0, PhaseTyped, ZenonT(40)
    <3>3. QED
      BY <1>0, <3>1, <3>2, WorkMoves, ZenonT(40)
  <2>3. QED
    BY <2>1, <2>2 DEF RecordDelivery, BeginAnswerLost
<1>4. /\ attempts' \in Seq(AttemptStatus) /\ Len(attempts) \in Nat
      /\ attempts' = attempts \/ Len(attempts') = Len(attempts) + 1
  BY <1>0, <1>2, AttemptAppended, SMTT(20) DEF AttemptStatus
<1>5. TypeOK'
  <2>1. faults' \in [down : 0 .. MaxFaults, lapsed : 0 .. MaxLapses]
    BY <1>1, FaultTyped DEF LedgerInv, TypeOK
  <2>2. QED
    BY <2>1, <1>1, <1>2, <1>3, <1>4 DEF LedgerInv, TypeOK
<1>6. NoSilentLoss'
  BY <1>1, <1>2 DEF LedgerInv, NoSilentLoss, Holds
<1>7. \A e \in Dispatcher :
         /\ work'[e] = work[e] \/ work'[e].phase \notin {"begun", "answered", "progress"}
         /\ work'[e].phase = "answered" /\ MayFinish(e)' => MayFinish(e)
  BY <1>1, <1>2, <1>3 DEF MayFinish, Holds
<1>8. /\ UNCHANGED <<provider, replays>>
      /\ status' \in {"pending", "failed"} =>
             status \in {"pending", "failed"} \/ Spent(replays.approved)
      /\ status' = "sending" => Len(attempts') > 0
      /\ Len(attempts) <= Len(attempts')
  BY <1>1, <1>2, <1>4 DEF LedgerInv, AnswerInv
<1>9. QED
  BY <1>5, <1>6, <1>7, <1>8, QuietStep

\* finish_delivery past its fences: the reply may be sent again only if the
\* provider did not take it, and the row is closed only with its delivery or with
\* a dead letter.
LEMMA SettleStep ==
    ASSUME LedgerInv, NEW d \in Dispatcher, NEW r \in Receipt,
           MayFinish(d), work[d].attempt \in 1 .. Len(attempts),
           r = "delivered" => provider.took > 0,
           r \in {"failed", "retryable"} => Spent(replays.approved),
           Settle(d, r), Done(d), UNCHANGED <<payload, provider, replays, faults>>
    PROVE  LedgerInv'
<1>0. /\ outbox \in OutboxRow /\ work \in [Dispatcher -> Work] /\ letters \in Nat
      /\ attempts \in Seq(AttemptStatus)
  BY DEF LedgerInv, TypeOK
<1>1. /\ work' \in [Dispatcher -> Work] /\ work'[d].phase = "idle"
      /\ \A e \in Dispatcher : e # d => work'[e] = work[e]
  BY <1>0, DoneMoves
<1> DEFINE s == IF r = "retryable" THEN "failed" ELSE r
<1>2. /\ s \in {"delivered", "failed", "ambiguous"}
      /\ s = "delivered" <=> r = "delivered"
      /\ s = "failed" => r \in {"failed", "retryable"}
  BY DEF Receipt, AttemptStatus
<1>3. attempts' = [attempts EXCEPT ![work[d].attempt] = s] /\ status' = s
  BY DEF Settle
<1>4. \/ r = "delivered" /\ Close /\ letters' = letters
      \/ r # "delivered" /\ Release(FALSE) /\ letters' = letters
      \/ r # "delivered" /\ DeadLetter
  BY ZenonT(40) DEF Settle, Retrying
<1> HIDE DEF s
<1>5. attempts' \in Seq(AttemptStatus) /\ Len(attempts') = Len(attempts) /\ Len(attempts) \in Nat
  <2>1. s \in AttemptStatus
    BY <1>2 DEF AttemptStatus
  <2>2. QED
    BY <2>1, <1>0, <1>3, AttemptRewritten, LenProperties
<1>6. /\ outbox' \in OutboxRow /\ letters' \in Nat
      /\ outbox'.published => r = "delivered" \/ letters' > 0
      /\ r = "delivered" => outbox'.published
  <2>1. CASE r = "delivered" /\ Close /\ letters' = letters
    BY <2>1, <1>0, RowClosed, ZenonT(40)
  <2>2. CASE r # "delivered" /\ Release(FALSE) /\ letters' = letters
    BY <2>2, <1>0, RowReleased, ZenonT(40) DEF MayFinish, Holds
  <2>3. CASE r # "delivered" /\ DeadLetter
    BY <2>3, <1>0, LetterOpened, RowClosed, ZenonT(40)
  <2>4. QED
    BY <2>1, <2>2, <2>3, <1>4, ZenonT(40)
<1>7. TypeOK'
  BY <1>1, <1>2, <1>3, <1>5, <1>6, SMTT(20) DEF LedgerInv, TypeOK
<1>8. NoSilentLoss'
  BY <1>2, <1>3, <1>6 DEF LedgerInv, NoSilentLoss
<1>9. \A e \in Dispatcher :
         /\ work'[e] = work[e] \/ work'[e].phase \notin {"begun", "answered", "progress"}
         /\ work'[e].phase = "answered" /\ MayFinish(e)' => MayFinish(e)
  BY <1>1, <1>2, <1>3 DEF MayFinish
<1>10. /\ UNCHANGED <<provider, replays>>
       /\ status' \in {"pending", "failed"} =>
              status \in {"pending", "failed"} \/ Spent(replays.approved)
       /\ status' = "sending" => Len(attempts') > 0
       /\ Len(attempts) <= Len(attempts')
  BY <1>2, <1>3, <1>5, SMTT(20)
<1>11. QED
  BY <1>7, <1>8, <1>9, <1>10, QuietStep

\* finish_delivery, and the resolution of an attempt found in progress.
LEMMA FinishStep ==
    ASSUME LedgerInv, NEW d \in Dispatcher, FinishDelivery(d) \/ ResolveInProgress(d)
    PROVE  LedgerInv'
<1>0. outbox \in OutboxRow /\ work \in [Dispatcher -> Work] /\ work[d].receipt \in Receipt
  BY DEF LedgerInv, TypeOK, Work
<1>1. CASE /\ work[d].phase = "answered" /\ MayFinish(d) /\ Settle(d, work[d].receipt) /\ Done(d)
           /\ UNCHANGED <<payload, provider, replays, faults>>
  BY <1>0, <1>1, SettleStep, SMTT(20) DEF LedgerInv, AnswerInv
<1>2. CASE /\ work[d].phase = "progress" /\ MayFinish(d) /\ Settle(d, "ambiguous") /\ Done(d)
           /\ UNCHANGED <<payload, provider, replays, faults>>
  BY <1>0, <1>2, SettleStep DEF LedgerInv, AnswerInv, Receipt
<1>3. CASE /\ UNCHANGED <<outbox, status, attempts, letters, payload, provider, replays>>
           /\ faults' = faults \/ Fault
           /\ Done(d) \/ Turn(d, "degraded")
  <2>1. /\ work' \in [Dispatcher -> Work]
        /\ work'[d].phase \in {"idle", "degraded"}
        /\ \A e \in Dispatcher : e # d => work'[e] = work[e]
    <3>1. CASE Done(d)
      BY <3>1, <1>0, DoneMoves
    <3>2. CASE Turn(d, "degraded")
      <4>1. work' = [work EXCEPT ![d] = [work[d] EXCEPT !.phase = "degraded"]]
        BY <3>2 DEF Turn
      <4>2. /\ [work[d] EXCEPT !.phase = "degraded"] \in Work
            /\ [work[d] EXCEPT !.phase = "degraded"].phase = "degraded"
        BY <1>0, PhaseTyped, ZenonT(40)
      <4>3. QED
        BY <1>0, <4>1, <4>2, WorkMoves, ZenonT(40)
    <3>3. QED
      BY <3>1, <3>2, <1>3
  <2>2. TypeOK'
    <3>1. faults' \in [down : 0 .. MaxFaults, lapsed : 0 .. MaxLapses]
      BY <1>3, FaultTyped DEF LedgerInv, TypeOK
    <3>2. QED
      BY <3>1, <2>1, <1>3 DEF LedgerInv, TypeOK
  <2>3. NoSilentLoss'
    BY <1>3 DEF LedgerInv, NoSilentLoss
  <2>4. \A e \in Dispatcher :
           /\ work'[e] = work[e] \/ work'[e].phase \notin {"begun", "answered", "progress"}
           /\ work'[e].phase = "answered" /\ MayFinish(e)' => MayFinish(e)
    BY <2>1, <1>3 DEF MayFinish, Holds
  <2>5. /\ UNCHANGED <<provider, replays>>
        /\ status' \in {"pending", "failed"} =>
               status \in {"pending", "failed"} \/ Spent(replays.approved)
        /\ status' = "sending" => Len(attempts') > 0
        /\ Len(attempts) <= Len(attempts')
    BY <1>3, LenProperties DEF LedgerInv, AnswerInv, TypeOK
  <2>6. QED
    BY <2>2, <2>3, <2>4, <2>5, QuietStep, ZenonT(40)
<1>4. QED
  BY <1>1, <1>2, <1>3, ZenonT(40) DEF FinishDelivery, ResolveInProgress, NoFault

\* A claim lapses or a retry falls due: the holder stays the same.
LEMMA TimeStep ==
    ASSUME LedgerInv, ClaimExpires \/ RetryDue \/ UNCHANGED vars
    PROVE  LedgerInv'
<1>0. outbox \in OutboxRow
  BY DEF LedgerInv, TypeOK
<1>1. /\ UNCHANGED <<status, attempts, letters, payload, work, provider, replays>>
      /\ faults' = faults \/ Lapse
      /\ \/ outbox' = outbox
         \/ outbox' = [outbox EXCEPT !.live = FALSE]
         \/ outbox' = [outbox EXCEPT !.due = TRUE]
  BY ZenonT(40) DEF ClaimExpires, RetryDue, vars, rows, NoFault
<1>2. /\ outbox' \in OutboxRow
      /\ outbox'.id = outbox.id /\ outbox'.by = outbox.by /\ outbox'.published = outbox.published
  BY <1>0, <1>1, ZenonT(40) DEF OutboxRow
<1>3. TypeOK'
  <2>1. faults' \in [down : 0 .. MaxFaults, lapsed : 0 .. MaxLapses]
    BY <1>1, FaultTyped DEF LedgerInv, TypeOK
  <2>2. QED
    BY <2>1, <1>1, <1>2 DEF LedgerInv, TypeOK
<1>4. NoSilentLoss'
  BY <1>1, <1>2 DEF LedgerInv, NoSilentLoss
<1>5. \A e \in Dispatcher :
         /\ work'[e] = work[e] \/ work'[e].phase \notin {"begun", "answered", "progress"}
         /\ work'[e].phase = "answered" /\ MayFinish(e)' => MayFinish(e)
  BY <1>1, <1>2 DEF MayFinish, Holds
<1>6. /\ UNCHANGED <<provider, replays>>
      /\ status' \in {"pending", "failed"} =>
             status \in {"pending", "failed"} \/ Spent(replays.approved)
      /\ status' = "sending" => Len(attempts') > 0
      /\ Len(attempts) <= Len(attempts')
  BY <1>1, LenProperties DEF LedgerInv, AnswerInv, TypeOK
<1>7. QED
  BY <1>3, <1>4, <1>5, <1>6, QuietStep

\* begin_delivery: it starts a call only for a reply that has spent nothing, and
\* only for the holder of the row, so no other answer becomes acceptable.
LEMMA BeginStep ==
    ASSUME LedgerInv, NEW d \in Dispatcher, BeginDelivery(d)
    PROVE  LedgerInv'
<1>0. /\ outbox \in OutboxRow /\ work \in [Dispatcher -> Work] /\ work[d] \in Work
      /\ attempts \in Seq(AttemptStatus) /\ Len(attempts) \in Nat
      /\ provider.took \in Nat /\ replays.approved \in Nat
      /\ work[d].phase = "claimed"
  BY LenProperties DEF LedgerInv, TypeOK, BeginDelivery
<1>1. UNCHANGED <<outbox, letters, payload, provider, replays, faults>>
  BY DEF BeginDelivery
<1>2. CASE /\ Holds(d) /\ MayBegin /\ BeginAttempt
           /\ work' = [work EXCEPT ![d].phase = "begun", ![d].attempt = Len(attempts) + 1]
  <2> DEFINE w == [work[d] EXCEPT !.phase = "begun", !.attempt = Len(attempts) + 1]
  <2>0. Len(attempts) + 1 \in Nat
    BY <1>0
  <2>1. w \in Work /\ w.phase = "begun" /\ w.attempt = Len(attempts) + 1
    BY <1>0, <2>0, ZenonT(40) DEF Work
  <2>2. work' = [work EXCEPT ![d] = w]
    BY <1>0, <1>2, ZenonT(40)
  <2> HIDE DEF w
  <2>3. /\ work' \in [Dispatcher -> Work] /\ work'[d].phase = "begun"
        /\ work'[d].attempt = Len(attempts) + 1
        /\ \A e \in Dispatcher : e # d => work'[e] = work[e]
    BY <1>0, <2>1, <2>2, WorkMoves, ZenonT(40)
  <2>4. /\ attempts' = Append(attempts, "sending") /\ status' = "sending"
        /\ status \in {"pending", "failed"} /\ ~outbox.published /\ outbox.by = d
    BY <1>2 DEF BeginAttempt, MayBegin, Holds
  <2>5. attempts' \in Seq(AttemptStatus) /\ Len(attempts') = Len(attempts) + 1
    BY <1>0, <2>4, AttemptAppended DEF AttemptStatus
  <2>6. TypeOK'
    BY <1>1, <2>3, <2>4, <2>5 DEF LedgerInv, TypeOK
  <2>7. NoSilentLoss'
    BY <1>1, <2>4 DEF NoSilentLoss
  <2>8. Cardinality(Begun') <= Cardinality(Begun) + 1
    <3>1. Begun' \subseteq Begun \cup {d}
      BY <2>3 DEF Begun
    <3>2. QED
      BY <3>1, BegunGrows
  <2>9. SpentInv'
    BY <1>0, <1>1, <2>4, <2>8, BegunCounted, SMTT(20) DEF LedgerInv, SpentInv, Spent
  <2>10. AnswerInv'
    <3>1. \A e \in Dispatcher : e # d => ~MayFinish(e)'
      BY <1>1, <2>4 DEF MayFinish, Holds
    <3>2. \A e \in Dispatcher : e # d =>
             /\ work[e].phase \in {"begun", "answered", "progress"} =>
                   work[e].attempt \in 1 .. Len(attempts')
             /\ work[e].phase = "answered" /\ work[e].receipt = "delivered" => provider.took > 0
      BY <1>0, <2>5 DEF LedgerInv, AnswerInv
    <3>3. QED
      BY <1>0, <1>1, <2>3, <2>5, <3>1, <3>2 DEF AnswerInv
  <2>11. QED
    BY <2>6, <2>7, <2>9, <2>10 DEF LedgerInv
<1>3. CASE /\ status = "sending" /\ UNCHANGED <<status, attempts>>
           /\ work' = [work EXCEPT ![d].phase = "progress", ![d].attempt = Len(attempts)]
  <2> DEFINE w == [work[d] EXCEPT !.phase = "progress", !.attempt = Len(attempts)]
  <2>1. w \in Work /\ w.phase = "progress" /\ w.attempt = Len(attempts)
    BY <1>0, ZenonT(40) DEF Work
  <2>2. work' = [work EXCEPT ![d] = w]
    BY <1>0, <1>3, ZenonT(40)
  <2> HIDE DEF w
  <2>3. /\ work' \in [Dispatcher -> Work] /\ work'[d].phase = "progress"
        /\ work'[d].attempt = Len(attempts)
        /\ \A e \in Dispatcher : e # d => work'[e] = work[e]
    BY <1>0, <2>1, <2>2, WorkMoves, ZenonT(40)
  <2>4. TypeOK'
    BY <1>1, <1>3, <2>3 DEF LedgerInv, TypeOK
  <2>5. NoSilentLoss'
    BY <1>1, <1>3 DEF LedgerInv, NoSilentLoss
  <2>6. Begun' = Begun
    BY <1>0, <2>3 DEF Begun
  <2>8. SpentInv'
    BY <1>1, <1>3, <2>6 DEF LedgerInv, SpentInv, Spent
  <2>9. AnswerInv'
    <3>1. \A e \in Dispatcher : e # d => (MayFinish(e)' <=> MayFinish(e))
      BY <1>1, <1>3, <2>3 DEF MayFinish, Holds
    <3>2. Len(attempts) > 0
      BY <1>3 DEF LedgerInv, AnswerInv
    <3>3. QED
      BY <1>0, <1>1, <1>3, <2>3, <2>6, <3>1, <3>2, SMTT(20) DEF LedgerInv, AnswerInv, Spent
  <2>10. QED
    BY <2>4, <2>5, <2>8, <2>9 DEF LedgerInv
<1>4. CASE Done(d) /\ UNCHANGED <<status, attempts>>
  <2>1. /\ work' \in [Dispatcher -> Work] /\ work'[d].phase = "idle"
        /\ \A e \in Dispatcher : e # d => work'[e] = work[e]
    BY <1>0, <1>4, DoneMoves
  <2>2. TypeOK' /\ NoSilentLoss'
    BY <1>1, <1>4, <2>1 DEF LedgerInv, TypeOK, NoSilentLoss
  <2>3. \A e \in Dispatcher :
           /\ work'[e] = work[e] \/ work'[e].phase \notin {"begun", "answered", "progress"}
           /\ work'[e].phase = "answered" /\ MayFinish(e)' => MayFinish(e)
    BY <1>1, <1>4, <2>1 DEF MayFinish, Holds
  <2>4. QED
    BY <1>0, <1>1, <1>4, <2>2, <2>3, QuietStep DEF LedgerInv, AnswerInv
<1>5. QED
  BY <1>2, <1>3, <1>4, ZenonT(40) DEF BeginDelivery

\* The call of the provider turns a call that may be made into one that was, and
\* gives it back when the provider refuses the reply.
LEMMA SendStep ==
    ASSUME LedgerInv, NEW d \in Dispatcher, Send(d)
    PROVE  LedgerInv'
<1>0. /\ work \in [Dispatcher -> Work] /\ work[d] \in Work
      /\ provider \in [calls : Nat, took : Nat] /\ replays.approved \in Nat
      /\ work[d].phase = "begun" /\ d \in Begun
  BY DEF LedgerInv, TypeOK, Send, Begun
<1>1. UNCHANGED <<outbox, status, attempts, letters, payload, replays, faults>>
  BY DEF Send, rows
<1>2. PICK r \in Receipt, took \in 0 .. 1 :
         /\ r = "delivered" => took = 1
         /\ r \in {"failed", "retryable"} => took = 0
         /\ work' = [work EXCEPT ![d].phase = "answered", ![d].receipt = r]
         /\ provider' = [calls |-> provider.calls + 1, took |-> provider.took + took]
  BY ZenonT(40) DEF Send
<1> DEFINE w == [work[d] EXCEPT !.phase = "answered", !.receipt = r]
<1>3. w \in Work /\ w.phase = "answered" /\ w.receipt = r /\ w.attempt = work[d].attempt
      /\ w.id = work[d].id
  BY <1>0, ZenonT(40) DEF Work
<1>4. work' = [work EXCEPT ![d] = w]
  BY <1>0, <1>2, ZenonT(40)
<1> HIDE DEF w
<1>5. /\ work' \in [Dispatcher -> Work] /\ work'[d].phase = "answered"
      /\ work'[d].receipt = r /\ work'[d].attempt = work[d].attempt /\ work'[d].id = work[d].id
      /\ \A e \in Dispatcher : e # d => work'[e] = work[e]
  BY <1>0, <1>3, <1>4, WorkMoves, ZenonT(40)
<1>6. /\ provider' \in [calls : Nat, took : Nat]
      /\ provider.took \in Nat /\ provider'.took = provider.took + took
  BY <1>0, <1>2
<1>7. TypeOK'
  BY <1>1, <1>5, <1>6 DEF LedgerInv, TypeOK
<1>8. NoSilentLoss'
  BY <1>1, <1>6 DEF LedgerInv, NoSilentLoss
<1>9. Cardinality(Begun') = Cardinality(Begun) - 1
  <2>1. Begun' = Begun \ {d}
    BY <1>5 DEF Begun
  <2>2. QED
    BY <2>1, <1>0, BegunCalled, ZenonT(40)
<1>10. /\ provider'.took + Cardinality(Begun') <= provider.took + Cardinality(Begun)
       /\ took = 0 => provider'.took + Cardinality(Begun') = provider.took + Cardinality(Begun) - 1
       /\ Cardinality(Begun) \in Nat /\ Cardinality(Begun') \in Nat /\ provider'.took \in Nat
  BY <1>6, <1>9, BegunCounted
<1>11. SpentInv'
  BY <1>0, <1>1, <1>6, <1>10, SMTT(20) DEF LedgerInv, SpentInv, Spent
<1>12. AnswerInv'
  <2>1. /\ status' = "sending" => Len(attempts') > 0
        /\ work'[d].attempt \in 1 .. Len(attempts')
    BY <1>0, <1>1, <1>5 DEF LedgerInv, AnswerInv
  <2>2. r = "delivered" => provider'.took > 0
    BY <1>2, <1>6
  <2>3. r \in {"failed", "retryable"} => Spent(replays.approved)'
    <3>1. Spent(1 + replays.approved)
      BY DEF LedgerInv, SpentInv
    <3>2. QED
      BY <1>0, <1>1, <1>2, <1>6, <1>10, <3>1 DEF Spent
  <2>4. ASSUME NEW e \in Dispatcher, e # d
        PROVE  /\ work[e].phase \in {"begun", "answered", "progress"} =>
                     work[e].attempt \in 1 .. Len(attempts')
               /\ work[e].phase = "answered" /\ work[e].receipt = "delivered" =>
                     provider'.took > 0
               /\ /\ work[e].phase = "answered" /\ work[e].receipt \in {"failed", "retryable"}
                  /\ MayFinish(e)'
                  => Spent(replays.approved)'
    <3>1. MayFinish(e)' => MayFinish(e)
      BY <1>1, <1>5, <2>4 DEF MayFinish, Holds
    <3>2. Spent(replays.approved) => Spent(replays.approved)'
      BY <1>0, <1>1, <1>6, <1>10 DEF Spent
    <3>3. provider.took > 0 => provider'.took > 0
      BY <1>6
    <3>4. QED
      BY <3>1, <3>2, <3>3, <1>1, ZenonT(40) DEF LedgerInv, AnswerInv
  <2>5. QED
    BY <2>1, <2>2, <2>3, <2>4, <1>5, SMTT(20) DEF AnswerInv
<1>13. QED
  BY <1>7, <1>8, <1>11, <1>12 DEF LedgerInv

\* replay_outbound: the replay of an ambiguous delivery is what pays for the reply
\* that the provider may have taken.
LEMMA ReplayStep ==
    ASSUME LedgerInv, ReplayOutbound
    PROVE  LedgerInv'
<1>0. /\ outbox \in OutboxRow /\ provider.took \in Nat
      /\ replays \in [all : 0 .. MaxReplays, approved : 0 .. MaxReplays]
  BY DEF LedgerInv, TypeOK
<1>1. /\ UNCHANGED <<attempts, payload, work, provider, faults>>
      /\ status' = "pending" /\ letters' = 0 /\ replays.all < MaxReplays
      /\ status \in {"failed", "ambiguous"}
  BY DEF ReplayOutbound
<1>2. outbox' \in OutboxRow /\ ~outbox'.published
  <2>1. CASE outbox.published
    <3>1. outbox.id + 1 \in Nat /\ 0 \in 0 .. MaxAttempts
      BY <1>0, DeliveryAssumption DEF OutboxRow
    <3>2. outbox' = NewRow(outbox.id + 1)
      BY <2>1 DEF ReplayOutbound
    <3>3. QED
      BY <3>1, <3>2, ZenonT(40) DEF OutboxRow, NewRow
  <2>2. CASE ~outbox.published
    BY <2>2, <1>0 DEF ReplayOutbound
  <2>3. QED
    BY <2>1, <2>2
<1>3. replays.approved \in Nat /\ replays'.approved \in Nat
      /\ replays' \in [all : Nat, approved : Nat]
      /\ replays'.all = replays.all + 1
      /\ replays'.approved = replays.approved + (IF status = "ambiguous" THEN 1 ELSE 0)
  BY <1>0, DeliveryAssumption DEF ReplayOutbound
<1>4. replays.approved <= replays.all
  BY DEF LedgerInv, SpentInv
<1>5. TypeOK'
  <2>1. replays' \in [all : 0 .. MaxReplays, approved : 0 .. MaxReplays]
    BY <1>0, <1>1, <1>3, <1>4, DeliveryAssumption DEF ReplayOutbound
  <2>2. QED
    BY <2>1, <1>1, <1>2 DEF LedgerInv, TypeOK
<1>6. NoSilentLoss'
  BY <1>1, <1>2 DEF NoSilentLoss
<1>7. Begun' = Begun
  BY <1>1 DEF Begun
<1>8. SpentInv'
  BY <1>0, <1>1, <1>3, <1>4, <1>7, BegunCounted, SMTT(20) DEF LedgerInv, SpentInv, Spent
<1>9. AnswerInv'
  <2>1. \A e \in Dispatcher : ~MayFinish(e)'
    BY <1>1 DEF MayFinish
  <2>2. QED
    BY <2>1, <1>1 DEF LedgerInv, AnswerInv
<1>10. QED
  BY <1>5, <1>6, <1>8, <1>9 DEF LedgerInv

\* Every step of the dispatchers, of time and of the administrator keeps the
\* ledger.
LEMMA LedgerStep == LedgerInv /\ [Next]_vars => LedgerInv'
<1> SUFFICES ASSUME LedgerInv, [Next]_vars PROVE LedgerInv'
  OBVIOUS
<1>1. ASSUME NEW d \in Dispatcher, Dispatch(d) PROVE LedgerInv'
  BY <1>1, ClaimStep, WayOutStep, AddedAttemptStep, FinishStep, BeginStep, SendStep, Zenon
     DEF Dispatch
<1>2. CASE ClaimExpires \/ RetryDue \/ UNCHANGED vars
  BY <1>2, TimeStep
<1>3. CASE ReplayOutbound
  BY <1>3, ReplayStep
<1>4. QED
  BY <1>1, <1>2, <1>3, Zenon DEF Next, Poll

\* The ledger invariant holds in every behaviour of the dispatchers.
THEOREM LedgerInvariance == Spec => []LedgerInv
<1>1. Init => LedgerInv
  BY InitLedger
<1>2. LedgerInv /\ [Next]_vars => LedgerInv'
  BY LedgerStep
<1>3. QED
  BY <1>1, <1>2, PTL DEF Spec

\* The rows stay within the types of their columns.
THEOREM DeliveryTypeCorrect == Spec => []TypeOK
<1>1. LedgerInv => TypeOK
  BY DEF LedgerInv
<1>2. QED
  BY <1>1, LedgerInvariance, PTL

\* The provider takes a reply at most once, and once more for every ambiguous
\* delivery that the administrator replays.
THEOREM NoDuplicate == Spec => []NoDuplicateReply
<1>1. LedgerInv => NoDuplicateReply
  <2> SUFFICES ASSUME LedgerInv PROVE NoDuplicateReply
    OBVIOUS
  <2>1. provider.took \in Nat /\ replays.approved \in Nat
    BY DEF LedgerInv, TypeOK
  <2>2. provider.took + Cardinality(Begun) <= 1 + replays.approved
    BY DEF LedgerInv, SpentInv, Spent
  <2>3. QED
    BY <2>1, <2>2, BegunCounted DEF NoDuplicateReply
<1>2. QED
  BY <1>1, LedgerInvariance, PTL

\* No reply is lost silently: a closed row means a delivery or an open dead letter.
THEOREM NoLoss == Spec => []NoSilentLoss
<1>1. LedgerInv => NoSilentLoss
  BY DEF LedgerInv
<1>2. QED
  BY <1>1, LedgerInvariance, PTL

-------------------------------------------------------------------------------
(* The budget of calls *)

\* A dispatcher works on its own record: its steps leave the others' alone.
LEMMA OthersKeep ==
    ASSUME work \in [Dispatcher -> Work], NEW d \in Dispatcher, Dispatch(d),
           NEW e \in Dispatcher, e # d
    PROVE  work'[e] = work[e]
<1>1. CASE Done(d)
  BY <1>1, DoneMoves
<1>2. ASSUME NEW p, Turn(d, p) PROVE work'[e] = work[e]
  BY <1>2 DEF Turn
<1>3. CASE ClaimOutbox(d)
  BY <1>3 DEF ClaimOutbox
<1>4. CASE BeginDelivery(d)
  BY <1>4, <1>1 DEF BeginDelivery
<1>5. CASE Send(d)
  BY <1>5 DEF Send
<1>6. CASE RecordDelivery(d) \/ ResolveInProgress(d) \/ NoRoute(d) \/ Standby(d) \/ RouteFails(d)
  BY <1>6, <1>1, <1>2, ZenonT(40)
     DEF RecordDelivery, ResolveInProgress, NoRoute, Standby, RouteFails
<1>7. CASE \/ Drain(d) \/ Quarantine(d) \/ BeginAnswerLost(d) \/ FinishDelivery(d)
           \/ DeadLetterUnknown(d) \/ Abandon(d)
  BY <1>7, <1>1, ZenonT(40)
     DEF Drain, Quarantine, BeginAnswerLost, FinishDelivery, DeadLetterUnknown, Abandon
<1>8. QED
  BY <1>3, <1>4, <1>5, <1>6, <1>7, Zenon DEF Dispatch

\* A step that begins no attempt makes no older answer acceptable.
LEMMA NewestKept ==
    ASSUME NewestInv,
           status' = "sending" => status = "sending" /\ Len(attempts') = Len(attempts),
           \A e \in Dispatcher :
               /\ work'[e].phase \in {"begun", "answered", "progress"}
               /\ Holds(e)' /\ status' = "sending"
               => /\ work[e].phase \in {"begun", "answered", "progress"}
                  /\ work'[e].attempt = work[e].attempt /\ Holds(e)
    PROVE  NewestInv'
BY DEF NewestInv

\* A step that calls nobody and begins nothing keeps the budget.
LEMMA BudgetKept ==
    ASSUME LedgerInv, LedgerInv', BudgetInv, NewestInv',
           UNCHANGED <<provider, replays>>, Begun' \subseteq Begun,
           Len(attempts) <= Len(attempts'),
           status' = "pending" => status = "pending",
           status' = "failed" /\ ~outbox'.published => Len(attempts') < MaxAttempts
    PROVE  BudgetInv'
<1>1. /\ provider.calls \in Nat /\ replays.all \in Nat
      /\ Len(attempts) \in Nat /\ Len(attempts') \in Nat
  BY LenProperties DEF LedgerInv, TypeOK
<1>2. Cardinality(Begun') <= Cardinality(Begun)
  BY BegunShrinks
<1>3. QED
  BY <1>1, <1>2, BegunCounted, DeliveryAssumption, SMTT(20) DEF BudgetInv, Called

\* Claiming the row, giving it back and dead-lettering it leave the attempts alone.
LEMMA BudgetRowStep ==
    ASSUME LedgerInv, LedgerInv', BudgetInv, NEW d \in Dispatcher,
           \/ ClaimOutbox(d) \/ Drain(d) \/ Quarantine(d) \/ NoRoute(d) \/ Standby(d)
           \/ RouteFails(d) \/ DeadLetterUnknown(d) \/ Abandon(d)
    PROVE  BudgetInv'
<1>0. /\ outbox \in OutboxRow /\ work \in [Dispatcher -> Work] /\ letters \in Nat
      /\ Len(attempts) \in Nat
  BY LenProperties DEF LedgerInv, TypeOK
<1>1. UNCHANGED <<status, attempts, provider, replays>>
  BY ZenonT(40) DEF ClaimOutbox, Drain, Quarantine, NoRoute, Standby, RouteFails,
                    DeadLetterUnknown, Abandon, rows
<1>2. work'[d].phase \in {"idle", "claimed", "degraded", "displaced"}
  <2>1. CASE Done(d)
    BY <2>1, <1>0, DoneMoves
  <2>2. ASSUME NEW p \in {"degraded", "displaced"}, Turn(d, p) PROVE work'[d].phase = p
    BY <2>2, <1>0 DEF Turn, Work
  <2>3. CASE ClaimOutbox(d)
    BY <2>3, <1>0 DEF ClaimOutbox, IdleWork
  <2>4. QED
    BY <2>1, <2>2, <2>3, ZenonT(40)
       DEF Drain, Quarantine, NoRoute, Standby, RouteFails, DeadLetterUnknown, Abandon
<1>3. \A e \in Dispatcher : e # d => work'[e] = work[e]
  BY <1>0, OthersKeep DEF Dispatch
<1>4. /\ \A e \in Dispatcher : e # d /\ Holds(e)' => Holds(e)
      /\ outbox.published => outbox'.published
  <2>1. CASE outbox' = outbox
    BY <2>1, <1>3 DEF Holds
  <2>2. CASE \E b \in BOOLEAN : Release(b)
    BY <2>2, <1>0, RowReleased, DeliveryAssumption DEF Holds
  <2>3. CASE DeadLetter
    BY <2>3, <1>0, RowClosed DEF Holds, DeadLetter
  <2>4. CASE ClaimOutbox(d)
    BY <2>4, <1>0 DEF Holds, ClaimOutbox, OutboxRow
  <2>5. QED
    BY <2>1, <2>2, <2>3, <2>4, ZenonT(40)
       DEF Drain, Quarantine, NoRoute, Standby, RouteFails, DeadLetterUnknown, Abandon, rows
<1>5. NewestInv'
  BY <1>1, <1>2, <1>3, <1>4, NewestKept DEF BudgetInv
<1>6. Begun' \subseteq Begun
  BY <1>2, <1>3 DEF Begun
<1>7. status' = "failed" /\ ~outbox'.published => Len(attempts') < MaxAttempts
  BY <1>1, <1>4 DEF BudgetInv
<1>8. QED
  BY <1>0, <1>1, <1>5, <1>6, <1>7, BudgetKept

\* Settling the newest attempt opens the reply for a retry only while attempts are
\* left, and every other attempt stays as it is.
LEMMA BudgetSettleStep ==
    ASSUME LedgerInv, LedgerInv', BudgetInv, NEW d \in Dispatcher, NEW r \in Receipt,
           work[d].phase \in {"answered", "progress"}, MayFinish(d),
           Settle(d, r), Done(d), UNCHANGED <<provider, replays>>
    PROVE  BudgetInv'
<1>0. /\ outbox \in OutboxRow /\ work \in [Dispatcher -> Work] /\ letters \in Nat
      /\ attempts \in Seq(AttemptStatus) /\ Len(attempts) \in Nat
  BY LenProperties DEF LedgerInv, TypeOK
<1>1. work[d].attempt = Len(attempts) /\ Len(attempts) \in 1 .. Len(attempts)
  BY <1>0 DEF BudgetInv, NewestInv, MayFinish, LedgerInv, AnswerInv
<1>2. /\ status' # "sending" /\ status' # "pending"
      /\ status' = "failed" => r \in {"failed", "retryable"}
  BY DEF Settle, Receipt
<1>3. Len(attempts') = Len(attempts)
  <2> DEFINE s == IF r = "retryable" THEN "failed" ELSE r
  <2>1. s \in AttemptStatus
    BY DEF Receipt, AttemptStatus
  <2>2. attempts' = [attempts EXCEPT ![Len(attempts)] = s]
    BY <1>1, Zenon DEF Settle
  <2> HIDE DEF s
  <2>3. QED
    BY <2>1, <2>2, <1>0, <1>1, AttemptRewritten
<1>4. ASSUME status' = "failed", ~outbox'.published PROVE Len(attempts') < MaxAttempts
  <2>1. Retrying(r, Len(attempts)) \/ Close
    BY <1>1, ZenonT(40) DEF Settle, DeadLetter
  <2>2. CASE Close
    BY <2>2, <1>0, <1>4, RowClosed
  <2>3. CASE Retrying(r, Len(attempts))
    BY <2>3, <1>3 DEF Retrying
  <2>4. QED
    BY <2>1, <2>2, <2>3
<1>5. NewestInv'
  BY <1>2 DEF NewestInv
<1>6. Begun' \subseteq Begun
  BY <1>0, DoneMoves DEF Begun
<1>7. QED
  BY <1>0, <1>2, <1>3, <1>4, <1>5, <1>6, BudgetKept

\* finish_delivery, and the resolution of an attempt found in progress.
LEMMA BudgetFinishStep ==
    ASSUME LedgerInv, LedgerInv', BudgetInv, NEW d \in Dispatcher,
           FinishDelivery(d) \/ ResolveInProgress(d)
    PROVE  BudgetInv'
<1>0. /\ work \in [Dispatcher -> Work] /\ work[d].receipt \in Receipt /\ Len(attempts) \in Nat
  <2>1. work \in [Dispatcher -> Work] /\ Len(attempts) \in Nat
    BY LenProperties DEF LedgerInv, TypeOK
  <2>2. QED
    BY <2>1 DEF Work
<1>1. CASE /\ work[d].phase = "answered" /\ MayFinish(d) /\ Settle(d, work[d].receipt) /\ Done(d)
           /\ UNCHANGED <<provider, replays>>
  BY <1>0, <1>1, BudgetSettleStep
<1>2. CASE /\ work[d].phase = "progress" /\ MayFinish(d) /\ Settle(d, "ambiguous") /\ Done(d)
           /\ UNCHANGED <<provider, replays>>
  BY <1>0, <1>2, BudgetSettleStep DEF Receipt
<1>3. CASE /\ UNCHANGED <<outbox, status, attempts, provider, replays>>
           /\ Done(d) \/ Turn(d, "degraded")
  <2>1. work'[d].phase \in {"idle", "degraded"}
    <3>1. CASE Done(d)
      BY <3>1, <1>0, DoneMoves
    <3>2. CASE Turn(d, "degraded")
      BY <3>2, <1>0 DEF Turn, Work
    <3>3. QED
      BY <3>1, <3>2, <1>3
  <2>2. \A e \in Dispatcher : e # d => work'[e] = work[e]
    BY <1>0, OthersKeep DEF Dispatch
  <2>3. NewestInv'
    BY <1>3, <2>1, <2>2, NewestKept DEF BudgetInv, Holds
  <2>4. Begun' \subseteq Begun
    BY <2>1, <2>2 DEF Begun
  <2>5. QED
    BY <1>0, <1>3, <2>3, <2>4, BudgetKept DEF BudgetInv
<1>4. QED
  BY <1>1, <1>2, <1>3, ZenonT(40) DEF FinishDelivery, ResolveInProgress

\* record_delivery, and a begin_delivery whose answer is lost, add an attempt that
\* calls nobody.
LEMMA BudgetAddedStep ==
    ASSUME LedgerInv, LedgerInv', BudgetInv, NEW d \in Dispatcher,
           RecordDelivery(d) \/ BeginAnswerLost(d)
    PROVE  BudgetInv'
<1>0. /\ work \in [Dispatcher -> Work] /\ attempts \in Seq(AttemptStatus)
      /\ Len(attempts) \in Nat
  BY LenProperties DEF LedgerInv, TypeOK
<1>1. UNCHANGED <<outbox, provider, replays>>
  BY DEF RecordDelivery, BeginAnswerLost
<1>2. \/ attempts' = Append(attempts, "ambiguous") /\ status' = "ambiguous"
      \/ attempts' = Append(attempts, "sending") /\ status' = "sending" /\ Holds(d)
      \/ UNCHANGED <<status, attempts>>
  BY ZenonT(40) DEF RecordDelivery, BeginAnswerLost, BeginAttempt
<1>3. Len(attempts) <= Len(attempts') /\ (status' \in {"pending", "failed"} => attempts' = attempts)
  BY <1>0, <1>2, AttemptAppended DEF AttemptStatus
<1>4. work'[d].phase \in {"idle", "unknown"}
  <2>1. CASE Done(d)
    BY <2>1, <1>0, DoneMoves
  <2>2. CASE Turn(d, "unknown")
    BY <2>2, <1>0 DEF Turn, Work
  <2>3. QED
    BY <2>1, <2>2 DEF RecordDelivery, BeginAnswerLost
<1>5. \A e \in Dispatcher : e # d => work'[e] = work[e]
  BY <1>0, OthersKeep DEF Dispatch
<1>6. NewestInv'
  <2>1. CASE status' # "sending"
    BY <2>1 DEF NewestInv
  <2>2. CASE Holds(d)
    BY <2>2, <1>1, <1>4, <1>5 DEF NewestInv, Holds
  <2>3. CASE UNCHANGED <<status, attempts>>
    BY <2>3, <1>1, <1>4, <1>5, NewestKept DEF BudgetInv, Holds
  <2>4. QED
    BY <2>1, <2>2, <2>3, <1>2
<1>7. Begun' \subseteq Begun
  BY <1>4, <1>5 DEF Begun
<1>8. /\ status' = "pending" => status = "pending"
      /\ status' = "failed" /\ ~outbox'.published => Len(attempts') < MaxAttempts
  BY <1>1, <1>2, <1>3 DEF BudgetInv
<1>9. QED
  BY <1>1, <1>3, <1>6, <1>7, <1>8, BudgetKept

\* begin_delivery opens an attempt, for the holder of the row alone, and only while
\* the reply has a call left.
LEMMA BudgetBeginStep ==
    ASSUME LedgerInv, LedgerInv', BudgetInv, NEW d \in Dispatcher, BeginDelivery(d)
    PROVE  BudgetInv'
<1>0. /\ work \in [Dispatcher -> Work] /\ work[d] \in Work
      /\ attempts \in Seq(AttemptStatus) /\ Len(attempts) \in Nat
      /\ provider.calls \in Nat /\ replays.all \in Nat
  BY LenProperties DEF LedgerInv, TypeOK
<1>1. UNCHANGED <<outbox, provider, replays>>
  BY DEF BeginDelivery
<1>2. \A e \in Dispatcher : e # d => work'[e] = work[e]
  BY <1>0, OthersKeep DEF Dispatch
<1>3. CASE /\ Holds(d) /\ MayBegin /\ BeginAttempt
           /\ work' = [work EXCEPT ![d].phase = "begun", ![d].attempt = Len(attempts) + 1]
  <2>1. /\ attempts' = Append(attempts, "sending") /\ status' = "sending"
        /\ status \in {"pending", "failed"} /\ ~outbox.published /\ outbox.by = d
    BY <1>3 DEF BeginAttempt, MayBegin, Holds
  <2>2. Len(attempts') = Len(attempts) + 1
    BY <1>0, <2>1, AttemptAppended DEF AttemptStatus
  <2>3. work'[d].attempt = Len(attempts) + 1
    BY <1>0, <1>3 DEF Work
  <2>4. NewestInv'
    BY <1>1, <1>2, <2>1, <2>2, <2>3 DEF NewestInv, Holds
  <2>5. Cardinality(Begun') <= Cardinality(Begun) + 1
    <3>1. Begun' \subseteq Begun \cup {d}
      BY <1>2 DEF Begun
    <3>2. QED
      BY <3>1, BegunGrows
  <2>6. provider.calls + Cardinality(Begun) < MaxAttempts + replays.all
    BY <1>0, <2>1, BegunCounted, DeliveryAssumption, SMTT(20) DEF BudgetInv, Called
  <2>7. Called(Len(attempts))
    BY DEF BudgetInv
  <2>8. Called(Len(attempts))' /\ Called(MaxAttempts + replays.all)'
    BY <1>0, <1>1, <2>2, <2>5, <2>6, <2>7, BegunCounted, DeliveryAssumption DEF Called
  <2>9. QED
    BY <2>1, <2>4, <2>8 DEF BudgetInv
<1>4. CASE /\ UNCHANGED <<status, attempts>>
           /\ \/ work' = [work EXCEPT ![d].phase = "progress", ![d].attempt = Len(attempts)]
              \/ Done(d)
  <2>1. \/ work'[d].phase = "progress" /\ work'[d].attempt = Len(attempts)
        \/ work'[d].phase = "idle"
    <3>1. CASE work' = [work EXCEPT ![d].phase = "progress", ![d].attempt = Len(attempts)]
      BY <3>1, <1>0 DEF Work
    <3>2. CASE Done(d)
      BY <3>2, <1>0, DoneMoves
    <3>3. QED
      BY <3>1, <3>2, <1>4
  <2>2. NewestInv'
    BY <1>1, <1>2, <1>4, <2>1 DEF BudgetInv, NewestInv, Holds
  <2>3. Begun' \subseteq Begun
    BY <1>2, <2>1 DEF Begun
  <2>4. QED
    BY <1>0, <1>1, <1>4, <2>2, <2>3, BudgetKept DEF BudgetInv
<1>5. QED
  BY <1>3, <1>4, ZenonT(40) DEF BeginDelivery

\* The call of the provider was already counted when it was begun.
LEMMA BudgetSendStep ==
    ASSUME LedgerInv, LedgerInv', BudgetInv, NEW d \in Dispatcher, Send(d)
    PROVE  BudgetInv'
<1>0. /\ work \in [Dispatcher -> Work] /\ work[d] \in Work /\ provider.calls \in Nat
      /\ work[d].phase = "begun" /\ d \in Begun
  BY DEF LedgerInv, TypeOK, Send, Begun
<1>1. UNCHANGED <<outbox, status, attempts, replays>>
  BY DEF Send, rows
<1>2. PICK r \in Receipt : work' = [work EXCEPT ![d].phase = "answered", ![d].receipt = r]
  BY ZenonT(40) DEF Send
<1>3. provider'.calls = provider.calls + 1
  BY DEF Send
<1>4. /\ work'[d].phase = "answered" /\ work'[d].attempt = work[d].attempt
      /\ work'[d].id = work[d].id
  BY <1>0, <1>2 DEF Work
<1>5. \A e \in Dispatcher : e # d => work'[e] = work[e]
  BY <1>0, OthersKeep DEF Dispatch
<1>6. NewestInv'
  BY <1>0, <1>1, <1>4, <1>5, NewestKept DEF BudgetInv, Holds
<1>7. Cardinality(Begun') = Cardinality(Begun) - 1
  <2>1. Begun' = Begun \ {d}
    BY <1>4, <1>5 DEF Begun
  <2>2. QED
    BY <2>1, <1>0, BegunCalled, ZenonT(40)
<1>8. provider'.calls + Cardinality(Begun') = provider.calls + Cardinality(Begun)
  BY <1>0, <1>3, <1>7, BegunCounted
<1>9. QED
  BY <1>1, <1>6, <1>8 DEF BudgetInv, Called

\* A claim lapses, a retry falls due, or the administrator replays the reply, which
\* pays for one more call.
LEMMA BudgetOtherStep ==
    ASSUME LedgerInv, LedgerInv', BudgetInv,
           ClaimExpires \/ RetryDue \/ UNCHANGED vars \/ ReplayOutbound
    PROVE  BudgetInv'
<1>0. /\ outbox \in OutboxRow /\ Len(attempts) \in Nat
      /\ provider.calls \in Nat /\ replays.all \in Nat
  BY LenProperties DEF LedgerInv, TypeOK
<1>1. UNCHANGED <<attempts, work, provider>> /\ Begun' = Begun
  BY ZenonT(40) DEF ClaimExpires, RetryDue, ReplayOutbound, vars, rows, Begun
<1>2. CASE ReplayOutbound
  <2>1. status' = "pending" /\ replays'.all = replays.all + 1
    BY <1>2 DEF ReplayOutbound
  <2>2. NewestInv'
    BY <2>1 DEF NewestInv
  <2>3. Called(MaxAttempts + replays.all) /\ Called(Len(attempts))
    BY DEF BudgetInv
  <2>4. provider.calls + Cardinality(Begun) < MaxAttempts + replays'.all
    BY <1>0, <2>1, <2>3, BegunCounted, DeliveryAssumption DEF Called
  <2>5. Called(MaxAttempts + replays.all)' /\ Called(Len(attempts))'
    BY <1>0, <1>1, <2>1, <2>3, <2>4, BegunCounted, DeliveryAssumption DEF Called
  <2>6. QED
    BY <1>1, <2>1, <2>2, <2>4, <2>5 DEF BudgetInv
<1>3. CASE ClaimExpires \/ RetryDue \/ UNCHANGED vars
  <2>1. UNCHANGED <<status, replays>>
    BY <1>3, ZenonT(40) DEF ClaimExpires, RetryDue, vars, rows
  <2>2. outbox'.id = outbox.id /\ outbox'.by = outbox.by /\ outbox'.published = outbox.published
    BY <1>0, <1>3, ZenonT(40) DEF ClaimExpires, RetryDue, vars, rows, OutboxRow
  <2>3. NewestInv'
    BY <1>1, <2>1, <2>2, NewestKept DEF BudgetInv, Holds
  <2>4. QED
    BY <1>0, <1>1, <2>1, <2>2, <2>3, BudgetKept DEF BudgetInv
<1>4. QED
  BY <1>2, <1>3

\* Every step keeps the budget.
LEMMA BudgetStep == LedgerInv /\ LedgerInv' /\ BudgetInv /\ [Next]_vars => BudgetInv'
<1> SUFFICES ASSUME LedgerInv, LedgerInv', BudgetInv, [Next]_vars PROVE BudgetInv'
  OBVIOUS
<1>1. ASSUME NEW d \in Dispatcher, Dispatch(d) PROVE BudgetInv'
  BY <1>1, BudgetRowStep, BudgetFinishStep, BudgetAddedStep, BudgetBeginStep, BudgetSendStep,
     ZenonT(40) DEF Dispatch
<1>2. QED
  BY <1>1, BudgetOtherStep, ZenonT(40) DEF Next, Poll

\* The budget invariant holds in every behaviour of the dispatchers.
THEOREM BudgetInvariance == Spec => []BudgetInv
<1>1. Init => BudgetInv
  <2> SUFFICES ASSUME Init PROVE BudgetInv
    OBVIOUS
  <2>1. Cardinality(Begun) = 0
    <3>1. Begun = {}
      BY ZenonT(40) DEF Init, Begun, IdleWork
    <3>2. QED
      BY <3>1, FS_EmptySet
  <2>2. NewestInv
    BY DEF Init, NewestInv
  <2>3. QED
    BY <2>1, <2>2, DeliveryAssumption DEF Init, BudgetInv, Called
<1>2. LedgerInv /\ LedgerInv' /\ BudgetInv /\ [Next]_vars => BudgetInv'
  BY BudgetStep
<1>3. QED
  BY <1>1, <1>2, LedgerInvariance, PTL DEF Spec

\* The provider is called at most max_attempts times and once more per replay,
\* however many dispatchers compete for the reply and whatever they lose on the way.
THEOREM WithinBudget == Spec => []CallsWithinBudget
<1>1. LedgerInv /\ BudgetInv => CallsWithinBudget
  <2> SUFFICES ASSUME LedgerInv, BudgetInv PROVE CallsWithinBudget
    OBVIOUS
  <2>1. provider.calls \in Nat /\ replays.all \in Nat
    BY DEF LedgerInv, TypeOK
  <2>2. QED
    BY <2>1, BegunCounted, DeliveryAssumption DEF BudgetInv, Called, CallsWithinBudget
<1>2. QED
  BY <1>1, LedgerInvariance, BudgetInvariance, PTL

\* finish_delivery settles an attempt only if it is the newest one: an answer that
\* comes late never touches the reply while a newer attempt is being sent.
THEOREM LateAnswerIsFenced == Spec => LateAnswerFenced
<1>1. LedgerInv /\ BudgetInv /\ [Next]_vars => [LateAnswer]_vars
  <2> SUFFICES ASSUME LedgerInv, BudgetInv, Next PROVE LateAnswer
    BY DEF LateAnswer, vars, rows
  <2>0. /\ attempts \in Seq(AttemptStatus) /\ Len(attempts) \in Nat
        /\ work \in [Dispatcher -> Work]
    BY LenProperties DEF LedgerInv, TypeOK
  <2>1. \/ attempts' = attempts
        \/ \E v \in AttemptStatus : attempts' = Append(attempts, v)
        \/ \E d \in Dispatcher, r \in Receipt :
              /\ work[d].phase \in {"answered", "progress"} /\ MayFinish(d) /\ Settle(d, r)
    <3>1. ASSUME NEW d \in Dispatcher, Dispatch(d)
          PROVE  \/ attempts' = attempts
                 \/ \E v \in AttemptStatus : attempts' = Append(attempts, v)
                 \/ \E r \in Receipt :
                       /\ work[d].phase \in {"answered", "progress"} /\ MayFinish(d)
                       /\ Settle(d, r)
      <4>1. CASE FinishDelivery(d)
        <5>1. work[d].receipt \in Receipt
          BY <2>0 DEF Work
        <5>2. QED
          BY <4>1, <5>1, ZenonT(40) DEF FinishDelivery
      <4>2. CASE ResolveInProgress(d)
        <5>1. "ambiguous" \in Receipt
          BY DEF Receipt
        <5>2. QED
          BY <4>2, <5>1, ZenonT(40) DEF ResolveInProgress
      <4>3. CASE BeginDelivery(d) \/ BeginAnswerLost(d) \/ RecordDelivery(d)
        <5>1. "sending" \in AttemptStatus /\ "ambiguous" \in AttemptStatus
          BY DEF AttemptStatus
        <5>2. QED
          BY <4>3, <5>1, ZenonT(40) DEF BeginDelivery, BeginAnswerLost, RecordDelivery, BeginAttempt
      <4>4. CASE \/ ClaimOutbox(d) \/ Drain(d) \/ Quarantine(d) \/ NoRoute(d) \/ Standby(d)
                 \/ RouteFails(d) \/ Send(d) \/ DeadLetterUnknown(d) \/ Abandon(d)
        BY <4>4, ZenonT(40) DEF ClaimOutbox, Drain, Quarantine, NoRoute, Standby, RouteFails, Send,
                                DeadLetterUnknown, Abandon, rows
      <4>5. QED
        BY <3>1, <4>1, <4>2, <4>3, <4>4, ZenonT(40) DEF Dispatch
    <3>2. QED
      BY <3>1, ZenonT(40) DEF Next, ClaimExpires, RetryDue, ReplayOutbound, Poll, vars, rows
  <2>2. CASE attempts' = attempts
    BY <2>2 DEF LateAnswer
  <2>3. ASSUME NEW v \in AttemptStatus, attempts' = Append(attempts, v) PROVE LateAnswer
    BY <2>0, <2>3, AttemptAppended DEF LateAnswer
  <2>4. ASSUME NEW d \in Dispatcher, NEW r \in Receipt, work[d].phase \in {"answered", "progress"},
               MayFinish(d), Settle(d, r)
        PROVE  LateAnswer
    <3>1. work[d].attempt = Len(attempts)
      BY <2>4 DEF BudgetInv, NewestInv, MayFinish
    <3>2. \A n \in 1 .. Len(attempts) : n # Len(attempts) => attempts'[n] = attempts[n]
      BY <2>0, <2>4, <3>1, LenProperties DEF Settle
    <3>3. QED
      BY <2>0, <3>2 DEF LateAnswer
  <2>5. QED
    BY <2>1, <2>2, <2>3, <2>4
<1>2. QED
  BY <1>1, LedgerInvariance, BudgetInvariance, PTL DEF Spec, LateAnswerFenced

===============================================================================
