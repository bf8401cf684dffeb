------------------------ MODULE SessionMailboxProofs ------------------------
(***************************************************************************)
(* Theorems about SessionMailbox for every set of messages, slots and      *)
(* workers and every bound: the inductive invariant, the safety properties *)
(* that follow from it, the action property, and that SessionMailbox       *)
(* implements OrderedInbox.                                                *)
(*                                                                         *)
(* First come facts about the rows and the head of the queue, then one     *)
(* lemma per action: the steps that accept messages, claim the session,    *)
(* renew its lease or let time pass, and those that take it out of RUNNING.*)
(***************************************************************************)
EXTENDS SessionMailbox, TLAPS

-----------------------------------------------------------------------------
(* Rows *)

\* The columns of a mailbox row have their types.
LEMMA MailboxFields ==
    ASSUME mailbox \in MailboxRow
    PROVE  /\ mailbox.status \in Status
           /\ mailbox.accepted \in Nat /\ mailbox.resolved \in Nat
           /\ mailbox.processing \in Nat /\ mailbox.generation \in Nat
           /\ mailbox.epoch \in Nat
           /\ mailbox.lease \in LeaseState /\ mailbox.retry \in RetryState
           /\ mailbox.owner \in Worker \cup {None}
BY SMTT(40) DEF MailboxRow

\* A released mailbox row is a mailbox row, and these are its columns.
LEMMA ReleasedRow ==
    ASSUME mailbox \in MailboxRow, NEW r \in Nat, NEW st \in Status, NEW b \in Nat
    PROVE  LET x == Released(r, st, b)
           IN  /\ x \in MailboxRow
               /\ x.status = st /\ x.resolved = r /\ x.processing = 0
               /\ x.accepted = mailbox.accepted
               /\ x.owner = None /\ x.lease = "null" /\ x.epoch = mailbox.epoch
               /\ x.retry = IF st = "RETRY_WAIT" THEN "waiting" ELSE "null"
               /\ x.generation = mailbox.generation + b
<1>1. (IF st = "RETRY_WAIT" THEN "waiting" ELSE "null") \in RetryState
      BY DEF RetryState
<1>2. mailbox.generation + b \in Nat
      BY DEF MailboxRow
<1>3. "null" \in LeaseState
      BY DEF LeaseState
<1> QED BY <1>1, <1>2, <1>3, ZenonT(40) DEF Released, MailboxRow

\* The status a release decides on is one of the four of session_mailboxes.
LEMMA StatusAtType ==
    ASSUME NEW k PROVE StatusAt(k) \in Status
BY DEF StatusAt, Status

\* What Advance does to the mailbox row and to the wake-ups.
LEMMA AdvanceRow ==
    ASSUME TypeOK, NEW r \in Nat, Advance(r)
    PROVE  /\ mailbox' \in MailboxRow
           /\ mailbox'.status = StatusAt(r + 1)
           /\ mailbox'.resolved = r /\ mailbox'.processing = 0
           /\ mailbox'.accepted = mailbox.accepted
           /\ mailbox'.owner = None /\ mailbox'.lease = "null"
           /\ mailbox'.epoch = mailbox.epoch
           /\ mailbox'.retry = IF mailbox'.status = "RETRY_WAIT" THEN "waiting" ELSE "null"
           /\ mailbox'.generation >= mailbox.generation
           /\ ready' \subseteq Nat
           /\ mailbox'.status = "QUEUED" => mailbox'.generation \in ready'
<1> DEFINE st == StatusAt(r + 1)
<1>1. st \in Status
      BY StatusAtType
<1>2. Bump(st) \in {0, 1}
      BY DEF Bump
<1>3. mailbox' = Released(r, st, Bump(st)) /\ ready' = EmitReady(mailbox')
      BY DEF Advance
<1>4. mailbox \in MailboxRow /\ ready \subseteq Nat
      BY DEF TypeOK
<1> HIDE DEF st
<1>5. /\ mailbox' \in MailboxRow
      /\ mailbox'.status = st /\ mailbox'.resolved = r /\ mailbox'.processing = 0
      /\ mailbox'.accepted = mailbox.accepted
      /\ mailbox'.owner = None /\ mailbox'.lease = "null"
      /\ mailbox'.epoch = mailbox.epoch
      /\ mailbox'.retry = IF st = "RETRY_WAIT" THEN "waiting" ELSE "null"
      /\ mailbox'.generation = mailbox.generation + Bump(st)
      BY <1>1, <1>2, <1>3, <1>4, ReleasedRow
<1>6. mailbox.generation \in Nat
      BY <1>4, MailboxFields
<1>7. ready' \subseteq Nat /\ (mailbox'.status = "QUEUED" => mailbox'.generation \in ready')
      <2>1. mailbox'.generation \in Nat
            BY <1>2, <1>5, <1>6
      <2>2. ready' = ready \cup (IF mailbox'.status = "QUEUED" THEN {mailbox'.generation} ELSE {})
            BY <1>3 DEF EmitReady
      <2> QED BY <2>1, <2>2, <1>4, ZenonT(40)
<1> QED BY <1>2, <1>5, <1>6, <1>7 DEF st

\* The order of the log is about the resolved prefix of the queue only.
LEMMA OrderedFrame ==
    ASSUME OrderedExactlyOnce, log' = log, mailbox'.resolved = mailbox.resolved,
           \A k \in 1 .. mailbox.resolved :
              queue'[k] = queue[k] /\ inbound'[queue[k]] = inbound[queue[k]]
    PROVE  OrderedExactlyOnce'
<1> DEFINE R == 1 .. mailbox.resolved
           L == 1 .. Len(log)
<1>1. /\ \A k \in R : inbound[queue[k]] = "committed" => \E i \in L : log[i] = queue[k]
      /\ \A i \in L : \E k \in R : queue[k] = log[i] /\ inbound[queue[k]] = "committed"
      /\ \A i, j \in L : \A k, l \in R :
            i < j /\ queue[k] = log[i] /\ queue[l] = log[j] => k < l
      BY ZenonT(40) DEF OrderedExactlyOnce
<1>2. \A k \in R : queue'[k] = queue[k] /\ inbound'[queue[k]] = inbound[queue[k]]
      OBVIOUS
<1>3. 1 .. mailbox'.resolved = R /\ 1 .. Len(log') = L
      OBVIOUS
<1> HIDE DEF R, L
<1>4. \A k \in R : inbound'[queue'[k]] = "committed" => \E i \in L : log'[i] = queue'[k]
      BY <1>1, <1>2
<1>5. \A i \in L : \E k \in R : queue'[k] = log'[i] /\ inbound'[queue'[k]] = "committed"
      BY <1>1, <1>2
<1>6. \A i, j \in L : \A k, l \in R :
         i < j /\ queue'[k] = log'[i] /\ queue'[l] = log'[j] => k < l
      BY <1>1, <1>2
<1> QED BY <1>3, <1>4, <1>5, <1>6, SMTT(40) DEF OrderedExactlyOnce

\* What the items promise is about the queue, the messages and the two sequences.
LEMMA ItemsFrame ==
    ASSUME ItemsInv, queue' = queue, inbound' = inbound, turn' = turn,
           mailbox'.accepted = mailbox.accepted, mailbox'.resolved = mailbox.resolved
    PROVE  ItemsInv'
BY SMTT(40) DEF ItemsInv

\* A transaction that resolves or moves messages of the queue without adding one
\* keeps what the items promise if it keeps it about the statuses.
LEMMA ItemsMoved ==
    ASSUME ItemsInv, queue' = queue, mailbox'.accepted = mailbox.accepted,
           \A x \in Msg : inbound'[x] = "none" <=> inbound[x] = "none",
           \A x \in Msg : turn'[x].status = "committed" /\ inbound'[x] = "none" =>
                             turn[x].status = "committed",
           \A i \in 1 .. Len(queue) :
              IF i <= mailbox'.resolved
                THEN inbound'[queue[i]] \in {"committed", "failed"}
                ELSE /\ inbound'[queue[i]] \in {"accepted", "processing"}
                     /\ turn'[queue[i]].status # "committed"
    PROVE  ItemsInv'
<1>1. /\ mailbox.accepted = Len(queue)
      /\ \A i, j \in 1 .. Len(queue) : queue[i] = queue[j] => i = j
      /\ \A x \in Msg : inbound[x] = "none" <=> \A i \in 1 .. Len(queue) : queue[i] # x
      /\ \A x \in Msg : inbound[x] = "none" => turn[x].status # "committed"
      BY ZenonT(40) DEF ItemsInv
<1>2. \A x \in Msg : inbound'[x] = "none" => turn'[x].status # "committed"
      BY <1>1, ZenonT(40)
<1>3. \A x \in Msg : inbound'[x] = "none" <=> \A i \in 1 .. Len(queue) : queue[i] # x
      BY <1>1, ZenonT(40)
<1> QED BY <1>1, <1>2, <1>3, SMTT(40) DEF ItemsInv

\* What the tokens promise is about the slots, the lease and the history.
LEMMA TokenFrame ==
    ASSUME TokenInv, UNCHANGED <<queue, attempt, log, slot>>,
           mailbox'.epoch = mailbox.epoch, mailbox'.status = mailbox.status,
           mailbox'.processing = mailbox.processing
    PROVE  TokenInv'
BY SMTT(40) DEF TokenInv

\* A transaction that changes only slots or counters keeps what the rows promise.
LEMMA RowsFrame ==
    ASSUME RowConstraints, NoForgottenWork, ItemsInv, RetryInv, LeaseInv,
           OrderedExactlyOnce, GivenUpAfterBudget,
           UNCHANGED <<mailbox, session, queue, itemRetry, attempt, inbound, turn, log, ready>>
    PROVE  /\ RowConstraints' /\ NoForgottenWork' /\ ItemsInv' /\ RetryInv' /\ LeaseInv'
           /\ OrderedExactlyOnce' /\ GivenUpAfterBudget'
<1>1. RowConstraints'
      BY SMTT(40) DEF RowConstraints
<1>2. NoForgottenWork'
      BY SMTT(40) DEF NoForgottenWork
<1>3. ItemsInv'
      BY ItemsFrame, ZenonT(40)
<1>4. RetryInv'
      BY ZenonT(40) DEF RetryInv
<1>5. LeaseInv'
      BY SMTT(40) DEF LeaseInv
<1>6. OrderedExactlyOnce'
      BY OrderedFrame, ZenonT(40)
<1>7. GivenUpAfterBudget'
      BY ZenonT(40) DEF GivenUpAfterBudget
<1> QED BY <1>1, <1>2, <1>3, <1>4, <1>5, <1>6, <1>7

-----------------------------------------------------------------------------
(* The head of the queue *)

\* The item a claim or a recovery function looks at is the first unresolved
\* one; its message is neither committed nor given up.
LEMMA HeadFacts ==
    ASSUME IndInv
    PROVE  /\ HeadSeq = mailbox.resolved + 1
           /\ HeadSeq <= mailbox.accepted =>
                 /\ HeadSeq \in 1 .. Len(queue) /\ HeadMsg \in Msg
                 /\ inbound[HeadMsg] \in {"accepted", "processing"}
                 /\ turn[HeadMsg].status # "committed"
                 /\ \A k \in 1 .. mailbox.resolved : queue[k] # HeadMsg
<1> USE DEF IndInv
<1>1. /\ mailbox.resolved \in Nat /\ mailbox.accepted \in Nat /\ mailbox.processing \in Nat
      /\ queue \in Seq(Msg) /\ Len(queue) \in Nat
      BY MailboxFields DEF TypeOK
<1>2. HeadSeq = mailbox.resolved + 1
      BY DEF HeadSeq, RowConstraints, LeaseInv
<1>3. ASSUME HeadSeq <= mailbox.accepted
      PROVE  /\ HeadSeq \in 1 .. Len(queue) /\ HeadMsg \in Msg
             /\ inbound[HeadMsg] \in {"accepted", "processing"}
             /\ turn[HeadMsg].status # "committed"
             /\ \A k \in 1 .. mailbox.resolved : queue[k] # HeadMsg
      <2>1. HeadSeq \in 1 .. Len(queue) /\ mailbox.accepted = Len(queue)
            BY <1>1, <1>2, <1>3 DEF ItemsInv
      <2>2. HeadMsg = queue[HeadSeq] /\ HeadMsg \in Msg
            BY <1>1, <2>1 DEF HeadMsg
      <2>3. inbound[HeadMsg] \in {"accepted", "processing"} /\ turn[HeadMsg].status # "committed"
            BY <1>1, <1>2, <2>1, <2>2 DEF ItemsInv
      <2>4. ASSUME NEW k \in 1 .. mailbox.resolved PROVE queue[k] # HeadMsg
            <3>1. k \in 1 .. Len(queue) /\ k # HeadSeq
                  BY <1>1, <1>2, <1>3, <2>1
            <3> QED BY <3>1, <2>1, <2>2 DEF ItemsInv
      <2> QED BY <2>1, <2>2, <2>3, <2>4
<1> QED BY <1>2, <1>3

\* The committed-head repairs of the claim and of the reconciler are defensive:
\* no sequence of v2 transactions leaves a committed message unresolved.
LEMMA ClaimOutcomeFacts ==
    ASSUME IndInv, NEW g
    PROVE  /\ ClaimOutcome(g) # "REPAIRED"
           /\ ClaimOutcome(g) \in {"CLAIMED", "DEFERRED"} =>
                 HeadSeq <= mailbox.accepted /\ mailbox.lease # "live"
           /\ ClaimOutcome(g) = "CLAIMED" =>
                 itemRetry[HeadMsg] # "waiting" /\ session.lease # "live"
           /\ ClaimOutcome(g) = "DEFERRED" => itemRetry[HeadMsg] = "waiting"
<1>1. HeadSeq \in Nat /\ mailbox.accepted \in Nat
      BY MailboxFields, HeadFacts DEF IndInv, TypeOK
<1>2. HeadSeq > mailbox.accepted <=> ~(HeadSeq <= mailbox.accepted)
      BY <1>1
<1> QED BY <1>2, HeadFacts, SMTT(40) DEF ClaimOutcome

-----------------------------------------------------------------------------
(* What a released row asks for *)

\* A released sessions row is a sessions row and keeps its epoch.
LEMMA ReleasedSessionRow ==
    ASSUME session \in SessionRow
    PROVE  /\ ReleasedSession \in SessionRow /\ ReleasedSession.epoch = session.epoch
           /\ ReleasedSession.lease = "null"
BY ZenonT(40) DEF ReleasedSession, SessionRow, LeaseState

\* StatusAt of the first unresolved item, spelled out.
LEMMA StatusAtHead ==
    ASSUME IndInv
    PROVE  /\ StatusAt(mailbox.resolved + 1) \in {"IDLE", "QUEUED", "RETRY_WAIT"}
           /\ StatusAt(mailbox.resolved + 1) = "IDLE" <=> mailbox.accepted = mailbox.resolved
           /\ StatusAt(mailbox.resolved + 1) = "QUEUED" =>
                 itemRetry[queue[mailbox.resolved + 1]] # "waiting"
<1>1. mailbox.resolved \in Nat /\ mailbox.accepted \in Nat /\ mailbox.resolved <= mailbox.accepted
      BY MailboxFields DEF IndInv, TypeOK, RowConstraints
<1> QED BY <1>1 DEF StatusAt

-----------------------------------------------------------------------------
(* The initial states *)

\* A session without a message satisfies the inductive invariant.
LEMMA InitInv == Init => IndInv
<1> SUFFICES ASSUME Init PROVE IndInv
    OBVIOUS
<1>1. TypeOK
      BY BoundAssumption DEF Init, TypeOK, MailboxRow, SessionRow, SlotState, IdleSlot,
         LeaseState, RetryState, Status
<1>2. RowConstraints /\ NoForgottenWork /\ RetryInv /\ LeaseInv
      BY DEF Init, RowConstraints, NoForgottenWork, RetryInv, LeaseInv
<1>3. ItemsInv
      BY DEF Init, ItemsInv
<1>4. TokenInv
      BY DEF Init, TokenInv, IdleSlot
<1>5. OrderedExactlyOnce /\ GivenUpAfterBudget
      BY DEF Init, OrderedExactlyOnce, GivenUpAfterBudget
<1> QED BY <1>1, <1>2, <1>3, <1>4, <1>5, SMTT(40) DEF IndInv

-----------------------------------------------------------------------------
(* Steps that change no row *)

\* Slots that go idle, or that go on with the same claim.
LEMMA SlotStep ==
    ASSUME IndInv, NEW s \in Slot,
           ReadSnapshot(s) \/ FencingConflict(s) \/ Crash(s)
    PROVE  IndInv'
<1> USE DEF IndInv
<1>1. UNCHANGED rows /\ faults' \in Nat
      BY DEF ReadSnapshot, FencingConflict, Crash, TypeOK
<1>2. slot \in [Slot -> SlotState] /\ slot[s] \in SlotState /\ Len(log) \in Nat
      BY DEF TypeOK
<1>3. \/ /\ slot' = [slot EXCEPT ![s] = [slot[s] EXCEPT !.phase = "read", !.base = Len(log)]]
         /\ slot[s].phase = "claimed"
      \/ slot' = [slot EXCEPT ![s] = IdleSlot]
      BY ZenonT(40) DEF ReadSnapshot, FencingConflict, Crash
<1>4. slot' \in [Slot -> SlotState]
      <2>1. [slot[s] EXCEPT !.phase = "read", !.base = Len(log)] \in SlotState
            BY <1>2, ZenonT(40) DEF SlotState
      <2>2. IdleSlot \in SlotState
            BY DEF IdleSlot, SlotState
      <2> QED BY <2>1, <2>2, <1>2, <1>3
<1>5. TypeOK'
      BY <1>1, <1>4, SMTT(40) DEF TypeOK, rows
<1>6. TokenInv'
      <2>1. /\ slot'[s].phase # "idle" =>
                  /\ slot[s].phase # "idle" /\ slot'[s].base = Len(log)
                  /\ slot'[s].msg = slot[s].msg /\ slot'[s].token = slot[s].token
                  /\ slot'[s].attempt = slot[s].attempt
            /\ \A t \in Slot \ {s} : slot'[t] = slot[t]
            <3>1. \A t \in Slot \ {s} : slot'[t] = slot[t]
                  BY <1>2, <1>3
            <3>2. CASE slot' = [slot EXCEPT ![s] = IdleSlot]
                  BY <3>1, <3>2, <1>2 DEF IdleSlot
            <3>3. CASE /\ slot' = [slot EXCEPT ![s] =
                                      [slot[s] EXCEPT !.phase = "read", !.base = Len(log)]]
                       /\ slot[s].phase = "claimed"
                  <4>1. slot'[s] = [slot[s] EXCEPT !.phase = "read", !.base = Len(log)]
                        BY <3>3, <1>2, SMTT(40)
                  <4> QED BY <4>1, <3>1, <3>3, <1>2 DEF SlotState
            <3> QED BY <3>2, <3>3, <1>3
      <2> QED BY <2>1, <1>1 DEF TokenInv, rows
<1>7. /\ RowConstraints' /\ NoForgottenWork' /\ ItemsInv' /\ RetryInv' /\ LeaseInv'
      /\ OrderedExactlyOnce' /\ GivenUpAfterBudget'
      BY <1>1, RowsFrame, ZenonT(40) DEF rows
<1> QED BY <1>5, <1>6, <1>7

\* A confirmed lease changes no row either: both leases were live already.
LEMMA RenewStep ==
    ASSUME IndInv, NEW s \in Slot, RenewSessionReady(s)
    PROVE  IndInv'
<1> USE DEF IndInv
<1>1. mailbox' = mailbox /\ session' = session
      <2>1. mailbox.lease = "live" /\ session.lease = "live"
            BY DEF RenewSessionReady, Owns
      <2>2. mailbox \in MailboxRow /\ session \in SessionRow
            BY DEF TypeOK
      <2>3. /\ mailbox' = [mailbox EXCEPT !.lease = "live"]
            /\ session' = [session EXCEPT !.lease = "live"]
            BY DEF RenewSessionReady
      <2> QED BY <2>1, <2>2, <2>3 DEF MailboxRow, SessionRow
<1>2. UNCHANGED rows /\ faults' = faults
      BY <1>1 DEF RenewSessionReady, rows
<1>3. slot \in [Slot -> SlotState] /\ slot[s] \in SlotState
      BY DEF TypeOK
<1>4. /\ slot' = [slot EXCEPT ![s] = [slot[s] EXCEPT !.phase = "hydrated"]]
      /\ slot[s].phase \in {"read", "hydrated"}
      BY DEF RenewSessionReady
<1>5. /\ slot'[s] = [slot[s] EXCEPT !.phase = "hydrated"]
      /\ \A t \in Slot \ {s} : slot'[t] = slot[t]
      BY <1>3, <1>4
<1>6. slot' \in [Slot -> SlotState]
      <2>1. [slot[s] EXCEPT !.phase = "hydrated"] \in SlotState
            BY <1>3 DEF SlotState
      <2> QED BY <2>1, <1>3, <1>4
<1>7. TypeOK'
      BY <1>2, <1>6, SMTT(40) DEF TypeOK, rows
<1>8. TokenInv'
      <2>1. /\ slot'[s].base = slot[s].base /\ slot'[s].msg = slot[s].msg
            /\ slot'[s].token = slot[s].token /\ slot'[s].attempt = slot[s].attempt
            BY <1>5, <1>3 DEF SlotState
      <2>2. slot[s].phase # "idle" /\ slot[s].phase # "claimed"
            BY <1>4
      <2>3. \A t \in Slot :
               /\ slot'[t].base = slot[t].base /\ slot'[t].msg = slot[t].msg
               /\ slot'[t].token = slot[t].token /\ slot'[t].attempt = slot[t].attempt
               /\ slot'[t].phase = "idle" <=> slot[t].phase = "idle"
               /\ slot'[t].phase = "claimed" => slot[t].phase = "claimed"
            <3>1. slot'[s].phase = "hydrated"
                  BY <1>5, <1>3 DEF SlotState
            <3> QED BY <3>1, <2>1, <2>2, <1>5, ZenonT(40)
      <2>4. mailbox' = mailbox /\ queue' = queue /\ attempt' = attempt /\ log' = log
            BY <1>2 DEF rows
      <2>5. TokenInv
            OBVIOUS
      <2> HIDE DEF IndInv
      <2>6. \A t \in Slot : slot'[t].phase # "idle" =>
               /\ slot'[t].token <= mailbox.epoch
               /\ slot'[t].token = mailbox.epoch /\ mailbox.status = "RUNNING" =>
                     /\ slot'[t].msg = queue[mailbox.processing]
                     /\ slot'[t].attempt = attempt[slot'[t].msg]
                     /\ slot'[t].phase # "claimed" => slot'[t].base = Len(log)
            BY <2>2, <2>3, <2>5, <1>5, SMTT(40) DEF TokenInv
      <2> QED BY <2>3, <2>4, <2>5, <2>6 DEF TokenInv
<1>9. /\ RowConstraints' /\ NoForgottenWork' /\ ItemsInv' /\ RetryInv' /\ LeaseInv'
      /\ OrderedExactlyOnce' /\ GivenUpAfterBudget'
      BY <1>2, RowsFrame, ZenonT(40) DEF rows
<1> QED BY <1>7, <1>8, <1>9

-----------------------------------------------------------------------------
(* Time *)

\* Either of the two leases may run out first, whoever holds them.
LEMMA LeaseExpiryStep ==
    ASSUME IndInv, MailboxLeaseExpires \/ SessionLeaseExpires
    PROVE  IndInv'
<1> USE DEF IndInv
<1>1. mailbox \in MailboxRow /\ session \in SessionRow /\ faults \in Nat
      BY DEF TypeOK
<1>2. faults' \in Nat
      BY <1>1 DEF MailboxLeaseExpires, SessionLeaseExpires, LapseCost
<1>3. UNCHANGED <<queue, itemRetry, attempt, inbound, deliveries, turn, log, ready, slot>>
      BY DEF MailboxLeaseExpires, SessionLeaseExpires
<1>4. /\ mailbox' \in MailboxRow /\ session' \in SessionRow
      /\ mailbox'.status = mailbox.status /\ mailbox'.accepted = mailbox.accepted
      /\ mailbox'.resolved = mailbox.resolved /\ mailbox'.processing = mailbox.processing
      /\ mailbox'.generation = mailbox.generation /\ mailbox'.owner = mailbox.owner
      /\ mailbox'.epoch = mailbox.epoch /\ mailbox'.retry = mailbox.retry
      /\ session'.owner = session.owner /\ session'.epoch = session.epoch
      /\ mailbox'.lease = "null" <=> mailbox.lease = "null"
      /\ session'.lease = "null" <=> session.lease = "null"
      /\ session'.lease = "live" => session.lease = "live"
      <2>1. "expired" \in LeaseState
            BY DEF LeaseState
      <2>2. CASE MailboxLeaseExpires
            <3>1. /\ mailbox' = [mailbox EXCEPT !.lease = "expired"]
                  /\ mailbox.lease = "live" /\ session' = session
                  BY <2>2 DEF MailboxLeaseExpires
            <3> QED BY <3>1, <2>1, <1>1 DEF MailboxRow
      <2>3. CASE SessionLeaseExpires
            <3>1. /\ session' = [session EXCEPT !.lease = "expired"]
                  /\ session.lease = "live" /\ mailbox' = mailbox
                  BY <2>3 DEF SessionLeaseExpires
            <3> QED BY <3>1, <2>1, <1>1 DEF SessionRow
      <2> QED BY <2>2, <2>3
<1>5. TypeOK'
      BY <1>2, <1>3, <1>4 DEF TypeOK
<1>6. RowConstraints' /\ NoForgottenWork' /\ RetryInv'
      BY <1>3, <1>4, SMTT(40) DEF RowConstraints, NoForgottenWork, RetryInv
<1>7. ItemsInv' /\ OrderedExactlyOnce' /\ GivenUpAfterBudget'
      <2>1. ItemsInv'
            BY <1>3, <1>4, ItemsFrame, ZenonT(40)
      <2>2. OrderedExactlyOnce'
            BY <1>3, <1>4, OrderedFrame, ZenonT(40)
      <2>3. GivenUpAfterBudget'
            BY <1>3, <1>4, ZenonT(40) DEF GivenUpAfterBudget
      <2> QED BY <2>1, <2>2, <2>3
<1>8. LeaseInv'
      BY <1>3, <1>4, SMTT(40) DEF LeaseInv
<1>9. TokenInv'
      BY <1>3, <1>4, TokenFrame, ZenonT(40)
<1> QED BY <1>5, <1>6, <1>7, <1>8, <1>9

\* Passing of the retry time of the mailbox or of an item breaks nothing.
LEMMA DueStep ==
    ASSUME IndInv, MailboxRetryDue \/ \E m \in Msg : ItemRetryDue(m)
    PROVE  IndInv'
<1> USE DEF IndInv
<1>1. mailbox \in MailboxRow /\ itemRetry \in [Msg -> RetryState] /\ queue \in Seq(Msg)
      BY DEF TypeOK
<1>2. UNCHANGED <<session, queue, attempt, inbound, deliveries, turn, log, ready, slot, faults>>
      BY SMTT(40) DEF MailboxRetryDue, ItemRetryDue
<1>3. /\ mailbox' \in MailboxRow /\ itemRetry' \in [Msg -> RetryState]
      /\ mailbox'.status = mailbox.status /\ mailbox'.accepted = mailbox.accepted
      /\ mailbox'.resolved = mailbox.resolved /\ mailbox'.processing = mailbox.processing
      /\ mailbox'.generation = mailbox.generation /\ mailbox'.owner = mailbox.owner
      /\ mailbox'.epoch = mailbox.epoch /\ mailbox'.lease = mailbox.lease
      /\ mailbox'.retry = "null" <=> mailbox.retry = "null"
      /\ \A m \in Msg : itemRetry'[m] = "waiting" => itemRetry[m] = "waiting"
      /\ mailbox'.retry = "due" => mailbox.retry = "due" \/ itemRetry[HeadMsg] # "waiting"
      <2>1. "due" \in RetryState
            BY DEF RetryState
      <2>2. CASE MailboxRetryDue
            <3>1. /\ mailbox' = [mailbox EXCEPT !.retry = "due"] /\ mailbox.retry = "waiting"
                  /\ itemRetry' = itemRetry /\ itemRetry[HeadMsg] # "waiting"
                  BY <2>2 DEF MailboxRetryDue
            <3> QED BY <3>1, <2>1, <1>1 DEF MailboxRow
      <2>3. CASE \E m \in Msg : ItemRetryDue(m)
            <3>1. PICK m \in Msg : itemRetry' = [itemRetry EXCEPT ![m] = "due"]
                  BY <2>3, ZenonT(40) DEF ItemRetryDue
            <3>2. mailbox' = mailbox
                  BY <2>3, SMTT(40) DEF ItemRetryDue
            <3> QED BY <3>1, <3>2, <2>1, <1>1
      <2> QED BY <2>2, <2>3
<1>4. TypeOK'
      BY <1>2, <1>3, SMTT(40) DEF TypeOK
<1>5. RowConstraints' /\ NoForgottenWork'
      BY <1>2, <1>3, SMTT(40) DEF RowConstraints, NoForgottenWork
<1>6. RetryInv'
      <2>1. SUFFICES ASSUME \/ mailbox.status \in {"QUEUED", "RUNNING"}
                            \/ mailbox'.retry = "due"
                     PROVE  itemRetry[queue[mailbox.resolved + 1]] # "waiting"
            <3>1. \/ mailbox.status \in {"QUEUED", "RUNNING"}
                  \/ mailbox'.retry = "due"
                  => mailbox.resolved + 1 \in 1 .. Len(queue)
                  BY <1>1, <1>3, MailboxFields DEF RowConstraints, NoForgottenWork, ItemsInv, Status
            <3>2. mailbox.resolved + 1 \in 1 .. Len(queue) => queue[mailbox.resolved + 1] \in Msg
                  BY <1>1
            <3> QED BY <3>1, <3>2, <1>2, <1>3, SMTT(40) DEF RetryInv
      <2>2. CASE mailbox.status \in {"QUEUED", "RUNNING"} \/ mailbox.retry = "due"
            BY <2>2 DEF RetryInv
      <2>3. CASE mailbox.status \notin {"QUEUED", "RUNNING"} /\ itemRetry[HeadMsg] # "waiting"
            BY <2>3, SMTT(40) DEF RowConstraints, HeadMsg, HeadSeq
      <2> QED BY <2>1, <2>2, <2>3, <1>3, SMTT(40)
<1>7. ItemsInv' /\ OrderedExactlyOnce' /\ GivenUpAfterBudget'
      <2>1. ItemsInv'
            BY <1>2, <1>3, ItemsFrame, ZenonT(40)
      <2>2. OrderedExactlyOnce'
            BY <1>2, <1>3, OrderedFrame, ZenonT(40)
      <2>3. GivenUpAfterBudget'
            BY <1>2, <1>3, ZenonT(40) DEF GivenUpAfterBudget
      <2> QED BY <2>1, <2>2, <2>3
<1>8. LeaseInv'
      BY <1>2, <1>3, ZenonT(40) DEF LeaseInv
<1>9. TokenInv'
      BY <1>2, <1>3, TokenFrame, ZenonT(40)
<1> QED BY <1>4, <1>5, <1>6, <1>7, <1>8, <1>9

-----------------------------------------------------------------------------
(* Accepting *)

\* A duplicate inbound message only counts its delivery.
LEMMA AcceptDuplicateStep ==
    ASSUME IndInv, NEW m \in Msg, AcceptDuplicate(m)
    PROVE  IndInv'
<1> USE DEF IndInv
<1>1. UNCHANGED <<mailbox, session, queue, itemRetry, attempt, inbound, turn, log,
                  ready, slot, faults>>
      BY DEF AcceptDuplicate
<1>2. deliveries' \in [Msg -> Nat]
      BY DEF AcceptDuplicate, TypeOK
<1>3. TypeOK'
      BY <1>1, <1>2, SMTT(40) DEF TypeOK
<1>4. /\ RowConstraints' /\ NoForgottenWork' /\ ItemsInv' /\ RetryInv' /\ LeaseInv'
      /\ OrderedExactlyOnce' /\ GivenUpAfterBudget'
      BY <1>1, RowsFrame, ZenonT(40)
<1>5. TokenInv'
      BY <1>1, TokenFrame, ZenonT(40)
<1> QED BY <1>3, <1>4, <1>5

\* A new item goes behind every other, so that it moves neither the head nor
\* the resolved prefix; only an empty mailbox gets it as its head.
LEMMA AcceptStep ==
    ASSUME IndInv, NEW m \in Msg, NEW r \in {"null", "waiting"}, AcceptInboundV2(m, r)
    PROVE  IndInv'
<1> USE DEF IndInv
<1> DEFINE st == AcceptedStatus(r)
           isReady == st = "QUEUED" /\ mailbox.status \in {"IDLE", "RETRY_WAIT"}
           retry == IF st = "RETRY_WAIT" THEN "waiting"
                    ELSE IF isReady THEN "null" ELSE mailbox.retry
           gen == IF isReady THEN mailbox.generation + 1 ELSE mailbox.generation
           n == Len(queue)
<1>1. /\ mailbox \in MailboxRow /\ queue \in Seq(Msg) /\ n \in Nat
      /\ itemRetry \in [Msg -> RetryState] /\ ready \subseteq Nat
      /\ inbound \in [Msg -> {"none", "accepted", "processing", "committed", "failed"}]
      /\ deliveries \in [Msg -> Nat]
      BY SMTT(40) DEF TypeOK
<1>2. /\ mailbox.status \in Status /\ mailbox.accepted \in Nat /\ mailbox.resolved \in Nat
      /\ mailbox.processing \in Nat /\ mailbox.generation \in Nat /\ mailbox.retry \in RetryState
      BY <1>1, MailboxFields
<1>3. /\ inbound[m] = "none"
      /\ inbound' = [inbound EXCEPT ![m] = "accepted"]
      /\ deliveries' = [deliveries EXCEPT ![m] = 1]
      /\ queue' = Append(queue, m)
      /\ itemRetry' = [itemRetry EXCEPT ![m] = r]
      /\ UNCHANGED <<session, attempt, turn, log, slot, faults>>
      BY DEF AcceptInboundV2
<1>4. /\ mailbox' = [mailbox EXCEPT !.accepted = mailbox.accepted + 1, !.status = st,
                                    !.retry = retry, !.generation = gen]
      /\ ready' = IF isReady THEN ready \cup {mailbox'.generation} ELSE ready
      BY DEF AcceptInboundV2
<1>5. st \in Status /\ retry \in RetryState /\ gen \in Nat /\ mailbox.accepted + 1 \in Nat
      BY <1>2 DEF AcceptedStatus, Status, RetryState
<1>6. st = IF mailbox.status = "RETRY_WAIT"
             THEN IF mailbox.retry = "waiting" THEN "RETRY_WAIT" ELSE "QUEUED"
           ELSE IF mailbox.status = "IDLE"
             THEN IF r = "waiting" THEN "RETRY_WAIT" ELSE "QUEUED"
           ELSE mailbox.status
      BY DEF AcceptedStatus
<1> HIDE DEF st
<1>7. /\ mailbox' \in MailboxRow
      /\ mailbox'.status = st /\ mailbox'.accepted = mailbox.accepted + 1
      /\ mailbox'.retry = retry /\ mailbox'.generation = gen
      /\ mailbox'.resolved = mailbox.resolved /\ mailbox'.processing = mailbox.processing
      /\ mailbox'.owner = mailbox.owner /\ mailbox'.epoch = mailbox.epoch
      /\ mailbox'.lease = mailbox.lease
      <2> HIDE DEF retry, gen, isReady
      <2> QED BY <1>1, <1>4, <1>5, ZenonT(40) DEF MailboxRow
<1>8. /\ queue' \in Seq(Msg) /\ Len(queue') = n + 1 /\ queue'[n + 1] = m
      /\ \A i \in 1 .. n : queue'[i] = queue[i] /\ queue[i] \in Msg /\ queue[i] # m
      <2>1. queue' \in Seq(Msg) /\ Len(queue') = n + 1 /\ queue'[n + 1] = m
            BY <1>1, <1>3
      <2>2. \A i \in 1 .. n : queue'[i] = queue[i] /\ queue[i] \in Msg
            BY <1>1, <1>3, SMTT(40)
      <2>3. \A i \in 1 .. n : queue[i] # m
            BY <1>3 DEF ItemsInv
      <2> QED BY <2>1, <2>2, <2>3
<1>9. /\ inbound'[m] = "accepted" /\ itemRetry'[m] = r
      /\ \A x \in Msg \ {m} : inbound'[x] = inbound[x] /\ itemRetry'[x] = itemRetry[x]
      BY <1>1, <1>3, SMTT(40)
<1>10. mailbox.resolved <= n /\ mailbox.accepted = n
      BY <1>2, SMTT(40) DEF RowConstraints, ItemsInv
<1>11. TypeOK'
      <2>1. ready' \subseteq Nat
            BY <1>1, <1>4, <1>5, <1>7
      <2>2. /\ inbound' \in [Msg -> {"none", "accepted", "processing", "committed", "failed"}]
            /\ deliveries' \in [Msg -> Nat]
            BY <1>1, <1>3
      <2>3. itemRetry' \in [Msg -> RetryState]
            BY <1>1, <1>3, SMTT(40) DEF RetryState
      <2> QED BY <2>1, <2>2, <2>3, <1>3, <1>7, <1>8, ZenonT(40) DEF TypeOK
<1>12. RowConstraints'
      BY <1>2, <1>5, <1>6, <1>7, <1>10, SMTT(40) DEF RowConstraints, Status, RetryState
<1>13. NoForgottenWork'
      <2>1. mailbox'.status # "IDLE" /\ mailbox'.accepted # mailbox'.resolved
            BY <1>2, <1>6, <1>7, <1>10 DEF NoForgottenWork, Status
      <2>2. mailbox'.status = "QUEUED" => mailbox'.generation \in ready'
            BY <1>2, <1>4, <1>6, <1>7, SMTT(40) DEF NoForgottenWork, Status
      <2> QED BY <2>1, <2>2, SMTT(40) DEF NoForgottenWork
<1>14. ItemsInv'
      <2>1. mailbox'.accepted = Len(queue')
            BY <1>7, <1>8, <1>10, ZenonT(40)
      <2>2. \A i, j \in 1 .. Len(queue') : queue'[i] = queue'[j] => i = j
            <3>1. \A i, j \in 1 .. n : queue[i] = queue[j] => i = j
                  BY DEF ItemsInv
            <3>2. \A i \in 1 .. n + 1 : i \in 1 .. n \/ i = n + 1
                  BY <1>1
            <3> HIDE DEF IndInv, n
            <3> QED BY <3>1, <3>2, <1>8
      <2>3. \A x \in Msg : inbound'[x] = "none" <=> \A i \in 1 .. Len(queue') : queue'[i] # x
            <3> SUFFICES ASSUME NEW x \in Msg
                         PROVE  inbound'[x] = "none" <=> \A i \in 1 .. n + 1 : queue'[i] # x
                BY <1>8, SMTT(40)
            <3>1. CASE x = m
                  BY <3>1, <1>1, <1>8, <1>9, SMTT(40)
            <3>2. CASE x # m
                  <4>1. inbound[x] = "none" <=> \A i \in 1 .. n : queue[i] # x
                        BY DEF ItemsInv
                  <4>2. (\A i \in 1 .. n + 1 : queue'[i] # x) <=> \A i \in 1 .. n : queue[i] # x
                        <5>1. 1 .. n + 1 = (1 .. n) \cup {n + 1}
                              BY <1>1, SMTT(40)
                        <5> HIDE DEF IndInv, n
                        <5> QED BY <5>1, <3>2, <1>8
                  <4> QED BY <4>1, <4>2, <3>2, <1>9, SMTT(40)
            <3> QED BY <3>1, <3>2
      <2>4. \A i \in 1 .. Len(queue') :
               IF i <= mailbox'.resolved
                 THEN inbound'[queue'[i]] \in {"committed", "failed"}
                 ELSE /\ inbound'[queue'[i]] \in {"accepted", "processing"}
                      /\ turn'[queue'[i]].status # "committed"
            <3> SUFFICES ASSUME NEW i \in 1 .. n + 1
                         PROVE  IF i <= mailbox.resolved
                                  THEN inbound'[queue'[i]] \in {"committed", "failed"}
                                  ELSE /\ inbound'[queue'[i]] \in {"accepted", "processing"}
                                       /\ turn[queue'[i]].status # "committed"
                BY <1>3, <1>7, <1>8, ZenonT(40)
            <3>1. CASE i \in 1 .. n
                  <4>1. IF i <= mailbox.resolved
                          THEN inbound[queue[i]] \in {"committed", "failed"}
                          ELSE /\ inbound[queue[i]] \in {"accepted", "processing"}
                               /\ turn[queue[i]].status # "committed"
                        BY <3>1, ZenonT(40) DEF ItemsInv
                  <4> QED BY <4>1, <3>1, <1>8, <1>9, ZenonT(40)
            <3>2. CASE i = n + 1
                  <4>1. turn[m].status # "committed"
                        BY <1>3 DEF ItemsInv
                  <4>2. ~(i <= mailbox.resolved)
                        BY <3>2, <1>2, <1>1, <1>10, SMTT(40)
                  <4>3. queue'[i] = m /\ inbound'[m] = "accepted"
                        BY <3>2, <1>8, <1>9, ZenonT(40)
                  <4> QED BY <4>1, <4>2, <4>3, ZenonT(40)
            <3> QED BY <3>1, <3>2, <1>1, SMTT(40)
      <2>5. \A x \in Msg : inbound'[x] = "none" => turn'[x].status # "committed"
            <3>1. \A x \in Msg : inbound[x] = "none" => turn[x].status # "committed"
                  BY ZenonT(40) DEF ItemsInv
            <3> QED BY <3>1, <1>3, <1>9, ZenonT(40)
      <2> QED BY <2>1, <2>2, <2>3, <2>4, <2>5, ZenonT(40) DEF ItemsInv
<1>15. RetryInv'
      <2>1. CASE mailbox.status = "IDLE"
            <3>1. mailbox.resolved + 1 = n + 1
                  BY <2>1, <1>10 DEF NoForgottenWork
            <3> QED BY <3>1, <2>1, <1>2, <1>6, <1>7, <1>8, <1>9, ZenonT(40) DEF RetryInv, RowConstraints
      <2>2. CASE mailbox.status # "IDLE"
            <3>1. mailbox.resolved + 1 \in 1 .. n
                  BY <2>2, <1>1, <1>2, <1>10, SMTT(40) DEF NoForgottenWork
            <3>2. itemRetry'[queue'[mailbox.resolved + 1]] = itemRetry[queue[mailbox.resolved + 1]]
                  BY <3>1, <1>8, <1>9, ZenonT(40)
            <3>3. /\ mailbox'.status \in {"QUEUED", "RUNNING"} \/ mailbox'.retry = "due"
                  => mailbox.status \in {"QUEUED", "RUNNING"} \/ mailbox.retry = "due"
                  BY <2>2, <1>2, <1>6, <1>7, SMTT(40) DEF RowConstraints, Status, RetryState
            <3> QED BY <3>2, <3>3, <1>7 DEF RetryInv
      <2> QED BY <2>1, <2>2, SMTT(40)
<1>16. mailbox'.status = "RUNNING" =>
          /\ mailbox.status = "RUNNING" /\ mailbox.processing \in 1 .. n
          /\ queue'[mailbox.processing] = queue[mailbox.processing]
          /\ inbound'[queue[mailbox.processing]] = inbound[queue[mailbox.processing]]
      <2>1. mailbox'.status = "RUNNING" => mailbox.status = "RUNNING"
            BY <1>6, <1>7, SMTT(40)
      <2>2. mailbox.status = "RUNNING" => mailbox.processing \in 1 .. n
            BY <1>1, <1>2, <1>10, SMTT(40) DEF RowConstraints
      <2> QED BY <2>1, <2>2, <1>8, <1>9, ZenonT(40)
<1>17. LeaseInv'
      BY <1>3, <1>6, <1>7, <1>16, ZenonT(40) DEF LeaseInv
<1>18. TokenInv'
      BY <1>3, <1>7, <1>16, ZenonT(40) DEF TokenInv
<1>19. OrderedExactlyOnce'
      <2>1. \A k \in 1 .. mailbox.resolved :
               queue'[k] = queue[k] /\ inbound'[queue[k]] = inbound[queue[k]]
            <3>1. \A k \in 1 .. mailbox.resolved : k \in 1 .. n
                  BY <1>1, <1>2, <1>10, SMTT(40)
            <3> HIDE DEF IndInv, n
            <3> QED BY <3>1, <1>8, <1>9, SMTT(40)
      <2> QED BY <2>1, <1>3, <1>7, OrderedFrame, ZenonT(40)
<1>20. GivenUpAfterBudget'
      BY <1>3, <1>9 DEF GivenUpAfterBudget
<1> QED BY <1>11, <1>12, <1>13, <1>14, <1>15, <1>17, <1>18, <1>19, <1>20

-----------------------------------------------------------------------------
(* Claiming *)

\* claim_session_ready leases both rows under an epoch no slot has held.
LEMMA ClaimStep ==
    ASSUME IndInv, NEW s \in Slot, NEW g, ClaimSessionReady(s, g)
    PROVE  IndInv'
<1> DEFINE m == HeadMsg
           e == NextEpoch
           h == HeadSeq
           claim == [phase |-> "claimed", msg |-> m, token |-> e,
                     attempt |-> attempt[m] + 1, anchor |-> Len(log), base |-> 0]
<1>1. /\ slot[s].phase = "idle" /\ h <= mailbox.accepted /\ h = mailbox.resolved + 1
      /\ h \in 1 .. Len(queue) /\ m \in Msg /\ m = queue[h]
      /\ inbound[m] \in {"accepted", "processing"} /\ turn[m].status # "committed"
      /\ itemRetry[m] # "waiting" /\ session.lease # "live"
      /\ \A k \in 1 .. mailbox.resolved : queue[k] # m
      <2>1. slot[s].phase = "idle" /\ ClaimOutcome(g) = "CLAIMED"
            BY DEF ClaimSessionReady
      <2>2. m = queue[h]
            BY DEF HeadMsg
      <2> QED BY <2>1, <2>2, HeadFacts, ClaimOutcomeFacts
<1> USE DEF IndInv
<1>2. /\ mailbox \in MailboxRow /\ session \in SessionRow /\ queue \in Seq(Msg)
      /\ Len(queue) \in Nat /\ Len(log) \in Nat /\ attempt \in [Msg -> Nat]
      /\ inbound \in [Msg -> {"none", "accepted", "processing", "committed", "failed"}]
      /\ slot \in [Slot -> SlotState]
      /\ turn \in [Msg -> [status : {"none", "processing", "committed", "failed"}, token : Nat]]
      BY DEF TypeOK
<1>3. mailbox.epoch \in Nat /\ mailbox.resolved \in Nat /\ mailbox.accepted \in Nat
      BY <1>2, MailboxFields, SMTT(40)
<1>4. e = mailbox.epoch + 1
      BY <1>3 DEF NextEpoch, LeaseInv
<1>5. /\ turn' = [turn EXCEPT ![m] = [status |-> "processing", token |-> e]]
      /\ session' = [owner |-> OwnerOf[s], epoch |-> e, lease |-> "live"]
      /\ attempt' = [attempt EXCEPT ![m] = attempt[m] + 1]
      /\ mailbox' = [mailbox EXCEPT !.status = "RUNNING", !.processing = h,
                        !.owner = OwnerOf[s], !.epoch = e, !.lease = "live", !.retry = "null"]
      /\ inbound' = [inbound EXCEPT ![m] = "processing"]
      /\ slot' = [slot EXCEPT ![s] = claim]
      /\ UNCHANGED <<queue, itemRetry, deliveries, log, ready, faults>>
      <2>1. attempt' = [attempt EXCEPT ![m] = attempt[m] + 1]
            BY SMTT(40) DEF ClaimSessionReady
      <2>2. attempt'[m] = attempt[m] + 1
            BY <2>1, <1>1, <1>2, SMTT(40)
      <2> QED BY <2>1, <2>2, ZenonT(40) DEF ClaimSessionReady
<1>6. OwnerOf[s] \in Worker /\ OwnerOf[s] # None
      BY OwnerAssumption
<1>7. e \in Nat /\ h \in Nat /\ attempt[m] + 1 \in Nat
      <2> HIDE DEF m, e, h, IndInv
      <2>1. e \in Nat
            BY <1>3, <1>4, SMTT(40)
      <2>2. h \in Nat
            BY <1>1, <1>2, SMTT(40)
      <2>3. attempt[m] \in Nat
            BY <1>1, <1>2
      <2> QED BY <2>1, <2>2, <2>3
<1> HIDE DEF m, e, h, IndInv
<1>8. /\ mailbox' \in MailboxRow
      /\ mailbox'.status = "RUNNING" /\ mailbox'.processing = h /\ mailbox'.owner = OwnerOf[s]
      /\ mailbox'.epoch = e /\ mailbox'.lease = "live" /\ mailbox'.retry = "null"
      /\ mailbox'.accepted = mailbox.accepted /\ mailbox'.resolved = mailbox.resolved
      /\ mailbox'.generation = mailbox.generation
      <2>1. "RUNNING" \in Status /\ "live" \in LeaseState /\ "null" \in RetryState
            BY DEF Status, LeaseState, RetryState
      <2> QED BY <2>1, <1>2, <1>5, <1>6, <1>7, ZenonT(40) DEF MailboxRow
<1>9. /\ session' \in SessionRow /\ session'.owner = OwnerOf[s]
      /\ session'.epoch = e /\ session'.lease = "live"
      BY <1>5, <1>6, <1>7, SMTT(40) DEF SessionRow, LeaseState
<1>10. /\ turn'[m] = [status |-> "processing", token |-> e]
       /\ inbound'[m] = "processing" /\ attempt'[m] = attempt[m] + 1
       /\ \A x \in Msg \ {m} : turn'[x] = turn[x] /\ inbound'[x] = inbound[x]
                               /\ attempt'[x] = attempt[x]
       BY <1>1, <1>2, <1>5, ZenonT(40)
<1>11. slot'[s] = claim /\ \A t \in Slot \ {s} : slot'[t] = slot[t]
       BY <1>2, <1>5
<1>12. TypeOK'
       <2>1. claim \in SlotState
             BY <1>1, <1>2, <1>7, ZenonT(40) DEF SlotState
       <2>2. slot' \in [Slot -> SlotState]
             <3> HIDE DEF claim
             <3> QED BY <2>1, <1>2, <1>5
       <2>3. /\ inbound' \in [Msg -> {"none", "accepted", "processing", "committed", "failed"}]
             /\ attempt' \in [Msg -> Nat]
             BY <1>2, <1>5, <1>7, ZenonT(40)
       <2>4. turn' \in [Msg -> [status : {"none", "processing", "committed", "failed"},
                                token : Nat]]
             BY <1>2, <1>5, <1>7, ZenonT(40)
       <2> QED BY <2>2, <2>3, <2>4, <1>5, <1>8, <1>9, ZenonT(40) DEF TypeOK, IndInv
<1>13. RowConstraints' /\ NoForgottenWork'
       BY <1>1, <1>3, <1>6, <1>7, <1>8, SMTT(40) DEF RowConstraints, NoForgottenWork
<1>14. ItemsInv'
       <2>1. ItemsInv
             BY SMTT(40) DEF IndInv
       <2>2. \A x \in Msg : inbound'[x] = "none" <=> inbound[x] = "none"
             BY <1>1, <1>10, ZenonT(40)
       <2>3. \A x \in Msg : turn'[x].status = "committed" => turn[x].status = "committed"
             BY <1>10
       <2>4. \A i \in 1 .. Len(queue) : queue[i] \in Msg
             BY <1>2, SMTT(40)
       <2>5. \A i \in 1 .. Len(queue) :
                IF i <= mailbox.resolved
                  THEN inbound'[queue[i]] \in {"committed", "failed"}
                  ELSE /\ inbound'[queue[i]] \in {"accepted", "processing"}
                       /\ turn'[queue[i]].status # "committed"
             <3> SUFFICES ASSUME NEW i \in 1 .. Len(queue)
                          PROVE  IF i <= mailbox.resolved
                                   THEN inbound'[queue[i]] \in {"committed", "failed"}
                                   ELSE /\ inbound'[queue[i]] \in {"accepted", "processing"}
                                        /\ turn'[queue[i]].status # "committed"
                 OBVIOUS
             <3>1. i <= mailbox.resolved => queue[i] # m
                   BY <1>1, <1>2, <1>3, SMTT(40)
             <3>2. IF i <= mailbox.resolved
                     THEN inbound[queue[i]] \in {"committed", "failed"}
                     ELSE /\ inbound[queue[i]] \in {"accepted", "processing"}
                          /\ turn[queue[i]].status # "committed"
                   BY <2>1, SMTT(40) DEF ItemsInv
             <3> QED BY <3>1, <3>2, <2>3, <2>4, <1>10
       <2>6. queue' = queue /\ mailbox'.accepted = mailbox.accepted
             BY <1>5, <1>8, ZenonT(40)
       <2>7. mailbox'.resolved = mailbox.resolved
             BY <1>8, ZenonT(40)
       <2> QED BY <2>1, <2>2, <2>3, <2>5, <2>6, <2>7, ItemsMoved, ZenonT(40)
<1>15. RetryInv'
       BY <1>1, <1>5, <1>8, ZenonT(40) DEF RetryInv
<1>16. LeaseInv'
       BY <1>1, <1>5, <1>8, <1>9, <1>10, ZenonT(40) DEF LeaseInv
<1>17. TokenInv'
       <2>1. \A t \in Slot \ {s} : slot[t].phase # "idle" => slot[t].token < e
             BY <1>2, <1>3, <1>4, SMTT(40) DEF IndInv, TokenInv, SlotState
       <2>2. /\ claim.phase = "claimed" /\ claim.token = e /\ claim.msg = m
             /\ claim.attempt = attempt[m] + 1
             OBVIOUS
       <2>3. \A t \in Slot : slot[t].token \in Nat
             BY <1>2 DEF SlotState
       <2> HIDE DEF claim
       <2>4. \A t \in Slot : slot'[t].phase # "idle" /\ t # s => slot'[t].token < e
             BY <2>1, <1>11, SMTT(40)
       <2>5. \A t \in Slot : slot'[t].phase # "idle" =>
                /\ slot'[t].token <= e
                /\ slot'[t].token = e =>
                      /\ slot'[t].msg = m /\ slot'[t].attempt = attempt[m] + 1
                      /\ slot'[t].phase = "claimed"
             BY <2>2, <2>3, <2>4, <1>7, <1>11, SMTT(40)
       <2>6. \A t, u \in Slot :
                slot'[t].phase # "idle" /\ slot'[u].phase # "idle"
                /\ slot'[t].token = slot'[u].token => t = u
             <3>1. \A t, u \in Slot \ {s} :
                      slot[t].phase # "idle" /\ slot[u].phase # "idle"
                      /\ slot[t].token = slot[u].token => t = u
                   BY SMTT(40) DEF IndInv, TokenInv
             <3>2. \A t \in Slot \ {s} : slot'[t].phase # "idle" => slot'[t].token # slot'[s].token
                   BY <2>2, <2>3, <2>4, <1>7, <1>11
             <3> QED BY <3>1, <3>2, <1>11, ZenonT(40)
       <2>7. /\ mailbox'.epoch = e /\ queue'[mailbox'.processing] = m
             /\ attempt'[m] = attempt[m] + 1
             BY <1>1, <1>5, <1>8, <1>10, ZenonT(40)
       <2>8. \A t \in Slot : slot'[t].phase # "idle" =>
                /\ slot'[t].token <= mailbox'.epoch
                /\ slot'[t].token = mailbox'.epoch =>
                      /\ slot'[t].msg = queue'[mailbox'.processing]
                      /\ slot'[t].attempt = attempt'[slot'[t].msg]
                      /\ slot'[t].phase = "claimed"
             <3> HIDE DEF e, m
             <3> QED BY <2>5, <2>7, ZenonT(40)
       <2> QED BY <2>6, <2>8, ZenonT(40) DEF TokenInv
<1>18. OrderedExactlyOnce'
       <2>1. \A k \in 1 .. mailbox.resolved :
                queue'[k] = queue[k] /\ inbound'[queue[k]] = inbound[queue[k]]
             <3>1. \A k \in 1 .. mailbox.resolved : queue[k] \in Msg
                   BY <1>1, <1>2, <1>3
             <3> QED BY <3>1, <1>1, <1>5, <1>10, ZenonT(40)
       <2> QED BY <2>1, <1>5, <1>8, OrderedFrame, SMTT(40) DEF IndInv
<1>19. GivenUpAfterBudget'
       BY <1>10 DEF IndInv, GivenUpAfterBudget
<1> QED BY <1>12, <1>13, <1>14, <1>15, <1>16, <1>17, <1>18, <1>19, SMTT(40) DEF IndInv

-----------------------------------------------------------------------------
(* Steps that do not resolve the head of the queue *)

\* The recovery roles and a deferred claim rewrite the mailbox row to what its
\* head asks for and touch nothing but the leases and the wake-ups.
LEMMA UnleasedStep ==
    ASSUME IndInv,
           UNCHANGED <<queue, itemRetry, attempt, inbound, deliveries, turn, log, slot, faults>>,
           mailbox' \in MailboxRow, ready' \subseteq Nat,
           mailbox'.accepted = mailbox.accepted, mailbox'.resolved = mailbox.resolved,
           mailbox'.epoch = mailbox.epoch, mailbox'.processing = 0,
           mailbox'.owner = None, mailbox'.lease = "null",
           mailbox'.status = StatusAt(mailbox.resolved + 1),
           mailbox'.retry = IF mailbox'.status = "RETRY_WAIT" THEN "waiting" ELSE "null",
           mailbox'.status = "QUEUED" => mailbox'.generation \in ready',
           session.lease # "live",
           session' = session \/ session' = ReleasedSession
    PROVE  IndInv'
<1>1. /\ mailbox'.status \in {"IDLE", "QUEUED", "RETRY_WAIT"}
      /\ mailbox'.status = "IDLE" <=> mailbox.accepted = mailbox.resolved
      /\ mailbox'.status = "QUEUED" => itemRetry[queue[mailbox.resolved + 1]] # "waiting"
      BY StatusAtHead
<1>2. session \in SessionRow /\ mailbox.resolved <= mailbox.accepted
      BY SMTT(40) DEF IndInv, TypeOK, RowConstraints
<1>3. session' \in SessionRow /\ session'.epoch = session.epoch /\ session'.lease # "live"
      BY <1>2, ReleasedSessionRow, ZenonT(40)
<1>4. TypeOK'
      BY <1>3, SMTT(40) DEF IndInv, TypeOK
<1>5. RowConstraints' /\ NoForgottenWork'
      BY <1>1, <1>2, SMTT(40) DEF RowConstraints, NoForgottenWork
<1>6. ItemsInv' /\ GivenUpAfterBudget'
      <2>1. ItemsInv'
            BY ItemsFrame, ZenonT(40) DEF IndInv
      <2>2. GivenUpAfterBudget'
            BY ZenonT(40) DEF IndInv, GivenUpAfterBudget
      <2> QED BY <2>1, <2>2
<1>7. RetryInv'
      BY <1>1, ZenonT(40) DEF RetryInv
<1>8. LeaseInv'
      BY <1>1, <1>3, ZenonT(40) DEF IndInv, LeaseInv
<1>9. TokenInv'
      BY <1>1, ZenonT(40) DEF IndInv, TokenInv
<1>10. OrderedExactlyOnce'
      BY OrderedFrame DEF IndInv
<1> QED BY <1>4, <1>5, <1>6, <1>7, <1>8, <1>9, <1>10 DEF IndInv

\* What rewriting the mailbox row to its head's status amounts to.
LEMMA ReleaseToHead ==
    ASSUME IndInv, NEW b \in {0, 1},
           mailbox' = Released(mailbox.resolved, StatusAt(mailbox.resolved + 1), b),
           ready' = EmitReady(mailbox')
    PROVE  /\ mailbox' \in MailboxRow /\ ready' \subseteq Nat
           /\ mailbox'.accepted = mailbox.accepted /\ mailbox'.resolved = mailbox.resolved
           /\ mailbox'.epoch = mailbox.epoch /\ mailbox'.processing = 0
           /\ mailbox'.owner = None /\ mailbox'.lease = "null"
           /\ mailbox'.status = StatusAt(mailbox.resolved + 1)
           /\ mailbox'.retry = IF mailbox'.status = "RETRY_WAIT" THEN "waiting" ELSE "null"
           /\ mailbox'.status = "QUEUED" => mailbox'.generation \in ready'
           /\ mailbox'.generation >= mailbox.generation
<1> DEFINE st == StatusAt(mailbox.resolved + 1)
<1>1. mailbox \in MailboxRow /\ ready \subseteq Nat
      BY DEF IndInv, TypeOK
<1>2. mailbox.resolved \in Nat /\ mailbox.generation \in Nat
      BY <1>1, MailboxFields
<1>3. st \in Status
      BY StatusAtType
<1>4. mailbox' = Released(mailbox.resolved, st, b) /\ b \in Nat
      OBVIOUS
<1> HIDE DEF st
<1>5. /\ mailbox' \in MailboxRow
      /\ mailbox'.accepted = mailbox.accepted /\ mailbox'.resolved = mailbox.resolved
      /\ mailbox'.epoch = mailbox.epoch /\ mailbox'.processing = 0
      /\ mailbox'.owner = None /\ mailbox'.lease = "null" /\ mailbox'.status = st
      /\ mailbox'.retry = IF st = "RETRY_WAIT" THEN "waiting" ELSE "null"
      /\ mailbox'.generation = mailbox.generation + b
      BY <1>1, <1>2, <1>3, <1>4, ReleasedRow, SMTT(40)
<1>6. mailbox'.generation \in Nat /\ mailbox'.generation >= mailbox.generation
      BY <1>2, <1>5
<1>7. ready' = ready \cup (IF mailbox'.status = "QUEUED" THEN {mailbox'.generation} ELSE {})
      BY SMTT(40) DEF EmitReady
<1> QED BY <1>1, <1>5, <1>6, <1>7, ZenonT(40) DEF st

\* sweep_expired_session_leases hands an expired execution back to the queue.
LEMMA SweepStep ==
    ASSUME IndInv, SweepExpiredSessionLeases
    PROVE  IndInv'
<1>1. /\ mailbox.accepted \in Nat /\ mailbox.resolved \in Nat
      /\ mailbox.processing = mailbox.resolved + 1
      /\ session' = session \/ session' = ReleasedSession
      /\ session.lease # "live"
      /\ UNCHANGED <<queue, itemRetry, attempt, inbound, deliveries, turn, log, slot, faults>>
      BY MailboxFields, ZenonT(40) DEF SweepExpiredSessionLeases, ClearSessionLease, IndInv, TypeOK, LeaseInv
<1>2. PICK b \in {0, 1} :
         /\ mailbox' = Released(mailbox.resolved, StatusAt(mailbox.resolved + 1), b)
         /\ ready' = EmitReady(mailbox')
      <2>1. (IF mailbox.accepted <= mailbox.resolved THEN "IDLE" ELSE StatusAt(mailbox.processing))
               = StatusAt(mailbox.resolved + 1)
            BY <1>1 DEF StatusAt
      <2>2. Bump(StatusAt(mailbox.resolved + 1)) \in {0, 1}
            BY DEF Bump
      <2> QED BY <2>1, <2>2, SMTT(40) DEF SweepExpiredSessionLeases
<1> QED BY <1>1, <1>2, ReleaseToHead, UnleasedStep, ZenonT(40)

\* reconcile_session_mailboxes_v2 repairs without touching the messages.
LEMMA ReconcileStep ==
    ASSUME IndInv, ReconcileSessionMailboxes
    PROVE  IndInv'
<1>1. /\ mailbox.accepted \in Nat /\ mailbox.resolved \in Nat
      /\ session' = session \/ session' = ReleasedSession
      /\ session.lease # "live"
      /\ UNCHANGED <<queue, itemRetry, attempt, inbound, deliveries, turn, log, slot, faults>>
      BY MailboxFields, ZenonT(40) DEF ReconcileSessionMailboxes, ClearSessionLease, IndInv, TypeOK
<1>2. Requeue
      BY HeadFacts DEF ReconcileSessionMailboxes
<1>3. PICK b \in {0, 1} :
         /\ mailbox' = Released(mailbox.resolved, StatusAt(mailbox.resolved + 1), b)
         /\ ready' = EmitReady(mailbox')
      <2>1. (IF mailbox.accepted <= mailbox.resolved THEN "IDLE" ELSE StatusAt(HeadSeq))
               = StatusAt(mailbox.resolved + 1)
            BY <1>1, HeadFacts DEF StatusAt
      <2>2. (IF mailbox.status # "QUEUED" \/ mailbox.generation < 1
               THEN Bump(StatusAt(mailbox.resolved + 1)) ELSE 0) \in {0, 1}
            BY DEF Bump
      <2> QED BY <2>1, <2>2, <1>2 DEF Requeue
<1> QED BY <1>1, <1>3, ReleaseToHead, UnleasedStep, ZenonT(40)

\* schedule_session_mailbox_retries queues a mailbox whose retry is due.
LEMMA ScheduleStep ==
    ASSUME IndInv, ScheduleSessionMailboxRetries
    PROVE  IndInv'
<1>1. /\ mailbox \in MailboxRow /\ ready \subseteq Nat
      /\ mailbox.status = "RETRY_WAIT" /\ mailbox.retry = "due"
      /\ mailbox' = [mailbox EXCEPT !.status = "QUEUED", !.retry = "null",
                                    !.generation = mailbox.generation + 1]
      /\ ready' = EmitReady(mailbox')
      /\ session' = session
      /\ UNCHANGED <<queue, itemRetry, attempt, inbound, deliveries, turn, log, slot, faults>>
      BY DEF ScheduleSessionMailboxRetries, IndInv, TypeOK
<1>2. mailbox.generation + 1 \in Nat /\ mailbox.resolved \in Nat /\ mailbox.accepted \in Nat
      BY <1>1, MailboxFields
<1>3. /\ mailbox' \in MailboxRow /\ mailbox'.status = "QUEUED" /\ mailbox'.retry = "null"
      /\ mailbox'.generation = mailbox.generation + 1
      /\ mailbox'.accepted = mailbox.accepted /\ mailbox'.resolved = mailbox.resolved
      /\ mailbox'.epoch = mailbox.epoch /\ mailbox'.processing = mailbox.processing
      /\ mailbox'.owner = mailbox.owner /\ mailbox'.lease = mailbox.lease
      <2>1. "QUEUED" \in Status /\ "null" \in RetryState
            BY DEF Status, RetryState
      <2> QED BY <2>1, <1>1, <1>2, ZenonT(40) DEF MailboxRow
<1>4. mailbox.processing = 0 /\ mailbox.owner = None /\ mailbox.lease = "null"
      BY <1>1 DEF IndInv, RowConstraints
<1>5. session.lease # "live"
      BY <1>1 DEF IndInv, LeaseInv
<1>6. StatusAt(mailbox.resolved + 1) = "QUEUED"
      <2>1. mailbox.accepted # mailbox.resolved /\ mailbox.resolved <= mailbox.accepted
            BY <1>1 DEF IndInv, NoForgottenWork, RowConstraints
      <2>2. itemRetry[queue[mailbox.resolved + 1]] # "waiting"
            BY <1>1 DEF IndInv, RetryInv
      <2> QED BY <2>1, <2>2, <1>2 DEF StatusAt
<1>7. ready' \subseteq Nat /\ mailbox'.generation \in ready'
      BY <1>1, <1>2, <1>3 DEF EmitReady
<1> QED BY <1>1, <1>3, <1>4, <1>5, <1>6, <1>7, UnleasedStep

\* A claim that finds its head deferred only copies the head's retry time.
LEMMA ClaimWithoutLeaseStep ==
    ASSUME IndInv, NEW g, ClaimWithoutLease(g)
    PROVE  IndInv'
<1>1. ClaimOutcome(g) = "DEFERRED"
      BY ClaimOutcomeFacts DEF ClaimWithoutLease
<1>2. /\ itemRetry[HeadMsg] = "waiting" /\ HeadSeq <= mailbox.accepted
      /\ HeadSeq = mailbox.resolved + 1 /\ HeadMsg = queue[HeadSeq]
      BY <1>1, ClaimOutcomeFacts, HeadFacts DEF HeadMsg
<1>3. /\ mailbox \in MailboxRow /\ ready \subseteq Nat
      /\ mailbox' = [mailbox EXCEPT !.status = "RETRY_WAIT", !.retry = "waiting"]
      /\ session' = session /\ ready' = ready
      /\ UNCHANGED <<queue, itemRetry, attempt, inbound, deliveries, turn, log, slot, faults>>
      BY <1>1 DEF ClaimWithoutLease, DeferToHead, IndInv, TypeOK
<1>4. /\ mailbox' \in MailboxRow /\ mailbox'.status = "RETRY_WAIT" /\ mailbox'.retry = "waiting"
      /\ mailbox'.generation = mailbox.generation
      /\ mailbox'.accepted = mailbox.accepted /\ mailbox'.resolved = mailbox.resolved
      /\ mailbox'.epoch = mailbox.epoch /\ mailbox'.processing = mailbox.processing
      /\ mailbox'.owner = mailbox.owner /\ mailbox'.lease = mailbox.lease
      <2>1. "RETRY_WAIT" \in Status /\ "waiting" \in RetryState
            BY DEF Status, RetryState
      <2> QED BY <2>1, <1>3, ZenonT(40) DEF MailboxRow
<1>5. mailbox.status # "RUNNING"
      BY <1>2 DEF IndInv, RetryInv
<1>6. mailbox.processing = 0 /\ mailbox.owner = None /\ mailbox.lease = "null"
      BY <1>5 DEF IndInv, RowConstraints
<1>7. session.lease # "live"
      BY <1>5 DEF IndInv, LeaseInv
<1>8. StatusAt(mailbox.resolved + 1) = "RETRY_WAIT"
      <2>1. mailbox.resolved \in Nat /\ mailbox.accepted \in Nat
            BY <1>3, MailboxFields, SMTT(40)
      <2> QED BY <2>1, <1>2 DEF StatusAt
<1> QED BY <1>3, <1>4, <1>6, <1>7, <1>8, UnleasedStep

-----------------------------------------------------------------------------
(* Terminal transitions of a turn *)

\* What the fence tells about the rows.
LEMMA FenceFacts ==
    ASSUME IndInv, NEW s \in Slot, Fenced(s)
    PROVE  LET m == slot[s].msg
           IN  /\ slot[s].phase # "idle" /\ m \in Msg
               /\ mailbox.status = "RUNNING" /\ mailbox.processing = mailbox.resolved + 1
               /\ mailbox.processing \in 1 .. Len(queue) /\ queue[mailbox.processing] = m
               /\ slot[s].token = mailbox.epoch
               /\ slot[s].attempt = attempt[m]
               /\ slot[s].phase # "claimed" => slot[s].base = Len(log)
               /\ inbound[m] = "processing"
               /\ turn[m] = [status |-> "processing", token |-> slot[s].token]
               /\ \A i \in 1 .. Len(queue) : queue[i] = m => i = mailbox.resolved + 1
<1>1. /\ slot[s].phase # "idle" /\ mailbox.status = "RUNNING"
      /\ queue[mailbox.processing] = slot[s].msg
      /\ slot[s].token = mailbox.epoch
      /\ inbound[slot[s].msg] = "processing"
      /\ turn[slot[s].msg] = [status |-> "processing", token |-> slot[s].token]
      BY DEF Fenced, Owns
<1>2. /\ mailbox.resolved \in Nat /\ mailbox.accepted \in Nat /\ mailbox.processing \in Nat
      /\ queue \in Seq(Msg) /\ Len(queue) \in Nat
      BY MailboxFields, SMTT(40) DEF IndInv, TypeOK
<1>3. mailbox.processing = mailbox.resolved + 1 /\ mailbox.processing \in 1 .. Len(queue)
      <2>1. /\ mailbox.processing = mailbox.resolved + 1
            /\ mailbox.accepted = Len(queue)
            /\ mailbox.processing # 0 => mailbox.processing <= mailbox.accepted
            BY <1>1, ZenonT(40) DEF IndInv, LeaseInv, RowConstraints, ItemsInv
      <2> QED BY <2>1, <1>2, SMTT(40)
<1>4. slot[s].msg \in Msg
      BY <1>1, <1>2, <1>3, SMTT(40)
<1>5. /\ slot[s].attempt = attempt[slot[s].msg]
      /\ slot[s].phase # "claimed" => slot[s].base = Len(log)
      BY <1>1, ZenonT(40) DEF IndInv, TokenInv
<1>6. \A i \in 1 .. Len(queue) : queue[i] = slot[s].msg => i = mailbox.resolved + 1
      <2>1. \A i, j \in 1 .. Len(queue) : queue[i] = queue[j] => i = j
            BY ZenonT(40) DEF IndInv, ItemsInv
      <2> QED BY <2>1, <1>1, <1>3, ZenonT(40)
<1> QED BY <1>1, <1>3, <1>4, <1>5, <1>6, ZenonT(40)

\* The slot of a finished turn goes idle; no other slot carries the epoch.
LEMMA SlotReleased ==
    ASSUME IndInv, NEW s \in Slot, slot' = [slot EXCEPT ![s] = IdleSlot],
           mailbox'.epoch = mailbox.epoch, mailbox'.status # "RUNNING"
    PROVE  slot' \in [Slot -> SlotState] /\ TokenInv'
<1>1. slot \in [Slot -> SlotState] /\ IdleSlot \in SlotState /\ IdleSlot.phase = "idle"
      BY ZenonT(40) DEF IndInv, TypeOK, IdleSlot, SlotState
<1> QED BY <1>1, ZenonT(40) DEF IndInv, TokenInv

\* What appending a message to the history (the commit of its turn) leaves of
\* the older turns.
LEMMA AppendedSeq ==
    ASSUME NEW S, NEW q \in Seq(S), NEW x \in S
    PROVE  /\ Len(Append(q, x)) = Len(q) + 1 /\ Append(q, x)[Len(q) + 1] = x
           /\ \A i \in 1 .. Len(q) : Append(q, x)[i] = q[i]
  BY SMTT(40)

\* One more item is resolved.
LEMMA UpToNext ==
    ASSUME NEW r \in Nat
    PROVE  \A k \in 1 .. r + 1 : k \in 1 .. r \/ k = r + 1
  BY SMTT(40)

\* The order of the log after the item behind the resolved prefix is resolved,
\* with or without its turn in the log.
LEMMA OrderedResolve ==
    ASSUME IndInv, NEW m \in Msg, queue' = queue,
           mailbox'.resolved = mailbox.resolved + 1,
           mailbox.resolved + 1 \in 1 .. Len(queue), queue[mailbox.resolved + 1] = m,
           \A x \in Msg \ {m} : inbound'[x] = inbound[x],
           \/ log' = Append(log, m) /\ inbound'[m] = "committed"
           \/ log' = log /\ inbound'[m] = "failed"
    PROVE  OrderedExactlyOnce'
<1> DEFINE r == mailbox.resolved
           L == Len(log)
<1>1. /\ r \in Nat /\ L \in Nat /\ queue \in Seq(Msg) /\ log \in Seq(Msg) /\ Len(queue) \in Nat
      <2>1. mailbox \in MailboxRow /\ queue \in Seq(Msg) /\ log \in Seq(Msg)
            BY SMTT(40) DEF IndInv, TypeOK
      <2>2. mailbox.resolved \in Nat
            BY <2>1, MailboxFields, ZenonT(40)
      <2> QED BY <2>1, <2>2
<1>2. \A k \in 1 .. r + 1 : k \in 1 .. r \/ k = r + 1
      BY <1>1, UpToNext, ZenonT(40)
<1>3. \A k \in 1 .. r : k \in 1 .. r + 1 /\ k \in 1 .. Len(queue) /\ k < r + 1
      <2>1. r + 1 <= Len(queue)
            BY <1>1
      <2> QED BY <2>1, <1>1
<1>4. \A k \in 1 .. r : queue[k] \in Msg /\ queue[k] # m
      <2>1. \A i, j \in 1 .. Len(queue) : queue[i] = queue[j] => i = j
            BY SMTT(40) DEF IndInv, ItemsInv
      <2> QED BY <2>1, <1>1, <1>3, SMTT(40)
<1>5. /\ \A k \in 1 .. r : inbound[queue[k]] = "committed" => \E i \in 1 .. L : log[i] = queue[k]
      /\ \A i \in 1 .. L : \E k \in 1 .. r : queue[k] = log[i] /\ inbound[queue[k]] = "committed"
      /\ \A i, j \in 1 .. L : \A k, l \in 1 .. r :
            i < j /\ queue[k] = log[i] /\ queue[l] = log[j] => k < l
      BY ZenonT(40) DEF IndInv, OrderedExactlyOnce
<1>6. \A i \in 1 .. L : log[i] # m
      <2> SUFFICES ASSUME NEW i \in 1 .. L PROVE log[i] # m
          OBVIOUS
      <2>1. PICK k \in 1 .. r : queue[k] = log[i]
            BY <1>5, ZenonT(40)
      <2> QED BY <2>1, <1>4, ZenonT(40)
<1>7. \A k \in 1 .. r : inbound'[queue[k]] = inbound[queue[k]]
      BY <1>4
<1>8. /\ \A i \in 1 .. L : log'[i] = log[i] /\ i \in 1 .. Len(log')
      /\ Len(log') \in {L, L + 1} /\ (Len(log') = L + 1 <=> inbound'[m] = "committed")
      /\ Len(log') = L + 1 => log'[L + 1] = m
      <2>1. CASE log' = Append(log, m) /\ inbound'[m] = "committed"
            <3>1. Len(Append(log, m)) = L + 1 /\ Append(log, m)[L + 1] = m
                  BY <1>1, AppendedSeq
            <3>2. \A i \in 1 .. L : Append(log, m)[i] = log[i]
                  BY <1>1, AppendedSeq
            <3>3. \A i \in 1 .. L : i \in 1 .. L + 1
                  BY <1>1
            <3> HIDE DEF L
            <3> QED BY <2>1, <3>1, <3>2, <3>3
      <2>2. CASE log' = log /\ inbound'[m] = "failed"
            <3>1. L # L + 1
                  BY <1>1, SMTT(40)
            <3> QED BY <2>2, <3>1
      <2> QED BY <2>1, <2>2
<1>9. /\ Len(log') \in {L, L + 1} /\ (Len(log') = L + 1 <=> inbound'[m] = "committed")
      /\ Len(log') = L + 1 => log'[L + 1] = m
      BY <1>8
<1>10. \A i \in 1 .. Len(log') : i \in 1 .. L \/ (i = L + 1 /\ Len(log') = L + 1)
      BY <1>1, <1>9
<1>11. Len(log') = L + 1 => L + 1 \in 1 .. Len(log')
      BY <1>1
<1>12. r + 1 \in 1 .. r + 1 /\ queue[r + 1] = m /\ 1 .. mailbox'.resolved = 1 .. r + 1
      BY <1>1
<1>13. \A i \in 1 .. L : i < L + 1
      BY <1>1, SMTT(40)
<1> HIDE DEF r, L
<1>14. \A k \in 1 .. r + 1 : inbound'[queue[k]] = "committed" =>
          \E i \in 1 .. Len(log') : log'[i] = queue[k]
      <2> SUFFICES ASSUME NEW k \in 1 .. r + 1, inbound'[queue[k]] = "committed"
                   PROVE  \E i \in 1 .. Len(log') : log'[i] = queue[k]
          OBVIOUS
      <2>1. CASE k \in 1 .. r
            <3>1. PICK i \in 1 .. L : log[i] = queue[k]
                  BY <2>1, <1>5, <1>7, ZenonT(40)
            <3> QED BY <3>1, <1>8, SMTT(40)
      <2>2. CASE k = r + 1
            BY <2>2, <1>9, <1>11, <1>12, SMTT(40)
      <2> QED BY <2>1, <2>2, <1>2
<1>15. \A i \in 1 .. Len(log') : \E k \in 1 .. r + 1 :
          queue[k] = log'[i] /\ inbound'[queue[k]] = "committed"
      <2> SUFFICES ASSUME NEW i \in 1 .. Len(log')
                   PROVE  \E k \in 1 .. r + 1 :
                             queue[k] = log'[i] /\ inbound'[queue[k]] = "committed"
          OBVIOUS
      <2>1. CASE i \in 1 .. L
            <3>1. PICK k \in 1 .. r : queue[k] = log[i] /\ inbound[queue[k]] = "committed"
                  BY <2>1, <1>5, SMTT(40)
            <3> QED BY <3>1, <2>1, <1>3, <1>7, <1>8, SMTT(40)
      <2>2. CASE i = L + 1 /\ Len(log') = L + 1
            BY <2>2, <1>9, <1>12, SMTT(40)
      <2> QED BY <2>1, <2>2, <1>10
<1>16. \A i, j \in 1 .. Len(log') : \A k, l \in 1 .. r + 1 :
          i < j /\ queue[k] = log'[i] /\ queue[l] = log'[j] => k < l
      <2> SUFFICES ASSUME NEW i \in 1 .. Len(log'), NEW j \in 1 .. Len(log'),
                          NEW k \in 1 .. r + 1, NEW l \in 1 .. r + 1,
                          i < j, queue[k] = log'[i], queue[l] = log'[j]
                   PROVE  k < l
          OBVIOUS
      <2>1. i \in 1 .. L
            BY <1>1, <1>10, SMTT(40) DEF L
      <2>2. k \in 1 .. r /\ k < r + 1
            BY <2>1, <1>2, <1>3, <1>6, <1>8, <1>12, ZenonT(40)
      <2>3. CASE j \in 1 .. L
            <3>1. l \in 1 .. r
                  BY <2>3, <1>2, <1>6, <1>8, <1>12, SMTT(40)
            <3> QED BY <3>1, <2>1, <2>2, <2>3, <1>5, <1>8, SMTT(40)
      <2>4. CASE j = L + 1 /\ Len(log') = L + 1
            <3>1. queue[l] = m
                  BY <2>4, <1>9, ZenonT(40)
            <3>2. l = r + 1
                  BY <3>1, <1>2, <1>4
            <3> QED BY <3>2, <2>2
      <2> QED BY <2>3, <2>4, <1>10
<1> QED BY <1>12, <1>14, <1>15, <1>16, SMTT(40) DEF OrderedExactlyOnce

\* A turn that ends in committed or failed resolves the head and nothing else.
LEMMA ResolveStep ==
    ASSUME IndInv, NEW s \in Slot, CommitSessionReady(s) \/ FailSessionReady(s)
    PROVE  IndInv'
<1> DEFINE m == slot[s].msg
           r == mailbox.resolved
<1>1. Fenced(s)
      BY SMTT(40) DEF CommitSessionReady, FailSessionReady
<1>2. /\ m \in Msg /\ mailbox.status = "RUNNING" /\ mailbox.processing = r + 1
      /\ r + 1 \in 1 .. Len(queue) /\ queue[r + 1] = m
      /\ slot[s].attempt = attempt[m] /\ inbound[m] = "processing"
      /\ \A i \in 1 .. Len(queue) : queue[i] = m => i = r + 1
      BY <1>1, FenceFacts, ZenonT(40)
<1>3. PICK c \in {"committed", "failed"} :
         /\ turn' = [turn EXCEPT ![m] = [turn[m] EXCEPT !.status = c]]
         /\ inbound' = [inbound EXCEPT ![m] = c]
         /\ IF c = "committed" THEN log' = Append(log, m)
            ELSE log' = log /\ ~AttemptsLeft(s)
      <2>1. CASE CommitSessionReady(s)
            BY <2>1, SMTT(40) DEF CommitSessionReady
      <2>2. CASE FailSessionReady(s)
            BY <2>2, SMTT(40) DEF FailSessionReady
      <2> QED BY <2>1, <2>2
<1>4. /\ session' = ReleasedSession /\ Advance(mailbox.processing)
      /\ slot' = [slot EXCEPT ![s] = IdleSlot]
      /\ UNCHANGED <<queue, itemRetry, attempt, deliveries, faults>>
      BY DEF CommitSessionReady, FailSessionReady
<1>5. /\ TypeOK /\ mailbox \in MailboxRow /\ session \in SessionRow /\ queue \in Seq(Msg)
      /\ log \in Seq(Msg)
      /\ inbound \in [Msg -> {"none", "accepted", "processing", "committed", "failed"}]
      /\ turn \in [Msg -> [status : {"none", "processing", "committed", "failed"}, token : Nat]]
      BY SMTT(40) DEF IndInv, TypeOK
<1>6. r \in Nat /\ mailbox.accepted \in Nat /\ mailbox.accepted = Len(queue)
      BY <1>5, MailboxFields DEF IndInv, ItemsInv
<1> HIDE DEF m, r
<1>7. /\ mailbox' \in MailboxRow /\ mailbox'.status = StatusAt(r + 2)
      /\ mailbox'.resolved = r + 1 /\ mailbox'.processing = 0
      /\ mailbox'.accepted = mailbox.accepted
      /\ mailbox'.owner = None /\ mailbox'.lease = "null"
      /\ mailbox'.epoch = mailbox.epoch
      /\ mailbox'.retry = IF mailbox'.status = "RETRY_WAIT" THEN "waiting" ELSE "null"
      /\ ready' \subseteq Nat
      /\ mailbox'.status = "QUEUED" => mailbox'.generation \in ready'
      <2>1. r + 1 \in Nat /\ (r + 1) + 1 = r + 2
            BY <1>6
      <2>2. Advance(r + 1)
            BY <1>2, <1>4, ZenonT(40)
      <2> QED BY <2>1, <2>2, <1>5, AdvanceRow
<1>8. /\ mailbox'.status \in {"IDLE", "QUEUED", "RETRY_WAIT"}
      /\ mailbox'.status = "IDLE" <=> r + 1 = mailbox.accepted
      /\ mailbox'.status = "QUEUED" => itemRetry[queue[r + 2]] # "waiting"
      /\ r + 1 <= mailbox.accepted
      <2>1. r + 1 <= mailbox.accepted
            BY <1>2, <1>6
      <2> QED BY <2>1, <1>6, <1>7, SMTT(40) DEF StatusAt
<1>9. session' \in SessionRow /\ session'.epoch = session.epoch /\ session'.lease = "null"
      BY <1>4, <1>5, ReleasedSessionRow
<1>10. /\ inbound'[m] = c /\ turn'[m].status = c
       /\ \A x \in Msg \ {m} : inbound'[x] = inbound[x] /\ turn'[x] = turn[x]
       BY <1>2, <1>3, <1>5
<1>11. slot' \in [Slot -> SlotState] /\ TokenInv'
       BY <1>4, <1>7, <1>8, SlotReleased, ZenonT(40)
<1>12. TypeOK'
       <2>1. log' \in Seq(Msg)
             <3>1. Append(log, m) \in Seq(Msg)
                   BY <1>2, <1>5
             <3>2. CASE c = "committed"
                   <4>1. log' = Append(log, m)
                         BY <3>2, <1>3, ZenonT(40)
                   <4> QED BY <4>1, <3>1, ZenonT(40)
             <3>3. CASE c # "committed"
                   <4>1. log' = log
                         BY <3>3, <1>3, ZenonT(40)
                   <4> QED BY <4>1, <1>5, ZenonT(40)
             <3> QED BY <3>2, <3>3
       <2>2. inbound' \in [Msg -> {"none", "accepted", "processing", "committed", "failed"}]
             BY <1>3, <1>5, ZenonT(40)
       <2>3. [turn[m] EXCEPT !.status = c]
                \in [status : {"none", "processing", "committed", "failed"}, token : Nat]
             BY <1>2, <1>5, ZenonT(40)
       <2>4. turn' \in [Msg -> [status : {"none", "processing", "committed", "failed"},
                                token : Nat]]
             BY <2>3, <1>3, <1>5, ZenonT(40)
       <2> QED BY <2>1, <2>2, <2>4, <1>4, <1>7, <1>9, <1>11, SMTT(40) DEF IndInv, TypeOK
<1>13. RowConstraints' /\ NoForgottenWork'
       <2>1. RowConstraints'
             BY <1>7, <1>8, ZenonT(40) DEF RowConstraints
       <2>2. NoForgottenWork'
             BY <1>7, <1>8, ZenonT(40) DEF NoForgottenWork
       <2> QED BY <2>1, <2>2
<1>14. ItemsInv'
       <2>1. \A i \in 1 .. Len(queue) : queue[i] \in Msg
             BY <1>5, SMTT(40)
       <2>2. \A i \in 1 .. Len(queue) :
                IF i <= r + 1
                  THEN inbound'[queue[i]] \in {"committed", "failed"}
                  ELSE /\ inbound'[queue[i]] \in {"accepted", "processing"}
                       /\ turn'[queue[i]].status # "committed"
             <3> SUFFICES ASSUME NEW i \in 1 .. Len(queue)
                          PROVE  IF i <= r + 1
                                   THEN inbound'[queue[i]] \in {"committed", "failed"}
                                   ELSE /\ inbound'[queue[i]] \in {"accepted", "processing"}
                                        /\ turn'[queue[i]].status # "committed"
                 OBVIOUS
             <3>1. IF i <= r
                     THEN inbound[queue[i]] \in {"committed", "failed"}
                     ELSE /\ inbound[queue[i]] \in {"accepted", "processing"}
                          /\ turn[queue[i]].status # "committed"
                   BY SMTT(40) DEF IndInv, ItemsInv, r
             <3>2. CASE i = r + 1
                   BY <3>2, <1>2, <1>6, <1>10, SMTT(40)
             <3>3. CASE i # r + 1
                   <4>1. queue[i] # m /\ (i <= r + 1 <=> i <= r)
                         BY <3>3, <1>2, <1>6, SMTT(40)
                   <4> QED BY <4>1, <3>1, <2>1, <1>10, SMTT(40)
             <3> QED BY <3>2, <3>3, ZenonT(40)
       <2>3. \A x \in Msg : inbound'[x] = "none" <=> inbound[x] = "none"
             BY <1>2, <1>10, ZenonT(40)
       <2>4. \A x \in Msg : turn'[x].status = "committed" /\ inbound'[x] = "none" =>
                               turn[x].status = "committed"
             BY <1>10, ZenonT(40)
       <2>5. ItemsInv /\ queue' = queue /\ mailbox'.accepted = mailbox.accepted
             BY <1>4, <1>7, ZenonT(40) DEF IndInv
       <2>6. mailbox'.resolved = r + 1
             BY <1>7, ZenonT(40)
       <2> QED BY <2>2, <2>3, <2>4, <2>5, <2>6, ItemsMoved, ZenonT(40)
<1>15. RetryInv'
       <2>1. (r + 1) + 1 = r + 2
             BY <1>6, SMTT(40)
       <2> QED BY <2>1, <1>4, <1>7, <1>8 DEF RetryInv
<1>16. LeaseInv'
       BY <1>7, <1>8, <1>9, ZenonT(40) DEF IndInv, LeaseInv
<1>17. OrderedExactlyOnce'
       BY <1>2, <1>3, <1>4, <1>7, <1>10, OrderedResolve, SMTT(40) DEF r
<1>18. GivenUpAfterBudget'
       <2>1. attempt[m] \in Nat /\ MaxTurnAttempts \in Nat
             BY <1>2, <1>5, BoundAssumption, SMTT(40) DEF TypeOK
       <2>2. c = "failed" => attempt[m] >= MaxTurnAttempts
             BY <2>1, <1>2, <1>3 DEF AttemptsLeft, m
       <2>3. GivenUpAfterBudget /\ attempt' = attempt
             BY <1>4 DEF IndInv
       <2>4. ASSUME NEW x \in Msg, inbound'[x] = "failed"
             PROVE  attempt'[x] >= MaxTurnAttempts
             <3>1. CASE x = m
                   BY <3>1, <2>2, <2>3, <2>4, <1>10
             <3>2. CASE x # m
                   <4>1. inbound[x] = "failed"
                         BY <3>2, <2>4, <1>10
                   <4> QED BY <4>1, <2>3 DEF GivenUpAfterBudget
             <3> QED BY <3>1, <3>2
       <2> QED BY <2>4 DEF GivenUpAfterBudget
<1> QED BY <1>11, <1>12, <1>13, <1>14, <1>15, <1>16, <1>17, <1>18, SMTT(40) DEF IndInv

\* A turn that will be retried leaves its item at the head, waiting.
LEMMA RetryStep ==
    ASSUME IndInv, NEW s \in Slot, RetrySessionReady(s)
    PROVE  IndInv'
<1> DEFINE m == slot[s].msg
           r == mailbox.resolved
<1>1. Fenced(s)
      BY SMTT(40) DEF RetrySessionReady
<1>2. /\ m \in Msg /\ mailbox.status = "RUNNING" /\ mailbox.processing = r + 1
      /\ r + 1 \in 1 .. Len(queue) /\ queue[r + 1] = m /\ inbound[m] = "processing"
      /\ \A i \in 1 .. Len(queue) : queue[i] = m => i = r + 1
      BY <1>1, FenceFacts, ZenonT(40)
<1>3. /\ turn' = [turn EXCEPT ![m] = [turn[m] EXCEPT !.status = "failed"]]
      /\ inbound' = [inbound EXCEPT ![m] = "accepted"]
      /\ itemRetry' = [itemRetry EXCEPT ![m] = "waiting"]
      /\ mailbox' = Released(r, "RETRY_WAIT", 0)
      /\ session' = ReleasedSession
      /\ slot' = [slot EXCEPT ![s] = IdleSlot]
      /\ UNCHANGED <<queue, attempt, deliveries, log, ready, faults>>
      BY DEF RetrySessionReady
<1>4. /\ mailbox \in MailboxRow /\ session \in SessionRow /\ queue \in Seq(Msg)
      /\ inbound \in [Msg -> {"none", "accepted", "processing", "committed", "failed"}]
      /\ turn \in [Msg -> [status : {"none", "processing", "committed", "failed"}, token : Nat]]
      /\ itemRetry \in [Msg -> RetryState]
      BY DEF IndInv, TypeOK
<1>5. r \in Nat /\ mailbox.accepted \in Nat /\ mailbox.accepted = Len(queue)
      BY <1>4, MailboxFields, ZenonT(40) DEF IndInv, ItemsInv
<1> HIDE DEF m, r
<1>6. /\ mailbox' \in MailboxRow /\ mailbox'.status = "RETRY_WAIT" /\ mailbox'.resolved = r
      /\ mailbox'.processing = 0 /\ mailbox'.accepted = mailbox.accepted
      /\ mailbox'.owner = None /\ mailbox'.lease = "null" /\ mailbox'.epoch = mailbox.epoch
      /\ mailbox'.retry = "waiting"
      <2>1. "RETRY_WAIT" \in Status /\ 0 \in Nat
            BY DEF Status
      <2> QED BY <2>1, <1>3, <1>4, <1>5, ReleasedRow
<1>7. session' \in SessionRow /\ session'.epoch = session.epoch /\ session'.lease = "null"
      BY <1>3, <1>4, ReleasedSessionRow
<1>8. /\ inbound'[m] = "accepted" /\ turn'[m].status = "failed"
      /\ \A x \in Msg \ {m} : inbound'[x] = inbound[x] /\ turn'[x] = turn[x]
      BY <1>2, <1>3, <1>4
<1>9. slot' \in [Slot -> SlotState] /\ TokenInv'
      BY <1>3, <1>6, SlotReleased, ZenonT(40)
<1>10. TypeOK'
       <2>1. inbound' \in [Msg -> {"none", "accepted", "processing", "committed", "failed"}]
             BY <1>3, <1>4, ZenonT(40)
       <2>2. itemRetry' \in [Msg -> RetryState]
             BY <1>3, <1>4, ZenonT(40) DEF RetryState
       <2>3. [turn[m] EXCEPT !.status = "failed"]
                \in [status : {"none", "processing", "committed", "failed"}, token : Nat]
             BY <1>2, <1>4, SMTT(40)
       <2>4. turn' \in [Msg -> [status : {"none", "processing", "committed", "failed"},
                                token : Nat]]
             BY <2>3, <1>3, <1>4, ZenonT(40)
       <2> QED BY <2>1, <2>2, <2>4, <1>3, <1>6, <1>7, <1>9 DEF IndInv, TypeOK
<1>11. r < mailbox.accepted
       BY <1>2, <1>5
<1>12. RowConstraints'
       BY <1>5, <1>6, <1>11, SMTT(40) DEF RowConstraints
<1>13. NoForgottenWork'
       BY <1>5, <1>6, <1>11, SMTT(40) DEF NoForgottenWork
<1>14. ItemsInv'
       <2>1. \A i \in 1 .. Len(queue) : queue[i] \in Msg
             BY <1>4
       <2>2. \A i \in 1 .. Len(queue) :
                IF i <= r
                  THEN inbound'[queue[i]] \in {"committed", "failed"}
                  ELSE /\ inbound'[queue[i]] \in {"accepted", "processing"}
                       /\ turn'[queue[i]].status # "committed"
             <3> SUFFICES ASSUME NEW i \in 1 .. Len(queue)
                          PROVE  IF i <= r
                                   THEN inbound'[queue[i]] \in {"committed", "failed"}
                                   ELSE /\ inbound'[queue[i]] \in {"accepted", "processing"}
                                        /\ turn'[queue[i]].status # "committed"
                 OBVIOUS
             <3>1. IF i <= r
                     THEN inbound[queue[i]] \in {"committed", "failed"}
                     ELSE /\ inbound[queue[i]] \in {"accepted", "processing"}
                          /\ turn[queue[i]].status # "committed"
                   BY ZenonT(40) DEF IndInv, ItemsInv, r
             <3>2. CASE i = r + 1
                   BY <3>2, <1>2, <1>5, <1>8, SMTT(40)
             <3>3. CASE i # r + 1
                   BY <3>1, <3>3, <2>1, <1>2, <1>8, ZenonT(40)
             <3> QED BY <3>2, <3>3, ZenonT(40)
       <2>3. \A x \in Msg : inbound'[x] = "none" <=> inbound[x] = "none"
             BY <1>2, <1>8, SMTT(40)
       <2>4. \A x \in Msg : turn'[x].status = "committed" /\ inbound'[x] = "none" =>
                               turn[x].status = "committed"
             BY <1>8, ZenonT(40)
       <2>5. ItemsInv /\ queue' = queue /\ mailbox'.accepted = mailbox.accepted
             BY <1>3, <1>6, ZenonT(40) DEF IndInv
       <2>6. mailbox'.resolved = r
             BY <1>6, ZenonT(40)
       <2> QED BY <2>2, <2>3, <2>4, <2>5, <2>6, ItemsMoved, ZenonT(40)
<1>15. RetryInv'
       BY <1>6, SMTT(40) DEF RetryInv
<1>16. LeaseInv'
       BY <1>6, <1>7, ZenonT(40) DEF IndInv, LeaseInv
<1>17. OrderedExactlyOnce'
       <2>1. \A k \in 1 .. r : queue'[k] = queue[k] /\ inbound'[queue[k]] = inbound[queue[k]]
             <3> SUFFICES ASSUME NEW k \in 1 .. r PROVE inbound'[queue[k]] = inbound[queue[k]]
                 BY <1>3
             <3>1. k \in 1 .. Len(queue) /\ k # r + 1
                   BY <1>5, <1>11
             <3>2. queue[k] \in Msg /\ queue[k] # m
                   BY <3>1, <1>2, <1>4
             <3> QED BY <3>2, <1>8
       <2> QED BY <2>1, <1>3, <1>6, OrderedFrame, SMTT(40) DEF IndInv, r
<1>18. GivenUpAfterBudget'
       BY <1>3, <1>8 DEF IndInv, GivenUpAfterBudget
<1> QED BY <1>9, <1>10, <1>12, <1>13, <1>14, <1>15, <1>16, <1>17, <1>18 DEF IndInv

-----------------------------------------------------------------------------
(* No row changes *)

\* A step outside PostgreSQL and the execution slots: whatever failed there, the
\* rows are as they were.
LEMMA RowsKeptStep ==
    ASSUME IndInv, UNCHANGED <<rows, slot>>, faults' \in Nat
    PROVE  IndInv'
<1>1. UNCHANGED <<mailbox, session, queue, itemRetry, attempt, inbound, deliveries,
                  turn, log, ready, slot>>
      BY DEF rows
<1>2. TypeOK'
      BY <1>1, SMTT(20) DEF IndInv, TypeOK
<1>3. /\ RowConstraints' /\ NoForgottenWork' /\ ItemsInv' /\ RetryInv' /\ LeaseInv'
      /\ OrderedExactlyOnce' /\ GivenUpAfterBudget'
      BY <1>1, RowsFrame, ZenonT(40) DEF IndInv
<1>4. TokenInv'
      BY <1>1, TokenFrame, ZenonT(40) DEF IndInv
<1> QED BY <1>2, <1>3, <1>4, ZenonT(40) DEF IndInv

-----------------------------------------------------------------------------
(* The theorems *)

\* Every step of the specification keeps the inductive invariant.
LEMMA InvStep == IndInv /\ [Next]_vars => IndInv'
<1> SUFFICES ASSUME IndInv, [Next]_vars PROVE IndInv'
    OBVIOUS
<1>1. CASE Accept
      BY <1>1, AcceptDuplicateStep, AcceptStep DEF Accept
<1>2. ASSUME NEW s \in Slot, Claim(s) PROVE IndInv'
      BY <1>2, ClaimStep DEF Claim
<1>3. ASSUME NEW s \in Slot, Execute(s) PROVE IndInv'
      BY <1>3, SlotStep, RenewStep, ResolveStep, RetryStep DEF Execute
<1>4. ASSUME NEW g \in ready, ClaimWithoutLease(g) PROVE IndInv'
      BY <1>4, ClaimWithoutLeaseStep
<1>5. CASE Time
      BY <1>5, LeaseExpiryStep, DueStep DEF Time
<1>6. CASE Recover
      BY <1>6, SweepStep, ScheduleStep, ReconcileStep DEF Recover
<1>7. CASE UNCHANGED vars
      <2>1. UNCHANGED <<rows, slot>> /\ faults' \in Nat
            BY <1>7, SMTT(20) DEF vars, IndInv, TypeOK
      <2> QED BY <2>1, RowsKeptStep
<1> QED BY <1>1, <1>2, <1>3, <1>4, <1>5, <1>6, <1>7 DEF Next, Quiescent

\* The inductive invariant holds in every reachable state.
THEOREM Invariance == Spec => []IndInv
<1> QED BY InitInv, InvStep, PTL DEF Spec

\* Every row of the mailbox tables keeps its type.
THEOREM TypeCorrect == Spec => []TypeOK
<1>1. IndInv => TypeOK
      BY DEF IndInv
<1> QED BY <1>1, Invariance, PTL

\* No transaction of a worker or of a recovery role trips a CHECK constraint of
\* session_mailboxes.
THEOREM NoConstraintTrips == Spec => []RowConstraints
<1>1. IndInv => RowConstraints
      BY DEF IndInv
<1> QED BY <1>1, Invariance, PTL

\* The mailbox is IDLE exactly when nothing is unresolved and a queued mailbox
\* has a durable wake-up of its generation.
THEOREM NothingForgotten == Spec => []NoForgottenWork
<1>1. IndInv => NoForgottenWork
      BY DEF IndInv
<1> QED BY <1>1, Invariance, PTL

\* Two slots that pass the fence hold the same token, which no two slots share.
LEMMA OwnersAgree == IndInv => SingleExecution
<1>1. ASSUME IndInv, NEW s \in Slot, NEW t \in Slot, Owns(s), Owns(t)
      PROVE  s = t
      <2>1. /\ slot[s].phase # "idle" /\ slot[t].phase # "idle"
            /\ slot[s].token = slot[t].token
            BY <1>1 DEF Owns
      <2>2. TokenInv
            BY <1>1 DEF IndInv
      <2> QED BY <1>1, <2>1, <2>2 DEF TokenInv
<1> QED BY <1>1 DEF SingleExecution

\* A slot that passes the fence has read the log as it is now.
LEMMA HistoryIsWhole == IndInv => NoLostUpdate
<1> SUFFICES ASSUME IndInv, NEW s \in Slot, slot[s].phase = "hydrated", Fenced(s)
             PROVE  slot[s].base = Len(log)
    BY DEF NoLostUpdate
<1> QED BY FenceFacts, ZenonT(40)

\* At most one slot passes the fence of the mailbox and session leases.
THEOREM OneExecution == Spec => []SingleExecution
<1> QED BY OwnersAgree, Invariance, PTL

\* A turn that can be committed was computed from the whole committed history.
THEOREM CompleteHistory == Spec => []NoLostUpdate
<1> QED BY HistoryIsWhole, Invariance, PTL

\* Turns are committed once and in the order their messages were accepted.
THEOREM OrderedOnce == Spec => []OrderedExactlyOnce
<1>1. IndInv => OrderedExactlyOnce
      BY DEF IndInv
<1> QED BY <1>1, Invariance, PTL

\* A message is given up only after max_turn_attempts claims.
THEOREM BudgetRespected == Spec => []GivenUpAfterBudget
<1>1. IndInv => GivenUpAfterBudget
      BY DEF IndInv
<1> QED BY <1>1, Invariance, PTL

-----------------------------------------------------------------------------
(* The action property *)

\* A step that only rewrites the row by Released, without touching the messages,
\* moves forward.
LEMMA ForwardRelease ==
    ASSUME TypeOK, NEW st \in Status, NEW b \in {0, 1},
           NEW r \in {mailbox.resolved, mailbox.resolved + 1},
           mailbox' = Released(r, st, b)
    PROVE  /\ mailbox'.epoch >= mailbox.epoch
           /\ mailbox'.generation >= mailbox.generation
           /\ mailbox'.resolved \in {mailbox.resolved, mailbox.resolved + 1}
<1>1. /\ mailbox \in MailboxRow /\ mailbox.resolved \in Nat /\ mailbox.epoch \in Nat
      /\ mailbox.generation \in Nat
      BY MailboxFields DEF TypeOK
<1>2. r \in Nat /\ b \in Nat
      BY <1>1
<1>3. /\ Released(r, st, b).epoch = mailbox.epoch /\ Released(r, st, b).resolved = r
      /\ Released(r, st, b).generation = mailbox.generation + b
      BY <1>1, <1>2 DEF Released, MailboxRow
<1>4. /\ mailbox'.epoch = mailbox.epoch /\ mailbox'.resolved = r
      /\ mailbox'.generation = mailbox.generation + b
      BY <1>3, Zenon
<1> QED BY <1>1, <1>4

\* The sessions row keeps its epoch when its lease is cleared or left alone.
LEMMA ForwardSession ==
    ASSUME TypeOK, session' \in {session, ReleasedSession}
    PROVE  session'.epoch >= session.epoch
<1>1. session \in SessionRow /\ session.epoch \in Nat
      BY DEF TypeOK, SessionRow
<1>2. session'.epoch = session.epoch
      BY <1>1, ReleasedSessionRow
<1> QED BY <1>1, <1>2

\* Every step of the mailbox moves forward, from the inductive invariant: the
\* message a terminal transition rewrites is being processed, hence neither
\* committed nor given up.
LEMMA ForwardStep ==
    ASSUME IndInv, [Next]_vars
    PROVE  Forward \/ UNCHANGED vars
<1>0. /\ TypeOK /\ mailbox \in MailboxRow /\ session \in SessionRow
      /\ mailbox.resolved \in Nat /\ mailbox.epoch \in Nat
      /\ mailbox.generation \in Nat /\ session.epoch \in Nat
      /\ inbound \in [Msg -> {"none", "accepted", "processing", "committed", "failed"}]
      BY MailboxFields, SMTT(40) DEF IndInv, TypeOK, SessionRow
<1>1. ASSUME NEW m \in Msg, AcceptDuplicate(m) PROVE Forward
      BY <1>0, <1>1 DEF AcceptDuplicate, Forward
<1>2. ASSUME NEW m \in Msg, NEW r \in {"null", "waiting"}, AcceptInboundV2(m, r)
      PROVE  Forward
      <2>1. /\ inbound[m] = "none" /\ inbound' = [inbound EXCEPT ![m] = "accepted"]
            /\ session' = session
            BY <1>2 DEF AcceptInboundV2
      <2>2. /\ mailbox'.epoch = mailbox.epoch /\ mailbox'.resolved = mailbox.resolved
            /\ mailbox'.generation \in {mailbox.generation, mailbox.generation + 1}
            BY <1>0, <1>2 DEF AcceptInboundV2, MailboxRow
      <2> QED BY <2>1, <2>2, <1>0 DEF Forward
<1>3. ASSUME NEW s \in Slot, NEW g, ClaimSessionReady(s, g) PROVE Forward
      <2>1. HeadMsg \in Msg /\ inbound[HeadMsg] \in {"accepted", "processing"}
            BY <1>3, HeadFacts, ClaimOutcomeFacts DEF ClaimSessionReady
      <2>2. inbound' = [inbound EXCEPT ![HeadMsg] = "processing"]
            BY <1>3 DEF ClaimSessionReady
      <2>3. /\ session'.epoch = NextEpoch /\ mailbox'.epoch = NextEpoch
            /\ mailbox'.generation = mailbox.generation
            /\ mailbox'.resolved = mailbox.resolved
            BY <1>0, <1>3 DEF ClaimSessionReady, MailboxRow
      <2>4. NextEpoch >= mailbox.epoch /\ NextEpoch >= session.epoch
            BY <1>0 DEF NextEpoch
      <2> QED BY <2>1, <2>2, <2>3, <2>4, <1>0 DEF Forward
<1>4. ASSUME NEW g, ClaimWithoutLease(g) PROVE Forward
      <2>1. DeferToHead /\ inbound' = inbound
            BY <1>4, ClaimOutcomeFacts DEF ClaimWithoutLease
      <2>2. /\ mailbox'.epoch = mailbox.epoch /\ mailbox'.resolved = mailbox.resolved
            /\ mailbox'.generation = mailbox.generation /\ session' = session
            BY <2>1, <1>0 DEF DeferToHead, MailboxRow
      <2> QED BY <2>1, <2>2, <1>0 DEF Forward
<1>5. ASSUME NEW s \in Slot, ReadSnapshot(s) \/ FencingConflict(s) \/ Crash(s)
      PROVE  Forward
      BY <1>0, <1>5 DEF ReadSnapshot, FencingConflict, Crash, rows, Forward
<1>6. ASSUME NEW s \in Slot, RenewSessionReady(s) PROVE Forward
      <2>1. /\ mailbox' = [mailbox EXCEPT !.lease = "live"]
            /\ session' = [session EXCEPT !.lease = "live"] /\ inbound' = inbound
            BY <1>6 DEF RenewSessionReady
      <2>2. /\ mailbox'.epoch = mailbox.epoch /\ mailbox'.resolved = mailbox.resolved
            /\ mailbox'.generation = mailbox.generation /\ session'.epoch = session.epoch
            BY <2>1, <1>0, SMTT(40) DEF MailboxRow, SessionRow
      <2> QED BY <2>1, <2>2, <1>0 DEF Forward
<1>7. ASSUME NEW s \in Slot,
             CommitSessionReady(s) \/ FailSessionReady(s) \/ RetrySessionReady(s)
      PROVE  Forward
      <2>1. Fenced(s) /\ session' = ReleasedSession
            BY <1>7, SMTT(40) DEF CommitSessionReady, FailSessionReady, RetrySessionReady
      <2>2. /\ inbound[slot[s].msg] = "processing" /\ slot[s].msg \in Msg
            /\ mailbox.processing = mailbox.resolved + 1
            BY <2>1, FenceFacts, ZenonT(40)
      <2>3. \A m \in Msg : m # slot[s].msg => inbound'[m] = inbound[m]
            BY <1>0, <1>7 DEF CommitSessionReady, FailSessionReady, RetrySessionReady
      <2>4. PICK st \in Status, b \in {0, 1}, r \in {mailbox.resolved, mailbox.resolved + 1} :
               mailbox' = Released(r, st, b)
            <3>1. CASE CommitSessionReady(s) \/ FailSessionReady(s)
                  <4>1. Advance(mailbox.resolved + 1)
                        BY <3>1, <2>2 DEF CommitSessionReady, FailSessionReady
                  <4>2. \A x : Bump(x) \in {0, 1}
                        BY DEF Bump
                  <4> QED BY <4>1, <4>2, StatusAtType DEF Advance
            <3>2. CASE RetrySessionReady(s)
                  BY <3>2 DEF RetrySessionReady, Status
            <3> QED BY <1>7, <3>1, <3>2
      <2>5. /\ mailbox'.epoch >= mailbox.epoch /\ mailbox'.generation >= mailbox.generation
            /\ mailbox'.resolved \in {mailbox.resolved, mailbox.resolved + 1}
            BY <2>4, <1>0, ForwardRelease
      <2>6. session'.epoch >= session.epoch
            BY <2>1, <1>0, ForwardSession
      <2> QED BY <2>2, <2>3, <2>5, <2>6 DEF Forward
<1>8. CASE MailboxLeaseExpires \/ SessionLeaseExpires \/ MailboxRetryDue
           \/ (\E m \in Msg : ItemRetryDue(m))
      <2>1. /\ mailbox'.epoch = mailbox.epoch /\ mailbox'.resolved = mailbox.resolved
            /\ mailbox'.generation = mailbox.generation /\ session'.epoch = session.epoch
            BY <1>0, <1>8 DEF MailboxLeaseExpires, SessionLeaseExpires, MailboxRetryDue,
               ItemRetryDue, MailboxRow, SessionRow
      <2>2. inbound' = inbound
            BY <1>8 DEF MailboxLeaseExpires, SessionLeaseExpires, MailboxRetryDue, ItemRetryDue
      <2> QED BY <2>1, <2>2, <1>0 DEF Forward
<1>9. CASE SweepExpiredSessionLeases \/ ReconcileSessionMailboxes
      <2>1. inbound' = inbound /\ session' \in {session, ReleasedSession}
            BY <1>9, ZenonT(40) DEF SweepExpiredSessionLeases, ReconcileSessionMailboxes, ClearSessionLease
      <2>2. PICK st \in Status, b \in {0, 1} : mailbox' = Released(mailbox.resolved, st, b)
            <3>1. \A x : Bump(x) \in {0, 1}
                  BY DEF Bump
            <3>2. "IDLE" \in Status
                  BY DEF Status
            <3>3. CASE SweepExpiredSessionLeases
                  BY <3>1, <3>2, <3>3, StatusAtType DEF SweepExpiredSessionLeases
            <3>4. CASE ReconcileSessionMailboxes
                  <4>1. Requeue
                        BY <3>4, HeadFacts DEF ReconcileSessionMailboxes
                  <4> QED BY <4>1, <3>1, <3>2, StatusAtType DEF Requeue
            <3> QED BY <1>9, <3>3, <3>4
      <2>3. /\ mailbox'.epoch >= mailbox.epoch /\ mailbox'.generation >= mailbox.generation
            /\ mailbox'.resolved \in {mailbox.resolved, mailbox.resolved + 1}
            BY <2>2, <1>0, ForwardRelease
      <2>4. session'.epoch >= session.epoch
            BY <2>1, <1>0, ForwardSession
      <2> QED BY <2>1, <2>3, <2>4 DEF Forward
<1>10. CASE ScheduleSessionMailboxRetries
      <2>1. /\ mailbox' = [mailbox EXCEPT !.status = "QUEUED", !.retry = "null",
                                          !.generation = mailbox.generation + 1]
            /\ inbound' = inbound /\ session' = session
            BY <1>10 DEF ScheduleSessionMailboxRetries
      <2>2. /\ mailbox'.epoch = mailbox.epoch /\ mailbox'.resolved = mailbox.resolved
            /\ mailbox'.generation = mailbox.generation + 1
            BY <2>1, <1>0 DEF MailboxRow
      <2> QED BY <2>1, <2>2, <1>0 DEF Forward
<1> QED BY <1>1, <1>2, <1>3, <1>4, <1>5, <1>6, <1>7, <1>8, <1>9, <1>10, ZenonT(40)
        DEF Next, Accept, Claim, Execute, Time, Recover, Quiescent

\* Committed and given-up messages stay so, and the fencing epochs, the
\* generation and the resolved sequence never go back.
THEOREM Monotonic == Spec => NoRegression
<1>1. IndInv /\ [Next]_vars => [Forward]_vars
      BY ForwardStep
<1> QED BY <1>1, Invariance, PTL DEF Spec, NoRegression

-----------------------------------------------------------------------------
(* The refinement: every transaction of a worker or of a recovery role is a step
   of the contract or leaves it unchanged *)

\* A session without a message is an empty inbox.
LEMMA InitRefines == Init => Inbox!Init
<1> SUFFICES ASSUME Init PROVE Inbox!Init
    OBVIOUS
<1>1. /\ mailbox = [status |-> "IDLE", accepted |-> 0, resolved |-> 0,
                    processing |-> 0, generation |-> 0, owner |-> None,
                    epoch |-> 0, lease |-> "null", retry |-> "null"]
      /\ queue = <<>> /\ log = <<>>
      BY ZenonT(40) DEF Init
<1>2. mailbox.resolved = 0
      BY <1>1
<1> QED BY <1>1, <1>2, ZenonT(40) DEF Inbox!Init

\* A step that keeps the items, the log and the resolved sequence stutters.
LEMMA Stutters ==
    ASSUME queue' = queue, log' = log, mailbox'.resolved = mailbox.resolved
    PROVE  UNCHANGED Inbox!vars
BY DEF Inbox!vars

\* accept_inbound_v2 appends a message that is not yet in the queue.
LEMMA AcceptRefines ==
    ASSUME IndInv, NEW m \in Msg, NEW r \in {"null", "waiting"}, AcceptInboundV2(m, r)
    PROVE  Inbox!Accept(m)
<1>1. inbound[m] = "none" /\ queue' = Append(queue, m) /\ log' = log
      BY DEF AcceptInboundV2
<1>2. \A i \in 1 .. Len(queue) : queue[i] # m
      BY <1>1 DEF IndInv, ItemsInv
<1>3. mailbox'.resolved = mailbox.resolved
      BY DEF AcceptInboundV2, IndInv, TypeOK, MailboxRow
<1> QED BY <1>1, <1>2, <1>3 DEF Inbox!Accept

\* commit_session_ready and fail_session_ready resolve the head of the queue.
LEMMA ResolveRefines ==
    ASSUME IndInv, NEW s \in Slot, CommitSessionReady(s) \/ FailSessionReady(s)
    PROVE  Inbox!Commit \/ Inbox!GiveUp
<1> DEFINE m == slot[s].msg
           r == mailbox.resolved
<1>1. Fenced(s)
      BY DEF CommitSessionReady, FailSessionReady
<1>2. mailbox.processing = r + 1 /\ r + 1 \in 1 .. Len(queue) /\ queue[r + 1] = m
      BY <1>1, FenceFacts, ZenonT(40)
<1>3. TypeOK /\ r \in Nat /\ Len(queue) \in Nat
      BY MailboxFields, SMTT(40) DEF IndInv, TypeOK
<1>4. Advance(r + 1) /\ r + 1 \in Nat /\ queue' = queue
      BY <1>2, <1>3 DEF CommitSessionReady, FailSessionReady
<1>5. mailbox'.resolved = r + 1
      BY <1>3, <1>4, AdvanceRow
<1>6. r < Len(queue)
      <2>1. r + 1 \in 1 .. Len(queue)
            BY <1>2
      <2>2. r \in Nat /\ Len(queue) \in Nat
            BY <1>3
      <2> HIDE DEF r
      <2> QED BY <2>1, <2>2, SMTT(30)
<1>7. log' = Append(log, queue[r + 1]) \/ log' = log
      BY <1>2 DEF CommitSessionReady, FailSessionReady
<1> QED BY <1>4, <1>5, <1>6, <1>7 DEF Inbox!Commit, Inbox!GiveUp

\* A row rewritten by Released at the same resolved sequence keeps it.
LEMMA ReleasedKeepsResolved ==
    ASSUME IndInv, NEW st \in Status, NEW b \in {0, 1},
           mailbox' = Released(mailbox.resolved, st, b)
    PROVE  mailbox'.resolved = mailbox.resolved
<1>1. mailbox \in MailboxRow /\ mailbox.resolved \in Nat /\ b \in Nat
      BY MailboxFields DEF IndInv, TypeOK
<1> QED BY <1>1, ReleasedRow

\* The sweeper and the reconciler leave the resolved sequence alone: in a
\* reachable state no head is committed and still unresolved.
LEMMA RecoveryStutters ==
    ASSUME IndInv, SweepExpiredSessionLeases \/ ReconcileSessionMailboxes
    PROVE  UNCHANGED Inbox!vars
<1>1. queue' = queue /\ log' = log
      BY DEF SweepExpiredSessionLeases, ReconcileSessionMailboxes
<1>2. PICK st \in Status, b \in {0, 1} : mailbox' = Released(mailbox.resolved, st, b)
      <2>1. \A x : Bump(x) \in {0, 1}
            BY DEF Bump
      <2>2. "IDLE" \in Status
            BY DEF Status
      <2>3. CASE SweepExpiredSessionLeases
            BY <2>1, <2>2, <2>3, StatusAtType DEF SweepExpiredSessionLeases
      <2>4. CASE ReconcileSessionMailboxes
            <3>1. Requeue
                  BY <2>4, HeadFacts DEF ReconcileSessionMailboxes
            <3> QED BY <3>1, <2>1, <2>2, StatusAtType DEF Requeue
      <2> QED BY <2>3, <2>4
<1> QED BY <1>1, <1>2, ReleasedKeepsResolved, Stutters

\* Every step of the mailbox is a step of the contract or a stutter.
LEMMA StepRefines ==
    ASSUME IndInv, [Next]_vars
    PROVE  [Inbox!Next]_(Inbox!vars)
<1>0. mailbox \in MailboxRow /\ session \in SessionRow /\ TypeOK
      BY DEF IndInv, TypeOK
<1>1. ASSUME NEW m \in Msg, AcceptDuplicate(m) PROVE UNCHANGED Inbox!vars
      BY <1>1, Stutters DEF AcceptDuplicate
<1>2. ASSUME NEW m \in Msg, NEW r \in {"null", "waiting"}, AcceptInboundV2(m, r)
      PROVE  Inbox!Next
      BY <1>2, AcceptRefines DEF Inbox!Next
<1>3. ASSUME NEW s \in Slot, NEW g, ClaimSessionReady(s, g) PROVE UNCHANGED Inbox!vars
      <2>1. mailbox'.resolved = mailbox.resolved
            BY <1>0, <1>3 DEF ClaimSessionReady, MailboxRow
      <2> QED BY <2>1, <1>3, Stutters DEF ClaimSessionReady
<1>4. ASSUME NEW g, ClaimWithoutLease(g) PROVE UNCHANGED Inbox!vars
      <2>1. DeferToHead /\ queue' = queue /\ log' = log
            BY <1>4, ClaimOutcomeFacts DEF ClaimWithoutLease
      <2>2. mailbox'.resolved = mailbox.resolved
            BY <2>1, <1>0 DEF DeferToHead, MailboxRow
      <2> QED BY <2>1, <2>2, Stutters
<1>5. ASSUME NEW s \in Slot, ReadSnapshot(s) \/ FencingConflict(s) \/ Crash(s)
      PROVE  UNCHANGED Inbox!vars
      BY <1>5, Stutters DEF ReadSnapshot, FencingConflict, Crash, rows
<1>6. ASSUME NEW s \in Slot, RenewSessionReady(s) PROVE UNCHANGED Inbox!vars
      <2>1. mailbox'.resolved = mailbox.resolved
            BY <1>0, <1>6 DEF RenewSessionReady, MailboxRow
      <2> QED BY <2>1, <1>6, Stutters DEF RenewSessionReady
<1>7. ASSUME NEW s \in Slot, CommitSessionReady(s) \/ FailSessionReady(s)
      PROVE  Inbox!Next
      BY <1>7, ResolveRefines DEF Inbox!Next
<1>8. ASSUME NEW s \in Slot, RetrySessionReady(s) PROVE UNCHANGED Inbox!vars
      <2>1. "RETRY_WAIT" \in Status /\ 0 \in {0, 1}
            BY DEF Status
      <2>2. mailbox' = Released(mailbox.resolved, "RETRY_WAIT", 0)
            BY <1>8 DEF RetrySessionReady
      <2>3. mailbox'.resolved = mailbox.resolved
            BY <2>1, <2>2, ReleasedKeepsResolved
      <2> QED BY <2>3, <1>8, Stutters DEF RetrySessionReady
<1>9. CASE Time
      <2>1. mailbox'.resolved = mailbox.resolved
            BY <1>0, <1>9 DEF Time, MailboxLeaseExpires, SessionLeaseExpires, MailboxRetryDue,
               ItemRetryDue, MailboxRow
      <2>2. queue' = queue /\ log' = log
            BY <1>9 DEF Time, MailboxLeaseExpires, SessionLeaseExpires, MailboxRetryDue,
               ItemRetryDue
      <2> QED BY <2>1, <2>2, Stutters
<1>10. CASE SweepExpiredSessionLeases \/ ReconcileSessionMailboxes
      BY <1>10, RecoveryStutters
<1>11. CASE ScheduleSessionMailboxRetries
      <2>1. mailbox'.resolved = mailbox.resolved
            BY <1>0, <1>11 DEF ScheduleSessionMailboxRetries, MailboxRow
      <2> QED BY <2>1, <1>11, Stutters DEF ScheduleSessionMailboxRetries
<1>12. CASE UNCHANGED vars
      BY <1>12, Stutters DEF vars, rows
<1> QED BY <1>1, <1>2, <1>3, <1>4, <1>5, <1>6, <1>7, <1>8, <1>9, <1>10, <1>11, <1>12
       , ZenonT(40) DEF Next, Accept, Claim, Execute, Recover, Quiescent

\* The mailbox, its workers and its recovery roles together implement the
\* ordered inbox, for any number of messages, slots, attempts and faults.
THEOREM Refinement == Spec => ImplementsInbox
<1>1. IndInv /\ [Next]_vars => [Inbox!Next]_(Inbox!vars)
      BY StepRefines
<1> QED BY <1>1, InitRefines, Invariance, PTL DEF Spec, ImplementsInbox, Inbox!Spec

=============================================================================
