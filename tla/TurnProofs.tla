----------------------------- MODULE TurnProofs -----------------------------
(***************************************************************************)
(* The turns of the two schedulers.                                        *)
(*                                                                         *)
(* First, what a claimed turn may do, for every number of turns, claims,   *)
(* attempts and faults of WorkerTurn.  The invariant ties an execution to  *)
(* the mailbox row only while the row is running under its fence: then the *)
(* anchor and the turn of its claim are those of the row.  What an         *)
(* execution has read past its check equals the anchor, so an execution    *)
(* that still owns the row has read all of the history, however many       *)
(* others ran in between.                                                  *)
(*                                                                         *)
(* Then the turns of the v1 scheduler, for every number of workers, slots  *)
(* and messages of a session.                                              *)
(***************************************************************************)
EXTENDS WorkerTurn, LegacyScheduler, TLAPS

\* Past the comparison of the snapshot with the anchor, up to the commit.
AfterRead == {"confirming", "preparing", "running", "stopping", "committing"}
PostCommit == {"memory", "get", "put"}

RowInv ==
    /\ mb.live => mb.status = "running"
    /\ mb.status = "running" => mb.turn <= MaxTurn
    /\ mb.version < mb.turn
    /\ mb.attempt <= mb.epoch
    /\ summary.version <= summary.upTo + 1

ExecInv(e) ==
    /\ exec[e].pc \in AfterRead => exec[e].read = exec[e].anchor
    /\ exec[e].pc \in PostCommit => exec[e].seq \in 1 .. mb.version
    /\ mb.status = "running" /\ mb.epoch = e /\ exec[e].pc \notin {"none", "ended"} =>
          exec[e].anchor = mb.version /\ exec[e].turn = mb.turn

TurnInv == TurnTypeOK /\ DerivedFromCommitted /\ RowInv /\ \A e \in Epoch : ExecInv(e)

-----------------------------------------------------------------------------
(* The parts of the state *)

\* An execution goes on to another phase and keeps what it knows.
LEMMA PhaseSet ==
    ASSUME NEW x \in Execution, NEW p \in Phase
    PROVE  /\ [x EXCEPT !.pc = p] \in Execution
           /\ [x EXCEPT !.pc = p].pc = p
           /\ [x EXCEPT !.pc = p].anchor = x.anchor
           /\ [x EXCEPT !.pc = p].turn = x.turn
           /\ [x EXCEPT !.pc = p].read = x.read
           /\ [x EXCEPT !.pc = p].seq = x.seq
<1>1. [x EXCEPT !.pc = p] \in Execution
  BY ZenonT(40) DEF Execution
<1>2. QED
  BY <1>1 DEF Execution

\* An execution that ended knows nothing of its claim.
LEMMA EndTyped ==
    /\ NoExec \in Execution
    /\ [NoExec EXCEPT !.pc = "ended"] \in Execution
    /\ [NoExec EXCEPT !.pc = "ended"].pc = "ended"
<1>1. NoExec \in Execution
  BY TurnAssumption DEF NoExec, Execution, Phase
<1>2. "ended" \in Phase
  BY DEF Phase
<1>3. QED
  BY <1>1, <1>2, PhaseSet

\* The bounds are numbers.
LEMMA Bounds ==
    MaxTurn \in Nat /\ MaxEpoch \in Nat /\ MaxFaults \in Nat /\ 1 <= MaxTurn /\ 1 <= MaxEpoch
BY TurnAssumption

\* The parts of the mailbox row and of an execution, taken from the types.
LEMMA Typed ==
    ASSUME TurnInv
    PROVE  /\ mb.status \in {"ready", "running"} /\ mb.turn \in 1 .. MaxTurn + 1
           /\ mb.epoch \in 0 .. MaxEpoch /\ mb.attempt \in 0 .. MaxEpoch
           /\ mb.live \in BOOLEAN /\ mb.version \in 0 .. MaxTurn
           /\ summary.upTo \in -1 .. MaxTurn /\ summary.version \in -1 .. MaxTurn + 1
           /\ faults \in 0 .. MaxFaults
           /\ exec \in [Epoch -> Execution]
           /\ \A e \in Epoch : exec[e] \in Execution
BY DEF TurnInv, TurnTypeOK, MailboxRow

\* The bound on the faults of the model.
LEMMA FaultTyped ==
    ASSUME faults \in 0 .. MaxFaults, Fault \/ faults' = faults
    PROVE  faults' \in 0 .. MaxFaults
BY TurnAssumption DEF Fault

\* Steps of one execution that leave the rows alone: it ends, or keeps the
\* anchor and the turn of its claim, reads nothing but the anchor, and is past
\* its commit only if it was before.
LEMMA ExecStep ==
    ASSUME TurnInv, NEW e \in Epoch, NEW x \in Execution,
           UNCHANGED <<mb, memories, summary>>, Fault \/ faults' = faults,
           exec' = [exec EXCEPT ![e] = x],
           \/ x.pc = "ended"
           \/ /\ x.anchor = exec[e].anchor /\ x.turn = exec[e].turn
              /\ x.pc \notin {"none", "ended"} => exec[e].pc \notin {"none", "ended"}
              /\ x.pc \in AfterRead =>
                    x.read = x.anchor \/ (exec[e].pc \in AfterRead /\ x.read = exec[e].read)
              /\ x.pc \in PostCommit => exec[e].pc \in PostCommit /\ x.seq = exec[e].seq
    PROVE  TurnInv'
<1>1. exec' \in [Epoch -> Execution] /\ faults' \in 0 .. MaxFaults
  BY Typed, FaultTyped
<1>2. TurnTypeOK' /\ DerivedFromCommitted' /\ RowInv'
  BY <1>1 DEF TurnInv, TurnTypeOK, DerivedFromCommitted, RowInv
<1>3. ASSUME NEW d \in Epoch PROVE ExecInv(d)'
  <2>1. CASE d # e
    <3>1. exec'[d] = exec[d]
      BY <2>1, Typed
    <3>2. QED
      BY <3>1 DEF TurnInv, ExecInv
  <2>2. CASE d = e
    <3>1. exec'[e] = x
      BY Typed
    <3>2. CASE x.pc = "ended"
      BY <2>2, <3>1, <3>2 DEF ExecInv, AfterRead, PostCommit
    <3>3. CASE x.pc # "ended"
      BY <2>2, <3>1, <3>3 DEF TurnInv, ExecInv
    <3>4. QED
      BY <3>2, <3>3
  <2>3. QED
    BY <2>1, <2>2
<1>4. QED
  BY <1>2, <1>3 DEF TurnInv

\* The same for a step to another phase that is neither past the read nor past
\* the commit unless the execution was there before.
LEMMA PhaseStep ==
    ASSUME TurnInv, NEW e \in Epoch, NEW p \in Phase, At(e, p),
           UNCHANGED <<mb, memories, summary>>, Fault \/ faults' = faults,
           exec[e].pc \notin {"none", "ended"},
           p \in AfterRead => exec[e].pc \in AfterRead,
           p \in PostCommit => exec[e].pc \in PostCommit
    PROVE  TurnInv'
<1>1. exec[e] \in Execution
  BY Typed
<1> DEFINE x == [exec[e] EXCEPT !.pc = p]
<1>2. exec' = [exec EXCEPT ![e] = x]
  BY DEF At
<1>3. /\ x \in Execution /\ x.pc = p /\ x.anchor = exec[e].anchor /\ x.turn = exec[e].turn
      /\ x.read = exec[e].read /\ x.seq = exec[e].seq
  BY <1>1, PhaseSet
<1> HIDE DEF x
<1>4. QED
  BY <1>2, <1>3, ExecStep

\* The same for the end of an execution.
LEMMA EndStep ==
    ASSUME TurnInv, NEW e \in Epoch, End(e),
           UNCHANGED <<mb, memories, summary>>, Fault \/ faults' = faults
    PROVE  TurnInv'
<1> DEFINE x == [NoExec EXCEPT !.pc = "ended"]
<1>1. x \in Execution /\ x.pc = "ended"
  BY EndTyped
<1>2. exec' = [exec EXCEPT ![e] = x]
  BY DEF End
<1> HIDE DEF x
<1>3. QED
  BY <1>1, <1>2, ExecStep

-----------------------------------------------------------------------------
(* The session around the worker *)

\* A claim begins an execution on the row as it is; the executions before it
\* are fenced out.
LEMMA ClaimStep ==
    ASSUME TurnInv, Claim
    PROVE  TurnInv'
<1>1. mb.turn <= MaxTurn /\ mb.epoch < MaxEpoch /\ mb.attempt <= mb.epoch
  BY DEF Claim, TurnInv, RowInv
<1>2. /\ mb.turn \in 0 .. MaxTurn /\ mb.attempt + 1 \in Nat /\ mb.version \in Nat
      /\ mb.epoch + 1 \in Epoch
      /\ mb.epoch + 1 \in 0 .. MaxEpoch /\ mb.attempt + 1 \in 0 .. MaxEpoch
  <2>1. /\ mb.turn \in 1 .. MaxTurn + 1 /\ mb.epoch \in 0 .. MaxEpoch
        /\ mb.attempt \in 0 .. MaxEpoch /\ mb.version \in 0 .. MaxTurn
    BY Typed
  <2>2. QED
    BY <1>1, <2>1, Bounds DEF Epoch
<1> DEFINE x == [NoExec EXCEPT !.pc = "loading", !.turn = mb.turn, !.attempt = mb.attempt + 1,
                               !.anchor = mb.version]
<1>3. x \in Execution /\ x.pc = "loading" /\ x.turn = mb.turn /\ x.anchor = mb.version
  <2>1. "loading" \in Phase
    BY DEF Phase
  <2>2. x \in Execution
    BY <1>2, <2>1, EndTyped, ZenonT(40) DEF Execution
  <2>3. QED
    BY <2>2, EndTyped DEF Execution
<1>4. exec' = [exec EXCEPT ![mb.epoch + 1] = x]
  BY DEF Claim
<1> HIDE DEF x
<1>5. /\ mb' \in MailboxRow
      /\ mb'.status = "running" /\ mb'.turn = mb.turn /\ mb'.epoch = mb.epoch + 1
      /\ mb'.attempt = mb.attempt + 1 /\ mb'.live /\ mb'.version = mb.version
  <2>1. mb \in MailboxRow /\ mb' = [mb EXCEPT !.status = "running", !.epoch = mb.epoch + 1,
                                              !.attempt = mb.attempt + 1, !.live = TRUE]
    BY DEF Claim, TurnInv, TurnTypeOK
  <2>2. mb' \in MailboxRow
    BY <2>1, <1>2, ZenonT(40) DEF MailboxRow
  <2>3. QED
    BY <2>1, <2>2 DEF MailboxRow
<1>7. TurnTypeOK'
  <2>1. exec' \in [Epoch -> Execution]
    BY <1>3, <1>4, Typed
  <2>2. QED
    BY <2>1, <1>5 DEF TurnInv, TurnTypeOK, Claim
<1>8. DerivedFromCommitted' /\ RowInv'
  BY <1>5, Typed DEF TurnInv, DerivedFromCommitted, RowInv, Claim
<1>9. ASSUME NEW d \in Epoch PROVE ExecInv(d)'
  <2>1. CASE d = mb.epoch + 1
    <3>1. exec'[d] = x
      BY <2>1, <1>4, Typed
    <3>2. QED
      BY <3>1, <1>3, <1>5 DEF ExecInv, AfterRead, PostCommit
  <2>2. CASE d # mb.epoch + 1
    <3>1. exec'[d] = exec[d]
      BY <2>2, <1>4, Typed
    <3>2. QED
      BY <2>2, <3>1, <1>5 DEF ExecInv, TurnInv
  <2>3. QED
    BY <2>1, <2>2
<1>10. QED
  BY <1>7, <1>8, <1>9 DEF TurnInv

\* Steps that change the row, and nothing else: it is left running with what it
\* was, or is not running; the version stays.
LEMMA RowStep ==
    ASSUME TurnInv, UNCHANGED <<memories, summary>>, Fault \/ faults' = faults,
           NEW e \in Epoch, exec' = exec \/ End(e),
           mb' \in MailboxRow,
           mb'.version = mb.version, mb'.turn >= mb.turn, mb'.attempt <= mb'.epoch,
           mb'.live => mb'.status = "running",
           mb'.status = "running" =>
              mb.status = "running" /\ mb'.epoch = mb.epoch /\ mb'.turn = mb.turn
    PROVE  TurnInv'
<1>1. exec' \in [Epoch -> Execution]
      /\ \A d \in Epoch : exec'[d] = exec[d] \/ exec'[d].pc = "ended"
  BY Typed, EndTyped DEF End
<1>2. faults' \in 0 .. MaxFaults
  BY Typed, FaultTyped
<1>3. TurnTypeOK'
  BY <1>1, <1>2 DEF TurnInv, TurnTypeOK
<1>4. DerivedFromCommitted' /\ RowInv'
  BY <1>3, Typed, Bounds DEF TurnInv, DerivedFromCommitted, RowInv, TurnTypeOK, MailboxRow
<1>5. ASSUME NEW d \in Epoch PROVE ExecInv(d)'
  <2>1. CASE exec'[d] = exec[d]
    BY <2>1 DEF TurnInv, ExecInv
  <2>2. CASE exec'[d].pc = "ended"
    BY <2>2 DEF ExecInv, AfterRead, PostCommit
  <2>3. QED
    BY <1>1, <2>1, <2>2
<1>6. QED
  BY <1>3, <1>4, <1>5 DEF TurnInv

\* A lapse leaves the row running under its fence.
LEMMA LapseStep ==
    ASSUME TurnInv, Lapse
    PROVE  TurnInv'
<1>1. /\ mb' \in MailboxRow /\ ~mb'.live
      /\ mb'.status = mb.status /\ mb'.turn = mb.turn /\ mb'.epoch = mb.epoch
      /\ mb'.attempt = mb.attempt /\ mb'.version = mb.version
  BY DEF Lapse, TurnInv, TurnTypeOK, MailboxRow
<1>2. 1 \in Epoch
  BY TurnAssumption DEF Epoch
<1>3. QED
  <2>1. mb'.turn >= mb.turn /\ mb'.attempt <= mb'.epoch /\ mb.status = "running"
    BY <1>1, Typed, Bounds DEF Lapse, TurnInv, RowInv
  <2>2. UNCHANGED <<memories, summary>> /\ exec' = exec /\ Fault
    BY DEF Lapse
  <2>3. QED
    BY <1>1, <1>2, <2>1, <2>2, RowStep

\* The row of a resolved head.
LEMMA NextTurnRow ==
    ASSUME TurnInv, mb.status = "running"
    PROVE  /\ NextTurn \in MailboxRow /\ ~NextTurn.live /\ NextTurn.status = "ready"
           /\ NextTurn.turn = mb.turn + 1 /\ NextTurn.epoch = mb.epoch
           /\ NextTurn.attempt = 0 /\ NextTurn.version = mb.version
<1>1. mb \in MailboxRow /\ mb.turn + 1 \in 1 .. MaxTurn + 1 /\ 0 \in 0 .. MaxEpoch
  BY Typed, Bounds DEF TurnInv, RowInv, TurnTypeOK
<1>2. NextTurn \in MailboxRow
  BY <1>1, ZenonT(40) DEF NextTurn, MailboxRow
<1>3. QED
  BY <1>1, <1>2 DEF NextTurn, MailboxRow

\* The failure handler changes the row only of the execution that owns it.
LEMMA ReleaseStep ==
    ASSUME TurnInv, NEW e \in Epoch, Release(e)
    PROVE  TurnInv'
<1>1. CASE ~Owns(e)
  BY <1>1, EndStep DEF Release
<1>2. CASE Owns(e) /\ exec[e].attempt >= MaxAttempts
  <2>1. mb' = NextTurn /\ mb.status = "running" /\ End(e)
    BY <1>2 DEF Release, Owns
  <2>2. /\ mb' \in MailboxRow /\ ~mb'.live /\ mb'.status = "ready" /\ mb'.turn = mb.turn + 1
        /\ mb'.epoch = mb.epoch /\ mb'.attempt = 0 /\ mb'.version = mb.version
    BY <2>1, NextTurnRow
  <2>3. mb'.turn >= mb.turn /\ mb'.attempt <= mb'.epoch
    BY <2>2, Typed, Bounds
  <2>4. UNCHANGED <<memories, summary, faults>>
    BY DEF Release
  <2>5. QED
    BY <2>1, <2>2, <2>3, <2>4, RowStep
<1>3. CASE Owns(e) /\ ~(exec[e].attempt >= MaxAttempts)
  <2>1. mb' = [mb EXCEPT !.status = "ready", !.live = FALSE]
    BY <1>3 DEF Release
  <2>2. /\ mb' \in MailboxRow /\ ~mb'.live /\ mb'.status = "ready" /\ mb'.turn = mb.turn
        /\ mb'.epoch = mb.epoch /\ mb'.attempt = mb.attempt /\ mb'.version = mb.version
    BY <2>1 DEF TurnInv, TurnTypeOK, MailboxRow
  <2>3. QED
    BY <2>2, Typed, Bounds, RowStep DEF Release, TurnInv, RowInv
<1>4. QED
  BY <1>1, <1>2, <1>3

\* The commit of the execution that owns the row adds one turn to the history
\* and gives the lease up; the sequence it remembers is the one it added.
LEMMA CommitStep ==
    ASSUME TurnInv, NEW e \in Epoch, Commit(e)
    PROVE  TurnInv'
<1>1. CASE ~Owns(e)
  <2>1. At(e, "releasing") /\ "releasing" \in Phase /\ UNCHANGED <<mb, memories, summary, faults>>
    BY <1>1 DEF Commit, Phase
  <2>2. QED
    BY <2>1, PhaseStep DEF Commit, AfterRead, PostCommit
<1>2. CASE Owns(e)
  <2>1. mb.status = "running" /\ exec[e] \in Execution /\ exec[e].pc = "committing"
    BY <1>2, Typed DEF Owns, Commit
  <2>2. mb.version + 1 \in 0 .. MaxTurn /\ mb.version + 1 \in Nat
    BY <2>1, Typed, Bounds DEF TurnInv, RowInv
  <2>3. /\ mb' \in MailboxRow /\ ~mb'.live /\ mb'.status = "ready" /\ mb'.turn = mb.turn + 1
        /\ mb'.epoch = mb.epoch /\ mb'.attempt = 0 /\ mb'.version = mb.version + 1
    <3>1. mb' = [NextTurn EXCEPT !.version = mb.version + 1]
      BY <1>2, <2>1, NextTurnRow DEF Commit
    <3>2. mb' \in MailboxRow
      BY <3>1, <2>1, <2>2, NextTurnRow, ZenonT(40) DEF MailboxRow
    <3>3. QED
      BY <3>1, <3>2, <2>1, NextTurnRow DEF MailboxRow
  <2>4. PICK x \in Execution : /\ exec' = [exec EXCEPT ![e] = x]
                               /\ \/ x.pc = "memory" /\ x.seq = mb.version + 1
                                  \/ x.pc = "releasing"
    <3>1. CASE exec' = [exec EXCEPT ![e].pc = "memory", ![e].seq = mb.version + 1]
      <4> DEFINE x == [exec[e] EXCEPT !.pc = "memory", !.seq = mb.version + 1]
      <4>1. exec' = [exec EXCEPT ![e] = x]
        BY <3>1, Typed
      <4>2. "memory" \in Phase
        BY DEF Phase
      <4>3. x \in Execution
        BY <2>1, <2>2, <4>2, ZenonT(40) DEF Execution
      <4>4. x.pc = "memory" /\ x.seq = mb.version + 1
        BY <2>1 DEF Execution
      <4>5. QED
        BY <4>1, <4>3, <4>4
    <3>2. CASE At(e, "releasing")
      <4>1. "releasing" \in Phase
        BY DEF Phase
      <4>2. QED
        BY <3>2, <4>1, <2>1, PhaseSet DEF At
    <3>3. QED
      BY <1>2, <3>1, <3>2 DEF Commit
  <2>5. exec' \in [Epoch -> Execution] /\ faults' \in 0 .. MaxFaults
    BY <1>2, <2>4, Typed, FaultTyped DEF Commit
  <2>6. TurnTypeOK'
    BY <2>3, <2>5 DEF TurnInv, TurnTypeOK, Commit
  <2>7. DerivedFromCommitted' /\ RowInv'
    BY <2>3, Typed, Bounds DEF TurnInv, DerivedFromCommitted, RowInv, Commit
  <2>8. ASSUME NEW d \in Epoch PROVE ExecInv(d)'
    <3>1. CASE d = e
      <4>1. exec'[d] = x
        BY <3>1, <2>4, Typed
      <4>2. mb.version + 1 \in 1 .. mb'.version
        BY <2>3, Typed
      <4>3. QED
        BY <4>1, <4>2, <2>3, <2>4 DEF ExecInv, AfterRead, PostCommit
    <3>2. CASE d # e
      <4>1. exec'[d] = exec[d] /\ ExecInv(d)
        BY <3>2, <2>4, Typed DEF TurnInv
      <4>2. exec[d].seq \in 1 .. mb.version => exec[d].seq \in 1 .. mb'.version
        BY <2>3, Typed
      <4>3. QED
        BY <4>1, <4>2, <2>3 DEF ExecInv
    <3>3. QED
      BY <3>1, <3>2
  <2>9. QED
    BY <2>6, <2>7, <2>8 DEF TurnInv
<1>3. QED
  BY <1>1, <1>2

-----------------------------------------------------------------------------
(* The turn task, the heartbeat and the caller *)

\* Steps of the turn task that only go to another phase, and the ends of it.
LEMMA TurnTaskStep ==
    ASSUME TurnInv, NEW e \in Epoch,
           StartRunner(e) \/ FinishRun(e) \/ TurnRaises(e) \/ HeartbeatLost(e)
    PROVE  TurnInv'
<1>0. {"running", "releasing", "stopping"} \subseteq Phase
  BY DEF Phase, InTurn
<1>1. CASE StartRunner(e)
  <2>1. PICK p \in {"running", "releasing"} : At(e, p)
    BY <1>1 DEF StartRunner
  <2>2. exec[e].pc = "preparing" /\ UNCHANGED <<mb, memories, summary, faults>>
    BY <1>1 DEF StartRunner
  <2>3. QED
    BY <1>0, <2>1, <2>2, PhaseStep DEF AfterRead, PostCommit
<1>2. CASE FinishRun(e)
  BY <1>0, <1>2, PhaseStep DEF FinishRun, AfterRead, PostCommit
<1>3. CASE TurnRaises(e)
  BY <1>0, <1>3, PhaseStep DEF TurnRaises, AfterRead, PostCommit
<1>4. CASE HeartbeatLost(e)
  BY <1>0, <1>4, PhaseStep DEF HeartbeatLost, InTurn, AfterRead, PostCommit
<1>5. QED
  BY <1>1, <1>2, <1>3, <1>4

\* The two tasks are created.
LEMMA LoadStep ==
    ASSUME TurnInv, NEW e \in Epoch, Load(e)
    PROVE  TurnInv'
<1>0. "reading" \in Phase /\ exec[e].pc = "loading"
  BY DEF Load, Phase, InTurn
<1> DEFINE x == [exec[e] EXCEPT !.pc = "reading", !.hb = "sleep"]
<1>1. exec[e] \in Execution
  BY Typed
<1>2. exec' = [exec EXCEPT ![e] = x]
  BY <1>0, Typed DEF Load
<1>3. x \in Execution
  BY <1>1, <1>0, ZenonT(40) DEF Execution
<1>4. x.anchor = exec[e].anchor /\ x.turn = exec[e].turn /\ x.read = exec[e].read /\ x.seq = exec[e].seq /\ x.pc = "reading"
  BY <1>1 DEF Execution
<1> HIDE DEF x
<1>5. QED
  BY <1>0, <1>2, <1>3, <1>4, ExecStep DEF Load, AfterRead, PostCommit

\* What is read is the anchor of the claim.
LEMMA ReadStep ==
    ASSUME TurnInv, NEW e \in Epoch, ReadSnapshot(e), mb.version = exec[e].anchor
    PROVE  TurnInv'
<1>0. "confirming" \in Phase /\ exec[e].pc = "reading" /\ mb.version = exec[e].anchor /\ mb.version \in Int
  BY Typed DEF ReadSnapshot, Phase, InTurn
<1> DEFINE x == [exec[e] EXCEPT !.pc = "confirming", !.hyd = TRUE, !.read = mb.version]
<1>1. exec[e] \in Execution
  BY Typed
<1>2. exec' = [exec EXCEPT ![e] = x]
  BY <1>0, Typed DEF ReadSnapshot
<1>3. x \in Execution
  BY <1>1, <1>0, ZenonT(40) DEF Execution
<1>4. x.anchor = exec[e].anchor /\ x.turn = exec[e].turn /\ x.seq = exec[e].seq /\ x.pc = "confirming" /\ x.read = mb.version
  BY <1>1 DEF Execution
<1> HIDE DEF x
<1>5. QED
  BY <1>0, <1>2, <1>3, <1>4, ExecStep DEF ReadSnapshot, AfterRead, PostCommit

\* The confirmed lease.
LEMMA ConfirmStep ==
    ASSUME TurnInv, NEW e \in Epoch, Confirm(e), Owns(e)
    PROVE  TurnInv'
<1>0. "preparing" \in Phase /\ exec[e].pc = "confirming" /\ Owns(e)
  BY DEF Confirm, Phase, InTurn
<1> DEFINE x == [exec[e] EXCEPT !.pc = "preparing", !.hyd = TRUE]
<1>1. exec[e] \in Execution
  BY Typed
<1>2. exec' = [exec EXCEPT ![e] = x]
  BY <1>0, Typed DEF Confirm
<1>3. x \in Execution
  BY <1>1, <1>0, ZenonT(40) DEF Execution
<1>4. x.anchor = exec[e].anchor /\ x.turn = exec[e].turn /\ x.read = exec[e].read /\ x.seq = exec[e].seq /\ x.pc = "preparing"
  BY <1>1 DEF Execution
<1> HIDE DEF x
<1>5. QED
  BY <1>0, <1>2, <1>3, <1>4, ExecStep DEF Confirm, AfterRead, PostCommit

\* A renewal of the heartbeat goes out.
LEMMA BeatStep ==
    ASSUME TurnInv, NEW e \in Epoch, Beat(e)
    PROVE  TurnInv'
<1>0. exec[e].hyd \in BOOLEAN
  BY Typed DEF Execution
<1> DEFINE x == [exec[e] EXCEPT !.hb = "renewing", !.hbHyd = exec[e].hyd]
<1>1. exec[e] \in Execution
  BY Typed
<1>2. exec' = [exec EXCEPT ![e] = x]
  BY <1>0, Typed DEF Beat
<1>3. x \in Execution
  BY <1>1, <1>0, ZenonT(40) DEF Execution
<1>4. x.pc = exec[e].pc /\ x.anchor = exec[e].anchor /\ x.turn = exec[e].turn /\ x.read = exec[e].read /\ x.seq = exec[e].seq
  BY <1>1 DEF Execution
<1> HIDE DEF x
<1>5. QED
  BY <1>0, <1>2, <1>3, <1>4, ExecStep DEF Beat, AfterRead, PostCommit

\* The renewal is answered with the lease it was given.
LEMMA BeatRenewedStep ==
    ASSUME TurnInv, NEW e \in Epoch, BeatAnswered(e), Owns(e)
    PROVE  TurnInv'
<1>0. exec[e].hbHyd \in BOOLEAN /\ Owns(e)
  BY Typed DEF Execution
<1> DEFINE x == [exec[e] EXCEPT !.hb = "sleep", !.hyd = exec[e].hbHyd]
<1>1. exec[e] \in Execution
  BY Typed
<1>2. exec' = [exec EXCEPT ![e] = x]
  BY <1>0, Typed DEF BeatAnswered
<1>3. x \in Execution
  BY <1>1, <1>0, ZenonT(40) DEF Execution
<1>4. x.pc = exec[e].pc /\ x.anchor = exec[e].anchor /\ x.turn = exec[e].turn /\ x.read = exec[e].read /\ x.seq = exec[e].seq
  BY <1>1 DEF Execution
<1> HIDE DEF x
<1>5. QED
  BY <1>0, <1>2, <1>3, <1>4, ExecStep DEF BeatAnswered, AfterRead, PostCommit

\* The renewal finds the lease gone, or its call fails.
LEMMA BeatFailsStep ==
    ASSUME TurnInv, NEW e \in Epoch, (BeatAnswered(e) /\ ~Owns(e)) \/ BeatRaises(e)
    PROVE  TurnInv'
<1>0. Fault \/ faults' = faults
  BY DEF BeatAnswered, BeatRaises
<1> DEFINE x == [exec[e] EXCEPT !.hb = "failed"]
<1>1. exec[e] \in Execution
  BY Typed
<1>2. exec' = [exec EXCEPT ![e] = x]
  BY <1>0, Typed DEF BeatAnswered, BeatRaises
<1>3. x \in Execution
  BY <1>1, ZenonT(40) DEF Execution
<1>4. x.pc = exec[e].pc /\ x.anchor = exec[e].anchor /\ x.turn = exec[e].turn /\ x.read = exec[e].read /\ x.seq = exec[e].seq
  BY <1>1 DEF Execution
<1> HIDE DEF x
<1>5. QED
  BY <1>0, <1>2, <1>3, <1>4, ExecStep DEF BeatAnswered, BeatRaises, AfterRead, PostCommit

\* The heartbeat is stopped, and the turn goes on to its commit.
LEMMA StopStep ==
    ASSUME TurnInv, NEW e \in Epoch, StopHeartbeat(e), exec[e].hb = "sleep"
    PROVE  TurnInv'
<1>0. "committing" \in Phase /\ exec[e].pc = "stopping" /\ exec[e].hb = "sleep"
  BY DEF StopHeartbeat, Phase
<1> DEFINE x == [exec[e] EXCEPT !.pc = "committing", !.hb = "off"]
<1>1. exec[e] \in Execution
  BY Typed
<1>2. exec' = [exec EXCEPT ![e] = x]
  BY <1>0, Typed DEF StopHeartbeat
<1>3. x \in Execution
  BY <1>1, <1>0, ZenonT(40) DEF Execution
<1>4. x.anchor = exec[e].anchor /\ x.turn = exec[e].turn /\ x.read = exec[e].read /\ x.seq = exec[e].seq /\ x.pc = "committing"
  BY <1>1 DEF Execution
<1> HIDE DEF x
<1>5. QED
  BY <1>0, <1>2, <1>3, <1>4, ExecStep DEF StopHeartbeat, AfterRead, PostCommit

\* The heartbeat failed, or a renewal in flight does not return in time.
LEMMA StopLateStep ==
    ASSUME TurnInv, NEW e \in Epoch, StopHeartbeat(e), exec[e].hb # "sleep"
    PROVE  TurnInv'
<1>0. "releasing" \in Phase /\ exec[e].pc = "stopping" /\ exec[e].hb # "sleep"
  BY DEF StopHeartbeat, Phase
<1> DEFINE x == [exec[e] EXCEPT !.pc = "releasing", !.hb = "off"]
<1>1. exec[e] \in Execution
  BY Typed
<1>2. exec' = [exec EXCEPT ![e] = x]
  BY <1>0, Typed DEF StopHeartbeat
<1>3. x \in Execution
  BY <1>1, <1>0, ZenonT(40) DEF Execution
<1>4. x.anchor = exec[e].anchor /\ x.turn = exec[e].turn /\ x.read = exec[e].read /\ x.seq = exec[e].seq /\ x.pc = "releasing"
  BY <1>1 DEF Execution
<1> HIDE DEF x
<1>5. QED
  BY <1>0, <1>2, <1>3, <1>4, ExecStep DEF StopHeartbeat, AfterRead, PostCommit

-----------------------------------------------------------------------------
(* The post-commit work *)

\* The summary is read, or its read fails.
LEMMA GetSummaryStep ==
    ASSUME TurnInv, NEW e \in Epoch, GetSummary(e)
    PROVE  TurnInv'
<1>1. /\ exec[e] \in Execution /\ exec[e].pc = "get" /\ "put" \in Phase
      /\ summary.version \in Int /\ -1 \in Int
      /\ UNCHANGED <<mb, memories, summary>> /\ (Fault \/ faults' = faults)
  BY Typed DEF GetSummary, Phase
<1>2. CASE End(e)
  BY <1>1, <1>2, EndStep
<1>3. ASSUME NEW v \in Int, exec' = [exec EXCEPT ![e].pc = "put", ![e].seen = v]
      PROVE  TurnInv'
  <2> DEFINE x == [exec[e] EXCEPT !.pc = "put", !.seen = v]
  <2>1. exec' = [exec EXCEPT ![e] = x]
    BY <1>3, Typed
  <2>2. x \in Execution
    BY <1>1, <1>3, ZenonT(40) DEF Execution
  <2>3. x.anchor = exec[e].anchor /\ x.turn = exec[e].turn /\ x.seq = exec[e].seq /\ x.pc = "put"
    BY <1>1 DEF Execution
  <2> HIDE DEF x
  <2>4. QED
    BY <1>1, <2>1, <2>2, <2>3, ExecStep DEF AfterRead, PostCommit
<1>4. QED
  BY <1>1, <1>2, <1>3 DEF GetSummary

\* Changes of what is derived from the turns speak of committed turns only.
LEMMA DerivedStep ==
    ASSUME TurnInv, NEW e \in Epoch, UNCHANGED mb, Fault \/ faults' = faults,
           End(e) \/ (exec[e].pc = "memory" /\ At(e, "get")),
           memories' \subseteq 1 .. mb.version,
           summary' \in [upTo : -1 .. MaxTurn, version : -1 .. MaxTurn + 1],
           summary'.upTo <= mb.version, summary'.version <= summary'.upTo + 1
    PROVE  TurnInv'
<1>1. "get" \in Phase /\ exec[e] \in Execution /\ faults' \in 0 .. MaxFaults
  BY Typed, FaultTyped DEF Phase
<1>2. exec' \in [Epoch -> Execution]
  <2>1. CASE End(e)
    BY <2>1, Typed, EndTyped DEF End
  <2>2. CASE At(e, "get")
    BY <2>2, <1>1, Typed, PhaseSet DEF At
  <2>3. QED
    BY <2>1, <2>2
<1>3. memories' \subseteq 1 .. MaxTurn
  BY Typed, Bounds
<1>4. TurnTypeOK' /\ DerivedFromCommitted' /\ RowInv'
  BY <1>1, <1>2, <1>3 DEF TurnInv, TurnTypeOK, DerivedFromCommitted, RowInv
<1>5. ASSUME NEW d \in Epoch PROVE ExecInv(d)'
  <2>1. CASE d # e
    <3>1. exec'[d] = exec[d]
      BY <2>1, Typed DEF End, At
    <3>2. QED
      BY <3>1 DEF TurnInv, ExecInv
  <2>2. CASE d = e /\ End(e)
    <3>1. exec'[d].pc = "ended"
      BY <2>2, Typed, EndTyped DEF End
    <3>2. QED
      BY <3>1 DEF ExecInv, AfterRead, PostCommit
  <2>3. CASE d = e /\ exec[e].pc = "memory" /\ At(e, "get")
    <3>1. /\ exec'[e].pc = "get" /\ exec'[e].seq = exec[e].seq
          /\ exec'[e].anchor = exec[e].anchor /\ exec'[e].turn = exec[e].turn
      BY <2>3, <1>1, Typed, PhaseSet DEF At
    <3>2. QED
      BY <2>3, <3>1 DEF TurnInv, ExecInv, AfterRead, PostCommit
  <2>4. QED
    BY <2>1, <2>2, <2>3
<1>6. QED
  BY <1>4, <1>5 DEF TurnInv

\* The memory of a turn carries the sequence of its commit.
LEMMA PutMemoryStep ==
    ASSUME TurnInv, NEW e \in Epoch, PutMemory(e)
    PROVE  TurnInv'
<1>1. exec[e].pc = "memory" /\ At(e, "get") /\ UNCHANGED <<mb, summary>>
      /\ (Fault \/ faults' = faults)
  BY DEF PutMemory
<1>2. exec[e].seq \in 1 .. mb.version
  BY <1>1 DEF TurnInv, ExecInv, PostCommit
<1>3. memories' \subseteq 1 .. mb.version
  BY <1>2 DEF PutMemory, TurnInv, DerivedFromCommitted
<1>4. /\ summary' \in [upTo : -1 .. MaxTurn, version : -1 .. MaxTurn + 1]
      /\ summary'.upTo <= mb.version /\ summary'.version <= summary'.upTo + 1
  BY <1>1 DEF TurnInv, TurnTypeOK, DerivedFromCommitted, RowInv
<1>5. QED
  BY <1>1, <1>3, <1>4, DerivedStep

\* The summary steps to the sequence of the commit, or stays.
LEMMA PutSummaryStep ==
    ASSUME TurnInv, NEW e \in Epoch, PutSummary(e)
    PROVE  TurnInv' /\ summary'.upTo >= summary.upTo
<1>1. End(e) /\ UNCHANGED <<mb, memories>> /\ (Fault \/ faults' = faults) /\ exec[e].pc = "put"
  BY DEF PutSummary
<1>2. memories' \subseteq 1 .. mb.version
  BY <1>1 DEF TurnInv, DerivedFromCommitted
<1>3. CASE summary' = summary
  <2>1. /\ summary' \in [upTo : -1 .. MaxTurn, version : -1 .. MaxTurn + 1]
        /\ summary'.upTo <= mb.version /\ summary'.version <= summary'.upTo + 1
        /\ summary.upTo \in Int
    BY <1>3 DEF TurnInv, TurnTypeOK, DerivedFromCommitted, RowInv
  <2>2. QED
    BY <1>1, <1>2, <1>3, <2>1, DerivedStep
<1>4. CASE summary' # summary
  <2>1. exec[e].seq \in 1 .. mb.version
    BY <1>1 DEF TurnInv, ExecInv, PostCommit
  <2>2. SummaryAccepts(exec[e].seq, exec[e].seen)
        /\ summary' = [upTo |-> exec[e].seq,
                       version |-> IF summary.upTo = -1 THEN 1 ELSE summary.version + 1]
    BY <1>4 DEF PutSummary
  <2>3. PICK q, v : /\ summary' = [upTo |-> q, version |-> v] /\ q = exec[e].seq
                    /\ v = IF summary.upTo = -1 THEN 1 ELSE summary.version + 1
    BY <2>2
  <2>4. summary.upTo < q
    BY <2>1, <2>2, <2>3, Typed, Bounds DEF SummaryAccepts
  <2>5. summary.version <= summary.upTo + 1 /\ summary.version \in -1 .. MaxTurn + 1
        /\ summary.upTo \in -1 .. MaxTurn /\ mb.version \in 0 .. MaxTurn
    BY Typed DEF TurnInv, RowInv
  <2>6. q \in -1 .. MaxTurn /\ v \in -1 .. MaxTurn + 1 /\ q <= mb.version /\ v <= q + 1
    BY <2>1, <2>3, <2>4, <2>5, Bounds
  <2>7. /\ summary' \in [upTo : -1 .. MaxTurn, version : -1 .. MaxTurn + 1]
        /\ summary'.upTo = q /\ summary'.version = v
    BY <2>3, <2>6
  <2>8. TurnInv'
    BY <1>1, <1>2, <2>6, <2>7, DerivedStep
  <2>9. QED
    BY <2>4, <2>5, <2>6, <2>7, <2>8, Bounds
<1>5. QED
  BY <1>3, <1>4

-----------------------------------------------------------------------------
(* The invariant *)

\* The first states satisfy the invariant.
LEMMA InitTurn == Init => TurnInv
<1> SUFFICES ASSUME Init PROVE TurnInv
  OBVIOUS
<1>1. mb \in MailboxRow /\ mb.version = 0 /\ mb.turn = 1 /\ mb.status = "ready" /\ ~mb.live
      /\ mb.attempt = 0 /\ mb.epoch = 0
  BY Bounds DEF Init, MailboxRow
<1>2. exec \in [Epoch -> Execution] /\ \A e \in Epoch : exec[e].pc = "none"
  BY EndTyped DEF Init, NoExec
<1>3. /\ summary \in [upTo : -1 .. MaxTurn, version : -1 .. MaxTurn + 1]
      /\ summary.upTo <= 0 /\ summary.version <= summary.upTo + 1
  BY Bounds DEF Init
<1>4. TurnTypeOK /\ DerivedFromCommitted /\ RowInv
  BY <1>1, <1>2, <1>3, Bounds DEF Init, TurnTypeOK, DerivedFromCommitted, RowInv
<1>5. \A e \in Epoch : ExecInv(e)
  BY <1>1, <1>2 DEF ExecInv, AfterRead, PostCommit
<1>6. QED
  BY <1>4, <1>5 DEF TurnInv

\* Every step of the specification keeps the invariant.
LEMMA NextTurnInv == TurnInv /\ [Next]_vars => TurnInv'
<1> SUFFICES ASSUME TurnInv, [Next]_vars PROVE TurnInv'
  OBVIOUS
<1>1. CASE UNCHANGED vars
  BY <1>1 DEF vars, TurnInv, TurnTypeOK, DerivedFromCommitted, RowInv, ExecInv
<1>2. CASE Claim
  BY <1>2, ClaimStep
<1>3. CASE Lapse
  BY <1>3, LapseStep
<1>4. ASSUME NEW e \in Epoch, Load(e) PROVE TurnInv'
  BY <1>4, LoadStep
<1>5. ASSUME NEW e \in Epoch, ReadSnapshot(e) PROVE TurnInv'
  <2>1. CASE mb.version = exec[e].anchor
    BY <1>5, <2>1, ReadStep
  <2>2. CASE mb.version # exec[e].anchor
    <3>1. /\ At(e, "releasing") /\ "releasing" \in Phase /\ exec[e].pc = "reading"
          /\ UNCHANGED <<mb, memories, summary, faults>>
      BY <1>5, <2>2 DEF ReadSnapshot, Phase
    <3>2. QED
      BY <3>1, PhaseStep DEF AfterRead, PostCommit
  <2>3. QED
    BY <2>1, <2>2
<1>6. ASSUME NEW e \in Epoch, Confirm(e) PROVE TurnInv'
  <2>1. CASE Owns(e)
    BY <1>6, <2>1, ConfirmStep
  <2>2. CASE ~Owns(e)
    <3>1. /\ At(e, "releasing") /\ "releasing" \in Phase /\ exec[e].pc = "confirming"
          /\ UNCHANGED <<mb, memories, summary, faults>>
      BY <1>6, <2>2 DEF Confirm, Phase
    <3>2. QED
      BY <3>1, PhaseStep DEF AfterRead, PostCommit
  <2>3. QED
    BY <2>1, <2>2
<1>7. ASSUME NEW e \in Epoch,
             StartRunner(e) \/ FinishRun(e) \/ TurnRaises(e) \/ HeartbeatLost(e)
      PROVE  TurnInv'
  BY <1>7, TurnTaskStep
<1>8. ASSUME NEW e \in Epoch, Beat(e) PROVE TurnInv'
  BY <1>8, BeatStep
<1>9. ASSUME NEW e \in Epoch, BeatAnswered(e) \/ BeatRaises(e) PROVE TurnInv'
  BY <1>9, BeatRenewedStep, BeatFailsStep
<1>10. ASSUME NEW e \in Epoch, StopHeartbeat(e) PROVE TurnInv'
  BY <1>10, StopStep, StopLateStep
<1>11. ASSUME NEW e \in Epoch, Commit(e) PROVE TurnInv'
  BY <1>11, CommitStep
<1>12. ASSUME NEW e \in Epoch, Release(e) PROVE TurnInv'
  BY <1>12, ReleaseStep
<1>13. ASSUME NEW e \in Epoch, Crash(e) PROVE TurnInv'
  BY <1>13, EndStep DEF Crash
<1>14. ASSUME NEW e \in Epoch, PutMemory(e) PROVE TurnInv'
  BY <1>14, PutMemoryStep
<1>15. ASSUME NEW e \in Epoch, GetSummary(e) PROVE TurnInv'
  BY <1>15, GetSummaryStep
<1>16. ASSUME NEW e \in Epoch, PutSummary(e) PROVE TurnInv'
  BY <1>16, PutSummaryStep
<1>17. QED
  BY <1>1, <1>2, <1>3, <1>4, <1>5, <1>6, <1>7, <1>8, <1>9, <1>10, <1>11, <1>12, <1>13,
     <1>14, <1>15, <1>16 DEF Next

-----------------------------------------------------------------------------
(* What a step may do *)

\* The shape of every step: who may start the work, advance the history, end a
\* live lease and move the summary.
StartsFenced(e) ==
    exec'[e].pc = "preparing" /\ exec[e].pc # "preparing" =>
        Owns(e) /\ exec[e].pc = "confirming"

AdvancesFenced(e) ==
    mb'.version # mb.version /\ exec'[e].pc # exec[e].pc =>
        Owns(e) /\ exec[e].pc = "committing"

EndsOwn ==
    Owns(mb.epoch) /\ mb' # mb =>
        exec'[mb.epoch] # exec[mb.epoch] \/ mb' = [mb EXCEPT !.live = FALSE]

Shape ==
    /\ \A e \in Epoch : StartsFenced(e) /\ AdvancesFenced(e)
    /\ EndsOwn
    /\ summary'.upTo >= summary.upTo

\* A step of one execution that leaves mailbox and summary alone.
LEMMA QuietShape ==
    ASSUME TurnInv, NEW d \in Epoch, UNCHANGED <<mb, summary>>,
           \A e \in Epoch \ {d} : exec'[e] = exec[e],
           exec'[d].pc # "preparing" \/ exec[d].pc = "preparing"
              \/ (Owns(d) /\ exec[d].pc = "confirming")
    PROVE  Shape
<1>1. summary'.upTo >= summary.upTo
  BY Typed, Bounds
<1>2. QED
  BY <1>1 DEF Shape, StartsFenced, AdvancesFenced, EndsOwn

\* Where a step to another phase leaves the executions.
LEMMA AtShape ==
    ASSUME TurnInv, NEW d \in Epoch, NEW p \in Phase, At(d, p)
    PROVE  exec'[d].pc = p /\ \A e \in Epoch \ {d} : exec'[e] = exec[e]
<1>1. exec[d] \in Execution
  BY Typed
<1>2. QED
  BY <1>1, Typed, PhaseSet DEF At

\* Where the end of an execution leaves them.
LEMMA EndShape ==
    ASSUME TurnInv, NEW d \in Epoch, End(d)
    PROVE  exec'[d].pc = "ended" /\ \A e \in Epoch \ {d} : exec'[e] = exec[e]
BY Typed, EndTyped DEF End

\* The steps of the turn task, the heartbeat and the caller before the commit.
LEMMA TurnShape ==
    ASSUME TurnInv, NEW d \in Epoch,
           \/ Load(d) \/ ReadSnapshot(d) \/ Confirm(d) \/ StartRunner(d) \/ FinishRun(d)
           \/ TurnRaises(d) \/ Beat(d) \/ BeatAnswered(d) \/ BeatRaises(d) \/ HeartbeatLost(d)
           \/ StopHeartbeat(d) \/ Crash(d) \/ PutMemory(d) \/ GetSummary(d)
    PROVE  Shape
<1>1. exec[d] \in Execution /\ {"releasing", "running", "stopping", "get"} \subseteq Phase
  BY Typed DEF Phase, InTurn
<1>2. CASE Load(d)
  BY <1>1, <1>2, Typed, QuietShape DEF Load, Execution
<1>3. CASE ReadSnapshot(d)
  <2>1. CASE At(d, "releasing")
    BY <1>1, <1>3, <2>1, AtShape, QuietShape DEF ReadSnapshot
  <2>2. CASE ~At(d, "releasing")
    BY <1>1, <1>3, <2>2, Typed, QuietShape DEF ReadSnapshot, Execution
  <2>3. QED
    BY <2>1, <2>2
<1>4. CASE Confirm(d)
  <2>1. CASE Owns(d)
    BY <1>1, <1>4, <2>1, Typed, QuietShape DEF Confirm, Execution
  <2>2. CASE ~Owns(d)
    BY <1>1, <1>4, <2>2, AtShape, QuietShape DEF Confirm
  <2>3. QED
    BY <2>1, <2>2
<1>5. CASE StartRunner(d)
  <2>1. PICK p \in {"running", "releasing"} : At(d, p)
    BY <1>5 DEF StartRunner
  <2>2. QED
    BY <1>1, <1>5, <2>1, AtShape, QuietShape DEF StartRunner
<1>6. CASE FinishRun(d)
  BY <1>1, <1>6, AtShape, QuietShape DEF FinishRun
<1>7. CASE TurnRaises(d)
  BY <1>1, <1>7, AtShape, QuietShape DEF TurnRaises
<1>8. CASE Beat(d)
  BY <1>1, <1>8, Typed, QuietShape DEF Beat, Execution
<1>9. CASE BeatAnswered(d)
  BY <1>1, <1>9, Typed, QuietShape DEF BeatAnswered, Execution
<1>10. CASE BeatRaises(d)
  BY <1>1, <1>10, Typed, QuietShape DEF BeatRaises, Execution
<1>11. CASE HeartbeatLost(d)
  BY <1>1, <1>11, AtShape, QuietShape DEF HeartbeatLost
<1>12. CASE StopHeartbeat(d)
  BY <1>1, <1>12, Typed, QuietShape DEF StopHeartbeat, Execution
<1>13. CASE Crash(d)
  BY <1>13, EndShape, QuietShape DEF Crash
<1>14. CASE PutMemory(d)
  BY <1>1, <1>14, AtShape, QuietShape DEF PutMemory
<1>15. CASE GetSummary(d)
  <2>1. CASE End(d)
    BY <1>15, <2>1, EndShape, QuietShape DEF GetSummary
  <2>2. CASE ~End(d)
    BY <1>1, <1>15, <2>2, Typed, QuietShape DEF GetSummary, Execution
  <2>3. QED
    BY <2>1, <2>2
<1>16. QED
  BY <1>2, <1>3, <1>4, <1>5, <1>6, <1>7, <1>8, <1>9, <1>10, <1>11, <1>12, <1>13, <1>14, <1>15

\* The steps that change the row or the summary.
LEMMA RowShape ==
    ASSUME TurnInv, NEW d \in Epoch,
           Claim \/ Lapse \/ Commit(d) \/ Release(d) \/ PutSummary(d)
    PROVE  Shape
<1>1. /\ exec[d] \in Execution /\ mb \in MailboxRow /\ {"memory", "releasing"} \subseteq Phase
      /\ summary.upTo >= summary.upTo
  BY Typed, Bounds DEF TurnInv, TurnTypeOK, Phase
<1>2. CASE Claim
  <2>1. \A e \in Epoch : exec'[e] = exec[e] \/ exec'[e].pc = "loading"
    BY <1>2, Typed, EndTyped DEF Claim, Execution
  <2>2. mb'.version = mb.version /\ UNCHANGED summary
    BY <1>1, <1>2 DEF Claim, MailboxRow
  <2>3. ~Owns(mb.epoch)
    BY <1>2 DEF Claim, Owns
  <2>4. QED
    BY <1>1, <2>1, <2>2, <2>3 DEF Shape, StartsFenced, AdvancesFenced, EndsOwn
<1>3. CASE Lapse
  BY <1>1, <1>3 DEF Lapse, Shape, StartsFenced, AdvancesFenced, EndsOwn
<1>4. CASE Commit(d)
  <2>1. /\ exec[d].pc = "committing" /\ exec'[d].pc \in {"memory", "releasing"}
        /\ \A e \in Epoch \ {d} : exec'[e] = exec[e]
        /\ UNCHANGED summary
    <3>1. CASE At(d, "releasing")
      BY <1>1, <1>4, <3>1, AtShape DEF Commit
    <3>2. CASE ~At(d, "releasing")
      BY <1>1, <1>4, <3>2, Typed DEF Commit, Execution
    <3>3. QED
      BY <3>1, <3>2
  <2>2. Owns(d) \/ mb' = mb
    BY <1>4 DEF Commit
  <2>3. EndsOwn
    BY <2>1, <2>2 DEF EndsOwn, Owns
  <2>4. QED
    BY <1>1, <2>1, <2>2, <2>3 DEF Shape, StartsFenced, AdvancesFenced
<1>5. CASE Release(d)
  <2>1. /\ exec[d].pc = "releasing" /\ exec'[d].pc = "ended"
        /\ \A e \in Epoch \ {d} : exec'[e] = exec[e]
        /\ UNCHANGED summary
    BY <1>5, EndShape DEF Release
  <2>2. Owns(d) \/ mb' = mb
    BY <1>5 DEF Release
  <2>3. mb'.version = mb.version
    BY <1>1, <1>5 DEF Release, NextTurn, MailboxRow
  <2>4. EndsOwn
    BY <2>1, <2>2 DEF EndsOwn, Owns
  <2>5. QED
    BY <1>1, <2>1, <2>2, <2>3, <2>4 DEF Shape, StartsFenced, AdvancesFenced
<1>6. CASE PutSummary(d)
  <2>1. /\ UNCHANGED mb /\ exec'[d].pc = "ended" /\ \A e \in Epoch \ {d} : exec'[e] = exec[e]
        /\ summary'.upTo >= summary.upTo
    BY <1>6, EndShape, PutSummaryStep DEF PutSummary
  <2>2. QED
    BY <2>1 DEF Shape, StartsFenced, AdvancesFenced, EndsOwn
<1>7. QED
  BY <1>2, <1>3, <1>4, <1>5, <1>6

\* Every step has that shape.
LEMMA NextShape == TurnInv /\ [Next]_vars => Shape
<1> SUFFICES ASSUME TurnInv, [Next]_vars PROVE Shape
  OBVIOUS
<1>1. 1 \in Epoch
  BY Bounds DEF Epoch
<1>2. CASE UNCHANGED vars
  BY <1>1, <1>2, QuietShape DEF vars
<1>3. CASE Claim \/ Lapse
  BY <1>1, <1>3, RowShape
<1>4. CASE \E d \in Epoch : Commit(d) \/ Release(d) \/ PutSummary(d)
  BY <1>4, RowShape
<1>5. CASE \E d \in Epoch :
             \/ Load(d) \/ ReadSnapshot(d) \/ Confirm(d) \/ StartRunner(d) \/ FinishRun(d)
             \/ TurnRaises(d) \/ Beat(d) \/ BeatAnswered(d) \/ BeatRaises(d) \/ HeartbeatLost(d)
             \/ StopHeartbeat(d) \/ Crash(d) \/ PutMemory(d) \/ GetSummary(d)
  BY <1>5, TurnShape
<1>6. QED
  BY <1>2, <1>3, <1>4, <1>5 DEF Next

-----------------------------------------------------------------------------
(* The theorems *)

\* The inductive invariant holds in every state.
THEOREM TurnInvariance == Spec => []TurnInv
BY InitTurn, NextTurnInv, PTL DEF Spec

\* The mailbox row, the executions and the derived rows keep their types: the
\* attempts never pass the claims, nor the version the resolved turns.
THEOREM TurnTypeCorrect == Spec => []TurnTypeOK
<1>1. TurnInv => TurnTypeOK
  BY DEF TurnInv
<1>2. QED
  BY <1>1, TurnInvariance, PTL

\* Memories and the summary speak of committed turns only, although they are
\* written after the commit, by workers that no longer hold the lease.
THEOREM OnlyCommittedDerived == Spec => []DerivedFromCommitted
<1>1. TurnInv => DerivedFromCommitted
  BY DEF TurnInv
<1>2. QED
  BY <1>1, TurnInvariance, PTL

\* The work of a turn starts under a live lease and on the whole history.
THEOREM FencedWork == Spec => WorkIsFenced
<1>1. TurnInv /\ [Next]_vars =>
        [\A e \in Epoch : exec'[e].pc = "preparing" /\ exec[e].pc # "preparing" =>
            Owns(e) /\ exec[e].read = mb.version]_vars
  <2> SUFFICES ASSUME TurnInv, [Next]_vars, NEW e \in Epoch,
                      exec'[e].pc = "preparing", exec[e].pc # "preparing"
               PROVE  Owns(e) /\ exec[e].read = mb.version
    OBVIOUS
  <2>1. Owns(e) /\ exec[e].pc = "confirming"
    BY NextShape DEF Shape, StartsFenced
  <2>2. ExecInv(e)
    BY DEF TurnInv
  <2>3. QED
    BY <2>1, <2>2 DEF ExecInv, Owns, AfterRead
<1>2. QED
  BY <1>1, TurnInvariance, PTL DEF Spec, WorkIsFenced

\* The history grows only by a turn that was computed from all of it.
THEOREM WholeHistory == Spec => NoMissedHistory
<1>1. TurnInv /\ [Next]_vars =>
        [\A e \in Epoch : mb'.version # mb.version /\ exec'[e].pc # exec[e].pc =>
            exec[e].read = mb.version /\ exec[e].turn = mb.turn]_vars
  <2> SUFFICES ASSUME TurnInv, [Next]_vars, NEW e \in Epoch,
                      mb'.version # mb.version, exec'[e].pc # exec[e].pc
               PROVE  exec[e].read = mb.version /\ exec[e].turn = mb.turn
    OBVIOUS
  <2>1. Owns(e) /\ exec[e].pc = "committing"
    BY NextShape DEF Shape, AdvancesFenced
  <2>2. ExecInv(e)
    BY DEF TurnInv
  <2>3. QED
    BY <2>1, <2>2 DEF ExecInv, Owns, AfterRead
<1>2. QED
  BY <1>1, TurnInvariance, PTL DEF Spec, NoMissedHistory

\* A live lease ends through its own execution or the clock: no late handler
\* of another execution touches the row.
THEOREM LateFailure == Spec => LateFailureIsHarmless
<1>1. TurnInv /\ [Next]_vars =>
        [Owns(mb.epoch) /\ mb' # mb =>
            exec'[mb.epoch] # exec[mb.epoch] \/ mb' = [mb EXCEPT !.live = FALSE]]_vars
  BY NextShape DEF Shape, EndsOwn
<1>2. QED
  BY <1>1, TurnInvariance, PTL DEF Spec, LateFailureIsHarmless

\* The summary never steps back, however the post-commit work of consecutive
\* turns overlaps.
THEOREM SummaryMonotonic == Spec => SummaryNeverGoesBack
<1>1. TurnInv /\ [Next]_vars => [summary'.upTo >= summary.upTo]_vars
  BY NextShape DEF Shape
<1>2. QED
  BY <1>1, TurnInvariance, PTL DEF Spec, SummaryNeverGoesBack

-----------------------------------------------------------------------------
(***************************************************************************)
(* The v1 scheduler.  The argument: an acquisition finds every visible     *)
(* earlier message committed, and with it whatever was visible when its    *)
(* message was accepted; tokens never pass the epoch of the session, so    *)
(* only that turn carries the epoch of a living lease; and an entry is     *)
(* acknowledged only after a commit, so one that Redis remembers is in the *)
(* stream, has an owner or was committed.                                  *)
(***************************************************************************)

USE LegacyAssumption

\* Epochs and tokens are numbers.
LEMMA V1Epochs ==
    ASSUME LegacyTypeOK
    PROVE  /\ lease.epoch \in Nat
           /\ \A n \in Message : turn[n].token \in Nat
           /\ \A u \in Task : task[u].epoch \in Nat
  BY DEF LegacyTypeOK

\* What is ahead of a message has a smaller key and was accepted.
LEMMA V1AheadSeen ==
    ASSUME OrderInv
    PROVE  \A k \in Message : \A n \in ahead[k] : n < k /\ inbound[n] # "none"
  BY ZenonT(40) DEF OrderInv

\* The next epoch is above every token so far.
LEMMA V1NextEpoch ==
    ASSUME NEW l \in Nat, NEW e, e = l + 1
    PROVE  e \in Nat /\ e <= e /\ l < e /\ \A k \in Nat : k <= l => k <= e /\ k # e
  OBVIOUS

\* The status of a turn under a token.
LEMMA V1Status ==
    ASSUME NEW r, NEW k, r = [status |-> "processing", token |-> k]
    PROVE  r.status = "processing"
  OBVIOUS

\* The elements of a sequence.
LEMMA V1Elements ==
    ASSUME NEW S, NEW s \in Seq(S)
    PROVE  \A i \in 1..Len(s) : s[i] \in S
  OBVIOUS

\* A step that leaves the tables and the tasks in a turn leaves the lease alone.
LEMMA V1LeaseFrame ==
    ASSUME LeaseInv, turn' = turn, lease' = lease, ahead' = ahead,
           \A t \in Task : task'[t].pc = "turn" => task'[t] = task[t]
    PROVE  LeaseInv'
  <1>1. /\ \A m \in Message : turn[m].token <= lease.epoch
        /\ \A m \in Message :
              lease.live /\ turn[m] = [status |-> "processing", token |-> lease.epoch]
                 => \A n \in ahead[m] : turn[n].status = "committed"
        BY ZenonT(40) DEF LeaseInv
  <1>2. \A t \in Task : task'[t].pc = "turn" =>
          /\ task'[t].epoch <= lease.epoch
          /\ lease.owner = t[1] /\ lease.epoch = task'[t].epoch
                => turn[task'[t].m].status # "committed"
        BY ZenonT(40) DEF LeaseInv
  <1> QED BY <1>1, <1>2, ZenonT(40) DEF LeaseInv

\* The order is one of the commits and of what was ahead of them.
LEMMA V1CommitsKept ==
    ASSUME CommitsInOrder, commits' = commits,
           \A i \in 1..Len(commits) : ahead'[commits[i]] = ahead[commits[i]]
    PROVE  CommitsInOrder'
  <1> SUFFICES ASSUME NEW i \in 1..Len(commits')
               PROVE  /\ \A j \in 1..(i - 1) : commits'[j] # commits'[i]
                      /\ \A n \in ahead'[commits'[i]] : \E j \in 1..(i - 1) : commits'[j] = n
      BY ZenonT(40) DEF CommitsInOrder
  <1>0. i \in 1..Len(commits)
        OBVIOUS
  <1>1. /\ \A j \in 1..(i - 1) : commits[j] # commits[i]
        /\ \A n \in ahead[commits[i]] : \E j \in 1..(i - 1) : commits[j] = n
        BY <1>0, ZenonT(40) DEF CommitsInOrder
  <1>2. ahead'[commits[i]] = ahead[commits[i]]
        BY <1>0
  <1>3. ahead'[commits'[i]] = ahead[commits[i]]
        BY <1>2
  <1> QED BY <1>1, <1>3

\* The same when nothing was accepted.
LEMMA V1CommitsFrame ==
    ASSUME CommitsInOrder, commits' = commits, ahead' = ahead
    PROVE  CommitsInOrder'
  BY V1CommitsKept

\* The tables are all that the order of the commits is about.
LEMMA V1OrderFrame ==
    ASSUME OrderInv, turn' = turn, inbound' = inbound, ahead' = ahead, commits' = commits
    PROVE  OrderInv'
  <1>0. CommitsInOrder
        BY DEF OrderInv
  <1>1. CommitsInOrder'
        BY <1>0, V1CommitsFrame
  <1> QED BY <1>1, ZenonT(40) DEF OrderInv

\* A step of the entries and the tasks only: what it removes from the stream it
\* gives an owner, and what loses its owner was committed.
LEMMA V1EntryFrame ==
    ASSUME EntryInv, UNCHANGED <<inbound, outbox, deduped>>,
           \A m \in Message :
              /\ pel'[m].owner # Nobody \/ pel'[m].idle => inbound[m] # "none"
              /\ InStream(stream, m) \/ pel[m].owner # Nobody =>
                    InStream(stream', m) \/ pel'[m].owner # Nobody \/ inbound[m] = "committed",
           \A i \in 1..Len(stream') : inbound[stream'[i]] # "none",
           \A t \in Task : task'[t].pc # "free" =>
              /\ task'[t].m \in Message /\ inbound[task'[t].m] # "none"
              /\ task'[t].pc = "ack" => inbound[task'[t].m] = "committed"
    PROVE  EntryInv'
  <1>1. \A m \in Message :
          /\ outbox'[m] = "published" => m \in deduped'
          /\ outbox'[m] # "none" \/ m \in deduped' => inbound'[m] # "none"
          /\ m \in deduped' =>
                InStream(stream', m) \/ pel'[m].owner # Nobody \/ inbound'[m] = "committed"
        BY ZenonT(40) DEF EntryInv
  <1> QED BY <1>1, ZenonT(40) DEF EntryInv

\* Every task that a task set ends is free afterwards.
LEMMA V1Ended ==
    ASSUME LegacyTypeOK, NEW ts
    PROVE  /\ Ended(ts) \in [Task -> [pc : {"free", "acquire", "turn", "busy", "ack"},
                                      m : 0..N, epoch : Nat]]
           /\ \A t \in Task : Ended(ts)[t] = task[t] \/ Ended(ts)[t] = Free
           /\ Free.pc = "free"
  <1>1. Free \in [pc : {"free", "acquire", "turn", "busy", "ack"}, m : 0..N, epoch : Nat]
        BY DEF Free
  <1>2. task \in [Task -> [pc : {"free", "acquire", "turn", "busy", "ack"}, m : 0..N, epoch : Nat]]
        BY ZenonT(40) DEF LegacyTypeOK
  <1>3. Free.pc = "free"
        BY DEF Free
  <1> QED BY <1>1, <1>2, <1>3 DEF Ended

-----------------------------------------------------------------------------

\* Nothing was accepted but what waits in the mailbox.
LEMMA V1InitInv == LegacyInit => LegacyInv
  <1> SUFFICES ASSUME LegacyInit PROVE LegacyInv
      OBVIOUS
  <1>0. Mailboxed \subseteq Message
        BY DEF Mailboxed, Message
  <1>1. LegacyTypeOK
        <2>1. /\ inbound \in [Message -> {"none", "accepted", "processing", "committed", "failed"}]
              /\ ahead \in [Message -> SUBSET Message]
              /\ outbox \in [Message -> {"none", "ready", "published"}]
              BY DEF LegacyInit
        <2> QED BY <2>1 DEF LegacyInit, LegacyTypeOK, Free, Unowned, Unleased
  <1>2. OrderInv
        <2>1. CommitsInOrder
              BY DEF LegacyInit, CommitsInOrder
        <2> QED BY <1>0, <2>1 DEF LegacyInit, OrderInv
  <1>3. LeaseInv
        <2>1. /\ lease.epoch = 0 /\ ~lease.live
              /\ \A m \in Message : turn[m].token = 0
              /\ \A t \in Task : task[t].pc = "free"
              BY DEF LegacyInit, Unleased, Free
        <2> QED BY <2>1 DEF LeaseInv
  <1>4. EntryInv
        BY DEF LegacyInit, EntryInv, Unowned, Free
  <1> QED BY <1>1, <1>2, <1>3, <1>4 DEF LegacyInv

\* accept_inbound: the new message has no turn yet, so it is neither committed nor
\* under the lease.
LEMMA V1AcceptStep ==
    ASSUME LegacyInv, NEW m \in Message, Accept(m)
    PROVE  LegacyInv'
  <1> USE DEF LegacyInv
  <1> DEFINE seen == {n \in 1..(m - 1) : inbound[n] # "none"}
  <1>1. /\ inbound[m] = "none"
        /\ inbound' = [inbound EXCEPT ![m] = "accepted"]
        /\ ahead' = [ahead EXCEPT ![m] = seen]
        /\ outbox' = [outbox EXCEPT ![m] = "ready"]
        /\ UNCHANGED <<deduped, stream, pel, lease, turn, task, commits, mishaps>>
        BY ZenonT(40) DEF Accept
  <1>2. /\ inbound \in [Message -> {"none", "accepted", "processing", "committed", "failed"}]
        /\ outbox \in [Message -> {"none", "ready", "published"}]
        /\ ahead \in [Message -> SUBSET Message] /\ commits \in Seq(Message)
        BY ZenonT(40) DEF LegacyTypeOK
  <1>a. seen \subseteq Message /\ \A n \in seen : n < m /\ inbound[n] # "none"
        BY DEF Message
  <1> HIDE DEF seen
  <1>3. /\ inbound'[m] = "accepted" /\ outbox'[m] = "ready" /\ ahead'[m] = seen
        /\ \A n \in Message \ {m} : /\ inbound'[n] = inbound[n] /\ outbox'[n] = outbox[n]
                                    /\ ahead'[n] = ahead[n]
        BY <1>1, <1>2
  <1>4. /\ inbound' \in [Message -> {"none", "accepted", "processing", "committed", "failed"}]
        /\ outbox' \in [Message -> {"none", "ready", "published"}]
        /\ ahead' \in [Message -> SUBSET Message]
        BY <1>1, <1>2, <1>a
  <1>5. LegacyTypeOK'
        BY <1>1, <1>4, ZenonT(40) DEF LegacyTypeOK
  <1>b. turn[m].status = "none" /\ \A n \in Message : inbound[n] # "none" => inbound'[n] # "none"
        BY <1>1, <1>3, ZenonT(40) DEF OrderInv
  <1>c. \A n \in Message : n = m \/ ahead'[n] = ahead[n]
        BY <1>3, ZenonT(40)
  <1>6. OrderInv'
        <2>0. "none" # "committed" /\ "accepted" # "committed" /\ "accepted" # "none"
              OBVIOUS
        <2>1. \A i \in 1..Len(commits) : commits[i] \in Message /\ commits[i] # m
              <3>1. \A i \in 1..Len(commits) : commits[i] \in Message
                    BY <1>2
              <3> QED BY <1>b, <2>0, <3>1, ZenonT(40) DEF OrderInv
        <2>2. CommitsInOrder'
              <3>1. CommitsInOrder
                    BY DEF OrderInv
              <3>2. \A i \in 1..Len(commits) : ahead'[commits[i]] = ahead[commits[i]]
                    BY <1>c, <2>1
              <3>3. commits' = commits
                    BY <1>1
              <3> QED BY <3>1, <3>2, <3>3, V1CommitsKept, ZenonT(40)
        <2>3. \A n \in Message : inbound'[n] = "committed" <=> turn[n].status = "committed"
              <3> TAKE n \in Message
              <3>1. inbound[n] = "committed" <=> turn[n].status = "committed"
                    BY ZenonT(40) DEF OrderInv
              <3>2. CASE n = m
                    BY <3>2, <1>3, <1>b
              <3>3. CASE n # m
                    BY <3>1, <3>3, <1>3
              <3> QED BY <3>2, <3>3
        <2>4. \A n \in Message : inbound'[n] = "none" => turn[n].status = "none"
              BY <1>b, ZenonT(40) DEF OrderInv
        <2>5. \A k \in Message : \A n \in ahead'[k] : n < k /\ inbound'[n] # "none"
              <3>1. \A k \in Message : \A n \in ahead[k] : n \in Message
                    BY <1>2
              <3>2. \A k \in Message : \A n \in ahead[k] : n < k /\ inbound'[n] # "none"
                    BY <3>1, <1>b, ZenonT(40) DEF OrderInv
              <3>3. \A n \in seen : n < m /\ inbound'[n] # "none"
                    BY <1>a, <1>b, ZenonT(40)
              <3> QED BY <3>2, <3>3, <1>3, <1>c, ZenonT(40)
        <2>6. \A k \in Mailboxed : k \in Message /\ k # m
              <3>1. \A k \in Mailboxed : k \in Message
                    BY DEF Mailboxed, Message
              <3> QED BY <3>1, <1>1, ZenonT(40) DEF OrderInv
        <2>7. \A k \in Mailboxed : ahead'[k] = {} /\ inbound'[k] # "none"
              BY <2>6, <1>b, <1>c, ZenonT(40) DEF OrderInv
        <2>8. \A n \in Message : turn[n].status = "committed" <=> \E i \in 1..Len(commits) : commits[i] = n
              BY ZenonT(40) DEF OrderInv
        <2> QED BY <1>1, <2>2, <2>3, <2>4, <2>5, <2>7, <2>8, ZenonT(40) DEF OrderInv
  <1>7. LeaseInv'
        <2>1. \A n \in Message : lease.live /\ turn[n] = [status |-> "processing", token |-> lease.epoch]
                 => \A k \in ahead'[n] : turn[k].status = "committed"
              <3> SUFFICES ASSUME NEW n \in Message, lease.live,
                                  turn[n] = [status |-> "processing", token |-> lease.epoch]
                           PROVE  \A k \in ahead'[n] : turn[k].status = "committed"
                  BY ZenonT(40)
              <3>1. turn[n].status = "processing" /\ "processing" # "none"
                    OBVIOUS
              <3>2. ahead'[n] = ahead[n]
                    BY <3>1, <1>b, <1>c, ZenonT(40)
              <3> QED BY <3>2, ZenonT(40) DEF LeaseInv
        <2> QED BY <1>1, <2>1, ZenonT(40) DEF LeaseInv
  <1>8. EntryInv'
        <2>1. \A n \in Message : inbound[n] # "none" => inbound'[n] # "none"
              BY <1>3, ZenonT(40)
        <2>2. \A n \in Message : inbound[n] = "committed" => inbound'[n] = "committed"
              BY <1>1, <1>3, ZenonT(40)
        <2>3. \A n \in Message :
                 /\ outbox'[n] = "published" => n \in deduped
                 /\ outbox'[n] # "none" \/ n \in deduped \/ pel[n].owner # Nobody \/ pel[n].idle
                       => inbound'[n] # "none"
                 /\ n \in deduped =>
                       InStream(stream, n) \/ pel[n].owner # Nobody \/ inbound'[n] = "committed"
              BY <1>3, <2>1, <2>2, ZenonT(40) DEF EntryInv
        <2>4. \A i \in 1..Len(stream) : inbound'[stream[i]] # "none"
              <3>1. \A i \in 1..Len(stream) : stream[i] \in Message
                    BY DEF LegacyTypeOK
              <3> QED BY <3>1, <2>1, ZenonT(40) DEF EntryInv
        <2>5. \A t \in Task : task[t].pc # "free" =>
                 /\ task[t].m \in Message /\ inbound'[task[t].m] # "none"
                 /\ task[t].pc = "ack" => inbound'[task[t].m] = "committed"
              BY <2>1, <2>2, ZenonT(40) DEF EntryInv
        <2> QED BY <1>1, <2>3, <2>4, <2>5, ZenonT(40) DEF EntryInv
  <1> QED BY <1>5, <1>6, <1>7, <1>8

\* A publication adds the entry unless Redis remembers the event.
LEMMA V1PublishStep ==
    ASSUME LegacyInv, NEW m \in Message, outbox[m] = "ready",
           stream' = Added(m), deduped' = deduped \cup {m},
           outbox' = outbox \/ outbox' = [outbox EXCEPT ![m] = "published"],
           mishaps' \in Nat,
           UNCHANGED <<inbound, ahead, pel, lease, turn, task, commits>>
    PROVE  LegacyInv'
  <1> USE DEF LegacyInv
  <1>1. stream \in Seq(Message) /\ outbox \in [Message -> {"none", "ready", "published"}]
        BY ZenonT(40) DEF LegacyTypeOK
  <1>2. /\ outbox' \in [Message -> {"none", "ready", "published"}]
        /\ \A n \in Message \ {m} : outbox'[n] = outbox[n]
        /\ outbox'[m] # "none"
        BY <1>1
  <1>3. /\ stream' \in Seq(Message)
        /\ \A i \in 1..Len(stream') : stream'[i] = m \/ \E j \in 1..Len(stream) : stream'[i] = stream[j]
        /\ \A n \in Message : InStream(stream, n) => InStream(stream', n)
        /\ m \notin deduped => InStream(stream', m)
        <2>1. CASE m \in deduped
              <3>1. stream' = stream
                    BY <2>1, ZenonT(40) DEF Added
              <3> QED BY <3>1, <2>1, <1>1
        <2>2. CASE m \notin deduped
              <3>1. stream' = Append(stream, m)
                    BY <2>2, ZenonT(40) DEF Added
              <3>2. /\ stream' \in Seq(Message) /\ Len(stream') = Len(stream) + 1
                    /\ stream'[Len(stream) + 1] = m
                    /\ \A i \in 1..Len(stream) : stream'[i] = stream[i]
                    /\ Len(stream) \in Nat
                    BY <3>1, <1>1
              <3>3. /\ \A i \in 1..Len(stream') : i \in 1..Len(stream) \/ i = Len(stream) + 1
                    /\ \A i \in 1..Len(stream) : i \in 1..Len(stream')
                    /\ Len(stream) + 1 \in 1..Len(stream')
                    BY <3>2
              <3> QED BY <3>2, <3>3, ZenonT(40) DEF InStream
        <2> QED BY <2>1, <2>2
  <1>4. LegacyTypeOK'
        BY <1>2, <1>3 DEF LegacyTypeOK
  <1>5. OrderInv'
        BY V1OrderFrame, ZenonT(40)
  <1>6. LeaseInv'
        BY V1LeaseFrame, ZenonT(40)
  <1>7. EntryInv'
        <2>1. inbound[m] # "none"
              BY ZenonT(40) DEF EntryInv
        <2>2. \A n \in Message :
                 /\ outbox'[n] = "published" => n \in deduped'
                 /\ outbox'[n] # "none" \/ n \in deduped' => inbound[n] # "none"
                 /\ n \in deduped' =>
                       InStream(stream', n) \/ pel[n].owner # Nobody \/ inbound[n] = "committed"
              <3> SUFFICES ASSUME NEW n \in Message
                           PROVE  /\ outbox'[n] = "published" => n \in deduped'
                                  /\ outbox'[n] # "none" \/ n \in deduped' => inbound[n] # "none"
                                  /\ n \in deduped' =>
                                        \/ InStream(stream', n) \/ pel[n].owner # Nobody
                                        \/ inbound[n] = "committed"
                  OBVIOUS
              <3>1. CASE n = m
                    BY <3>1, <2>1, <1>3, ZenonT(40) DEF EntryInv
              <3>2. CASE n # m
                    BY <3>2, <1>2, <1>3, ZenonT(40) DEF EntryInv
              <3> QED BY <3>1, <3>2
        <2>3. \A i \in 1..Len(stream') : inbound[stream'[i]] # "none"
              BY <2>1, <1>3, ZenonT(40) DEF EntryInv
        <2> QED BY <2>2, <2>3, ZenonT(40) DEF EntryInv
  <1> QED BY <1>4, <1>5, <1>6, <1>7

\* The task of a record.
V1Tasks == [pc : {"free", "acquire", "turn", "busy", "ack"}, m : 0..N, epoch : Nat]

\* A step of the entries and the tasks that leaves the database alone: a task
\* that it moves starts or ends, and an entry that it touches was accepted.
LEMMA V1TransportStep ==
    ASSUME LegacyInv, UNCHANGED <<db, outbox, deduped>>, mishaps' \in Nat,
           stream' \in Seq(Message),
           pel' \in [Message -> [owner : Consumer \cup {Nobody}, idle : BOOLEAN]],
           task' \in [Task -> V1Tasks],
           \A t \in Task : \/ task'[t] = task[t] \/ task'[t].pc = "free"
                           \/ /\ task'[t].pc = "acquire" /\ task'[t].m \in Message
                              /\ inbound[task'[t].m] # "none",
           \A m \in Message :
              /\ pel'[m].owner # Nobody \/ pel'[m].idle => inbound[m] # "none"
              /\ InStream(stream, m) \/ pel[m].owner # Nobody =>
                    InStream(stream', m) \/ pel'[m].owner # Nobody \/ inbound[m] = "committed",
           \A i \in 1..Len(stream') : inbound[stream'[i]] # "none"
    PROVE  LegacyInv'
  <1> USE DEF LegacyInv
  <1>1. /\ inbound' = inbound /\ ahead' = ahead /\ lease' = lease /\ turn' = turn
        /\ commits' = commits
        BY DEF db
  <1>2. LegacyTypeOK'
        BY <1>1, ZenonT(40) DEF LegacyTypeOK, V1Tasks
  <1>3. OrderInv'
        BY <1>1, V1OrderFrame, ZenonT(40)
  <1>4. \A t \in Task : task'[t].pc = "turn" => task'[t] = task[t]
        BY ZenonT(40)
  <1>5. LeaseInv'
        BY <1>1, <1>4, V1LeaseFrame, ZenonT(40)
  <1>6. \A t \in Task : task'[t].pc # "free" =>
           /\ task'[t].m \in Message /\ inbound[task'[t].m] # "none"
           /\ task'[t].pc = "ack" => inbound[task'[t].m] = "committed"
        BY ZenonT(40) DEF EntryInv
  <1>7. EntryInv'
        BY <1>1, <1>6, V1EntryFrame, ZenonT(40)
  <1> QED BY <1>2, <1>3, <1>5, <1>7

\* An entry that nobody refreshes keeps its owner.
LEMMA V1BecomesIdleStep ==
    ASSUME LegacyInv, NEW m \in Message, BecomesIdle(m)
    PROVE  LegacyInv'
  <1> USE DEF LegacyInv
  <1>1. /\ pel[m].owner # Nobody /\ pel' = [pel EXCEPT ![m].idle = TRUE]
        /\ UNCHANGED <<db, outbox, deduped, stream, task>>
        BY ZenonT(40) DEF BecomesIdle
  <1>2. /\ pel \in [Message -> [owner : Consumer \cup {Nobody}, idle : BOOLEAN]]
        /\ stream \in Seq(Message) /\ task \in [Task -> V1Tasks] /\ mishaps \in Nat
        BY ZenonT(40) DEF LegacyTypeOK, V1Tasks
  <1>3. mishaps' \in Nat
        BY <1>2 DEF BecomesIdle, Mishap
  <1>4. /\ pel' \in [Message -> [owner : Consumer \cup {Nobody}, idle : BOOLEAN]]
        /\ \A n \in Message \ {m} : pel'[n] = pel[n]
        /\ pel'[m].owner = pel[m].owner
        BY <1>1, <1>2
  <1>5. \A n \in Message :
           /\ pel'[n].owner # Nobody \/ pel'[n].idle => inbound[n] # "none"
           /\ pel'[n].owner = pel[n].owner
        <2> TAKE n \in Message
        <2>1. CASE n = m
              BY <2>1, <1>1, <1>4, ZenonT(40) DEF EntryInv
        <2>2. CASE n # m
              BY <2>2, <1>4, ZenonT(40) DEF EntryInv
        <2> QED BY <2>1, <2>2
  <1>6. \A i \in 1..Len(stream) : inbound[stream[i]] # "none"
        BY ZenonT(40) DEF EntryInv
  <1>7. task' = task /\ stream' = stream /\ UNCHANGED <<db, outbox, deduped>>
        BY <1>1
  <1> QED BY <1>2, <1>3, <1>4, <1>5, <1>6, <1>7, V1TransportStep, ZenonT(60)

\* The record of a task that starts.
LEMMA V1Started ==
    ASSUME NEW m \in Message
    PROVE  /\ [Free EXCEPT !.pc = "acquire", !.m = m] \in V1Tasks
           /\ [Free EXCEPT !.pc = "acquire", !.m = m].pc = "acquire"
           /\ [Free EXCEPT !.pc = "acquire", !.m = m].m = m
  <1>1. m \in 0..N
        BY DEF Message, LegacyAssumption
  <1>2. [Free EXCEPT !.pc = "acquire", !.m = m] \in V1Tasks
        BY <1>1 DEF V1Tasks, Free
  <1> QED BY <1>2 DEF Free

\* A task that takes an accepted message.
LEMMA V1Taken ==
    ASSUME LegacyInv, NEW c \in Consumer, NEW i \in 1..Slots, NEW m \in Message,
           inbound[m] # "none",
           task' = task \/ task' = [task EXCEPT ![<<c, i>>] = [Free EXCEPT !.pc = "acquire", !.m = m]]
    PROVE  /\ task' \in [Task -> V1Tasks]
           /\ \A t \in Task : \/ task'[t] = task[t]
                              \/ /\ task'[t].pc = "acquire" /\ task'[t].m \in Message
                                 /\ inbound[task'[t].m] # "none"
  <1>1. task \in [Task -> V1Tasks]
        BY ZenonT(40) DEF LegacyInv, LegacyTypeOK, V1Tasks
  <1>2. <<c, i>> \in Task
        BY DEF Task
  <1> DEFINE r == [Free EXCEPT !.pc = "acquire", !.m = m]
  <1>3. r \in V1Tasks /\ r.pc = "acquire" /\ r.m = m
        BY V1Started
  <1> HIDE DEF r
  <1>4. task' = task \/ task' = [task EXCEPT ![<<c, i>>] = r]
        BY DEF r
  <1> QED BY <1>1, <1>2, <1>3, <1>4

\* The entry that a consumer takes gets it as its owner.
LEMMA V1Owned ==
    ASSUME LegacyInv, NEW c \in Consumer, NEW m \in Message, inbound[m] # "none",
           pel' = [pel EXCEPT ![m] = [owner |-> c, idle |-> FALSE]]
    PROVE  /\ pel' \in [Message -> [owner : Consumer \cup {Nobody}, idle : BOOLEAN]]
           /\ pel'[m].owner # Nobody
           /\ \A n \in Message : pel'[n].owner # Nobody \/ pel'[n].idle => inbound[n] # "none"
           /\ \A n \in Message : pel[n].owner # Nobody => pel'[n].owner # Nobody
  <1>1. pel \in [Message -> [owner : Consumer \cup {Nobody}, idle : BOOLEAN]]
        BY ZenonT(40) DEF LegacyInv, LegacyTypeOK
  <1>2. /\ pel' \in [Message -> [owner : Consumer \cup {Nobody}, idle : BOOLEAN]]
        /\ pel'[m].owner = c /\ \A n \in Message \ {m} : pel'[n] = pel[n]
        BY <1>1
  <1>3. c # Nobody
        BY DEF LegacyAssumption
  <1> QED BY <1>2, <1>3, ZenonT(40) DEF LegacyInv, EntryInv

\* XAUTOCLAIM of an idle entry.
LEMMA V1ReclaimStep ==
    ASSUME LegacyInv, NEW c \in Consumer, NEW i \in 1..Slots, NEW m \in Message, Reclaim(c, i, m)
    PROVE  LegacyInv'
  <1>1. /\ pel[m].idle
        /\ pel' = [pel EXCEPT ![m] = [owner |-> c, idle |-> FALSE]]
        /\ task' = task \/ task' = [task EXCEPT ![<<c, i>>] = [Free EXCEPT !.pc = "acquire", !.m = m]]
        /\ stream' = stream /\ mishaps' = mishaps /\ UNCHANGED <<db, outbox, deduped>>
        BY ZenonT(40) DEF Reclaim
  <1>2. inbound[m] # "none"
        BY <1>1, ZenonT(40) DEF LegacyInv, EntryInv
  <1>3. /\ stream \in Seq(Message) /\ mishaps \in Nat
        /\ \A k \in 1..Len(stream) : inbound[stream[k]] # "none"
        BY ZenonT(40) DEF LegacyInv, LegacyTypeOK, EntryInv
  <1> QED BY <1>1, <1>2, <1>3, V1Taken, V1Owned, V1TransportStep, ZenonT(60)

\* What is behind the head of a sequence is its tail.
LEMMA V1TailFacts ==
    ASSUME NEW S, NEW s \in Seq(S), s # <<>>
    PROVE  /\ Head(s) \in S /\ Head(s) = s[1] /\ 1 \in 1..Len(s)
           /\ Tail(s) \in Seq(S)
           /\ \A k \in 1..Len(Tail(s)) : k + 1 \in 1..Len(s) /\ Tail(s)[k] = s[k + 1]
           /\ \A k \in 1..Len(s) : k = 1 \/ (k - 1 \in 1..Len(Tail(s)) /\ Tail(s)[k - 1] = s[k])
  <1>1. /\ Len(s) \in Nat /\ Len(s) # 0 /\ Len(Tail(s)) = Len(s) - 1 /\ Tail(s) \in Seq(S)
        /\ Head(s) = s[1]
        OBVIOUS
  <1>2. \A k \in 1..Len(Tail(s)) : Tail(s)[k] = s[k + 1]
        OBVIOUS
  <1>3. \A k \in 1..Len(s) : s[k] \in S
        OBVIOUS
  <1>4. \A k \in 1..Len(s) : k = 1 \/ (k - 1 \in 1..Len(Tail(s)) /\ (k - 1) + 1 = k)
        BY <1>1
  <1>5. \A k \in 1..Len(Tail(s)) : k + 1 \in 1..Len(s)
        BY <1>1
  <1>6. 1 \in 1..Len(s)
        BY <1>1
  <1>7. \A k \in 1..Len(s) : k = 1 \/ (k - 1 \in 1..Len(Tail(s)) /\ Tail(s)[k - 1] = s[k])
        BY <1>2, <1>4, ZenonT(40)
  <1> QED BY <1>1, <1>2, <1>3, <1>5, <1>6, <1>7, ZenonT(40)

\* XREADGROUP of the next entry.
LEMMA V1ReadStep ==
    ASSUME LegacyInv, NEW c \in Consumer, NEW i \in 1..Slots, Read(c, i)
    PROVE  LegacyInv'
  <1> DEFINE h == Head(stream)
  <1>1. /\ stream # <<>> /\ stream' = Tail(stream)
        /\ pel' = [pel EXCEPT ![h] = [owner |-> c, idle |-> FALSE]]
        /\ task' = [task EXCEPT ![<<c, i>>] = [Free EXCEPT !.pc = "acquire", !.m = h]]
        /\ mishaps' = mishaps /\ UNCHANGED <<db, outbox, deduped>>
        BY ZenonT(40) DEF Read
  <1>2. /\ stream \in Seq(Message) /\ mishaps \in Nat
        /\ \A k \in 1..Len(stream) : inbound[stream[k]] # "none"
        BY ZenonT(40) DEF LegacyInv, LegacyTypeOK, EntryInv
  <1>3. /\ h \in Message /\ h = stream[1] /\ 1 \in 1..Len(stream)
        /\ stream' \in Seq(Message)
        /\ \A k \in 1..Len(stream') : k + 1 \in 1..Len(stream) /\ stream'[k] = stream[k + 1]
        /\ \A k \in 1..Len(stream) : k = 1 \/ (k - 1 \in 1..Len(stream') /\ stream'[k - 1] = stream[k])
        BY <1>1, <1>2, V1TailFacts, ZenonT(40)
  <1>4. inbound[h] # "none"
        BY <1>2, <1>3, ZenonT(40)
  <1>5. \A k \in 1..Len(stream') : inbound[stream'[k]] # "none"
        <2> TAKE k \in 1..Len(stream')
        <2>1. k + 1 \in 1..Len(stream) /\ stream'[k] = stream[k + 1]
              BY <1>3, ZenonT(40)
        <2>2. inbound[stream[k + 1]] # "none"
              BY <2>1, <1>2, ZenonT(40)
        <2> QED BY <2>1, <2>2
  <1>6. \A n \in Message : InStream(stream, n) => InStream(stream', n) \/ n = h
        BY <1>3, ZenonT(40) DEF InStream
  <1> HIDE DEF h
  <1>7. /\ pel' \in [Message -> [owner : Consumer \cup {Nobody}, idle : BOOLEAN]]
        /\ pel'[h].owner # Nobody
        /\ \A n \in Message : pel'[n].owner # Nobody \/ pel'[n].idle => inbound[n] # "none"
        /\ \A n \in Message : pel[n].owner # Nobody => pel'[n].owner # Nobody
        BY <1>1, <1>3, <1>4, V1Owned, ZenonT(40)
  <1>8. /\ task' \in [Task -> V1Tasks]
        /\ \A t \in Task : \/ task'[t] = task[t]
                           \/ /\ task'[t].pc = "acquire" /\ task'[t].m \in Message
                              /\ inbound[task'[t].m] # "none"
        BY <1>1, <1>3, <1>4, V1Taken, ZenonT(40)
  <1> QED BY <1>1, <1>2, <1>3, <1>5, <1>6, <1>7, <1>8, V1TransportStep, ZenonT(60)

\* Ending a task leaves the others as they are.
LEMMA V1EndedOne ==
    ASSUME LegacyInv, NEW t \in Task, EndTask(t)
    PROVE  /\ task' \in [Task -> V1Tasks]
           /\ \A u \in Task : task'[u] = task[u] \/ task'[u].pc = "free"
           /\ \A u \in Task : task'[u] = task[u] \/ task'[u] = Free
  <1>1. task \in [Task -> V1Tasks]
        BY ZenonT(40) DEF LegacyInv, LegacyTypeOK, V1Tasks
  <1>2. Free \in V1Tasks /\ Free.pc = "free"
        BY DEF Free, V1Tasks
  <1> QED BY <1>1, <1>2 DEF EndTask

\* defer: the entry stays with its owner, and the task tries again or ends.
LEMMA V1DeferStep ==
    ASSUME LegacyInv, NEW t \in Task, Defer(t)
    PROVE  LegacyInv'
  <1>1. /\ task[t].pc = "busy" /\ UNCHANGED <<db, outbox, deduped>>
        /\ stream' = stream /\ mishaps' = mishaps
        /\ \/ Held(t[1], task[t].m) /\ pel' = [pel EXCEPT ![task[t].m].idle = FALSE]
              /\ Goto(t, "acquire")
           \/ EndTask(t) /\ pel' = pel
        BY ZenonT(40) DEF Defer
  <1>2. /\ stream \in Seq(Message) /\ mishaps \in Nat
        /\ \A k \in 1..Len(stream) : inbound[stream[k]] # "none"
        BY ZenonT(40) DEF LegacyInv, LegacyTypeOK, EntryInv
  <1>3. /\ pel \in [Message -> [owner : Consumer \cup {Nobody}, idle : BOOLEAN]]
        /\ task \in [Task -> V1Tasks]
        BY ZenonT(40) DEF LegacyInv, LegacyTypeOK, V1Tasks
  <1>4. task[t].m \in Message /\ inbound[task[t].m] # "none"
        BY <1>1, ZenonT(40) DEF LegacyInv, EntryInv
  <1>5. \A n \in Message : pel[n].owner # Nobody \/ pel[n].idle => inbound[n] # "none"
        BY ZenonT(40) DEF LegacyInv, EntryInv
  <1>6. CASE Held(t[1], task[t].m) /\ pel' = [pel EXCEPT ![task[t].m].idle = FALSE]
             /\ Goto(t, "acquire")
        <2>1. /\ pel' \in [Message -> [owner : Consumer \cup {Nobody}, idle : BOOLEAN]]
              /\ \A n \in Message : pel'[n].owner = pel[n].owner /\ (pel'[n].idle => pel[n].idle)
              BY <1>3, <1>4, <1>6
        <2>2. /\ task' \in [Task -> V1Tasks]
              /\ task'[t].pc = "acquire" /\ task'[t].m = task[t].m
              /\ \A u \in Task \ {t} : task'[u] = task[u]
              BY <1>3, <1>6 DEF Goto, V1Tasks
        <2>3. \A u \in Task : \/ task'[u] = task[u]
                              \/ /\ task'[u].pc = "acquire" /\ task'[u].m \in Message
                                 /\ inbound[task'[u].m] # "none"
              BY <2>2, <1>4, ZenonT(40)
        <2>4. \A n \in Message : pel'[n].owner # Nobody \/ pel'[n].idle => inbound[n] # "none"
              BY <2>1, <1>5, ZenonT(40)
        <2> QED BY <1>1, <1>2, <2>1, <2>2, <2>3, <2>4, V1TransportStep, ZenonT(60)
  <1>7. CASE EndTask(t) /\ pel' = pel
        BY <1>1, <1>2, <1>3, <1>5, <1>7, V1EndedOne, V1TransportStep, ZenonT(60)
  <1> QED BY <1>1, <1>6, <1>7

\* XACK: only the entry of a committed message is given up.
LEMMA V1AckStep ==
    ASSUME LegacyInv, NEW t \in Task, Ack(t)
    PROVE  LegacyInv'
  <1>1. /\ task[t].pc = "ack" /\ UNCHANGED <<db, outbox, deduped>>
        /\ stream' = stream /\ mishaps' = mishaps
        /\ pel' = [pel EXCEPT ![task[t].m] = Unowned] /\ EndTask(t)
        BY ZenonT(40) DEF Ack
  <1>2. /\ stream \in Seq(Message) /\ mishaps \in Nat
        /\ \A k \in 1..Len(stream) : inbound[stream[k]] # "none"
        BY ZenonT(40) DEF LegacyInv, LegacyTypeOK, EntryInv
  <1>3. pel \in [Message -> [owner : Consumer \cup {Nobody}, idle : BOOLEAN]]
        BY ZenonT(40) DEF LegacyInv, LegacyTypeOK
  <1>4. "ack" # "free"
        OBVIOUS
  <1>5. task[t].m \in Message /\ inbound[task[t].m] = "committed"
        BY <1>1, <1>4, ZenonT(40) DEF LegacyInv, EntryInv
  <1>6. \A n \in Message : pel[n].owner # Nobody \/ pel[n].idle => inbound[n] # "none"
        BY ZenonT(40) DEF LegacyInv, EntryInv
  <1>7. /\ pel' \in [Message -> [owner : Consumer \cup {Nobody}, idle : BOOLEAN]]
        /\ \A n \in Message : n # task[t].m => pel'[n] = pel[n]
        /\ inbound[task[t].m] # "none"
        BY <1>1, <1>3, <1>5 DEF Unowned
  <1>8. \A n \in Message :
           /\ pel'[n].owner # Nobody \/ pel'[n].idle => inbound[n] # "none"
           /\ pel[n].owner # Nobody => pel'[n].owner # Nobody \/ inbound[n] = "committed"
        BY <1>5, <1>6, <1>7, ZenonT(40)
  <1> QED BY <1>1, <1>2, <1>7, <1>8, V1EndedOne, V1TransportStep, ZenonT(60)

\* A crash frees the tasks of the process and nothing else.
LEMMA V1CrashStep ==
    ASSUME LegacyInv, NEW c \in Consumer, Dies(c)
    PROVE  LegacyInv'
  <1>1. /\ task' = Ended(Tasks(c)) /\ UNCHANGED <<db, outbox, deduped>>
        /\ stream' = stream /\ pel' = pel /\ Mishap
        BY ZenonT(40) DEF Dies
  <1>2. /\ stream \in Seq(Message) /\ mishaps \in Nat
        /\ \A k \in 1..Len(stream) : inbound[stream[k]] # "none"
        /\ pel \in [Message -> [owner : Consumer \cup {Nobody}, idle : BOOLEAN]]
        BY ZenonT(40) DEF LegacyInv, LegacyTypeOK, EntryInv
  <1>3. mishaps' \in Nat
        BY <1>1, <1>2 DEF Mishap
  <1>4. \A n \in Message : pel[n].owner # Nobody \/ pel[n].idle => inbound[n] # "none"
        BY ZenonT(40) DEF LegacyInv, EntryInv
  <1>5. /\ task' \in [Task -> V1Tasks]
        /\ \A t \in Task : task'[t] = task[t] \/ task'[t].pc = "free"
        BY <1>1, V1Ended, ZenonT(40) DEF LegacyInv, V1Tasks
  <1> QED BY <1>1, <1>2, <1>3, <1>4, <1>5, V1TransportStep, ZenonT(60)

\* An expiry only takes the life of the lease.
LEMMA V1ExpireStep ==
    ASSUME LegacyInv, Expire
    PROVE  LegacyInv'
  <1> USE DEF LegacyInv
  <1>1. /\ lease' = [lease EXCEPT !.live = FALSE]
        /\ UNCHANGED <<inbound, ahead, turn, commits, outbox, deduped, stream, pel, task>>
        BY ZenonT(40) DEF Expire
  <1>2. lease \in [owner : Consumer \cup {Nobody, Mailbox}, epoch : Nat, live : BOOLEAN] /\ mishaps \in Nat
        BY ZenonT(40) DEF LegacyTypeOK
  <1>3. mishaps' \in Nat
        BY <1>2 DEF Expire, Mishap
  <1>4. /\ lease' \in [owner : Consumer \cup {Nobody, Mailbox}, epoch : Nat, live : BOOLEAN]
        /\ lease'.epoch = lease.epoch /\ lease'.owner = lease.owner /\ ~lease'.live
        BY <1>1, <1>2
  <1>5. LegacyTypeOK'
        BY <1>1, <1>3, <1>4, ZenonT(40) DEF LegacyTypeOK
  <1>6. OrderInv'
        BY <1>1, V1OrderFrame, ZenonT(40)
  <1>7. LeaseInv'
        BY <1>1, <1>4, ZenonT(40) DEF LeaseInv
  <1>8. EntryInv'
        BY <1>1, ZenonT(40) DEF EntryInv
  <1> QED BY <1>5, <1>6, <1>7, <1>8

\* A task goes on with its message.
LEMMA V1Moved ==
    ASSUME LegacyInv, NEW t \in Task,
           NEW q \in {"free", "acquire", "turn", "busy", "ack"}, NEW e \in Nat,
           \/ Goto(t, q)
           \/ task' = [task EXCEPT ![t].pc = q, ![t].epoch = e]
    PROVE  /\ task' \in [Task -> V1Tasks]
           /\ task'[t].pc = q /\ task'[t].m = task[t].m
           /\ \A u \in Task : u # t => task'[u] = task[u]
  <1>1. task \in [Task -> V1Tasks]
        BY ZenonT(40) DEF LegacyInv, LegacyTypeOK, V1Tasks
  <1>2. CASE Goto(t, q)
        BY <1>1, <1>2 DEF Goto, V1Tasks
  <1>3. CASE task' = [task EXCEPT ![t].pc = q, ![t].epoch = e]
        BY <1>1, <1>3 DEF V1Tasks
  <1> QED BY <1>2, <1>3

\* What acquire refuses is acknowledged only when it was committed.
LEMMA V1RefusedStep ==
    ASSUME LegacyInv, NEW t \in Task, task[t].pc = "acquire",
           Goto(t, IF inbound[task[t].m] = "committed" THEN "ack" ELSE "busy"),
           UNCHANGED <<inbound, ahead, lease, turn, outbox, deduped, stream, pel, commits, mishaps>>
    PROVE  LegacyInv'
  <1> DEFINE q == IF inbound[task[t].m] = "committed" THEN "ack" ELSE "busy"
  <1>1. /\ q \in {"free", "acquire", "turn", "busy", "ack"} /\ q # "turn"
        /\ q = "ack" => inbound[task[t].m] = "committed"
        OBVIOUS
  <1> HIDE DEF q
  <1>2. Goto(t, q)
        BY DEF q
  <1>3. /\ task' \in [Task -> V1Tasks]
        /\ task'[t].pc = q /\ task'[t].m = task[t].m
        /\ \A u \in Task : u # t => task'[u] = task[u]
        BY <1>1, <1>2, V1Moved
  <1>4. LegacyTypeOK'
        BY <1>3, ZenonT(40) DEF LegacyInv, LegacyTypeOK, V1Tasks
  <1>5. OrderInv'
        BY V1OrderFrame, ZenonT(40) DEF LegacyInv
  <1>6. \A u \in Task : task'[u].pc = "turn" => task'[u] = task[u]
        BY <1>1, <1>3, ZenonT(40)
  <1>7. LeaseInv'
        BY <1>6, V1LeaseFrame, ZenonT(40) DEF LegacyInv
  <1>8. EntryInv'
        <2>1. task[t].m \in Message /\ inbound[task[t].m] # "none"
              BY ZenonT(40) DEF LegacyInv, EntryInv
        <2>2. \A u \in Task : task'[u].pc # "free" =>
                 /\ task'[u].m \in Message /\ inbound[task'[u].m] # "none"
                 /\ task'[u].pc = "ack" => inbound[task'[u].m] = "committed"
              <3> TAKE u \in Task
              <3>1. CASE u = t
                    BY <3>1, <1>1, <1>3, <2>1, ZenonT(40)
              <3>2. CASE u # t
                    BY <3>2, <1>3, ZenonT(40) DEF LegacyInv, EntryInv
              <3> QED BY <3>1, <3>2
        <2> QED BY <2>2, ZenonT(40) DEF LegacyInv, EntryInv
  <1> QED BY <1>4, <1>5, <1>7, <1>8 DEF LegacyInv

\* What acquire may take has nothing uncommitted ahead of it.
LEMMA V1AcquirableLast ==
    ASSUME LegacyInv, NEW m \in Message, Acquirable(m)
    PROVE  turn[m].status # "committed" /\ \A n \in ahead[m] : turn[n].status = "committed"
  <1>a. ahead \in [Message -> SUBSET Message]
        BY ZenonT(40) DEF LegacyInv, LegacyTypeOK
  <1>b. \A n \in ahead[m] : n \in Message
        BY <1>a
  <1>c. \A n \in ahead[m] : n < m /\ inbound[n] # "none"
        BY ZenonT(40) DEF LegacyInv, OrderInv
  <1>1. \A n \in ahead[m] : n \in Message /\ n < m /\ inbound[n] # "none"
        BY <1>b, <1>c
  <1>2. \A n \in ahead[m] : n \in 1..(m - 1)
        BY <1>1 DEF Message
  <1> QED BY <1>1, <1>2, ZenonT(40) DEF Acquirable

\* A step of the tables that forgets no acceptance and no commit.
LEMMA V1EntryKept ==
    ASSUME EntryInv, stream \in Seq(Message), UNCHANGED <<outbox, deduped, stream, pel>>,
           \A n \in Message : /\ inbound[n] # "none" => inbound'[n] # "none"
                              /\ inbound[n] = "committed" => inbound'[n] = "committed",
           \A t \in Task : \/ task'[t].pc = "free"
                           \/ task'[t] = task[t]
                           \/ /\ task[t].pc # "free" /\ task'[t].m = task[t].m
                              /\ task'[t].pc = "ack" => inbound'[task'[t].m] = "committed"
    PROVE  EntryInv'
  <1>1. \A n \in Message :
           /\ outbox[n] = "published" => n \in deduped
           /\ outbox[n] # "none" \/ n \in deduped \/ pel[n].owner # Nobody \/ pel[n].idle
                 => inbound'[n] # "none"
           /\ n \in deduped =>
                 InStream(stream, n) \/ pel[n].owner # Nobody \/ inbound'[n] = "committed"
        BY ZenonT(40) DEF EntryInv
  <1>2. \A i \in 1..Len(stream) : stream[i] \in Message
        BY V1Elements, ZenonT(40)
  <1>3. \A i \in 1..Len(stream) : inbound'[stream[i]] # "none"
        BY <1>2, ZenonT(40) DEF EntryInv
  <1>4. \A t \in Task : task[t].pc # "free" =>
           /\ task[t].m \in Message /\ inbound'[task[t].m] # "none"
           /\ task[t].pc = "ack" => inbound'[task[t].m] = "committed"
        BY ZenonT(40) DEF EntryInv
  <1>5. \A t \in Task : task'[t].pc # "free" =>
           /\ task'[t].m \in Message /\ inbound'[task'[t].m] # "none"
           /\ task'[t].pc = "ack" => inbound'[task'[t].m] = "committed"
        BY <1>4, ZenonT(40)
  <1> QED BY <1>1, <1>3, <1>5, ZenonT(40) DEF EntryInv

\* A step that neither commits nor accepts a message leaves the order.
LEMMA V1OrderKept ==
    ASSUME OrderInv, commits' = commits, ahead' = ahead, ahead \in [Message -> SUBSET Message],
           \A n \in Message : /\ inbound'[n] = "none" <=> inbound[n] = "none"
                              /\ inbound'[n] = "committed" <=> inbound[n] = "committed"
                              /\ turn'[n].status = "committed" <=> turn[n].status = "committed"
                              /\ inbound'[n] = "none" => turn'[n].status = turn[n].status
    PROVE  OrderInv'
  <1>0. CommitsInOrder
        BY DEF OrderInv
  <1>1. CommitsInOrder'
        BY <1>0, V1CommitsFrame
  <1>2. \A n \in Message : turn'[n].status = "committed" <=> \E i \in 1..Len(commits) : commits[i] = n
        BY ZenonT(40) DEF OrderInv
  <1>3. \A n \in Message : /\ inbound'[n] = "committed" <=> turn'[n].status = "committed"
                           /\ inbound'[n] = "none" => turn'[n].status = "none"
        <2> TAKE n \in Message
        <2>1. /\ inbound[n] = "committed" <=> turn[n].status = "committed"
              /\ inbound[n] = "none" => turn[n].status = "none"
              BY ZenonT(40) DEF OrderInv
        <2>2. /\ inbound'[n] = "none" <=> inbound[n] = "none"
              /\ inbound'[n] = "committed" <=> inbound[n] = "committed"
              /\ turn'[n].status = "committed" <=> turn[n].status = "committed"
              /\ inbound'[n] = "none" => turn'[n].status = turn[n].status
              OBVIOUS
        <2>3. inbound'[n] = "none" => turn'[n].status = "none"
              BY <2>1, <2>2
        <2> QED BY <2>1, <2>2, <2>3
  <1>4. \A k \in Message : \A n \in ahead[k] : n \in Message
        OBVIOUS
  <1>5. \A k \in Message : \A n \in ahead[k] : n < k /\ inbound'[n] # "none"
        <2> TAKE k \in Message
        <2> TAKE n \in ahead[k]
        <2>1. n < k /\ inbound[n] # "none"
              BY V1AheadSeen, ZenonT(40)
        <2>2. inbound'[n] = "none" <=> inbound[n] = "none"
              BY <1>4, ZenonT(40)
        <2> QED BY <2>1, <2>2
  <1>6. \A k \in Mailboxed : k \in Message
        BY DEF Mailboxed, Message
  <1>7. \A k \in Mailboxed : ahead[k] = {} /\ inbound'[k] # "none"
        BY <1>6, ZenonT(40) DEF OrderInv
  <1>8. \A n \in Message : turn'[n].status = "committed" <=> \E i \in 1..Len(commits') : commits'[i] = n
        BY <1>2
  <1>9. /\ \A k \in Message : \A n \in ahead'[k] : n < k /\ inbound'[n] # "none"
        /\ \A k \in Mailboxed : ahead'[k] = {} /\ inbound'[k] # "none"
        BY <1>5, <1>7
  <1> QED BY <1>1, <1>3, <1>8, <1>9, ZenonT(40) DEF OrderInv

\* A message gets a turn under a new token, by v1 or by the mailbox: everything
\* ahead of it is committed.
LEMMA V1GrantedStep ==
    ASSUME LegacyInv, NEW m \in Message, NEW e, NEW o \in Consumer \cup {Nobody, Mailbox},
           e = lease.epoch + 1,
           inbound[m] # "none", turn[m].status # "committed",
           \A n \in ahead[m] : turn[n].status = "committed",
           lease' = [owner |-> o, epoch |-> e, live |-> TRUE],
           turn' = [turn EXCEPT ![m] = [status |-> "processing", token |-> e]],
           inbound' = [inbound EXCEPT ![m] = "processing"],
           task' \in [Task -> V1Tasks],
           \A u \in Task : \/ task'[u] = task[u]
                           \/ /\ task[u].pc # "free" /\ task[u].m = m /\ task'[u].m = m
                              /\ task'[u].pc = "turn" /\ task'[u].epoch = e,
           UNCHANGED <<ahead, outbox, deduped, stream, pel, commits, mishaps>>
    PROVE  LegacyInv'
  <1>3. /\ lease.epoch \in Nat
        /\ \A n \in Message : turn[n].token \in Nat
        /\ \A u \in Task : task[u].epoch \in Nat
        BY V1Epochs, ZenonT(40) DEF LegacyInv
  <1>4. e \in Nat /\ e <= e /\ lease.epoch < e /\ \A k \in Nat : k <= lease.epoch => k <= e /\ k # e
        BY <1>3, V1NextEpoch, ZenonT(40)
  <1>5. /\ lease' \in [owner : Consumer \cup {Nobody, Mailbox}, epoch : Nat, live : BOOLEAN]
        /\ lease'.epoch = e
        BY <1>3, <1>4
  <1>6. /\ turn \in [Message -> [status : {"none", "processing", "committed", "failed"}, token : Nat]]
        /\ inbound \in [Message -> {"none", "accepted", "processing", "committed", "failed"}]
        /\ ahead \in [Message -> SUBSET Message] /\ stream \in Seq(Message)
        BY ZenonT(40) DEF LegacyInv, LegacyTypeOK
  <1>7. /\ turn' \in [Message -> [status : {"none", "processing", "committed", "failed"}, token : Nat]]
        /\ turn'[m].status = "processing" /\ turn'[m].token = e
        /\ \A n \in Message : n # m => turn'[n] = turn[n]
        BY <1>4, <1>6
  <1>8. /\ inbound' \in [Message -> {"none", "accepted", "processing", "committed", "failed"}]
        /\ inbound'[m] = "processing"
        /\ \A n \in Message : n # m => inbound'[n] = inbound[n]
        BY <1>6
  <1>11. LegacyTypeOK'
        BY <1>5, <1>7, <1>8, ZenonT(40) DEF LegacyInv, LegacyTypeOK, V1Tasks
  <1>12. \A n \in Message : /\ inbound'[n] = "none" <=> inbound[n] = "none"
                            /\ inbound'[n] = "committed" <=> inbound[n] = "committed"
                            /\ turn'[n].status = "committed" <=> turn[n].status = "committed"
                            /\ inbound'[n] = "none" => turn'[n].status = turn[n].status
        <2>1. inbound[m] # "committed"
              BY ZenonT(40) DEF LegacyInv, OrderInv
        <2> TAKE n \in Message
        <2>2. CASE n = m
              BY <2>1, <2>2, <1>7, <1>8
        <2>3. CASE n # m
              BY <2>3, <1>7, <1>8, ZenonT(40)
        <2> QED BY <2>2, <2>3
  <1>13. OrderInv'
        BY <1>6, <1>12, V1OrderKept, ZenonT(40) DEF LegacyInv
  <1>14. LeaseInv'
        <2>1. \A n \in Message : turn'[n].token <= e
              BY <1>3, <1>4, <1>7, ZenonT(40) DEF LegacyInv, LeaseInv
        <2>2. \A n \in Message : turn'[n] = [status |-> "processing", token |-> e] => n = m
              <3> SUFFICES ASSUME NEW n \in Message, n # m,
                                  turn'[n] = [status |-> "processing", token |-> e]
                           PROVE  FALSE
                  BY ZenonT(40)
              <3>1. turn[n].token <= lease.epoch
                    BY ZenonT(40) DEF LegacyInv, LeaseInv
              <3>2. turn[n].token = e
                    BY <1>7
              <3> QED BY <3>1, <3>2, <1>3, <1>4
        <2>3. \A u \in Task : task'[u].pc = "turn" =>
                 /\ task'[u].epoch <= e
                 /\ e = task'[u].epoch => turn'[task'[u].m].status # "committed"
              <3> TAKE u \in Task
              <3>1. CASE task'[u] = task[u]
                    <4>2. task[u].pc = "turn" => task[u].epoch <= lease.epoch
                          BY ZenonT(40) DEF LegacyInv, LeaseInv
                    <4> QED BY <3>1, <4>2, <1>3, <1>4, ZenonT(40)
              <3>2. CASE task'[u].m = m /\ task'[u].epoch = e
                    BY <3>2, <1>4, <1>7
              <3> QED BY <3>1, <3>2
        <2>4. \A n \in ahead[m] : n \in Message
              BY <1>6
        <2>5. \A n \in ahead[m] : turn'[n].status = "committed"
              BY <2>4, <1>12, ZenonT(40)
        <2> QED BY <1>5, <2>1, <2>2, <2>3, <2>5, ZenonT(40) DEF LeaseInv
  <1>15. EntryInv'
        <2>1. "turn" # "ack"
              OBVIOUS
        <2>2. \A u \in Task : \/ task'[u] = task[u]
                              \/ /\ task[u].pc # "free" /\ task'[u].m = task[u].m
                                 /\ task'[u].pc # "ack"
              BY <2>1, ZenonT(40)
        <2> QED BY <2>2, <1>6, <1>12, V1EntryKept, ZenonT(40) DEF LegacyInv
  <1> QED BY <1>11, <1>13, <1>14, <1>15 DEF LegacyInv

\* A turn under the living lease is committed, by v1 or by the mailbox.
LEMMA V1CommittedStep ==
    ASSUME LegacyInv, NEW m \in Message, inbound[m] # "none",
           lease.live, turn[m] = [status |-> "processing", token |-> lease.epoch],
           commits' = Append(commits, m),
           turn' = [turn EXCEPT ![m].status = "committed"],
           inbound' = [inbound EXCEPT ![m] = "committed"],
           lease' = Unleased(lease.epoch),
           task' \in [Task -> V1Tasks],
           \A u \in Task : \/ task'[u] = task[u]
                           \/ task[u].pc # "free" /\ task[u].m = m /\ task'[u].m = m /\ task'[u].pc = "ack",
           UNCHANGED <<ahead, outbox, deduped, stream, pel, mishaps>>
    PROVE  LegacyInv'
  <1>4. /\ \A n \in ahead[m] : turn[n].status = "committed"
        /\ turn[m].status # "committed"
        <2>1. turn[m].status # "committed"
              OBVIOUS
        <2> QED BY <2>1, ZenonT(40) DEF LegacyInv, LeaseInv
  <1>5. /\ turn \in [Message -> [status : {"none", "processing", "committed", "failed"}, token : Nat]]
        /\ inbound \in [Message -> {"none", "accepted", "processing", "committed", "failed"}]
        /\ ahead \in [Message -> SUBSET Message]
        /\ stream \in Seq(Message) /\ commits \in Seq(Message)
        BY ZenonT(40) DEF LegacyInv, LegacyTypeOK
  <1>6. lease.epoch \in Nat
        BY V1Epochs, ZenonT(40) DEF LegacyInv
  <1>7. /\ lease' \in [owner : Consumer \cup {Nobody, Mailbox}, epoch : Nat, live : BOOLEAN]
        /\ lease'.epoch = lease.epoch /\ lease'.owner = Nobody /\ ~lease'.live
        BY <1>6 DEF Unleased
  <1>8. /\ turn' \in [Message -> [status : {"none", "processing", "committed", "failed"}, token : Nat]]
        /\ turn'[m].status = "committed" /\ turn'[m].token = turn[m].token
        /\ \A n \in Message : n # m => turn'[n] = turn[n]
        BY <1>5
  <1>9. /\ inbound' \in [Message -> {"none", "accepted", "processing", "committed", "failed"}]
        /\ inbound'[m] = "committed"
        /\ \A n \in Message : n # m => inbound'[n] = inbound[n]
        BY <1>5
  <1>11. /\ commits' \in Seq(Message) /\ Len(commits') = Len(commits) + 1 /\ Len(commits) \in Nat
         /\ commits'[Len(commits) + 1] = m
         /\ \A i \in 1..Len(commits) : commits'[i] = commits[i]
        BY <1>5
  <1>12. LegacyTypeOK'
        BY <1>7, <1>8, <1>9, <1>11, ZenonT(40) DEF LegacyInv, LegacyTypeOK, V1Tasks
  <1>13. OrderInv'
        <2>1. /\ \A i \in 1..Len(commits') : i \in 1..Len(commits) \/ i = Len(commits) + 1
              /\ \A i \in 1..Len(commits) : i \in 1..Len(commits')
              /\ Len(commits) + 1 \in 1..Len(commits')
              /\ (Len(commits) + 1) - 1 = Len(commits)
              /\ \A i \in 1..Len(commits) : \A j \in 1..(i - 1) : j \in 1..Len(commits)
              BY <1>11
        <2>2. \A n \in Message : /\ turn[n].status = "committed" <=> \E i \in 1..Len(commits) : commits[i] = n
                                 /\ inbound[n] = "committed" <=> turn[n].status = "committed"
              BY ZenonT(40) DEF LegacyInv, OrderInv
        <2>3. \A n \in ahead[m] : n \in Message
              BY <1>5
        <2>4. CommitsInOrder'
              <3> SUFFICES ASSUME NEW i \in 1..Len(commits')
                           PROVE  /\ \A j \in 1..(i - 1) : commits'[j] # commits'[i]
                                  /\ \A n \in ahead[commits'[i]] : \E j \in 1..(i - 1) : commits'[j] = n
                  BY ZenonT(40) DEF CommitsInOrder
              <3>1. CASE i \in 1..Len(commits)
                    <4>1. CommitsInOrder
                          BY DEF LegacyInv, OrderInv
                    <4>2. /\ \A j \in 1..(i - 1) : commits[j] # commits[i]
                          /\ \A n \in ahead[commits[i]] : \E j \in 1..(i - 1) : commits[j] = n
                          BY <3>1, <4>1 DEF CommitsInOrder
                    <4>3. commits'[i] = commits[i] /\ \A j \in 1..(i - 1) : commits'[j] = commits[j]
                          BY <3>1, <2>1, <1>11
                    <4> QED BY <4>2, <4>3
              <3>2. CASE i = Len(commits) + 1
                    <4>1. commits'[i] = m /\ i - 1 = Len(commits)
                          BY <3>2, <2>1, <1>11
                    <4>2. \A j \in 1..Len(commits) : commits[j] # m
                          BY <2>2, <1>4, ZenonT(40)
                    <4>3. \A n \in ahead[m] : \E j \in 1..Len(commits) : commits[j] = n
                          BY <2>2, <2>3, <1>4, ZenonT(40)
                    <4>4. \A j \in 1..Len(commits) : commits'[j] = commits[j]
                          BY <1>11
                    <4> QED BY <4>1, <4>2, <4>3, <4>4
              <3> QED BY <3>1, <3>2, <2>1
        <2>5. \A n \in Message : turn'[n].status = "committed" <=> \E i \in 1..Len(commits') : commits'[i] = n
              <3> TAKE n \in Message
              <3>1. (\E i \in 1..Len(commits') : commits'[i] = n)
                       <=> n = m \/ \E i \in 1..Len(commits) : commits[i] = n
                    BY <2>1, <1>11, ZenonT(40)
              <3> QED BY <3>1, <2>2, <1>8, ZenonT(40)
        <2>6. \A n \in Message : inbound'[n] = "committed" <=> turn'[n].status = "committed"
              <3> TAKE n \in Message
              <3>1. CASE n = m
                    BY <3>1, <1>8, <1>9
              <3>2. CASE n # m
                    BY <3>2, <2>2, <1>8, <1>9
              <3> QED BY <3>1, <3>2
        <2>7. \A n \in Message : inbound'[n] = "none" <=> inbound[n] = "none"
              BY <1>9
        <2>8. \A n \in Message : inbound'[n] = "none" => turn'[n].status = "none"
              <3>1. \A n \in Message : inbound[n] = "none" => turn[n].status = "none" /\ n # m
                    BY ZenonT(40) DEF LegacyInv, OrderInv
              <3> QED BY <3>1, <2>7, <1>8, ZenonT(40)
        <2>9. \A k \in Message : \A n \in ahead[k] : n \in Message
              BY <1>5
        <2>10. \A k \in Message : \A n \in ahead[k] : n < k /\ inbound'[n] # "none"
              <3> TAKE k \in Message
              <3> TAKE n \in ahead[k]
              <3>1. n < k /\ inbound[n] # "none"
                    BY V1AheadSeen, ZenonT(40) DEF LegacyInv
              <3>2. inbound'[n] = "none" <=> inbound[n] = "none"
                    BY <2>7, <2>9, ZenonT(40)
              <3> QED BY <3>1, <3>2
        <2>11. \A k \in Mailboxed : k \in Message
              BY DEF Mailboxed, Message
        <2>12. \A k \in Mailboxed : ahead[k] = {} /\ inbound'[k] # "none"
              BY <2>7, <2>11, ZenonT(40) DEF LegacyInv, OrderInv
        <2> QED BY <2>4, <2>5, <2>6, <2>8, <2>10, <2>12, ZenonT(40) DEF OrderInv
  <1>14. LeaseInv'
        <2>1. \A n \in Message : turn'[n].token = turn[n].token
              BY <1>8, ZenonT(40)
        <2>2. \A u \in Task : task'[u].pc = "turn" => task'[u] = task[u]
              OBVIOUS
        <2>3. \A u \in Task : u[1] # Nobody
              BY DEF Task, LegacyAssumption
        <2>4. \A u \in Task : task'[u].pc = "turn" => task'[u].epoch <= lease.epoch
              BY <2>2, ZenonT(40) DEF LegacyInv, LeaseInv
        <2>5. \A n \in Message : turn'[n].token <= lease.epoch
              BY <2>1, ZenonT(40) DEF LegacyInv, LeaseInv
        <2> QED BY <1>7, <2>3, <2>4, <2>5, ZenonT(40) DEF LeaseInv
  <1>15. EntryInv'
        <2>1. \A u \in Task : \/ task'[u] = task[u]
                              \/ /\ task[u].pc # "free" /\ task'[u].m = task[u].m
                                 /\ inbound'[task'[u].m] = "committed"
              BY <1>9, ZenonT(40)
        <2>2. \A n \in Message : /\ inbound[n] # "none" => inbound'[n] # "none"
                                 /\ inbound[n] = "committed" => inbound'[n] = "committed"
              BY <1>9
        <2> QED BY <1>5, <2>1, <2>2, V1EntryKept, ZenonT(40) DEF LegacyInv
  <1> QED BY <1>12, <1>13, <1>14, <1>15 DEF LegacyInv

\* commit of the task that holds the lease.
LEMMA V1CommitStep ==
    ASSUME LegacyInv, NEW t \in Task, CommitTurn(t)
    PROVE  LegacyInv'
  <1> DEFINE m == task[t].m
  <1>1. /\ task[t].pc = "turn" /\ MayCommit(t)
        /\ commits' = Append(commits, m)
        /\ turn' = [turn EXCEPT ![m].status = "committed"]
        /\ inbound' = [inbound EXCEPT ![m] = "committed"]
        /\ lease' = Unleased(lease.epoch) /\ Goto(t, "ack")
        /\ UNCHANGED <<ahead, outbox, deduped, stream, pel, mishaps>>
        BY ZenonT(40) DEF CommitTurn
  <1>2. "turn" # "free"
        OBVIOUS
  <1>3. m \in Message /\ inbound[m] # "none"
        BY <1>1, <1>2, ZenonT(40) DEF LegacyInv, EntryInv
  <1>4. lease.live /\ turn[m] = [status |-> "processing", token |-> lease.epoch]
        BY <1>1 DEF MayCommit
  <1>5. task[t].m = m
        OBVIOUS
  <1> HIDE DEF m
  <1>6. /\ task' \in [Task -> V1Tasks]
        /\ task'[t].pc = "ack" /\ task'[t].m = m
        /\ \A u \in Task : u # t => task'[u] = task[u]
        BY <1>1, <1>5, V1Moved
  <1>7. \A u \in Task : \/ task'[u] = task[u]
                        \/ task[u].pc # "free" /\ task[u].m = m /\ task'[u].m = m /\ task'[u].pc = "ack"
        BY <1>1, <1>2, <1>5, <1>6, ZenonT(40)
  <1> QED BY <1>1, <1>3, <1>4, <1>6, <1>7, V1CommittedStep, ZenonT(60)

\* fail gives back the turns that its tokens still cover, and no commit.
LEMMA V1FailStep ==
    ASSUME LegacyInv, NEW ts \in SUBSET Task, Failing(ts),
           task' \in [Task -> V1Tasks],
           \A t \in Task : task'[t] = task[t] \/ task'[t].pc = "free",
           UNCHANGED <<ahead, outbox, deduped, stream, pel, commits>>, mishaps' \in Nat
    PROVE  LegacyInv'
  <1> DEFINE Holds(t) == lease.owner = t[1] /\ lease.epoch = task[t].epoch
             failed == {t \in ts : task[t].pc = "turn"}
             Hit(m) == \E t \in failed : turn[m] = [status |-> "processing", token |-> task[t].epoch]
             Back(m) == \E t \in failed : task[t].m = m /\ Holds(t)
  <1>1. /\ turn' = [m \in Message |-> IF Hit(m) THEN [turn[m] EXCEPT !.status = "failed"] ELSE turn[m]]
        /\ inbound' = [m \in Message |-> IF Back(m) THEN "accepted" ELSE inbound[m]]
        /\ lease' = IF \E t \in failed : Holds(t) THEN Unleased(lease.epoch) ELSE lease
        BY ZenonT(40) DEF Failing
  <1>2. \A t \in failed : t \in Task /\ task[t].pc = "turn"
        BY ZenonT(40)
  <1>3. \A m \in Message : Hit(m) => turn[m].status = "processing"
        BY V1Status, ZenonT(40)
  <1>4. "turn" # "free"
        OBVIOUS
  <1>5. \A m \in Message : Back(m) => inbound[m] # "none" /\ inbound[m] # "committed"
        <2> SUFFICES ASSUME NEW m \in Message, NEW t \in failed, task[t].m = m, Holds(t)
                     PROVE  inbound[m] # "none" /\ inbound[m] # "committed"
            BY ZenonT(40)
        <2>1. t \in Task /\ task[t].pc = "turn" /\ lease.owner = t[1] /\ lease.epoch = task[t].epoch
              BY <1>2, ZenonT(40)
        <2> HIDE DEF Holds, failed, Hit, Back
        <2>2. inbound[m] # "none"
              BY <2>1, <1>4, ZenonT(40) DEF LegacyInv, EntryInv
        <2>3. turn[m].status # "committed"
              BY <2>1, ZenonT(40) DEF LegacyInv, LeaseInv
        <2> QED BY <2>2, <2>3, ZenonT(40) DEF LegacyInv, OrderInv
  <1> HIDE DEF Hit, Back, Holds, failed
  <1>6. /\ turn \in [Message -> [status : {"none", "processing", "committed", "failed"}, token : Nat]]
        /\ inbound \in [Message -> {"none", "accepted", "processing", "committed", "failed"}]
        /\ lease \in [owner : Consumer \cup {Nobody, Mailbox}, epoch : Nat, live : BOOLEAN]
        /\ stream \in Seq(Message) /\ ahead \in [Message -> SUBSET Message]
        BY ZenonT(40) DEF LegacyInv, LegacyTypeOK
  <1>7. /\ turn' \in [Message -> [status : {"none", "processing", "committed", "failed"}, token : Nat]]
        /\ \A m \in Message :
              /\ turn'[m].token = turn[m].token
              /\ turn'[m] = turn[m] \/ (turn'[m].status = "failed" /\ turn[m].status = "processing")
        <2> DEFINE Row == [status : {"none", "processing", "committed", "failed"}, token : Nat]
                   new(m) == IF Hit(m) THEN [turn[m] EXCEPT !.status = "failed"] ELSE turn[m]
        <2>1. ASSUME NEW m \in Message
              PROVE  /\ new(m) \in Row /\ new(m).token = turn[m].token
                     /\ new(m) = turn[m] \/ (new(m).status = "failed" /\ turn[m].status = "processing")
              <3>1. turn[m] \in Row
                    BY <1>6
              <3>2. CASE Hit(m)
                    <4>1. new(m) = [turn[m] EXCEPT !.status = "failed"] /\ turn[m].status = "processing"
                          BY <3>2, <1>3, ZenonT(40)
                    <4> HIDE DEF new
                    <4> QED BY <3>1, <4>1
              <3>3. CASE ~Hit(m)
                    <4>1. new(m) = turn[m]
                          BY <3>3, ZenonT(40)
                    <4> HIDE DEF new, Row
                    <4> QED BY <3>1, <4>1, ZenonT(40)
              <3> QED BY <3>2, <3>3
        <2>2. turn' = [m \in Message |-> new(m)]
              BY <1>1, ZenonT(40)
        <2> HIDE DEF new, Row
        <2>3. turn' \in [Message -> Row] /\ \A m \in Message : turn'[m] = new(m)
              BY <2>1, <2>2
        <2> QED BY <2>1, <2>3, ZenonT(40) DEF Row
  <1>8. /\ inbound' \in [Message -> {"none", "accepted", "processing", "committed", "failed"}]
        /\ \A m \in Message : \/ inbound'[m] = inbound[m]
                              \/ /\ inbound'[m] = "accepted"
                                 /\ inbound[m] # "none" /\ inbound[m] # "committed"
        BY <1>1, <1>5, <1>6
  <1>9. lease' = lease \/ lease' = Unleased(lease.epoch)
        BY <1>1, ZenonT(40)
  <1>10. /\ lease' \in [owner : Consumer \cup {Nobody, Mailbox}, epoch : Nat, live : BOOLEAN]
         /\ lease'.epoch = lease.epoch
         /\ lease' = lease \/ (lease'.owner = Nobody /\ ~lease'.live)
        <2>1. lease.epoch \in Nat
              BY <1>6
        <2>2. CASE lease' = lease
              BY <2>2, <1>6, ZenonT(40)
        <2>3. CASE lease' = Unleased(lease.epoch)
              BY <2>1, <2>3 DEF Unleased
        <2> QED BY <2>2, <2>3, <1>9
  <1>11. LegacyTypeOK'
        BY <1>7, <1>8, <1>10, ZenonT(40) DEF LegacyInv, LegacyTypeOK, V1Tasks
  <1>12. \A n \in Message : /\ inbound'[n] = "none" <=> inbound[n] = "none"
                            /\ inbound'[n] = "committed" <=> inbound[n] = "committed"
                            /\ turn'[n].status = "committed" <=> turn[n].status = "committed"
                            /\ inbound'[n] = "none" => turn'[n].status = turn[n].status
        <2>1. \A n \in Message : inbound[n] = "none" => turn[n].status = "none"
              BY ZenonT(40) DEF LegacyInv, OrderInv
        <2> QED BY <2>1, <1>7, <1>8
  <1>13. OrderInv'
        BY <1>6, <1>12, V1OrderKept, ZenonT(40) DEF LegacyInv
  <1>14. LeaseInv'
        <2>1. \A m \in Message : turn'[m].token <= lease'.epoch
              BY <1>7, <1>10, ZenonT(40) DEF LegacyInv, LeaseInv
        <2>2. \A m \in Message :
                 lease'.live /\ turn'[m] = [status |-> "processing", token |-> lease'.epoch]
                    => \A n \in ahead[m] : turn'[n].status = "committed"
              <3> SUFFICES ASSUME NEW m \in Message, lease'.live,
                                  turn'[m] = [status |-> "processing", token |-> lease'.epoch]
                           PROVE  \A n \in ahead[m] : turn'[n].status = "committed"
                  BY ZenonT(40)
              <3>1. lease' = lease
                    BY <1>10, ZenonT(40)
              <3>2. turn'[m].status = "processing" /\ "processing" # "failed"
                    BY V1Status, ZenonT(40)
              <3>3. turn'[m] = turn[m]
                    BY <1>7, <3>2, ZenonT(40)
              <3>4. \A n \in ahead[m] : n \in Message /\ turn[n].status = "committed"
                    <4>1. \A n \in ahead[m] : n \in Message
                          BY <1>6
                    <4> QED BY <3>1, <3>3, <4>1, ZenonT(40) DEF LegacyInv, LeaseInv
              <3> QED BY <3>4, <1>12, ZenonT(40)
        <2>3. \A t \in Task : t[1] # Nobody
              BY DEF Task, LegacyAssumption
        <2>4. \A t \in Task : task'[t].pc = "turn" => task'[t] = task[t]
              BY <1>4, ZenonT(40)
        <2>5. ASSUME NEW t \in Task, task'[t].pc = "turn"
              PROVE  /\ task'[t].epoch <= lease'.epoch
                     /\ lease'.owner = t[1] /\ lease'.epoch = task'[t].epoch
                           => turn'[task'[t].m].status # "committed"
              <3>1. task'[t] = task[t]
                    BY <2>4, <2>5, ZenonT(40)
              <3>2. task[t].m \in Message
                    BY <3>1, <2>5, <1>4, ZenonT(40) DEF LegacyInv, EntryInv
              <3>3. task[t].epoch <= lease.epoch
                    BY <3>1, <2>5, ZenonT(40) DEF LegacyInv, LeaseInv
              <3>4. lease'.owner = t[1] => lease' = lease
                    BY <2>3, <1>10, ZenonT(40)
              <3>5. lease.owner = t[1] /\ lease.epoch = task[t].epoch
                       => turn[task[t].m].status # "committed"
                    BY <3>1, <2>5, ZenonT(40) DEF LegacyInv, LeaseInv
              <3>6. turn'[task[t].m].status = "committed" => turn[task[t].m].status = "committed"
                    BY <3>2, <1>12, ZenonT(40)
              <3> QED BY <3>1, <3>3, <3>4, <3>5, <3>6, <1>10, ZenonT(40)
        <2> QED BY <2>1, <2>2, <2>5, ZenonT(40) DEF LeaseInv
  <1>15. EntryInv'
        BY <1>6, <1>12, V1EntryKept, ZenonT(40) DEF LegacyInv
  <1> QED BY <1>11, <1>13, <1>14, <1>15 DEF LegacyInv

\* A process that ends with an error fails the turns of its tasks.
LEMMA V1AbortStep ==
    ASSUME LegacyInv, NEW t \in Task, Abort(t[1]), mishaps' \in Nat
    PROVE  LegacyInv'
  <1>1. Tasks(t[1]) \in SUBSET Task
        BY DEF Tasks, Task
  <1>2. /\ Failing(Tasks(t[1])) /\ task' = Ended(Tasks(t[1]))
        /\ UNCHANGED <<ahead, outbox, deduped, stream, pel, commits>>
        BY ZenonT(40) DEF Abort
  <1>3. /\ task' \in [Task -> V1Tasks]
        /\ \A u \in Task : task'[u] = task[u] \/ task'[u].pc = "free"
        BY <1>2, V1Ended, ZenonT(40) DEF LegacyInv, V1Tasks
  <1> QED BY <1>1, <1>2, <1>3, V1FailStep, ZenonT(40)

\* A task that lost its entry fails its turn only.
LEMMA V1LostStep ==
    ASSUME LegacyInv, NEW t \in Task, OwnershipLost(t)
    PROVE  LegacyInv'
  <1>1. {t} \in SUBSET Task
        OBVIOUS
  <1>2. /\ Failing({t}) /\ EndTask(t) /\ mishaps' = mishaps
        /\ UNCHANGED <<ahead, outbox, deduped, stream, pel, commits>>
        BY ZenonT(40) DEF OwnershipLost
  <1>3. mishaps \in Nat
        BY ZenonT(40) DEF LegacyInv, LegacyTypeOK
  <1> QED BY <1>1, <1>2, <1>3, V1EndedOne, V1FailStep, ZenonT(40)

\* acquire, granted or refused.
LEMMA V1AcquireStep ==
    ASSUME LegacyInv, NEW t \in Task, Acquire(t)
    PROVE  LegacyInv'
  <1> DEFINE m == task[t].m
             e == lease.epoch + 1
  <1>1. CASE Acquirable(m)
        <2>1. /\ task[t].pc = "acquire"
              /\ lease' = [owner |-> t[1], epoch |-> e, live |-> TRUE]
              /\ turn' = [turn EXCEPT ![m] = [status |-> "processing", token |-> e]]
              /\ inbound' = [inbound EXCEPT ![m] = "processing"]
              /\ task' = [task EXCEPT ![t].pc = "turn", ![t].epoch = e]
              /\ UNCHANGED <<ahead, outbox, deduped, stream, pel, commits, mishaps>>
              BY <1>1, ZenonT(40) DEF Acquire
        <2>2. m = task[t].m /\ e = lease.epoch + 1
              OBVIOUS
        <2> HIDE DEF m, e
        <2>3. "acquire" # "free"
              OBVIOUS
        <2>4. m \in Message /\ inbound[m] # "none"
              BY <2>1, <2>2, <2>3, ZenonT(40) DEF LegacyInv, EntryInv
        <2>5. turn[m].status # "committed" /\ \A n \in ahead[m] : turn[n].status = "committed"
              BY <1>1, <2>4, V1AcquirableLast, ZenonT(40)
        <2>6. e \in Nat /\ t[1] \in Consumer /\ task \in [Task -> V1Tasks]
              <3>1. lease.epoch \in Nat
                    BY V1Epochs, ZenonT(40) DEF LegacyInv
              <3>2. e \in Nat
                    BY <3>1, <2>2
              <3>3. t[1] \in Consumer
                    BY DEF Task
              <3>4. task \in [Task -> V1Tasks]
                    BY ZenonT(40) DEF LegacyInv, LegacyTypeOK, V1Tasks
              <3> QED BY <3>2, <3>3, <3>4
        <2>7. /\ task' \in [Task -> V1Tasks]
              /\ task'[t].pc = "turn" /\ task'[t].m = m
              /\ \A u \in Task : u # t => task'[u] = task[u]
              BY <2>1, <2>2, <2>6, V1Moved
        <2>8. task'[t].epoch = e
              BY <2>1, <2>6 DEF V1Tasks
        <2>9. \A u \in Task : \/ task'[u] = task[u]
                              \/ /\ task[u].pc # "free" /\ task[u].m = m /\ task'[u].m = m
                                 /\ task'[u].pc = "turn" /\ task'[u].epoch = e
              BY <2>1, <2>2, <2>3, <2>7, <2>8, ZenonT(40)
        <2>10. t[1] \in Consumer \cup {Nobody, Mailbox}
              BY <2>6
        <2> QED BY <2>1, <2>2, <2>4, <2>5, <2>7, <2>9, <2>10, V1GrantedStep, ZenonT(60)
  <1>2. CASE ~Acquirable(m)
        <2>1. /\ task[t].pc = "acquire"
              /\ Goto(t, IF inbound[task[t].m] = "committed" THEN "ack" ELSE "busy")
              /\ UNCHANGED <<inbound, ahead, lease, turn, outbox, deduped, stream, pel, commits, mishaps>>
              BY <1>2, ZenonT(40) DEF Acquire
        <2> QED BY <2>1, V1RefusedStep, ZenonT(40)
  <1> QED BY <1>1, <1>2

\* The step of a task.
LEMMA V1TaskStep ==
    ASSUME LegacyInv, NEW t \in Task, TaskStep(t) \/ TurnFails(t)
    PROVE  LegacyInv'
  <1>1. mishaps \in Nat
        BY ZenonT(40) DEF LegacyInv, LegacyTypeOK
  <1>2. CASE Fenced(t)
        <2>1. Abort(t[1]) /\ mishaps' = mishaps
              BY <1>2, ZenonT(40) DEF Fenced
        <2> QED BY <2>1, <1>1, V1AbortStep, ZenonT(40)
  <1>3. CASE TurnFails(t)
        <2>1. Abort(t[1]) /\ mishaps' \in Nat
              BY <1>3, <1>1 DEF TurnFails, Mishap
        <2> QED BY <2>1, V1AbortStep, ZenonT(40)
  <1>4. CASE Acquire(t)
        BY <1>4, V1AcquireStep, ZenonT(40)
  <1>5. CASE Defer(t)
        BY <1>5, V1DeferStep, ZenonT(40)
  <1>6. CASE CommitTurn(t)
        BY <1>6, V1CommitStep, ZenonT(40)
  <1>7. CASE OwnershipLost(t)
        BY <1>7, V1LostStep, ZenonT(40)
  <1>8. CASE Ack(t)
        BY <1>8, V1AckStep, ZenonT(40)
  <1> QED BY <1>2, <1>3, <1>4, <1>5, <1>6, <1>7, <1>8, ZenonT(40) DEF TaskStep

\* The steps of the mailbox's workers: nothing is ahead of its messages.
LEMMA V1MailboxStep ==
    ASSUME LegacyInv, NEW m \in Mailboxed, V2Claim(m) \/ V2Commit(m) \/ V2Retry(m) \/ V2Fail(m)
    PROVE  LegacyInv'
  <1>1. m \in Message
        BY DEF Mailboxed, Message
  <1>2. ahead[m] = {} /\ inbound[m] # "none"
        BY ZenonT(40) DEF LegacyInv, OrderInv
  <1>3. /\ turn \in [Message -> [status : {"none", "processing", "committed", "failed"}, token : Nat]]
        /\ inbound \in [Message -> {"none", "accepted", "processing", "committed", "failed"}]
        /\ ahead \in [Message -> SUBSET Message] /\ mishaps \in Nat
        /\ task \in [Task -> V1Tasks] /\ stream \in Seq(Message)
        BY ZenonT(40) DEF LegacyInv, LegacyTypeOK, V1Tasks
  <1>4. CASE V2Claim(m)
        <2> DEFINE e == lease.epoch + 1
        <2>1. /\ inbound[m] # "committed"
              /\ lease' = [owner |-> Mailbox, epoch |-> e, live |-> TRUE]
              /\ turn' = [turn EXCEPT ![m] = [status |-> "processing", token |-> e]]
              /\ inbound' = [inbound EXCEPT ![m] = "processing"]
              /\ UNCHANGED <<ahead, outbox, deduped, stream, pel, commits, mishaps>> /\ task' = task
              BY <1>4 DEF V2Claim
        <2>2. e = lease.epoch + 1 /\ Mailbox \in Consumer \cup {Nobody, Mailbox}
              OBVIOUS
        <2> HIDE DEF e
        <2>3. turn[m].status # "committed" /\ \A n \in ahead[m] : turn[n].status = "committed"
              BY <1>1, <1>2, <2>1, ZenonT(40) DEF LegacyInv, OrderInv
        <2> QED BY <1>1, <1>2, <1>3, <2>1, <2>2, <2>3, V1GrantedStep, ZenonT(60)
  <1>5. CASE V2Commit(m)
        <2>1. /\ lease.live /\ turn[m] = [status |-> "processing", token |-> lease.epoch]
              /\ commits' = Append(commits, m)
              /\ turn' = [turn EXCEPT ![m].status = "committed"]
              /\ inbound' = [inbound EXCEPT ![m] = "committed"]
              /\ lease' = Unleased(lease.epoch)
              /\ UNCHANGED <<ahead, outbox, deduped, stream, pel, mishaps>> /\ task' = task
              BY <1>5, ZenonT(40) DEF V2Commit, V2End
        <2> QED BY <1>1, <1>2, <1>3, <2>1, V1CommittedStep, ZenonT(60)
  <1>6. CASE V2Retry(m) \/ V2Fail(m)
        <2>1. PICK verdict \in {"accepted", "failed"} :
                 /\ turn[m] = [status |-> "processing", token |-> lease.epoch]
                 /\ turn' = [turn EXCEPT ![m].status = "failed"]
                 /\ inbound' = [inbound EXCEPT ![m] = verdict]
                 /\ lease' = Unleased(lease.epoch) /\ commits' = commits
                 /\ UNCHANGED <<ahead, outbox, deduped, stream, pel>> /\ task' = task
                 /\ Mishap \/ mishaps' = mishaps
              BY <1>6, ZenonT(40) DEF V2Retry, V2Fail, V2End
        <2>2. mishaps' \in Nat
              BY <1>3, <2>1 DEF Mishap
        <2>3. /\ turn' \in [Message -> [status : {"none", "processing", "committed", "failed"}, token : Nat]]
              /\ turn'[m].status = "failed" /\ turn'[m].token = turn[m].token
              /\ turn[m].status = "processing"
              /\ \A n \in Message : n # m => turn'[n] = turn[n]
              BY <1>1, <1>3, <2>1
        <2>4. /\ inbound' \in [Message -> {"none", "accepted", "processing", "committed", "failed"}]
              /\ inbound'[m] # "none" /\ inbound'[m] # "committed"
              /\ \A n \in Message : n # m => inbound'[n] = inbound[n]
              BY <1>1, <1>3, <2>1
        <2>5. lease.epoch \in Nat
              BY DEF LegacyInv, LegacyTypeOK
        <2>6. /\ lease' \in [owner : Consumer \cup {Nobody, Mailbox}, epoch : Nat, live : BOOLEAN]
              /\ lease'.epoch = lease.epoch /\ lease'.owner = Nobody /\ ~lease'.live
              BY <2>1, <2>5 DEF Unleased
        <2>7. LegacyTypeOK'
              BY <1>3, <2>1, <2>2, <2>3, <2>4, <2>6, ZenonT(40) DEF LegacyInv, LegacyTypeOK
        <2>8. \A n \in Message : /\ inbound'[n] = "none" <=> inbound[n] = "none"
                                 /\ inbound'[n] = "committed" <=> inbound[n] = "committed"
                                 /\ turn'[n].status = "committed" <=> turn[n].status = "committed"
                                 /\ inbound'[n] = "none" => turn'[n].status = turn[n].status
              <3>1. inbound[m] # "committed"
                    <4>1. turn[m].status # "committed"
                          BY <2>3
                    <4> QED BY <1>1, <4>1, ZenonT(40) DEF LegacyInv, OrderInv
              <3> TAKE n \in Message
              <3>2. CASE n = m
                    BY <3>1, <3>2, <1>2, <2>3, <2>4
              <3>3. CASE n # m
                    BY <3>3, <2>3, <2>4, ZenonT(40)
              <3> QED BY <3>2, <3>3
        <2>9. OrderInv'
              BY <1>3, <2>1, <2>8, V1OrderKept, ZenonT(40) DEF LegacyInv
        <2>10. LeaseInv'
              <3>1. \A n \in Message : turn'[n].token = turn[n].token
                    BY <2>3, ZenonT(40)
              <3>2. \A u \in Task : u[1] # Nobody
                    BY DEF Task, LegacyAssumption
              <3>3. \A u \in Task : task'[u].pc = "turn" => task'[u].epoch <= lease.epoch
                    BY <2>1, ZenonT(40) DEF LegacyInv, LeaseInv
              <3>4. \A n \in Message : turn'[n].token <= lease.epoch
                    BY <3>1, ZenonT(40) DEF LegacyInv, LeaseInv
              <3> QED BY <2>6, <3>2, <3>3, <3>4, ZenonT(40) DEF LeaseInv
        <2>11. EntryInv'
              BY <1>3, <2>1, <2>8, V1EntryKept, ZenonT(40) DEF LegacyInv
        <2> QED BY <2>7, <2>9, <2>10, <2>11 DEF LegacyInv
  <1> QED BY <1>4, <1>5, <1>6

\* The step of the gateway or of the dispatcher for a message.
LEMMA V1MessageStep ==
    ASSUME LegacyInv, NEW m \in Message, Accept(m) \/ Publish(m) \/ PublishUnmarked(m) \/ BecomesIdle(m)
    PROVE  LegacyInv'
  <1>1. mishaps \in Nat
        BY ZenonT(40) DEF LegacyInv, LegacyTypeOK
  <1>2. CASE Accept(m)
        BY <1>2, V1AcceptStep, ZenonT(40)
  <1>3. CASE Publish(m)
        <2>1. /\ outbox[m] = "ready" /\ stream' = Added(m) /\ deduped' = deduped \cup {m}
              /\ outbox' = [outbox EXCEPT ![m] = "published"] /\ mishaps' = mishaps
              /\ UNCHANGED <<inbound, ahead, pel, lease, turn, task, commits>>
              BY <1>3, ZenonT(40) DEF Publish, db
        <2> QED BY <2>1, <1>1, V1PublishStep, ZenonT(40)
  <1>4. CASE PublishUnmarked(m)
        <2>1. /\ outbox[m] = "ready" /\ stream' = Added(m) /\ deduped' = deduped \cup {m}
              /\ outbox' = outbox /\ Mishap
              /\ UNCHANGED <<inbound, ahead, pel, lease, turn, task, commits>>
              BY <1>4, ZenonT(40) DEF PublishUnmarked, db
        <2>2. mishaps' \in Nat
              BY <2>1, <1>1 DEF Mishap
        <2> QED BY <2>1, <2>2, V1PublishStep, ZenonT(40)
  <1>5. CASE BecomesIdle(m)
        BY <1>5, V1BecomesIdleStep, ZenonT(40)
  <1> QED BY <1>2, <1>3, <1>4, <1>5, ZenonT(40)

\* Every step of the v1 scheduler keeps the invariant.
LEMMA V1StepInv == LegacyInv /\ [LegacyNext]_legacyVars => LegacyInv'
  <1> SUFFICES ASSUME LegacyInv, [LegacyNext]_legacyVars PROVE LegacyInv'
      OBVIOUS
  <1>1. CASE \E m \in Message : Accept(m) \/ Publish(m) \/ PublishUnmarked(m) \/ BecomesIdle(m)
        BY <1>1, V1MessageStep, ZenonT(40)
  <1>2. CASE \E c \in Consumer, i \in 1..Slots : Fetch(c, i)
        BY <1>2, V1ReclaimStep, V1ReadStep, ZenonT(40) DEF Fetch
  <1>3. CASE \E t \in Task : TaskStep(t) \/ TurnFails(t)
        BY <1>3, V1TaskStep, ZenonT(40)
  <1>4. CASE \E c \in Consumer : Dies(c)
        BY <1>4, V1CrashStep, ZenonT(40)
  <1>5. CASE Expire
        BY <1>5, V1ExpireStep, ZenonT(40)
  <1>7. CASE \E m \in Mailboxed : V2Claim(m) \/ V2Commit(m) \/ V2Retry(m) \/ V2Fail(m)
        BY <1>7, V1MailboxStep, ZenonT(40)
  <1>6. CASE UNCHANGED legacyVars
        <2>1. /\ inbound' = inbound /\ ahead' = ahead /\ outbox' = outbox /\ deduped' = deduped /\ stream' = stream
              /\ pel' = pel /\ lease' = lease /\ turn' = turn /\ task' = task
              /\ commits' = commits /\ mishaps' = mishaps
              BY <1>6 DEF legacyVars
        <2>2. LegacyTypeOK'
              BY <2>1, ZenonT(40) DEF LegacyInv, LegacyTypeOK
        <2>3. OrderInv' /\ LeaseInv'
              BY <2>1, V1OrderFrame, V1LeaseFrame, ZenonT(40) DEF LegacyInv
        <2>4. EntryInv'
              BY <2>1, ZenonT(40) DEF LegacyInv, EntryInv
        <2> QED BY <2>2, <2>3, <2>4 DEF LegacyInv
  <1> QED BY <1>1, <1>2, <1>3, <1>4, <1>5, <1>6, <1>7, ZenonT(40) DEF LegacyNext

\* The inductive invariant of the v1 scheduler.
LEMMA V1Invariant == LegacySpec => []LegacyInv
  BY V1InitInv, V1StepInv, PTL DEF LegacySpec

\* commit of the v1 scheduler: whatever the number of workers, slots and
\* messages, in whatever order the acceptances become visible, and however
\* processes die, leases expire, entries are stolen, turns are cancelled and the
\* workers of the mailbox interfere, a message is committed once and after every
\* earlier message that was visible when it was accepted.
THEOREM LegacyCommitsInOrder == LegacySpec => []CommitsInOrder
  <1>1. LegacyInv => CommitsInOrder
        BY ZenonT(40) DEF LegacyInv, OrderInv
  <1> QED BY <1>1, V1Invariant, PTL

\* The outbox dispatcher and the consumer group lose nothing: a published message
\* that is neither in the stream nor pending has been committed.
THEOREM LegacyNothingLost == LegacySpec => []NothingLost
  <1>1. LegacyInv => NothingLost
        BY ZenonT(40) DEF LegacyInv, EntryInv, NothingLost
  <1> QED BY <1>1, V1Invariant, PTL

=============================================================================
