----------------------------- MODULE WorkerTurn -----------------------------
(***************************************************************************)
(* AgentWorker.process_claimed: what one claimed turn does inside a worker *)
(* process.  The turn task, the heartbeat task and the caller that waits   *)
(* for both share the variable "current", the lease; every await is a      *)
(* place where the others run, the lease lapses, another worker takes the  *)
(* session over, or the consumer cancels.  An execution is named by its    *)
(* fence, so executions of the same and of later turns overlap.  The       *)
(* mailbox row is the part of SessionMailbox that the worker's calls read  *)
(* and write.  Each failed call, cancellation, crash or lapse uses up one  *)
(* of MaxFaults.                                                           *)
(***************************************************************************)
EXTENDS Integers, FiniteSets

CONSTANTS MaxTurn,      \* messages queued in the session
          MaxEpoch,     \* bound on claims
          MaxAttempts,  \* max_turn_attempts
          MaxFaults

ASSUME TurnAssumption == {MaxTurn, MaxEpoch, MaxAttempts} \subseteq Nat \ {0} /\ MaxFaults \in Nat

VARIABLES mb,       \* the mailbox and session rows
          exec,     \* the executions, by fence
          memories, \* sequences whose turn has a memories row
          summary,  \* the row of session_summaries
          faults

vars == <<mb, exec, memories, summary, faults>>

Epoch == 1 .. MaxEpoch

\* The phases of run_turn, during which the caller waits for both tasks.
InTurn == {"reading", "confirming", "preparing", "running"}

Phase == InTurn \cup {"none", "loading", "stopping", "committing", "memory", "get", "put", "releasing", "ended"}

\* hyd is current.snapshot_hydrated; hbHyd is what the heartbeat's renewal in
\* flight will answer with; seen is the summary version read, -1 for none.
Execution ==
    [pc : Phase, turn : 0 .. MaxTurn, attempt : Nat, anchor : Nat, read : Int, hyd : BOOLEAN,
     hb : {"off", "sleep", "renewing", "failed"}, hbHyd : BOOLEAN,
     seq : Nat, seen : Int]

NoExec == [pc |-> "none", turn |-> 0, attempt |-> 0, anchor |-> 0, read |-> -1, hyd |-> FALSE,
           hb |-> "off", hbHyd |-> FALSE, seq |-> 0, seen |-> -1]

Init ==
    /\ mb = [status |-> "ready", turn |-> 1, epoch |-> 0, attempt |-> 0, live |-> FALSE, version |-> 0]
    /\ exec = [e \in Epoch |-> NoExec]
    /\ memories = {}
    /\ summary \in {[upTo |-> -1, version |-> -1], [upTo |-> 0, version |-> 1]}
    /\ faults = 0

Fault == faults < MaxFaults /\ faults' = faults + 1

Owns(e) == mb.status = "running" /\ mb.epoch = e /\ mb.live

At(e, pc) == exec' = [exec EXCEPT ![e].pc = pc]

End(e) == exec' = [exec EXCEPT ![e] = [NoExec EXCEPT !.pc = "ended"]]

-----------------------------------------------------------------------------
(* The session around the worker, as SessionMailbox describes it *)

Claim ==
    /\ mb.turn <= MaxTurn /\ mb.epoch < MaxEpoch
    /\ mb.status = "ready" \/ (mb.status = "running" /\ ~mb.live)
    /\ mb' = [mb EXCEPT !.status = "running", !.epoch = @ + 1, !.attempt = @ + 1, !.live = TRUE]
    /\ exec' = [exec EXCEPT ![mb.epoch + 1] =
                   [NoExec EXCEPT !.pc = "loading", !.turn = mb.turn, !.attempt = mb.attempt + 1,
                                  !.anchor = mb.version]]
    /\ UNCHANGED <<memories, summary, faults>>

Lapse ==
    /\ mb.status = "running" /\ mb.live /\ Fault
    /\ mb' = [mb EXCEPT !.live = FALSE]
    /\ UNCHANGED <<exec, memories, summary>>

\* The head of the mailbox is resolved, and the lease given up with it.
NextTurn == [mb EXCEPT !.status = "ready", !.turn = @ + 1, !.attempt = 0, !.live = FALSE]

-----------------------------------------------------------------------------
(* The turn task *)

\* get_acceptance, then the two tasks are created.
Load(e) ==
    /\ exec[e].pc = "loading"
    /\ exec' = [exec EXCEPT ![e].pc = "reading", ![e].hb = "sleep"]
    /\ UNCHANGED <<mb, memories, summary, faults>>

\* The history is read, compared with the claim's anchor, and put into current.
ReadSnapshot(e) ==
    /\ exec[e].pc = "reading"
    /\ IF mb.version # exec[e].anchor
       THEN At(e, "releasing")
       ELSE exec' = [exec EXCEPT ![e].pc = "confirming", ![e].hyd = TRUE, ![e].read = mb.version]
    /\ UNCHANGED <<mb, memories, summary, faults>>

ConfirmLater(e) ==
    /\ exec[e].pc = "confirming"
    /\ At(e, "preparing")
    /\ UNCHANGED <<mb, memories, summary, faults>>

\* The renewal after the read answers with the hydrated lease it was given.
Confirm(e) ==
    /\ exec[e].pc = "confirming"
    /\ IF Owns(e)
       THEN exec' = [exec EXCEPT ![e].pc = "preparing", ![e].hyd = TRUE]
       ELSE At(e, "releasing")
    /\ UNCHANGED <<mb, memories, summary, faults>>

\* Configuration, services and media are there; TenantRunner takes current.
StartRunner(e) ==
    /\ exec[e].pc = "preparing"
    /\ At(e, IF exec[e].hyd THEN "running" ELSE "releasing")
    /\ UNCHANGED <<mb, memories, summary, faults>>

\* The agent's last event; the caller sees the finished turn first.
FinishRun(e) ==
    /\ exec[e].pc = "running"
    /\ At(e, "stopping")
    /\ UNCHANGED <<mb, memories, summary, faults>>

\* Any call of the turn raises, or the consumer cancels it.
TurnRaises(e) ==
    /\ exec[e].pc \notin {"none", "releasing", "ended"} /\ Fault
    /\ At(e, "releasing")
    /\ UNCHANGED <<mb, memories, summary>>

-----------------------------------------------------------------------------
(* The heartbeat task *)

Beat(e) ==
    /\ exec[e].hb = "sleep" /\ exec[e].pc \in InTurn
    /\ exec' = [exec EXCEPT ![e].hb = "renewing", ![e].hbHyd = exec[e].hyd]
    /\ UNCHANGED <<mb, memories, summary, faults>>

\* current = await renew_session_ready(current): the answer is the lease that
\* was passed in, with a new expiry.
BeatAnswered(e) ==
    /\ exec[e].hb = "renewing"
    /\ IF Owns(e)
       THEN exec' = [exec EXCEPT ![e].hb = "sleep", ![e].hyd = exec[e].hbHyd]
       ELSE exec' = [exec EXCEPT ![e].hb = "failed"]
    /\ UNCHANGED <<mb, memories, summary, faults>>

BeatRaises(e) ==
    /\ exec[e].hb = "renewing" /\ Fault
    /\ exec' = [exec EXCEPT ![e].hb = "failed"]
    /\ UNCHANGED <<mb, memories, summary>>

-----------------------------------------------------------------------------
(* The caller *)

\* The heartbeat finished first: the turn is cancelled.
HeartbeatLost(e) ==
    /\ exec[e].pc \in InTurn /\ exec[e].hb = "failed"
    /\ At(e, "releasing")
    /\ UNCHANGED <<mb, memories, summary, faults>>

\* stop_heartbeat_task; a renewal in flight gets one more second.
StopHeartbeat(e) ==
    /\ exec[e].pc = "stopping"
    /\ \/ /\ exec[e].hb = "sleep"
          /\ exec' = [exec EXCEPT ![e].pc = "committing", ![e].hb = "off"]
       \/ /\ exec[e].hb \in {"failed", "renewing"}
          /\ exec' = [exec EXCEPT ![e].pc = "releasing", ![e].hb = "off"]
    /\ UNCHANGED <<mb, memories, summary, faults>>

CommitWhenFree(e) ==
    /\ exec[e].pc = "committing"
    /\ IF Owns(e) \/ ~mb.live
       THEN /\ mb' = [NextTurn EXCEPT !.version = @ + 1]
            /\ exec' = [exec EXCEPT ![e].pc = "memory", ![e].seq = mb.version + 1]
       ELSE At(e, "releasing") /\ UNCHANGED mb
    /\ UNCHANGED <<memories, summary, faults>>

CommitAssumed(e) ==
    /\ exec[e].pc = "committing"
    /\ mb' = IF Owns(e) THEN [NextTurn EXCEPT !.version = @ + 1] ELSE mb
    /\ exec' = [exec EXCEPT ![e].pc = "memory", ![e].seq = mb.version + 1]
    /\ UNCHANGED <<memories, summary, faults>>

\* commit_session_ready; the answer to its COMMIT may be lost.
Commit(e) ==
    /\ exec[e].pc = "committing"
    /\ IF Owns(e)
       THEN /\ mb' = [NextTurn EXCEPT !.version = @ + 1]
            /\ \/ /\ exec' = [exec EXCEPT ![e].pc = "memory", ![e].seq = mb.version + 1]
                  /\ UNCHANGED faults
               \/ At(e, "releasing") /\ Fault
       ELSE At(e, "releasing") /\ UNCHANGED <<mb, faults>>
    /\ UNCHANGED <<memories, summary>>

ReleaseByTurn(e) ==
    /\ exec[e].pc = "releasing" /\ End(e)
    /\ mb' = IF mb.status = "running" /\ mb.turn = exec[e].turn
             THEN IF exec[e].attempt >= MaxAttempts
                  THEN NextTurn
                  ELSE [mb EXCEPT !.status = "ready", !.live = FALSE]
             ELSE mb
    /\ UNCHANGED <<memories, summary, faults>>

\* _release_mailbox_failure: retried, given up after the last attempt, or left
\* to whoever fenced this execution out; the error is raised again.
Release(e) ==
    /\ exec[e].pc = "releasing" /\ End(e)
    /\ mb' = IF ~Owns(e) THEN mb
             ELSE IF exec[e].attempt >= MaxAttempts THEN NextTurn
             ELSE [mb EXCEPT !.status = "ready", !.live = FALSE]
    /\ UNCHANGED <<memories, summary, faults>>

\* The process dies, or the release itself fails: the lease must lapse.
Crash(e) ==
    /\ exec[e].pc \notin {"none", "ended"} /\ Fault
    /\ End(e) /\ UNCHANGED <<mb, memories, summary>>

-----------------------------------------------------------------------------
(* _post_commit_context: best effort, every error is swallowed *)

\* The memory of the turn, under an id derived from the turn.
PutMemory(e) ==
    /\ exec[e].pc = "memory" /\ At(e, "get")
    /\ \/ memories' = memories \cup {exec[e].seq} /\ UNCHANGED faults
       \/ UNCHANGED memories /\ Fault
    /\ UNCHANGED <<mb, summary>>

\* The summary read may fail; a newer summary ends the work.
GetSummary(e) ==
    /\ exec[e].pc = "get"
    /\ \/ /\ summary.upTo >= exec[e].seq
          /\ End(e) /\ UNCHANGED faults
       \/ /\ summary.upTo < exec[e].seq
          /\ exec' = [exec EXCEPT ![e].pc = "put", ![e].seen = summary.version]
          /\ UNCHANGED faults
       \/ /\ Fault
          /\ exec' = [exec EXCEPT ![e].pc = "put", ![e].seen = -1]
    /\ UNCHANGED <<mb, memories, summary>>

\* The conditions of the upsert: an absent row, or an older one whose version is
\* the one that was read.
SummaryAccepts(upTo, seen) ==
    summary.upTo = -1 \/ (summary.upTo < upTo /\ (seen = -1 \/ summary.version = seen))

PutSummary(e) ==
    /\ exec[e].pc = "put" /\ End(e)
    /\ \/ /\ summary' = IF SummaryAccepts(exec[e].seq, exec[e].seen)
                        THEN [upTo |-> exec[e].seq,
                              version |-> IF summary.upTo = -1 THEN 1 ELSE summary.version + 1]
                        ELSE summary
          /\ UNCHANGED faults
       \/ UNCHANGED summary /\ Fault
    /\ UNCHANGED <<mb, memories>>

Next ==
    \/ Claim
    \/ Lapse
    \/ \E e \in Epoch : Load(e)
    \/ \E e \in Epoch : ReadSnapshot(e)
    \/ \E e \in Epoch : Confirm(e)
    \/ \E e \in Epoch : StartRunner(e)
    \/ \E e \in Epoch : FinishRun(e)
    \/ \E e \in Epoch : TurnRaises(e)
    \/ \E e \in Epoch : Beat(e)
    \/ \E e \in Epoch : BeatAnswered(e)
    \/ \E e \in Epoch : BeatRaises(e)
    \/ \E e \in Epoch : HeartbeatLost(e)
    \/ \E e \in Epoch : StopHeartbeat(e)
    \/ \E e \in Epoch : Commit(e)
    \/ \E e \in Epoch : Release(e)
    \/ \E e \in Epoch : Crash(e)
    \/ \E e \in Epoch : PutMemory(e)
    \/ \E e \in Epoch : GetSummary(e)
    \/ \E e \in Epoch : PutSummary(e)

Spec == Init /\ [][Next]_vars

-----------------------------------------------------------------------------
(* Properties *)

MailboxRow ==
    [status : {"ready", "running"}, turn : 1 .. MaxTurn + 1, epoch : 0 .. MaxEpoch,
     attempt : 0 .. MaxEpoch, live : BOOLEAN, version : 0 .. MaxTurn]

TurnTypeOK ==
    /\ mb \in MailboxRow
    /\ exec \in [Epoch -> Execution]
    /\ memories \subseteq 1 .. MaxTurn
    /\ summary \in [upTo : -1 .. MaxTurn, version : -1 .. MaxTurn + 1]
    /\ faults \in 0 .. MaxFaults

\* "Confirm the fenced lease after the potentially long history read and before
\* any model, tool, or media work": whoever starts that work holds the lease at
\* that moment, on the history it has read.
WorkIsFenced ==
    [][\A e \in Epoch : exec'[e].pc = "preparing" /\ exec[e].pc # "preparing" =>
          Owns(e) /\ exec[e].read = mb.version]_vars

\* A committed turn was computed from the whole history before it, whatever
\* takeovers happened between its claim, its read and its commit.
NoMissedHistory ==
    [][\A e \in Epoch : mb'.version # mb.version /\ exec'[e].pc # exec[e].pc =>
          exec[e].read = mb.version /\ exec[e].turn = mb.turn]_vars

\* A live lease ends only through its own execution or the clock: the failure
\* handler of a fenced-out worker, or of one whose commit succeeded but whose
\* answer was lost, does not disturb the execution that follows.
LateFailureIsHarmless ==
    [][Owns(mb.epoch) /\ mb' # mb =>
          exec'[mb.epoch] # exec[mb.epoch] \/ mb' = [mb EXCEPT !.live = FALSE]]_vars

\* "prevent an older projection from winning": the summary never steps back,
\* although the post-commit work of consecutive turns runs on two workers.
SummaryNeverGoesBack == [][summary'.upTo >= summary.upTo]_vars

\* "Persist derived context only after the fenced turn commit succeeds": memory
\* and summary speak of committed turns only.
DerivedFromCommitted == memories \subseteq 1 .. mb.version /\ summary.upTo <= mb.version
=============================================================================
