---------------------------- MODULE ToolExecution ----------------------------
(***************************************************************************)
(* The tool calls of ONE turn: the governance pipeline in front of a tool, *)
(* the one-time confirmation tokens, the monthly budget, the audit rows    *)
(* and the tool_executions ledger, while the session lease of the turn is  *)
(* lost and taken over.                                                    *)
(*                                                                         *)
(* A task is one call of GovernedTool._run_async_impl by the worker that   *)
(* claimed the turn with the fence `epoch'.  Each action is one statement  *)
(* or transaction on PostgreSQL, or the call of the tool itself; a worker  *)
(* may die or lose its lease between any two.                              *)
(***************************************************************************)
EXTENDS Naturals, FiniteSets

CONSTANTS
    Call,        \* execution keys of the turn: a tool with its arguments
    Idempotent,  \* the calls whose tool is classified idempotent
    Confirmed,   \* the calls whose tool requires a confirmation
    Token,       \* confirmation tokens
    Task,        \* bound: invocations of tools
    None,        \* no token
    Limit,       \* monthly_cost_units of the tenant
    MaxEpoch     \* bound: claims of the turn

ASSUME ToolAssumption ==
    /\ Call # {} /\ Idempotent \subseteq Call /\ Confirmed \subseteq Call
    /\ None \notin Token /\ IsFiniteSet(Task)
    /\ Limit \in Nat /\ MaxEpoch \in Nat \ {0}

VARIABLES
    lease,    \* the session row and its turn: the current fence, and whether it holds
    workers,  \* fences whose worker process is still running
    ledger,   \* tool_executions
    token,    \* confirmation_challenges
    spent,    \* tenant_budget_usage.cost_units
    audit,    \* history: ALLOW rows of audit_logs, with the token they rest on
    effects,  \* history: runs of the tool's side effect
    task      \* the invocations

vars == <<lease, workers, ledger, token, spent, audit, effects, task>>

-----------------------------------------------------------------------------
(* The state *)

Epoch == 1 .. MaxEpoch
Status == {"none", "started", "succeeded", "failed", "ambiguous"}
Row == [status : Status, epoch : 0 .. MaxEpoch]
Running == {"scanned", "confirmed", "reserved", "allowed", "begun", "called"}

\* What an invocation holds between two steps: token is the confirmation it was
\* given, mode how begin answered, outcome what it will store or has returned.
TaskState ==
    [phase : Running \cup {"idle", "done", "dead"}, call : Call, epoch : Epoch,
     token : Token \cup {None}, mode : {"fresh", "rerun", "replay"},
     outcome : {"none", "ok", "error", "denied", "unconfirmed", "review", "conflict",
                "succeeded", "failed", "ambiguous"}]

AllowRow == [task : Task, call : Call, token : Token \cup {None}]
Effect == [task : Task, call : Call]

IdleTask ==
    [phase |-> "idle", call |-> CHOOSE c \in Call : TRUE, epoch |-> 1, token |-> None,
     mode |-> "fresh", outcome |-> "none"]

Init ==
    /\ lease = [epoch |-> 1, live |-> TRUE]
    /\ workers = {1}
    /\ ledger = [c \in Call |-> [status |-> "none", epoch |-> 0]]
    /\ token = [k \in Token |-> [scope |-> CHOOSE c \in Call : TRUE, state |-> "none"]]
    /\ spent = 0
    /\ audit = {}
    /\ effects = {}
    /\ task = [t \in Task |-> IdleTask]

\* The invocation ends: it returns, or raises, what outcome names.
Return(t, outcome) ==
    task' = [task EXCEPT ![t] =
        [IdleTask EXCEPT !.phase = "done", !.call = task[t].call, !.outcome = outcome]]

To(t, phase) == task' = [task EXCEPT ![t].phase = phase]

-----------------------------------------------------------------------------
(* The governance pipeline *)

\* A token is bound to one tool and its arguments.
IssueToken(k, c) ==
    /\ token[k].state = "none"
    /\ token' = [token EXCEPT ![k] = [scope |-> c, state |-> "issued"]]
    /\ UNCHANGED <<lease, workers, ledger, spent, audit, effects, task>>

ExpireToken(k) ==
    /\ token[k].state = "issued"
    /\ token' = [token EXCEPT ![k].state = "expired"]
    /\ UNCHANGED <<lease, workers, ledger, spent, audit, effects, task>>

\* Identity, allow-list and safety scan; a worker that has lost its lease does
\* not know it and calls tools all the same.
Evaluate(t, c, e, k) ==
    /\ task[t].phase = "idle" /\ e \in workers
    /\ c \notin Confirmed => k = None
    /\ LET started == [IdleTask EXCEPT !.call = c, !.epoch = e, !.token = k]
           ended == [IdleTask EXCEPT !.phase = "done", !.call = c]
       IN  \/ task' = [task EXCEPT ![t] = [ended EXCEPT !.outcome = "denied"]]
           \/ /\ c \in Confirmed /\ k = None
              /\ task' = [task EXCEPT ![t] = [ended EXCEPT !.outcome = "unconfirmed"]]
           \/ /\ c \in Confirmed /\ k # None
              /\ task' = [task EXCEPT ![t] = [started EXCEPT !.phase = "scanned"]]
           \/ /\ c \notin Confirmed
              /\ task' = [task EXCEPT ![t] = [started EXCEPT !.phase = "confirmed"]]
    /\ UNCHANGED <<lease, workers, ledger, token, spent, audit, effects>>

ConsumableTwice(k, c) == token[k].state \in {"issued", "consumed"} /\ token[k].scope = c

\* The one UPDATE that makes a token one-time.
Consumable(k, c) == token[k].state = "issued" /\ token[k].scope = c

ConsumeToken(t) ==
    /\ task[t].phase = "scanned"
    /\ LET k == task[t].token
       IN  IF Consumable(k, task[t].call)
           THEN To(t, "confirmed") /\ token' = [token EXCEPT ![k].state = "consumed"]
           ELSE Return(t, "unconfirmed") /\ UNCHANGED token
    /\ UNCHANGED <<lease, workers, ledger, spent, audit, effects>>

\* The conditional upsert of the month's usage; a tool costs one unit.
Reservable == spent + 1 <= Limit

Reserve(t) ==
    /\ task[t].phase = "confirmed"
    /\ IF Reservable
       THEN To(t, "reserved") /\ spent' = spent + 1
       ELSE Return(t, "denied") /\ UNCHANGED spent
    /\ UNCHANGED <<lease, workers, ledger, token, audit, effects>>

\* The decision is returned only after its audit row was written.
AuditAllow(t) ==
    /\ task[t].phase = "reserved"
    /\ To(t, "allowed")
    /\ audit' = audit \cup {[task |-> t, call |-> task[t].call, token |-> task[t].token]}
    /\ UNCHANGED <<lease, workers, ledger, token, spent, effects>>

-----------------------------------------------------------------------------
(* The execution ledger *)

ActiveOnce(e) == lease.epoch >= e

\* _assert_active_turn: the session and turn rows, locked, still carry the fence.
Active(e) == lease.live /\ lease.epoch = e

BeginAnswerRetries(c, e) ==
    CASE ~Active(e)                                        -> "conflict"
      [] Active(e) /\ ledger[c].status = "succeeded"       -> "review"
      [] Active(e) /\ ledger[c].status # "succeeded" /\ ledger[c].epoch # e -> "fresh"
      [] Active(e) /\ ledger[c].status # "succeeded" /\ ledger[c].epoch = e -> "review"

\* How begin and the checks of execute that follow it answer: the tool is called
\* (fresh, rerun, replay), or a person must look at it, or the fence is lost.
BeginAnswer(c, e) ==
    LET row == ledger[c]
        idempotent == c \in Idempotent
    IN  CASE row.status = "succeeded" /\ ~idempotent            -> "review"
          [] ~(row.status = "succeeded" /\ ~idempotent)
             /\ ~Active(e)                                     -> "conflict"
          [] row.status = "none" /\ Active(e)                  -> "fresh"
          [] row.status = "succeeded" /\ idempotent /\ Active(e) -> "replay"
          [] row.status \in {"started", "failed", "ambiguous"} /\ Active(e)
             /\ row.epoch # e  -> IF idempotent THEN "fresh" ELSE "conflict"
          [] row.status \in {"started", "failed", "ambiguous"} /\ Active(e)
             /\ row.epoch = e
             -> IF ~idempotent /\ row.status # "failed" THEN "review" ELSE "rerun"

Begin(t) ==
    /\ task[t].phase = "allowed"
    /\ LET c == task[t].call
           e == task[t].epoch
           answer == BeginAnswer(c, e)
       IN  /\ IF answer \in {"fresh", "rerun", "replay"}
              THEN task' = [task EXCEPT ![t] = [@ EXCEPT !.phase = "begun", !.mode = answer]]
              ELSE Return(t, answer)
           /\ ledger' = IF answer = "fresh"
                        THEN [ledger EXCEPT ![c] = [status |-> "started", epoch |-> e]]
                        ELSE ledger
    /\ UNCHANGED <<lease, workers, token, spent, audit, effects>>

\* How the ledger remembers a call that raised.
Failure(c) == IF c \in Idempotent THEN "failed" ELSE "ambiguous"

\* The side effect of the call of t happens.
Acts(t) == effects' = effects \cup {[task |-> t, call |-> task[t].call]}

CallToolSwallowing(t) ==
    /\ task[t].phase = "begun"
    /\ Acts(t) \/ UNCHANGED effects
    /\ task' = [task EXCEPT ![t] = [@ EXCEPT !.phase = "called", !.outcome = "succeeded"]]
    /\ UNCHANGED <<lease, workers, ledger, token, spent, audit>>

\* The tool runs.  A call that raises may have had its side effect or not.
CallTool(t) ==
    /\ task[t].phase = "begun"
    /\ LET replay == task[t].mode = "replay"
           CallEnds(o) == task' = [task EXCEPT ![t] = [@ EXCEPT !.phase = "called", !.outcome = o]]
       IN  \/ /\ Acts(t)
              /\ IF replay THEN Return(t, "ok") ELSE CallEnds("succeeded")
           \/ /\ Acts(t) \/ UNCHANGED effects
              /\ IF replay THEN Return(t, "error") ELSE CallEnds(Failure(task[t].call))
    /\ UNCHANGED <<lease, workers, ledger, token, spent, audit>>

\* What the invocation returns once its outcome is stored.
Answer(outcome) ==
    CASE outcome = "succeeded" -> "ok"
      [] outcome = "failed"    -> "error"
      [] outcome = "ambiguous" -> "review"

Finishable(c, e) == ledger[c].status = "started" /\ ledger[c].epoch = e /\ Active(e)

Finish(t) ==
    /\ task[t].phase = "called"
    /\ LET c == task[t].call
       IN  IF Finishable(c, task[t].epoch)
           THEN /\ ledger' = [ledger EXCEPT ![c].status = task[t].outcome]
                /\ Return(t, Answer(task[t].outcome))
           ELSE Return(t, "conflict") /\ UNCHANGED ledger
    /\ UNCHANGED <<lease, workers, token, spent, audit, effects>>

-----------------------------------------------------------------------------
(* The session lease around the turn, as SessionMailbox describes it *)

\* The lease expires, is swept, or the turn is committed or released.
LeaseEnds ==
    /\ lease.live
    /\ lease' = [lease EXCEPT !.live = FALSE]
    /\ UNCHANGED <<workers, ledger, token, spent, audit, effects, task>>

\* The turn is claimed again, with the next fence.
TakeOver ==
    /\ ~lease.live /\ lease.epoch < MaxEpoch
    /\ lease' = [epoch |-> lease.epoch + 1, live |-> TRUE]
    /\ workers' = workers \cup {lease.epoch + 1}
    /\ UNCHANGED <<ledger, token, spent, audit, effects, task>>

\* A worker dies with the invocations it had under way.
WorkerDies(e) ==
    /\ e \in workers
    /\ workers' = workers \ {e}
    /\ task' = [t \in Task |->
          IF task[t].epoch = e /\ task[t].phase \in Running
          THEN [IdleTask EXCEPT !.phase = "dead"] ELSE task[t]]
    /\ UNCHANGED <<lease, ledger, token, spent, audit, effects>>

Next ==
    \/ \E k \in Token, c \in Call : IssueToken(k, c)
    \/ \E k \in Token : ExpireToken(k)
    \/ \E t \in Task, c \in Call, e \in Epoch, k \in Token \cup {None} : Evaluate(t, c, e, k)
    \/ \E t \in Task : ConsumeToken(t)
    \/ \E t \in Task : Reserve(t)
    \/ \E t \in Task : AuditAllow(t)
    \/ \E t \in Task : Begin(t)
    \/ \E t \in Task : CallTool(t)
    \/ \E t \in Task : Finish(t)
    \/ LeaseEnds
    \/ TakeOver
    \/ \E e \in Epoch : WorkerDies(e)

Spec == Init /\ [][Next]_vars

-----------------------------------------------------------------------------
(* Properties *)

\* The rows and the invocations keep their types (tool_executions and
\* tenant_budget_usage CHECK constraints included).
ToolTypeOK ==
    /\ lease \in [epoch : Epoch, live : BOOLEAN]
    /\ workers \subseteq Epoch
    /\ ledger \in [Call -> Row]
    /\ token \in [Token -> [scope : Call, state : {"none", "issued", "consumed", "expired"}]]
    /\ spent \in 0 .. Limit
    /\ audit \subseteq AllowRow /\ effects \subseteq Effect
    /\ task \in [Task -> TaskState]

\* The side effect of a tool that is not idempotent happens at most once in the
\* whole turn, whatever invocations, retries, takeovers and crashes the turn
\* goes through: begin admits one call for its execution key, ever.
Once(c) == \A x, y \in effects : x.call = c /\ y.call = c => x = y
AtMostOneEffect == \A c \in Call \ Idempotent : Once(c)

\* A tool's result reaches the agent only if the ledger holds that success: an
\* invocation that lost its fence while the tool ran
\* ends in a conflict, not in a result the next worker cannot know of.
ResultIsRecorded ==
    \A t \in Task : task[t].phase = "done" /\ task[t].outcome = "ok" =>
        ledger[task[t].call].status = "succeeded"

\* The tool has had its side effect for this call.
Ran(c) == \E x \in effects : x.call = c

\* What AtMostOneEffect needs to be inductive: a call that is not idempotent is
\* begun by one invocation only, and that one finds no ledger row before it.
EffectInv ==
    /\ \A t \in Task : task[t].phase = "called" =>
          task[t].outcome \in {"succeeded", Failure(task[t].call)}
    /\ \A c \in Call \ Idempotent :
          /\ Once(c)
          /\ ledger[c].status # "failed"
          /\ ledger[c].status = "none" => ~Ran(c)
          /\ \A t \in Task : task[t].phase = "begun" /\ task[t].call = c =>
                /\ ledger[c].status # "none" /\ ~Ran(c)
                /\ \A u \in Task : task[u].phase = "begun" /\ task[u].call = c => u = t

\* A success of the ledger is one: the side effect was there before.
SuccessIsReal == \A c \in Call : ledger[c].status = "succeeded" => Ran(c)

\* Why both hold: a call that is about to be stored as a success had its effect,
\* and a replay is of a success, which stays one.
RecordInv ==
    /\ SuccessIsReal
    /\ ResultIsRecorded
    /\ \A t \in Task :
          /\ task[t].phase = "called" /\ task[t].outcome = "succeeded" => Ran(task[t].call)
          /\ task[t].phase = "begun" /\ task[t].mode = "replay" =>
                ledger[task[t].call].status = "succeeded"

\* The confirmation k was issued for this tool with these arguments, and used.
Used(k, c) == k \in Token /\ token[k].scope = c /\ token[k].state = "consumed"

\* Each side effect was authorised on its own: its invocation has an ALLOW audit
\* row; every ALLOW of a tool that requires confirmation has used up a token that
\* was issued for these arguments, and no other ALLOW used the same one; and the
\* reservations pay for all of them.
EffectsAuthorised ==
    /\ Cardinality(audit) <= spent
    /\ \A x \in effects : \E r \in audit : r.task = x.task /\ r.call = x.call
    /\ \A r \in audit : r.call \in Confirmed =>
          Used(r.token, r.call) /\ \A q \in audit : q.token = r.token => q = r

\* Invocations between the reservation and the audit row.
Reserved == {t \in Task : task[t].phase = "reserved"}

\* What EffectsAuthorised needs: the budget counts the reservations that have no
\* audit row yet, and the invocation past a step holds what the step gave it.
AuthorityInv ==
    /\ EffectsAuthorised
    /\ IsFiniteSet(audit)
    /\ Cardinality(audit) + Cardinality(Reserved) <= spent
    /\ \A r \in audit : r.call \notin Confirmed => r.token = None
    /\ \A t \in Task :
          /\ task[t].phase = "scanned" => task[t].token \in Token /\ task[t].call \in Confirmed
          /\ task[t].phase \in {"confirmed", "reserved"} /\ task[t].call \notin Confirmed =>
                task[t].token = None
          /\ task[t].phase \in {"idle", "scanned", "confirmed", "reserved"} =>
                \A r \in audit : r.task # t
          /\ task[t].phase \in {"allowed", "begun"} =>
                \E r \in audit : r.task = t /\ r.call = task[t].call
          /\ task[t].phase \in {"confirmed", "reserved"} /\ task[t].call \in Confirmed =>
                /\ Used(task[t].token, task[t].call)
                /\ \A r \in audit : r.token # task[t].token
                /\ \A u \in Task : task[u].phase \in {"confirmed", "reserved"}
                                   /\ task[u].token = task[t].token => u = t

\* Only the holder of the current lease writes the ledger, and a success is
\* final: neither a takeover nor a replay nor a late finish changes it.
LedgerFenced ==
    [][\A c \in Call : ledger'[c] # ledger[c] =>
          /\ lease.live /\ ledger'[c].epoch = lease.epoch
          /\ ledger[c].status # "succeeded"]_vars
=============================================================================
