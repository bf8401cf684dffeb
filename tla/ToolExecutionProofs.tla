------------------------- MODULE ToolExecutionProofs -------------------------
(***************************************************************************)
(* What the tool ledger guarantees for every set of calls, tokens and      *)
(* invocations and every number of takeovers: types and budget, at most    *)
(* one side effect of a tool that is not idempotent, and fenced writes.    *)
(***************************************************************************)
EXTENDS ToolExecution, FiniteSetTheorems, TLAPS

-----------------------------------------------------------------------------
(* Types *)

\* The values a fresh invocation starts from are those of an idle one.
LEMMA IdleTaskTyped ==
    /\ IdleTask \in TaskState
    /\ IdleTask.phase = "idle"
    /\ (CHOOSE c \in Call : TRUE) \in Call
<1>1. (CHOOSE c \in Call : TRUE) \in Call
      BY ToolAssumption
<1>2. 1 \in Epoch
      BY ToolAssumption DEF Epoch
<1> QED BY <1>1, <1>2 DEF IdleTask, TaskState, Running

\* Returning keeps the invocations typed: the call stays, the rest is cleared.
LEMMA ReturnTyped ==
    ASSUME task \in [Task -> TaskState], NEW t \in Task,
           NEW o \in {"ok", "error", "denied", "unconfirmed", "review", "conflict"},
           Return(t, o)
    PROVE  task' \in [Task -> TaskState]
<1>1. task[t] \in TaskState
      OBVIOUS
<1>2. task[t].call \in Call
      BY <1>1 DEF TaskState
<1>3. [IdleTask EXCEPT !.phase = "done", !.call = task[t].call, !.outcome = o] \in TaskState
      BY <1>2, IdleTaskTyped, ZenonT(40) DEF TaskState
<1> QED BY <1>3 DEF Return

\* Moving an invocation to its next phase keeps it typed.
LEMMA ToTyped ==
    ASSUME task \in [Task -> TaskState], NEW t \in Task, NEW p \in Running, To(t, p)
    PROVE  task' \in [Task -> TaskState]
<1>1. [task[t] EXCEPT !.phase = p] \in TaskState
      BY DEF TaskState
<1> QED BY <1>1 DEF To

\* Every begin answers with one of six words.
LEMMA BeginAnswers ==
    ASSUME ToolTypeOK, NEW c \in Call, NEW e \in Epoch
    PROVE  /\ BeginAnswer(c, e) \in {"fresh", "rerun", "replay", "review", "conflict"}
           /\ BeginAnswer(c, e) = "fresh" =>
                 /\ lease.live /\ lease.epoch = e
                 /\ ledger[c].status # "succeeded"
                 /\ c \notin Idempotent => ledger[c].status = "none"
           /\ BeginAnswer(c, e) = "rerun" /\ c \notin Idempotent => ledger[c].status = "failed"
           /\ BeginAnswer(c, e) = "replay" => c \in Idempotent /\ ledger[c].status = "succeeded"
<1>1. ledger[c].status \in Status
      BY DEF ToolTypeOK, Row
<1> QED BY <1>1, SMTT(40) DEF BeginAnswer, Active, Status

\* An invocation whose begin was admitted.
LEMMA BegunTyped ==
    ASSUME NEW r \in TaskState, NEW m \in {"fresh", "rerun", "replay"}
    PROVE  [r EXCEPT !.phase = "begun", !.mode = m] \in TaskState
<1>1. [r EXCEPT !.phase = "begun"] \in TaskState
      BY DEF TaskState, Running
<1>2. \A q \in TaskState : [q EXCEPT !.mode = m] \in TaskState
      BY DEF TaskState
<1>3. [r EXCEPT !.phase = "begun", !.mode = m] = [[r EXCEPT !.phase = "begun"] EXCEPT !.mode = m]
      OBVIOUS
<1> QED BY <1>1, <1>2, <1>3

\* The initial rows have their types.
LEMMA ToolInitTyped == Init => ToolTypeOK
<1> SUFFICES ASSUME Init PROVE ToolTypeOK
    OBVIOUS
<1>1. /\ 1 \in Epoch /\ workers \subseteq Epoch /\ lease \in [epoch : Epoch, live : BOOLEAN]
      /\ spent \in 0 .. Limit
      BY ToolAssumption DEF Init, Epoch
<1>2. ledger \in [Call -> Row]
      BY ToolAssumption DEF Init, Row, Status
<1>3. /\ token \in [Token -> [scope : Call, state : {"none", "issued", "consumed", "expired"}]]
      /\ audit \subseteq AllowRow /\ effects \subseteq Effect /\ task \in [Task -> TaskState]
      BY IdleTaskTyped DEF Init
<1> QED BY <1>1, <1>2, <1>3 DEF ToolTypeOK

\* Every step keeps the types, the budget within its limit included.
LEMMA ToolStepTyped ==
    ASSUME ToolTypeOK, EffectInv, [Next]_vars PROVE ToolTypeOK'
<1> USE DEF ToolTypeOK
<1>1. ASSUME NEW k \in Token, NEW c \in Call, IssueToken(k, c) PROVE ToolTypeOK'
      BY <1>1 DEF IssueToken
<1>2. ASSUME NEW k \in Token, ExpireToken(k) PROVE ToolTypeOK'
      BY <1>2 DEF ExpireToken
<1>3. ASSUME NEW t \in Task, NEW c \in Call, NEW e \in Epoch, NEW k \in Token \cup {None},
             Evaluate(t, c, e, k)
      PROVE  ToolTypeOK'
      <2>1. /\ [IdleTask EXCEPT !.call = c, !.epoch = e, !.token = k] \in TaskState
            /\ [IdleTask EXCEPT !.phase = "done", !.call = c] \in TaskState
            BY IdleTaskTyped, ZenonT(40) DEF TaskState
      <2> DEFINE started == [IdleTask EXCEPT !.call = c, !.epoch = e, !.token = k]
                 ended == [IdleTask EXCEPT !.phase = "done", !.call = c]
      <2>2. /\ [ended EXCEPT !.outcome = "denied"] \in TaskState
            /\ [ended EXCEPT !.outcome = "unconfirmed"] \in TaskState
            /\ [started EXCEPT !.phase = "scanned"] \in TaskState
            /\ [started EXCEPT !.phase = "confirmed"] \in TaskState
            BY <2>1, ZenonT(40) DEF TaskState, Running
      <2>3. task' \in [Task -> TaskState]
            BY <1>3, <2>2 DEF Evaluate
      <2> QED BY <1>3, <2>3 DEF Evaluate
<1>4. ASSUME NEW t \in Task, ConsumeToken(t) PROVE ToolTypeOK'
      <2>1. task' \in [Task -> TaskState]
            BY <1>4, ToTyped, ReturnTyped DEF ConsumeToken, Running
      <2>2. task[t].token \in Token \cup {None}
            BY DEF TaskState
      <2>3. token' \in [Token -> [scope : Call, state : {"none", "issued", "consumed", "expired"}]]
            BY <1>4, <2>2, SMTT(40) DEF ConsumeToken
      <2> QED BY <1>4, <2>1, <2>3 DEF ConsumeToken
<1>5. ASSUME NEW t \in Task, Reserve(t) PROVE ToolTypeOK'
      <2>1. task' \in [Task -> TaskState]
            BY <1>5, ToTyped, ReturnTyped DEF Reserve, Running
      <2>2. spent' \in 0 .. Limit
            BY <1>5, ToolAssumption DEF Reserve, Reservable
      <2> QED BY <1>5, <2>1, <2>2 DEF Reserve
<1>6. ASSUME NEW t \in Task, AuditAllow(t) PROVE ToolTypeOK'
      <2>1. task' \in [Task -> TaskState]
            BY <1>6, ToTyped DEF AuditAllow, Running
      <2>2. audit' \subseteq AllowRow
            <3>1. task[t].call \in Call /\ task[t].token \in Token \cup {None}
                  BY DEF TaskState
            <3>2. [task |-> t, call |-> task[t].call, token |-> task[t].token] \in AllowRow
                  BY <3>1 DEF AllowRow
            <3> QED BY <1>6, <3>2 DEF AuditAllow
      <2> QED BY <1>6, <2>1, <2>2 DEF AuditAllow
<1>7. ASSUME NEW t \in Task, Begin(t) PROVE ToolTypeOK'
      <2>1. task[t].call \in Call /\ task[t].epoch \in Epoch
            BY DEF TaskState
      <2> DEFINE answer == BeginAnswer(task[t].call, task[t].epoch)
      <2>2. answer \in {"fresh", "rerun", "replay", "review", "conflict"}
            BY <2>1, BeginAnswers
      <2>3. task' \in [Task -> TaskState]
            <3>1. CASE answer \in {"fresh", "rerun", "replay"}
                  <4>1. [task[t] EXCEPT !.phase = "begun", !.mode = answer] \in TaskState
                        <5>1. task[t] \in TaskState
                              OBVIOUS
                        <5> QED BY ONLY <3>1, <5>1, BegunTyped, Zenon
                  <4> QED BY <1>7, <3>1, <4>1 DEF Begin
            <3>2. CASE answer \in {"review", "conflict"}
                  BY <1>7, <3>2, ReturnTyped DEF Begin
            <3> QED BY <2>2, <3>1, <3>2
      <2>4. [status |-> "started", epoch |-> task[t].epoch] \in Row
            BY <2>1, ToolAssumption DEF Row, Status, Epoch
      <2>5. ledger' \in [Call -> Row]
            BY <1>7, <2>4, ZenonT(40) DEF Begin
      <2> QED BY <1>7, <2>3, <2>5 DEF Begin
<1>8. ASSUME NEW t \in Task, CallTool(t) PROVE ToolTypeOK'
      <2>1. effects' \subseteq Effect
            BY <1>8 DEF CallTool, Acts, Effect, TaskState
      <2>2. task[t] \in TaskState
            OBVIOUS
      <2>3. /\ [task[t] EXCEPT !.phase = "called", !.outcome = "succeeded"] \in TaskState
            /\ [task[t] EXCEPT !.phase = "called", !.outcome = "failed"] \in TaskState
            /\ [task[t] EXCEPT !.phase = "called", !.outcome = "ambiguous"] \in TaskState
            BY <2>2, ZenonT(40) DEF TaskState, Running
      <2>4. [task[t] EXCEPT !.phase = "called", !.outcome = Failure(task[t].call)] \in TaskState
            BY <2>3, ZenonT(40) DEF Failure
      <2>5. task' \in [Task -> TaskState]
            <3>1. CASE task' = [task EXCEPT ![t] =
                                  [@ EXCEPT !.phase = "called", !.outcome = "succeeded"]]
                  BY <3>1, <2>3
            <3>2. CASE task' = [task EXCEPT ![t] =
                                  [@ EXCEPT !.phase = "called", !.outcome = Failure(task[t].call)]]
                  BY <3>2, <2>4
            <3>3. CASE Return(t, "ok") \/ Return(t, "error")
                  BY <3>3, ReturnTyped
            <3> QED BY <1>8, <3>1, <3>2, <3>3 DEF CallTool
      <2> QED BY <1>8, <2>1, <2>5 DEF CallTool
<1>9. ASSUME NEW t \in Task, Finish(t) PROVE ToolTypeOK'
      <2>1. task[t].call \in Call /\ task[t].outcome \in {"succeeded", Failure(task[t].call)}
            BY <1>9 DEF Finish, EffectInv, TaskState
      <2>2. task[t].outcome \in {"succeeded", "failed", "ambiguous"}
            BY <2>1 DEF Failure
      <2>3. Answer(task[t].outcome) \in {"ok", "error", "review"}
            BY <2>2 DEF Answer
      <2>4. task' \in [Task -> TaskState]
            BY <1>9, <2>3, ReturnTyped DEF Finish
      <2>5. [ledger[task[t].call] EXCEPT !.status = task[t].outcome] \in Row
            BY <2>1, <2>2 DEF Row, Status
      <2>6. ledger' \in [Call -> Row]
            BY <1>9, <2>1, <2>5 DEF Finish
      <2> QED BY <1>9, <2>4, <2>6 DEF Finish
<1>10. CASE LeaseEnds
      BY <1>10, ZenonT(40) DEF LeaseEnds
<1>11. CASE TakeOver
      <2>1. lease.epoch + 1 \in Epoch
            BY <1>11, ToolAssumption DEF TakeOver, Epoch
      <2> QED BY <1>11, <2>1 DEF TakeOver
<1>12. ASSUME NEW e \in Epoch, WorkerDies(e) PROVE ToolTypeOK'
      <2>1. [IdleTask EXCEPT !.phase = "dead"] \in TaskState
            BY IdleTaskTyped DEF TaskState
      <2>2. task' \in [Task -> TaskState]
            BY <1>12, <2>1 DEF WorkerDies
      <2>3. workers' \subseteq Epoch
            BY <1>12 DEF WorkerDies
      <2> QED BY <1>12, <2>2, <2>3 DEF WorkerDies
<1>13. CASE UNCHANGED vars
      BY <1>13 DEF vars
<1> QED BY <1>1, <1>2, <1>3, <1>4, <1>5, <1>6, <1>7, <1>8, <1>9, <1>10, <1>11, <1>12, <1>13
        DEF Next

-----------------------------------------------------------------------------
(* One side effect *)

\* A step that calls no tool has no side effect.
LEMMA EffectsKept ==
    ASSUME effects' = effects
    PROVE  \A x \in Call : (Once(x)' <=> Once(x)) /\ (Ran(x)' <=> Ran(x))
BY DEF Once, Ran

\* A step that leaves the ledger alone and calls no tool keeps EffectInv.
LEMMA QuietTask ==
    ASSUME EffectInv, ledger' = ledger, effects' = effects,
           \A u \in Task : task'[u] = task[u] \/ task'[u].phase \notin {"begun", "called"}
    PROVE  EffectInv'
<1>1. \A u \in Task : task'[u].phase \in {"begun", "called"} => task'[u] = task[u]
      OBVIOUS
<1>2. \A u \in Task : task'[u].phase = "called" =>
         task'[u].outcome \in {"succeeded", Failure(task'[u].call)}
      BY <1>1 DEF EffectInv
<1>3. \A c \in Call \ Idempotent :
          /\ Once(c)'
          /\ ledger'[c].status # "failed"
          /\ ledger'[c].status = "none" => ~Ran(c)'
      BY EffectsKept, ZenonT(40) DEF EffectInv
<1>4. ASSUME NEW c \in Call \ Idempotent, NEW t \in Task,
             task'[t].phase = "begun", task'[t].call = c
      PROVE  /\ ledger'[c].status # "none" /\ ~Ran(c)'
             /\ \A u \in Task : task'[u].phase = "begun" /\ task'[u].call = c => u = t
      BY <1>1, <1>4, EffectsKept, ZenonT(40) DEF EffectInv
<1> QED BY <1>2, <1>3, <1>4, ZenonT(40) DEF EffectInv

\* The phases into which the governance steps move an invocation.
LEMMA QuietPhases ==
    ASSUME ToolTypeOK, NEW t \in Task, NEW p, NEW o, p \notin {"begun", "called"},
           Return(t, o) \/ To(t, p)
    PROVE  \A u \in Task : task'[u] = task[u] \/ task'[u].phase \notin {"begun", "called"}
<1>1. task \in [Task -> TaskState] /\ task[t] \in TaskState
      BY DEF ToolTypeOK
<1>2. [IdleTask EXCEPT !.phase = "done", !.call = task[t].call, !.outcome = o].phase = "done"
      BY DEF IdleTask
<1>3. CASE Return(t, o)
      BY <1>1, <1>2, <1>3 DEF Return
<1>4. CASE To(t, p)
      BY <1>1, <1>4 DEF To, TaskState
<1> QED BY <1>3, <1>4

\* Begin admits one invocation of a call that is not idempotent: the one that
\* finds no row.
LEMMA BeginStep ==
    ASSUME ToolTypeOK, EffectInv, NEW t \in Task, Begin(t)
    PROVE  EffectInv'
<1> DEFINE c == task[t].call
           e == task[t].epoch
           answer == BeginAnswer(c, e)
<1>1. task \in [Task -> TaskState] /\ ledger \in [Call -> Row] /\ c \in Call /\ e \in Epoch
      BY DEF ToolTypeOK, TaskState
<1>2. /\ answer \in {"fresh", "rerun", "replay", "review", "conflict"}
      /\ answer = "fresh" /\ c \notin Idempotent => ledger[c].status = "none"
      /\ answer = "rerun" /\ c \notin Idempotent => ledger[c].status = "failed"
      /\ answer = "replay" => c \in Idempotent
      BY <1>1, BeginAnswers
<1>3. effects' = effects /\ task[t].phase = "allowed"
      BY DEF Begin
<1> HIDE DEF answer
<1>4. CASE answer \in {"review", "conflict"}
      <2>1. Return(t, answer) /\ ledger' = ledger
            BY <1>4 DEF Begin, answer
      <2> QED BY <2>1, <1>3, QuietPhases, QuietTask
<1>5. CASE answer \in {"fresh", "rerun", "replay"}
      <2>1. /\ task' = [task EXCEPT ![t] = [@ EXCEPT !.phase = "begun", !.mode = answer]]
            /\ ledger' = IF answer = "fresh"
                         THEN [ledger EXCEPT ![c] = [status |-> "started", epoch |-> e]]
                         ELSE ledger
            BY <1>5 DEF Begin, answer
      <2>2. /\ task'[t].phase = "begun" /\ task'[t].call = c
            /\ \A u \in Task \ {t} : task'[u] = task[u]
            BY <2>1, <1>1 DEF TaskState
      <2>3. \A x \in Call : ledger'[x] = ledger[x] \/ (x = c /\ ledger'[x].status = "started")
            BY <2>1, <1>1
      <2>4. answer = "fresh" => ledger'[c].status = "started"
            BY <2>1, <1>1
      <2>5. c \notin Idempotent => answer = "fresh" /\ ledger[c].status = "none"
            BY <1>1, <1>2, <1>5, SMTT(40) DEF EffectInv
      <2>6. \A u \in Task : task'[u].phase = "called" =>
               task'[u].outcome \in {"succeeded", Failure(task'[u].call)}
            BY <2>2, ZenonT(40) DEF EffectInv
      <2>7. ASSUME NEW x \in Call \ Idempotent
            PROVE  /\ Once(x)'
                   /\ ledger'[x].status # "failed"
                   /\ ledger'[x].status = "none" => ~Ran(x)'
                   /\ \A u \in Task : task'[u].phase = "begun" /\ task'[u].call = x =>
                         /\ ledger'[x].status # "none" /\ ~Ran(x)'
                         /\ \A w \in Task : task'[w].phase = "begun" /\ task'[w].call = x => w = u
            <3>1. /\ Once(x) /\ ledger[x].status # "failed"
                  /\ ledger[x].status = "none" => ~Ran(x)
                  /\ \A u \in Task : task[u].phase = "begun" /\ task[u].call = x =>
                        /\ ledger[x].status # "none" /\ ~Ran(x)
                        /\ \A w \in Task : task[w].phase = "begun" /\ task[w].call = x => w = u
                  BY ZenonT(40) DEF EffectInv
            <3>2. CASE x # c
                  <4>1. ledger'[x] = ledger[x] /\ (Once(x)' <=> Once(x)) /\ (Ran(x)' <=> Ran(x))
                        BY <2>3, <3>2, <1>3, EffectsKept
                  <4>2. \A u \in Task : task'[u].phase = "begun" /\ task'[u].call = x =>
                           u # t /\ task'[u] = task[u]
                        BY <2>2, <3>2, ZenonT(40)
                  <4> QED BY <3>1, <4>1, <4>2, ZenonT(40)
            <3>3. CASE x = c
                  <4>1. ledger'[x].status = "started" /\ ~Ran(x)' /\ Once(x)'
                        BY <2>4, <2>5, <3>1, <3>3, <1>3, EffectsKept
                  <4>2. \A u \in Task : task'[u].phase = "begun" /\ task'[u].call = x => u = t
                        BY <2>2, <2>5, <3>1, <3>3, ZenonT(40)
                  <4> QED BY <4>1, <4>2, ZenonT(40)
            <3> QED BY <3>2, <3>3
      <2> QED BY <2>6, <2>7, ZenonT(40) DEF EffectInv
<1> QED BY <1>2, <1>4, <1>5

\* The call itself: the one invocation that was begun runs the side effect.
LEMMA CallStep ==
    ASSUME ToolTypeOK, EffectInv, NEW t \in Task, CallTool(t)
    PROVE  EffectInv'
<1> DEFINE c == task[t].call
<1>1. /\ task \in [Task -> TaskState] /\ effects \subseteq Effect /\ c \in Call
      /\ task[t].phase = "begun" /\ ledger' = ledger
      BY DEF ToolTypeOK, TaskState, CallTool
<1>2. effects' = effects \/ effects' = effects \cup {[task |-> t, call |-> c]}
      BY ZenonT(40) DEF CallTool, Acts
<1>3. /\ \A u \in Task \ {t} : task'[u] = task[u]
      /\ \/ task'[t].phase = "done"
         \/ /\ task'[t].phase = "called" /\ task'[t].call = c
            /\ task'[t].outcome \in {"succeeded", Failure(c)}
      <2> DEFINE Goal == /\ \A u \in Task \ {t} : task'[u] = task[u]
                         /\ \/ task'[t].phase = "done"
                            \/ /\ task'[t].phase = "called" /\ task'[t].call = c
                               /\ task'[t].outcome \in {"succeeded", Failure(c)}
      <2>1. ASSUME NEW o \in {"succeeded", Failure(c)},
                   task' = [task EXCEPT ![t] = [@ EXCEPT !.phase = "called", !.outcome = o]]
            PROVE  Goal
            BY <1>1, <2>1, SMTT(40) DEF TaskState
      <2>2. ASSUME NEW o, Return(t, o) PROVE Goal
            <3>1. [IdleTask EXCEPT !.phase = "done", !.call = c, !.outcome = o].phase = "done"
                  BY DEF IdleTask
            <3> QED BY <1>1, <2>2, <3>1, SMTT(40) DEF Return
      <2> QED BY <2>1, <2>2 DEF CallTool
<1>4. \A u \in Task : task'[u].phase = "called" =>
         task'[u].outcome \in {"succeeded", Failure(task'[u].call)}
      BY <1>3, ZenonT(40) DEF EffectInv
<1>5. ASSUME NEW x \in Call \ Idempotent
      PROVE  /\ Once(x)'
             /\ ledger'[x].status # "failed"
             /\ ledger'[x].status = "none" => ~Ran(x)'
             /\ \A u \in Task : task'[u].phase = "begun" /\ task'[u].call = x =>
                   /\ ledger'[x].status # "none" /\ ~Ran(x)'
                   /\ \A w \in Task : task'[w].phase = "begun" /\ task'[w].call = x => w = u
      <2>1. /\ Once(x) /\ ledger[x].status # "failed"
            /\ ledger[x].status = "none" => ~Ran(x)
            /\ \A u \in Task : task[u].phase = "begun" /\ task[u].call = x =>
                  /\ ledger[x].status # "none" /\ ~Ran(x)
                  /\ \A w \in Task : task[w].phase = "begun" /\ task[w].call = x => w = u
            BY ZenonT(40) DEF EffectInv
      <2>2. \A u \in Task : task'[u].phase = "begun" => u # t /\ task'[u] = task[u]
            BY <1>3, ZenonT(40)
      <2>3. CASE x # c
            <3>1. (Once(x)' <=> Once(x)) /\ (Ran(x)' <=> Ran(x))
                  BY <2>3, <1>1, <1>2 DEF Once, Ran
            <3> QED BY <2>1, <2>2, <3>1, <1>1, ZenonT(40)
      <2>4. CASE x = c
            <3>1. ~Ran(x) /\ ledger[x].status # "none"
                  BY <2>1, <2>4, <1>1
            <3>3. Once(x)'
                  BY <3>1, <1>2 DEF Once, Ran
            <3>4. \A u \in Task : ~(task'[u].phase = "begun" /\ task'[u].call = x)
                  BY <2>1, <2>2, <2>4, <1>1, ZenonT(40)
            <3> QED BY <2>1, <3>1, <3>3, <3>4, <1>1, ZenonT(40)
      <2> QED BY <2>3, <2>4
<1> QED BY <1>4, <1>5, ZenonT(40) DEF EffectInv

\* Finish stores an outcome in the row of its own call, never "failed" for a
\* call that is not idempotent, and never removes a row.
LEMMA FinishStep ==
    ASSUME ToolTypeOK, EffectInv, NEW t \in Task, Finish(t)
    PROVE  EffectInv'
<1> DEFINE c == task[t].call
<1>1. /\ task \in [Task -> TaskState] /\ ledger \in [Call -> Row] /\ c \in Call
      /\ task[t].phase = "called" /\ effects' = effects
      BY DEF ToolTypeOK, TaskState, Finish
<1>2. \A u \in Task : task'[u] = task[u] \/ task'[u].phase \notin {"begun", "called"}
      BY QuietPhases DEF Finish
<1>3. CASE ledger' = ledger
      BY <1>1, <1>2, <1>3, QuietTask
<1>4. CASE Finishable(c, task[t].epoch)
      <2>1. ledger' = [ledger EXCEPT ![c].status = task[t].outcome] /\ ledger[c].status = "started"
            BY <1>4 DEF Finish, Finishable
      <2>2. task[t].outcome \in {"succeeded", Failure(c)}
            BY <1>1 DEF EffectInv
      <2>3. \A x \in Call \ Idempotent :
               /\ ledger'[x].status = "none" <=> ledger[x].status = "none"
               /\ ledger[x].status # "failed" => ledger'[x].status # "failed"
            BY <2>1, <2>2, <1>1, SMTT(40) DEF Failure, Row
      <2>4. \A u \in Task : task'[u].phase \in {"begun", "called"} => task'[u] = task[u]
            BY <1>2
      <2>5. \A u \in Task : task'[u].phase = "called" =>
               task'[u].outcome \in {"succeeded", Failure(task'[u].call)}
            BY <2>4, SMTT(40) DEF EffectInv
      <2>6. \A x \in Call \ Idempotent :
                /\ Once(x)'
                /\ ledger'[x].status # "failed"
                /\ ledger'[x].status = "none" => ~Ran(x)'
            BY <2>3, <1>1, EffectsKept, ZenonT(40) DEF EffectInv
      <2>7. ASSUME NEW x \in Call \ Idempotent, NEW w \in Task,
                   task'[w].phase = "begun", task'[w].call = x
            PROVE  /\ ledger'[x].status # "none" /\ ~Ran(x)'
                   /\ \A u \in Task : task'[u].phase = "begun" /\ task'[u].call = x => u = w
            BY <2>3, <2>4, <2>7, <1>1, EffectsKept, ZenonT(40) DEF EffectInv
      <2> QED BY <2>5, <2>6, <2>7 DEF EffectInv
<1> QED BY <1>3, <1>4 DEF Finish

\* Every step keeps EffectInv.
LEMMA EffectStep ==
    ASSUME ToolTypeOK, EffectInv, [Next]_vars PROVE EffectInv'
<1>1. CASE UNCHANGED <<ledger, effects, task>>
      BY <1>1, QuietTask
<1>2. ASSUME NEW t \in Task, NEW c \in Call, NEW e \in Epoch, NEW k \in Token \cup {None},
             Evaluate(t, c, e, k)
      PROVE  EffectInv'
      <2>1. task \in [Task -> TaskState]
            BY DEF ToolTypeOK
      <2>2. PICK r : task' = [task EXCEPT ![t] = r] /\ r.phase \in {"done", "scanned", "confirmed"}
            <3> DEFINE started == [IdleTask EXCEPT !.call = c, !.epoch = e, !.token = k]
                       ended == [IdleTask EXCEPT !.phase = "done", !.call = c]
            <3>1. /\ [ended EXCEPT !.outcome = "denied"].phase = "done"
                  /\ [ended EXCEPT !.outcome = "unconfirmed"].phase = "done"
                  /\ [started EXCEPT !.phase = "scanned"].phase = "scanned"
                  /\ [started EXCEPT !.phase = "confirmed"].phase = "confirmed"
                  BY DEF IdleTask
            <3> HIDE DEF started, ended
            <3>2. \/ task' = [task EXCEPT ![t] = [ended EXCEPT !.outcome = "denied"]]
                  \/ task' = [task EXCEPT ![t] = [ended EXCEPT !.outcome = "unconfirmed"]]
                  \/ task' = [task EXCEPT ![t] = [started EXCEPT !.phase = "scanned"]]
                  \/ task' = [task EXCEPT ![t] = [started EXCEPT !.phase = "confirmed"]]
                  BY <1>2, ZenonT(40) DEF Evaluate, started, ended
            <3> QED BY <3>1, <3>2, ZenonT(40)
      <2>3. \A u \in Task : task'[u] = task[u] \/ task'[u].phase \notin {"begun", "called"}
            BY <2>1, <2>2
      <2> QED BY <1>2, <2>3, QuietTask DEF Evaluate
<1>3. ASSUME NEW t \in Task, ConsumeToken(t) PROVE EffectInv'
      <2>1. Return(t, "unconfirmed") \/ To(t, "confirmed")
            BY <1>3 DEF ConsumeToken
      <2> QED BY <1>3, <2>1, QuietPhases, QuietTask DEF ConsumeToken
<1>4. ASSUME NEW t \in Task, Reserve(t) PROVE EffectInv'
      <2>1. Return(t, "denied") \/ To(t, "reserved")
            BY <1>4 DEF Reserve
      <2> QED BY <1>4, <2>1, QuietPhases, QuietTask DEF Reserve
<1>5. ASSUME NEW t \in Task, AuditAllow(t) PROVE EffectInv'
      BY <1>5, QuietPhases, QuietTask DEF AuditAllow
<1>6. ASSUME NEW e \in Epoch, WorkerDies(e) PROVE EffectInv'
      <2>1. \A u \in Task : task'[u] = task[u] \/ task'[u].phase \notin {"begun", "called"}
            BY <1>6 DEF WorkerDies, IdleTask
      <2> QED BY <1>6, <2>1, QuietTask DEF WorkerDies
<1> QED BY <1>1, <1>2, <1>3, <1>4, <1>5, <1>6, BeginStep, CallStep, FinishStep
        DEF Next, vars, IssueToken, ExpireToken, LeaseEnds, TakeOver

\* The conjunction is an invariant of the tool ledger.
THEOREM ToolInvariance == Spec => [](ToolTypeOK /\ EffectInv)
<1>1. Init => ToolTypeOK /\ EffectInv
      BY ToolInitTyped, IdleTaskTyped DEF Init, EffectInv, Once, Ran
<1>2. ToolTypeOK /\ EffectInv /\ [Next]_vars => (ToolTypeOK /\ EffectInv)'
      BY ToolStepTyped, EffectStep
<1> QED BY <1>1, <1>2, PTL DEF Spec

\* The rows keep their types and the spending stays within the monthly limit.
THEOREM ToolTypeCorrect == Spec => []ToolTypeOK
  BY ToolInvariance, PTL

\* The side effect of a tool that is not idempotent happens at most once,
\* however many invocations, takeovers and crashes the turn goes through.
THEOREM AtMostOnce == Spec => []AtMostOneEffect
<1>1. ToolTypeOK /\ EffectInv => AtMostOneEffect
      BY DEF EffectInv, AtMostOneEffect
<1> QED BY <1>1, ToolInvariance, PTL

-----------------------------------------------------------------------------
(* Results *)

\* An invocation that returns keeps its call, and the others what they hold.
LEMMA ReturnMoves ==
    ASSUME ToolTypeOK, NEW t \in Task, NEW o, Return(t, o)
    PROVE  /\ task'[t].phase = "done" /\ task'[t].outcome = o /\ task'[t].call = task[t].call
           /\ \A u \in Task \ {t} : task'[u] = task[u]
<1> DEFINE r == [IdleTask EXCEPT !.phase = "done", !.call = task[t].call, !.outcome = o]
<1>1. r.phase = "done" /\ r.outcome = o /\ r.call = task[t].call
      BY DEF IdleTask
<1>2. task' = [task EXCEPT ![t] = r] /\ task \in [Task -> TaskState]
      BY DEF Return, ToolTypeOK
<1> HIDE DEF r
<1> QED BY <1>1, <1>2

\* An invocation that goes on keeps all but its phase.
LEMMA ToMoves ==
    ASSUME ToolTypeOK, NEW t \in Task, NEW p, To(t, p)
    PROVE  /\ task'[t].phase = p /\ task'[t].call = task[t].call
           /\ task'[t].token = task[t].token
           /\ \A u \in Task \ {t} : task'[u] = task[u]
BY DEF To, ToolTypeOK, TaskState

\* A step that neither calls a tool nor writes the ledger nor hands out a result.
LEMMA RecordKept ==
    ASSUME RecordInv, ledger' = ledger, effects' = effects,
           \A u \in Task : \/ task'[u] = task[u]
                           \/ task'[u].phase \notin {"begun", "called", "done"}
                           \/ task'[u].phase = "done" /\ task'[u].outcome # "ok"
    PROVE  RecordInv'
<1>1. SuccessIsReal' /\ ResultIsRecorded'
      BY DEF RecordInv, SuccessIsReal, ResultIsRecorded, Ran
<1>2. ASSUME NEW t \in Task
      PROVE  /\ task'[t].phase = "called" /\ task'[t].outcome = "succeeded" => Ran(task[t].call)'
             /\ task'[t].phase = "begun" /\ task'[t].mode = "replay" =>
                   ledger'[task'[t].call].status = "succeeded"
      <2>1. task'[t].phase \in {"begun", "called"} => task'[t] = task[t]
            OBVIOUS
      <2> QED BY <2>1 DEF RecordInv, Ran
<1> QED BY <1>1, <1>2 DEF RecordInv, Ran

\* The governance steps and the death of a worker hand out no result.
LEMMA GovernanceRecord ==
    ASSUME ToolTypeOK, RecordInv, NEW t \in Task,
           \/ \E c \in Call, e \in Epoch, k \in Token \cup {None} : Evaluate(t, c, e, k)
           \/ ConsumeToken(t) \/ Reserve(t) \/ AuditAllow(t)
    PROVE  RecordInv'
<1>1. ledger' = ledger /\ effects' = effects
      BY ZenonT(40) DEF Evaluate, ConsumeToken, Reserve, AuditAllow
<1>2. CASE \E c \in Call, e \in Epoch, k \in Token \cup {None} : Evaluate(t, c, e, k)
      <2>1. PICK c \in Call, e \in Epoch, k \in Token \cup {None} : Evaluate(t, c, e, k)
            BY <1>2
      <2>2. PICK r : /\ task' = [task EXCEPT ![t] = r]
                     /\ r.phase = "done" => r.outcome # "ok"
                     /\ r.phase \in {"done", "scanned", "confirmed"}
            <3> DEFINE started == [IdleTask EXCEPT !.call = c, !.epoch = e, !.token = k]
                       ended == [IdleTask EXCEPT !.phase = "done", !.call = c]
            <3>1. /\ [ended EXCEPT !.outcome = "denied"].phase = "done"
                  /\ [ended EXCEPT !.outcome = "denied"].outcome = "denied"
                  /\ [ended EXCEPT !.outcome = "unconfirmed"].phase = "done"
                  /\ [ended EXCEPT !.outcome = "unconfirmed"].outcome = "unconfirmed"
                  /\ [started EXCEPT !.phase = "scanned"].phase = "scanned"
                  /\ [started EXCEPT !.phase = "confirmed"].phase = "confirmed"
                  BY DEF IdleTask
            <3> HIDE DEF started, ended
            <3>2. \/ task' = [task EXCEPT ![t] = [ended EXCEPT !.outcome = "denied"]]
                  \/ task' = [task EXCEPT ![t] = [ended EXCEPT !.outcome = "unconfirmed"]]
                  \/ task' = [task EXCEPT ![t] = [started EXCEPT !.phase = "scanned"]]
                  \/ task' = [task EXCEPT ![t] = [started EXCEPT !.phase = "confirmed"]]
                  BY <2>1, ZenonT(40) DEF Evaluate, started, ended
            <3> QED BY <3>1, <3>2
      <2>3. task \in [Task -> TaskState]
            BY DEF ToolTypeOK
      <2> QED BY <1>1, <2>2, <2>3, RecordKept
<1>3. CASE ConsumeToken(t) \/ Reserve(t) \/ AuditAllow(t)
      <2>1. \/ \E o \in {"unconfirmed", "denied"} : Return(t, o)
            \/ \E p \in {"confirmed", "reserved", "allowed"} : To(t, p)
            BY <1>3, ZenonT(40) DEF ConsumeToken, Reserve, AuditAllow
      <2> QED BY <1>1, <2>1, ReturnMoves, ToMoves, RecordKept
<1> QED BY <1>2, <1>3

\* Begin replays a success only, and never starts over what has succeeded.
LEMMA BeginRecord ==
    ASSUME ToolTypeOK, RecordInv, NEW t \in Task, Begin(t)
    PROVE  RecordInv'
<1> DEFINE c == task[t].call
           e == task[t].epoch
           answer == BeginAnswer(c, e)
<1>1. task \in [Task -> TaskState] /\ ledger \in [Call -> Row] /\ c \in Call /\ e \in Epoch
      BY DEF ToolTypeOK, TaskState
<1>2. /\ answer \in {"fresh", "rerun", "replay", "review", "conflict"}
      /\ answer = "fresh" => ledger[c].status # "succeeded"
      /\ answer = "replay" => ledger[c].status = "succeeded"
      BY <1>1, BeginAnswers
<1>3. effects' = effects
      BY DEF Begin
<1> HIDE DEF answer
<1>4. CASE answer \in {"review", "conflict"}
      <2>1. Return(t, answer) /\ ledger' = ledger
            BY <1>4 DEF Begin, answer
      <2> QED BY <1>3, <1>4, <2>1, ReturnMoves, RecordKept
<1>5. CASE answer \in {"fresh", "rerun", "replay"}
      <2>1. /\ task' = [task EXCEPT ![t] = [@ EXCEPT !.phase = "begun", !.mode = answer]]
            /\ ledger' = IF answer = "fresh"
                         THEN [ledger EXCEPT ![c] = [status |-> "started", epoch |-> e]]
                         ELSE ledger
            BY <1>5 DEF Begin, answer
      <2>2. /\ task'[t].phase = "begun" /\ task'[t].call = c /\ task'[t].mode = answer
            /\ \A u \in Task \ {t} : task'[u] = task[u]
            BY <2>1, <1>1 DEF TaskState
      <2>3. \A x \in Call : ledger[x].status = "succeeded" <=> ledger'[x].status = "succeeded"
            BY <2>1, <1>1, <1>2
      <2>4. \A u \in Task : task[u].call \in Call
            BY <1>1 DEF TaskState
      <2>5. SuccessIsReal' /\ ResultIsRecorded'
            BY <1>3, <2>2, <2>3, <2>4 DEF RecordInv, SuccessIsReal, ResultIsRecorded, Ran
      <2>6. \A u \in Task :
               /\ task'[u].phase = "called" /\ task'[u].outcome = "succeeded" => Ran(task[u].call)'
               /\ task'[u].phase = "begun" /\ task'[u].mode = "replay" =>
                     ledger'[task'[u].call].status = "succeeded"
            BY <1>1, <1>2, <1>3, <2>2, <2>3, <2>4 DEF RecordInv, Ran
      <2> QED BY <2>5, <2>6 DEF RecordInv, Ran
<1> QED BY <1>2, <1>4, <1>5

\* A call that will be stored as a success has had its effect.
LEMMA CallRecord ==
    ASSUME ToolTypeOK, RecordInv, NEW t \in Task, CallTool(t)
    PROVE  RecordInv'
<1>1. /\ task \in [Task -> TaskState] /\ task[t].phase = "begun" /\ ledger' = ledger
      BY DEF ToolTypeOK, CallTool
<1>2. effects \subseteq effects'
      BY ZenonT(40) DEF CallTool, Acts
<1>3. /\ \A u \in Task \ {t} : task'[u] = task[u]
      /\ task'[t].call = task[t].call
      /\ \/ task'[t].phase = "done" /\ (task'[t].outcome = "ok" => task[t].mode = "replay")
         \/ task'[t].phase = "called" /\ (task'[t].outcome = "succeeded" => Acts(t))
      <2>1. CASE Acts(t) /\ task' = [task EXCEPT ![t] =
                                       [@ EXCEPT !.phase = "called", !.outcome = "succeeded"]]
            BY <1>1, <2>1, SMTT(40) DEF TaskState
      <2>2. CASE task' = [task EXCEPT ![t] =
                            [@ EXCEPT !.phase = "called", !.outcome = Failure(task[t].call)]]
            <3>1. Failure(task[t].call) # "succeeded"
                  BY DEF Failure
            <3> QED BY <1>1, <2>2, <3>1, SMTT(40) DEF TaskState
      <2>3. CASE Return(t, "ok") /\ task[t].mode = "replay"
            BY <2>3, ReturnMoves
      <2>4. CASE Return(t, "error")
            BY <2>4, ReturnMoves
      <2> QED BY <2>1, <2>2, <2>3, <2>4, ZenonT(40) DEF CallTool
<1>4. \A x \in Call : Ran(x) => Ran(x)'
      BY <1>2 DEF Ran
<1>5. Acts(t) => Ran(task[t].call)'
      <2> DEFINE x == [task |-> t, call |-> task[t].call]
      <2>1. x.call = task'[t].call
            BY <1>3
      <2>2. Acts(t) => x \in effects'
            BY DEF Acts
      <2> HIDE DEF x
      <2> QED BY <2>1, <2>2 DEF Ran
<1>6. \A u \in Task : task[u].call \in Call
      BY <1>1 DEF TaskState
<1>7. SuccessIsReal'
      BY <1>1, <1>4, ZenonT(40) DEF RecordInv, SuccessIsReal
<1>8. ResultIsRecorded'
      BY <1>1, <1>3 DEF RecordInv, ResultIsRecorded
<1>9. \A u \in Task :
         /\ task'[u].phase = "called" /\ task'[u].outcome = "succeeded" => Ran(task[u].call)'
         /\ task'[u].phase = "begun" /\ task'[u].mode = "replay" =>
               ledger'[task'[u].call].status = "succeeded"
      <2>1. \A u \in Task \ {t} : Ran(task[u].call) => Ran(task[u].call)'
            BY <1>2, <1>3 DEF Ran
      <2> QED BY <1>1, <1>3, <1>5, <2>1 DEF RecordInv
<1> QED BY <1>7, <1>8, <1>9 DEF RecordInv

\* Finish stores a success only of a call that had its effect, and answers with the
\* result only when it stored it.
LEMMA FinishRecord ==
    ASSUME ToolTypeOK, EffectInv, RecordInv, NEW t \in Task, Finish(t)
    PROVE  RecordInv'
<1> DEFINE c == task[t].call
<1>1. /\ task \in [Task -> TaskState] /\ ledger \in [Call -> Row] /\ c \in Call
      /\ task[t].phase = "called" /\ effects' = effects
      /\ \A u \in Task : task[u].call \in Call
      BY DEF ToolTypeOK, TaskState, Finish
<1>2. CASE Return(t, "conflict") /\ ledger' = ledger
      BY <1>1, <1>2, ReturnMoves, RecordKept
<1>3. CASE Finishable(c, task[t].epoch)
      <2>1. /\ ledger' = [ledger EXCEPT ![c].status = task[t].outcome]
            /\ ledger[c].status = "started" /\ Return(t, Answer(task[t].outcome))
            BY <1>3 DEF Finish, Finishable
      <2>2. task[t].outcome \in {"succeeded", "failed", "ambiguous"}
            BY <1>1 DEF EffectInv, Failure
      <2>3. Answer(task[t].outcome) = "ok" => task[t].outcome = "succeeded"
            BY <2>2 DEF Answer
      <2>4. /\ task'[t].phase = "done" /\ task'[t].call = c
            /\ task'[t].outcome = "ok" => task[t].outcome = "succeeded"
            /\ \A u \in Task \ {t} : task'[u] = task[u]
            BY <2>1, <2>3, ReturnMoves
      <2>5. /\ \A x \in Call : ledger[x].status = "succeeded" => ledger'[x].status = "succeeded"
            /\ \A x \in Call : ledger'[x].status = "succeeded" =>
                  ledger[x].status = "succeeded" \/ (x = c /\ task[t].outcome = "succeeded")
            /\ task[t].outcome = "succeeded" => ledger'[c].status = "succeeded"
            BY <2>1, <1>1, SMTT(40) DEF Row
      <2>6. SuccessIsReal'
            BY <1>1, <2>5 DEF RecordInv, SuccessIsReal, Ran
      <2>7. ResultIsRecorded'
            BY <1>1, <2>4, <2>5 DEF RecordInv, ResultIsRecorded
      <2>8. \A u \in Task :
               /\ task'[u].phase = "called" /\ task'[u].outcome = "succeeded" => Ran(task[u].call)'
               /\ task'[u].phase = "begun" /\ task'[u].mode = "replay" =>
                     ledger'[task'[u].call].status = "succeeded"
            BY <1>1, <2>4, <2>5 DEF RecordInv, Ran
      <2> QED BY <2>6, <2>7, <2>8 DEF RecordInv
<1> QED BY <1>2, <1>3 DEF Finish

\* Every step keeps RecordInv.
LEMMA RecordStep ==
    ASSUME ToolTypeOK, EffectInv, RecordInv, [Next]_vars PROVE RecordInv'
<1>1. CASE UNCHANGED <<ledger, effects, task>>
      BY <1>1, RecordKept
<1>2. ASSUME NEW e \in Epoch, WorkerDies(e) PROVE RecordInv'
      <2>1. \A u \in Task : task'[u] = task[u] \/ task'[u].phase = "dead"
            BY <1>2 DEF WorkerDies, IdleTask
      <2> QED BY <1>2, <2>1, RecordKept DEF WorkerDies
<1> QED BY <1>1, <1>2, GovernanceRecord, BeginRecord, CallRecord, FinishRecord, ZenonT(40)
        DEF Next, vars, IssueToken, ExpireToken, LeaseEnds, TakeOver

\* The record invariant holds in every behaviour.
THEOREM RecordInvariance == Spec => []RecordInv
<1>1. Init => RecordInv
      <2> SUFFICES ASSUME Init PROVE RecordInv
          OBVIOUS
      <2>1. /\ \A t \in Task : task[t].phase = "idle"
            /\ \A c \in Call : ledger[c].status = "none"
            BY IdleTaskTyped DEF Init
      <2> QED BY <2>1 DEF RecordInv, SuccessIsReal, ResultIsRecorded
<1>2. ToolTypeOK /\ EffectInv /\ RecordInv /\ [Next]_vars => RecordInv'
      BY RecordStep
<1> QED BY <1>1, <1>2, ToolInvariance, PTL DEF Spec

\* A success of the ledger is that of a call whose side effect has happened.
THEOREM RealSuccess == Spec => []SuccessIsReal
<1>1. RecordInv => SuccessIsReal
      BY DEF RecordInv
<1> QED BY <1>1, RecordInvariance, PTL

\* A result handed to the agent is in the ledger, for whichever worker comes next.
THEOREM RecordedResult == Spec => []ResultIsRecorded
<1>1. RecordInv => ResultIsRecorded
      BY DEF RecordInv
<1> QED BY <1>1, RecordInvariance, PTL

-----------------------------------------------------------------------------
(* Authority *)

\* The reservations that have no audit row yet are finitely many.
LEMMA ReservedCounted ==
    /\ IsFiniteSet(Reserved) /\ Cardinality(Reserved) \in Nat
    /\ IsFiniteSet(Reserved') /\ Cardinality(Reserved') \in Nat
<1>1. Reserved \subseteq Task /\ Reserved' \subseteq Task
      BY DEF Reserved
<1>2. IsFiniteSet(Reserved) /\ IsFiniteSet(Reserved')
      BY <1>1, FS_Subset, ToolAssumption
<1> QED BY <1>2, FS_CardinalityType

\* A step that reserves nothing does not add to them.
LEMMA ReservedShrinks ==
    Reserved' \subseteq Reserved => Cardinality(Reserved') <= Cardinality(Reserved)
BY ReservedCounted, FS_Subset

\* What an invocation may become without touching what authorises it: it moves
\* towards its end, or passes the scan, or begins what was allowed.
Harmless(u) ==
    \/ task'[u] = task[u]
    \/ task'[u].phase \in {"called", "done", "dead"}
    \/ /\ task[u].phase = "idle" /\ task'[u].phase = "scanned"
       /\ task'[u].token \in Token /\ task'[u].call \in Confirmed
    \/ /\ task[u].phase = "idle" /\ task'[u].phase = "confirmed"
       /\ task'[u].token = None /\ task'[u].call \notin Confirmed
    \/ /\ task[u].phase = "allowed" /\ task'[u].phase = "begun"
       /\ task'[u].call = task[u].call

\* What AuthorityInv says of one invocation.
Held(t) ==
    /\ task[t].phase = "scanned" => task[t].token \in Token /\ task[t].call \in Confirmed
    /\ task[t].phase \in {"confirmed", "reserved"} /\ task[t].call \notin Confirmed =>
          task[t].token = None
    /\ task[t].phase \in {"idle", "scanned", "confirmed", "reserved"} =>
          \A r \in audit : r.task # t
    /\ task[t].phase \in {"allowed", "begun"} =>
          \E r \in audit : r.task = t /\ r.call = task[t].call
    /\ task[t].phase \in {"confirmed", "reserved"} /\ task[t].call \in Confirmed =>
          /\ Used(task[t].token, task[t].call)
          /\ \A r \in audit : r.token # task[t].token
          /\ \A u \in Task : task[u].phase \in {"confirmed", "reserved"}
                             /\ task[u].token = task[t].token => u = t

\* AuthorityInv in these terms.
LEMMA AuthorityParts ==
    AuthorityInv <=> /\ EffectsAuthorised /\ IsFiniteSet(audit)
                     /\ Cardinality(audit) + Cardinality(Reserved) <= spent
                     /\ \A r \in audit : r.call \notin Confirmed => r.token = None
                     /\ \A t \in Task : Held(t)
BY ZenonT(40) DEF AuthorityInv, Held

\* A confirmation that was used stays used for the same call.
LEMMA UsedStays ==
    ASSUME NEW k, NEW c, Used(k, c),
           \A j \in Token : token[j].state = "consumed" => token'[j] = token[j]
    PROVE  Used(k, c)'
BY DEF Used

\* A step that writes no audit row, reserves nothing and has no side effect.
LEMMA AuthorityKept ==
    ASSUME ToolTypeOK, ToolTypeOK', AuthorityInv, UNCHANGED <<audit, effects, spent>>,
           \A k \in Token : token[k].state = "consumed" => token'[k] = token[k],
           \A u \in Task : Harmless(u)
    PROVE  AuthorityInv'
<1>1. Reserved' \subseteq Reserved
      BY DEF Reserved, Harmless
<1>2. Cardinality(audit)' + Cardinality(Reserved') <= spent'
      <2>1. /\ Cardinality(audit) \in Nat /\ spent \in Nat
            /\ Cardinality(audit) + Cardinality(Reserved) <= spent
            BY FS_CardinalityType, ToolAssumption DEF ToolTypeOK, AuthorityInv
      <2> QED BY <1>1, <2>1, ReservedShrinks, ReservedCounted
<1>3. EffectsAuthorised'
      <2>1. \A r \in audit : r.call \in Confirmed => Used(r.token, r.call)'
            BY UsedStays DEF AuthorityInv, EffectsAuthorised
      <2> QED BY <2>1 DEF AuthorityInv, EffectsAuthorised
<1>4. ASSUME NEW t \in Task PROVE Held(t)'
      <2>1. Held(t) /\ Harmless(t)
            BY AuthorityParts
      <2>2. /\ task'[t].phase = "scanned" => task'[t].token \in Token /\ task'[t].call \in Confirmed
            /\ task'[t].phase \in {"confirmed", "reserved"} /\ task'[t].call \notin Confirmed =>
                  task'[t].token = None
            /\ task'[t].phase \in {"idle", "scanned", "confirmed", "reserved"} =>
                  \A r \in audit' : r.task # t
            /\ task'[t].phase \in {"allowed", "begun"} =>
                  \E r \in audit' : r.task = t /\ r.call = task'[t].call
            BY <2>1 DEF Held, Harmless
      <2>3. ASSUME task'[t].phase \in {"confirmed", "reserved"}, task'[t].call \in Confirmed
            PROVE  /\ Used(task[t].token, task[t].call)'
                   /\ \A r \in audit' : r.token # task'[t].token
                   /\ \A u \in Task : task'[u].phase \in {"confirmed", "reserved"}
                                      /\ task'[u].token = task'[t].token => u = t
            <3>1. task'[t] = task[t]
                  BY <2>1, <2>3 DEF Harmless
            <3>2. /\ Used(task[t].token, task[t].call)
                  /\ \A r \in audit : r.token # task[t].token
                  /\ \A u \in Task : task[u].phase \in {"confirmed", "reserved"}
                                     /\ task[u].token = task[t].token => u = t
                  BY <2>1, <2>3, <3>1 DEF Held
            <3>3. task[t].token # None
                  BY <3>2, ToolAssumption DEF Used
            <3>4. \A u \in Task : task'[u].phase \in {"confirmed", "reserved"}
                                  /\ task'[u].token = task'[t].token => u = t
                  BY <3>1, <3>2, <3>3 DEF Harmless
            <3>5. Used(task[t].token, task[t].call)'
                  BY <3>1, <3>2 DEF Used
            <3> QED BY <3>1, <3>2, <3>4, <3>5
      <2> QED BY <2>2, <2>3 DEF Held
<1>5. /\ IsFiniteSet(audit)' /\ \A r \in audit' : r.call \notin Confirmed => r.token = None
      BY DEF AuthorityInv
<1> QED BY <1>2, <1>3, <1>4, <1>5, ZenonT(40) DEF AuthorityInv, Held

\* The steps that change no authority: tokens are issued and expire, an invocation
\* is scanned, begins or ends, the lease moves on, a worker dies.
LEMMA AuthorityQuiet ==
    ASSUME ToolTypeOK, ToolTypeOK', AuthorityInv,
           \/ \E k \in Token, c \in Call : IssueToken(k, c)
           \/ \E k \in Token : ExpireToken(k)
           \/ \E t \in Task, c \in Call, e \in Epoch, k \in Token \cup {None} : Evaluate(t, c, e, k)
           \/ \E t \in Task : Begin(t) \/ Finish(t)
           \/ LeaseEnds \/ TakeOver \/ \E e \in Epoch : WorkerDies(e)
           \/ UNCHANGED vars
    PROVE  AuthorityInv'
<1>0. /\ task \in [Task -> TaskState]
      /\ token \in [Token -> [scope : Call, state : {"none", "issued", "consumed", "expired"}]]
      BY DEF ToolTypeOK
<1>1. UNCHANGED <<audit, effects, spent>>
      BY ZenonT(40) DEF IssueToken, ExpireToken, Evaluate, Begin, Finish, LeaseEnds, TakeOver,
                        WorkerDies, vars
<1>2. \A k \in Token : token[k].state = "consumed" => token'[k] = token[k]
      <2>1. ASSUME NEW k \in Token, NEW c \in Call, IssueToken(k, c)
            PROVE  \A j \in Token : token[j].state = "consumed" => token'[j] = token[j]
            BY <1>0, <2>1 DEF IssueToken
      <2>2. ASSUME NEW k \in Token, ExpireToken(k)
            PROVE  \A j \in Token : token[j].state = "consumed" => token'[j] = token[j]
            BY <1>0, <2>2 DEF ExpireToken
      <2>3. CASE token' = token
            BY <2>3
      <2> QED BY <2>1, <2>2, <2>3, ZenonT(40)
              DEF Evaluate, Begin, Finish, LeaseEnds, TakeOver, WorkerDies, vars
<1>3. \A u \in Task : Harmless(u)
      <2>1. CASE task' = task
            BY <2>1 DEF Harmless
      <2>2. ASSUME NEW t \in Task, NEW c \in Call, NEW e \in Epoch, NEW k \in Token \cup {None},
                   Evaluate(t, c, e, k)
            PROVE  \A u \in Task : Harmless(u)
            <3> DEFINE started == [IdleTask EXCEPT !.call = c, !.epoch = e, !.token = k]
                       ended == [IdleTask EXCEPT !.phase = "done", !.call = c]
                       Passed(r) == \/ r.phase = "done"
                                   \/ /\ r.phase = "scanned" /\ r.token \in Token
                                      /\ r.call \in Confirmed
                                   \/ /\ r.phase = "confirmed" /\ r.token = None
                                      /\ r.call \notin Confirmed
            <3>1. /\ [ended EXCEPT !.outcome = "denied"].phase = "done"
                  /\ [ended EXCEPT !.outcome = "unconfirmed"].phase = "done"
                  /\ [started EXCEPT !.phase = "scanned"].phase = "scanned"
                  /\ [started EXCEPT !.phase = "scanned"].token = k
                  /\ [started EXCEPT !.phase = "scanned"].call = c
                  /\ [started EXCEPT !.phase = "confirmed"].phase = "confirmed"
                  /\ [started EXCEPT !.phase = "confirmed"].token = k
                  /\ [started EXCEPT !.phase = "confirmed"].call = c
                  BY DEF IdleTask
            <3> HIDE DEF started, ended
            <3>2. \/ task' = [task EXCEPT ![t] = [ended EXCEPT !.outcome = "denied"]]
                  \/ task' = [task EXCEPT ![t] = [ended EXCEPT !.outcome = "unconfirmed"]]
                  \/ /\ c \in Confirmed /\ k # None
                     /\ task' = [task EXCEPT ![t] = [started EXCEPT !.phase = "scanned"]]
                  \/ /\ c \notin Confirmed
                     /\ task' = [task EXCEPT ![t] = [started EXCEPT !.phase = "confirmed"]]
                  BY <2>2, ZenonT(40) DEF Evaluate, started, ended
            <3>3. task[t].phase = "idle" /\ (c \notin Confirmed => k = None)
                  BY <2>2 DEF Evaluate
            <3>4. PICK r : task' = [task EXCEPT ![t] = r] /\ Passed(r)
                  <4>1. /\ Passed([ended EXCEPT !.outcome = "denied"])
                        /\ Passed([ended EXCEPT !.outcome = "unconfirmed"])
                        /\ c \in Confirmed /\ k # None => Passed([started EXCEPT !.phase = "scanned"])
                        /\ c \notin Confirmed => Passed([started EXCEPT !.phase = "confirmed"])
                        BY <3>1, <3>3
                  <4> HIDE DEF Passed
                  <4> QED BY <3>2, <4>1, ZenonT(40)
            <3>5. task'[t] = r /\ \A u \in Task \ {t} : task'[u] = task[u]
                  BY <1>0, <3>4
            <3> QED BY <3>3, <3>4, <3>5 DEF Harmless
      <2>3. ASSUME NEW t \in Task, Begin(t) PROVE \A u \in Task : Harmless(u)
            <3>1. \/ \E o : Return(t, o)
                  \/ \E m : task' = [task EXCEPT ![t] = [@ EXCEPT !.phase = "begun", !.mode = m]]
                  BY <2>3, ZenonT(40) DEF Begin
            <3>2. task[t].phase = "allowed"
                  BY <2>3 DEF Begin
            <3>3. ASSUME NEW m,
                         task' = [task EXCEPT ![t] = [@ EXCEPT !.phase = "begun", !.mode = m]]
                  PROVE  /\ task'[t].phase = "begun" /\ task'[t].call = task[t].call
                         /\ \A u \in Task \ {t} : task'[u] = task[u]
                  BY <1>0, <3>3 DEF TaskState
            <3> QED BY <3>1, <3>2, <3>3, ReturnMoves DEF Harmless
      <2>4. ASSUME NEW t \in Task, Finish(t) PROVE \A u \in Task : Harmless(u)
            <3>1. \E o : Return(t, o)
                  BY <2>4, ZenonT(40) DEF Finish
            <3> QED BY <3>1, ReturnMoves DEF Harmless
      <2>5. ASSUME NEW e \in Epoch, WorkerDies(e) PROVE \A u \in Task : Harmless(u)
            BY <2>5 DEF WorkerDies, IdleTask, Harmless
      <2> QED BY <2>1, <2>2, <2>3, <2>4, <2>5, ZenonT(40)
              DEF IssueToken, ExpireToken, LeaseEnds, TakeOver, vars
<1> QED BY <1>1, <1>2, <1>3, AuthorityKept

\* The conditional UPDATE hands a token to one invocation, and it was nobody's.
LEMMA ConsumeAuthority ==
    ASSUME ToolTypeOK, ToolTypeOK', AuthorityInv, NEW t \in Task, ConsumeToken(t)
    PROVE  AuthorityInv'
<1> DEFINE k == task[t].token
<1>0. /\ UNCHANGED <<audit, effects, spent>> /\ task[t].phase = "scanned"
      /\ token \in [Token -> [scope : Call, state : {"none", "issued", "consumed", "expired"}]]
      BY DEF ConsumeToken, ToolTypeOK
<1>1. k \in Token /\ task[t].call \in Confirmed
      BY <1>0 DEF AuthorityInv
<1>2. CASE Return(t, "unconfirmed") /\ token' = token
      BY <1>0, <1>2, ReturnMoves, AuthorityKept DEF Harmless
<1>3. CASE /\ Consumable(k, task[t].call) /\ To(t, "confirmed")
           /\ token' = [token EXCEPT ![k].state = "consumed"]
      <2>1. /\ task'[t].phase = "confirmed" /\ task'[t].call = task[t].call
            /\ task'[t].token = task[t].token
            /\ \A u \in Task \ {t} : task'[u] = task[u]
            BY <1>3, ToMoves
      <2>2. /\ token[k].state = "issued" /\ token[k].scope = task[t].call
            /\ token'[k].state = "consumed" /\ token'[k].scope = task[t].call
            /\ \A j \in Token : token[j].state = "consumed" => token'[j] = token[j]
            BY <1>0, <1>1, <1>3 DEF Consumable
      <2>3. EffectsAuthorised'
            <3>1. \A r \in audit : r.call \in Confirmed => Used(r.token, r.call)'
                  BY <2>2, UsedStays DEF AuthorityInv, EffectsAuthorised
            <3> QED BY <1>0, <3>1 DEF AuthorityInv, EffectsAuthorised
      <2>4. \A r \in audit : r.token # k
            BY <1>1, <2>2, ToolAssumption DEF AuthorityInv, EffectsAuthorised, Used
      <2>5. \A u \in Task : task[u].phase \in {"confirmed", "reserved"} => task[u].token # k
            BY <1>1, <2>2, ToolAssumption, ZenonT(40) DEF AuthorityInv, Used
      <2>6. Cardinality(audit)' + Cardinality(Reserved') <= spent'
            <3>1. Reserved' = Reserved
                  BY <1>0, <2>1 DEF Reserved
            <3> QED BY <1>0, <3>1 DEF AuthorityInv
      <2>7. Held(t)'
            <3>1. Used(task[t].token, task[t].call)'
                  BY <1>1, <2>1, <2>2 DEF Used
            <3>2. /\ \A r \in audit' : r.token # task'[t].token /\ r.task # t
                  BY <1>0, <2>1, <2>4 DEF AuthorityInv
            <3>3. \A u \in Task : task'[u].phase \in {"confirmed", "reserved"}
                                  /\ task'[u].token = task'[t].token => u = t
                  BY <2>1, <2>5
            <3> QED BY <1>1, <2>1, <3>1, <3>2, <3>3 DEF Held
      <2>8. ASSUME NEW u \in Task \ {t} PROVE Held(u)'
            <3>1. Held(u) /\ task'[u] = task[u]
                  BY <2>1, AuthorityParts
            <3>2. Used(task[u].token, task[u].call) => Used(task[u].token, task[u].call)'
                  BY <2>2, <3>1 DEF Used
            <3>3. task[u].phase \in {"confirmed", "reserved"} => task[u].token # task'[t].token
                  BY <2>1, <2>5
            <3>4. ASSUME task[u].phase \in {"confirmed", "reserved"}, task[u].call \in Confirmed
                  PROVE  \A w \in Task : task'[w].phase \in {"confirmed", "reserved"}
                                         /\ task'[w].token = task'[u].token => w = u
                  BY <2>1, <3>1, <3>3, <3>4 DEF Held
            <3> QED BY <1>0, <3>1, <3>2, <3>4 DEF Held
      <2>9. /\ IsFiniteSet(audit)' /\ \A r \in audit' : r.call \notin Confirmed => r.token = None
            BY <1>0 DEF AuthorityInv
      <2> QED BY <2>3, <2>6, <2>7, <2>8, <2>9, ZenonT(40) DEF AuthorityInv, Held
<1> QED BY <1>2, <1>3 DEF ConsumeToken

\* The reservation adds one unit for one invocation.
LEMMA ReserveAuthority ==
    ASSUME ToolTypeOK, ToolTypeOK', AuthorityInv, NEW t \in Task, Reserve(t)
    PROVE  AuthorityInv'
<1>0. /\ UNCHANGED <<audit, effects, token>> /\ task[t].phase = "confirmed"
      BY DEF Reserve
<1>1. CASE Return(t, "denied") /\ spent' = spent
      BY <1>0, <1>1, ReturnMoves, AuthorityKept DEF Harmless
<1>2. CASE To(t, "reserved") /\ spent' = spent + 1
      <2>1. /\ task'[t].phase = "reserved" /\ task'[t].call = task[t].call
            /\ task'[t].token = task[t].token
            /\ \A u \in Task \ {t} : task'[u] = task[u]
            BY <1>2, ToMoves
      <2>2. Cardinality(audit)' + Cardinality(Reserved') <= spent'
            <3>1. Reserved' = Reserved \cup {t}
                  BY <2>1 DEF Reserved
            <3>2. Cardinality(Reserved') \in {Cardinality(Reserved), Cardinality(Reserved) + 1}
                  BY <3>1, ReservedCounted, FS_AddElement
            <3>3. /\ Cardinality(audit) \in Nat /\ spent \in Nat
                  /\ Cardinality(audit) + Cardinality(Reserved) <= spent
                  BY FS_CardinalityType, ToolAssumption DEF ToolTypeOK, AuthorityInv
            <3> QED BY <1>0, <1>2, <3>2, <3>3, ReservedCounted
      <2>3. EffectsAuthorised'
            <3>1. Cardinality(audit') <= spent'
                  <4>1. Cardinality(audit) <= spent /\ spent \in Nat /\ Cardinality(audit) \in Nat
                        BY FS_CardinalityType, ToolAssumption
                           DEF ToolTypeOK, AuthorityInv, EffectsAuthorised
                  <4> QED BY <1>0, <1>2, <4>1
            <3> QED BY <1>0, <3>1 DEF AuthorityInv, EffectsAuthorised, Used
      <2>4. ASSUME NEW u \in Task PROVE Held(u)'
            <3>1. Held(u)
                  BY AuthorityParts
            <3>2. /\ \/ task'[u].call = task[u].call /\ task'[u].token = task[u].token
                     \/ task'[u] = task[u]
                  /\ task'[u].phase \in {"confirmed", "reserved"} <=>
                        task[u].phase \in {"confirmed", "reserved"}
                  /\ task'[u].phase # task[u].phase => task'[u].phase = "reserved"
                  BY <1>0, <2>1
            <3>3. \A w \in Task : /\ task'[w].token = task[w].token
                                  /\ task'[w].phase \in {"confirmed", "reserved"} <=>
                                        task[w].phase \in {"confirmed", "reserved"}
                  BY <1>0, <2>1
            <3>4. Used(task[u].token, task[u].call) => Used(task[u].token, task[u].call)'
                  BY <1>0, <3>2 DEF Used
            <3> QED BY <1>0, <3>1, <3>2, <3>3, <3>4 DEF Held
      <2>5. /\ IsFiniteSet(audit)' /\ \A r \in audit' : r.call \notin Confirmed => r.token = None
            BY <1>0 DEF AuthorityInv
      <2> QED BY <2>2, <2>3, <2>4, <2>5, ZenonT(40) DEF AuthorityInv, Held
<1> QED BY <1>1, <1>2 DEF Reserve

\* The audit row takes over the reservation and the confirmation of its invocation.
LEMMA AuditAuthority ==
    ASSUME ToolTypeOK, ToolTypeOK', AuthorityInv, NEW t \in Task, AuditAllow(t)
    PROVE  AuthorityInv'
<1> DEFINE row == [task |-> t, call |-> task[t].call, token |-> task[t].token]
<1>0. /\ UNCHANGED <<effects, token, spent>> /\ task[t].phase = "reserved" /\ To(t, "allowed")
      /\ audit' = audit \cup {row}
      BY DEF AuditAllow
<1>1. row.task = t /\ row.call = task[t].call /\ row.token = task[t].token
      OBVIOUS
<1> HIDE DEF row
<1>2. /\ task'[t].phase = "allowed" /\ task'[t].call = task[t].call
      /\ \A u \in Task \ {t} : task'[u] = task[u]
      BY <1>0, ToMoves
<1>3. Held(t) /\ \A r \in audit : r.task # t
      BY <1>0, AuthorityParts DEF Held
<1>4. /\ IsFiniteSet(audit') /\ Cardinality(audit') = Cardinality(audit) + 1
      /\ Cardinality(audit) \in Nat
      <2>1. IsFiniteSet(audit) /\ row \notin audit
            BY <1>1, <1>3 DEF AuthorityInv
      <2> QED BY <1>0, <2>1, FS_AddElement, FS_CardinalityType
<1>5. Cardinality(Reserved') = Cardinality(Reserved) - 1
      <2>1. Reserved' = Reserved \ {t} /\ t \in Reserved
            BY <1>0, <1>2 DEF Reserved
      <2> QED BY <2>1, ReservedCounted, FS_RemoveElement
<1>6. /\ Cardinality(audit') + Cardinality(Reserved') <= spent'
      /\ Cardinality(audit') <= spent'
      <2>1. spent \in Nat /\ Cardinality(audit) + Cardinality(Reserved) <= spent
            BY ToolAssumption DEF ToolTypeOK, AuthorityInv
      <2> QED BY <1>0, <1>4, <1>5, <2>1, ReservedCounted
<1>7. \A r \in audit' : r.call \notin Confirmed => r.token = None
      BY <1>0, <1>1, <1>3 DEF AuthorityInv, Held
<1>8. EffectsAuthorised'
      <2>1. \A x \in effects' : \E r \in audit' : r.task = x.task /\ r.call = x.call
            BY <1>0, ZenonT(40) DEF AuthorityInv, EffectsAuthorised
      <2>2. ASSUME NEW r \in audit', r.call \in Confirmed
            PROVE  Used(r.token, r.call) /\ \A q \in audit' : q.token = r.token => q = r
            <3>1. CASE r = row
                  BY <1>0, <1>1, <1>3, <2>2, <3>1 DEF Held
            <3>2. CASE r \in audit
                  <4>1. /\ Used(r.token, r.call)
                        /\ \A q \in audit : q.token = r.token => q = r
                        BY <2>2, <3>2 DEF AuthorityInv, EffectsAuthorised
                  <4>2. row.token # r.token
                        BY <1>0, <1>1, <1>3, <3>2, <4>1, ToolAssumption DEF Held, Used
                  <4> QED BY <1>0, <4>1, <4>2
            <3> QED BY <1>0, <3>1, <3>2
      <2>3. \A r \in audit' : Used(r.token, r.call) => Used(r.token, r.call)'
            BY <1>0 DEF Used
      <2> QED BY <1>6, <2>1, <2>2, <2>3 DEF EffectsAuthorised
<1>9. Held(t)'
      BY <1>0, <1>1, <1>2 DEF Held
<1>10. ASSUME NEW u \in Task \ {t} PROVE Held(u)'
      <2>1. Held(u) /\ task'[u] = task[u]
            BY <1>2, AuthorityParts
      <2>2. ASSUME task[u].phase \in {"confirmed", "reserved"}, task[u].call \in Confirmed
            PROVE  /\ Used(task[u].token, task[u].call)'
                   /\ \A r \in audit' : r.token # task'[u].token
                   /\ \A w \in Task : task'[w].phase \in {"confirmed", "reserved"}
                                      /\ task'[w].token = task'[u].token => w = u
            <3>1. Used(task[u].token, task[u].call)'
                  BY <1>0, <2>1, <2>2 DEF Held, Used
            <3>2. task[t].token # task[u].token
                  BY <1>0, <2>1, <2>2 DEF Held
            <3>3. \A r \in audit' : r.token # task'[u].token
                  BY <1>0, <1>1, <2>1, <2>2, <3>2 DEF Held
            <3>4. \A w \in Task : task'[w].phase \in {"confirmed", "reserved"}
                                  /\ task'[w].token = task'[u].token => w = u
                  BY <1>2, <2>1, <2>2 DEF Held
            <3> QED BY <3>1, <3>3, <3>4
      <2>3. /\ task'[u].phase \in {"idle", "scanned", "confirmed", "reserved"} =>
                  \A r \in audit' : r.task # u
            /\ task'[u].phase \in {"allowed", "begun"} =>
                  \E r \in audit' : r.task = u /\ r.call = task'[u].call
            BY <1>0, <1>1, <2>1 DEF Held
      <2> QED BY <2>1, <2>2, <2>3 DEF Held
<1> QED BY <1>4, <1>6, <1>7, <1>8, <1>9, <1>10, ZenonT(40) DEF AuthorityInv, Held

\* The tool runs for an invocation that has its audit row.
LEMMA CallAuthority ==
    ASSUME ToolTypeOK, ToolTypeOK', AuthorityInv, NEW t \in Task, CallTool(t)
    PROVE  AuthorityInv'
<1>0. /\ UNCHANGED <<audit, token, spent>> /\ task[t].phase = "begun"
      /\ task \in [Task -> TaskState]
      BY DEF CallTool, ToolTypeOK
<1> DEFINE x == [task |-> t, call |-> task[t].call]
<1>1. effects' \subseteq effects \cup {x}
      BY ZenonT(40) DEF CallTool, Acts
<1>2. x.task = t /\ x.call = task[t].call
      OBVIOUS
<1> HIDE DEF x
<1>3. task'[t].phase \in {"called", "done"} /\ \A u \in Task \ {t} : task'[u] = task[u]
      <2>1. ASSUME NEW o, task' = [task EXCEPT ![t] = [@ EXCEPT !.phase = "called", !.outcome = o]]
            PROVE  task'[t].phase = "called" /\ \A u \in Task \ {t} : task'[u] = task[u]
            BY <1>0, <2>1 DEF TaskState
      <2>2. \/ \E o : Return(t, o)
            \/ \E o : task' = [task EXCEPT ![t] = [@ EXCEPT !.phase = "called", !.outcome = o]]
            BY ZenonT(40) DEF CallTool
      <2> QED BY <2>1, <2>2, ReturnMoves
<1>4. Reserved' = Reserved
      BY <1>0, <1>3 DEF Reserved
<1>5. EffectsAuthorised'
      <2>1. \E r \in audit : r.task = t /\ r.call = task[t].call
            BY <1>0 DEF AuthorityInv
      <2>2. \A y \in effects' : \E r \in audit' : r.task = y.task /\ r.call = y.call
            BY <1>0, <1>1, <1>2, <2>1 DEF AuthorityInv, EffectsAuthorised
      <2> QED BY <1>0, <2>2 DEF AuthorityInv, EffectsAuthorised, Used
<1>6. ASSUME NEW u \in Task PROVE Held(u)'
      <2>1. Held(u)
            BY AuthorityParts
      <2>2. CASE u = t
            BY <1>3, <2>2 DEF Held
      <2>3. CASE u # t
            <3>1. task'[u] = task[u]
                  BY <1>3, <2>3
            <3>2. \A w \in Task : task'[w].phase \in {"confirmed", "reserved"} => task'[w] = task[w]
                  BY <1>3
            <3> QED BY <1>0, <2>1, <3>1, <3>2 DEF Held, Used
      <2> QED BY <2>2, <2>3
<1>7. /\ IsFiniteSet(audit)' /\ \A r \in audit' : r.call \notin Confirmed => r.token = None
      /\ Cardinality(audit)' + Cardinality(Reserved') <= spent'
      BY <1>0, <1>4 DEF AuthorityInv
<1> QED BY <1>5, <1>6, <1>7, ZenonT(40) DEF AuthorityInv, Held

\* Every step keeps AuthorityInv.
LEMMA AuthorityStep ==
    ASSUME ToolTypeOK, ToolTypeOK', AuthorityInv, [Next]_vars PROVE AuthorityInv'
BY AuthorityQuiet, ConsumeAuthority, ReserveAuthority, AuditAuthority, CallAuthority, ZenonT(60)
   DEF Next

\* Every side effect of a tool was allowed, audited, paid for and, where the tool
\* asks for it, confirmed with a token of its own.
THEOREM Authorised == Spec => []EffectsAuthorised
<1>1. Init => AuthorityInv
      <2> SUFFICES ASSUME Init PROVE AuthorityInv
          OBVIOUS
      <2>1. audit = {} /\ effects = {} /\ spent = 0 /\ \A t \in Task : task[t].phase = "idle"
            BY IdleTaskTyped DEF Init
      <2>2. Reserved = {}
            BY <2>1 DEF Reserved
      <2> QED BY <2>1, <2>2, FS_EmptySet DEF AuthorityInv, EffectsAuthorised
<1>2. ToolTypeOK /\ ToolTypeOK' /\ AuthorityInv /\ [Next]_vars => AuthorityInv'
      BY AuthorityStep
<1>3. AuthorityInv => EffectsAuthorised
      BY DEF AuthorityInv
<1> QED BY <1>1, <1>2, <1>3, ToolTypeCorrect, PTL DEF Spec

-----------------------------------------------------------------------------
(* Fenced writes *)

\* Only the current fence writes the ledger, and a recorded success is final.
THEOREM FencedLedger == Spec => LedgerFenced
<1>1. ASSUME ToolTypeOK, [Next]_vars
      PROVE  [\A c \in Call : ledger'[c] # ledger[c] =>
                /\ lease.live /\ ledger'[c].epoch = lease.epoch
                /\ ledger[c].status # "succeeded"]_vars
      <2>1. CASE ledger' = ledger
            BY <2>1
      <2>2. ASSUME NEW t \in Task, Begin(t), NEW c \in Call, ledger'[c] # ledger[c]
            PROVE  /\ lease.live /\ ledger'[c].epoch = lease.epoch
                   /\ ledger[c].status # "succeeded"
            <3>1. task[t].call \in Call /\ task[t].epoch \in Epoch /\ ledger \in [Call -> Row]
                  BY <1>1 DEF ToolTypeOK, TaskState
            <3>2. /\ BeginAnswer(task[t].call, task[t].epoch) = "fresh" /\ c = task[t].call
                  /\ ledger'[c].epoch = task[t].epoch
                  BY <2>2, <3>1 DEF Begin
            <3>3. lease.live /\ lease.epoch = task[t].epoch /\ ledger[c].status # "succeeded"
                  BY <1>1, <3>1, <3>2, BeginAnswers
            <3> QED BY <3>2, <3>3
      <2>3. ASSUME NEW t \in Task, Finish(t), NEW c \in Call, ledger'[c] # ledger[c]
            PROVE  /\ lease.live /\ ledger'[c].epoch = lease.epoch
                   /\ ledger[c].status # "succeeded"
            <3>1. task[t].call \in Call /\ ledger \in [Call -> Row]
                  BY <1>1 DEF ToolTypeOK, TaskState
            <3>2. c = task[t].call /\ Finishable(c, task[t].epoch)
                  /\ ledger'[c].epoch = ledger[c].epoch
                  BY <2>3, <3>1 DEF Finish, Row
            <3> QED BY <3>2 DEF Finishable, Active
      <2> QED BY <1>1, <2>1, <2>2, <2>3, ZenonT(40)
          DEF Next, vars, IssueToken, ExpireToken, Evaluate, ConsumeToken, Reserve, AuditAllow,
              CallTool, LeaseEnds, TakeOver, WorkerDies
<1> QED BY <1>1, ToolTypeCorrect, PTL DEF Spec, LedgerFenced
=============================================================================
