------------------------------ MODULE Migration ------------------------------
(***************************************************************************)
(* Migration of one tenant from Redis to PostgreSQL: the coordinator, its  *)
(* checkpoints, the tenant lease with the write barrier of the target, and *)
(* the control hooks that move the configuration pointer                   *)
(* (src/trpc_service/storage/migration.py,                                 *)
(* src/trpc_service/storage/production_migration_control.py), as they are  *)
(* driven by scripts/migrate_data.py (one phase, or the whole production   *)
(* run) and by scripts/migration_full_acceptance.py (two branches).        *)
(*                                                                         *)
(* A process is one execution of one of those scripts.  A database         *)
(* transaction is one step: the fence of a transaction locks the lease row,*)
(* so a takeover waits for the transaction that passed it.  The record     *)
(* that a page holds, the copy of the target and the checkpoint in memory  *)
(* are kept by the process between its steps.  An acquisition draws a      *)
(* fresh instance nonce, so ownership is the identity of the running       *)
(* process.  Pages hold one record.  A source record is its value; the     *)
(* rolling checksum is the sequence of the values it was taken over.       *)
(***************************************************************************)
EXTENDS Naturals, Sequences

CONSTANTS
    Proc,          \* executions of a script that can overlap
    N,             \* records of the source
    Asked,         \* the phases an operator runs by themselves
    Modes,         \* the ways the scripts are run: "single", "production", "acceptance"
    MaxEvents,     \* bound: changes of source records away from what they were (a change
                   \* back is free), normal transactions, leases that expire under a running
                   \* process, and killed processes
    Nothing        \* a row or a value that is absent

BeforeCleanup == <<"prepare", "backfill", "shadow-read", "dual-write", "cutover", "verify">>
Order == <<"prepare", "backfill", "shadow-read", "dual-write", "cutover", "verify", "cleanup">>
Phase == {Order[i] : i \in 1..Len(Order)} \cup {"rollback"}

\* The rows: a manifest, a checkpoint, and the control state.
Snapshot == [1..N -> 1..2] \cup {<<>>}
ManifestRow == [snap : Snapshot, rev : Nat]
CheckpointRow == [phase : Phase, seen : Seq(0..2), done : BOOLEAN]
ControlRow == [dual : BOOLEAN, profile : {"source", "target"}, cleaned : BOOLEAN, rolled : BOOLEAN,
               mailbox : {"ready", "dual-write", "target", "source"}, atomic : BOOLEAN, ver : Nat]

ASSUME MigrationAssumption ==
    /\ N \in Nat \ {0}
    /\ Asked \subseteq Phase
    /\ Modes \subseteq {"single", "production", "acceptance"} /\ Modes # {}
    /\ MaxEvents \in Nat
    /\ Nothing \notin ManifestRow \cup CheckpointRow \cup ControlRow

VARIABLES
    src,       \* the records of the Redis source
    tgt,       \* the records of the PostgreSQL target, 0 when absent
    foreign,   \* what normal traffic left in the target: sessions, audit rows
    pending,   \* normal transactions that passed the barrier trigger, uncommitted
    man,       \* migration_scope_manifests, by migration
    lease,     \* migration_leases, by migration
    barrier,   \* migration_write_barriers of the tenant
    ckpt,      \* the newest row of migration_checkpoints, by migration
    ctl,       \* the durable control state, by migration
    app,       \* agent_apps and tenants: pointer, staged candidate, control version
    proc,      \* the processes
    used       \* how many of the bounded events happened

vars == <<src, tgt, foreign, pending, man, lease, barrier, ckpt, ctl, app, proc, used>>

Traffic == {"session", "audit"}
Branches == {"rollback", "cleanup"}
Mig == (IF "acceptance" \in Modes THEN Branches ELSE {})
       \cup (IF Modes \subseteq {"acceptance"} THEN {} ELSE {"main"})

NoLease == [owner |-> Nothing, live |-> FALSE]
Ended == [pc |-> "ended", mode |-> "single", mig |-> CHOOSE m \in Mig : TRUE, todo |-> <<>>,
          probe |-> FALSE, snap |-> <<>>, rev |-> 1, ck |-> Nothing, page |-> 0,
          copy |-> <<>>, differs |-> FALSE, passed |-> {}, result |-> "not_run"]

Init ==
    /\ src = [i \in 1..N |-> 1]
    /\ tgt = [i \in 1..N |-> 0]
    /\ foreign = {} /\ pending = {}
    /\ man = [m \in Mig |-> Nothing]
    /\ lease = [m \in Mig |-> NoLease]
    /\ barrier = [mig |-> Nothing, owner |-> Nothing, mode |-> "absent"]
    /\ ckpt = [m \in Mig |-> Nothing]
    /\ ctl = [m \in Mig |-> Nothing]
    /\ app = [active |-> "source", candidate |-> TRUE, ver |-> 1]
    /\ proc = [p \in Proc |-> Ended]
    /\ used = 0

data == <<src, tgt, foreign, pending>>
guard == <<man, lease, barrier>>
control == <<ctl, app>>

Set(p, r) == proc' = [proc EXCEPT ![p] = r]
Ends(result) == [Ended EXCEPT !.result = result]
Goto(p, pc) == [proc[p] EXCEPT !.pc = pc]

\* The predicate of every fenced statement: the lease row is the caller's and
\* alive, and the barrier is active under the same owner.
Fenced(p) ==
    /\ lease[proc[p].mig] = [owner |-> p, live |-> TRUE]
    /\ barrier = [mig |-> proc[p].mig, owner |-> p, mode |-> "active"]

\* The except clause of both scripts: a failed report, the barrier kept.
Fail(p) ==
    /\ Set(p, Ends("fail"))
    /\ UNCHANGED <<data, guard, control, ckpt, used>>

-----------------------------------------------------------------------------
(* Starting a script, and the lease *)

\* A production run that ends with the cleanup.
TodoWithoutRollback(mode, mig, ph) ==
    CASE mode = "single" -> <<ph>>
      [] mode = "production" -> Order
      [] mode = "acceptance" /\ mig = "cleanup" -> Order
      [] OTHER -> Append(BeforeCleanup, "rollback")

\* The phases of one run and, for the acceptance, of one branch.
Todo(mode, mig, ph) ==
    CASE mode = "single" -> <<ph>>
      [] mode = "production" -> Append(Order, "rollback")
      [] mode = "acceptance" /\ mig = "cleanup" -> Order
      [] OTHER -> Append(BeforeCleanup, "rollback")

Start(p, mode, ph) ==
    /\ proc[p].pc = "ended"
    /\ LET mig == IF mode = "acceptance" THEN "rollback" ELSE "main"
       IN  Set(p, [Ended EXCEPT !.pc = "acquire", !.mode = mode, !.mig = mig,
                                !.todo = Todo(mode, mig, ph), !.snap = src,
                                !.probe = (mode = "acceptance")])
    /\ UNCHANGED <<data, guard, control, ckpt, used>>

\* The occupancy of the guarded tables, the migration's own tables included.
TargetEmpty ==
    /\ foreign = {}
    /\ \A i \in 1..N : tgt[i] = 0
    /\ \A m \in Mig : /\ man[m] = Nothing
                      /\ lease[m] = NoLease
                      /\ ckpt[m] = Nothing
                      /\ ctl[m] = Nothing

\* prepare, the production run and the first branch of the acceptance.
IsNew(r) == r.mig # "cleanup" /\ Head(r.todo) = "prepare"

Manifest(r) == [snap |-> r.snap, rev |-> r.rev]

CanAcquire(p) ==
    LET r == proc[p]
    IN  /\ IsNew(r) => TargetEmpty
        /\ man[r.mig] \in {Nothing, Manifest(r)}
        /\ \A m \in Mig : ~lease[m].live
        /\ IsNew(r) \/ barrier.mode # "absent"

Acquire(p) ==
    LET r == proc[p]
    IN  /\ r.pc = "acquire"
        /\ IF CanAcquire(p)
           THEN /\ man' = [man EXCEPT ![r.mig] = Manifest(r)]
                /\ lease' = [lease EXCEPT ![r.mig] = [owner |-> p, live |-> TRUE]]
                /\ barrier' = [mig |-> r.mig, owner |-> p, mode |-> "active"]
                /\ Set(p, Goto(p, "begin"))
                /\ UNCHANGED <<data, control, ckpt, used>>
           ELSE Fail(p)

\* The heartbeat keeps the lease of a running process alive unless it stalls;
\* the lease of a process that ended runs out.
Expire(m) ==
    LET p == lease[m].owner
        running == p \in Proc /\ proc[p].pc # "ended" /\ proc[p].mig = m
    IN  /\ lease[m].live
        /\ running => used < MaxEvents
        /\ lease' = [lease EXCEPT ![m].live = FALSE]
        /\ used' = IF running THEN used + 1 ELSE used
        /\ UNCHANGED <<data, man, barrier, control, ckpt, proc>>

\* A release that ends the lease and leaves the barrier to the next phase.
ReleaseLease(p) ==
    LET r == proc[p]
    IN  /\ r.pc = "release"
        /\ IF Fenced(p)
           THEN /\ lease' = [lease EXCEPT ![r.mig].live = FALSE]
                /\ Set(p, IF r.mode = "acceptance" /\ r.mig = "rollback"
                          THEN Goto(p, "restage")
                          ELSE Ends("pass"))
                /\ UNCHANGED <<data, man, barrier, control, ckpt, used>>
           ELSE Fail(p)

\* guard.release: barrier and lease in one transaction.
Release(p) ==
    LET r == proc[p]
    IN  /\ r.pc = "release"
        /\ IF Fenced(p)
           THEN /\ barrier' = [barrier EXCEPT !.mode = "released"]
                /\ lease' = [lease EXCEPT ![r.mig].live = FALSE]
                /\ Set(p, IF r.mode = "acceptance" /\ r.mig = "rollback"
                          THEN Goto(p, "restage")
                          ELSE Ends("pass"))
                /\ UNCHANGED <<data, man, control, ckpt, used>>
           ELSE Fail(p)

\* The second branch of the acceptance: the candidate is staged again, without
\* a new control version, and a second migration starts on the same target.
Restage(p) ==
    LET r == proc[p]
    IN  /\ r.pc = "restage"
        /\ IF app.active = "source" /\ ~app.candidate
           THEN /\ app' = [app EXCEPT !.candidate = TRUE]
                /\ Set(p, [r EXCEPT !.pc = "acquire", !.mig = "cleanup", !.rev = app.ver,
                                    !.todo = Todo("acceptance", "cleanup", Nothing),
                                    !.ck = Nothing, !.passed = {}])
                /\ UNCHANGED <<data, guard, ctl, ckpt, used>>
           ELSE Fail(p)

-----------------------------------------------------------------------------
(* One phase of the coordinator *)

\* _validate_transition on the newest checkpoint.
MayRun(ck, ph) ==
    \/ ph = "rollback"
    \/ ck = Nothing /\ ph = "prepare"
    \/ ck # Nothing /\ ck.phase = ph /\ ~ck.done
    \/ /\ ck # Nothing /\ ck.done
       /\ \E i \in 1..Len(Order) - 1 : Order[i] = ck.phase /\ Order[i + 1] = ph

\* A phase that was interrupted goes on from its checkpoint.
Resumed(ck, ph) ==
    IF ck = Nothing THEN [phase |-> ph, seen |-> <<>>, done |-> FALSE]
    ELSE IF ck.phase = ph /\ ~ck.done THEN ck
    ELSE [ck EXCEPT !.phase = ph, !.done = FALSE]

\* Where the work of a phase begins.
Entry(ph) ==
    CASE ph = "prepare" -> "prepare"
      [] ph = "backfill" -> "fetch"
      [] ph \in {"shadow-read", "verify"} -> "enumerate"
      [] OTHER -> "control"

SourceUnchanged(p) == src = man[proc[p].mig].snap

\* The lease is asserted, the source compared with the manifest, and the
\* checkpoint loaded and judged.
Begin(p) ==
    LET r == proc[p]
        ph == Head(r.todo)
    IN  /\ r.pc = "begin"
        /\ IF Fenced(p) /\ SourceUnchanged(p) /\ MayRun(ckpt[r.mig], ph)
           THEN /\ Set(p, [r EXCEPT !.pc = Entry(ph), !.ck = Resumed(ckpt[r.mig], ph)])
                /\ UNCHANGED <<data, guard, control, ckpt, used>>
           ELSE Fail(p)

\* target.prepare: the application must still be at the manifest's revision.
Prepare(p) ==
    /\ proc[p].pc = "prepare"
    /\ IF Fenced(p) /\ app.ver = proc[p].rev
       THEN /\ Set(p, [Goto(p, "renew") EXCEPT !.ck.done = TRUE])
            /\ UNCHANGED <<data, guard, control, ckpt, used>>
       ELSE Fail(p)

\* _copy_all: one record per page, read here and written one step later.
Fetch(p) ==
    LET r == proc[p]
    IN  /\ r.pc = "fetch"
        /\ Set(p, [r EXCEPT !.pc = "upsert", !.page = src[Len(r.ck.seen) + 1]])
        /\ UNCHANGED <<data, guard, control, ckpt, used>>

\* The count and the checksum of a completed pass are those of the manifest.
TotalsMatch(m, seen) == seen = man[m].snap

\* An upsert that trusts the lease asserted when the phase began.
UpsertUnfenced(p) ==
    LET r == proc[p]
        at == Len(r.ck.seen) + 1
        seen == Append(r.ck.seen, r.page)
    IN  /\ r.pc = "upsert"
        /\ tgt' = [tgt EXCEPT ![at] = r.page]
        /\ Set(p, IF at = N /\ ~TotalsMatch(r.mig, seen)
                  THEN Ends("fail")
                  ELSE [r EXCEPT !.pc = "renew", !.page = 0, !.ck.seen = seen, !.ck.done = (at = N)])
        /\ UNCHANGED <<src, foreign, pending, guard, control, ckpt, used>>

\* The fenced upsert.  The resume probe of the acceptance raises once, before
\* the record after the first page is written.
Upsert(p) ==
    LET r == proc[p]
        at == Len(r.ck.seen) + 1
        seen == Append(r.ck.seen, r.page)
    IN  /\ r.pc = "upsert"
        /\ \/ /\ r.probe /\ at > 1
              /\ Set(p, [r EXCEPT !.pc = "begin", !.probe = FALSE])
              /\ UNCHANGED <<data, guard, control, ckpt, used>>
           \/ /\ ~(r.probe /\ at > 1)
              /\ Fenced(p)
              /\ tgt' = [tgt EXCEPT ![at] = r.page]
              /\ Set(p, IF at = N /\ ~TotalsMatch(r.mig, seen)
                        THEN Ends("fail")
                        ELSE [r EXCEPT !.pc = "renew", !.page = 0, !.ck.seen = seen, !.ck.done = (at = N)])
              /\ UNCHANGED <<src, foreign, pending, guard, control, ckpt, used>>
           \/ /\ ~(r.probe /\ at > 1)
              /\ ~Fenced(p)
              /\ Fail(p)

\* _compare_all: the target is listed under the fence, the source is read after.
Enumerate(p) ==
    /\ proc[p].pc = "enumerate"
    /\ IF Fenced(p)
       THEN /\ Set(p, [Goto(p, "compare") EXCEPT !.copy = tgt, !.differs = ("session" \in foreign)])
            /\ UNCHANGED <<data, guard, control, ckpt, used>>
       ELSE Fail(p)

\* The source is read page by page under the asserted lease and held against
\* the list; a record of the target that the source does not have differs too.
Compare(p) ==
    LET r == proc[p]
        differs == r.differs \/ r.copy # src
    IN  /\ r.pc = "compare"
        /\ IF Fenced(p) /\ (differs \/ TotalsMatch(r.mig, src))
           THEN /\ Set(p, [r EXCEPT !.pc = "renew", !.copy = <<>>, !.differs = differs,
                                    !.ck.seen = src, !.ck.done = ~differs])
                /\ UNCHANGED <<data, guard, control, ckpt, used>>
           ELSE Fail(p)

\* _save_checkpoint renews the lease in one transaction and saves in another,
\* which carries no fence.  (The coordinator repeats the save of a completed
\* pass; the second one writes the same row.)
Renew(p) ==
    /\ proc[p].pc = "renew"
    /\ IF Fenced(p)
       THEN /\ Set(p, Goto(p, "save"))
            /\ UNCHANGED <<data, guard, control, ckpt, used>>
       ELSE Fail(p)

Save(p) ==
    LET r == proc[p]
        ph == r.ck.phase
        compared == ph \in {"shadow-read", "verify"} /\ r.differs
    IN  /\ r.pc = "save"
        /\ ckpt' = [ckpt EXCEPT ![r.mig] = r.ck]
        /\ Set(p, IF ph = "verify" /\ compared
                  THEN Ends("fail")
                  ELSE IF ph = "backfill" /\ ~r.ck.done THEN Goto(p, "fetch")
                  ELSE Goto(p, "check"))
        /\ UNCHANGED <<data, guard, control, used>>

-----------------------------------------------------------------------------
(* The control hooks *)

\* _initial_state, for a migration whose candidate is staged and still unused.
CanInitialise(m) ==
    app.active = "source" /\ app.candidate /\ app.ver = man[m].rev

InitialCtl == [dual |-> FALSE, profile |-> "source", cleaned |-> FALSE, rolled |-> FALSE,
               mailbox |-> "ready", atomic |-> FALSE, ver |-> app.ver]

\* _load_scope and _load_state: the stored state, or the first one.
Loadable(m) == ctl[m] # Nothing \/ CanInitialise(m)
Loaded(m) == IF ctl[m] = Nothing THEN InitialCtl ELSE ctl[m]

\* _assert_runtime_state: the pointers are where this migration left them.
RuntimeState(c) ==
    /\ app.ver = c.ver
    /\ app.active = c.profile
    /\ app.candidate = (c.profile = "source" /\ ~c.rolled)

DualAllowed(c, on) ==
    on => ~c.rolled /\ ~c.cleaned /\ (c.dual \/ c.profile = "source")

\* _set_dual_write
DualSet(c, on) ==
    IF c.dual = on THEN c
    ELSE [c EXCEPT !.dual = on,
                   !.mailbox = IF on THEN "dual-write"
                               ELSE IF c.profile = "target" THEN "target"
                               ELSE IF c.rolled THEN "source" ELSE "ready"]

CutDone(c) == c.profile = "target" /\ c.atomic

\* What a control operation demands of the state, and what it makes of it.
Allowed(c, ph) ==
    CASE ph = "dual-write" -> DualAllowed(c, TRUE)
      [] ph = "cutover" -> CutDone(c) \/ (~c.rolled /\ ~c.cleaned /\ c.dual /\ c.profile = "source")
      [] ph = "cleanup" -> c.cleaned \/ (~c.rolled /\ CutDone(c))
      [] ph = "rollback" -> TRUE

Changed(c, ph) ==
    CASE ph = "dual-write" -> DualSet(c, TRUE)
      [] ph = "cutover" -> [c EXCEPT !.profile = "target", !.mailbox = "target", !.atomic = TRUE]
      [] ph = "cleanup" -> [c EXCEPT !.dual = FALSE, !.cleaned = TRUE, !.mailbox = "target"]
      [] ph = "rollback" -> IF c.rolled THEN c
                            ELSE [c EXCEPT !.dual = FALSE, !.profile = "source",
                                           !.cleaned = FALSE, !.rolled = TRUE,
                                           !.mailbox = "source"]

\* A rollback that changes the state and leaves the pointer.
SwitchesOnCutover(c, ph) == ph = "cutover" /\ ~CutDone(c)

\* _switch_profile runs for a cutover and for a rollback that change the state;
\* the rollback clears a candidate that was only staged.
Switches(c, ph) ==
    \/ ph = "cutover" /\ ~CutDone(c)
    \/ ph = "rollback" /\ ~c.rolled

\* _transition: one fenced transaction moves the pointer and the state.  A run
\* of a single phase has no control hooks.
Control(p) ==
    LET r == proc[p]
        ph == r.ck.phase
        c == Loaded(r.mig)
        after == Changed(c, ph)
    IN  /\ r.pc = "control"
        /\ IF /\ r.mode # "single"
              /\ Fenced(p) /\ Loadable(r.mig) /\ RuntimeState(c) /\ Allowed(c, ph)
           THEN /\ IF Switches(c, ph)
                   THEN /\ app' = [active |-> after.profile, candidate |-> FALSE,
                                   ver |-> app.ver + 1]
                        /\ ctl' = [ctl EXCEPT ![r.mig] = [after EXCEPT !.ver = app.ver + 1]]
                   ELSE ctl' = [ctl EXCEPT ![r.mig] = after] /\ UNCHANGED app
                /\ Set(p, IF ph \in {"cleanup", "rollback"} THEN Goto(p, "undual")
                          ELSE [Goto(p, "renew") EXCEPT !.ck.done = TRUE])
                /\ UNCHANGED <<data, guard, ckpt, used>>
           ELSE Fail(p)

\* After a cleanup or a rollback: set_dual_write(False), a transaction of its own.
StopDual(p) ==
    LET r == proc[p]
        c == ctl[r.mig]
    IN  /\ r.pc = "undual"
        /\ IF Fenced(p) /\ RuntimeState(c)
           THEN /\ ctl' = [ctl EXCEPT ![r.mig] = DualSet(c, FALSE)]
                /\ Set(p, [Goto(p, "renew") EXCEPT !.ck.done = TRUE])
                /\ UNCHANGED <<data, guard, app, ckpt, used>>
           ELSE Fail(p)

\* What the scripts expect to read back after a phase.
Expected(ph) ==
    CASE ph \in {"prepare", "backfill", "shadow-read"} ->
             [dual |-> FALSE, profile |-> "source", cleaned |-> FALSE, rolled |-> FALSE, mailbox |-> "ready"]
      [] ph = "dual-write" ->
             [dual |-> TRUE, profile |-> "source", cleaned |-> FALSE, rolled |-> FALSE, mailbox |-> "dual-write"]
      [] ph \in {"cutover", "verify"} ->
             [dual |-> TRUE, profile |-> "target", cleaned |-> FALSE, rolled |-> FALSE, mailbox |-> "target"]
      [] ph = "cleanup" ->
             [dual |-> FALSE, profile |-> "target", cleaned |-> TRUE, rolled |-> FALSE, mailbox |-> "target"]
      [] ph = "rollback" ->
             [dual |-> FALSE, profile |-> "source", cleaned |-> FALSE, rolled |-> TRUE, mailbox |-> "source"]

Meets(c, e) == \A f \in DOMAIN e : c[f] = e[f]

\* The end of a phase: the source is compared again, the target is listed under
\* the fence, and the scripts with control hooks read the state back, which
\* creates it the first time.  A single phase that is not terminal ends here.
Check(p) ==
    LET r == proc[p]
        ph == r.ck.phase
        c == Loaded(r.mig)
        controlled == r.mode # "single"
        listed == r.mode # "acceptance" \/ ph \in {"shadow-read", "verify"}
        rest == Tail(r.todo)
    IN  /\ r.pc = "check"
        /\ IF /\ SourceUnchanged(p) /\ (listed => Fenced(p))
              /\ controlled => /\ ~(ph = "shadow-read" /\ r.differs)
                               /\ Loadable(r.mig) /\ RuntimeState(c) /\ Meets(c, Expected(ph))
           THEN /\ ctl' = IF controlled THEN [ctl EXCEPT ![r.mig] = c] ELSE ctl
                /\ Set(p, IF rest # <<>>
                          THEN [r EXCEPT !.pc = "begin", !.todo = rest, !.passed = @ \cup {ph}]
                          ELSE IF controlled
                          THEN [r EXCEPT !.pc = "release", !.passed = @ \cup {ph}]
                          ELSE Ends(IF ph = "shadow-read" /\ r.differs THEN "fail" ELSE "pass"))
                /\ UNCHANGED <<data, guard, app, ckpt, used>>
           ELSE Fail(p)

-----------------------------------------------------------------------------
(* Everybody else *)

\* The source is written by the runtime that still uses it.
SourceWrite(i) ==
    /\ src[i] = 1 => used < MaxEvents
    /\ src' = [src EXCEPT ![i] = 3 - @]
    /\ used' = IF src[i] = 1 THEN used + 1 ELSE used
    /\ UNCHANGED <<tgt, foreign, pending, guard, control, ckpt, proc>>

\* The trigger of a guarded table refuses a statement while the barrier is
\* active; a transaction commits some time after its statements.  Messages
\* write sessions; a change through the control plane writes its audit row.
Statement(k) ==
    /\ barrier.mode # "active"
    /\ k \notin foreign \cup pending
    /\ used < MaxEvents
    /\ pending' = pending \cup {k}
    /\ used' = used + 1
    /\ UNCHANGED <<src, tgt, foreign, guard, control, ckpt, proc>>

Commit(k) ==
    /\ k \in pending
    /\ pending' = pending \ {k}
    /\ foreign' = foreign \cup {k}
    /\ app' = IF k = "audit" THEN [app EXCEPT !.ver = @ + 1] ELSE app
    /\ UNCHANGED <<src, tgt, guard, ctl, ckpt, proc, used>>

Crash(p) ==
    /\ proc[p].pc # "ended"
    /\ used < MaxEvents
    /\ Set(p, Ended)
    /\ used' = used + 1
    /\ UNCHANGED <<data, guard, control, ckpt>>

Command == [mode : Modes \ {"single"}, phase : {"prepare"}]
           \cup [mode : Modes \cap {"single"}, phase : Asked]

Step(p) ==
    \/ Acquire(p) \/ Begin(p) \/ Prepare(p) \/ Fetch(p) \/ Upsert(p)
    \/ Enumerate(p) \/ Compare(p) \/ Renew(p) \/ Save(p)
    \/ Control(p) \/ StopDual(p) \/ Check(p) \/ Release(p) \/ Restage(p)

Next ==
    \/ \E p \in Proc : Step(p) \/ Crash(p)
    \/ \E p \in Proc, c \in Command : Start(p, c.mode, c.phase)
    \/ \E m \in Mig : Expire(m)
    \/ \E i \in 1..N : SourceWrite(i)
    \/ \E k \in Traffic : Statement(k) \/ Commit(k)

Spec == Init /\ [][Next]_vars

-----------------------------------------------------------------------------
(* Properties *)

Compared(p) ==
    /\ ~proc[p].differs
    /\ \/ "shadow-read" \in proc[p].passed
       \/ proc[p].pc \in {"save", "check"} /\ proc[p].ck.phase = "shadow-read"

\* What a run compared stays true while it holds the fence: once the shadow
\* read found no difference, the target is the snapshot of the manifest,
\* whatever an earlier owner with a lost lease still writes or saves.
ComparedHolds ==
    \A p \in Proc : Compared(p) /\ Fenced(p) => tgt = man[proc[p].mig].snap

AtTarget(m) == ctl[m] # Nothing /\ ctl[m].profile = "target"

\* The pointer of the application and the control states move together: it
\* points to the target exactly when one migration says so.
PointerTracked == app.active = "target" <=> \E m \in Mig : AtTarget(m)

\* While a production run has the application at the target, its barrier is up:
\* no transaction of normal traffic passes the trigger (one that passed it
\* earlier may still commit) until the run has rolled back.
BarrierCoversTarget ==
    "main" \in Mig /\ AtTarget("main") => barrier.mode = "active"

\* The migrations of one run.
MigsOf(p) == IF proc[p].mode = "acceptance" THEN Branches ELSE {"main"}

Passes(p) == proc'[p].result = "pass" /\ proc[p].result # "pass" /\ proc[p].mode # "single"

\* A report that passes describes a finished migration: the snapshot is in the
\* target, every control state is terminal, no lease is alive and the barrier
\* is released.
PassIsComplete ==
    [][\A p \in Proc : Passes(p) =>
          /\ tgt = man[proc[p].mig].snap
          /\ \A m \in MigsOf(p) : ~lease'[m].live /\ ctl[m] # Nothing
                            /\ (ctl[m].rolled \/ ctl[m].cleaned) /\ ~ctl[m].dual
          /\ barrier'.mode = "released"]_vars

-----------------------------------------------------------------------------
(* Why they hold *)

Pc == {"ended", "acquire", "begin", "prepare", "fetch", "upsert", "enumerate", "compare",
       "renew", "save", "control", "undual", "check", "release", "restage"}

ProcState ==
    [pc : Pc, mode : {"single", "production", "acceptance"}, mig : Mig, todo : Seq(Phase),
     probe : BOOLEAN, snap : Snapshot, rev : Nat, ck : CheckpointRow \cup {Nothing},
     page : 0..2, copy : [1..N -> 0..2] \cup {<<>>}, differs : BOOLEAN,
     passed : SUBSET Phase, result : {"not_run", "pass", "fail"}]

MigrationTypeOK ==
    /\ src \in [1..N -> 1..2] /\ tgt \in [1..N -> 0..2]
    /\ foreign \subseteq Traffic /\ pending \subseteq Traffic
    /\ man \in [Mig -> ManifestRow \cup {Nothing}]
    /\ lease \in [Mig -> [owner : Proc \cup {Nothing}, live : BOOLEAN]]
    /\ barrier \in [mig : Mig \cup {Nothing}, owner : Proc \cup {Nothing},
                    mode : {"absent", "active", "released"}]
    /\ ckpt \in [Mig -> CheckpointRow \cup {Nothing}]
    /\ ctl \in [Mig -> ControlRow \cup {Nothing}]
    /\ app \in [active : {"source", "target"}, candidate : BOOLEAN, ver : Nat]
    /\ proc \in [Proc -> ProcState]
    /\ used \in Nat

\* A checkpoint never claims a record that the source does not have.
Sound(ck) ==
    /\ ck.phase = "prepare" => ck.seen = <<>>
    /\ ck.phase = "backfill" /\ ~ck.done => Len(ck.seen) < N

\* What is left of the phases of a run: it compares, never copies afterwards,
\* and ends with its terminal phase.
Planned(todo, passed, last) ==
    /\ todo[Len(todo)] = last
    /\ "shadow-read" \in passed \/ \E i \in 1..Len(todo) : todo[i] = "shadow-read"
    /\ \A i, j \in 1..Len(todo) : i < j /\ todo[i] = "shadow-read" => todo[j] # "backfill"
    /\ "shadow-read" \in passed => \A i \in 1..Len(todo) : todo[i] # "backfill"

Terminal(mig) == IF mig = "cleanup" THEN "cleanup" ELSE "rollback"

\* The phases in which a process can be at a place of the code.
PhasesAt(pc) ==
    CASE pc = "prepare" -> {"prepare"}
      [] pc \in {"fetch", "upsert"} -> {"backfill"}
      [] pc \in {"enumerate", "compare"} -> {"shadow-read", "verify"}
      [] pc = "control" -> {"dual-write", "cutover", "cleanup", "rollback"}
      [] pc = "undual" -> {"cleanup", "rollback"}
      [] OTHER -> Phase

\* What the state of one process says of itself.
Coherent(r) ==
    /\ r.ck # Nothing => Sound(r.ck)
    /\ r.pc # "ended" =>
          /\ r.mode \in Modes /\ r.todo # <<>>
          /\ r.mig \in (IF r.mode = "acceptance" THEN Branches ELSE {"main"})
          /\ r.mode = "single" => /\ Len(r.todo) = 1 /\ r.passed = {}
                                  /\ r.pc \notin {"release", "restage"}
          /\ r.mode # "single" => Planned(r.todo, r.passed, Terminal(r.mig))
    /\ r.pc = "acquire" => /\ r.passed = {}
                           /\ r.mode # "single" => Head(r.todo) = "prepare"
    /\ r.pc \notin {"ended", "acquire", "begin", "release", "restage"} =>
          r.ck # Nothing /\ r.ck.phase = Head(r.todo) /\ r.ck.phase \in PhasesAt(r.pc)
    /\ r.pc \in {"fetch", "upsert"} => ~r.ck.done
    /\ r.pc = "release" => Len(r.todo) = 1 /\ Head(r.todo) \in r.passed
    /\ r.pc = "restage" => r.mode = "acceptance" /\ r.mig = "rollback"

ProcInv == (\A p \in Proc : Coherent(proc[p])) /\ (\A m \in Mig : ckpt[m] # Nothing => Sound(ckpt[m]))

\* A terminal control state writes nowhere else, and one that was rolled back
\* is at the source.
Settled(c) ==
    /\ c.rolled => ~c.dual /\ ~c.cleaned /\ c.profile = "source"
    /\ c.cleaned => ~c.dual

Rolled(m) == ctl[m] # Nothing /\ ctl[m].rolled

\* A run that is about to release its lease has brought its control state to an
\* end, and the second branch of an acceptance follows the end of the first.
EndsWell(p) ==
    LET r == proc[p]
    IN  /\ r.pc = "undual" => ctl[r.mig] # Nothing
        /\ r.pc = "release" /\ r.mig # "cleanup" => Rolled(r.mig)
        /\ r.pc = "release" /\ r.mig = "cleanup" /\ Fenced(p)
              => ctl[r.mig] # Nothing /\ ctl[r.mig].cleaned
        /\ r.pc = "restage" \/ (r.pc # "ended" /\ r.mig = "cleanup") => Rolled("rollback")

\* One migration at most is at the target.
ControlInv ==
    /\ PointerTracked
    /\ \A m, n \in Mig : AtTarget(m) /\ AtTarget(n) => m = n
    /\ \A m \in Mig : ctl[m] # Nothing => Settled(ctl[m])
    /\ \A p \in Proc : EndsWell(p)

\* A production run and an acceptance run never share the target.
AloneOnTarget == man["main"] # Nothing /\ \A m \in Mig \ {"main"} : man[m] = Nothing

Manifested(p) ==
    LET r == proc[p]
        past == r.pc \notin {"ended", "acquire"}
    IN  /\ r.mode = "production" /\ past => AloneOnTarget
        /\ r.mode = "acceptance" /\ (past \/ r.mig = "cleanup") => man["rollback"] # Nothing

ManifestInv ==
    /\ \A p \in Proc : Manifested(p)
    /\ "main" \in Mig /\ ctl["main"] # Nothing => AloneOnTarget

\* One lease is alive at most.
LeaseInv == \A m, n \in Mig : lease[m].live /\ lease[n].live => m = n

\* What a fenced process has read of the target, and found equal, is still there.
StillThere(p) ==
    LET r == proc[p]
    IN  Fenced(p) =>
          /\ r.pc = "compare" => r.copy = tgt
          /\ "shadow-read" \in r.passed => tgt = man[r.mig].snap
          /\ r.pc \in {"renew", "save", "check"} /\ r.ck.phase = "shadow-read" /\ ~r.differs
                => tgt = man[r.mig].snap

CompareInv == \A p \in Proc : StillThere(p)

\* The inductive invariant.
MigrationInv ==
    /\ MigrationTypeOK /\ ProcInv /\ ControlInv /\ ManifestInv /\ LeaseInv /\ CompareInv
    /\ BarrierCoversTarget

=============================================================================
