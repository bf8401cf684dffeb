--------------------------- MODULE MigrationProofs ---------------------------
(***************************************************************************)
(* The promises of the migration for every number of records, processes    *)
(* and faults, every set of commands, and any traffic beside it.           *)
(*                                                                         *)
(* The argument.  One lease is alive at most, and every write to the       *)
(* target or to the control state checks it (Fenced); only the checkpoint  *)
(* is saved without it.  So a process that has the fence is alone with the *)
(* target: what it compared is still there when it passes (StillThere).    *)
(* The pointer of the application moves only in the transaction that moves *)
(* the control state of the migration that holds the lease, and one        *)
(* migration at most is at the target (ControlInv).  A production          *)
(* migration that has a control state shares the target with no acceptance *)
(* (AloneOnTarget), so its barrier is released only by its own run, after  *)
(* the rollback.                                                           *)
(*                                                                         *)
(* A step changes the state of one process, and of the rest only what its  *)
(* fence allows: Frame reduces the invariant to that (Good for the process *)
(* that moves, Untouched for the others).  Then comes one lemma per action *)
(* of the model.                                                           *)
(***************************************************************************)
EXTENDS Migration, TLAPS

-----------------------------------------------------------------------------
\* The fields that a move within a run leaves alone.
Kept(r, s) == s.mode = r.mode /\ s.mig = r.mig /\ s.todo = r.todo /\ s.passed = r.passed

\* A completed checkpoint.
LEMMA DoneSet ==
    ASSUME NEW r \in ProcState, NEW x \in Pc, r.ck \in CheckpointRow
    PROVE  LET s == [[r EXCEPT !.pc = x] EXCEPT !.ck.done = TRUE]
           IN  /\ s \in ProcState /\ s.pc = x /\ Kept(r, s)
               /\ s.ck \in CheckpointRow /\ s.ck.phase = r.ck.phase
               /\ s.ck.seen = r.ck.seen /\ s.ck.done
  BY DEF ProcState, Kept, CheckpointRow

\* The order of the phases.
LEMMA OrderIs ==
    /\ Len(Order) = 7 /\ Order[1] = "prepare" /\ Order[2] = "backfill" /\ Order[3] = "shadow-read"
    /\ Order[4] = "dual-write" /\ Order[5] = "cutover" /\ Order[6] = "verify" /\ Order[7] = "cleanup"
  BY DEF Order

\* The phases by name.
LEMMA PhaseSet == Phase = {"prepare", "backfill", "shadow-read", "dual-write", "cutover", "verify",
                           "cleanup", "rollback"}
  BY OrderIs DEF Phase

\* A production run, the second branch and the first branch of an acceptance.
LEMMA Plans ==
    /\ Planned(Append(Order, "rollback"), {}, "rollback") /\ Append(Order, "rollback") \in Seq(Phase)
    /\ Planned(Order, {}, "cleanup") /\ Order \in Seq(Phase)
    /\ Planned(Append(BeforeCleanup, "rollback"), {}, "rollback")
    /\ Append(BeforeCleanup, "rollback") \in Seq(Phase)
    /\ Head(Append(Order, "rollback")) = "prepare" /\ Head(Append(BeforeCleanup, "rollback")) = "prepare"
    /\ Head(Order) = "prepare" /\ Append(Order, "rollback") # <<>> /\ Order # <<>>
    /\ Append(BeforeCleanup, "rollback") # <<>>
  <1>0. Order \in Seq(Phase) /\ BeforeCleanup \in Seq(Phase) /\ "rollback" \in Phase
        BY PhaseSet DEF Order, BeforeCleanup
  <1>1. /\ Planned(Append(Order, "rollback"), {}, "rollback") /\ Append(Order, "rollback") # <<>>
        /\ Head(Append(Order, "rollback")) = "prepare" /\ Append(Order, "rollback") \in Seq(Phase)
        <2> DEFINE a == Append(Order, "rollback")
        <2>1. /\ Len(a) = 8 /\ a[1] = "prepare" /\ a[2] = "backfill" /\ a[3] = "shadow-read"
              /\ a[4] = "dual-write" /\ a[5] = "cutover" /\ a[6] = "verify" /\ a[7] = "cleanup"
              /\ a[8] = "rollback"
              BY DEF Order
        <2>2. a \in Seq(Phase)
              BY <1>0
        <2> HIDE DEF a
        <2>3. Planned(a, {}, "rollback")
              BY <2>1 DEF Planned
        <2> QED BY <2>1, <2>2, <2>3 DEF a
  <1>2. /\ Planned(Append(BeforeCleanup, "rollback"), {}, "rollback")
        /\ Append(BeforeCleanup, "rollback") # <<>>
        /\ Head(Append(BeforeCleanup, "rollback")) = "prepare"
        /\ Append(BeforeCleanup, "rollback") \in Seq(Phase)
        <2> DEFINE a == Append(BeforeCleanup, "rollback")
        <2>1. /\ Len(a) = 7 /\ a[1] = "prepare" /\ a[2] = "backfill" /\ a[3] = "shadow-read"
              /\ a[4] = "dual-write" /\ a[5] = "cutover" /\ a[6] = "verify" /\ a[7] = "rollback"
              BY DEF BeforeCleanup
        <2>2. a \in Seq(Phase)
              BY <1>0
        <2> HIDE DEF a
        <2>3. Planned(a, {}, "rollback")
              BY <2>1 DEF Planned
        <2> QED BY <2>1, <2>2, <2>3 DEF a
  <1>3. Planned(Order, {}, "cleanup") /\ Head(Order) = "prepare" /\ Order # <<>>
        BY OrderIs DEF Planned
  <1> QED BY <1>0, <1>1, <1>2, <1>3

\* What is left after a phase is still planned.
LEMMA PlanTail ==
    ASSUME NEW todo \in Seq(Phase), NEW passed, NEW last, Planned(todo, passed, last),
           todo # <<>>, Tail(todo) # <<>>
    PROVE  Planned(Tail(todo), passed \cup {Head(todo)}, last)
  <1> DEFINE t == Tail(todo)
  <1>1. /\ Len(todo) \in Nat /\ Len(t) \in Nat \ {0} /\ Len(todo) = Len(t) + 1
        /\ Head(todo) = todo[1] /\ \A i \in 1..Len(t) : t[i] = todo[i + 1]
        <2>1. t \in Seq(Phase) /\ Len(todo) \in Nat /\ Len(t) = Len(todo) - 1 /\ Len(todo) # 0
              OBVIOUS
        <2>2. Len(t) # 0 /\ Len(t) \in Nat
              BY <2>1
        <2>3. \A i \in 1..Len(t) : t[i] = todo[i + 1]
              OBVIOUS
        <2>4. Head(todo) = todo[1]
              OBVIOUS
        <2> HIDE DEF t
        <2> QED BY <2>1, <2>2, <2>3, <2>4
  <1> HIDE DEF t
  <1>2. t[Len(t)] = last
        BY <1>1 DEF Planned
  <1>3. "shadow-read" \in passed \cup {Head(todo)} \/ \E i \in 1..Len(t) : t[i] = "shadow-read"
        <2> SUFFICES ASSUME NEW i \in 1..Len(todo), todo[i] = "shadow-read", i # 1
                     PROVE  \E k \in 1..Len(t) : t[k] = "shadow-read"
            BY <1>1 DEF Planned
        <2>1. i - 1 \in 1..Len(t) /\ (i - 1) + 1 = i
              BY <1>1
        <2> QED BY <1>1, <2>1
  <1>4. \A i \in 1..Len(t) : i + 1 \in 1..Len(todo) /\ 1 < i + 1
        BY <1>1
  <1>5. ASSUME NEW i \in 1..Len(t), NEW j \in 1..Len(t), i < j, t[i] = "shadow-read"
        PROVE  t[j] # "backfill"
        <2>1. i + 1 < j + 1
              BY <1>1, <1>5
        <2> QED BY <1>1, <1>4, <1>5, <2>1 DEF Planned
  <1>6. ASSUME "shadow-read" \in passed \cup {Head(todo)}, NEW i \in 1..Len(t)
        PROVE  t[i] # "backfill"
        <2>1. 1 \in 1..Len(todo)
              BY <1>1
        <2> QED BY <1>1, <1>4, <1>6, <2>1 DEF Planned
  <1> QED BY <1>2, <1>3, <1>5, <1>6 DEF Planned, t

\* The barrier names one owner.
LEMMA OneFence ==
    ASSUME NEW p, NEW q, Fenced(p), Fenced(q)
    PROVE  p = q
  <1>1. barrier.owner = p /\ barrier.owner = q
        BY DEF Fenced
  <1> QED BY <1>1

\* The step of one process, as the others see it: their part of the invariant
\* stays when their fence is not new and what it protects did not change.
LEMMA OthersKeep ==
    ASSUME NEW q \in Proc, proc'[q] = proc[q], proc[q].mig \in Mig,
           EndsWell(q), StillThere(q), "rollback" \in Mig \/ proc[q].mig = "main" \/ proc[q].pc = "ended",
           Coherent(proc[q]),
           \A m \in Mig : ctl[m] # Nothing =>
                             ctl'[m] # Nothing /\ (ctl[m].rolled => ctl'[m].rolled),
           Fenced(q)' => /\ Fenced(q) /\ tgt' = tgt /\ man' = man
                         /\ ctl[proc[q].mig] # Nothing => ctl'[proc[q].mig] = ctl[proc[q].mig]
    PROVE  EndsWell(q)' /\ StillThere(q)'
  <1> DEFINE r == proc[q]
  <1>1. /\ r.pc = "undual" => ctl'[r.mig] # Nothing
        /\ r.pc = "release" /\ r.mig # "cleanup" => Rolled(r.mig)'
        BY ZenonT(40) DEF EndsWell, Rolled
  <1>2. r.pc = "release" /\ r.mig = "cleanup" /\ Fenced(q)'
           => ctl'[r.mig] # Nothing /\ ctl'[r.mig].cleaned
        BY ZenonT(40) DEF EndsWell
  <1>3. r.pc = "restage" \/ (r.pc # "ended" /\ r.mig = "cleanup") => Rolled("rollback")'
        <2> SUFFICES ASSUME r.pc = "restage" \/ (r.pc # "ended" /\ r.mig = "cleanup")
                     PROVE  Rolled("rollback")'
            BY ZenonT(40)
        <2>1. Rolled("rollback")
              BY ZenonT(40) DEF EndsWell
        <2>2. r.pc = "restage" => r.mig = "rollback"
              BY ZenonT(40) DEF Coherent
        <2>3. "rollback" \in Mig
              BY <2>2
        <2> QED BY <2>1, <2>3, ZenonT(40) DEF Rolled
  <1>4. EndsWell(q)'
        BY <1>1, <1>2, <1>3, ZenonT(40) DEF EndsWell
  <1>5. StillThere(q)'
        BY ZenonT(40) DEF StillThere
  <1> QED BY <1>4, <1>5

\* The migrations of the acceptance come together.
LEMMA MigIs ==
    /\ "main" \in Mig <=> ~(Modes \subseteq {"acceptance"})
    /\ "rollback" \in Mig <=> "acceptance" \in Modes
    /\ "cleanup" \in Mig <=> "acceptance" \in Modes
    /\ \A m \in Mig : m \in {"main", "rollback", "cleanup"}
  BY DEF Mig, Branches

\* A process whose migration is not the production one runs the acceptance.
LEMMA BranchExists ==
    ASSUME MigrationTypeOK, NEW q \in Proc
    PROVE  proc[q].mig \in Mig /\ ("rollback" \in Mig \/ proc[q].mig = "main" \/ proc[q].pc = "ended")
  <1>1. proc[q].mig \in Mig
        BY DEF MigrationTypeOK, ProcState
  <1> QED BY <1>1, MigIs

\* What is said of each process, and what a step that is not its own leaves to
\* it: its fence is not new, and what it protects has not changed.
Good(q) == Coherent(proc[q]) /\ EndsWell(q) /\ Manifested(q) /\ StillThere(q)
Untouched(q) ==
    /\ proc'[q] = proc[q] /\ (Manifested(q) => Manifested(q)')
    /\ Fenced(q)' => /\ Fenced(q) /\ tgt' = tgt /\ man' = man
                     /\ ctl[proc[q].mig] # Nothing => ctl'[proc[q].mig] = ctl[proc[q].mig]

\* What is said of the control states together.
Consistent ==
    /\ PointerTracked
    /\ \A m, n \in Mig : AtTarget(m) /\ AtTarget(n) => m = n
    /\ \A m \in Mig : ctl[m] # Nothing => Settled(ctl[m])

\* The parts of the invariant, put together again after a step.
LEMMA Frame ==
    ASSUME MigrationInv, MigrationTypeOK',
           \A q \in Proc : Untouched(q) \/ Good(q)',
           \A m \in Mig : ckpt'[m] # Nothing => Sound(ckpt'[m]),
           Consistent',
           \A m \in Mig : ctl[m] # Nothing =>
                             ctl'[m] # Nothing /\ (ctl[m].rolled => ctl'[m].rolled),
           "main" \in Mig /\ ctl'["main"] # Nothing => AloneOnTarget',
           LeaseInv', BarrierCoversTarget'
    PROVE  MigrationInv'
  <1>0. MigrationTypeOK /\ ProcInv /\ ControlInv /\ ManifestInv /\ CompareInv
        BY ZenonT(40) DEF MigrationInv
  <1>1. \A q \in Proc : Good(q)'
        <2> SUFFICES ASSUME NEW q \in Proc, Untouched(q) PROVE Good(q)'
            BY ZenonT(40)
        <2>1. proc'[q] = proc[q] /\ EndsWell(q) /\ StillThere(q) /\ Coherent(proc[q]) /\ Manifested(q)
              BY <1>0, ZenonT(40) DEF ControlInv, CompareInv, ProcInv, ManifestInv, Untouched
        <2>2. Manifested(q)'
              BY <2>1, ZenonT(40) DEF Untouched
        <2>3. Fenced(q)' => /\ Fenced(q) /\ tgt' = tgt /\ man' = man
                            /\ ctl[proc[q].mig] # Nothing => ctl'[proc[q].mig] = ctl[proc[q].mig]
              BY ZenonT(40) DEF Untouched
        <2>4. proc[q].mig \in Mig /\ ("rollback" \in Mig \/ proc[q].mig = "main" \/ proc[q].pc = "ended")
              BY <1>0, BranchExists, ZenonT(40)
        <2>5. EndsWell(q)' /\ StillThere(q)'
              BY <2>1, <2>3, <2>4, OthersKeep, ZenonT(40)
        <2>6. Coherent(proc'[q])
              BY <2>1, ZenonT(40)
        <2> QED BY <2>2, <2>5, <2>6, ZenonT(40) DEF Good
  <1>2. \A q \in Proc : Coherent(proc'[q]) /\ EndsWell(q)' /\ Manifested(q)' /\ StillThere(q)'
        BY <1>1, ZenonT(40) DEF Good
  <1>5. ProcInv'
        BY <1>2, ZenonT(40) DEF ProcInv
  <1>6. ControlInv'
        BY <1>2, ZenonT(40) DEF ControlInv, Consistent
  <1>7. ManifestInv'
        BY <1>2, ZenonT(40) DEF ManifestInv
  <1>8. CompareInv'
        BY <1>2, ZenonT(40) DEF CompareInv
  <1> QED BY <1>5, <1>6, <1>7, <1>8, ZenonT(40) DEF MigrationInv

\* While the pointer and the control states stay, so does what is said of them.
LEMMA ControlKeeps ==
    ASSUME MigrationInv, ctl' = ctl, app'.active = app.active
    PROVE  /\ Consistent' /\ \A m \in Mig : AtTarget(m)' <=> AtTarget(m)
           /\ \A m \in Mig : ctl[m] # Nothing =>
                                ctl'[m] # Nothing /\ (ctl[m].rolled => ctl'[m].rolled)
  <1>0. ControlInv
        BY ZenonT(40) DEF MigrationInv
  <1>1. \A m \in Mig : AtTarget(m)' <=> AtTarget(m)
        BY ZenonT(40) DEF AtTarget
  <1>2. PointerTracked' /\ \A m, n \in Mig : AtTarget(m)' /\ AtTarget(n)' => m = n
        BY <1>0, <1>1, ZenonT(40) DEF ControlInv, PointerTracked
  <1>3. \A m \in Mig : ctl'[m] # Nothing => Settled(ctl'[m])
        BY <1>0, ZenonT(40) DEF ControlInv
  <1> QED BY <1>1, <1>2, <1>3, ZenonT(40) DEF Consistent

\* While the manifests stay, so does what is said of them.
LEMMA ManKeeps ==
    ASSUME MigrationInv, man' = man
    PROVE  /\ \A q \in Proc : proc'[q] = proc[q] /\ Manifested(q) => Manifested(q)'
           /\ AloneOnTarget' <=> AloneOnTarget
           /\ "main" \in Mig /\ ctl["main"] # Nothing => AloneOnTarget
  <1>1. \A q \in Proc : proc'[q] = proc[q] /\ Manifested(q) => Manifested(q)'
        BY ZenonT(40) DEF Manifested, AloneOnTarget
  <1>2. AloneOnTarget' <=> AloneOnTarget
        BY ZenonT(40) DEF AloneOnTarget
  <1>3. "main" \in Mig /\ ctl["main"] # Nothing => AloneOnTarget
        BY ZenonT(40) DEF MigrationInv, ManifestInv
  <1> QED BY <1>1, <1>2, <1>3

\* The variables of the groups.
LEMMA Groups ==
    /\ UNCHANGED data => src' = src /\ tgt' = tgt /\ foreign' = foreign /\ pending' = pending
    /\ UNCHANGED guard => man' = man /\ lease' = lease /\ barrier' = barrier
    /\ UNCHANGED control => ctl' = ctl /\ app' = app
  BY DEF data, guard, control

\* A step of a process that moves no pointer and no lease: it can save a
\* checkpoint and, under its fence, write a record of the target.
LEMMA DataFrame ==
    ASSUME MigrationInv, NEW p \in Proc, NEW s \in ProcState, Set(p, s), Coherent(s),
           EndsWell(p)', Manifested(p)', StillThere(p)',
           UNCHANGED <<guard, control>>, src' = src, foreign' = foreign, pending' = pending,
           tgt' \in [1..N -> 0..2], tgt' = tgt \/ Fenced(p),
           ckpt' \in [Mig -> CheckpointRow \cup {Nothing}],
           \A m \in Mig : ckpt'[m] # Nothing => Sound(ckpt'[m]),
           used' \in Nat
    PROVE  MigrationInv'
  <1>0. MigrationTypeOK /\ ProcInv /\ ControlInv /\ ManifestInv /\ LeaseInv /\ BarrierCoversTarget
        BY ZenonT(40) DEF MigrationInv
  <1>1. man' = man /\ lease' = lease /\ barrier' = barrier /\ ctl' = ctl /\ app' = app
        BY Groups
  <1>2. proc \in [Proc -> ProcState]
        BY <1>0, ZenonT(40) DEF MigrationTypeOK
  <1>3. /\ proc' \in [Proc -> ProcState] /\ proc'[p] = s
        /\ \A q \in Proc : q # p => proc'[q] = proc[q]
        BY <1>2 DEF Set
  <1>4. MigrationTypeOK'
        BY <1>0, <1>1, <1>3, ZenonT(40) DEF MigrationTypeOK
  <1>5. Coherent(proc'[p])
        BY <1>3, ZenonT(40)
  <1>7. /\ Consistent' /\ \A m \in Mig : AtTarget(m)' <=> AtTarget(m)
        /\ \A m \in Mig : ctl[m] # Nothing =>
                             ctl'[m] # Nothing /\ (ctl[m].rolled => ctl'[m].rolled)
        BY <1>1, ControlKeeps, ZenonT(40)
  <1>8. "main" \in Mig /\ ctl'["main"] # Nothing => AloneOnTarget'
        BY <1>1, ManKeeps, ZenonT(40)
  <1>9. LeaseInv' /\ BarrierCoversTarget'
        BY <1>0, <1>1, <1>7, ZenonT(40) DEF LeaseInv, BarrierCoversTarget
  <1>10. Good(p)'
        BY <1>5, ZenonT(40) DEF Good
  <1>11. ASSUME NEW q \in Proc, q # p PROVE Untouched(q)
        <2>1. proc'[q] = proc[q]
              BY <1>3, <1>11, ZenonT(40)
        <2>2. Manifested(q) => Manifested(q)'
              BY <1>1, <2>1, ManKeeps, ZenonT(40)
        <2>3. Fenced(q)' => Fenced(q)
              BY <1>1, <2>1, ZenonT(40) DEF Fenced
        <2>4. Fenced(q)' => tgt' = tgt
              BY <1>11, <2>3, OneFence, ZenonT(40)
        <2> QED BY <1>1, <2>1, <2>2, <2>3, <2>4, ZenonT(40) DEF Untouched
  <1>12. \A q \in Proc : Untouched(q) \/ Good(q)'
        BY <1>10, <1>11, ZenonT(40)
  <1> QED BY <1>4, <1>7, <1>8, <1>9, <1>12, Frame, ZenonT(60)

\* A step that moves one process and nothing else.
LEMMA QuietFrame ==
    ASSUME MigrationInv, NEW p \in Proc, NEW s \in ProcState, Set(p, s), Coherent(s),
           EndsWell(p)', Manifested(p)', StillThere(p)',
           UNCHANGED <<data, guard, control, ckpt>>, used' \in Nat
    PROVE  MigrationInv'
  <1>0. MigrationTypeOK /\ ProcInv
        BY ZenonT(40) DEF MigrationInv
  <1>1. src' = src /\ tgt' = tgt /\ foreign' = foreign /\ pending' = pending /\ ckpt' = ckpt
        /\ UNCHANGED <<guard, control>>
        BY Groups
  <1>2. tgt' \in [1..N -> 0..2] /\ ckpt' \in [Mig -> CheckpointRow \cup {Nothing}]
        BY <1>0, <1>1, ZenonT(40) DEF MigrationTypeOK
  <1>3. \A m \in Mig : ckpt'[m] # Nothing => Sound(ckpt'[m])
        BY <1>0, <1>1, ZenonT(40) DEF ProcInv
  <1> QED BY <1>1, <1>2, <1>3, DataFrame, ZenonT(60)

\* A process that ends, for whatever reason.
LEMMA EndedIs ==
    ASSUME NEW x \in {"not_run", "pass", "fail"}
    PROVE  /\ Ends(x) \in ProcState /\ Ends(x).pc = "ended" /\ Ends(x).passed = {}
           /\ Ends(x).ck = Nothing /\ Ends(x).mode = "single"
           /\ Ended \in ProcState /\ Ended.pc = "ended" /\ Ended.passed = {}
           /\ Ended.ck = Nothing /\ Ended.mode = "single"
  <1>1. (CHOOSE m \in Mig : TRUE) \in Mig
        <2>1. \E m \in Mig : TRUE
              BY MigrationAssumption, MigIs
        <2> QED BY <2>1
  <1> DEFINE c == CHOOSE m \in Mig : TRUE
  <1> HIDE DEF c
  <1>2. Ended = [pc |-> "ended", mode |-> "single", mig |-> c, todo |-> <<>>,
                 probe |-> FALSE, snap |-> <<>>, rev |-> 1, ck |-> Nothing, page |-> 0,
                 copy |-> <<>>, differs |-> FALSE, passed |-> {}, result |-> "not_run"]
        BY DEF Ended, c
  <1>3. c \in Mig /\ <<>> \in Seq(Phase) /\ <<>> \in Snapshot
        BY <1>1 DEF c, Snapshot
  <1>4. Ended \in ProcState
        BY <1>2, <1>3 DEF ProcState, Pc
  <1>5. Ends(x) \in ProcState /\ Ends(x).pc = Ended.pc /\ Ends(x).passed = Ended.passed
        /\ Ends(x).ck = Ended.ck /\ Ends(x).mode = Ended.mode
        BY <1>4 DEF Ends, ProcState
  <1> QED BY <1>2, <1>4, <1>5

\* What ended promises nothing.
LEMMA EndStep ==
    ASSUME MigrationInv, NEW p \in Proc, NEW s \in ProcState, Set(p, s),
           s.pc = "ended", s.passed = {}, s.ck = Nothing, s.mode = "single",
           UNCHANGED <<data, guard, control, ckpt>>, used' \in Nat
    PROVE  MigrationInv'
  <1>1. proc \in [Proc -> ProcState]
        BY ZenonT(40) DEF MigrationInv, MigrationTypeOK
  <1>2. proc'[p] = s
        BY <1>1 DEF Set
  <1>3. Coherent(s)
        BY DEF Coherent
  <1>4. EndsWell(p)' /\ Manifested(p)' /\ StillThere(p)'
        BY <1>2 DEF EndsWell, Manifested, StillThere
  <1> QED BY <1>3, <1>4, QuietFrame, ZenonT(40)

\* The failed report.
LEMMA FailStep ==
    ASSUME MigrationInv, NEW p \in Proc, Fail(p)
    PROVE  MigrationInv'
  <1>1. Set(p, Ends("fail")) /\ UNCHANGED <<data, guard, control, ckpt>> /\ used' = used
        BY DEF Fail
  <1>2. used' \in Nat
        BY <1>1, ZenonT(40) DEF MigrationInv, MigrationTypeOK
  <1> QED BY <1>1, <1>2, EndedIs, EndStep, ZenonT(40)

\* A killed process.
LEMMA CrashStep ==
    ASSUME MigrationInv, NEW p \in Proc, Crash(p)
    PROVE  MigrationInv'
  <1>1. Set(p, Ended) /\ UNCHANGED <<data, guard, control, ckpt>> /\ used' = used + 1
        BY DEF Crash
  <1>2. used \in Nat
        BY ZenonT(40) DEF MigrationInv, MigrationTypeOK
  <1>3. used' \in Nat
        BY <1>1, <1>2
  <1> QED BY <1>1, <1>3, EndedIs, EndStep, ZenonT(40)

\* The places of a phase.
InPhase == {"begin", "prepare", "fetch", "upsert", "enumerate", "compare", "renew", "save",
            "control", "check"}

\* What a process that runs knows of itself.
LEMMA Running ==
    ASSUME MigrationInv, NEW p \in Proc
    PROVE  /\ proc \in [Proc -> ProcState] /\ proc[p] \in ProcState /\ Coherent(proc[p])
           /\ EndsWell(p) /\ Manifested(p) /\ StillThere(p) /\ used \in Nat
  <1>1. proc \in [Proc -> ProcState] /\ used \in Nat
        BY ZenonT(40) DEF MigrationInv, MigrationTypeOK
  <1>2. proc[p] \in ProcState
        BY <1>1
  <1>3. Coherent(proc[p]) /\ EndsWell(p) /\ Manifested(p) /\ StillThere(p)
        BY ZenonT(40) DEF MigrationInv, ProcInv, ControlInv, ManifestInv, CompareInv
  <1> QED BY <1>1, <1>2, <1>3

\* A process that goes on in its phase stays coherent.
LEMMA CoherentMove ==
    ASSUME NEW r, NEW s, Coherent(r), Kept(r, s), r.pc \notin {"ended", "acquire"},
           s.pc \in InPhase \cup {"undual"},
           s.ck # Nothing => Sound(s.ck),
           s.pc # "begin" => s.ck # Nothing /\ s.ck.phase = Head(s.todo) /\ s.ck.phase \in PhasesAt(s.pc),
           s.pc \in {"fetch", "upsert"} => ~s.ck.done
    PROVE  Coherent(s)
  <1>1. s.pc \notin {"ended", "acquire", "release", "restage"}
        BY DEF InPhase
  <1>2. /\ s.mode \in Modes /\ s.todo # <<>>
        /\ s.mig \in (IF s.mode = "acceptance" THEN Branches ELSE {"main"})
        /\ s.mode = "single" => Len(s.todo) = 1 /\ s.passed = {}
        /\ s.mode # "single" => Planned(s.todo, s.passed, Terminal(s.mig))
        BY ZenonT(40) DEF Coherent, Kept
  <1> QED BY <1>1, <1>2 DEF Coherent

\* What the others may rely on does not change with such a move.
LEMMA MoveKeeps ==
    ASSUME NEW p \in Proc, NEW s, proc'[p] = s, EndsWell(p), Manifested(p), StillThere(p),
           Kept(proc[p], s), proc[p].pc \notin {"ended", "acquire"}, s.pc \in InPhase,
           UNCHANGED <<guard, control>>
    PROVE  EndsWell(p)' /\ Manifested(p)' /\ (Fenced(p)' <=> Fenced(p))
  <1>1. man' = man /\ lease' = lease /\ barrier' = barrier /\ ctl' = ctl
        BY Groups
  <1>2. s.pc \notin {"ended", "acquire", "undual", "release", "restage"} /\ s.mig = proc[p].mig
        /\ s.mode = proc[p].mode
        BY DEF InPhase, Kept
  <1>3. EndsWell(p)'
        BY <1>1, <1>2, ZenonT(40) DEF EndsWell, Rolled
  <1>4. Manifested(p)'
        BY <1>1, <1>2, ZenonT(40) DEF Manifested, AloneOnTarget
  <1>5. Fenced(p)' <=> Fenced(p)
        BY <1>1, <1>2, ZenonT(40) DEF Fenced
  <1> QED BY <1>3, <1>4, <1>5

\* What the process has compared.
Compares(r, s) ==
    /\ s.pc = "compare" => s.copy = tgt
    /\ s.pc \in {"renew", "save", "check"} /\ s.ck.phase = "shadow-read" /\ ~s.differs
          => tgt = man[r.mig].snap

\* A step within a phase that changes nothing but the process.
LEMMA MoveStep ==
    ASSUME MigrationInv, NEW p \in Proc, NEW s \in ProcState, Set(p, s),
           Kept(proc[p], s), proc[p].pc \notin {"ended", "acquire"}, s.pc \in InPhase,
           s.ck # Nothing => Sound(s.ck),
           s.pc # "begin" => s.ck # Nothing /\ s.ck.phase = Head(s.todo) /\ s.ck.phase \in PhasesAt(s.pc),
           s.pc \in {"fetch", "upsert"} => ~s.ck.done,
           Fenced(p) => Compares(proc[p], s),
           UNCHANGED <<data, guard, control, ckpt, used>>
    PROVE  MigrationInv'
  <1>0. /\ proc \in [Proc -> ProcState] /\ Coherent(proc[p])
        /\ EndsWell(p) /\ Manifested(p) /\ StillThere(p) /\ used \in Nat
        BY Running, ZenonT(40)
  <1>1. proc'[p] = s
        BY <1>0 DEF Set
  <1>2. Coherent(s)
        BY <1>0, CoherentMove, ZenonT(40)
  <1>3. UNCHANGED <<guard, control>> /\ UNCHANGED <<data, guard, control, ckpt>> /\ used' = used
        OBVIOUS
  <1>4. EndsWell(p)' /\ Manifested(p)' /\ (Fenced(p)' <=> Fenced(p))
        BY <1>0, <1>1, <1>3, MoveKeeps, ZenonT(40)
  <1>5. tgt' = tgt /\ man' = man
        BY <1>3, Groups
  <1>6. s.mig = proc[p].mig /\ s.passed = proc[p].passed
        BY ZenonT(40) DEF Kept
  <1>7. StillThere(p)'
        BY <1>0, <1>1, <1>4, <1>5, <1>6, ZenonT(40) DEF StillThere, Compares
  <1> QED BY <1>0, <1>2, <1>3, <1>4, <1>7, QuietFrame, ZenonT(40)

\* What a process in a phase has in its hands.
LEMMA PhaseFacts ==
    ASSUME NEW r \in ProcState, Coherent(r), r.pc \notin {"ended", "acquire", "begin", "release", "restage"}
    PROVE  /\ r.ck \in CheckpointRow /\ r.ck # Nothing /\ Sound(r.ck) /\ r.ck.phase = Head(r.todo)
           /\ r.ck.phase \in PhasesAt(r.pc) /\ r.ck.phase \in Phase
  <1>1. r.ck # Nothing /\ Sound(r.ck) /\ r.ck.phase = Head(r.todo) /\ r.ck.phase \in PhasesAt(r.pc)
        BY ZenonT(40) DEF Coherent
  <1>2. r.ck \in CheckpointRow
        BY <1>1 DEF ProcState
  <1>3. r.ck.phase \in Phase
        BY <1>2 DEF CheckpointRow
  <1> QED BY <1>1, <1>2, <1>3

\* A row is not the absent value.
LEMMA RowThere ==
    /\ \A c \in CheckpointRow : c # Nothing
    /\ \A c \in ControlRow : c # Nothing
    /\ \A c \in ManifestRow : c # Nothing
  BY MigrationAssumption

\* The checkpoint that a phase starts from.
LEMMA ResumedSound ==
    ASSUME NEW ck \in CheckpointRow \cup {Nothing}, NEW ph \in Phase, MayRun(ck, ph),
           ck # Nothing => Sound(ck)
    PROVE  /\ Resumed(ck, ph) \in CheckpointRow /\ Sound(Resumed(ck, ph))
           /\ Resumed(ck, ph).phase = ph /\ ~Resumed(ck, ph).done
  <1>1. CASE ck = Nothing
        <2> DEFINE k == [phase |-> ph, seen |-> <<>>, done |-> FALSE]
        <2>1. Resumed(ck, ph) = k
              BY <1>1 DEF Resumed
        <2>2. k \in CheckpointRow /\ k.phase = ph /\ k.seen = <<>> /\ ~k.done
              BY DEF CheckpointRow
        <2>3. Sound(k)
              BY <2>2, MigrationAssumption DEF Sound
        <2> QED BY <2>1, <2>2, <2>3
  <1>2. CASE ck # Nothing /\ ck.phase = ph /\ ~ck.done
        BY <1>2 DEF Resumed
  <1>3. CASE ck # Nothing /\ ~(ck.phase = ph /\ ~ck.done)
        <2> DEFINE k == [ck EXCEPT !.phase = ph, !.done = FALSE]
        <2>0. ck \in CheckpointRow
              BY <1>3
        <2>1. Resumed(ck, ph) = k
              BY <1>3 DEF Resumed
        <2>2. k \in CheckpointRow /\ k.phase = ph /\ k.seen = ck.seen /\ ~k.done
              BY <2>0 DEF CheckpointRow
        <2>3. \/ ph = "rollback"
              \/ \E i \in 1..6 : Order[i] = ck.phase /\ Order[i + 1] = ph
              BY <1>3, OrderIs DEF MayRun
        <2>4. \A i \in 1..6 : i = 1 \/ i = 2 \/ i = 3 \/ i = 4 \/ i = 5 \/ i = 6
              OBVIOUS
        <2>5. ph # "prepare" /\ (ph = "backfill" => ck.phase = "prepare")
              BY <2>3, <2>4, OrderIs
        <2>6. Sound(ck)
              BY <1>3
        <2>7. Sound(k)
              BY <2>2, <2>5, <2>6, MigrationAssumption DEF Sound
        <2> QED BY <2>1, <2>2, <2>7
  <1> QED BY <1>1, <1>2, <1>3

\* Where a phase begins.
LEMMA EntryPlace ==
    ASSUME NEW ph \in Phase
    PROVE  /\ Entry(ph) \in InPhase \cap Pc /\ ph \in PhasesAt(Entry(ph))
           /\ Entry(ph) \notin {"begin", "compare", "renew", "save", "check"}
  BY PhaseSet DEF Entry, PhasesAt, InPhase, Pc

\* The checkpoint is loaded and judged, and the next phase goes on from it.
LEMMA BeginStep ==
    ASSUME MigrationInv, NEW p \in Proc, Begin(p)
    PROVE  MigrationInv'
  <1> DEFINE r == proc[p]
             ph == Head(r.todo)
             k == Resumed(ckpt[r.mig], ph)
             s == [r EXCEPT !.pc = Entry(ph), !.ck = k]
  <1>0. r \in ProcState /\ Coherent(r)
        BY Running, ZenonT(40)
  <1>1. CASE Fenced(p) /\ SourceUnchanged(p) /\ MayRun(ckpt[r.mig], ph)
        <2>1. r.pc = "begin" /\ Set(p, s) /\ UNCHANGED <<data, guard, control, ckpt, used>>
              BY <1>1, ZenonT(40) DEF Begin
        <2>2. ph \in Phase
              <3>1. r.todo \in Seq(Phase) /\ r.todo # <<>>
                    BY <1>0, <2>1 DEF ProcState, Coherent
              <3> QED BY <3>1
        <2>3. /\ ckpt[r.mig] \in CheckpointRow \cup {Nothing}
              /\ ckpt[r.mig] # Nothing => Sound(ckpt[r.mig])
              <3>1. r.mig \in Mig
                    BY <1>0 DEF ProcState
              <3>2. ckpt \in [Mig -> CheckpointRow \cup {Nothing}] /\ \A m \in Mig : ckpt[m] # Nothing => Sound(ckpt[m])
                    BY ZenonT(40) DEF MigrationInv, MigrationTypeOK, ProcInv
              <3> QED BY <3>1, <3>2, ZenonT(40)
        <2>4. k \in CheckpointRow /\ Sound(k) /\ k.phase = ph /\ ~k.done
              BY <1>1, <2>2, <2>3, ResumedSound, ZenonT(40)
        <2>5. /\ Entry(ph) \in InPhase \cap Pc /\ ph \in PhasesAt(Entry(ph))
              /\ Entry(ph) \notin {"begin", "compare", "renew", "save", "check"}
              BY <2>2, EntryPlace, ZenonT(40)
        <2>6. s \in ProcState /\ s.pc = Entry(ph) /\ s.ck = k /\ Kept(r, s)
              <3>1. PICK x \in Pc : x = Entry(ph)
                    BY <2>5
              <3>2. PICK j \in CheckpointRow : j = k
                    BY <2>4
              <3> DEFINE t == [r EXCEPT !.pc = x, !.ck = j]
              <3>3. t \in ProcState /\ t.pc = x /\ t.ck = j /\ Kept(r, t)
                    BY <1>0 DEF ProcState, Kept
              <3>4. t = s
                    BY <3>1, <3>2, ZenonT(40)
              <3> HIDE DEF s, t, k
              <3> QED BY <3>1, <3>2, <3>3, <3>4, ZenonT(40)
        <2>7. k # Nothing
              BY <2>4, RowThere, ZenonT(40)
        <2>8. s.todo = r.todo
              BY <2>6 DEF Kept
        <2> HIDE DEF s, k
        <2>9. Compares(r, s)
              BY <2>5, <2>6 DEF Compares
        <2>10. s.pc # "begin" => s.ck # Nothing /\ s.ck.phase = Head(s.todo) /\ s.ck.phase \in PhasesAt(s.pc)
              BY <2>4, <2>5, <2>6, <2>7, <2>8, ZenonT(40)
        <2>11. Sound(s.ck) /\ ~s.ck.done /\ s.pc \in InPhase /\ r.pc \notin {"ended", "acquire"}
              BY <2>1, <2>4, <2>5, <2>6
        <2> QED BY <2>1, <2>6, <2>9, <2>10, <2>11, MoveStep, ZenonT(40)
  <1>2. CASE ~(Fenced(p) /\ SourceUnchanged(p) /\ MayRun(ckpt[r.mig], ph))
        <2>1. Fail(p)
              BY <1>2, ZenonT(40) DEF Begin
        <2> QED BY <2>1, FailStep
  <1> QED BY <1>1, <1>2

\* A phase that completes its checkpoint, without a comparison.
LEMMA DoneMove ==
    ASSUME NEW r \in ProcState, Coherent(r), r.pc \notin {"ended", "acquire", "begin", "release", "restage"},
           r.ck.phase \notin {"shadow-read", "verify"}
    PROVE  LET s == [[r EXCEPT !.pc = "renew"] EXCEPT !.ck.done = TRUE]
           IN  /\ s \in ProcState /\ Kept(r, s) /\ s.pc = "renew"
               /\ s.ck # Nothing /\ Sound(s.ck) /\ s.ck.phase = Head(s.todo) /\ s.ck.phase = r.ck.phase
               /\ s.ck.phase \in PhasesAt("renew") /\ Compares(r, s)
  <1> DEFINE s == [[r EXCEPT !.pc = "renew"] EXCEPT !.ck.done = TRUE]
  <1>1. /\ r.ck \in CheckpointRow /\ Sound(r.ck) /\ r.ck.phase = Head(r.todo) /\ r.ck.phase \in Phase
        BY PhaseFacts, ZenonT(40)
  <1>2. "renew" \in Pc
        BY DEF Pc
  <1>3. /\ s \in ProcState /\ s.pc = "renew" /\ Kept(r, s)
        /\ s.ck \in CheckpointRow /\ s.ck.phase = r.ck.phase /\ s.ck.seen = r.ck.seen /\ s.ck.done
        BY <1>1, <1>2, DoneSet
  <1> HIDE DEF s
  <1>4. s.ck # Nothing
        BY <1>3, RowThere, ZenonT(40)
  <1>5. Sound(s.ck)
        BY <1>1, <1>3 DEF Sound
  <1>6. s.todo = r.todo
        BY <1>3 DEF Kept
  <1>7. s.ck.phase \in PhasesAt("renew")
        BY <1>1, <1>3 DEF PhasesAt
  <1>8. Compares(r, s)
        BY <1>3 DEF Compares
  <1>9. s.ck.phase = Head(s.todo)
        BY <1>1, <1>3, <1>6, ZenonT(40)
  <1> QED BY <1>3, <1>4, <1>5, <1>7, <1>8, <1>9 DEF s

\* prepare finds the application at the revision of the manifest.
LEMMA PrepareStep ==
    ASSUME MigrationInv, NEW p \in Proc, Prepare(p)
    PROVE  MigrationInv'
  <1> DEFINE r == proc[p]
             s == [[r EXCEPT !.pc = "renew"] EXCEPT !.ck.done = TRUE]
  <1>0. r \in ProcState /\ Coherent(r)
        BY Running, ZenonT(40)
  <1>1. CASE Fenced(p) /\ app.ver = proc[p].rev
        <2>1. r.pc = "prepare" /\ Set(p, s) /\ UNCHANGED <<data, guard, control, ckpt, used>>
              BY <1>1, ZenonT(40) DEF Prepare, Goto
        <2>2. r.ck.phase \in PhasesAt(r.pc) /\ r.pc \notin {"ended", "acquire", "begin", "release", "restage"}
              BY <1>0, <2>1 DEF Coherent
        <2>3. r.ck.phase = "prepare"
              BY <2>1, <2>2 DEF PhasesAt
        <2>4. /\ s \in ProcState /\ Kept(r, s) /\ s.pc = "renew"
              /\ s.ck # Nothing /\ Sound(s.ck) /\ s.ck.phase = Head(s.todo)
              /\ s.ck.phase \in PhasesAt("renew") /\ Compares(r, s)
              BY <1>0, <2>2, <2>3, DoneMove
        <2> HIDE DEF s
        <2>5. s.pc \in InPhase /\ s.pc \notin {"fetch", "upsert"} /\ r.pc \notin {"ended", "acquire"}
              BY <2>1, <2>4 DEF InPhase
        <2> QED BY <2>1, <2>4, <2>5, MoveStep, ZenonT(40)
  <1>2. CASE ~(Fenced(p) /\ app.ver = proc[p].rev)
        <2>1. Fail(p)
              BY <1>2, ZenonT(40) DEF Prepare
        <2> QED BY <2>1, FailStep
  <1> QED BY <1>1, <1>2

\* A move that keeps the checkpoint, to a place of the same phase.
LEMMA SameCkStep ==
    ASSUME MigrationInv, NEW p \in Proc, NEW s \in ProcState, Set(p, s), Kept(proc[p], s),
           proc[p].pc \notin {"ended", "acquire", "begin", "release", "restage"},
           s.pc \in InPhase, s.ck = proc[p].ck, proc[p].ck.phase \in PhasesAt(s.pc),
           s.pc \in {"fetch", "upsert"} => ~s.ck.done,
           Fenced(p) => Compares(proc[p], s),
           UNCHANGED <<data, guard, control, ckpt, used>>
    PROVE  MigrationInv'
  <1>1. proc[p] \in ProcState /\ Coherent(proc[p])
        BY Running, ZenonT(40)
  <1>2. proc[p].ck # Nothing /\ Sound(proc[p].ck) /\ proc[p].ck.phase = Head(proc[p].todo)
        BY <1>1, PhaseFacts, ZenonT(40)
  <1>3. s.todo = proc[p].todo
        BY DEF Kept
  <1>4. s.ck # Nothing /\ s.ck.phase = Head(s.todo) /\ s.ck.phase \in PhasesAt(s.pc) /\ Sound(s.ck)
        BY <1>2, <1>3, ZenonT(40)
  <1>5. proc[p].pc \notin {"ended", "acquire"}
        OBVIOUS
  <1> QED BY <1>4, <1>5, MoveStep, ZenonT(40)

\* A page of a copy that is not complete exists.
LEMMA PageThere ==
    ASSUME NEW r \in ProcState, Coherent(r), r.pc \in {"fetch", "upsert"}
    PROVE  /\ r.ck \in CheckpointRow /\ r.ck.phase = "backfill" /\ ~r.ck.done
           /\ Len(r.ck.seen) \in Nat /\ Len(r.ck.seen) + 1 \in 1..N
  <1>1. r.pc \notin {"ended", "acquire", "begin", "release", "restage"} /\ ~r.ck.done
        BY DEF Coherent
  <1>2. r.ck \in CheckpointRow /\ Sound(r.ck) /\ r.ck.phase \in PhasesAt(r.pc)
        BY <1>1, PhaseFacts, ZenonT(40)
  <1>3. r.ck.phase = "backfill"
        BY <1>2 DEF PhasesAt
  <1>4. Len(r.ck.seen) \in Nat
        BY <1>2 DEF CheckpointRow
  <1>5. Len(r.ck.seen) < N
        BY <1>1, <1>2, <1>3 DEF Sound
  <1> QED BY <1>1, <1>2, <1>3, <1>4, <1>5, MigrationAssumption

\* A page of the source is read; nothing shared changes.
LEMMA FetchStep ==
    ASSUME MigrationInv, NEW p \in Proc, Fetch(p)
    PROVE  MigrationInv'
  <1> DEFINE r == proc[p]
  <1>0. r \in ProcState /\ Coherent(r)
        BY Running, ZenonT(40)
  <1>1. r.pc = "fetch" /\ UNCHANGED <<data, guard, control, ckpt, used>>
        /\ Set(p, [r EXCEPT !.pc = "upsert", !.page = src[Len(r.ck.seen) + 1]])
        BY ZenonT(40) DEF Fetch
  <1>2. r.ck \in CheckpointRow /\ r.ck.phase = "backfill" /\ ~r.ck.done /\ Len(r.ck.seen) + 1 \in 1..N
        BY <1>0, <1>1, PageThere
  <1>3. src \in [1..N -> 1..2]
        BY ZenonT(40) DEF MigrationInv, MigrationTypeOK
  <1>4. PICK v \in 0..2 : v = src[Len(r.ck.seen) + 1]
        BY <1>2, <1>3
  <1> DEFINE s == [r EXCEPT !.pc = "upsert", !.page = v]
  <1>5. Set(p, s)
        BY <1>1, <1>4, ZenonT(40)
  <1>6. s \in ProcState /\ s.pc = "upsert" /\ s.ck = r.ck /\ Kept(r, s)
        BY <1>0 DEF ProcState, Kept, Pc
  <1> HIDE DEF s
  <1>7. /\ s.pc \in InPhase /\ r.ck.phase \in PhasesAt(s.pc) /\ Compares(r, s)
        /\ r.pc \notin {"ended", "acquire", "begin", "release", "restage"}
        BY <1>1, <1>2, <1>6 DEF InPhase, PhasesAt, Compares
  <1> QED BY <1>1, <1>2, <1>5, <1>6, <1>7, SameCkStep, ZenonT(40)

\* The target is listed under the fence; what is listed is what it holds.
LEMMA EnumerateStep ==
    ASSUME MigrationInv, NEW p \in Proc, Enumerate(p)
    PROVE  MigrationInv'
  <1> DEFINE r == proc[p]
  <1>0. r \in ProcState /\ Coherent(r)
        BY Running, ZenonT(40)
  <1>1. CASE Fenced(p)
        <2>1. r.pc = "enumerate" /\ UNCHANGED <<data, guard, control, ckpt, used>>
              /\ Set(p, [[r EXCEPT !.pc = "compare"] EXCEPT !.copy = tgt, !.differs = ("session" \in foreign)])
              BY <1>1, ZenonT(40) DEF Enumerate, Goto
        <2>2. PICK t \in [1..N -> 0..2] : t = tgt
              BY ZenonT(40) DEF MigrationInv, MigrationTypeOK
        <2>3. PICK b \in BOOLEAN : b = ("session" \in foreign)
              <3>1. CASE "session" \in foreign
                    <4>1. TRUE = ("session" \in foreign)
                          BY <3>1
                    <4> QED BY <4>1
              <3>2. CASE "session" \notin foreign
                    <4>1. FALSE = ("session" \in foreign)
                          BY <3>2
                    <4> QED BY <4>1
              <3> QED BY <3>1, <3>2
        <2> DEFINE s == [[r EXCEPT !.pc = "compare"] EXCEPT !.copy = t, !.differs = b]
        <2>4. Set(p, s)
              BY <2>1, <2>2, <2>3, ZenonT(40)
        <2>5. /\ s \in ProcState /\ s.pc = "compare" /\ Kept(r, s) /\ s.ck = r.ck /\ s.copy = t
              BY <1>0 DEF ProcState, Kept, Pc
        <2> HIDE DEF s
        <2>6. r.pc \notin {"ended", "acquire", "begin", "release", "restage"}
              BY <2>1
        <2>7. r.ck.phase \in PhasesAt(r.pc)
              BY <1>0, <2>6, PhaseFacts, ZenonT(40)
        <2>8. s.pc \in InPhase /\ r.ck.phase \in PhasesAt(s.pc) /\ Compares(r, s) /\ s.pc \notin {"fetch", "upsert"}
              BY <2>1, <2>2, <2>5, <2>7 DEF InPhase, PhasesAt, Compares
        <2> QED BY <2>1, <2>4, <2>5, <2>6, <2>8, SameCkStep, ZenonT(40)
  <1>2. CASE ~Fenced(p)
        <2>1. Fail(p)
              BY <1>2, ZenonT(40) DEF Enumerate
        <2> QED BY <2>1, FailStep
  <1> QED BY <1>1, <1>2

\* The lease is renewed before the checkpoint is written, or the run ends.
LEMMA RenewStep ==
    ASSUME MigrationInv, NEW p \in Proc, Renew(p)
    PROVE  MigrationInv'
  <1> DEFINE r == proc[p]
             s == [r EXCEPT !.pc = "save"]
  <1>0. r \in ProcState /\ Coherent(r) /\ StillThere(p)
        BY Running, ZenonT(40)
  <1>1. CASE Fenced(p)
        <2>1. r.pc = "renew" /\ UNCHANGED <<data, guard, control, ckpt, used>> /\ Set(p, s)
              BY <1>1, ZenonT(40) DEF Renew, Goto
        <2>5. /\ s \in ProcState /\ s.pc = "save" /\ Kept(r, s) /\ s.ck = r.ck /\ s.differs = r.differs
              BY <1>0 DEF ProcState, Kept, Pc
        <2> HIDE DEF s
        <2>6. r.pc \notin {"ended", "acquire", "begin", "release", "restage"}
              BY <2>1
        <2>7. r.ck.phase \in Phase
              BY <1>0, <2>6, PhaseFacts, ZenonT(40)
        <2>8. s.pc \in InPhase /\ r.ck.phase \in PhasesAt(s.pc) /\ s.pc \notin {"fetch", "upsert", "compare"}
              BY <2>5, <2>7 DEF InPhase, PhasesAt
        <2>9. Compares(r, s)
              BY <1>0, <1>1, <2>1, <2>5, <2>8, ZenonT(40) DEF Compares, StillThere
        <2> QED BY <2>1, <2>5, <2>6, <2>8, <2>9, SameCkStep, ZenonT(40)
  <1>2. CASE ~Fenced(p)
        <2>1. Fail(p)
              BY <1>2, ZenonT(40) DEF Renew
        <2> QED BY <2>1, FailStep
  <1> QED BY <1>1, <1>2

\* The listing is compared with the source: where they are equal,
\* both are the snapshot of the manifest.
LEMMA CompareStep ==
    ASSUME MigrationInv, NEW p \in Proc, Compare(p)
    PROVE  MigrationInv'
  <1> DEFINE r == proc[p]
             differs == r.differs \/ r.copy # src
  <1>0. r \in ProcState /\ Coherent(r) /\ StillThere(p)
        BY Running, ZenonT(40)
  <1>1. CASE Fenced(p) /\ (differs \/ TotalsMatch(r.mig, src))
        <2>1. r.pc = "compare" /\ UNCHANGED <<data, guard, control, ckpt, used>>
              /\ Set(p, [r EXCEPT !.pc = "renew", !.copy = <<>>, !.differs = differs,
                                  !.ck.seen = src, !.ck.done = ~differs])
              BY <1>1, ZenonT(40) DEF Compare
        <2>2. src \in [1..N -> 1..2]
              BY ZenonT(40) DEF MigrationInv, MigrationTypeOK
        <2>3. PICK q \in Seq(0..2) : q = src
              BY <2>2, MigrationAssumption
        <2>4. PICK d \in BOOLEAN : d = differs
              BY <1>0 DEF ProcState
        <2> DEFINE s == [r EXCEPT !.pc = "renew", !.copy = <<>>, !.differs = d, !.ck.seen = q, !.ck.done = ~d]
        <2>5. Set(p, s)
              BY <2>1, <2>3, <2>4, ZenonT(40)
        <2>6. r.pc \notin {"ended", "acquire", "begin", "release", "restage"}
              BY <2>1
        <2>7. r.ck \in CheckpointRow /\ r.ck.phase = Head(r.todo) /\ r.ck.phase \in PhasesAt(r.pc)
              BY <1>0, <2>6, PhaseFacts, ZenonT(40)
        <2>8. /\ s \in ProcState /\ s.pc = "renew" /\ Kept(r, s)
              /\ s.ck \in CheckpointRow /\ s.ck.phase = r.ck.phase /\ s.differs = d
              BY <1>0, <2>7 DEF ProcState, Kept, CheckpointRow, Pc
        <2> HIDE DEF s
        <2>9. r.ck.phase \in {"shadow-read", "verify"}
              BY <2>1, <2>7 DEF PhasesAt
        <2>10. s.ck # Nothing
              BY <2>8, RowThere, ZenonT(40)
        <2>11. Sound(s.ck) /\ s.pc \in InPhase /\ s.pc \notin {"begin", "fetch", "upsert", "compare"}
               /\ s.ck.phase \in PhasesAt(s.pc) /\ r.pc \notin {"ended", "acquire"}
              BY <2>1, <2>8, <2>9, PhaseSet DEF Sound, InPhase, PhasesAt
        <2>12. s.todo = r.todo
              BY <2>8 DEF Kept
        <2>13. Compares(r, s)
              <3>1. r.copy = tgt
                    BY <1>0, <1>1, <2>1, ZenonT(40) DEF StillThere
              <3>2. ~s.differs => tgt = man[r.mig].snap
                    BY <1>1, <2>4, <2>8, <3>1 DEF TotalsMatch
              <3> QED BY <2>8, <3>2, <2>11, ZenonT(40) DEF Compares
        <2> QED BY <2>1, <2>5, <2>7, <2>8, <2>10, <2>11, <2>12, <2>13, MoveStep, ZenonT(40)
  <1>2. CASE ~(Fenced(p) /\ (differs \/ TotalsMatch(r.mig, src)))
        <2>1. Fail(p)
              BY <1>2, ZenonT(40) DEF Compare
        <2> QED BY <2>1, FailStep
  <1> QED BY <1>1, <1>2

\* The state of a process that ended promises nothing.
LEMMA EndFacts ==
    ASSUME NEW p \in Proc, NEW s, proc'[p] = s, s.pc = "ended", s.passed = {}, s.ck = Nothing,
           s.mode = "single"
    PROVE  Coherent(s) /\ EndsWell(p)' /\ Manifested(p)' /\ StillThere(p)'
  <1>1. Coherent(s)
        BY DEF Coherent
  <1>2. EndsWell(p)' /\ Manifested(p)' /\ StillThere(p)'
        BY DEF EndsWell, Manifested, StillThere
  <1> QED BY <1>1, <1>2

\* A process that copies has not compared yet.
LEMMA CopiesFirst ==
    ASSUME NEW r \in ProcState, Coherent(r), r.pc \in {"fetch", "upsert"}
    PROVE  "shadow-read" \notin r.passed
  <1>1. r.ck.phase = "backfill" /\ r.ck.phase = Head(r.todo) /\ r.todo # <<>>
        BY PageThere, ZenonT(40) DEF Coherent
  <1>2. r.todo \in Seq(Phase)
        BY DEF ProcState
  <1>3. 1 \in 1..Len(r.todo) /\ r.todo[1] = "backfill"
        BY <1>1, <1>2
  <1>4. r.mode = "single" => r.passed = {}
        BY ZenonT(40) DEF Coherent
  <1>5. r.mode # "single" => Planned(r.todo, r.passed, Terminal(r.mig))
        BY ZenonT(40) DEF Coherent
  <1>6. CASE r.mode = "single"
        BY <1>4, <1>6
  <1>7. CASE r.mode # "single"
        BY <1>3, <1>5, <1>7, ZenonT(40) DEF Planned
  <1> QED BY <1>6, <1>7

\* The checkpoint is written without a fence: a process that lost its lease may
\* still do so, and of a stored one nothing is claimed but that it is sound.
LEMMA SaveStep ==
    ASSUME MigrationInv, NEW p \in Proc, Save(p)
    PROVE  MigrationInv'
  <1> DEFINE r == proc[p]
  <1>0. r \in ProcState /\ Coherent(r) /\ EndsWell(p) /\ Manifested(p) /\ StillThere(p) /\ used \in Nat
        /\ proc \in [Proc -> ProcState]
        BY Running, ZenonT(40)
  <1>1. /\ r.pc = "save" /\ ckpt' = [ckpt EXCEPT ![r.mig] = r.ck]
        /\ UNCHANGED data /\ UNCHANGED <<guard, control>> /\ used' = used
        BY DEF Save
  <1>2. r.pc \notin {"ended", "acquire", "begin", "release", "restage"}
        BY <1>1
  <1>3. r.ck \in CheckpointRow /\ r.ck # Nothing /\ Sound(r.ck) /\ r.ck.phase = Head(r.todo) /\ r.ck.phase \in Phase
        BY <1>0, <1>2, PhaseFacts, ZenonT(40)
  <1>4. ckpt \in [Mig -> CheckpointRow \cup {Nothing}] /\ \A m \in Mig : ckpt[m] # Nothing => Sound(ckpt[m])
        BY ZenonT(40) DEF MigrationInv, MigrationTypeOK, ProcInv
  <1>5. r.mig \in Mig
        BY <1>0 DEF ProcState
  <1>6. /\ ckpt' \in [Mig -> CheckpointRow \cup {Nothing}]
        /\ \A m \in Mig : ckpt'[m] = r.ck \/ ckpt'[m] = ckpt[m]
        BY <1>1, <1>3, <1>4, <1>5
  <1>7. \A m \in Mig : ckpt'[m] # Nothing => Sound(ckpt'[m])
        BY <1>3, <1>4, <1>6, ZenonT(40)
  <1>8. src' = src /\ tgt' = tgt /\ foreign' = foreign /\ pending' = pending /\ man' = man
        BY <1>1, Groups
  <1>9. tgt' \in [1..N -> 0..2] /\ used' \in Nat
        BY <1>0, <1>1, <1>8, ZenonT(40) DEF MigrationInv, MigrationTypeOK
  <1>10. CASE Set(p, Ends("fail"))
        <2>1. proc'[p] = Ends("fail")
              BY <1>0, <1>10 DEF Set
        <2>2. /\ Ends("fail") \in ProcState /\ Ends("fail").pc = "ended" /\ Ends("fail").passed = {}
              /\ Ends("fail").ck = Nothing /\ Ends("fail").mode = "single"
              BY EndedIs, ZenonT(40)
        <2>3. Coherent(Ends("fail")) /\ EndsWell(p)' /\ Manifested(p)' /\ StillThere(p)'
              BY <2>1, <2>2, EndFacts, ZenonT(40)
        <2> QED BY <1>1, <1>6, <1>7, <1>8, <1>9, <1>10, <2>2, <2>3, DataFrame, ZenonT(40)
  <1>11. ASSUME NEW x \in {"fetch", "check"}, Set(p, Goto(p, x)),
                x = "fetch" => r.ck.phase = "backfill" /\ ~r.ck.done
        PROVE  MigrationInv'
        <2> DEFINE s == [r EXCEPT !.pc = x]
        <2>1. Set(p, s)
              BY <1>11, ZenonT(40) DEF Goto
        <2>2. proc'[p] = s
              BY <1>0, <2>1 DEF Set
        <2>3. /\ s \in ProcState /\ s.pc = x /\ Kept(r, s) /\ s.ck = r.ck /\ s.differs = r.differs
              BY <1>0 DEF ProcState, Kept, Pc
        <2> HIDE DEF s
        <2>4. s.pc \in InPhase /\ s.ck.phase \in PhasesAt(s.pc) /\ s.pc \notin {"begin", "upsert", "compare"}
              BY <1>3, <1>11, <2>3 DEF InPhase, PhasesAt
        <2>5. s.todo = r.todo /\ s.mig = r.mig /\ s.passed = r.passed
              BY <2>3 DEF Kept
        <2>6. s.pc # "begin" => s.ck # Nothing /\ s.ck.phase = Head(s.todo) /\ s.ck.phase \in PhasesAt(s.pc)
              BY <1>3, <2>3, <2>4, <2>5, ZenonT(40)
        <2>7. r.pc \notin {"ended", "acquire"} /\ (s.pc \in {"fetch", "upsert"} => ~s.ck.done)
              BY <1>1, <1>11, <2>3
        <2>8. Coherent(s)
              BY <1>0, <1>3, <2>3, <2>4, <2>6, <2>7, CoherentMove, ZenonT(40)
        <2>9. EndsWell(p)' /\ Manifested(p)' /\ (Fenced(p)' <=> Fenced(p))
              BY <1>0, <1>1, <2>2, <2>3, <2>4, <2>7, MoveKeeps, ZenonT(40)
        <2>10. StillThere(p)'
              <3>1. r.ck.phase = "shadow-read" /\ ~r.differs /\ Fenced(p) => tgt = man[r.mig].snap
                    BY <1>0, <1>1, ZenonT(40) DEF StillThere
              <3>2. "shadow-read" \in r.passed /\ Fenced(p) => tgt = man[r.mig].snap
                    BY <1>0, ZenonT(40) DEF StillThere
              <3> QED BY <1>8, <2>2, <2>3, <2>4, <2>5, <2>9, <3>1, <3>2, ZenonT(40) DEF StillThere
        <2> QED BY <1>1, <1>6, <1>7, <1>8, <1>9, <2>1, <2>3, <2>8, <2>9, <2>10, DataFrame, ZenonT(40)
  <1>12. \/ Set(p, Ends("fail"))
         \/ Set(p, Goto(p, "fetch")) /\ r.ck.phase = "backfill" /\ ~r.ck.done
         \/ Set(p, Goto(p, "check"))
        BY ZenonT(40) DEF Save
  <1>13. CASE Set(p, Goto(p, "fetch")) /\ r.ck.phase = "backfill" /\ ~r.ck.done
        BY <1>11, <1>13
  <1>14. CASE Set(p, Goto(p, "check"))
        BY <1>11, <1>14
  <1> QED BY <1>10, <1>12, <1>13, <1>14

\* The record that is written under the fence.
LEMMA UpsertWrites ==
    ASSUME MigrationInv, NEW p \in Proc, proc[p].pc = "upsert", Fenced(p),
           NEW s \in ProcState, Set(p, s), Coherent(s),
           \/ s.pc = "ended" /\ s.passed = {} /\ s.ck = Nothing /\ s.mode = "single"
           \/ s.pc = "renew" /\ s.ck.phase = "backfill" /\ Kept(proc[p], s),
           tgt' = [tgt EXCEPT ![Len(proc[p].ck.seen) + 1] = proc[p].page],
           UNCHANGED <<src, foreign, pending, guard, control, ckpt, used>>
    PROVE  MigrationInv'
  <1> DEFINE r == proc[p]
  <1>0. r \in ProcState /\ Coherent(r) /\ EndsWell(p) /\ Manifested(p) /\ StillThere(p) /\ used \in Nat
        /\ proc \in [Proc -> ProcState]
        BY Running, ZenonT(40)
  <1>1. /\ src' = src /\ foreign' = foreign /\ pending' = pending /\ UNCHANGED <<guard, control>>
        /\ ckpt' = ckpt /\ used' = used
        OBVIOUS
  <1>2. proc'[p] = s
        BY <1>0 DEF Set
  <1>3. tgt \in [1..N -> 0..2] /\ ckpt \in [Mig -> CheckpointRow \cup {Nothing}]
        /\ \A m \in Mig : ckpt[m] # Nothing => Sound(ckpt[m])
        BY ZenonT(40) DEF MigrationInv, MigrationTypeOK, ProcInv
  <1>4. tgt' \in [1..N -> 0..2]
        <2>1. r.page \in 0..2
              BY <1>0 DEF ProcState
        <2> QED BY <1>3, <2>1
  <1>5. EndsWell(p)' /\ Manifested(p)' /\ StillThere(p)'
        <2>1. CASE s.pc = "ended" /\ s.passed = {} /\ s.ck = Nothing /\ s.mode = "single"
              BY <1>2, <2>1, EndFacts, ZenonT(40)
        <2>2. CASE s.pc = "renew" /\ s.ck.phase = "backfill" /\ Kept(r, s)
              <3>1. s.pc \in InPhase /\ r.pc \notin {"ended", "acquire"} /\ s.pc # "compare"
                    BY <2>2 DEF InPhase
              <3>2. EndsWell(p)' /\ Manifested(p)'
                    BY <1>0, <1>1, <1>2, <2>2, <3>1, MoveKeeps, ZenonT(40)
              <3>3. "shadow-read" \notin s.passed
                    <4>1. "shadow-read" \notin r.passed
                          BY <1>0, CopiesFirst
                    <4> QED BY <2>2, <4>1 DEF Kept
              <3>4. s.ck.phase # "shadow-read"
                    BY <2>2
              <3>5. StillThere(p)'
                    BY <1>2, <3>1, <3>3, <3>4, ZenonT(40) DEF StillThere
              <3> QED BY <3>2, <3>5
        <2> QED BY <2>1, <2>2
  <1>6. used' \in Nat /\ ckpt' \in [Mig -> CheckpointRow \cup {Nothing}]
        /\ \A m \in Mig : ckpt'[m] # Nothing => Sound(ckpt'[m])
        BY <1>0, <1>1, <1>3, ZenonT(40)
  <1> QED BY <1>1, <1>4, <1>5, <1>6, DataFrame, ZenonT(40)

\* A record is copied to the target under the fence.  No other process has one,
\* so nobody loses what it compared.
LEMMA UpsertStep ==
    ASSUME MigrationInv, NEW p \in Proc, Upsert(p)
    PROVE  MigrationInv'
  <1> DEFINE r == proc[p]
             at == Len(r.ck.seen) + 1
             seen == Append(r.ck.seen, r.page)
  <1>0. r \in ProcState /\ Coherent(r) /\ r.pc = "upsert"
        BY Running, ZenonT(40) DEF Upsert
  <1>1. CASE r.probe /\ at > 1
        <2> DEFINE s == [r EXCEPT !.pc = "begin", !.probe = FALSE]
        <2>1. Set(p, s) /\ UNCHANGED <<data, guard, control, ckpt, used>>
              BY <1>1, ZenonT(40) DEF Upsert
        <2>2. s \in ProcState /\ s.pc = "begin" /\ s.ck = r.ck /\ Kept(r, s)
              BY <1>0 DEF ProcState, Kept, Pc
        <2> HIDE DEF s
        <2>3. /\ s.pc \in InPhase /\ Compares(r, s) /\ r.pc \notin {"ended", "acquire"}
              /\ s.pc \notin {"fetch", "upsert"}
              BY <1>0, <2>2 DEF InPhase, Compares
        <2>4. s.ck # Nothing => Sound(s.ck)
              BY <1>0, <2>2, ZenonT(40) DEF Coherent
        <2> QED BY <2>1, <2>2, <2>3, <2>4, MoveStep, ZenonT(40)
  <1>2. CASE ~(r.probe /\ at > 1) /\ ~Fenced(p)
        <2>1. Fail(p)
              BY <1>2, ZenonT(40) DEF Upsert
        <2> QED BY <2>1, FailStep
  <1>3. CASE ~(r.probe /\ at > 1) /\ Fenced(p)
        <2>1. /\ tgt' = [tgt EXCEPT ![at] = r.page]
              /\ UNCHANGED <<src, foreign, pending, guard, control, ckpt, used>>
              /\ \/ Set(p, Ends("fail"))
                 \/ Set(p, [r EXCEPT !.pc = "renew", !.page = 0, !.ck.seen = seen, !.ck.done = (at = N)])
              BY <1>3, ZenonT(40) DEF Upsert
        <2>2. CASE Set(p, Ends("fail"))
              <3>1. /\ Ends("fail") \in ProcState /\ Ends("fail").pc = "ended" /\ Ends("fail").passed = {}
                    /\ Ends("fail").ck = Nothing /\ Ends("fail").mode = "single"
                    BY EndedIs, ZenonT(40)
              <3>2. Coherent(Ends("fail"))
                    BY <3>1 DEF Coherent
              <3> QED BY <1>0, <1>3, <2>1, <2>2, <3>1, <3>2, UpsertWrites, ZenonT(40)
        <2>3. CASE Set(p, [r EXCEPT !.pc = "renew", !.page = 0, !.ck.seen = seen, !.ck.done = (at = N)])
              <3>1. /\ r.ck \in CheckpointRow /\ r.ck.phase = "backfill" /\ ~r.ck.done
                    /\ Len(r.ck.seen) \in Nat /\ Len(r.ck.seen) + 1 \in 1..N
                    BY <1>0, PageThere, ZenonT(40)
              <3>2. r.page \in 0..2 /\ r.ck.seen \in Seq(0..2)
                    BY <1>0, <3>1 DEF ProcState, CheckpointRow
              <3>3. PICK q \in Seq(0..2) : q = seen /\ Len(q) = at
                    <4> DEFINE e == r.ck.seen
                               v == r.page
                    <4>1. e \in Seq(0..2) /\ v \in 0..2
                          BY <3>2
                    <4> HIDE DEF e, v
                    <4>2. Append(e, v) \in Seq(0..2) /\ Len(Append(e, v)) = Len(e) + 1
                          BY <4>1
                    <4> QED BY <4>2 DEF e, v
              <3>4. PICK a \in Nat : a = at
                    BY <3>1
              <3>5. PICK v \in 0..2 : v = 0
                    OBVIOUS
              <3> DEFINE s == [r EXCEPT !.pc = "renew", !.page = v, !.ck.seen = q, !.ck.done = (a = N)]
              <3>6. Set(p, s)
                    BY <2>3, <3>3, <3>4, <3>5, ZenonT(40)
              <3>7. /\ s \in ProcState /\ s.pc = "renew" /\ Kept(r, s)
                    BY <1>0, <3>1 DEF ProcState, Kept, CheckpointRow, Pc
              <3>8. /\ s.ck \in CheckpointRow /\ s.ck.phase = r.ck.phase
                    /\ s.ck.seen = q /\ (s.ck.done <=> a = N)
                    BY <1>0, <3>1 DEF ProcState, CheckpointRow
              <3> HIDE DEF s
              <3>9. s.ck # Nothing
                    BY <3>8, RowThere, ZenonT(40)
              <3>10. Sound(s.ck)
                    BY <3>1, <3>3, <3>4, <3>8, MigrationAssumption DEF Sound
              <3>11. /\ s.ck.phase \in PhasesAt(s.pc) /\ s.pc \in InPhase /\ r.pc \notin {"ended", "acquire"}
                     /\ s.pc \notin {"fetch", "upsert"}
                    BY <1>0, <3>1, <3>7, <3>8, PhaseSet DEF PhasesAt, InPhase
              <3>12. s.ck.phase = Head(s.todo)
                    <4>1. s.todo = r.todo
                          BY <3>7 DEF Kept
                    <4>2. r.ck.phase = Head(r.todo)
                          BY <1>0 DEF Coherent
                    <4> QED BY <3>8, <4>1, <4>2
              <3>13. Coherent(s)
                    BY <1>0, <3>7, <3>9, <3>10, <3>11, <3>12, CoherentMove, ZenonT(40)
              <3>14. s.pc = "renew" /\ s.ck.phase = "backfill" /\ Kept(r, s)
                    BY <3>1, <3>7, <3>8, ZenonT(40)
              <3> QED BY <1>0, <1>3, <2>1, <3>6, <3>7, <3>13, <3>14, UpsertWrites, ZenonT(40)
        <2> QED BY <2>1, <2>2, <2>3
  <1> QED BY <1>1, <1>2, <1>3

\* The phases of a run, when it starts.
LEMMA TodoIs ==
    ASSUME NEW mode \in {"single", "production", "acceptance"}, NEW mig, NEW ph,
           mode = "single" => ph \in Phase
    PROVE  /\ Todo(mode, mig, ph) \in Seq(Phase) /\ Todo(mode, mig, ph) # <<>>
           /\ mode = "single" => Len(Todo(mode, mig, ph)) = 1
           /\ mode # "single" => Head(Todo(mode, mig, ph)) = "prepare"
           /\ mode = "production" => Planned(Todo(mode, mig, ph), {}, "rollback")
           /\ mode = "acceptance" => Planned(Todo(mode, mig, ph), {}, Terminal(mig))
  <1>1. CASE mode = "single"
        <2>1. Todo(mode, mig, ph) = <<ph>>
              BY <1>1 DEF Todo
        <2>2. <<ph>> \in Seq(Phase) /\ Len(<<ph>>) = 1 /\ <<ph>> # <<>>
              BY <1>1
        <2> QED BY <1>1, <2>1, <2>2
  <1>2. CASE mode = "production"
        <2>1. Todo(mode, mig, ph) = Append(Order, "rollback")
              BY <1>2 DEF Todo
        <2> QED BY <1>2, <2>1, Plans
  <1>3. CASE mode = "acceptance" /\ mig = "cleanup"
        <2>1. Todo(mode, mig, ph) = Order /\ Terminal(mig) = "cleanup"
              BY <1>3 DEF Todo, Terminal
        <2> QED BY <1>3, <2>1, Plans
  <1>4. CASE mode = "acceptance" /\ mig # "cleanup"
        <2>1. Todo(mode, mig, ph) = Append(BeforeCleanup, "rollback") /\ Terminal(mig) = "rollback"
              BY <1>4 DEF Todo, Terminal
        <2> QED BY <1>4, <2>1, Plans
  <1> QED BY <1>1, <1>2, <1>3, <1>4

\* A command starts a process at its first phase, with nothing passed.
LEMMA StartStep ==
    ASSUME MigrationInv, NEW p \in Proc, NEW c \in Command, Start(p, c.mode, c.phase)
    PROVE  MigrationInv'
  <1> DEFINE mig == IF c.mode = "acceptance" THEN "rollback" ELSE "main"
             todo == Todo(c.mode, mig, c.phase)
  <1>0. proc \in [Proc -> ProcState] /\ used \in Nat
        BY Running, ZenonT(40)
  <1>1. /\ c.mode \in Modes /\ c.mode \in {"single", "production", "acceptance"}
        /\ c.mode = "single" => c.phase \in Phase
        BY MigrationAssumption DEF Command
  <1>2. mig \in Mig
        BY <1>1, MigIs
  <1>3. PICK m \in Mig : m = mig
        BY <1>2
  <1>4. PICK d \in {"single", "production", "acceptance"} : d = c.mode
        BY <1>1
  <1>5. PICK t \in Seq(Phase) : t = todo
        BY <1>1, TodoIs
  <1>6. PICK n \in Snapshot : n = src
        <2>1. src \in [1..N -> 1..2]
              BY ZenonT(40) DEF MigrationInv, MigrationTypeOK
        <2> QED BY <2>1 DEF Snapshot
  <1>7. PICK b \in BOOLEAN : b = (c.mode = "acceptance")
        <2>1. CASE c.mode = "acceptance"
              <3>1. TRUE = (c.mode = "acceptance")
                    BY <2>1
              <3> QED BY <3>1
        <2>2. CASE c.mode # "acceptance"
              <3>1. FALSE = (c.mode = "acceptance")
                    BY <2>2
              <3> QED BY <3>1
        <2> QED BY <2>1, <2>2
  <1> DEFINE s == [Ended EXCEPT !.pc = "acquire", !.mode = d, !.mig = m, !.todo = t, !.snap = n, !.probe = b]
  <1>8. Set(p, s) /\ UNCHANGED <<data, guard, control, ckpt, used>>
        BY <1>3, <1>4, <1>5, <1>6, <1>7, ZenonT(40) DEF Start
  <1>9. Ended \in ProcState /\ Ended.passed = {} /\ Ended.ck = Nothing
        BY EndedIs
  <1>10. /\ s \in ProcState /\ s.pc = "acquire" /\ s.mode = d /\ s.mig = m /\ s.todo = t
         /\ s.passed = {} /\ s.ck = Nothing
        BY <1>9 DEF ProcState, Pc
  <1> HIDE DEF s
  <1>11. t # <<>> /\ (d = "single" => Len(t) = 1) /\ (d # "single" => Head(t) = "prepare")
         /\ (d # "single" => Planned(t, {}, Terminal(m)))
        <2>1. d = "production" => Terminal(m) = "rollback"
              BY <1>3, <1>4 DEF Terminal
        <2> QED BY <1>1, <1>3, <1>4, <1>5, <2>1, TodoIs
  <1>12. m \in (IF d = "acceptance" THEN Branches ELSE {"main"}) /\ m # "cleanup"
        BY <1>3, <1>4 DEF Branches
  <1>13. Coherent(s)
        BY <1>1, <1>4, <1>10, <1>11, <1>12 DEF Coherent
  <1>14. proc'[p] = s
        BY <1>0, <1>8 DEF Set
  <1>15. EndsWell(p)' /\ Manifested(p)' /\ StillThere(p)'
        BY <1>10, <1>12, <1>14 DEF EndsWell, Manifested, StillThere
  <1>16. UNCHANGED <<data, guard, control, ckpt>> /\ used' \in Nat
        BY <1>0, <1>8
  <1> QED BY <1>8, <1>10, <1>13, <1>15, <1>16, QuietFrame, ZenonT(40)

\* A step of no process, which moves no pointer, no manifest and no checkpoint.
LEMMA EnvFrame ==
    ASSUME MigrationInv, MigrationTypeOK', proc' = proc, man' = man, tgt' = tgt, barrier' = barrier,
           ctl' = ctl, app'.active = app.active, ckpt' = ckpt,
           \A m \in Mig : lease'[m] = lease[m] \/ ~lease'[m].live
    PROVE  MigrationInv'
  <1>0. MigrationTypeOK /\ ProcInv /\ LeaseInv /\ BarrierCoversTarget
        BY ZenonT(40) DEF MigrationInv
  <1>1. /\ Consistent' /\ \A m \in Mig : AtTarget(m)' <=> AtTarget(m)
        /\ \A m \in Mig : ctl[m] # Nothing =>
                             ctl'[m] # Nothing /\ (ctl[m].rolled => ctl'[m].rolled)
        BY ControlKeeps, ZenonT(40)
  <1>2. "main" \in Mig /\ ctl'["main"] # Nothing => AloneOnTarget'
        BY ManKeeps, ZenonT(40)
  <1>3. LeaseInv' /\ BarrierCoversTarget'
        BY <1>0, <1>1, ZenonT(40) DEF LeaseInv, BarrierCoversTarget
  <1>4. \A m \in Mig : ckpt'[m] # Nothing => Sound(ckpt'[m])
        BY <1>0, ZenonT(40) DEF ProcInv
  <1>5. ASSUME NEW q \in Proc PROVE Untouched(q)
        <2>1. proc'[q] = proc[q]
              BY ZenonT(40)
        <2>2. Manifested(q) => Manifested(q)'
              BY <2>1, ManKeeps, ZenonT(40)
        <2>3. Fenced(q)' => Fenced(q)
              <3>1. proc[q].mig \in Mig
                    BY <1>0, BranchExists, ZenonT(40)
              <3>2. Fenced(q)' => lease'[proc[q].mig].live
                    BY <2>1 DEF Fenced
              <3> QED BY <2>1, <3>1, <3>2, ZenonT(40) DEF Fenced
        <2> QED BY <2>1, <2>2, <2>3, ZenonT(40) DEF Untouched
  <1> QED BY <1>1, <1>2, <1>3, <1>4, <1>5, Frame, ZenonT(60)

\* A lease runs out.
LEMMA ExpireStep ==
    ASSUME MigrationInv, NEW m \in Mig, Expire(m)
    PROVE  MigrationInv'
  <1>0. MigrationTypeOK
        BY ZenonT(40) DEF MigrationInv
  <1>1. /\ lease' = [lease EXCEPT ![m].live = FALSE]
        /\ UNCHANGED <<data, man, barrier, control, ckpt, proc>>
        /\ used' = used + 1 \/ used' = used
        BY ZenonT(40) DEF Expire
  <1>2. /\ src' = src /\ tgt' = tgt /\ foreign' = foreign /\ pending' = pending
        /\ man' = man /\ barrier' = barrier /\ ctl' = ctl /\ app' = app /\ ckpt' = ckpt /\ proc' = proc
        BY <1>1, Groups
  <1>3. lease \in [Mig -> [owner : Proc \cup {Nothing}, live : BOOLEAN]] /\ used \in Nat
        BY <1>0, ZenonT(40) DEF MigrationTypeOK
  <1>4. /\ lease' \in [Mig -> [owner : Proc \cup {Nothing}, live : BOOLEAN]]
        /\ \A n \in Mig : lease'[n] = lease[n] \/ ~lease'[n].live
        BY <1>1, <1>3
  <1>5. used' \in Nat
        BY <1>1, <1>3
  <1>6. MigrationTypeOK'
        BY <1>0, <1>2, <1>4, <1>5, ZenonT(40) DEF MigrationTypeOK
  <1> QED BY <1>2, <1>4, <1>6, EnvFrame, ZenonT(40)

\* The runtime writes the source.
LEMMA SourceWriteStep ==
    ASSUME MigrationInv, NEW i \in 1..N, SourceWrite(i)
    PROVE  MigrationInv'
  <1>0. MigrationTypeOK
        BY ZenonT(40) DEF MigrationInv
  <1>1. /\ src' = [src EXCEPT ![i] = 3 - src[i]]
        /\ UNCHANGED <<tgt, foreign, pending, guard, control, ckpt, proc>>
        /\ used' = used + 1 \/ used' = used
        BY DEF SourceWrite
  <1>2. /\ tgt' = tgt /\ foreign' = foreign /\ pending' = pending /\ lease' = lease
        /\ man' = man /\ barrier' = barrier /\ ctl' = ctl /\ app' = app /\ ckpt' = ckpt /\ proc' = proc
        BY <1>1, Groups
  <1>3. src \in [1..N -> 1..2] /\ used \in Nat
        BY <1>0, ZenonT(40) DEF MigrationTypeOK
  <1>4. src' \in [1..N -> 1..2]
        <2>1. src[i] \in 1..2
              BY <1>3
        <2>2. 3 - src[i] \in 1..2
              BY <2>1
        <2> QED BY <1>1, <1>3, <2>2
  <1>5. used' \in Nat
        BY <1>1, <1>3
  <1>6. MigrationTypeOK'
        BY <1>0, <1>2, <1>4, <1>5, ZenonT(40) DEF MigrationTypeOK
  <1> QED BY <1>2, <1>6, EnvFrame, ZenonT(40)

\* Normal traffic.
LEMMA StatementStep ==
    ASSUME MigrationInv, NEW k \in Traffic, Statement(k)
    PROVE  MigrationInv'
  <1>0. MigrationTypeOK
        BY ZenonT(40) DEF MigrationInv
  <1>1. /\ pending' = pending \cup {k} /\ used' = used + 1
        /\ UNCHANGED <<src, tgt, foreign, guard, control, ckpt, proc>>
        BY DEF Statement
  <1>2. /\ src' = src /\ tgt' = tgt /\ foreign' = foreign /\ lease' = lease
        /\ man' = man /\ barrier' = barrier /\ ctl' = ctl /\ app' = app /\ ckpt' = ckpt /\ proc' = proc
        BY <1>1, Groups
  <1>3. pending \subseteq Traffic /\ used \in Nat
        BY <1>0, ZenonT(40) DEF MigrationTypeOK
  <1>4. pending' \subseteq Traffic /\ used' \in Nat
        BY <1>1, <1>3
  <1>5. MigrationTypeOK'
        BY <1>0, <1>2, <1>4, ZenonT(40) DEF MigrationTypeOK
  <1> QED BY <1>2, <1>5, EnvFrame, ZenonT(40)

\* A transaction of the traffic ends; it can move the version of the app.
LEMMA CommitStep ==
    ASSUME MigrationInv, NEW k \in Traffic, Commit(k)
    PROVE  MigrationInv'
  <1>0. MigrationTypeOK
        BY ZenonT(40) DEF MigrationInv
  <1>1. /\ pending' = pending \ {k} /\ foreign' = foreign \cup {k}
        /\ app' = [app EXCEPT !.ver = app.ver + 1] \/ app' = app
        /\ UNCHANGED <<src, tgt, guard, ctl, ckpt, proc, used>>
        BY DEF Commit
  <1>2. /\ src' = src /\ tgt' = tgt /\ lease' = lease /\ used' = used
        /\ man' = man /\ barrier' = barrier /\ ctl' = ctl /\ ckpt' = ckpt /\ proc' = proc
        BY <1>1, Groups
  <1>3. /\ pending \subseteq Traffic /\ foreign \subseteq Traffic
        /\ app \in [active : {"source", "target"}, candidate : BOOLEAN, ver : Nat]
        BY <1>0, ZenonT(40) DEF MigrationTypeOK
  <1>4. pending' \subseteq Traffic /\ foreign' \subseteq Traffic
        BY <1>1, <1>3
  <1>5. app' \in [active : {"source", "target"}, candidate : BOOLEAN, ver : Nat] /\ app'.active = app.active
        BY <1>1, <1>3
  <1>6. MigrationTypeOK'
        BY <1>0, <1>2, <1>4, <1>5, ZenonT(40) DEF MigrationTypeOK
  <1> QED BY <1>2, <1>5, <1>6, EnvFrame, ZenonT(40)

\* The second branch of the acceptance begins.
LEMMA RestageStep ==
    ASSUME MigrationInv, NEW p \in Proc, Restage(p)
    PROVE  MigrationInv'
  <1> DEFINE r == proc[p]
  <1>0. /\ r \in ProcState /\ Coherent(r) /\ EndsWell(p) /\ Manifested(p) /\ proc \in [Proc -> ProcState]
        BY Running, ZenonT(40)
  <1>1. CASE ~(app.active = "source" /\ ~app.candidate)
        <2>1. Fail(p)
              BY <1>1, ZenonT(40) DEF Restage
        <2> QED BY <2>1, FailStep
  <1>2. CASE app.active = "source" /\ ~app.candidate
        <2>0. MigrationTypeOK /\ ProcInv /\ LeaseInv /\ BarrierCoversTarget
              BY ZenonT(40) DEF MigrationInv
        <2>1. /\ r.pc = "restage" /\ app' = [app EXCEPT !.candidate = TRUE]
              /\ Set(p, [r EXCEPT !.pc = "acquire", !.mig = "cleanup", !.rev = app.ver,
                                  !.todo = Todo("acceptance", "cleanup", Nothing),
                                  !.ck = Nothing, !.passed = {}])
              /\ UNCHANGED <<data, guard, ctl, ckpt, used>>
              BY <1>2, ZenonT(40) DEF Restage
        <2>2. /\ src' = src /\ tgt' = tgt /\ foreign' = foreign /\ pending' = pending /\ lease' = lease
              /\ man' = man /\ barrier' = barrier /\ ctl' = ctl /\ ckpt' = ckpt /\ used' = used
              BY <2>1, Groups
        <2>3. app \in [active : {"source", "target"}, candidate : BOOLEAN, ver : Nat]
              BY <2>0, ZenonT(40) DEF MigrationTypeOK
        <2>4. app' \in [active : {"source", "target"}, candidate : BOOLEAN, ver : Nat] /\ app'.active = app.active
              BY <2>1, <2>3
        <2>5. r.mode = "acceptance" /\ r.mig = "rollback" /\ r.mode \in Modes
              BY <1>0, <2>1 DEF Coherent
        <2>6. PICK m \in Mig : m = "cleanup"
              BY <2>5, MigIs
        <2>7. PICK v \in Nat : v = app.ver
              BY <2>3
        <2>8. PICK t \in Seq(Phase) : t = Todo("acceptance", "cleanup", Nothing)
              BY TodoIs
        <2> DEFINE s == [r EXCEPT !.pc = "acquire", !.mig = m, !.rev = v, !.todo = t, !.ck = Nothing, !.passed = {}]
        <2>9. Set(p, s)
              BY <2>1, <2>6, <2>7, <2>8, ZenonT(40)
        <2>10. /\ s \in ProcState /\ s.pc = "acquire" /\ s.mode = r.mode /\ s.mig = m /\ s.todo = t
               /\ s.passed = {} /\ s.ck = Nothing
              BY <1>0 DEF ProcState, Pc
        <2> HIDE DEF s
        <2>11. t # <<>> /\ Head(t) = "prepare" /\ Planned(t, {}, Terminal(m))
              BY <2>6, <2>8, TodoIs
        <2>12. Coherent(s)
              BY <2>5, <2>6, <2>10, <2>11 DEF Coherent, Branches
        <2>13. /\ proc' \in [Proc -> ProcState] /\ proc'[p] = s
               /\ \A q \in Proc : q # p => proc'[q] = proc[q]
              BY <1>0, <2>9, <2>10 DEF Set
        <2>14. EndsWell(p)'
              <3>1. Rolled("rollback")
                    BY <1>0, <2>1 DEF EndsWell
              <3>2. Rolled("rollback")'
                    BY <2>2, <3>1, ZenonT(40) DEF Rolled
              <3> QED BY <2>10, <2>13, <3>2 DEF EndsWell
        <2>15. Manifested(p)'
              <3>1. man["rollback"] # Nothing
                    BY <1>0, <2>1, <2>5 DEF Manifested
              <3> QED BY <2>2, <2>5, <2>10, <2>13, <3>1 DEF Manifested
        <2>16. StillThere(p)'
              BY <2>10, <2>13 DEF StillThere
        <2>17. Good(p)'
              BY <2>12, <2>13, <2>14, <2>15, <2>16, ZenonT(40) DEF Good
        <2>18. MigrationTypeOK'
              BY <2>0, <2>2, <2>4, <2>13, ZenonT(40) DEF MigrationTypeOK
        <2>19. ASSUME NEW q \in Proc, q # p PROVE Untouched(q)
              <3>1. proc'[q] = proc[q]
                    BY <2>13, <2>19, ZenonT(40)
              <3>2. Manifested(q) => Manifested(q)'
                    BY <2>2, <3>1, ManKeeps, ZenonT(40)
              <3>3. Fenced(q)' => Fenced(q)
                    BY <2>2, <3>1, ZenonT(40) DEF Fenced
              <3> QED BY <2>2, <3>1, <3>2, <3>3, ZenonT(40) DEF Untouched
        <2>20. /\ Consistent' /\ \A n \in Mig : AtTarget(n)' <=> AtTarget(n)
               /\ \A n \in Mig : ctl[n] # Nothing =>
                                    ctl'[n] # Nothing /\ (ctl[n].rolled => ctl'[n].rolled)
              BY <2>2, <2>4, ControlKeeps, ZenonT(40)
        <2>21. "main" \in Mig /\ ctl'["main"] # Nothing => AloneOnTarget'
              BY <2>2, ManKeeps, ZenonT(40)
        <2>22. LeaseInv' /\ BarrierCoversTarget'
              BY <2>0, <2>2, <2>20, ZenonT(40) DEF LeaseInv, BarrierCoversTarget
        <2>23. \A n \in Mig : ckpt'[n] # Nothing => Sound(ckpt'[n])
              BY <2>0, <2>2, ZenonT(40) DEF ProcInv
        <2>24. \A q \in Proc : Untouched(q) \/ Good(q)'
              BY <2>17, <2>19, ZenonT(40)
        <2> QED BY <2>18, <2>20, <2>21, <2>22, <2>23, <2>24, Frame, ZenonT(60)
  <1> QED BY <1>1, <1>2

\* The branches of one run are not the production migration.
LEMMA MigOf ==
    ASSUME NEW r \in ProcState, Coherent(r), r.pc # "ended"
    PROVE  /\ r.mig \in Mig /\ r.mode \in Modes
           /\ r.mode # "acceptance" => r.mig = "main"
           /\ r.mode = "acceptance" => r.mig \in {"rollback", "cleanup"} /\ "rollback" \in Mig
  <1>1. r.mig \in Mig
        BY DEF ProcState
  <1>2. r.mode \in Modes /\ r.mig \in (IF r.mode = "acceptance" THEN Branches ELSE {"main"})
        BY ZenonT(40) DEF Coherent
  <1> QED BY <1>1, <1>2, MigIs DEF Branches

\* A new acquisition does not take a target that another kind of run uses.
LEMMA AcquireManifests ==
    ASSUME MigrationInv, NEW p \in Proc, proc[p].pc = "acquire", CanAcquire(p),
           man' = [man EXCEPT ![proc[p].mig] = Manifest(proc[p])]
    PROVE  /\ man' \in [Mig -> ManifestRow \cup {Nothing}]
           /\ man'[proc[p].mig] # Nothing
           /\ \A m \in Mig : man[m] # Nothing => man'[m] # Nothing
           /\ AloneOnTarget /\ "main" \in Mig => AloneOnTarget'
           /\ proc[p].mode = "production" => AloneOnTarget'
           /\ proc[p].mode = "acceptance" => man'["rollback"] # Nothing
  <1> DEFINE r == proc[p]
             w == Manifest(r)
  <1>0. r \in ProcState /\ Coherent(r) /\ Manifested(p)
        BY Running, ZenonT(40)
  <1>1. man \in [Mig -> ManifestRow \cup {Nothing}]
        BY ZenonT(40) DEF MigrationInv, MigrationTypeOK
  <1>2. /\ r.mig \in Mig /\ r.mode \in Modes
        /\ r.mode # "acceptance" => r.mig = "main"
        /\ r.mode = "acceptance" => r.mig \in {"rollback", "cleanup"} /\ "rollback" \in Mig
        BY <1>0, MigOf
  <1>3. w \in ManifestRow
        BY <1>0 DEF Manifest, ProcState, ManifestRow
  <1>4. w # Nothing
        BY <1>3, RowThere, ZenonT(40)
  <1> HIDE DEF w
  <1>5. man' = [man EXCEPT ![r.mig] = w]
        BY DEF w
  <1>6. /\ man' \in [Mig -> ManifestRow \cup {Nothing}] /\ man'[r.mig] = w
        /\ \A m \in Mig : m # r.mig => man'[m] = man[m]
        BY <1>1, <1>2, <1>3, <1>5
  <1>7. man'[r.mig] # Nothing /\ \A m \in Mig : man[m] # Nothing => man'[m] # Nothing
        BY <1>4, <1>6, ZenonT(40)
  <1>8. r.mode # "single" => Head(r.todo) = "prepare"
        BY <1>0, ZenonT(40) DEF Coherent
  <1>9. r.mode # "single" /\ r.mig # "cleanup" => \A m \in Mig : man[m] = Nothing
        BY <1>8, ZenonT(40) DEF CanAcquire, IsNew, TargetEmpty
  <1>10. r.mode = "acceptance" /\ r.mig = "cleanup" => man["rollback"] # Nothing
        BY <1>0, ZenonT(40) DEF Manifested
  <1>11. AloneOnTarget /\ "main" \in Mig => AloneOnTarget'
        <2> SUFFICES ASSUME AloneOnTarget, "main" \in Mig PROVE AloneOnTarget'
            BY ZenonT(40)
        <2>1. man["main"] # Nothing /\ \A m \in Mig \ {"main"} : man[m] = Nothing
              BY DEF AloneOnTarget
        <2>2. r.mode # "acceptance"
              <3> SUFFICES ASSUME r.mode = "acceptance" PROVE FALSE
                  BY ZenonT(40)
              <3>1. r.mode # "single" /\ r.mig \in {"rollback", "cleanup"} /\ "rollback" \in Mig \ {"main"}
                    BY <1>2
              <3> QED BY <1>9, <1>10, <2>1, <3>1
        <2>3. r.mig = "main"
              BY <1>2, <2>2, ZenonT(40)
        <2>4. man'["main"] # Nothing
              BY <1>7, <2>3, ZenonT(40)
        <2>5. \A m \in Mig \ {"main"} : man'[m] = Nothing
              BY <1>6, <2>1, <2>3
        <2> QED BY <2>4, <2>5, ZenonT(40) DEF AloneOnTarget
  <1>12. r.mode = "production" => AloneOnTarget'
        <2> SUFFICES ASSUME r.mode = "production" PROVE AloneOnTarget'
            BY ZenonT(40)
        <2>1. r.mode # "single" /\ r.mig = "main" /\ r.mig # "cleanup"
              BY <1>2
        <2>2. \A m \in Mig \ {"main"} : man'[m] = Nothing
              BY <1>6, <1>9, <2>1
        <2> QED BY <1>7, <2>1, <2>2, ZenonT(40) DEF AloneOnTarget
  <1>13. r.mode = "acceptance" => man'["rollback"] # Nothing
        BY <1>2, <1>7, <1>10
  <1> QED BY <1>6, <1>7, <1>11, <1>12, <1>13

\* A process gets the lease of its migration, and with it the barrier and the
\* manifest, when no other lease is alive.
LEMMA AcquireStep ==
    ASSUME MigrationInv, NEW p \in Proc, Acquire(p)
    PROVE  MigrationInv'
  <1> DEFINE r == proc[p]
             s == [r EXCEPT !.pc = "begin"]
  <1>0. /\ r \in ProcState /\ Coherent(r) /\ EndsWell(p) /\ Manifested(p) /\ proc \in [Proc -> ProcState]
        BY Running, ZenonT(40)
  <1>1. CASE ~CanAcquire(p)
        <2>1. Fail(p)
              BY <1>1, ZenonT(40) DEF Acquire
        <2> QED BY <2>1, FailStep
  <1>2. CASE CanAcquire(p)
        <2>0. MigrationTypeOK /\ ProcInv /\ ManifestInv
              BY ZenonT(40) DEF MigrationInv
        <2>1. /\ r.pc = "acquire" /\ man' = [man EXCEPT ![r.mig] = Manifest(r)]
              /\ lease' = [lease EXCEPT ![r.mig] = [owner |-> p, live |-> TRUE]]
              /\ barrier' = [mig |-> r.mig, owner |-> p, mode |-> "active"]
              /\ Set(p, s) /\ UNCHANGED <<data, control, ckpt, used>>
              BY <1>2, ZenonT(40) DEF Acquire, Goto
        <2>2. /\ src' = src /\ tgt' = tgt /\ foreign' = foreign /\ pending' = pending
              /\ ctl' = ctl /\ app' = app /\ ckpt' = ckpt /\ used' = used
              BY <2>1, Groups
        <2>3. r.mig \in Mig
              BY <1>0 DEF ProcState
        <2>4. /\ man' \in [Mig -> ManifestRow \cup {Nothing}]
              /\ man'[r.mig] # Nothing
              /\ \A m \in Mig : man[m] # Nothing => man'[m] # Nothing
              /\ AloneOnTarget /\ "main" \in Mig => AloneOnTarget'
              /\ r.mode = "production" => AloneOnTarget'
              /\ r.mode = "acceptance" => man'["rollback"] # Nothing
              BY <1>2, <2>1, AcquireManifests, ZenonT(40)
        <2>5. lease \in [Mig -> [owner : Proc \cup {Nothing}, live : BOOLEAN]]
              BY <2>0, ZenonT(40) DEF MigrationTypeOK
        <2>6. lease' \in [Mig -> [owner : Proc \cup {Nothing}, live : BOOLEAN]]
              /\ \A m \in Mig : m # r.mig => lease'[m] = lease[m]
              BY <2>1, <2>3, <2>5
        <2>7. LeaseInv'
              <3>1. \A m \in Mig : ~lease[m].live
                    BY <1>2, ZenonT(40) DEF CanAcquire
              <3>2. \A m \in Mig : lease'[m].live => m = r.mig
                    BY <2>6, <3>1, ZenonT(40)
              <3> QED BY <3>2, ZenonT(40) DEF LeaseInv
        <2>8. /\ barrier' \in [mig : Mig \cup {Nothing}, owner : Proc \cup {Nothing},
                               mode : {"absent", "active", "released"}]
              /\ barrier'.mode = "active" /\ barrier'.owner = p
              BY <2>1, <2>3
        <2>9. s \in ProcState /\ s.pc = "begin" /\ Kept(r, s) /\ s.ck = r.ck
              BY <1>0 DEF ProcState, Kept, Pc
        <2> HIDE DEF s
        <2>10. s.mode = r.mode /\ s.mig = r.mig /\ s.todo = r.todo /\ s.passed = r.passed
              BY <2>9 DEF Kept
        <2>11. r.passed = {}
              BY <1>0, <2>1, ZenonT(40) DEF Coherent
        <2>12. Coherent(s)
              BY <1>0, <2>1, <2>9, <2>10 DEF Coherent
        <2>13. /\ proc' \in [Proc -> ProcState] /\ proc'[p] = s
               /\ \A q \in Proc : q # p => proc'[q] = proc[q]
              BY <1>0, <2>1, <2>9 DEF Set
        <2>14. EndsWell(p)'
              <3>1. r.mig = "cleanup" => Rolled("rollback")
                    BY <1>0, <2>1 DEF EndsWell
              <3>2. r.mig = "cleanup" => Rolled("rollback")'
                    BY <2>2, <3>1, ZenonT(40) DEF Rolled
              <3> QED BY <2>9, <2>10, <2>13, <3>2 DEF EndsWell
        <2>15. Manifested(p)'
              BY <2>4, <2>10, <2>13, ZenonT(40) DEF Manifested
        <2>16. StillThere(p)'
              BY <2>9, <2>10, <2>11, <2>13 DEF StillThere
        <2>17. Good(p)'
              BY <2>12, <2>13, <2>14, <2>15, <2>16, ZenonT(40) DEF Good
        <2>18. MigrationTypeOK'
              BY <2>0, <2>2, <2>4, <2>6, <2>8, <2>13, ZenonT(40) DEF MigrationTypeOK
        <2>19. ASSUME NEW q \in Proc, q # p PROVE Untouched(q)
              <3>1. proc'[q] = proc[q]
                    BY <2>13, <2>19, ZenonT(40)
              <3>2. ~Fenced(q)'
                    <4>1. Fenced(q)' => barrier'.owner = q
                          BY DEF Fenced
                    <4> QED BY <2>8, <2>19, <4>1, ZenonT(40)
              <3>3. Manifested(q) => Manifested(q)'
                    <4>1. proc[q] \in ProcState /\ Coherent(proc[q])
                          BY Running, ZenonT(40)
                    <4>2. proc[q].pc # "ended" => /\ proc[q].mode # "acceptance" => "main" \in Mig
                                                  /\ proc[q].mode = "acceptance" => "rollback" \in Mig
                          BY <4>1, MigOf
                    <4>3. proc[q].pc = "ended" /\ proc[q].mode = "acceptance" /\ proc[q].mig = "cleanup"
                             => "rollback" \in Mig
                          BY <4>1, MigIs DEF ProcState
                    <4> SUFFICES ASSUME Manifested(q) PROVE Manifested(q)'
                        BY ZenonT(40)
                    <4>4. proc[q].mode = "production" /\ proc[q].pc \notin {"ended", "acquire"} => AloneOnTarget'
                          <5> SUFFICES ASSUME proc[q].mode = "production", proc[q].pc \notin {"ended", "acquire"}
                                       PROVE  AloneOnTarget'
                              BY ZenonT(40)
                          <5>1. AloneOnTarget
                                BY ZenonT(40) DEF Manifested
                          <5>2. "main" \in Mig
                                BY <4>2
                          <5> QED BY <2>4, <5>1, <5>2, ZenonT(40)
                    <4>5. proc[q].mode = "acceptance"
                          /\ (proc[q].pc \notin {"ended", "acquire"} \/ proc[q].mig = "cleanup")
                             => man'["rollback"] # Nothing
                          <5> SUFFICES ASSUME proc[q].mode = "acceptance",
                                              proc[q].pc \notin {"ended", "acquire"} \/ proc[q].mig = "cleanup"
                                       PROVE  man'["rollback"] # Nothing
                              BY ZenonT(40)
                          <5>1. man["rollback"] # Nothing
                                BY ZenonT(40) DEF Manifested
                          <5>2. "rollback" \in Mig
                                BY <4>2, <4>3
                          <5> QED BY <2>4, <5>1, <5>2, ZenonT(40)
                    <4> QED BY <3>1, <4>4, <4>5, ZenonT(40) DEF Manifested
              <3> QED BY <3>1, <3>2, <3>3, ZenonT(40) DEF Untouched
        <2>20. /\ Consistent' /\ \A n \in Mig : AtTarget(n)' <=> AtTarget(n)
               /\ \A n \in Mig : ctl[n] # Nothing =>
                                    ctl'[n] # Nothing /\ (ctl[n].rolled => ctl'[n].rolled)
              BY <2>2, ControlKeeps, ZenonT(40)
        <2>21. "main" \in Mig /\ ctl'["main"] # Nothing => AloneOnTarget'
              BY <2>0, <2>2, <2>4, ZenonT(40) DEF ManifestInv
        <2>22. BarrierCoversTarget'
              BY <2>8, ZenonT(40) DEF BarrierCoversTarget
        <2>23. \A n \in Mig : ckpt'[n] # Nothing => Sound(ckpt'[n])
              BY <2>0, <2>2, ZenonT(40) DEF ProcInv
        <2>24. \A q \in Proc : Untouched(q) \/ Good(q)'
              BY <2>17, <2>19, ZenonT(40)
        <2> QED BY <2>7, <2>18, <2>20, <2>21, <2>22, <2>23, <2>24, Frame, ZenonT(60)
  <1> QED BY <1>1, <1>2

\* The control state that a hook works on.
LEMMA LoadedIs ==
    ASSUME MigrationInv, NEW m \in Mig
    PROVE  /\ Loaded(m) \in ControlRow /\ Settled(Loaded(m))
           /\ ctl \in [Mig -> ControlRow \cup {Nothing}]
           /\ ctl[m] # Nothing => Loaded(m) = ctl[m]
           /\ ctl[m] = Nothing => Loaded(m).profile = "source" /\ ~Loaded(m).rolled
  <1>1. /\ ctl \in [Mig -> ControlRow \cup {Nothing}]
        /\ ctl[m] # Nothing => Settled(ctl[m])
        /\ app \in [active : {"source", "target"}, candidate : BOOLEAN, ver : Nat]
        BY ZenonT(40) DEF MigrationInv, MigrationTypeOK, ControlInv
  <1>2. CASE ctl[m] # Nothing
        <2>1. Loaded(m) = ctl[m]
              BY <1>2 DEF Loaded
        <2>2. ctl[m] \in ControlRow
              BY <1>1, <1>2
        <2> QED BY <1>1, <1>2, <2>1, <2>2, ZenonT(40)
  <1>3. CASE ctl[m] = Nothing
        <2>1. Loaded(m) = InitialCtl
              BY <1>3 DEF Loaded
        <2>2. PICK v \in Nat : v = app.ver
              BY <1>1
        <2> DEFINE c == [dual |-> FALSE, profile |-> "source", cleaned |-> FALSE, rolled |-> FALSE,
                         mailbox |-> "ready", atomic |-> FALSE, ver |-> v]
        <2>3. InitialCtl = c
              BY <2>2, ZenonT(40) DEF InitialCtl
        <2>4. c \in ControlRow /\ c.profile = "source" /\ ~c.rolled /\ ~c.cleaned
              BY DEF ControlRow
        <2> HIDE DEF c
        <2>5. Settled(c)
              BY <2>4 DEF Settled
        <2> QED BY <1>1, <1>3, <2>1, <2>3, <2>4, <2>5, ZenonT(40)
  <1> QED BY <1>2, <1>3

\* A hook finds the pointer where its migration left it, so no other migration
\* is at the target, and it leaves the pointer where it says.
LEMMA Pointed ==
    ASSUME MigrationInv, NEW m \in Mig, RuntimeState(Loaded(m)), NEW c \in ControlRow, Settled(c),
           ctl'[m] = c, \A n \in Mig : n # m => ctl'[n] = ctl[n], app'.active = c.profile
    PROVE  Consistent' /\ c # Nothing
  <1>1. /\ ctl \in [Mig -> ControlRow \cup {Nothing}]
        /\ ctl[m] # Nothing => Loaded(m) = ctl[m]
        /\ ctl[m] = Nothing => Loaded(m).profile = "source" /\ Loaded(m) \in ControlRow
        BY LoadedIs, ZenonT(40)
  <1>2. ctl'[m] = c /\ \A n \in Mig : n # m => ctl'[n] = ctl[n]
        OBVIOUS
  <1>3. c # Nothing
        BY RowThere, ZenonT(40)
  <1>4. app.active = Loaded(m).profile
        BY ZenonT(40) DEF RuntimeState
  <1>5. /\ PointerTracked /\ \A k, n \in Mig : AtTarget(k) /\ AtTarget(n) => k = n
        /\ \A n \in Mig : ctl[n] # Nothing => Settled(ctl[n])
        BY ZenonT(40) DEF MigrationInv, ControlInv
  <1>6. ASSUME NEW n \in Mig, n # m PROVE ~AtTarget(n)'
        <2>1. SUFFICES ASSUME AtTarget(n) PROVE FALSE
              BY <1>2, <1>6, ZenonT(40) DEF AtTarget
        <2>2. app.active = "target"
              BY <1>5, <2>1, ZenonT(40) DEF PointerTracked
        <2>3. Loaded(m).profile = "target"
              BY <1>4, <2>2, ZenonT(40)
        <2>4. ctl[m] # Nothing
              BY <1>1, <2>3
        <2>5. AtTarget(m)
              BY <1>1, <2>3, <2>4, ZenonT(40) DEF AtTarget
        <2> QED BY <1>5, <1>6, <2>1, <2>5, ZenonT(40)
  <1>7. AtTarget(m)' <=> c.profile = "target"
        BY <1>2, <1>3, ZenonT(40) DEF AtTarget
  <1>8. PointerTracked'
        BY <1>6, <1>7, ZenonT(40) DEF PointerTracked
  <1>9. \A n \in Mig : ctl'[n] # Nothing => Settled(ctl'[n])
        BY <1>2, <1>5, ZenonT(40)
  <1> QED BY <1>3, <1>6, <1>8, <1>9, ZenonT(40) DEF Consistent

\* A step that changes the control state of its own migration, under the fence
\* or by storing the first one.
LEMMA HookFrame ==
    ASSUME MigrationInv, NEW p \in Proc, NEW s \in ProcState, Set(p, s), Good(p)',
           NEW m \in Mig, m = proc[p].mig,
           NEW c \in ControlRow, Settled(c), RuntimeState(Loaded(m)),
           ctl' \in [Mig -> ControlRow \cup {Nothing}], ctl'[m] = c,
           \A n \in Mig : n # m => ctl'[n] = ctl[n], app'.active = c.profile,
           app' \in [active : {"source", "target"}, candidate : BOOLEAN, ver : Nat],
           Loaded(m).rolled => c.rolled,
           m = "main" => AloneOnTarget,
           Fenced(p) \/ c = Loaded(m),
           UNCHANGED <<data, guard, ckpt, used>>
    PROVE  MigrationInv'
  <1>0. MigrationTypeOK /\ ProcInv /\ ControlInv /\ LeaseInv /\ BarrierCoversTarget
        BY ZenonT(40) DEF MigrationInv
  <1>1. /\ src' = src /\ tgt' = tgt /\ foreign' = foreign /\ pending' = pending
        /\ man' = man /\ lease' = lease /\ barrier' = barrier /\ ckpt' = ckpt /\ used' = used
        BY Groups
  <1>3. /\ Consistent' /\ \A n \in Mig : n # m => ctl'[n] = ctl[n]
        /\ ctl'[m] = c /\ ctl' \in [Mig -> ControlRow \cup {Nothing}] /\ c # Nothing
        BY Pointed, ZenonT(40)
  <1>4. ctl[m] # Nothing => Loaded(m) = ctl[m]
        BY ZenonT(40) DEF Loaded
  <1>5. proc \in [Proc -> ProcState]
        BY <1>0, ZenonT(40) DEF MigrationTypeOK
  <1>6. /\ proc' \in [Proc -> ProcState] /\ \A q \in Proc : q # p => proc'[q] = proc[q]
        BY <1>5 DEF Set
  <1>7. MigrationTypeOK'
        BY <1>0, <1>1, <1>3, <1>6, ZenonT(40) DEF MigrationTypeOK
  <1>8. \A n \in Mig : ctl[n] # Nothing => ctl'[n] # Nothing /\ (ctl[n].rolled => ctl'[n].rolled)
        BY <1>3, <1>4, ZenonT(40)
  <1>9. "main" \in Mig /\ ctl'["main"] # Nothing => AloneOnTarget'
        <2>1. CASE m = "main"
              BY <1>1, <2>1, ManKeeps, ZenonT(40)
        <2>2. CASE m # "main"
              BY <1>1, <1>3, <2>2, ManKeeps, ZenonT(40)
        <2> QED BY <2>1, <2>2
  <1>10. LeaseInv'
        BY <1>0, <1>1, ZenonT(40) DEF LeaseInv
  <1>11. BarrierCoversTarget'
        <2>1. CASE Fenced(p)
              <3>1. barrier.mode = "active"
                    BY <2>1 DEF Fenced
              <3> QED BY <1>1, <3>1, ZenonT(40) DEF BarrierCoversTarget
        <2>2. CASE c = Loaded(m)
              <3>1. ctl[m] = Nothing => c.profile = "source"
                    BY <2>2, LoadedIs, ZenonT(40)
              <3>2. AtTarget(m)' => AtTarget(m)
                    <4>1. CASE ctl[m] = Nothing
                          BY <1>3, <3>1, <4>1, ZenonT(40) DEF AtTarget
                    <4>2. CASE ctl[m] # Nothing
                          BY <1>3, <1>4, <2>2, <4>2, ZenonT(40) DEF AtTarget
                    <4> QED BY <4>1, <4>2
              <3>3. \A n \in Mig : AtTarget(n)' => AtTarget(n)
                    <4>1. \A n \in Mig : n # m => (AtTarget(n)' <=> AtTarget(n))
                          BY <1>3, ZenonT(40) DEF AtTarget
                    <4> QED BY <3>2, <4>1, ZenonT(40)
              <3> QED BY <1>0, <1>1, <3>3, ZenonT(40) DEF BarrierCoversTarget
        <2> QED BY <2>1, <2>2
  <1>12. ASSUME NEW q \in Proc, q # p PROVE Untouched(q)
        <2>1. proc'[q] = proc[q]
              BY <1>6, <1>12, ZenonT(40)
        <2>2. Manifested(q) => Manifested(q)'
              BY <1>1, <2>1, ManKeeps, ZenonT(40)
        <2>3. Fenced(q)' => Fenced(q)
              BY <1>1, <2>1, ZenonT(40) DEF Fenced
        <2>4. proc[q].mig \in Mig
              BY <1>0, BranchExists, ZenonT(40)
        <2>5. ctl[proc[q].mig] # Nothing /\ Fenced(q) => ctl'[proc[q].mig] = ctl[proc[q].mig]
              <3>1. CASE Fenced(p)
                    BY <1>12, <3>1, OneFence, ZenonT(40)
              <3>2. CASE c = Loaded(m)
                    BY <1>3, <1>4, <2>4, <3>2, ZenonT(40)
              <3> QED BY <3>1, <3>2
        <2> QED BY <1>1, <2>1, <2>2, <2>3, <2>5, ZenonT(40) DEF Untouched
  <1>13. \A q \in Proc : Untouched(q) \/ Good(q)'
        BY <1>12, ZenonT(40)
  <1>14. \A n \in Mig : ckpt'[n] # Nothing => Sound(ckpt'[n])
        BY <1>0, <1>1, ZenonT(40) DEF ProcInv
  <1> QED BY <1>3, <1>7, <1>8, <1>9, <1>10, <1>11, <1>13, <1>14, Frame, ZenonT(60)

\* Turning the double writes on or off.
LEMMA DualIs ==
    ASSUME NEW c \in ControlRow, Settled(c), NEW on \in BOOLEAN, DualAllowed(c, on)
    PROVE  /\ DualSet(c, on) \in ControlRow /\ Settled(DualSet(c, on))
           /\ DualSet(c, on).rolled = c.rolled /\ DualSet(c, on).profile = c.profile
  <1>1. CASE c.dual = on
        BY <1>1 DEF DualSet
  <1>2. CASE c.dual # on
        <2>1. PICK b \in {"ready", "dual-write", "target", "source"} :
                 b = IF on THEN "dual-write" ELSE IF c.profile = "target" THEN "target"
                     ELSE IF c.rolled THEN "source" ELSE "ready"
              OBVIOUS
        <2> DEFINE d == [c EXCEPT !.dual = on, !.mailbox = b]
        <2>2. DualSet(c, on) = d
              BY <1>2, <2>1, ZenonT(40) DEF DualSet
        <2>3. /\ d \in ControlRow /\ d.rolled = c.rolled /\ d.profile = c.profile
              /\ d.cleaned = c.cleaned /\ d.dual = on
              BY DEF ControlRow
        <2> HIDE DEF d
        <2>4. Settled(d)
              <3>1. CASE on = TRUE
                    <4>1. ~c.rolled /\ ~c.cleaned
                          BY <3>1, ZenonT(40) DEF DualAllowed
                    <4> QED BY <2>3, <4>1, ZenonT(40) DEF Settled
              <3>2. CASE on = FALSE
                    BY <2>3, <3>2, ZenonT(40) DEF Settled
              <3> QED BY <3>1, <3>2
        <2> QED BY <2>2, <2>3, <2>4, ZenonT(40)
  <1> QED BY <1>1, <1>2

\* What a control operation makes of the state.
LEMMA ChangedIs ==
    ASSUME NEW c \in ControlRow, Settled(c), NEW ph \in {"dual-write", "cutover", "cleanup", "rollback"},
           Allowed(c, ph)
    PROVE  /\ Changed(c, ph) \in ControlRow /\ Settled(Changed(c, ph))
           /\ c.rolled => Changed(c, ph).rolled
           /\ ~Switches(c, ph) => Changed(c, ph).profile = c.profile
  <1>1. CASE ph = "dual-write"
        <2>1. Changed(c, ph) = DualSet(c, TRUE) /\ DualAllowed(c, TRUE)
              BY <1>1 DEF Changed, Allowed
        <2>2. /\ DualSet(c, TRUE) \in ControlRow /\ Settled(DualSet(c, TRUE))
              /\ DualSet(c, TRUE).rolled = c.rolled /\ DualSet(c, TRUE).profile = c.profile
              BY <2>1, DualIs, ZenonT(40)
        <2> QED BY <2>1, <2>2, ZenonT(40)
  <1>2. CASE ph = "cutover"
        <2> DEFINE d == [c EXCEPT !.profile = "target", !.mailbox = "target", !.atomic = TRUE]
        <2>1. Changed(c, ph) = d
              BY <1>2 DEF Changed
        <2>2. /\ d \in ControlRow /\ d.rolled = c.rolled /\ d.profile = "target"
              /\ d.cleaned = c.cleaned /\ d.dual = c.dual
              BY DEF ControlRow
        <2> HIDE DEF d
        <2>3. ~c.rolled
              BY <1>2 DEF Allowed, CutDone, Settled
        <2>4. ~Switches(c, ph) => c.profile = "target"
              BY <1>2, ZenonT(40) DEF Switches, CutDone
        <2>5. Settled(d)
              BY <2>2, <2>3, ZenonT(40) DEF Settled
        <2> QED BY <2>1, <2>2, <2>3, <2>4, <2>5, ZenonT(40)
  <1>3. CASE ph = "cleanup"
        <2> DEFINE d == [c EXCEPT !.dual = FALSE, !.cleaned = TRUE, !.mailbox = "target"]
        <2>1. Changed(c, ph) = d
              BY <1>3 DEF Changed
        <2>2. /\ d \in ControlRow /\ d.rolled = c.rolled /\ d.profile = c.profile
              /\ d.cleaned /\ ~d.dual
              BY DEF ControlRow
        <2> HIDE DEF d
        <2>3. ~c.rolled
              BY <1>3 DEF Allowed, Settled
        <2>4. Settled(d)
              BY <2>2, <2>3, ZenonT(40) DEF Settled
        <2> QED BY <2>1, <2>2, <2>3, <2>4, ZenonT(40)
  <1>4. CASE ph = "rollback" /\ c.rolled
        <2>1. Changed(c, ph) = c
              BY <1>4 DEF Changed
        <2> QED BY <1>4, <2>1, ZenonT(40)
  <1>5. CASE ph = "rollback" /\ ~c.rolled
        <2> DEFINE d == [c EXCEPT !.dual = FALSE, !.profile = "source", !.cleaned = FALSE, !.rolled = TRUE,
                                  !.mailbox = "source"]
        <2>1. Changed(c, ph) = d /\ Switches(c, ph)
              BY <1>5 DEF Changed, Switches
        <2>2. d \in ControlRow /\ d.rolled /\ d.profile = "source" /\ ~d.cleaned /\ ~d.dual
              BY DEF ControlRow
        <2> HIDE DEF d
        <2>3. Settled(d)
              BY <2>2, ZenonT(40) DEF Settled
        <2> QED BY <2>1, <2>2, <2>3, ZenonT(40)
  <1> QED BY <1>1, <1>2, <1>3, <1>4, <1>5

\* A hook in a phase: the process goes on, with nothing new to say of the data.
LEMMA HookGood ==
    ASSUME MigrationInv, NEW p \in Proc, NEW s \in ProcState, Set(p, s), Kept(proc[p], s),
           proc[p].pc \in {"control", "undual"}, s.pc \in {"undual", "renew"},
           s.ck # Nothing, Sound(s.ck), s.ck.phase = Head(s.todo), s.ck.phase \in PhasesAt(s.pc),
           s.ck.phase # "shadow-read",
           ctl'[proc[p].mig] # Nothing,
           \A n \in Mig : n # proc[p].mig => ctl'[n] = ctl[n],
           UNCHANGED <<data, guard, ckpt, used>>
    PROVE  Good(p)'
  <1> DEFINE r == proc[p]
  <1>0. /\ r \in ProcState /\ Coherent(r) /\ EndsWell(p) /\ Manifested(p) /\ StillThere(p)
        /\ proc \in [Proc -> ProcState]
        BY Running, ZenonT(40)
  <1>1. proc'[p] = s
        BY <1>0 DEF Set
  <1>2. tgt' = tgt /\ man' = man /\ lease' = lease /\ barrier' = barrier
        BY Groups
  <1>3. s.mig = r.mig /\ s.mode = r.mode /\ s.passed = r.passed
        BY ZenonT(40) DEF Kept
  <1>4. /\ s.pc \in InPhase \cup {"undual"} /\ r.pc \notin {"ended", "acquire"}
        /\ s.pc \notin {"ended", "acquire", "fetch", "upsert", "compare", "release", "restage", "begin"}
        BY DEF InPhase
  <1>5. Coherent(s)
        BY <1>0, <1>4, CoherentMove, ZenonT(40)
  <1>6. EndsWell(p)'
        <2>1. s.mig = "cleanup" => Rolled("rollback")'
              <3> SUFFICES ASSUME s.mig = "cleanup" PROVE Rolled("rollback")'
                  BY ZenonT(40)
              <3>1. Rolled("rollback")
                    BY <1>0, <1>3, <1>4, ZenonT(40) DEF EndsWell
              <3>2. "rollback" \in Mig
                    BY <1>0, <1>3, MigIs DEF ProcState
              <3>3. ctl'["rollback"] = ctl["rollback"]
                    BY <1>3, <3>2
              <3> QED BY <3>1, <3>3, ZenonT(40) DEF Rolled
        <2>2. ctl'[s.mig] # Nothing
              BY <1>3, ZenonT(40)
        <2> QED BY <1>1, <1>4, <2>1, <2>2, ZenonT(40) DEF EndsWell
  <1>7. Manifested(p)'
        BY <1>0, <1>1, <1>2, <1>3, <1>4, ZenonT(40) DEF Manifested, AloneOnTarget
  <1>8. Fenced(p)' <=> Fenced(p)
        BY <1>1, <1>2, <1>3, ZenonT(40) DEF Fenced
  <1>9. StillThere(p)'
        <2>1. Fenced(p) /\ "shadow-read" \in r.passed => tgt = man[r.mig].snap
              BY <1>0, ZenonT(40) DEF StillThere
        <2> QED BY <1>1, <1>2, <1>3, <1>4, <1>8, <2>1, ZenonT(40) DEF StillThere
  <1> QED BY <1>1, <1>5, <1>6, <1>7, <1>9, ZenonT(40) DEF Good

\* A terminal phase ends the dual writes before it says that it is done.
LEMMA StopDualStep ==
    ASSUME MigrationInv, NEW p \in Proc, StopDual(p)
    PROVE  MigrationInv'
  <1> DEFINE r == proc[p]
             s == [[r EXCEPT !.pc = "renew"] EXCEPT !.ck.done = TRUE]
  <1>0. r \in ProcState /\ Coherent(r) /\ EndsWell(p) /\ r.pc = "undual"
        BY Running, ZenonT(40) DEF StopDual
  <1>1. CASE ~(Fenced(p) /\ RuntimeState(ctl[r.mig]))
        <2>1. Fail(p)
              BY <1>1, ZenonT(40) DEF StopDual
        <2> QED BY <2>1, FailStep
  <1>2. CASE Fenced(p) /\ RuntimeState(ctl[r.mig])
        <2>1. /\ ctl' = [ctl EXCEPT ![r.mig] = DualSet(ctl[r.mig], FALSE)] /\ Set(p, s)
              /\ UNCHANGED <<data, guard, app, ckpt, used>>
              BY <1>2, ZenonT(40) DEF StopDual, Goto
        <2>2. UNCHANGED <<data, guard, ckpt, used>> /\ app' = app
              BY <2>1
        <2>3. PICK m \in Mig : m = r.mig
              BY <1>0 DEF ProcState
        <2>4. ctl[m] # Nothing
              BY <1>0, <2>3, ZenonT(40) DEF EndsWell
        <2>5. Loaded(m) = ctl[m] /\ Loaded(m) \in ControlRow /\ Settled(Loaded(m))
              /\ ctl \in [Mig -> ControlRow \cup {Nothing}]
              BY <2>4, LoadedIs, ZenonT(40)
        <2>6. DualAllowed(ctl[m], FALSE)
              BY DEF DualAllowed
        <2>7. PICK c \in ControlRow : c = DualSet(ctl[m], FALSE) /\ Settled(c) /\ c.rolled = ctl[m].rolled
                                      /\ c.profile = ctl[m].profile
              BY <2>5, <2>6, DualIs, ZenonT(40)
        <2>8. /\ ctl' \in [Mig -> ControlRow \cup {Nothing}] /\ ctl'[m] = c
              /\ \A n \in Mig : n # m => ctl'[n] = ctl[n]
              <3>1. ctl' = [ctl EXCEPT ![m] = c]
                    BY <2>1, <2>3, <2>7, ZenonT(40)
              <3> QED BY <2>5, <3>1
        <2>9. c # Nothing
              BY RowThere, ZenonT(40)
        <2>10. /\ r.pc \notin {"ended", "acquire", "begin", "release", "restage"}
               /\ r.ck.phase \in {"cleanup", "rollback"}
              BY <1>0 DEF Coherent, PhasesAt
        <2>11. /\ s \in ProcState /\ Kept(r, s) /\ s.pc = "renew"
               /\ s.ck # Nothing /\ Sound(s.ck) /\ s.ck.phase = Head(s.todo) /\ s.ck.phase = r.ck.phase
               /\ s.ck.phase \in PhasesAt("renew")
              BY <1>0, <2>10, DoneMove
        <2> HIDE DEF s
        <2>12. r.pc \in {"control", "undual"} /\ s.pc \in {"undual", "renew"} /\ s.ck.phase # "shadow-read"
              BY <1>0, <2>10, <2>11
        <2>13. ctl'[r.mig] # Nothing /\ \A n \in Mig : n # r.mig => ctl'[n] = ctl[n]
              BY <2>3, <2>8, <2>9, ZenonT(40)
        <2>14. Good(p)'
              BY <2>1, <2>2, <2>11, <2>12, <2>13, HookGood, ZenonT(40)
        <2>15. RuntimeState(Loaded(m))
              BY <1>2, <2>3, <2>5, ZenonT(40)
        <2>16. /\ app' \in [active : {"source", "target"}, candidate : BOOLEAN, ver : Nat]
               /\ app'.active = c.profile
              <3>1. app \in [active : {"source", "target"}, candidate : BOOLEAN, ver : Nat]
                    BY ZenonT(40) DEF MigrationInv, MigrationTypeOK
              <3>2. app.active = Loaded(m).profile
                    BY <2>15, ZenonT(40) DEF RuntimeState
              <3> QED BY <2>2, <2>5, <2>7, <3>1, <3>2, ZenonT(40)
        <2>17. m = "main" => AloneOnTarget
              BY <2>4, ZenonT(40) DEF MigrationInv, ManifestInv
        <2>18. Loaded(m).rolled => c.rolled
              BY <2>5, <2>7, ZenonT(40)
        <2> QED BY <1>2, <2>1, <2>2, <2>3, <2>7, <2>8, <2>11, <2>14, <2>15, <2>16, <2>17, <2>18, HookFrame, ZenonT(60)
  <1> QED BY <1>1, <1>2

\* The transition of a control phase.
LEMMA ControlStep ==
    ASSUME MigrationInv, NEW p \in Proc, Control(p)
    PROVE  MigrationInv'
  <1> DEFINE r == proc[p]
             ph == r.ck.phase
             enabled == /\ r.mode # "single"
                        /\ Fenced(p) /\ Loadable(r.mig) /\ RuntimeState(Loaded(r.mig))
                        /\ Allowed(Loaded(r.mig), ph)
             t == [r EXCEPT !.pc = "undual"]
             u == [[r EXCEPT !.pc = "renew"] EXCEPT !.ck.done = TRUE]
  <1>0. r \in ProcState /\ Coherent(r) /\ Manifested(p) /\ r.pc = "control"
        BY Running, ZenonT(40) DEF Control
  <1>1. CASE ~enabled
        <2>1. Fail(p)
              BY <1>1, ZenonT(40) DEF Control
        <2> QED BY <2>1, FailStep
  <1>2. CASE enabled
        <2>1. /\ IF Switches(Loaded(r.mig), ph)
                 THEN /\ app' = [active |-> Changed(Loaded(r.mig), ph).profile, candidate |-> FALSE,
                                 ver |-> app.ver + 1]
                      /\ ctl' = [ctl EXCEPT ![r.mig] = [Changed(Loaded(r.mig), ph) EXCEPT !.ver = app.ver + 1]]
                 ELSE ctl' = [ctl EXCEPT ![r.mig] = Changed(Loaded(r.mig), ph)] /\ UNCHANGED app
              /\ Set(p, IF ph \in {"cleanup", "rollback"} THEN t ELSE u)
              /\ UNCHANGED <<data, guard, ckpt, used>>
              BY <1>2, ZenonT(40) DEF Control, Goto
        <2>2. PICK m \in Mig : m = r.mig
              BY <1>0 DEF ProcState
        <2>3. Loaded(m) \in ControlRow /\ Settled(Loaded(m)) /\ ctl \in [Mig -> ControlRow \cup {Nothing}]
              BY LoadedIs, ZenonT(40)
        <2>4. RuntimeState(Loaded(m)) /\ Allowed(Loaded(m), ph) /\ Fenced(p) /\ r.mode # "single"
              BY <1>2, <2>2, ZenonT(40)
        <2>5. r.pc \notin {"ended", "acquire", "begin", "release", "restage"}
              BY <1>0
        <2>6. /\ r.ck \in CheckpointRow /\ r.ck # Nothing /\ Sound(r.ck) /\ ph = Head(r.todo)
              /\ ph \in PhasesAt(r.pc) /\ ph \in Phase
              BY <1>0, <2>5, PhaseFacts, ZenonT(40)
        <2>7. ph \in {"dual-write", "cutover", "cleanup", "rollback"}
              BY <1>0, <2>6 DEF PhasesAt
        <2> HIDE DEF ph
        <2>8. PICK d \in ControlRow :
                 /\ d = Changed(Loaded(m), ph) /\ Settled(d)
                 /\ Loaded(m).rolled => d.rolled
                 /\ ~Switches(Loaded(m), ph) => d.profile = Loaded(m).profile
              BY <2>3, <2>4, <2>7, ChangedIs, ZenonT(40)
        <2>9. app \in [active : {"source", "target"}, candidate : BOOLEAN, ver : Nat]
              /\ app.active = Loaded(m).profile
              BY <2>4, ZenonT(40) DEF MigrationInv, MigrationTypeOK, RuntimeState
        <2>10. PICK c \in ControlRow :
                 /\ ctl' = [ctl EXCEPT ![m] = c] /\ Settled(c) /\ c.rolled = d.rolled
                 /\ c.profile = d.profile /\ app'.active = c.profile
                 /\ app' \in [active : {"source", "target"}, candidate : BOOLEAN, ver : Nat]
              <3>1. CASE Switches(Loaded(m), ph)
                    <4>1. PICK v \in Nat : v = app.ver + 1
                          BY <2>9
                    <4> DEFINE c == [d EXCEPT !.ver = v]
                    <4>2. /\ app' = [active |-> d.profile, candidate |-> FALSE, ver |-> v]
                          /\ ctl' = [ctl EXCEPT ![m] = c]
                          BY <2>1, <2>2, <2>8, <3>1, <4>1, ZenonT(40)
                    <4>3. /\ c \in ControlRow /\ c.rolled = d.rolled /\ c.profile = d.profile
                          /\ c.cleaned = d.cleaned /\ c.dual = d.dual
                          BY DEF ControlRow
                    <4>4. d.profile \in {"source", "target"}
                          BY DEF ControlRow
                    <4>5. /\ app' \in [active : {"source", "target"}, candidate : BOOLEAN, ver : Nat]
                          /\ app'.active = d.profile
                          BY <4>2, <4>4
                    <4> HIDE DEF c
                    <4>6. Settled(c)
                          BY <2>8, <4>3, ZenonT(40) DEF Settled
                    <4> QED BY <4>2, <4>3, <4>5, <4>6, ZenonT(40)
              <3>2. CASE ~Switches(Loaded(m), ph)
                    <4>1. ctl' = [ctl EXCEPT ![m] = d] /\ app' = app
                          BY <2>1, <2>2, <2>8, <3>2, ZenonT(40)
                    <4>2. /\ app' \in [active : {"source", "target"}, candidate : BOOLEAN, ver : Nat]
                          /\ app'.active = d.profile
                          BY <2>8, <2>9, <3>2, <4>1, ZenonT(40)
                    <4> QED BY <2>8, <4>1, <4>2, ZenonT(40)
              <3> QED BY <3>1, <3>2
        <2>11. /\ ctl' \in [Mig -> ControlRow \cup {Nothing}] /\ ctl'[m] = c
               /\ \A n \in Mig : n # m => ctl'[n] = ctl[n]
              BY <2>3, <2>10
        <2>12. c # Nothing
              BY RowThere, ZenonT(40)
        <2>13. ctl'[r.mig] # Nothing /\ \A n \in Mig : n # r.mig => ctl'[n] = ctl[n]
              BY <2>2, <2>11, <2>12, ZenonT(40)
        <2>14. UNCHANGED <<data, guard, ckpt, used>>
              BY <2>1, ZenonT(40)
        <2>15. PICK s \in ProcState : Set(p, s) /\ Good(p)'
              <3>1. CASE ph \in {"cleanup", "rollback"}
                    <4>1. Set(p, t)
                          BY <2>1, <3>1, ZenonT(40)
                    <4>2. t \in ProcState /\ t.pc = "undual" /\ Kept(r, t) /\ t.ck = r.ck
                          BY <1>0 DEF ProcState, Kept, Pc
                    <4> HIDE DEF t
                    <4>3. t.todo = r.todo
                          BY <4>2 DEF Kept
                    <4>4. /\ r.pc \in {"control", "undual"} /\ t.pc \in {"undual", "renew"}
                          /\ t.ck.phase \in PhasesAt(t.pc) /\ t.ck.phase # "shadow-read"
                          BY <1>0, <3>1, <4>2 DEF PhasesAt, ph
                    <4>5. t.ck # Nothing /\ Sound(t.ck) /\ t.ck.phase = Head(t.todo)
                          BY <2>6, <4>2, <4>3, ZenonT(40) DEF ph
                    <4>6. Good(p)'
                          BY <2>13, <2>14, <4>1, <4>2, <4>4, <4>5, HookGood, ZenonT(40)
                    <4> QED BY <4>1, <4>2, <4>6
              <3>2. CASE ph \notin {"cleanup", "rollback"}
                    <4>1. Set(p, u)
                          BY <2>1, <3>2, ZenonT(40)
                    <4>2. r.ck.phase \notin {"shadow-read", "verify"}
                          BY <2>7 DEF ph
                    <4>3. /\ u \in ProcState /\ Kept(r, u) /\ u.pc = "renew"
                          /\ u.ck # Nothing /\ Sound(u.ck) /\ u.ck.phase = Head(u.todo) /\ u.ck.phase = r.ck.phase
                          /\ u.ck.phase \in PhasesAt("renew")
                          BY <1>0, <2>5, <4>2, DoneMove
                    <4> HIDE DEF u
                    <4>4. /\ r.pc \in {"control", "undual"} /\ u.pc \in {"undual", "renew"}
                          /\ u.ck.phase \in PhasesAt(u.pc) /\ u.ck.phase # "shadow-read"
                          BY <1>0, <4>2, <4>3
                    <4>5. Good(p)'
                          BY <2>13, <2>14, <4>1, <4>3, <4>4, HookGood, ZenonT(40)
                    <4> QED BY <4>1, <4>3, <4>5
              <3> QED BY <3>1, <3>2
        <2>16. m = "main" => AloneOnTarget
              <3> SUFFICES ASSUME m = "main" PROVE AloneOnTarget
                  BY ZenonT(40)
              <3>1. r.mode = "production"
                    <4>1. r.mode = "acceptance" => r.mig \in {"rollback", "cleanup"}
                          BY <1>0, MigOf
                    <4> QED BY <1>0, <2>2, <2>4, <4>1 DEF ProcState
              <3> QED BY <1>0, <3>1 DEF Manifested
        <2>17. Loaded(m).rolled => c.rolled
              BY <2>8, <2>10, ZenonT(40)
        <2> QED BY <2>2, <2>4, <2>10, <2>11, <2>14, <2>15, <2>16, <2>17, HookFrame, ZenonT(60)
  <1> QED BY <1>1, <1>2

\* The last transaction of a run.
LEMMA ReleaseStep ==
    ASSUME MigrationInv, NEW p \in Proc, Release(p)
    PROVE  MigrationInv'
  <1> DEFINE r == proc[p]
             t == [r EXCEPT !.pc = "restage"]
  <1>0. /\ r \in ProcState /\ Coherent(r) /\ EndsWell(p) /\ Manifested(p) /\ proc \in [Proc -> ProcState]
        /\ r.pc = "release"
        BY Running, ZenonT(40) DEF Release
  <1>1. CASE ~Fenced(p)
        <2>1. Fail(p)
              BY <1>1, ZenonT(40) DEF Release
        <2> QED BY <2>1, FailStep
  <1>2. CASE Fenced(p)
        <2>0. MigrationTypeOK /\ ProcInv /\ ControlInv /\ LeaseInv /\ ManifestInv
              BY ZenonT(40) DEF MigrationInv
        <2>1. /\ barrier' = [barrier EXCEPT !.mode = "released"]
              /\ lease' = [lease EXCEPT ![r.mig].live = FALSE]
              /\ Set(p, IF r.mode = "acceptance" /\ r.mig = "rollback" THEN t ELSE Ends("pass"))
              /\ UNCHANGED <<data, man, control, ckpt, used>>
              BY <1>2, ZenonT(40) DEF Release, Goto
        <2>2. /\ src' = src /\ tgt' = tgt /\ foreign' = foreign /\ pending' = pending
              /\ man' = man /\ ctl' = ctl /\ app' = app /\ ckpt' = ckpt /\ used' = used
              BY <2>1, Groups
        <2>3. /\ lease \in [Mig -> [owner : Proc \cup {Nothing}, live : BOOLEAN]]
              /\ barrier \in [mig : Mig \cup {Nothing}, owner : Proc \cup {Nothing},
                              mode : {"absent", "active", "released"}]
              BY <2>0, ZenonT(40) DEF MigrationTypeOK
        <2>4. r.mig \in Mig /\ (r.mode # "acceptance" => r.mig = "main")
              /\ (r.mode = "acceptance" => "rollback" \in Mig)
              BY <1>0, MigOf
        <2>5. /\ lease' \in [Mig -> [owner : Proc \cup {Nothing}, live : BOOLEAN]]
              /\ \A n \in Mig : lease'[n] = lease[n] \/ ~lease'[n].live
              BY <2>1, <2>3, <2>4
        <2>6. /\ barrier' \in [mig : Mig \cup {Nothing}, owner : Proc \cup {Nothing},
                               mode : {"absent", "active", "released"}]
              /\ barrier'.mode = "released"
              BY <2>1, <2>3
        <2>7. LeaseInv'
              BY <2>0, <2>5, ZenonT(40) DEF LeaseInv
        <2>8. \A q \in Proc : ~Fenced(q)'
              BY <2>6 DEF Fenced
        <2>9. /\ Consistent' /\ \A n \in Mig : AtTarget(n)' <=> AtTarget(n)
              /\ \A n \in Mig : ctl[n] # Nothing =>
                                   ctl'[n] # Nothing /\ (ctl[n].rolled => ctl'[n].rolled)
              BY <2>2, ControlKeeps, ZenonT(40)
        <2>10. r.mode # "single"
              BY <1>0, ZenonT(40) DEF Coherent
        <2>11. BarrierCoversTarget'
              <3> SUFFICES ASSUME "main" \in Mig, AtTarget("main") PROVE FALSE
                  BY <2>9, ZenonT(40) DEF BarrierCoversTarget
              <3>1. ctl["main"] # Nothing /\ ctl["main"].profile = "target"
                    BY DEF AtTarget
              <3>2. CASE r.mode = "acceptance"
                    <4>1. man["rollback"] # Nothing
                          BY <1>0, <3>2 DEF Manifested
                    <4>2. AloneOnTarget
                          BY <2>0, <3>1, ZenonT(40) DEF ManifestInv
                    <4> QED BY <2>4, <3>2, <4>1, <4>2 DEF AloneOnTarget
              <3>3. CASE r.mode # "acceptance"
                    <4>1. Rolled("main")
                          BY <1>0, <2>4, <3>3 DEF EndsWell
                    <4>2. Settled(ctl["main"])
                          BY <2>0, <3>1, ZenonT(40) DEF ControlInv
                    <4> QED BY <3>1, <4>1, <4>2 DEF Rolled, Settled
              <3> QED BY <3>2, <3>3
        <2>12. PICK s \in ProcState : Set(p, s) /\ Coherent(s)
                  /\ (proc'[p] = s => EndsWell(p)' /\ Manifested(p)')
              <3>1. CASE r.mode = "acceptance" /\ r.mig = "rollback"
                    <4>1. Set(p, t)
                          BY <2>1, <3>1, ZenonT(40)
                    <4>2. t \in ProcState /\ t.pc = "restage" /\ Kept(r, t) /\ t.ck = r.ck
                          BY <1>0 DEF ProcState, Kept, Pc
                    <4> HIDE DEF t
                    <4>3. t.mode = r.mode /\ t.mig = r.mig /\ t.todo = r.todo /\ t.passed = r.passed
                          BY <4>2 DEF Kept
                    <4>4. Coherent(t)
                          BY <1>0, <3>1, <4>2, <4>3 DEF Coherent
                    <4>5. Rolled("rollback")'
                          <5>1. Rolled("rollback")
                                BY <1>0, <3>1 DEF EndsWell
                          <5> QED BY <2>2, <5>1, ZenonT(40) DEF Rolled
                    <4>6. proc'[p] = t => EndsWell(p)'
                          BY <3>1, <4>2, <4>3, <4>5 DEF EndsWell
                    <4>7. man["rollback"] # Nothing
                          BY <1>0, <3>1 DEF Manifested
                    <4>8. proc'[p] = t => Manifested(p)'
                          BY <2>2, <3>1, <4>2, <4>3, <4>7 DEF Manifested
                    <4> QED BY <4>1, <4>2, <4>4, <4>6, <4>8
              <3>2. CASE ~(r.mode = "acceptance" /\ r.mig = "rollback")
                    <4>1. Set(p, Ends("pass"))
                          BY <2>1, <3>2, ZenonT(40)
                    <4>2. /\ Ends("pass") \in ProcState /\ Ends("pass").pc = "ended" /\ Ends("pass").passed = {}
                          /\ Ends("pass").ck = Nothing /\ Ends("pass").mode = "single"
                          BY EndedIs, ZenonT(40)
                    <4>3. Coherent(Ends("pass"))
                          BY <4>2 DEF Coherent
                    <4>4. proc'[p] = Ends("pass") => EndsWell(p)' /\ Manifested(p)'
                          BY <4>2, EndFacts, ZenonT(40)
                    <4> QED BY <4>1, <4>2, <4>3, <4>4
              <3> QED BY <3>1, <3>2
        <2>13. /\ proc' \in [Proc -> ProcState] /\ proc'[p] = s
               /\ \A q \in Proc : q # p => proc'[q] = proc[q]
              BY <1>0, <2>12 DEF Set
        <2>14. Good(p)'
              <3>1. StillThere(p)'
                    BY <2>8, ZenonT(40) DEF StillThere
              <3> QED BY <2>12, <2>13, <3>1, ZenonT(40) DEF Good
        <2>15. MigrationTypeOK'
              BY <2>0, <2>2, <2>5, <2>6, <2>13, ZenonT(40) DEF MigrationTypeOK
        <2>16. ASSUME NEW q \in Proc, q # p PROVE Untouched(q)
              <3>1. proc'[q] = proc[q]
                    BY <2>13, <2>16, ZenonT(40)
              <3>2. Manifested(q) => Manifested(q)'
                    BY <2>2, <3>1, ManKeeps, ZenonT(40)
              <3> QED BY <2>8, <3>1, <3>2, ZenonT(40) DEF Untouched
        <2>17. "main" \in Mig /\ ctl'["main"] # Nothing => AloneOnTarget'
              BY <2>2, ManKeeps, ZenonT(40)
        <2>18. \A n \in Mig : ckpt'[n] # Nothing => Sound(ckpt'[n])
              BY <2>0, <2>2, ZenonT(40) DEF ProcInv
        <2>19. \A q \in Proc : Untouched(q) \/ Good(q)'
              BY <2>14, <2>16, ZenonT(40)
        <2> QED BY <2>7, <2>9, <2>11, <2>15, <2>17, <2>18, <2>19, Frame, ZenonT(60)
  <1> QED BY <1>1, <1>2

\* A sequence with nothing behind its head.
LEMMA OneLeft ==
    ASSUME NEW e \in Seq(Phase), e # <<>>, Len(Tail(e)) = 0
    PROVE  Len(e) = 1 /\ Head(e) = e[1]
  <1>1. Len(e) \in Nat /\ Len(e) # 0
        OBVIOUS
  <1>2. Len(Tail(e)) = Len(e) - 1
        OBVIOUS
  <1>3. Head(e) = e[1]
        OBVIOUS
  <1> QED BY <1>1, <1>2, <1>3

\* The last phase of a run leaves its control state at its end.
LEMMA EndOfPlan ==
    ASSUME NEW r \in ProcState, Coherent(r), r.pc = "check", r.mode # "single", Tail(r.todo) = <<>>
    PROVE  /\ Len(r.todo) = 1 /\ r.ck.phase = Terminal(r.mig) /\ r.ck.phase = Head(r.todo)
           /\ Planned(r.todo, r.passed \cup {r.ck.phase}, Terminal(r.mig))
  <1>1. /\ r.todo # <<>> /\ Planned(r.todo, r.passed, Terminal(r.mig)) /\ r.ck.phase = Head(r.todo)
        BY ZenonT(40) DEF Coherent
  <1>2. r.todo \in Seq(Phase)
        BY DEF ProcState
  <1>3. Len(r.todo) = 1 /\ Head(r.todo) = r.todo[1]
        <2>1. Len(Tail(r.todo)) = 0
              <3>1. Len(<<>>) = 0
                    OBVIOUS
              <3> QED BY <3>1, ZenonT(40)
        <2> QED BY <1>1, <1>2, <2>1, OneLeft, ZenonT(40)
  <1>4. r.ck.phase = Terminal(r.mig) /\ r.todo[1] = Terminal(r.mig)
        BY <1>1, <1>3 DEF Planned
  <1>5. r.todo[1] \notin {"backfill", "shadow-read"}
        BY <1>4 DEF Terminal
  <1>6. Planned(r.todo, r.passed \cup {r.ck.phase}, Terminal(r.mig))
        BY <1>1, <1>3, <1>5 DEF Planned
  <1> QED BY <1>1, <1>3, <1>4, <1>6

\* What the scripts read back after the last phase.
LEMMA ReadBack ==
    ASSUME NEW c, NEW mig, Meets(c, Expected(Terminal(mig)))
    PROVE  /\ mig # "cleanup" => c.rolled
           /\ mig = "cleanup" => c.cleaned
  <1>1. CASE mig = "cleanup"
        <2> DEFINE e == [dual |-> FALSE, profile |-> "target", cleaned |-> TRUE, rolled |-> FALSE, mailbox |-> "target"]
        <2>1. Expected(Terminal(mig)) = e
              BY <1>1 DEF Expected, Terminal
        <2>2. "cleaned" \in DOMAIN e /\ e["cleaned"] = TRUE
              OBVIOUS
        <2>3. c["cleaned"] = TRUE
              BY <2>1, <2>2 DEF Meets
        <2> QED BY <1>1, <2>3
  <1>2. CASE mig # "cleanup"
        <2> DEFINE e == [dual |-> FALSE, profile |-> "source", cleaned |-> FALSE, rolled |-> TRUE, mailbox |-> "source"]
        <2>1. Expected(Terminal(mig)) = e
              BY <1>2 DEF Expected, Terminal
        <2>2. "rolled" \in DOMAIN e /\ e["rolled"] = TRUE
              OBVIOUS
        <2>3. c["rolled"] = TRUE
              BY <2>1, <2>2 DEF Meets
        <2> QED BY <1>2, <2>3
  <1> QED BY <1>1, <1>2

\* The next phase of a run, and its end.
LEMMA NextPhase ==
    ASSUME NEW r \in ProcState, Coherent(r), r.pc = "check", r.mode # "single", Tail(r.todo) # <<>>
    PROVE  LET s == [r EXCEPT !.pc = "begin", !.todo = Tail(r.todo), !.passed = r.passed \cup {r.ck.phase}]
           IN  /\ s \in ProcState /\ s.pc = "begin" /\ s.mode = r.mode /\ s.mig = r.mig /\ s.ck = r.ck
               /\ s.passed = r.passed \cup {r.ck.phase} /\ Coherent(s)
  <1> DEFINE e == Tail(r.todo)
             w == r.passed \cup {r.ck.phase}
             s == [r EXCEPT !.pc = "begin", !.todo = e, !.passed = w]
  <1>1. /\ r.todo # <<>> /\ Planned(r.todo, r.passed, Terminal(r.mig)) /\ r.ck.phase = Head(r.todo)
        BY ZenonT(40) DEF Coherent
  <1>2. r.todo \in Seq(Phase) /\ r.passed \subseteq Phase
        BY DEF ProcState
  <1>3. e \in Seq(Phase)
        BY <1>1, <1>2
  <1>4. r.ck.phase \in Phase
        BY <1>1, <1>2
  <1>5. w \in SUBSET Phase
        BY <1>2, <1>4
  <1>6. Planned(e, w, Terminal(r.mig))
        BY <1>1, <1>2, PlanTail
  <1> HIDE DEF e, w
  <1>7. /\ s \in ProcState /\ s.pc = "begin" /\ s.mode = r.mode /\ s.mig = r.mig /\ s.ck = r.ck
        /\ s.passed = w /\ s.todo = e
        BY <1>3, <1>5 DEF ProcState, Pc
  <1> HIDE DEF s
  <1>8. e # <<>>
        BY DEF e
  <1>9. /\ r.ck # Nothing => Sound(r.ck)
        /\ r.mode \in Modes /\ r.mig \in (IF r.mode = "acceptance" THEN Branches ELSE {"main"})
        BY ZenonT(40) DEF Coherent
  <1>10. Coherent(s)
        BY <1>6, <1>7, <1>8, <1>9 DEF Coherent
  <1> QED BY <1>7, <1>10 DEF s, e, w

\* After its last phase a run is about to release its lease.
LEMMA LastPhase ==
    ASSUME NEW r \in ProcState, Coherent(r), r.pc = "check", r.mode # "single", Tail(r.todo) = <<>>
    PROVE  LET s == [r EXCEPT !.pc = "release", !.passed = r.passed \cup {r.ck.phase}]
           IN  /\ s \in ProcState /\ s.pc = "release" /\ s.mode = r.mode /\ s.mig = r.mig /\ s.ck = r.ck
               /\ s.passed = r.passed \cup {r.ck.phase} /\ Coherent(s)
  <1> DEFINE w == r.passed \cup {r.ck.phase}
             s == [r EXCEPT !.pc = "release", !.passed = w]
  <1>1. /\ Len(r.todo) = 1 /\ r.ck.phase = Head(r.todo) /\ Planned(r.todo, w, Terminal(r.mig))
        BY EndOfPlan, ZenonT(40)
  <1>2. r.passed \subseteq Phase /\ r.ck.phase \in Phase
        <2>1. r.pc \notin {"ended", "acquire", "begin", "release", "restage"}
              OBVIOUS
        <2>2. r.ck.phase \in Phase
              BY <2>1, PhaseFacts, ZenonT(40)
        <2> QED BY <2>2 DEF ProcState
  <1>3. w \in SUBSET Phase /\ Head(r.todo) \in w
        BY <1>1, <1>2
  <1> HIDE DEF w
  <1>4. /\ s \in ProcState /\ s.pc = "release" /\ s.mode = r.mode /\ s.mig = r.mig /\ s.ck = r.ck
        /\ s.passed = w /\ s.todo = r.todo
        BY <1>3 DEF ProcState, Pc
  <1> HIDE DEF s
  <1>5. /\ r.ck # Nothing => Sound(r.ck)
        /\ r.todo # <<>>
        /\ r.mode \in Modes /\ r.mig \in (IF r.mode = "acceptance" THEN Branches ELSE {"main"})
        BY ZenonT(40) DEF Coherent
  <1>6. Coherent(s)
        BY <1>1, <1>3, <1>4, <1>5 DEF Coherent
  <1> QED BY <1>4, <1>6 DEF s, w

\* A single phase has nothing behind it.
LEMMA SingleEnds ==
    ASSUME NEW e \in Seq(Phase), Len(e) = 1
    PROVE  Tail(e) = <<>>
  <1>1. e # <<>>
        OBVIOUS
  <1>2. Tail(e) \in Seq(Phase) /\ Len(Tail(e)) = 0
        BY <1>1
  <1>3. \A f \in Seq(Phase) : Len(f) = 0 => f = <<>>
        OBVIOUS
  <1> QED BY <1>2, <1>3, ZenonT(40)

\* A process that went on after its check.
LEMMA CheckedGood ==
    ASSUME MigrationInv, NEW p \in Proc, proc[p].pc = "check", NEW s \in ProcState, Set(p, s), Coherent(s),
           s.pc \in {"begin", "release"}, s.mode = proc[p].mode, s.mig = proc[p].mig,
           s.passed = proc[p].passed \cup {proc[p].ck.phase},
           ~(proc[p].ck.phase = "shadow-read" /\ proc[p].differs),
           NEW m \in Mig, m = proc[p].mig, ctl'[m] = Loaded(m),
           \A n \in Mig : n # m => ctl'[n] = ctl[n],
           s.pc = "release" => /\ m # "cleanup" => Loaded(m).rolled
                               /\ m = "cleanup" => Loaded(m).cleaned,
           UNCHANGED <<data, guard>>
    PROVE  Good(p)'
  <1> DEFINE r == proc[p]
  <1>0. /\ r \in ProcState /\ Coherent(r) /\ EndsWell(p) /\ Manifested(p) /\ StillThere(p)
        /\ proc \in [Proc -> ProcState]
        BY Running, ZenonT(40)
  <1>1. proc'[p] = s
        BY <1>0 DEF Set
  <1>2. tgt' = tgt /\ man' = man /\ lease' = lease /\ barrier' = barrier
        BY Groups
  <1>3. Loaded(m) # Nothing
        <2>1. Loaded(m) \in ControlRow
              BY LoadedIs, ZenonT(40)
        <2> QED BY <2>1, RowThere, ZenonT(40)
  <1>4. EndsWell(p)'
        <2>1. m = "cleanup" => Rolled("rollback")'
              <3> SUFFICES ASSUME m = "cleanup" PROVE Rolled("rollback")'
                  BY ZenonT(40)
              <3>1. Rolled("rollback")
                    BY <1>0 DEF EndsWell
              <3>2. "rollback" \in Mig
                    BY MigIs
              <3>3. ctl'["rollback"] = ctl["rollback"]
                    BY <3>2
              <3> QED BY <3>1, <3>3, ZenonT(40) DEF Rolled
        <2>2. s.pc = "release" /\ m # "cleanup" => Rolled(m)'
              BY <1>3, ZenonT(40) DEF Rolled
        <2>3. s.pc = "release" /\ m = "cleanup" => ctl'[m] # Nothing /\ ctl'[m].cleaned
              BY <1>3, ZenonT(40)
        <2>4. s.mig = m /\ s.pc \notin {"undual", "restage", "ended"}
              OBVIOUS
        <2> QED BY <1>1, <2>1, <2>2, <2>3, <2>4, ZenonT(40) DEF EndsWell, Rolled
  <1>5. Manifested(p)'
        <2>1. r.pc \notin {"ended", "acquire"}
              OBVIOUS
        <2> QED BY <1>0, <1>1, <1>2, <2>1, ZenonT(40) DEF Manifested, AloneOnTarget
  <1>6. Fenced(p)' <=> Fenced(p)
        BY <1>1, <1>2, ZenonT(40) DEF Fenced
  <1>7. Fenced(p) /\ "shadow-read" \in s.passed => tgt = man[r.mig].snap
        <2>1. Fenced(p) /\ "shadow-read" \in r.passed => tgt = man[r.mig].snap
              BY <1>0, ZenonT(40) DEF StillThere
        <2>2. Fenced(p) /\ r.ck.phase = "shadow-read" => tgt = man[r.mig].snap
              BY <1>0, ZenonT(40) DEF StillThere
        <2> QED BY <2>1, <2>2, ZenonT(40)
  <1>8. StillThere(p)'
        BY <1>1, <1>2, <1>6, <1>7, ZenonT(40) DEF StillThere
  <1> QED BY <1>1, <1>4, <1>5, <1>8, ZenonT(40) DEF Good

\* The end of a phase.
LEMMA CheckStep ==
    ASSUME MigrationInv, NEW p \in Proc, Check(p)
    PROVE  MigrationInv'
  <1> DEFINE r == proc[p]
             ph == r.ck.phase
             listed == r.mode # "acceptance" \/ ph \in {"shadow-read", "verify"}
             good == /\ SourceUnchanged(p) /\ (listed => Fenced(p))
                     /\ r.mode # "single" =>
                           /\ ~(ph = "shadow-read" /\ r.differs)
                           /\ Loadable(r.mig) /\ RuntimeState(Loaded(r.mig))
                           /\ Meets(Loaded(r.mig), Expected(ph))
             t == [r EXCEPT !.pc = "begin", !.todo = Tail(r.todo), !.passed = r.passed \cup {ph}]
             u == [r EXCEPT !.pc = "release", !.passed = r.passed \cup {ph}]
  <1>0. r \in ProcState /\ Coherent(r) /\ Manifested(p) /\ r.pc = "check" /\ used \in Nat
        BY Running, ZenonT(40) DEF Check
  <1>1. CASE ~good
        <2>1. Fail(p)
              BY <1>1, ZenonT(40) DEF Check
        <2> QED BY <2>1, FailStep
  <1>2. CASE good /\ r.mode = "single"
        <2>1. Tail(r.todo) = <<>>
              <3>1. Len(r.todo) = 1
                    BY <1>0, <1>2, ZenonT(40) DEF Coherent
              <3>2. r.todo \in Seq(Phase)
                    BY <1>0 DEF ProcState
              <3> QED BY <3>1, <3>2, SingleEnds, ZenonT(40)
        <2>2. /\ ctl' = ctl /\ Set(p, Ends(IF ph = "shadow-read" /\ r.differs THEN "fail" ELSE "pass"))
              /\ UNCHANGED <<data, guard, app, ckpt, used>>
              BY <1>2, <2>1, ZenonT(40) DEF Check
        <2>3. PICK x \in {"not_run", "pass", "fail"} : x = IF ph = "shadow-read" /\ r.differs THEN "fail" ELSE "pass"
              BY ZenonT(40)
        <2>4. Set(p, Ends(x))
              BY <2>2, <2>3, ZenonT(40)
        <2>5. UNCHANGED <<data, guard, control, ckpt>> /\ used' \in Nat
              BY <1>0, <2>2 DEF control
        <2>6. /\ Ends(x) \in ProcState /\ Ends(x).pc = "ended" /\ Ends(x).passed = {}
              /\ Ends(x).ck = Nothing /\ Ends(x).mode = "single"
              BY EndedIs, ZenonT(40)
        <2> QED BY <2>4, <2>5, <2>6, EndStep, ZenonT(40)
  <1>3. CASE good /\ r.mode # "single"
        <2>1. /\ ctl' = [ctl EXCEPT ![r.mig] = Loaded(r.mig)]
              /\ Set(p, IF Tail(r.todo) # <<>> THEN t ELSE u)
              /\ UNCHANGED <<data, guard, app, ckpt, used>>
              BY <1>3, ZenonT(40) DEF Check
        <2>2. PICK m \in Mig : m = r.mig
              BY <1>0 DEF ProcState
        <2>3. Loaded(m) \in ControlRow /\ Settled(Loaded(m)) /\ ctl \in [Mig -> ControlRow \cup {Nothing}]
              BY LoadedIs, ZenonT(40)
        <2>4. /\ RuntimeState(Loaded(m)) /\ Meets(Loaded(m), Expected(ph)) /\ r.mode # "single"
              /\ ~(ph = "shadow-read" /\ r.differs)
              BY <1>3, <2>2, ZenonT(40)
        <2>5. PICK c \in ControlRow : c = Loaded(m)
              BY <2>3
        <2>6. /\ ctl' \in [Mig -> ControlRow \cup {Nothing}] /\ ctl'[m] = c
              /\ \A n \in Mig : n # m => ctl'[n] = ctl[n]
              <3>1. ctl' = [ctl EXCEPT ![m] = c]
                    BY <2>1, <2>2, <2>5, ZenonT(40)
              <3> QED BY <2>3, <3>1
        <2>7. UNCHANGED <<data, guard, ckpt, used>> /\ UNCHANGED <<data, guard>> /\ app' = app
              BY <2>1
        <2>8. /\ app' \in [active : {"source", "target"}, candidate : BOOLEAN, ver : Nat]
              /\ app'.active = c.profile
              <3>1. app \in [active : {"source", "target"}, candidate : BOOLEAN, ver : Nat]
                    BY ZenonT(40) DEF MigrationInv, MigrationTypeOK
              <3>2. app.active = Loaded(m).profile
                    BY <2>4, ZenonT(40) DEF RuntimeState
              <3> QED BY <2>5, <2>7, <3>1, <3>2, ZenonT(40)
        <2>9. m = "main" => AloneOnTarget
              <3> SUFFICES ASSUME m = "main" PROVE AloneOnTarget
                  BY ZenonT(40)
              <3>1. r.mode = "production"
                    <4>1. r.mode = "acceptance" => r.mig \in {"rollback", "cleanup"}
                          BY <1>0, MigOf
                    <4> QED BY <1>0, <2>2, <2>4, <4>1 DEF ProcState
              <3> QED BY <1>0, <3>1 DEF Manifested
        <2>10. PICK s \in ProcState : Set(p, s) /\ Good(p)'
              <3>1. CASE Tail(r.todo) # <<>>
                    <4>1. Set(p, t)
                          BY <2>1, <3>1, ZenonT(40)
                    <4>2. /\ t \in ProcState /\ t.pc = "begin" /\ t.mode = r.mode /\ t.mig = r.mig
                          /\ t.passed = r.passed \cup {ph} /\ Coherent(t)
                          BY <1>0, <2>4, <3>1, NextPhase
                    <4> HIDE DEF t
                    <4>3. t.pc \in {"begin", "release"} /\ t.pc # "release"
                          BY <4>2
                    <4>4. Good(p)'
                          BY <1>0, <2>2, <2>4, <2>5, <2>6, <2>7, <4>1, <4>2, <4>3, CheckedGood, ZenonT(40)
                    <4> QED BY <4>1, <4>2, <4>4
              <3>2. CASE Tail(r.todo) = <<>>
                    <4>1. Set(p, u)
                          BY <2>1, <3>2, ZenonT(40)
                    <4>2. /\ u \in ProcState /\ u.pc = "release" /\ u.mode = r.mode /\ u.mig = r.mig
                          /\ u.passed = r.passed \cup {ph} /\ Coherent(u)
                          BY <1>0, <2>4, <3>2, LastPhase
                    <4> HIDE DEF u
                    <4>3. u.pc \in {"begin", "release"}
                          BY <4>2
                    <4>4. Meets(Loaded(m), Expected(Terminal(m)))
                          <5>1. ph = Terminal(r.mig)
                                BY <1>0, <2>4, <3>2, EndOfPlan, ZenonT(40)
                          <5> QED BY <2>2, <2>4, <5>1, ZenonT(40)
                    <4>5. /\ m # "cleanup" => Loaded(m).rolled
                          /\ m = "cleanup" => Loaded(m).cleaned
                          BY <4>4, ReadBack, ZenonT(40)
                    <4>6. Good(p)'
                          BY <1>0, <2>2, <2>4, <2>5, <2>6, <2>7, <4>1, <4>2, <4>3, <4>5, CheckedGood, ZenonT(40)
                    <4> QED BY <4>1, <4>2, <4>6
              <3> QED BY <3>1, <3>2
        <2>11. Loaded(m).rolled => c.rolled
              BY <2>5, ZenonT(40)
        <2>12. Settled(c)
              BY <2>3, <2>5, ZenonT(40)
        <2> QED BY <2>2, <2>4, <2>5, <2>6, <2>7, <2>8, <2>9, <2>10, <2>11, <2>12, HookFrame, ZenonT(60)
  <1> QED BY <1>1, <1>2, <1>3

\* Before the first script, nothing is there.
LEMMA InitInv == Init => MigrationInv
  <1> SUFFICES ASSUME Init PROVE MigrationInv
      OBVIOUS
  <1>0. Ended \in ProcState /\ Ended.pc = "ended" /\ Ended.passed = {} /\ Ended.ck = Nothing /\ Ended.mode = "single"
        BY EndedIs
  <1>1. \A p \in Proc : proc[p] = Ended
        BY DEF Init
  <1>2. \A m \in Mig : man[m] = Nothing /\ ckpt[m] = Nothing /\ ctl[m] = Nothing /\ ~lease[m].live
        BY DEF Init, NoLease
  <1>3. MigrationTypeOK
        <2>1. src \in [1..N -> 1..2] /\ tgt \in [1..N -> 0..2]
              BY DEF Init
        <2>2. foreign \subseteq Traffic /\ pending \subseteq Traffic /\ used \in Nat
              BY DEF Init
        <2>3. man \in [Mig -> ManifestRow \cup {Nothing}] /\ ckpt \in [Mig -> CheckpointRow \cup {Nothing}]
              /\ ctl \in [Mig -> ControlRow \cup {Nothing}]
              BY DEF Init
        <2>4. lease \in [Mig -> [owner : Proc \cup {Nothing}, live : BOOLEAN]]
              BY DEF Init, NoLease
        <2>5. barrier \in [mig : Mig \cup {Nothing}, owner : Proc \cup {Nothing},
                           mode : {"absent", "active", "released"}]
              BY DEF Init
        <2>6. app \in [active : {"source", "target"}, candidate : BOOLEAN, ver : Nat]
              BY DEF Init
        <2>7. proc \in [Proc -> ProcState]
              BY <1>0 DEF Init
        <2> QED BY <2>1, <2>2, <2>3, <2>4, <2>5, <2>6, <2>7, ZenonT(40) DEF MigrationTypeOK
  <1>4. Coherent(Ended)
        BY <1>0 DEF Coherent
  <1>5. ProcInv
        BY <1>1, <1>2, <1>4, ZenonT(40) DEF ProcInv
  <1>6. \A p \in Proc : EndsWell(p) /\ Manifested(p) /\ StillThere(p)
        <2> TAKE p \in Proc
        <2>1. proc[p] = Ended
              BY <1>1
        <2> QED BY <1>0, <2>1 DEF EndsWell, Manifested, StillThere
  <1>7. PointerTracked
        <2>1. app.active = "source"
              BY DEF Init
        <2> QED BY <1>2, <2>1, ZenonT(40) DEF PointerTracked, AtTarget
  <1>8. ControlInv
        BY <1>2, <1>6, <1>7, ZenonT(40) DEF ControlInv, AtTarget
  <1>9. ManifestInv
        BY <1>2, <1>6, ZenonT(40) DEF ManifestInv
  <1>10. LeaseInv /\ CompareInv
        BY <1>2, <1>6, ZenonT(40) DEF LeaseInv, CompareInv
  <1>11. BarrierCoversTarget
        BY <1>2, ZenonT(40) DEF BarrierCoversTarget, AtTarget
  <1> QED BY <1>3, <1>5, <1>8, <1>9, <1>10, <1>11, ZenonT(40) DEF MigrationInv

\* Nothing happens.
LEMMA StutterInv ==
    ASSUME MigrationInv, UNCHANGED vars
    PROVE  MigrationInv'
  <1>1. /\ src' = src /\ tgt' = tgt /\ foreign' = foreign /\ pending' = pending /\ man' = man
        /\ lease' = lease /\ barrier' = barrier /\ ckpt' = ckpt /\ ctl' = ctl /\ app' = app
        /\ proc' = proc /\ used' = used
        BY DEF vars
  <1>2. MigrationTypeOK
        BY ZenonT(40) DEF MigrationInv
  <1>3. MigrationTypeOK'
        BY <1>1, <1>2, ZenonT(40) DEF MigrationTypeOK
  <1>4. app'.active = app.active /\ \A m \in Mig : lease'[m] = lease[m] \/ ~lease'[m].live
        BY <1>1, ZenonT(40)
  <1> QED BY <1>1, <1>3, <1>4, EnvFrame, ZenonT(40)

\* Every step keeps the invariant.
LEMMA StepInv == MigrationInv /\ [Next]_vars => MigrationInv'
  <1> SUFFICES ASSUME MigrationInv, [Next]_vars PROVE MigrationInv'
      OBVIOUS
  <1>1. ASSUME NEW p \in Proc, Step(p) PROVE MigrationInv'
        BY <1>1, AcquireStep, BeginStep, PrepareStep, FetchStep, UpsertStep, EnumerateStep, CompareStep,
           RenewStep, SaveStep, ControlStep, StopDualStep, CheckStep, ReleaseStep, RestageStep,
           ZenonT(40) DEF Step
  <1>2. ASSUME NEW p \in Proc, Crash(p) PROVE MigrationInv'
        BY <1>2, CrashStep, ZenonT(40)
  <1>3. ASSUME NEW p \in Proc, NEW c \in Command, Start(p, c.mode, c.phase) PROVE MigrationInv'
        BY <1>3, StartStep, ZenonT(40)
  <1>4. ASSUME NEW m \in Mig, Expire(m) PROVE MigrationInv'
        BY <1>4, ExpireStep, ZenonT(40)
  <1>5. ASSUME NEW i \in 1..N, SourceWrite(i) PROVE MigrationInv'
        BY <1>5, SourceWriteStep, ZenonT(40)
  <1>6. ASSUME NEW k \in Traffic, Statement(k) \/ Commit(k) PROVE MigrationInv'
        BY <1>6, StatementStep, CommitStep, ZenonT(40)
  <1>7. CASE UNCHANGED vars
        BY <1>7, StutterInv
  <1> QED BY <1>1, <1>2, <1>3, <1>4, <1>5, <1>6, <1>7, ZenonT(40) DEF Next

\* The inductive invariant holds in every state that the scripts, the traffic
\* and the crashes reach.
THEOREM MigrationInvariant == Spec => []MigrationInv
  BY InitInv, StepInv, PTL DEF Spec

\* The pointer of the application and the control states move together.
THEOREM MigrationPointerTracked == Spec => []PointerTracked
  <1>1. MigrationInv => PointerTracked
        BY ZenonT(40) DEF MigrationInv, ControlInv
  <1> QED BY <1>1, MigrationInvariant, PTL

\* The barrier stays up while a production run has the application at the target.
THEOREM MigrationBarrierCoversTarget == Spec => []BarrierCoversTarget
  <1>1. MigrationInv => BarrierCoversTarget
        BY ZenonT(40) DEF MigrationInv
  <1> QED BY <1>1, MigrationInvariant, PTL

\* What a run compared stays true while it holds the fence.
THEOREM MigrationComparedHolds == Spec => []ComparedHolds
  <1>1. MigrationInv => ComparedHolds
        <2> SUFFICES ASSUME MigrationInv, NEW p \in Proc, Compared(p), Fenced(p)
                     PROVE  tgt = man[proc[p].mig].snap
            BY ZenonT(40) DEF ComparedHolds
        <2>1. StillThere(p)
              BY Running, ZenonT(40)
        <2>2. "shadow-read" \in proc[p].passed => tgt = man[proc[p].mig].snap
              BY <2>1, ZenonT(40) DEF StillThere
        <2>3. proc[p].pc \in {"save", "check"} /\ proc[p].ck.phase = "shadow-read" /\ ~proc[p].differs
                 => tgt = man[proc[p].mig].snap
              BY <2>1, ZenonT(40) DEF StillThere
        <2> QED BY <2>2, <2>3, ZenonT(40) DEF Compared
  <1> QED BY <1>1, MigrationInvariant, PTL

\* The report is not written by a step within the run.
LEMMA ResultKept ==
    ASSUME NEW r \in ProcState
    PROVE  /\ \A x : [r EXCEPT !.pc = x].result = r.result
           /\ \A x, k : [r EXCEPT !.pc = x, !.ck = k].result = r.result
           /\ \A x : [[r EXCEPT !.pc = x] EXCEPT !.ck.done = TRUE].result = r.result
           /\ \A x, v : [r EXCEPT !.pc = x, !.page = v].result = r.result
           /\ \A x : [r EXCEPT !.pc = x, !.probe = FALSE].result = r.result
           /\ \A x, v, e, b : [r EXCEPT !.pc = x, !.page = v, !.ck.seen = e, !.ck.done = b].result = r.result
           /\ \A x, t, b : [[r EXCEPT !.pc = x] EXCEPT !.copy = t, !.differs = b].result = r.result
           /\ \A x, t, b, e, d : [r EXCEPT !.pc = x, !.copy = t, !.differs = b, !.ck.seen = e, !.ck.done = d].result
                                    = r.result
           /\ \A x, t, w : [r EXCEPT !.pc = x, !.todo = t, !.passed = w].result = r.result
           /\ \A x, w : [r EXCEPT !.pc = x, !.passed = w].result = r.result
           /\ \A x, m, v, t, k, w : [r EXCEPT !.pc = x, !.mig = m, !.rev = v, !.todo = t, !.ck = k,
                                              !.passed = w].result = r.result
           /\ \A x, d, m, t, n, b : [r EXCEPT !.pc = x, !.mode = d, !.mig = m, !.todo = t, !.snap = n,
                                              !.probe = b].result = r.result
  BY DEF ProcState

\* The report of a process that ends.
LEMMA ResultEnds == \A x : Ends(x).result = x /\ Ended.result = "not_run"
  BY DEF Ends, Ended

\* The step of a process that does not report a success.
Quiet(q) == \E s : Set(q, s) /\ s.result \in {proc[q].result, "fail", "not_run"}

\* The failed report is not a success.
LEMMA FailQuiet ==
    ASSUME NEW q \in Proc, Fail(q)
    PROVE  Quiet(q)
  <1>1. Set(q, Ends("fail")) /\ Ends("fail").result = "fail"
        BY ResultEnds, ZenonT(40) DEF Fail
  <1> QED BY <1>1, ZenonT(40) DEF Quiet

\* Nor is any step within a run.
LEMMA StepQuiet ==
    ASSUME MigrationInv, NEW q \in Proc, Step(q), ~Release(q), proc[q].mode # "single"
    PROVE  Quiet(q)
  <1> DEFINE r == proc[q]
  <1>0. r \in ProcState
        BY Running, ZenonT(40)
  <1>a. CASE Fail(q)
        BY <1>a, FailQuiet
  <1>b. ASSUME NEW s, Set(q, s), s.result = r.result PROVE Quiet(q)
        BY <1>b, ZenonT(40) DEF Quiet
  <1>1. CASE Acquire(q)
        <2>1. Fail(q) \/ Set(q, [r EXCEPT !.pc = "begin"])
              BY <1>1, ZenonT(40) DEF Acquire, Goto
        <2>2. [r EXCEPT !.pc = "begin"].result = r.result
              BY <1>0, ResultKept
        <2> QED BY <1>a, <1>b, <2>1, <2>2
  <1>2. CASE Begin(q)
        <2>1. PICK x, k : Fail(q) \/ Set(q, [r EXCEPT !.pc = x, !.ck = k])
              BY <1>2, ZenonT(40) DEF Begin
        <2>2. [r EXCEPT !.pc = x, !.ck = k].result = r.result
              BY <1>0, ResultKept
        <2> QED BY <1>a, <1>b, <2>1, <2>2
  <1>3. CASE Prepare(q) \/ StopDual(q)
        <2>1. Fail(q) \/ Set(q, [[r EXCEPT !.pc = "renew"] EXCEPT !.ck.done = TRUE])
              BY <1>3, ZenonT(40) DEF Prepare, StopDual, Goto
        <2>2. [[r EXCEPT !.pc = "renew"] EXCEPT !.ck.done = TRUE].result = r.result
              BY <1>0, ResultKept
        <2> QED BY <1>a, <1>b, <2>1, <2>2
  <1>4. CASE Fetch(q)
        <2>1. PICK v : Set(q, [r EXCEPT !.pc = "upsert", !.page = v])
              BY <1>4, ZenonT(40) DEF Fetch
        <2>2. [r EXCEPT !.pc = "upsert", !.page = v].result = r.result
              BY <1>0, ResultKept
        <2> QED BY <1>b, <2>1, <2>2
  <1>5. CASE Upsert(q)
        <2>1. PICK e, b : \/ Fail(q)
                          \/ Set(q, [r EXCEPT !.pc = "begin", !.probe = FALSE])
                          \/ Set(q, Ends("fail"))
                          \/ Set(q, [r EXCEPT !.pc = "renew", !.page = 0, !.ck.seen = e, !.ck.done = b])
              BY <1>5, ZenonT(40) DEF Upsert
        <2>2. [r EXCEPT !.pc = "begin", !.probe = FALSE].result = r.result
              BY <1>0, ResultKept
        <2>3. [r EXCEPT !.pc = "renew", !.page = 0, !.ck.seen = e, !.ck.done = b].result = r.result
              BY <1>0, ResultKept
        <2>4. CASE Set(q, Ends("fail"))
              BY <2>4, ResultEnds, ZenonT(40) DEF Quiet
        <2> QED BY <1>a, <1>b, <2>1, <2>2, <2>3, <2>4
  <1>6. CASE Enumerate(q)
        <2>1. PICK t, b : Fail(q) \/ Set(q, [[r EXCEPT !.pc = "compare"] EXCEPT !.copy = t, !.differs = b])
              BY <1>6, ZenonT(40) DEF Enumerate, Goto
        <2>2. [[r EXCEPT !.pc = "compare"] EXCEPT !.copy = t, !.differs = b].result = r.result
              BY <1>0, ResultKept
        <2> QED BY <1>a, <1>b, <2>1, <2>2
  <1>7. CASE Compare(q)
        <2>1. PICK b, e, d : Fail(q) \/ Set(q, [r EXCEPT !.pc = "renew", !.copy = <<>>, !.differs = b,
                                                         !.ck.seen = e, !.ck.done = d])
              BY <1>7, ZenonT(40) DEF Compare
        <2>2. [r EXCEPT !.pc = "renew", !.copy = <<>>, !.differs = b, !.ck.seen = e, !.ck.done = d].result = r.result
              BY <1>0, ResultKept
        <2> QED BY <1>a, <1>b, <2>1, <2>2
  <1>8. CASE Renew(q)
        <2>1. Fail(q) \/ Set(q, [r EXCEPT !.pc = "save"])
              BY <1>8, ZenonT(40) DEF Renew, Goto
        <2>2. [r EXCEPT !.pc = "save"].result = r.result
              BY <1>0, ResultKept
        <2> QED BY <1>a, <1>b, <2>1, <2>2
  <1>9. CASE Save(q)
        <2>1. \/ Set(q, Ends("fail"))
              \/ Set(q, [r EXCEPT !.pc = "fetch"]) \/ Set(q, [r EXCEPT !.pc = "check"])
              BY <1>9, ZenonT(40) DEF Save, Goto
        <2>2. [r EXCEPT !.pc = "fetch"].result = r.result /\ [r EXCEPT !.pc = "check"].result = r.result
              BY <1>0, ResultKept
        <2>3. CASE Set(q, Ends("fail"))
              BY <2>3, ResultEnds, ZenonT(40) DEF Quiet
        <2> QED BY <1>b, <2>1, <2>2, <2>3
  <1>10. CASE Control(q)
        <2>1. \/ Fail(q) \/ Set(q, [r EXCEPT !.pc = "undual"])
              \/ Set(q, [[r EXCEPT !.pc = "renew"] EXCEPT !.ck.done = TRUE])
              BY <1>10, ZenonT(40) DEF Control, Goto
        <2>2. [r EXCEPT !.pc = "undual"].result = r.result
              BY <1>0, ResultKept
        <2>3. [[r EXCEPT !.pc = "renew"] EXCEPT !.ck.done = TRUE].result = r.result
              BY <1>0, ResultKept
        <2> QED BY <1>a, <1>b, <2>1, <2>2, <2>3
  <1>11. CASE Check(q)
        <2>1. PICK t, w : \/ Fail(q) \/ Set(q, [r EXCEPT !.pc = "begin", !.todo = t, !.passed = w])
                          \/ Set(q, [r EXCEPT !.pc = "release", !.passed = w])
              BY <1>11, ZenonT(40) DEF Check
        <2>2. [r EXCEPT !.pc = "begin", !.todo = t, !.passed = w].result = r.result
              BY <1>0, ResultKept
        <2>3. [r EXCEPT !.pc = "release", !.passed = w].result = r.result
              BY <1>0, ResultKept
        <2> QED BY <1>a, <1>b, <2>1, <2>2, <2>3
  <1>12. CASE Restage(q)
        <2>1. PICK v, t : Fail(q) \/ Set(q, [r EXCEPT !.pc = "acquire", !.mig = "cleanup", !.rev = v, !.todo = t,
                                                      !.ck = Nothing, !.passed = {}])
              BY <1>12, ZenonT(40) DEF Restage
        <2>2. [r EXCEPT !.pc = "acquire", !.mig = "cleanup", !.rev = v, !.todo = t,
                        !.ck = Nothing, !.passed = {}].result = r.result
              BY <1>0, ResultKept
        <2> QED BY <1>a, <1>b, <2>1, <2>2
  <1> QED BY <1>1, <1>2, <1>3, <1>4, <1>5, <1>6, <1>7, <1>8, <1>9, <1>10, <1>11, <1>12, ZenonT(40) DEF Step

\* Only the release of a whole run reports a success.
LEMMA OnlyReleasePasses ==
    ASSUME MigrationInv, Next, NEW p \in Proc, Passes(p)
    PROVE  Release(p)
  <1>0. proc \in [Proc -> ProcState]
        BY Running, ZenonT(40)
  <1>1. proc'[p].result = "pass" /\ proc[p].result # "pass" /\ proc[p].mode # "single"
        BY ZenonT(40) DEF Passes
  <1>2. proc'[p] # proc[p]
        BY <1>1, ZenonT(40)
  <1>3. ASSUME NEW q \in Proc, NEW s, Set(q, s) PROVE q = p /\ proc'[p] = s
        BY <1>0, <1>2, <1>3 DEF Set
  <1>4. ~Quiet(p)
        <2> SUFFICES ASSUME NEW s, Set(p, s), s.result \in {proc[p].result, "fail", "not_run"}
                     PROVE  FALSE
            BY ZenonT(40) DEF Quiet
        <2>1. proc'[p] = s
              BY <1>3
        <2> QED BY <1>1, <2>1
  <1>5. ASSUME NEW q \in Proc, Step(q) PROVE Release(p)
        <2>1. \E s : Set(q, s)
              BY <1>5, ZenonT(40) DEF Step, Acquire, Begin, Prepare, Fetch, Upsert, Enumerate, Compare, Renew, Save,
                  Control, StopDual, Check, Release, Restage, Fail
        <2>2. q = p
              BY <1>3, <2>1, ZenonT(40)
        <2> QED BY <1>1, <1>4, <1>5, <2>2, StepQuiet, ZenonT(40)
  <1>6. ASSUME NEW q \in Proc, Crash(q) PROVE FALSE
        <2>1. Set(q, Ended)
              BY <1>6, ZenonT(40) DEF Crash
        <2>2. proc'[p] = Ended
              BY <1>3, <2>1, ZenonT(40)
        <2> QED BY <1>1, <2>2, ResultEnds
  <1>7. ASSUME NEW q \in Proc, NEW c \in Command, Start(q, c.mode, c.phase) PROVE FALSE
        <2>1. PICK d, m, t, n, b : Set(q, [Ended EXCEPT !.pc = "acquire", !.mode = d, !.mig = m, !.todo = t,
                                                        !.snap = n, !.probe = b])
              BY <1>7, ZenonT(40) DEF Start
        <2> DEFINE s == [Ended EXCEPT !.pc = "acquire", !.mode = d, !.mig = m, !.todo = t, !.snap = n, !.probe = b]
        <2>2. proc'[p] = s
              BY <1>3, <2>1, ZenonT(40)
        <2>3. s.result = Ended.result
              BY EndedIs, ResultKept
        <2> QED BY <1>1, <2>2, <2>3, ResultEnds
  <1>8. ASSUME UNCHANGED proc PROVE FALSE
        BY <1>2, <1>8, ZenonT(40)
  <1>9. \A m \in Mig : ~Expire(m)
        BY <1>8 DEF Expire
  <1>10. \A i \in 1..N : ~SourceWrite(i)
        BY <1>8 DEF SourceWrite
  <1>11. \A k \in Traffic : ~Statement(k) /\ ~Commit(k)
        BY <1>8 DEF Statement, Commit
  <1> QED BY <1>5, <1>6, <1>7, <1>9, <1>10, <1>11, ZenonT(40) DEF Next

\* What a report that passes says of the state.
Complete(p) ==
    /\ tgt = man[proc[p].mig].snap
    /\ \A m \in MigsOf(p) : ~lease'[m].live /\ ctl[m] # Nothing
                            /\ (ctl[m].rolled \/ ctl[m].cleaned) /\ ~ctl[m].dual
    /\ barrier'.mode = "released"

\* The release that passes finds everything done.
LEMMA ReleaseComplete ==
    ASSUME MigrationInv, NEW p \in Proc, Release(p), Passes(p)
    PROVE  Complete(p)
  <1> DEFINE r == proc[p]
  <1>0. /\ r \in ProcState /\ Coherent(r) /\ EndsWell(p) /\ StillThere(p) /\ proc \in [Proc -> ProcState]
        /\ r.pc = "release"
        BY Running, ZenonT(40) DEF Release
  <1>1. proc'[p].result = "pass" /\ r.result # "pass" /\ r.mode # "single"
        BY ZenonT(40) DEF Passes
  <1>2. Fenced(p)
        <2> SUFFICES ASSUME ~Fenced(p) PROVE FALSE
            BY ZenonT(40)
        <2>1. Set(p, Ends("fail"))
              BY ZenonT(40) DEF Release, Fail
        <2>2. proc'[p] = Ends("fail")
              BY <1>0, <2>1 DEF Set
        <2> QED BY <1>1, <2>2, ResultEnds
  <1>3. /\ barrier' = [barrier EXCEPT !.mode = "released"]
        /\ lease' = [lease EXCEPT ![r.mig].live = FALSE]
        /\ r.mode = "acceptance" /\ r.mig = "rollback" => Set(p, [r EXCEPT !.pc = "restage"])
        BY <1>2, ZenonT(40) DEF Release, Goto
  <1>4. ~(r.mode = "acceptance" /\ r.mig = "rollback")
        <2> SUFFICES ASSUME r.mode = "acceptance", r.mig = "rollback" PROVE FALSE
            BY ZenonT(40)
        <2>1. proc'[p] = [r EXCEPT !.pc = "restage"]
              BY <1>0, <1>3 DEF Set
        <2>2. [r EXCEPT !.pc = "restage"].result = r.result
              BY <1>0, ResultKept
        <2> QED BY <1>1, <2>1, <2>2
  <1>5. /\ lease \in [Mig -> [owner : Proc \cup {Nothing}, live : BOOLEAN]]
        /\ barrier \in [mig : Mig \cup {Nothing}, owner : Proc \cup {Nothing},
                        mode : {"absent", "active", "released"}]
        /\ LeaseInv /\ \A m \in Mig : ctl[m] # Nothing => Settled(ctl[m])
        BY ZenonT(40) DEF MigrationInv, MigrationTypeOK, ControlInv
  <1>6. /\ r.mig \in Mig
        /\ r.mode # "acceptance" => r.mig = "main"
        /\ r.mode = "acceptance" => r.mig \in {"rollback", "cleanup"} /\ "rollback" \in Mig
        BY <1>0, MigOf
  <1>7. "shadow-read" \in r.passed
        <2>1. Len(r.todo) = 1 /\ Head(r.todo) \in r.passed /\ Planned(r.todo, r.passed, Terminal(r.mig))
              /\ r.todo # <<>>
              BY <1>0, <1>1, ZenonT(40) DEF Coherent
        <2>2. r.todo \in Seq(Phase)
              BY <1>0 DEF ProcState
        <2>3. Head(r.todo) = r.todo[1]
              BY <2>1, <2>2
        <2>4. \A i \in 1..Len(r.todo) : i = 1
              BY <2>1
        <2> QED BY <2>1, <2>3, <2>4, ZenonT(40) DEF Planned
  <1>8. tgt = man[r.mig].snap
        BY <1>0, <1>2, <1>7, ZenonT(40) DEF StillThere
  <1>9. barrier'.mode = "released"
        BY <1>3, <1>5
  <1>10. \A m \in Mig : ~lease'[m].live
        <2>1. lease[r.mig].live
              BY <1>2 DEF Fenced
        <2>2. \A m \in Mig : m # r.mig => ~lease[m].live
              BY <1>5, <1>6, <2>1, ZenonT(40) DEF LeaseInv
        <2>3. ~lease'[r.mig].live /\ \A m \in Mig : m # r.mig => lease'[m] = lease[m]
              BY <1>3, <1>5, <1>6
        <2> QED BY <2>2, <2>3, ZenonT(40)
  <1>11. ASSUME NEW m \in Mig, Rolled(m)
         PROVE  ctl[m] # Nothing /\ (ctl[m].rolled \/ ctl[m].cleaned) /\ ~ctl[m].dual
        BY <1>5, <1>11, ZenonT(40) DEF Rolled, Settled
  <1>12. CASE r.mode = "acceptance"
        <2>1. r.mig = "cleanup" /\ MigsOf(p) = {"rollback", "cleanup"}
              BY <1>4, <1>6, <1>12 DEF MigsOf, Branches
        <2>2. Rolled("rollback") /\ ctl["cleanup"] # Nothing /\ ctl["cleanup"].cleaned
              BY <1>0, <1>2, <2>1 DEF EndsWell
        <2>3. ~ctl["cleanup"].dual
              BY <1>5, <1>6, <2>1, <2>2, ZenonT(40) DEF Settled
        <2>4. \A m \in MigsOf(p) : m \in Mig /\ (m = "rollback" \/ m = "cleanup")
              BY <1>6, <1>12, <2>1
        <2> QED BY <1>8, <1>9, <1>10, <1>11, <2>2, <2>3, <2>4, ZenonT(40) DEF Complete
  <1>13. CASE r.mode # "acceptance"
        <2>1. r.mig = "main" /\ \A m \in MigsOf(p) : m = "main" /\ m \in Mig
              BY <1>6, <1>13 DEF MigsOf
        <2>2. Rolled("main")
              BY <1>0, <2>1 DEF EndsWell
        <2> QED BY <1>8, <1>9, <1>10, <1>11, <2>1, <2>2, ZenonT(40) DEF Complete
  <1> QED BY <1>12, <1>13

\* A report that passes describes a finished migration: the snapshot is in the
\* target, every control state is terminal, no lease is alive and the barrier
\* is released.
THEOREM MigrationPassIsComplete == Spec => PassIsComplete
  <1> DEFINE A == \A p \in Proc : Passes(p) => Complete(p)
  <1>1. MigrationInv /\ [Next]_vars => [A]_vars
        <2>1. ASSUME MigrationInv, Next, NEW p \in Proc, Passes(p) PROVE Complete(p)
              BY <2>1, OnlyReleasePasses, ReleaseComplete, ZenonT(40)
        <2>2. MigrationInv /\ Next => A
              BY <2>1, ZenonT(40)
        <2> HIDE DEF A
        <2> QED BY <2>2
  <1>2. [A]_vars => [\A p \in Proc : Passes(p) =>
          /\ tgt = man[proc[p].mig].snap
          /\ \A m \in MigsOf(p) : ~lease'[m].live /\ ctl[m] # Nothing
                            /\ (ctl[m].rolled \/ ctl[m].cleaned) /\ ~ctl[m].dual
          /\ barrier'.mode = "released"]_vars
        BY ZenonT(40) DEF Complete
  <1> HIDE DEF A
  <1> QED BY <1>1, <1>2, MigrationInvariant, PTL DEF Spec, PassIsComplete

=============================================================================
