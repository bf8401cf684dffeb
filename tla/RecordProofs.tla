---------------------------- MODULE RecordProofs ----------------------------
(***************************************************************************)
(* What PostgreSQL remembers of artifacts and of applications.             *)
(*                                                                         *)
(* First the promises of the artifact store for every number of executions *)
(* and of failed calls.  ArtifactInv says who may delete what: an          *)
(* execution deletes its own key once it needs it no more, or the key it   *)
(* replaced, which the row never names again; the collector deletes keys   *)
(* of ended executions, and drops the row only under the lock it took      *)
(* while the row was staged.                                               *)
(*                                                                         *)
(* Then those of the control plane.                                        *)
(***************************************************************************)
EXTENDS ArtifactLifecycle, ControlPlane, TLAPS

Phase == Busy \cup {"idle", "uploading", "discarding", "failed", "done"}

Ended(k) == exec[k].pc \in {"failed", "done"}

-----------------------------------------------------------------------------
(* One execution moves *)

\* An execution goes on to another phase with the keys it holds.
LEMMA AtMoves ==
    ASSUME exec \in [Exec -> ExecState], NEW x \in Exec, NEW p \in Phase, At(x, p)
    PROVE  /\ exec' \in [Exec -> ExecState]
           /\ exec'[x].pc = p /\ exec'[x].key = exec[x].key
           /\ exec'[x].existing = exec[x].existing
           /\ \A z \in Exec : z # x => exec'[z] = exec[z]
<1>1. exec[x] \in ExecState
  OBVIOUS
<1>2. [exec[x] EXCEPT !.pc = p] \in ExecState
  BY <1>1, ZenonT(40) DEF ExecState, Phase
<1>3. QED
  BY <1>1, <1>2 DEF ExecState, At

\* An execution takes a key: of its upload, or of the committed row.
LEMMA KeyMoves ==
    ASSUME exec \in [Exec -> ExecState], NEW x \in Exec, NEW p \in Phase,
           NEW k \in Exec \cup {Target, None},
           exec' = [exec EXCEPT ![x].pc = p, ![x].key = k]
    PROVE  /\ exec' \in [Exec -> ExecState]
           /\ exec'[x].pc = p /\ exec'[x].key = k
           /\ exec'[x].existing = exec[x].existing
           /\ \A z \in Exec : z # x => exec'[z] = exec[z]
<1>1. exec[x] \in ExecState
  OBVIOUS
<1>2. [exec[x] EXCEPT !.pc = p, !.key = k] \in ExecState
  BY <1>1, ZenonT(40) DEF ExecState, Phase
<1>3. QED
  BY <1>1, <1>2 DEF ExecState

\* An execution notes the key of the staged row it is going to replace.
LEMMA ExistingMoves ==
    ASSUME exec \in [Exec -> ExecState], NEW x \in Exec, NEW p \in Phase, NEW k \in Exec,
           exec' = [exec EXCEPT ![x].pc = p, ![x].existing = k]
    PROVE  /\ exec' \in [Exec -> ExecState]
           /\ exec'[x].pc = p /\ exec'[x].key = exec[x].key
           /\ exec'[x].existing = k
           /\ \A z \in Exec : z # x => exec'[z] = exec[z]
<1>1. exec[x] \in ExecState
  OBVIOUS
<1>2. [exec[x] EXCEPT !.pc = p, !.existing = k] \in ExecState
  BY <1>1, ZenonT(40) DEF ExecState, Phase
<1>3. QED
  BY <1>1, <1>2 DEF ExecState

\* The fields of an execution.
LEMMA ExecFields ==
    ASSUME exec \in [Exec -> ExecState], NEW x \in Exec
    PROVE  /\ exec[x].pc \in Phase /\ exec[x].key \in Exec \cup {Target, None}
           /\ exec[x].existing \in Exec \cup {None}
BY DEF ExecState, Phase

\* A failed call stays within the bound on them.
LEMMA FaultMoves ==
    ASSUME faults \in 0 .. MaxFaults, Fault
    PROVE  faults' \in 0 .. MaxFaults
BY ArtifactAssumption DEF Fault

\* What the other executions and the collector rely on while one execution moves
\* and the row stays: the lock they hold, their keys in the bucket, and that an
\* execution never goes back before its upload.
Steady(x) ==
    /\ \A z \in Exec : z # x => exec'[z] = exec[z]
    /\ ~Ended(x) /\ (Past(x) => Past(x)')
    /\ lock' \in {lock, x, None} /\ (lock \notin {None, x} => lock' = lock)
    /\ \A z \in Exec : z \in objects /\ z \notin objects' => ~Needed(z)
    /\ UNCHANGED <<row, old, gc>>

\* A steady step of one execution keeps the invariant of the row, of the
\* collector and of the other executions.
LEMMA SteadyStep ==
    ASSUME ArtifactInv, NEW x \in Exec, Steady(x)
    PROVE  /\ RowInv' /\ CollectorInv'
           /\ \A z \in Exec : z # x => ExecInv(z)'
<1>1. \A k \in Exec : Past(k) => Past(k)'
  BY DEF Steady, Past
<1>2. RowInv'
  BY <1>1 DEF Steady, ArtifactInv, RowInv
<1>3. CollectorInv'
  <2>1. \A k \in old' : exec'[k].pc \in {"failed", "done"}
    BY DEF Steady, ArtifactInv, CollectorInv, ArtifactTypeOK, Ended
  <2>2. lock = Collector => lock' = Collector
    BY ArtifactAssumption DEF Steady
  <2>3. QED
    BY <2>1, <2>2 DEF Steady, ArtifactInv, CollectorInv
<1>4. ASSUME NEW z \in Exec, z # x
      PROVE  ExecInv(z)'
  <2>1. ExecInv(z) /\ exec'[z] = exec[z] /\ row' = row
    BY <1>4 DEF ArtifactInv, Steady
  <2>2. lock = z => lock' = z
    BY <1>4, ArtifactAssumption DEF Steady
  <2>3. Needed(z)' => z \in objects'
    BY <2>1 DEF Needed, ExecInv, Steady
  <2>4. exec'[z].existing # None => Past(exec[z].existing)'
    <3>1. exec[z].existing \in Exec \cup {None}
      BY ExecFields DEF ArtifactInv, ArtifactTypeOK
    <3>2. QED
      BY <1>1, <2>1, <3>1 DEF ExecInv
  <2>5. QED
    BY <2>1, <2>2, <2>3, <2>4 DEF ExecInv, Past
<1>5. QED
  BY <1>2, <1>3, <1>4

\* An execution that leaves the road to the commit, by an error or at its end,
\* with the row lock released, keeps the invariant.
LEMMA LeavesRoad ==
    ASSUME ArtifactInv, NEW x \in Exec, NEW p \in {"discarding", "failed", "done"}, At(x, p),
           ~Ended(x), Unlock(x), faults' \in 0 .. MaxFaults,
           objects' \subseteq Exec \cup {Target},
           \A z \in Exec : z \in objects /\ z \notin objects' => ~Needed(z),
           UNCHANGED <<row, old, gc>>
    PROVE  ArtifactInv'
<1>1. ArtifactTypeOK /\ exec \in [Exec -> ExecState] /\ p \in Phase
  BY DEF ArtifactInv, ArtifactTypeOK, Phase
<1>2. /\ exec' \in [Exec -> ExecState]
      /\ exec'[x].pc = p /\ exec'[x].key = exec[x].key
      /\ exec'[x].existing = exec[x].existing
      /\ \A z \in Exec : z # x => exec'[z] = exec[z]
  BY <1>1, AtMoves
<1>3. lock' = IF lock = x THEN None ELSE lock
  BY DEF Unlock
<1>4. ArtifactTypeOK'
  <2>1. \A z \in Exec : lock' = z => lock = z /\ z # x
    BY <1>3, ArtifactAssumption
  <2>2. QED
    BY <1>1, <1>2, <1>3, <2>1, ArtifactAssumption DEF ArtifactTypeOK
<1>5. Steady(x)
  BY <1>2, <1>3 DEF Steady, Past
<1>6. RowInv' /\ CollectorInv' /\ \A z \in Exec : z # x => ExecInv(z)'
  BY <1>5, SteadyStep
<1>7. ExecInv(x)'
  <2>1. ExecInv(x)
    BY DEF ArtifactInv
  <2>2. exec'[x].existing # None => Past(exec[x].existing)'
    <3>1. exec[x].existing \in Exec \cup {None}
      BY <1>1, ExecFields
    <3>2. QED
      BY <1>2, <2>1, <3>1 DEF ExecInv, Past
  <2>3. QED
    BY <1>2, <2>1, <2>2 DEF ExecInv, Needed, Past
<1>8. QED
  BY <1>4, <1>6, <1>7 DEF ArtifactInv

\* An execution that goes on keeps the invariant when its own facts do.
LEMMA GoesOn ==
    ASSUME ArtifactInv, NEW x \in Exec, Steady(x),
           exec' \in [Exec -> ExecState], faults' \in 0 .. MaxFaults,
           objects' \subseteq Exec \cup {Target},
           lock' = x => exec'[x].pc \in {"uploading", "uploaded", "copying", "copied", "finalising"},
           ExecInv(x)'
    PROVE  ArtifactInv'
<1>1. ArtifactTypeOK
  BY DEF ArtifactInv
<1>2. \A z \in Exec : z # x => exec'[z] = exec[z] /\ (lock' = z => lock = z)
  BY ArtifactAssumption DEF Steady
<1>3. lock' = Collector => lock = Collector
  BY ArtifactAssumption DEF Steady
<1>4. lock' \in Exec \cup {Collector, None}
  BY <1>1 DEF Steady, ArtifactTypeOK
<1>5. ArtifactTypeOK'
  BY <1>1, <1>2, <1>3, <1>4 DEF ArtifactTypeOK, Steady
<1>6. QED
  BY <1>5, SteadyStep DEF ArtifactInv

-----------------------------------------------------------------------------
(* The actions of an execution *)

\* stage: the read of the row under its lock.
LEMMA StageBeginKeeps ==
    ASSUME ArtifactInv, NEW x \in Exec, StageBegin(x)
    PROVE  ArtifactInv'
<1>0. /\ ArtifactTypeOK /\ RowInv /\ ExecInv(x) /\ exec \in [Exec -> ExecState]
      /\ faults' \in 0 .. MaxFaults /\ objects' \subseteq Exec \cup {Target}
      /\ exec[x].pc = "idle" /\ lock = None /\ UNCHANGED <<row, objects, old, gc, faults>>
      /\ exec[x].existing \in Exec \cup {None}
  BY ExecFields DEF ArtifactInv, ArtifactTypeOK, StageBegin
<1>1. CASE row.status = "none" /\ At(x, "uploading") /\ UNCHANGED lock
  <2>1. /\ exec' \in [Exec -> ExecState]
        /\ exec'[x].pc = "uploading" /\ exec'[x].key = exec[x].key
        /\ exec'[x].existing = exec[x].existing
        /\ \A z \in Exec : z # x => exec'[z] = exec[z]
    BY <1>0, <1>1, AtMoves, "uploading" \in Phase DEF Phase
  <2>2. Steady(x)
    BY <1>0, <1>1, <2>1 DEF Steady, Past, Ended
  <2>3. ExecInv(x)'
    BY <1>0, <2>1 DEF ExecInv, Needed, Past
  <2>4. QED
    BY <1>0, <1>1, <2>1, <2>2, <2>3, GoesOn
<1>2. CASE /\ row.status = "staged" /\ lock' = x
           /\ exec' = [exec EXCEPT ![x].pc = "uploading", ![x].existing = row.key]
  <2>0. row.key \in Exec /\ Past(row.key)
    BY <1>0, <1>2 DEF RowInv
  <2>1. /\ exec' \in [Exec -> ExecState]
        /\ exec'[x].pc = "uploading" /\ exec'[x].key = exec[x].key
        /\ exec'[x].existing = row.key
        /\ \A z \in Exec : z # x => exec'[z] = exec[z]
    BY <1>0, <1>2, <2>0, ExistingMoves, "uploading" \in Phase DEF Phase
  <2>2. Steady(x)
    BY <1>0, <1>2, <2>1 DEF Steady, Past, Ended
  <2>3. ExecInv(x)'
    BY <1>0, <2>0, <2>1 DEF ExecInv, Needed, Past
  <2>4. QED
    BY <1>0, <1>2, <2>1, <2>2, <2>3, GoesOn
<1>3. CASE /\ row.status = "committed" /\ UNCHANGED lock
           /\ exec' = [exec EXCEPT ![x].pc = "staged", ![x].key = row.key]
  <2>0. exec' = [exec EXCEPT ![x].pc = "staged", ![x].key = Target]
    <3>1. row.key = Target
      BY <1>0, <1>3 DEF RowInv
    <3>2. QED
      BY <1>3, <3>1
  <2>1. /\ exec' \in [Exec -> ExecState]
        /\ exec'[x].pc = "staged" /\ exec'[x].key = Target
        /\ exec'[x].existing = exec[x].existing
        /\ \A z \in Exec : z # x => exec'[z] = exec[z]
    <3>1. "staged" \in Phase
      BY DEF Phase, Busy
    <3>2. QED
      BY <1>0, <2>0, <3>1, KeyMoves
  <2>2. Steady(x)
    BY <1>0, <1>3, <2>1 DEF Steady, Past, Ended
  <2>3. ExecInv(x)'
    BY <1>0, <1>3, <2>1 DEF ExecInv, Needed, Past
  <2>4. QED
    BY <1>0, <1>3, <2>1, <2>2, <2>3, GoesOn, ArtifactAssumption
<1>4. CASE row.status = "deleted" /\ At(x, "failed") /\ UNCHANGED lock
  <2>1. Unlock(x) /\ ~Ended(x)
    BY <1>0, <1>4 DEF Unlock, Ended
  <2>2. QED
    BY <1>0, <1>4, <2>1, LeavesRoad
<1>5. QED
  BY <1>1, <1>2, <1>3, <1>4 DEF StageBegin

\* put_object, with its failure.
LEMMA UploadKeeps ==
    ASSUME ArtifactInv, NEW x \in Exec, Upload(x)
    PROVE  ArtifactInv'
<1>0. /\ ArtifactTypeOK /\ ExecInv(x) /\ exec \in [Exec -> ExecState]
      /\ faults \in 0 .. MaxFaults /\ objects \subseteq Exec \cup {Target}
      /\ exec[x].pc = "uploading" /\ UNCHANGED <<row, old, gc>>
      /\ exec[x].existing \in Exec \cup {None}
  BY ExecFields DEF ArtifactInv, ArtifactTypeOK, Upload
<1>1. CASE /\ objects' = objects \cup {x} /\ UNCHANGED <<lock, faults>>
           /\ exec' = [exec EXCEPT ![x].pc = "uploaded", ![x].key = x]
  <2>1. /\ exec' \in [Exec -> ExecState]
        /\ exec'[x].pc = "uploaded" /\ exec'[x].key = x
        /\ exec'[x].existing = exec[x].existing
        /\ \A z \in Exec : z # x => exec'[z] = exec[z]
    BY <1>0, <1>1, KeyMoves, "uploaded" \in Phase DEF Phase, Busy
  <2>2. Steady(x)
    BY <1>0, <1>1, <2>1 DEF Steady, Past, Ended
  <2>3. ExecInv(x)'
    BY <1>0, <1>1, <2>1 DEF ExecInv, Needed, Past
  <2>4. QED
    BY <1>0, <1>1, <2>1, <2>2, <2>3, GoesOn
<1>2. CASE /\ Fault /\ Unlock(x) /\ objects' \in {objects, objects \cup {x}} /\ At(x, "failed")
  <2>1. ~Ended(x) /\ faults' \in 0 .. MaxFaults
    BY <1>0, <1>2, FaultMoves DEF Ended
  <2>2. QED
    BY <1>0, <1>2, <2>1, LeavesRoad
<1>3. QED
  BY <1>1, <1>2 DEF Upload

\* The best-effort deletion of the replaced object: the row names it no more.
LEMMA ReplaceKeeps ==
    ASSUME ArtifactInv, NEW x \in Exec, Replace(x)
    PROVE  ArtifactInv'
<1>0. /\ ArtifactTypeOK /\ ExecInv(x) /\ exec \in [Exec -> ExecState]
      /\ faults \in 0 .. MaxFaults /\ objects \subseteq Exec \cup {Target}
      /\ exec[x].pc = "replacing" /\ UNCHANGED <<row, lock, old, gc>>
      /\ exec[x].existing \in Exec \cup {None} /\ lock # x /\ ~Ended(x)
  BY ExecFields DEF ArtifactInv, ArtifactTypeOK, Replace, Ended
<1>1. CASE At(x, "discarding") /\ Fault /\ UNCHANGED objects
  <2>1. faults' \in 0 .. MaxFaults /\ Unlock(x)
    BY <1>0, <1>1, FaultMoves DEF Unlock
  <2>2. QED
    BY <1>0, <1>1, <2>1, LeavesRoad
<1>2. CASE /\ At(x, "staged")
           /\ \/ DeleteAny(exec[x].existing) /\ UNCHANGED faults
              \/ Fault /\ UNCHANGED objects
  <2>1. /\ exec' \in [Exec -> ExecState]
        /\ exec'[x].pc = "staged" /\ exec'[x].key = exec[x].key
        /\ exec'[x].existing = exec[x].existing
        /\ \A z \in Exec : z # x => exec'[z] = exec[z]
    BY <1>0, <1>2, AtMoves, "staged" \in Phase DEF Phase, Busy
  <2>2. faults' \in 0 .. MaxFaults
    BY <1>0, <1>2, FaultMoves
  <2>3. \A z \in Exec : z \in objects /\ z \notin objects' => ~Needed(z)
    <3>1. ASSUME NEW z \in Exec, z \in objects, z \notin objects'
          PROVE  ~Needed(z)
      <4>1. z = exec[x].existing
        BY <1>2, <3>1 DEF DeleteAny
      <4>2. z # None
        BY ArtifactAssumption
      <4>3. QED
        BY <1>0, <4>1, <4>2 DEF ExecInv, Needed, Past
    <3>2. QED
      BY <3>1
  <2>4. Steady(x)
    BY <1>0, <1>2, <2>1, <2>3 DEF Steady, Past
  <2>5. ExecInv(x)'
    <3>1. Needed(x)' => Needed(x)
      BY <1>0, <2>1 DEF Needed
    <3>2. Needed(x)' => x \in objects'
      BY <1>0, <3>1, <2>3 DEF ExecInv
    <3>3. exec'[x].existing # None => Past(exec[x].existing)'
      BY <1>0, <2>1 DEF ExecInv, Past
    <3>4. QED
      BY <1>0, <2>1, <3>2, <3>3 DEF ExecInv, Past
  <2>6. objects' \subseteq Exec \cup {Target}
    BY <1>0, <1>2 DEF DeleteAny
  <2>7. QED
    BY <1>0, <2>1, <2>2, <2>4, <2>5, <2>6, GoesOn
<1>3. QED
  BY <1>1, <1>2 DEF Replace

\* commit: the read of the row under its lock; an execution the row does not
\* name gives up.
LEMMA CommitBeginKeeps ==
    ASSUME ArtifactInv, NEW x \in Exec, CommitBegin(x)
    PROVE  ArtifactInv'
<1>0. /\ ArtifactTypeOK /\ RowInv /\ ExecInv(x) /\ exec \in [Exec -> ExecState]
      /\ faults' \in 0 .. MaxFaults /\ objects' \subseteq Exec \cup {Target}
      /\ exec[x].pc = "staged" /\ lock = None /\ UNCHANGED <<row, objects, old, gc, faults>>
      /\ exec[x].existing \in Exec \cup {None} /\ ~Ended(x)
  BY ExecFields DEF ArtifactInv, ArtifactTypeOK, CommitBegin, Ended
<1>1. CASE UNCHANGED lock /\ \E p \in {"done", "discarding"} : At(x, p)
  <2>1. Unlock(x)
    BY <1>0, <1>1 DEF Unlock
  <2>2. QED
    BY <1>0, <1>1, <2>1, LeavesRoad
<1>2. CASE row.key = exec[x].key /\ At(x, "copying") /\ lock' = x
  <2>1. /\ exec' \in [Exec -> ExecState]
        /\ exec'[x].pc = "copying" /\ exec'[x].key = exec[x].key
        /\ exec'[x].existing = exec[x].existing
        /\ \A z \in Exec : z # x => exec'[z] = exec[z]
    BY <1>0, <1>2, AtMoves, "copying" \in Phase DEF Phase, Busy
  <2>2. Steady(x)
    BY <1>0, <1>2, <2>1 DEF Steady, Past
  <2>3. ExecInv(x)'
    <3>1. Needed(x)' => x \in objects'
      BY <1>0, <2>1 DEF Needed, ExecInv
    <3>2. exec'[x].existing # None => Past(exec[x].existing)'
      BY <1>0, <2>1 DEF ExecInv, Past
    <3>3. QED
      BY <1>0, <1>2, <2>1, <3>1, <3>2 DEF ExecInv, Past
  <2>4. QED
    BY <1>0, <2>1, <2>2, <2>3, GoesOn
<1>3. QED
  BY <1>1, <1>2 DEF CommitBegin

\* head_object and copy_object under the row lock.
LEMMA CopyKeeps ==
    ASSUME ArtifactInv, NEW x \in Exec, Copy(x)
    PROVE  ArtifactInv'
<1>0. /\ ArtifactTypeOK /\ ExecInv(x) /\ exec \in [Exec -> ExecState]
      /\ faults' \in 0 .. MaxFaults /\ objects \subseteq Exec \cup {Target}
      /\ exec[x].pc = "copying" /\ UNCHANGED <<row, old, gc, faults>>
      /\ exec[x].existing \in Exec \cup {None} /\ ~Ended(x)
  BY ExecFields DEF ArtifactInv, ArtifactTypeOK, Copy, Ended
<1>1. CASE At(x, "discarding") /\ Unlock(x) /\ UNCHANGED objects
  BY <1>0, <1>1, LeavesRoad
<1>2. CASE objects' = objects \cup {Target} /\ At(x, "copied") /\ UNCHANGED lock
  <2>1. /\ exec' \in [Exec -> ExecState]
        /\ exec'[x].pc = "copied" /\ exec'[x].key = exec[x].key
        /\ exec'[x].existing = exec[x].existing
        /\ \A z \in Exec : z # x => exec'[z] = exec[z]
    BY <1>0, <1>2, AtMoves, "copied" \in Phase DEF Phase, Busy
  <2>2. Steady(x)
    BY <1>0, <1>2, <2>1 DEF Steady, Past
  <2>3. ExecInv(x)'
    <3>1. exec'[x].existing # None => Past(exec[x].existing)'
      BY <1>0, <2>1 DEF ExecInv, Past
    <3>2. QED
      BY <1>0, <1>2, <2>1, <3>1 DEF ExecInv, Needed, Past
  <2>4. QED
    BY <1>0, <1>2, <2>1, <2>2, <2>3, GoesOn
<1>3. QED
  BY <1>1, <1>2 DEF Copy

\* The deletion of the staged object after its copy: no one else needs it.
LEMMA DeleteStagedKeeps ==
    ASSUME ArtifactInv, NEW x \in Exec, DeleteStaged(x)
    PROVE  ArtifactInv'
<1>0. /\ ArtifactTypeOK /\ ExecInv(x) /\ exec \in [Exec -> ExecState]
      /\ faults' \in 0 .. MaxFaults /\ objects' \subseteq Exec \cup {Target}
      /\ exec[x].pc = "copied" /\ UNCHANGED <<row, lock, old, gc, faults>>
      /\ exec[x].existing \in Exec \cup {None} /\ ~Ended(x) /\ At(x, "finalising")
  BY ExecFields DEF ArtifactInv, ArtifactTypeOK, DeleteStaged, DeleteAny, Ended
<1>1. /\ exec' \in [Exec -> ExecState]
      /\ exec'[x].pc = "finalising" /\ exec'[x].key = exec[x].key
      /\ exec'[x].existing = exec[x].existing
      /\ \A z \in Exec : z # x => exec'[z] = exec[z]
  BY <1>0, AtMoves, "finalising" \in Phase DEF Phase, Busy
<1>2. \A z \in Exec : z \in objects /\ z \notin objects' => ~Needed(z)
  <2>1. \A z \in Exec : z \in objects /\ z \notin objects' => z = x
    BY <1>0, ArtifactAssumption DEF DeleteStaged, DeleteAny, ExecInv
  <2>2. ~Needed(x)
    BY <1>0 DEF Needed
  <2>3. QED
    BY <2>1, <2>2
<1>3. Steady(x)
  BY <1>0, <1>1, <1>2 DEF Steady, Past
<1>4. ExecInv(x)'
  <2>1. exec'[x].existing # None => Past(exec[x].existing)'
    BY <1>0, <1>1 DEF ExecInv, Past
  <2>2. QED
    BY <1>0, <1>1, <2>1 DEF ExecInv, Needed, Past
<1>5. QED
  BY <1>0, <1>1, <1>3, <1>4, GoesOn

\* The error paths: a failed metadata transaction, a failed or cancelled commit,
\* the discard of the key that is held, and a crash.
LEMMA FailureKeeps ==
    ASSUME ArtifactInv, NEW x \in Exec,
           StageFails(x) \/ CommitFails(x) \/ Discard(x) \/ Crash(x)
    PROVE  ArtifactInv'
<1>0. /\ ArtifactTypeOK /\ ExecInv(x) /\ faults \in 0 .. MaxFaults
      /\ objects \subseteq Exec \cup {Target}
  BY DEF ArtifactInv, ArtifactTypeOK
<1>1. CASE StageFails(x) \/ CommitFails(x) \/ Crash(x)
  <2>1. /\ Fault /\ Unlock(x) /\ UNCHANGED <<row, objects, old, gc>>
        /\ \E p \in {"discarding", "failed"} : At(x, p)
    BY <1>1 DEF StageFails, CommitFails, Crash
  <2>2. ~Ended(x)
    BY <1>1 DEF StageFails, CommitFails, Crash, Ended
  <2>3. faults' \in 0 .. MaxFaults
    BY <1>0, <2>1, FaultMoves
  <2>4. QED
    BY <1>0, <2>1, <2>2, <2>3, LeavesRoad
<1>2. CASE Discard(x)
  <2>1. /\ exec[x].pc = "discarding" /\ At(x, "failed") /\ UNCHANGED <<row, lock, old, gc>>
        /\ ~Ended(x) /\ ~Needed(x)
    BY <1>2 DEF Discard, Ended, Needed
  <2>2. Unlock(x)
    BY <1>0, <2>1 DEF Unlock, ArtifactTypeOK
  <2>3. faults' \in 0 .. MaxFaults
    BY <1>0, <1>2, FaultMoves DEF Discard
  <2>4. objects' \subseteq Exec \cup {Target}
    BY <1>0, <1>2 DEF Discard, DeleteAny
  <2>5. \A z \in Exec : z \in objects /\ z \notin objects' => z = x
    BY <1>0, <1>2, ArtifactAssumption DEF Discard, DeleteAny, ExecInv
  <2>6. QED
    BY <2>1, <2>2, <2>3, <2>4, <2>5, LeavesRoad
<1>3. QED
  BY <1>1, <1>2

\* The upsert of the staged row: the key it overwrites is named no more.
LEMMA RecordStageKeeps ==
    ASSUME ArtifactInv, NEW x \in Exec, RecordStage(x)
    PROVE  ArtifactInv'
<1>0. /\ ArtifactTypeOK /\ RowInv /\ CollectorInv /\ exec \in [Exec -> ExecState]
      /\ \A z \in Exec : ExecInv(z)
      /\ faults' \in 0 .. MaxFaults /\ objects' \subseteq Exec \cup {Target}
      /\ exec[x].pc = "uploaded" /\ lock \in {None, x} /\ Unlock(x)
      /\ UNCHANGED <<objects, old, gc, faults>> /\ ~Ended(x)
  BY DEF ArtifactInv, ArtifactTypeOK, RecordStage, Free, Ended
<1>1. CASE UNCHANGED row /\ At(x, "discarding")
  BY <1>0, <1>1, LeavesRoad
<1>2. CASE /\ row' = [status |-> "staged", key |-> x]
           /\ At(x, IF exec[x].existing # None THEN "replacing" ELSE "staged")
  <2> DEFINE p == IF exec[x].existing # None THEN "replacing" ELSE "staged"
  <2>1. p \in Phase /\ p \in {"replacing", "staged"}
    BY DEF Phase, Busy
  <2>2. (exec[x].existing = None => p = "staged") /\ At(x, p)
    BY <1>2
  <2> HIDE DEF p
  <2>3. /\ exec' \in [Exec -> ExecState]
        /\ exec'[x].pc = p /\ exec'[x].key = exec[x].key
        /\ exec'[x].existing = exec[x].existing
        /\ \A z \in Exec : z # x => exec'[z] = exec[z]
    BY <1>0, <2>1, <2>2, AtMoves
  <2>4. lock' = None /\ row'.status = "staged" /\ row'.key = x
    BY <1>0, <1>2 DEF Unlock
  <2>5. \A k \in Exec : Past(k) => Past(k)'
    BY <1>0, <2>3 DEF Past
  <2>6. Past(x)' /\ ~Past(x)
    BY <1>0, <2>1, <2>3 DEF Past
  <2>7. ArtifactTypeOK'
    <3>1. row' \in [status : {"none", "staged", "committed", "deleted"},
                    key : Exec \cup {Target, None}]
      BY <1>2
    <3>2. QED
      BY <1>0, <2>3, <2>4, <3>1, ArtifactAssumption DEF ArtifactTypeOK
  <2>8. RowInv'
    BY <2>4, <2>6 DEF RowInv
  <2>9. CollectorInv'
    <3>1. lock # Collector
      BY <1>0, ArtifactAssumption
    <3>2. \A k \in old' : exec'[k].pc \in {"failed", "done"}
      BY <1>0, <2>3 DEF CollectorInv, ArtifactTypeOK
    <3>3. QED
      BY <1>0, <3>1, <3>2 DEF CollectorInv
  <2>10. ASSUME NEW z \in Exec
         PROVE  ExecInv(z)'
    <3>1. ExecInv(z) /\ exec[z].existing \in Exec \cup {None}
      BY <1>0, ExecFields
    <3>2. exec'[z].key = exec[z].key /\ exec'[z].existing = exec[z].existing
      BY <2>3
    <3>3. exec'[z].existing # None => Past(exec[z].existing)' /\ exec[z].existing # x
      BY <2>5, <2>6, <3>1, <3>2 DEF ExecInv
    <3>4. exec'[z].pc = "replacing" => exec'[z].existing # row'.key
      BY <2>4, <3>2, <3>3, ArtifactAssumption
    <3>5. exec'[z].pc \notin {"copying", "copied", "finalising"}
      BY <1>0, <2>1, <2>3, <3>1, ArtifactAssumption DEF ExecInv
    <3>6. (exec'[z].pc = "uploaded" => exec'[z].key = z) /\ (Needed(z)' => z \in objects')
      BY <1>0, <2>1, <2>3, <2>4, <3>1 DEF ExecInv, Needed
    <3>7. QED
      BY <3>1, <3>2, <3>3, <3>4, <3>5, <3>6 DEF ExecInv, Past
  <2>11. QED
    BY <2>7, <2>8, <2>9, <2>10 DEF ArtifactInv
<1>3. QED
  BY <1>1, <1>2 DEF RecordStage

\* The conditional update to committed, under the lock the commit took.
LEMMA RecordCommitKeeps ==
    ASSUME ArtifactInv, NEW x \in Exec, RecordCommit(x)
    PROVE  ArtifactInv'
<1>0. /\ ArtifactTypeOK /\ RowInv /\ CollectorInv /\ exec \in [Exec -> ExecState]
      /\ \A z \in Exec : ExecInv(z)
      /\ faults \in 0 .. MaxFaults /\ objects' \subseteq Exec \cup {Target}
      /\ exec[x].pc = "finalising" /\ Unlock(x)
      /\ UNCHANGED <<objects, old, gc>> /\ ~Ended(x)
  BY DEF ArtifactInv, ArtifactTypeOK, RecordCommit, Ended
<1>1. faults' \in 0 .. MaxFaults
  BY <1>0, FaultMoves DEF RecordCommit
<1>2. PICK p \in {"done", "discarding"} : At(x, p)
  BY DEF RecordCommit
<1>3. CASE UNCHANGED row
  BY <1>0, <1>1, <1>2, <1>3, LeavesRoad
<1>4. CASE row' = [status |-> "committed", key |-> Target]
  <2>1. p \in Phase
    BY DEF Phase
  <2>2. /\ exec' \in [Exec -> ExecState]
        /\ exec'[x].pc = p /\ exec'[x].key = exec[x].key
        /\ exec'[x].existing = exec[x].existing
        /\ \A z \in Exec : z # x => exec'[z] = exec[z]
    BY <1>0, <1>2, <2>1, AtMoves
  <2>3. lock = x /\ lock' = None /\ row'.status = "committed" /\ row'.key = Target
    BY <1>0, <1>4 DEF Unlock, ExecInv
  <2>4. \A k \in Exec : Past(k) => Past(k)'
    BY <2>2 DEF Past
  <2>5. ArtifactTypeOK'
    <3>1. row' \in [status : {"none", "staged", "committed", "deleted"},
                    key : Exec \cup {Target, None}]
      BY <1>4
    <3>2. QED
      BY <1>0, <1>1, <2>2, <2>3, <3>1, ArtifactAssumption DEF ArtifactTypeOK
  <2>6. RowInv'
    BY <2>3, ArtifactAssumption DEF RowInv
  <2>7. CollectorInv'
    <3>1. lock # Collector
      BY <2>3, ArtifactAssumption
    <3>2. \A k \in old' : exec'[k].pc \in {"failed", "done"}
      BY <1>0, <2>2 DEF CollectorInv, ArtifactTypeOK
    <3>3. QED
      BY <1>0, <3>1, <3>2 DEF CollectorInv
  <2>8. ASSUME NEW z \in Exec
        PROVE  ExecInv(z)'
    <3>1. ExecInv(z) /\ exec[z].existing \in Exec \cup {None}
      BY <1>0, ExecFields
    <3>2. exec'[z].key = exec[z].key /\ exec'[z].existing = exec[z].existing
      BY <2>2
    <3>3. exec'[z].existing # None => Past(exec[z].existing)'
      BY <2>4, <3>1, <3>2 DEF ExecInv
    <3>4. exec'[z].existing # row'.key
      BY <2>3, <3>1, <3>2, ArtifactAssumption
    <3>5. exec'[z].pc \notin {"copying", "copied", "finalising"}
      BY <2>2, <2>3, <3>1 DEF ExecInv
    <3>6. (exec'[z].pc = "uploaded" => exec'[z].key = z) /\ (Needed(z)' => z \in objects')
      BY <1>0, <2>2, <2>3, <3>1 DEF ExecInv, Needed
    <3>7. QED
      BY <3>1, <3>2, <3>3, <3>4, <3>5, <3>6 DEF ExecInv, Past
  <2>9. QED
    BY <2>5, <2>6, <2>7, <2>8 DEF ArtifactInv
<1>5. QED
  BY <1>3, <1>4 DEF RecordCommit

-----------------------------------------------------------------------------
(* The actions of the collector *)

\* A step of the collector that keeps the row and the executions: a key that it
\* deletes is needed by no one.
LEMMA CollectorStep ==
    ASSUME ArtifactInv, ArtifactTypeOK', CollectorInv', UNCHANGED <<row, exec>>,
           \A z \in Exec : lock = z => lock' = z,
           \A z \in Exec : z \in objects /\ z \notin objects' => ~Needed(z)
    PROVE  ArtifactInv'
<1>1. RowInv'
  BY DEF ArtifactInv, RowInv, Past
<1>2. ASSUME NEW z \in Exec
      PROVE  ExecInv(z)'
  <2>1. ExecInv(z) /\ (Needed(z)' <=> Needed(z))
    BY DEF ArtifactInv, Needed
  <2>2. Needed(z)' => z \in objects'
    BY <2>1 DEF ExecInv
  <2>3. QED
    BY <2>1, <2>2 DEF ExecInv, Past
<1>3. QED
  BY <1>1, <1>2 DEF ArtifactInv

\* A key of an ended execution is needed by no one.
LEMMA OldIsNotNeeded ==
    ASSUME CollectorInv, NEW k \in old
    PROVE  ~Needed(k)
BY DEF CollectorInv, Needed

\* The listing, the lock on the old staged row, and the rollback of the cycle.
LEMMA CycleKeeps ==
    ASSUME ArtifactInv, GcList \/ GcLock \/ GcFails
    PROVE  ArtifactInv'
<1>0. ArtifactTypeOK /\ CollectorInv
  BY DEF ArtifactInv
<1>1. CASE GcList
  <2>1. ArtifactTypeOK'
    BY <1>0, <1>1, ArtifactAssumption DEF ArtifactTypeOK, GcList, ListStaged
  <2>2. CollectorInv'
    BY <1>0, <1>1 DEF CollectorInv, GcList, ListStaged
  <2>3. QED
    BY <1>1, <2>1, <2>2, CollectorStep DEF GcList
<1>2. CASE GcLock
  <2>0. gc.pc = "listed" /\ UNCHANGED <<row, objects, old, exec, faults>>
    BY <1>2 DEF GcLock
  <2>1. PICK p \in {"row", "orphans"} : gc' = [gc EXCEPT !.pc = p]
    BY <1>2 DEF GcLock
  <2>2. /\ gc' \in [pc : {"idle", "listed", "row", "orphans"}, orphans : SUBSET Exec, dropped : BOOLEAN]
        /\ gc'.pc = p /\ gc'.orphans = gc.orphans /\ gc'.dropped = gc.dropped
    BY <1>0, <2>1 DEF ArtifactTypeOK
  <2>3. \/ /\ row.status = "staged" /\ row.key \in old /\ lock = None /\ lock' = Collector
        \/ lock' = lock /\ gc'.pc = "orphans"
    BY <1>0, <1>2 DEF GcLock, ArtifactTypeOK
  <2>4. ArtifactTypeOK'
    BY <1>0, <2>0, <2>2, <2>3, ArtifactAssumption DEF ArtifactTypeOK
  <2>5. CollectorInv'
    BY <1>0, <2>0, <2>2, <2>3 DEF CollectorInv
  <2>6. QED
    BY <2>0, <2>3, <2>4, <2>5, CollectorStep, ArtifactAssumption
<1>3. CASE GcFails
  <2>1. faults' \in 0 .. MaxFaults
    BY <1>0, <1>3, FaultMoves DEF GcFails, ArtifactTypeOK
  <2>2. ArtifactTypeOK'
    BY <1>0, <1>3, <2>1, ArtifactAssumption DEF ArtifactTypeOK, GcFails, Unlock
  <2>3. CollectorInv'
    BY <1>0, <1>3 DEF CollectorInv, GcFails
  <2>4. QED
    BY <1>3, <2>2, <2>3, CollectorStep, ArtifactAssumption DEF GcFails, Unlock
<1>4. QED
  BY <1>1, <1>2, <1>3

\* The deletion of the object of the locked row.
LEMMA GcRowKeeps ==
    ASSUME ArtifactInv, GcRow
    PROVE  ArtifactInv'
<1>0. /\ ArtifactTypeOK /\ CollectorInv /\ gc.pc = "row" /\ UNCHANGED <<row, lock, old, exec>>
      /\ lock = Collector /\ row.status = "staged" /\ row.key \in old
  BY DEF ArtifactInv, GcRow, CollectorInv
<1>1. PICK d \in BOOLEAN :
        gc' = [gc EXCEPT !.pc = "orphans", !.dropped = d, !.orphans = @ \ {row.key}]
  <2>1. CASE gc' = [gc EXCEPT !.pc = "orphans", !.dropped = TRUE, !.orphans = @ \ {row.key}]
    BY <2>1
  <2>2. CASE gc' = [gc EXCEPT !.pc = "orphans", !.orphans = @ \ {row.key}]
    <3>1. gc' = [gc EXCEPT !.pc = "orphans", !.dropped = gc.dropped, !.orphans = @ \ {row.key}]
      BY <1>0, <2>2 DEF ArtifactTypeOK
    <3>2. gc.dropped \in BOOLEAN
      BY <1>0 DEF ArtifactTypeOK
    <3>3. QED
      BY <3>1, <3>2
  <2>3. QED
    BY <2>1, <2>2 DEF GcRow
<1>2. /\ gc' \in [pc : {"idle", "listed", "row", "orphans"}, orphans : SUBSET Exec, dropped : BOOLEAN]
      /\ gc'.pc = "orphans" /\ gc'.orphans = gc.orphans \ {row.key}
  BY <1>0, <1>1 DEF ArtifactTypeOK
<1>3. faults' \in 0 .. MaxFaults
  BY <1>0, FaultMoves DEF GcRow, ArtifactTypeOK
<1>4. objects' \subseteq objects /\ (\A z \in objects : z \notin objects' => z = row.key)
  BY DEF GcRow, DeleteAny
<1>5. ArtifactTypeOK'
  BY <1>0, <1>2, <1>3, <1>4 DEF ArtifactTypeOK
<1>6. CollectorInv'
  BY <1>0, <1>2 DEF CollectorInv
<1>7. \A z \in Exec : z \in objects /\ z \notin objects' => ~Needed(z)
  BY <1>0, <1>4, OldIsNotNeeded
<1>8. QED
  BY <1>0, <1>5, <1>6, <1>7, CollectorStep

\* The deletion of a listed key that no staged row names.
LEMMA GcOrphanKeeps ==
    ASSUME ArtifactInv, NEW k \in Exec, GcOrphan(k)
    PROVE  ArtifactInv'
<1>0. /\ ArtifactTypeOK /\ CollectorInv /\ gc.pc = "orphans" /\ UNCHANGED <<row, lock, old, exec>>
      /\ k \in old /\ gc' = [gc EXCEPT !.orphans = @ \ {k}]
  BY DEF ArtifactInv, GcOrphan, CollectorInv
<1>1. /\ gc' \in [pc : {"idle", "listed", "row", "orphans"}, orphans : SUBSET Exec, dropped : BOOLEAN]
      /\ gc'.pc = gc.pc /\ gc'.dropped = gc.dropped /\ gc'.orphans = gc.orphans \ {k}
  BY <1>0 DEF ArtifactTypeOK
<1>2. faults' \in 0 .. MaxFaults
  BY <1>0, FaultMoves DEF GcOrphan, ArtifactTypeOK
<1>3. objects' \subseteq objects /\ (\A z \in objects : z \notin objects' => z = k)
  BY DEF GcOrphan, DeleteAny
<1>4. ArtifactTypeOK'
  BY <1>0, <1>1, <1>2, <1>3 DEF ArtifactTypeOK
<1>5. CollectorInv'
  BY <1>0, <1>1 DEF CollectorInv
<1>6. \A z \in Exec : z \in objects /\ z \notin objects' => ~Needed(z)
  BY <1>0, <1>3, OldIsNotNeeded
<1>7. QED
  BY <1>0, <1>4, <1>5, <1>6, CollectorStep

\* The end of the cycle drops a row that is still the staged one it locked.
LEMMA GcCommitKeeps ==
    ASSUME ArtifactInv, GcCommit
    PROVE  ArtifactInv'
<1>0. /\ ArtifactTypeOK /\ RowInv /\ CollectorInv /\ gc.pc = "orphans"
      /\ UNCHANGED <<objects, old, exec, faults>> /\ Unlock(Collector)
      /\ gc' = [gc EXCEPT !.pc = "idle", !.dropped = FALSE]
  BY DEF ArtifactInv, GcCommit
<1>1. /\ gc' \in [pc : {"idle", "listed", "row", "orphans"}, orphans : SUBSET Exec, dropped : BOOLEAN]
      /\ gc'.pc = "idle" /\ ~gc'.dropped /\ gc'.orphans = gc.orphans
  BY <1>0 DEF ArtifactTypeOK
<1>2. /\ row' \in [status : {"none", "staged", "committed", "deleted"}, key : Exec \cup {Target, None}]
      /\ row'.key = row.key /\ (row' = row \/ row'.status = "deleted")
  BY <1>0 DEF GcCommit, ArtifactTypeOK
<1>3. /\ lock' \in Exec \cup {Collector, None} /\ lock' # Collector
      /\ \A z \in Exec : lock' = z <=> lock = z
  BY <1>0, ArtifactAssumption DEF Unlock, ArtifactTypeOK
<1>4. ArtifactTypeOK'
  BY <1>0, <1>1, <1>2, <1>3 DEF ArtifactTypeOK
<1>5. RowInv'
  BY <1>0, <1>2 DEF RowInv, Past
<1>6. CollectorInv'
  BY <1>0, <1>1 DEF CollectorInv
<1>7. ASSUME NEW z \in Exec
      PROVE  ExecInv(z)'
  <2>1. ExecInv(z)
    BY DEF ArtifactInv
  <2>2. Needed(z)' => z \in objects'
    BY <1>0, <1>2, <2>1 DEF Needed, ExecInv
  <2>3. QED
    BY <1>0, <1>2, <1>3, <2>1, <2>2 DEF ExecInv, Past
<1>8. QED
  BY <1>4, <1>5, <1>6, <1>7 DEF ArtifactInv

\* The TTL of the key of an ended execution passes.
LEMMA AgeKeeps ==
    ASSUME ArtifactInv, NEW k \in Exec, Age(k)
    PROVE  ArtifactInv'
<1>1. ArtifactTypeOK /\ CollectorInv
  BY DEF ArtifactInv
<1>2. ArtifactTypeOK'
  BY <1>1 DEF Age, ArtifactTypeOK
<1>3. CollectorInv'
  BY <1>1 DEF Age, CollectorInv
<1>4. QED
  BY <1>2, <1>3, CollectorStep DEF Age

-----------------------------------------------------------------------------
(* The theorems *)

\* Before any execution starts there is no row and no object.
LEMMA ArtifactInit == Init => ArtifactInv
<1> SUFFICES ASSUME Init PROVE ArtifactInv
  OBVIOUS
<1>1. [pc |-> "idle", key |-> None, existing |-> None] \in ExecState
  BY DEF ExecState
<1>2. ArtifactTypeOK
  BY <1>1, ArtifactAssumption DEF Init, ArtifactTypeOK
<1>3. RowInv /\ CollectorInv
  BY ArtifactAssumption DEF Init, RowInv, CollectorInv
<1>4. ASSUME NEW x \in Exec PROVE ExecInv(x)
  BY DEF Init, ExecInv, Needed
<1>5. QED
  BY <1>2, <1>3, <1>4 DEF ArtifactInv

\* Every step of an execution and of the collector keeps the invariant.
LEMMA ArtifactNext == ArtifactInv /\ [Next]_vars => ArtifactInv'
<1> SUFFICES ASSUME ArtifactInv, [Next]_vars PROVE ArtifactInv'
  OBVIOUS
<1>1. ASSUME NEW x \in Exec, StageBegin(x) PROVE ArtifactInv'
  BY <1>1, StageBeginKeeps
<1>2. ASSUME NEW x \in Exec, Upload(x) PROVE ArtifactInv'
  BY <1>2, UploadKeeps
<1>3. ASSUME NEW x \in Exec, RecordStage(x) PROVE ArtifactInv'
  BY <1>3, RecordStageKeeps
<1>4. ASSUME NEW x \in Exec, Replace(x) PROVE ArtifactInv'
  BY <1>4, ReplaceKeeps
<1>5. ASSUME NEW x \in Exec, CommitBegin(x) PROVE ArtifactInv'
  BY <1>5, CommitBeginKeeps
<1>6. ASSUME NEW x \in Exec, Copy(x) PROVE ArtifactInv'
  BY <1>6, CopyKeeps
<1>7. ASSUME NEW x \in Exec, DeleteStaged(x) PROVE ArtifactInv'
  BY <1>7, DeleteStagedKeeps
<1>8. ASSUME NEW x \in Exec, RecordCommit(x) PROVE ArtifactInv'
  BY <1>8, RecordCommitKeeps
<1>9. ASSUME NEW x \in Exec, StageFails(x) \/ CommitFails(x) \/ Discard(x) \/ Crash(x)
      PROVE  ArtifactInv'
  BY <1>9, FailureKeeps
<1>10. ASSUME NEW x \in Exec, Age(x) PROVE ArtifactInv'
  BY <1>10, AgeKeeps
<1>11. CASE GcList \/ GcLock \/ GcFails
  BY <1>11, CycleKeeps
<1>12. CASE GcRow
  BY <1>12, GcRowKeeps
<1>13. ASSUME NEW k \in Exec, GcOrphan(k) PROVE ArtifactInv'
  BY <1>13, GcOrphanKeeps
<1>14. CASE GcCommit
  BY <1>14, GcCommitKeeps
<1>15. CASE UNCHANGED vars
  BY <1>15, ZenonT(40) DEF vars, ArtifactInv, ArtifactTypeOK, RowInv, CollectorInv, ExecInv, Needed, Past
<1>16. QED
  BY <1>1, <1>2, <1>3, <1>4, <1>5, <1>6, <1>7, <1>8, <1>9, <1>10, <1>11, <1>12, <1>13,
     <1>14, <1>15 DEF Next

\* The invariant of the row, the collector and the executions holds throughout.
THEOREM ArtifactInvariance == Spec => []ArtifactInv
<1>1. QED
  BY ArtifactInit, ArtifactNext, PTL DEF Spec

\* No error path of stage, commit or run_once keeps the row lock.
THEOREM ArtifactTypeCorrect == Spec => []ArtifactTypeOK
<1>1. ArtifactInv => ArtifactTypeOK
  BY DEF ArtifactInv
<1>2. QED
  BY <1>1, ArtifactInvariance, PTL

\* A commit that holds the staged row finds the object it is going to copy.
THEOREM CommitHasItsObject == Spec => []CommitFindsObject
<1>1. ArtifactInv => CommitFindsObject
  <2>1. SUFFICES ASSUME ArtifactInv, NEW x \in Exec, exec[x].pc = "copying", row.status = "staged"
                 PROVE  exec[x].key \in objects
    BY DEF CommitFindsObject
  <2>2. ExecInv(x) /\ row.key \in Exec
    BY <2>1 DEF ArtifactInv, RowInv
  <2>3. exec[x].key = x /\ row.key = x
    BY <2>1, <2>2, ArtifactAssumption DEF ExecInv
  <2>4. QED
    BY <2>1, <2>2, <2>3 DEF ExecInv, Needed
<1>2. QED
  BY <1>1, ArtifactInvariance, PTL

\* Once committed, the row is never changed again: not by a stage that read the
\* row before, nor by a commit with an older key, nor by the collector.
THEOREM CommittedForGood == Spec => CommittedIsFinal
<1>1. ArtifactInv /\ [Next]_vars => [row.status = "committed" => row' = row]_vars
  <2>1. SUFFICES ASSUME ArtifactInv, Next, row.status = "committed"
                 PROVE  row' = row
    BY DEF vars
  <2>2. ASSUME NEW x \in Exec, RecordStage(x) PROVE row' = row
    BY <2>1, <2>2 DEF RecordStage
  <2>3. ASSUME NEW x \in Exec, RecordCommit(x) PROVE row' = row
    BY <2>1, <2>3 DEF RecordCommit
  <2>4. CASE GcCommit
    BY <2>1, <2>4 DEF GcCommit, ArtifactInv, CollectorInv
  <2>5. QED
    BY <2>1, <2>2, <2>3, <2>4
       DEF Next, StageBegin, Upload, StageFails, Replace, CommitBegin, Copy, DeleteStaged,
           CommitFails, Discard, Crash, Age, GcList, GcLock, GcRow, GcOrphan, GcFails
<1>2. QED
  BY <1>1, ArtifactInvariance, PTL DEF Spec, CommittedIsFinal

-----------------------------------------------------------------------------
(***************************************************************************)
(* The promises of the control plane for every number of administrators,   *)
(* keys, messages and revisions, and for every number of lost replies.     *)
(*                                                                         *)
(* ControlInv says why the version works as a lock: as long as an ETag is  *)
(* current, the tenant is what its reader saw; and why the table of keys   *)
(* works as a memory: a key that was used has a row, expired or not.  A    *)
(* revision is referred to only if it exists.                              *)
(***************************************************************************)

KeyInv == \A k \in Key : applied[k] <= 1 /\ (applied[k] = 1 => idem[k] # "none")

EtagInv ==
    \A c \in Client :
        /\ client[c].etag <= ver
        /\ client[c].etag = ver => client[c].saw = Seen
        /\ client[c].pc # "idle" => client[c].key \in Key /\ client[c].req \in Request

RevisionInv ==
    /\ enabled => revs > 0
    /\ app.active = 1 \/ app.active <= revs
    /\ app.candidate <= revs
    /\ \A m \in Message :
          /\ route[m].pc # "refused"
          /\ route[m].pc # "new" => route[m].version \in 1..revs

ControlInv == ControlTypeOK /\ KeyInv /\ EtagInv /\ RevisionInv

-----------------------------------------------------------------------------
(* The parts of the state *)

\* A client goes on to another phase of the same request.
LEMMA PhaseMoves ==
    ASSUME client \in [Client -> ClientState], NEW c \in Client,
           NEW p \in {"idle", "send", "lock", "conflict", "reply"},
           client' = [client EXCEPT ![c].pc = p]
    PROVE  /\ client' \in [Client -> ClientState]
           /\ client'[c] = [client[c] EXCEPT !.pc = p]
           /\ client'[c].pc = p /\ client'[c].etag = client[c].etag /\ client'[c].saw = client[c].saw
           /\ client'[c].key = client[c].key /\ client'[c].req = client[c].req
           /\ \A d \in Client : d # c => client'[d] = client[d]
<1>1. client[c] \in ClientState
  OBVIOUS
<1>2. [client[c] EXCEPT !.pc = p] \in ClientState
  BY <1>1, ZenonT(40) DEF ClientState
<1>3. QED
  BY <1>1, <1>2 DEF ClientState

\* A response ends the request.
LEMMA AnswerMoves ==
    ASSUME client \in [Client -> ClientState], NEW c \in Client, Answer(c)
    PROVE  /\ client' \in [Client -> ClientState]
           /\ client'[c] = Idle
           /\ \A d \in Client : d # c => client'[d] = client[d]
<1>1. Idle \in ClientState
  BY DEF Idle, ClientState
<1>2. QED
  BY <1>1 DEF Answer

\* Steps that leave the tenant, the keys and the messages alone: the client
\* keeps its request, drops it, or takes up one with the current version.
LEMMA ClientStep ==
    ASSUME ControlInv, NEW c \in Client,
           UNCHANGED <<tenant, idem, applied, runtime>>,
           lost' \in 0..MaxLost,
           client' \in [Client -> ClientState],
           \A d \in Client : d # c => client'[d] = client[d],
           \/ client'[c] = Idle
           \/ /\ client'[c].etag = client[c].etag /\ client'[c].saw = client[c].saw
              /\ client'[c].key = client[c].key /\ client'[c].req = client[c].req
              /\ client[c].pc # "idle"
           \/ /\ client'[c].etag = ver /\ client'[c].saw = Seen
              /\ client'[c].key \in Key /\ client'[c].req \in Request
    PROVE  ControlInv'
<1>1. ControlTypeOK'
  BY DEF ControlInv, ControlTypeOK, tenant, runtime
<1>2. KeyInv'
  BY DEF ControlInv, KeyInv
<1>3. RevisionInv'
  BY DEF ControlInv, RevisionInv, tenant, runtime
<1>4. EtagInv'
  <2> SUFFICES ASSUME NEW d \in Client
               PROVE  /\ client'[d].etag <= ver
                      /\ client'[d].etag = ver => client'[d].saw = Seen
                      /\ client'[d].pc # "idle" => client'[d].key \in Key /\ client'[d].req \in Request
    BY DEF EtagInv, tenant, Seen
  <2>1. ver \in Nat \ {0}
    BY DEF ControlInv, ControlTypeOK
  <2>2. CASE d # c
    BY <2>2 DEF ControlInv, EtagInv
  <2>3. CASE d = c /\ client'[c] = Idle
    <3>1. Idle.etag = 0 /\ Idle.pc = "idle"
      BY DEF Idle
    <3>2. 0 <= ver /\ 0 # ver
      BY <2>1
    <3> QED BY <2>3, <3>1, <3>2, ZenonT(40)
  <2>4. CASE d = c /\ client'[c] # Idle
    BY <2>1, <2>4 DEF ControlInv, EtagInv
  <2>5. QED
    BY <2>2, <2>3, <2>4
<1>5. QED
  BY <1>1, <1>2, <1>3, <1>4 DEF ControlInv

-----------------------------------------------------------------------------
(* The administrators *)

\* Reading the tenant and taking up a request.
LEMMA BeginStep ==
    ASSUME ControlInv, NEW c \in Client, NEW r \in Request, NEW k \in Key, Begin(c, r, k)
    PROVE  ControlInv'
<1> DEFINE s == [pc |-> "send", req |-> r, key |-> k, etag |-> ver, saw |-> Seen]
<1>1. ver \in Nat /\ Seen \in (App \X (0..MaxRev) \X BOOLEAN) /\ client \in [Client -> ClientState]
  BY DEF ControlInv, ControlTypeOK, Seen
<1>2. s \in ClientState
  BY <1>1 DEF ClientState
<1>3. client' = [client EXCEPT ![c] = s]
  BY DEF Begin
<1>4. /\ s.pc = "send" /\ s.etag = ver /\ s.saw = Seen /\ s.key = k /\ s.req = r
  OBVIOUS
<1> HIDE DEF s
<1>5. /\ client' \in [Client -> ClientState] /\ client'[c] = s
      /\ \A d \in Client : d # c => client'[d] = client[d]
  BY <1>1, <1>2, <1>3
<1>6. lost' \in 0..MaxLost
  BY ControlAssumption DEF Begin, ControlInv, ControlTypeOK
<1>7. UNCHANGED <<tenant, idem, applied, runtime>>
  BY DEF Begin
<1>8. QED
  BY <1>4, <1>5, <1>6, <1>7, ClientStep

\* Looking up the key, replying, losing the reply and reading the ETag again.
LEMMA TalkStep ==
    ASSUME ControlInv, NEW c \in Client, Lookup(c) \/ Reply(c) \/ LoseReply(c) \/ Reread(c)
    PROVE  ControlInv'
<1>1. client \in [Client -> ClientState] /\ ver \in Nat /\ lost \in 0..MaxLost
      /\ Seen \in (App \X (0..MaxRev) \X BOOLEAN)
  BY DEF ControlInv, ControlTypeOK, Seen
<1>2. UNCHANGED <<tenant, idem, applied, runtime>>
  BY DEF Lookup, Reply, LoseReply, Reread
<1>3. lost' \in 0..MaxLost
  BY <1>1, ControlAssumption DEF Lookup, Reply, LoseReply, Reread
<1>4. client[c].pc # "idle"
  BY DEF Lookup, Reply, LoseReply, Reread
<1>5. CASE Answer(c)
  BY <1>1, <1>2, <1>3, <1>5, AnswerMoves, ClientStep
<1>6. ASSUME NEW p \in {"send", "lock"}, client' = [client EXCEPT ![c].pc = p]
      PROVE  ControlInv'
  <2>1. /\ client' \in [Client -> ClientState]
        /\ client'[c].etag = client[c].etag /\ client'[c].saw = client[c].saw
        /\ client'[c].key = client[c].key /\ client'[c].req = client[c].req
        /\ \A d \in Client : d # c => client'[d] = client[d]
    BY <1>1, <1>6, PhaseMoves
  <2>2. QED
    BY <2>1, <1>2, <1>3, <1>4, ClientStep
<1>7. CASE Reread(c)
  <2> DEFINE s == [client[c] EXCEPT !.pc = "send", !.etag = ver, !.saw = Seen]
  <2>1. client' = [client EXCEPT ![c] = s]
    BY <1>7, <1>1 DEF Reread
  <2>2. client[c] \in ClientState
    BY <1>1
  <2>3. s \in ClientState
    BY <1>1, <2>2, ZenonT(40) DEF ClientState
  <2>4. s.etag = ver /\ s.saw = Seen /\ s.key = client[c].key /\ s.req = client[c].req
    BY <2>2 DEF ClientState
  <2> HIDE DEF s
  <2>5. /\ client' \in [Client -> ClientState] /\ client'[c] = s
        /\ \A d \in Client : d # c => client'[d] = client[d]
    BY <1>1, <2>1, <2>3
  <2>6. client[c].key \in Key /\ client[c].req \in Request
    BY <1>4 DEF ControlInv, EtagInv
  <2>7. QED
    BY <2>4, <2>5, <2>6, <1>2, <1>3, ClientStep
<1>8. QED
  BY <1>5, <1>6, <1>7 DEF Lookup, Reply, LoseReply

\* The promoted, withdrawn or partial revision of activate_config exists.
LEMMA ActivatedTyped ==
    ASSUME app \in App, app.candidate = 0 <=> app.percent = 0, revs \in 0..MaxRev,
           app.active = 1 \/ app.active <= revs, app.candidate <= revs,
           NEW v \in 1..revs, NEW percent \in Percent
    PROVE  /\ Activated(v, percent) \in App
           /\ Activated(v, percent).candidate = 0 <=> Activated(v, percent).percent = 0
           /\ Activated(v, percent).active = 1 \/ Activated(v, percent).active <= revs
           /\ Activated(v, percent).candidate <= revs
<1>0. v \in 1..MaxRev /\ 0 \in 0..MaxRev /\ 0 \in Percent
  BY ControlAssumption DEF Percent
<1>1. CASE percent = 100
  <2>1. Activated(v, percent) = [active |-> v, candidate |-> 0, percent |-> 0]
    BY <1>1 DEF Activated
  <2>2. [active |-> v, candidate |-> 0, percent |-> 0] \in App
    BY <1>0 DEF App
  <2>3. QED
    BY <2>1, <2>2
<1>2. CASE percent = 0
  <2>1. Activated(v, percent) = [app EXCEPT !.candidate = 0, !.percent = 0]
    BY <1>2 DEF Activated
  <2>2. [app EXCEPT !.candidate = 0, !.percent = 0] \in App
    BY <1>0, ZenonT(40) DEF App
  <2>3. QED
    BY <2>1, <2>2 DEF App
<1>3. CASE percent = 50
  <2>1. Activated(v, percent) = [app EXCEPT !.candidate = v, !.percent = percent]
    BY <1>3 DEF Activated
  <2>2. v \in 0..MaxRev
    BY <1>0
  <2>3. [app EXCEPT !.candidate = v, !.percent = percent] \in App
    BY <2>2, ZenonT(40) DEF App
  <2>4. QED
    BY <2>1, <2>3, <1>3 DEF App
<1>4. QED
  BY <1>1, <1>2, <1>3 DEF Percent

\* What an accepted change leaves of the tenant.
LEMMA ChangeTyped ==
    ASSUME ControlTypeOK, RevisionInv, NEW r \in Request, Acceptable(r), Change(r)
    PROVE  /\ app' \in App /\ (app'.candidate = 0 <=> app'.percent = 0)
           /\ revs' \in 0..MaxRev /\ revs <= revs' /\ enabled' \in BOOLEAN
           /\ out' \in {"none", "pending", "failed", "ambiguous", "delivered"}
           /\ enabled' => revs' > 0
           /\ app'.active = 1 \/ app'.active <= revs'
           /\ app'.candidate <= revs'
<1>1. /\ app \in App /\ (app.candidate = 0 <=> app.percent = 0)
      /\ revs \in 0..MaxRev /\ enabled \in BOOLEAN
      /\ out \in {"none", "pending", "failed", "ambiguous", "delivered"}
  BY DEF ControlTypeOK
<1>2. /\ enabled => revs > 0
      /\ app.active = 1 \/ app.active <= revs
      /\ app.candidate <= revs
  BY DEF RevisionInv
<1>3. app.active \in Nat /\ app.candidate \in Nat
  BY <1>1 DEF App
<1>4. CASE r.op = "create_config" /\ CreateConfigRevision
  BY <1>1, <1>2, <1>3, <1>4, ControlAssumption DEF CreateConfigRevision
<1>5. CASE r.op \in {"activate_config", "rollback_config"} /\ ActivateConfig(r.path, r.body)
  <2>1. r.path \in 1..revs
    BY <1>5 DEF Acceptable
  <2>2. r.body \in Percent
    BY <1>5 DEF Request, ConfigRequests, ActivateRequests, RollbackRequests, BindingRequests,
                ReplayRequests, Percent
  <2>3. app' = Activated(r.path, r.body) /\ UNCHANGED <<revs, enabled, out>>
    BY <1>5 DEF ActivateConfig
  <2>4. QED
    BY <2>1, <2>2, <2>3, <1>1, <1>2, ActivatedTyped
<1>6. CASE r.op = "put_binding" /\ PutBinding(r.body = 1)
  BY <1>1, <1>2, <1>6 DEF PutBinding, Acceptable
<1>7. CASE r.op = "replay_outbound" /\ ReplayOutbound
  BY <1>1, <1>2, <1>7 DEF ReplayOutbound
<1>8. QED
  BY <1>4, <1>5, <1>6, <1>7 DEF Change

\* The transaction that changes the tenant makes every other ETag stale and
\* remembers its key.
LEMMA ApplyStep ==
    ASSUME ControlInv, NEW c \in Client, Apply(c)
    PROVE  ControlInv'
<1> DEFINE r == client[c].req
           k == client[c].key
<1>1. client \in [Client -> ClientState] /\ ver \in Nat /\ lost \in 0..MaxLost
  BY DEF ControlInv, ControlTypeOK
<1>2. client[c].pc = "lock" /\ UNCHANGED <<runtime, lost>>
  BY DEF Apply
<1>3. k \in Key /\ r \in Request
  BY <1>2 DEF ControlInv, EtagInv
<1>4. CASE UNCHANGED <<tenant, idem, applied>> /\ Answer(c)
  BY <1>1, <1>2, <1>4, AnswerMoves, ClientStep
<1>5. CASE UNCHANGED <<tenant, idem, applied>> /\ client' = [client EXCEPT ![c].pc = "conflict"]
  <2>1. /\ client' \in [Client -> ClientState]
        /\ client'[c].etag = client[c].etag /\ client'[c].saw = client[c].saw
        /\ client'[c].key = client[c].key /\ client'[c].req = client[c].req
        /\ \A d \in Client : d # c => client'[d] = client[d]
    BY <1>1, <1>5, PhaseMoves
  <2>2. QED
    BY <2>1, <1>1, <1>2, <1>5, ClientStep
<1>6. CASE /\ ver = client[c].etag /\ Acceptable(r) /\ idem[k] = "none" /\ Change(r)
           /\ ver' = ver + 1
           /\ idem' = [idem EXCEPT ![k] = "served"]
           /\ applied' = [applied EXCEPT ![k] = @ + 1]
           /\ client' = [client EXCEPT ![c].pc = "reply"]
  <2>1. /\ client' \in [Client -> ClientState]
        /\ client'[c].pc = "reply"
        /\ client'[c].etag = client[c].etag /\ client'[c].saw = client[c].saw
        /\ client'[c].key = client[c].key /\ client'[c].req = client[c].req
        /\ \A d \in Client : d # c => client'[d] = client[d]
    BY <1>1, <1>6, PhaseMoves
  <2> HIDE DEF r, k
  <2>2. /\ app' \in App /\ (app'.candidate = 0 <=> app'.percent = 0)
        /\ revs' \in 0..MaxRev /\ revs <= revs' /\ enabled' \in BOOLEAN
        /\ out' \in {"none", "pending", "failed", "ambiguous", "delivered"}
        /\ enabled' => revs' > 0
        /\ app'.active = 1 \/ app'.active <= revs'
        /\ app'.candidate <= revs'
    BY <1>3, <1>6, ChangeTyped DEF ControlInv
  <2>3. idem' \in [Key -> {"none", "served", "expired"}] /\ applied' \in [Key -> Nat]
    BY <1>3, <1>6 DEF ControlInv, ControlTypeOK
  <2>4. ControlTypeOK'
    BY <1>1, <1>2, <1>6, <2>1, <2>2, <2>3 DEF ControlInv, ControlTypeOK, runtime
  <2>5. KeyInv'
    <3>1. applied[k] \in Nat /\ applied[k] <= 1 /\ applied[k] # 1
      BY <1>3, <1>6, SMTT(20) DEF ControlInv, KeyInv, ControlTypeOK
    <3>2. QED
      BY <3>1, <1>3, <1>6 DEF ControlInv, KeyInv, ControlTypeOK
  <2>6. EtagInv'
    <3> SUFFICES ASSUME NEW d \in Client
                 PROVE  /\ client'[d].etag <= ver' /\ client'[d].etag # ver'
                        /\ client'[d].pc # "idle" => client'[d].key \in Key /\ client'[d].req \in Request
      BY DEF EtagInv
    <3>1. client[d].etag <= ver /\ client'[d].etag = client[d].etag
      BY <2>1 DEF ControlInv, EtagInv
    <3>2. client[d].etag \in Nat
      BY <1>1 DEF ClientState
    <3>3. client'[d].pc # "idle" => client'[d].key \in Key /\ client'[d].req \in Request
      BY <1>3, <2>1 DEF ControlInv, EtagInv, r, k
    <3>4. QED
      BY <3>1, <3>2, <3>3, <1>1, <1>6
  <2>7. RevisionInv'
    <3>1. \A m \in Message : /\ route'[m].pc # "refused"
                             /\ route'[m].pc # "new" => route'[m].version \in 1..revs'
      BY <1>2, <2>2 DEF ControlInv, ControlTypeOK, RevisionInv, runtime
    <3>2. QED
      BY <3>1, <2>2 DEF RevisionInv
  <2>8. QED
    BY <2>4, <2>5, <2>6, <2>7 DEF ControlInv
<1>7. QED
  BY <1>4, <1>5, <1>6, Zenon DEF Apply

\* A stored response is no longer served; its row stays.
LEMMA KeyExpiresStep ==
    ASSUME ControlInv, NEW k \in Key, KeyExpires(k)
    PROVE  ControlInv'
<1>1. ControlTypeOK'
  BY DEF KeyExpires, ControlInv, ControlTypeOK, tenant, runtime
<1>2. KeyInv'
  BY DEF KeyExpires, ControlInv, KeyInv, ControlTypeOK
<1>3. EtagInv'
  BY DEF KeyExpires, ControlInv, EtagInv, tenant, Seen
<1>4. RevisionInv'
  BY DEF KeyExpires, ControlInv, RevisionInv, tenant, runtime
<1>5. QED
  BY <1>1, <1>2, <1>3, <1>4 DEF ControlInv

-----------------------------------------------------------------------------
(* The readers *)

\* Steps of a message and of the dispatcher: no client and no key is involved,
\* and a message that is on its way has a revision that exists.
LEMMA ReaderStep ==
    ASSUME ControlInv,
           UNCHANGED <<ver, app, revs, enabled, idem, client, applied, lost>>,
           out' \in {"none", "pending", "failed", "ambiguous", "delivered"},
           cache' \subseteq 0..MaxRev,
           route' \in [Message -> [pc : {"new", "prepared", "accepted", "refused", "running", "done"},
                                   version : 0..MaxRev]],
           \A m \in Message : /\ route'[m].pc # "refused"
                              /\ route'[m].pc # "new" => route'[m].version \in 1..revs
    PROVE  ControlInv'
<1>1. ControlTypeOK'
  BY DEF ControlInv, ControlTypeOK
<1>2. KeyInv' /\ EtagInv'
  BY DEF ControlInv, KeyInv, EtagInv, Seen
<1>3. RevisionInv'
  BY DEF ControlInv, RevisionInv
<1>4. QED
  BY <1>1, <1>2, <1>3 DEF ControlInv

\* select_config_version names a revision that exists once there is a binding.
LEMMA SelectedExists ==
    ASSUME ControlInv, enabled, NEW b
    PROVE  Selected(b) \in 1..revs
<1>1. app \in App /\ revs \in 0..MaxRev /\ (app.candidate = 0 <=> app.percent = 0)
  BY DEF ControlInv, ControlTypeOK
<1>2. revs > 0 /\ (app.active = 1 \/ app.active <= revs) /\ app.candidate <= revs
  BY DEF ControlInv, RevisionInv
<1>3. app.active \in 1..MaxRev /\ app.candidate \in 0..MaxRev
  BY <1>1 DEF App
<1>4. QED
  BY <1>1, <1>2, <1>3, ControlAssumption DEF Selected

\* Routing, accepting, running and finishing a message.
LEMMA MessageStepKeeps ==
    ASSUME ControlInv, NEW m \in Message, MessageStep(m)
    PROVE  ControlInv'
<1> DEFINE R == [pc : {"new", "prepared", "accepted", "refused", "running", "done"},
                 version : 0..MaxRev]
<1>1. /\ route \in [Message -> R] /\ cache \subseteq 0..MaxRev /\ revs \in 0..MaxRev
      /\ out \in {"none", "pending", "failed", "ambiguous", "delivered"}
      /\ route[m] \in R
  BY DEF ControlInv, ControlTypeOK
<1>2. \A n \in Message : /\ route[n].pc # "refused"
                         /\ route[n].pc # "new" => route[n].version \in 1..revs
  BY DEF ControlInv, RevisionInv
<1>3. ASSUME NEW p \in {"accepted", "running", "done"}, route' = [route EXCEPT ![m].pc = p],
             route[m].pc # "new"
      PROVE  /\ route' \in [Message -> R]
             /\ \A n \in Message : /\ route'[n].pc # "refused"
                                   /\ route'[n].pc # "new" => route'[n].version \in 1..revs
  <2>1. [route[m] EXCEPT !.pc = p] \in R
    BY <1>1, ZenonT(40)
  <2>2. route'[m].pc = p /\ route'[m].version = route[m].version
    BY <1>1, <1>3
  <2>3. QED
    BY <1>1, <1>2, <1>3, <2>1, <2>2
<1>4. ASSUME NEW b \in {0, 60}, Prepare(m, b) PROVE ControlInv'
  <2>1. Selected(b) \in 1..revs
    BY <1>4, SelectedExists DEF Prepare
  <2>2. route' = [route EXCEPT ![m] = [pc |-> "prepared", version |-> Selected(b)]]
    BY <1>4 DEF Prepare
  <2>3. Selected(b) \in 0..MaxRev
    BY <1>1, <2>1, ControlAssumption
  <2>4. /\ route' \in [Message -> R]
        /\ \A n \in Message : /\ route'[n].pc # "refused"
                              /\ route'[n].pc # "new" => route'[n].version \in 1..revs
    BY <1>1, <1>2, <2>1, <2>2, <2>3
  <2>5. UNCHANGED <<ver, app, revs, enabled, out, idem, client, applied, cache, lost>>
    BY <1>4 DEF Prepare, tenant
  <2>6. QED
    BY <1>1, <2>4, <2>5, ReaderStep
<1>5. CASE Accept(m)
  <2>1. route[m].pc = "prepared" /\ route[m].version \in 1..revs
    BY <1>2, <1>5 DEF Accept
  <2>2. route' = [route EXCEPT ![m].pc = "accepted"]
    BY <1>5, <2>1 DEF Accept
  <2>3. UNCHANGED <<ver, app, revs, enabled, out, idem, client, applied, cache, lost>>
    BY <1>5 DEF Accept, tenant
  <2>4. QED
    BY <1>1, <1>3, <2>1, <2>2, <2>3, ReaderStep
<1>6. CASE Use(m)
  <2>1. route[m].version \in 0..MaxRev
    BY <1>1
  <2>2. /\ route[m].pc = "accepted" /\ route' = [route EXCEPT ![m].pc = "running"]
        /\ cache' = cache \cup {route[m].version}
        /\ UNCHANGED <<ver, app, revs, enabled, out, idem, client, applied, lost>>
    BY <1>6 DEF Use, tenant
  <2>3. QED
    BY <1>1, <1>3, <2>1, <2>2, ReaderStep
<1>7. CASE Finish(m)
  <2>1. /\ route[m].pc = "running" /\ route' = [route EXCEPT ![m].pc = "done"]
        /\ out' \in {out, "pending"}
        /\ UNCHANGED <<ver, app, revs, enabled, idem, client, applied, cache, lost>>
    BY <1>7 DEF Finish
  <2>2. QED
    BY <1>1, <1>3, <2>1, ReaderStep
<1>8. QED
  BY <1>4, <1>5, <1>6, <1>7 DEF MessageStep

\* The dispatcher records what became of an outbound message.
LEMMA AttemptedStep ==
    ASSUME ControlInv, NEW s \in {"failed", "ambiguous", "delivered"}, Attempted(s)
    PROVE  ControlInv'
<1>1. /\ UNCHANGED <<ver, app, revs, enabled, idem, client, applied, route, cache, lost>>
      /\ out' = s
  BY DEF Attempted, runtime
<1>2. QED
  BY <1>1, ReaderStep DEF ControlInv, ControlTypeOK, RevisionInv

-----------------------------------------------------------------------------
(* The theorems *)

\* A new tenant has no revision, no binding and no request.
LEMMA InitControl == ControlInit => ControlInv
<1> SUFFICES ASSUME ControlInit PROVE ControlInv
  OBVIOUS
<1>1. Idle \in ClientState
  BY DEF Idle, ClientState
<1>2. [active |-> 1, candidate |-> 0, percent |-> 0] \in App
  BY ControlAssumption DEF App, Percent
<1>3. ControlTypeOK
  <2>1. /\ client \in [Client -> ClientState]
        /\ idem \in [Key -> {"none", "served", "expired"}]
        /\ route \in [Message -> [pc : {"new", "prepared", "accepted", "refused", "running", "done"},
                                version : 0..MaxRev]]
    BY <1>1, ControlAssumption DEF ControlInit
  <2>2. applied \in [Key -> Nat]
    BY DEF ControlInit
  <2>3. /\ ver \in Nat \ {0} /\ revs \in 0..MaxRev /\ lost \in 0..MaxLost
        /\ cache \subseteq 0..MaxRev
        /\ app \in App /\ (app.candidate = 0 <=> app.percent = 0)
    BY <1>2, ControlAssumption DEF ControlInit
  <2>4. enabled \in BOOLEAN /\ out \in {"none", "pending", "failed", "ambiguous", "delivered"}
    BY DEF ControlInit
  <2>5. QED
    BY <2>1, <2>2, <2>3, <2>4 DEF ControlTypeOK
<1>4. KeyInv /\ EtagInv
  <2>1. Idle.etag = 0 /\ Idle.pc = "idle"
    BY DEF Idle
  <2>2. ver = 1 /\ \A c \in Client : client[c].etag = 0 /\ client[c].pc = "idle"
    BY <2>1 DEF ControlInit
  <2>3. EtagInv
    <3> SUFFICES ASSUME NEW c \in Client
                 PROVE  client[c].etag <= ver /\ client[c].etag # ver /\ client[c].pc = "idle"
      BY Zenon DEF EtagInv
    <3>1. QED
      BY <2>2
  <2>4. QED
    BY <2>3 DEF ControlInit, KeyInv
<1>5. RevisionInv
  BY DEF ControlInit, RevisionInv
<1>6. QED
  BY <1>3, <1>4, <1>5 DEF ControlInv

\* Every step keeps the invariant.
LEMMA NextControl == ControlInv /\ [ControlNext]_controlVars => ControlInv'
<1> SUFFICES ASSUME ControlInv, [ControlNext]_controlVars PROVE ControlInv'
  OBVIOUS
<1>1. ASSUME NEW c \in Client, AdminStep(c) \/ LoseReply(c) PROVE ControlInv'
  BY <1>1, TalkStep, ApplyStep DEF AdminStep
<1>2. ASSUME NEW c \in Client, NEW r \in Request, NEW k \in Key, Begin(c, r, k) PROVE ControlInv'
  BY <1>2, BeginStep
<1>3. ASSUME NEW k \in Key, KeyExpires(k) PROVE ControlInv'
  BY <1>3, KeyExpiresStep
<1>4. ASSUME NEW s \in {"failed", "ambiguous", "delivered"}, Attempted(s) PROVE ControlInv'
  BY <1>4, AttemptedStep
<1>5. ASSUME NEW m \in Message, MessageStep(m) PROVE ControlInv'
  BY <1>5, MessageStepKeeps
<1>6. CASE UNCHANGED controlVars
  BY <1>6 DEF controlVars, ControlInv, ControlTypeOK, KeyInv, EtagInv, RevisionInv, Seen
<1>7. QED
  BY <1>1, <1>2, <1>3, <1>4, <1>5, <1>6 DEF ControlNext

\* The invariant of the control plane holds in every reachable state.
THEOREM ControlInvariance == ControlSpec => []ControlInv
BY InitControl, NextControl, PTL DEF ControlSpec

\* The rows of the tenant, the requests and the routes keep their types; a
\* canary has a percentage exactly while it has a candidate.
THEOREM ControlTypeCorrect == ControlSpec => []ControlTypeOK
<1>1. ControlInv => ControlTypeOK
  BY DEF ControlInv
<1>2. QED
  BY <1>1, ControlInvariance, PTL

\* A request with a key changes the tenant at most once, through any number of
\* lost replies, version conflicts, repetitions and expiries of the key.
THEOREM OncePerKey == ControlSpec => []AppliedOnce
<1>1. ControlInv => AppliedOnce
  BY DEF ControlInv, KeyInv, AppliedOnce
<1>2. QED
  BY <1>1, ControlInvariance, PTL

\* No message is ever refused for a revision that does not exist.
THEOREM PinsExist == ControlSpec => []PinnedExists
<1>1. ControlInv => PinnedExists
  BY DEF ControlInv, RevisionInv, PinnedExists
<1>2. QED
  BY <1>1, ControlInvariance, PTL

\* A transaction changes the tenant only if nobody changed it since its
\* administrator read it: the row lock and the comparison of versions suffice.
THEOREM UpdatesNotLost == ControlSpec => NoLostUpdate
<1>1. ControlInv /\ [ControlNext]_controlVars =>
          [\A c \in Client : Changes(c) => client[c].saw = Seen]_controlVars
  <2> SUFFICES ASSUME ControlInv, ControlNext, NEW c \in Client, Changes(c)
               PROVE  client[c].saw = Seen
    BY DEF Changes
  <2>1. client \in [Client -> ClientState]
    BY DEF ControlInv, ControlTypeOK
  <2>2. ASSUME client[c].etag # ver PROVE FALSE
    <3>1. ASSUME NEW d \in Client, client'[c] # client[c], Apply(d) PROVE FALSE
      <4>1. CASE d # c
        BY <2>1, <3>1, <4>1, Zenon DEF Apply, Answer
      <4>2. CASE d = c
        <5>1. client' = [client EXCEPT ![c].pc = "conflict"]
          BY <2>2, <3>1, <4>2, Zenon DEF Apply
        <5>2. client'[c].pc = "conflict"
          BY <5>1, <2>1, PhaseMoves
        <5>3. QED
          BY <5>2 DEF Changes
      <4>3. QED
        BY <4>1, <4>2
    <3>2. QED
      BY <2>1, <3>1 DEF ControlNext, AdminStep, MessageStep, Changes, Begin, Lookup, Reply, LoseReply,
         Reread, KeyExpires, Attempted, Prepare, Accept, Use, Finish, Answer, Idle
  <2>3. QED
    BY <2>2 DEF ControlInv, EtagInv
<1>2. QED
  BY <1>1, ControlInvariance, PTL DEF ControlSpec, NoLostUpdate

=============================================================================
