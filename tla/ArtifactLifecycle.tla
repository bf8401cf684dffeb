------------------------- MODULE ArtifactLifecycle -------------------------
(***************************************************************************)
(* One media artifact of a turn: its row in the artifacts table, the       *)
(* objects of the bucket, the executions of the turn that stage and commit *)
(* it (_prepare_media, PostgresArtifactStore and S3ArtifactStore), and the *)
(* garbage collector.  A staged key is a fresh uuid, so it is named after  *)
(* the execution that uploads it; the target key is a function of the      *)
(* artifact and its checksum, so there is one.  An object older than the   *)
(* TTL is in "old": the TTL is assumed to exceed the time between the      *)
(* upload and the commit of one execution.  Each failed await uses up one  *)
(* of MaxFaults.                                                           *)
(***************************************************************************)
EXTENDS Naturals

CONSTANTS Exec,        \* executions of the turn, attempts and takeovers
          Collector,   \* the garbage collector, as a holder of the row lock
          Target,      \* the object key of the committed artifact
          None,
          MaxFaults    \* bound on failed calls and crashes

ASSUME ArtifactAssumption ==
    /\ Collector # Target /\ Collector # None /\ Target # None
    /\ {Collector, Target, None} \cap Exec = {}
    /\ MaxFaults \in Nat

VARIABLES row,      \* the artifacts row
          lock,     \* who holds its row lock
          objects,  \* the keys of the bucket
          old,      \* staged keys older than the TTL
          exec,     \* the executions
          gc,       \* the collector
          faults

vars == <<row, lock, objects, old, exec, gc, faults>>

\* Executions between their upload and the end of their commit.
Busy == {"uploaded", "replacing", "staged", "copying", "copied", "finalising"}

ExecState == [pc : Busy \cup {"idle", "uploading", "discarding", "failed", "done"},
              key : Exec \cup {Target, None}, existing : Exec \cup {None}]

Init ==
    /\ row = [status |-> "none", key |-> None]
    /\ lock = None /\ objects = {} /\ old = {}
    /\ exec = [x \in Exec |-> [pc |-> "idle", key |-> None, existing |-> None]]
    /\ gc = [pc |-> "idle", orphans |-> {}, dropped |-> FALSE]
    /\ faults = 0

Fault == faults < MaxFaults /\ faults' = faults + 1

Free(x) == lock \in {None, x}

\* The end of a transaction, committed or rolled back.
Unlock(x) == lock' = IF lock = x THEN None ELSE lock

At(x, pc) == exec' = [exec EXCEPT ![x].pc = pc]

\* S3 delete_object is idempotent, and no caller here restricts it to a prefix.
DeleteAny(k) == objects' = objects \ {k}

-----------------------------------------------------------------------------
(* PostgresArtifactStore.stage *)

\* The row is read FOR UPDATE; only a row that exists can be locked.
StageBegin(x) ==
    /\ exec[x].pc = "idle" /\ lock = None
    /\ \/ /\ row.status = "none"
          /\ At(x, "uploading") /\ UNCHANGED lock
       \/ /\ row.status = "staged"
          /\ exec' = [exec EXCEPT ![x].pc = "uploading", ![x].existing = row.key]
          /\ lock' = x
       \/ /\ row.status = "committed"
          /\ exec' = [exec EXCEPT ![x].pc = "staged", ![x].key = row.key]
          /\ UNCHANGED lock
       \/ /\ row.status = "deleted"
          /\ At(x, "failed") /\ UNCHANGED lock
    /\ UNCHANGED <<row, objects, old, gc, faults>>

\* put_object; when it raises, its best-effort delete may leave the object.
Upload(x) ==
    /\ exec[x].pc = "uploading"
    /\ \/ /\ objects' = objects \cup {x}
          /\ exec' = [exec EXCEPT ![x].pc = "uploaded", ![x].key = x]
          /\ UNCHANGED <<lock, faults>>
       \/ /\ Fault /\ Unlock(x)
          /\ objects' \in {objects, objects \cup {x}}
          /\ At(x, "failed")
    /\ UNCHANGED <<row, old, gc>>

RecordStageOverwriting(x) ==
    /\ exec[x].pc = "uploaded" /\ Free(x)
    /\ row' = [status |-> "staged", key |-> x]
    /\ At(x, IF exec[x].existing # None THEN "replacing" ELSE "staged")
    /\ Unlock(x)
    /\ UNCHANGED <<objects, old, gc, faults>>

\* The upsert replaces a staged row only; otherwise the stage CAS was lost.
RecordStage(x) ==
    /\ exec[x].pc = "uploaded" /\ Free(x)
    /\ IF row.status \in {"none", "staged"}
       THEN /\ row' = [status |-> "staged", key |-> x]
            /\ At(x, IF exec[x].existing # None THEN "replacing" ELSE "staged")
       ELSE UNCHANGED row /\ At(x, "discarding")
    /\ Unlock(x)
    /\ UNCHANGED <<objects, old, gc, faults>>

\* The metadata transaction fails after the upload.
StageFails(x) ==
    /\ exec[x].pc = "uploaded" /\ Fault
    /\ At(x, "discarding") /\ Unlock(x)
    /\ UNCHANGED <<row, objects, old, gc>>

\* The temporary object of the replaced row is discarded after the transaction;
\* a failure is logged, a cancellation runs the handler that discards the new key.
Replace(x) ==
    /\ exec[x].pc = "replacing"
    /\ \/ /\ DeleteAny(exec[x].existing) /\ At(x, "staged")
          /\ UNCHANGED faults
       \/ /\ Fault /\ UNCHANGED objects
          /\ (At(x, "staged") \/ At(x, "discarding"))
    /\ UNCHANGED <<row, lock, old, gc>>

-----------------------------------------------------------------------------
(* PostgresArtifactStore.commit around S3ArtifactStore.commit *)

CommitBeginUncopied(x) ==
    /\ exec[x].pc = "staged" /\ lock = None
    /\ \/ /\ row.status = "committed"
          /\ At(x, "done") /\ UNCHANGED lock
       \/ /\ row.status # "committed" /\ row.key # exec[x].key
          /\ At(x, "discarding") /\ UNCHANGED lock
       \/ /\ row.status # "committed" /\ row.key = exec[x].key
          /\ At(x, "finalising") /\ lock' = x
    /\ UNCHANGED <<row, objects, old, gc, faults>>

CommitBegin(x) ==
    /\ exec[x].pc = "staged" /\ lock = None
    /\ \/ /\ row.status = "committed"
          /\ At(x, "done") /\ UNCHANGED lock
       \/ /\ row.status # "committed" /\ row.key # exec[x].key
          /\ At(x, "discarding") /\ UNCHANGED lock
       \/ /\ row.status # "committed" /\ row.key = exec[x].key
          /\ At(x, "copying") /\ lock' = x
    /\ UNCHANGED <<row, objects, old, gc, faults>>

\* head_object raises for a missing key.
Copy(x) ==
    /\ exec[x].pc = "copying"
    /\ IF exec[x].key \in objects
       THEN objects' = objects \cup {Target} /\ At(x, "copied") /\ UNCHANGED lock
       ELSE At(x, "discarding") /\ Unlock(x) /\ UNCHANGED objects
    /\ UNCHANGED <<row, old, gc, faults>>

DeleteStaged(x) ==
    /\ exec[x].pc = "copied"
    /\ DeleteAny(exec[x].key)
    /\ At(x, "finalising")
    /\ UNCHANGED <<row, lock, old, gc, faults>>

\* The conditional update; its COMMIT may be answered by a connection error.
RecordCommit(x) ==
    /\ exec[x].pc = "finalising" /\ Unlock(x)
    /\ \/ /\ row = [status |-> "staged", key |-> exec[x].key]
          /\ row' = [status |-> "committed", key |-> Target]
          /\ \/ At(x, "done") /\ UNCHANGED faults
             \/ At(x, "discarding") /\ Fault
       \/ /\ row # [status |-> "staged", key |-> exec[x].key]
          /\ At(x, IF row.status = "committed" THEN "done" ELSE "discarding")
          /\ UNCHANGED <<row, faults>>
    /\ UNCHANGED <<objects, old, gc>>

\* Any await of the commit raises, or the turn is cancelled in it.
CommitFails(x) ==
    /\ exec[x].pc \in {"staged", "copying", "copied", "finalising"} /\ Fault
    /\ At(x, "discarding") /\ Unlock(x)
    /\ UNCHANGED <<row, objects, old, gc>>

\* The handlers of stage and of _prepare_media: the key they hold is discarded,
\* and a failure of that is suppressed.
Discard(x) ==
    /\ exec[x].pc = "discarding"
    /\ \/ DeleteAny(exec[x].key) /\ UNCHANGED faults
       \/ UNCHANGED objects /\ Fault
    /\ At(x, "failed")
    /\ UNCHANGED <<row, lock, old, gc>>

Crash(x) ==
    /\ exec[x].pc \notin {"idle", "failed", "done"} /\ Fault
    /\ At(x, "failed") /\ Unlock(x)
    /\ UNCHANGED <<row, objects, old, gc>>

-----------------------------------------------------------------------------
(* ArtifactGarbageCollector.run_once *)

ListStagedAnyAge == objects \cap Exec

\* list_staged: the staging keys that are old enough (they fit in one page).
ListStaged == objects \cap old

GcList ==
    /\ gc.pc = "idle"
    /\ gc' = [pc |-> "listed", orphans |-> ListStaged, dropped |-> FALSE]
    /\ UNCHANGED <<row, lock, objects, old, exec, faults>>

\* FOR UPDATE SKIP LOCKED on the old staged rows.
GcLock ==
    /\ gc.pc = "listed"
    /\ IF row.status = "staged" /\ row.key \in old /\ lock = None
       THEN lock' = Collector /\ gc' = [gc EXCEPT !.pc = "row"]
       ELSE UNCHANGED lock /\ gc' = [gc EXCEPT !.pc = "orphans"]
    /\ UNCHANGED <<row, objects, old, exec, faults>>

\* The object goes first, then the row; a failed delete is only counted.
GcRow ==
    /\ gc.pc = "row"
    /\ \/ /\ DeleteAny(row.key)
          /\ gc' = [gc EXCEPT !.pc = "orphans", !.dropped = TRUE, !.orphans = @ \ {row.key}]
          /\ UNCHANGED faults
       \/ /\ Fault /\ UNCHANGED objects
          /\ gc' = [gc EXCEPT !.pc = "orphans", !.orphans = @ \ {row.key}]
    /\ UNCHANGED <<row, lock, old, exec>>

GcOrphanNever(k) ==
    /\ gc.pc = "orphans" /\ k \in gc.orphans
    /\ gc' = [gc EXCEPT !.orphans = @ \ {k}]
    /\ UNCHANGED <<row, lock, objects, old, exec, faults>>

\* A listed key that no staged row references is deleted.
GcOrphan(k) ==
    /\ gc.pc = "orphans" /\ k \in gc.orphans
    /\ gc' = [gc EXCEPT !.orphans = @ \ {k}]
    /\ \/ /\ row.status = "staged" /\ row.key = k
          /\ UNCHANGED <<objects, faults>>
       \/ /\ ~(row.status = "staged" /\ row.key = k)
          /\ \/ DeleteAny(k) /\ UNCHANGED faults
             \/ UNCHANGED objects /\ Fault
    /\ UNCHANGED <<row, lock, old, exec>>

GcCommit ==
    /\ gc.pc = "orphans" /\ gc.orphans = {}
    /\ row' = IF gc.dropped THEN [row EXCEPT !.status = "deleted"] ELSE row
    /\ Unlock(Collector)
    /\ gc' = [gc EXCEPT !.pc = "idle", !.dropped = FALSE]
    /\ UNCHANGED <<objects, old, exec, faults>>

\* The cycle raises or its process dies; the transaction is rolled back.
GcFails ==
    /\ gc.pc # "idle" /\ Fault
    /\ Unlock(Collector)
    /\ gc' = [pc |-> "idle", orphans |-> {}, dropped |-> FALSE]
    /\ UNCHANGED <<row, objects, old, exec>>

\* The TTL of a key passes once its execution has ended.
Age(k) ==
    /\ k \notin old /\ exec[k].pc \in {"failed", "done"}
    /\ old' = old \cup {k}
    /\ UNCHANGED <<row, lock, objects, exec, gc, faults>>

Step(x) ==
    \/ StageBegin(x) \/ Upload(x) \/ RecordStage(x) \/ Replace(x)
    \/ CommitBegin(x) \/ Copy(x) \/ DeleteStaged(x) \/ RecordCommit(x) \/ Discard(x)

GcStep == GcList \/ GcLock \/ GcRow \/ (\E k \in Exec : GcOrphan(k)) \/ GcCommit

Next ==
    \/ \E x \in Exec : StageBegin(x)
    \/ \E x \in Exec : Upload(x)
    \/ \E x \in Exec : RecordStage(x)
    \/ \E x \in Exec : StageFails(x)
    \/ \E x \in Exec : Replace(x)
    \/ \E x \in Exec : CommitBegin(x)
    \/ \E x \in Exec : Copy(x)
    \/ \E x \in Exec : DeleteStaged(x)
    \/ \E x \in Exec : RecordCommit(x)
    \/ \E x \in Exec : CommitFails(x)
    \/ \E x \in Exec : Discard(x)
    \/ \E x \in Exec : Crash(x)
    \/ \E x \in Exec : Age(x)
    \/ GcList
    \/ GcLock
    \/ GcRow
    \/ \E k \in Exec : GcOrphan(k)
    \/ GcCommit
    \/ GcFails

Spec == Init /\ [][Next]_vars

\* The calls of a started execution return, the collector's loop goes on and
\* time passes.
FairSpec ==
    /\ Spec /\ WF_vars(GcStep)
    /\ \A x \in Exec : WF_vars(exec[x].pc # "idle" /\ Step(x)) /\ WF_vars(Age(x))

-----------------------------------------------------------------------------
(* Properties *)

\* Types, and the row lock is held only inside the transaction that took it:
\* no error path of stage, commit or run_once keeps it.
ArtifactTypeOK ==
    /\ row \in [status : {"none", "staged", "committed", "deleted"},
                key : Exec \cup {Target, None}]
    /\ lock \in Exec \cup {Collector, None}
    /\ objects \subseteq Exec \cup {Target} /\ old \subseteq Exec
    /\ exec \in [Exec -> ExecState]
    /\ gc \in [pc : {"idle", "listed", "row", "orphans"}, orphans : SUBSET Exec, dropped : BOOLEAN]
    /\ faults \in 0 .. MaxFaults
    /\ \A x \in Exec : lock = x =>
          exec[x].pc \in {"uploading", "uploaded", "copying", "copied", "finalising"}
    /\ lock = Collector => gc.pc \in {"row", "orphans"}

\* "Once the row is committed its object key is authoritative and immutable":
\* neither a stage that read no row, nor a commit with an old key, nor the
\* collector changes it again.
CommittedIsFinal == [][row.status = "committed" => row' = row]_vars

\* A commit that holds the row finds its temporary object: neither the stages of
\* other executions, nor the collector's pages listed earlier, take it away.
CommitFindsObject ==
    \A x \in Exec : exec[x].pc = "copying" /\ row.status = "staged" => exec[x].key \in objects

\* A committed row has its object, whoever crashed between the copy and the
\* update, and whatever the collector had listed: only an execution that found
\* the row committed, took its key from stage and failed in its own commit can
\* have discarded it.
CommittedObjectKept ==
    row.status = "committed" =>
        Target \in objects \/ \E x \in Exec : exec[x].key = Target /\ exec[x].pc = "failed"

\* An execution that will upload and record no key any more.
Past(k) == exec[k].pc \notin {"idle", "uploading", "uploaded"}

\* The row names the key of a recorded upload, or the target.
RowInv ==
    /\ row.status = "staged" => row.key \in Exec
    /\ row.status = "committed" => row.key = Target
    /\ row.key \in Exec => Past(row.key)

\* The collector deletes keys of ended executions only, and drops the row only
\* while it holds the lock.
CollectorInv ==
    /\ gc.orphans \subseteq old
    /\ \A k \in old : exec[k].pc \in {"failed", "done"}
    /\ gc.pc = "row" => lock = Collector /\ row.status = "staged" /\ row.key \in old
    /\ gc.dropped => gc.pc = "orphans" /\ lock = Collector /\ row.status = "staged"

\* An execution that is on its way to a commit of its own key still needs it.
Needed(x) ==
    \/ exec[x].pc = "uploaded"
    \/ /\ exec[x].pc \in {"replacing", "staged", "copying"}
       /\ row.status = "staged" /\ row.key = x

\* An execution holds its own key; it commits under the lock of a row that names
\* it; what it replaces is the key of an execution that is past its own upload.
ExecInv(x) ==
    /\ exec[x].key \in {None, x, Target}
    /\ exec[x].pc \in {"copying", "copied", "finalising"} => lock = x /\ row.key = exec[x].key
    /\ exec[x].pc = "uploaded" => exec[x].key = x
    /\ exec[x].existing # None => Past(exec[x].existing)
    /\ exec[x].pc = "replacing" => exec[x].existing # row.key
    /\ Needed(x) => x \in objects

\* Why CommitFindsObject and CommittedIsFinal hold.
ArtifactInv ==
    /\ ArtifactTypeOK /\ RowInv /\ CollectorInv
    /\ \A x \in Exec : ExecInv(x)

\* No staged object and no staged row stays behind for good, whatever crashed.
Collected == []<>(objects \cap Exec = {} /\ row.status # "staged")
=============================================================================
