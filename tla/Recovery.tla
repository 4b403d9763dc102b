------------------------------ MODULE Recovery ------------------------------
(***************************************************************************)
(* The restart of the service over one interrupted job: recover and        *)
(* _reconcile_running of src/aiwiki/service/worker.py.  WriterTxn takes a  *)
(* rebase as one step and the working tree as a set of edits; here the     *)
(* clone shows what a process that dies at any point leaves behind: HEAD   *)
(* off its branch, edits, a commit whose SHA was not saved, a source that  *)
(* has already left the inbox, a push only the remote knows of.            *)
(*                                                                         *)
(* The job's commit is "own" until a rebase replaces it ("rebased").       *)
(***************************************************************************)
EXTENDS Naturals

CONSTANTS
    Kinds,         \* the kinds of job that can be interrupted; a changeset's is "ingest"
    MaxCrashes,    \* bound: deaths of the process
    MaxPushes      \* bound: pushes of the job

ConstantsOK == /\ Kinds \subseteq {"ingest", "audit", "revert", "intake"}
               /\ MaxCrashes \in Nat /\ MaxPushes \in Nat

VARIABLES
    kind,
    job,       \* the saved record: status, phase, commit SHA, whether its failure may be retried
    head,      \* the clone: what HEAD is on, the commit above the base, edits in the tree
    remote,    \* the commits of the job that the remote branch holds
    source,    \* where the uploaded bytes of an ingest are
    step,      \* of the job, of the recovery, or "ready": the worker thread was started
    crashes,
    pushes

vars == <<kind, job, head, remote, source, step, crashes, pushes>>

Shas   == {"base", "own", "rebased"}
AtBase == [on |-> "branch", commit |-> "base", edits |-> FALSE]

\* The one kind whose source is moved out of sources/inbox.
StoresSource == kind = "ingest"

Init ==
    /\ kind \in Kinds
    /\ job = [status |-> "running", phase |-> "none", commit |-> "base", retryable |-> FALSE]
    /\ head = AtBase
    /\ remote = {}
    /\ source = [inbox |-> TRUE, copy |-> FALSE]
    /\ step = "start"
    /\ crashes = 0
    /\ pushes = 0

-----------------------------------------------------------------------------
(* The job, as far as a restart can tell its steps apart. *)
Goto(next) == step' = next

Prepare ==
    /\ step = "start"
    /\ job' = [job EXCEPT !.phase = "prepared"]
    /\ source' = [source EXCEPT !.copy = StoresSource]
    /\ Goto("write")
    /\ UNCHANGED <<kind, head, remote, crashes, pushes>>

Write ==
    /\ step = "write"
    /\ head' = [head EXCEPT !.edits = TRUE]
    /\ source' = [source EXCEPT !.inbox = ~StoresSource]
    /\ Goto("commit")
    /\ UNCHANGED <<kind, job, remote, crashes, pushes>>

GitCommit ==
    /\ step = "commit"
    /\ head' = [head EXCEPT !.commit = "own", !.edits = FALSE]
    /\ Goto("save")
    /\ UNCHANGED <<kind, job, remote, source, crashes, pushes>>

SaveCommit ==
    /\ step = "save"
    /\ job' = [job EXCEPT !.phase = "committed", !.commit = head.commit]
    /\ Goto("push")
    /\ UNCHANGED <<kind, head, remote, source, crashes, pushes>>

Push ==
    /\ step = "push" /\ pushes < MaxPushes
    /\ pushes' = pushes + 1
    /\ \/ remote' = {head.commit} /\ Goto("finish")
       \/ remote' = remote /\ head.commit = "own" /\ Goto("rebase")
    /\ UNCHANGED <<kind, job, head, source, crashes>>

(* git rebase leaves the branch while it works. *)
RebaseStarts ==
    /\ step = "rebase" /\ head.on = "branch"
    /\ head' = [head EXCEPT !.on = "detached"]
    /\ UNCHANGED <<kind, job, remote, source, step, crashes, pushes>>

RebaseEnds ==
    /\ step = "rebase" /\ head.on = "detached"
    /\ head' = [head EXCEPT !.on = "branch", !.commit = "rebased"]
    /\ Goto("save")
    /\ UNCHANGED <<kind, job, remote, source, crashes, pushes>>

SavePushed ==
    /\ step = "finish" /\ job.phase = "committed"
    /\ job' = [job EXCEPT !.phase = "pushed"]
    /\ UNCHANGED <<kind, head, remote, source, step, crashes, pushes>>

Finish ==
    /\ step = "finish" /\ job.phase = "pushed"
    /\ job' = [job EXCEPT !.status = "done", !.phase = "done"]
    /\ Goto("clean")
    /\ UNCHANGED <<kind, head, remote, source, crashes, pushes>>

Cleanup ==
    /\ step = "clean"
    /\ source' = [source EXCEPT !.copy = FALSE]
    /\ Goto("ready")
    /\ UNCHANGED <<kind, job, head, remote, crashes, pushes>>

Crash ==
    /\ step \notin {"ready", "down"} /\ crashes < MaxCrashes
    /\ crashes' = crashes + 1
    /\ Goto("down")
    /\ UNCHANGED <<kind, job, head, remote, source, pushes>>

-----------------------------------------------------------------------------
(* recover(): one pass over the job records before the worker thread exists. *)
Recovers == step = "down"

NothingRunning ==
    /\ Recovers /\ job.status # "running"
    /\ Goto("ready")
    /\ UNCHANGED <<kind, job, head, remote, source, crashes, pushes>>

(* The outcome of a job that is not done: only a confirmed rollback may be retried. *)
Outcome(record) == [record EXCEPT !.status = "failed", !.retryable = (record.phase = "rolled_back")]

Settle(record) ==
    /\ job' = record
    /\ Goto("clean")
    /\ UNCHANGED <<kind, remote, crashes, pushes>>

(* No base revision, or a clone that is on another branch: nothing is changed. *)
BranchMatches == head.on = "branch"

ReconcileUnknown ==
    /\ Recovers /\ job.status = "running"
    /\ job.phase = "none" \/ ~BranchMatches
    /\ Settle(Outcome(job))
    /\ UNCHANGED <<head, source>>

Reconciles == Recovers /\ job.status = "running" /\ job.phase # "none" /\ BranchMatches

(* _remote_contains after a fetch; a fetch that fails proves nothing, and the worker waits for
   the next start. *)
ReconcilePending ==
    /\ Reconciles /\ job.commit # "base"
    /\ Goto("pending")
    /\ UNCHANGED <<kind, job, head, remote, source, crashes, pushes>>

RestartsLater ==
    /\ step = "pending"
    /\ Goto("down")
    /\ UNCHANGED <<kind, job, head, remote, source, crashes, pushes>>

OnRemoteByPhase == job.commit \in remote /\ job.phase = "pushed"

OnRemote == job.commit \in remote /\ job.phase \in {"committed", "pushed"}

ReconcileDone ==
    /\ Reconciles /\ OnRemote
    /\ head' = AtBase
    /\ Settle([job EXCEPT !.status = "done", !.phase = "done"])
    /\ UNCHANGED source

(* git reset fails: an honest failure, and the clone stays as it is. *)
ResetFails ==
    /\ Reconciles
    /\ Settle(Outcome(job))
    /\ UNCHANGED <<head, source>>

ReconcileRollback ==
    /\ Reconciles /\ ~OnRemote
    /\ head' = AtBase
    /\ source' = [source EXCEPT !.inbox = @ \/ source.copy]
    /\ Settle(Outcome([job EXCEPT !.phase = "rolled_back"]))

Next ==
    \/ Prepare \/ Write \/ GitCommit \/ SaveCommit \/ Push \/ RebaseStarts \/ RebaseEnds
    \/ SavePushed \/ Finish \/ Cleanup \/ Crash
    \/ NothingRunning \/ ReconcileUnknown \/ ReconcilePending \/ RestartsLater
    \/ ReconcileDone \/ ResetFails \/ ReconcileRollback

Spec == Init /\ [][Next]_vars

-----------------------------------------------------------------------------
TypeOK ==
    /\ job.status \in {"running", "done", "failed"} /\ job.commit \in Shas
    /\ job.phase \in {"none", "prepared", "committed", "pushed", "done", "rolled_back"}
    /\ head.on \in {"branch", "detached"} /\ head.commit \in Shas
    /\ remote \subseteq {"own", "rebased"}

(* A failure that may be retried has left nothing behind: the clone is clean on its base, the
   remote lacks the job, and an upload is back in the inbox. *)
RetryIsSafe ==
    job.status = "failed" /\ job.retryable =>
        /\ head = AtBase /\ remote = {}
        /\ kind = "ingest" => source.inbox

(* A job is done only when the remote holds its commit, and the clone of a recovered one is back
   on its branch with nothing of the job left in it. *)
DoneIsPublished ==
    job.status = "done" => job.commit \in remote /\ head.on = "branch" /\ ~head.edits

(* The recovery always leaves an interrupted rebase: the worker never starts on a clone whose
   HEAD is off its branch. *)
InterruptedRebaseIsLeft == step = "ready" => head.on = "branch"

(* What a restart says of the job it found is so: done is published, failed is undone. *)
RecoverySound == TypeOK /\ RetryIsSafe /\ DoneIsPublished
=============================================================================
