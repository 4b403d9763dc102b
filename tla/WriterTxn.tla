------------------------------ MODULE WriterTxn ------------------------------
(***************************************************************************)
(* The writer's Git transaction: src/aiwiki/runtime/curate.py              *)
(* (_transaction, _pre_sync, _commit_and_push, rollback) run by the serial *)
(* worker of src/aiwiki/service/worker.py, with its recovery at startup.   *)
(*                                                                         *)
(* One bundle, its clone and its remote branch.  A history is the sequence *)
(* of commits a branch holds, so that a commit's SHA (which depends on all *)
(* its ancestors) is the history that ends in it, and "is an ancestor of"  *)
(* is "is a prefix of".  A commit is the set of jobs whose edits it        *)
(* carries; another writer's commit carries none.  Other writers only ever *)
(* append to the remote branch.                                            *)
(*                                                                         *)
(* What a job proposes, how the gate judges it and whether Git can merge   *)
(* two commits are left open: each is a choice.  "failed" stands for the   *)
(* statuses failed and rejected, which differ in the answer only.          *)
(***************************************************************************)
EXTENDS Naturals, FiniteSets, SequencesExt

CONSTANTS
    Jobs,          \* the jobs that can come to exist
    Changesets,    \* those proposed by a maintainer run; the others are Codex ingests
    Items,         \* work items
    ItemOf,        \* the work item a changeset closes
    NoJob,         \* no job
    MaxAttempts,   \* max_attempts: pushes of one job
    MaxForeign,    \* bound: commits of other writers
    MaxCrashes     \* bound: crashes of the service

ASSUME ConstantsOK ==
    /\ Changesets \subseteq Jobs
    /\ NoJob \notin Jobs
    /\ ItemOf \in [Changesets -> Items]
    /\ MaxAttempts \in Nat \ {0} /\ MaxForeign \in Nat /\ MaxCrashes \in Nat

VARIABLES
    remote,    \* the remote branch
    local,     \* the clone's HEAD
    tracking,  \* the clone's origin/<branch>
    tree,      \* the jobs with edits in the working tree
    jobs,      \* the saved job records
    curated,   \* per work item, the job that closed it as curated
    queue,     \* the worker's queue, in memory
    worker,    \* the worker thread's memory: its step, its job, ...
    crashes,
    lapsed     \* history: the jobs whose push lost its answer or whose closeout raised

git  == <<remote, local, tracking, tree>>
others == <<curated, queue, crashes, lapsed>>
vars == <<git, jobs, worker, others>>

Commits   == SUBSET Jobs
Histories == Seq(Commits)
NoCommit  == <<>>
Foreign   == {}

Steps == {"down", "idle", "start", "sync", "produce", "commit", "save", "push",
          "integrate", "pushed", "closeout", "finish", "rollback", "fail"}

JobRecord == [status: {"absent", "queued", "running", "done", "failed"},
              phase: {"none", "syncing", "prepared", "committed", "pushed", "done",
                      "rolled_back"},
              base: Histories,       \* base_revision
              commit: Histories,     \* commit
               closed: {"no", "yes", "error"}, \* closed_items, closeout_error
              edited: BOOLEAN]       \* history: the job has changed the working tree

NoRecord == [status |-> "absent", phase |-> "none", base |-> NoCommit,
             commit |-> NoCommit, closed |-> "no", edited |-> FALSE]

At(step, j) == worker.step = step /\ worker.job = j
Goto(step)  == worker' = [worker EXCEPT !.step = step]
Rest(step)  == [step |-> step, job |-> NoJob, pushes |-> 0, refs |-> NoCommit, tried |-> {}]

Running   == {j \in Jobs : jobs[j].status = "running"}
Published(j) == \E k \in DOMAIN remote : j \in remote[k]

(* git rebase: the commits of `ours` that `upstream` lacks, moved on top of it. *)
Rebase(ours, upstream) ==
    LET forks == {k \in 0..Len(ours) : IsPrefix(SubSeq(ours, 1, k), upstream)}
    IN  upstream \o SubSeq(ours, Max(forks) + 1, Len(ours))

-----------------------------------------------------------------------------
Init ==
    /\ remote = <<Foreign>> /\ local = remote /\ tracking = remote
    /\ tree = {}
    /\ jobs = [j \in Jobs |-> NoRecord]
    /\ curated = [i \in Items |-> NoJob]
    /\ queue = {} /\ worker = Rest("idle")
    /\ crashes = 0 /\ lapsed = {}

(* Another writer pushes. *)
ForeignPush ==
    /\ Cardinality({k \in DOMAIN remote : remote[k] = Foreign}) <= MaxForeign
    /\ remote' = Append(remote, Foreign)
    /\ UNCHANGED <<local, tracking, tree, jobs, worker, others>>

(* POST /changesets (_check_items refuses a closed item) or POST /ingest. *)
Submit(j) ==
    /\ worker.step # "down" /\ jobs[j].status = "absent"
    /\ j \in Changesets => curated[ItemOf[j]] = NoJob
    /\ jobs' = [jobs EXCEPT ![j].status = "queued"]
    /\ queue' = queue \cup {j}
    /\ UNCHANGED <<git, curated, worker, crashes, lapsed>>

-----------------------------------------------------------------------------
(* The worker, one Git command or one save of the job record at a time. *)

(* _take: changesets first.  _run_queued: G3b again, for an item that was closed *)
(* while its changeset waited.                                                   *)
Take(j) ==
    /\ worker.step = "idle" /\ j \in queue
    /\ j \in Changesets \/ queue \cap Changesets = {}
    /\ queue' = queue \ {j}
    /\ IF j \in Changesets /\ curated[ItemOf[j]] # NoJob
       THEN jobs' = [jobs EXCEPT ![j].status = "failed"] /\ UNCHANGED worker
       ELSE /\ jobs' = [jobs EXCEPT ![j].status = "running"]
            /\ worker' = [Rest("start") EXCEPT !.job = j]
    /\ UNCHANGED <<git, curated, crashes, lapsed>>

(* Nothing is built on a working tree that is not clean. *)
StartSync(j) ==
    /\ At("start", j)
    /\ IF tree # {}
       THEN jobs' = [jobs EXCEPT ![j].status = "failed"] /\ worker' = Rest("idle")
       ELSE /\ jobs' = [jobs EXCEPT ![j].base = local, ![j].phase = "syncing"]
            /\ Goto("sync")
    /\ UNCHANGED <<git, others>>

(* _pre_sync fetched and rebased. *)
PreSync(j) ==
    /\ At("sync", j)
    /\ tracking' = remote /\ local' = Rebase(local, remote)
    /\ jobs' = [jobs EXCEPT ![j].base = local', ![j].phase = "prepared"]
    /\ worker' = [worker EXCEPT !.step = "produce", !.refs = tracking']
    /\ UNCHANGED <<remote, tree, others>>

(* The fetch failed: a changeset (strict) is refused, a Codex ingest goes on. *)
PreSyncOffline(j) ==
    /\ At("sync", j)
    /\ IF j \in Changesets
       THEN jobs' = [jobs EXCEPT ![j].status = "failed"] /\ worker' = Rest("idle")
       ELSE /\ jobs' = [jobs EXCEPT ![j].base = local, ![j].phase = "prepared"]
            /\ worker' = [worker EXCEPT !.step = "produce", !.refs = tracking]
    /\ UNCHANGED <<git, others>>

(* The producer leaves admitted bytes, and the closeout its index, log and hashes. *)
Produce(j) ==
    /\ At("produce", j)
    /\ tree' = tree \cup {j}
    /\ jobs' = [jobs EXCEPT ![j].edited = TRUE]
    /\ Goto("commit")
    /\ UNCHANGED <<remote, local, tracking, others>>

(* Every proposed file already equals HEAD. *)
Noop(j) ==
    /\ At("produce", j) /\ j \in Changesets
    /\ Goto("closeout")
    /\ UNCHANGED <<git, jobs, others>>

(* The gate refuses, the agent fails or the validation does. *)
Refuse(j) ==
    /\ At("produce", j) \/ At("commit", j)
    /\ Goto("rollback")
    /\ UNCHANGED <<git, jobs, others>>

(* git add -A and git commit. *)
GitCommit(j) ==
    /\ At("commit", j)
    /\ local' = Append(local, tree) /\ tree' = {}
    /\ Goto("save")
    /\ UNCHANGED <<remote, tracking, jobs, others>>

(* Mutant: one push more than the attempts allow. *)
SaveCommitOneMore(j) ==
    /\ At("save", j)
    /\ jobs' = [jobs EXCEPT ![j].commit = local, ![j].phase = "committed"]
    /\ \/ worker.pushes <= MaxAttempts /\ Goto("push")
       \/ worker.pushes > MaxAttempts /\ Goto("rollback")
    /\ UNCHANGED <<git, others>>

(* progress("committed"): the commit is saved before any push, and again after  *)
(* each rebase.  The recheck of a tree the rebase moved may refuse it, and the   *)
(* last attempt has no further push.                                             *)
SaveCommit(j) ==
    /\ At("save", j)
    /\ jobs' = [jobs EXCEPT ![j].commit = local, ![j].phase = "committed"]
    /\ \/ worker.pushes < MaxAttempts /\ Goto("push")
       \/ worker.pushes = MaxAttempts /\ Goto("rollback")
       \/ j \in Changesets /\ jobs[j].commit \notin {NoCommit, local} /\ Goto("rollback")
    /\ UNCHANGED <<git, others>>

(* The remote takes a push that extends its branch, and the answer arrives. *)
Push(j) ==
    /\ At("push", j) /\ IsPrefix(remote, local)
    /\ remote' = local /\ tracking' = local
    /\ Goto("pushed")
    /\ UNCHANGED <<local, tree, jobs, others>>

(* The push is rejected, or never reaches the remote. *)
PushRejected(j) ==
    /\ At("push", j)
    /\ Goto("integrate")
    /\ UNCHANGED <<git, jobs, others>>

(* The remote takes the push and the answer is lost. *)
PushAckLost(j) ==
    /\ At("push", j) /\ IsPrefix(remote, local)
    /\ remote' = local /\ lapsed' = lapsed \cup {j}
    /\ Goto("integrate")
    /\ UNCHANGED <<local, tracking, tree, jobs, curated, queue, crashes>>

(* After a push that did not succeed: the fetch (its result is not looked at), *)
(* and the check whether the remote took the push after all.                   *)
FoundOnRemote(j, fetched) ==
    /\ At("integrate", j) /\ fetched \in {remote, tracking}
    /\ tracking' = fetched
    /\ IsPrefix(local, fetched)
    /\ Goto("pushed")
    /\ UNCHANGED <<remote, local, tree, jobs, others>>

(* Otherwise the commit is moved onto the branch, which Git may refuse. *)
Integrate(j, fetched) ==
    /\ At("integrate", j) /\ fetched \in {remote, tracking}
    /\ tracking' = fetched
    /\ ~IsPrefix(local, fetched)
    /\ local' = Rebase(local, fetched)
    /\ worker' = [worker EXCEPT !.step = "save", !.pushes = @ + 1]
    /\ UNCHANGED <<remote, tree, jobs, others>>

RebaseConflict(j, fetched) ==
    /\ At("integrate", j) /\ fetched \in {remote, tracking}
    /\ tracking' = fetched
    /\ ~IsPrefix(local, fetched) /\ ~IsPrefix(fetched, local)
    /\ Goto("rollback")
    /\ UNCHANGED <<remote, local, tree, jobs, others>>

(* progress("pushed") *)
SavePushed(j) ==
    /\ At("pushed", j)
    /\ jobs' = [jobs EXCEPT ![j].commit = local, ![j].phase = "pushed"]
    /\ Goto(IF j \in Changesets THEN "closeout" ELSE "finish")
    /\ UNCHANGED <<git, others>>

CloseItem(j) ==
    curated' = IF curated[ItemOf[j]] = NoJob THEN [curated EXCEPT ![ItemOf[j]] = j]
                                             ELSE curated

(* The receipt of the closeout: closed_items, or closeout_error when it raised, *)
(* before or after it closed the item.                                          *)
CloseoutOf(j, receipt) ==
    /\ jobs' = [jobs EXCEPT ![j].closed = receipt]
    /\ CloseItem(j) \/ (receipt = "error" /\ UNCHANGED curated)
    /\ lapsed' = IF receipt = "error" THEN lapsed \cup {j} ELSE lapsed

(* on_done (_closeout): still before the receipt is saved as done. *)
Closeout(j, receipt) ==
    /\ At("closeout", j)
    /\ CloseoutOf(j, receipt)
    /\ Goto("finish")
    /\ UNCHANGED <<git, crashes, queue>>

Finish(j) ==
    /\ At("finish", j)
    /\ jobs' = [jobs EXCEPT ![j].status = "done", ![j].phase = "done"]
    /\ worker' = Rest("idle")
    /\ UNCHANGED <<git, others>>

(* A git command outlasts its timeout; a push may have reached the remote. *)
TimeOut(j) ==
    /\ worker.step \in {"sync", "produce", "commit", "push", "integrate"} /\ worker.job = j
    /\ remote' \in IF worker.step = "push" /\ IsPrefix(remote, local)
                   THEN {remote, local} ELSE {remote}
    /\ lapsed' = IF remote' = remote THEN lapsed ELSE lapsed \cup {j}
    /\ Goto("rollback")
    /\ UNCHANGED <<local, tracking, tree, jobs, curated, queue, crashes>>

(* Mutant: a rollback that forgets the commits and only cleans the tree. *)
RollbackTreeOnly(j) ==
    /\ At("rollback", j)
    /\ tree' = {}
    /\ Goto("fail")
    /\ UNCHANGED <<remote, local, tracking, jobs, others>>

(* rollback: .git, its remote refs included, and the tree as they were. *)
Rollback(j) ==
    /\ At("rollback", j)
    /\ local' = jobs[j].base /\ tree' = {}
    /\ tracking' = IF worker.refs = NoCommit THEN tracking ELSE worker.refs
    /\ Goto("fail")
    /\ UNCHANGED <<remote, jobs, others>>

SaveFailed(j) ==
    /\ At("fail", j)
    /\ jobs' = [jobs EXCEPT ![j].status = "failed", ![j].phase = "rolled_back"]
    /\ worker' = Rest("idle")
    /\ UNCHANGED <<git, others>>

-----------------------------------------------------------------------------
(* A crash loses the worker's memory; recover runs before the worker starts. *)
Crash ==
    /\ worker.step # "down" /\ crashes < MaxCrashes
    /\ worker' = Rest("down") /\ queue' = {}
    /\ crashes' = crashes + 1
    /\ UNCHANGED <<git, jobs, curated, lapsed>>

Down == worker.step = "down"

(* _reconcile_running of a job that never got a base revision. *)
ReconcileNothing(j) ==
    /\ Down /\ j \in Running /\ jobs[j].base = NoCommit
    /\ jobs' = [jobs EXCEPT ![j].status = "failed"]
    /\ UNCHANGED <<git, worker, others>>

(* Mutant: a saved commit counts as pushed. *)
ReconcileDoneByPhase(j) ==
    /\ Down /\ j \in Running /\ jobs[j].phase \in {"committed", "pushed"}
    /\ tracking' = remote /\ local' = remote /\ tree' = {}
    /\ jobs' = [jobs EXCEPT ![j].status = "done", ![j].phase = "done"]
    /\ UNCHANGED <<remote, worker, others>>

(* The remote holds the commit: the job is done.  A fetch that fails leaves the  *)
(* job running and the service stopped until another start (RECOVERY_PENDING).    *)
ReconcileDone(j) ==
    /\ Down /\ j \in Running /\ jobs[j].commit # NoCommit
    /\ jobs[j].phase \in {"committed", "pushed"}
    /\ IsPrefix(jobs[j].commit, remote)
    /\ tracking' = remote /\ local' = remote /\ tree' = {}
    /\ jobs' = [jobs EXCEPT ![j].status = "done", ![j].phase = "done"]
    /\ UNCHANGED <<remote, worker, others>>

(* Mutant: an unfinished commit counts as unpublished, without asking the remote. *)
ReconcileBlindly(j) ==
    /\ Down /\ j \in Running /\ jobs[j].base # NoCommit
    /\ local' = jobs[j].base /\ tree' = {}
    /\ jobs' = [jobs EXCEPT ![j].status = "failed", ![j].phase = "rolled_back"]
    /\ UNCHANGED <<remote, tracking, worker, others>>

(* Anything else goes back to the base revision. *)
ReconcileRollback(j) ==
    /\ Down /\ j \in Running /\ jobs[j].base # NoCommit
    /\ IF jobs[j].commit = NoCommit THEN UNCHANGED tracking
       ELSE tracking' = remote /\ ~IsPrefix(jobs[j].commit, remote)
    /\ local' = jobs[j].base /\ tree' = {}
    /\ jobs' = [jobs EXCEPT ![j].status = "failed", ![j].phase = "rolled_back"]
    /\ UNCHANGED <<remote, worker, others>>

Unclosed == {j \in Changesets : jobs[j].status = "done" /\ jobs[j].closed # "yes"}

(* The closeouts a crash cut or an error left, once each, when every interrupted *)
(* job is final.                                                                 *)
RecoverCloseout(j, receipt) ==
    /\ Down /\ Running = {} /\ j \in Unclosed \ worker.tried
    /\ CloseoutOf(j, receipt)
    /\ worker' = [worker EXCEPT !.tried = @ \cup {j}]
    /\ UNCHANGED <<git, queue, crashes>>

Queued == {j \in Jobs : jobs[j].status = "queued"}

(* Mutant: the jobs queued before the crash are not queued again. *)
StartWorkerOnly ==
    /\ Down /\ Running = {} /\ Unclosed \subseteq worker.tried
    /\ worker' = Rest("idle")
    /\ UNCHANGED <<git, jobs, others>>

(* The queued jobs go back to the queue and the worker starts. *)
StartWorker ==
    /\ Down /\ Running = {} /\ Unclosed \subseteq worker.tried
    /\ queue' = Queued /\ worker' = Rest("idle")
    /\ UNCHANGED <<git, jobs, curated, crashes, lapsed>>

-----------------------------------------------------------------------------
WorkerStep(j) ==
    \/ Take(j) \/ StartSync(j) \/ PreSync(j) \/ PreSyncOffline(j)
    \/ Produce(j) \/ Noop(j) \/ Refuse(j) \/ GitCommit(j) \/ SaveCommit(j)
    \/ Push(j) \/ PushRejected(j) \/ PushAckLost(j)
    \/ \E fetched \in {remote, tracking} :
           FoundOnRemote(j, fetched) \/ Integrate(j, fetched) \/ RebaseConflict(j, fetched)
    \/ SavePushed(j) \/ Finish(j)
    \/ \E receipt \in {"yes", "error"} : Closeout(j, receipt)
    \/ TimeOut(j) \/ Rollback(j) \/ SaveFailed(j)

RecoveryStep ==
    \/ \E j \in Jobs : \/ ReconcileNothing(j) \/ ReconcileDone(j)
                       \/ ReconcileRollback(j)
                       \/ \E receipt \in {"yes", "error"} : RecoverCloseout(j, receipt)
    \/ StartWorker

Next ==
    \/ ForeignPush
    \/ \E j \in Jobs : Submit(j) \/ WorkerStep(j)
    \/ Crash
    \/ RecoveryStep

Spec == Init /\ [][Next]_vars

(* The worker thread runs, and a stopped service is started again until its     *)
(* fetch succeeds: of the two, one is enabled at a time.                         *)
FairSpec == Spec /\ WF_vars((\E j \in Jobs : WorkerStep(j)) \/ RecoveryStep)

-----------------------------------------------------------------------------
(* Properties. *)

(* Every variable has its shape. *)
TypeOK ==
    /\ remote \in Histories /\ local \in Histories /\ tracking \in Histories
    /\ tree \in SUBSET Jobs
    /\ jobs \in [Jobs -> JobRecord]
    /\ curated \in [Items -> Changesets \cup {NoJob}]
    /\ queue \in SUBSET Jobs
    /\ worker \in [step: Steps, job: Jobs \cup {NoJob}, pushes: 0..MaxAttempts,
                   refs: Histories, tried: SUBSET Changesets]
    /\ crashes \in 0..MaxCrashes
    /\ lapsed \in SUBSET Jobs

(* A receipt that says done names a commit the remote branch holds, with the    *)
(* job's edits, however pushes, rebases and crashes interleaved.                *)
DoneIsPublished ==
    \A j \in Jobs : jobs[j].status = "done" /\ jobs[j].edited =>
        /\ jobs[j].commit # NoCommit /\ IsPrefix(jobs[j].commit, remote)
        /\ j \in Last(jobs[j].commit)

(* A job is published at most once: no retried push or recovery repeats it, and *)
(* no commit carries the edits of two jobs.                                     *)
PublishedOnce ==
    /\ \A j \in Jobs : Cardinality({k \in DOMAIN remote : j \in remote[k]}) <= 1
    /\ \A k \in DOMAIN remote : Cardinality(remote[k]) <= 1

(* Between jobs the clone holds nothing the remote lacks: no failed job leaves  *)
(* a commit or an edit that the next job would publish.                         *)
CleanAtRest ==
    worker.step = "idle" => tree = {} /\ IsPrefix(local, remote)

(* "a lost acknowledgement counts as pushed" (inbox.commit): a job whose push   *)
(* the remote took is not recorded as failed.                                    *)
FailedIsUnpublished ==
    \A j \in Jobs : jobs[j].status = "failed" => ~Published(j)

(* An item is closed as curated only by a job whose edits the remote holds.     *)
CuratedIsPublished ==
    \A i \in Items : curated[i] # NoJob /\ jobs[curated[i]].edited => Published(curated[i])

(* "an item once closed takes no further changeset": of two changesets for one  *)
(* item, queued together, only the first is published, unless the answer to its  *)
(* push was lost or its closeout raised.                                         *)
OneChangesetPerItem ==
    \A j1, j2 \in Changesets :
        ItemOf[j1] = ItemOf[j2] /\ Published(j1) /\ Published(j2)
            => j1 = j2 \/ {j1, j2} \cap lapsed # {}

(* The writer keeps the promise of JobOutcome: edits are published at most once, *)
(* by one step, before an answer that agrees with them; only the answer of a job *)
(* whose push lost its own answer may say failed of what was published.          *)
Receipt(j) ==
    CASE jobs[j].status = "failed" -> "failed"
      [] jobs[j].status = "done" -> IF jobs[j].edited THEN "published" ELSE "noop"
      [] OTHER -> "none"

Outcome == INSTANCE JobOutcome WITH
    published <- [j \in Jobs |-> Cardinality({k \in DOMAIN remote : j \in remote[k]})],
    receipt   <- [j \in Jobs |-> Receipt(j)],
    doubted   <- lapsed

ImplementsOutcome == Outcome!Spec

(* Every accepted job ends done or failed, through any crash and restart: again *)
(* and again no job waits or runs.                                              *)
JobsEnd == []<>(\A j \in Jobs : jobs[j].status \notin {"queued", "running"})

(* The item of every done changeset ends closed, also when a crash cut its      *)
(* closeout, or its receipt says that the closeout raised.                      *)
ItemsClose ==
    []<>(\A j \in Changesets : jobs[j].status = "done" =>
            curated[ItemOf[j]] # NoJob \/ jobs[j].closed = "error")

(* The receipts, the closed items and the branch agree: what a receipt calls     *)
(* done the branch holds, once; a closed item's edits are there; and of an       *)
(* item's changesets one got in.                                                *)
RecordsMatchBranch == DoneIsPublished /\ PublishedOnce /\ CuratedIsPublished /\ OneChangesetPerItem

(* Jobs end, and the items of done ones close.                                  *)
WorkEnds == JobsEnd /\ ItemsClose
=============================================================================
