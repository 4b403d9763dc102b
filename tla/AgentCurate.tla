----------------------------- MODULE AgentCurate -----------------------------
(***************************************************************************)
(* One Codex curation of an uploaded source: _transaction around           *)
(* _codex_produce of src/aiwiki/runtime/curate.py.  The agent works in an  *)
(* isolated copy of the knowledge tree, with at most one repair pass; only *)
(* concept bytes that pass every gate enter the live bundle, and the       *)
(* source moves from sources/inbox to its immutable snapshot in the same   *)
(* commit.                                                                 *)
(*                                                                         *)
(* The sandbox may leak, and a restore may fail: both are choices.  What a *)
(* validation finds is a content ("bad") of the concept it would name.     *)
(***************************************************************************)

CONSTANTS
    Concepts,      \* concept files
    Other,         \* knowledge files no agent may change (sources, indexes)
    Closing,       \* the tracked files closeout writes: indexes, log.md, .hashes.yaml
    Snapshot,      \* sources/<name>, where the uploaded bytes are kept for good
    Inbox          \* sources/inbox/<name>, Git-ignored

ConstantsOK == /\ Concepts \cap Other = {} /\ Closing \cap (Concepts \cup Other) = {}
               /\ {Snapshot, Inbox} \cap (Concepts \cup Other \cup Closing) = {} /\ Snapshot # Inbox

VARIABLES
    live,      \* the files of the bundle
    space,     \* the concepts and other files of the agent's workspace
    meta,      \* .git: "base", "agent" (changed by it), "damaged" (an object lost), "job", "half"
    recovery,  \* the durable copy of the source under .okf/recovery
    job,       \* the saved job record
    proc,      \* the return code of the last pass
    first,     \* first_pass_concepts, once a repair started
    step,
    remote,    \* the concepts and the snapshot the job published
    misused    \* history: a Git command ran on metadata the agent had changed

vars == <<live, space, meta, recovery, job, proc, first, step, remote, misused>>

Shared == Concepts \cup Other
Tree   == Shared \cup Closing \cup {Snapshot}     \* the knowledge tree, what Git tracks of it
Paths  == Tree \cup {Inbox}

Before == [p \in Paths |-> IF p = Inbox THEN "source" ELSE IF p = Snapshot THEN "none" ELSE "before"]

\* "good" and "bad" change knowledge, and "bad" fails a policy or a validation; "forged" changes
\* only fields the service owns.
AgentContents == {"before", "good", "bad", "forged", "none"}

Errors == {"none", "refused", "metadata", "scope", "agent", "content", "closeout", "publish", "timeout", "exception"}

Init ==
    /\ live = Before
    /\ space = [p \in Shared |-> "before"]
    /\ meta = "base"
    /\ recovery = FALSE
    /\ job = [status |-> "running", phase |-> "none", error |-> "none"]
    /\ proc = "none"
    /\ first = {}
    /\ step = "prepare"
    /\ remote = Before
    /\ misused = FALSE

Changed(before, after) == {p \in DOMAIN after : after[p] # before[p]}

UnsafeMeta == meta \in {"agent", "damaged", "half"}
RunGit == misused' = (misused \/ UnsafeMeta)

(* prepare_rollback_without_git: .git first, then the tree; a restore that fails (before it
   changes anything, "tree", or once it has removed the new files, "removal") blocks the rollback,
   and no Git command of it runs. *)
MetaBack(raises) ==
    CASE meta = "base" -> "base"
      [] meta = "damaged" -> "damaged"
      [] OTHER -> IF raises THEN "half" ELSE "base"

TreeRestored == [p \in Paths |-> IF p \in Tree THEN Before[p] ELSE live[p]]
MetaBlocked(raises) == MetaBack("meta" \in raises) # "base"
Blocked(raises) == MetaBlocked(raises) \/ raises \cap {"tree", "removal"} # {}
HalfRestored(raises) ==
    IF ~MetaBlocked(raises) /\ "removal" \in raises THEN [live EXCEPT ![Snapshot] = Before[Snapshot]]
    ELSE live

(* rollback(), after which the source is in the inbox again for a retry. *)
SourceBack(tree) == [tree EXCEPT ![Inbox] = "source"]

(* The recovery copy outlives a blocked rollback at every end of the transaction but one. *)
KeepsCopy(blocked, keeps) == blocked /\ keeps

Fail(raises, error, keeps) ==
    /\ meta' = MetaBack("meta" \in raises)
    /\ live' = IF Blocked(raises) THEN HalfRestored(raises) ELSE SourceBack(TreeRestored)
    /\ misused' = (misused \/ (~Blocked(raises) /\ meta' # "base"))
    /\ recovery' = (recovery /\ KeepsCopy(Blocked(raises), keeps))
    /\ job' = [status |-> "failed", error |-> error,
               phase |-> IF Blocked(raises) THEN "rollback_blocked" ELSE "rolled_back"]
    /\ step' = "over"
    /\ UNCHANGED <<space, proc, first, remote>>

Failures == SUBSET {"meta", "tree", "removal"}

-----------------------------------------------------------------------------
(* No repository, a dirty tree, a lost source: the transaction does not start. *)
Refuse ==
    /\ step = "prepare"
    /\ job' = [job EXCEPT !.status = "failed", !.error = "refused"]
    /\ step' = "over"
    /\ RunGit
    /\ UNCHANGED <<live, space, meta, recovery, proc, first, remote>>

(* Pre-sync, the recovery copy, and the snapshots a rollback restores. *)
Prepare ==
    /\ step = "prepare"
    /\ recovery' = TRUE
    /\ job' = [job EXCEPT !.phase = "prepared"]
    /\ step' = "preflight"
    /\ RunGit
    /\ UNCHANGED <<live, space, meta, proc, first, remote>>

(* A symlink, source drift or a snapshot path that holds other bytes. *)
PreflightFails ==
    /\ step = "preflight"
    /\ Fail({}, "refused", TRUE)

StartAgent ==
    /\ step = "preflight"
    /\ step' = "agent"
    /\ UNCHANGED <<live, space, meta, recovery, job, proc, first, remote, misused>>

(* One pass of the agent, first or repair: any bytes in the workspace, and a leak or none. *)
AgentPass(next) ==
    /\ \E edits \in [Shared -> AgentContents] :
          /\ \A p \in Other : edits[p] \in {"before", "good"}
          /\ space' = edits
    /\ proc' \in {"ok", "error", "timeout"}
    /\ \/ UNCHANGED <<live, meta>>
       \/ \E p \in Tree : live' = [live EXCEPT ![p] = "bad"] /\ meta' = meta
       \/ meta' \in {"agent", "damaged"} /\ live' = live
    /\ step' = next
    /\ UNCHANGED <<recovery, job, first, remote, misused>>

FirstPass == step = "agent" /\ AgentPass("gate")

HostErrors  == \E p \in Tree : live[p] # Before[p]
ScopeErrors == \E p \in Shared : \/ p \in Other /\ space[p] # "before"
                                 \/ space[p] = "none"       \* deleted: not a concept edit

(* _service_bookkeeping restores what the service owns, where the gates let it run. *)
GatesPass == meta = "base" /\ ~HostErrors /\ ~ScopeErrors /\ proc = "ok"
Bookkept  == [p \in Shared |-> IF GatesPass /\ space[p] = "forged" THEN "before" ELSE space[p]]
Edited(files) == {p \in Concepts : files[p] \notin {"before", "none"}}

ContentErrors(files) == \E p \in Concepts : files[p] \in {"bad", "forged"}

AgentTimedOut ==
    /\ step \in {"gate", "regate"} /\ proc = "timeout"
    /\ \E raises \in Failures : Fail(raises, "timeout", TRUE)

MetadataViolated ==
    /\ step \in {"gate", "regate"} /\ proc # "timeout" /\ meta # "base"
    /\ \E raises \in Failures : Fail(raises, "metadata", TRUE)

ScopeViolated ==
    /\ step \in {"gate", "regate"} /\ proc # "timeout" /\ meta = "base" /\ (HostErrors \/ ScopeErrors)
    /\ \E raises \in Failures : Fail(raises, "scope", TRUE)

AgentFailed ==
    /\ step \in {"gate", "regate"} /\ proc = "error" /\ meta = "base" /\ ~HostErrors /\ ~ScopeErrors
    /\ Fail({}, "agent", TRUE)

(* Content errors only, and once: the agent may repair what its first pass changed. *)
StartRepair ==
    /\ step = "gate" /\ GatesPass /\ ContentErrors(Bookkept)
    /\ space' = Bookkept
    /\ first' = Edited(Bookkept)
    /\ step' = "repair"
    /\ UNCHANGED <<live, meta, recovery, job, proc, remote, misused>>

RepairPass == step = "repair" /\ AgentPass("regate")

RepairDropsNone == first \subseteq Edited(Bookkept)

(* A repair may neither change another concept nor drop one of the first pass. *)
RepairKept == Edited(Bookkept) = first

RepairFails ==
    /\ step = "regate" /\ GatesPass /\ (ContentErrors(Bookkept) \/ ~RepairKept)
    /\ Fail({}, "content", TRUE)

(* _apply_agent_concepts, then the snapshot; only now the inbox file goes. *)
Apply ==
    /\ GatesPass /\ ~ContentErrors(Bookkept)
    /\ \/ step = "gate"
       \/ step = "regate" /\ RepairKept
    /\ space' = Bookkept
    /\ live' = [p \in Paths |-> CASE p \in Concepts -> Bookkept[p]
                                  [] p = Snapshot -> "source"
                                  [] p = Inbox -> "none"
                                  [] OTHER -> live[p]]
    /\ step' = "validate"
    /\ UNCHANGED <<meta, recovery, job, proc, first, remote, misused>>

(* The live tree is judged once more, after the apply and after the closeout. *)
Invalid ==
    /\ step = "validate"
    /\ \E raises \in Failures : Fail(raises, "content", TRUE)

Closeout ==
    /\ step = "validate"
    /\ live' = [p \in Paths |-> IF p \in Closing THEN "closed" ELSE live[p]]
    /\ step' = "closed"
    /\ RunGit
    /\ UNCHANGED <<space, meta, recovery, job, proc, first, remote>>

CloseoutInvalid ==
    /\ step = "closed"
    /\ \E raises \in Failures : Fail(raises, "closeout", FALSE)

Commit ==
    /\ step = "closed"
    /\ meta' = "job"
    /\ job' = [job EXCEPT !.phase = "committed"]
    /\ step' = "push"
    /\ RunGit
    /\ UNCHANGED <<live, space, recovery, proc, first, remote>>

Push ==
    /\ step = "push"
    /\ remote' = live
    /\ job' = [job EXCEPT !.status = "done", !.phase = "done"]
    /\ recovery' = FALSE
    /\ step' = "over"
    /\ RunGit
    /\ UNCHANGED <<live, space, meta, proc, first>>

PublishFails ==
    /\ step \in {"closed", "push"}
    /\ \E raises \in Failures, error \in {"publish", "timeout", "exception"} : Fail(raises, error, TRUE)

Next ==
    \/ Refuse \/ Prepare \/ PreflightFails \/ StartAgent \/ FirstPass
    \/ AgentTimedOut \/ MetadataViolated \/ ScopeViolated \/ AgentFailed
    \/ StartRepair \/ RepairPass \/ RepairFails \/ Apply
    \/ Invalid \/ Closeout \/ CloseoutInvalid \/ Commit \/ Push \/ PublishFails

Spec == Init /\ [][Next]_vars

-----------------------------------------------------------------------------
TypeOK ==
    /\ live \in [Paths -> AgentContents \cup {"source", "closed"}]
    /\ space \in [Shared -> AgentContents]
    /\ meta \in {"base", "agent", "damaged", "job", "half"}
    /\ job.status \in {"running", "done", "failed"} /\ job.error \in Errors
    /\ first \subseteq Concepts

(* A curation that failed with its rollback confirmed has left the bundle, .git and the inbox as
   they were, whatever its agent leaked, so the upload can be retried. *)
FailureLeavesNoTrace ==
    job.status = "failed" /\ job.phase # "rollback_blocked" => meta = "base" /\ live = Before

(* No Git command runs on metadata an agent changed. *)
NoGitOnChangedMetadata == ~misused

(* The live knowledge tree takes nothing from the agent but whole, valid concept edits; when it
   repaired them, the edits of exactly the concepts it had changed before. *)
PublishedIsAdmitted ==
    /\ \A p \in Concepts : remote[p] \in {"before", "good"}
    /\ \A p \in Other : remote[p] = "before"
    /\ job.status = "done" /\ first # {} => {p \in Concepts : remote[p] # "before"} = first

(* The uploaded bytes are never only in a process's memory: the inbox, the recovery copy, the
   live snapshot or the published one has them.  The end that drops the copy of a blocked rollback
   is left out: there a restore that fails half way loses them. *)
SourceKept ==
    \/ "source" \in {live[Inbox], live[Snapshot], remote[Snapshot]} \/ recovery
    \/ job.error = "closeout" /\ job.phase = "rollback_blocked"

(* A curation agent is contained, and the upload outlives its failures. *)
CurationContained ==
    TypeOK /\ FailureLeavesNoTrace /\ NoGitOnChangedMetadata /\ PublishedIsAdmitted /\ SourceKept
=============================================================================
