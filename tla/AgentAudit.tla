----------------------------- MODULE AgentAudit -----------------------------
(***************************************************************************)
(* One Codex audit of an ingest: run of src/aiwiki/runtime/audit.py.  An   *)
(* untrusted reviewer agent edits the live bundle; the service then takes  *)
(* back whatever the agent may not change, stamps the verdict, validates,  *)
(* closes out and publishes.  Meanwhile the service goes on writing its    *)
(* own files (.okf, sources/inbox) in the same tree.                       *)
(*                                                                         *)
(* A file is one of a few contents and Git's metadata is its controls      *)
(* (HEAD, refs, index, config, hooks) and its object files.  Why a check   *)
(* refuses, and what the agent does, are choices.  viz.html, images and    *)
(* the wording of errors are left out.                                     *)
(***************************************************************************)
EXTENDS Naturals, FiniteSets

CONSTANTS
    Declared,      \* the concept files of the parent ingest
    Closing,       \* the tracked files closeout writes: indexes, log.md
    Ignored,       \* Git-ignored files that are no lifecycle state
    Lifecycle      \* files under .okf and sources/inbox

ConstantsOK == /\ Closing \intersect Declared = {} /\ Ignored \intersect (Declared \union Closing) = {}
               /\ Lifecycle \intersect (Declared \union Closing \union Ignored) = {}

VARIABLES
    withGit,   \* AIWIKI_GIT is not off
    retired,   \* the concepts another changeset deprecated while the audit waited
    tree,      \* the bundle's files
    meta,      \* .git
    agent,     \* how the agent ended, the concepts its verdict lists as verified; history: those
               \* whose knowledge it changed, and whether nothing of it had to be taken back
    job,       \* the saved job record
    step,
    remote,    \* what the job published
    misused    \* history: a Git command ran on metadata the agent had changed

vars == <<withGit, retired, tree, meta, agent, job, step, remote, misused>>

Tracked == Declared \union Closing
Paths   == Tracked \union Ignored \union Lifecycle

\* "edit" changes knowledge, "forged" only fields the service owns, "broken" does not parse,
\* "link" is a symlink; "stamped" and "corrected" are an audited concept as the service leaves it.
AgentContents == {"before", "edit", "forged", "broken", "none", "link"}
Contents == AgentContents \union {"stamped", "corrected", "closed", "note"}

Before  == [p \in Paths |-> "before"]
Intact  == [controls |-> "base", objects |-> "base"]
Metas   == [controls : {"base", "agent", "job", "half"}, objects : {"base", "more", "damaged"}]
AgentMetas == [controls : {"base", "agent"}, objects : {"base", "more", "damaged"}]
Unsafe(m) == \/ m.controls \in {"agent", "half"}
             \/ m.objects = "damaged"
             \/ m.controls = "base" /\ m.objects = "more"

Errors == {"none", "refused", "metadata", "scope", "agent", "malformed", "invalid", "publish",
           "git_timeout", "agent_timeout", "exception"}

Init ==
    /\ withGit \in BOOLEAN
    /\ retired \in SUBSET Declared
    /\ tree = Before
    /\ meta = Intact
    /\ agent = [exit |-> "none", verified |-> {}, changed |-> {}, cleared |-> FALSE]
    /\ job = [status |-> "queued", phase |-> "none", scope |-> {}, error |-> "none",
              verified |-> {}, corrected |-> {}]
    /\ step = "precheck"
    /\ remote = Before
    /\ misused = FALSE

(* concept_files: of what the parent changed, the concepts, less those retired since. *)
Scope == Declared \ retired

(* Every Git command of a step: what it would run on. *)
RunGit == misused' = (misused \/ (withGit /\ Unsafe(meta)))

(* _operational_path: the agent never owns these, and neither do the snapshots. *)
Operational(p) == p \in Lifecycle

Protected == {p \in Paths : ~Operational(p)}

(* _restore_git_metadata: rebuilt from the snapshot, except for an object that was changed or
   deleted; `raises` cuts it in the middle. *)
RestoredMeta(raises) ==
    IF raises THEN [meta EXCEPT !.controls = "half"]
    ELSE [controls |-> "base", objects |-> IF meta.objects = "damaged" THEN "damaged" ELSE "base"]

ProtectedMeta(raises) == IF meta = Intact THEN meta ELSE RestoredMeta(raises)

(* protect_agent_state: an edit of a concept in scope may stay, anything else goes back. *)
ProhibitedTracked(t) == {p \in Tracked : t[p] # Before[p] /\ (p \notin job.scope \/ t[p] = "link")}

Prohibited(t) == {p \in Protected : t[p] # Before[p] /\ (p \notin job.scope \/ t[p] = "link")}

RestoreTree(t) == [p \in Paths |-> IF p \in Protected THEN Before[p] ELSE t[p]]

ProtectedTree(t, raises) ==
    IF Prohibited(t) = {} \/ raises THEN t
    ELSE [p \in Paths |-> IF p \in job.scope \ Prohibited(t) THEN t[p] ELSE RestoreTree(t)[p]]

(* _rollback_git: reset --hard and the removal of untracked files, which leave ignored files. *)
GitReset(t) == [p \in Paths |-> IF p \in Tracked THEN Before[p] ELSE t[p]]

(* rollback(): .git first, then the agent's files, and only then Git.  `raises` names the
   restores that fail. *)
Safe(raises) == /\ ProtectedMeta("meta" \in raises) = Intact
                /\ Prohibited(ProtectedTree(tree, "tree" \in raises)) = {}

TreeBack(raises) ==
    LET protected == ProtectedTree(tree, "tree" \in raises)
    IN  IF ~Safe(raises) THEN protected
        ELSE IF withGit THEN GitReset(protected) ELSE RestoreTree(protected)

(* The bytes of the concepts are written back once more after most failures. *)
OriginalsBack(t) ==
    [p \in Paths |-> IF p \in job.scope /\ t[p] # "link" THEN Before[p] ELSE t[p]]

Rollback(raises, originals, error) ==
    /\ meta' = ProtectedMeta("meta" \in raises)
    /\ tree' = IF originals THEN OriginalsBack(TreeBack(raises)) ELSE TreeBack(raises)
    /\ misused' = (misused \/ (withGit /\ Safe(raises) /\ Unsafe(meta')))
    /\ job' = [job EXCEPT !.status = "failed", !.error = error,
                          !.phase = IF Safe(raises) THEN "rolled_back" ELSE "rollback_blocked"]
    /\ step' = "over"
    /\ UNCHANGED <<withGit, retired, agent, remote>>

(* The handlers of a timeout and of any exception blame what rollback() had to take back. *)
Blamed(error) == IF meta # Intact THEN "metadata" ELSE IF Prohibited(tree) # {} THEN "scope" ELSE error

Failures == SUBSET {"meta", "tree"}

-----------------------------------------------------------------------------
(* The prechecks: parent, scope, source, symlinks, repository, clean tree, unsafe .git. *)
Refuse ==
    /\ step = "precheck"
    /\ job' = [job EXCEPT !.status = "failed", !.error = "refused"]
    /\ step' = "over"
    /\ RunGit
    /\ UNCHANGED <<withGit, retired, tree, meta, agent, remote>>

NothingToAudit ==
    /\ step = "precheck" /\ retired = Declared
    /\ job' = [job EXCEPT !.status = "done", !.phase = "done"]
    /\ step' = "over"
    /\ UNCHANGED <<withGit, retired, tree, meta, agent, remote, misused>>

SyncTimesOut ==
    /\ step = "precheck" /\ withGit /\ retired # Declared
    /\ Rollback({}, FALSE, "git_timeout")

Prepare ==
    /\ step = "precheck" /\ retired # Declared
    /\ job' = [job EXCEPT !.status = "running", !.phase = "prepared", !.scope = Scope]
    /\ step' = "agent"
    /\ RunGit
    /\ UNCHANGED <<withGit, retired, tree, meta, agent, remote>>

(* The reviewer: it may leave any bytes, and ends with a verdict, an error or not at all. *)
AgentRuns ==
    /\ step = "agent"
    /\ meta' \in AgentMetas
    /\ \E edits \in [Protected -> AgentContents],
          exit \in {"ok", "error", "agent_timeout", "exception"}, verified \in SUBSET job.scope :
          /\ \A p \in Protected \ Declared : edits[p] \in {"before", "edit"}
          /\ exit # "ok" => verified = {}
          /\ tree' = [p \in Paths |-> IF p \in Protected THEN edits[p] ELSE tree[p]]
          /\ agent' = [agent EXCEPT !.exit = exit, !.verified = verified,
                           !.changed = {p \in Declared : edits[p] = "edit"}]
    /\ step' = "protect"
    /\ UNCHANGED <<withGit, retired, job, remote, misused>>

(* A submission, a claim, a receipt: the service writes its own state at any time. *)
LifecycleWrite ==
    /\ step \notin {"precheck", "over"}
    /\ \E p \in Lifecycle : tree[p] = "before" /\ tree' = [tree EXCEPT ![p] = "note"]
    /\ UNCHANGED <<withGit, retired, meta, agent, job, step, remote, misused>>

AgentRaised ==
    /\ step = "protect" /\ agent.exit \in {"agent_timeout", "exception"}
    /\ \E raises \in Failures : Rollback(raises, FALSE, Blamed(agent.exit))

Violated == meta # Intact \/ Prohibited(tree) # {}

AgentViolated ==
    /\ step = "protect" /\ agent.exit \in {"ok", "error"} /\ Violated
    /\ \E raises \in Failures : Rollback(raises, TRUE, Blamed("none"))

AgentFailed ==
    /\ step = "protect" /\ agent.exit = "error" /\ ~Violated
    /\ Rollback({}, TRUE, "agent")

AgentAnswered ==
    /\ step = "protect" /\ agent.exit = "ok" /\ ~Violated
    /\ step' = "judge"
    /\ agent' = [agent EXCEPT !.cleared = TRUE]
    /\ RunGit
    /\ UNCHANGED <<withGit, retired, tree, meta, job, remote>>

(* apply_bookkeeping: the service's own fields come back, a verified concept is stamped unless
   the reviewer changed its knowledge. *)
Bookkept(content, verified) ==
    CASE content = "edit" -> "corrected"
      [] content \in {"before", "forged"} /\ verified -> "stamped"
      [] OTHER -> "before"

Malformed == \E p \in job.scope : tree[p] \in {"broken", "none"}

OutputMalformed ==
    /\ step = "judge" /\ Malformed
    /\ Rollback({}, TRUE, "malformed")

Judge ==
    /\ step = "judge" /\ ~Malformed
    /\ tree' = [p \in Paths |-> IF p \in job.scope THEN Bookkept(tree[p], p \in agent.verified)
                                ELSE tree[p]]
    /\ step' = "validate"
    /\ UNCHANGED <<withGit, retired, meta, agent, job, remote, misused>>

Invalid ==
    /\ step \in {"validate", "closed"}
    /\ Rollback({}, TRUE, "invalid")

(* The verdict of the job, then the indexes and the log. *)
Closeout ==
    /\ step = "validate"
    /\ job' = [job EXCEPT
           !.verified = {p \in job.scope : tree[p] = "stamped"},
           !.corrected = {p \in job.scope : tree[p] = "corrected"}]
    /\ tree' = [p \in Paths |-> IF p \in Closing THEN "closed" ELSE tree[p]]
    /\ step' = "closed"
    /\ UNCHANGED <<withGit, retired, meta, agent, remote, misused>>

EndWithoutGit ==
    /\ step = "closed" /\ ~withGit
    /\ job' = [job EXCEPT !.status = "done", !.phase = "done"]
    /\ step' = "over"
    /\ UNCHANGED <<withGit, retired, tree, meta, agent, remote, misused>>

Commit ==
    /\ step = "closed" /\ withGit
    /\ meta' = [controls |-> "job", objects |-> "more"]
    /\ job' = [job EXCEPT !.phase = "committed"]
    /\ step' = "push"
    /\ RunGit
    /\ UNCHANGED <<withGit, retired, tree, agent, remote>>

Publish == remote' = [p \in Paths |-> IF p \in Tracked THEN tree[p] ELSE "before"]

Push ==
    /\ step = "push"
    /\ Publish
    /\ job' = [job EXCEPT !.status = "done", !.phase = "done"]
    /\ step' = "over"
    /\ RunGit
    /\ UNCHANGED <<withGit, retired, tree, meta, agent>>

(* The commit fails, or every push is rejected: git_failed. *)
PublishFails ==
    /\ step \in {"closed", "push"} /\ withGit
    /\ \E raises \in Failures : Rollback(raises, FALSE, "publish")

(* A Git command outlasts GIT_TIMEOUT_S.  (Whether its push landed is a matter of WriterTxn.) *)
GitTimesOut ==
    /\ step \in {"judge", "closed", "push"} /\ withGit
    /\ \E raises \in Failures : Rollback(raises, FALSE, Blamed("git_timeout"))

ServiceRaises ==
    /\ step \in {"judge", "validate", "closed", "push"}
    /\ \E raises \in Failures : Rollback(raises, FALSE, Blamed("exception"))

Next ==
    \/ Refuse \/ NothingToAudit \/ SyncTimesOut \/ Prepare
    \/ AgentRuns \/ LifecycleWrite
    \/ AgentRaised \/ AgentViolated \/ AgentFailed \/ AgentAnswered
    \/ OutputMalformed \/ Judge \/ Invalid \/ Closeout \/ EndWithoutGit
    \/ Commit \/ Push \/ PublishFails \/ GitTimesOut \/ ServiceRaises

Spec == Init /\ [][Next]_vars

-----------------------------------------------------------------------------
TypeOK ==
    /\ tree \in [Paths -> Contents] /\ remote \in [Paths -> Contents]
    /\ meta \in Metas
    /\ agent.exit \in {"none", "ok", "error", "agent_timeout", "exception"}
    /\ agent.verified \cup agent.changed \subseteq Declared
    /\ job.status \in {"queued", "running", "done", "failed"}
    /\ job.phase \in {"none", "prepared", "committed", "rolled_back", "rollback_blocked", "done"}
    /\ job.error \in Errors
    /\ job.scope \cup job.verified \cup job.corrected \subseteq Declared

(* An audit that failed and says it rolled back has left nothing: not in the bundle, whichever
   files Git ignores, and not in .git, its own commit included. *)
FailureLeavesNoTrace ==
    job.status = "failed" /\ job.phase # "rollback_blocked" =>
        /\ meta = Intact
        /\ \A p \in Paths \ Lifecycle : tree[p] = "before"

(* No Git command of an audit runs on metadata its agent changed, or on a restore of it that
   did not succeed: the rollback is blocked instead. *)
NoGitOnChangedMetadata == ~misused

(* What is published was judged: the concepts of the audit that were not retired, each with the
   stamp of its verdict, and no stamp on text the reviewer wrote itself; and the job reports it. *)
PublishedIsJudged ==
    /\ \A p \in Declared : remote[p] \in {"before", "stamped", "corrected"}
    /\ \A p \in Declared : remote[p] # "before" => p \notin retired
    /\ \A p \in Declared : remote[p] = "stamped" =>
           p \in (agent.verified \ agent.changed) \intersect job.verified
    /\ job.status = "done" /\ withGit =>
           {p \in Declared : remote[p] = "corrected"} = job.corrected
    /\ \A p \in Ignored \cup Lifecycle : remote[p] = "before"

(* What the service writes under .okf and sources/inbox while the agent runs survives every
   restore and rollback. *)
LifecycleKept ==
    [][\A p \in Lifecycle : tree[p] = "note" => tree'[p] = "note"]_vars

(* A failure blames the agent's scope or its Git metadata only when the agent changed them. *)
BlameIsDeserved == job.error \in {"metadata", "scope"} => ~agent.cleared

(* An audit agent is contained: what it left goes with its failure, and what it did gets out only
   as judged; the service's own files beside it stay. *)
AuditContained ==
    [](TypeOK /\ FailureLeavesNoTrace /\ NoGitOnChangedMetadata /\ PublishedIsJudged) /\ LifecycleKept
=============================================================================
