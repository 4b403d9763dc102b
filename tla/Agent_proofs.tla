---------------------------- MODULE Agent_proofs ----------------------------
(***************************************************************************)
(* Proofs about the ways of an agent's edit to the branch.  In the service,*)
(* for any files, leaks, failed restores and deaths of the process: an     *)
(* audit agent (AgentAudit) and a curation agent (AgentCurate, here C) are *)
(* contained, and what a restart says of the job it found is so (Recovery, *)
(* here R).  Outside it: what the gate of a changeset admits fits the      *)
(* branch it is pushed to (Changeset, here G), and a maintainer's          *)
(* workspace neither loses edits nor overwrites others' (Workspace, W).    *)
(***************************************************************************)
EXTENDS MCAgent, TLAPS

-----------------------------------------------------------------------------
(* The restart over an interrupted job. *)

(* The job's own steps, before and after its push can be on the remote. *)
Unpublished == {"start", "write", "commit", "save", "push", "rebase"}

(* What each step of the job finds in the record, the clone and the inbox. *)
JobSteps ==
    /\ at \in Unpublished => record.status = "running" /\ pushed = {}
    /\ at = "start"  => record.phase = "none" /\ head = R!AtBase
    /\ at = "write"  => record.phase = "prepared" /\ head = R!AtBase /\ (kind = "ingest" => source.copy)
    /\ at = "commit" => record.phase = "prepared" /\ head.on = "branch"
    /\ at = "save"   => /\ record.phase \in {"prepared", "committed"} /\ head.commit # "base"
                        /\ head.on = "branch" /\ ~head.edits
    /\ at = "push"   => /\ record.phase = "committed" /\ record.commit = head.commit /\ head.commit # "base"
                        /\ head.on = "branch" /\ ~head.edits
    /\ at = "rebase" => record.phase = "committed" /\ ~head.edits
    /\ at = "finish" => /\ record.status = "running" /\ record.phase \in {"committed", "pushed"}
                        /\ pushed = {record.commit}
                        /\ head.on = "branch" /\ ~head.edits
    /\ at = "pending" => record.status = "running"
    /\ at \in {"clean", "ready"} => record.status # "running"

(* What a record says, whoever finds it: a job that runs has its source somewhere, and only a
   saved commit can be on the remote. *)
RecordTells ==
    /\ record.status = "running" =>
         /\ record.phase \in {"none", "prepared", "committed", "pushed"} /\ ~record.retryable
         /\ record.phase = "none" => source.inbox
         /\ kind = "ingest" => source.inbox \/ source.copy
         /\ pushed # {} => pushed = {record.commit} /\ record.phase \in {"committed", "pushed"}
    /\ R!RetryIsSafe /\ R!DoneIsPublished

(* The types of the variables, the booleans with them. *)
RestartTypes ==
    /\ record \in [status: {"running", "done", "failed"},
                   phase: {"none", "prepared", "committed", "pushed", "done", "rolled_back"},
                   commit: R!Shas, retryable: BOOLEAN]
    /\ head \in [on: {"branch", "detached"}, commit: R!Shas, edits: BOOLEAN]
    /\ source \in [inbox: BOOLEAN, copy: BOOLEAN]
    /\ pushed \subseteq {"own", "rebased"}

RestartInv == RestartTypes /\ JobSteps /\ RecordTells

(* A restart starts with a job that has not begun. *)
LEMMA RestartInit == R!Init => RestartInv
  BY DEF R!Init, R!AtBase, R!Shas, RestartInv, RestartTypes, JobSteps, RecordTells, Unpublished,
         R!RetryIsSafe, R!DoneIsPublished

(* The job's steps keep it, ... *)
LEMMA JobKeeps ==
    ASSUME RestartInv,
           \/ R!Prepare \/ R!Write \/ R!GitCommit \/ R!SaveCommit \/ R!Push \/ R!RebaseStarts \/ R!RebaseEnds
           \/ R!SavePushed \/ R!Finish \/ R!Cleanup
    PROVE  RestartInv'
<1> USE DEF RestartInv, RestartTypes, JobSteps, RecordTells, Unpublished, R!Goto, R!Shas, R!AtBase,
            R!RetryIsSafe, R!DoneIsPublished
<1>1. CASE R!Prepare  BY <1>1 DEF R!Prepare, R!StoresSource
<1>2. CASE R!Write
  <2>1. source' \in [inbox : BOOLEAN, copy : BOOLEAN] /\ source'.copy = source.copy
    BY <1>2 DEF R!Write, R!StoresSource
  <2>2. head' \in [on : {"branch", "detached"}, commit : R!Shas, edits : BOOLEAN] /\ head'.on = head.on
    BY <1>2 DEF R!Write
  <2>3. at = "write" /\ at' = "commit" /\ UNCHANGED <<kind, record, pushed>>  BY <1>2 DEF R!Write
  <2> QED  BY <2>1, <2>2, <2>3
<1>3. CASE R!GitCommit  BY <1>3 DEF R!GitCommit
<1>4. CASE R!SaveCommit  BY <1>4 DEF R!SaveCommit
<1>5. CASE R!Push  BY <1>5 DEF R!Push
<1>6. CASE R!RebaseStarts  BY <1>6 DEF R!RebaseStarts
<1>7. CASE R!RebaseEnds  BY <1>7 DEF R!RebaseEnds
<1>8. CASE R!SavePushed  BY <1>8 DEF R!SavePushed
<1>9. CASE R!Finish  BY <1>9 DEF R!Finish
<1>10. CASE R!Cleanup
  <2>1. source' \in [inbox : BOOLEAN, copy : BOOLEAN] /\ source'.inbox = source.inbox
    BY <1>10 DEF R!Cleanup
  <2>2. at = "clean" /\ at' = "ready" /\ UNCHANGED <<kind, record, head, pushed>>  BY <1>10 DEF R!Cleanup
  <2> QED  BY <2>1, <2>2
<1> QED  BY <1>1, <1>2, <1>3, <1>4, <1>5, <1>6, <1>7, <1>8, <1>9, <1>10

(* ... and so do its death and what the next start makes of it. *)
LEMMA RecoveryKeeps ==
    ASSUME RestartInv,
           \/ R!Crash \/ R!NothingRunning \/ R!ReconcileUnknown \/ R!ReconcilePending \/ R!RestartsLater
           \/ R!ReconcileDone \/ R!ResetFails \/ R!ReconcileRollback
    PROVE  RestartInv'
<1> USE DEF RestartInv, RestartTypes, JobSteps, RecordTells, Unpublished, R!Goto, R!Shas, R!AtBase,
            R!RetryIsSafe, R!DoneIsPublished, R!Settle, R!Outcome, R!Recovers, R!Reconciles, R!BranchMatches,
            R!OnRemote
<1>1. CASE R!Crash  BY <1>1 DEF R!Crash
<1>2. CASE R!NothingRunning  BY <1>2 DEF R!NothingRunning
<1>3. CASE R!ReconcileUnknown  BY <1>3 DEF R!ReconcileUnknown
<1>4. CASE R!ReconcilePending  BY <1>4 DEF R!ReconcilePending
<1>5. CASE R!RestartsLater  BY <1>5 DEF R!RestartsLater
<1>6. CASE R!ReconcileDone  BY <1>6 DEF R!ReconcileDone
<1>7. CASE R!ResetFails  BY <1>7 DEF R!ResetFails
<1>8. CASE R!ReconcileRollback  BY <1>8 DEF R!ReconcileRollback
<1> QED  BY <1>1, <1>2, <1>3, <1>4, <1>5, <1>6, <1>7, <1>8

(* Every step keeps the invariant of the restart. *)
LEMMA RestartNext == RestartInv /\ [R!Next]_(R!vars) => RestartInv'
<1> SUFFICES ASSUME RestartInv, [R!Next]_(R!vars) PROVE RestartInv'  OBVIOUS
<1>1. CASE R!Next  BY <1>1, JobKeeps, RecoveryKeeps DEF R!Next
<1>2. CASE UNCHANGED R!vars
  BY <1>2 DEF R!vars, RestartInv, RestartTypes, JobSteps, RecordTells, Unpublished, R!RetryIsSafe, R!DoneIsPublished
<1> QED  BY <1>1, <1>2

(* What a restart says of the job it found is so. *)
LEMMA RestartsTell == R!Spec => []R!RecoverySound
<1>1. RestartInv => R!RecoverySound
  BY DEF RestartInv, RestartTypes, RecordTells, R!RecoverySound, R!TypeOK, R!Shas
<1> QED  BY <1>1, RestartInit, RestartNext, PTL DEF R!Spec

-----------------------------------------------------------------------------
(* A curation. *)

(* The types of the variables. *)
CurateTypes ==
    /\ live \in [C!Paths -> C!AgentContents \cup {"source", "closed"}]
    /\ space \in [C!Shared -> C!AgentContents]
    /\ gitdir \in {"base", "agent", "damaged", "job", "half"}
    /\ recovery \in BOOLEAN
    /\ curation \in [status: {"running", "done", "failed"}, error: C!Errors,
                     phase: {"none", "prepared", "committed", "done", "rolled_back", "rollback_blocked"}]
    /\ first \subseteq Concepts
    /\ abused = FALSE

(* What the branch may get: whole, valid edits of the agent, the uploaded bytes and the closeout. *)
Admitted(files) ==
    /\ \A p \in Concepts : files[p] \in {"before", "good"}
    /\ \A p \in Other : files[p] = "before"
    /\ first # {} => {p \in Concepts : files[p] # "before"} = first

(* Until its end a curation runs, with nothing published and the upload in the inbox or copied. *)
Curating ==
    /\ stage \in {"prepare", "preflight", "agent", "gate", "repair", "regate", "validate", "closed", "push", "over"}
    /\ stage # "over" => /\ curation.status = "running" /\ curation.error = "none"
                         /\ published = C!Before /\ curation.phase # "rollback_blocked"
    /\ stage \notin {"prepare", "over"} => recovery

(* What each stage finds: before the agent nothing has changed, between its pass and the gates
   anything may have, and what was applied is admitted. *)
Stages ==
    /\ stage \in {"prepare", "preflight", "agent", "repair"} => live = C!Before /\ gitdir = "base"
    /\ stage \in {"prepare", "preflight", "agent", "gate"} => first = {}
    /\ stage \in {"gate", "regate"} => live[Inbox] = "source"
    /\ stage \in {"validate", "closed"} => gitdir = "base"
    /\ stage = "push" => gitdir = "job"
    /\ stage \in {"validate", "closed", "push"} => live[Snapshot] = "source" /\ Admitted(live)

(* What its end leaves. *)
Ended ==
    stage = "over" =>
        C!FailureLeavesNoTrace /\ C!PublishedIsAdmitted /\ C!SourceKept /\ curation.status # "running"

CurateInv == CurateTypes /\ Curating /\ Stages /\ Ended

(* The files of the bundle are what they are called: no path is two of them. *)
LEMMA PathsApart ==
    /\ Inbox \in C!Paths /\ Inbox \notin C!Tree /\ Snapshot \in C!Paths /\ Snapshot \in C!Tree
    /\ Snapshot # Inbox
    /\ \A p \in Concepts \cup Other :
         p \in C!Paths /\ p \in C!Tree /\ p \in C!Shared /\ p \notin {Snapshot, Inbox} /\ p \notin Closing
    /\ \A p \in Concepts : p \notin Other
    /\ \A p \in Closing : p \notin {Snapshot, Inbox}
    /\ C!Shared = Concepts \cup Other
    /\ C!Paths = C!Tree \cup {Inbox}
  BY CurateOK DEF C!ConstantsOK, C!Paths, C!Tree, C!Shared

(* Before the curation the tree is its own, and the upload is in the inbox. *)
LEMMA BeforeIs ==
    /\ C!Before \in [C!Paths -> C!AgentContents \cup {"source", "closed"}]
    /\ C!Before[Inbox] = "source"
    /\ \A p \in Concepts \cup Other : C!Before[p] = "before"
  BY PathsApart DEF C!Before, C!AgentContents

(* A curation starts so. *)
LEMMA CurateInit == C!Init => CurateInv
<1> SUFFICES ASSUME C!Init PROVE CurateInv  OBVIOUS
<1>1. space \in [C!Shared -> C!AgentContents]  BY DEF C!Init, C!AgentContents
<1>2. CurateTypes  BY <1>1, BeforeIs DEF C!Init, CurateTypes, C!Errors
<1>3. Curating /\ Stages /\ Ended  BY DEF C!Init, Curating, Stages, Ended
<1> QED  BY <1>2, <1>3 DEF CurateInv

(* A rollback that is not blocked has put .git, the tree and the upload back, ... *)
LEMMA Undone ==
    ASSUME CurateTypes, NEW raises \in C!Failures, ~C!Blocked(raises)
    PROVE  C!MetaBack("meta" \in raises) = "base" /\ C!SourceBack(C!TreeRestored) = C!Before
<1>1. C!MetaBack("meta" \in raises) = "base"  BY DEF C!Blocked, C!MetaBlocked
<1>2. \A p \in C!Paths : C!SourceBack(C!TreeRestored)[p] = C!Before[p]
  BY PathsApart, BeforeIs DEF C!SourceBack, C!TreeRestored
<1>3. C!SourceBack(C!TreeRestored) = [p \in C!Paths |-> C!SourceBack(C!TreeRestored)[p]]
  BY DEF C!SourceBack, C!TreeRestored
<1>4. C!Before = [p \in C!Paths |-> C!Before[p]]  BY DEF C!Before
<1> QED  BY <1>1, <1>2, <1>3, <1>4

(* ... and whatever fails, the upload outlives a blocked one where the copy is kept. *)
LEMMA FailKeeps ==
    ASSUME CurateInv, stage \notin {"prepare", "over"},
           NEW raises \in C!Failures, NEW error \in C!Errors, NEW keeps \in BOOLEAN, keeps \/ error = "closeout", C!Fail(raises, error, keeps)
    PROVE  CurateInv'
<1>0. CurateTypes /\ published = C!Before /\ recovery  BY DEF CurateInv, Curating
<1>1. /\ curation' = [status |-> "failed", error |-> error,
                      phase |-> IF C!Blocked(raises) THEN "rollback_blocked" ELSE "rolled_back"]
      /\ stage' = "over" /\ published' = C!Before /\ first' = first /\ space' = space
  BY <1>0 DEF C!Fail
<1>2. gitdir' = C!MetaBack("meta" \in raises) /\ gitdir' \in {"base", "damaged", "half"}
  BY <1>0 DEF C!Fail, C!MetaBack
<1>3. CASE C!Blocked(raises)
  <2>1. live' = C!HalfRestored(raises) /\ abused' = FALSE /\ recovery' = keeps
    BY <1>0, <1>3 DEF C!Fail, C!KeepsCopy, CurateTypes
  <2>2. live' \in [C!Paths -> C!AgentContents \cup {"source", "closed"}]
    BY <2>1, <1>0, PathsApart, BeforeIs DEF C!HalfRestored, CurateTypes
  <2>3. CurateTypes'  BY <1>0, <1>1, <1>2, <2>1, <2>2, <1>3 DEF CurateTypes
  <2>4. Curating' /\ Stages'  BY <1>1 DEF Curating, Stages
  <2>5. C!FailureLeavesNoTrace' /\ C!PublishedIsAdmitted' /\ C!SourceKept'
    BY <1>1, <1>3, <2>1, BeforeIs DEF C!FailureLeavesNoTrace, C!PublishedIsAdmitted, C!SourceKept
  <2> QED  BY <1>1, <2>3, <2>4, <2>5 DEF CurateInv, Ended
<1>4. CASE ~C!Blocked(raises)
  <2>1. live' = C!Before /\ gitdir' = "base" /\ abused' = FALSE /\ recovery' = FALSE
    BY <1>0, <1>2, <1>4, Undone DEF C!Fail, C!KeepsCopy, CurateTypes
  <2>2. CurateTypes'  BY <1>0, <1>1, <2>1, <1>4, BeforeIs DEF CurateTypes
  <2>3. Curating' /\ Stages'  BY <1>1 DEF Curating, Stages
  <2>4. C!FailureLeavesNoTrace' /\ C!PublishedIsAdmitted' /\ C!SourceKept'
    BY <1>1, <2>1, BeforeIs DEF C!FailureLeavesNoTrace, C!PublishedIsAdmitted, C!SourceKept
  <2> QED  BY <1>1, <2>2, <2>3, <2>4 DEF CurateInv, Ended
<1> QED  BY <1>3, <1>4

(* The ends that fail. *)
LEMMA CurationFails ==
    ASSUME CurateInv,
           \/ C!PreflightFails \/ C!AgentTimedOut \/ C!MetadataViolated \/ C!ScopeViolated \/ C!AgentFailed
           \/ C!RepairFails \/ C!Invalid \/ C!CloseoutInvalid \/ C!PublishFails
    PROVE  CurateInv'
<1>1. stage \notin {"prepare", "over"} /\ {} \in C!Failures
  BY DEF C!PreflightFails, C!AgentTimedOut, C!MetadataViolated, C!ScopeViolated, C!AgentFailed,
         C!RepairFails, C!Invalid, C!CloseoutInvalid, C!PublishFails, C!Failures
<1>2. \E raises \in C!Failures, error \in C!Errors, keeps \in BOOLEAN :
        (keeps \/ error = "closeout") /\ C!Fail(raises, error, keeps)
  BY <1>1, Zenon DEF C!PreflightFails, C!AgentTimedOut, C!MetadataViolated, C!ScopeViolated, C!AgentFailed,
         C!RepairFails, C!Invalid, C!CloseoutInvalid, C!PublishFails, C!Errors
<1> QED  BY <1>1, <1>2, FailKeeps

(* The steps before the agent. *)
LEMMA CurationBegins ==
    ASSUME CurateInv, C!Refuse \/ C!Prepare \/ C!StartAgent
    PROVE  CurateInv'
<1>0. CurateTypes /\ Curating /\ Stages  BY DEF CurateInv
<1>1. CASE C!Refuse
  <2>1. /\ stage = "prepare" /\ stage' = "over" /\ live' = C!Before /\ gitdir' = "base" /\ published' = C!Before
        /\ curation' = [curation EXCEPT !.status = "failed", !.error = "refused"] /\ curation.phase # "rollback_blocked"
        /\ abused' = FALSE /\ UNCHANGED <<space, recovery, first>>
    BY <1>0, <1>1 DEF C!Refuse, C!RunGit, C!UnsafeMeta, CurateTypes, Curating, Stages
  <2>2. /\ curation'.status = "failed" /\ curation'.error = "refused" /\ curation'.phase = curation.phase
        /\ curation' \in [status: {"running", "done", "failed"}, error: C!Errors,
                     phase: {"none", "prepared", "committed", "done", "rolled_back", "rollback_blocked"}]
    BY <1>0, <2>1 DEF CurateTypes, C!Errors
  <2>3. CurateTypes'  BY <1>0, <2>1, <2>2, BeforeIs DEF CurateTypes
  <2>4. Curating' /\ Stages'  BY <2>1 DEF Curating, Stages
  <2>5. C!FailureLeavesNoTrace' /\ C!PublishedIsAdmitted' /\ C!SourceKept'
    BY <2>1, <2>2, BeforeIs DEF C!FailureLeavesNoTrace, C!PublishedIsAdmitted, C!SourceKept
  <2> QED  BY <2>1, <2>2, <2>3, <2>4, <2>5 DEF CurateInv, Ended
<1>2. CASE C!Prepare
  <2>1. /\ stage = "prepare" /\ stage' = "preflight" /\ recovery' = TRUE /\ abused' = FALSE
        /\ curation' = [curation EXCEPT !.phase = "prepared"]
        /\ UNCHANGED <<live, space, gitdir, first, published>>
    BY <1>0, <1>2 DEF C!Prepare, C!RunGit, C!UnsafeMeta, CurateTypes, Stages
  <2> QED  BY <1>0, <2>1 DEF CurateInv, CurateTypes, Curating, Stages, Ended
<1>3. CASE C!StartAgent
  BY <1>0, <1>3 DEF C!StartAgent, CurateInv, CurateTypes, Curating, Stages, Ended
<1> QED  BY <1>1, <1>2, <1>3

(* A pass of the agent, whatever it leaks. *)
LEMMA PassKeeps ==
    ASSUME CurateInv, C!FirstPass \/ C!RepairPass
    PROVE  CurateInv'
<1>0. CurateTypes /\ Curating /\ Stages  BY DEF CurateInv
<1>1. /\ stage \in {"agent", "repair"} /\ stage' \in {"gate", "regate"} /\ (stage' = "gate" => stage = "agent")
      /\ UNCHANGED <<recovery, curation, first, published, abused>>
      /\ space' \in [C!Shared -> C!AgentContents]
  BY DEF C!FirstPass, C!RepairPass, C!AgentPass
<1>2. /\ live' \in [C!Paths -> C!AgentContents \cup {"source", "closed"}] /\ live'[Inbox] = "source"
      /\ gitdir' \in {"base", "agent", "damaged", "job", "half"}
  <2>1. \/ UNCHANGED <<live, gitdir>>
        \/ \E p \in C!Tree : live' = [live EXCEPT ![p] = "bad"] /\ gitdir' = gitdir
        \/ gitdir' \in {"agent", "damaged"} /\ live' = live
    BY Zenon DEF C!FirstPass, C!RepairPass, C!AgentPass
  <2>2. live[Inbox] = "source"  BY <1>0, <1>1, BeforeIs DEF Stages
  <2> QED  BY <1>0, <2>1, <2>2, PathsApart DEF CurateTypes, C!AgentContents
<1> QED  BY <1>0, <1>1, <1>2 DEF CurateInv, CurateTypes, Curating, Stages, Ended

(* The bookkeeping leaves a file what an agent can leave. *)
LEMMA BookkeptType == CurateTypes => C!Bookkept \in [C!Shared -> C!AgentContents]
  BY DEF CurateTypes, C!Bookkept, C!AgentContents

(* A repair starts from what the gates let pass. *)
LEMMA RepairStarts ==
    ASSUME CurateInv, C!StartRepair
    PROVE  CurateInv'
<1>0. CurateTypes /\ Curating /\ Stages  BY DEF CurateInv
<1>1. /\ stage = "gate" /\ stage' = "repair" /\ space' = C!Bookkept /\ first' = C!Edited(C!Bookkept)
      /\ UNCHANGED <<live, gitdir, recovery, curation, published, abused>> /\ C!GatesPass
  BY DEF C!StartRepair
<1>2. first' \subseteq Concepts  BY <1>1 DEF C!Edited
<1>3. gitdir = "base" /\ \A p \in C!Tree : live[p] = C!Before[p]
  BY <1>1 DEF C!GatesPass, C!HostErrors
<1>4. live = C!Before
  <2>1. \A p \in C!Paths : live[p] = C!Before[p]  BY <1>0, <1>1, <1>3, PathsApart, BeforeIs DEF Stages
  <2>2. C!Before = [p \in C!Paths |-> C!Before[p]] /\ live = [p \in C!Paths |-> live[p]]
    BY <1>0 DEF C!Before, CurateTypes
  <2> QED  BY <2>1, <2>2
<1> QED  BY <1>0, <1>1, <1>2, <1>3, <1>4, BookkeptType DEF CurateInv, CurateTypes, Curating, Stages, Ended

(* What is applied passed every gate: nothing of it is bad, forged or missing. *)
LEMMA ApplyKeeps ==
    ASSUME CurateInv, C!Apply
    PROVE  CurateInv'
<1>0. CurateTypes /\ Curating /\ Stages  BY DEF CurateInv
<1>1. /\ stage \in {"gate", "regate"} /\ stage' = "validate" /\ space' = C!Bookkept
      /\ UNCHANGED <<gitdir, recovery, curation, first, published, abused>>
      /\ (stage = "regate" => C!Edited(C!Bookkept) = first)
  BY DEF C!Apply, C!RepairKept
<1>2. gitdir = "base" /\ ~C!HostErrors /\ ~C!ScopeErrors  BY DEF C!Apply, C!GatesPass
<1>3. /\ \A p \in Concepts : live'[p] = C!Bookkept[p]
      /\ \A p \in Other : live'[p] = live[p]
      /\ live'[Snapshot] = "source"
  BY PathsApart DEF C!Apply
<1>4. live' \in [C!Paths -> C!AgentContents \cup {"source", "closed"}]
  <2>1. \A p \in C!Paths : live[p] \in C!AgentContents \cup {"source", "closed"}  BY <1>0 DEF CurateTypes
  <2>2. \A p \in Concepts : C!Bookkept[p] \in C!AgentContents  BY <1>0, BookkeptType, PathsApart
  <2> QED  BY <2>1, <2>2 DEF C!Apply, C!AgentContents
<1>5. \A p \in Concepts : C!Bookkept[p] \in {"before", "good"}
  <2> SUFFICES ASSUME NEW p \in Concepts PROVE C!Bookkept[p] \in {"before", "good"}  OBVIOUS
  <2>1. C!Bookkept[p] \notin {"bad", "forged"}  BY DEF C!Apply, C!ContentErrors
  <2>2. space[p] # "none"  BY <1>2, PathsApart DEF C!ScopeErrors
  <2>3. C!Bookkept[p] # "none"  BY <2>2, PathsApart DEF C!Bookkept
  <2> QED  BY <1>0, <2>1, <2>3, BookkeptType, PathsApart DEF C!AgentContents
<1>6. \A p \in Other : live'[p] = "before"
  BY <1>2, <1>3, PathsApart, BeforeIs DEF C!HostErrors
<1>7. first # {} => {p \in Concepts : live'[p] # "before"} = first
  <2>1. {p \in Concepts : live'[p] # "before"} = C!Edited(C!Bookkept)  BY <1>3, <1>5 DEF C!Edited
  <2> QED  BY <1>0, <1>1, <2>1 DEF Stages
<1>8. Admitted(live)'  BY <1>1, <1>3, <1>5, <1>6, <1>7 DEF Admitted
<1>9. CurateTypes'  BY <1>0, <1>1, <1>4, BookkeptType DEF CurateTypes
<1> QED  BY <1>0, <1>1, <1>2, <1>3, <1>8, <1>9 DEF CurateInv, Curating, Stages, Ended

(* The closeout writes none of it. *)
LEMMA CloseoutKeeps ==
    ASSUME CurateInv, C!Closeout
    PROVE  CurateInv'
<1>0. CurateTypes /\ Curating /\ Stages  BY DEF CurateInv
<1>1. /\ stage = "validate" /\ stage' = "closed" /\ abused' = FALSE
      /\ UNCHANGED <<space, gitdir, recovery, curation, first, published>>
  BY <1>0 DEF C!Closeout, C!RunGit, C!UnsafeMeta, CurateTypes, Stages
<1>2. /\ live' \in [C!Paths -> C!AgentContents \cup {"source", "closed"}]
      /\ \A p \in Concepts \cup Other \cup {Snapshot} : live'[p] = live[p]
  BY <1>0, PathsApart DEF C!Closeout, CurateTypes
<1>3. Admitted(live)'
  <2>1. Admitted(live)  BY <1>0, <1>1 DEF Stages
  <2> QED  BY <1>1, <1>2, <2>1 DEF Admitted
<1> QED  BY <1>0, <1>1, <1>2, <1>3 DEF CurateInv, CurateTypes, Curating, Stages, Ended

(* The commit and the push publish what was applied and closed out. *)
LEMMA PublishKeeps ==
    ASSUME CurateInv, C!Commit \/ C!Push
    PROVE  CurateInv'
<1>0. CurateTypes /\ Curating /\ Stages  BY DEF CurateInv
<1>1. CASE C!Commit
  <2>1. /\ stage = "closed" /\ stage' = "push" /\ abused' = FALSE /\ gitdir' = "job"
        /\ curation' = [curation EXCEPT !.phase = "committed"]
        /\ UNCHANGED <<live, space, recovery, first, published>>
    BY <1>0, <1>1 DEF C!Commit, C!RunGit, C!UnsafeMeta, CurateTypes, Stages
  <2> QED  BY <1>0, <2>1 DEF CurateInv, CurateTypes, Curating, Stages, Ended, Admitted
<1>2. CASE C!Push
  <2>1. /\ stage = "push" /\ stage' = "over" /\ abused' = FALSE /\ recovery' = FALSE /\ published' = live
        /\ curation' = [curation EXCEPT !.status = "done", !.phase = "done"]
        /\ UNCHANGED <<live, space, gitdir, first>>
    BY <1>0, <1>2 DEF C!Push, C!RunGit, C!UnsafeMeta, CurateTypes, Stages
  <2>2. /\ curation'.status = "done" /\ curation'.phase = "done"
        /\ curation' \in [status: {"running", "done", "failed"}, error: C!Errors,
                     phase: {"none", "prepared", "committed", "done", "rolled_back", "rollback_blocked"}]
    BY <1>0, <2>1 DEF CurateTypes
  <2>3. CurateTypes'  BY <1>0, <2>1, <2>2 DEF CurateTypes
  <2>4. Curating' /\ Stages'  BY <2>1 DEF Curating, Stages
  <2>5. live[Snapshot] = "source" /\ Admitted(live)  BY <1>0, <2>1 DEF Stages
  <2>6. C!FailureLeavesNoTrace' /\ C!PublishedIsAdmitted' /\ C!SourceKept'
    BY <2>1, <2>2, <2>5 DEF C!FailureLeavesNoTrace, C!PublishedIsAdmitted, C!SourceKept, Admitted
  <2> QED  BY <2>2, <2>3, <2>4, <2>6 DEF CurateInv, Ended
<1> QED  BY <1>1, <1>2

(* Every step keeps the invariant of a curation. *)
LEMMA CurateNext == CurateInv /\ [C!Next]_(C!vars) => CurateInv'
<1> SUFFICES ASSUME CurateInv, [C!Next]_(C!vars) PROVE CurateInv'  OBVIOUS
<1>1. CASE C!Next
  BY <1>1, CurationFails, CurationBegins, PassKeeps, RepairStarts, ApplyKeeps, CloseoutKeeps, PublishKeeps,
     Zenon DEF C!Next
<1>2. CASE UNCHANGED C!vars
  BY <1>2 DEF C!vars, CurateInv, CurateTypes, Curating, Stages, Ended, Admitted,
              C!FailureLeavesNoTrace, C!PublishedIsAdmitted, C!SourceKept
<1> QED  BY <1>1, <1>2

(* It says that a curation is contained. *)
LEMMA CurateSafe == CurateInv => C!CurationContained
<1> SUFFICES ASSUME CurateInv PROVE C!CurationContained  OBVIOUS
<1>0. CurateTypes /\ Curating /\ Stages  BY DEF CurateInv
<1>1. C!TypeOK  BY <1>0 DEF CurateTypes, C!TypeOK
<1>2. C!NoGitOnChangedMetadata  BY <1>0 DEF CurateTypes, C!NoGitOnChangedMetadata
<1>3. CASE stage = "over"
  BY <1>1, <1>2, <1>3 DEF CurateInv, Ended, C!CurationContained
<1>4. CASE stage # "over"
  <2>1. /\ curation.status = "running" /\ published = C!Before
        /\ recovery \/ live[Inbox] = "source"
    BY <1>0, <1>4, BeforeIs DEF Curating, Stages
  <2> QED  BY <1>1, <1>2, <2>1, BeforeIs DEF C!CurationContained, C!FailureLeavesNoTrace, C!PublishedIsAdmitted, C!SourceKept
<1> QED  BY <1>3, <1>4

(* A curation agent is contained, and the upload outlives it. *)
LEMMA CurationsContained == C!Spec => []C!CurationContained
  BY CurateInit, CurateNext, CurateSafe, PTL DEF C!Spec

-----------------------------------------------------------------------------
(* An audit. *)

(* The types of the variables. *)
AuditTypes ==
    /\ withGit \in BOOLEAN /\ retired \subseteq Declared
    /\ tree \in [Paths -> Contents] /\ remote \in [Paths -> Contents]
    /\ meta \in Metas
    /\ agent \in [exit: {"none", "ok", "error", "agent_timeout", "exception"},
                  verified: SUBSET Declared, changed: SUBSET Declared, cleared: BOOLEAN]
    /\ job \in [status: {"queued", "running", "done", "failed"},
                phase: {"none", "prepared", "committed", "rolled_back", "rollback_blocked", "done"},
                scope: SUBSET Declared, error: Errors, verified: SUBSET Declared, corrected: SUBSET Declared]
    /\ misused = FALSE

(* Until its end an audit has published nothing, and its scope is what was not retired. *)
Auditing ==
    /\ step \in {"precheck", "agent", "protect", "judge", "validate", "closed", "push", "over"}
    /\ step # "over" => remote = Before /\ job.error = "none" /\ job.status \in {"queued", "running"}
    /\ step = "precheck" => job.scope = {} /\ job.corrected = {} /\ job.phase = "none"
    /\ step \notin {"precheck", "over"} => job.scope = Scope

(* Only concepts in scope differ from what the audit found, of the files the agent can reach;
   the closeout's besides them when it has run. *)
Outside(allowed) == \A p \in Protected \ allowed : tree[p] = "before"

(* What each step finds. *)
AuditSteps ==
    /\ step = "precheck" => tree = Before
    /\ step = "agent" => Outside({})
    /\ step \in {"precheck", "agent", "judge", "validate", "closed"} => meta = Intact
    /\ step \in {"precheck", "agent", "protect"} => ~agent.cleared
    /\ step \in {"protect", "judge"} => agent.changed = {p \in Declared : tree[p] = "edit"}
    /\ step = "protect" => \A p \in Declared : tree[p] \in AgentContents
    /\ step = "judge" => \A p \in job.scope : tree[p] \in AgentContents \ {"link"}
    /\ step \in {"judge", "validate"} => Outside(job.scope)
    /\ step \in {"closed", "push"} => Outside(job.scope \cup Closing)
    /\ step \in {"validate", "closed", "push"} =>
         \A p \in job.scope :
             tree[p] \in {"before", "stamped", "corrected"} /\ (tree[p] = "stamped" => p \in agent.verified \ agent.changed)
    /\ step \in {"closed", "push"} => /\ job.verified = {p \in job.scope : tree[p] = "stamped"}
                                      /\ job.corrected = {p \in job.scope : tree[p] = "corrected"}
    /\ step = "push" => meta = [controls |-> "job", objects |-> "more"] /\ withGit

(* What its end leaves. *)
AuditEnded == step = "over" => FailureLeavesNoTrace /\ PublishedIsJudged

AuditInv == AuditTypes /\ Auditing /\ AuditSteps /\ AuditEnded

(* No path is two things. *)
LEMMA AuditPaths ==
    /\ Paths = Declared \cup Closing \cup Ignored \cup Lifecycle
    /\ Protected = Declared \cup Closing \cup Ignored /\ Tracked = Declared \cup Closing
    /\ \A p \in Lifecycle : p \notin Protected
    /\ \A p \in Ignored : p \notin Tracked
    /\ \A p \in Closing : p \notin Declared
  BY AuditOK DEF ConstantsOK, Paths, Protected, Tracked, Operational

(* The files as the audit finds them. *)
LEMMA AuditBefore ==
    /\ Before \in [Paths -> Contents] /\ \A p \in Paths : Before[p] = "before"
    /\ Intact \in Metas /\ ~Unsafe(Intact)
  BY DEF Before, Contents, AgentContents, Intact, Metas, Unsafe

(* An audit starts so. *)
LEMMA AuditInit == Init => AuditInv
<1> SUFFICES ASSUME Init PROVE AuditInv  OBVIOUS
<1>1. AuditTypes  BY AuditBefore DEF Init, AuditTypes, Errors
<1>2. Auditing /\ AuditSteps /\ AuditEnded  BY DEF Init, Auditing, AuditSteps, AuditEnded
<1> QED  BY <1>1, <1>2 DEF AuditInv

(* What a rollback writes is a tree, and leaves the service's own files as they are. *)
LEMMA RollbackTree ==
    ASSUME AuditTypes, NEW raises \in Failures
    PROVE  /\ ProtectedMeta("meta" \in raises) \in Metas
           /\ TreeBack(raises) \in [Paths -> Contents]
           /\ OriginalsBack(TreeBack(raises)) \in [Paths -> Contents]
           /\ \A p \in Lifecycle : TreeBack(raises)[p] = tree[p] /\ OriginalsBack(TreeBack(raises))[p] = tree[p]
<1>1. ProtectedMeta("meta" \in raises) \in Metas
  BY DEF AuditTypes, ProtectedMeta, RestoredMeta, Metas
<1>2. ProtectedTree(tree, "tree" \in raises) \in [Paths -> Contents]
      /\ \A p \in Lifecycle : ProtectedTree(tree, "tree" \in raises)[p] = tree[p]
  BY AuditPaths, AuditBefore DEF AuditTypes, ProtectedTree, RestoreTree
<1> DEFINE t == ProtectedTree(tree, "tree" \in raises)
<1>3. /\ GitReset(t) \in [Paths -> Contents] /\ RestoreTree(t) \in [Paths -> Contents]
      /\ \A p \in Lifecycle : GitReset(t)[p] = t[p] /\ RestoreTree(t)[p] = t[p]
  <2> HIDE DEF t
  <2>1. t \in [Paths -> Contents]  BY <1>2 DEF t
  <2> QED  BY <2>1, AuditPaths, AuditBefore DEF GitReset, RestoreTree
<1>4. TreeBack(raises) \in [Paths -> Contents] /\ \A p \in Lifecycle : TreeBack(raises)[p] = tree[p]
  <2>1. TreeBack(raises) \in {t, GitReset(t), RestoreTree(t)}  BY DEF TreeBack
  <2> HIDE DEF t
  <2> QED  BY <2>1, <1>2, <1>3 DEF t
<1>5. \A u \in [Paths -> Contents] :
        OriginalsBack(u) \in [Paths -> Contents] /\ \A p \in Lifecycle : OriginalsBack(u)[p] = u[p]
  BY AuditPaths, AuditBefore DEF OriginalsBack, AuditTypes
<1> QED  BY <1>1, <1>4, <1>5

(* One that is not blocked has taken everything back. *)
LEMMA RollbackSafe ==
    ASSUME AuditTypes, NEW raises \in Failures, Safe(raises)
    PROVE  /\ ProtectedMeta("meta" \in raises) = Intact
           /\ \A p \in Paths \ Lifecycle :
                TreeBack(raises)[p] = "before" /\ OriginalsBack(TreeBack(raises))[p] = "before"
<1>1. ProtectedMeta("meta" \in raises) = Intact  BY DEF Safe
<1> DEFINE t == ProtectedTree(tree, "tree" \in raises)
<1>2. Prohibited(t) = {}  BY DEF Safe
<1>3. TreeBack(raises) = IF withGit THEN GitReset(t) ELSE RestoreTree(t)  BY DEF TreeBack
<1> HIDE DEF t
<1>4. \A p \in Ignored : t[p] = "before"
  BY <1>2, AuditPaths, AuditBefore DEF Prohibited, AuditTypes
<1>5. \A p \in Paths \ Lifecycle : TreeBack(raises)[p] = "before"
  BY <1>3, <1>4, AuditPaths, AuditBefore DEF GitReset, RestoreTree
<1> QED  BY <1>1, <1>5, AuditBefore DEF OriginalsBack

(* A rollback ends the audit, and keeps the invariant at any step. *)
LEMMA RollbackKeeps ==
    ASSUME AuditInv, step # "over", NEW raises \in Failures, NEW originals \in BOOLEAN, NEW error \in Errors,
           Rollback(raises, originals, error)
    PROVE  AuditInv' /\ \A p \in Lifecycle : tree'[p] = tree[p]
<1>0. AuditTypes /\ remote = Before  BY DEF AuditInv, Auditing
<1>1. /\ meta' = ProtectedMeta("meta" \in raises)
      /\ tree' \in {TreeBack(raises), OriginalsBack(TreeBack(raises))}
      /\ step' = "over" /\ UNCHANGED <<withGit, retired, agent, remote>>
  BY DEF Rollback
<1>2. /\ job' \in [status: {"queued", "running", "done", "failed"},
                phase: {"none", "prepared", "committed", "rolled_back", "rollback_blocked", "done"},
                scope: SUBSET Declared, error: Errors, verified: SUBSET Declared, corrected: SUBSET Declared]
      /\ job'.status = "failed" /\ job'.phase = IF Safe(raises) THEN "rolled_back" ELSE "rollback_blocked"
  <2> PICK phase \in {"rolled_back", "rollback_blocked"} :
           phase = IF Safe(raises) THEN "rolled_back" ELSE "rollback_blocked"
    OBVIOUS
  <2>1. job' = [job EXCEPT !.status = "failed", !.error = error, !.phase = phase]  BY DEF Rollback
  <2> QED  BY <1>0, <2>1 DEF AuditTypes
<1>3. misused' = FALSE
  <2>1. misused' = (misused \/ (withGit /\ Safe(raises) /\ Unsafe(meta')))  BY DEF Rollback
  <2>2. Safe(raises) => meta' = Intact  BY <1>0, <1>1, RollbackSafe
  <2>3. ~(Safe(raises) /\ Unsafe(meta'))  BY <2>2, AuditBefore
  <2> QED  BY <1>0, <2>1, <2>3 DEF AuditTypes
<1>4. AuditTypes'  BY <1>0, <1>1, <1>2, <1>3, RollbackTree DEF AuditTypes
<1>5. FailureLeavesNoTrace'
  BY <1>0, <1>1, <1>2, RollbackSafe DEF FailureLeavesNoTrace
<1>6. PublishedIsJudged'
  BY <1>0, <1>1, <1>2, AuditBefore, AuditPaths DEF PublishedIsJudged
<1>7. Auditing' /\ AuditSteps'  BY <1>1 DEF Auditing, AuditSteps
<1>8. \A p \in Lifecycle : tree'[p] = tree[p]  BY <1>0, <1>1, RollbackTree
<1> QED  BY <1>1, <1>4, <1>5, <1>6, <1>7, <1>8 DEF AuditInv, AuditEnded

(* The ends that roll back. *)
LEMMA AuditFails ==
    ASSUME AuditInv,
           \/ SyncTimesOut \/ AgentRaised \/ AgentViolated \/ AgentFailed \/ OutputMalformed \/ Invalid
           \/ PublishFails \/ GitTimesOut \/ ServiceRaises
    PROVE  AuditInv' /\ \A p \in Lifecycle : tree'[p] = tree[p]
<1>1. step # "over" /\ {} \in Failures
  BY DEF SyncTimesOut, AgentRaised, AgentViolated, AgentFailed, OutputMalformed, Invalid,
         PublishFails, GitTimesOut, ServiceRaises, Failures
<1>2. \A e \in {"none", "git_timeout", "agent_timeout", "exception"} : Blamed(e) \in Errors
  BY DEF Blamed, Errors
<1>3. \E raises \in Failures, originals \in BOOLEAN, error \in Errors : Rollback(raises, originals, error)
  <2>1. {"git_timeout", "agent", "malformed", "invalid", "publish"} \subseteq Errors  BY DEF Errors
  <2>2. \A raises, originals, error :
          Rollback(raises, originals, error) /\ raises \in Failures /\ originals \in BOOLEAN /\ error \in Errors =>
            \E r \in Failures, o \in BOOLEAN, e \in Errors : Rollback(r, o, e)
    OBVIOUS
  <2>3. CASE SyncTimesOut  BY <2>3, <1>1, <2>1, <2>2 DEF SyncTimesOut
  <2>4. CASE AgentRaised  BY <2>4, <1>2, <2>2 DEF AgentRaised
  <2>5. CASE AgentViolated  BY <2>5, <1>2, <2>2 DEF AgentViolated
  <2>6. CASE AgentFailed  BY <2>6, <1>1, <2>1, <2>2 DEF AgentFailed
  <2>7. CASE OutputMalformed  BY <2>7, <1>1, <2>1, <2>2 DEF OutputMalformed
  <2>8. CASE Invalid  BY <2>8, <1>1, <2>1, <2>2 DEF Invalid
  <2>9. CASE PublishFails  BY <2>9, <2>1, <2>2 DEF PublishFails
  <2>10. CASE GitTimesOut  BY <2>10, <1>2, <2>2 DEF GitTimesOut
  <2>11. CASE ServiceRaises  BY <2>11, <1>2, <2>2 DEF ServiceRaises
  <2> QED  BY <2>3, <2>4, <2>5, <2>6, <2>7, <2>8, <2>9, <2>10, <2>11
<1> QED  BY <1>1, <1>3, RollbackKeeps

(* The steps before the agent, and the ends that never call it. *)
LEMMA AuditBegins ==
    ASSUME AuditInv, Refuse \/ NothingToAudit \/ Prepare
    PROVE  AuditInv' /\ tree' = tree
<1>0. AuditTypes /\ Auditing /\ AuditSteps  BY DEF AuditInv
<1>1. step = "precheck" /\ tree = Before /\ tree' = tree /\ meta = Intact /\ remote = Before
      /\ UNCHANGED <<withGit, retired, meta, agent, remote>> /\ misused' = FALSE
  <2>1. step = "precheck"  BY DEF Refuse, NothingToAudit, Prepare
  <2>2. meta = Intact  BY <1>0, <2>1 DEF AuditSteps
  <2> QED  BY <1>0, <2>1, <2>2, AuditBefore DEF Refuse, NothingToAudit, Prepare, RunGit, Auditing, AuditSteps, AuditTypes
<1>2. CASE Refuse \/ NothingToAudit
  <2>1. /\ step' = "over" /\ job'.status \in {"failed", "done"} /\ job'.phase # "rollback_blocked"
        /\ job' \in [status: {"queued", "running", "done", "failed"},
                phase: {"none", "prepared", "committed", "rolled_back", "rollback_blocked", "done"},
                scope: SUBSET Declared, error: Errors, verified: SUBSET Declared, corrected: SUBSET Declared]
        /\ job'.corrected = job.corrected
    BY <1>0, <1>1, <1>2 DEF Refuse, NothingToAudit, AuditTypes, Auditing, Errors
  <2>2. AuditTypes'  BY <1>0, <1>1, <2>1 DEF AuditTypes
  <2>3. FailureLeavesNoTrace'  BY <1>1, AuditBefore DEF FailureLeavesNoTrace
  <2>4. PublishedIsJudged'
    BY <1>0, <1>1, <2>1, AuditBefore, AuditPaths DEF PublishedIsJudged, Auditing
  <2> QED  BY <1>1, <2>1, <2>2, <2>3, <2>4 DEF AuditInv, Auditing, AuditSteps, AuditEnded
<1>3. CASE Prepare
  <2>1. /\ step' = "agent"
        /\ job' = [job EXCEPT !.status = "running", !.phase = "prepared", !.scope = Scope]
    BY <1>3 DEF Prepare
  <2>2. /\ job' \in [status: {"queued", "running", "done", "failed"},
                phase: {"none", "prepared", "committed", "rolled_back", "rollback_blocked", "done"},
                scope: SUBSET Declared, error: Errors, verified: SUBSET Declared, corrected: SUBSET Declared]
        /\ job'.status = "running" /\ job'.scope = Scope /\ job'.error = job.error
    BY <1>0, <2>1 DEF AuditTypes, Scope
  <2>3. AuditTypes'  BY <1>0, <1>1, <2>2 DEF AuditTypes
  <2>4. Scope' = Scope  BY <1>1 DEF Scope
  <2>5. Outside({})'  BY <1>1, AuditBefore, AuditPaths DEF Outside, Protected
  <2>6. Auditing'  BY <1>0, <1>1, <2>1, <2>2, <2>4 DEF Auditing
  <2>7. AuditSteps'
    <3>1. ~agent.cleared /\ agent' = agent /\ meta' = Intact  BY <1>0, <1>1 DEF AuditSteps
    <3> QED  BY <2>1, <2>5, <3>1 DEF AuditSteps
  <2> QED  BY <1>1, <2>1, <2>3, <2>6, <2>7 DEF AuditInv, AuditEnded
<1> QED  BY <1>1, <1>2, <1>3

(* The agent, whatever it leaves. *)
LEMMA AgentKeeps ==
    ASSUME AuditInv, AgentRuns
    PROVE  AuditInv' /\ \A p \in Lifecycle : tree'[p] = tree[p]
<1>0. AuditTypes /\ Auditing /\ AuditSteps  BY DEF AuditInv
<1>1. /\ step = "agent" /\ step' = "protect" /\ meta' \in AgentMetas
      /\ UNCHANGED <<withGit, retired, job, remote, misused>>
  BY DEF AgentRuns
<1>2. PICK edits \in [Protected -> AgentContents],
           exit \in {"ok", "error", "agent_timeout", "exception"}, verified \in SUBSET job.scope :
        /\ tree' = [p \in Paths |-> IF p \in Protected THEN edits[p] ELSE tree[p]]
        /\ agent' = [agent EXCEPT !.exit = exit, !.verified = verified,
                         !.changed = {p \in Declared : edits[p] = "edit"}]
  BY DEF AgentRuns
<1>3. /\ tree' \in [Paths -> Contents] /\ \A p \in Lifecycle : tree'[p] = tree[p]
      /\ {p \in Declared : tree'[p] = "edit"} = {p \in Declared : edits[p] = "edit"}
      /\ \A p \in Declared : tree'[p] \in AgentContents
  BY <1>0, <1>2, AuditPaths DEF AuditTypes, Contents
<1>4. /\ agent' \in [exit: {"none", "ok", "error", "agent_timeout", "exception"},
                  verified: SUBSET Declared, changed: SUBSET Declared, cleared: BOOLEAN]
      /\ agent'.changed = {p \in Declared : edits[p] = "edit"} /\ agent'.cleared = agent.cleared
  BY <1>0, <1>2 DEF AuditTypes
<1>5. AuditTypes'  BY <1>0, <1>1, <1>3, <1>4 DEF AuditTypes, AgentMetas, Metas
<1>6. Auditing'  BY <1>0, <1>1 DEF Auditing, Scope
<1>7. AuditSteps'  BY <1>0, <1>1, <1>3, <1>4 DEF AuditSteps
<1> QED  BY <1>1, <1>3, <1>5, <1>6, <1>7 DEF AuditInv, AuditEnded

(* The service writes a file of its own beside the audit. *)
LEMMA LifecycleKeeps ==
    ASSUME AuditInv, LifecycleWrite
    PROVE  AuditInv' /\ \A p \in Lifecycle : tree[p] = "note" => tree'[p] = "note"
<1>0. AuditTypes /\ Auditing /\ AuditSteps  BY DEF AuditInv
<1>1. /\ step \notin {"precheck", "over"} /\ UNCHANGED <<withGit, retired, meta, agent, job, step, remote, misused>>
  BY DEF LifecycleWrite
<1>2. /\ tree' \in [Paths -> Contents] /\ \A p \in Protected : tree'[p] = tree[p]
      /\ \A p \in Lifecycle : tree[p] = "note" => tree'[p] = "note"
  BY <1>0, AuditPaths DEF LifecycleWrite, AuditTypes, Contents
<1>3. AuditTypes'  BY <1>0, <1>1, <1>2 DEF AuditTypes
<1>4. Auditing'  BY <1>0, <1>1 DEF Auditing, Scope
<1>5. \A allowed : Outside(allowed) => Outside(allowed)'  BY <1>2 DEF Outside, Protected
<1>6. /\ \A p \in Declared : tree'[p] = tree[p]
      /\ job.scope \subseteq Declared
  BY <1>0, <1>2, AuditPaths DEF AuditTypes
<1>7. AuditSteps'
  <2>1. Outside({}) => Outside({})'  BY <1>5
  <2>2. Outside(job.scope) => Outside(job.scope)'  BY <1>1, <1>2 DEF Outside, Protected
  <2>3. Outside(job.scope \cup Closing) => Outside(job.scope \cup Closing)'  BY <1>1, <1>2 DEF Outside, Protected
  <2>4. {p \in Declared : tree'[p] = "edit"} = {p \in Declared : tree[p] = "edit"}  BY <1>6
  <2>5. \A c : {p \in job.scope : tree'[p] = c} = {p \in job.scope : tree[p] = c}  BY <1>6
  <2> QED  BY <1>0, <1>1, <1>6, <2>1, <2>2, <2>3, <2>4, <2>5 DEF AuditSteps
<1> QED  BY <1>1, <1>2, <1>3, <1>4, <1>7 DEF AuditInv, AuditEnded

(* What the agent answered is within its scope, or taken back. *)
LEMMA AnswerKeeps ==
    ASSUME AuditInv, AgentAnswered
    PROVE  AuditInv' /\ tree' = tree
<1>0. AuditTypes /\ Auditing /\ AuditSteps  BY DEF AuditInv
<1>1. /\ step = "protect" /\ step' = "judge" /\ meta = Intact /\ Prohibited(tree) = {}
      /\ agent' = [agent EXCEPT !.cleared = TRUE] /\ misused' = FALSE
      /\ UNCHANGED <<withGit, retired, tree, meta, job, remote>>
  BY <1>0, AuditBefore DEF AgentAnswered, Violated, RunGit, AuditTypes
<1>2. \A p \in Protected : tree[p] = "before" \/ (p \in job.scope /\ tree[p] # "link")
  BY <1>1, AuditPaths, AuditBefore DEF Prohibited
<1>3. Outside(job.scope)'  BY <1>1, <1>2 DEF Outside, Protected
<1>4. AuditTypes' /\ agent'.changed = agent.changed  BY <1>0, <1>1 DEF AuditTypes
<1>5. Auditing'  BY <1>0, <1>1 DEF Auditing, Scope
<1>6. AuditSteps'
  <2>1. \A p \in job.scope : p \in Declared /\ p \in Protected  BY <1>0, AuditPaths DEF AuditTypes
  <2>2. \A p \in job.scope : tree[p] \in AgentContents \ {"link"}
    BY <1>0, <1>1, <1>2, <2>1 DEF AuditSteps, AgentContents
  <2>3. agent.changed = {p \in Declared : tree[p] = "edit"}  BY <1>0, <1>1 DEF AuditSteps
  <2> QED  BY <1>1, <1>3, <1>4, <2>2, <2>3 DEF AuditSteps
<1> QED  BY <1>1, <1>4, <1>5, <1>6 DEF AuditInv, AuditEnded

(* The judgement stamps what is verified and not the agent's own, and takes the service's fields back. *)
LEMMA JudgeKeeps ==
    ASSUME AuditInv, Judge
    PROVE  AuditInv' /\ \A p \in Lifecycle : tree'[p] = tree[p]
<1>0. AuditTypes /\ Auditing /\ AuditSteps  BY DEF AuditInv
<1>1. /\ step = "judge" /\ step' = "validate" /\ UNCHANGED <<withGit, retired, meta, agent, job, remote, misused>>
      /\ tree' = [p \in Paths |-> IF p \in job.scope THEN Bookkept(tree[p], p \in agent.verified) ELSE tree[p]]
  BY DEF Judge
<1>2. job.scope \subseteq Declared  BY <1>0 DEF AuditTypes
<1>3. \A p \in job.scope :
        /\ tree'[p] \in {"before", "stamped", "corrected"}
        /\ tree'[p] = "stamped" => p \in agent.verified \ agent.changed
  <2> SUFFICES ASSUME NEW p \in job.scope
               PROVE  /\ tree'[p] \in {"before", "stamped", "corrected"}
                      /\ tree'[p] = "stamped" => p \in agent.verified \ agent.changed
    OBVIOUS
  <2>1. tree'[p] = Bookkept(tree[p], p \in agent.verified)  BY <1>1, <1>2, AuditPaths
  <2>2. p \in agent.changed <=> tree[p] = "edit"  BY <1>0, <1>1, <1>2 DEF AuditSteps
  <2>3. CASE tree[p] = "edit"  BY <2>1, <2>3 DEF Bookkept
  <2>4. CASE tree[p] # "edit" /\ p \in agent.verified  BY <2>1, <2>2, <2>4 DEF Bookkept
  <2>5. CASE tree[p] # "edit" /\ p \notin agent.verified  BY <2>1, <2>5 DEF Bookkept
  <2> QED  BY <2>3, <2>4, <2>5
<1>4. \A p \in Paths \ job.scope : tree'[p] = tree[p]  BY <1>1
<1>5. tree' \in [Paths -> Contents]
  <2>1. \A p \in job.scope : tree'[p] \in Contents  BY <1>3 DEF Contents, AgentContents
  <2>2. \A p \in Paths \ job.scope : tree'[p] \in Contents  BY <1>0, <1>4 DEF AuditTypes
  <2> QED  BY <1>1, <2>1, <2>2
<1>6. AuditTypes'  BY <1>0, <1>1, <1>5 DEF AuditTypes
<1>7. Auditing'  BY <1>0, <1>1 DEF Auditing, Scope
<1>8. AuditSteps'
  <2>1. Outside(job.scope)  BY <1>0, <1>1 DEF AuditSteps
  <2>2. Outside(job.scope)'  BY <1>1, <1>4, <2>1 DEF Outside, Protected
  <2>3. meta = Intact  BY <1>0, <1>1 DEF AuditSteps
  <2> QED  BY <1>1, <1>3, <2>2, <2>3 DEF AuditSteps
<1>9. \A p \in Lifecycle : tree'[p] = tree[p]  BY <1>2, <1>4, AuditPaths
<1> QED  BY <1>1, <1>6, <1>7, <1>8, <1>9 DEF AuditInv, AuditEnded

(* The closeout writes the job's verdict, and the files of its own. *)
LEMMA AuditCloses ==
    ASSUME AuditInv, Closeout
    PROVE  AuditInv' /\ \A p \in Lifecycle : tree'[p] = tree[p]
<1>0. AuditTypes /\ Auditing /\ AuditSteps  BY DEF AuditInv
<1>1. /\ step = "validate" /\ step' = "closed" /\ UNCHANGED <<withGit, retired, meta, agent, remote, misused>>
      /\ job' = [job EXCEPT !.verified = {p \in job.scope : tree[p] = "stamped"},
                            !.corrected = {p \in job.scope : tree[p] = "corrected"}]
      /\ tree' = [p \in Paths |-> IF p \in Closing THEN "closed" ELSE tree[p]]
  BY DEF Closeout
<1>2. /\ \A p \in Paths \ Closing : tree'[p] = tree[p]
      /\ tree' \in [Paths -> Contents]
  BY <1>0, <1>1 DEF AuditTypes, Contents
<1>3. job.scope \subseteq Declared /\ \A p \in job.scope : tree'[p] = tree[p]
  BY <1>0, <1>2, AuditPaths DEF AuditTypes
<1>4. /\ job' \in [status: {"queued", "running", "done", "failed"},
                phase: {"none", "prepared", "committed", "rolled_back", "rollback_blocked", "done"},
                scope: SUBSET Declared, error: Errors, verified: SUBSET Declared, corrected: SUBSET Declared]
      /\ job'.scope = job.scope /\ job'.status = job.status /\ job'.error = job.error
      /\ job'.verified = {p \in job.scope : tree[p] = "stamped"}
      /\ job'.corrected = {p \in job.scope : tree[p] = "corrected"}
  <2> PICK verified \in SUBSET Declared, corrected \in SUBSET Declared :
             /\ verified = {p \in job.scope : tree[p] = "stamped"}
             /\ corrected = {p \in job.scope : tree[p] = "corrected"}
    BY <1>3
  <2>1. job' = [job EXCEPT !.verified = verified, !.corrected = corrected]  BY <1>1
  <2>2. /\ job' \in [status: {"queued", "running", "done", "failed"},
                phase: {"none", "prepared", "committed", "rolled_back", "rollback_blocked", "done"},
                scope: SUBSET Declared, error: Errors, verified: SUBSET Declared, corrected: SUBSET Declared]
        /\ job'.scope = job.scope /\ job'.status = job.status /\ job'.error = job.error
        /\ job'.verified = verified /\ job'.corrected = corrected
    BY <1>0, <2>1 DEF AuditTypes
  <2> QED  BY <2>2
<1>5. AuditTypes'  BY <1>0, <1>1, <1>2, <1>4 DEF AuditTypes
<1>6. Auditing'  BY <1>0, <1>1, <1>4 DEF Auditing, Scope
<1>7. AuditSteps'
  <2>1. Outside(job.scope) /\ meta = Intact
        /\ \A p \in job.scope :
            tree[p] \in {"before", "stamped", "corrected"} /\ (tree[p] = "stamped" => p \in agent.verified \ agent.changed)
    BY <1>0, <1>1 DEF AuditSteps
  <2>2. Outside(job.scope \cup Closing)'  BY <1>2, <1>4, <2>1, AuditPaths DEF Outside, Protected
  <2>3. /\ job'.verified = {p \in job'.scope : tree'[p] = "stamped"}
        /\ job'.corrected = {p \in job'.scope : tree'[p] = "corrected"}
    BY <1>3, <1>4
  <2>4. \A p \in job'.scope :
           tree'[p] \in {"before", "stamped", "corrected"} /\ (tree'[p] = "stamped" => p \in agent'.verified \ agent'.changed)
    BY <1>1, <1>3, <1>4, <2>1
  <2> QED  BY <1>1, <2>2, <2>3, <2>1, <2>4 DEF AuditSteps
<1>8. \A p \in Lifecycle : tree'[p] = tree[p]  BY <1>2, AuditPaths
<1> QED  BY <1>1, <1>5, <1>6, <1>7, <1>8 DEF AuditInv, AuditEnded

(* The commit, the push, and the end where there is no Git. *)
LEMMA AuditPublishes ==
    ASSUME AuditInv, Commit \/ Push \/ EndWithoutGit
    PROVE  AuditInv' /\ tree' = tree
<1>0. AuditTypes /\ Auditing /\ AuditSteps  BY DEF AuditInv
<1>1. tree' = tree /\ UNCHANGED <<withGit, retired, agent>>  BY DEF Commit, Push, EndWithoutGit
<1>2. misused' = FALSE
  <2>1. ~Unsafe(meta) /\ misused = FALSE
    BY <1>0, AuditBefore DEF Commit, Push, EndWithoutGit, AuditSteps, AuditTypes, Unsafe, Intact
  <2> QED  BY <2>1 DEF Commit, Push, EndWithoutGit, RunGit
<1>3. CASE Commit
  <2>1. /\ step = "closed" /\ step' = "push" /\ withGit /\ remote' = remote
        /\ meta' = [controls |-> "job", objects |-> "more"] /\ job' = [job EXCEPT !.phase = "committed"]
    BY <1>3 DEF Commit
  <2>2. AuditTypes'  BY <1>0, <1>1, <1>2, <2>1 DEF AuditTypes, Metas
  <2>3. /\ job'.scope = job.scope /\ job'.status = job.status /\ job'.error = job.error
        /\ job'.verified = job.verified /\ job'.corrected = job.corrected
    BY <1>0, <2>1 DEF AuditTypes
  <2>4. Auditing'  BY <1>0, <1>1, <2>1, <2>3 DEF Auditing, Scope
  <2>5. AuditSteps'
    <3>1. Outside(job.scope \cup Closing) => Outside(job.scope \cup Closing)'
      BY <1>1, <2>3 DEF Outside, Protected
    <3> QED  BY <1>0, <1>1, <2>1, <2>3, <3>1 DEF AuditSteps
  <2> QED  BY <1>1, <2>1, <2>2, <2>4, <2>5 DEF AuditInv, AuditEnded
<1>4. ASSUME Push \/ EndWithoutGit
      PROVE  /\ step \in {"closed", "push"} /\ step' = "over" /\ meta' = meta
             /\ job' \in [status: {"queued", "running", "done", "failed"},
                phase: {"none", "prepared", "committed", "rolled_back", "rollback_blocked", "done"},
                scope: SUBSET Declared, error: Errors, verified: SUBSET Declared, corrected: SUBSET Declared]
             /\ job'.status = "done" /\ job'.verified = job.verified /\ job'.corrected = job.corrected
             /\ Auditing' /\ AuditSteps' /\ FailureLeavesNoTrace'
  <2>1. /\ step \in {"closed", "push"} /\ step' = "over" /\ meta' = meta
        /\ job' = [job EXCEPT !.status = "done", !.phase = "done"]
    BY <1>4 DEF Push, EndWithoutGit
  <2>2. /\ job' \in [status: {"queued", "running", "done", "failed"},
                phase: {"none", "prepared", "committed", "rolled_back", "rollback_blocked", "done"},
                scope: SUBSET Declared, error: Errors, verified: SUBSET Declared, corrected: SUBSET Declared]
        /\ job'.status = "done" /\ job'.verified = job.verified /\ job'.corrected = job.corrected
    BY <1>0, <2>1 DEF AuditTypes
  <2> QED  BY <2>1, <2>2 DEF Auditing, AuditSteps, FailureLeavesNoTrace
<1>5. CASE EndWithoutGit
  <2>1. ~withGit /\ remote = Before /\ remote' = remote
    BY <1>0, <1>5 DEF EndWithoutGit, Auditing
  <2>2. AuditTypes'  BY <1>0, <1>1, <1>2, <1>4, <1>5, <2>1 DEF AuditTypes
  <2>3. PublishedIsJudged'  BY <1>1, <2>1, AuditBefore, AuditPaths DEF PublishedIsJudged
  <2> QED  BY <1>1, <1>4, <1>5, <2>2, <2>3 DEF AuditInv, AuditEnded
<1>6. CASE Push
  <2>1. step = "push" /\ remote' = [p \in Paths |-> IF p \in Tracked THEN tree[p] ELSE "before"]
    BY <1>6 DEF Push, Publish
  <2>2. remote' \in [Paths -> Contents]  BY <1>0, <2>1 DEF AuditTypes, Contents, AgentContents
  <2>3. AuditTypes'  BY <1>0, <1>1, <1>2, <1>4, <1>6, <2>2 DEF AuditTypes
  <2>4. /\ job.scope = Scope /\ Outside(job.scope \cup Closing)
        /\ job.verified = {p \in job.scope : tree[p] = "stamped"}
        /\ job.corrected = {p \in job.scope : tree[p] = "corrected"}
        /\ \A p \in job.scope :
            tree[p] \in {"before", "stamped", "corrected"} /\ (tree[p] = "stamped" => p \in agent.verified \ agent.changed)
    BY <1>0, <2>1 DEF Auditing, AuditSteps
  <2>5. /\ \A p \in Declared : remote'[p] = tree[p]
        /\ \A p \in Declared : p \notin job.scope => tree[p] = "before"
        /\ \A p \in Ignored \cup Lifecycle : remote'[p] = "before"
    BY <2>1, <2>4, AuditPaths DEF Outside
  <2>6. \A p \in Declared : remote'[p] = "corrected" <=> p \in job.scope /\ tree[p] = "corrected"
    BY <2>5
  <2>7. {p \in Declared : remote'[p] = "corrected"} = job'.corrected
    BY <1>4, <1>6, <2>4, <2>6 DEF Scope
  <2>8. PublishedIsJudged'
    <3>1. \A p \in Declared : remote'[p] \in {"before", "stamped", "corrected"}
      <4> SUFFICES ASSUME NEW p \in Declared PROVE remote'[p] \in {"before", "stamped", "corrected"}  OBVIOUS
      <4>1. remote'[p] = tree[p]  BY <2>5
      <4>2. CASE p \in job.scope  BY <4>1, <4>2, <2>4
      <4>3. CASE p \notin job.scope  BY <4>1, <4>3, <2>5
      <4> QED  BY <4>2, <4>3
    <3>2. \A p \in Declared : remote'[p] # "before" => p \notin retired'  BY <1>1, <2>4, <2>5 DEF Scope
    <3>3. \A p \in Declared : remote'[p] = "stamped" => p \in (agent'.verified \ agent'.changed) \intersect job'.verified
      BY <1>1, <1>4, <1>6, <2>4, <2>5
    <3> QED  BY <2>5, <2>7, <3>1, <3>2, <3>3 DEF PublishedIsJudged
  <2> QED  BY <1>1, <1>4, <1>6, <2>3, <2>8 DEF AuditInv, AuditEnded
<1> QED  BY <1>3, <1>5, <1>6

(* Every step keeps the invariant of an audit, and the notes the service makes beside it. *)
LEMMA AuditNext ==
    AuditInv /\ [Next]_vars => AuditInv' /\ \A p \in Lifecycle : tree[p] = "note" => tree'[p] = "note"
<1> SUFFICES ASSUME AuditInv, [Next]_vars
             PROVE  AuditInv' /\ \A p \in Lifecycle : tree[p] = "note" => tree'[p] = "note"
  OBVIOUS
<1>1. CASE Next
  BY <1>1, AuditFails, AuditBegins, AgentKeeps, LifecycleKeeps, AnswerKeeps, JudgeKeeps, AuditCloses, AuditPublishes
     DEF Next
<1>2. CASE UNCHANGED vars
  <2>1. UNCHANGED <<withGit, retired, tree, meta, agent, job, step, remote, misused>>  BY <1>2 DEF vars
  <2>2. AuditTypes' /\ Auditing'  BY <2>1 DEF AuditInv, AuditTypes, Auditing, Scope
  <2>3. \A allowed : Outside(allowed)' <=> Outside(allowed)  BY <2>1 DEF Outside, Protected
  <2>4. AuditSteps'
    <3>1. Outside(job.scope)' <=> Outside(job.scope)  BY <2>1 DEF Outside, Protected
    <3>2. Outside(job.scope \cup Closing)' <=> Outside(job.scope \cup Closing)  BY <2>1 DEF Outside, Protected
    <3>3. Outside({})' <=> Outside({})  BY <2>1 DEF Outside, Protected
    <3> QED  BY <2>1, <3>1, <3>2, <3>3 DEF AuditInv, AuditSteps
  <2>5. AuditEnded'  BY <2>1 DEF AuditInv, AuditEnded, FailureLeavesNoTrace, PublishedIsJudged
  <2> QED  BY <2>1, <2>2, <2>4, <2>5 DEF AuditInv
<1> QED  BY <1>1, <1>2

(* It says that an audit is contained. *)
LEMMA AuditSafe == AuditInv => TypeOK /\ FailureLeavesNoTrace /\ NoGitOnChangedMetadata /\ PublishedIsJudged
<1> SUFFICES ASSUME AuditInv
             PROVE  TypeOK /\ FailureLeavesNoTrace /\ NoGitOnChangedMetadata /\ PublishedIsJudged
  OBVIOUS
<1>0. AuditTypes /\ Auditing /\ AuditSteps  BY DEF AuditInv
<1>1. TypeOK /\ NoGitOnChangedMetadata  BY <1>0 DEF AuditTypes, TypeOK, NoGitOnChangedMetadata
<1>2. CASE step = "over"  BY <1>1, <1>2 DEF AuditInv, AuditEnded
<1>3. CASE step # "over"
  <2>1. job.status \in {"queued", "running"} /\ remote = Before  BY <1>0, <1>3 DEF Auditing
  <2> QED  BY <1>1, <2>1, AuditBefore, AuditPaths DEF FailureLeavesNoTrace, PublishedIsJudged
<1> QED  BY <1>2, <1>3

(* An audit agent is contained (AuditContained of AgentAudit). *)
LEMMA AuditsContained == Spec => AuditContained
<1>1. AuditInv /\ [Next]_vars => [\A p \in Lifecycle : tree[p] = "note" => tree'[p] = "note"]_vars
  BY AuditNext
<1> QED  BY <1>1, AuditInit, AuditNext, AuditSafe, PTL DEF Spec, AuditContained, LifecycleKept

-----------------------------------------------------------------------------
(* The gate of a curate changeset. *)

(* A concept of a tree: what has no text has no status. *)
ConceptTypes == [text: 0..MaxTexts, title: Titles \cup {None}, status: {"none", "draft", "stable", "deprecated"},
                 verified: BOOLEAN, cites: SUBSET (G!Packets \cup {Earlier}), link: Concepts \cup {None}]
Trees == [Concepts -> {c \in ConceptTypes : G!Exists(c) <=> c.status # "none"}]

(* The types of the variables. *)
GateTypes ==
    /\ upstream \in Trees /\ pulled \in Trees
    /\ txn \in [phase: {"idle", "committed"}, base: Trees, tree: Trees, onto: Trees]
    /\ closed \in [Closes -> SUBSET G!Files]
    /\ texts \in 0..MaxTexts

(* A changeset is of files as its author saw them, for items and the evidence they bring. *)
RequestTells ==
    changeset # G!NoRequest =>
      /\ changeset.items \subseteq Closes /\ changeset.items # {} /\ changeset.cited \subseteq G!Files
      /\ \A p \in G!Touched : LET f == changeset.files[p] IN
           /\ f.op \in {"put", "deprecate"} /\ f.text \in 1..MaxTexts /\ f.title \in Titles \cup {None}
           /\ f.link \in Concepts \cup {None} /\ (f.op = "deprecate" => f.successor \in Concepts)
           /\ f.base = G!ContentHash(changeset.seen[p])

(* What a transaction committed, on the tree it judged or rebased onto another: what it writes was
   not moved under it, and the rest is what it found. *)
Committed ==
    txn.phase = "committed" =>
      /\ changeset # G!NoRequest /\ G!CitedOwn(changeset.items, changeset.cited)
      /\ G!Unchanged(txn.base) /\ G!LinksResolve(txn.tree, G!Written(txn.base))
      /\ \A p \in Concepts :
           /\ p \notin G!Written(txn.base) => txn.tree[p] = txn.onto[p]
           /\ p \in G!Written(txn.base) => /\ txn.onto[p] = txn.base[p]
                                           /\ txn.tree[p] = G!Stamp(txn.base, p)
           /\ txn.onto[p].verified => <<p, G!ContentHash(txn.onto[p])>> \in judged

GateInv == GateTypes /\ RequestTells /\ Committed /\ G!VerifiedIsJudged /\ G!ClosedOnEvidence

(* The fields of a concept are what it is. *)
LEMMA ConceptsRead ==
    ASSUME NEW c \in ConceptTypes, NEW d \in ConceptTypes
    PROVE  /\ c.text = d.text /\ c.title = d.title /\ c.status = d.status /\ c.verified = d.verified
              /\ c.cites = d.cites /\ c.link = d.link => c = d
           /\ c.text \in Nat /\ c.verified \in BOOLEAN
  BY ChangesetOK DEF ConceptTypes, G!ConstantsOK

(* What is stamped is a concept. *)
LEMMA StampTyped ==
    ASSUME GateTypes, RequestTells, changeset # G!NoRequest, G!CitedOwn(changeset.items, changeset.cited),
           NEW files \in Trees, NEW p \in G!Touched
    PROVE  /\ G!Stamp(files, p) \in {c \in ConceptTypes : G!Exists(c) <=> c.status # "none"}
           /\ G!Exists(G!Stamp(files, p))
<1> DEFINE f == changeset.files[p]
<1>1. p \in Concepts  BY DEF G!Touched
<1>2. /\ files[p] \in ConceptTypes /\ (G!Exists(files[p]) <=> files[p].status # "none")  BY <1>1 DEF Trees
<1>3. /\ f.op \in {"put", "deprecate"} /\ f.text \in 1..MaxTexts /\ f.title \in Titles \cup {None}
      /\ f.link \in Concepts \cup {None} /\ (f.op = "deprecate" => f.successor \in Concepts)
  BY DEF RequestTells
<1>4. G!Packet \in G!Packets
  <2>1. G!Packet \subseteq G!Files  BY DEF RequestTells, G!Packet, G!Named
  <2>2. G!Packet # {}  BY DEF RequestTells, G!Packet, G!CitedOwn
  <2> QED  BY <2>1, <2>2 DEF G!Packets
<1>5. G!Cites(files, p) \in SUBSET (G!Packets \cup {Earlier})
  BY <1>2, <1>4 DEF G!Cites, ConceptTypes
<1>6. G!Noop(files, p) \in BOOLEAN  BY DEF G!Noop
<1>7. files[p].verified \in BOOLEAN /\ files[p].status \in {"none", "draft", "stable", "deprecated"}
  BY <1>2 DEF ConceptTypes
<1> HIDE DEF f
<1>8. 0 \notin 1..MaxTexts /\ 1..MaxTexts \subseteq 0..MaxTexts
  BY ChangesetOK DEF G!ConstantsOK
<1>9. G!Stamp(files, p) =
        [text |-> f.text, title |-> f.title,
         status |-> IF f.op = "deprecate" THEN "deprecated" ELSE IF G!Exists(files[p]) THEN files[p].status ELSE "draft",
         verified |-> f.op = "put" /\ G!Noop(files, p) /\ files[p].verified,
         cites |-> G!Cites(files, p), link |-> IF f.op = "deprecate" THEN f.successor ELSE f.link]
  BY DEF G!Stamp, f
<1>10. G!Stamp(files, p) \in ConceptTypes
  BY <1>2, <1>3, <1>5, <1>6, <1>7, <1>8, <1>9 DEF ConceptTypes
<1>11. G!Exists(G!Stamp(files, p)) /\ G!Stamp(files, p).status # "none"
  BY <1>2, <1>3, <1>7, <1>8, <1>9 DEF G!Exists
<1> QED  BY <1>10, <1>11

(* What would change nothing is stamped as it is. *)
LEMMA NoopStamp ==
    ASSUME GateTypes, RequestTells, changeset # G!NoRequest, G!CitedOwn(changeset.items, changeset.cited),
           NEW files \in Trees, NEW p \in G!Touched, G!Noop(files, p)
    PROVE  G!Stamp(files, p) = files[p]
<1> DEFINE s == G!Stamp(files, p)
<1>1. files[p] \in ConceptTypes  BY DEF Trees, G!Touched
<1>2. s \in ConceptTypes  BY StampTyped
<1>3. changeset.files[p].op = "put" /\ changeset.files[p].text = files[p].text /\ changeset.files[p].title = files[p].title
      /\ changeset.files[p].link = files[p].link /\ G!Packet \in files[p].cites
  BY DEF G!Noop
<1>4. s.text = files[p].text /\ s.title = files[p].title /\ s.link = files[p].link  BY <1>3 DEF G!Stamp
<1>5. G!Cites(files, p) = files[p].cites  BY <1>3 DEF G!Cites
<1>6. s.cites = files[p].cites  BY <1>5 DEF G!Stamp
<1>7. G!Exists(files[p])  BY <1>4, StampTyped DEF G!Exists
<1>8. s.status = files[p].status  BY <1>3, <1>7 DEF G!Stamp
<1>9. s.verified = files[p].verified
  <2>1. s.verified = (changeset.files[p].op = "put" /\ G!Noop(files, p) /\ files[p].verified)  BY DEF G!Stamp
  <2> QED  BY <1>1, <1>3, <2>1, ConceptsRead
<1> HIDE DEF s
<1> QED  BY <1>1, <1>2, <1>4, <1>6, <1>8, <1>9, ConceptsRead DEF s

(* A concept of the tree that is judged or left, and one that is not there, are concepts. *)
LEMMA AbsentTyped == G!Absent \in {c \in ConceptTypes : G!Exists(c) <=> c.status # "none"} /\ ~G!Absent.verified
  BY ChangesetOK DEF G!Absent, ConceptTypes, G!ConstantsOK, G!Exists

(* A tree in which one concept is another is a tree. *)
LEMMA TreesExcept ==
    ASSUME NEW files \in Trees, NEW p \in Concepts, NEW c \in {d \in ConceptTypes : G!Exists(d) <=> d.status # "none"}
    PROVE  [files EXCEPT ![p] = c] \in Trees
  BY DEF Trees

(* What is applied is a tree. *)
LEMMA AppliedTyped ==
    ASSUME GateTypes, RequestTells, changeset # G!NoRequest, G!CitedOwn(changeset.items, changeset.cited),
           NEW files \in Trees
    PROVE  G!Applied(files) \in Trees
<1> DEFINE Good == {c \in ConceptTypes : G!Exists(c) <=> c.status # "none"}
<1>1. \A p \in G!Touched : G!Stamp(files, p) \in Good  BY StampTyped
<1>2. \A p \in Concepts : files[p] \in Good  BY DEF Trees
<1> HIDE DEF Good
<1>3. G!Applied(files) \in [Concepts -> Good]  BY <1>1, <1>2 DEF G!Applied
<1> QED  BY <1>3 DEF Trees, Good

(* At first nothing is proposed. *)
LEMMA GateInits == (G!Init \/ GateAtRest) => GateInv
<1>1. ASSUME G!Init PROVE GateInv
  <2>1. PICK p \in Concepts, t \in Titles, cites \in {{Earlier}, {Earlier, Closes \X {"evidence"}}} :
          upstream = [q \in Concepts |-> IF q = p THEN [text |-> 1, title |-> t, status |-> "stable", verified |-> TRUE,
                                                         cites |-> cites, link |-> None]
                                         ELSE G!Absent]
    BY <1>1 DEF G!Init
  <2>2. Closes \X {"evidence"} \in G!Packets
    <3>1. PICK i \in Closes : TRUE  BY ChangesetOK DEF G!ConstantsOK
    <3>2. <<i, "evidence">> \in Closes \X {"evidence"}  BY <3>1
    <3>3. Closes \X {"evidence"} \subseteq G!Files  BY DEF G!Files
    <3> QED  BY <3>2, <3>3 DEF G!Packets
  <2>3. cites \subseteq G!Packets \cup {Earlier}  BY <2>1, <2>2
  <2>4. [text |-> 1, title |-> t, status |-> "stable", verified |-> TRUE, cites |-> cites, link |-> None]
          \in {c \in ConceptTypes : G!Exists(c) <=> c.status # "none"}
    BY <2>3, ChangesetOK DEF ConceptTypes, G!ConstantsOK, G!Exists
  <2>5. upstream \in Trees  BY <2>1, <2>4, AbsentTyped DEF Trees
  <2>6. GateTypes
    BY <1>1, <2>5, ChangesetOK DEF GateTypes, G!Init, G!ConstantsOK
  <2>7. RequestTells /\ Committed /\ G!ClosedOnEvidence
    BY <1>1 DEF G!Init, RequestTells, Committed, G!ClosedOnEvidence
  <2>8. G!VerifiedIsJudged  BY <1>1 DEF G!Init, G!VerifiedIsJudged
  <2> QED  BY <2>6, <2>7, <2>8 DEF GateInv
<1>2. ASSUME GateAtRest PROVE GateInv
  <2>1. upstream \in Trees  BY <1>2, AbsentTyped DEF GateAtRest, Trees
  <2>2. GateTypes  BY <1>2, <2>1, ChangesetOK DEF GateAtRest, GateTypes, G!ConstantsOK
  <2>3. RequestTells /\ Committed /\ G!ClosedOnEvidence
    BY <1>2 DEF GateAtRest, RequestTells, Committed, G!ClosedOnEvidence
  <2>4. G!VerifiedIsJudged  BY <1>2, AbsentTyped DEF GateAtRest, G!VerifiedIsJudged
  <2> QED  BY <2>2, <2>3, <2>4 DEF GateInv
<1> QED  BY <1>1, <1>2

(* What is committed is no matter of the branch. *)
LEMMA CommittedStays ==
    ASSUME Committed, txn' = txn, changeset' = changeset, judged \subseteq judged'
    PROVE  Committed'
<1>1. /\ G!Written(txn.base)' = G!Written(txn.base)
      /\ \A p \in Concepts : G!Stamp(txn.base, p)' = G!Stamp(txn.base, p)
  BY DEF G!Written, G!Touched, G!Stamp, G!Cites, G!Noop, G!Packet
<1>2. /\ G!Unchanged(txn.base)' <=> G!Unchanged(txn.base)
      /\ G!LinksResolve(txn.tree, G!Written(txn.base))' <=> G!LinksResolve(txn.tree, G!Written(txn.base))
      /\ G!CitedOwn(changeset.items, changeset.cited)' <=> G!CitedOwn(changeset.items, changeset.cited)
  BY <1>1 DEF G!Unchanged, G!LinksResolve, G!CitedOwn, G!Touched, G!ContentHash, G!Exists, G!Named
<1>3. \A p \in Concepts : G!ContentHash(txn.onto[p])' = G!ContentHash(txn.onto[p])  BY DEF G!ContentHash
<1> QED  BY <1>1, <1>2, <1>3 DEF Committed

(* What makes a commit of what was judged. *)
LEMMA CommittedAs ==
    ASSUME changeset # G!NoRequest, G!CitedOwn(changeset.items, changeset.cited), changeset' = changeset, judged' = judged,
           NEW found, NEW files, NEW onto, txn'.base = found, txn'.tree = files, txn'.onto = onto,
           G!Unchanged(found), G!LinksResolve(files, G!Written(found)),
           \A p \in Concepts :
               /\ p \notin G!Written(found) => files[p] = onto[p]
               /\ p \in G!Written(found) => onto[p] = found[p] /\ files[p] = G!Stamp(found, p)
               /\ onto[p].verified => <<p, G!ContentHash(onto[p])>> \in judged
    PROVE  Committed'
<1>1. /\ G!Written(txn.base)' = G!Written(found)
      /\ \A p \in Concepts : G!Stamp(txn.base, p)' = G!Stamp(found, p)
  BY DEF G!Written, G!Touched, G!Stamp, G!Cites, G!Noop, G!Packet
<1>2. /\ G!Unchanged(txn.base)' <=> G!Unchanged(found)
      /\ G!LinksResolve(txn.tree, G!Written(txn.base))' <=> G!LinksResolve(files, G!Written(found))
      /\ G!CitedOwn(changeset.items, changeset.cited)' <=> G!CitedOwn(changeset.items, changeset.cited)
      /\ (changeset # G!NoRequest)' <=> changeset # G!NoRequest
  BY <1>1 DEF G!Unchanged, G!LinksResolve, G!CitedOwn, G!Touched, G!ContentHash, G!Exists, G!Named
<1>3. \A p \in Concepts : G!ContentHash(txn.onto[p])' = G!ContentHash(onto[p])  BY DEF G!ContentHash
<1> QED  BY <1>1, <1>2, <1>3 DEF Committed

(* A commit somebody else pushes leaves what was proposed and committed alone. *)
LEMMA MovedKeeps ==
    ASSUME GateInv, NEW p \in Concepts, NEW c \in {d \in ConceptTypes : G!Exists(d) <=> d.status # "none"},
           G!Moved(p, c), judged \subseteq judged', texts' \in 0..MaxTexts,
           c.verified => <<p, G!ContentHash(c)>> \in judged'
    PROVE  GateInv'
<1>0. GateTypes /\ RequestTells /\ Committed /\ G!VerifiedIsJudged /\ G!ClosedOnEvidence  BY DEF GateInv
<1>1. /\ upstream' = [upstream EXCEPT ![p] = c]
      /\ pulled' = pulled /\ changeset' = changeset /\ txn' = txn /\ closed' = closed
  BY DEF G!Moved
<1>2. upstream' \in Trees  BY <1>0, <1>1, TreesExcept DEF GateTypes
<1>3. GateTypes'  BY <1>0, <1>1, <1>2 DEF GateTypes
<1>4. RequestTells'  BY <1>0, <1>1 DEF RequestTells, G!Touched
<1>5. Committed'  BY <1>0, <1>1, CommittedStays
<1>6. G!ClosedOnEvidence'  BY <1>0, <1>1 DEF G!ClosedOnEvidence
<1>7. G!VerifiedIsJudged'
  <2> SUFFICES ASSUME NEW q \in Concepts, upstream'[q].verified PROVE <<q, G!ContentHash(upstream'[q])>> \in judged'
    BY DEF G!VerifiedIsJudged, G!ContentHash
  <2>1. CASE q = p  BY <1>0, <1>1, <2>1 DEF GateTypes, Trees
  <2>2. CASE q # p
    <3>1. upstream'[q] = upstream[q]  BY <1>0, <1>1, <2>2 DEF GateTypes, Trees
    <3> QED  BY <1>0, <3>1 DEF G!VerifiedIsJudged
  <2> QED  BY <2>1, <2>2
<1> QED  BY <1>3, <1>4, <1>5, <1>6, <1>7 DEF GateInv

(* The others' commits: a verification, a retirement, a deletion, an edit. *)
LEMMA OthersKeep ==
    ASSUME GateInv, NEW p \in Concepts, G!OtherVerifies(p) \/ G!OtherDeprecates(p) \/ G!OtherDeletes(p) \/ G!OtherEdits(p)
    PROVE  GateInv'
<1> DEFINE Good == {c \in ConceptTypes : G!Exists(c) <=> c.status # "none"}
<1>0. GateTypes /\ G!VerifiedIsJudged  BY DEF GateInv
<1>1. upstream[p] \in Good /\ upstream[p] \in ConceptTypes  BY <1>0 DEF GateTypes, Trees
<1>2. texts \in 0..MaxTexts /\ MaxTexts \in Nat  BY <1>0, ChangesetOK DEF GateTypes, G!ConstantsOK
<1>3. CASE G!OtherVerifies(p)
  <2> DEFINE c == [upstream[p] EXCEPT !.verified = TRUE, !.status = "stable"]
  <2>1. c \in Good  BY <1>1, <1>3 DEF ConceptTypes, G!OtherVerifies, G!Live, G!Exists
  <2>2. G!ContentHash(c) = G!ContentHash(upstream[p])  BY <1>1 DEF ConceptTypes, G!ContentHash
  <2>3. G!Moved(p, c) /\ judged' = judged \cup {<<p, G!ContentHash(upstream[p])>>} /\ texts' = texts
    BY <1>3 DEF G!OtherVerifies
  <2>4. judged \subseteq judged' /\ <<p, G!ContentHash(c)>> \in judged' /\ texts' \in 0..MaxTexts
    BY <1>2, <2>2, <2>3
  <2> HIDE DEF c
  <2> QED  BY <2>1, <2>3, <2>4, MovedKeeps
<1>4. CASE G!OtherDeprecates(p)
  <2> DEFINE c == [upstream[p] EXCEPT !.status = "deprecated"]
  <2>1. c \in Good  BY <1>1, <1>4 DEF ConceptTypes, G!OtherDeprecates, G!Live, G!Exists
  <2>2. G!ContentHash(c) = G!ContentHash(upstream[p]) /\ c.verified = upstream[p].verified
    BY <1>1 DEF ConceptTypes, G!ContentHash
  <2>3. G!Moved(p, c) /\ judged' = judged /\ texts' = texts  BY <1>4 DEF G!OtherDeprecates
  <2>4. judged \subseteq judged' /\ texts' \in 0..MaxTexts /\ (c.verified => <<p, G!ContentHash(c)>> \in judged')
    BY <1>0, <1>2, <2>2, <2>3 DEF G!VerifiedIsJudged
  <2> HIDE DEF c
  <2> QED  BY <2>1, <2>3, <2>4, MovedKeeps
<1>5. CASE G!OtherDeletes(p)
  <2>1. G!Moved(p, G!Absent) /\ judged' = judged /\ texts' = texts  BY <1>5 DEF G!OtherDeletes
  <2> QED  BY <1>2, <2>1, AbsentTyped, MovedKeeps
<1>6. CASE G!OtherEdits(p)
  <2>1. PICK t \in Titles :
          G!Moved(p, [upstream[p] EXCEPT !.text = texts + 1, !.verified = FALSE,
                                         !.title = IF G!Exists(upstream[p]) THEN @ ELSE t,
                                         !.status = IF G!Exists(upstream[p]) THEN @ ELSE "draft"])
    BY <1>6 DEF G!OtherEdits
  <2> DEFINE c == [upstream[p] EXCEPT !.text = texts + 1, !.verified = FALSE,
                                      !.title = IF G!Exists(upstream[p]) THEN @ ELSE t,
                                      !.status = IF G!Exists(upstream[p]) THEN @ ELSE "draft"]
  <2>2. texts' = texts + 1 /\ texts < MaxTexts /\ judged' = judged  BY <1>6 DEF G!OtherEdits
  <2>3. texts + 1 \in 1..MaxTexts /\ texts + 1 # 0 /\ texts' \in 0..MaxTexts  BY <1>2, <2>2
  <2>4. c \in ConceptTypes
    <3> DEFINE title == IF G!Exists(upstream[p]) THEN upstream[p].title ELSE t
               status == IF G!Exists(upstream[p]) THEN upstream[p].status ELSE "draft"
    <3>1. c = [text |-> texts + 1, title |-> title, status |-> status, verified |-> FALSE,
               cites |-> upstream[p].cites, link |-> upstream[p].link]
      <4>1. c = [upstream[p] EXCEPT !.text = texts + 1, !.verified = FALSE, !.title = title, !.status = status]
        OBVIOUS
      <4> HIDE DEF c, title, status
      <4> QED  BY <1>1, <4>1 DEF ConceptTypes
    <3>2. texts + 1 \in 0..MaxTexts  BY <1>2, <2>3
    <3>3. /\ upstream[p].title \in Titles \cup {None} /\ upstream[p].cites \in SUBSET (G!Packets \cup {Earlier})
          /\ upstream[p].status \in {"none", "draft", "stable", "deprecated"} /\ upstream[p].link \in Concepts \cup {None}
      BY <1>1 DEF ConceptTypes
    <3>4. title \in Titles \cup {None} /\ status \in {"none", "draft", "stable", "deprecated"}  BY <3>3
    <3> HIDE DEF c, title, status
    <3> QED  BY <3>1, <3>2, <3>3, <3>4 DEF ConceptTypes
  <2>5. c.text = texts + 1 /\ c.verified = FALSE /\ c.status # "none"  BY <1>1, <2>3 DEF ConceptTypes, G!Exists
  <2>6. G!Moved(p, c)  BY <2>1
  <2> HIDE DEF c
  <2>7. c \in Good  BY <2>3, <2>4, <2>5 DEF G!Exists
  <2> QED  BY <2>2, <2>3, <2>5, <2>6, <2>7, MovedKeeps
<1> QED  BY <1>3, <1>4, <1>5, <1>6

(* The author's steps, and the verdicts that write nothing. *)
LEMMA PullKeeps == GateInv /\ G!Pull => GateInv'
<1> SUFFICES ASSUME GateInv, G!Pull PROVE GateInv'  OBVIOUS
<1>1. pulled' = upstream /\ UNCHANGED <<upstream, changeset, txn, closed, judged, texts>>  BY DEF G!Pull
<1>2. Committed'  BY <1>1, CommittedStays DEF GateInv
<1> QED  BY <1>1, <1>2 DEF GateInv, GateTypes, RequestTells, G!Touched, G!VerifiedIsJudged, G!ClosedOnEvidence

LEMMA ProposeKeeps == GateInv /\ G!Propose => GateInv'
<1> SUFFICES ASSUME GateInv, G!Propose PROVE GateInv'  OBVIOUS
<1>0. GateTypes /\ texts \in 0..MaxTexts /\ MaxTexts \in Nat /\ texts < MaxTexts /\ txn.phase = "idle"
  BY ChangesetOK DEF GateInv, GateTypes, G!Propose, G!ConstantsOK
<1>1. PICK items \in (SUBSET Closes) \ {{}}, paths \in (SUBSET Concepts) \ {{}}, cited \in SUBSET G!Files :
         \E edits \in [paths -> G!Edits] :
           /\ \A p \in paths : G!CanEdit(p, edits[p])
           /\ changeset' = [items |-> items, cited |-> cited, seen |-> pulled,
                            files |-> [p \in Concepts |-> IF p \in paths THEN G!Entry(p, edits[p]) ELSE None]]
  BY DEF G!Propose
<1>a. PICK edits \in [paths -> G!Edits] :
         /\ \A p \in paths : G!CanEdit(p, edits[p])
         /\ changeset' = [items |-> items, cited |-> cited, seen |-> pulled,
                          files |-> [p \in Concepts |-> IF p \in paths THEN G!Entry(p, edits[p]) ELSE None]]
  BY <1>1
<1>2. UNCHANGED <<upstream, pulled, txn, closed, judged>> /\ texts' = texts + 1  BY DEF G!Propose
<1>3. texts + 1 \in 1..MaxTexts /\ texts' \in 0..MaxTexts  BY <1>0, <1>2
<1>4. ASSUME NEW p \in paths
      PROVE  LET f == G!Entry(p, edits[p]) IN
             /\ f.op \in {"put", "deprecate"} /\ f.text \in 1..MaxTexts /\ f.title \in Titles \cup {None}
             /\ f.link \in Concepts \cup {None} /\ (f.op = "deprecate" => f.successor \in Concepts)
             /\ f.base = G!ContentHash(pulled[p])
  <2>1. pulled[p] \in ConceptTypes  BY <1>0 DEF GateTypes, Trees
  <2>2. pulled[p].text \in 0..MaxTexts /\ pulled[p].title \in Titles \cup {None} /\ pulled[p].link \in Concepts \cup {None}
    BY <2>1 DEF ConceptTypes
  <2>3. edits[p] \in G!Edits /\ G!CanEdit(p, edits[p])  BY <1>a
  <2>4. CASE edits[p].op = "put"
    <3>1. edits[p].title \in Titles /\ edits[p].link \in Concepts \cup {None}  BY <2>3, <2>4 DEF G!Edits
    <3> QED  BY <1>3, <2>2, <2>4, <3>1 DEF G!Entry, G!Put
  <2>5. CASE edits[p].op = "touch"
    <3>1. pulled[p].text \in 1..MaxTexts  BY <1>0, <2>2, <2>3, <2>5 DEF G!CanEdit, G!Exists
    <3> QED  BY <2>2, <2>5, <3>1 DEF G!Entry, G!Put
  <2>6. CASE edits[p].op = "deprecate"
    <3>1. edits[p].successor \in Concepts  BY <2>3, <2>6 DEF G!Edits
    <3> QED  BY <1>3, <2>2, <2>6, <3>1 DEF G!Entry, G!Deprecate
  <2>7. edits[p].op \in {"put", "touch", "deprecate"}  BY <2>3 DEF G!Edits
  <2> QED  BY <2>4, <2>5, <2>6, <2>7
<1>5. RequestTells'
  <2>1. changeset'.items \subseteq Closes /\ changeset'.items # {} /\ changeset'.cited \subseteq G!Files
    BY <1>a
  <2>2. ASSUME NEW p \in G!Touched'
        PROVE  p \in paths /\ changeset'.files[p] = G!Entry(p, edits[p]) /\ changeset'.seen = pulled
    BY <1>a, <2>2 DEF G!Touched
  <2>3. ASSUME NEW p \in G!Touched'
        PROVE  LET f == changeset'.files[p] IN
             /\ f.op \in {"put", "deprecate"} /\ f.text \in 1..MaxTexts /\ f.title \in Titles \cup {None}
             /\ f.link \in Concepts \cup {None} /\ (f.op = "deprecate" => f.successor \in Concepts)
             /\ f.base = G!ContentHash(changeset'.seen[p])
    BY <1>4, <2>2
  <2> QED  BY <2>1, <2>3 DEF RequestTells, G!ContentHash
<1>6. Committed'  BY <1>0, <1>2 DEF Committed
<1> QED  BY <1>0, <1>2, <1>3, <1>5, <1>6 DEF GateInv, GateTypes, G!VerifiedIsJudged, G!ClosedOnEvidence, G!ContentHash

(* An answer ends a changeset. *)
LEMMA AnsweredKeeps ==
    ASSUME GateInv, G!Answered, UNCHANGED <<upstream, pulled, judged, texts>>, closed' \in [Closes -> SUBSET G!Files],
           G!ClosedOnEvidence'
    PROVE  GateInv'
<1>1. changeset' = G!NoRequest /\ txn' = G!Idle  BY DEF G!Answered
<1>2. RequestTells' /\ Committed'  BY <1>1 DEF RequestTells, Committed, G!Idle
<1>3. GateTypes'  BY <1>1 DEF GateInv, GateTypes, G!Idle
<1> QED  BY <1>2, <1>3 DEF GateInv, G!VerifiedIsJudged

(* An item is closed on what its changeset cites, which is of its own. *)
LEMMA CloseCites ==
    ASSUME GateInv, changeset # G!NoRequest, G!CitedOwn(changeset.items, changeset.cited), G!Close
    PROVE  closed' \in [Closes -> SUBSET G!Files] /\ G!ClosedOnEvidence'
<1>1. closed \in [Closes -> SUBSET G!Files] /\ G!ClosedOnEvidence /\ changeset.cited \in SUBSET G!Files
  BY DEF GateInv, GateTypes, RequestTells
<1>2. closed' = [i \in Closes |-> IF i \in changeset.items THEN changeset.cited ELSE closed[i]]  BY DEF G!Close
<1>3. ASSUME NEW i \in changeset.items PROVE <<i, "evidence">> \in changeset.cited
  <2>1. PICK f \in changeset.cited : f[2] = "evidence" /\ f[1] = i  BY DEF G!CitedOwn, G!Named
  <2>2. f \in G!Files  BY <1>1, <2>1
  <2>3. f = <<i, "evidence">>  BY <2>1, <2>2 DEF G!Files
  <2> QED  BY <2>1, <2>3
<1> QED  BY <1>1, <1>2, <1>3 DEF G!ClosedOnEvidence

LEMMA VerdictsKeep ==
    ASSUME GateInv, G!Refuse \/ G!Reject \/ G!NothingToWrite \/ G!Conflict
    PROVE  GateInv'
<1>1. CASE G!Refuse \/ G!Reject \/ G!Conflict
  <2>1. G!Answered /\ UNCHANGED <<upstream, pulled, closed, judged, texts>>
    BY <1>1 DEF G!Refuse, G!Reject, G!Conflict
  <2>2. closed' \in [Closes -> SUBSET G!Files] /\ G!ClosedOnEvidence'
    BY <2>1 DEF GateInv, GateTypes, G!ClosedOnEvidence
  <2> QED  BY <2>1, <2>2, AnsweredKeeps
<1>2. CASE G!NothingToWrite  BY <1>2, CloseCites, AnsweredKeeps DEF G!NothingToWrite
<1> QED  BY <1>1, <1>2

(* What is judged admissible is committed on the tree it was judged on. *)
LEMMA GateApplies == GateInv /\ G!Apply => GateInv'
<1> SUFFICES ASSUME GateInv, G!Apply PROVE GateInv'  OBVIOUS
<1>0. /\ GateTypes /\ RequestTells /\ changeset # G!NoRequest /\ G!CitedOwn(changeset.items, changeset.cited)
      /\ G!Admissible(upstream) /\ upstream \in Trees /\ G!VerifiedIsJudged
  BY DEF GateInv, GateTypes, G!Apply
<1>1. /\ txn' = [phase |-> "committed", base |-> upstream, tree |-> G!Applied(upstream), onto |-> upstream]
      /\ UNCHANGED <<upstream, pulled, changeset, closed, judged, texts>>
  BY DEF G!Apply
<1>2. GateTypes'  BY <1>0, <1>1, AppliedTyped DEF GateTypes
<1>3. ASSUME NEW p \in Concepts
      PROVE  /\ p \notin G!Written(upstream) => G!Applied(upstream)[p] = upstream[p]
             /\ p \in G!Written(upstream) => G!Applied(upstream)[p] = G!Stamp(upstream, p)
  <2>1. CASE p \notin G!Touched  BY <2>1 DEF G!Applied, G!Written
  <2>2. CASE p \in G!Touched /\ G!Noop(upstream, p)  BY <1>0, <2>2, NoopStamp DEF G!Applied, G!Written
  <2>3. CASE p \in G!Touched /\ ~G!Noop(upstream, p)  BY <2>3 DEF G!Applied, G!Written
  <2> QED  BY <2>1, <2>2, <2>3
<1>4. /\ G!Unchanged(upstream) /\ G!LinksResolve(G!Applied(upstream), G!Written(upstream))
      /\ \A p \in Concepts : upstream[p].verified => <<p, G!ContentHash(upstream[p])>> \in judged
  BY <1>0 DEF G!Admissible, G!VerifiedIsJudged
<1>5. /\ txn'.phase = "committed" /\ txn'.base = upstream /\ txn'.tree = G!Applied(upstream) /\ txn'.onto = upstream
      /\ changeset' = changeset /\ judged' = judged
  BY <1>1
<1>6. Committed'  BY <1>0, <1>3, <1>4, <1>5, CommittedAs
<1> QED
  BY <1>0, <1>1, <1>2, <1>6 DEF GateInv, RequestTells, G!Touched, G!VerifiedIsJudged, G!ClosedOnEvidence

(* A push is of what it writes and the branch as it is. *)
LEMMA PushKeeps == GateInv /\ G!Push => GateInv'
<1> SUFFICES ASSUME GateInv, G!Push PROVE GateInv'  OBVIOUS
<1>0. /\ GateTypes /\ RequestTells /\ Committed /\ changeset # G!NoRequest
      /\ G!CitedOwn(changeset.items, changeset.cited) /\ txn.phase = "committed" /\ upstream = txn.onto
  BY DEF GateInv, G!Push, Committed
<1>1. /\ upstream' = txn.tree /\ changeset' = G!NoRequest
      /\ txn' = [phase |-> "idle", base |-> txn.tree, tree |-> txn.tree, onto |-> txn.tree]
      /\ UNCHANGED <<pulled, judged, texts>> /\ G!Close
  BY DEF G!Push
<1>2. closed' \in [Closes -> SUBSET G!Files] /\ G!ClosedOnEvidence'  BY <1>0, <1>1, CloseCites
<1>3. GateTypes'  BY <1>0, <1>1, <1>2 DEF GateTypes
<1>4. RequestTells' /\ Committed'  BY <1>1 DEF RequestTells, Committed
<1>5. ASSUME NEW p \in Concepts, txn.tree[p].verified PROVE <<p, G!ContentHash(txn.tree[p])>> \in judged
  <2>1. CASE p \in G!Written(txn.base)
    <3>1. txn.tree[p].verified = (changeset.files[p].op = "put" /\ G!Noop(txn.base, p) /\ txn.base[p].verified)
      <4>1. txn.tree[p] = G!Stamp(txn.base, p)  BY <1>0, <2>1 DEF Committed
      <4> QED  BY <4>1 DEF G!Stamp
    <3> QED  BY <1>5, <2>1, <3>1 DEF G!Written
  <2>2. CASE p \notin G!Written(txn.base)
    <3>1. txn.tree[p] = txn.onto[p]  BY <1>0, <2>2 DEF Committed
    <3> QED  BY <1>0, <1>5, <3>1 DEF Committed
  <2> QED  BY <2>1, <2>2
<1>6. G!VerifiedIsJudged'  BY <1>1, <1>5 DEF G!VerifiedIsJudged, G!ContentHash
<1> QED  BY <1>2, <1>3, <1>4, <1>6 DEF GateInv

(* A merge of three trees is what was written, where something was, and the branch elsewhere. *)
LEMMA MergedIs ==
    ASSUME GateTypes, Committed, txn.phase = "committed", ~G!MovedUpstream, NEW p \in Concepts
    PROVE  G!Merged[p] = IF p \in G!Written(txn.base) THEN txn.tree[p] ELSE upstream[p]
<1>1. /\ upstream[p] \in ConceptTypes /\ txn.tree[p] \in ConceptTypes /\ txn.onto[p] \in ConceptTypes
  BY DEF GateTypes, Trees
<1>2. DOMAIN G!Absent = {"text", "title", "status", "verified", "cites", "link"}  BY DEF G!Absent
<1>3. G!Merged[p] = [f \in DOMAIN G!Absent |-> G!Merge3(txn.onto[p][f], txn.tree[p][f], upstream[p][f])]
  BY DEF G!Merged
<1>4. \A c \in ConceptTypes : c = [f \in DOMAIN G!Absent |-> c[f]]  BY <1>2 DEF ConceptTypes
<1>5. CASE p \in G!Written(txn.base)
  <2>1. upstream[p] = txn.onto[p]  BY <1>5 DEF G!MovedUpstream, Committed, G!Written
  <2>2. \A f \in DOMAIN G!Absent : G!Merge3(txn.onto[p][f], txn.tree[p][f], upstream[p][f]) = txn.tree[p][f]
    BY <2>1 DEF G!Merge3
  <2>3. txn.tree[p] = [f \in DOMAIN G!Absent |-> txn.tree[p][f]]  BY <1>1, <1>4
  <2> QED  BY <1>3, <1>5, <2>2, <2>3
<1>6. CASE p \notin G!Written(txn.base)
  <2>1. txn.tree[p] = txn.onto[p]  BY <1>6 DEF Committed
  <2>2. \A f \in DOMAIN G!Absent : G!Merge3(txn.onto[p][f], txn.tree[p][f], upstream[p][f]) = upstream[p][f]
    BY <2>1 DEF G!Merge3
  <2>3. upstream[p] = [f \in DOMAIN G!Absent |-> upstream[p][f]]  BY <1>1, <1>4
  <2> QED  BY <1>3, <1>6, <2>2, <2>3
<1> QED  BY <1>5, <1>6

LEMMA RebaseKeeps == GateInv /\ G!Rebase => GateInv'
<1> SUFFICES ASSUME GateInv, G!Rebase PROVE GateInv'  OBVIOUS
<1>0. /\ GateTypes /\ RequestTells /\ Committed /\ G!VerifiedIsJudged /\ changeset # G!NoRequest
      /\ G!CitedOwn(changeset.items, changeset.cited) /\ txn.phase = "committed" /\ ~G!MovedUpstream
      /\ G!LinksResolve(G!Merged, G!Written(txn.base)) /\ G!Unchanged(txn.base)
  BY DEF GateInv, G!Rebase, G!Recheck, Committed
<1>1. /\ txn' = [txn EXCEPT !.tree = G!Merged, !.onto = upstream]
      /\ UNCHANGED <<upstream, pulled, changeset, closed, judged, texts>>
  BY DEF G!Rebase
<1>2. txn'.phase = "committed" /\ txn'.base = txn.base /\ txn'.tree = G!Merged /\ txn'.onto = upstream
  BY <1>0, <1>1 DEF GateTypes
<1>3. G!Merged \in Trees
  <2>1. \A p \in Concepts : G!Merged[p] \in {c \in ConceptTypes : G!Exists(c) <=> c.status # "none"}
    <3> TAKE p \in Concepts
    <3>1. G!Merged[p] \in {txn.tree[p], upstream[p]}  BY <1>0, MergedIs
    <3>2. txn.tree[p] \in {c \in ConceptTypes : G!Exists(c) <=> c.status # "none"}
          /\ upstream[p] \in {c \in ConceptTypes : G!Exists(c) <=> c.status # "none"}
      BY <1>0 DEF GateTypes, Trees
    <3> QED  BY <3>1, <3>2
  <2>2. G!Merged = [p \in Concepts |-> G!Merged[p]]  BY DEF G!Merged
  <2> QED  BY <2>1, <2>2 DEF Trees
<1>4. GateTypes'
  <2>1. txn' \in [phase: {"idle", "committed"}, base: Trees, tree: Trees, onto: Trees]
    BY <1>0, <1>1, <1>3 DEF GateTypes
  <2> QED  BY <1>0, <1>1, <2>1 DEF GateTypes
<1>5. ASSUME NEW p \in Concepts
      PROVE  /\ p \notin G!Written(txn.base) => G!Merged[p] = upstream[p]
             /\ p \in G!Written(txn.base) => upstream[p] = txn.base[p] /\ G!Merged[p] = G!Stamp(txn.base, p)
             /\ upstream[p].verified => <<p, G!ContentHash(upstream[p])>> \in judged
  <2>1. G!Merged[p] = IF p \in G!Written(txn.base) THEN txn.tree[p] ELSE upstream[p]  BY <1>0, MergedIs
  <2>2. p \in G!Written(txn.base) => txn.tree[p] = G!Stamp(txn.base, p)  BY <1>0 DEF Committed
  <2>3. p \in G!Written(txn.base) => upstream[p] = txn.base[p]  BY <1>0 DEF G!MovedUpstream, G!Written
  <2>4. upstream[p].verified => <<p, G!ContentHash(upstream[p])>> \in judged  BY <1>0 DEF G!VerifiedIsJudged
  <2> QED  BY <2>1, <2>2, <2>3, <2>4
<1>6. Committed'  BY <1>0, <1>1, <1>2, <1>5, CommittedAs
<1> QED
  BY <1>0, <1>1, <1>4, <1>6 DEF GateInv, RequestTells, G!Touched, G!VerifiedIsJudged, G!ClosedOnEvidence

(* Every step keeps the invariant of the gate. *)
LEMMA GateNext == GateInv /\ [G!Next]_(G!vars) => GateInv'
<1> SUFFICES ASSUME GateInv, [G!Next]_(G!vars) PROVE GateInv'  OBVIOUS
<1>1. CASE \E p \in Concepts : G!OtherVerifies(p) \/ G!OtherDeprecates(p) \/ G!OtherDeletes(p) \/ G!OtherEdits(p)
  BY <1>1, OthersKeep
<1>2. CASE G!Pull \/ G!Propose  BY <1>2, PullKeeps, ProposeKeeps
<1>3. CASE G!Refuse \/ G!Reject \/ G!NothingToWrite \/ G!Conflict  BY <1>3, VerdictsKeep
<1>4. CASE G!Apply \/ G!Push \/ G!Rebase  BY <1>4, GateApplies, PushKeeps, RebaseKeeps
<1>5. CASE UNCHANGED G!vars
  <2>1. Committed'  BY <1>5, CommittedStays DEF GateInv, G!vars
  <2> QED  BY <1>5, <2>1 DEF G!vars, GateInv, GateTypes, RequestTells, G!Touched, G!VerifiedIsJudged, G!ClosedOnEvidence
<1> QED  BY <1>1, <1>2, <1>3, <1>4, <1>5 DEF G!Next

(* The types as the gate states them. *)
LEMMA GateTyped == GateInv => G!TypeOK
<1> SUFFICES ASSUME GateInv PROVE G!TypeOK  OBVIOUS
<1>1. GateTypes  BY DEF GateInv
<1>2. \A c \in {d \in ConceptTypes : G!Exists(d) <=> d.status # "none"} : G!ConceptOK(c)
  BY DEF ConceptTypes, G!ConceptOK
<1> QED  BY <1>1, <1>2 DEF GateTypes, Trees, G!TypeOK

(* A push undoes nothing it was not written for. *)
LEMMA PushFits ==
    ASSUME GateInv, G!Push
    PROVE  /\ \A p \in G!Touched : G!ContentHash(upstream'[p]) # G!ContentHash(upstream[p]) =>
                                   G!ContentHash(upstream[p]) = G!ContentHash(changeset.seen[p])
           /\ \A p \in Concepts : upstream[p].status = "deprecated" => upstream'[p] = upstream[p]
           /\ \A p \in Concepts : upstream[p].cites \subseteq upstream'[p].cites
           /\ G!LinksResolve(upstream', G!Written(txn.base))
<1>1. /\ Committed /\ RequestTells /\ txn.phase = "committed" /\ changeset # G!NoRequest
      /\ upstream = txn.onto /\ upstream' = txn.tree
  BY DEF GateInv, G!Push, Committed
<1>2. ASSUME NEW p \in Concepts
      PROVE  \/ upstream'[p] = upstream[p]
             \/ /\ p \in G!Touched /\ upstream[p] = txn.base[p] /\ upstream'[p] = G!Stamp(txn.base, p)
  BY <1>1 DEF Committed, G!Written
<1>3. ASSUME NEW p \in G!Touched
      PROVE  /\ G!ContentHash(txn.base[p]) = G!ContentHash(changeset.seen[p])
             /\ txn.base[p].status # "deprecated"
  BY <1>1 DEF Committed, G!Unchanged, RequestTells
<1>4. \A p \in Concepts : txn.base[p].cites \subseteq G!Stamp(txn.base, p).cites  BY DEF G!Stamp, G!Cites
<1>5. G!Touched \subseteq Concepts  BY DEF G!Touched
<1>6. G!LinksResolve(upstream', G!Written(txn.base))  BY <1>1 DEF Committed
<1>7. ASSUME NEW p \in G!Touched, G!ContentHash(upstream'[p]) # G!ContentHash(upstream[p])
      PROVE  G!ContentHash(upstream[p]) = G!ContentHash(changeset.seen[p])
  BY <1>2, <1>3, <1>5, <1>7
<1>8. ASSUME NEW p \in Concepts PROVE upstream[p].cites \subseteq upstream'[p].cites
  BY <1>2, <1>4
<1>9. ASSUME NEW p \in Concepts, upstream[p].status = "deprecated" PROVE upstream'[p] = upstream[p]
  BY <1>2, <1>3, <1>9
<1> QED  BY <1>6, <1>7, <1>8, <1>9

-----------------------------------------------------------------------------
(* A maintainer's workspace. *)

(* The edits there are, what a file may hold, and what a changeset may be. *)
Written == Items \cup (0..MaxRev)
WorkFile == [of: SUBSET Written, stamp: 0..MaxRev]
WorkFiles == [Concepts -> WorkFile]
Changesets == [paths: SUBSET Concepts, items: SUBSET Items, torn: BOOLEAN,
               put: [Concepts -> SUBSET Written], seen: [Concepts -> SUBSET Written]]
Pulls == [stage: {"none", "files", "state"}, new: WorkFiles,
          plan: [Concepts -> {"done", "taken", "committed", "conflict", "take"}]]
Asked == [status: {"none", "sent", "done", "refused"}, changeset: Changesets]
Queues == [Items -> {"ready", "in_progress", "curated", "skipped", "parked"}]

(* Versions of a path are told apart by their stamps. *)
Since(old, new) == old.stamp <= new.stamp /\ (old.stamp = new.stamp => old = new)

(* The types of the variables. *)
WorkTypes ==
    /\ branch \in WorkFiles /\ local \in WorkFiles /\ mine \in WorkFiles
    /\ base \in WorkFiles /\ hashes \in WorkFiles /\ discard \in WorkFiles
    /\ rev \in 1..MaxRev /\ ever \in [Concepts -> SUBSET Written] /\ queue \in Queues
    /\ lease \in BOOLEAN /\ whole \in BOOLEAN /\ batched \in BOOLEAN
    /\ pull \in Pulls /\ request \in Asked /\ sent \subseteq Changesets /\ queued \subseteq Changesets

(* What the workspace knows of the branch it was once: the hashes, then the base, then what a pull
   on its way brings, then the branch. *)
Aged(p) ==
    /\ Since(hashes[p], base[p]) /\ Since(base[p], branch[p]) /\ branch[p].stamp <= rev
    /\ pull.stage # "none" => Since(base[p], pull.new[p]) /\ Since(pull.new[p], branch[p])
    /\ pull.stage = "state" => base[p] = pull.new[p]

(* What it got from there, and the bytes noted as committed, the branch has held. *)
Known(p) ==
    /\ base[p].of \cup hashes[p].of \cup branch[p].of \cup discard[p].of \subseteq ever[p]
    /\ pull.stage # "none" => pull.new[p].of \subseteq ever[p]

(* A file is as it was pulled, or the agent wrote into it since, or a pull that was cut, or is still
   on its way, left it as it is: then the branch has moved on from what was pulled. *)
Fresh(p) == local[p] = hashes[p] \/ (hashes[p].of \subseteq local[p].of /\ W!Touched(p))
Rooted(p) ==
    /\ Fresh(p) \/ hashes[p].stamp < branch[p].stamp
    /\ whole /\ pull.stage = "none" => Fresh(p)
    /\ whole /\ pull.stage # "state" => base[p] = hashes[p]

(* What a pull does with a file: what is to be taken over is published. *)
Settled(p) == local[p] = pull.new[p] \/ (hashes[p] = pull.new[p] /\ Fresh(p))
Planned(p) ==
    /\ pull.stage = "files" =>
         /\ pull.plan[p] = "done" => Settled(p)
         /\ pull.plan[p] = "taken" => local[p] = pull.new[p]
         /\ pull.plan[p] \in {"take", "committed"} => local[p].of \subseteq ever[p]
         /\ pull.plan[p] = "conflict" => hashes[p] # pull.new[p] /\ (whole => W!Touched(p))
    /\ pull.stage = "state" => Settled(p)

FileInv(p) == Aged(p) /\ Known(p) /\ Rooted(p) /\ Planned(p)
Filed == \A p \in Concepts : FileInv(p)

(* An item's edits, or a copy of them, are in the workspace, and the branch never held them. *)
Left(i) == \E p \in Concepts : i \in (local[p].of \cup mine[p].of) \ ever[p]

(* While a changeset is sent, the workspace is as it was sent. *)
Sent ==
    request.status # "none" =>
      /\ pull.stage = "none"
      /\ \A p \in request.changeset.paths : request.changeset.put[p] = local[p].of
      /\ request.status = "done" => \A p \in request.changeset.paths : request.changeset.put[p] \subseteq ever[p]
      /\ ~batched => \A i \in Items : Left(i) => i \in request.changeset.items

(* A changeset puts what it saw, and more. *)
PutsSeen(c) == ~c.torn => \A p \in c.paths : c.seen[p] \subseteq c.put[p]
Loaded == \A c \in sent \cup queued : PutsSeen(c)

(* An item that is back in the queue has left nothing unpublished behind, while the run has its
   lease; without it the run holds none.  A run that takes its items one by one has one of them,
   and nothing left of others. *)
Owned ==
    /\ ~lease => W!Held = {}
    /\ lease => \A i \in Items : Left(i) => queue[i] # "ready"
    /\ ~batched => \A i \in W!Held, j \in Items : j \in W!Held \/ Left(j) => j = i

WorkInv == WorkTypes /\ Filed /\ Sent /\ Loaded /\ Owned

(* An empty file, no pull, no request. *)
LEMMA Nothing ==
    /\ W!NoFile \in WorkFile /\ W!NoFile.of = {} /\ W!NoFile.stamp = 0
    /\ W!NoPull \in Pulls /\ W!NoPull.stage = "none"
    /\ W!NoRequest \in Asked /\ W!NoRequest.status = "none"
    /\ MaxRev \in Nat \ {0}
<1>1. MaxRev \in Nat \ {0}  BY WorkspaceOK DEF W!ConstantsOK
<1>2. W!NoFile \in WorkFile /\ W!NoFile.of = {} /\ W!NoFile.stamp = 0  BY <1>1 DEF W!NoFile, WorkFile
<1>3. W!NoPull \in Pulls /\ W!NoPull.stage = "none"  BY <1>2 DEF W!NoPull, Pulls, WorkFiles
<1>4. W!NoChangeset \in Changesets  BY DEF W!NoChangeset, Changesets
<1>5. W!NoRequest \in Asked /\ W!NoRequest.status = "none"  BY <1>4 DEF W!NoRequest, Asked
<1> QED  BY <1>1, <1>2, <1>3, <1>5

(* Versions are ordered, and stamps are numbers. *)
LEMMA SinceOrders ==
    ASSUME NEW f \in WorkFile, NEW g \in WorkFile, NEW h \in WorkFile
    PROVE  /\ Since(f, f)
           /\ Since(f, g) /\ Since(g, h) => Since(f, h)
           /\ Since(f, g) => f = g \/ f.stamp < g.stamp
           /\ Since(f, g) /\ Since(g, f) => f = g
           /\ f.stamp < g.stamp /\ Since(g, h) => f.stamp < h.stamp
           /\ f.stamp \in Nat /\ f.of \in SUBSET Written
  BY Nothing DEF WorkFile, Since

(* The files read. *)
LEMMA FilesRead ==
    ASSUME WorkTypes, NEW p \in Concepts
    PROVE  /\ branch[p] \in WorkFile /\ local[p] \in WorkFile /\ mine[p] \in WorkFile /\ base[p] \in WorkFile
           /\ hashes[p] \in WorkFile /\ discard[p] \in WorkFile /\ pull.new[p] \in WorkFile
           /\ pull.plan[p] \in {"done", "taken", "committed", "conflict", "take"}
           /\ pull.stage \in {"none", "files", "state"} /\ rev \in Nat
  BY Nothing DEF WorkTypes, WorkFiles, Pulls

(* A workspace starts as a pull leaves it. *)
LEMMA WorkInit == W!Init => WorkInv
<1> SUFFICES ASSUME W!Init PROVE WorkInv  OBVIOUS
<1>1. [of |-> {0}, stamp |-> 1] \in WorkFile  BY Nothing DEF WorkFile, Written
<1>2. branch \in [Concepts -> {W!NoFile, [of |-> {0}, stamp |-> 1]}]  BY DEF W!Init
<1>3. branch \in WorkFiles  BY <1>1, <1>2, Nothing DEF WorkFiles
<1>4. /\ local = branch /\ base = branch /\ hashes = branch /\ rev = 1 /\ lease = TRUE /\ whole = TRUE
      /\ mine = [p \in Concepts |-> W!NoFile] /\ discard = [p \in Concepts |-> W!NoFile]
      /\ queue = [i \in Items |-> "ready"] /\ pull = W!NoPull /\ request = W!NoRequest /\ batched = FALSE
      /\ sent = {} /\ queued = {} /\ ever = [p \in Concepts |-> branch[p].of]
  BY DEF W!Init
<1>5. mine \in WorkFiles /\ discard \in WorkFiles  BY <1>4, Nothing DEF WorkFiles
<1>6. ever \in [Concepts -> SUBSET Written]  BY <1>3, <1>4 DEF WorkFiles, WorkFile
<1>7. WorkTypes
  <2>1. rev \in 1..MaxRev /\ queue \in Queues  BY <1>4, Nothing DEF Queues
  <2>2. pull \in Pulls /\ request \in Asked  BY <1>4, Nothing
  <2> QED  BY <1>3, <1>4, <1>5, <1>6, <2>1, <2>2 DEF WorkTypes
<1>8. ASSUME NEW p \in Concepts PROVE FileInv(p)
  <2>1. branch[p] \in {W!NoFile, [of |-> {0}, stamp |-> 1]} /\ branch[p] \in WorkFile  BY <1>2, <1>3 DEF WorkFiles
  <2>2. branch[p].stamp <= rev  BY <1>4, <2>1, Nothing
  <2>3. discard[p].of = {} /\ ever[p] = branch[p].of /\ pull.stage = "none"  BY <1>4, Nothing
  <2> QED  BY <1>4, <2>1, <2>2, <2>3, SinceOrders DEF FileInv, Aged, Known, Rooted, Fresh, Planned
<1>9. Sent /\ Loaded  BY <1>4, Nothing DEF Sent, Loaded
<1>10. Owned
  <2>1. \A p \in Concepts : (local[p].of \cup mine[p].of) \ ever[p] = {}  BY <1>4, Nothing
  <2>2. W!Held = {} /\ \A i \in Items : ~Left(i)  BY <1>4, <2>1 DEF W!Held, Left
  <2> QED  BY <1>4, <2>2 DEF Owned
<1> QED  BY <1>7, <1>8, <1>9, <1>10 DEF WorkInv, Filed

(* No more is left than was, and no item comes back: what is owned stays so. *)
LEMMA OwnedKeeps ==
    ASSUME Owned, lease' = lease, batched' = batched, W!Held' \subseteq W!Held,
           \A i \in Items : queue'[i] = "ready" => queue[i] = "ready",
           \A p \in Concepts : (local'[p].of \cup mine'[p].of) \ ever'[p] \subseteq (local[p].of \cup mine[p].of) \ ever[p]
    PROVE  Owned' /\ \A i \in Items : Left(i)' => Left(i)
<1>1. \A i \in Items : Left(i)' => Left(i)  BY DEF Left
<1> QED  BY <1>1 DEF Owned

(* While the agent waits nothing is edited, and a request moves on to its answer. *)
LEMMA SentKeeps ==
    ASSUME WorkInv, pull'.stage = pull.stage, local' = local, batched' = batched,
           \A p \in Concepts : ever[p] \subseteq ever'[p],
           \A i \in Items : Left(i)' => Left(i),
           \/ request' = W!NoRequest \/ request' = request
           \/ /\ request.status # "none" /\ request'.changeset = request.changeset
              /\ request'.status = "done" =>
                    \A p \in request.changeset.paths : request.changeset.put[p] \subseteq ever'[p]
    PROVE  Sent'
<1>0. Sent /\ request.changeset.paths \subseteq Concepts  BY DEF WorkInv, WorkTypes, Asked, Changesets
<1>1. CASE request' = W!NoRequest  BY <1>1, Nothing DEF Sent
<1>2. CASE request' = request
  <2>1. request.status = "done" => \A p \in request.changeset.paths : request.changeset.put[p] \subseteq ever'[p]
    BY <1>0 DEF Sent
  <2> QED  BY <1>0, <1>2, <2>1 DEF Sent
<1>3. CASE request.status # "none" /\ request'.changeset = request.changeset
           /\ (request'.status = "done" =>
                  \A p \in request.changeset.paths : request.changeset.put[p] \subseteq ever'[p])
  BY <1>0, <1>3 DEF Sent
<1> QED  BY <1>1, <1>2, <1>3

(* A file nobody touches is as it should be, also when the branch moves on. *)
LEMMA FileStays ==
    ASSUME WorkInv, NEW p \in Concepts, branch'[p] \in WorkFile, Since(branch[p], branch'[p]),
           branch'[p].stamp <= rev', ever[p] \subseteq ever'[p], branch'[p].of \subseteq ever'[p],
           local'[p] = local[p], base'[p] = base[p], hashes'[p] = hashes[p], discard'[p] = discard[p],
           whole' = whole, pull'.stage = pull.stage, pull'.new[p] = pull.new[p], pull'.plan[p] = pull.plan[p]
    PROVE  FileInv(p)'
<1>1. Aged(p) /\ Known(p) /\ Rooted(p) /\ Planned(p)  BY DEF WorkInv, Filed, FileInv
<1>2. /\ branch[p] \in WorkFile /\ base[p] \in WorkFile /\ pull.new[p] \in WorkFile /\ hashes[p] \in WorkFile
  BY FilesRead DEF WorkInv
<1>3. Since(base[p], branch'[p])  BY <1>1, <1>2, SinceOrders DEF Aged
<1>4. pull.stage # "none" => Since(pull.new[p], branch'[p])  BY <1>1, <1>2, SinceOrders DEF Aged
<1>5. hashes[p].stamp < branch[p].stamp => hashes[p].stamp < branch'[p].stamp  BY <1>2, SinceOrders
<1>6. W!Touched(p)' = W!Touched(p) /\ Fresh(p)' = Fresh(p) /\ Settled(p)' = Settled(p)
  BY DEF W!Touched, Fresh, Settled
<1>7. Aged(p)'  BY <1>1, <1>3, <1>4 DEF Aged
<1>8. Known(p)'  BY <1>1 DEF Known
<1>9. Rooted(p)'  BY <1>1, <1>5, <1>6 DEF Rooted
<1>10. Planned(p)'  BY <1>1, <1>6 DEF Planned
<1> QED  BY <1>7, <1>8, <1>9, <1>10 DEF FileInv

(* Nor does one while the branch stays. *)
LEMMA FileRests ==
    ASSUME WorkInv, NEW p \in Concepts, branch' = branch, rev' = rev, ever' = ever,
           local'[p] = local[p], base'[p] = base[p], hashes'[p] = hashes[p], discard'[p] = discard[p],
           whole' = whole, pull'.stage = pull.stage, pull'.new[p] = pull.new[p], pull'.plan[p] = pull.plan[p]
    PROVE  FileInv(p)'
<1>1. Aged(p) /\ Known(p) /\ branch[p] \in WorkFile  BY FilesRead DEF WorkInv, Filed, FileInv
<1> QED  BY <1>1, FileStays, SinceOrders DEF Aged, Known

-----------------------------------------------------------------------------
(* The branch, the queue and the request. *)

(* Commits of others, and what the writer puts. *)
LEMMA BranchMoves ==
    ASSUME WorkInv, UNCHANGED <<lease, local, mine, base, hashes, discard, pull, whole, batched>>,
           rev < MaxRev, rev' = rev + 1, ever' \in [Concepts -> SUBSET Written],
           branch' \in WorkFiles, queue' \in Queues, request' \in Asked, sent' \subseteq sent, queued' \subseteq queued,
           \A p \in Concepts : \/ branch'[p] = branch[p]
                               \/ branch'[p].stamp = rev + 1,
           \A p \in Concepts : ever[p] \subseteq ever'[p] /\ branch'[p].of \subseteq ever'[p],
           W!Held' \subseteq W!Held, \A i \in Items : queue'[i] = "ready" => queue[i] = "ready",
           \/ request' = W!NoRequest \/ request' = request
           \/ /\ request.status # "none" /\ request'.changeset = request.changeset
              /\ request'.status = "done" =>
                    \A p \in request.changeset.paths : request.changeset.put[p] \subseteq ever'[p]
    PROVE  WorkInv'
<1>0. WorkTypes /\ Filed /\ Loaded /\ Owned /\ rev \in 1..MaxRev /\ MaxRev \in Nat
  BY Nothing DEF WorkInv, WorkTypes
<1>1. WorkTypes'  BY <1>0 DEF WorkTypes
<1>2. ASSUME NEW p \in Concepts PROVE FileInv(p)'
  <2>1. branch[p] \in WorkFile /\ branch'[p] \in WorkFile /\ branch[p].stamp <= rev
    BY <1>0, FilesRead DEF WorkFiles, Filed, FileInv, Aged
  <2>2. branch[p].stamp \in Nat  BY <2>1, SinceOrders
  <2>3. CASE branch'[p] = branch[p]
    <3>1. Since(branch[p], branch'[p]) /\ branch'[p].stamp <= rev'  BY <1>0, <2>1, <2>2, <2>3, SinceOrders
    <3> QED  BY <2>1, <3>1, FileStays
  <2>4. CASE branch'[p].stamp = rev + 1
    <3>1. Since(branch[p], branch'[p]) /\ branch'[p].stamp <= rev'  BY <1>0, <2>1, <2>2, <2>4 DEF Since
    <3> QED  BY <2>1, <3>1, FileStays
  <2> QED  BY <2>3, <2>4
<1>3. Owned' /\ \A i \in Items : Left(i)' => Left(i)  BY <1>0, OwnedKeeps
<1>4. Sent'  BY <1>3, SentKeeps
<1>5. Loaded'  BY <1>0 DEF Loaded
<1> QED  BY <1>1, <1>2, <1>3, <1>4, <1>5 DEF WorkInv, Filed

(* Somebody else publishes. *)
LEMMA OtherPublishesKeeps == ASSUME WorkInv, NEW q \in Concepts, W!OtherPublishes(q) PROVE WorkInv'
<1>0. WorkTypes /\ Filed /\ rev \in 1..MaxRev /\ rev < MaxRev /\ MaxRev \in Nat
  BY Nothing DEF WorkInv, WorkTypes, W!OtherPublishes
<1>1. PICK edit \in {{}, {rev + 1}} :
          /\ branch' = [branch EXCEPT ![q] = [of |-> branch[q].of \cup edit, stamp |-> rev + 1]]
          /\ ever' = [ever EXCEPT ![q] = ever[q] \cup edit]
  BY DEF W!OtherPublishes
<1>2. /\ rev' = rev + 1
      /\ UNCHANGED <<queue, lease, local, mine, base, hashes, discard, pull, request, sent, queued, whole, batched>>
  BY DEF W!OtherPublishes, W!disk, W!history, W!underway
<1>3. edit \subseteq Written /\ rev + 1 \in 0..MaxRev  BY <1>0 DEF Written
<1>4. branch[q] \in WorkFile /\ ever[q] \subseteq Written /\ branch[q].of \subseteq ever[q]
  BY <1>0, FilesRead DEF WorkTypes, Filed, FileInv, Known
<1>5. [of |-> branch[q].of \cup edit, stamp |-> rev + 1] \in WorkFile  BY <1>3, <1>4 DEF WorkFile
<1>6. branch' \in WorkFiles /\ ever' \in [Concepts -> SUBSET Written]
  BY <1>0, <1>1, <1>3, <1>4, <1>5 DEF WorkTypes, WorkFiles
<1>7. \A p \in Concepts : branch'[p] = branch[p] \/ branch'[p].stamp = rev + 1
  BY <1>0, <1>1 DEF WorkTypes, WorkFiles
<1>8. \A p \in Concepts : ever[p] \subseteq ever'[p] /\ branch'[p].of \subseteq ever'[p]
  <2> TAKE p \in Concepts
  <2>1. branch[p].of \subseteq ever[p]  BY <1>0 DEF Filed, FileInv, Known
  <2>2. CASE p = q  BY <1>0, <1>1, <1>4, <2>2 DEF WorkTypes, WorkFiles
  <2>3. CASE p # q  BY <1>0, <1>1, <2>1, <2>3 DEF WorkTypes, WorkFiles
  <2> QED  BY <2>2, <2>3
<1>9. queue' \in Queues /\ request' \in Asked /\ W!Held' = W!Held  BY <1>0, <1>2 DEF WorkTypes, W!Held
<1> QED  BY <1>0, <1>2, <1>6, <1>7, <1>8, <1>9, BranchMoves

(* The writer commits: what it puts holds what the branch held, unless it was proposed torn. *)
LEMMA CommitKeeps ==
    ASSUME WorkInv, NEW c \in sent \cup queued, W!Commit(c)
    PROVE  WorkInv' /\ (~c.torn => \A p \in Concepts : branch[p].of \subseteq branch'[p].of)
<1>0. WorkTypes /\ Filed /\ Loaded /\ rev \in 1..MaxRev /\ rev < MaxRev /\ MaxRev \in Nat /\ c \in Changesets
  BY Nothing DEF WorkInv, WorkTypes, W!Commit
<1>1. /\ UNCHANGED <<lease, local, mine, base, hashes, discard, pull, whole, batched, sent>>
      /\ W!CasHolds(c) /\ rev' = rev + 1 /\ queued' = queued \ {c}
      /\ branch' = [p \in Concepts |-> IF p \in c.paths THEN [of |-> c.put[p], stamp |-> rev + 1] ELSE branch[p]]
      /\ ever' = [p \in Concepts |-> IF p \in c.paths THEN ever[p] \cup c.put[p] ELSE ever[p]]
      /\ queue' = [i \in Items |-> IF i \in c.items /\ queue[i] # "skipped" THEN "curated" ELSE queue[i]]
      /\ request' = IF W!Awaits(c) THEN [request EXCEPT !.status = "done"] ELSE request
  BY DEF W!Commit, W!Answer, W!disk, W!history
<1>2. /\ c.put \in [Concepts -> SUBSET Written] /\ c.seen \in [Concepts -> SUBSET Written] /\ c.paths \subseteq Concepts
  BY <1>0 DEF Changesets
<1>3. ASSUME NEW p \in Concepts
      PROVE  /\ branch'[p] \in WorkFile /\ ever'[p] \subseteq Written
             /\ branch'[p] = branch[p] \/ branch'[p].stamp = rev + 1
             /\ ever[p] \subseteq ever'[p] /\ branch'[p].of \subseteq ever'[p]
             /\ ~c.torn => branch[p].of \subseteq branch'[p].of
  <2>1. branch[p] \in WorkFile /\ ever[p] \subseteq Written /\ branch[p].of \subseteq ever[p]
    BY <1>0, FilesRead DEF WorkTypes, Filed, FileInv, Known
  <2>2. CASE p \in c.paths
    <3>1. branch'[p] = [of |-> c.put[p], stamp |-> rev + 1] /\ ever'[p] = ever[p] \cup c.put[p]  BY <1>1, <2>2
    <3>2. [of |-> c.put[p], stamp |-> rev + 1] \in WorkFile  BY <1>0, <1>2 DEF WorkFile
    <3>3. branch[p].of = c.seen[p] /\ (~c.torn => c.seen[p] \subseteq c.put[p])
      BY <1>0, <1>1, <2>2 DEF W!CasHolds, W!Hash, Loaded, PutsSeen
    <3> QED  BY <1>2, <2>1, <3>1, <3>2, <3>3
  <2>3. CASE p \notin c.paths  BY <1>1, <2>1, <2>3
  <2> QED  BY <2>2, <2>3
<1>4. branch' \in WorkFiles
  <2>1. \A p \in Concepts : branch'[p] \in WorkFile  BY <1>3
  <2> QED  BY <1>1, <2>1 DEF WorkFiles
<1>5. ever' \in [Concepts -> SUBSET Written]
  <2>1. \A p \in Concepts : ever'[p] \subseteq Written  BY <1>3
  <2> QED  BY <1>1, <2>1
<1>6. /\ queue' \in Queues /\ W!Held' \subseteq W!Held
      /\ \A i \in Items : queue'[i] = "ready" => queue[i] = "ready"
  BY <1>0, <1>1 DEF WorkTypes, Queues, W!Held
<1>7. \A p \in c.paths : c.put[p] \subseteq ever'[p]  BY <1>1, <1>2
<1>8. /\ request' \in Asked
      /\ \/ request' = request
         \/ /\ request.status # "none" /\ request'.changeset = request.changeset
            /\ \A p \in request.changeset.paths : request.changeset.put[p] \subseteq ever'[p]
  BY <1>0, <1>1, <1>7 DEF WorkTypes, Asked, W!Awaits
<1>9. \A p \in Concepts : \/ branch'[p] = branch[p] \/ branch'[p].stamp = rev + 1  BY <1>3
<1>10. \A p \in Concepts : ever[p] \subseteq ever'[p] /\ branch'[p].of \subseteq ever'[p]  BY <1>3
<1>11. sent' \subseteq sent /\ queued' \subseteq queued  BY <1>1
<1>12. WorkInv'  BY <1>0, <1>1, <1>4, <1>5, <1>6, <1>8, <1>9, <1>10, <1>11, BranchMoves
<1> QED  BY <1>3, <1>12

(* The files and the branch rest. *)
LEMMA FilesRest ==
    ASSUME WorkInv, UNCHANGED <<branch, rev, ever, local, base, hashes, discard, pull, whole>>
    PROVE  Filed'
  BY FileRests DEF Filed

(* The request's way to its answer, and a changeset's. *)
LEMMA AnswersKeep ==
    ASSUME WorkInv, UNCHANGED <<branch, rev, ever, queue, lease, local, mine, base, hashes, discard, pull, whole, batched>>,
           request' \in Asked, sent' \subseteq sent, queued' \subseteq sent \cup queued,
           \/ request' = W!NoRequest \/ request' = request
           \/ request.status # "none" /\ request'.changeset = request.changeset /\ request'.status # "done"
    PROVE  WorkInv'
<1>0. WorkTypes /\ Loaded /\ Owned  BY DEF WorkInv
<1>1. WorkTypes'  BY <1>0 DEF WorkTypes
<1>2. W!Held' = W!Held  BY DEF W!Held
<1>3. Owned' /\ \A i \in Items : Left(i)' => Left(i)  BY <1>0, <1>2, OwnedKeeps
<1>4. Sent'  BY <1>3, SentKeeps
<1>5. Loaded'  BY <1>0 DEF Loaded
<1> QED  BY <1>1, <1>3, <1>4, <1>5, FilesRest DEF WorkInv

LEMMA ChangesetsKeep ==
    ASSUME WorkInv, NEW c \in sent \cup queued, W!Accept(c) \/ W!Refuse(c) \/ W!Vanish(c) \/ W!Reject(c)
    PROVE  WorkInv'
<1>0. WorkTypes  BY DEF WorkInv
<1>1. UNCHANGED <<branch, rev, ever, queue, lease, local, mine, base, hashes, discard, pull, whole, batched>>
  BY DEF W!Accept, W!Refuse, W!Vanish, W!Reject, W!disk, W!writer, W!branch, W!history
<1>2. sent' \subseteq sent /\ queued' \subseteq sent \cup queued
  BY DEF W!Accept, W!Refuse, W!Vanish, W!Reject
<1>3. request' = request \/ request' = IF W!Awaits(c) THEN [request EXCEPT !.status = "refused"] ELSE request
  BY DEF W!Accept, W!Refuse, W!Vanish, W!Reject, W!Answer
<1>4. /\ request' \in Asked
      /\ \/ request' = request
         \/ request.status # "none" /\ request'.changeset = request.changeset /\ request'.status # "done"
  BY <1>0, <1>3 DEF WorkTypes, Asked, W!Awaits
<1> QED  BY <1>1, <1>2, <1>4, AnswersKeep

LEMMA NoteRefusedKeeps == WorkInv /\ W!NoteRefused => WorkInv'
<1> SUFFICES ASSUME WorkInv, W!NoteRefused PROVE WorkInv'  OBVIOUS
<1>1. /\ UNCHANGED <<branch, rev, ever, queue, lease, local, mine, base, hashes, discard, pull, whole, batched, sent, queued>>
      /\ request' = W!NoRequest
  BY DEF W!NoteRefused, W!disk, W!writer, W!branch, W!history, W!underway
<1> QED  BY <1>1, AnswersKeep, Nothing

LEMMA SendKeeps == WorkInv /\ W!Propose => WorkInv'
<1> SUFFICES ASSUME WorkInv, W!Propose PROVE WorkInv'  OBVIOUS
<1>0. WorkTypes /\ Filed /\ Loaded /\ Owned  BY DEF WorkInv
<1> DEFINE c == [paths |-> W!Changed, items |-> W!Held, torn |-> ~whole,
                 put |-> [p \in Concepts |-> IF p \in W!Changed THEN local[p].of ELSE {}],
                 seen |-> [p \in Concepts |-> IF p \in W!Changed THEN base[p].of ELSE {}]]
<1>1. /\ UNCHANGED <<branch, rev, ever, queue, lease, local, mine, base, hashes, discard, pull, whole, batched, queued>>
      /\ request' = [status |-> "sent", changeset |-> c] /\ sent' = sent \cup {c}
      /\ pull.stage = "none" /\ W!Held # {}
  BY DEF W!Propose, W!disk, W!writer, W!branch, W!history, W!Ready, W!Hash
<1>2. W!Changed \subseteq Concepts /\ W!Held \subseteq Items /\ W!Held' = W!Held
  BY <1>1 DEF W!Changed, W!Held
<1>3. c \in Changesets
  <2>1. \A p \in Concepts : local[p].of \subseteq Written /\ base[p].of \subseteq Written
    BY <1>0, FilesRead DEF WorkFile
  <2> QED  BY <1>0, <1>2, <2>1 DEF Changesets, WorkTypes
<1>4. PutsSeen(c)
  <2> SUFFICES ASSUME whole, NEW p \in W!Changed PROVE base[p].of \subseteq local[p].of
    BY <1>2 DEF PutsSeen
  <2>1. p \in Concepts /\ local[p] # hashes[p]  BY DEF W!Changed
  <2>2. Rooted(p)  BY <1>0, <2>1 DEF Filed, FileInv
  <2> QED  BY <1>1, <2>1, <2>2 DEF Rooted, Fresh
<1>5. c.paths = W!Changed /\ c.items = W!Held /\ \A p \in W!Changed : c.put[p] = local[p].of  BY <1>2
<1> HIDE DEF c
<1>6. WorkTypes'  BY <1>0, <1>1, <1>3 DEF WorkTypes, Asked
<1>7. Owned' /\ \A i \in Items : Left(i)' => Left(i)  BY <1>0, <1>1, <1>2, OwnedKeeps
<1>8. Sent'
  <2>1. ASSUME ~batched, NEW i \in Items, Left(i) PROVE i \in W!Held
    <3>1. PICK h \in W!Held : TRUE  BY <1>1
    <3>2. i = h  BY <1>0, <2>1 DEF Owned
    <3> QED  BY <3>2
  <2>2. /\ request'.status = "sent" /\ request'.changeset = c /\ pull'.stage = "none"
        /\ \A p \in c.paths : c.put[p] = local'[p].of
    BY <1>1, <1>5
  <2>3. \A i \in Items : ~batched' /\ Left(i)' => i \in c.items  BY <1>1, <1>5, <1>7, <2>1
  <2> QED  BY <2>2, <2>3 DEF Sent
<1>9. Loaded'  BY <1>0, <1>1, <1>4 DEF Loaded
<1> QED  BY <1>1, <1>6, <1>7, <1>8, <1>9, FilesRest DEF WorkInv

(* The committed bytes are noted. *)
LEMMA NoteCommittedKeeps == WorkInv /\ W!NoteCommitted => WorkInv'
<1> SUFFICES ASSUME WorkInv, W!NoteCommitted PROVE WorkInv'  OBVIOUS
<1>0. WorkTypes /\ Filed /\ Sent /\ Loaded /\ Owned  BY DEF WorkInv
<1>1. /\ UNCHANGED <<branch, rev, ever, queue, lease, local, mine, base, hashes, pull, whole, batched, sent, queued>>
      /\ request.status = "done" /\ request' = W!NoRequest
      /\ discard' = [p \in Concepts |-> IF p \in request.changeset.paths THEN local[p] ELSE discard[p]]
  BY DEF W!NoteCommitted, W!writer, W!branch, W!history, W!underway
<1>2. WorkTypes'  BY <1>0, <1>1, Nothing DEF WorkTypes, WorkFiles
<1>3. ASSUME NEW p \in Concepts PROVE FileInv(p)'
  <2>0. Aged(p) /\ Known(p) /\ Rooted(p) /\ Planned(p)  BY <1>0 DEF Filed, FileInv
  <2>1. W!Touched(p)' = W!Touched(p) /\ Fresh(p)' = Fresh(p) /\ Settled(p)' = Settled(p)
    BY <1>1 DEF W!Touched, Fresh, Settled
  <2>2. discard'[p].of \subseteq ever[p]  BY <1>0, <1>1, <2>0 DEF Sent, Known
  <2>3. Known(p)'  BY <1>1, <2>0, <2>2 DEF Known
  <2> QED  BY <1>1, <2>0, <2>1, <2>3 DEF FileInv, Aged, Rooted, Planned
<1>4. W!Held' = W!Held  BY <1>1 DEF W!Held
<1>5. Owned'  BY <1>0, <1>1, <1>4, OwnedKeeps
<1>6. Sent' /\ Loaded'  BY <1>0, <1>1, Nothing DEF Sent, Loaded
<1> QED  BY <1>2, <1>3, <1>5, <1>6 DEF WorkInv, Filed

(* The run takes up an item. *)
LEMMA NextItemKeeps == ASSUME WorkInv, NEW i \in Items, NEW batch \in BOOLEAN, W!NextItem(i, batch) PROVE WorkInv'
<1>0. WorkTypes /\ Filed /\ Loaded /\ Owned  BY DEF WorkInv
<1>1. /\ UNCHANGED <<branch, rev, ever, lease, local, mine, base, hashes, discard, pull, request, whole, sent, queued>>
      /\ queue' = [queue EXCEPT ![i] = "in_progress"] /\ lease /\ request.status = "none" /\ batched' = batch
      /\ batch \/ (W!Changed = {} /\ W!Conflicts = {} /\ W!Held = {})
  BY DEF W!NextItem, W!disk, W!Ready, W!branch, W!underway
<1>2. WorkTypes'  BY <1>0, <1>1 DEF WorkTypes, Queues
<1>3. Sent' /\ Loaded'  BY <1>0, <1>1 DEF Sent, Loaded
<1>4. \A j \in Items : Left(j)' <=> Left(j)  BY <1>1 DEF Left
<1>5. ASSUME ~batch PROVE W!Held' = {i} /\ \A j \in Items : ~Left(j)
  <2>1. W!Held' = {i}  BY <1>0, <1>1, <1>5 DEF W!Held, WorkTypes, Queues
  <2>2. \A p \in Concepts : local[p] = hashes[p] /\ mine[p] = W!NoFile  BY <1>1, <1>5 DEF W!Changed, W!Conflicts
  <2>3. \A p \in Concepts : hashes[p].of \subseteq ever[p]  BY <1>0 DEF Filed, FileInv, Known
  <2> QED  BY <2>1, <2>2, <2>3, Nothing DEF Left
<1>6. \A j \in Items : queue'[j] = "ready" => queue[j] = "ready"  BY <1>0, <1>1 DEF WorkTypes, Queues
<1>7. Owned'
  <2>1. \A j \in Items : Left(j)' => queue'[j] # "ready"  BY <1>0, <1>1, <1>4, <1>6 DEF Owned
  <2>2. ~batched' => \A k \in W!Held', j \in Items : j \in W!Held' \/ Left(j)' => j = k  BY <1>1, <1>4, <1>5
  <2> QED  BY <1>1, <2>1, <2>2 DEF Owned
<1> QED  BY <1>1, <1>2, <1>3, <1>7, FilesRest DEF WorkInv

(* The lease is lost, and with it every item. *)
LEMMA LeaseLostKeeps == WorkInv /\ W!LeaseLost => WorkInv'
<1> SUFFICES ASSUME WorkInv, W!LeaseLost PROVE WorkInv'  OBVIOUS
<1>0. WorkTypes /\ Loaded  BY DEF WorkInv
<1>1. /\ UNCHANGED <<branch, rev, ever, local, mine, base, hashes, discard, pull, request, whole, batched, sent, queued>>
      /\ lease' = FALSE /\ queue' = [i \in Items |-> IF i \in W!Held THEN "ready" ELSE queue[i]]
  BY DEF W!LeaseLost, W!disk, W!branch, W!history, W!underway
<1>2. WorkTypes'  BY <1>0, <1>1 DEF WorkTypes, Queues
<1>3. W!Held' = {}  BY <1>1 DEF W!Held
<1>4. Owned'  BY <1>1, <1>3 DEF Owned
<1>5. \A i \in Items : Left(i)' => Left(i)  BY <1>1 DEF Left
<1>6. Sent'  BY <1>1, <1>5, SentKeeps
<1>7. Loaded'  BY <1>0, <1>1 DEF Loaded
<1> QED  BY <1>1, <1>2, <1>4, <1>6, <1>7, FilesRest DEF WorkInv

-----------------------------------------------------------------------------
(* The files between pulls. *)

(* The agent edits a file. *)
LEMMA EditKeeps == ASSUME WorkInv, NEW i \in Items, NEW q \in Concepts, W!Edit(i, q) PROVE WorkInv'
<1>0. WorkTypes /\ Filed /\ Loaded /\ Owned  BY DEF WorkInv
<1>1. /\ UNCHANGED <<branch, rev, ever, queue, lease, mine, base, hashes, discard, pull, request, whole, batched, sent, queued>>
      /\ pull.stage = "none" /\ request.status = "none"
  BY DEF W!Edit, W!disk, W!writer, W!branch, W!history, W!underway, W!Ready
<1>2. PICK again \in {{}, mine[q].of} : local' = [local EXCEPT ![q].of = local[q].of \cup {i} \cup again]
  BY DEF W!Edit
<1>3. i \notin local[q].of  BY DEF W!Edit
<1> DEFINE new == [of |-> local[q].of \cup {i} \cup again, stamp |-> local[q].stamp]
<1>4. local[q] \in WorkFile /\ mine[q] \in WorkFile /\ hashes[q] \in WorkFile  BY <1>0, FilesRead
<1>5. [local[q] EXCEPT !.of = local[q].of \cup {i} \cup again] = new  BY <1>4 DEF WorkFile
<1>6. local' = [local EXCEPT ![q] = new]  BY <1>0, <1>2, <1>5 DEF WorkTypes, WorkFiles
<1>7. new \in WorkFile /\ new.of = local[q].of \cup {i} \cup again  BY <1>4 DEF WorkFile, Written
<1> HIDE DEF new
<1>8. local'[q] = new /\ (\A p \in Concepts : p # q => local'[p] = local[p]) /\ local' \in WorkFiles
  BY <1>0, <1>6, <1>7 DEF WorkTypes, WorkFiles
<1>9. WorkTypes'  BY <1>0, <1>1, <1>8 DEF WorkTypes
<1>10. ASSUME NEW p \in Concepts PROVE FileInv(p)'
  <2>1. CASE p # q  BY <1>1, <1>8, <2>1, FileRests
  <2>2. CASE p = q
    <3>0. Aged(q) /\ Known(q) /\ Rooted(q)  BY <1>0 DEF Filed, FileInv
    <3>1. (Aged(q) /\ Known(q) /\ Planned(q))'  BY <1>1, <3>0 DEF Aged, Known, Planned
    <3>2. ASSUME Fresh(q) PROVE Fresh(q)'
      <4>1. hashes[q].of \subseteq new.of  BY <1>7, <3>2 DEF Fresh
      <4>2. ~(new.of \cap Items \subseteq hashes[q].of)
        <5>1. CASE local[q] = hashes[q]  BY <1>3, <1>7, <5>1
        <5>2. CASE W!Touched(q)  BY <1>7, <5>2 DEF W!Touched
        <5> QED  BY <3>2, <5>1, <5>2 DEF Fresh
      <4> QED  BY <1>1, <1>8, <4>1, <4>2 DEF Fresh, W!Touched
    <3>3. Rooted(q)'  BY <1>1, <3>0, <3>2 DEF Rooted
    <3> QED  BY <2>2, <3>1, <3>3 DEF FileInv
  <2> QED  BY <2>1, <2>2
<1>11. Sent' /\ Loaded'  BY <1>0, <1>1 DEF Sent, Loaded
<1>12. W!Held' = W!Held /\ \A j \in Items : Left(j)' => Left(j) \/ j = i
  <2>1. \A p \in Concepts : local'[p].of \cup mine'[p].of \subseteq local[p].of \cup mine[p].of \cup {i}
    BY <1>1, <1>2, <1>7, <1>8
  <2> QED  BY <1>1, <2>1 DEF Left, W!Held
<1>13. Owned'
  <2>0. i \in W!Held \/ ~lease  BY DEF W!Edit
  <2>1. ~lease' => W!Held' = {}  BY <1>0, <1>1, <1>12 DEF Owned
  <2>2. i \in W!Held => queue[i] # "ready"  BY DEF W!Held
  <2>3. lease' => \A j \in Items : Left(j)' => queue'[j] # "ready"  BY <1>0, <1>1, <1>12, <2>0, <2>2 DEF Owned
  <2>4. ~batched' => \A k \in W!Held', j \in Items : j \in W!Held' \/ Left(j)' => j = k
    BY <1>0, <1>1, <1>12, <2>0 DEF Owned
  <2> QED  BY <2>1, <2>3, <2>4 DEF Owned
<1> QED  BY <1>9, <1>10, <1>11, <1>13 DEF WorkInv, Filed

(* A file put back to its base. *)
LEMMA FileReset ==
    ASSUME WorkInv, NEW p \in Concepts, pull.stage = "none",
           UNCHANGED <<branch, rev, ever, base, hashes, discard, pull, whole>>,
           local'[p] = base[p] \/ (local'[p] = local[p] /\ local[p] = hashes[p])
    PROVE  FileInv(p)' /\ local'[p].of \subseteq ever[p]
<1>0. Aged(p) /\ Known(p) /\ Rooted(p)  BY DEF WorkInv, Filed, FileInv
<1>1. base[p] \in WorkFile /\ hashes[p] \in WorkFile /\ branch[p] \in WorkFile  BY FilesRead DEF WorkInv
<1>2. base[p] = hashes[p] \/ hashes[p].stamp < branch[p].stamp  BY <1>0, <1>1, SinceOrders DEF Aged
<1>3. local'[p] = hashes[p] \/ (hashes[p].stamp < branch[p].stamp /\ ~whole)  BY <1>0, <1>2 DEF Rooted
<1>4. Rooted(p)'  BY <1>0, <1>3 DEF Rooted, Fresh
<1>5. (Aged(p) /\ Known(p) /\ Planned(p))'  BY <1>0 DEF Aged, Known, Planned
<1> QED  BY <1>0, <1>4, <1>5 DEF Known, FileInv

(* The whole workspace put back, whatever becomes of the queue and the lease. *)
LEMMA AllReset ==
    ASSUME WorkInv, pull.stage = "none", request.status = "none", W!ResetFiles,
           UNCHANGED <<branch, rev, ever, base, hashes, discard, pull, request, whole, batched, sent, queued>>
    PROVE  /\ Filed' /\ Sent' /\ Loaded' /\ local' \in WorkFiles /\ mine' \in WorkFiles
           /\ \A i \in Items : ~Left(i)'
<1>0. WorkTypes /\ Loaded  BY DEF WorkInv
<1>1. /\ local' = [p \in Concepts |-> IF p \in W!Changed THEN base[p] ELSE local[p]]
      /\ mine' = [p \in Concepts |-> W!NoFile]
  BY DEF W!ResetFiles
<1>2. \A p \in Concepts : local'[p] = base[p] \/ (local'[p] = local[p] /\ local[p] = hashes[p])
  BY <1>1 DEF W!Changed
<1>3. \A p \in Concepts : FileInv(p)' /\ local'[p].of \subseteq ever[p]  BY <1>2, FileReset
<1>4. local' \in WorkFiles /\ mine' \in WorkFiles  BY <1>0, <1>1, Nothing DEF WorkTypes, WorkFiles
<1>5. \A p \in Concepts : (local'[p].of \cup mine'[p].of) \ ever'[p] = {}  BY <1>1, <1>3, Nothing
<1>6. \A i \in Items : ~Left(i)'  BY <1>5 DEF Left
<1>7. Sent' /\ Loaded'  BY <1>0 DEF Sent, Loaded
<1> QED  BY <1>3, <1>4, <1>6, <1>7 DEF Filed

(* Items leave a run, and the workspace may be put back if they were its last ones. *)
LEMMA ResolveKeeps ==
    ASSUME WorkInv, NEW i \in Items, NEW outcome \in {"skipped", "parked"}, W!Resolve(i, outcome)
    PROVE  WorkInv'
<1>0. WorkTypes /\ Loaded /\ Owned  BY DEF WorkInv
<1>1. /\ UNCHANGED <<branch, rev, ever, lease, base, hashes, discard, pull, request, whole, batched, sent, queued>>
      /\ pull.stage = "none" /\ request.status = "none" /\ queue' = [queue EXCEPT ![i] = outcome]
      /\ W!KeepFiles \/ W!ResetFiles
  BY DEF W!Resolve, W!Ready, W!branch, W!history, W!underway
<1>2. /\ queue' \in Queues /\ W!Held' \subseteq W!Held
      /\ \A j \in Items : queue'[j] = "ready" => queue[j] = "ready"
  BY <1>0, <1>1 DEF WorkTypes, Queues, W!Held
<1>3. CASE W!KeepFiles
  <2>1. UNCHANGED <<local, mine>>  BY <1>3 DEF W!KeepFiles
  <2>2. Owned'  BY <1>0, <1>1, <1>2, <2>1, OwnedKeeps
  <2>3. WorkTypes'  BY <1>0, <1>1, <1>2, <2>1 DEF WorkTypes
  <2>4. Sent' /\ Loaded'  BY <1>0, <1>1 DEF Sent, Loaded
  <2> QED  BY <1>1, <2>1, <2>2, <2>3, <2>4, FilesRest DEF WorkInv
<1>4. CASE W!ResetFiles
  <2>1. /\ Filed' /\ Sent' /\ Loaded' /\ local' \in WorkFiles /\ mine' \in WorkFiles /\ \A j \in Items : ~Left(j)'
    BY <1>1, <1>4, AllReset
  <2>2. WorkTypes'  BY <1>0, <1>1, <1>2, <2>1 DEF WorkTypes
  <2>3. Owned'  BY <1>0, <1>1, <1>2, <2>1 DEF Owned
  <2> QED  BY <2>1, <2>2, <2>3 DEF WorkInv
<1> QED  BY <1>1, <1>3, <1>4

LEMMA ResolveAgainKeeps == WorkInv /\ W!ResolveAgain => WorkInv'
<1> SUFFICES ASSUME WorkInv, W!ResolveAgain PROVE WorkInv'  OBVIOUS
<1>0. WorkTypes /\ Owned  BY DEF WorkInv
<1>1. /\ UNCHANGED <<branch, rev, ever, queue, lease, base, hashes, discard, pull, request, whole, batched, sent, queued>>
      /\ pull.stage = "none" /\ request.status = "none" /\ W!ResetFiles
  BY DEF W!ResolveAgain, W!Ready, W!writer, W!branch, W!history, W!underway
<1>2. Filed' /\ Sent' /\ Loaded' /\ local' \in WorkFiles /\ mine' \in WorkFiles /\ \A j \in Items : ~Left(j)'
  BY <1>1, AllReset
<1>3. WorkTypes'  BY <1>0, <1>1, <1>2 DEF WorkTypes
<1>4. W!Held' = W!Held  BY <1>1 DEF W!Held
<1>5. Owned'  BY <1>0, <1>1, <1>2, <1>4 DEF Owned
<1> QED  BY <1>2, <1>3, <1>5 DEF WorkInv

(* A run begins again: what came back to the queue meanwhile is no longer in the workspace. *)
LEMMA BeginKeeps == WorkInv /\ W!Begin => WorkInv'
<1> SUFFICES ASSUME WorkInv, W!Begin PROVE WorkInv'  OBVIOUS
<1>0. WorkTypes /\ Loaded /\ Owned  BY DEF WorkInv
<1>1. /\ UNCHANGED <<branch, rev, ever, base, hashes, discard, pull, request, whole, batched, sent, queued>>
      /\ pull.stage = "none" /\ request.status = "none" /\ lease' = TRUE
      /\ queue' = [i \in Items |-> IF ~lease /\ queue[i] = "parked" THEN "ready" ELSE queue[i]]
      /\ IF W!Held = {} THEN W!ResetFiles ELSE W!KeepFiles
  BY DEF W!Begin, W!TakeLease, W!Ready, W!branch, W!history, W!underway
<1>2. queue' \in Queues /\ W!Held' = W!Held  BY <1>0, <1>1 DEF WorkTypes, Queues, W!Held
<1>3. CASE W!Held = {}
  <2>1. /\ Filed' /\ Sent' /\ Loaded' /\ local' \in WorkFiles /\ mine' \in WorkFiles /\ \A j \in Items : ~Left(j)'
    BY <1>1, <1>3, AllReset
  <2>2. WorkTypes'  BY <1>0, <1>1, <1>2, <2>1 DEF WorkTypes
  <2>3. Owned'  BY <1>1, <1>2, <1>3, <2>1 DEF Owned
  <2> QED  BY <2>1, <2>2, <2>3 DEF WorkInv
<1>4. CASE W!Held # {}
  <2>1. UNCHANGED <<local, mine, queue, lease>>
    <3>1. lease  BY <1>0, <1>4 DEF Owned
    <3> QED  BY <1>0, <1>1, <1>4, <3>1 DEF W!KeepFiles, WorkTypes, Queues
  <2>2. Owned'  BY <1>0, <1>1, <1>2, <2>1, OwnedKeeps
  <2>3. WorkTypes'  BY <1>0, <1>1, <2>1 DEF WorkTypes
  <2>4. Sent' /\ Loaded'  BY <1>0, <1>1 DEF Sent, Loaded
  <2> QED  BY <1>1, <2>1, <2>2, <2>3, <2>4, FilesRest DEF WorkInv
<1> QED  BY <1>3, <1>4

(* No final answer: what was sent is put back, and its items may be parked. *)
LEMMA GiveUpKeeps == WorkInv /\ W!GiveUp => WorkInv'
<1> SUFFICES ASSUME WorkInv, W!GiveUp PROVE WorkInv'  OBVIOUS
<1>0. WorkTypes /\ Filed /\ Sent /\ Loaded /\ Owned  BY DEF WorkInv
<1>1. /\ UNCHANGED <<branch, rev, ever, lease, base, hashes, discard, pull, whole, batched, sent, queued>>
      /\ request.status # "none" /\ request' = W!NoRequest
      /\ local' = [p \in Concepts |-> IF p \in request.changeset.paths THEN base[p] ELSE local[p]]
      /\ mine' = [p \in Concepts |-> IF p \in request.changeset.paths THEN W!NoFile ELSE mine[p]]
  BY DEF W!GiveUp, W!branch, W!history, W!underway
<1>2. PICK parked \in SUBSET (request.changeset.items \cap W!Held) :
          queue' = [i \in Items |-> IF i \in parked THEN "parked" ELSE queue[i]]
  BY DEF W!GiveUp
<1>3. pull.stage = "none"  BY <1>0, <1>1 DEF Sent
<1>4. ASSUME NEW p \in Concepts
      PROVE  FileInv(p)' /\ local'[p].of \cup mine'[p].of \subseteq local[p].of \cup mine[p].of \cup ever[p]
  <2>1. CASE p \in request.changeset.paths
    <3>1. local'[p] = base[p] /\ mine'[p] = W!NoFile  BY <1>1, <2>1
    <3>2. FileInv(p)' /\ local'[p].of \subseteq ever[p]  BY <1>1, <1>3, <3>1, FileReset
    <3> QED  BY <3>1, <3>2, Nothing
  <2>2. CASE p \notin request.changeset.paths
    <3>1. local'[p] = local[p] /\ mine'[p] = mine[p]  BY <1>1, <2>2
    <3> QED  BY <1>1, <3>1, FileRests
  <2> QED  BY <2>1, <2>2
<1>5. /\ queue' \in Queues /\ W!Held' \subseteq W!Held
      /\ \A i \in Items : queue'[i] = "ready" => queue[i] = "ready"
  BY <1>0, <1>2 DEF WorkTypes, Queues, W!Held
<1>6. WorkTypes'
  <2>1. local' \in WorkFiles /\ mine' \in WorkFiles  BY <1>0, <1>1, Nothing DEF WorkTypes, WorkFiles
  <2> QED  BY <1>0, <1>1, <1>5, <2>1, Nothing DEF WorkTypes
<1>7. \A p \in Concepts : (local'[p].of \cup mine'[p].of) \ ever'[p] \subseteq (local[p].of \cup mine[p].of) \ ever[p]
  BY <1>1, <1>4
<1>8. Owned'  BY <1>0, <1>1, <1>5, <1>7, OwnedKeeps
<1>9. Sent' /\ Loaded'  BY <1>0, <1>1, Nothing DEF Sent, Loaded
<1> QED  BY <1>4, <1>6, <1>8, <1>9 DEF WorkInv, Filed

-----------------------------------------------------------------------------
(* A pull. *)

(* It moves files while no changeset is sent, and brings nothing that was not published. *)
LEMMA PullMoves ==
    ASSUME WorkInv, request.status = "none", whole' \in BOOLEAN, pull' \in Pulls,
           UNCHANGED <<branch, rev, ever, queue, lease, request, batched, sent, queued>>,
           local' \in WorkFiles, mine' \in WorkFiles, base' \in WorkFiles, hashes' \in WorkFiles, discard' \in WorkFiles,
           \A p \in Concepts : FileInv(p)',
           \A p \in Concepts : local'[p].of \cup mine'[p].of \subseteq local[p].of \cup mine[p].of \cup ever[p]
    PROVE  WorkInv'
<1>0. WorkTypes /\ Loaded /\ Owned  BY DEF WorkInv
<1>1. WorkTypes'  BY <1>0 DEF WorkTypes
<1>2. Sent' /\ Loaded'  BY <1>0 DEF Sent, Loaded
<1>3. W!Held' = W!Held  BY DEF W!Held
<1>4. \A p \in Concepts : (local'[p].of \cup mine'[p].of) \ ever'[p] \subseteq (local[p].of \cup mine[p].of) \ ever[p]
  OBVIOUS
<1>5. Owned'  BY <1>0, <1>3, <1>4, OwnedKeeps
<1> QED  BY <1>1, <1>2, <1>5 DEF WorkInv, Filed

(* It plans for every file. *)
LEMMA FetchKeeps == WorkInv /\ W!Fetch => WorkInv'
<1> SUFFICES ASSUME WorkInv, W!Fetch PROVE WorkInv'  OBVIOUS
<1>0. WorkTypes /\ Filed  BY DEF WorkInv
<1>1. /\ UNCHANGED <<branch, rev, ever, queue, lease, local, mine, base, hashes, discard, request, whole, batched, sent, queued>>
      /\ pull.stage = "none" /\ request.status = "none"
      /\ pull' = [stage |-> "files", new |-> branch, plan |-> [p \in Concepts |-> W!Plan(p, branch[p])]]
  BY DEF W!Fetch, W!disk, W!writer, W!branch, W!history, W!underway, W!Ready
<1>2. pull' \in Pulls
  <2>1. \A p \in Concepts : W!Plan(p, branch[p]) \in {"done", "taken", "committed", "conflict", "take"}
    BY DEF W!Plan
  <2> QED  BY <1>0, <1>1, <2>1 DEF WorkTypes, Pulls
<1>3. ASSUME NEW p \in Concepts PROVE FileInv(p)'
  <2>0. Aged(p) /\ Known(p) /\ Rooted(p)  BY <1>0 DEF Filed, FileInv
  <2>1. pull'.stage = "files" /\ pull'.new[p] = branch[p] /\ pull'.plan[p] = W!Plan(p, branch[p])  BY <1>1
  <2>2. branch[p] \in WorkFile /\ hashes[p] \in WorkFile /\ Since(branch[p], branch[p])
    BY <1>0, FilesRead, SinceOrders
  <2>3. W!Touched(p)' = W!Touched(p) /\ Fresh(p)' = Fresh(p)  BY <1>1 DEF W!Touched, Fresh
  <2>4. Aged(p)' /\ Known(p)'  BY <1>1, <2>0, <2>1, <2>2 DEF Aged, Known
  <2>5. Rooted(p)'  BY <1>1, <2>0, <2>1, <2>3 DEF Rooted
  <2>6. Planned(p)'
    <3>1. ASSUME pull'.plan[p] = "done" PROVE Settled(p)'
      <4>1. hashes[p] = branch[p]  BY <2>1, <3>1 DEF W!Plan, W!Kept
      <4>2. Fresh(p)  BY <2>0, <2>2, <4>1, SinceOrders DEF Rooted
      <4> QED  BY <1>1, <2>1, <2>3, <4>1, <4>2 DEF Settled
    <3>2. pull'.plan[p] # "taken"  BY <2>1 DEF W!Plan
    <3>3. pull'.plan[p] = "committed" => local[p].of \subseteq ever[p]
      BY <2>0, <2>1 DEF W!Plan, W!Committed, Known
    <3>4. pull'.plan[p] = "take" => local[p] = hashes[p] \/ local[p] = branch[p]  BY <2>1 DEF W!Plan, W!Edited
    <3>5. pull'.plan[p] = "take" => local[p].of \subseteq ever[p]  BY <2>0, <3>4 DEF Known
    <3>6. pull'.plan[p] = "conflict" => hashes[p] # branch[p] /\ local[p] # hashes[p]
      BY <2>1 DEF W!Plan, W!Edited, W!Kept
    <3>7. whole /\ local[p] # hashes[p] => W!Touched(p)  BY <1>1, <2>0 DEF Rooted, Fresh
    <3> QED  BY <1>1, <2>1, <2>3, <3>1, <3>2, <3>3, <3>5, <3>6, <3>7 DEF Planned
  <2> QED  BY <2>4, <2>5, <2>6 DEF FileInv
<1>4. \A p \in Concepts : local'[p].of \cup mine'[p].of \subseteq local[p].of \cup mine[p].of \cup ever[p]  BY <1>1
<1> QED  BY <1>0, <1>1, <1>2, <1>3, <1>4, PullMoves DEF WorkTypes

(* While a pull runs, no changeset is sent. *)
LEMMA PullAlone == WorkInv /\ pull.stage # "none" => request.status = "none"
  BY DEF WorkInv, Sent

(* A conflict's local version goes aside. *)
LEMMA SetAsideKeeps ==
    ASSUME WorkInv, NEW q \in Concepts, W!SetAside(q)
    PROVE  WorkInv' /\ (whole => \A i \in Items, p \in Concepts : ~W!Lost(i, p))
<1>0. WorkTypes /\ Filed /\ request.status = "none"  BY PullAlone DEF WorkInv, W!SetAside
<1> DEFINE aside == IF local[q] # W!NoFile THEN local[q] ELSE mine[q]
<1>1. /\ UNCHANGED <<branch, rev, ever, queue, lease, base, hashes, discard, request, whole, batched, sent, queued>>
      /\ pull.stage = "files" /\ pull.plan[q] = "conflict"
      /\ mine' = [mine EXCEPT ![q] = aside] /\ local' = [local EXCEPT ![q] = W!NoFile]
      /\ pull' = [pull EXCEPT !.plan[q] = "take"]
  BY DEF W!SetAside, W!writer, W!branch, W!history, W!underway
<1>2. /\ local[q] \in WorkFile /\ mine[q] \in WorkFile /\ base[q] \in WorkFile /\ hashes[q] \in WorkFile
      /\ branch[q] \in WorkFile /\ pull.new[q] \in WorkFile
  BY <1>0, FilesRead
<1>3. aside \in WorkFile /\ (local[q] # W!NoFile => aside = local[q]) /\ (aside = local[q] \/ aside = mine[q])
  BY <1>2
<1> HIDE DEF aside
<1>4. /\ local' \in WorkFiles /\ mine' \in WorkFiles /\ local'[q] = W!NoFile /\ mine'[q] = aside
      /\ \A p \in Concepts : p # q => local'[p] = local[p] /\ mine'[p] = mine[p]
  BY <1>0, <1>1, <1>3, Nothing DEF WorkTypes, WorkFiles
<1>5. /\ pull' \in Pulls /\ pull'.stage = "files" /\ pull'.new = pull.new /\ pull'.plan[q] = "take"
      /\ \A p \in Concepts : p # q => pull'.plan[p] = pull.plan[p]
  BY <1>0, <1>1 DEF WorkTypes, Pulls
<1>6. ASSUME NEW p \in Concepts PROVE FileInv(p)'
  <2>1. CASE p # q  BY <1>1, <1>4, <1>5, <2>1, FileRests
  <2>2. CASE p = q
    <3>0. Aged(q) /\ Known(q) /\ Rooted(q) /\ Planned(q)  BY <1>0 DEF Filed, FileInv
    <3>1. Aged(q)' /\ Known(q)'  BY <1>1, <1>5, <3>0 DEF Aged, Known
    <3>2. hashes[q].stamp < branch[q].stamp
      <4>1. hashes[q] # pull.new[q]  BY <1>1, <3>0 DEF Planned
      <4>2. Since(hashes[q], pull.new[q]) /\ Since(pull.new[q], branch[q])  BY <1>1, <1>2, <3>0, SinceOrders DEF Aged
      <4> QED  BY <1>2, <4>1, <4>2, SinceOrders
    <3>3. Rooted(q)'  BY <1>1, <1>5, <3>0, <3>2 DEF Rooted
    <3>4. Planned(q)'  BY <1>4, <1>5, Nothing DEF Planned
    <3> QED  BY <2>2, <3>1, <3>3, <3>4 DEF FileInv
  <2> QED  BY <2>1, <2>2
<1>7. \A p \in Concepts : local'[p].of \cup mine'[p].of \subseteq local[p].of \cup mine[p].of \cup ever[p]
  BY <1>3, <1>4, Nothing
<1>8. WorkInv'  BY <1>0, <1>1, <1>4, <1>5, <1>6, <1>7, PullMoves DEF WorkTypes
<1>9. ASSUME whole, NEW i \in Items, NEW p \in Concepts PROVE ~W!Lost(i, p)
  <2>1. CASE p = q
    <3>1. W!Touched(q)  BY <1>0, <1>1, <1>9 DEF Filed, FileInv, Planned
    <3>2. local[q] # W!NoFile  BY <3>1, Nothing DEF W!Touched
    <3> QED  BY <1>3, <1>4, <2>1, <3>1, <3>2 DEF W!Lost
  <2>2. CASE p # q  BY <1>4, <2>2 DEF W!Lost
  <2> QED  BY <2>1, <2>2
<1> QED  BY <1>8, <1>9

(* The server's version takes a file's place. *)
LEMMA TakeServersKeeps ==
    ASSUME WorkInv, NEW q \in Concepts, W!TakeServers(q)
    PROVE  WorkInv' /\ \A i \in Items, p \in Concepts : ~W!Lost(i, p)
<1>0. WorkTypes /\ Filed /\ request.status = "none"  BY PullAlone DEF WorkInv, W!TakeServers
<1> DEFINE next == IF pull.plan[q] = "committed" THEN "taken" ELSE "done"
<1>1. /\ UNCHANGED <<branch, rev, ever, queue, lease, mine, base, hashes, discard, request, whole, batched, sent, queued>>
      /\ pull.stage = "files" /\ pull.plan[q] \in {"take", "committed"}
      /\ local' = [local EXCEPT ![q] = pull.new[q]]
      /\ pull' = [pull EXCEPT !.plan[q] = next]
  BY DEF W!TakeServers, W!writer, W!branch, W!history, W!underway
<1>2. /\ local[q] \in WorkFile /\ base[q] \in WorkFile /\ hashes[q] \in WorkFile
      /\ branch[q] \in WorkFile /\ pull.new[q] \in WorkFile
  BY <1>0, FilesRead
<1>3. next \in {"done", "taken"}  OBVIOUS
<1> HIDE DEF next
<1>4. /\ local' \in WorkFiles /\ local'[q] = pull.new[q]
      /\ \A p \in Concepts : p # q => local'[p] = local[p]
  BY <1>0, <1>1, <1>2 DEF WorkTypes, WorkFiles
<1>5. /\ pull' \in Pulls /\ pull'.stage = "files" /\ pull'.new = pull.new /\ pull'.plan[q] = next
      /\ \A p \in Concepts : p # q => pull'.plan[p] = pull.plan[p]
  BY <1>0, <1>1, <1>3 DEF WorkTypes, Pulls
<1>6. Aged(q) /\ Known(q) /\ Rooted(q) /\ Planned(q)  BY <1>0 DEF Filed, FileInv
<1>7. pull.new[q].of \subseteq ever[q] /\ local[q].of \subseteq ever[q]  BY <1>1, <1>6 DEF Known, Planned
<1>8. ASSUME NEW p \in Concepts PROVE FileInv(p)'
  <2>1. CASE p # q  BY <1>1, <1>4, <1>5, <2>1, FileRests
  <2>2. CASE p = q
    <3>1. Aged(q)' /\ Known(q)'  BY <1>1, <1>5, <1>6 DEF Aged, Known
    <3>2. pull.new[q] = hashes[q] \/ hashes[q].stamp < branch[q].stamp
      <4>1. Since(hashes[q], pull.new[q]) /\ Since(pull.new[q], branch[q])  BY <1>1, <1>2, <1>6, SinceOrders DEF Aged
      <4> QED  BY <1>2, <4>1, SinceOrders
    <3>3. Rooted(q)'  BY <1>1, <1>4, <1>5, <1>6, <3>2 DEF Rooted, Fresh
    <3>4. Planned(q)'  BY <1>3, <1>4, <1>5 DEF Planned, Settled
    <3> QED  BY <2>2, <3>1, <3>3, <3>4 DEF FileInv
  <2> QED  BY <2>1, <2>2
<1>9. \A p \in Concepts : local'[p].of \cup mine'[p].of \subseteq local[p].of \cup mine[p].of \cup ever[p]
  BY <1>1, <1>4, <1>7
<1>10. WorkInv'  BY <1>0, <1>1, <1>4, <1>5, <1>8, <1>9, PullMoves DEF WorkTypes
<1>11. \A i \in Items, p \in Concepts : ~W!Lost(i, p)  BY <1>1, <1>4, <1>7 DEF W!Lost
<1> QED  BY <1>10, <1>11

(* The base is replaced, once every file is done. *)
LEMMA ReplaceBaseKeeps ==
    WorkInv /\ W!ReplaceBase => WorkInv' /\ \A i \in Items, p \in Concepts : ~W!Lost(i, p)
<1> SUFFICES ASSUME WorkInv, W!ReplaceBase PROVE WorkInv' /\ \A i \in Items, p \in Concepts : ~W!Lost(i, p)
  OBVIOUS
<1>0. WorkTypes /\ Filed /\ request.status = "none"  BY PullAlone DEF WorkInv, W!ReplaceBase
<1>1. /\ UNCHANGED <<branch, rev, ever, queue, lease, local, hashes, discard, request, whole, batched, sent, queued>>
      /\ pull.stage = "files" /\ \A p \in Concepts : pull.plan[p] \in {"done", "taken"}
      /\ mine' = [p \in Concepts |-> IF pull.plan[p] = "taken" THEN W!NoFile ELSE mine[p]]
      /\ base' = pull.new /\ pull' = [pull EXCEPT !.stage = "state"]
  BY DEF W!ReplaceBase, W!writer, W!branch, W!history, W!underway
<1>2. mine' \in WorkFiles /\ base' \in WorkFiles  BY <1>0, <1>1, Nothing DEF WorkTypes, WorkFiles, Pulls
<1>3. pull' \in Pulls /\ pull'.stage = "state" /\ pull'.new = pull.new /\ pull'.plan = pull.plan
  BY <1>0, <1>1 DEF WorkTypes, Pulls
<1>4. ASSUME NEW p \in Concepts PROVE FileInv(p)'
  <2>0. Aged(p) /\ Known(p) /\ Rooted(p) /\ Planned(p)  BY <1>0 DEF Filed, FileInv
  <2>1. base[p] \in WorkFile /\ hashes[p] \in WorkFile /\ pull.new[p] \in WorkFile /\ base'[p] = pull.new[p]
    BY <1>0, <1>1, FilesRead
  <2>2. Since(hashes[p], pull.new[p]) /\ Since(pull.new[p], pull.new[p])  BY <1>1, <2>0, <2>1, SinceOrders DEF Aged
  <2>3. W!Touched(p)' = W!Touched(p) /\ Fresh(p)' = Fresh(p) /\ Settled(p)' = Settled(p)
    BY <1>1, <1>3 DEF W!Touched, Fresh, Settled
  <2>4. Aged(p)'  BY <1>1, <1>3, <2>0, <2>1, <2>2 DEF Aged
  <2>5. Known(p)'  BY <1>1, <1>3, <2>0, <2>1 DEF Known
  <2>6. Rooted(p)'  BY <1>1, <1>3, <2>0, <2>3 DEF Rooted
  <2>7. Settled(p)  BY <1>1, <2>0 DEF Planned, Settled
  <2>8. Planned(p)'  BY <1>3, <2>3, <2>7 DEF Planned
  <2> QED  BY <2>4, <2>5, <2>6, <2>8 DEF FileInv
<1>5. \A p \in Concepts : local'[p].of \cup mine'[p].of \subseteq local[p].of \cup mine[p].of \cup ever[p]
  BY <1>1, Nothing
<1>6. WorkInv'  BY <1>0, <1>1, <1>2, <1>3, <1>4, <1>5, PullMoves DEF WorkTypes
<1>7. \A i \in Items, p \in Concepts : ~W!Lost(i, p)  BY <1>1 DEF W!Lost
<1> QED  BY <1>6, <1>7

(* The pull is written down. *)
LEMMA SaveStateKeeps == WorkInv /\ W!SaveState => WorkInv'
<1> SUFFICES ASSUME WorkInv, W!SaveState PROVE WorkInv'  OBVIOUS
<1>0. WorkTypes /\ Filed /\ request.status = "none"  BY PullAlone DEF WorkInv, W!SaveState
<1>1. /\ UNCHANGED <<branch, rev, ever, queue, lease, local, mine, base, request, batched, sent, queued>>
      /\ pull.stage = "state" /\ hashes' = pull.new /\ discard' = [p \in Concepts |-> W!NoFile]
      /\ pull' = W!NoPull /\ whole' = TRUE
  BY DEF W!SaveState, W!writer, W!branch, W!underway
<1>2. hashes' \in WorkFiles /\ discard' \in WorkFiles /\ pull' \in Pulls /\ pull'.stage = "none"
  BY <1>0, <1>1, Nothing DEF WorkTypes, WorkFiles, Pulls
<1>3. ASSUME NEW p \in Concepts PROVE FileInv(p)'
  <2>0. Aged(p) /\ Known(p) /\ Planned(p)  BY <1>0 DEF Filed, FileInv
  <2>1. hashes'[p] = pull.new[p] /\ base[p] = pull.new[p] /\ discard'[p].of = {}  BY <1>1, <2>0, Nothing DEF Aged
  <2>2. pull.new[p] \in WorkFile  BY <1>0, FilesRead
  <2>3. Since(pull.new[p], pull.new[p])  BY <2>2, SinceOrders
  <2>4. Aged(p)' /\ Known(p)'  BY <1>1, <1>2, <2>0, <2>1, <2>3 DEF Aged, Known
  <2>5. Fresh(p)'
    <3>1. Settled(p)  BY <1>1, <2>0 DEF Planned
    <3> QED  BY <1>1, <2>1, <3>1 DEF Settled, Fresh, W!Touched
  <2>6. Rooted(p)' /\ Planned(p)'  BY <1>1, <1>2, <2>1, <2>5 DEF Rooted, Planned
  <2> QED  BY <2>4, <2>6 DEF FileInv
<1>4. \A p \in Concepts : local'[p].of \cup mine'[p].of \subseteq local[p].of \cup mine[p].of \cup ever[p]  BY <1>1
<1> QED  BY <1>0, <1>1, <1>2, <1>3, <1>4, PullMoves DEF WorkTypes

(* A pull cut short leaves the files as they are. *)
LEMMA CutKeeps == WorkInv /\ W!Cut => WorkInv'
<1> SUFFICES ASSUME WorkInv, W!Cut PROVE WorkInv'  OBVIOUS
<1>0. WorkTypes /\ Filed /\ request.status = "none"  BY PullAlone DEF WorkInv, W!Cut
<1>1. /\ UNCHANGED <<branch, rev, ever, queue, lease, local, mine, base, hashes, discard, request, batched, sent, queued>>
      /\ pull' = W!NoPull /\ whole' = FALSE
  BY DEF W!Cut, W!disk, W!writer, W!branch, W!underway
<1>2. pull' \in Pulls /\ pull'.stage = "none"  BY <1>1, Nothing
<1>3. ASSUME NEW p \in Concepts PROVE FileInv(p)'
  <2>0. Aged(p) /\ Known(p) /\ Rooted(p)  BY <1>0 DEF Filed, FileInv
  <2>1. Aged(p)' /\ Known(p)'  BY <1>1, <1>2, <2>0 DEF Aged, Known
  <2>2. Fresh(p)' = Fresh(p)  BY <1>1 DEF Fresh, W!Touched
  <2>3. Rooted(p)' /\ Planned(p)'  BY <1>1, <1>2, <2>0, <2>2 DEF Rooted, Planned
  <2> QED  BY <2>1, <2>3 DEF FileInv
<1>4. \A p \in Concepts : local'[p].of \cup mine'[p].of \subseteq local[p].of \cup mine[p].of \cup ever[p]  BY <1>1
<1> QED  BY <1>0, <1>1, <1>2, <1>3, <1>4, PullMoves DEF WorkTypes

-----------------------------------------------------------------------------
(* Every step keeps it, ... *)
LEMMA WorkNext == WorkInv /\ [W!Next]_(W!vars) => WorkInv'
<1> SUFFICES ASSUME WorkInv, [W!Next]_(W!vars) PROVE WorkInv'  OBVIOUS
<1>1. CASE \E p \in Concepts : W!OtherPublishes(p) \/ W!SetAside(p) \/ W!TakeServers(p)
  BY <1>1, OtherPublishesKeeps, SetAsideKeeps, TakeServersKeeps
<1>2. CASE \E i \in Items : \/ \E outcome \in {"skipped", "parked"} : W!Resolve(i, outcome)
                            \/ \E p \in Concepts : W!Edit(i, p)
                            \/ \E batch \in BOOLEAN : W!NextItem(i, batch)
  BY <1>2, ResolveKeeps, EditKeeps, NextItemKeeps
<1>3. CASE W!ResolveAgain \/ W!LeaseLost \/ W!Begin \/ W!Fetch \/ W!ReplaceBase \/ W!SaveState \/ W!Cut
  BY <1>3, ResolveAgainKeeps, LeaseLostKeeps, BeginKeeps, FetchKeeps, ReplaceBaseKeeps, SaveStateKeeps, CutKeeps
<1>4. CASE \E c \in sent \cup queued : W!Accept(c) \/ W!Refuse(c) \/ W!Vanish(c) \/ W!Commit(c) \/ W!Reject(c)
  BY <1>4, ChangesetsKeep, CommitKeeps
<1>5. CASE W!Propose \/ W!NoteCommitted \/ W!NoteRefused \/ W!GiveUp
  BY <1>5, SendKeeps, NoteCommittedKeeps, NoteRefusedKeeps, GiveUpKeeps
<1>6. CASE UNCHANGED W!vars
  <2>1. /\ UNCHANGED <<branch, rev, ever, queue, lease, local, mine, base, hashes, discard, pull, whole, batched>>
        /\ UNCHANGED <<request, sent, queued>> /\ request \in Asked
    BY <1>6 DEF W!vars, WorkInv, WorkTypes
  <2> QED  BY <2>1, AnswersKeep
<1> QED  BY <1>1, <1>2, <1>3, <1>4, <1>5, <1>6 DEF W!Next

(* ... and with it nothing on the branch is overwritten, ... *)
LEMMA WorkGrows ==
    WorkInv /\ [W!Next]_(W!vars) =>
        [(\A p \in Concepts : branch[p].of \subseteq branch'[p].of) \/ \E c \in queued \ queued' : c.torn]_(W!vars)
<1> DEFINE Grows == \A p \in Concepts : branch[p].of \subseteq branch'[p].of
<1> SUFFICES ASSUME WorkInv, W!Next PROVE Grows \/ \E c \in queued \ queued' : c.torn
  OBVIOUS
<1>1. CASE \E c \in sent \cup queued : W!Commit(c)
  <2>1. PICK c \in sent \cup queued : W!Commit(c)  BY <1>1
  <2>2. c \in queued /\ c \notin queued'  BY <2>1 DEF W!Commit
  <2>3. ~c.torn => Grows  BY <2>1, CommitKeeps
  <2> QED  BY <2>2, <2>3
<1>2. CASE \E q \in Concepts : W!OtherPublishes(q)
  <2>1. PICK q \in Concepts : W!OtherPublishes(q)  BY <1>2
  <2>2. PICK edit \in {{}, {rev + 1}} : branch' = [branch EXCEPT ![q] = [of |-> branch[q].of \cup edit, stamp |-> rev + 1]]
    BY <2>1 DEF W!OtherPublishes
  <2>3. branch \in WorkFiles  BY DEF WorkInv, WorkTypes
  <2> QED  BY <2>2, <2>3 DEF WorkFiles
<1>3. CASE branch' = branch  BY <1>3
<1>4. CASE \E p \in Concepts : W!SetAside(p) \/ W!TakeServers(p)
  BY <1>3, <1>4 DEF W!SetAside, W!TakeServers, W!writer, W!branch
<1>5. CASE \E i \in Items : \/ \E outcome \in {"skipped", "parked"} : W!Resolve(i, outcome)
                            \/ \E p \in Concepts : W!Edit(i, p)
                            \/ \E batch \in BOOLEAN : W!NextItem(i, batch)
  BY <1>3, <1>5 DEF W!Resolve, W!Edit, W!NextItem, W!writer, W!branch
<1>6. CASE W!ResolveAgain \/ W!LeaseLost \/ W!Begin \/ W!Fetch \/ W!ReplaceBase \/ W!SaveState \/ W!Cut
  BY <1>3, <1>6
     DEF W!ResolveAgain, W!LeaseLost, W!Begin, W!Fetch, W!ReplaceBase, W!SaveState, W!Cut, W!writer, W!branch
<1>7. CASE \E c \in sent \cup queued : W!Accept(c) \/ W!Refuse(c) \/ W!Vanish(c) \/ W!Reject(c)
  BY <1>3, <1>7 DEF W!Accept, W!Refuse, W!Vanish, W!Reject, W!writer, W!branch
<1>8. CASE W!Propose \/ W!NoteCommitted \/ W!NoteRefused \/ W!GiveUp
  BY <1>3, <1>8 DEF W!Propose, W!NoteCommitted, W!NoteRefused, W!GiveUp, W!writer, W!branch
<1> QED  BY <1>1, <1>2, <1>4, <1>5, <1>6, <1>7, <1>8 DEF W!Next

(* ... no pull loses an edit unless the one before was cut, ... *)
LEMMA WorkKeepsEdits ==
    WorkInv /\ [W!Next]_(W!vars) =>
        [pull.stage # "none" /\ whole => \A i \in Items, p \in Concepts : ~W!Lost(i, p)]_(W!vars)
<1> SUFFICES ASSUME WorkInv, W!Next, pull.stage # "none", whole, NEW i \in Items, NEW p \in Concepts
             PROVE  ~W!Lost(i, p)
  OBVIOUS
<1>1. local' = local /\ mine' = mine => ~W!Lost(i, p)  BY DEF W!Lost
<1>2. request.status = "none"  BY PullAlone
<1>3. CASE \E q \in Concepts : W!SetAside(q)  BY <1>3, SetAsideKeeps
<1>4. CASE \E q \in Concepts : W!TakeServers(q)  BY <1>4, TakeServersKeeps
<1>5. CASE W!ReplaceBase  BY <1>5, ReplaceBaseKeeps
<1>6. CASE (\E q \in Concepts : W!OtherPublishes(q)) \/ W!LeaseLost \/ W!SaveState \/ W!Cut
  BY <1>1, <1>6 DEF W!OtherPublishes, W!LeaseLost, W!SaveState, W!Cut, W!disk
<1>7. CASE \E c \in sent \cup queued : W!Accept(c) \/ W!Refuse(c) \/ W!Vanish(c) \/ W!Commit(c) \/ W!Reject(c)
  BY <1>1, <1>7 DEF W!Accept, W!Refuse, W!Vanish, W!Commit, W!Reject, W!disk
<1>8. ~W!Ready /\ ~W!Begin /\ ~W!Fetch /\ ~W!Propose /\ ~W!ResolveAgain
  BY DEF W!Ready, W!Begin, W!Fetch, W!Propose, W!ResolveAgain
<1>9. \A j \in Items : /\ \A outcome \in {"skipped", "parked"} : ~W!Resolve(j, outcome)
                       /\ \A q \in Concepts : ~W!Edit(j, q)
                       /\ \A batch \in BOOLEAN : ~W!NextItem(j, batch)
  BY <1>8 DEF W!Resolve, W!Edit, W!NextItem
<1>10. ~W!NoteCommitted /\ ~W!NoteRefused /\ ~W!GiveUp
  BY <1>2 DEF W!NoteCommitted, W!NoteRefused, W!GiveUp
<1> QED  BY <1>3, <1>4, <1>5, <1>6, <1>7, <1>8, <1>9, <1>10 DEF W!Next

(* ... and a changeset carries no edit of an item that is back in the queue, nor, of a run that takes
   its items one by one, of any but its own. *)
LEMMA WorkSafe == WorkInv => W!TypeOK /\ W!OwnEditsOnly
<1> SUFFICES ASSUME WorkInv PROVE W!TypeOK /\ W!OwnEditsOnly  OBVIOUS
<1>0. WorkTypes /\ Sent /\ Owned  BY DEF WorkInv
<1>1. \A files \in WorkFiles : W!FilesOK(files)  BY DEF W!FilesOK, WorkFiles, WorkFile, Written, W!Edits
<1>2. \A c \in Changesets : W!ChangesetOK(c)  BY DEF W!ChangesetOK, Changesets, Written, W!Edits
<1>3. pull.stage \in {"none", "files", "state"}
      /\ pull.plan \in [Concepts -> {"done", "taken", "committed", "conflict", "take"}]
      /\ request.status \in {"none", "sent", "done", "refused"} /\ request.changeset \in Changesets
  BY <1>0 DEF WorkTypes, Pulls, Asked
<1>4. \A p \in Concepts : ever[p] \subseteq W!Edits  BY <1>0 DEF WorkTypes, Written, W!Edits
<1>5. W!TypeOK  BY <1>0, <1>1, <1>2, <1>3, <1>4 DEF W!TypeOK, WorkTypes, Queues
<1>6. W!Carried \subseteq Items /\ \A i \in W!Carried : Left(i)
  BY <1>3 DEF W!Carried, Left, Changesets
<1>7. W!OwnEditsOnly
  <2> SUFFICES ASSUME request.status = "sent", NEW i \in W!Carried
               PROVE  (lease => queue[i] # "ready") /\ (~batched => i \in request.changeset.items)
    BY DEF W!OwnEditsOnly
  <2> QED  BY <1>0, <1>6 DEF Owned, Sent
<1> QED  BY <1>5, <1>7

(* A workspace is faithful (WorkspaceFaithful of Workspace). *)
LEMMA WorkspaceFaithfulAlone == W!Spec => W!WorkspaceFaithful
<1> QED
  BY WorkInit, WorkNext, WorkSafe, WorkGrows, WorkKeepsEdits, PTL
     DEF W!Spec, W!WorkspaceFaithful, W!NothingOverwritten, W!EditsKept

-----------------------------------------------------------------------------
(* The composition the runs check. *)

(* A behaviour of the composition is one of each part. *)
LEMMA PartsOfAll == AllSpec => Spec /\ C!Spec /\ R!Spec /\ W!Spec
<1>1. AllInit => Init /\ C!Init /\ R!Init /\ W!Init  BY DEF AllInit
<1>2. [AllNext]_allVars => [Next]_vars /\ [C!Next]_(C!vars) /\ [R!Next]_(R!vars) /\ [W!Next]_(W!vars)
  <2>1. UNCHANGED curateVars => UNCHANGED C!vars  BY DEF curateVars, C!vars
  <2>2. UNCHANGED recoveryVars => UNCHANGED R!vars  BY DEF recoveryVars, R!vars
  <2>3. UNCHANGED workspaceVars => UNCHANGED W!vars  BY DEF workspaceVars, W!vars
  <2> QED
    BY <2>1, <2>2, <2>3
       DEF AllNext, allVars, serviceVars, clientVars, AuditStep, CurateStep, RestartStep, WorkspaceStep, GateStep
<1> QED  BY <1>1, <1>2, PTL DEF AllSpec, Spec, C!Spec, R!Spec, W!Spec

(* What a restart says of the job it found is so: done is published, failed is undone, and a      *)
(* failure that may be retried has left nothing (RecoverySound).                                  *)
THEOREM RestartsAreSound == AllSpec => []RecoverySound
  BY PartsOfAll, RestartsTell, PTL DEF RecoverySound

(* A curation agent is contained, and the upload outlives its failures (CurationContained), for   *)
(* any files, leaks of the sandbox and restores that fail.                                        *)
THEOREM CurationsAreContained == AllSpec => []CurationContained
  BY PartsOfAll, CurationsContained, PTL DEF CurationContained

(* An audit agent is contained: what it left goes with its failure, what it did gets out only as  *)
(* judged, and the service's own files beside it stay (AuditContained).                           *)
THEOREM AuditsAreContained == AllSpec => AuditContained
  BY PartsOfAll, AuditsContained, PTL

(* The gate in the composition: at rest in the others' behaviours. *)
LEMMA GateOfAll == AllSpec => G!GateHolds
<1>1. AllInit => GateInv  BY GateInits DEF AllInit
<1>2. [AllNext]_allVars => [G!Next]_(G!vars)
  <2>1. UNCHANGED gateVars => UNCHANGED G!vars  BY DEF gateVars, G!vars
  <2> QED
    BY <2>1 DEF AllNext, allVars, clientVars, AuditStep, CurateStep, RestartStep, WorkspaceStep, GateStep
<1>3. GateInv => G!TypeOK /\ G!VerifiedIsJudged /\ G!ClosedOnEvidence  BY GateTyped DEF GateInv
<1>4. GateInv /\ [G!Next]_(G!vars) =>
        [G!Push => \A p \in G!Touched : G!ContentHash(upstream'[p]) # G!ContentHash(upstream[p]) =>
                       G!ContentHash(upstream[p]) = G!ContentHash(changeset.seen[p])]_(G!vars)
  BY PushFits
<1>5. GateInv /\ [G!Next]_(G!vars) =>
        [G!Push => \A p \in Concepts : upstream[p].status = "deprecated" => upstream'[p] = upstream[p]]_(G!vars)
  BY PushFits
<1>6. GateInv /\ [G!Next]_(G!vars) => [G!Push => \A p \in Concepts : upstream[p].cites \subseteq upstream'[p].cites]_(G!vars)
  BY PushFits
<1>7. GateInv /\ [G!Next]_(G!vars) => [G!Push => G!LinksResolve(upstream', G!Written(txn.base))]_(G!vars)
  BY PushFits
<1> QED
  BY <1>1, <1>2, <1>3, <1>4, <1>5, <1>6, <1>7, GateNext, PTL
     DEF AllSpec, G!GateHolds, G!NoLostUpdate, G!RetiredStays, G!SourcesKept, G!NoBrokenLink

(* What the gate admits fits the branch as it is pushed to (GateHolds): for any concepts, edits,  *)
(* items and commits of others, no edit, retirement, citation or link of theirs is undone, no     *)
(* text is verified but the one an auditor judged, and an item is closed on its own evidence.     *)
THEOREM PushesFit == AllSpec => GateHolds
  BY GateOfAll DEF GateHolds

(* A workspace is faithful (WorkspaceFaithful), for any concepts, items, edits, commits of others, *)
(* lost leases, cut pulls and changesets nobody waits for: a changeset takes nothing away that the *)
(* branch holds of a file, unless it was proposed between a cut pull and the next whole one, it    *)
(* carries no edit of an item that went back to the queue, nor of another item than its own unless *)
(* the run takes them in batches, and no pull loses an edit unless the pull before it was cut.     *)
THEOREM WorkspacesAreFaithful == AllSpec => WorkspaceFaithful
  BY PartsOfAll, WorkspaceFaithfulAlone, PTL DEF WorkspaceFaithful
=============================================================================
