------------------------------ MODULE Maintain ------------------------------
(***************************************************************************)
(* The runner of a source manifest, src/aiwiki/cli/maintain.py, against    *)
(* the receipts of the writer (service/ingest.py): every version of every  *)
(* source is ingested and then audited, whatever answer is lost and        *)
(* whoever dies.  Its state.json is written at every step, so a run that   *)
(* dies is gone after its last step and the next one goes on.              *)
(*                                                                         *)
(* A version of a source is its content.  Cooldowns may have passed or     *)
(* not; the writer takes its queued jobs in any order, as after a restart. *)
(* Left out: evidence that needs conversion, files changed on disk,        *)
(* --retry-now, and a POST the writer still executes after its client gave *)
(* it up.                                                                  *)
(***************************************************************************)
EXTENDS Naturals, Sequences, FiniteSets

CONSTANTS
    Identities,   \* of the sources
    MaxVersions,  \* bound: versions of one
    Cap,          \* ATTEMPT_CAPS
    Slips,        \* MAX_VERDICT_SLIPS, on both sides
    Stops,        \* CAPACITY_BATCH_STOPS
    MaxBuilds,    \* bound: builds of the writer, one deployed after another
    MaxEntries, MaxPosted, MaxOdd   \* bounds: entries, jobs, and what goes wrong or is done by hand

ConstantsOK ==
    {MaxVersions, Cap, Slips, Stops, MaxBuilds, MaxEntries, MaxPosted, MaxOdd} \subseteq Nat /\ Cap > 0 /\ MaxBuilds > 0

VARIABLES
    entries,  \* state.json: the sources, in the order they came
    build,    \* the build /health reports
    receipts, \* the writer's jobs
    run,      \* the invocation under way: its entry, stage, ...
    lost,     \* answers lost and refusals
    imports,
    landed,   \* history: the versions whose ingest landed, in order
    loose     \* history: versions given up with a POST whose outcome was unknown, or with an
              \* attempt nobody waits for any more

vars == <<entries, build, receipts, run, lost, imports, landed, loose>>

NoRun  == [at |-> 0, stage |-> "ingest", step |-> "look", submitted |-> FALSE, blocked |-> {}, answer |-> 0]
Stages == {"ingest", "audit"}
Jobs   == 1..Len(receipts)
Odd    == lost + imports < MaxOdd

(* A source is one version of one identity. *)
Sources == Identities \X (1..MaxVersions)

Entry(source, ingest, audit, orphan) ==
    [source |-> source, ingest |-> ingest, audit |-> audit, orphan |-> orphan,
     status |-> "pending", submitting |-> "none", extra |-> [s \in Stages |-> 0]]

Init ==
    /\ entries = <<>> /\ receipts = <<>>
    /\ build = 1
    /\ run = NoRun
    /\ lost = 0 /\ imports = 0 /\ landed = <<>> /\ loose = {}

-----------------------------------------------------------------------------
(* The writer.  A job's parent is the ingest an audit is of; one that runs is still "queued". *)
Receipt(kind, source, parent) ==
    [kind |-> kind, source |-> source, parent |-> parent, status |-> "queued", class |-> "none",
     rolled |-> FALSE, slip |-> FALSE, build |-> build]

Reusable(j) == receipts[j].status \in {"queued", "done"}

(* find_job_by_sha: a failed job is not found. *)
IngestOf(source) == {j \in Jobs : receipts[j].kind = "ingest" /\ receipts[j].source = source /\ Reusable(j)}

AuditsOf(parent) == {j \in Jobs : receipts[j].kind = "audit" /\ receipts[j].parent = parent}

Newest(found) == IF found = {} THEN 0 ELSE CHOOSE j \in found : \A k \in found : k <= j

(* _reusable_audit: the newest attempt that did not fail; one whose verdict could not be read is
   followed by another review while there are few of them. *)
ReusableAudit(parent) ==
    LET newest == Newest({j \in AuditsOf(parent) : Reusable(j)})
        slips  == {j \in AuditsOf(parent) : receipts[j].slip}
    IN IF newest # 0 /\ newest \in slips /\ Cardinality(slips) < Slips THEN 0 ELSE newest

(* The worker's run of a job, one at a time. *)
Lands(j) ==
    /\ receipts[j].status = "queued"
    /\ \E slip \in {FALSE, receipts[j].kind = "audit"} :
         receipts' = [receipts EXCEPT ![j].status = "done", ![j].slip = slip]
    /\ landed' = IF receipts[j].kind = "ingest" THEN Append(landed, receipts[j].source) ELSE landed
    /\ UNCHANGED <<entries, build, run, lost, imports, loose>>

(* classify: capacity is retried after a while, others up to a cap or never; and a failure says
   whether the attempt is known to be rolled back.  A restart ends in one of these too. *)
Outcomes == {<<"capacity", TRUE>>, <<"counted", TRUE>>, <<"final", TRUE>>, <<"counted", FALSE>>}

Fails(j) ==
    /\ receipts[j].status = "queued"
    /\ \E o \in Outcomes :
         receipts' = [receipts EXCEPT ![j].status = "failed", ![j].class = o[1], ![j].rolled = o[2]]
    /\ UNCHANGED <<entries, build, run, lost, imports, landed, loose>>

Deploy ==
    /\ build < MaxBuilds /\ build' = build + 1
    /\ UNCHANGED <<entries, receipts, run, lost, imports, landed, loose>>

-----------------------------------------------------------------------------
(* An invocation: the manifest's new versions, the orphaned ingests, then one entry after another. *)
Idle == run.at = 0

Versions(identity) == {e \in DOMAIN entries : entries[e].source[1] = identity /\ ~entries[e].orphan}

AddSource(identity) ==
    /\ Idle /\ Len(entries) < MaxEntries
    /\ LET version == Cardinality(Versions(identity)) + 1
       IN /\ version <= MaxVersions
          /\ entries' = Append(entries, Entry(<<identity, version>>, <<>>, <<>>, FALSE))
    /\ UNCHANGED <<build, receipts, run, lost, imports, landed, loose>>

Attempt(j, status) == [job |-> j, status |-> status]

KnownJobs == UNION {{entries[e].ingest[n].job : n \in DOMAIN entries[e].ingest} : e \in DOMAIN entries}

(* pending_audits: what ingested knowledge no audit reviewed or is about to. *)
Orphans == {j \in Jobs : /\ receipts[j].kind = "ingest" /\ receipts[j].status = "done"
                         /\ ReusableAudit(j) = 0}

(* The one sequence of an ingest's failed audits. *)
FailedAudits(j) ==
    LET failed == {k \in AuditsOf(j) : receipts[k].status = "failed"}
    IN {f \in [1..Cardinality(failed) -> failed] : \A m, n \in DOMAIN f : m < n => f[m] < f[n]}

Adopt(j) ==
    /\ Idle /\ Len(entries) < MaxEntries
    /\ j \in Orphans \ KnownJobs
    /\ \E failed \in FailedAudits(j) :
         entries' = Append(entries, Entry(receipts[j].source, <<Attempt(j, "done")>>,
                                          [n \in DOMAIN failed |-> Attempt(failed[n], "failed")], TRUE))
    /\ UNCHANGED <<build, receipts, run, lost, imports, landed, loose>>

(* Ingests of a source that may still land. *)
Landing(source) == {j \in Jobs : /\ receipts[j].kind = "ingest" /\ receipts[j].source = source
                                 /\ receipts[j].status = "queued"}

(* What becomes of `loose` when a source is given up. *)
GivenUp(source) == IF Landing(source) = {} THEN loose ELSE loose \cup {source}

Failed(a) == a.status = "failed"
RolledBack(a) == Failed(a) /\ receipts[a.job].rolled

(* An attempt that leaves nothing to wait for or to repair. *)
Settled(a) == a.status = "done" \/ RolledBack(a)

(* A manifest that names an entry's job: a receipt the entry has not recorded. *)
Import(e, j) ==
    /\ Idle /\ Odd /\ ~entries[e].orphan
    /\ receipts[j].kind = "ingest" /\ receipts[j].source = entries[e].source
    /\ \A n \in DOMAIN entries[e].ingest : entries[e].ingest[n].job # j
    /\ entries' = [entries EXCEPT ![e].ingest = Append(@, Attempt(j, receipts[j].status)),
                                  ![e].submitting = IF @ = "ingest" THEN "none" ELSE @,
                                  ![e].status = IF @ = "done" THEN @ ELSE "pending"]
    /\ imports' = imports + 1
    /\ loose' = IF /\ Landing(entries[e].source) \subseteq {j}
                   /\ \A n \in DOMAIN entries[e].ingest : Settled(entries[e].ingest[n])
                THEN loose ELSE loose \cup {entries[e].source}
    /\ UNCHANGED <<build, receipts, run, lost, landed>>

Drop(e) ==
    /\ Idle
    /\ entries[e].status \in {"pending", "needs_repair"} /\ entries[e].submitting = "none"
    /\ entries' = [entries EXCEPT ![e].status = "dropped"]
    /\ loose' = GivenUp(entries[e].source)
    /\ UNCHANGED <<build, receipts, run, lost, imports, landed>>

StartRun ==
    /\ Idle /\ entries # <<>>
    /\ run' = [NoRun EXCEPT !.at = 1]
    /\ UNCHANGED <<entries, build, receipts, lost, imports, landed, loose>>

(* Between the intent and the record the answer is lost with it. *)
RunnerDies ==
    /\ ~Idle
    /\ IF run.step = "look" THEN UNCHANGED lost ELSE Odd /\ lost' = lost + 1
    /\ run' = NoRun
    /\ UNCHANGED <<entries, build, receipts, imports, landed, loose>>

-----------------------------------------------------------------------------
(* One entry. *)
Now      == entries[run.at]
Attempts == Now[run.stage]
LastOne  == Attempts[Len(Attempts)]
Parent   == Now.ingest[Len(Now.ingest)].job
Looking  == ~Idle /\ run.step = "look" /\ run.at <= Len(entries)

(* The last entry of the identity, when it is not this one. *)
HasNewer == ~Now.orphan /\ \E e \in Versions(Now.source[1]) : e > run.at

NotBlocked == FALSE

(* An earlier version is unfinished. *)
IsBlocked == ~Now.orphan /\ Now.source[1] \in run.blocked

(* The entry leaves with a status; an unfinished one holds its identity's newer versions up. *)
LeaveAs(status, batchStops) ==
    /\ entries' = [entries EXCEPT ![run.at].status = status,
                                  ![run.at].submitting = IF status = "superseded" THEN "none" ELSE @]
    /\ run' = IF batchStops THEN NoRun
              ELSE [NoRun EXCEPT !.at = run.at + 1,
                       !.blocked = IF status = "pending" /\ ~Now.orphan THEN run.blocked \cup {Now.source[1]}
                                   ELSE run.blocked]
    /\ UNCHANGED <<build, receipts, lost, imports, landed>>

SkipEntry ==
    /\ Looking /\ Now.status \in {"done", "superseded", "dropped"}
    /\ run' = [NoRun EXCEPT !.at = run.at + 1, !.blocked = run.blocked]
    /\ UNCHANGED <<entries, build, receipts, lost, imports, landed, loose>>

Process == Looking /\ Now.status \notin {"done", "superseded", "dropped"}

Blocked == Process /\ IsBlocked /\ LeaveAs("pending", FALSE) /\ UNCHANGED loose

Looks == Process /\ ~IsBlocked

EndRun ==
    /\ run.at > Len(entries)
    /\ run' = NoRun
    /\ UNCHANGED <<entries, build, receipts, lost, imports, landed, loose>>

(* The newer version carries the identity forward, unless an attempt may still land. *)
GivesWay ==
    /\ run.stage = "ingest" /\ HasNewer
    /\ \A n \in DOMAIN Attempts : RolledBack(Attempts[n])

Supersede ==
    /\ Looks /\ GivesWay
    /\ loose' = GivenUp(Now.source)
    /\ LeaveAs("superseded", FALSE)

Goes == Looks /\ ~GivesWay

MustSubmit == Now.submitting = run.stage \/ Attempts = <<>>

Counted == {n \in DOMAIN Attempts : Failed(Attempts[n]) /\ receipts[Attempts[n].job].class # "capacity"}

(* A build other than the failed attempt's earns one attempt past the cap. *)
ExtraBuild == build # receipts[LastOne.job].build /\ Now.extra[run.stage] # build

Capped == receipts[LastOne.job].class = "counted" /\ Cardinality(Counted) >= Cap

MayRetry ==
    /\ RolledBack(LastOne) /\ receipts[LastOne.job].class # "final"
    /\ ~Capped \/ ExtraBuild

SlipsSeen == {n \in DOMAIN Attempts : Attempts[n].status = "done" /\ receipts[Attempts[n].job].slip}

(* The reviewer's answer could not be read: one more review. *)
SlipAgain ==
    /\ run.stage = "audit" /\ receipts[LastOne.job].slip
    /\ Cardinality(SlipsSeen) < Slips

(* _submit: what is about to be posted is saved first.  An orphan has no evidence to post. *)
Intend ==
    /\ Goes /\ ~(run.stage = "ingest" /\ Now.orphan)
    /\ \/ MustSubmit
       \/ ~MustSubmit /\ LastOne.status = "failed" /\ MayRetry /\ ~run.submitted
       \/ ~MustSubmit /\ LastOne.status = "done" /\ SlipAgain
    /\ LET past == ~MustSubmit /\ LastOne.status = "failed" /\ Capped
       IN entries' = [entries EXCEPT ![run.at].submitting = run.stage,
                          ![run.at].extra[run.stage] = IF past THEN build ELSE @]
    /\ run' = [run EXCEPT !.step = "post"]
    /\ UNCHANGED <<build, receipts, lost, imports, landed, loose>>

Found == IF run.stage = "ingest" THEN Newest(IngestOf(Now.source)) ELSE ReusableAudit(Parent)

(* The writer executes the POST: the job it has, or a new one. *)
Posted(j) ==
    /\ Found \in {0, j} /\ (Found = 0 => j = Len(receipts) + 1 /\ j <= MaxPosted)
    /\ run.stage = "audit" => receipts[Parent].status = "done"
    /\ receipts' = IF Found # 0 THEN receipts
                   ELSE Append(receipts, Receipt(run.stage, Now.source, IF run.stage = "audit" THEN Parent ELSE 0))

Post(j) ==
    /\ run.step = "post" /\ Posted(j)
    /\ run' = [run EXCEPT !.step = "answer", !.answer = j]
    /\ UNCHANGED <<entries, build, lost, imports, landed, loose>>

(* The answer is lost, or the POST was: the next run posts again. *)
PostLost ==
    /\ run.step = "post" /\ Odd
    /\ lost' = lost + 1
    /\ \/ UNCHANGED receipts
       \/ \E j \in 1..MaxPosted : Posted(j)
    /\ run' = [NoRun EXCEPT !.at = run.at + 1,
                  !.blocked = IF Now.orphan THEN run.blocked ELSE run.blocked \cup {Now.source[1]}]
    /\ entries' = [entries EXCEPT ![run.at].status = "pending"]
    /\ UNCHANGED <<build, imports, landed, loose>>

(* The writer refuses: the same request cannot help, unless it was throttled or in progress. *)
Refused ==
    /\ run.step = "post" /\ Odd
    /\ lost' = lost + 1
    /\ \E status \in {"pending", "needs_repair"} :
         /\ entries' = [entries EXCEPT ![run.at].status = status, ![run.at].submitting = "none"]
         /\ run' = [NoRun EXCEPT !.at = run.at + 1,
                       !.blocked = IF status = "pending" /\ ~Now.orphan THEN run.blocked \cup {Now.source[1]}
                                   ELSE run.blocked]
    /\ loose' = IF run.stage = "ingest" THEN GivenUp(Now.source) ELSE loose
    /\ UNCHANGED <<build, receipts, imports, landed>>

(* The job is the last attempt, or a new one. *)
Recorded(attempts, j, status) ==
    IF attempts # <<>> /\ attempts[Len(attempts)].job = j
    THEN [attempts EXCEPT ![Len(attempts)] = Attempt(j, status)]
    ELSE Append(attempts, Attempt(j, status))

(* The answer to an ingest names the job only; an audit's is the job. *)
Record ==
    /\ run.step = "answer"
    /\ LET status == IF run.stage = "ingest" THEN "queued" ELSE receipts[run.answer].status
       IN entries' = [entries EXCEPT ![run.at][run.stage] = Recorded(@, run.answer, status),
                                     ![run.at].submitting = "none"]
    /\ run' = [run EXCEPT !.step = "look", !.submitted = TRUE, !.answer = 0]
    /\ UNCHANGED <<build, receipts, lost, imports, landed, loose>>

Refresh ==
    /\ Goes /\ ~MustSubmit /\ LastOne.status = "queued"
    /\ LastOne.status # receipts[LastOne.job].status
    /\ entries' = [entries EXCEPT ![run.at][run.stage] =
                       Recorded(@, LastOne.job, receipts[LastOne.job].status)]
    /\ UNCHANGED <<build, receipts, run, lost, imports, landed, loose>>

StageDone == Goes /\ ~MustSubmit /\ LastOne.status = "done" /\ ~SlipAgain

NextStage ==
    /\ StageDone /\ run.stage = "ingest"
    /\ run' = [run EXCEPT !.stage = "audit", !.submitted = FALSE]
    /\ UNCHANGED <<entries, build, receipts, lost, imports, landed, loose>>

Finish == StageDone /\ run.stage = "audit" /\ LeaveAs("done", FALSE) /\ UNCHANGED loose

Repair ==
    /\ Goes /\ ~MustSubmit /\ LastOne.status = "failed" /\ ~MayRetry
    /\ LeaveAs("needs_repair", FALSE) /\ UNCHANGED loose

(* capacity: the writer as a whole is refused, unless this entry alone keeps being. *)
CapacityStreak ==
    Cardinality({n \in DOMAIN Attempts :
        \A k \in n..Len(Attempts) : Failed(Attempts[k]) /\ receipts[Attempts[k].job].class = "capacity"})

(* A cooldown, one attempt spent in this run, or a poll that ends before the job does. *)
Postpone ==
    /\ Goes /\ ~MustSubmit /\ UNCHANGED loose
    /\ \/ /\ LastOne.status = "failed" /\ MayRetry
          /\ LeaveAs("pending", receipts[LastOne.job].class = "capacity" /\ CapacityStreak <= Stops)
       \/ /\ LastOne.status = "queued"
          /\ LeaveAs("pending", FALSE)

Next ==
    \/ \E j \in Jobs : Lands(j) \/ Fails(j) \/ Adopt(j)
    \/ \E i \in Identities : AddSource(i)
    \/ \E e \in DOMAIN entries : Drop(e) \/ \E j \in Jobs : Import(e, j)
    \/ \E j \in 1..MaxPosted : Post(j)
    \/ Deploy \/ StartRun \/ RunnerDies \/ SkipEntry \/ Blocked \/ EndRun \/ Supersede
    \/ Intend \/ PostLost \/ Refused \/ Record \/ Refresh
    \/ NextStage \/ Finish \/ Repair \/ Postpone

Spec == Init /\ [][Next]_vars

-----------------------------------------------------------------------------
Statuses == {"queued", "done", "failed"}
AttemptSet == [job: 1..MaxPosted, status: Statuses]

(* The type of every variable. *)
TypeOK ==
    /\ \A e \in DOMAIN entries :
         /\ entries[e].source \in Sources /\ entries[e].orphan \in BOOLEAN
         /\ entries[e].ingest \in Seq(AttemptSet) /\ entries[e].audit \in Seq(AttemptSet)
         /\ entries[e].status \in {"pending", "done", "needs_repair", "superseded", "dropped"}
         /\ entries[e].submitting \in Stages \cup {"none"}
         /\ entries[e].extra \in [Stages -> 0..MaxBuilds]
    /\ build \in 1..MaxBuilds
    /\ \A j \in Jobs :
         receipts[j] \in [kind: Stages, source: Sources, parent: 0..MaxPosted, status: Statuses,
                          class: {"none", "capacity", "counted", "final"}, rolled: BOOLEAN,
                          slip: BOOLEAN, build: 1..MaxBuilds]
    /\ run \in [at: 0..(MaxEntries + 1), stage: Stages, step: {"look", "post", "answer"},
                submitted: BOOLEAN, blocked: SUBSET Identities, answer: 0..MaxPosted]
    /\ lost \in 0..MaxOdd /\ imports \in 0..MaxOdd
    /\ landed \in Seq(Sources) /\ loose \subseteq Sources

(* An older version of a source never lands after a newer one, so that knowledge never goes
   back, unless the runner was told to drop it or gave it up with its fate unknown. *)
NewerLandsLast ==
    \A m, n \in DOMAIN landed :
       (m < n /\ landed[m][1] = landed[n][1]) => landed[m][2] < landed[n][2] \/ landed[n] \in loose

(* Whatever answer was lost, a version's knowledge is ingested once and judged once: no two of
   its ingests land, and no two audits of one ingest end with a verdict. *)
DoneOnce ==
    \A j, k \in Jobs :
       (j # k /\ receipts[j].status = "done" /\ receipts[k].status = "done"
        /\ receipts[j].kind = receipts[k].kind /\ receipts[j].source = receipts[k].source
        /\ receipts[j].parent = receipts[k].parent) => receipts[j].slip \/ receipts[k].slip

(* A source the runner is done with was ingested, and its ingest has a readable review: only after
   as many unreadable ones as the writer allows does it go without. *)
DoneIsAudited ==
    \A e \in DOMAIN entries :
       entries[e].status = "done" =>
          \E n \in DOMAIN entries[e].ingest :
             LET parent == entries[e].ingest[n].job
                 audits == {j \in AuditsOf(parent) : receipts[j].status = "done"}
             IN /\ receipts[parent].status = "done" /\ receipts[parent].source = entries[e].source
                /\ \/ \E j \in audits : ~receipts[j].slip
                   \/ Cardinality(audits) >= Slips

(* The writer's model passes over one version are bounded: the cap, one more for each build, and
   for each answer lost the attempt nobody saw fail. *)
AttemptsBounded ==
    \A s \in Sources :
       Cardinality({j \in Jobs : /\ receipts[j].kind = "ingest" /\ receipts[j].source = s
                                 /\ receipts[j].status = "failed" /\ receipts[j].class = "counted"})
         <= Cap + (build - 1) + lost

(* Each version is ingested and judged once, in order, within its attempts. *)
VersionsOnce == TypeOK /\ NewerLandsLast /\ DoneOnce /\ DoneIsAudited /\ AttemptsBounded
=============================================================================
