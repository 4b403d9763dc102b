----------------------------- MODULE MaintState -----------------------------
(***************************************************************************)
(* The maintenance queue of src/aiwiki/service/maint_state.py: the run     *)
(* leases and the work-item state machine under <bundle>/.okf/maint/.      *)
(*                                                                         *)
(* Every operation of the module runs under one process lock (_LOCK), so   *)
(* each is one action, except that a service crash can cut the two that    *)
(* write several records (acquire_lease, release_lease) after any of them. *)
(* A run is the pair (principal, X-AIWiki-Run).  Time is abstracted: a     *)
(* lease is live until LeaseExpires, and a renewal leaves a live lease     *)
(* live.  Evidence files and briefs are left out, of the priority only     *)
(* "member or not" matters, and the note that closing a triage-reopened    *)
(* item takes is an input any run can give.                                *)
(***************************************************************************)
EXTENDS Naturals, FiniteSets

CONSTANTS
    Items,        \* the work items that can come to exist
    Members,      \* those of origin.kind "member" (priority MEMBER_PRIORITY)
    Runs,         \* maintainer runs, each a (principal, run) pair
    NoRun,        \* no run: no lease file, no current_run
    LastBuild,    \* gate builds are 1..LastBuild; 0 is an unknown build
    MaxDeploys,   \* bound: deploys of another build, newer or older
    MaxCounted,   \* MAX_COUNTED: attempts failed by the agent's own output
    MaxStarted,   \* MAX_STARTED: claims
    MaxReopens    \* bound: reopens (admin, triage, resubmission)

ASSUME ConstantsOK ==
    /\ Members \subseteq Items
    /\ NoRun \notin Runs
    /\ LastBuild \in Nat /\ MaxDeploys \in Nat /\ MaxReopens \in Nat
    /\ MaxCounted \in Nat \ {0} /\ MaxStarted \in Nat \ {0}

VARIABLES
    lease,   \* the lease-maintainer.json record: its run, and whether it is live
    items,   \* item.json of every item
    build,   \* the deployed gate build (version.build())
    torn,    \* history: a crash cut a sweep that no later run has completed yet
    deploys  \* history: deploys of another build

vars == <<lease, items, build, torn, deploys>>

-----------------------------------------------------------------------------
(* The failure taxonomy (failure.CLASSES, ATTEMPT_CLASSES, PARK_CLASSES).   *)

NotRetryable  == {"auth", "disk", "input"}
Counted       == {"model_output", "context", "internal"}
ParkClasses   == NotRetryable \cup Counted
                     \cup {"capacity", "transient", "timeout", "conflict"}
AttemptClasses == ParkClasses \cup {"interrupted"}

(* Two outcomes that every operation here treats alike are one: "skipped" stands  *)
(* for "duplicate" too, and "needs_access" for "needs_conversion".                *)
Closed      == {"curated", "skipped", "split", "needs_access", "requeued"}
Terminal    == Closed \cup {"needs_human"}
Waiting     == {"ready", "parked"}
Statuses    == {"absent", "in_progress"} \cup Waiting \cup Terminal
AgentCloses == {"skipped", "needs_access"}
Reopenable  == {"needs_human", "parked"} \cup AgentCloses
Requeueable == {"ready", "parked", "needs_human"}

Builds  == 0..LastBuild
Reasons == {"none", "attempt_cap", "not_retryable"}

ItemRecord == [status: Statuses,
               run: Runs \cup {NoRun},       \* current_run
               started: Nat, counted: Nat,   \* attempts
               reason: Reasons,              \* resolution.reason of needs_human
               lastBuild: Builds,            \* history[-1].build
               retryBuild: Builds,           \* build_retry
               triageFile: BOOLEAN,          \* holds a file named triage.md
               reopens: Nat,                 \* Len(reopened)
               retried: SUBSET Builds]       \* history: builds that granted build_retry

NewItem == [status |-> "ready", run |-> NoRun, started |-> 0, counted |-> 0,
            reason |-> "none", lastBuild |-> 0, retryBuild |-> 0,
            triageFile |-> FALSE, reopens |-> 0, retried |-> {}]

Absent == [NewItem EXCEPT !.status = "absent"]

With(s) == {i \in Items : items[i].status \in s}
Holds(r) == lease.live /\ lease.run = r
InProgressOf(r) == {i \in With({"in_progress"}) : items[i].run = r}

(* Mutant: only the agent's own failures are capped, never the claims. *)
FailAttemptNoStartedCap(it, cls) ==
    LET counted == IF cls \in Counted THEN it.counted + 1 ELSE it.counted
        failed  == [it EXCEPT !.counted = counted, !.run = NoRun, !.lastBuild = build]
    IN  IF cls \in NotRetryable \/ counted >= MaxCounted
        THEN [failed EXCEPT !.status = "needs_human", !.reason = "attempt_cap"]
        ELSE [failed EXCEPT !.status = IF cls = "interrupted" THEN "ready" ELSE "parked"]

(* _fail_attempt: a non-retryable class or a cap sends the item to needs_human. *)
FailAttempt(it, cls) ==
    LET counted == IF cls \in Counted THEN it.counted + 1 ELSE it.counted
        capped  == counted >= MaxCounted \/ it.started >= MaxStarted
        failed  == [it EXCEPT !.counted = counted, !.run = NoRun, !.lastBuild = build]
    IN  IF cls \in NotRetryable \/ capped
        THEN [failed EXCEPT !.status = "needs_human",
                            !.reason = IF cls \in NotRetryable THEN "not_retryable"
                                                               ELSE "attempt_cap"]
        ELSE [failed EXCEPT !.status = IF cls = "interrupted" THEN "ready" ELSE "parked"]

(* Mutant: the cleared run is written as a string. *)
CloseRunAsText(it, outcome) ==
    [it EXCEPT !.status = outcome, !.run = "none", !.reason = "none"]

(* _close *)
Close(it, outcome) ==
    [it EXCEPT !.status = outcome, !.run = NoRun, !.reason = "none"]

(* _reopen: back to ready with fresh attempt counters. *)
Reopen(it) ==
    [it EXCEPT !.status = "ready", !.run = NoRun, !.reason = "none",
               !.started = 0, !.counted = 0, !.reopens = @ + 1]

CanReopen == \A i \in Items : items[i].reopens < MaxReopens

-----------------------------------------------------------------------------
Init ==
    /\ lease = [run |-> NoRun, live |-> FALSE]
    /\ items = [i \in Items |-> Absent]
    /\ build \in Builds
    /\ torn = FALSE
    /\ deploys = 0

(* enqueue and intake: a new item_key is queued, without a lease.  An item of *)
(* a format nobody reads is closed at once (intake's outcome).                *)
Enqueue(i) ==
    /\ items[i].status = "absent"
    /\ items' = [items EXCEPT ![i] = NewItem]
    /\ UNCHANGED <<lease, build, torn, deploys>>

IntakeClosed(i) ==
    /\ i \in Members /\ items[i].status = "absent"
    /\ items' = [items EXCEPT ![i] = Close(NewItem, "needs_access")]
    /\ UNCHANGED <<lease, build, torn, deploys>>

(* intake of content whose item was requeued and whose Codex job is lost. *)
Resubmit(i) ==
    /\ i \in Members /\ items[i].status = "requeued" /\ CanReopen
    /\ items' = [items EXCEPT ![i] = Reopen(items[i])]
    /\ UNCHANGED <<lease, build, torn, deploys>>

-----------------------------------------------------------------------------
(* Leases. *)

(* One extra attempt of a capped item, granted by a gate build it has not met. *)
BuildRetry(it) ==
    /\ it.status = "needs_human" /\ it.reason = "attempt_cap"
    /\ build # 0 /\ it.lastBuild # build /\ it.retryBuild # build

(* Mutant: a new run leaves the items of a dead run in progress. *)
BeginRunNoSweep(it) ==
    IF it.status = "parked" THEN [it EXCEPT !.status = "ready"]
    ELSE IF BuildRetry(it)
    THEN [it EXCEPT !.status = "ready", !.reason = "none", !.retryBuild = build,
                    !.retried = @ \cup {build}]
    ELSE it

(* Mutant: a new run never returns the parked items to the queue. *)
BeginRunKeepsParked(it) ==
    IF it.status = "in_progress" THEN FailAttempt(it, "interrupted")
    ELSE IF BuildRetry(it)
    THEN [it EXCEPT !.status = "ready", !.reason = "none", !.retryBuild = build,
                    !.retried = @ \cup {build}]
    ELSE it

(* _begin_run, per item. *)
BeginRun(it) ==
    IF it.status = "in_progress" THEN FailAttempt(it, "interrupted")
    ELSE IF it.status = "parked" THEN [it EXCEPT !.status = "ready"]
    ELSE IF BuildRetry(it)
    THEN [it EXCEPT !.status = "ready", !.reason = "none", !.retryBuild = build,
                    !.retried = @ \cup {build}]
    ELSE it

(* Mutant: a run takes the lease over whether or not it is live. *)
AcquireLeaseByForce(r) ==
    /\ lease' = [run |-> r, live |-> TRUE]
    /\ items' = [i \in Items |-> BeginRun(items[i])]
    /\ torn' = FALSE
    /\ UNCHANGED <<build, deploys>>

(* The holder of the live lease only renews it; any other run waits for it to end. *)
AcquireLease(r) ==
    /\ ~lease.live
    /\ lease' = [run |-> r, live |-> TRUE]
    /\ items' = [i \in Items |-> BeginRun(items[i])]
    /\ torn' = FALSE
    /\ UNCHANGED <<build, deploys>>

(* The lease file is written before the sweep: a crash in between leaves the  *)
(* lease live and only the items of `swept` saved.                            *)
AcquireLeaseCrash(r, swept) ==
    /\ ~lease.live
    /\ lease' = [run |-> r, live |-> TRUE]
    /\ items' = [i \in Items |-> IF i \in swept THEN BeginRun(items[i]) ELSE items[i]]
    /\ torn' = TRUE
    /\ UNCHANGED <<build, deploys>>

NoLease == [run |-> NoRun, live |-> FALSE]

(* The file names the run whether or not the lease is still live. *)
ReleaseLease(r) ==
    /\ lease.run = r
    /\ lease' = NoLease
    /\ items' = [i \in Items |-> IF i \in InProgressOf(r)
                                 THEN FailAttempt(items[i], "interrupted") ELSE items[i]]
    /\ UNCHANGED <<build, torn, deploys>>

ReleaseLeaseCrash(r, swept) ==
    /\ lease.run = r
    /\ lease' = NoLease
    /\ items' = [i \in Items |-> IF i \in InProgressOf(r) \cap swept
                                 THEN FailAttempt(items[i], "interrupted") ELSE items[i]]
    /\ torn' = TRUE
    /\ UNCHANGED <<build, deploys>>

(* _active turns false: no write of the run renewed the lease for LEASE_TTL. *)
LeaseExpires ==
    /\ lease.live
    /\ lease' = [lease EXCEPT !.live = FALSE]
    /\ UNCHANGED <<items, build, torn, deploys>>

-----------------------------------------------------------------------------
(* The run's own calls. *)

(* Mutant: an item in progress is served again. *)
ServedTwice(i) ==
    /\ items[i].status \in {"ready", "in_progress"}
    /\ i \in Members \/ With({"ready"}) \cap Members = {}

(* _serve_order: member submissions first; the rest of the order is left open. *)
Served(i) ==
    /\ items[i].status = "ready"
    /\ i \in Members \/ With({"ready"}) \cap Members = {}

(* next_item: without `more`, a run gets back the item it already holds. *)
NextItem(r, i, more) ==
    /\ Holds(r) /\ Served(i)
    /\ more \/ InProgressOf(r) = {}
    /\ items' = [items EXCEPT ![i].status = "in_progress", ![i].run = r,
                              ![i].started = @ + 1]
    /\ UNCHANGED <<lease, build, torn, deploys>>

CanResolve(r, i) == Holds(r) /\ items[i].status = "in_progress" /\ items[i].run = r

(* resolve, outcome "parked" *)
Park(r, i, cls) ==
    /\ CanResolve(r, i)
    /\ items' = [items EXCEPT ![i] = FailAttempt(items[i], cls)]
    /\ UNCHANGED <<lease, build, torn, deploys>>

(* resolve, a close without a changeset. *)
Resolve(r, i, outcome) ==
    /\ CanResolve(r, i)
    /\ items' = [items EXCEPT ![i] = Close(items[i], outcome)]
    /\ UNCHANGED <<lease, build, torn, deploys>>

(* Mutant: a child takes the place of the item that is there already. *)
ChildAnew(it, file) == [NewItem EXCEPT !.triageFile = file]

(* A child of a split is queued.  An item of its topic that waits takes the files *)
(* over; one that is otherwise there already, claimed or closed, stays as it was. *)
Child(it, file) ==
    IF it.status = "absent" THEN [NewItem EXCEPT !.triageFile = file]
    ELSE IF it.status \in Waiting /\ file THEN [it EXCEPT !.triageFile = TRUE]
    ELSE it

(* resolve, outcome "split": `main` is the child that gets triage.md, if any.  *)
(* A child of the item's own topic and earlier files is the item itself.         *)
Split(r, i, children, main) ==
    /\ CanResolve(r, i)
    /\ Cardinality(children) >= 2 /\ main \in children
    /\ items' = [j \in Items |->
                   IF j = i THEN Close(items[i], "split")
                   ELSE IF j \in children
                   THEN Child(items[j], j = main /\ items[i].triageFile)
                   ELSE items[j]]
    /\ UNCHANGED <<lease, build, torn, deploys>>

-----------------------------------------------------------------------------
(* The writer and the admins, who hold no lease. *)

(* close_curated: a committed changeset closes any item not closed already. *)
CloseCurated(i) ==
    /\ items[i].status \notin Terminal \cup {"absent"}
    /\ items' = [items EXCEPT ![i] = Close(items[i], "curated")]
    /\ UNCHANGED <<lease, build, torn, deploys>>

(* admin_retry; a curated item only once its changeset was reverted. *)
AdminRetry(i, reverted) ==
    /\ \/ items[i].status \in Reopenable
       \/ items[i].status = "curated" /\ reverted
    /\ CanReopen
    /\ items' = [items EXCEPT ![i] = Reopen(items[i])]
    /\ UNCHANGED <<lease, build, torn, deploys>>

AdminResolve(i, outcome) ==
    /\ items[i].status \notin Closed \cup {"absent"}
    /\ items' = [items EXCEPT ![i] = Close(items[i], outcome)]
    /\ UNCHANGED <<lease, build, torn, deploys>>

(* triage_reopen: the auditor found missed knowledge in a skip or a duplicate. *)
TriageReopen(i) ==
    /\ items[i].status = "skipped" /\ ~items[i].triageFile
    /\ CanReopen
    /\ items' = [items EXCEPT ![i] = [Reopen(items[i]) EXCEPT !.triageFile = TRUE]]
    /\ UNCHANGED <<lease, build, torn, deploys>>

(* requeue: the inbox rollback takes every unfinished member item but those of *)
(* the live run; one a dead run still holds is failed first, as a new run would. *)
Requeue(i) ==
    LET it == items[i]
        taken == IF it.status = "in_progress" THEN FailAttempt(it, "interrupted") ELSE it
    IN  /\ i \in Members
        /\ it.status = "in_progress" => ~Holds(it.run)
        /\ taken.status \in Requeueable
        /\ items' = [items EXCEPT ![i] = Close(taken, "requeued")]
        /\ UNCHANGED <<lease, build, torn, deploys>>

(* A restart with another build, a later one or, for a rollback, an earlier one. *)
Deploy(b) ==
    /\ b # build /\ deploys < MaxDeploys
    /\ build' = b
    /\ deploys' = deploys + 1
    /\ UNCHANGED <<lease, items, torn>>

-----------------------------------------------------------------------------
Claims(r) == \E i \in Items, more \in BOOLEAN : NextItem(r, i, more)

RunStep(r) ==
    \/ AcquireLease(r)
    \/ \E swept \in SUBSET Items : AcquireLeaseCrash(r, swept)
    \/ ReleaseLease(r)
    \/ \E swept \in SUBSET Items : ReleaseLeaseCrash(r, swept)
    \/ Claims(r)
    \/ \E i \in Items, cls \in ParkClasses : Park(r, i, cls)
    \/ \E i \in Items, outcome \in AgentCloses : Resolve(r, i, outcome)
    \/ \E i \in Items, children \in SUBSET Items : \E main \in children :
           Split(r, i, children, main)

ServiceStep(i) ==
    \/ Enqueue(i)
    \/ IntakeClosed(i)
    \/ Resubmit(i)
    \/ CloseCurated(i)
    \/ \E reverted \in BOOLEAN : AdminRetry(i, reverted)
    \/ \E outcome \in AgentCloses : AdminResolve(i, outcome)
    \/ TriageReopen(i)
    \/ Requeue(i)

Next ==
    \/ \E r \in Runs : RunStep(r)
    \/ \E i \in Items : ServiceStep(i)
    \/ LeaseExpires
    \/ \E b \in Builds \ {0} : Deploy(b)

Spec == Init /\ [][Next]_vars

(* The autopilot starts runs, and not every start is cut by a crash (strong     *)
(* fairness); a run asks for an item before it ends (strong fairness: a lease   *)
(* may expire between two asks); no run renews its lease for ever.  How a claim *)
(* ends is left open: a run that dies every time is what the caps exist for.    *)
Fairness ==
    /\ SF_vars(\E r \in Runs : AcquireLease(r))
    /\ SF_vars(\E r \in Runs : Claims(r))
    /\ WF_vars(LeaseExpires)

FairSpec == Spec /\ Fairness

-----------------------------------------------------------------------------
(* Properties. *)

(* Every record has its shape. *)
TypeOK ==
    /\ lease \in [run: Runs \cup {NoRun}, live: BOOLEAN]
    /\ items \in [Items -> ItemRecord]
    /\ build \in Builds
    /\ torn \in BOOLEAN
    /\ deploys \in Nat

(* An item names a current run exactly while it is in progress; and, unless a   *)
(* crash cut a sweep, that run is the one the lease file names: no item stays   *)
(* claimed by a run that another run has replaced (_begin_run, release_lease).  *)
ClaimsMatchLease ==
    /\ \A i \in Items : items[i].status = "in_progress" <=> items[i].run # NoRun
    /\ ~torn => \A i \in With({"in_progress"}) : items[i].run = lease.run

(* An item is claimed at most MAX_STARTED times, and once more per deploy of      *)
(* another gate build, between two reopens; one back in the queue has an attempt  *)
(* left, so an item that fails every run reaches needs_human, and stays there     *)
(* until a deploy or a reopen (_fail_attempt, _begin_run).                        *)
AttemptsBounded ==
    \A i \in Items :
        LET it == items[i] IN
        /\ it.started <= MaxStarted + deploys
        /\ it.status \in Waiting => it.started < MaxStarted + deploys
        /\ it.counted <= MaxCounted + deploys

(* A claim never passes from one run to another: in between the item was given   *)
(* back, which the loser of a stale lease can see (item_not_in_progress).        *)
NoClaimStolen ==
    [][\A i \in Items :
           items[i].status = "in_progress" /\ items'[i].status = "in_progress"
               => items'[i].run = items[i].run]_vars

(* A live lease only ends by its holder's release or by expiry: no other run     *)
(* takes it over (acquire_lease, release_lease).                                 *)
LiveLeaseKept ==
    [][lease.live /\ lease'.live => lease'.run = lease.run]_vars

(* A close is final: a closed item changes only by a reopen, which its reopened  *)
(* list records, so no sweep, changeset or admin overwrites a resolution.        *)
ClosedStays ==
    [][\A i \in Items :
           items[i].status \in Closed /\ items'[i] # items[i] =>
               /\ items'[i].status = "ready"
               /\ items'[i].reopens = items[i].reopens + 1]_vars

(* "one extra attempt per build (the P0-A rule)", the comment in _begin_run says: *)
(* no build grants an item a second extra attempt.  build_retry holds one build,  *)
(* so a deploy that goes back and forth between two of them breaks it.            *)
OneExtraAttemptPerBuild ==
    [][\A i \in Items :
           items[i].status = "needs_human" /\ items'[i].status = "ready"
               /\ items'[i].reopens = items[i].reopens
               => build \notin items[i].retried]_vars

(* No item is retried for ever or forgotten: whatever the runs do with it, every  *)
(* queued item ends closed or before a human, unless it is reopened.              *)
EventuallySettled == \A i \in Items : items[i].status \in Waiting \cup {"in_progress"}
                                          ~> items[i].status \in Terminal
=============================================================================
