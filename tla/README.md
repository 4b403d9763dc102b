# Verification of ai-wiki

TLA+ models of the ai-wiki writer, their TLC configurations, and theorems about
them that TLAPS checks. Paths below are relative to `src/src/aiwiki/` unless they
say otherwise.

ai-wiki serves Markdown knowledge bundles over HTTP and lets external agents
maintain them. One **writer** process owns the clone of each bundle. Members submit
sources; a maintainer agent claims *work items*, pulls the bundle, and proposes
*changesets*; the writer judges each one deterministically, commits it and pushes
it. What has to be right is the writer's bookkeeping: no evidence is lost, no
edit is published twice or reported wrongly, no read sees half an edit, no item is
retried for ever, and all of that although the process is killed at any point, the
remote moves, a push is answered or not, and several agents talk at once. There is
no database: the state is JSON files under `<bundle>/.okf/`, a Git clone, and a few
locks in one process. Those files, that clone and those locks are what the modules
model.

## 1. Inventory

### Components, their state and their operations

| Component | State it keeps | Operations |
|---|---|---|
| Maintenance state (`service/maint_state.py`) | `lease-<role>.json`; `items/<id>/item.json` (status, run, attempts, versions, resolution); `items/<id>/files/<sha>`; cursors; attention items | acquire/release lease, enqueue, intake, next_item, add_file, resolve (park, close, split), close_curated, admin retry/resolve, triage_reopen, requeue, cursor CAS |
| Writer transaction (`runtime/curate.py`, `service/worker.py`) | the clone (`.git`, working tree), the remote branch, `.okf/jobs/<id>.json` | sync, produce, commit, push, rebase, rollback, closeout, startup recovery |
| Locks (`service/worker.py`, `service/app.py`) | `_mutation_lock`, `_lifecycle_lock`, `_mutation_pending`, `_mutation_active`, `_active_readers` | serialized_mutation, serialized_read, serialized_lifecycle and every route that takes one |
| Snapshot cache (`service/bundle.py`) | `_snapshots`, per-bundle locks, generations | `_snapshot`, `_fingerprint`, `_scan`, `drop_snapshots` |
| Job queue (`service/worker.py`, `service/ingest.py`) | three deques in memory, rebuilt from the job files | submit, `_take`, sweep, requeue at startup |
| Inbox intake (`service/inbox.py`) | `sources/inbox/`, intake receipts | submit, commit, retry, sweep, settle, requeue |
| Changeset gate (`runtime/changeset.py`, `policy.py`, `secrets.py`, `engine/bookkeeping.py`) | none; one request and one tree | verdict on each file, closeout, bookkeeping |
| Audit (`runtime/audit.py`) | review receipts; a backlog derived from concepts | claim, changeset, attestation |
| Triage review (`service/triage.py`) | review receipts | record, apply, status |
| Admin revert (`runtime/revert.py`) | none | per-file compare-and-swap on a commit's parents |
| Attention (`service/attention.py`) | notices and deferrals | collect, cap, defer |
| Semantic recall (`service/vectors.py`) | embeddings, a build thread | ask, build, evict |
| Collectors, planner (`maint/*.py`) | cursors, checkpoint | windows, settle margin, enqueue |
| CLI maintainer, auditor, workspace (`cli/maint.py`, `cli/review.py`, `cli/workspace.py`) | a resumable state file, a local tree | loops over the HTTP API |
| Engine (`engine/*.py`) | files of one bundle | validate, index, digest, drift |
| Failure classes, principals, routing, scripts | tables | pure functions and one-shot reports |

How they meet:

* The HTTP routes call `maint_state` under `_lifecycle_lock`, and submit jobs to the
  worker's queue. The worker runs one job at a time under `_mutation_lock`.
* A maintainer run holds a lease, claims an item, and names it in a changeset. The
  changeset is a job; when it has been pushed, `worker._closeout` closes the item
  (`close_curated`), without a lease.
* Reads take neither lock: they count themselves in `_active_readers` and read a
  cached snapshot that each mutation drops.
* At startup `recover` reconciles every job that was running with the remote branch,
  then finishes closeouts, then requeues, then starts the worker.
* Collectors, the auditor and the admins use the same routes.

### What is hard, and what makes each part correct

* **Maintenance state.** Two runs around the expiry of a lease; a crash inside the
  sweep that hands items back; caps counted over claims, failures, parks and builds;
  closes by agents, changesets and admins that overlap. Correct when: an item is
  claimed by at most the run the lease names; a claim never passes silently; a close
  is final except for a counted reopen; attempts are bounded; every item ends.
* **Evidence.** Blobs and records are separate files; collections are resent, merged,
  split. Correct when: no record without its bytes; a collection belongs to one item
  and stays complete; a claimed item does not change; a split drops nothing.
* **Writer transaction.** A crash between any two Git commands and saves, a remote
  that moves, a push whose answer is lost, a commit whose SHA changes in a rebase.
  Correct when: done means published; nothing is published twice; the clone is clean
  between jobs; an item is closed by what was published; every job ends.
* **Locks and cache.** Readers, a writer that takes minutes, routes that resolve a
  bundle and then write to it, a deletion. Correct when: no read overlaps a mutation;
  no stale snapshot outlives one; nothing is written to a deleted bundle; nobody
  starves.
* **Untrusted agents.** A Codex audit or curation runs a model in a copy or in the bundle
  itself and takes back what it may not change. Correct when: what fails leaves no trace
  in the tree or in `.git`; what is published passed the gate; the upload and the service's
  own files survive.
* **Changeset gate and workspace.** A concept is pulled, edited, proposed, judged and pushed
  while others push. Correct when: no edit, retirement, citation or link of somebody else
  goes; nothing is stamped verified but what was verified; edits leave with their item.
* **Audit, triage, revert, attention.** Receipts written before or after their effect;
  state compared, then used after the tree moved; the same facts seen again. Correct when:
  a verdict lands on the bytes it judged, is counted once, and what nobody confirmed comes due.
* **Intake.** A submission becomes a file, a work item and a commit under two locks, with
  a sweep and a change of mode. Correct when: what was accepted is kept, and curated once.
* **Collectors, manifest runner, reviewer, updates, watchdog.** Resumed loops over lost
  answers. Correct when: no cursor passes what is not on the writer; each version is
  ingested and judged once; a card neither lies nor keeps silent.

`PROJECT.json` lists every component with its status, and every hazard at its line
with the properties that cover it, or why none does.

## 2. Modules and the code

| Module | Models | In runs |
|---|---|---|
| `MaintState` | leases and work items | `maint_claims`, `maint_builds` |
| `Evidence` | evidence of work items | `evidence`, `evidence_split` |
| `JobOutcome` | what a job promises (abstract) | a property of `writer` |
| `WriterTxn` | Git transaction, closeout, recovery | `writer`, `writer_lost_ack` |
| `Gate` | locks and the routes that take them | `gate` |
| `ReadCache` | snapshot cache | `service` |
| `AgentAudit`, `AgentCurate`, `Recovery`, `Workspace`, `Changeset` | an agent's edit on its way to the branch | `agent` |
| `Review` | audit backlog, audit changesets, revert | `review`, `review_reverted` |
| `Triage`, `Attention`, `HostRuns`, `Reviewer`, `Trust` | work items by other ways, runs of a host, an auditor's run, stamps | `evidence` |
| `Intake`, `Watchdog`, `Vectors` | submissions, the watchdog's cards, semantic recall | `service` |
| `IssueDelta`, `RepoScan`, `Maintain` | both collectors, the manifest runner | `collect` |
| `*_proofs` | theorems and their lemmas | |

`MC<name>` modules add symmetry and the constants of an instance. Four of them put several
modules that share no state into one run: a behaviour picks one part in its initial state
and takes steps of that part only, so that a run costs the sum of its parts and not their
product. Their properties name the part they are about (`part = "intake" => I!IntakeSafe`).
A definition whose comment begins with "Mutant:" is a plausible bug, used to see that a
property notices it; nothing in a specification refers to it.

### MaintState

`lease` is the lease file with a flag for "not expired"; `items` maps each item to the
fields of `item.json` that decide anything; `build` is the deployed version. Each
function of `maint_state.py` runs under `_LOCK` from its first read to its last write
and is one action. `acquire_lease` and `release_lease` write several files, so each has
a crash variant that stops after any of them; `torn` remembers that this happened until
a sweep completes.

Left out or abstracted:

* Time. A lease is live until `LeaseExpires`; a renewal of a live lease leaves it live.
* Evidence (see `Evidence`), briefs, and the order among equal items: of the priority
  only "a member's submission or not" matters. The triage mark is kept as
  `triageFile`, because it decides what may be reopened.
* The auditor's lease is the same code with a sweep of nothing; one role is modelled.
* `MaxReopens` bounds reopens. Nothing else in the state is unbounded: claims and
  counted failures are bounded by the code, which is `AttemptsBounded`.

### Evidence

`items`, keyed by `item_key`, is a record per item; `blobs` the set of files on disk;
`todo` and `parent` what the holder of `_LOCK` has still to write: each enqueued spec is
one step (blobs, then record), and a crash may leave any part of the blobs of the spec in
hand. One collected topic is modelled, and two children per split. A file is a name and
a version, a later version is larger, which makes the caps (`_fits`) bite. "waiting"
stands for ready and parked, and `closed` for every terminal status but split. The
children's topics: by default `<topic>#split-<k>`; a run may also name its own
(`TopicMayStay`). Damaged blobs, the rule that a child needs real evidence, and the
triage marks on children are left out. A collector that sends several specs in one
request sends them one after the other, which is what `enqueue` does with a batch.

### WriterTxn and JobOutcome

A branch is a sequence of commits and a commit the set of jobs whose edits it carries.
A SHA depends on all ancestors, so it is the history that ends in the commit, and
`merge-base --is-ancestor` is "is a prefix of". `local`, `tracking` and `remote` are the
clone's head, its `origin/<branch>` and the remote; `tree` the jobs with edits in the
working tree. `worker` is the memory of the one worker thread, lost in a crash. One
action is one Git command or one save of the job record; a crash may fall between any
two. After a crash the actions `Reconcile*`, `RecoverCloseout` and `StartWorker` are
`recover`, in its order.

Choices left open: the gate's verdict (`Refuse`), whether Git can rebase
(`Integrate` or `RebaseConflict`), whether a fetch succeeds (`fetched` is the remote or
the stale tracking branch), whether a command outlasts its timeout, whether a closeout
raises. "failed" stands for failed and rejected. The queue is a set, changesets before
ingests. Left out: `close_items: false`, closes by admins, and the inbox bytes of a
submission. A rebase is one step here; `Recovery` takes it apart.

`JobOutcome` is the promise to a client: a job's edits reach the branch in one step, at
most once, and its single answer says truly whether they did, except where the answer of
the push was lost for good. `ImplementsOutcome` maps `published` to the number of commits
on the remote that carry the job, and `receipt` to the final status.

### Gate

`step` is where each thread is; the locks and counters are named as in `worker.py`. One
bundle. A route is a path through `route`, its own steps, and `exit`; the worker acquires
the mutation lock blocking, the routes do not. The tree is its version number. `Serve` is
the worst case for the cache: a cached snapshot is trusted until it is dropped, whatever
the files' stats say, so that `ReadsCurrent` rests on the drop alone. `MaxJobs` bounds the
queue, and after `MaxChanges` changes of the tree no new request comes. `undone` remembers
that a creation failed half way. Left out: authentication, bodies, rendering, and
`POST /bundles` for other names.

### ReadCache

The other half of the cache: `drop_snapshots` is the writer's, but a mirror's files change
under it without a drop. A file is a version and a timestamp that has the file system's
granularity (`tick`); inode and size stay the same, the hard case. Every stat and every
read of a file is a step of its own. `floor` remembers what was true when a request
arrived. The settle margins are the code's `_RACY_NS` and `_COARSE_TICK_NS` in units of
the model's clock; `TimesOK` says for which ticks the code chose them: ticks up to
`Racy + 1`, or whole seconds up to `CoarseTick + Racy + 1`.

### AgentAudit, AgentCurate, Recovery

`AgentAudit` is `run` of `runtime/audit.py`, `AgentCurate` the transaction around
`_codex_produce` of `runtime/curate.py`. The agent leaves any contents in any file, and
may touch Git's metadata; then each step of the service (compare, restore, stamp,
validate, close out, commit, push, roll back) is an action that may also fail. A file is
one of a few contents: what was there, what the agent wrote, what the service makes of it.
`misused` records that a Git command ran over metadata the agent had changed. In
`AgentCurate` the agent works in `space`, a copy, and may still leak into `live`.

`Recovery` is `recover` and `_reconcile_running` of `service/worker.py` over one job, for
each kind of job, after a death between any two steps of its transaction: HEAD off its
branch inside a rebase, edits without a commit, a commit whose SHA was not saved, a push
that only the remote knows of.

### Changeset, Workspace, Trust

`Changeset` is the gate of a curate changeset and its recheck at the push: a curator
proposes whole concepts against the tree it pulled (`pulled`), the gate judges them on the
branch, which may move again (`OthersPush`) before Git merges what does not overlap.
A concept is a body, a title, a status, whether its verification is current, the packets
it cites and one link.

`Workspace` is the other end, `cli/workspace.py` and the verbs of `cli/maint.py` that
touch it: `local`, `base`, `hashes` and `mine` are the working files, the pulled versions,
the saved hashes and the `.mine` copies. A pull writes file by file and may be cut between
any two (`cuts`); the lease may be lost, and the answer to a proposal. A changeset has its own
way from there (`sent`, `queued`): the agent may give up on it, put the files back and go on
before the writer takes it, or after. A skipped or parked item leaves its edits where they
are while the run holds others, or if the verb dies before the reset. `ever` remembers what
the branch held of a path: an edit somebody has published is nobody's to lose.

`Trust` follows the stamps of a concept from pass to pass (`engine/bookkeeping.py`,
`runtime/policy.py`, `engine/document.py`): an untrusted edit, what bookkeeping makes of
it, and whether the policy accepts it, are one step.

### Review, Reviewer, Triage, Attention

`Review` derives the backlog of `runtime/audit.py` from concepts, receipts and the history,
judges an audit changeset, stamps, and reverts (`runtime/revert.py`). `jobs` are the
receipts, `touched` the history of the files, `pending` a judged review on its way to the
remote, `confirmed` the texts somebody verified. `Reviewer` is the client, `cli/review.py`:
what a run takes, reads, records and sends in batches whose answers get lost.

`Triage` (`service/triage.py`) writes a receipt, reopens the item, settles the receipt,
each under its own lock and each a step; the maintainer and an admin move the items in
between, and the service restarts. `Attention` (`service/attention.py`) is what a run start
queues: due concepts, the cap, deferrals, merging and deduplication by facts.

### HostRuns, Intake, Watchdog, Vectors

`HostRuns` is one host: `begin`, the verbs and `end` of maintainers' or auditors' runs, one
call or one file at a time, beside `ai-wiki update` with its locks. Hours pass between
any two steps.

`Intake` is `service/inbox.py` with its callers: the handler of `POST /ingest`, the sweep,
the requeue to Codex and the worker, each between any two writes of which the process may
die. A content is its sha; `nature` says what the code finds in it. `cut` and `lapsed` name
the contents whose registration a death cut, or whose item the admin requeued under a
changeset.

`Watchdog` is `scripts/maintenance_watchdog.py`: a pass reads a world that moves, posts a
card and saves what it announced. A damaged item is announced, a damaged job record is passed
over (`Legible`, `PassedOver`). `Vectors` is `service/vectors.py`: indexes per snapshot,
the builder threads with their flag, the file with its compaction, and searches that look
at an index without the store's lock.

### IssueDelta, RepoScan, Maintain

`IssueDelta` lists issues page by page while people comment, create and delete; a key is
a time and an id. `RepoScan` reads branches that are pushed to, rewritten, deleted and
renamed; a branch is its history, as in `WriterTxn`. Both move a cursor by compare-and-swap
after they enqueued, and any call may fail before or after its effect. `Maintain` is the
runner of a source manifest (`cli/maintain.py`) against the writer's receipts. A version it
gives up while a job of it may still land (a refusal after a lost answer, a newer version
that takes over, an imported receipt) is `loose`: the code accepts that it lands late.

## 3. Runs

### Passing

| Run | Instance | Shows |
|---|---|---|
| `maint_claims` | 2 items (one a member's), 2 runs, caps of 1 failure and 2 claims, 1 deploy or 1 reopen (`Calm`), fairness | `ClaimsMatchLease`, `AttemptsBounded`, `NoClaimStolen`, `LiveLeaseKept`, `ClosedStays`, `EventuallySettled` |
| `writer` | 2 changesets for one item and 1 ingest, 1 foreign push, 1 crash, 2 push attempts, fairness | `CleanAtRest`, `RecordsMatchBranch`, `ImplementsOutcome`, `WorkEnds` |
| `gate` | 2 readers, 2 requests, the worker, 1 queued job, 1 change, fairness | `NoReadDuringMutation`, `ReadsCurrent`, `NothingOnDeleted`, `WorkGoesOn` |
| `review` | 2 concepts of 2 texts, an auditor with 2 runs, Codex, a curator, a person, 2 changesets, 2 outside events, 3 times | `VerdictsStand`, `ComesDue`, `RevertOnlyItsOwn` |
| `agent` | 2 concepts; 1 job with 3 deaths and 3 pushes; a workspace with 2 items, 3 commits, 1 cut, 1 changeset under way, `Load` up to 3; 2 changesets of 3 texts with 2 moves of the branch | `AuditContained`, `CurationContained`, `RecoverySound`, `WorkspaceFaithful`, `GateHolds` |
| `evidence` | evidence: 2 file names, 1 change, 2 collections, 4 items, 1 level of splits, 1 crash; the other parts 2 items, concepts or runs each, 1 fault | `EvidenceSound`, `ClaimedIsFrozen`, `ReviewsSettle`, `NoticesRaised`, `UpdatesSpareRuns`, `VerdictsAccounted`, `TrustKept` |
| `service` | reads: 2 files, 2 requests, 2 writes each, ticks of 2 and of a whole second (3), 4 time units; intake: 1 content, 3 jobs, 1 death, 1 failed run; watchdog: 2 items, 2 moves, 1 fault; recall: 2 snapshots sharing a chunk, 2 builders, 1 fault | `ReadsSound`, `IntakeSafe`, `CardsTell`, `RecallWhole` |
| `collect` | issues: 3 issues, pages of 2, 2 collectors, 2 changes, 1 fault; repositories: one and the bundle's own, 2 branches, 2 commits, 2 events; runner: 1 source of 2 versions, 3 posts, 2 mishaps or 1 and a deploy | `CursorsComplete`, `RunnerSound` (`VersionsOnce`) |

Each run also checks the types (`TypeOK`, by itself or as the first part of the property).

Why the bounds are enough. Each hazard needs few actors: a stolen claim needs two runs
and one item, a second item shows the member order, the split and the sweep cut in the
middle. `MaxStarted` 2 with `MaxCounted` 1 makes both caps reachable and distinct, and
one other build the extra attempt; deploys that go back and forth are the theorem's, and the
run `maint_builds`'. In the transaction one foreign commit forces a rebase,
and the commit of another job a second one; the crash falls at every step, the repair
included; the third job finds whatever the first two left. In `Gate` two requests are one
that resolves and one that deletes. In `Evidence` four items are a collection, its two
children and an item the claimed one made necessary; deeper splits are the theorem's. In
`ReadCache` a tick of 2 lets two writes share a timestamp inside the racy margin (1), the
tick of 3 lets them share one outside it, so that only the coarse margin (2) helps. In
`Recovery` three deaths include one during the repair of a repair. In `IssueDelta` three
issues are two pages, and one that is deleted shifts the second. In `RepoScan` two commits
and two events are a rewrite and a failure in either order. `OneIsQuiet` keeps the second
concept of `review` to reviews and changes of nobody: it is there to compete for a place
in the session. Liveness is checked on instances without symmetry.

Deadlock is checked in `MaintState` and `Gate`. The others stop at their bounds: all jobs
done, all crashes spent, the clock at its end.

### Findings

Three runs check what a comment of the repository says and show that the code can do
otherwise.

* `writer_lost_ack` (`runtime/curate.py:1003`). After a push that failed, the code
  fetches and looks for its commit on `origin/<branch>`, but ignores the result of the
  fetch. If the answer of the push is lost and the fetches fail too, the job ends failed
  and rolled back while the remote has its commit; `service/inbox.py:235` says that "a
  lost acknowledgement counts as pushed".
* `evidence_split` (`service/maint_state.py:733`). A child of a split that names its
  item's own topic and the files of an earlier collection has a key that item answers to.
  The child deduplicates to the item, and the item is closed as split: its files are in no
  open item, though `_split` says that "a split can drop no evidence".
* `review_reverted` (`runtime/audit.py:1193`). After a push past the service is reviewed and
  an admin reverts that review, the pushed text has its old stamps again; the revert counts
  as the service's own last commit to the concept, so it is not due, although
  `audit.py:1077` says that after a revert "its concepts are due again".

* `maint_builds` (`service/maint_state.py:415`). The comment in `_begin_run` promises "one
  extra attempt per build" to a capped item. `build_retry` and the build of the last failure
  are one build each, so deploys that go back to an earlier build and forward again grant an
  item the attempt of a build that granted it one already. What does hold, for any builds in
  any order, is one extra attempt per deploy (`AttemptsBounded`).

### Limits met without a run

* When the first commit of a new bundle fails, the handler removes the scaffold after both
  locks are released (`service/app.py:307`): a request that resolved the bundle in between
  writes into it. `Gate` remembers it in `undone`, and two of its properties hold until then.
* A changeset that changes nothing has no commit (`service/worker.py:563`): if the process
  dies after its items were closed and before the receipt is saved, recovery fails it and
  the items stay closed. `RecordsMatchBranch` speaks of changesets with a commit there.
* A file that a later collection replaced in a child of a split is not handed on when that
  child is split again; it stays in the closed record. It takes two levels of splits, and
  `SplitDropsNothing` says so: a file is in an open item, or the version that replaced it is.
* A Codex curation may set `stable` itself on a concept nobody audited, where `SCHEMA.md:70`
  leaves that to reviews. `Trust` lets it.
* A notice whose facts went from A to B and back to A keeps saying B
  (`service/maint_state.py:428` says it follows the facts). `RaisedOnce` allows it.
* `cli/update.py:68` relies on "every verb of a run saves its record"; some verbs save none.
  `HostRuns` keeps them in `quiet`, and `NoInstallUnderRun` excludes them.
* The watchdog counts a job record it cannot read and goes on without it
  (`scripts/maintenance_watchdog.py:390`), so the alert of a failure that record holds leaves
  the card, and no check is said to be blind; the comment at 417 says an unretried failure keeps
  alerting, or else it "would silently drop out and read as a recovery".
  `CardsTell` leaves out the problems a pass passed over like this, and no others.
* Between a pull that was cut and the next whole one, a workspace is not to be trusted. A cut
  after a file was set aside leaves no file in its place: what the agent then writes there is
  proposed with the hash of a base it was not written from (`cli/workspace.py:222`), and where
  the server had only stamped the file the hash still matches and the text is overwritten.
  A second conflict of the path overwrites its `.mine` copy. `NothingOverwritten` and
  `EditsKept` leave out what a cut pull precedes (`torn`, `whole`), and nothing else.
* "Its edits leave the workspace with it" (`cli/maint.py:640`) is not so of an item resolved
  while the run holds others (656), or of a verb that dies before its reset: the next
  changeset of the run may carry them. `OwnEditsOnly` therefore speaks of an item that is back
  in the queue, and of any other only if the run takes its items one by one.

Four definitions state what the code or its docs suggest and TLC refutes; they belong to no
run: `Recovery!InterruptedRebaseIsLeft` (recovery checks the branch before it aborts a
rebase, so the worker may start over it), `AgentAudit!BlameIsDeserved` (a failed snapshot
is reported as the agent's doing), `Workspace!EditsKeptAlways` (a pull after a cut pull may
lose an edit) and `Workspace!EditsLeaveWithItem` (the edits of a
skipped item stay in the workspace).

### Fairness

* `maint_claims`. Strong fairness of `AcquireLease` and of claiming: the autopilot starts a
  run again and again, not every start is cut by a crash, and a run asks for an item before
  it ends. Weak fairness of `LeaseExpires`: no run renews a lease for ever. Nothing is
  assumed about how a claim ends: a run that dies on the item every time is what the caps
  are for.
* `writer`. Weak fairness of the worker thread's steps together, and of the recovery's: the
  service manager restarts a stopped writer, and a fetch succeeds at some point. None of
  `Submit`, `Crash` or `ForeignPush`.
* `gate`. Weak fairness for each reader and request that has begun, and for the worker's way
  into and out of a mutation. Not for `RunJob` or `Pack`: a job may run for ever, and the
  requests are answered all the same.

The other modules state safety only: what they model resumes when somebody calls it again,
and nothing in the code makes anybody do so.

## 4. Proofs

Theorems hold for every value of the constants that satisfies the module's named
assumptions (`ConstantsOK`, `ThreadsOK`, `TimesOK`, ...); assumptions beyond those stand in
the theorem.

| Module | Theorem | States |
|---|---|---|
| `MaintState_proofs` | `TypeCorrect` | `TypeOK` |
| | `ClosesAreFinal`, `ClaimsAreNotStolen`, `LiveLeasesAreKept` | the action properties `ClosedStays`, `NoClaimStolen`, `LiveLeaseKept` |
| | `ClaimsAlwaysMatchLease` | `ClaimsMatchLease` |
| | `AttemptsAreBounded` | `AttemptsBounded`, whatever builds are deployed |
| `WriterTxn_proofs` | `TypeCorrect`, `CloneIsClean`, `RecordsAgree` | `TypeOK`, `CleanAtRest`, `RecordsMatchBranch` |
| | `KeepsThePromise` | `ImplementsOutcome`: the refinement of `JobOutcome` |
| `Gate_proofs` | `TypeCorrect`, `ReadsExcludeMutations` | `TypeOK`, `NoReadDuringMutation` |
| | `ReadsAreCurrent`, `DeletedStaysDeleted` | `ReadsCurrent`, `NothingOnDeleted` |
| `Service_proofs` | `ReadsAreSound` | `ReadsSound` |
| | `SubmissionsAreSafe` (from `IntakeIsSafe`) | `IntakeSafe` |
| | `AnswersAreWhole` (from `RecallIsWhole`) | `RecallWhole` |
| | `CardsAreTold` | `CardsTell`: a state invariant and the action property `OnlyNews` |
| `Evidence_proofs` | `EvidenceIsSound` | `EvidenceSound`, if `TopicMayStay = FALSE` |
| | `EvidenceStays` | all of it but `SplitDropsNothing`, whatever `TopicMayStay` |
| | `ClaimsAreFrozen` | `ClaimedIsFrozen` |
| | `StampsAreKept` (from `Parts_proofs!TrustIsKept`) | `TrustKept` |
| | `RunsAreSpared` (from `Parts_proofs!HostsAreKept`) | `UpdatesSpareRuns` |
| | `ReviewsAreSettled`, `NoticesAreRaised`, `VerdictsAreAccounted` | `ReviewsSettle`, `NoticesRaised`, `VerdictsAccounted` |
| `Agent_proofs` | `AuditsAreContained`, `CurationsAreContained` | `AuditContained`, `CurationContained` |
| | `RestartsAreSound` | `RecoverySound` |
| | `PushesFit` | `GateHolds` |
| | `WorkspacesAreFaithful` | `WorkspaceFaithful` |
| `Collect_proofs` | `VersionsAreOnce`, `RunnerIsSound` | `VersionsOnce` of `Maintain`; `RunnerSound`, the same of the composition |

`TopicMayStay = FALSE` is the one hypothesis that leaves out something the code allows.
Without it the property is false: the run `evidence_split` is the counterexample. The
runs that put several modules together are proved part by part: a step of the composition is
a step of one part and a stutter of the others, so what is proved of a part's `Spec` holds
of the composition's. The bounds of the runs
(`MaxCrashes`, `MaxForeign`, `MaxItems`, `MaxDepth`, ...) are any natural numbers.

### MaintState

The proof is in two layers. `ItemMove(old, new)` lists the ways one item can change
(created, marked, claimed, given back, unparked, granted, closed, reopened). `NextMoves` shows
action by action that every step moves each item that way or not at all, and
`RegistryMoves` does so for the lease and the build. Every theorem then argues about
`ItemMove` and `LeaseMove`, not about 25 actions again.

* The action properties follow from `TypeOK`.
* `ClaimsMatchLease` says that an item's run is the lease's, unless a sweep was cut. It is
  inductive with `TypeOK`: only the holder claims (`OnlyTheHolderClaims`), and a claim that
  survives a step kept its lease (`KeptClaims`).
* `AttemptsBounded` is not inductive: a capped item may be given one more attempt after each
  deploy. `AttemptsInv` adds what keeps it to one: an item that has used up all that the
  deploys so far allow failed last under the build deployed now, so no run start grants it
  an attempt before the next deploy.

### WriterTxn

Everything follows from one inductive invariant, `WriterInv`. Its parts, and what breaks
without them:

* `Thread`: the worker has at most one running job, and which variables mean something at
  each of its steps.
* `Branch`: a commit of the remote carries the edits of one job or none, a job's edits are in
  one commit at most, and the clone's tracking branch is a part of the remote.
* `CloneAt`: between jobs the clone's head is a part of the tracking branch and the tree is
  clean; during a job it is that and at most one commit of this job.
* `WayBack`: the base a rollback resets to, in this process or the next, is a part of the
  tracking branch.
* `Progress`: how far the job in hand has come, read off its record.
* `RecordInv`: what each record promises, also to a recovery: a running job whose edits are on
  the remote has a recorded commit there; one that is done as well; one that failed over a
  published commit is among those whose push nobody confirmed (`lapsed`).
* `ClosedRight`, `Alone`: an item's closer is on the branch; a published changeset has closed
  its item before the worker takes another job, or is among `lapsed`.

Two arguments carry the proof. A push succeeds only if the remote is a prefix of what is
pushed, so afterwards the remote is the local history; if its answer was lost, the remote is
what it was or that history. A rebase over a stale fetch rebases onto what the clone was
already on, and leaves the commit where it is. The lemmas about prefixes at the head of the
module stand for Git's ancestry.

`KeepsThePromise` takes the steps one by one: a push the remote takes is `Publish`, a final
save is `Answer`, an answer lost for good is a `Doubt`, and everything else leaves `published` and `receipt` alone. That
the answer is truthful is `RecordInv` at the step that saves it. The theorem states the
safety part of `JobOutcome`, which has no fairness.

### Gate

`LockInv` is inductive: `TypeOK`, `StepsApart` (each kind of thread keeps to its steps),
`Holds` (who is in a step that needs a lock holds it), `Excludes` (`_active_readers` is the
number of threads reading, and zero while a mutation is active), `WorkerBusy` (the worker's
job is still counted). The type invariant needs it: `readers - 1` stays a natural number
because the count is exact, and `jobs - 1` because the worker's job is counted. Lemma `LocksKept`
treats all actions alike as moves of one thread; `LocksStep` shows that each action is one.

`DataInv` adds what the data are worth: the cache is the tree or about to be dropped
(`Current`), a request on its way to a deletion still sees no jobs (`Removing`), what a
request resolved still stands (`Resolved`), and no job outlives its bundle (`Deleted`); the
last parts until a creation failed half way (`Tidy`).

### Service: ReadCache, Intake, Vectors, Watchdog

Of `ReadCache`: `ReadInv` is `TypeOK`, the clock against the files' stamps (`Now`), what the cached snapshot
is worth (`Cached`), and for each request what it knows at its step (`Knows(r)`): while it
peeks, walks or reads, each file already passed is as the walk saw it or has changed since,
and then its stamp tells. The point of the proof is `SettledHides`: a stamp that is old
enough when the fingerprint is taken cannot be given again by a later write. That is
arithmetic over ticks (`StampOfTime`, `NextTick`), with two cases, ticks up to `Racy + 1` and
whole seconds up to `CoarseTick + Racy + 1`, which is why the code has two margins. It also
rests on the order in the code: the fingerprint is taken before the contents are read.

`IntakeSafe` follows from `IntakeInv`, which ties each content's ticket to the jobs and the
bytes behind it. Its parts speak of the jobs that exist (`JobsOK`), the tickets
(`TicketsOK`), what the handler, the worker and the maintainers' queue are in the middle of
(`HandlerOK`, `WorkerOK`, `QueueOK`, `CuratorsOK`), the bytes kept (`KeptOK`) and what a
service finds that starts again (`RestOK`). Whether a ticket may be missing is answered by
who is about to write it; each of those may die there, and `cut` and `lapsed` name the
contents for which it happened.

`RecallWhole` follows from `RecallInv`: in an index a text without a vector is pending, and
nothing else is (`IndexesOK`); the cache holds the vectors of the current index
(`CacheHolds`), and the file all of the cache but the rows to come, while no compaction raced
(`FileHolds`); a bundle has one building loop and its flag says so (`OneLoops`); and a search
or a builder may hold an index that is no longer the current one, of which it knows enough
(`RequestOK`, `BuilderOK`).

`CardsTell` follows from `CardsInv`: whatever was announced and fixed by nobody is still there
(`Unfixed`), with the marks by which its check finds it. `UnfixedIsFound` then says that the
next pass finds it, cannot read, passes over its record, or has let a failure expire, and `FoundIsUnfixed` that a pass
announces no other problem. That a problem stays what it is until somebody fixes it is not
obvious: a collector that passes over a repository moves the time it ran, and must not move
the time the repository was last read (`CollectorKeeps`). A card names one backlog
(`OneBacklog`), by the largest size announced while it lasts, which is why it is news only
when it grows.

### Evidence

`EvidenceInv` is about records and what is still to be enqueued: each record has its bytes
and answers only to keys whose files it still accounts for (`Records`), no key belongs to two
records (`Apart`), and a spec on its way could be a record (`Handing`). With it go
`EvidenceThere`, `CollectionsKept` and the action property `ClaimedIsFrozen`.

`SplitDropsNothing` is not inductive even so: the child that carries a file may be split
itself, later or before a crash is repaired. `SplitInv` says that each file of a split item is
in an item with a strictly longer topic, or still to be enqueued there; items have finitely
many depths, so following it ends at an item that is not split. Here `TopicMayStay = FALSE`
is used, and only here. A first statement of the property was false at depth 2, which TLC
confirms by simulation: see "Limits" for the files a merge replaced.

`Parts_proofs` proves five parts of the composition by themselves, with parameters of their
own; `Evidence_proofs` instantiates it twice, for a host of maintainers and one of auditors,
and shows that each part starts and steps as its instance does (`PartsInit`, `PartsNext`).

* `TrustInv`: `TrustKept` is inductive once two facts about citations go with it: a concept
  nobody touched by hand cites sources that are there (`CitesThere`), and every concept cites
  what its content was written from (`BasisCited`).
* `HostInv`: a session that begins is in the lock until its pointer is there (`Locked`), so an
  update that installs has seen every record of a run, or the run's lease was not live then
  and no verb has renewed it since (`Installs`); and a session about to unlink the pointer
  does not take it from the run that holds the lease, but for the races `lost` names
  (`Unlinks`).
* `TriageInv`: a review that is to have an effect is the only one of its item and of its close
  (`Alone`), and a receipt's review is of the item's last close or of one that was reopened
  since (`Known`, from `OfLastClose`). The count of reopens orders the closes: times do not,
  since two may bear the same second.
* `AttentionInv`: each notice that was due is raised, was known, or is younger than what was
  raised instead (`Dealt`), for all the start has dealt with so far (`Starts`); a start has at
  most one notice of a concept, and raises the oldest first.
* `ReviewerInv`: each changeset is queued, landed or refused, and each of its reviews is waited
  for, answered, or among `unanswered` (`Flight`); each pending review of a run that sends is
  left, landed or refused (`Sending`), and the record holds one review of a concept
  (`OneEach`). A verdict is of what was read because contents come in order (`ReadInOrder`,
  `InOrder`): named by the backlog, read, published. `WithoutIs` says what is left of a
  sequence; it is proved by counting, without induction.

### Agent: audit, curation, restart, gate, workspace

Each part has an inductive invariant of the same make: the types, what each step finds, and
what is so at the end.

* `AuditInv` (`Auditing`, `AuditSteps`, `AuditEnded`) and `CurateInv` (`Curating`, `Stages`,
  `Ended`) follow the tree file by file from the agent to the rollback: at each step, every
  file is what it was before, what the agent left, or what the service made of that, and Git
  runs only where the metadata are as they were. A restore that fails half way is the one
  ending that may leave a trace, and it says so.
* `RestartInv` reads off the record, the head and the remote how far the job had come
  (`JobSteps`); `RecordTells` is what is left of it after a death, and is what the recovery
  relies on.
* `GateInv` says of a transaction that was committed (`Committed`): each concept it writes is
  on the tree it was rebased onto as the curator saw it, each other concept is that tree's.
  The merge is the crux (`MergedIs`): Git merges what does not overlap, and the recheck at
  the push refuses a merge into a concept that moved.
* `WorkInv` orders four versions of a file by their stamps (`Aged`: the hashes', the base's,
  the pull's, the branch's), says what a working file is next to its hashes (`Rooted`: the
  same, or they with something of the agent's on top, or else the branch has moved on and a
  whole pull is due), what a pull still has to do with it (`Planned`), and whose edits are
  left in the workspace (`Sent`, `Owned`). After a whole pull base and hashes agree, so an
  edited file holds its base, and the hash the writer compares is the base's (`Loaded`): a
  changeset, early or late, takes nothing away. A cut breaks that agreement until `SaveState`
  writes the hashes of a pull every file of which is `Settled`.

### Maintain

`VersionsOnce` is about receipts the writer keeps and entries the runner keeps, which agree only
up to the answers that were lost. `MaintainInv` says how far: an entry's attempts are jobs of its
source whose recorded end is the true one (`Refers`); the writer has one ingest of a version that
it may hand out again, and reviews an ingest again only after reviews nobody could read
(`UniqueIngest`, `AuditsInTurn`); unless the version was given up (`loose`), what may still land
is the last attempt or the POST about to be repeated (`Waits`); a newer version has an ingest only
when the older ones are through or given up (`Behind`). The attempts are counted in `Budget`: an
attempt the entry does not know of is one whose answer was lost, and an extra attempt is one per
build, since the builds of the writer only rise here.

### Only model-checked

* Liveness: `EventuallySettled`, `WorkEnds`, `WorkGoesOn`. Liveness under fairness is beyond
  the prover.
* `JobOutcome` is refined in its safety part; that every job is answered is `WorkEnds`.
* `Review` reads histories with folds, over receipts and over the commits of a file; what
  these compute for every history needs induction over sequences, which the prover cannot
  instantiate. `TypeOK`, `VerdictsStand`, `RevertOnlyItsOwn` and `ComesDue` stay with TLC.
* `CursorsComplete`: `RepoScan` folds over histories.

## 5. Not modelled

* Ranking and tokenising of search, listing, rendering, viewer, routing, `viz.html`:
  functions of one input.
* Authentication, principals, throttling, quotas, URL fetching, redaction, argument parsing.
* Migrations of the old pipeline in `cli/maint.py` (929-1053), the planner and checkpoint of
  the retired pipeline, dry-runs, reports, one-shot scripts.
* The deferral of Codex audits while a run holds the lease (`worker.py`, `_take`).
* The table from receipt texts to failure classes; where a class decides something, it is a
  choice.
* The deterministic passes of the engine over files (validate, index, digest, drift).

Git itself, the file system's atomic rename and the remote are taken at their contract, with
the failures the code handles: rejection, loss of an answer, timeout, a crash between steps.
`AgentAudit` and `AgentCurate` let a restore of `.git` fail half way.
