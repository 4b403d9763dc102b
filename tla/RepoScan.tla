------------------------------ MODULE RepoScan ------------------------------
(***************************************************************************)
(* The repositories collector: src/aiwiki/maint/collect_repos.py, run by   *)
(* `collect` of cli/maint.py against the `repos` cursor of the writer.     *)
(*                                                                         *)
(* A branch is its history, the sequence of its commits, so that a SHA is  *)
(* the history that ends in it, as in WriterTxn.  Remotes are pushed to,   *)
(* rewritten, lose branches, change their default branch and drop out of   *)
(* the inventory between and during scans; a call may fail at any point.   *)
(* What a commit changes is left out: evidence is the range it was read    *)
(* from.  Evidence a merge replaces stays in the item's versions, so what  *)
(* is frozen once is kept.                                                 *)
(***************************************************************************)
EXTENDS Naturals, FiniteSets, Sequences
LOCAL INSTANCE SequencesExt

CONSTANTS
    Repos,       \* canonical remotes
    Own,         \* exclude_remotes: the bundle's own repository
    Branches,    \* branch names
    NoBranch,    \* no such branch
    Pinned,      \* branch_overrides: a branch or NoBranch per repository
    Collectors,  \* processes that collect
    MaxCommits,  \* bound: commits ever made
    MaxEvents    \* bound: rewrites, deleted branches, other defaults, repositories (un)listed,
                 \* and calls that fail

ConstantsOK ==
    /\ Own \subseteq Repos /\ NoBranch \notin Branches
    /\ Pinned \in [Repos -> Branches \cup {NoBranch}]
    /\ MaxCommits \in Nat \ {0} /\ MaxEvents \in Nat

VARIABLES
    heads,    \* the branches of each remote; <<>>: there is none of that name
    default,  \* the branch its HEAD names
    listed,   \* the repositories found, registered or required
    made,     \* commits made so far, all remotes together
    events,   \* what else happened so far
    cursor,   \* the `repos` cursor on the writer: a row per repository
    frozen,   \* the evidence on the writer
    run       \* what each collector is doing

remotes == <<heads, default, listed, made>>
vars    == <<remotes, events, cursor, frozen, run>>

Histories == Seq(1..MaxCommits)
None  == <<>>  \* no history, no commit
NoRow == [branch |-> NoBranch, sha |-> None, stale |-> FALSE]

Commits(h)       == {SubSeq(h, 1, n) : n \in 1..Len(h)}
Between(base, h) == Commits(h) \ Commits(base)
IsAncestor(g, h) == IsPrefix(g, h)
MergeBase(g, h) == LET common == Commits(g) \cap Commits(h)
                   IN  IF common = {} THEN None
                       ELSE CHOOSE c \in common : \A d \in common : Len(d) <= Len(c)

Idle == [step |-> "idle", from |-> [r \in Repos |-> NoRow], fresh |-> TRUE, todo |-> {},
         rows |-> [r \in Repos |-> NoRow], found |-> {}]

Init ==
    /\ heads = [r \in Repos |-> [b \in Branches |-> None]]
    /\ default \in [Repos -> Branches]
    /\ listed = Repos /\ made = 0 /\ events = 0
    /\ cursor = [r \in Repos |-> NoRow] /\ frozen = {}
    /\ run = [c \in Collectors |-> Idle]

-----------------------------------------------------------------------------
(* The remotes. *)

Commit(r, b) ==
    /\ made < MaxCommits /\ made' = made + 1
    /\ heads' = [heads EXCEPT ![r][b] = Append(@, made')]
    /\ UNCHANGED <<default, listed, events, cursor, frozen, run>>

Happens == events < MaxEvents /\ events' = events + 1

(* A branch is reset to an older commit or another branch, or deleted. *)
ResetBranch(r, b) ==
    /\ Happens
    /\ \E h \in UNION {Commits(heads[r][x]) : x \in Branches} \cup {None} :
           h # heads[r][b] /\ heads' = [heads EXCEPT ![r][b] = h]
    /\ UNCHANGED <<default, listed, made, cursor, frozen, run>>

NewDefault(r, b) ==
    /\ Happens /\ default[r] # b
    /\ default' = [default EXCEPT ![r] = b]
    /\ UNCHANGED <<heads, listed, made, cursor, frozen, run>>

Relist(r) ==
    /\ Happens
    /\ listed' = IF r \in listed THEN listed \ {r} ELSE listed \cup {r}
    /\ UNCHANGED <<heads, default, made, cursor, frozen, run>>

-----------------------------------------------------------------------------
(* A collector. *)

Start(c) ==
    /\ run[c].step = "idle"
    /\ run' = [run EXCEPT ![c] = [Idle EXCEPT !.step = "scan", !.from = cursor, !.todo = Repos]]
    /\ UNCHANGED <<remotes, events, cursor, frozen>>

(* remote_branch_head: an override, else the branch of the checkpoint while it  *)
(* exists, else the remote's default, else its only branch.                     *)
Selected(r, row) ==
    LET there == {b \in Branches : heads[r][b] # None}
    IN  CASE Pinned[r] # NoBranch                     -> {Pinned[r]} \cap there
          [] (Pinned[r] = NoBranch /\ row.branch \in there) -> {row.branch}
          [] OTHER -> IF default[r] \in there THEN {default[r]}
                      ELSE {b \in there : there = {b}}

(* The row of a scan that did not succeed: the last good one, marked stale.     *)
Carried(row) == IF row.sha = None THEN NoRow ELSE [row EXCEPT !.stale = TRUE]

Scanned(c, r, row, ranges) ==
    run' = [run EXCEPT ![c].todo = @ \ {r}, ![c].rows[r] = row, ![c].found = @ \cup ranges,
                       ![c].step = IF run[c].todo = {r} THEN "enqueue" ELSE "scan"]

(* Git fails on the repository, or it has no branch to read. *)
ScanFails(c, r) ==
    /\ run[c].step = "scan" /\ r \in run[c].todo \cap listed
    /\ \/ Selected(r, run[c].from[r]) = {} /\ UNCHANGED events
       \/ Happens
    /\ Scanned(c, r, Carried(run[c].from[r]), {})
    /\ UNCHANGED <<remotes, cursor, frozen>>

(* "Keep the row rather than dropping its history": it was not in the inventory. *)
Unlisted(c, r) ==
    /\ run[c].step = "scan" /\ r \in run[c].todo \ listed
    /\ Scanned(c, r, Carried(run[c].from[r]), {})
    /\ UNCHANGED <<remotes, events, cursor, frozen>>

(* What a range is evidence of: the items of its topics, or one to review.      *)
Changes(r, base, head) == [repo |-> r, kind |-> "changes", base |-> base, head |-> head]
Rebaseline(r, base, head) == [repo |-> r, kind |-> "baseline", base |-> base, head |-> head]

(* "new" to the cursor, or "rebaselined": another branch, or a rewritten one.   *)
Lineage(row, branch, head) ==
    IF row.sha = None THEN "new"
    ELSE IF branch = row.branch /\ IsAncestor(row.sha, head) THEN "changed" ELSE "rebaselined"

(* Never across lineages: a rebaseline is what the branch added since the merge *)
(* base, or the whole tree when the old commit is not `kept`.                   *)
EvidenceOf(r, row, branch, head, kept) ==
    CASE Lineage(row, branch, head) = "changed"     -> Changes(r, row.sha, head)
      [] Lineage(row, branch, head) = "new"         -> Rebaseline(r, None, head)
      [] Lineage(row, branch, head) = "rebaselined" ->
             Rebaseline(r, IF kept THEN MergeBase(row.sha, head) ELSE None, head)

(* The candidates of a scanned repository; the bundle's own yields none.        *)
Found(r, row, branch, head, kept) ==
    IF head = row.sha \/ r \in Own THEN {} ELSE {EvidenceOf(r, row, branch, head, kept)}

Scan(c, r) ==
    /\ run[c].step = "scan" /\ r \in run[c].todo \cap listed
    /\ \E branch \in Selected(r, run[c].from[r]), kept \in BOOLEAN :
           LET head == heads[r][branch]
           IN  Scanned(c, r, [branch |-> branch, sha |-> head, stale |-> FALSE],
                       Found(r, run[c].from[r], branch, head, kept))
    /\ UNCHANGED <<remotes, events, cursor, frozen>>

(* collect: a changed repository whose evidence cannot be read keeps its row.   *)
EvidenceFails(c, r) ==
    /\ run[c].step = "enqueue" /\ Happens
    /\ \E f \in run[c].found : f.repo = r /\ f.kind = "changes"
    /\ run' = [run EXCEPT ![c].found = {f \in @ : f.repo # r},
                          ![c].rows[r] = Carried(run[c].from[r])]
    /\ UNCHANGED <<remotes, cursor, frozen>>

(* "the evidence is frozen before the cursor moves" *)
Enqueue(c) ==
    /\ run[c].step = "enqueue"
    /\ frozen' = frozen \cup run[c].found
    /\ run' = [run EXCEPT ![c].step = "move", ![c].found = {}]
    /\ UNCHANGED <<remotes, events, cursor>>

Write(c) ==
    /\ cursor' = run[c].rows
    /\ run' = [d \in Collectors |-> IF d = c THEN Idle ELSE [run[d] EXCEPT !.fresh = FALSE]]

Abort(c) == run' = [run EXCEPT ![c] = Idle] /\ UNCHANGED cursor

(* put_cursor by compare-and-swap. *)
Move(c) ==
    /\ run[c].step = "move"
    /\ IF run[c].fresh THEN Write(c) ELSE Abort(c)
    /\ UNCHANGED <<remotes, events, frozen>>

(* The collection fails as a whole, the writer may have taken part of it.       *)
CallFails(c) ==
    /\ run[c].step # "idle" /\ Happens
    /\ \/ Abort(c) /\ UNCHANGED frozen
       \/ /\ run[c].step = "enqueue" /\ Abort(c)
          /\ \E part \in SUBSET run[c].found : frozen' = frozen \cup part
       \/ run[c].step = "move" /\ run[c].fresh /\ Write(c) /\ UNCHANGED frozen
    /\ UNCHANGED remotes

-----------------------------------------------------------------------------
Next ==
    \/ \E r \in Repos, b \in Branches : Commit(r, b) \/ ResetBranch(r, b) \/ NewDefault(r, b)
    \/ \E r \in Repos : Relist(r)
    \/ \E c \in Collectors :
           \/ Start(c) \/ Enqueue(c) \/ Move(c) \/ CallFails(c)
           \/ \E r \in Repos : Scan(c, r) \/ ScanFails(c, r) \/ Unlisted(c, r) \/ EvidenceFails(c, r)

Spec == Init /\ [][Next]_vars

-----------------------------------------------------------------------------
(* Properties. *)

Row == [branch: Branches, sha: Histories \ {None}, stale: BOOLEAN] \cup {NoRow}

(* Every variable has its shape, and a repository that was never read no row.   *)
TypeOK ==
    /\ heads \in [Repos -> [Branches -> Histories]] /\ default \in [Repos -> Branches]
    /\ listed \in SUBSET Repos /\ made \in 0..MaxCommits /\ events \in 0..MaxEvents
    /\ cursor \in [Repos -> Row]
    /\ \A f \in frozen : f.repo \in Repos /\ f.kind \in {"changes", "baseline"}
    /\ \A c \in Collectors :
           /\ run[c].step \in {"idle", "scan", "enqueue", "move"}
           /\ run[c].todo \in SUBSET Repos /\ run[c].fresh \in BOOLEAN
           /\ run[c].from \in [Repos -> Row] /\ run[c].rows \in [Repos -> Row]

(* Each commit under the cursor of a repository is in the range of evidence     *)
(* that was frozen: no failure, rewrite or second collector opens a gap.        *)
NoGap ==
    \A r \in Repos \ Own : \A commit \in Commits(cursor[r].sha) :
        \E f \in frozen : f.repo = r /\ commit \in Between(f.base, f.head)

(* "Never diff across lineages": the base of a range is an ancestor of its head. *)
NoDiffAcross == \A f \in frozen : IsPrefix(f.base, f.head)

(* A repository once in the cursor stays there through failures, a scan that    *)
(* does not list it and other collectors, and nothing is new twice.             *)
RowsKept == [][\A r \in Repos : cursor[r] # NoRow => cursor'[r] # NoRow]_cursor

(* Whatever the remotes go through, no commit is lost and none is another's. *)
NothingMissed == TypeOK /\ NoGap /\ NoDiffAcross

(* The repos cursor passes no commit that is not in evidence, and forgets no repository. *)
ReposComplete == []NothingMissed /\ RowsKept
=============================================================================
