----------------------------- MODULE IssueDelta -----------------------------
(***************************************************************************)
(* The issues collector: src/aiwiki/maint/issue_delta.py and               *)
(* collect_issues.py, run by `collect` of cli/maint.py against the cursor  *)
(* of service/maint_state.py.                                              *)
(*                                                                         *)
(* Several collectors list the issues of Multica page by page while people *)
(* comment, create and delete, enqueue what changed since the cursor, then *)
(* move the cursor by compare-and-swap.  Calls fail, before or after they  *)
(* took effect.  An issue is its place in the order of creation, which     *)
(* also stands for its id; a time is a number of ticks.                    *)
(***************************************************************************)
EXTENDS Naturals, FiniteSets, SequencesExt

CONSTANTS
    MaxIssues,   \* bound: issues ever created
    Known,       \* how many of them are older than the cursor the collection starts from
    Excluded,    \* issues that are no evidence: the autopilot's, the agents', ...
    Collectors,  \* processes that run `ai-wiki maint collect` or `begin`
    PageSize,    \* rows of one listing call
    Settle,      \* settle_seconds
    Lag,         \* how late a change becomes visible after its time stamp
    LastChange,  \* bound: nothing changes later
    MaxChanges,  \* bound: changes after the first cursor
    MaxFaults    \* bound: calls that fail and issues that are deleted

Issues == 1..MaxIssues

ConstantsOK ==
    /\ MaxIssues \in Nat \ {0} /\ Known \in 0..MaxIssues /\ Excluded \subseteq Issues
    /\ PageSize \in Nat \ {0, 1}
    /\ Settle \in Nat /\ Lag \in Nat /\ Lag < Settle
    /\ {LastChange, MaxChanges, MaxFaults} \subseteq Nat

VARIABLES
    now,       \* the time
    alive,     \* the issues that exist
    changes,   \* what happened to them: [issue, at, kind]
    cursor,    \* the cursor on the writer: the <<time, id>> it is at
    enqueued,  \* the evidence on the writer: a change in the item <<issue, window start>>
    run,       \* what each collector is doing
    faults     \* calls failed and issues deleted so far

vars == <<now, alive, changes, cursor, enqueued, run, faults>>

Kinds  == {"created", "comment", "quiet"}  \* comment: of a person, a new status, an edit;
                                           \* quiet: of the system or an excluded agent
Origin == <<0, 0>>                         \* config `since`

Later(k1, k2) == k1[1] > k2[1] \/ (k1[1] = k2[1] /\ k1[2] > k2[2])
Latest(keys)  == CHOOSE k \in keys : \A other \in keys : ~Later(other, k)

Idle == [step |-> "idle", from |-> Origin, fresh |-> TRUE, asOf |-> 0, offset |-> 0,
         overlap |-> 0, rows |-> {}, found |-> {}, next |-> Origin]

Goto(c, step) == run' = [run EXCEPT ![c].step = step]

(* changed_at: updated_at or last_activity_at, as the listing shows them. *)
ChangedAt(i) == Max({c.at : c \in {d \in changes : d.issue = i}})

Init ==
    /\ now = 0 /\ alive = 1..Known
    /\ changes = {[issue |-> i, at |-> 0, kind |-> "created"] : i \in alive}
    /\ cursor = Origin /\ enqueued = {}
    /\ run = [c \in Collectors |-> Idle]
    /\ faults = 0

-----------------------------------------------------------------------------
(* The world. *)

Tick ==
    /\ now < LastChange + Settle
    /\ now' = now + 1
    /\ UNCHANGED <<alive, changes, cursor, enqueued, run, faults>>

More   == Cardinality(changes) < Known + MaxChanges
Stamps == {t \in 1..now : t + Lag >= now /\ t <= LastChange}

Create(i, t) ==
    /\ t \in Stamps /\ More /\ alive \cup {c.issue : c \in changes} = 1..(i - 1)
    /\ \A c \in changes : c.kind = "created" => c.at <= t
    /\ alive' = alive \cup {i}
    /\ changes' = changes \cup {[issue |-> i, at |-> t, kind |-> "created"]}
    /\ UNCHANGED <<now, cursor, enqueued, run, faults>>

Comment(i, t, kind) ==
    /\ i \in alive /\ t \in Stamps /\ More
    /\ \E c \in changes : c.issue = i /\ c.kind = "created" /\ c.at <= t
    /\ changes' = changes \cup {[issue |-> i, at |-> t, kind |-> kind]}
    /\ UNCHANGED <<now, alive, cursor, enqueued, run, faults>>

Delete(i) ==
    /\ i \in alive /\ faults < MaxFaults
    /\ alive' = alive \ {i} /\ faults' = faults + 1
    /\ UNCHANGED <<now, changes, cursor, enqueued, run>>

-----------------------------------------------------------------------------
(* A collector.  A retry (COLLECT_RETRY_S) is a start like any other: it reads *)
(* the cursor again.                                                           *)

(* The cursor is read, and what is younger than the settle time left to later. *)
Start(c) ==
    /\ run[c].step = "idle" /\ now > Settle
    /\ run' = [run EXCEPT ![c] = [Idle EXCEPT !.step = "list", !.from = cursor,
                                              !.asOf = now - Settle]]
    /\ UNCHANGED <<now, alive, changes, cursor, enqueued, faults>>

Abort(c) == run' = [run EXCEPT ![c] = Idle]

Listing == SetToSortSeq(alive, <)
Page(c) == SubSeq(Listing, run[c].offset + 1, Min({run[c].offset + PageSize, Len(Listing)}))

(* The rows so far, a page's own replacing older ones of the same issues. *)
RowsWith(c, page) ==
    {r \in run[c].rows : r.issue \notin ToSet(page)}
        \cup {[issue |-> i, key |-> <<ChangedAt(i), i>>] : i \in ToSet(page)}

(* list_issues, one call: a page that does not begin with the last row of the   *)
(* page before, or a total that is not what was listed, fails the collection.   *)
ListPage(c) ==
    /\ run[c].step = "list"
    /\ LET page    == Page(c)
           rows    == RowsWith(c, page)
           shifted == run[c].overlap # 0 /\ (page = <<>> \/ page[1] # run[c].overlap)
           whole   == run[c].offset + Len(page) >= Len(Listing)
       IN  IF shifted \/ (whole /\ Cardinality(rows) # Len(Listing)) THEN Abort(c)
           ELSE IF whole THEN run' = [run EXCEPT ![c].rows = rows, ![c].step = "gather"]
           ELSE run' = [run EXCEPT ![c].rows = rows, ![c].offset = @ + Len(page) - 1,
                                   ![c].overlap = Last(page)]
    /\ UNCHANGED <<now, alive, changes, cursor, enqueued, faults>>

(* The rows changed after the cursor. *)
Window(c) == {r \in run[c].rows : Later(r.key, run[c].from)}

(* Issues that are evidence, and of their comments those that are. *)
Candidates(c) == {r.issue : r \in Window(c)} \ Excluded
Kept(change)  == change.kind = "comment"

(* issue_candidates: comments of the window, and issues that are new. *)
InWindow(c, change) ==
    /\ change.issue \in Candidates(c)
    /\ run[c].from[1] < change.at
    /\ change.kind = "created" \/ (Kept(change) /\ change.at <= run[c].asOf)

(* Mutant: the cursor also passes what was deferred. *)
NextCursorDeferredToo(c) == Latest({r.key : r \in Window(c)} \cup {run[c].from})

(* Only settled changes move the cursor; excluded ones do too. *)
NextCursor(c) ==
    Latest({r.key : r \in {w \in Window(c) : w.key[1] <= run[c].asOf}} \cup {run[c].from})

(* The comments of each issue of the window are fetched; one that is gone fails *)
(* the collection.                                                              *)
Gather(c) ==
    /\ run[c].step = "gather"
    /\ IF ~(Candidates(c) \subseteq alive)
       THEN Abort(c)
       ELSE run' = [run EXCEPT
                ![c].step = "enqueue",
                ![c].found = {[item |-> <<ch.issue, run[c].from[1]>>, change |-> ch] :
                                  ch \in {d \in changes : InWindow(c, d)}},
                ![c].next = NextCursor(c),
                ![c].rows = {}, ![c].offset = 0, ![c].overlap = 0]
    /\ UNCHANGED <<now, alive, changes, cursor, enqueued, faults>>

(* POST /maint/items: "the evidence is frozen before the cursor moves". *)
Enqueue(c) ==
    /\ run[c].step = "enqueue"
    /\ enqueued' = enqueued \cup run[c].found
    /\ Goto(c, "move")
    /\ UNCHANGED <<now, alive, changes, cursor, faults>>

(* Another write of the cursor makes every etag read before it stale. *)
Write(c) ==
    /\ cursor' = run[c].next
    /\ run' = [d \in Collectors |-> IF d = c THEN Idle ELSE [run[d] EXCEPT !.fresh = FALSE]]

(* put_cursor: compare-and-swap from the record read at the start; 412 ends the *)
(* collection.                                                                   *)
Move(c) ==
    /\ run[c].step = "move"
    /\ IF run[c].fresh THEN Write(c) ELSE Abort(c) /\ UNCHANGED cursor
    /\ UNCHANGED <<now, alive, changes, enqueued, faults>>

(* A call fails: to Multica, or to the writer before it took effect or after;   *)
(* of the batches of an enqueue, some arrived.                                  *)
CallFails(c) ==
    /\ run[c].step # "idle" /\ faults < MaxFaults
    /\ faults' = faults + 1
    /\ \/ Abort(c) /\ UNCHANGED <<cursor, enqueued>>
       \/ /\ run[c].step = "enqueue" /\ Abort(c) /\ UNCHANGED cursor
          /\ \E part \in SUBSET {f.item : f \in run[c].found} :
                 enqueued' = enqueued \cup {f \in run[c].found : f.item \in part}
       \/ run[c].step = "move" /\ run[c].fresh /\ Write(c) /\ UNCHANGED enqueued
    /\ UNCHANGED <<now, alive, changes>>

-----------------------------------------------------------------------------
Collect(c) == Start(c) \/ ListPage(c) \/ Gather(c) \/ Enqueue(c) \/ Move(c)

Next ==
    \/ Tick
    \/ \E i \in Issues, t \in Stamps :
           Create(i, t) \/ \E kind \in {"comment", "quiet"} : Comment(i, t, kind)
    \/ \E i \in Issues : Delete(i)
    \/ \E c \in Collectors : Collect(c) \/ CallFails(c)

Spec == Init /\ [][Next]_vars

-----------------------------------------------------------------------------
(* Properties. *)

Keys == (0..LastChange) \X (0..MaxIssues)
Change == [issue: Issues, at: 0..LastChange, kind: Kinds]
Found == [item: Issues \X (0..LastChange), change: Change]

(* Every variable has its shape. *)
TypeOK ==
    /\ now \in 0..(LastChange + Settle) /\ alive \in SUBSET Issues
    /\ changes \in SUBSET Change /\ cursor \in Keys /\ enqueued \in SUBSET Found
    /\ DOMAIN run = Collectors
    /\ \A c \in Collectors :
           /\ run[c].step \in {"idle", "list", "gather", "enqueue", "move"}
           /\ run[c].from \in Keys /\ run[c].next \in Keys /\ run[c].fresh \in BOOLEAN
           /\ run[c].asOf \in 0..LastChange /\ run[c].offset \in 0..MaxIssues
           /\ run[c].overlap \in 0..MaxIssues
           /\ run[c].rows \in SUBSET [issue: Issues, key: Keys]
           /\ run[c].found \in SUBSET Found
    /\ faults \in 0..MaxFaults

Evidence == {f.change : f \in enqueued}
Citable  == {c \in changes : c.at > 0 /\ c.kind # "quiet" /\ c.issue \in alive \ Excluded}

(* "the issues cursor never moves past evidence that was not collected"         *)
(* (collect): whatever pages, failures and collectors interleave, a comment or  *)
(* an issue no younger than the cursor is on the writer.                        *)
NothingSkipped == \A c \in Citable : c.at <= cursor[1] => c \in Evidence

(* A listing that is taken as whole holds every issue there was all along, with *)
(* its changes up to the settle time.                                           *)
ListingWhole ==
    \A c \in Collectors : run[c].step = "gather" =>
        \A d \in changes : d.issue \in alive /\ d.at <= run[c].asOf =>
            \E r \in run[c].rows : r.issue = d.issue /\ r.key[1] >= d.at

(* No collector moves the cursor back over another's work.                      *)
CursorForward == [][cursor' = cursor \/ Later(cursor', cursor)]_cursor

(* Between a listing and the cursor no change is lost. *)
NothingMissed == TypeOK /\ NothingSkipped /\ ListingWhole

(* The issues cursor passes nothing that is not on the writer, and goes forward. *)
IssuesComplete == []NothingMissed /\ CursorForward
=============================================================================
