------------------------------ MODULE Watchdog ------------------------------
(***************************************************************************)
(* scripts/maintenance_watchdog.py: the timer that reads the files of the  *)
(* writer host, of the maintainer's ledger and of the scheduler, and posts *)
(* a card when what it finds changes.  The world moves between two passes; *)
(* a pass reads it, posts and saves what it announced.                     *)
(*                                                                         *)
(* A key is <<what, number, status>>.  The card's wording, the text it     *)
(* falls back to, --now and the facts printed are left out, and so are the *)
(* checks that read one number against one limit (the last commit, free    *)
(* disk, a stale checkpoint, the external audit backlog).                  *)
(***************************************************************************)
EXTENDS Naturals, Sequences, FiniteSets

CONSTANTS
    Titles,                \* of the sources: an identity `ai-wiki maintain` ingests
    MaxItems,              \* items of the maintainer's queue
    Buckets,               \* READY_BUCKETS
    FailedWindow, Unresolved, Stuck, ReadyMax, MemberMax, CursorMax, PendingMax,  \* hours
    TTL,                   \* LEASE_TTL
    MaxHour, MaxMoves,     \* bounds: the time, what happens
    MaxFaults              \* bound: passes that fail, state files lost

ConstantsOK == /\ Buckets \subseteq Nat \ {0} /\ 1 \in Buckets
               /\ {MaxItems, FailedWindow, Unresolved, Stuck, ReadyMax, MemberMax, CursorMax, PendingMax,
                   TTL, MaxHour, MaxMoves, MaxFaults} \subseteq Nat

VARIABLES
    hour,
    records,   \* the writer's jobs, by the order they were created
    undone,    \* the changesets an admin reverted
    items,     \* .okf/maint/items
    cursor,    \* .okf/maint/cursors/repos.json: updated_at, the stale_since of a repository
    lease,     \* .okf/maint/lease-maintainer.json
    source,    \* an entry of the maintainer's ledger
    shift,     \* the scheduler's newest run, and whether a checkpoint closed it out
    previous,  \* the state file: the keys last announced
    told,      \* history: the keys of the last card delivered
    forgot,    \* history: a card was delivered and the state file does not say so
    known,     \* history: the problems announced and fixed by nobody since, but for PassedOver
    moves, faults

world == <<records, undone, items, cursor, lease, source, shift>>
book  == <<previous, told, forgot, known>>
vars  == <<hour, world, book, moves, faults>>

Items   == 1..MaxItems
Legible == {j \in DOMAIN records : ~records[j].corrupt}
Hours   == 0..MaxHour
Never   == MaxHour + 1
Age(at) == hour - at
Least(m, n) == IF m < n THEN m ELSE n

Init ==
    /\ hour = 0
    /\ records = <<>> /\ undone = {}
    /\ items = [i \in Items |-> [status |-> "absent", since |-> 0, member |-> FALSE, corrupt |-> FALSE]]
    /\ cursor = [updated |-> Never, stale |-> Never]
    /\ lease = [run |-> 0, acquired |-> 0, renewed |-> 0]
    /\ source = [status |-> "done", since |-> 0]
    /\ shift = [id |-> 0, since |-> 0, status |-> "done", closed |-> FALSE]
    /\ previous = {} /\ told = {} /\ forgot = FALSE /\ known = {}
    /\ moves = 0 /\ faults = 0

-----------------------------------------------------------------------------
(* What happens on the hosts.  A fix is one of these: it takes the problem from `known`. *)
Follows(fixed) ==
    /\ known' = known \ fixed
    /\ UNCHANGED <<hour, previous, told, forgot, faults>>

Moves(fixed) == moves < MaxMoves /\ moves' = moves + 1 /\ Follows(fixed)

HourPasses ==
    /\ hour < MaxHour /\ hour' = hour + 1
    /\ UNCHANGED <<world, book, moves, faults>>

(* A job is of a version of a title, or the audit of an ingest.  No two are created at once. *)
Submit(kind, title, parent) ==
    /\ kind = "audit" => parent \in Legible /\ records[parent].kind = "ingest"
    /\ kind = "ingest" => parent = 0
    /\ records' = Append(records, [kind |-> kind, title |-> title, parent |-> parent, status |-> "queued",
                                   at |-> hour, corrupt |-> FALSE])
    /\ Moves({<<"job", j>> : j \in {n \in DOMAIN records :
                  /\ records[n].kind = kind
                  /\ IF kind = "ingest" THEN records[n].title = title ELSE records[n].parent = parent}})
    /\ UNCHANGED <<undone, items, cursor, lease, source, shift>>

(* It starts, or ends; `at` is when, and not looked at once it is done. *)
JobMoves(j, status) ==
    /\ j \in Legible
    /\ \/ records[j].status = "queued" /\ status = "running"
       \/ records[j].status = "running" /\ status \in {"done", "failed"}
    /\ records' = [records EXCEPT ![j].status = status, ![j].at = IF status = "done" THEN 0 ELSE hour]
    /\ UNCHANGED moves /\ Follows({})
    /\ UNCHANGED <<undone, items, cursor, lease, source, shift>>

Revert(j) ==
    /\ j \in Legible \ undone /\ records[j].kind = "ingest" /\ records[j].status = "done"
    /\ undone' = undone \cup {j}
    /\ UNCHANGED moves /\ Follows({<<"job", a>> : a \in {n \in DOMAIN records : records[n].parent = j}})
    /\ UNCHANGED <<records, items, cursor, lease, source, shift>>

Resolves(k, j) ==
    \/ /\ records[k].kind = "ingest" /\ records[j].kind = "ingest"
       /\ records[k].title = records[j].title
    \/ records[k].kind = "audit" /\ records[j].kind = "audit" /\ records[k].parent = records[j].parent

(* A job's record is damaged; somebody restores it, and what it resolves is so again. *)
RecordDamaged(j) ==
    /\ records' = [records EXCEPT ![j].corrupt = ~@]
    /\ Moves(IF records[j].corrupt /\ records[j].status # "failed"
             THEN {<<"job", n>> : n \in {m \in 1..(j - 1) : Resolves(j, m)}} ELSE {})
    /\ UNCHANGED <<undone, items, cursor, lease, source, shift>>

ItemTo(i, status, fixed) ==
    /\ ~items[i].corrupt
    /\ items' = [items EXCEPT ![i].status = status, ![i].since = IF status = "ready" THEN hour ELSE 0]
    /\ UNCHANGED moves /\ Follows(fixed)
    /\ UNCHANGED <<records, undone, cursor, lease, source, shift>>

NewItem(i) ==
    /\ items[i].status = "absent"
    /\ \E member \in BOOLEAN :
         items' = [items EXCEPT ![i] = [status |-> "ready", since |-> hour, member |-> member, corrupt |-> FALSE]]
    /\ Moves({})
    /\ UNCHANGED <<records, undone, cursor, lease, source, shift>>

(* A run closes a ready item or gives it up; the owner retries or resolves what was given up. *)
CloseItem(i) == items[i].status = "ready" /\ \E s \in {"curated", "needs_human"} : ItemTo(i, s, {})
OwnerFixes(i) ==
    /\ items[i].status = "needs_human"
    /\ \E s \in {"ready", "curated"} : ItemTo(i, s, {<<"item", i>>})

(* item.json is damaged; somebody restores it. *)
ItemDamaged(i) ==
    /\ items[i].status # "absent"
    /\ items' = [items EXCEPT ![i].corrupt = ~@]
    /\ Moves(IF items[i].corrupt /\ items[i].status # "needs_human" THEN {<<"item", i>>} ELSE {})
    /\ UNCHANGED <<records, undone, cursor, lease, source, shift>>

(* A collection reads every repository, or all but one, whose row stays as it was. *)
CollectorRuns(whole) ==
    /\ cursor' = [updated |-> hour, stale |-> IF whole THEN Never ELSE Least(cursor.stale, hour)]
    /\ Moves(IF whole THEN {<<"repo", 0>>} ELSE {})
    /\ UNCHANGED <<records, undone, items, lease, source, shift>>

LeaseUntil == lease.renewed + TTL
LeaseLive  == lease.run # 0 /\ hour < LeaseUntil

BeginRun ==
    /\ ~LeaseLive
    /\ lease' = [run |-> hour + 1, acquired |-> hour, renewed |-> hour]
    /\ UNCHANGED moves /\ Follows({<<"lease", lease.run>>})
    /\ UNCHANGED <<records, undone, items, cursor, source, shift>>

RenewRun ==
    /\ LeaseLive /\ lease.renewed < hour
    /\ lease' = [lease EXCEPT !.renewed = hour]
    /\ UNCHANGED moves /\ Follows({})
    /\ UNCHANGED <<records, undone, items, cursor, source, shift>>

EndRun ==
    /\ lease.run # 0
    /\ lease' = [run |-> 0, acquired |-> 0, renewed |-> 0]
    /\ UNCHANGED moves /\ Follows({<<"lease", lease.run>>})
    /\ UNCHANGED <<records, undone, items, cursor, source, shift>>

LedgerMoves(status) ==
    /\ source.status # status
    /\ source' = [status |-> status, since |-> IF status = "pending" THEN hour ELSE source.since]
    /\ Moves({<<"source", 0>>})
    /\ UNCHANGED <<records, undone, items, cursor, lease, shift>>

(* The scheduler starts a run; it ends; a checkpoint closes a failed one out by hand. *)
ShiftMoves ==
    /\ \/ shift' = [id |-> moves + 1, since |-> hour, status |-> "running", closed |-> FALSE]
       \/ \E s \in {"done", "failed"} : shift.status = "running" /\ shift' = [shift EXCEPT !.status = s]
       \/ shift.status = "failed" /\ ~shift.closed /\ shift' = [shift EXCEPT !.closed = TRUE]
    /\ Moves(IF shift.status = "failed" THEN {<<"shift", shift.id>>} ELSE {})
    /\ UNCHANGED <<records, undone, items, cursor, lease, source>>

-----------------------------------------------------------------------------
(* The checks.  check_bundle counts a record it cannot read and goes on without it. *)

(* A later attempt that is done or under way, or the revert of what the audit was to judge. *)
Retried(j) ==
    \/ \E k \in Legible : k > j /\ Resolves(k, j) /\ records[k].status # "failed"
    \/ records[j].kind = "audit" /\ records[j].parent \in undone

AlertForWindow == FailedWindow

(* A failure nobody retried is an alert for longer than it is listed. *)
AlertFor == IF FailedWindow > Unresolved THEN FailedWindow ELSE Unresolved

FailedJobs == {<<"job_failed", j, "">> : j \in {n \in Legible :
                  records[n].status = "failed" /\ Age(records[n].at) <= AlertFor /\ ~Retried(n)}}

(* A queued audit the lease holds back waits from the lease's end. *)
Since(j) == IF records[j].status = "queued" /\ records[j].kind = "audit" /\ lease.run # 0 /\ LeaseUntil > records[j].at
            THEN LeaseUntil ELSE records[j].at

StuckJobs == {<<"job_stuck", j, records[j].status>> : j \in {n \in Legible :
                 records[n].status \in {"queued", "running"} /\ hour > Since(n) + Stuck}}

CheckBundle == FailedJobs \cup StuckJobs

Readable == {i \in Items : items[i].status # "absent" /\ ~items[i].corrupt}
Corrupt  == {<<"maint_item_corrupt", i, "">> : i \in {n \in Items : items[n].corrupt}}
NeedsHuman == {<<"maint_needs_human", i, "">> : i \in {n \in Readable : items[n].status = "needs_human"}}

Waiting(limit) == {i \in Readable : items[i].status = "ready" /\ Age(items[i].since) > limit}
Bucket(count)  == CHOOSE b \in Buckets : b <= count /\ \A c \in Buckets : c <= count => c <= b

ReadyStale == IF Waiting(ReadyMax) = {} THEN {}
              ELSE {<<"maint_ready_stale", Bucket(Cardinality(Waiting(ReadyMax))), "">>}
MemberStale == {<<"maint_member_ready_stale", 0, "">> : i \in {n \in Waiting(MemberMax) : items[n].member}}

(* A repository that cannot be read has not advanced, whatever else the cursor says. *)
CursorAt == Least(cursor.updated, cursor.stale)

CursorStale == IF cursor.updated # Never /\ hour > CursorAt + CursorMax THEN {<<"maint_cursor_stale", 0, "">>} ELSE {}

(* One condition for as long as the file names the run. *)
LeaseShown == lease.run # 0
LeaseStuck == IF LeaseShown /\ Age(lease.acquired) > Stuck THEN {<<"maint_lease_stuck", lease.run, "">>} ELSE {}

CheckMaint == Corrupt \cup NeedsHuman \cup ReadyStale \cup MemberStale \cup CursorStale \cup LeaseStuck

CheckLedger ==
    CASE source.status = "needs_repair" -> {<<"ledger_needs_repair", 0, "">>}
      [] source.status = "pending" /\ Age(source.since) > PendingMax -> {<<"ledger_pending_stale", 0, "">>}
      [] OTHER -> {}

CheckMultica ==
    (IF shift.status = "running" /\ Age(shift.since) > Stuck THEN {<<"run_stuck", shift.id, "">>} ELSE {})
    \cup (IF shift.status = "failed" /\ ~shift.closed THEN {<<"latest_run_failed", shift.id, "">>} ELSE {})

Checks == {"writer", "maint", "ledger", "multica"}
Found(check) ==
    CASE check = "writer" -> CheckBundle
      [] check = "maint" -> CheckMaint
      [] check = "ledger" -> CheckLedger
      [] check = "multica" -> CheckMultica

-----------------------------------------------------------------------------
(* The pass. *)

(* A backlog keeps the highest size announced while it lasts. *)
Announced(key, keys) ==
    LET sizes == {k[2] : k \in {n \in keys \cup {key} : n[1] = "maint_ready_stale"}}
    IN IF key[1] # "maint_ready_stale" THEN key
       ELSE <<key[1], CHOOSE m \in sizes : \A n \in sizes : n <= m, key[3]>>

Problem(key) ==
    CASE key[1] = "job_failed" -> <<"job", key[2]>>
      [] key[1] \in {"maint_item_corrupt", "maint_needs_human"} -> <<"item", key[2]>>
      [] key[1] = "maint_lease_stuck" -> <<"lease", key[2]>>
      [] key[1] = "ledger_needs_repair" -> <<"source", 0>>
      [] key[1] = "latest_run_failed" -> <<"shift", key[2]>>
      [] key[1] = "maint_cursor_stale" /\ cursor.stale # Never -> <<"repo", 0>>
      [] OTHER -> <<"none", 0>>

(* A card that was not delivered is posted again by the next pass. *)
Saves(result) == result = "saved"

(* The jobs whose records a pass could not read: their alerts leave the card without a word. *)
PassedOver(broken) ==
    IF "writer" \in broken THEN {} ELSE {<<"job", j>> : j \in DOMAIN records \ Legible}

(* A check that cannot read is an error, never healthy.  The pass dies or fails before it
   posts ("failed"), or after, before it saves ("unsaved"). *)
Watch(broken, result) ==
    /\ faults' = faults + Cardinality(broken) + (IF result = "saved" THEN 0 ELSE 1)
    /\ faults' <= MaxFaults
    /\ LET found == UNION {Found(c) : c \in Checks \ broken}
           keys  == {Announced(k, previous) : k \in found \cup {<<"error", 0, c>> : c \in broken}}
           delivered == keys # previous /\ result # "failed"
       IN /\ told' = IF delivered THEN keys ELSE told
          /\ previous' = IF Saves(result) THEN keys ELSE previous
          /\ forgot' = IF delivered THEN result = "unsaved" ELSE forgot
          /\ known' = IF result = "saved"
                      THEN (known \ PassedOver(broken)) \cup ({Problem(k) : k \in found} \ {<<"none", 0>>})
                      ELSE known
    /\ UNCHANGED <<hour, world, moves>>

(* Missing or unreadable state: announced again, rather than silent. *)
StateLost ==
    /\ faults < MaxFaults /\ faults' = faults + 1
    /\ previous # {}
    /\ previous' = {}
    /\ forgot' = TRUE
    /\ UNCHANGED <<hour, world, told, known, moves>>

JobsMove ==
    \/ \E kind \in {"ingest", "audit"}, title \in Titles, parent \in 0..MaxMoves : Submit(kind, title, parent)
    \/ \E j \in DOMAIN records : Revert(j) \/ RecordDamaged(j) \/ \E s \in {"running", "done", "failed"} : JobMoves(j, s)

QueueMoves ==
    \/ \E i \in Items : NewItem(i) \/ CloseItem(i) \/ OwnerFixes(i) \/ ItemDamaged(i)
    \/ \E whole \in BOOLEAN : CollectorRuns(whole)

LeaseMoves == BeginRun \/ RenewRun \/ EndRun

OthersMove == ShiftMoves \/ \E s \in {"pending", "needs_repair", "done"} : LedgerMoves(s)

Watches ==
    \/ HourPasses \/ StateLost
    \/ \E broken \in SUBSET Checks, result \in {"saved", "unsaved", "failed"} : Watch(broken, result)

Next == JobsMove \/ QueueMoves \/ LeaseMoves \/ OthersMove \/ Watches

Spec == Init /\ [][Next]_vars

-----------------------------------------------------------------------------
Whats == {"job_failed", "job_stuck", "maint_item_corrupt", "maint_needs_human", "maint_ready_stale",
          "maint_member_ready_stale", "maint_cursor_stale", "maint_lease_stuck", "ledger_needs_repair",
          "ledger_pending_stale", "run_stuck", "latest_run_failed", "error"}
Keys == Whats \X (0..(Never + MaxMoves + MaxItems)) \X ({"", "queued", "running"} \cup Checks)

(* The type of every variable. *)
TypeOK ==
    /\ hour \in Hours /\ moves \in 0..MaxMoves /\ faults \in 0..MaxFaults
    /\ \A j \in DOMAIN records :
         records[j] \in [kind: {"ingest", "audit"}, title: Titles, parent: 0..MaxMoves,
                         status: {"queued", "running", "done", "failed"}, at: Hours, corrupt: BOOLEAN]
    /\ undone \subseteq DOMAIN records
    /\ items \in [Items -> [status: {"absent", "ready", "needs_human", "curated"}, since: Hours,
                            member: BOOLEAN, corrupt: BOOLEAN]]
    /\ cursor \in [updated: 0..Never, stale: 0..Never]
    /\ lease \in [run: 0..Never, acquired: Hours, renewed: Hours]
    /\ source \in [status: {"done", "pending", "needs_repair"}, since: Hours]
    /\ shift \in [id: 0..MaxMoves, since: Hours, status: {"running", "done", "failed"}, closed: BOOLEAN]
    /\ \A k \in previous \cup told : k \in Keys
    /\ forgot \in BOOLEAN
    /\ known \subseteq {"job", "item", "lease", "source", "shift", "repo"} \X (0..(Never + MaxMoves + MaxItems))

CheckOf(p) ==
    CASE p[1] = "job" -> "writer" [] p[1] \in {"item", "lease", "repo"} -> "maint"
      [] p[1] = "source" -> "ledger" [] OTHER -> "multica"

(* Nothing unfixed reads as a recovery: a failure past the listing window, a dead run's lease, an
   item that was given up and is now unreadable and a repository the collector passes over stay on
   the card, or the check that cannot see them does.  A failure expires after a week; and a job whose
   record a pass could not read is passed over, so its failure does leave the card unfixed. *)
NothingReadsAsFixed ==
    ~forgot =>
       \A p \in known :
          \/ \E k \in told : Problem(k) = p \/ k = <<"error", 0, CheckOf(p)>>
          \/ p[1] = "job" /\ Age(records[p[2]].at) > Unresolved

(* What the state file says was announced has been: a message that was not delivered is sent by a
   later pass, and a cleared state too; not while the file is behind the cards delivered. *)
EverythingTold == ~forgot => previous = told

Backlogs(keys) == {k \in keys : k[1] = "maint_ready_stale"}

(* A backlog that shrinks, or goes back to a size already announced, is no news: while it lasts, a
   card differs by something else or by a larger size. *)
OnlyNews ==
    [][(told' # told /\ previous = told /\ Backlogs(told) # {} /\ Backlogs(told') # {}) =>
          \/ told' \ Backlogs(told') # told \ Backlogs(told)
          \/ \E k \in Backlogs(told') : \A l \in Backlogs(told) : k[2] > l[2]]_vars

(* The cards tell what is wrong, all of it, and only news. *)
CardsTell == [](TypeOK /\ NothingReadsAsFixed /\ EverythingTold) /\ OnlyNews
=============================================================================
