------------------------------- MODULE Triage -------------------------------
(***************************************************************************)
(* The triage review of src/aiwiki/service/triage.py: auditors judge the   *)
(* maintainer's skips, each review a durable receipt, while the maintainer *)
(* and an admin go on closing and reopening the same items under another   *)
(* lock.  The auditor's side is the triage part of src/aiwiki/cli/review.py. *)
(*                                                                         *)
(* An item has evidence and its epoch has passed; "skipped" is also        *)
(* "duplicate".  A review is its verdict: notes, claims, quotes and        *)
(* triage.md are left out.  Times have one second, so two closes can bear  *)
(* the same one.                                                           *)
(***************************************************************************)
EXTENDS Naturals, FiniteSets

CONSTANTS
    Items,
    Runs,          \* maintainer runs, each of one principal
    Auditors,      \* principals with the audit scope; one may be a maintainer too
    Nobody,        \* no run, no lease, no request
    MaxClock,      \* bound: seconds
    MaxReopens,    \* bound: no retry by hand once an item was reopened this often
    MaxCrashes     \* bound: crashes of the service

ConstantsOK == /\ Nobody \notin Runs \cup Auditors
               /\ {MaxClock, MaxReopens, MaxCrashes} \subseteq Nat

VARIABLES
    items,      \* item.json: status, the resolution's time and run, what reopened it
    receipts,   \* .okf/triage: a receipt's status, by its id
    request,    \* the POST that holds the triage lock, if any
    lease,      \* the run that holds the auditor lease
    verdicts,   \* review.json: what each auditor recorded of each item
    clock,      \* when the last item was closed
    crashes

vars == <<items, receipts, request, lease, verdicts, clock, crashes>>

(* A review that reopened the item is its mark: triage_reopen adds both. *)
Absent  == [status |-> "absent", at |-> 0, run |-> Nobody, reopens |-> 0, reviews |-> {}, marked |-> FALSE]
Ready   == [Absent EXCEPT !.status = "ready"]
Pending == {"upheld", "missed"}
NoRequest == [by |-> Nobody, stage |-> "none", todo |-> {}, fresh |-> {}, refused |-> {}, now |-> {}]

Init ==
    /\ items \in [Items -> {Absent, Ready}]
    /\ receipts = <<>>
    /\ request = NoRequest
    /\ lease = Nobody
    /\ verdicts = [a \in Auditors |-> [i \in Items |-> "none"]]
    /\ clock = 1
    /\ crashes = 0

-----------------------------------------------------------------------------
(* maint_state: what else happens to an item, each under its own lock. *)
ItemStep(i, record) ==
    /\ items' = [items EXCEPT ![i] = record]
    /\ UNCHANGED <<receipts, request, lease, verdicts, clock, crashes>>

(* Two items may be closed in one second, and not earlier than the last. *)
CloseBy(i, r) ==
    /\ items[i].status = "ready"
    /\ clock' \in {clock, clock + 1} /\ clock' <= MaxClock
    /\ items' = [items EXCEPT ![i].status = "skipped", ![i].at = clock', ![i].run = r]
    /\ UNCHANGED <<receipts, request, lease, verdicts, crashes>>

Skip(i, r) == CloseBy(i, r)

(* A close that no maintainer run made; one by a changeset is as little to review. *)
AdminSkip(i) == CloseBy(i, Nobody)

(* _reopen: who reopens an item whose skip was reviewed leaves the mark of the review. *)
Reopened(item) == [item EXCEPT !.status = "ready", !.at = 0, !.run = Nobody, !.reopens = item.reopens + 1]

AdminRetry(i) ==
    /\ items[i].status = "skipped" /\ \A j \in Items : items[j].reopens < MaxReopens
    /\ ItemStep(i, Reopened(items[i]))

(* Of a split's children, those the model shows: new items, open ones the evidence merges into,
   or closed ones that stay as they were. *)
Child(item, marked) ==
    CASE item.status = "absent" -> [Ready EXCEPT !.marked = marked]
      [] item.status = "ready"  -> [item EXCEPT !.marked = item.marked \/ marked]
      [] OTHER -> item

Split(i, children) ==
    /\ items[i].status = "ready" /\ i \notin children
    /\ items' = [j \in Items |->
           IF j = i THEN [items[i] EXCEPT !.status = "split"]
           ELSE IF j \in children THEN Child(items[j], items[i].marked) ELSE items[j]]
    /\ UNCHANGED <<receipts, request, lease, verdicts, clock, crashes>>

-----------------------------------------------------------------------------
(* The service: decisions and their receipts. *)
Decision(i) == <<i, items[i].at, items[i].run>>

JudgedBy(id) == <<id.item, id.at, id.run>>

Judged == {JudgedBy(id) : id \in {r \in DOMAIN receipts : receipts[r] = "done"}}

(* A maintainer's skip no done review has judged, of an item no review has reopened. *)
Due(i) == /\ items[i].status = "skipped" /\ items[i].run # Nobody
          /\ Decision(i) \notin Judged
          /\ ~items[i].marked

(* _id: one principal's review of one decision, which its time and run may not tell apart. *)
Id(a, i, verdict) ==
    [by |-> a, item |-> i, at |-> items[i].at, run |-> items[i].run, reopens |-> items[i].reopens,
     verdict |-> verdict]

Applying == {id \in DOMAIN receipts : receipts[id] = "applying"}

(* triage_reopen: only of the decision the review judged. *)
ReopensNow(id) ==
    /\ id \notin items[id.item].reviews
    /\ items[id.item].status = "skipped" /\ Decision(id.item) = JudgedBy(id)

ReopenedBy(id) ==
    LET item == items[id.item]
    IN [Reopened(item) EXCEPT !.reviews = item.reviews \cup {id}, !.marked = TRUE]

(* A review that already reopened its item is done: a replay changes nothing. *)
Outcome(id) ==
    IF id.verdict = "upheld" \/ id \in items[id.item].reviews \/ ReopensNow(id) THEN "done" ELSE "void"

(* A request takes the triage lock. *)
Post(a) ==
    /\ request = NoRequest
    /\ \E i \in Items : verdicts[a][i] \in Pending
    /\ request' = [NoRequest EXCEPT !.by = a, !.stage = "settle",
                       !.todo = {i \in Items : verdicts[a][i] \in Pending}]
    /\ UNCHANGED <<items, receipts, lease, verdicts, clock, crashes>>

(* What a step may apply: what a crash left comes first, then all the new receipts. *)
MayApply == request.stage = "settle" \/ (request.stage = "write" /\ request.fresh = {})

Effect(id) ==
    /\ MayApply /\ request.now = {} /\ id \in Applying
    /\ request' = [request EXCEPT !.now = {<<id, Outcome(id)>>}]
    /\ items' = IF id.verdict = "missed" /\ ReopensNow(id)
                THEN [items EXCEPT ![id.item] = ReopenedBy(id)]
                ELSE items
    /\ UNCHANGED <<receipts, lease, verdicts, clock, crashes>>

Record ==
    /\ \E done \in request.now : receipts' = [receipts EXCEPT ![done[1]] = done[2]]
    /\ request' = [request EXCEPT !.now = {}]
    /\ UNCHANGED <<items, lease, verdicts, clock, crashes>>

SettlesLater == request.now = {}

(* _finish: every receipt a crash left applying is done or void before a review is judged. *)
SettlesFirst == request.now = {} /\ Applying = {}

(* A resend while its item is not due gets its receipt; another review of it is refused. *)
Sent(a, i) == \E id \in DOMAIN receipts : id.by = a /\ id.item = i /\ id.verdict = verdicts[a][i]

JudgeOne(i) ==
    LET a == request.by IN
    /\ request.stage \in {"settle", "judge"} /\ SettlesFirst /\ i \in request.todo
    /\ request' = [request EXCEPT
           !.stage = "judge",
           !.todo = @ \ {i},
           !.refused = IF (~Sent(a, i) /\ ~Due(i)) \/ (Due(i) /\ items[i].run = a) THEN @ \cup {i} ELSE @,
           !.fresh = IF Due(i) /\ items[i].run # a THEN @ \cup {Id(a, i, verdicts[a][i])} ELSE @]
    /\ UNCHANGED <<items, receipts, lease, verdicts, clock, crashes>>

Judging == request.stage = "judge" /\ request.todo = {}

(* One refused review refuses them all; the auditor drops it and may send the rest again. *)
Refuse ==
    /\ Judging /\ request.refused # {}
    /\ \E lost \in BOOLEAN :
          verdicts' = IF lost THEN verdicts
                      ELSE [verdicts EXCEPT ![request.by] =
                               [i \in Items |-> IF i \in request.refused THEN "dropped" ELSE @[i]]]
    /\ request' = NoRequest
    /\ UNCHANGED <<items, receipts, lease, clock, crashes>>

LeaseRequired ==
    /\ Judging /\ request.refused = {} /\ request.fresh # {} /\ lease # request.by
    /\ request' = NoRequest
    /\ UNCHANGED <<items, receipts, lease, verdicts, clock, crashes>>

(* Each receipt is durable before the effect of any. *)
WriteReceipt(id) ==
    /\ Judging \/ request.stage = "write"
    /\ request.refused = {} /\ (Judging => lease = request.by)
    /\ id \in request.fresh
    /\ receipts' = [r \in DOMAIN receipts \cup {id} |-> IF r = id THEN "applying" ELSE receipts[r]]
    /\ request' = [request EXCEPT !.stage = "write", !.fresh = @ \ {id}]
    /\ UNCHANGED <<items, lease, verdicts, clock, crashes>>

(* The answer, which may be lost: then the auditor sends the same reviews again. *)
Answer ==
    /\ Judging \/ request.stage = "write"
    /\ request.refused = {} /\ request.fresh = {} /\ SettlesFirst
    /\ \E lost \in BOOLEAN :
          verdicts' = IF lost THEN verdicts
                      ELSE [verdicts EXCEPT ![request.by] =
                               [i \in Items |-> IF @[i] \in Pending THEN "answered" ELSE @[i]]]
    /\ request' = NoRequest
    /\ UNCHANGED <<items, receipts, lease, clock, crashes>>

Crash ==
    /\ request # NoRequest /\ crashes < MaxCrashes
    /\ crashes' = crashes + 1
    /\ request' = NoRequest
    /\ UNCHANGED <<items, receipts, lease, verdicts, clock>>

-----------------------------------------------------------------------------
(* The auditor: a run takes an item once, and only what the backlog lists. *)
Begin(a) ==
    /\ lease = Nobody
    /\ lease' = a
    /\ verdicts' = [verdicts EXCEPT ![a] = [i \in Items |-> "none"]]
    /\ request.by # a
    /\ UNCHANGED <<items, receipts, request, clock, crashes>>

LeaseEnds ==
    /\ lease # Nobody
    /\ lease' = Nobody
    /\ UNCHANGED <<items, receipts, request, verdicts, clock, crashes>>

Review(a, i, verdict) ==
    /\ verdicts[a][i] = "none" /\ Due(i) /\ request.by # a
    /\ verdicts' = [verdicts EXCEPT ![a][i] = verdict]
    /\ UNCHANGED <<items, receipts, request, lease, clock, crashes>>

Next ==
    \/ Crash \/ LeaseEnds
    \/ \E i \in Items : \/ AdminSkip(i) \/ AdminRetry(i) \/ JudgeOne(i)
                        \/ \E r \in Runs : Skip(i, r)
                        \/ \E children \in SUBSET Items : Split(i, children)
                        \/ \E a \in Auditors, verdict \in Pending : Review(a, i, verdict)
    \/ \E a \in Auditors : Begin(a) \/ Post(a)
    \/ \E id \in Applying : Effect(id)
    \/ Record \/ Refuse \/ LeaseRequired
    \/ \E id \in request.fresh : WriteReceipt(id)
    \/ Answer

Spec == Init /\ [][Next]_vars

-----------------------------------------------------------------------------
TypeOK ==
    /\ \A i \in Items :
          /\ items[i].status \in {"absent", "ready", "skipped", "split"}
          /\ items[i].at \in 0 .. MaxClock /\ items[i].run \in Runs \cup {Nobody}
          /\ items[i].reviews \subseteq DOMAIN receipts
    /\ \A id \in DOMAIN receipts : receipts[id] \in {"applying", "done", "void"}
    /\ request.stage \in {"none", "settle", "judge", "write"}
    /\ verdicts \in [Auditors -> [Items -> {"none", "answered", "dropped"} \cup Pending]]

(* A decision of the maintainer is judged once: no two done reviews are of the same close, in
   whichever order receipts are cut by crashes, finished and sent again. *)
JudgedOnce ==
    \A r, s \in DOMAIN receipts :
        receipts[r] = "done" /\ receipts[s] = "done" /\ JudgedBy(r) = JudgedBy(s) => r = s

(* A missed review that is done has reopened its item, and one that is void has not. *)
MissedReopens ==
    \A id \in DOMAIN receipts : id.verdict = "missed" =>
        /\ receipts[id] = "done" => id \in items[id.item].reviews
        /\ receipts[id] = "void" => id \notin items[id.item].reviews

(* Auditor and maintainer never loop: a missed review reopens an item once, and its answer, or
   that of the children it was split into, is not reviewed again. *)
NeverLoops ==
    \A i \in Items : Cardinality(items[i].reviews) <= 1

ReceiptsStay ==
    \A id \in DOMAIN receipts : receipts[id] \in {"done", "void"} => receipts'[id] = receipts[id]

(* A receipt that is done or void stays so, whatever is sent again afterwards. *)
ReceiptsFinal == [][ReceiptsStay]_vars

(* The receipts of the reviews and the items agree. *)
ReviewsAgree == TypeOK /\ JudgedOnce /\ MissedReopens /\ NeverLoops

(* And a settled receipt is final. *)
ReviewsSettle == []ReviewsAgree /\ ReceiptsFinal
=============================================================================
