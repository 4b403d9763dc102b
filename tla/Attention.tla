------------------------------ MODULE Attention ------------------------------
(***************************************************************************)
(* Attention items: what a maintainer's run start queues for the concepts  *)
(* nobody is fixing (service/attention.py, maint_state._attention and the  *)
(* part of _enqueue it takes, freshness in engine/document.py).            *)
(*                                                                         *)
(* A notice is its facts: the concept, its content, why, and since when.   *)
(* Item calls wait while a run starts, commits do not.  Left out: concepts *)
(* whose notice the queue cannot hold, evidence added to an item, size     *)
(* caps, and the brief, which no item key depends on.                      *)
(***************************************************************************)
EXTENDS Naturals, Sequences, FiniteSets

CONSTANTS
    Concepts,
    Contents,   \* of a concept; one may come back
    Declared,   \* the days a concept may declare itself stale from; 0: none
    DefaultDays,\* DEFAULT_STALE_DAYS
    Cap,        \* ATTENTION_CAP
    LastDay,    \* bound: the calendar
    MaxMoves,   \* bound: pushes, reviews and reverts
    MaxFaults   \* bound: run starts that die or fail half way

ConstantsOK ==
    /\ {DefaultDays, Cap, LastDay, MaxMoves, MaxFaults} \subseteq Nat /\ Cap > 0 /\ LastDay > 0
    /\ Contents # {} /\ 0 \in Declared /\ Declared \subseteq Nat

Outcomes == {"verified", "unverified"}
Reasons  == {"audit_unverified", "declared", "default"}
Days     == 1..LastDay
Notice   == [path: Concepts, base: Contents, reason: Reasons, fact: Nat]

VARIABLES
    day,
    doc,      \* the published concepts
    reviews,  \* the done audits, in the order they finished
    items,    \* the attention items, in the order they were created
    start,    \* the run start in progress
    moves, faults

vars == <<day, doc, reviews, items, start, moves, faults>>

NoStart == [step |-> "none", tree |-> <<>>, due |-> {}, left |-> {}, known |-> {}, created |-> {}]

Init ==
    /\ day = 1
    /\ doc \in [Concepts -> [base: {CHOOSE b \in Contents : TRUE}, generated: {1}, declared: Declared, live: {TRUE}]]
    /\ reviews = <<>> /\ items = <<>> /\ start = NoStart
    /\ moves = 0 /\ faults = 0

Move  == moves < MaxMoves /\ moves' = moves + 1
Fault == faults < MaxFaults /\ faults' = faults + 1

-----------------------------------------------------------------------------
(* Meanwhile. *)
NextDay ==
    /\ day < LastDay /\ day' = day + 1
    /\ UNCHANGED <<doc, reviews, items, start, moves, faults>>

(* A curator's push: another content, or the same generated anew; or a deprecation. *)
Push(c) ==
    /\ Move
    /\ \/ \E b \in Contents, d \in Declared :
             /\ b = doc[c].base => d = doc[c].declared
             /\ doc' = [doc EXCEPT ![c] = [base |-> b, generated |-> day, declared |-> d, live |-> TRUE]]
       \/ doc' = [doc EXCEPT ![c].live = FALSE]
    /\ UNCHANGED <<day, reviews, items, start, faults>>

Review(c) ==
    /\ Move /\ doc[c].live
    /\ \E o \in Outcomes :
          reviews' = Append(reviews, [path |-> c, base |-> doc[c].base, outcome |-> o, at |-> day,
                                      reverted |-> FALSE])
    /\ UNCHANGED <<day, doc, items, start, faults>>

RevertReview(r) ==
    /\ Move /\ ~reviews[r].reverted
    /\ reviews' = [reviews EXCEPT ![r].reverted = TRUE]
    /\ UNCHANGED <<day, doc, items, start, faults>>

(* The maintainer's item calls, and a reopen. *)
ItemMoves(i) ==
    /\ start.step = "none"
    /\ \/ items[i].status = "waiting" /\ items' = [items EXCEPT ![i].status = "claimed"]
       \/ items[i].status = "claimed" /\ items' = [items EXCEPT ![i].status = "closed"]
       \/ items[i].status = "closed" /\ items' = [items EXCEPT ![i].status = "waiting"]
    /\ UNCHANGED <<day, doc, reviews, start, moves, faults>>

-----------------------------------------------------------------------------
(* stale_date. *)
StaleFrom(d) == IF d.declared # 0 THEN d.declared ELSE d.generated + DefaultDays
Basis(d)     == IF d.declared # 0 THEN "declared" ELSE "default"

(* The newest review of these very bytes that nobody reverted, when it ended unverified. *)
Unverified(c, d) ==
    LET of == {r \in DOMAIN reviews : reviews[r].path = c /\ reviews[r].base = d.base /\ ~reviews[r].reverted}
    IN {r \in of : reviews[r].outcome = "unverified" /\ \A q \in of : q <= r}

(* An unverified review outranks elapsed freshness: one notice a concept. *)
RowsOf(c, d) ==
    IF ~d.live THEN {}
    ELSE IF Unverified(c, d) # {}
    THEN {[notice |-> [path |-> c, base |-> d.base, reason |-> "audit_unverified", fact |-> r],
           since |-> reviews[r].at] : r \in Unverified(c, d)}
    ELSE IF day >= StaleFrom(d)
    THEN {[notice |-> [path |-> c, base |-> d.base, reason |-> Basis(d), fact |-> StaleFrom(d)],
           since |-> StaleFrom(d)]}
    ELSE {}

KeysOf(its) == UNION {its[i].keys : i \in DOMAIN its}
Swept(item) == IF item.status = "claimed" THEN [item EXCEPT !.status = "waiting"] ELSE item

(* The lease is taken and the queue swept; then the published tree is unpacked. *)
StartRun ==
    /\ start.step = "none"
    /\ items' = [i \in DOMAIN items |-> Swept(items[i])]
    /\ start' = [NoStart EXCEPT !.step = "plan", !.tree = doc]
    /\ UNCHANGED <<day, doc, reviews, moves, faults>>

(* plan: the notices due of that tree, by the reviews there are when they are read. *)
Plan ==
    /\ start.step = "plan"
    /\ LET rows == UNION {RowsOf(c, start.tree[c]) : c \in Concepts}
       IN start' = [start EXCEPT !.step = "queue", !.due = rows, !.left = rows, !.known = KeysOf(items)]
    /\ UNCHANGED <<day, doc, reviews, items, moves, faults>>

KnownByFirstKey(n) == \E i \in DOMAIN items : items[i].first = n

(* A notice any item was queued or merged for. *)
Known(n) == n \in KeysOf(items)

Waiting(n) == {i \in DOMAIN items : items[i].status = "waiting" /\ items[i].first.path = n.path}

(* Only the new items are counted. *)
MayCreate == Cardinality(start.created) < Cap

(* _enqueue: the same facts are a duplicate, whatever became of them; a waiting item of the
   concept takes a newer notice; else a new item, or none past the cap. *)
Enqueue(row) ==
    /\ start.step = "queue" /\ row \in start.left /\ \A r \in start.left : row.since <= r.since
    /\ LET n == row.notice
       IN \/ Known(n) /\ start' = [start EXCEPT !.left = @ \ {row}] /\ UNCHANGED items
          \/ /\ ~Known(n)
             /\ \E i \in Waiting(n) :
                   items' = [items EXCEPT ![i].keys = @ \cup {n}, ![i].says = n]
             /\ start' = [start EXCEPT !.left = @ \ {row}]
          \/ /\ ~Known(n) /\ Waiting(n) = {} /\ MayCreate
             /\ items' = Append(items, [first |-> n, keys |-> {n}, says |-> n, status |-> "waiting"])
             /\ start' = [start EXCEPT !.left = @ \ {row}, !.created = @ \cup {row}]
          \/ /\ ~Known(n) /\ Waiting(n) = {} /\ ~MayCreate
             /\ start' = [start EXCEPT !.left = @ \ {row}] /\ UNCHANGED items
    /\ UNCHANGED <<day, doc, reviews, moves, faults>>

EndStart ==
    /\ start.step = "queue" /\ start.left = {}
    /\ start' = NoStart
    /\ UNCHANGED <<day, doc, reviews, items, moves, faults>>

(* A failure is reported in the answer and stops nothing; a death leaves as much. *)
StartFails ==
    /\ start.step # "none" /\ Fault
    /\ start' = NoStart
    /\ UNCHANGED <<day, doc, reviews, items, moves>>

Next ==
    \/ NextDay
    \/ \E c \in Concepts : Push(c) \/ Review(c)
    \/ \E r \in DOMAIN reviews : RevertReview(r)
    \/ \E i \in DOMAIN items : ItemMoves(i)
    \/ StartRun \/ Plan \/ EndStart \/ StartFails
    \/ \E row \in start.left : Enqueue(row)

Spec == Init /\ [][Next]_vars

-----------------------------------------------------------------------------
Docs == [base: Contents, generated: Days, declared: Declared, live: BOOLEAN]

(* The type of every variable. *)
TypeOK ==
    /\ day \in Days /\ doc \in [Concepts -> Docs]
    /\ \A r \in DOMAIN reviews : reviews[r] \in [path: Concepts, base: Contents, outcome: Outcomes, at: Days,
                                                 reverted: BOOLEAN]
    /\ \A i \in DOMAIN items : items[i].status \in {"waiting", "claimed", "closed"} /\ items[i].says \in items[i].keys
    /\ start.step \in {"none", "plan", "queue"} /\ start.created \subseteq start.due /\ start.left \subseteq start.due
    /\ moves \in 0..MaxMoves /\ faults \in 0..MaxFaults

RaisesWhatIsDue ==
    start.step = "queue" /\ start'.step = "none" /\ faults' = faults =>
       \A row \in start.due :
          \/ row.notice \in start.known
          \/ \E i \in DOMAIN items : items[i].says = row.notice /\ items[i].status = "waiting"
          \/ Cardinality(start.created) >= Cap /\ \A r \in start.created : r.since <= row.since

(* A run start that ends well has raised every notice due: an item was queued for it once, and
   what is news a waiting item says now; or the cap is full of new items that are no younger. *)
Raised == [][RaisesWhatIsDue]_vars

(* The same facts are never queued twice: what the maintainer skipped stays skipped, whatever
   was merged into its item, changed since and came back. *)
RaisedOnce == \A i, j \in DOMAIN items : i # j => items[i].keys \cap items[j].keys = {}

(* What is due is raised, and raised once. *)
NoticesRaised == [](TypeOK /\ RaisedOnce) /\ Raised
=============================================================================
