------------------------------ MODULE Reviewer -------------------------------
(***************************************************************************)
(* The auditor's side of `ai-wiki review` (cli/review.py next, verdict and *)
(* submit): what one run takes from the backlog, reads in its workspace,   *)
(* records and sends, while the concepts change on the writer and answers  *)
(* get lost.  The writer's gate (Review.tla) is here what a client sees    *)
(* of it: a changeset lands whole or is refused by concept.                *)
(*                                                                         *)
(* The session runs one verb at a time; a verb that dies saved nothing     *)
(* since its last save.  Left out: --path of a human run, dry-runs, the    *)
(* triage verbs, which send the same way.                                  *)
(***************************************************************************)
EXTENDS Naturals, Sequences, FiniteSets

CONSTANTS
    Concepts,
    Batch,      \* reviews of a changeset
    MaxTaken,   \* concepts a run may take
    LastText,   \* bound: contents of a concept, one after another
    MaxChanges, \* bound: changes by others, among them contents that come back
    MaxFaults   \* bound: deaths and answers that never came

ConstantsOK == {Batch, MaxTaken, LastText, MaxChanges, MaxFaults} \subseteq Nat /\ Batch > 0 /\ LastText > 0

(* Unverified settles a content as verified does. *)
Verdicts == {"verified", "corrected"}

VARIABLES
    text,      \* the published content of each concept
    due,       \* the backlog
    queue,     \* changesets on the writer, to be judged: their reviews
    landed,    \* those done
    refused,   \* those refused, and for which reviews
    changes,   \* bound: of the changes by others
    file,      \* the workspace: the content pulled of each concept
    edited,    \* concepts with a local edit
    taken, entries, pending, submitted, dropped, \* review.json
    verb,      \* the verb that runs, and what only it knows
    read,      \* history: the content of each concept the auditor read last
    recorded,  \* history: the concepts with a verdict saved
    unanswered,\* history: reviews sent in a changeset whose answer nobody saw
    returned,  \* history: concepts with a content that came back
    faults

vars == <<text, due, queue, landed, refused, changes, file, edited, taken, entries, pending, submitted, dropped, verb,
          read, recorded, unanswered, returned, faults>>
writerVars  == <<text, due, queue, landed, refused, changes>>
saved       == <<taken, entries, pending, submitted, dropped>>
historyVars == <<read, recorded, unanswered, returned>>

NoVerb == [step |-> "none", path |-> {}, base |-> 0, left |-> <<>>, got |-> {},
           lost |-> {}]

Init ==
    /\ text = [c \in Concepts |-> 1] /\ due = Concepts
    /\ queue = {} /\ landed = {} /\ refused = {} /\ changes = 0
    /\ file = [c \in Concepts |-> 1] /\ edited = {}
    /\ taken = {} /\ entries = [c \in Concepts |-> 0] /\ pending = <<>> /\ submitted = {} /\ dropped = {}
    /\ verb = NoVerb
    /\ read = [c \in Concepts |-> 0] /\ recorded = {} /\ unanswered = {} /\ returned = {}
    /\ faults = 0

Idle == verb.step = "none"
Fault == faults < MaxFaults /\ faults' = faults + 1

-----------------------------------------------------------------------------
(* The writer. *)
Change(c) ==
    /\ text[c] < LastText /\ changes < MaxChanges /\ changes' = changes + 1
    /\ text' = [text EXCEPT ![c] = @ + 1] /\ due' = due \cup {c}
    /\ UNCHANGED <<queue, landed, refused, file, edited, saved, verb, historyVars, faults>>

Revert(c) ==
    /\ text[c] > 1 /\ changes < MaxChanges /\ changes' = changes + 1
    /\ text' = [text EXCEPT ![c] = @ - 1] /\ due' = due \cup {c} /\ returned' = returned \cup {c}
    /\ UNCHANGED <<queue, landed, refused, file, edited, saved, verb, read, recorded, unanswered, faults>>

Paths(reviews) == {r.path : r \in reviews}

(* A concept of the backlog, as it was judged. *)
Stands(r) == r.path \in due /\ r.base = text[r.path]

Corrected(reviews) == Paths({r \in reviews : r.verdict = "corrected"})

(* A changeset lands whole; a verdict settles a content, and a correction changes it. *)
Judge(reviews) ==
    LET bad == {r \in reviews : ~Stands(r)}
    IN /\ queue' = queue \ {reviews}
       /\ \/ /\ bad = {} /\ \A c \in Corrected(reviews) : text[c] < LastText
             /\ landed' = landed \cup {reviews}
             /\ due' = due \ (Paths(reviews) \ Corrected(reviews))
             /\ text' = [c \in Concepts |-> IF c \in Corrected(reviews) THEN text[c] + 1 ELSE text[c]]
             /\ UNCHANGED refused
          \/ /\ bad # {}
             /\ refused' = refused \cup {[of |-> reviews, bad |-> bad]}
             /\ UNCHANGED <<landed, due, text>>
       /\ UNCHANGED <<changes, file, edited, saved, verb, historyVars, faults>>

-----------------------------------------------------------------------------
CurrentAny == TRUE

(* The workspace is at the backlog's revision. *)
Current == file = text

(* A content that changed under a local edit sets the edit aside. *)
PullAll ==
    /\ file' = text
    /\ edited' = {c \in edited : file[c] = text[c]}

PullNothing == UNCHANGED <<file, edited>>

(* next: the backlog's entry, then a pull unless it is of the revision there, then the record. *)
NextConcept(c) ==
    /\ Idle /\ Cardinality(taken) < MaxTaken /\ c \in due \ taken
    /\ \E skip \in {FALSE, Current} :
          verb' = [NoVerb EXCEPT !.step = IF skip THEN "take" ELSE "pull", !.path = {c}, !.base = text[c]]
    /\ UNCHANGED <<writerVars, file, edited, saved, historyVars, faults>>

Take ==
    /\ \/ verb.step = "take" /\ PullNothing
       \/ verb.step = "pull" /\ PullAll
    /\ taken' = taken \cup verb.path
    /\ entries' = [c \in Concepts |-> IF c \in verb.path THEN verb.base ELSE entries[c]]
    /\ verb' = NoVerb
    /\ UNCHANGED <<writerVars, pending, submitted, dropped, historyVars, faults>>

(* A verdict may be recorded again until it is sent. *)
Open(c) == c \in taken /\ (c \in recorded => c \in Paths({pending[i] : i \in DOMAIN pending}))

(* The auditor reads the workspace, and may edit it. *)
Read(c) ==
    /\ Idle /\ Open(c)
    /\ read' = [read EXCEPT ![c] = file[c]]
    /\ edited' \in {edited, edited \cup {c}} /\ <<read', edited'>> # <<read, edited>>
    /\ UNCHANGED <<writerVars, file, saved, verb, recorded, unanswered, returned, faults>>

(* The version judged is the one the backlog named when it was taken. *)
BaseOf(c) == entries[c]

(* verdict: a correction takes the edit out of the workspace before it is saved. *)
Verdict(c) ==
    /\ Idle /\ Open(c) /\ read[c] # 0
    /\ edited' = edited \ {c}
    /\ LET review == [path |-> c, base |-> BaseOf(c), read |-> read[c],
                      verdict |-> IF c \in edited THEN "corrected" ELSE "verified"]
           known  == {i \in DOMAIN pending : pending[i].path = c}
       IN \/ /\ pending' = IF known = {} THEN Append(pending, review)
                           ELSE [i \in DOMAIN pending |-> IF i \in known THEN review ELSE pending[i]]
             /\ recorded' = recorded \cup {c} /\ UNCHANGED faults
          \/ Fault /\ c \in edited /\ UNCHANGED <<pending, recorded>>
    /\ UNCHANGED <<writerVars, file, taken, entries, submitted, dropped, verb, read, unanswered, returned>>

-----------------------------------------------------------------------------
(* submit: changeset by changeset, and the record at the end. *)
First(reviews)   == {reviews[i] : i \in 1..(IF Len(reviews) < Batch THEN Len(reviews) ELSE Batch)}

(* The other reviews, in their order. *)
Without(reviews, done) ==
    LET others == {i \in DOMAIN reviews : reviews[i] \notin done}
        At(k)  == CHOOSE i \in others : Cardinality({j \in others : j < i}) = k - 1
    IN [k \in 1..Cardinality(others) |-> reviews[At(k)]]

(* The same reviews are the same changeset, whether it waits or is done. *)
Post(left) ==
    /\ queue' = IF left = <<>> \/ First(left) \in landed THEN queue ELSE queue \cup {First(left)}
    /\ refused' = IF left = <<>> THEN refused ELSE {f \in refused : f.of # First(left)}

Goes(left) == IF left = <<>> THEN "save" ELSE "wait"

Submit ==
    /\ Idle /\ pending # <<>>
    /\ Post(pending)
    /\ verb' = [NoVerb EXCEPT !.step = "wait", !.left = pending]
    /\ UNCHANGED <<text, due, landed, changes, file, edited, saved, historyVars, faults>>

(* Its receipt. *)
Done ==
    /\ verb.step = "wait" /\ First(verb.left) \in landed
    /\ LET left == Without(verb.left, First(verb.left))
       IN /\ Post(left)
          /\ verb' = [verb EXCEPT !.left = left, !.got = @ \cup First(verb.left), !.step = Goes(left)]
    /\ UNCHANGED <<text, due, landed, changes, file, edited, saved, historyVars, faults>>

(* Refused: what it names is dropped, and the rest sent again. *)
Refused ==
    /\ verb.step = "wait"
    /\ \E f \in refused :
          /\ f.of = First(verb.left)
          /\ LET left == Without(verb.left, f.bad)
             IN /\ Post(left)
                /\ verb' = [verb EXCEPT !.left = left, !.lost = @ \cup f.bad, !.step = Goes(left)]
    /\ UNCHANGED <<text, due, landed, changes, file, edited, saved, historyVars, faults>>

(* No final answer: everything not answered stays pending. *)
Kept == verb.left

NoAnswer ==
    /\ verb.step = "wait" /\ Fault
    /\ unanswered' = unanswered \cup First(verb.left)
    /\ verb' = [verb EXCEPT !.step = "save"]
    /\ UNCHANGED <<writerVars, file, edited, saved, read, recorded, returned>>

Save ==
    /\ verb.step = "save"
    /\ pending' = Kept
    /\ submitted' = submitted \cup verb.got /\ dropped' = dropped \cup verb.lost
    /\ verb' = NoVerb
    /\ IF verb.got # {} THEN PullAll ELSE PullNothing
    /\ UNCHANGED <<writerVars, taken, entries, historyVars, faults>>

(* A verb dies, or a submit is refused altogether, and nothing of the answers seen is saved. *)
Dies ==
    /\ ~Idle /\ Fault
    /\ unanswered' = unanswered \cup verb.got
                        \cup (IF verb.step = "wait" THEN First(verb.left) ELSE {})
    /\ verb' = NoVerb
    /\ UNCHANGED <<writerVars, file, edited, saved, read, recorded, returned>>

Next ==
    \/ \E c \in Concepts : Change(c) \/ Revert(c) \/ NextConcept(c) \/ Read(c) \/ Verdict(c)
    \/ \E reviews \in queue : Judge(reviews)
    \/ Take \/ Submit \/ Done \/ Refused \/ NoAnswer \/ Save \/ Dies

Spec == Init /\ [][Next]_vars

-----------------------------------------------------------------------------
AnyContent == 0..LastText
Records  == [path: Concepts, base: AnyContent, read: AnyContent, verdict: Verdicts]

(* The type of every variable. *)
TypeOK ==
    /\ text \in [Concepts -> 1..LastText] /\ due \subseteq Concepts
    /\ {queue, landed} \subseteq SUBSET SUBSET Records
    /\ refused \subseteq [of: SUBSET Records, bad: SUBSET Records]
    /\ changes \in 0..MaxChanges
    /\ file \in [Concepts -> AnyContent] /\ edited \subseteq Concepts
    /\ taken \subseteq Concepts /\ Cardinality(taken) <= MaxTaken /\ entries \in [Concepts -> AnyContent]
    /\ pending \in Seq(Records) /\ {submitted, dropped, unanswered} \subseteq SUBSET Records
    /\ verb \in [step: {"none", "pull", "take", "wait", "save"}, path: SUBSET Concepts,
                 base: AnyContent, left: Seq(Records), got: SUBSET Records, lost: SUBSET Records]
    /\ read \in [Concepts -> AnyContent] /\ {recorded, returned} \subseteq SUBSET Concepts
    /\ faults \in 0..MaxFaults

AllLanded == UNION landed

(* A verdict lands on the content its auditor read, though the workspace was pulled again or the
   concept changed after the backlog named it; but for a content that came back. *)
JudgedAsRead == \A r \in AllLanded : r.read = r.base \/ r.path \in returned

Sent == {pending[i] : i \in DOMAIN pending}

(* A verdict recorded is pending, in the run's receipts or dropped, whatever died or stayed
   without an answer: the receipts are of reviews that landed, what was dropped did not land, but
   for a review whose earlier answer nobody saw. *)
Accounted ==
    /\ \A c \in recorded : Cardinality({r \in Sent \cup submitted \cup dropped : r.path = c}) = 1
    /\ submitted \subseteq AllLanded
    /\ dropped \cap AllLanded \subseteq unanswered

(* Each verdict lands on what was read, and the run's record tells what became of it. *)
VerdictsAccounted == TypeOK /\ JudgedAsRead /\ Accounted
=============================================================================
