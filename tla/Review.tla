------------------------------- MODULE Review -------------------------------
(***************************************************************************)
(* The audit of a bundle: the derived backlog and the gate of an audit     *)
(* changeset (runtime/audit.py), the stamps it leaves (engine/bookkeeping, *)
(* engine/document), the Codex audit's verdicts and the admin revert of    *)
(* what was committed (runtime/revert.py).                                 *)
(*                                                                         *)
(* Each concept cites one source.  A text is what `content_hash` tells     *)
(* apart: stamps and status are not part of it.  A changeset here reviews  *)
(* one concept.  The writer runs jobs one at a time; people push past it,  *)
(* also while a judged review is on its way to the remote.                 *)
(***************************************************************************)
EXTENDS Naturals, FiniteSets, Sequences
LOCAL INSTANCE SequencesExt

CONSTANTS
    Concepts,   \* 1..n, in the order of their paths
    Texts,      \* versions of a concept's content; they may come back
    Auditors,   \* processes with the audit scope, the Codex reviewer among them
    Codex,
    Curators,   \* other processes
    Humans,
    Runs,       \* run labels of the auditors
    NoRun,
    Epoch,      \* AIWIKI_BACKLOG_EPOCH; the initial generations are of time 0
    Delay,      \* SELF_REVIEW_DELAY
    DayLength,  \* units of time in a day
    PerDay,     \* AIWIKI_AUDIT_SEED_PER_DAY
    LastTime,   \* bound: the clock
    MaxJobs,    \* bound: changesets done
    MaxEvents   \* bound: pushes past the service and Codex audits

ASSUME ReviewOK ==
    /\ Concepts \subseteq Nat /\ Codex \in Auditors
    /\ Auditors \cap Curators = {} /\ Humans \cap (Auditors \cup Curators) = {}
    /\ Epoch \in Nat \ {0} /\ Delay \in Nat /\ DayLength \in Nat \ {0} /\ PerDay \in Nat
    /\ LastTime \in Nat /\ MaxJobs \in Nat /\ MaxEvents \in Nat
    /\ NoRun \notin Runs

VARIABLES
    head,     \* each concept on the published branch
    frozen,   \* whether its source holds the bytes the ledger recorded
    touched,  \* external_changes: who last changed each file since the epoch, newest first
    jobs,     \* the changesets done, in the order they finished
    pending,  \* the review judged and not yet pushed: a set of at most one
    now,
    strays,   \* pushes and Codex audits so far
    confirmed \* history: the texts of each concept that somebody confirmed

vars == <<head, frozen, touched, jobs, pending, now, strays, confirmed>>

Actors == Auditors \cup Curators \cup Humans
Times  == 0..(LastTime + MaxJobs + MaxEvents + 1)
Events == [by : Actors, at : Times]
Heads  == [text : Texts, by : Actors, at : Times, events : SUBSET Events,
           status : {"draft", "stable", "deprecated"}]

Latest(S) == CHOOSE x \in S : \A y \in S : y <= x
MaxOf(a, b) == IF a < b THEN b ELSE a

-----------------------------------------------------------------------------
(* Stamps. *)

(* current_verified: by OKF's own rule, or by the readers', who do not take a   *)
(* process's word for its own generation until Delay after it.                 *)
ConfirmedFrom(h, actor, readers) ==
    IF readers /\ actor = h.by /\ h.by \notin Humans THEN h.at + Delay ELSE h.at
Confirming(h, readers) == {e \in h.events : e.at >= ConfirmedFrom(h, e.by, readers)}
Verified(h) == Confirming(h, TRUE) # {}

(* A new generation is later than all that is recorded, whatever the clock says. *)
NewStamp(h) == MaxOf(now, Latest({h.at} \cup {e.at : e \in h.events}) + 1)

(* apply_bookkeeping for stages "review" and "audit": the text a reviewer leaves *)
(* and the verdict on it.  Only a review dates the generation anew when it finds *)
(* a version wanting that had been verified.                                    *)
Stamped(h, text, actor, verdict, stage) ==
    LET new    == text # h.text
        redate == new \/ (/\ stage = "review" /\ verdict = "unverified"
                          /\ Confirming(h, FALSE) # {})
        at     == IF redate THEN NewStamp(h) ELSE h.at
        event  == [by |-> actor, at |-> MaxOf(now, at)]
    IN  [text |-> text, at |-> at, by |-> IF new THEN actor ELSE h.by,
         events |-> IF verdict = "verified" THEN h.events \cup {event} ELSE h.events,
         status |-> IF h.status = "deprecated" THEN "deprecated" ELSE "stable"]

-----------------------------------------------------------------------------
(* The backlog: derived from the receipts, the history and the stamps. *)

Reviews == {n \in DOMAIN jobs : jobs[n].kind = "audit" /\ ~jobs[n].reverted}

Corrections(c, text) ==
    {n \in Reviews : /\ jobs[n].concept = c /\ jobs[n].outcome = "corrected"
                     /\ jobs[n].after.text = text}
Judgements(c, text) ==
    {n \in Reviews : /\ jobs[n].concept = c
                     /\ \/ jobs[n].before.text = text
                        \/ jobs[n].outcome # "corrected" /\ jobs[n].after.text = text}

(* A correction judges nothing it wrote, nor does an older judgement settle it. *)
Settled(c) ==
    LET judged    == Judgements(c, head[c].text)
        corrected == Corrections(c, head[c].text)
    IN  judged # {} /\ (corrected = {} \/ Latest(judged) > Latest(corrected))

(* Mutant: every commit of a file is listed. *)
TouchAgain(files, outside, walk) ==
    SetToSeq({[file |-> f, outside |-> outside] : f \in files}) \o walk

(* The newest commit of each file, by a person or by the service.               *)
Touch(files, outside, walk) ==
    SetToSeq({[file |-> f, outside |-> outside] : f \in files})
        \o SelectSeq(walk, LAMBDA t : t.file \notin files)
Concept(c) == <<"concept", c>>
Source(c)  == <<"source", c>>

(* Mutant: a push is hidden by any later commit. *)
PushedLast(c) == touched # <<>> /\ touched[1].outside /\ touched[1].file \in {Concept(c), Source(c)}

(* It, or evidence it cites, was pushed since the service's last commit to it.  *)
Pushed(c) ==
    \E i \in DOMAIN touched :
        /\ touched[i].outside /\ touched[i].file \in {Concept(c), Source(c)}
        /\ \A j \in DOMAIN touched : touched[j].file = Concept(c) => i <= j

Reason(c) ==
    CASE Pushed(c)                                      -> "external"
      [] ~Pushed(c) /\ Verified(head[c])                -> "none"
      [] OTHER -> IF head[c].by \in Auditors THEN "correction"
                  ELSE IF head[c].at >= Epoch THEN "generation" ELSE "seed"

Due(c) == head[c].status # "deprecated" /\ ~Settled(c) /\ Reason(c) # "none"

(* The oldest seeds, as many as the days since the epoch allow.                 *)
Released ==
    LET allowed == PerDay * ((now - Epoch) \div DayLength + 1)
        used    == Cardinality({jobs[n].concept : n \in {m \in Reviews : jobs[m].reason = "seed"}})
    IN  IF used < allowed THEN allowed - used ELSE 0
Listed(c) ==
    /\ Due(c)
    /\ Reason(c) = "seed" =>
           Cardinality({d \in Concepts : /\ Due(d) /\ Reason(d) = "seed"
                                         /\ (head[d].at < head[c].at \/ (head[d].at = head[c].at /\ d < c))})
               < Released

(* Of a correction: the run that wrote it, and when another may review it.      *)
CorrectedRun(c) ==
    LET corrected == Corrections(c, head[c].text)
    IN  IF corrected = {} THEN NoRun ELSE jobs[Latest(corrected)].run
ReviewableAt(c) ==
    LET corrected == Corrections(c, head[c].text)
    IN  Delay + IF corrected = {} THEN head[c].at
                ELSE MaxOf(head[c].at, jobs[Latest(corrected)].at)

-----------------------------------------------------------------------------
(* The gate of an audit changeset, and its push. *)

(* Mutant: another run label is enough. *)
TooSoonNever(c, actor) == FALSE

TooSoon(c, actor) ==
    IF Reason(c) = "correction" THEN ReviewableAt(c) > now
    ELSE head[c].by = actor /\ head[c].at + Delay > now

(* evaluate_review's scope and A4.  A human reviewer is held to neither the     *)
(* backlog nor the delay, only not to review a generation of their own.         *)
May(c, actor, run) ==
    /\ head[c].status # "deprecated"
    /\ IF actor \in Humans THEN head[c].by # actor
       ELSE /\ Listed(c) /\ ~TooSoon(c, actor)
            /\ CASE Reason(c) = "correction" -> CorrectedRun(c) # run
                 [] Reason(c) = "external"   -> TRUE
                 [] OTHER -> head[c].by # actor /\ {actor, head[c].by} \cap Auditors # {actor, head[c].by}

(* What a reviewer sends: a verdict on the text as it is, or a new text that    *)
(* narrows it, or that says more, or that changes only what the service owns    *)
(* ("owned") or restores ("frozen"), or a verdict that is none.                 *)
Answers == {"verified", "unverified", "narrows", "widens", "owned", "frozen", "invalid"}

(* The verdict that stands: without frozen evidence nothing is confirmed.       *)
Outcome(c, answer) ==
    CASE ~frozen[c] \/ answer \in {"unverified", "widens", "frozen", "invalid"} -> "unverified"
      [] frozen[c] /\ answer \in {"verified", "owned"} -> "verified"
      [] frozen[c] /\ answer = "narrows"               -> "corrected"

Job(kind, actor, run, c, outcome, after, commit) ==
    [kind |-> kind, actor |-> actor, run |-> run, concept |-> c, outcome |-> outcome,
     reason |-> IF actor \in Humans \/ kind # "audit" THEN "none" ELSE Reason(c),
     before |-> head[c], after |-> after, at |-> now, commit |-> commit, reverted |-> FALSE]

Confirms(c, h) ==
    confirmed' = [confirmed EXCEPT ![c] = IF h.events # head[c].events THEN @ \cup {h.text} ELSE @]

Judge(actor, run, c, answer, text) ==
    /\ pending = {} /\ Len(jobs) < MaxJobs
    /\ May(c, actor, run)
    /\ answer = "narrows" <=> text # head[c].text
    /\ LET outcome   == Outcome(c, answer)
           holds     == outcome = "verified" \/ (outcome = "corrected" /\ actor \in Humans)
           after     == Stamped(head[c], IF outcome = "corrected" THEN text ELSE head[c].text, actor,
                                IF holds THEN "verified" ELSE "unverified", "review")
           job       == Job("audit", actor, run, c, outcome, after, after # head[c])
       IN  IF after = head[c] THEN jobs' = Append(jobs, job) /\ UNCHANGED pending
           ELSE pending' = {job} /\ UNCHANGED jobs
    /\ UNCHANGED <<head, frozen, touched, now, strays, confirmed>>

(* The file it writes must still hold the bytes it was judged against.          *)
Moved(job) == head[job.concept] # job.before

Publish ==
    \E job \in pending :
        /\ ~Moved(job)
        /\ head' = [head EXCEPT ![job.concept] = job.after]
        /\ touched' = Touch({Concept(job.concept)}, FALSE, touched)
        /\ jobs' = Append(jobs, [job EXCEPT !.at = now])
        /\ pending' = {}
        /\ Confirms(job.concept, job.after)
        /\ UNCHANGED <<frozen, now, strays>>

(* The branch moved under it, or the push failed. *)
Drop == pending # {} /\ pending' = {} /\ UNCHANGED <<head, frozen, touched, jobs, now, strays, confirmed>>

-----------------------------------------------------------------------------
(* Everyone else. *)

Happens == strays < MaxEvents /\ strays' = strays + 1

Commit(c, h) == head' = [head EXCEPT ![c] = h] /\ touched' = Touch({Concept(c)}, FALSE, touched)

(* A curate changeset: a new generation, or a deprecation. *)
Curate(actor, c, text) ==
    /\ pending = {} /\ Len(jobs) < MaxJobs
    /\ LET h     == head[c]
           after == IF text = h.text THEN [h EXCEPT !.status = "deprecated"]
                    ELSE [h EXCEPT !.text = text, !.by = actor, !.at = NewStamp(h)]
       IN  /\ after # h
           /\ Commit(c, after)
           /\ jobs' = Append(jobs, Job("curate", actor, NoRun, c, "none", after, TRUE))
    /\ UNCHANGED <<frozen, pending, now, strays, confirmed>>

(* The Codex audit of an ingest: its own correction is never verified by it, and *)
(* its receipt is no audit changeset's.                                         *)
CodexAudit(c, verdict, text) ==
    /\ Happens /\ pending = {} /\ head[c].status # "deprecated"
    /\ LET v     == IF text # head[c].text THEN "unverified" ELSE verdict
           after == Stamped(head[c], text, Codex, v, "audit")
       IN  after # head[c] /\ Commit(c, after) /\ Confirms(c, after)
    /\ UNCHANGED <<frozen, jobs, pending, now>>

(* A push changes a text and keeps the stamps that are on it. *)
Push(c, text) ==
    /\ Happens /\ text # head[c].text
    /\ head' = [head EXCEPT ![c].text = text]
    /\ touched' = Touch({Concept(c)}, TRUE, touched)
    /\ UNCHANGED <<frozen, jobs, pending, now, confirmed>>

(* A push changes a source, or puts back the bytes it had. *)
PushSource(c) ==
    /\ Happens
    /\ frozen' = [frozen EXCEPT ![c] = ~@]
    /\ touched' = Touch({Source(c)}, TRUE, touched)
    /\ UNCHANGED <<head, jobs, pending, now, confirmed>>

(* A push is retried for minutes and Delay is hours: no time passes in between. *)
Tick ==
    /\ pending = {} /\ now < LastTime /\ now' = now + 1
    /\ UNCHANGED <<head, frozen, touched, jobs, pending, strays, confirmed>>

-----------------------------------------------------------------------------
(* The admin revert: of one changeset, or of a principal's, newest first. *)

Revertible == {n \in DOMAIN jobs : jobs[n].commit /\ ~jobs[n].reverted}

(* Mutant: whatever the file holds. *)
UnchangedAlways(h, left) == TRUE

(* By content hash: a later stamp on the same text does not stop the revert.    *)
Unchanged(h, left) == h.text = left.text

(* One commit undone in the working tree; the first conflict stops the rest.    *)
Undo(tree, n) ==
    LET c == jobs[n].concept
    IN  IF tree.stopped \/ ~Unchanged(tree.head[c], jobs[n].after) THEN [tree EXCEPT !.stopped = TRUE]
        ELSE [tree EXCEPT !.head[c] = jobs[n].before, !.undone = @ \cup {n}]

Revert(targets) ==
    /\ pending = {} /\ targets # {}
    /\ LET tree == FoldLeft(Undo, [head |-> head, undone |-> {}, stopped |-> FALSE],
                            SetToSortSeq(targets, LAMBDA m, n : m > n))
           changed == {c \in Concepts : tree.head[c] # head[c]}
       IN  /\ changed # {}
           /\ head' = tree.head
           /\ touched' = Touch({Concept(c) : c \in changed}, FALSE, touched)
           /\ jobs' = [n \in DOMAIN jobs |-> [jobs[n] EXCEPT !.reverted = @ \/ n \in tree.undone]]
    /\ UNCHANGED <<frozen, pending, now, strays, confirmed>>

-----------------------------------------------------------------------------
(* What is there before the epoch: generations nobody confirmed, and some that were. *)
Seed(verifiers) ==
    [text |-> CHOOSE t \in Texts : TRUE, by |-> CHOOSE p \in Curators : TRUE, at |-> 0,
     events |-> {[by |-> p, at |-> 0] : p \in verifiers}, status |-> "stable"]

Init ==
    /\ head \in [Concepts -> {Seed({}), Seed(Auditors \ {Codex})}]
    /\ frozen = [c \in Concepts |-> TRUE]
    /\ touched = <<>> /\ jobs = <<>> /\ pending = {} /\ now = Epoch /\ strays = 0
    /\ confirmed = [c \in Concepts |-> IF Verified(head[c]) THEN {head[c].text} ELSE {}]

Next ==
    \/ \E actor \in (Auditors \ {Codex}) \cup Humans, run \in Runs, c \in Concepts, a \in Answers, t \in Texts :
           Judge(actor, run, c, a, t)
    \/ Publish
    \/ Drop
    \/ \E actor \in Curators, c \in Concepts, t \in Texts : Curate(actor, c, t)
    \/ \E c \in Concepts, v \in {"verified", "unverified"}, t \in Texts : CodexAudit(c, v, t)
    \/ \E c \in Concepts, t \in Texts : Push(c, t)
    \/ \E c \in Concepts : PushSource(c)
    \/ Tick
    \/ \E n \in Revertible : Revert({n})
    \/ \E actor \in Actors : Revert({n \in Revertible : jobs[n].actor = actor})

Spec == Init /\ [][Next]_vars

-----------------------------------------------------------------------------
(* Stamps, receipts and history have their shape, and the files of the history  *)
(* are listed once.                                                             *)
TypeOK ==
    /\ head \in [Concepts -> Heads]
    /\ frozen \in [Concepts -> BOOLEAN]
    /\ \A i, j \in DOMAIN touched : touched[i].file = touched[j].file => i = j
    /\ Len(jobs) <= MaxJobs /\ Cardinality(pending) <= 1
    /\ \A n \in DOMAIN jobs : jobs[n].after \in Heads /\ (jobs[n].reverted => jobs[n].commit)
    /\ now \in Epoch..LastTime /\ strays <= MaxEvents
    /\ confirmed \in [Concepts -> SUBSET Texts]

NewReceipts == {n \in (Len(jobs) + 1)..Len(jobs') : jobs'[n].kind = "audit"}

(* evaluate_review's CAS and its recheck at push time: a receipt that changed a *)
(* concept was judged on exactly the bytes it replaced, whoever pushed in       *)
(* between.                                                                     *)
ReviewedWhatItJudged ==
    [][\A n \in NewReceipts :
           jobs'[n].commit => head[jobs'[n].concept] = jobs'[n].before]_vars

(* A4, on the write side: no process confirms a text that an auditor's          *)
(* correction left, standing or pushed since, within Delay of the correction    *)
(* unless another process wrote the text.                                       *)
NotItsOwnJudge ==
    [][\A n \in NewReceipts :
           (jobs'[n].outcome = "verified" /\ jobs'[n].actor \notin Humans)
               => \A m \in Corrections(jobs'[n].concept, head[jobs'[n].concept].text) :
                      \/ jobs[m].at + Delay <= now
                      \/ head[jobs'[n].concept].by \notin {jobs[m].actor, jobs'[n].actor} \cap Auditors]_vars

(* A4, on both sides: a concept the gate confirmed reads as verified, and one   *)
(* whose outcome was another does not, by OKF's rule or by the readers' (a      *)
(* person's correction is verified in the act).                                 *)
VerdictStands ==
    [][\A n \in NewReceipts :
           LET after == head'[jobs'[n].concept]
           IN  jobs'[n].commit =>
                   IF jobs'[n].outcome = "verified" \/ (jobs'[n].outcome = "corrected" /\ jobs'[n].actor \in Humans)
                   THEN Verified(after) ELSE Confirming(after, FALSE) = {}]_vars

(* A process's correction is due at once, also when its text had been judged    *)
(* before.                                                                      *)
CorrectionComesDue ==
    [][\A n \in NewReceipts, c \in Concepts :
           (/\ jobs'[n].concept = c /\ jobs'[n].outcome = "corrected"
            /\ jobs'[n].actor \notin Humans) => Due(c)']_vars

(* The purpose of the backlog: a concept that readers take for verified and that *)
(* no auditor is to look at holds a text that somebody confirmed, or reviewed    *)
(* since, whatever was pushed past the service.  (Not so once a changeset to it  *)
(* was reverted: see RevertedComesDue.)                                          *)
UnreadIsDue(c) ==
    (Verified(head[c]) /\ head[c].status # "deprecated" /\ head[c].text \notin confirmed[c])
        => \/ Due(c) \/ Settled(c)
           \/ \E n \in DOMAIN jobs : jobs[n].concept = c /\ jobs[n].reverted

(* New evidence for a verified concept is a reason to look again, until the      *)
(* service commits to the concept.                                               *)
PushComesDue ==
    [][\A c \in Concepts :
           (/\ touched' # touched /\ touched'[1].outside
            /\ touched'[1].file \in {Concept(c), Source(c)} /\ head'[c].status # "deprecated")
               => Due(c)' \/ Settled(c)']_vars

(* revert.py: what a revert takes away was written by a changeset it reverts.   *)
RevertOnlyItsOwn ==
    [][(\E n \in DOMAIN jobs : jobs'[n].reverted /\ ~jobs[n].reverted)
       => \A c \in Concepts :
              head'[c].text # head[c].text =>
                  \E n \in DOMAIN jobs :
                      /\ jobs'[n].reverted /\ ~jobs[n].reverted
                      /\ jobs[n].concept = c /\ jobs[n].after.text = head[c].text]_vars

(* review_records: "An admin-reverted audit is no review: its concepts are due  *)
(* again."                                                                      *)
RevertedComesDue ==
    [][\A n \in DOMAIN jobs :
           /\ jobs'[n].reverted /\ ~jobs[n].reverted
           /\ jobs[n].kind = "audit" /\ jobs[n].actor \notin Humans
           /\ head'[jobs[n].concept] = jobs[n].before
           => Due(jobs[n].concept)' \/ Settled(jobs[n].concept)']_vars

(* What a review writes is of the bytes it judged, by another than their       *)
(* author, and reads as what it said.                                           *)
VerdictsStand == ReviewedWhatItJudged /\ NotItsOwnJudge /\ VerdictStands

(* Nothing is left unread: what is pushed past the service, what a process      *)
(* corrected and what nobody confirmed come due.                                *)
ComesDue == [](\A c \in Concepts : UnreadIsDue(c)) /\ CorrectionComesDue /\ PushComesDue
=============================================================================
