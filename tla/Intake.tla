------------------------------- MODULE Intake -------------------------------
(***************************************************************************)
(* The intake of what members submit: src/aiwiki/service/inbox.py with its *)
(* callers in app.py (POST /ingest, /admin/inbox/requeue) and worker.py    *)
(* (the sweep, the worker, the restart).  One request, sweep or requeue at *)
(* a time holds the lifecycle lock; the worker does not, and a process may *)
(* die between any two writes.                                             *)
(*                                                                         *)
(* A content is its sha.  The mode is the server's AIWIKI_INTAKE, which    *)
(* changes at a restart: "inbox" queues work items for the maintainer,     *)
(* "codex" queues Codex ingests.  Left out: links sent alone, the daily    *)
(* quota, titles and names, AIWIKI_LLM=off.  A second queue entry of a job *)
(* is not modelled: the worker runs a job only while it is queued.         *)
(***************************************************************************)
EXTENDS Naturals, FiniteSets

CONSTANTS
    Contents,
    NoContent,
    MaxJobs,      \* bound: job records
    MaxDeaths,    \* bound: deaths of the service
    MaxRetries    \* bound: failed runs of intakes

ConstantsOK == /\ NoContent \notin Contents
               /\ {MaxJobs, MaxDeaths, MaxRetries} \subseteq Nat

VARIABLES
    nature,     \* what each content is
    mode,       \* "inbox" or "codex", while the service runs
    stored,     \* the contents with a file in sources/inbox
    tickets,    \* per content its work item: status, origin.job, the intake recorded on it
    jobs,       \* .okf/jobs
    lastId,
    handler,    \* who holds the lifecycle lock
    answering,  \* intakes a POST is about to hand over, the lock released
    queue,      \* the worker's queue: job ids
    finished,   \* _finished: jobs somebody may wait for
    at,         \* the worker: its job and step
    held,       \* contents whose redacted copy the remote branch has
    curators,   \* history: who published knowledge of a content
    proposed,   \* changesets in the queue, by the content of their item
    accepted,   \* history: contents whose submission was answered
    cut,        \* history: contents whose registration a death interrupted
    lapsed,     \* history: contents that left a maintainer's run while it may have proposed a changeset
    retries,
    deaths

vars == <<nature, mode, stored, tickets, jobs, lastId, handler, answering, queue, finished, at, held,
          curators, proposed, accepted, cut, lapsed, retries, deaths>>

Ids == 1..MaxJobs
NoTicket == [status |-> "absent", job |-> 0, intake |-> 0]
NoHandler == [kind |-> "none", content |-> NoContent, stage |-> "none", job |-> 0, intake |-> 0,
              pending |-> {}]
Resting == [job |-> 0, content |-> NoContent, step |-> "rest"]

Open     == {"ready", "held", "orphan"}       \* an orphan is in progress for a run without a lease
Terminal == {"curated", "skipped", "closed", "requeued"}

Members(c) == {j \in DOMAIN jobs : jobs[j].content = c /\ jobs[j].kind # "intake"}
Copies(c)  == {j \in DOMAIN jobs : jobs[j].content = c /\ jobs[j].kind = "intake"}

(* Text the redaction leaves alone, whose copy has its sha; text it changes; no text or image. *)
Natures == {"plain", "redacted", "unreadable"}
Plain      == {c \in Contents : nature[c] = "plain"}
Unreadable == {c \in Contents : nature[c] = "unreadable"}

Init ==
    /\ nature \in [Contents -> Natures]
    /\ mode \in {"inbox", "codex"}
    /\ stored = {} /\ tickets = [c \in Contents |-> NoTicket]
    /\ jobs = <<>> /\ lastId = 0
    /\ handler = NoHandler /\ answering = {}
    /\ queue = {} /\ finished = {} /\ at = Resting
    /\ held = {} /\ curators = [c \in Contents |-> {}] /\ proposed = {}
    /\ accepted = {} /\ cut = {} /\ lapsed = {}
    /\ retries = 0 /\ deaths = 0

-----------------------------------------------------------------------------
(* Reception.  find_job_by_sha: a failed ingest is not found, whatever its path was. *)
Reusable(c) == \E j \in Members(c) : jobs[j].status \in {"queued", "running", "done", "needs_conversion", "inbox"}

Free == handler.kind = "none"

Hold(kind, c, stage) ==
    handler' = [NoHandler EXCEPT !.kind = kind, !.content = c, !.stage = stage, !.job = lastId + 1]

(* POST /ingest: content no live job holds; any other is answered with its job. *)
Post(c) ==
    /\ Free /\ ~Reusable(c) /\ lastId < MaxJobs
    /\ Hold("post", c, "source")
    /\ lastId' = lastId + 1
    /\ UNCHANGED <<nature, mode, stored, tickets, jobs, answering, queue, finished, at, held, curators,
                   proposed, accepted, cut, lapsed, retries, deaths>>

NextStage == IF mode = "inbox" THEN "item" ELSE "codex"

WriteSource ==
    /\ handler.stage = "source"
    /\ stored' = stored \cup {handler.content}
    /\ handler' = [handler EXCEPT !.stage = NextStage]
    /\ UNCHANGED <<nature, mode, tickets, jobs, lastId, answering, queue, finished, at, held, curators,
                   proposed, accepted, cut, lapsed, retries, deaths>>

(* A file somebody copies into sources/inbox. *)
Drop(c) ==
    /\ c \notin stored
    /\ stored' = stored \cup {c}
    /\ UNCHANGED <<nature, mode, tickets, jobs, lastId, handler, answering, queue, finished, at, held,
                   curators, proposed, accepted, cut, lapsed, retries, deaths>>

(* M.intake: the item of this content, new or again; a requeued one is the maintainer's again. *)
Entered(ticket, c, job) ==
    CASE ticket.status = "absent" ->
           [NoTicket EXCEPT !.status = IF c \in Unreadable THEN "closed" ELSE "ready", !.job = job]
      [] ticket.status = "requeued" -> [ticket EXCEPT !.status = "ready", !.job = job]
      [] OTHER -> [ticket EXCEPT !.job = job]

(* The item as M.intake returned it goes on: what it records of an intake is as of now. *)
EnterItem ==
    /\ handler.stage = "item"
    /\ LET c == handler.content
           ticket == Entered(tickets[c], c, handler.job)
       IN /\ tickets' = [tickets EXCEPT ![c] = ticket]
          /\ handler' = [handler EXCEPT !.intake = ticket.intake,
                             !.stage = IF c \in Unreadable \/ ticket.intake # 0 THEN "job" ELSE "intake"]
    /\ UNCHANGED <<nature, mode, stored, jobs, lastId, answering, queue, finished, at, held, curators,
                   proposed, accepted, cut, lapsed, retries, deaths>>

Job(kind, c, status) == [kind |-> kind, content |-> c, status |-> status, retryable |-> FALSE]

WithJob(j, job) == [k \in DOMAIN jobs \cup {j} |-> IF k = j THEN job ELSE jobs[k]]

NewIntake ==
    /\ handler.stage = "intake" /\ lastId < MaxJobs
    /\ jobs' = WithJob(lastId + 1, Job("intake", handler.content, "queued"))
    /\ lastId' = lastId + 1
    /\ handler' = [handler EXCEPT !.stage = "job", !.intake = lastId + 1]
    /\ UNCHANGED <<nature, mode, stored, tickets, answering, queue, finished, at, held, curators,
                   proposed, accepted, cut, lapsed, retries, deaths>>

(* The job that names both ends a registration.  A POST hands its intake over once the lock is
   released, the sweep before. *)
WriteJob ==
    /\ handler.stage = "job"
    /\ jobs' = WithJob(handler.job, Job("inbox", handler.content, "inbox"))
    /\ accepted' = accepted \cup {handler.content}
    /\ LET intake == {handler.intake} \ {0}
           fresh == {j \in intake : jobs[j].status = "queued"}
       IN IF handler.kind = "post"
          THEN answering' = answering \cup fresh /\ UNCHANGED <<queue, finished>>
          ELSE /\ queue' = queue \cup intake /\ finished' = finished \cup intake
               /\ UNCHANGED answering
    /\ handler' = NoHandler
    /\ UNCHANGED <<nature, mode, stored, tickets, lastId, at, held, curators, proposed, cut, lapsed,
                   retries, deaths>>

(* submit_intake, by the POST that waits for it. *)
HandOver(j) ==
    /\ j \in answering
    /\ answering' = answering \ {j}
    /\ queue' = queue \cup {j} /\ finished' = finished \cup {j}
    /\ UNCHANGED <<nature, mode, stored, tickets, jobs, lastId, handler, at, held, curators, proposed,
                   accepted, cut, lapsed, retries, deaths>>

(* The reception without inbox intake: a Codex ingest, or a file for somebody to convert. *)
NewJob ==
    /\ handler.stage = "codex"
    /\ LET c == handler.content
           readable == c \notin Unreadable
       IN /\ jobs' = WithJob(handler.job, Job("codex", c, IF readable THEN "queued" ELSE "needs_conversion"))
          /\ queue' = IF readable THEN queue \cup {handler.job} ELSE queue
          /\ accepted' = accepted \cup {c}
    /\ handler' = NoHandler
    /\ UNCHANGED <<nature, mode, stored, tickets, lastId, answering, finished, at, held, curators,
                   proposed, cut, lapsed, retries, deaths>>

-----------------------------------------------------------------------------
(* The sweep. *)
Known == {c \in Contents : Members(c) # {} \/ (c \in Plain /\ Copies(c) # {})}

Intakes(status) == {j \in DOMAIN jobs : jobs[j].kind = "intake" /\ jobs[j].status = status}

(* pending_intakes: those queued, and those of the failed ones whose retry is due, queued again. *)
Sweep ==
    /\ Free
    /\ \E due \in SUBSET {j \in Intakes("failed") : jobs[j].retryable} :
         LET pending == IF mode = "inbox" THEN Intakes("queued") \cup due ELSE {}
         IN /\ mode = "codex" => due = {}
            /\ jobs' = [j \in DOMAIN jobs |->
                           IF j \in due THEN [jobs[j] EXCEPT !.status = "queued", !.retryable = FALSE] ELSE jobs[j]]
            /\ handler' = [NoHandler EXCEPT !.kind = "sweep", !.stage = "hand", !.pending = pending]
    /\ UNCHANGED <<nature, mode, stored, tickets, lastId, answering, queue, finished, at, held, curators,
                   proposed, accepted, cut, lapsed, retries, deaths>>

SweepHands(j) ==
    /\ handler.stage = "hand" /\ j \in handler.pending
    /\ handler' = [handler EXCEPT !.pending = @ \ {j}]
    /\ IF j \in finished THEN UNCHANGED <<queue, finished>>
       ELSE queue' = queue \cup {j} /\ finished' = finished \cup {j}
    /\ UNCHANGED <<nature, mode, stored, tickets, jobs, lastId, answering, at, held, curators, proposed,
                   accepted, cut, lapsed, retries, deaths>>

(* A source no job knows; the next one waits for the next sweep. *)
SweepTakes(c) ==
    /\ handler.stage = "hand" /\ handler.pending = {}
    /\ c \in stored \ Known /\ lastId < MaxJobs
    /\ Hold("sweep", c, NextStage)
    /\ lastId' = lastId + 1
    /\ UNCHANGED <<nature, mode, stored, tickets, jobs, answering, queue, finished, at, held, curators,
                   proposed, accepted, cut, lapsed, retries, deaths>>

SweepEnds ==
    /\ handler.stage = "hand" /\ handler.pending = {}
    /\ handler' = NoHandler
    /\ UNCHANGED <<nature, mode, stored, tickets, jobs, lastId, answering, queue, finished, at, held,
                   curators, proposed, accepted, cut, lapsed, retries, deaths>>

-----------------------------------------------------------------------------
(* The rollback to Codex: the item first, then its job. *)
RequeueableHeld(c) ==
    /\ tickets[c].job \in DOMAIN jobs /\ c \in stored
    /\ tickets[c].status \in Open \cup {"requeued"}
    /\ tickets[c].status = "requeued" => jobs[tickets[c].job].kind = "inbox"

(* An item a live run holds stays with it; one requeued before comes back while its job does not. *)
Requeueable(c) ==
    /\ tickets[c].job \in DOMAIN jobs /\ c \in stored
    /\ tickets[c].status \in {"ready", "orphan", "requeued"}
    /\ tickets[c].status = "requeued" => jobs[tickets[c].job].kind = "inbox"

Requeue(c) ==
    /\ Free /\ Requeueable(c)
    /\ tickets' = [tickets EXCEPT ![c].status = "requeued"]
    /\ handler' = [NoHandler EXCEPT !.kind = "requeue", !.content = c, !.stage = "rewrite"]
    /\ UNCHANGED <<nature, mode, stored, jobs, lastId, answering, queue, finished, at, held, curators,
                   proposed, accepted, cut, lapsed, retries, deaths>>

Rewrite ==
    /\ handler.stage = "rewrite"
    /\ LET j == tickets[handler.content].job
       IN /\ jobs' = [jobs EXCEPT ![j].kind = "codex", ![j].status = "queued"]
          /\ queue' = queue \cup {j}
    /\ handler' = NoHandler
    /\ UNCHANGED <<nature, mode, stored, tickets, lastId, answering, finished, at, held, curators, proposed,
                   accepted, cut, lapsed, retries, deaths>>

-----------------------------------------------------------------------------
(* The worker. *)
Step(next) == at' = [at EXCEPT !.step = next]

SetJob(j, status, retryable) ==
    jobs' = [jobs EXCEPT ![j].status = status, ![j].retryable = retryable]

(* An intake runs only under inbox intake and while it is queued. *)
Take(j) ==
    /\ at = Resting /\ j \in queue
    /\ queue' = queue \ {j}
    /\ LET runs == jobs[j].kind = "codex" \/ (mode = "inbox" /\ jobs[j].status = "queued")
       IN /\ at' = [job |-> j, content |-> jobs[j].content,
                    step |-> IF ~runs THEN "leave" ELSE IF jobs[j].kind = "codex" THEN "curate" ELSE "commit"]
          /\ IF runs THEN SetJob(j, "running", FALSE) ELSE UNCHANGED jobs
    /\ UNCHANGED <<nature, mode, stored, tickets, lastId, handler, answering, finished, held, curators,
                   proposed, accepted, cut, lapsed, retries, deaths>>

(* The commit reaches the remote, or the copy is there already. *)
Commit ==
    /\ at.step = "commit"
    /\ held' = held \cup {at.content}
    /\ Step("settle")
    /\ UNCHANGED <<nature, mode, stored, tickets, jobs, lastId, handler, answering, queue, finished,
                   curators, proposed, accepted, cut, lapsed, retries, deaths>>

(* record_intake. *)
Settled(j) == [tickets EXCEPT ![jobs[j].content].intake = j]

Settle ==
    /\ at.step = "settle"
    /\ tickets' = Settled(at.job)
    /\ Step("save")
    /\ UNCHANGED <<nature, mode, stored, jobs, lastId, handler, answering, queue, finished, held, curators,
                   proposed, accepted, cut, lapsed, retries, deaths>>

Save ==
    /\ at.step = "save"
    /\ SetJob(at.job, "done", FALSE)
    /\ Step("leave")
    /\ UNCHANGED <<nature, mode, stored, tickets, lastId, handler, answering, queue, finished, held,
                   curators, proposed, accepted, cut, lapsed, retries, deaths>>

(* A submitter no longer in force, a secret left, a tree with edits, a push that failed: with or
   without a retry. *)
Fails ==
    /\ at.step \in {"commit", "curate"}
    /\ at.step = "commit" => retries < MaxRetries
    /\ \E retryable \in {at.step = "commit", FALSE} : SetJob(at.job, "failed", retryable)
    /\ retries' = IF at.step = "commit" THEN retries + 1 ELSE retries
    /\ Step("leave")
    /\ UNCHANGED <<nature, mode, stored, tickets, lastId, handler, answering, queue, finished, held,
                   curators, proposed, accepted, cut, lapsed, deaths>>

(* The Codex curator's push and its receipt. *)
Curate ==
    /\ at.step = "curate"
    /\ curators' = [curators EXCEPT ![at.content] = @ \cup {"codex"}]
    /\ Step("save")
    /\ UNCHANGED <<nature, mode, stored, tickets, jobs, lastId, handler, answering, queue, finished, held,
                   proposed, accepted, cut, lapsed, retries, deaths>>

Wake == finished \ {at.job}

(* _run's finally: whoever waits is woken, and the sweep may hand the job over again. *)
Leave ==
    /\ at.step = "leave"
    /\ finished' = Wake
    /\ at' = Resting
    /\ UNCHANGED <<nature, mode, stored, tickets, jobs, lastId, handler, answering, queue, held, curators,
                   proposed, accepted, cut, lapsed, retries, deaths>>

-----------------------------------------------------------------------------
(* The maintainer. *)
TicketStep(c, from, to) ==
    /\ tickets[c].status = from
    /\ tickets' = [tickets EXCEPT ![c].status = to]
    /\ UNCHANGED <<nature, mode, stored, jobs, lastId, handler, answering, queue, finished, at, held,
                   curators, proposed, accepted, cut, retries, deaths>>

Proposing(c) == c \in proposed \/ (at.step = "changeset" /\ at.content = c)

Claim(c)     == TicketStep(c, "ready", "held") /\ UNCHANGED lapsed
LeaseEnds(c) == TicketStep(c, "held", "orphan") /\ lapsed' = lapsed \cup {c}
NewRun(c)    == TicketStep(c, "orphan", "ready") /\ UNCHANGED lapsed
Skip(c)      == TicketStep(c, "held", "skipped") /\ lapsed' = lapsed \cup {d \in {c} : Proposing(d)}
AdminRetry(c) ==
    \E from \in {"skipped", "closed"} : TicketStep(c, from, "ready") /\ UNCHANGED lapsed

Propose(c) ==
    /\ tickets[c].status = "held" /\ c \notin proposed
    /\ proposed' = proposed \cup {c}
    /\ UNCHANGED <<nature, mode, stored, tickets, jobs, lastId, handler, answering, queue, finished, at,
                   held, curators, accepted, cut, lapsed, retries, deaths>>

(* _run_queued: the item was closed while its changeset waited. *)
Rejected(c) == tickets[c].status \in Terminal

StartChangeset(c) ==
    /\ at = Resting /\ c \in proposed
    /\ proposed' = proposed \ {c}
    /\ at' = IF Rejected(c) THEN Resting ELSE [job |-> 0, content |-> c, step |-> "changeset"]
    /\ UNCHANGED <<nature, mode, stored, tickets, jobs, lastId, handler, answering, queue, finished, held,
                   curators, accepted, cut, lapsed, retries, deaths>>

(* Its push and its closeout; close_curated leaves an item that is closed by now alone. *)
EndChangeset ==
    /\ at.step = "changeset"
    /\ \/ /\ curators' = [curators EXCEPT ![at.content] = @ \cup {"maintainer"}]
          /\ tickets' = IF tickets[at.content].status \in Terminal THEN tickets
                        ELSE [tickets EXCEPT ![at.content].status = "curated"]
       \/ UNCHANGED <<curators, tickets>>
    /\ at' = Resting
    /\ UNCHANGED <<nature, mode, stored, jobs, lastId, handler, answering, queue, finished, held, proposed,
                   accepted, cut, lapsed, retries, deaths>>

-----------------------------------------------------------------------------
(* The death of the process and recover.  Queued Codex ingests and changesets are queued again,
   intakes wait for the sweep. *)

(* What the remote holds decides of the interrupted job. *)
Landed == at.step \in {"settle", "save"}

Reconciled ==
    [j \in DOMAIN jobs |->
        IF jobs[j].status # "running" THEN jobs[j]
        ELSE IF Landed THEN [jobs[j] EXCEPT !.status = "done"]
        ELSE [jobs[j] EXCEPT !.status = "failed", !.retryable = TRUE]]

Restart ==
    /\ deaths < MaxDeaths
    /\ deaths' = deaths + 1
    /\ mode' \in {"inbox", "codex"}
    /\ jobs' = Reconciled
    /\ tickets' = IF Landed /\ jobs[at.job].kind = "intake" THEN Settled(at.job) ELSE tickets
    /\ cut' = IF handler.stage \in {"intake", "job"} THEN cut \cup {handler.content} ELSE cut
    /\ handler' = NoHandler /\ answering' = {} /\ finished' = {} /\ at' = Resting
    /\ queue' = {j \in DOMAIN jobs : jobs[j].kind = "codex" /\ jobs[j].status = "queued"}
    /\ UNCHANGED <<nature, stored, lastId, held, curators, proposed, accepted, lapsed, retries>>

Next ==
    \/ \E c \in Contents :
         \/ Post(c) \/ Drop(c) \/ SweepTakes(c) \/ Requeue(c)
         \/ Claim(c) \/ LeaseEnds(c) \/ NewRun(c) \/ Skip(c) \/ AdminRetry(c)
         \/ Propose(c) \/ StartChangeset(c)
    \/ WriteSource \/ EnterItem \/ NewIntake \/ WriteJob \/ NewJob
    \/ Sweep \/ SweepEnds \/ Rewrite
    \/ \E j \in Ids : HandOver(j) \/ SweepHands(j) \/ Take(j)
    \/ Commit \/ Settle \/ Save \/ Fails \/ Curate \/ Leave
    \/ EndChangeset \/ Restart

Spec == Init /\ [][Next]_vars

-----------------------------------------------------------------------------
Kinds == {"inbox", "codex", "intake"}
Statuses == {"inbox", "queued", "running", "done", "failed", "needs_conversion"}
Stages == {"none", "source", "item", "intake", "job", "codex", "hand", "rewrite"}

(* The type of every variable. *)
TypeOK ==
    /\ nature \in [Contents -> Natures] /\ mode \in {"inbox", "codex"}
    /\ {stored, held, proposed, accepted, cut, lapsed} \subseteq SUBSET Contents
    /\ tickets \in [Contents -> [status: {"absent"} \cup Open \cup Terminal, job: Ids \cup {0}, intake: Ids \cup {0}]]
    /\ lastId \in 0..MaxJobs /\ DOMAIN jobs \subseteq 1..lastId
    /\ \A j \in DOMAIN jobs : jobs[j] \in [kind: Kinds, content: Contents, status: Statuses, retryable: BOOLEAN]
    /\ handler \in [kind: {"none", "post", "sweep", "requeue"}, content: Contents \cup {NoContent},
                    stage: Stages, job: 0..MaxJobs, intake: 0..MaxJobs, pending: SUBSET Ids]
    /\ {answering, queue, finished} \subseteq SUBSET DOMAIN jobs
    /\ at \in [job: 0..MaxJobs, content: Contents \cup {NoContent},
               step: {"rest", "leave", "commit", "settle", "save", "curate", "changeset"}]
    /\ curators \in [Contents -> SUBSET {"codex", "maintainer"}]
    /\ retries \in 0..MaxRetries /\ deaths \in 0..MaxDeaths

Registering(c) == handler.content = c /\ handler.kind # "none"

(* Whatever dies when, a submission that was answered is kept: a Codex job has it, or its item
   names a job of it, the way `ai-wiki jobs` finds it, and a copy of it is on its way into Git. *)
AcceptedIsKept ==
    \A c \in accepted :
       \/ \E j \in Members(c) : jobs[j].kind = "codex"
       \/ Registering(c)
       \/ /\ tickets[c].job \in Members(c)
          /\ c \notin Unreadable => Copies(c) # {}

(* The maintainer and Codex never both curate a submission.  Two ways to that are known and
   left out: a registration a death cut, swept after a rollback to Codex, and an item the admin
   requeued while the changeset of a run that no longer holds it runs. *)
OneCurator ==
    \A c \in Contents \ (cut \cup lapsed) : curators[c] # {"codex", "maintainer"}

(* An intake that reads done is in the remote's Git, and the item of its content says so. *)
DoneIsHeld ==
    \A j \in Intakes("done") : jobs[j].content \in held /\ tickets[jobs[j].content].intake # 0

(* What the sweep passes over as waiting is in the queue or at the worker: no intake stays behind
   queued on disk and never handed over. *)
NeverStranded == finished \subseteq queue \cup {at.job}

(* A submission is kept, handed on, curated once and told of truly. *)
IntakeSafe == TypeOK /\ AcceptedIsKept /\ OneCurator /\ DoneIsHeld /\ NeverStranded
=============================================================================
