-------------------------------- MODULE Gate --------------------------------
(***************************************************************************)
(* The locks of the writer process: src/aiwiki/service/worker.py           *)
(* (serialized_mutation, serialized_read, serialized_lifecycle), the       *)
(* routes of app.py that take them, and the read cache of bundle.py that   *)
(* every mutation drops.                                                   *)
(*                                                                         *)
(* Threads: the worker, which mutates the knowledge tree for minutes; the  *)
(* request handlers of the lifecycle window; and the readers.  One bundle. *)
(* The tree is its version.  Reads here trust file stats alone (the worst  *)
(* case the drop is there for): a cached snapshot is served until dropped. *)
(***************************************************************************)
EXTENDS Naturals, FiniteSets

CONSTANTS
    Readers,   \* threads of semantic reads (_read_window, the embedding warmer)
    Requests,  \* threads of the routes inside serialized_lifecycle
    Worker,    \* the serial worker
    Nobody,    \* no thread
    NoSnapshot,
    MaxJobs,   \* bound: jobs queued at once
    MaxChanges \* bound: changes of the tree after which no request comes

Threads  == Readers \cup Requests \cup {Worker}

ASSUME ThreadsOK ==
    /\ IsFiniteSet(Readers) /\ IsFiniteSet(Requests)
    /\ Readers \cap Requests = {} /\ Worker \notin Readers \cup Requests
    /\ Nobody \notin Threads
    /\ NoSnapshot \notin Nat
    /\ MaxJobs \in Nat /\ MaxChanges \in Nat

VARIABLES
    step,       \* where each thread is
    route,      \* the route each request thread handles
    lifecycle,  \* holder of _lifecycle_lock
    mutation,   \* holder of _mutation_lock
    pending,    \* _mutation_pending
    active,     \* _mutation_active
    readers,    \* _active_readers
    bundle,     \* the bundle exists
    jobs,       \* its jobs that are queued or running
    tree,       \* the version of its tree
    cache,      \* _snapshots: the version of the cached snapshot
    answer,     \* the version each reader answers from
    undone      \* history: a create failed after its scaffold

locks == <<lifecycle, mutation>>
gate  == <<pending, active, readers>>
data  == <<bundle, jobs, tree, cache, answer, undone>>
vars  == <<step, route, locks, gate, data>>

Routes == {"maint", "submit", "audit", "create", "delete"}
Undo   == "undo create"  \* the route of a create that failed after its scaffold
Steps  == {"idle", "route", "write", "auditing", "try", "acquire", "announce", "drain",
           "mutate", "drop", "open", "release", "exit", "pack", "packing", "read", "answer",
           "cleanup"}

Reading  == {t \in Threads : step[t] \in {"read", "answer", "auditing"}}
Mutating == {t \in Threads : step[t] \in {"mutate", "drop", "open"}}

Go(t, from, to)   == step[t] = from /\ step' = [step EXCEPT ![t] = to]
Move(t, from, to) == Go(t, from, to) /\ UNCHANGED route
Handle(t, r, to) == route[t] = r /\ Move(t, "route", to)

Init ==
    /\ step = [t \in Threads |-> "idle"] /\ route = [t \in Requests |-> "maint"]
    /\ lifecycle = Nobody /\ mutation = Nobody
    /\ pending = FALSE /\ active = FALSE /\ readers = 0
    /\ bundle \in BOOLEAN /\ jobs = 0
    /\ tree = 0 /\ cache = NoSnapshot /\ answer = [t \in Readers |-> 0]
    /\ undone = FALSE

-----------------------------------------------------------------------------
(* serialized_read: a read enters only while no mutation is active or waiting, *)
(* and fails at once otherwise (ReadBusy, 503).                                *)
EnterRead(t, from, to) ==
    /\ ~active /\ ~pending
    /\ Move(t, from, to)
    /\ readers' = readers + 1
    /\ UNCHANGED <<pending, active>>

LeaveRead(t, from, to) ==
    /\ Move(t, from, to)
    /\ readers' = readers - 1
    /\ UNCHANGED <<pending, active>>

(* Mutant: a read leaves the count as it is when it enters. *)
StartReadUncounted(t) ==
    /\ ~active /\ ~pending
    /\ Move(t, "idle", "read")
    /\ UNCHANGED <<gate, locks, data>>

StartRead(t) == EnterRead(t, "idle", "read") /\ UNCHANGED <<locks, data>>

(* _snapshot: the cached snapshot, or a scan that is cached. *)
Serve(t) ==
    /\ Move(t, "read", "answer")
    /\ cache' = IF cache = NoSnapshot THEN tree ELSE cache
    /\ answer' = [answer EXCEPT ![t] = cache']
    /\ UNCHANGED <<locks, gate, bundle, jobs, tree, undone>>

EndRead(t) == LeaveRead(t, "answer", "idle") /\ UNCHANGED <<locks, data>>

-----------------------------------------------------------------------------
(* serialized_mutation, once its lock is held by t. *)

(* The writer announces itself, which keeps new readers out. *)
Announce(t) ==
    /\ Move(t, "announce", "drain")
    /\ pending' = TRUE
    /\ UNCHANGED <<active, readers, locks, data>>

(* Mutant: the writer does not wait for the readers inside. *)
DrainAtOnce(t) ==
    /\ Move(t, "drain", "mutate")
    /\ pending' = FALSE /\ active' = TRUE
    /\ UNCHANGED <<readers, locks, data>>

(* It waits until the readers inside have left. *)
Drain(t) ==
    /\ readers = 0
    /\ Move(t, "drain", "mutate")
    /\ pending' = FALSE /\ active' = TRUE
    /\ UNCHANGED <<readers, locks, data>>

(* Mutant: the snapshots stay. *)
DropNothing(t) ==
    /\ Move(t, "drop", "open")
    /\ UNCHANGED <<locks, gate, data>>

(* drop_snapshots: "before any reader is let back in". *)
Drop(t) ==
    /\ Move(t, "drop", "open")
    /\ cache' = NoSnapshot
    /\ UNCHANGED <<locks, gate, bundle, jobs, tree, answer, undone>>

Open(t) ==
    /\ Move(t, "open", "release")
    /\ active' = FALSE /\ pending' = FALSE
    /\ UNCHANGED <<readers, locks, data>>

Release(t) ==
    /\ Move(t, "release", IF t = Worker THEN "pack" ELSE "exit")
    /\ mutation' = Nobody
    /\ UNCHANGED <<lifecycle, gate, data>>

-----------------------------------------------------------------------------
(* The worker (_run): a job of the queue, under the blocking mutation lock. *)

TakeJob ==
    /\ jobs > 0
    /\ Move(Worker, "idle", "acquire")
    /\ UNCHANGED <<locks, gate, data>>

Acquire ==
    /\ mutation = Nobody
    /\ Move(Worker, "acquire", "announce")
    /\ mutation' = Worker
    /\ UNCHANGED <<lifecycle, gate, data>>

(* The job runs: it may change the tree, and its receipt is saved. *)
RunJob ==
    /\ Move(Worker, "mutate", "drop")
    /\ tree' \in {tree, tree + 1}
    /\ jobs' = jobs - 1
    /\ UNCHANGED <<locks, gate, bundle, cache, answer, undone>>

(* _pack_after_push: gc under the mutation lock, beside the readers. *)
Pack ==
    /\ \/ Move(Worker, "pack", "idle") /\ UNCHANGED mutation
       \/ mutation = Nobody /\ Move(Worker, "pack", "packing") /\ mutation' = Worker
       \/ Move(Worker, "packing", "idle") /\ mutation' = Nobody
    /\ UNCHANGED <<lifecycle, gate, data>>

-----------------------------------------------------------------------------
(* The routes inside serialized_lifecycle. *)

Enter(t, r) ==
    /\ tree < MaxChanges
    /\ lifecycle = Nobody
    /\ Go(t, "idle", "route") /\ route' = [route EXCEPT ![t] = r]
    /\ lifecycle' = t
    /\ UNCHANGED <<mutation, gate, data>>

Exit(t) ==
    /\ Move(t, "exit", IF route[t] = Undo THEN "cleanup" ELSE "idle")
    /\ lifecycle' = Nobody
    /\ UNCHANGED <<mutation, gate, data>>

(* _resolve: a route on a bundle that is gone answers 404. *)
NotFound(t) ==
    /\ ~bundle /\ route[t] # "create" /\ Move(t, "route", "exit")
    /\ UNCHANGED <<locks, gate, data>>

(* _maint: the work-item state is written after the bundle was resolved. *)
Maint(t) == bundle /\ Handle(t, "maint", "write") /\ UNCHANGED <<locks, gate, data>>
MaintWrite(t) == Move(t, "write", "exit") /\ UNCHANGED <<locks, gate, data>>

AcceptJob ==
    /\ jobs < MaxJobs /\ jobs' = jobs + 1
    /\ UNCHANGED <<bundle, tree, cache, answer, undone>>

(* POST /ingest, POST /changesets, the sweep: a job is created and queued. *)
Submit(t) ==
    /\ bundle
    /\ Handle(t, "submit", "exit")
    /\ AcceptJob \/ UNCHANGED data
    /\ UNCHANGED <<locks, gate>>

(* POST /jobs/{id}/audit: its scope is read inside a read window ... *)
Audit(t) ==
    /\ bundle /\ route[t] = "audit"
    /\ EnterRead(t, "route", "auditing")
    /\ UNCHANGED <<locks, data>>
AuditQueued(t) ==
    /\ LeaveRead(t, "auditing", "exit")
    /\ AcceptJob \/ UNCHANGED data
    /\ UNCHANGED locks

(* ... or taken from the durable receipt while a mutation owns the tree. *)
AuditBusy(t) ==
    /\ bundle /\ (active \/ pending)
    /\ Handle(t, "audit", "exit")
    /\ AcceptJob \/ UNCHANGED data
    /\ UNCHANGED <<locks, gate>>

(* Mutant: a bundle is deleted whatever its jobs. *)
DeleteAnyway(t) ==
    /\ bundle
    /\ Handle(t, "delete", "try")
    /\ UNCHANGED <<locks, gate, data>>

(* DELETE /bundles: never one with queued or running jobs. *)
Delete(t) ==
    /\ bundle
    /\ Handle(t, "delete", IF jobs = 0 THEN "try" ELSE "exit")
    /\ UNCHANGED <<locks, gate, data>>

Create(t) == Handle(t, "create", "try") /\ UNCHANGED <<locks, gate, data>>

(* Mutant: the request waits for the mutation lock. *)
TryMutationBlocking(t) ==
    /\ mutation = Nobody /\ Move(t, "try", "announce") /\ mutation' = t
    /\ UNCHANGED <<lifecycle, gate, data>>

(* serialized_mutation(blocking=False): MutationBusy answers 409. *)
TryMutation(t) ==
    /\ \/ mutation = Nobody /\ Move(t, "try", "announce") /\ mutation' = t
       \/ mutation # Nobody /\ Move(t, "try", "exit") /\ UNCHANGED mutation
    /\ UNCHANGED <<lifecycle, gate, data>>

(* The bundle is deleted with its tree, or created unless it exists (409).  A  *)
(* scaffold whose first commit Git refuses is there until the locks are released. *)
Scaffold(t) ==
    /\ t # Worker /\ Go(t, "mutate", "drop")
    /\ bundle' = (route[t] = "create")
    /\ tree' = IF bundle' = bundle THEN tree ELSE tree + 1
    /\ \/ UNCHANGED <<route, undone>>
       \/ bundle' /\ ~bundle /\ route' = [route EXCEPT ![t] = Undo] /\ undone' = TRUE
    /\ UNCHANGED <<locks, gate, jobs, cache, answer>>

(* create_bundle's exception handler: rmtree, outside both locks. *)
CleanUp(t) ==
    /\ Move(t, "cleanup", "idle")
    /\ bundle' = FALSE /\ tree' = IF bundle THEN tree + 1 ELSE tree
    /\ UNCHANGED <<locks, gate, jobs, cache, answer, undone>>

-----------------------------------------------------------------------------
Mutate(t) == Announce(t) \/ Drain(t) \/ Drop(t) \/ Open(t) \/ Release(t)

Answer(t) ==
    \/ Exit(t) \/ NotFound(t) \/ Maint(t) \/ MaintWrite(t) \/ Submit(t)
    \/ Audit(t) \/ AuditQueued(t) \/ AuditBusy(t)
    \/ Delete(t) \/ Create(t) \/ TryMutation(t) \/ Mutate(t) \/ Scaffold(t) \/ CleanUp(t)

Next ==
    \/ \E t \in Readers : StartRead(t) \/ Serve(t) \/ EndRead(t)
    \/ TakeJob \/ Acquire \/ Mutate(Worker) \/ RunJob \/ Pack
    \/ \E t \in Requests : (\E r \in Routes : Enter(t, r)) \/ Answer(t)

Spec == Init /\ [][Next]_vars

(* A read and a request that have begun go on, and so does the worker's way   *)
(* into and out of a mutation; a job may run for ever.                        *)
FairSpec ==
    /\ Spec
    /\ \A t \in Readers : WF_vars(Serve(t) \/ EndRead(t))
    /\ \A t \in Requests : WF_vars(Answer(t))
    /\ WF_vars(Mutate(Worker))

-----------------------------------------------------------------------------
(* Properties. *)

(* Every variable has its shape. *)
TypeOK ==
    /\ step \in [Threads -> Steps] /\ route \in [Requests -> Routes \cup {Undo}]
    /\ lifecycle \in Requests \cup {Nobody}
    /\ mutation \in Requests \cup {Worker, Nobody}
    /\ pending \in BOOLEAN /\ active \in BOOLEAN /\ readers \in Nat
    /\ bundle \in BOOLEAN /\ jobs \in Nat
    /\ tree \in Nat /\ cache \in Nat \cup {NoSnapshot} /\ answer \in [Readers -> Nat]
    /\ undone \in BOOLEAN

(* serialized_read and serialized_mutation: nobody reads the tree while a       *)
(* mutation owns it.                                                            *)
NoReadDuringMutation == Mutating # {} => Reading = {}

Fresh == \A t \in Readers : step[t] = "answer" => answer[t] = tree

(* A read answers from the tree as it is: its snapshot was not cached before    *)
(* the last mutation, and no mutation changes the tree under it.  A create that *)
(* failed ends that: it removes its scaffold outside the locks.                 *)
ReadsCurrent == ~undone => Fresh

Gone ==
    ~bundle => jobs = 0 /\ step[Worker] # "acquire" /\ \A t \in Requests : step[t] # "write"

(* "a bundle being deleted never regains .okf/maint" (_maint), no job is made   *)
(* "in a deleted bundle" (changesets), and the worker never runs a job of one:  *)
(* a delete sees every accepted job until its receipt is final.  Again as long  *)
(* as no create failed.                                                         *)
NothingOnDeleted == ~undone => Gone

(* Readers that keep coming do not starve a writer that has announced itself.   *)
DrainEnds == \A t \in Requests \cup {Worker} : step[t] = "drain" ~> step[t] = "mutate"

(* A request inside the lifecycle window is answered also while a job runs for  *)
(* as long as it likes: no route there waits for the worker.                    *)
AnswersDuringJobs == \A t \in Requests : lifecycle = t ~> lifecycle = Nobody

(* Neither readers nor a long job hold anybody up for ever.                     *)
WorkGoesOn == DrainEnds /\ AnswersDuringJobs
=============================================================================
