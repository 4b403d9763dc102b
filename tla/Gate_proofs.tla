---------------------------- MODULE Gate_proofs ----------------------------
(***************************************************************************)
(* Proofs about Gate, for any threads and any number of jobs: the type     *)
(* invariant, the exclusion of reads and mutations, that reads answer from *)
(* the current tree, and that nothing is written to a deleted bundle.      *)
(***************************************************************************)
EXTENDS Gate, FiniteSetTheorems, TLAPS

MutationSteps == {"announce", "drain", "mutate", "drop", "open", "release"}
WorkerSteps   == MutationSteps \cup {"idle", "acquire", "pack", "packing"}
RequestSteps  == MutationSteps \cup {"idle", "route", "write", "auditing", "try", "exit", "cleanup"}
ReaderSteps   == {"idle", "read", "answer"}

(* Each kind of thread keeps to its own steps. *)
StepsApart ==
    /\ step \in [Threads -> Steps]
    /\ \A t \in Readers : step[t] \in ReaderSteps
    /\ \A t \in Requests : step[t] \in RequestSteps
    /\ step[Worker] \in WorkerSteps

(* A lock is held by the thread whose step needs it. *)
Holds ==
    /\ \A t \in Threads : step[t] \in MutationSteps \cup {"packing"} => mutation = t
    /\ \A t \in Requests : step[t] \notin {"idle", "cleanup"} => lifecycle = t

(* _active_readers counts the readers, and is zero while a mutation is active. *)
Excludes ==
    /\ readers = Cardinality(Reading)
    /\ active <=> Mutating # {}
    /\ active => readers = 0

(* The worker runs a job that is still counted as queued or running. *)
WorkerBusy == step[Worker] \in {"acquire", "announce", "drain", "mutate"} => jobs > 0

LockInv == TypeOK /\ WorkerBusy /\ StepsApart /\ Holds /\ Excludes

(* What the tree, the cache and the answers are worth, when a failed create *)
(* leaves nothing to clean up.                                              *)
Tidy ==
    \A t \in Requests : step[t] # "cleanup" /\ route[t] # Undo

Current ==
    /\ cache \in {NoSnapshot, tree} \/ \E t \in Threads : step[t] = "drop"
    /\ Fresh

Removing ==
    \A t \in Requests :
        step[t] \in {"try", "announce", "drain", "mutate"} =>
            route[t] = "create" \/ (route[t] = "delete" /\ bundle /\ jobs = 0)

(* What a request found when it resolved the bundle still holds. *)
Resolved == \A t \in Requests : step[t] \in {"write", "auditing"} => bundle

Deleted == ~bundle => jobs = 0

DataInv == Tidy /\ Current /\ Removing /\ Resolved /\ Deleted

-----------------------------------------------------------------------------
ReadingSteps == {"read", "answer", "auditing"}

(* Whoever reads is counted. *)
LEMMA ReaderCounted ==
    ASSUME ThreadsOK, NEW t \in Threads, step[t] \in ReadingSteps
    PROVE  IsFiniteSet(Reading) /\ Cardinality(Reading) \in Nat /\ Cardinality(Reading) > 0
<1>1. IsFiniteSet(Reading)
  <2>1. IsFiniteSet({Worker})
    BY FS_Singleton
  <2>2. IsFiniteSet(Threads)
    BY <2>1, FS_Union DEF Threads, ThreadsOK
  <2> QED
    BY <2>2, FS_Subset DEF Reading
<1>2. t \in Reading
  BY DEF Reading, ReadingSteps
<1> QED
  BY <1>1, <1>2, FS_EmptySet, FS_CardinalityType

(* A thread that moves changes the number of readers by whether it reads. *)
LEMMA ReadersMove ==
    ASSUME ThreadsOK, step \in [Threads -> Steps], NEW t \in Threads, NEW to \in Steps,
           step' = [step EXCEPT ![t] = to]
    PROVE  /\ IsFiniteSet(Reading)
           /\ Cardinality(Reading) \in Nat
           /\ step[t] \in ReadingSteps => Cardinality(Reading) > 0
           /\ (step[t] \in ReadingSteps <=> to \in ReadingSteps) => Reading' = Reading
           /\ step[t] \notin ReadingSteps /\ to \in ReadingSteps
                  => Cardinality(Reading') = Cardinality(Reading) + 1
           /\ step[t] \in ReadingSteps /\ to \notin ReadingSteps
                  => Cardinality(Reading') = Cardinality(Reading) - 1
<1>1. IsFiniteSet(Reading)
  <2>1. IsFiniteSet({Worker})
    BY FS_Singleton
  <2>2. IsFiniteSet(Threads)
    BY <2>1, FS_Union DEF Threads, ThreadsOK
  <2> QED
    BY <2>2, FS_Subset DEF Reading
<1>2. Cardinality(Reading) \in Nat
  BY <1>1, FS_CardinalityType
<1>3. step[t] \in ReadingSteps => Cardinality(Reading) > 0
  <2>1. step[t] \in ReadingSteps => t \in Reading
    BY DEF Reading, ReadingSteps
  <2> QED
    BY <1>1, <1>2, <2>1, FS_EmptySet
<1>4. (step[t] \in ReadingSteps <=> to \in ReadingSteps) => Reading' = Reading
  BY DEF Reading, ReadingSteps
<1>5. step[t] \notin ReadingSteps /\ to \in ReadingSteps
          => Cardinality(Reading') = Cardinality(Reading) + 1
  <2>1. ASSUME step[t] \notin ReadingSteps, to \in ReadingSteps
        PROVE  Reading' = Reading \cup {t} /\ t \notin Reading
    BY <2>1 DEF Reading, ReadingSteps
  <2> QED
    BY <1>1, <2>1, FS_AddElement
<1>6. step[t] \in ReadingSteps /\ to \notin ReadingSteps
          => Cardinality(Reading') = Cardinality(Reading) - 1
  <2>1. ASSUME step[t] \in ReadingSteps, to \notin ReadingSteps
        PROVE  Reading' = Reading \ {t} /\ t \in Reading
    BY <2>1 DEF Reading, ReadingSteps
  <2> QED
    BY <1>1, <2>1, FS_RemoveElement
<1> QED
  BY <1>1, <1>2, <1>3, <1>4, <1>5, <1>6

MutatingSteps == {"mutate", "drop", "open"}

StepsOf(t) == IF t \in Readers THEN ReaderSteps
              ELSE IF t \in Requests THEN RequestSteps ELSE WorkerSteps

(* What t may do to a lock on its way to step `to`: nothing, take it or give it back. *)
LockMove(lock, t, from, to, needed) ==
    /\ \/ lock' = lock
       \/ lock = Nobody /\ lock' = t
       \/ lock = t /\ lock' = Nobody
    /\ to \in needed => lock' = t

MutationNeeded  == MutationSteps \cup {"packing"}
LifecycleNeeded == RequestSteps \ {"idle", "cleanup"}

(* What t does to the gate on its way from one step to another. *)
GateMove(from, to) ==
    /\ to \in ReadingSteps => from \notin MutatingSteps /\ ~active
    /\ to \in MutatingSteps => from \in MutatingSteps \/ readers = 0
    /\ to \in ReadingSteps /\ from \notin ReadingSteps => readers' = readers + 1
    /\ to \notin ReadingSteps /\ from \in ReadingSteps => readers' = readers - 1
    /\ (to \in ReadingSteps <=> from \in ReadingSteps) => readers' = readers
    /\ to \in MutatingSteps => active'
    /\ to \notin MutatingSteps /\ from \in MutatingSteps => ~active'
    /\ to \notin MutatingSteps /\ from \notin MutatingSteps => active' = active

(* A step of one thread that treats the locks and the gate as its places ask *)
(* keeps the invariant of the locks.                                         *)
LEMMA LocksKept ==
    ASSUME ThreadsOK, LockInv, TypeOK', WorkerBusy',
           NEW t \in Threads, NEW to \in StepsOf(t), step' = [step EXCEPT ![t] = to],
           LockMove(mutation, t, step[t], to, MutationNeeded),
           t \in Requests => LockMove(lifecycle, t, step[t], to, LifecycleNeeded),
           t \notin Requests => lifecycle' = lifecycle,
           GateMove(step[t], to)
    PROVE  LockInv'
<1> USE DEF LockInv
<1>1. to \in Steps
  BY DEF StepsOf, ReaderSteps, RequestSteps, WorkerSteps, MutationSteps, Steps
<1>2. StepsApart'
  BY <1>1 DEF StepsApart, StepsOf, Threads, ThreadsOK
<1>3. Holds'
  <2>1. ASSUME NEW u \in Threads, step'[u] \in MutationNeeded PROVE mutation' = u
    <3>1. CASE u = t
      BY <3>1, <2>1, <1>1 DEF LockMove, StepsApart
    <3>2. CASE u # t
      BY <3>2, <2>1 DEF LockMove, StepsApart, Holds, MutationNeeded, ThreadsOK
    <3> QED
      BY <3>1, <3>2
  <2>2. ASSUME NEW u \in Requests, step'[u] \notin {"idle", "cleanup"} PROVE lifecycle' = u
    <3>1. u \in Threads /\ step'[u] \in LifecycleNeeded
      BY <2>2, <1>2 DEF Threads, StepsApart, LifecycleNeeded
    <3>2. CASE u = t
      BY <3>1, <3>2, <1>1 DEF LockMove, StepsApart
    <3>3. CASE u # t
      <4>1. lifecycle = u
        BY <3>1, <3>3, <2>2 DEF StepsApart, Holds
      <4> QED
        BY <4>1, <3>1, <3>3 DEF LockMove, ThreadsOK
    <3> QED
      BY <3>2, <3>3
  <2> QED
    BY <2>1, <2>2 DEF Holds, MutationNeeded
<1>4. readers' = Cardinality(Reading')
  <2>1. /\ (step[t] \in ReadingSteps <=> to \in ReadingSteps) => Reading' = Reading
        /\ step[t] \notin ReadingSteps /\ to \in ReadingSteps
               => Cardinality(Reading') = Cardinality(Reading) + 1
        /\ step[t] \in ReadingSteps /\ to \notin ReadingSteps
               => Cardinality(Reading') = Cardinality(Reading) - 1
    BY <1>1, ReadersMove DEF StepsApart
  <2> QED
    BY <2>1 DEF GateMove, Excludes
<1>5. active' <=> Mutating' # {}
  <2>1. ASSUME NEW u \in Threads, u # t, step[u] \in MutatingSteps PROVE step[t] \notin MutatingSteps
    BY <2>1 DEF Holds, MutationSteps, MutatingSteps
  <2>2. Mutating' = IF to \in MutatingSteps THEN Mutating \cup {t} ELSE Mutating \ {t}
    BY <1>1 DEF Mutating, MutatingSteps, StepsApart
  <2>3. step[t] \in MutatingSteps => Mutating = {t}
    BY <2>1 DEF Mutating, MutatingSteps
  <2>4. step[t] \notin MutatingSteps => t \notin Mutating
    BY DEF Mutating, MutatingSteps
  <2> QED
    BY <2>2, <2>3, <2>4 DEF GateMove, Excludes, TypeOK
<1>6. active' => readers' = 0
  <2>1. step[t] \in MutatingSteps => active
    BY DEF Excludes, Mutating, MutatingSteps
  <2>0. step[t] \in ReadingSteps => Cardinality(Reading) > 0 /\ Cardinality(Reading) \in Nat
    BY <1>1, ReadersMove DEF StepsApart
  <2>4. readers = 0 => step[t] \notin ReadingSteps
    BY <2>0 DEF Excludes
  <2>2. active => step[t] \notin ReadingSteps
    BY <2>4 DEF Excludes
  <2>3. to \in MutatingSteps => to \notin ReadingSteps
    BY DEF MutatingSteps, ReadingSteps
  <2> QED
    BY <2>1, <2>2, <2>3, <2>4 DEF GateMove, Excludes, TypeOK
<1> QED
  BY <1>2, <1>3, <1>4, <1>5, <1>6 DEF Excludes

(* Every step keeps the invariant of the locks. *)
LEMMA LocksStep ==
    ASSUME ThreadsOK, LockInv, [Next]_vars
    PROVE  LockInv'
<1> USE DEF LockInv
<1>r. ASSUME NEW t \in Readers
      PROVE  t \in Threads /\ t \notin Requests /\ t # Worker
  BY DEF Threads, ThreadsOK
<1>q. ASSUME NEW t \in Requests
      PROVE  t \in Threads /\ t \notin Readers /\ t # Worker
  BY DEF Threads, ThreadsOK
<1>m. ASSUME NEW t \in Requests \cup {Worker}
      PROVE  t \in Threads /\ t \notin Readers /\ (t \in Requests <=> t # Worker)
  BY DEF Threads, ThreadsOK
<1>w. Worker \in Threads /\ Worker \notin Readers /\ Worker \notin Requests
  BY DEF Threads, ThreadsOK
<1>1. ASSUME NEW t \in Readers, StartRead(t) PROVE LockInv'
  <2>1. t \in Threads /\ step' = [step EXCEPT ![t] = "read"] /\ step[t] = "idle"
    BY <1>1, <1>r DEF StartRead, EnterRead, Move, Go
  <2>2. "read" \in StepsOf(t) /\ "read" \in Steps
    BY <1>r DEF StepsOf, ReaderSteps, MutationSteps, Steps
  <2>4. TypeOK'
    BY <1>1, <1>r, <2>1, <2>2 DEF StartRead, EnterRead, Move, Go, TypeOK, locks, gate, data
  <2>5. WorkerBusy'
    BY <1>1, <1>r, <2>1 DEF StartRead, EnterRead, Move, Go, WorkerBusy, TypeOK, StepsApart, gate, data
  <2>6. LockMove(mutation, t, step[t], "read", MutationNeeded)
    BY <1>1, <1>r, <2>1 DEF StartRead, EnterRead, Move, Go, LockMove, MutationNeeded, MutationSteps, Holds, locks
  <2>7. lifecycle' = lifecycle /\ t \notin Requests
    BY <1>1, <1>r DEF StartRead, EnterRead, Move, Go, locks
  <2>8. GateMove(step[t], "read")
    BY <1>1, <1>r, <2>1 DEF StartRead, EnterRead, Move, Go, GateMove, ReadingSteps, MutatingSteps, Excludes, Mutating, gate, TypeOK
  <2> QED
    BY <2>1, <2>2, <2>4, <2>5, <2>6, <2>7, <2>8, LocksKept
<1>2. ASSUME NEW t \in Readers, Serve(t) PROVE LockInv'
  <2>1. t \in Threads /\ step' = [step EXCEPT ![t] = "answer"] /\ step[t] = "read"
    BY <1>2, <1>r DEF Serve, Move, Go
  <2>2. "answer" \in StepsOf(t) /\ "answer" \in Steps
    BY <1>r DEF StepsOf, ReaderSteps, MutationSteps, Steps
  <2>0. Cardinality(Reading) > 0
    BY <2>1, <2>2, ReadersMove DEF ReadingSteps, StepsApart
  <2>3. readers > 0 /\ ~active
    BY <2>0 DEF Excludes
  <2>4. TypeOK'
    BY <1>2, <1>r, <2>1, <2>2, <2>3 DEF Serve, Move, Go, TypeOK, locks, gate, data
  <2>5. WorkerBusy'
    BY <1>2, <1>r, <2>1 DEF Serve, Move, Go, WorkerBusy, TypeOK, StepsApart, gate, data
  <2>6. LockMove(mutation, t, step[t], "answer", MutationNeeded)
    BY <1>2, <1>r, <2>1 DEF Serve, Move, Go, LockMove, MutationNeeded, MutationSteps, Holds, locks
  <2>7. lifecycle' = lifecycle /\ t \notin Requests
    BY <1>2, <1>r DEF Serve, Move, Go, locks
  <2>8. GateMove(step[t], "answer")
    BY <1>2, <1>r, <2>1, <2>3 DEF Serve, Move, Go, GateMove, ReadingSteps, MutatingSteps, Excludes, Mutating, gate, TypeOK
  <2> QED
    BY <2>1, <2>2, <2>4, <2>5, <2>6, <2>7, <2>8, LocksKept
<1>3. ASSUME NEW t \in Readers, EndRead(t) PROVE LockInv'
  <2>1. t \in Threads /\ step' = [step EXCEPT ![t] = "idle"] /\ step[t] = "answer"
    BY <1>3, <1>r DEF EndRead, LeaveRead, Move, Go
  <2>2. "idle" \in StepsOf(t) /\ "idle" \in Steps
    BY <1>r DEF StepsOf, ReaderSteps, MutationSteps, Steps
  <2>0. Cardinality(Reading) > 0
    BY <2>1, <2>2, ReadersMove DEF ReadingSteps, StepsApart
  <2>3. readers > 0 /\ ~active
    BY <2>0 DEF Excludes
  <2>4. TypeOK'
    BY <1>3, <1>r, <2>1, <2>2, <2>3 DEF EndRead, LeaveRead, Move, Go, TypeOK, locks, gate, data
  <2>5. WorkerBusy'
    BY <1>3, <1>r, <2>1 DEF EndRead, LeaveRead, Move, Go, WorkerBusy, TypeOK, StepsApart, gate, data
  <2>6. LockMove(mutation, t, step[t], "idle", MutationNeeded)
    BY <1>3, <1>r, <2>1 DEF EndRead, LeaveRead, Move, Go, LockMove, MutationNeeded, MutationSteps, Holds, locks
  <2>7. lifecycle' = lifecycle /\ t \notin Requests
    BY <1>3, <1>r DEF EndRead, LeaveRead, Move, Go, locks
  <2>8. GateMove(step[t], "idle")
    BY <1>3, <1>r, <2>1, <2>3 DEF EndRead, LeaveRead, Move, Go, GateMove, ReadingSteps, MutatingSteps, Excludes, Mutating, gate, TypeOK
  <2> QED
    BY <2>1, <2>2, <2>4, <2>5, <2>6, <2>7, <2>8, LocksKept
<1>4. ASSUME NEW t \in Requests, NotFound(t) PROVE LockInv'
  <2>1. t \in Threads /\ step' = [step EXCEPT ![t] = "exit"] /\ step[t] = "route"
    BY <1>4, <1>q DEF NotFound, Move, Go
  <2>2. "exit" \in StepsOf(t) /\ "exit" \in Steps
    BY <1>q DEF StepsOf, RequestSteps, MutationSteps, Steps
  <2>4. TypeOK'
    BY <1>4, <1>q, <2>1, <2>2 DEF NotFound, Move, Go, TypeOK, locks, gate, data
  <2>5. WorkerBusy'
    BY <1>4, <1>q, <2>1 DEF NotFound, Move, Go, WorkerBusy, TypeOK, StepsApart, gate, data
  <2>6. LockMove(mutation, t, step[t], "exit", MutationNeeded)
    BY <1>4, <1>q, <2>1 DEF NotFound, Move, Go, LockMove, MutationNeeded, MutationSteps, Holds, locks
  <2>7. LockMove(lifecycle, t, step[t], "exit", LifecycleNeeded)
    BY <1>4, <1>q, <2>1 DEF NotFound, Move, Go, LockMove, LifecycleNeeded, RequestSteps, MutationSteps, Holds, locks
  <2>8. GateMove(step[t], "exit")
    BY <1>4, <1>q, <2>1 DEF NotFound, Move, Go, GateMove, ReadingSteps, MutatingSteps, Excludes, Mutating, gate, TypeOK
  <2> QED
    BY <2>1, <2>2, <2>4, <2>5, <2>6, <2>7, <2>8, LocksKept
<1>5. ASSUME NEW t \in Requests, Maint(t) PROVE LockInv'
  <2>1. t \in Threads /\ step' = [step EXCEPT ![t] = "write"] /\ step[t] = "route"
    BY <1>5, <1>q DEF Maint, Handle, Move, Go
  <2>2. "write" \in StepsOf(t) /\ "write" \in Steps
    BY <1>q DEF StepsOf, RequestSteps, MutationSteps, Steps
  <2>4. TypeOK'
    BY <1>5, <1>q, <2>1, <2>2 DEF Maint, Handle, Move, Go, TypeOK, locks, gate, data
  <2>5. WorkerBusy'
    BY <1>5, <1>q, <2>1 DEF Maint, Handle, Move, Go, WorkerBusy, TypeOK, StepsApart, gate, data
  <2>6. LockMove(mutation, t, step[t], "write", MutationNeeded)
    BY <1>5, <1>q, <2>1 DEF Maint, Handle, Move, Go, LockMove, MutationNeeded, MutationSteps, Holds, locks
  <2>7. LockMove(lifecycle, t, step[t], "write", LifecycleNeeded)
    BY <1>5, <1>q, <2>1 DEF Maint, Handle, Move, Go, LockMove, LifecycleNeeded, RequestSteps, MutationSteps, Holds, locks
  <2>8. GateMove(step[t], "write")
    BY <1>5, <1>q, <2>1 DEF Maint, Handle, Move, Go, GateMove, ReadingSteps, MutatingSteps, Excludes, Mutating, gate, TypeOK
  <2> QED
    BY <2>1, <2>2, <2>4, <2>5, <2>6, <2>7, <2>8, LocksKept
<1>6. ASSUME NEW t \in Requests, MaintWrite(t) PROVE LockInv'
  <2>1. t \in Threads /\ step' = [step EXCEPT ![t] = "exit"] /\ step[t] = "write"
    BY <1>6, <1>q DEF MaintWrite, Move, Go
  <2>2. "exit" \in StepsOf(t) /\ "exit" \in Steps
    BY <1>q DEF StepsOf, RequestSteps, MutationSteps, Steps
  <2>4. TypeOK'
    BY <1>6, <1>q, <2>1, <2>2 DEF MaintWrite, Move, Go, TypeOK, locks, gate, data
  <2>5. WorkerBusy'
    BY <1>6, <1>q, <2>1 DEF MaintWrite, Move, Go, WorkerBusy, TypeOK, StepsApart, gate, data
  <2>6. LockMove(mutation, t, step[t], "exit", MutationNeeded)
    BY <1>6, <1>q, <2>1 DEF MaintWrite, Move, Go, LockMove, MutationNeeded, MutationSteps, Holds, locks
  <2>7. LockMove(lifecycle, t, step[t], "exit", LifecycleNeeded)
    BY <1>6, <1>q, <2>1 DEF MaintWrite, Move, Go, LockMove, LifecycleNeeded, RequestSteps, MutationSteps, Holds, locks
  <2>8. GateMove(step[t], "exit")
    BY <1>6, <1>q, <2>1 DEF MaintWrite, Move, Go, GateMove, ReadingSteps, MutatingSteps, Excludes, Mutating, gate, TypeOK
  <2> QED
    BY <2>1, <2>2, <2>4, <2>5, <2>6, <2>7, <2>8, LocksKept
<1>7. ASSUME NEW t \in Requests, Submit(t) PROVE LockInv'
  <2>1. t \in Threads /\ step' = [step EXCEPT ![t] = "exit"] /\ step[t] = "route"
    BY <1>7, <1>q DEF Submit, AcceptJob, Handle, Move, Go
  <2>2. "exit" \in StepsOf(t) /\ "exit" \in Steps
    BY <1>q DEF StepsOf, RequestSteps, MutationSteps, Steps
  <2>c. AcceptJob \/ UNCHANGED data
    BY <1>7, <1>q DEF Submit
  <2>a. jobs' \in Nat /\ jobs' >= jobs /\ UNCHANGED <<bundle, tree, cache, answer>>
    BY <2>c DEF AcceptJob, TypeOK, data
  <2>4. TypeOK'
    BY <1>7, <1>q, <2>1, <2>2, <2>a DEF Submit, AcceptJob, Handle, Move, Go, TypeOK, locks, gate, data
  <2>5. WorkerBusy'
    BY <1>7, <1>q, <2>1, <2>a DEF Submit, AcceptJob, Handle, Move, Go, WorkerBusy, TypeOK, StepsApart, gate, data
  <2>6. LockMove(mutation, t, step[t], "exit", MutationNeeded)
    BY <1>7, <1>q, <2>1 DEF Submit, AcceptJob, Handle, Move, Go, LockMove, MutationNeeded, MutationSteps, Holds, locks
  <2>7. LockMove(lifecycle, t, step[t], "exit", LifecycleNeeded)
    BY <1>7, <1>q, <2>1 DEF Submit, AcceptJob, Handle, Move, Go, LockMove, LifecycleNeeded, RequestSteps, MutationSteps, Holds, locks
  <2>8. GateMove(step[t], "exit")
    BY <1>7, <1>q, <2>1 DEF Submit, AcceptJob, Handle, Move, Go, GateMove, ReadingSteps, MutatingSteps, Excludes, Mutating, gate, TypeOK
  <2> QED
    BY <2>1, <2>2, <2>4, <2>5, <2>6, <2>7, <2>8, LocksKept
<1>8. ASSUME NEW t \in Requests, Audit(t) PROVE LockInv'
  <2>1. t \in Threads /\ step' = [step EXCEPT ![t] = "auditing"] /\ step[t] = "route"
    BY <1>8, <1>q DEF Audit, EnterRead, Move, Go
  <2>2. "auditing" \in StepsOf(t) /\ "auditing" \in Steps
    BY <1>q DEF StepsOf, RequestSteps, MutationSteps, Steps
  <2>4. TypeOK'
    BY <1>8, <1>q, <2>1, <2>2 DEF Audit, EnterRead, Move, Go, TypeOK, locks, gate, data
  <2>5. WorkerBusy'
    BY <1>8, <1>q, <2>1 DEF Audit, EnterRead, Move, Go, WorkerBusy, TypeOK, StepsApart, gate, data
  <2>6. LockMove(mutation, t, step[t], "auditing", MutationNeeded)
    BY <1>8, <1>q, <2>1 DEF Audit, EnterRead, Move, Go, LockMove, MutationNeeded, MutationSteps, Holds, locks
  <2>7. LockMove(lifecycle, t, step[t], "auditing", LifecycleNeeded)
    BY <1>8, <1>q, <2>1 DEF Audit, EnterRead, Move, Go, LockMove, LifecycleNeeded, RequestSteps, MutationSteps, Holds, locks
  <2>8. GateMove(step[t], "auditing")
    BY <1>8, <1>q, <2>1 DEF Audit, EnterRead, Move, Go, GateMove, ReadingSteps, MutatingSteps, Excludes, Mutating, gate, TypeOK
  <2> QED
    BY <2>1, <2>2, <2>4, <2>5, <2>6, <2>7, <2>8, LocksKept
<1>9. ASSUME NEW t \in Requests, AuditQueued(t) PROVE LockInv'
  <2>1. t \in Threads /\ step' = [step EXCEPT ![t] = "exit"] /\ step[t] = "auditing"
    BY <1>9, <1>q DEF AuditQueued, AcceptJob, LeaveRead, Move, Go
  <2>2. "exit" \in StepsOf(t) /\ "exit" \in Steps
    BY <1>q DEF StepsOf, RequestSteps, MutationSteps, Steps
  <2>0. Cardinality(Reading) > 0
    BY <2>1, <2>2, ReadersMove DEF ReadingSteps, StepsApart
  <2>3. readers > 0 /\ ~active
    BY <2>0 DEF Excludes
  <2>c. AcceptJob \/ UNCHANGED data
    BY <1>9, <1>q DEF AuditQueued
  <2>a. jobs' \in Nat /\ jobs' >= jobs /\ UNCHANGED <<bundle, tree, cache, answer>>
    BY <2>c DEF AcceptJob, TypeOK, data
  <2>4. TypeOK'
    BY <1>9, <1>q, <2>1, <2>2, <2>3, <2>a DEF AuditQueued, AcceptJob, LeaveRead, Move, Go, TypeOK, locks, gate, data
  <2>5. WorkerBusy'
    BY <1>9, <1>q, <2>1, <2>a DEF AuditQueued, AcceptJob, LeaveRead, Move, Go, WorkerBusy, TypeOK, StepsApart, gate, data
  <2>6. LockMove(mutation, t, step[t], "exit", MutationNeeded)
    BY <1>9, <1>q, <2>1 DEF AuditQueued, AcceptJob, LeaveRead, Move, Go, LockMove, MutationNeeded, MutationSteps, Holds, locks
  <2>7. LockMove(lifecycle, t, step[t], "exit", LifecycleNeeded)
    BY <1>9, <1>q, <2>1 DEF AuditQueued, AcceptJob, LeaveRead, Move, Go, LockMove, LifecycleNeeded, RequestSteps, MutationSteps, Holds, locks
  <2>8. GateMove(step[t], "exit")
    BY <1>9, <1>q, <2>1, <2>3 DEF AuditQueued, AcceptJob, LeaveRead, Move, Go, GateMove, ReadingSteps, MutatingSteps, Excludes, Mutating, gate, TypeOK
  <2> QED
    BY <2>1, <2>2, <2>4, <2>5, <2>6, <2>7, <2>8, LocksKept
<1>10. ASSUME NEW t \in Requests, AuditBusy(t) PROVE LockInv'
  <2>1. t \in Threads /\ step' = [step EXCEPT ![t] = "exit"] /\ step[t] = "route"
    BY <1>10, <1>q DEF AuditBusy, AcceptJob, Handle, Move, Go
  <2>2. "exit" \in StepsOf(t) /\ "exit" \in Steps
    BY <1>q DEF StepsOf, RequestSteps, MutationSteps, Steps
  <2>c. AcceptJob \/ UNCHANGED data
    BY <1>10, <1>q DEF AuditBusy
  <2>a. jobs' \in Nat /\ jobs' >= jobs /\ UNCHANGED <<bundle, tree, cache, answer>>
    BY <2>c DEF AcceptJob, TypeOK, data
  <2>4. TypeOK'
    BY <1>10, <1>q, <2>1, <2>2, <2>a DEF AuditBusy, AcceptJob, Handle, Move, Go, TypeOK, locks, gate, data
  <2>5. WorkerBusy'
    BY <1>10, <1>q, <2>1, <2>a DEF AuditBusy, AcceptJob, Handle, Move, Go, WorkerBusy, TypeOK, StepsApart, gate, data
  <2>6. LockMove(mutation, t, step[t], "exit", MutationNeeded)
    BY <1>10, <1>q, <2>1 DEF AuditBusy, AcceptJob, Handle, Move, Go, LockMove, MutationNeeded, MutationSteps, Holds, locks
  <2>7. LockMove(lifecycle, t, step[t], "exit", LifecycleNeeded)
    BY <1>10, <1>q, <2>1 DEF AuditBusy, AcceptJob, Handle, Move, Go, LockMove, LifecycleNeeded, RequestSteps, MutationSteps, Holds, locks
  <2>8. GateMove(step[t], "exit")
    BY <1>10, <1>q, <2>1 DEF AuditBusy, AcceptJob, Handle, Move, Go, GateMove, ReadingSteps, MutatingSteps, Excludes, Mutating, gate, TypeOK
  <2> QED
    BY <2>1, <2>2, <2>4, <2>5, <2>6, <2>7, <2>8, LocksKept
<1>11. ASSUME NEW t \in Requests, Create(t) PROVE LockInv'
  <2>1. t \in Threads /\ step' = [step EXCEPT ![t] = "try"] /\ step[t] = "route"
    BY <1>11, <1>q DEF Create, Handle, Move, Go
  <2>2. "try" \in StepsOf(t) /\ "try" \in Steps
    BY <1>q DEF StepsOf, RequestSteps, MutationSteps, Steps
  <2>4. TypeOK'
    BY <1>11, <1>q, <2>1, <2>2 DEF Create, Handle, Move, Go, TypeOK, locks, gate, data
  <2>5. WorkerBusy'
    BY <1>11, <1>q, <2>1 DEF Create, Handle, Move, Go, WorkerBusy, TypeOK, StepsApart, gate, data
  <2>6. LockMove(mutation, t, step[t], "try", MutationNeeded)
    BY <1>11, <1>q, <2>1 DEF Create, Handle, Move, Go, LockMove, MutationNeeded, MutationSteps, Holds, locks
  <2>7. LockMove(lifecycle, t, step[t], "try", LifecycleNeeded)
    BY <1>11, <1>q, <2>1 DEF Create, Handle, Move, Go, LockMove, LifecycleNeeded, RequestSteps, MutationSteps, Holds, locks
  <2>8. GateMove(step[t], "try")
    BY <1>11, <1>q, <2>1 DEF Create, Handle, Move, Go, GateMove, ReadingSteps, MutatingSteps, Excludes, Mutating, gate, TypeOK
  <2> QED
    BY <2>1, <2>2, <2>4, <2>5, <2>6, <2>7, <2>8, LocksKept
<1>12. ASSUME NEW t \in Requests, Delete(t) PROVE LockInv'
  <2>1. CASE jobs = 0
    <3>1. t \in Threads /\ step' = [step EXCEPT ![t] = "try"] /\ step[t] = "route"
      BY <1>12, <2>1, <1>q DEF Delete, Handle, Move, Go
    <3>2. "try" \in StepsOf(t) /\ "try" \in Steps
      BY <1>q DEF StepsOf, RequestSteps, MutationSteps, Steps
    <3>4. TypeOK'
      BY <1>12, <2>1, <1>q, <3>1, <3>2 DEF Delete, Handle, Move, Go, TypeOK, locks, gate, data
    <3>5. WorkerBusy'
      BY <1>12, <2>1, <1>q, <3>1 DEF Delete, Handle, Move, Go, WorkerBusy, TypeOK, StepsApart, gate, data
    <3>6. LockMove(mutation, t, step[t], "try", MutationNeeded)
      BY <1>12, <2>1, <1>q, <3>1 DEF Delete, Handle, Move, Go, LockMove, MutationNeeded, MutationSteps, Holds, locks
    <3>7. LockMove(lifecycle, t, step[t], "try", LifecycleNeeded)
      BY <1>12, <2>1, <1>q, <3>1 DEF Delete, Handle, Move, Go, LockMove, LifecycleNeeded, RequestSteps, MutationSteps, Holds, locks
    <3>8. GateMove(step[t], "try")
      BY <1>12, <2>1, <1>q, <3>1 DEF Delete, Handle, Move, Go, GateMove, ReadingSteps, MutatingSteps, Excludes, Mutating, gate, TypeOK
    <3> QED
      BY <3>1, <3>2, <3>4, <3>5, <3>6, <3>7, <3>8, LocksKept
  <2>2. CASE jobs # 0
    <3>1. t \in Threads /\ step' = [step EXCEPT ![t] = "exit"] /\ step[t] = "route"
      BY <1>12, <2>2, <1>q DEF Delete, Handle, Move, Go
    <3>2. "exit" \in StepsOf(t) /\ "exit" \in Steps
      BY <1>q DEF StepsOf, RequestSteps, MutationSteps, Steps
    <3>4. TypeOK'
      BY <1>12, <2>2, <1>q, <3>1, <3>2 DEF Delete, Handle, Move, Go, TypeOK, locks, gate, data
    <3>5. WorkerBusy'
      BY <1>12, <2>2, <1>q, <3>1 DEF Delete, Handle, Move, Go, WorkerBusy, TypeOK, StepsApart, gate, data
    <3>6. LockMove(mutation, t, step[t], "exit", MutationNeeded)
      BY <1>12, <2>2, <1>q, <3>1 DEF Delete, Handle, Move, Go, LockMove, MutationNeeded, MutationSteps, Holds, locks
    <3>7. LockMove(lifecycle, t, step[t], "exit", LifecycleNeeded)
      BY <1>12, <2>2, <1>q, <3>1 DEF Delete, Handle, Move, Go, LockMove, LifecycleNeeded, RequestSteps, MutationSteps, Holds, locks
    <3>8. GateMove(step[t], "exit")
      BY <1>12, <2>2, <1>q, <3>1 DEF Delete, Handle, Move, Go, GateMove, ReadingSteps, MutatingSteps, Excludes, Mutating, gate, TypeOK
    <3> QED
      BY <3>1, <3>2, <3>4, <3>5, <3>6, <3>7, <3>8, LocksKept
  <2> QED
    BY <1>12, <2>1, <2>2 DEF Delete, Handle, Move, Go
<1>13. ASSUME NEW t \in Requests, TryMutation(t) PROVE LockInv'
  <2>1. CASE mutation = Nobody
    <3>1. t \in Threads /\ step' = [step EXCEPT ![t] = "announce"] /\ step[t] = "try"
      BY <1>13, <2>1, <1>q DEF TryMutation, Move, Go
    <3>2. "announce" \in StepsOf(t) /\ "announce" \in Steps
      BY <1>q DEF StepsOf, RequestSteps, MutationSteps, Steps
    <3>4. TypeOK'
      BY <1>13, <2>1, <1>q, <3>1, <3>2 DEF TryMutation, Move, Go, TypeOK, locks, gate, data
    <3>5. WorkerBusy'
      BY <1>13, <2>1, <1>q, <3>1 DEF TryMutation, Move, Go, WorkerBusy, TypeOK, StepsApart, gate, data
    <3>6. LockMove(mutation, t, step[t], "announce", MutationNeeded)
      BY <1>13, <2>1, <1>q, <3>1 DEF TryMutation, Move, Go, LockMove, MutationNeeded, MutationSteps, Holds, locks
    <3>7. LockMove(lifecycle, t, step[t], "announce", LifecycleNeeded)
      BY <1>13, <2>1, <1>q, <3>1 DEF TryMutation, Move, Go, LockMove, LifecycleNeeded, RequestSteps, MutationSteps, Holds, locks
    <3>8. GateMove(step[t], "announce")
      BY <1>13, <2>1, <1>q, <3>1 DEF TryMutation, Move, Go, GateMove, ReadingSteps, MutatingSteps, Excludes, Mutating, gate, TypeOK
    <3> QED
      BY <3>1, <3>2, <3>4, <3>5, <3>6, <3>7, <3>8, LocksKept
  <2>2. CASE mutation # Nobody
    <3>1. t \in Threads /\ step' = [step EXCEPT ![t] = "exit"] /\ step[t] = "try"
      BY <1>13, <2>2, <1>q DEF TryMutation, Move, Go
    <3>2. "exit" \in StepsOf(t) /\ "exit" \in Steps
      BY <1>q DEF StepsOf, RequestSteps, MutationSteps, Steps
    <3>4. TypeOK'
      BY <1>13, <2>2, <1>q, <3>1, <3>2 DEF TryMutation, Move, Go, TypeOK, locks, gate, data
    <3>5. WorkerBusy'
      BY <1>13, <2>2, <1>q, <3>1 DEF TryMutation, Move, Go, WorkerBusy, TypeOK, StepsApart, gate, data
    <3>6. LockMove(mutation, t, step[t], "exit", MutationNeeded)
      BY <1>13, <2>2, <1>q, <3>1 DEF TryMutation, Move, Go, LockMove, MutationNeeded, MutationSteps, Holds, locks
    <3>7. LockMove(lifecycle, t, step[t], "exit", LifecycleNeeded)
      BY <1>13, <2>2, <1>q, <3>1 DEF TryMutation, Move, Go, LockMove, LifecycleNeeded, RequestSteps, MutationSteps, Holds, locks
    <3>8. GateMove(step[t], "exit")
      BY <1>13, <2>2, <1>q, <3>1 DEF TryMutation, Move, Go, GateMove, ReadingSteps, MutatingSteps, Excludes, Mutating, gate, TypeOK
    <3> QED
      BY <3>1, <3>2, <3>4, <3>5, <3>6, <3>7, <3>8, LocksKept
  <2> QED
    BY <1>13, <2>1, <2>2 DEF TryMutation, Move, Go
<1>14. ASSUME NEW t \in Requests, Scaffold(t) PROVE LockInv'
  <2>1. t \in Threads /\ step' = [step EXCEPT ![t] = "drop"] /\ step[t] = "mutate"
    BY <1>14, <1>q DEF Scaffold, Go
  <2>2. "drop" \in StepsOf(t) /\ "drop" \in Steps
    BY <1>q DEF StepsOf, RequestSteps, MutationSteps, Steps
  <2>3. undone' \in BOOLEAN /\ route' \in [Requests -> Routes \cup {Undo}]
    BY <1>14 DEF Scaffold, TypeOK
  <2>10. tree' \in Nat /\ bundle' \in BOOLEAN
    BY <1>14 DEF Scaffold, TypeOK
  <2>4. TypeOK'
    BY <1>14, <1>q, <2>1, <2>2, <2>3, <2>10 DEF Scaffold, Go, TypeOK, locks, gate
  <2>5. WorkerBusy'
    BY <1>14, <1>q, <2>1 DEF Scaffold, Go, WorkerBusy, TypeOK, StepsApart, gate, data
  <2>6. LockMove(mutation, t, step[t], "drop", MutationNeeded)
    BY <1>14, <1>q, <2>1 DEF Scaffold, Go, LockMove, MutationNeeded, MutationSteps, Holds, locks
  <2>7. LockMove(lifecycle, t, step[t], "drop", LifecycleNeeded)
    BY <1>14, <1>q, <2>1 DEF Scaffold, Go, LockMove, LifecycleNeeded, RequestSteps, MutationSteps, Holds, locks
  <2>8. GateMove(step[t], "drop")
    BY <1>14, <1>q, <2>1 DEF Scaffold, Go, GateMove, ReadingSteps, MutatingSteps, Excludes, Mutating, gate, TypeOK
  <2> QED
    BY <2>1, <2>2, <2>4, <2>5, <2>6, <2>7, <2>8, LocksKept
<1>15. ASSUME NEW t \in Requests, CleanUp(t) PROVE LockInv'
  <2>1. t \in Threads /\ step' = [step EXCEPT ![t] = "idle"] /\ step[t] = "cleanup"
    BY <1>15, <1>q DEF CleanUp, Move, Go
  <2>2. "idle" \in StepsOf(t) /\ "idle" \in Steps
    BY <1>q DEF StepsOf, RequestSteps, MutationSteps, Steps
  <2>b. pending' \in BOOLEAN /\ active' \in BOOLEAN /\ bundle' \in BOOLEAN
    BY <1>15, <1>q, Zenon DEF CleanUp, Move, Go, TypeOK, gate, data
  <2>4. TypeOK'
    BY <1>15, <1>q, <2>1, <2>2, <2>b DEF CleanUp, Move, Go, TypeOK, locks, gate, data
  <2>5. WorkerBusy'
    BY <1>15, <1>q, <2>1 DEF CleanUp, Move, Go, WorkerBusy, TypeOK, StepsApart, gate, data
  <2>6. LockMove(mutation, t, step[t], "idle", MutationNeeded)
    BY <1>15, <1>q, <2>1 DEF CleanUp, Move, Go, LockMove, MutationNeeded, MutationSteps, Holds, locks
  <2>7. LockMove(lifecycle, t, step[t], "idle", LifecycleNeeded)
    BY <1>15, <1>q, <2>1 DEF CleanUp, Move, Go, LockMove, LifecycleNeeded, RequestSteps, MutationSteps, Holds, locks
  <2>8. GateMove(step[t], "idle")
    BY <1>15, <1>q, <2>1 DEF CleanUp, Move, Go, GateMove, ReadingSteps, MutatingSteps, Excludes, Mutating, gate, TypeOK
  <2> QED
    BY <2>1, <2>2, <2>4, <2>5, <2>6, <2>7, <2>8, LocksKept
<1>16. ASSUME NEW t \in Requests, Exit(t) PROVE LockInv'
  <2>1. CASE route[t] = Undo
    <3>1. t \in Threads /\ step' = [step EXCEPT ![t] = "cleanup"] /\ step[t] = "exit"
      BY <1>16, <2>1, <1>q DEF Exit, Move, Go
    <3>2. "cleanup" \in StepsOf(t) /\ "cleanup" \in Steps
      BY <1>q DEF StepsOf, RequestSteps, MutationSteps, Steps
    <3>4. TypeOK'
      BY <1>16, <2>1, <1>q, <3>1, <3>2 DEF Exit, Move, Go, TypeOK, locks, gate, data
    <3>5. WorkerBusy'
      BY <1>16, <2>1, <1>q, <3>1 DEF Exit, Move, Go, WorkerBusy, TypeOK, StepsApart, gate, data
    <3>6. LockMove(mutation, t, step[t], "cleanup", MutationNeeded)
      BY <1>16, <2>1, <1>q, <3>1 DEF Exit, Move, Go, LockMove, MutationNeeded, MutationSteps, Holds, locks
    <3>7. LockMove(lifecycle, t, step[t], "cleanup", LifecycleNeeded)
      BY <1>16, <2>1, <1>q, <3>1 DEF Exit, Move, Go, LockMove, LifecycleNeeded, RequestSteps, MutationSteps, Holds, locks
    <3>8. GateMove(step[t], "cleanup")
      BY <1>16, <2>1, <1>q, <3>1 DEF Exit, Move, Go, GateMove, ReadingSteps, MutatingSteps, Excludes, Mutating, gate, TypeOK
    <3> QED
      BY <3>1, <3>2, <3>4, <3>5, <3>6, <3>7, <3>8, LocksKept
  <2>2. CASE route[t] # Undo
    <3>1. t \in Threads /\ step' = [step EXCEPT ![t] = "idle"] /\ step[t] = "exit"
      BY <1>16, <2>2, <1>q DEF Exit, Move, Go
    <3>2. "idle" \in StepsOf(t) /\ "idle" \in Steps
      BY <1>q DEF StepsOf, RequestSteps, MutationSteps, Steps
    <3>4. TypeOK'
      BY <1>16, <2>2, <1>q, <3>1, <3>2 DEF Exit, Move, Go, TypeOK, locks, gate, data
    <3>5. WorkerBusy'
      BY <1>16, <2>2, <1>q, <3>1 DEF Exit, Move, Go, WorkerBusy, TypeOK, StepsApart, gate, data
    <3>6. LockMove(mutation, t, step[t], "idle", MutationNeeded)
      BY <1>16, <2>2, <1>q, <3>1 DEF Exit, Move, Go, LockMove, MutationNeeded, MutationSteps, Holds, locks
    <3>7. LockMove(lifecycle, t, step[t], "idle", LifecycleNeeded)
      BY <1>16, <2>2, <1>q, <3>1 DEF Exit, Move, Go, LockMove, LifecycleNeeded, RequestSteps, MutationSteps, Holds, locks
    <3>8. GateMove(step[t], "idle")
      BY <1>16, <2>2, <1>q, <3>1 DEF Exit, Move, Go, GateMove, ReadingSteps, MutatingSteps, Excludes, Mutating, gate, TypeOK
    <3> QED
      BY <3>1, <3>2, <3>4, <3>5, <3>6, <3>7, <3>8, LocksKept
  <2> QED
    BY <1>16, <2>1, <2>2 DEF Exit, Move, Go
<1>17. ASSUME NEW t \in Requests \cup {Worker}, Announce(t) PROVE LockInv'
  <2>1. t \in Threads /\ step' = [step EXCEPT ![t] = "drain"] /\ step[t] = "announce"
    BY <1>17, <1>m DEF Announce, Move, Go
  <2>2. "drain" \in StepsOf(t) /\ "drain" \in Steps
    BY <1>m DEF StepsOf, RequestSteps, WorkerSteps, MutationSteps, Steps
  <2>4. TypeOK'
    BY <1>17, <1>m, <2>1, <2>2 DEF Announce, Move, Go, TypeOK, locks, gate, data
  <2>5. WorkerBusy'
    BY <1>17, <1>m, <2>1 DEF Announce, Move, Go, WorkerBusy, TypeOK, StepsApart, gate, data
  <2>6. LockMove(mutation, t, step[t], "drain", MutationNeeded)
    BY <1>17, <1>m, <2>1 DEF Announce, Move, Go, LockMove, MutationNeeded, MutationSteps, Holds, locks
  <2>7. /\ lifecycle' = lifecycle
        /\ t \in Requests => LockMove(lifecycle, t, step[t], "drain", LifecycleNeeded)
    BY <1>17, <1>m, <2>1 DEF Announce, Move, Go, LockMove, LifecycleNeeded, RequestSteps, MutationSteps, Holds, locks
  <2>8. GateMove(step[t], "drain")
    BY <1>17, <1>m, <2>1 DEF Announce, Move, Go, GateMove, ReadingSteps, MutatingSteps, Excludes, Mutating, gate, TypeOK
  <2> QED
    BY <2>1, <2>2, <2>4, <2>5, <2>6, <2>7, <2>8, LocksKept
<1>18. ASSUME NEW t \in Requests \cup {Worker}, Drain(t) PROVE LockInv'
  <2>1. t \in Threads /\ step' = [step EXCEPT ![t] = "mutate"] /\ step[t] = "drain"
    BY <1>18, <1>m DEF Drain, Move, Go
  <2>2. "mutate" \in StepsOf(t) /\ "mutate" \in Steps
    BY <1>m DEF StepsOf, RequestSteps, WorkerSteps, MutationSteps, Steps
  <2>b. pending' \in BOOLEAN /\ active' \in BOOLEAN /\ bundle' \in BOOLEAN
    BY <1>18, <1>m, Zenon DEF Drain, Move, Go, TypeOK, gate, data
  <2>4. TypeOK'
    BY <1>18, <1>m, <2>1, <2>2, <2>b DEF Drain, Move, Go, TypeOK, locks, gate, data
  <2>5. WorkerBusy'
    BY <1>18, <1>m, <2>1 DEF Drain, Move, Go, WorkerBusy, TypeOK, StepsApart, gate, data
  <2>6. LockMove(mutation, t, step[t], "mutate", MutationNeeded)
    BY <1>18, <1>m, <2>1 DEF Drain, Move, Go, LockMove, MutationNeeded, MutationSteps, Holds, locks
  <2>7. /\ lifecycle' = lifecycle
        /\ t \in Requests => LockMove(lifecycle, t, step[t], "mutate", LifecycleNeeded)
    BY <1>18, <1>m, <2>1 DEF Drain, Move, Go, LockMove, LifecycleNeeded, RequestSteps, MutationSteps, Holds, locks
  <2>8. GateMove(step[t], "mutate")
    BY <1>18, <1>m, <2>1 DEF Drain, Move, Go, GateMove, ReadingSteps, MutatingSteps, Excludes, Mutating, gate, TypeOK
  <2> QED
    BY <2>1, <2>2, <2>4, <2>5, <2>6, <2>7, <2>8, LocksKept
<1>19. ASSUME NEW t \in Requests \cup {Worker}, Drop(t) PROVE LockInv'
  <2>1. t \in Threads /\ step' = [step EXCEPT ![t] = "open"] /\ step[t] = "drop"
    BY <1>19, <1>m DEF Drop, Move, Go
  <2>2. "open" \in StepsOf(t) /\ "open" \in Steps
    BY <1>m DEF StepsOf, RequestSteps, WorkerSteps, MutationSteps, Steps
  <2>4. TypeOK'
    BY <1>19, <1>m, <2>1, <2>2 DEF Drop, Move, Go, TypeOK, locks, gate, data
  <2>5. WorkerBusy'
    BY <1>19, <1>m, <2>1 DEF Drop, Move, Go, WorkerBusy, TypeOK, StepsApart, gate, data
  <2>6. LockMove(mutation, t, step[t], "open", MutationNeeded)
    BY <1>19, <1>m, <2>1 DEF Drop, Move, Go, LockMove, MutationNeeded, MutationSteps, Holds, locks
  <2>7. /\ lifecycle' = lifecycle
        /\ t \in Requests => LockMove(lifecycle, t, step[t], "open", LifecycleNeeded)
    BY <1>19, <1>m, <2>1 DEF Drop, Move, Go, LockMove, LifecycleNeeded, RequestSteps, MutationSteps, Holds, locks
  <2>8. GateMove(step[t], "open")
    BY <1>19, <1>m, <2>1 DEF Drop, Move, Go, GateMove, ReadingSteps, MutatingSteps, Excludes, Mutating, gate, TypeOK
  <2> QED
    BY <2>1, <2>2, <2>4, <2>5, <2>6, <2>7, <2>8, LocksKept
<1>20. ASSUME NEW t \in Requests \cup {Worker}, Open(t) PROVE LockInv'
  <2>1. t \in Threads /\ step' = [step EXCEPT ![t] = "release"] /\ step[t] = "open"
    BY <1>20, <1>m DEF Open, Move, Go
  <2>2. "release" \in StepsOf(t) /\ "release" \in Steps
    BY <1>m DEF StepsOf, RequestSteps, WorkerSteps, MutationSteps, Steps
  <2>b. pending' \in BOOLEAN /\ active' \in BOOLEAN /\ bundle' \in BOOLEAN
    BY <1>20, <1>m, Zenon DEF Open, Move, Go, TypeOK, gate, data
  <2>4. TypeOK'
    BY <1>20, <1>m, <2>1, <2>2, <2>b DEF Open, Move, Go, TypeOK, locks, gate, data
  <2>5. WorkerBusy'
    BY <1>20, <1>m, <2>1 DEF Open, Move, Go, WorkerBusy, TypeOK, StepsApart, gate, data
  <2>6. LockMove(mutation, t, step[t], "release", MutationNeeded)
    BY <1>20, <1>m, <2>1 DEF Open, Move, Go, LockMove, MutationNeeded, MutationSteps, Holds, locks
  <2>7. /\ lifecycle' = lifecycle
        /\ t \in Requests => LockMove(lifecycle, t, step[t], "release", LifecycleNeeded)
    BY <1>20, <1>m, <2>1 DEF Open, Move, Go, LockMove, LifecycleNeeded, RequestSteps, MutationSteps, Holds, locks
  <2>8. GateMove(step[t], "release")
    BY <1>20, <1>m, <2>1 DEF Open, Move, Go, GateMove, ReadingSteps, MutatingSteps, Excludes, Mutating, gate, TypeOK
  <2> QED
    BY <2>1, <2>2, <2>4, <2>5, <2>6, <2>7, <2>8, LocksKept
<1>21. ASSUME NEW t \in Requests, Release(t) PROVE LockInv'
  <2>1. t \in Threads /\ step' = [step EXCEPT ![t] = "exit"] /\ step[t] = "release"
    BY <1>21, <1>q DEF Release, Move, Go
  <2>2. "exit" \in StepsOf(t) /\ "exit" \in Steps
    BY <1>q DEF StepsOf, RequestSteps, MutationSteps, Steps
  <2>4. TypeOK'
    BY <1>21, <1>q, <2>1, <2>2 DEF Release, Move, Go, TypeOK, locks, gate, data
  <2>5. WorkerBusy'
    BY <1>21, <1>q, <2>1 DEF Release, Move, Go, WorkerBusy, TypeOK, StepsApart, gate, data
  <2>6. LockMove(mutation, t, step[t], "exit", MutationNeeded)
    BY <1>21, <1>q, <2>1 DEF Release, Move, Go, LockMove, MutationNeeded, MutationSteps, Holds, locks
  <2>7. LockMove(lifecycle, t, step[t], "exit", LifecycleNeeded)
    BY <1>21, <1>q, <2>1 DEF Release, Move, Go, LockMove, LifecycleNeeded, RequestSteps, MutationSteps, Holds, locks
  <2>8. GateMove(step[t], "exit")
    BY <1>21, <1>q, <2>1 DEF Release, Move, Go, GateMove, ReadingSteps, MutatingSteps, Excludes, Mutating, gate, TypeOK
  <2> QED
    BY <2>1, <2>2, <2>4, <2>5, <2>6, <2>7, <2>8, LocksKept
<1>22. ASSUME NEW t \in Requests, \E r \in Routes : Enter(t, r) PROVE LockInv'
  <2>1. t \in Threads /\ step' = [step EXCEPT ![t] = "route"] /\ step[t] = "idle"
    BY <1>22, <1>q DEF Enter, Go
  <2>2. "route" \in StepsOf(t) /\ "route" \in Steps
    BY <1>q DEF StepsOf, RequestSteps, MutationSteps, Steps
  <2>4. TypeOK'
    BY <1>22, <1>q, <2>1, <2>2 DEF Enter, Go, TypeOK, Routes, locks, gate, data
  <2>5. WorkerBusy'
    BY <1>22, <1>q, <2>1 DEF Enter, Go, WorkerBusy, TypeOK, StepsApart, gate, data
  <2>6. LockMove(mutation, t, step[t], "route", MutationNeeded)
    BY <1>22, <1>q, <2>1 DEF Enter, Go, LockMove, MutationNeeded, MutationSteps, Holds, locks
  <2>7. LockMove(lifecycle, t, step[t], "route", LifecycleNeeded)
    BY <1>22, <1>q, <2>1 DEF Enter, Go, LockMove, LifecycleNeeded, RequestSteps, MutationSteps, Holds, locks
  <2>8. GateMove(step[t], "route")
    BY <1>22, <1>q, <2>1 DEF Enter, Go, GateMove, ReadingSteps, MutatingSteps, Excludes, Mutating, gate, TypeOK
  <2> QED
    BY <2>1, <2>2, <2>4, <2>5, <2>6, <2>7, <2>8, LocksKept
<1>23. ASSUME TakeJob PROVE LockInv'
  <2>1. Worker \in Threads /\ step' = [step EXCEPT ![Worker] = "acquire"] /\ step[Worker] = "idle"
    BY <1>23, <1>w DEF TakeJob, Move, Go
  <2>2. "acquire" \in StepsOf(Worker) /\ "acquire" \in Steps
    BY <1>w DEF StepsOf, WorkerSteps, MutationSteps, Steps
  <2>4. TypeOK'
    BY <1>23, <1>w, <2>1, <2>2 DEF TakeJob, Move, Go, TypeOK, locks, gate, data
  <2>5. WorkerBusy'
    BY <1>23, <1>w, <2>1 DEF TakeJob, Move, Go, WorkerBusy, TypeOK, StepsApart, gate, data
  <2>6. LockMove(mutation, Worker, step[Worker], "acquire", MutationNeeded)
    BY <1>23, <1>w, <2>1 DEF TakeJob, Move, Go, LockMove, MutationNeeded, MutationSteps, Holds, locks
  <2>7. lifecycle' = lifecycle /\ Worker \notin Requests
    BY <1>23, <1>w DEF TakeJob, Move, Go, locks
  <2>8. GateMove(step[Worker], "acquire")
    BY <1>23, <1>w, <2>1 DEF TakeJob, Move, Go, GateMove, ReadingSteps, MutatingSteps, Excludes, Mutating, gate, TypeOK
  <2> QED
    BY <2>1, <2>2, <2>4, <2>5, <2>6, <2>7, <2>8, LocksKept
<1>24. ASSUME Acquire PROVE LockInv'
  <2>1. Worker \in Threads /\ step' = [step EXCEPT ![Worker] = "announce"] /\ step[Worker] = "acquire"
    BY <1>24, <1>w DEF Acquire, Move, Go
  <2>2. "announce" \in StepsOf(Worker) /\ "announce" \in Steps
    BY <1>w DEF StepsOf, WorkerSteps, MutationSteps, Steps
  <2>4. TypeOK'
    BY <1>24, <1>w, <2>1, <2>2 DEF Acquire, Move, Go, TypeOK, locks, gate, data
  <2>5. WorkerBusy'
    BY <1>24, <1>w, <2>1 DEF Acquire, Move, Go, WorkerBusy, TypeOK, StepsApart, gate, data
  <2>6. LockMove(mutation, Worker, step[Worker], "announce", MutationNeeded)
    BY <1>24, <1>w, <2>1 DEF Acquire, Move, Go, LockMove, MutationNeeded, MutationSteps, Holds, locks
  <2>7. lifecycle' = lifecycle /\ Worker \notin Requests
    BY <1>24, <1>w DEF Acquire, Move, Go, locks
  <2>8. GateMove(step[Worker], "announce")
    BY <1>24, <1>w, <2>1 DEF Acquire, Move, Go, GateMove, ReadingSteps, MutatingSteps, Excludes, Mutating, gate, TypeOK
  <2> QED
    BY <2>1, <2>2, <2>4, <2>5, <2>6, <2>7, <2>8, LocksKept
<1>25. ASSUME RunJob PROVE LockInv'
  <2>1. Worker \in Threads /\ step' = [step EXCEPT ![Worker] = "drop"] /\ step[Worker] = "mutate"
    BY <1>25, <1>w DEF RunJob, Move, Go
  <2>2. "drop" \in StepsOf(Worker) /\ "drop" \in Steps
    BY <1>w DEF StepsOf, WorkerSteps, MutationSteps, Steps
  <2>4. TypeOK'
    BY <1>25, <1>w, <2>1, <2>2 DEF RunJob, Move, Go, TypeOK, WorkerBusy, locks, gate, data
  <2>5. WorkerBusy'
    BY <1>25, <1>w, <2>1 DEF RunJob, Move, Go, WorkerBusy, TypeOK, StepsApart, gate, data
  <2>6. LockMove(mutation, Worker, step[Worker], "drop", MutationNeeded)
    BY <1>25, <1>w, <2>1 DEF RunJob, Move, Go, LockMove, MutationNeeded, MutationSteps, Holds, locks
  <2>7. lifecycle' = lifecycle /\ Worker \notin Requests
    BY <1>25, <1>w DEF RunJob, Move, Go, locks
  <2>8. GateMove(step[Worker], "drop")
    BY <1>25, <1>w, <2>1 DEF RunJob, Move, Go, GateMove, ReadingSteps, MutatingSteps, Excludes, Mutating, gate, TypeOK
  <2> QED
    BY <2>1, <2>2, <2>4, <2>5, <2>6, <2>7, <2>8, LocksKept
<1>26. ASSUME Pack PROVE LockInv'
  <2>1. CASE step[Worker] = "pack" /\ step'[Worker] = "idle"
    <3>1. Worker \in Threads /\ step' = [step EXCEPT ![Worker] = "idle"] /\ step[Worker] = "pack"
      BY <1>26, <2>1, <1>w DEF Pack, Move, Go, StepsApart
    <3>2. "idle" \in StepsOf(Worker) /\ "idle" \in Steps
      BY <1>w DEF StepsOf, WorkerSteps, MutationSteps, Steps
    <3>4. TypeOK'
      BY <1>26, <2>1, <1>w, <3>1, <3>2 DEF Pack, Move, Go, StepsApart, TypeOK, locks, gate, data
    <3>5. WorkerBusy'
      BY <1>26, <2>1, <1>w, <3>1 DEF Pack, Move, Go, StepsApart, WorkerBusy, TypeOK, StepsApart, gate, data
    <3>6. LockMove(mutation, Worker, step[Worker], "idle", MutationNeeded)
      BY <1>26, <2>1, <1>w, <3>1 DEF Pack, Move, Go, StepsApart, LockMove, MutationNeeded, MutationSteps, Holds, locks
    <3>7. lifecycle' = lifecycle /\ Worker \notin Requests
      BY <1>26, <2>1, <1>w DEF Pack, Move, Go, StepsApart, locks
    <3>8. GateMove(step[Worker], "idle")
      BY <1>26, <2>1, <1>w, <3>1 DEF Pack, Move, Go, StepsApart, GateMove, ReadingSteps, MutatingSteps, Excludes, Mutating, gate, TypeOK
    <3> QED
      BY <3>1, <3>2, <3>4, <3>5, <3>6, <3>7, <3>8, LocksKept
  <2>2. CASE step[Worker] = "pack" /\ step'[Worker] # "idle"
    <3>1. Worker \in Threads /\ step' = [step EXCEPT ![Worker] = "packing"] /\ step[Worker] = "pack"
      BY <1>26, <2>2, <1>w DEF Pack, Move, Go, StepsApart
    <3>2. "packing" \in StepsOf(Worker) /\ "packing" \in Steps
      BY <1>w DEF StepsOf, WorkerSteps, MutationSteps, Steps
    <3>4. TypeOK'
      BY <1>26, <2>2, <1>w, <3>1, <3>2 DEF Pack, Move, Go, StepsApart, TypeOK, locks, gate, data
    <3>5. WorkerBusy'
      BY <1>26, <2>2, <1>w, <3>1 DEF Pack, Move, Go, StepsApart, WorkerBusy, TypeOK, StepsApart, gate, data
    <3>6. LockMove(mutation, Worker, step[Worker], "packing", MutationNeeded)
      BY <1>26, <2>2, <1>w, <3>1 DEF Pack, Move, Go, StepsApart, LockMove, MutationNeeded, MutationSteps, Holds, locks
    <3>7. lifecycle' = lifecycle /\ Worker \notin Requests
      BY <1>26, <2>2, <1>w DEF Pack, Move, Go, StepsApart, locks
    <3>8. GateMove(step[Worker], "packing")
      BY <1>26, <2>2, <1>w, <3>1 DEF Pack, Move, Go, StepsApart, GateMove, ReadingSteps, MutatingSteps, Excludes, Mutating, gate, TypeOK
    <3> QED
      BY <3>1, <3>2, <3>4, <3>5, <3>6, <3>7, <3>8, LocksKept
  <2>3. CASE step[Worker] = "packing"
    <3>1. Worker \in Threads /\ step' = [step EXCEPT ![Worker] = "idle"] /\ step[Worker] = "packing"
      BY <1>26, <2>3, <1>w DEF Pack, Move, Go, StepsApart
    <3>2. "idle" \in StepsOf(Worker) /\ "idle" \in Steps
      BY <1>w DEF StepsOf, WorkerSteps, MutationSteps, Steps
    <3>4. TypeOK'
      BY <1>26, <2>3, <1>w, <3>1, <3>2 DEF Pack, Move, Go, StepsApart, TypeOK, locks, gate, data
    <3>5. WorkerBusy'
      BY <1>26, <2>3, <1>w, <3>1 DEF Pack, Move, Go, StepsApart, WorkerBusy, TypeOK, StepsApart, gate, data
    <3>6. LockMove(mutation, Worker, step[Worker], "idle", MutationNeeded)
      BY <1>26, <2>3, <1>w, <3>1 DEF Pack, Move, Go, StepsApart, LockMove, MutationNeeded, MutationSteps, Holds, locks
    <3>7. lifecycle' = lifecycle /\ Worker \notin Requests
      BY <1>26, <2>3, <1>w DEF Pack, Move, Go, StepsApart, locks
    <3>8. GateMove(step[Worker], "idle")
      BY <1>26, <2>3, <1>w, <3>1 DEF Pack, Move, Go, StepsApart, GateMove, ReadingSteps, MutatingSteps, Excludes, Mutating, gate, TypeOK
    <3> QED
      BY <3>1, <3>2, <3>4, <3>5, <3>6, <3>7, <3>8, LocksKept
  <2> QED
    BY <1>26, <2>1, <2>2, <2>3 DEF Pack, Move, Go, StepsApart
<1>27. ASSUME Release(Worker) PROVE LockInv'
  <2>1. Worker \in Threads /\ step' = [step EXCEPT ![Worker] = "pack"] /\ step[Worker] = "release"
    BY <1>27, <1>w DEF Release, Move, Go
  <2>2. "pack" \in StepsOf(Worker) /\ "pack" \in Steps
    BY <1>w DEF StepsOf, WorkerSteps, MutationSteps, Steps
  <2>4. TypeOK'
    BY <1>27, <1>w, <2>1, <2>2 DEF Release, Move, Go, TypeOK, locks, gate, data
  <2>5. WorkerBusy'
    BY <1>27, <1>w, <2>1 DEF Release, Move, Go, WorkerBusy, TypeOK, StepsApart, gate, data
  <2>6. LockMove(mutation, Worker, step[Worker], "pack", MutationNeeded)
    BY <1>27, <1>w, <2>1 DEF Release, Move, Go, LockMove, MutationNeeded, MutationSteps, Holds, locks
  <2>7. lifecycle' = lifecycle /\ Worker \notin Requests
    BY <1>27, <1>w DEF Release, Move, Go, locks
  <2>8. GateMove(step[Worker], "pack")
    BY <1>27, <1>w, <2>1 DEF Release, Move, Go, GateMove, ReadingSteps, MutatingSteps, Excludes, Mutating, gate, TypeOK
  <2> QED
    BY <2>1, <2>2, <2>4, <2>5, <2>6, <2>7, <2>8, LocksKept
<1>28. CASE UNCHANGED vars
  BY <1>28 DEF vars, locks, gate, data, TypeOK, WorkerBusy, StepsApart, Holds, Excludes, Reading, Mutating
<1> QED
  BY <1>1, <1>2, <1>3, <1>4, <1>5, <1>6, <1>7, <1>8, <1>9, <1>10, <1>11, <1>12, <1>13, <1>14, <1>15, <1>16, <1>17, <1>18, <1>19, <1>20, <1>21, <1>22, <1>23, <1>24, <1>25, <1>26, <1>27, <1>28 DEF Next, Answer, Mutate

(* At rest the locks are free and nobody reads. *)
LEMMA LocksInit ==
    ASSUME ThreadsOK, Init
    PROVE  LockInv
<1>1. Reading = {} /\ Mutating = {}
  BY DEF Init, Reading, Mutating
<1>2. TypeOK
  BY DEF Init, TypeOK, Routes, Steps
<1>3. StepsApart
  BY DEF Init, StepsApart, Threads, Steps, ReaderSteps, RequestSteps, WorkerSteps
<1>4. WorkerBusy /\ Holds
  BY DEF Init, WorkerBusy, Holds, Threads, MutationSteps
<1> QED
  BY <1>1, <1>2, <1>3, <1>4, FS_EmptySet DEF LockInv, Excludes, Init

LEMMA LocksAlways == ASSUME ThreadsOK PROVE Spec => []LockInv
<1>1. Init => LockInv
  BY LocksInit
<1>2. LockInv /\ [Next]_vars => LockInv'
  BY LocksStep
<1> QED
  BY <1>1, <1>2, PTL DEF Spec

(* Every variable keeps its shape. *)
THEOREM TypeCorrect == ASSUME ThreadsOK PROVE Spec => []TypeOK
<1>1. LockInv => TypeOK
  BY DEF LockInv
<1> QED
  BY <1>1, LocksAlways, PTL

(* Nobody reads the tree while a mutation owns it (serialized_read,            *)
(* serialized_mutation), whatever the requests do and whichever creates fail.  *)
THEOREM ReadsExcludeMutations == ASSUME ThreadsOK PROVE Spec => []NoReadDuringMutation
<1>1. ASSUME LockInv PROVE NoReadDuringMutation
  <2>1. ASSUME NEW t \in Threads, step[t] \in ReadingSteps PROVE Cardinality(Reading) > 0
    BY <2>1, ReaderCounted
  <2>2. Mutating # {} => Cardinality(Reading) = 0
    BY <1>1 DEF LockInv, Excludes
  <2>3. Reading # {} => \E t \in Threads : step[t] \in ReadingSteps
    BY DEF Reading, ReadingSteps
  <2> QED
    BY <2>1, <2>2, <2>3 DEF NoReadDuringMutation
<1> QED
  BY <1>1, LocksAlways, PTL

-----------------------------------------------------------------------------
(* Only requests inside the lifecycle window accept jobs or change the bundle, *)
(* and they are there one at a time.                                           *)
LEMMA OneRequest ==
    ASSUME ThreadsOK, LockInv, NEW t \in Requests, NEW u \in Requests, u # t,
           step[t] \notin {"idle", "cleanup"}
    PROVE  step[u] \in {"idle", "cleanup"}
  BY DEF LockInv, Holds

LEMMA TidyStep ==
    ASSUME ThreadsOK, ~undone', LockInv, DataInv, [Next]_vars
    PROVE  Tidy'
<1> USE DEF DataInv, Tidy, LockInv
<1>1. ASSUME NEW t \in Readers, StartRead(t) \/ Serve(t) \/ EndRead(t) PROVE Tidy'
  BY <1>1 DEF StartRead, Serve, EndRead, EnterRead, LeaveRead, Move, Go, ThreadsOK, TypeOK, Threads
<1>2. CASE TakeJob \/ Acquire \/ RunJob \/ Pack
  BY <1>2 DEF TakeJob, Acquire, RunJob, Pack, Move, Go, ThreadsOK, TypeOK, Threads
<1>3. ASSUME NEW t \in Requests \cup {Worker}, Mutate(t) PROVE Tidy'
  BY <1>3 DEF Mutate, Announce, Drain, Drop, Open, Release, Move, Go, ThreadsOK, TypeOK, Threads
<1>4. ASSUME NEW t \in Requests, NEW r \in Routes, Enter(t, r) PROVE Tidy'
  BY <1>4 DEF Enter, Go, Routes, Undo, TypeOK, Threads
<1>5. ASSUME NEW t \in Requests, Answer(t) PROVE Tidy'
  <2>1. CASE Exit(t) \/ NotFound(t) \/ Maint(t) \/ MaintWrite(t)
    BY <1>5, <2>1 DEF Exit, NotFound, Maint, MaintWrite, Handle, Move, Go, TypeOK, Threads
  <2>2. CASE Submit(t) \/ Audit(t) \/ AuditQueued(t) \/ AuditBusy(t)
    BY <1>5, <2>2 DEF Submit, Audit, AuditQueued, AuditBusy, EnterRead, LeaveRead, Handle, Move, Go, TypeOK, Threads
  <2>3. CASE Delete(t) \/ Create(t) \/ TryMutation(t) \/ CleanUp(t)
    BY <1>5, <2>3 DEF Delete, Create, TryMutation, CleanUp, Handle, Move, Go, TypeOK, Threads
  <2>4. CASE Scaffold(t)
    BY <2>4 DEF Scaffold, Go, TypeOK, Threads
  <2> QED
    BY <1>3, <1>5, <2>1, <2>2, <2>3, <2>4 DEF Answer
<1>6. CASE UNCHANGED vars
  BY <1>6 DEF vars
<1> QED
  BY <1>1, <1>2, <1>3, <1>4, <1>5, <1>6 DEF Next

(* The cache, the tree and what readers answer. *)
LEMMA CurrentStep ==
    ASSUME ThreadsOK, LockInv, DataInv, [Next]_vars
    PROVE  Current'
<1> DEFINE Quiet == /\ UNCHANGED <<tree, cache, answer>>
                    /\ \A t \in Threads : step[t] = "drop" => step'[t] = "drop"
                    /\ \A t \in Readers : step'[t] = "answer" => step[t] = "answer"
<1> USE DEF DataInv, LockInv
<1>r. ASSUME NEW t \in Readers
      PROVE  t \in Threads /\ t \notin Requests /\ t # Worker
  BY DEF Threads, ThreadsOK
<1>s. step \in [Threads -> Steps]
  BY DEF StepsApart
<1>0. ASSUME Quiet PROVE Current'
  BY <1>0 DEF Current, Fresh
<1>1. ASSUME NEW t \in Readers, StartRead(t) \/ EndRead(t) PROVE Current'
  <2>1. Quiet
    BY <1>1, <1>r, <1>s DEF StartRead, EndRead, EnterRead, LeaveRead, Move, Go, data
  <2> QED
    BY <2>1, <1>0
<1>2. ASSUME NEW t \in Readers, Serve(t) PROVE Current'
  <2>1. Cardinality(Reading) > 0
    BY <1>2, <1>r, <1>s, ReadersMove DEF Serve, Move, Go, ReadingSteps, Steps
  <2>2. Mutating = {}
    BY <2>1 DEF Excludes
  <2>3. cache \in {NoSnapshot, tree}
    BY <2>2 DEF Current, Mutating
  <2>4. cache' = tree /\ tree' = tree /\ answer' = [answer EXCEPT ![t] = tree]
    BY <1>2, <2>3 DEF Serve
  <2>5. Fresh'
    BY <1>2, <2>4, <1>r, <1>s DEF Serve, Move, Go, Fresh, Current, TypeOK
  <2> QED
    BY <2>4, <2>5 DEF Current
<1>3. CASE TakeJob \/ Acquire \/ Pack
  <2>1. Quiet
    BY <1>3, <1>r, <1>s DEF TakeJob, Acquire, Pack, Move, Go, data
  <2> QED
    BY <2>1, <1>0
<1>4. ASSUME NEW t \in Threads, t \notin Readers, step[t] = "mutate",
             step' = [step EXCEPT ![t] = "drop"]
      PROVE  Current'
  <2>1. t \in Mutating
    BY <1>4 DEF Mutating
  <2>2. Cardinality(Reading) = 0
    BY <2>1 DEF Excludes
  <2>3. ASSUME NEW u \in Readers PROVE step[u] # "answer"
    BY <1>r, <2>2, ReaderCounted DEF ReadingSteps
  <2> QED
    BY <1>4, <1>s, <2>3 DEF Current, Fresh
<1>5. CASE RunJob
  BY <1>4, <1>5 DEF RunJob, Move, Go, Threads, ThreadsOK
<1>6. ASSUME NEW t \in Requests \cup {Worker}, Mutate(t) PROVE Current'
  <2>0. t \in Threads /\ t \notin Readers
    BY DEF Threads, ThreadsOK
  <2>1. CASE Drop(t)
    <3>1. cache' = NoSnapshot /\ UNCHANGED <<tree, answer>>
      BY <2>1 DEF Drop
    <3>2. \A u \in Readers : step'[u] = "answer" => step[u] = "answer"
      BY <2>0, <2>1, <1>r, <1>s DEF Drop, Move, Go
    <3> QED
      BY <3>1, <3>2 DEF Current, Fresh
  <2>2. CASE ~Drop(t)
    <3>1. Quiet
      BY <1>6, <2>2, <2>0, <1>r, <1>s DEF Mutate, Announce, Drain, Open, Release, Move, Go, data
    <3> QED
      BY <3>1, <1>0
  <2> QED
    BY <2>1, <2>2
<1>7. ASSUME NEW t \in Requests, NEW r \in Routes, Enter(t, r) PROVE Current'
  <2>1. Quiet
    BY <1>7, <1>r, <1>s DEF Enter, Go, data
  <2> QED
    BY <2>1, <1>0
<1>8. ASSUME NEW t \in Requests, Answer(t) PROVE Current'
  <2>0. t \in Threads /\ t \notin Readers
    BY DEF Threads, ThreadsOK
  <2>1. CASE Exit(t) \/ NotFound(t) \/ Maint(t) \/ MaintWrite(t)
    <3>1. Quiet
      BY <2>0, <2>1, <1>r, <1>s DEF Exit, NotFound, Maint, MaintWrite, Handle, Move, Go, data
    <3> QED
      BY <3>1, <1>0
  <2>2. CASE Submit(t) \/ Audit(t) \/ AuditQueued(t) \/ AuditBusy(t)
    <3>1. Quiet
      BY <2>0, <2>2, <1>r, <1>s DEF Submit, Audit, AuditQueued, AuditBusy, AcceptJob, EnterRead,
         LeaveRead, Handle, Move, Go, data
    <3> QED
      BY <3>1, <1>0
  <2>3. CASE Delete(t) \/ Create(t) \/ TryMutation(t)
    <3>1. Quiet
      BY <2>0, <2>3, <1>r, <1>s DEF Delete, Create, TryMutation, Handle, Move, Go, data
    <3> QED
      BY <3>1, <1>0
  <2>4. CASE Scaffold(t)
    BY <2>0, <2>4, <1>4 DEF Scaffold, Go
  <2>5. ~CleanUp(t)
    BY DEF Tidy, CleanUp, Move, Go
  <2> QED
    BY <1>6, <1>8, <2>1, <2>2, <2>3, <2>4, <2>5 DEF Answer
<1>9. CASE UNCHANGED vars
  <2>1. Quiet
    BY <1>9 DEF vars, data
  <2> QED
    BY <2>1, <1>0
<1> QED
  BY <1>1, <1>2, <1>3, <1>5, <1>6, <1>7, <1>8, <1>9 DEF Next

(* What a request found when it resolved the bundle still holds when it acts:  *)
(* nobody else is in the lifecycle window, and a bundle with jobs is kept.     *)
LEMMA BundleStep ==
    ASSUME ThreadsOK, LockInv, DataInv, [Next]_vars
    PROVE  Removing' /\ Resolved' /\ Deleted'
<1> DEFINE Safe     == Removing' /\ Resolved' /\ Deleted'
           Doing(t) == step[t] \in {"write", "auditing", "try", "announce", "drain", "mutate"}
<1> USE DEF DataInv, LockInv
<1>r. ASSUME NEW t \in Requests
      PROVE  t \in Threads /\ t \notin Readers /\ t # Worker
  BY DEF Threads, ThreadsOK
<1>s. step \in [Threads -> Steps] /\ jobs \in Nat
  BY DEF StepsApart, TypeOK
(* A step that is no request's, and leaves the bundle and the jobs alone. *)
<1>0. ASSUME UNCHANGED <<route, bundle, jobs>>, \A t \in Requests : step'[t] = step[t] PROVE Safe
  BY <1>0 DEF Removing, Resolved, Deleted
<1>1. ASSUME NEW t \in Readers, StartRead(t) \/ Serve(t) \/ EndRead(t) PROVE Safe
  BY <1>0, <1>1, <1>r, <1>s DEF StartRead, Serve, EndRead, EnterRead, LeaveRead, Move, Go, data
<1>2. CASE TakeJob \/ Acquire \/ Pack \/ Mutate(Worker)
  BY <1>0, <1>2, <1>r, <1>s DEF TakeJob, Acquire, Pack, Mutate, Announce, Drain, Drop, Open, Release,
     Move, Go, data
<1>3. CASE RunJob
  <2>1. jobs > 0 /\ bundle
    BY <1>3 DEF RunJob, Move, Go, WorkerBusy, Deleted
  <2>2. UNCHANGED <<route, bundle>> /\ \A t \in Requests : step'[t] = step[t]
    BY <1>3, <1>r, <1>s DEF RunJob, Move, Go
  <2> QED
    BY <2>1, <2>2, <1>s DEF Removing, Resolved, Deleted
<1>4. ASSUME NEW t \in Requests, NEW r \in Routes, Enter(t, r) PROVE Safe
  <2>1. UNCHANGED <<bundle, jobs>> /\ step' = [step EXCEPT ![t] = "route"]
        /\ \A u \in Requests : u # t => route'[u] = route[u]
    BY <1>4 DEF Enter, Go, data, TypeOK
  <2> QED
    BY <2>1, <1>r, <1>s DEF Removing, Resolved, Deleted
(* A request that acts is alone in the window. *)
<1>5. ASSUME NEW t \in Requests, step[t] \notin {"idle", "cleanup"},
             \A u \in Threads : u # t => step'[u] = step[u],
             \A u \in Requests : u # t => route'[u] = route[u],
             Resolved => (step'[t] \in {"write", "auditing"} => bundle'),
             step'[t] \in {"try", "announce", "drain", "mutate"} =>
                 route'[t] = "create" \/ (route'[t] = "delete" /\ bundle' /\ jobs' = 0),
             Deleted'
      PROVE  Safe
  <2>1. ASSUME NEW u \in Requests, u # t PROVE step'[u] \in {"idle", "cleanup"}
    BY <1>5, <2>1, <1>r, OneRequest
  <2> QED
    BY <1>5, <2>1 DEF Removing, Resolved
<1>6. ASSUME NEW t \in Requests, Answer(t) PROVE Safe
  <2>0. t \in Threads
    BY <1>r
  <2>1. CASE Exit(t) \/ NotFound(t) \/ MaintWrite(t)
    BY <2>1, <2>0, <1>5, <1>r, <1>s DEF Exit, NotFound, MaintWrite, Move, Go, data, Deleted
  <2>2. CASE Maint(t)
    BY <2>2, <2>0, <1>5, <1>r, <1>s DEF Maint, Handle, Move, Go, data, Deleted
  <2>3. CASE Audit(t)
    BY <2>3, <2>0, <1>5, <1>r, <1>s DEF Audit, EnterRead, Move, Go, data, Deleted
  <2>4. ASSUME step[t] \in {"route", "auditing"}, step' = [step EXCEPT ![t] = "exit"],
               UNCHANGED route, bundle, AcceptJob \/ UNCHANGED data
        PROVE  Safe
    <3>1. bundle'
      BY <2>4 DEF AcceptJob, data
    <3>2. Deleted'
      BY <3>1 DEF Deleted
    <3> QED
      BY <2>0, <2>4, <3>2, <1>5, <1>s
  <2>5. CASE Submit(t)
    BY <2>4, <2>5 DEF Submit, Handle, Move, Go
  <2>6. CASE AuditQueued(t)
    BY <2>4, <2>6 DEF AuditQueued, LeaveRead, Move, Go, Resolved
  <2>7. CASE AuditBusy(t)
    BY <2>4, <2>7 DEF AuditBusy, Handle, Move, Go
  <2>8. CASE Create(t) \/ Delete(t)
    BY <2>8, <2>0, <1>5, <1>r, <1>s DEF Create, Delete, Handle, Move, Go, data, Deleted
  <2>9. CASE TryMutation(t)
    BY <2>9, <2>0, <1>5, <1>r, <1>s DEF TryMutation, Move, Go, data, Deleted, Removing
  <2>10. CASE Announce(t) \/ Drain(t)
    BY <2>10, <2>0, <1>5, <1>r, <1>s DEF Announce, Drain, Move, Go, data, Deleted, Removing
  <2>11. CASE Drop(t) \/ Open(t) \/ Release(t)
    BY <2>11, <2>0, <1>5, <1>r, <1>s DEF Drop, Open, Release, Move, Go, data, Deleted
  <2>12. CASE Scaffold(t)
    <3>1. route[t] = "create" \/ jobs = 0
      BY <2>12 DEF Scaffold, Go, Removing
    <3>2. jobs' = jobs /\ bundle' = (route[t] = "create")
      BY <2>12 DEF Scaffold
    <3>3. Deleted'
      BY <3>1, <3>2 DEF Deleted
    <3>4. step[t] = "mutate" /\ step' = [step EXCEPT ![t] = "drop"]
          /\ \A u \in Requests : u # t => route'[u] = route[u]
      BY <2>12 DEF Scaffold, Go, TypeOK
    <3> QED
      BY <2>0, <3>3, <3>4, <1>5, <1>s
  <2>13. ~CleanUp(t)
    BY DEF Tidy, CleanUp, Move, Go
  <2> QED
    BY <1>6, <2>1, <2>2, <2>3, <2>5, <2>6, <2>7, <2>8, <2>9, <2>10, <2>11, <2>12, <2>13
       DEF Answer, Mutate
<1>7. CASE UNCHANGED vars
  BY <1>7, <1>0 DEF vars, data
<1> QED
  BY <1>1, <1>2, <1>3, <1>4, <1>6, <1>7 DEF Next

(* What is undone stays so: a create fails once in Scaffold and is never unsaid. *)
LEMMA UndoneStays ==
    ASSUME [Next]_vars, undone
    PROVE  undone'
<1>1. ASSUME NEW t \in Readers, StartRead(t) \/ Serve(t) \/ EndRead(t) PROVE undone'
  BY <1>1 DEF StartRead, Serve, EndRead, data
<1>2. CASE TakeJob \/ Acquire \/ RunJob \/ Pack
  BY <1>2 DEF TakeJob, Acquire, RunJob, Pack, data
<1>3. ASSUME NEW t, Mutate(t) PROVE undone'
  BY <1>3 DEF Mutate, Announce, Drain, Drop, Open, Release, data
<1>4. ASSUME NEW t \in Requests, NEW r \in Routes, Enter(t, r) PROVE undone'
  BY <1>4 DEF Enter, data
<1>5. ASSUME NEW t \in Requests, Answer(t) PROVE undone'
  <2>1. CASE Exit(t) \/ NotFound(t) \/ Maint(t) \/ MaintWrite(t)
    BY <2>1 DEF Exit, NotFound, Maint, MaintWrite, data
  <2>2. CASE Submit(t) \/ Audit(t) \/ AuditQueued(t) \/ AuditBusy(t)
    BY <2>2 DEF Submit, Audit, AuditQueued, AuditBusy, AcceptJob, data
  <2>3. CASE Delete(t) \/ Create(t) \/ TryMutation(t)
    BY <2>3 DEF Delete, Create, TryMutation, data
  <2>4. CASE Scaffold(t) \/ CleanUp(t)
    BY <2>4 DEF Scaffold, CleanUp
  <2> QED
    BY <1>3, <1>5, <2>1, <2>2, <2>3, <2>4 DEF Answer
<1>6. CASE UNCHANGED vars
  BY <1>6 DEF vars, data
<1> QED
  BY <1>1, <1>2, <1>3, <1>4, <1>5, <1>6 DEF Next

(* The data invariant holds until a create fails. *)
Sound == ~undone => DataInv

LEMMA DataAlways ==
    ASSUME ThreadsOK
    PROVE  Spec => [](LockInv /\ Sound)
<1>1. Init => LockInv /\ Sound
  BY LocksInit DEF Init, Sound, DataInv, Tidy, Undo, Current, Fresh, Removing, Resolved, Deleted,
     Threads
<1>2. LockInv /\ Sound /\ [Next]_vars => LockInv' /\ Sound'
  <2> SUFFICES ASSUME LockInv, Sound, [Next]_vars PROVE LockInv' /\ Sound'
    OBVIOUS
  <2>1. LockInv'
    BY LocksStep
  <2>2. ASSUME ~undone' PROVE DataInv'
    <3>1. DataInv
      BY <2>2, UndoneStays DEF Sound
    <3> QED
      BY <2>2, <3>1, TidyStep, CurrentStep, BundleStep DEF DataInv
  <2> QED
    BY <2>1, <2>2 DEF Sound
<1> QED
  BY <1>1, <1>2, PTL DEF Spec

(* A read answers from the tree as it is, until a create fails.                *)
THEOREM ReadsAreCurrent == ASSUME ThreadsOK PROVE Spec => []ReadsCurrent
<1>1. Sound => ReadsCurrent
  BY DEF Sound, DataInv, Current, ReadsCurrent
<1> QED
  BY <1>1, DataAlways, PTL

(* Nothing is written to a deleted bundle and no job of it is accepted or run, *)
(* until a create fails: a failed one removes its scaffold outside the locks.  *)
THEOREM DeletedStaysDeleted == ASSUME ThreadsOK PROVE Spec => []NothingOnDeleted
<1>1. LockInv /\ Sound => NothingOnDeleted
  BY DEF LockInv, Sound, DataInv, WorkerBusy, Resolved, Deleted, NothingOnDeleted, Gone
<1> QED
  BY <1>1, DataAlways, PTL
=============================================================================
