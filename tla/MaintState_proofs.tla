------------------------- MODULE MaintState_proofs -------------------------
(***************************************************************************)
(* Theorems of MaintState, for any sets of items and runs.                 *)
(*                                                                         *)
(* Every operation changes an item in one of a few ways (ItemMove).  One   *)
(* lemma shows that each action of Next is made of such moves; what a move *)
(* preserves is then argued per move, never per action.                    *)
(***************************************************************************)
EXTENDS MaintState, TLAPS

(* What one step may make of an item record. *)
Created(old, new) ==
    /\ old.status = "absent"
    /\ \/ new = NewItem
       \/ \E file \in BOOLEAN : new = [NewItem EXCEPT !.triageFile = file]
       \/ new = Close(NewItem, "needs_access")

Reopened(old, new) ==
    /\ old.status \notin {"absent", "in_progress", "ready"}
    /\ new = Reopen(old) \/ new = [Reopen(old) EXCEPT !.triageFile = TRUE]

GivenBack(old, new) ==
    /\ old.status = "in_progress"
    /\ \E cls \in AttemptClasses : new = FailAttempt(old, cls)

Unparked(old, new) ==
    /\ old.status = "parked"
    /\ new = [old EXCEPT !.status = "ready"]

Granted(old, new) ==
    /\ BuildRetry(old)
    /\ new = [old EXCEPT !.status = "ready", !.reason = "none",
                         !.retryBuild = build, !.retried = @ \cup {build}]

Claimed(old, new) ==
    /\ old.status = "ready"
    /\ \E r \in Runs : new = [old EXCEPT !.status = "in_progress", !.run = r,
                                         !.started = @ + 1]

ClosedBy(old, new) ==
    /\ old.status \notin Closed \cup {"absent"}
    /\ \E outcome \in Closed :
           \/ new = Close(old, outcome)
           \/ old.status = "in_progress" /\ new = Close(FailAttempt(old, "interrupted"), outcome)

Marked(old, new) ==
    /\ old.status \in Waiting
    /\ new = [old EXCEPT !.triageFile = TRUE]

ItemMove(old, new) ==
    \/ new = old
    \/ Created(old, new)
    \/ Marked(old, new)
    \/ Reopened(old, new)
    \/ GivenBack(old, new)
    \/ Unparked(old, new)
    \/ Granted(old, new)
    \/ Claimed(old, new)
    \/ ClosedBy(old, new)

-----------------------------------------------------------------------------
(* A failed attempt leaves a record whose run is cleared and which is queued, *)
(* parked or before a human (_fail_attempt).                                  *)
LEMMA FailAttemptResult ==
    ASSUME TypeOK, NEW it \in ItemRecord, NEW cls
    PROVE  LET new == FailAttempt(it, cls) IN
           /\ new \in ItemRecord
           /\ new.status \in {"needs_human", "ready", "parked"}
           /\ new.run = NoRun
           /\ new.started = it.started /\ new.lastBuild = build
           /\ new.counted = it.counted \/ new.counted = it.counted + 1
           /\ new.status # "needs_human" => new.started < MaxStarted /\ new.counted < MaxCounted
  <1> USE ConstantsOK
  <1> DEFINE counted == IF cls \in Counted THEN it.counted + 1 ELSE it.counted
  <1> DEFINE failed == [it EXCEPT !.counted = counted, !.run = NoRun, !.lastBuild = build]
  <1>1. /\ counted \in Nat
        /\ counted = it.counted \/ counted = it.counted + 1
    BY DEF ItemRecord
  <1>2. /\ failed \in ItemRecord
        /\ failed.run = NoRun /\ failed.counted = counted /\ failed.lastBuild = build
        /\ failed.started = it.started
    <2> HIDE DEF counted
    <2> QED BY <1>1 DEF ItemRecord, TypeOK
  <1> HIDE DEF counted, failed
  <1>3. CASE cls \in NotRetryable \/ counted >= MaxCounted \/ it.started >= MaxStarted
    <2>1. FailAttempt(it, cls) =
              [failed EXCEPT !.status = "needs_human",
                             !.reason = IF cls \in NotRetryable THEN "not_retryable"
                                                                ELSE "attempt_cap"]
      BY <1>3 DEF FailAttempt, failed, counted
    <2> QED BY <1>1, <1>2, <2>1 DEF ItemRecord, Statuses, Terminal, Reasons
  <1>4. CASE ~(cls \in NotRetryable \/ counted >= MaxCounted \/ it.started >= MaxStarted)
    <2>1. FailAttempt(it, cls) =
              [failed EXCEPT !.status = IF cls = "interrupted" THEN "ready" ELSE "parked"]
      BY <1>4 DEF FailAttempt, failed, counted
    <2>2. it.started < MaxStarted /\ counted < MaxCounted
      BY <1>1, <1>4 DEF ItemRecord
    <2> QED BY <1>1, <1>2, <2>1, <2>2 DEF ItemRecord, Statuses, Waiting
  <1> QED BY <1>3, <1>4

(* A move turns a well-formed record into a well-formed record. *)
LEMMA MoveType ==
    ASSUME TypeOK, NEW old \in ItemRecord, NEW new, ItemMove(old, new)
    PROVE  new \in ItemRecord
  <1> USE ConstantsOK
  <1>0. NewItem \in ItemRecord
    BY DEF NewItem, ItemRecord, Statuses, Waiting, Reasons, Builds
  <1>1. ASSUME NEW it \in ItemRecord, NEW outcome \in Closed
        PROVE  Close(it, outcome) \in ItemRecord
    BY DEF Close, ItemRecord, Statuses, Terminal, Reasons
  <1>2. CASE new = old
    BY <1>2
  <1>3. CASE Created(old, new)
    BY <1>3, <1>0, <1>1 DEF Created, ItemRecord, Closed
  <1>4. CASE Reopened(old, new)
    <2>1. Reopen(old) \in ItemRecord
      <3>1. old.reopens + 1 \in Nat
        BY DEF ItemRecord
      <3>2. [old EXCEPT !.status = "ready", !.run = NoRun, !.reason = "none"] \in ItemRecord
        BY DEF ItemRecord, Statuses, Waiting, Reasons
      <3> QED BY <3>1, <3>2 DEF Reopen, ItemRecord, Statuses, Waiting, Reasons
    <2>2. [Reopen(old) EXCEPT !.triageFile = TRUE] \in ItemRecord
      BY <2>1 DEF ItemRecord
    <2> QED BY <1>4, <2>1, <2>2 DEF Reopened
  <1>5. CASE GivenBack(old, new)
    BY <1>5, FailAttemptResult DEF GivenBack
  <1>6. CASE Unparked(old, new)
    BY <1>6 DEF Unparked, ItemRecord, Statuses, Waiting
  <1>7. CASE Granted(old, new)
    BY <1>7 DEF Granted, ItemRecord, Statuses, Waiting, Reasons, TypeOK
  <1>8. CASE Claimed(old, new)
    <2>1. PICK r \in Runs : new = [old EXCEPT !.status = "in_progress", !.run = r,
                                              !.started = @ + 1]
      BY <1>8 DEF Claimed
    <2>2. old.started + 1 \in Nat
      BY DEF ItemRecord
    <2> QED BY <2>1, <2>2 DEF ItemRecord, Statuses
  <1>9. CASE ClosedBy(old, new)
    BY <1>9, <1>1, FailAttemptResult DEF ClosedBy
  <1>10. CASE Marked(old, new)
    BY <1>10 DEF Marked, ItemRecord
  <1> QED
    BY <1>2, <1>3, <1>4, <1>5, <1>6, <1>7, <1>8, <1>9, <1>10 DEF ItemMove

-----------------------------------------------------------------------------
Moves ==
    /\ items' = [i \in Items |-> items'[i]]
    /\ \A i \in Items : ItemMove(items[i], items'[i])

(* One item set to a move of it, the others kept. *)
LEMMA OneItemMoves ==
    ASSUME TypeOK, NEW i \in Items, NEW new, ItemMove(items[i], new),
           items' = [items EXCEPT ![i] = new]
    PROVE  Moves
  BY DEF TypeOK, Moves, ItemMove

(* What _begin_run makes of an item is a move of it. *)
LEMMA BeginRunMove ==
    ASSUME TypeOK, NEW old \in ItemRecord
    PROVE  ItemMove(old, BeginRun(old))
  <1>1. CASE old.status = "in_progress"
    BY <1>1 DEF BeginRun, ItemMove, GivenBack, AttemptClasses
  <1>2. CASE old.status = "parked"
    BY <1>2 DEF BeginRun, ItemMove, Unparked
  <1>3. CASE old.status \notin {"in_progress", "parked"}
    BY <1>3 DEF BeginRun, ItemMove, Granted
  <1> QED BY <1>1, <1>2, <1>3

(* What a run ended by a crash or a release makes of its items. *)
LEMMA SweepMove ==
    ASSUME TypeOK, NEW r, NEW i \in InProgressOf(r)
    PROVE  ItemMove(items[i], FailAttempt(items[i], "interrupted"))
  BY DEF InProgressOf, With, ItemMove, GivenBack, AttemptClasses

(* Every step of a run moves each item. *)
LEMMA RunStepMoves ==
    ASSUME TypeOK, NEW r \in Runs, RunStep(r)
    PROVE  Moves
  <1>0. \A i \in Items : items[i] \in ItemRecord
    BY DEF TypeOK
  <1>1. CASE AcquireLease(r)
    BY <1>1, <1>0, BeginRunMove DEF AcquireLease, Moves
  <1>2. ASSUME NEW swept \in SUBSET Items, AcquireLeaseCrash(r, swept)
        PROVE  Moves
    BY <1>2, <1>0, BeginRunMove DEF AcquireLeaseCrash, Moves, ItemMove
  <1>3. CASE ReleaseLease(r)
    <2>1. \A i \in InProgressOf(r) : ItemMove(items[i], FailAttempt(items[i], "interrupted"))
      BY SweepMove
    <2> QED BY <1>3, <2>1 DEF ReleaseLease, Moves, ItemMove
  <1>4. ASSUME NEW swept \in SUBSET Items, ReleaseLeaseCrash(r, swept)
        PROVE  Moves
    <2>1. \A i \in InProgressOf(r) : ItemMove(items[i], FailAttempt(items[i], "interrupted"))
      BY SweepMove
    <2> QED BY <1>4, <2>1 DEF ReleaseLeaseCrash, Moves, ItemMove
  <1>5. CASE Claims(r)
    <2>1. PICK i \in Items, more \in BOOLEAN : NextItem(r, i, more)
      BY <1>5 DEF Claims
    <2> DEFINE new == [items[i] EXCEPT !.status = "in_progress", !.run = r,
                                       !.started = @ + 1]
    <2>2. items' = [items EXCEPT ![i] = new]
      BY <2>1, <1>0 DEF NextItem, TypeOK, ItemRecord
    <2>3. ItemMove(items[i], new)
      BY <2>1 DEF NextItem, Served, ItemMove, Claimed
    <2> HIDE DEF new
    <2> QED BY <2>2, <2>3, OneItemMoves
  <1>6. ASSUME NEW i \in Items, NEW cls \in ParkClasses, Park(r, i, cls)
        PROVE  Moves
    <2>1. ItemMove(items[i], FailAttempt(items[i], cls))
      BY <1>6 DEF Park, CanResolve, ItemMove, GivenBack, AttemptClasses
    <2> QED BY <1>6, <2>1, OneItemMoves DEF Park
  <1>7. ASSUME NEW i \in Items, NEW outcome \in AgentCloses, Resolve(r, i, outcome)
        PROVE  Moves
    <2>1. ItemMove(items[i], Close(items[i], outcome))
      BY <1>7 DEF Resolve, CanResolve, ItemMove, ClosedBy, AgentCloses, Closed
    <2> QED BY <1>7, <2>1, OneItemMoves DEF Resolve
  <1>8. ASSUME NEW i \in Items, NEW children \in SUBSET Items, NEW main \in children,
               Split(r, i, children, main)
        PROVE  Moves
    <2>1. ItemMove(items[i], Close(items[i], "split"))
      BY <1>8 DEF Split, CanResolve, ItemMove, ClosedBy, Closed
    <2>2. ASSUME NEW j \in Items
          PROVE  ItemMove(items[j], Child(items[j], j = main /\ items[i].triageFile))
      <3> DEFINE file == j = main /\ items[i].triageFile
      <3>1. file \in BOOLEAN
        OBVIOUS
      <3> HIDE DEF file
      <3>2. \/ Child(items[j], file) = items[j]
            \/ Created(items[j], Child(items[j], file))
            \/ Marked(items[j], Child(items[j], file))
        BY <3>1 DEF Child, Created, Marked
      <3> QED BY <3>2 DEF ItemMove, file
    <2> QED BY <1>8, <2>1, <2>2 DEF Split, Moves, ItemMove
  <1> QED
    BY <1>1, <1>2, <1>3, <1>4, <1>5, <1>6, <1>7, <1>8 DEF RunStep

(* Every call of the writer, an admin, a submitter or the auditor moves each item. *)
LEMMA ServiceStepMoves ==
    ASSUME TypeOK, NEW i \in Items, ServiceStep(i)
    PROVE  Moves
  <1>0. items[i] \in ItemRecord
    BY DEF TypeOK
  <1>1. CASE Enqueue(i)
    <2>1. ItemMove(items[i], NewItem)
      BY <1>1 DEF Enqueue, ItemMove, Created
    <2> QED BY <1>1, <2>1, OneItemMoves DEF Enqueue
  <1>2. CASE IntakeClosed(i)
    <2>1. ItemMove(items[i], Close(NewItem, "needs_access"))
      BY <1>2 DEF IntakeClosed, ItemMove, Created
    <2> QED BY <1>2, <2>1, OneItemMoves DEF IntakeClosed
  <1>3. CASE Resubmit(i)
    <2>1. ItemMove(items[i], Reopen(items[i]))
      BY <1>3 DEF Resubmit, ItemMove, Reopened
    <2> QED BY <1>3, <2>1, OneItemMoves DEF Resubmit
  <1>4. CASE CloseCurated(i)
    <2>1. ItemMove(items[i], Close(items[i], "curated"))
      BY <1>4 DEF CloseCurated, ItemMove, ClosedBy, Closed, Terminal
    <2> QED BY <1>4, <2>1, OneItemMoves DEF CloseCurated
  <1>5. ASSUME NEW reverted \in BOOLEAN, AdminRetry(i, reverted)
        PROVE  Moves
    <2>1. ItemMove(items[i], Reopen(items[i]))
      BY <1>5 DEF AdminRetry, ItemMove, Reopened, Reopenable, AgentCloses
    <2> QED BY <1>5, <2>1, OneItemMoves DEF AdminRetry
  <1>6. ASSUME NEW outcome \in AgentCloses, AdminResolve(i, outcome)
        PROVE  Moves
    <2>1. ItemMove(items[i], Close(items[i], outcome))
      BY <1>6 DEF AdminResolve, ItemMove, ClosedBy, AgentCloses, Closed
    <2> QED BY <1>6, <2>1, OneItemMoves DEF AdminResolve
  <1>7. CASE TriageReopen(i)
    <2>1. ItemMove(items[i], [Reopen(items[i]) EXCEPT !.triageFile = TRUE])
      BY <1>7 DEF TriageReopen, ItemMove, Reopened
    <2> QED BY <1>7, <2>1, OneItemMoves DEF TriageReopen
  <1>8. CASE Requeue(i)
    <2> DEFINE taken == IF items[i].status = "in_progress"
                        THEN FailAttempt(items[i], "interrupted") ELSE items[i]
    <2>1. /\ taken.status \in Requeueable
          /\ items' = [items EXCEPT ![i] = Close(taken, "requeued")]
      BY <1>8 DEF Requeue
    <2>2. ItemMove(items[i], Close(taken, "requeued"))
      BY <2>1 DEF ItemMove, ClosedBy, Closed, Requeueable
    <2> QED BY <2>1, <2>2, OneItemMoves
  <1> QED
    BY <1>1, <1>2, <1>3, <1>4, <1>5, <1>6, <1>7, <1>8 DEF ServiceStep

(* Every step moves each item (the actions of Next, one by one). *)
LEMMA NextMoves ==
    ASSUME TypeOK, [Next]_vars
    PROVE  Moves
  <1>1. CASE UNCHANGED items
    BY <1>1 DEF Moves, ItemMove, TypeOK
  <1>2. CASE \E r \in Runs : RunStep(r)
    BY <1>2, RunStepMoves
  <1>3. CASE \E i \in Items : ServiceStep(i)
    BY <1>3, ServiceStepMoves
  <1> QED
    BY <1>1, <1>2, <1>3 DEF Next, vars, LeaseExpires, Deploy

(* What one step may make of the lease. *)
LeaseMove ==
    \/ UNCHANGED <<lease, torn>>
    \/ ~lease.live /\ torn' \in BOOLEAN /\ \E r \in Runs : lease' = [run |-> r, live |-> TRUE]
    \/ torn' \in {torn, TRUE} /\ lease' = NoLease
    \/ torn' = torn /\ lease' = [lease EXCEPT !.live = FALSE]

BuildMove ==
    /\ build' \in Builds /\ deploys' \in Nat
    /\ (build' = build /\ deploys' = deploys) \/ deploys' = deploys + 1

(* Every step moves the lease and the build (the actions of Next, one by one). *)
LEMMA RegistryMoves ==
    ASSUME TypeOK, [Next]_vars
    PROVE  LeaseMove /\ BuildMove
  <1>0. build \in Builds /\ deploys \in Nat /\ deploys + 1 \in Nat
    BY DEF TypeOK
  <1>1. CASE UNCHANGED vars
    BY <1>0, <1>1 DEF vars, LeaseMove, BuildMove
  <1>2. ASSUME NEW r \in Runs, RunStep(r)
        PROVE  LeaseMove /\ UNCHANGED <<build, deploys>>
    <2>1. CASE AcquireLease(r)
      BY <2>1 DEF AcquireLease, LeaseMove
    <2>2. CASE \E swept \in SUBSET Items : AcquireLeaseCrash(r, swept)
      BY <2>2 DEF AcquireLeaseCrash, LeaseMove
    <2>3. CASE ReleaseLease(r) \/ \E swept \in SUBSET Items : ReleaseLeaseCrash(r, swept)
      BY <2>3 DEF ReleaseLease, ReleaseLeaseCrash, LeaseMove
    <2>4. CASE UNCHANGED <<lease, build, torn, deploys>>
      BY <2>4 DEF LeaseMove
    <2> QED
      BY <1>2, <2>1, <2>2, <2>3, <2>4 DEF RunStep, Claims, NextItem, Park, Resolve, Split
  <1>3. ASSUME NEW i \in Items, ServiceStep(i)
        PROVE  UNCHANGED <<lease, build, torn, deploys>>
    BY <1>3 DEF ServiceStep, Enqueue, IntakeClosed, Resubmit, CloseCurated,
                AdminRetry, AdminResolve, TriageReopen, Requeue
  <1>4. CASE LeaseExpires
    BY <1>0, <1>4 DEF LeaseExpires, LeaseMove, BuildMove
  <1>5. ASSUME NEW b \in Builds \ {0}, Deploy(b)
        PROVE  LeaseMove /\ BuildMove
    BY <1>0, <1>5 DEF Deploy, LeaseMove, BuildMove
  <1> QED
    BY <1>0, <1>1, <1>2, <1>3, <1>4, <1>5 DEF Next, LeaseMove, BuildMove

-----------------------------------------------------------------------------
(* The records keep their shape, for any sets of items, runs and builds. *)
THEOREM TypeCorrect == Spec => []TypeOK
  <1>1. Init => TypeOK
    <2> SUFFICES ASSUME Init PROVE TypeOK
      OBVIOUS
    <2>1. NewItem \in ItemRecord
      BY ConstantsOK DEF NewItem, ItemRecord, Statuses, Waiting, Reasons, Builds
    <2>2. Absent \in ItemRecord
      BY <2>1 DEF Absent, ItemRecord, Statuses
    <2> QED BY <2>2 DEF Init, TypeOK
  <1>2. TypeOK /\ [Next]_vars => TypeOK'
    <2> SUFFICES ASSUME TypeOK, [Next]_vars PROVE TypeOK'
      OBVIOUS
    <2>1. items' \in [Items -> ItemRecord]
      BY NextMoves, MoveType DEF Moves, TypeOK
    <2>2. /\ lease' \in [run: Runs \cup {NoRun}, live: BOOLEAN]
          /\ torn' \in BOOLEAN
      <3>1. LeaseMove
        BY RegistryMoves
      <3>2. CASE UNCHANGED <<lease, torn>>
        BY <3>2 DEF TypeOK
      <3>3. CASE torn' \in BOOLEAN /\ \E r \in Runs : lease' = [run |-> r, live |-> TRUE]
        BY <3>3
      <3>4. CASE torn' \in {torn, TRUE} /\ lease' = NoLease
        BY <3>4 DEF NoLease, TypeOK
      <3>5. CASE torn' = torn /\ lease' = [lease EXCEPT !.live = FALSE]
        BY <3>5 DEF TypeOK
      <3> QED BY <3>1, <3>2, <3>3, <3>4, <3>5 DEF LeaseMove
    <2>3. build' \in Builds /\ deploys' \in Nat
      BY RegistryMoves DEF BuildMove
    <2> QED BY <2>1, <2>2, <2>3 DEF TypeOK
  <1> QED BY <1>1, <1>2, PTL DEF Spec

-----------------------------------------------------------------------------
(* A closed item changes only by a reopen its record counts, whatever runs,    *)
(* changesets and admins do to it at the same time.                            *)
THEOREM ClosesAreFinal == Spec => ClosedStays
  <1>1. ASSUME NEW old \in ItemRecord, NEW new, ItemMove(old, new),
               old.status \in Closed, new # old
        PROVE  new.status = "ready" /\ new.reopens = old.reopens + 1
    BY <1>1 DEF ItemMove, Created, Marked, Waiting, Reopened, Reopen, GivenBack,
                Unparked, Granted, BuildRetry, Claimed, ClosedBy, Closed, ItemRecord
  <1>2. TypeOK /\ [Next]_vars =>
            [\A i \in Items :
                 items[i].status \in Closed /\ items'[i] # items[i] =>
                     /\ items'[i].status = "ready"
                     /\ items'[i].reopens = items[i].reopens + 1]_vars
    BY <1>1, NextMoves DEF Moves, TypeOK
  <1> QED BY <1>2, TypeCorrect, PTL DEF Spec, ClosedStays

(* Two runs never pass a claim between them: the only move that makes an item   *)
(* in progress starts from a ready one.                                         *)
THEOREM ClaimsAreNotStolen == Spec => NoClaimStolen
  <1>1. ASSUME TypeOK, NEW old \in ItemRecord, NEW new, ItemMove(old, new),
               old.status = "in_progress", new.status = "in_progress"
        PROVE  new = old
    <2>1. ASSUME NEW cls PROVE FailAttempt(old, cls).status # "in_progress"
      BY <1>1, FailAttemptResult
    <2>2. ~GivenBack(old, new)
      BY <1>1, <2>1 DEF GivenBack
    <2>3. ASSUME NEW outcome \in Closed, NEW it \in ItemRecord
          PROVE  Close(it, outcome).status # "in_progress"
      BY DEF Close, ItemRecord, Closed
    <2>4. ~ClosedBy(old, new)
      BY <1>1, <2>3, FailAttemptResult DEF ClosedBy
    <2> QED
      BY <1>1, <2>2, <2>4 DEF ItemMove, Created, Marked, Waiting, Reopened, Unparked,
                              Granted, BuildRetry, Claimed
  <1>2. TypeOK /\ [Next]_vars =>
            [\A i \in Items :
                 items[i].status = "in_progress" /\ items'[i].status = "in_progress"
                     => items'[i].run = items[i].run]_vars
    BY <1>1, NextMoves DEF Moves, TypeOK
  <1> QED BY <1>2, TypeCorrect, PTL DEF Spec, NoClaimStolen

(* No run takes a live lease over. *)
THEOREM LiveLeasesAreKept == Spec => LiveLeaseKept
  <1>1. TypeOK /\ [Next]_vars =>
            [lease.live /\ lease'.live => lease'.run = lease.run]_vars
    <2> SUFFICES ASSUME TypeOK, [Next]_vars, lease.live, lease'.live
                 PROVE  lease'.run = lease.run
      OBVIOUS
    <2>1. LeaseMove
      BY RegistryMoves
    <2>2. lease' # NoLease
      BY DEF NoLease
    <2>3. lease' # [lease EXCEPT !.live = FALSE]
      BY DEF TypeOK
    <2> QED BY <2>1, <2>2, <2>3 DEF LeaseMove
  <1> QED BY <1>1, TypeCorrect, PTL DEF Spec, LiveLeaseKept

-----------------------------------------------------------------------------
(* Every item a step newly puts in progress is put there by next_item, for the *)
(* run that holds the lease.                                                   *)
LEMMA OnlyTheHolderClaims ==
    ASSUME TypeOK, [Next]_vars, NEW i \in Items,
           items'[i].status = "in_progress", items'[i] # items[i]
    PROVE  items'[i].run = lease.run /\ UNCHANGED <<lease, torn>>
  <1>0. \A j \in Items : items[j] \in ItemRecord
    BY DEF TypeOK
  <1>1. \A it \in ItemRecord, outcome \in Closed :
            Close(it, outcome).status # "in_progress"
    BY DEF Close, ItemRecord, Closed
  <1>2. \A it \in ItemRecord : Reopen(it).status = "ready"
    BY DEF Reopen, ItemRecord
  <1>3. \A it \in ItemRecord, cls \in AttemptClasses :
            FailAttempt(it, cls) \in ItemRecord /\ FailAttempt(it, cls).status # "in_progress"
    BY FailAttemptResult
  <1>4. \A it \in ItemRecord : BeginRun(it).status # "in_progress"
    BY <1>3 DEF BeginRun, AttemptClasses, ItemRecord, BuildRetry
  <1>5. NewItem.status = "ready" /\ NewItem \in ItemRecord
    BY ConstantsOK DEF NewItem, ItemRecord, Statuses, Waiting, Reasons, Builds
  <1>6. ASSUME NEW r \in Runs, RunStep(r)
        PROVE  items'[i].run = lease.run /\ UNCHANGED <<lease, torn>>
    <2>1. CASE AcquireLease(r)
      BY <2>1, <1>0, <1>4 DEF AcquireLease
    <2>2. CASE \E swept \in SUBSET Items : AcquireLeaseCrash(r, swept)
      BY <2>2, <1>0, <1>4 DEF AcquireLeaseCrash
    <2>3. CASE ReleaseLease(r)
      BY <2>3, <1>0, <1>3 DEF ReleaseLease, AttemptClasses
    <2>4. CASE \E swept \in SUBSET Items : ReleaseLeaseCrash(r, swept)
      BY <2>4, <1>0, <1>3 DEF ReleaseLeaseCrash, AttemptClasses
    <2>5. ASSUME NEW j \in Items, NEW more \in BOOLEAN, NextItem(r, j, more)
          PROVE  items'[i].run = lease.run /\ UNCHANGED <<lease, torn>>
      <3>1. i = j
        BY <2>5 DEF NextItem, TypeOK
      <3> QED BY <2>5, <3>1, <1>0 DEF NextItem, Holds, TypeOK, ItemRecord
    <2>6. ASSUME NEW j \in Items, NEW cls \in ParkClasses, Park(r, j, cls)
          PROVE  FALSE
      BY <2>6, <1>0, <1>3 DEF Park, AttemptClasses, TypeOK
    <2>7. ASSUME NEW j \in Items, NEW outcome \in AgentCloses, Resolve(r, j, outcome)
          PROVE  FALSE
      BY <2>7, <1>0, <1>1 DEF Resolve, AgentCloses, Closed, TypeOK
    <2>8. ASSUME NEW j \in Items, NEW children \in SUBSET Items, NEW main \in children,
                 Split(r, j, children, main)
          PROVE  FALSE
      <3>1. Close(items[j], "split").status # "in_progress"
        BY <1>0, <1>1 DEF Closed
      <3>2. ASSUME NEW file
            PROVE  Child(items[i], file) = items[i] \/ Child(items[i], file).status # "in_progress"
        BY <1>0, <1>5 DEF Child, Waiting, ItemRecord
      <3> QED BY <2>8, <3>1, <3>2 DEF Split
    <2> QED
      BY <1>6, <2>1, <2>2, <2>3, <2>4, <2>5, <2>6, <2>7, <2>8 DEF RunStep, Claims
  <1>7. ASSUME NEW j \in Items, ServiceStep(j)
        PROVE  FALSE
    <2>1. CASE Enqueue(j) \/ IntakeClosed(j)
      BY <2>1, <1>1, <1>5 DEF Enqueue, IntakeClosed, Closed, TypeOK
    <2>2. CASE Resubmit(j) \/ \E reverted \in BOOLEAN : AdminRetry(j, reverted)
      BY <2>2, <1>0, <1>2 DEF Resubmit, AdminRetry, TypeOK
    <2>3. CASE CloseCurated(j) \/ \E outcome \in AgentCloses : AdminResolve(j, outcome)
      BY <2>3, <1>0, <1>1 DEF CloseCurated, AdminResolve, AgentCloses, Closed, TypeOK
    <2>4. CASE TriageReopen(j)
      <3>1. [Reopen(items[j]) EXCEPT !.triageFile = TRUE].status # "in_progress"
        BY <1>0 DEF Reopen, ItemRecord
      <3> QED BY <2>4, <3>1 DEF TriageReopen, TypeOK
    <2>5. CASE Requeue(j)
      BY <2>5, <1>0, <1>1, <1>3 DEF Requeue, AttemptClasses, Closed, TypeOK
    <2> QED BY <1>7, <2>1, <2>2, <2>3, <2>4, <2>5 DEF ServiceStep
  <1> QED
    BY <1>6, <1>7 DEF Next, vars, LeaseExpires, Deploy

(* A step that leaves an item in progress untouched keeps it with the lease it is *)
(* under: only a run start or a release changes whose lease it is, and both give   *)
(* back what they find unless a crash cuts them.                                   *)
LEMMA KeptClaims ==
    ASSUME TypeOK, ClaimsMatchLease, [Next]_vars, NEW i \in Items,
           items[i].status = "in_progress", items'[i] = items[i], ~torn'
    PROVE  items[i].run = lease'.run
  <1>0. items[i] \in ItemRecord
    BY DEF TypeOK
  <1>1. \A cls \in AttemptClasses : FailAttempt(items[i], cls).status # "in_progress"
    BY <1>0, FailAttemptResult
  <1>2. ASSUME NEW r \in Runs, AcquireLease(r)
        PROVE  FALSE
    BY <1>0, <1>1, <1>2 DEF AcquireLease, BeginRun, AttemptClasses
  <1>3. ASSUME NEW r \in Runs, ReleaseLease(r)
        PROVE  FALSE
    <2>1. ~torn /\ lease.run = r
      BY <1>3 DEF ReleaseLease
    <2>2. i \in InProgressOf(r)
      BY <2>1 DEF ClaimsMatchLease, InProgressOf, With
    <2> QED BY <1>1, <1>3, <2>2 DEF ReleaseLease, AttemptClasses
  <1>4. CASE UNCHANGED <<lease, torn>> \/ LeaseExpires
    BY <1>4 DEF LeaseExpires, ClaimsMatchLease, With, TypeOK
  <1>5. ASSUME NEW r \in Runs, RunStep(r)
        PROVE  items[i].run = lease'.run
    BY <1>2, <1>3, <1>4, <1>5 DEF RunStep, AcquireLeaseCrash, ReleaseLeaseCrash, Claims,
           NextItem, Park, Resolve, Split
  <1>6. ASSUME NEW j \in Items, ServiceStep(j)
        PROVE  UNCHANGED <<lease, torn>>
    BY <1>6 DEF ServiceStep, Enqueue, IntakeClosed, Resubmit, CloseCurated,
                AdminRetry, AdminResolve, TriageReopen, Requeue
  <1>7. CASE UNCHANGED vars \/ \E b \in Builds \ {0} : Deploy(b)
    BY <1>4, <1>7 DEF vars, Deploy
  <1> QED BY <1>4, <1>5, <1>6, <1>7 DEF Next

(* Whatever the runs do and wherever a crash falls, an item in progress names its *)
(* run, and that run is the lease's unless a crash cut the last sweep.            *)
THEOREM ClaimsAlwaysMatchLease == Spec => []ClaimsMatchLease
  <1>1. Init => ClaimsMatchLease
    BY DEF Init, Absent, NewItem, ClaimsMatchLease, With
  <1>2. ASSUME TypeOK, NEW old \in ItemRecord, NEW new, ItemMove(old, new),
               old.status = "in_progress" <=> old.run # NoRun
        PROVE  new.status = "in_progress" <=> new.run # NoRun
    <2>1. ASSUME NEW cls
          PROVE  FailAttempt(old, cls).status # "in_progress" /\ FailAttempt(old, cls).run = NoRun
      BY <1>2, FailAttemptResult
    <2>2. ASSUME NEW it \in ItemRecord, NEW outcome \in Closed
          PROVE  Close(it, outcome).status # "in_progress" /\ Close(it, outcome).run = NoRun
      BY DEF Close, ItemRecord, Closed
    <2>3. NewItem \in ItemRecord
      BY ConstantsOK DEF NewItem, ItemRecord, Statuses, Waiting, Reasons, Builds
    <2>4. CASE GivenBack(old, new) \/ ClosedBy(old, new)
      BY <1>2, <2>1, <2>2, <2>4, FailAttemptResult DEF GivenBack, ClosedBy
    <2>5. CASE Created(old, new)
      BY <2>2, <2>3, <2>5 DEF Created, Closed, NewItem
    <2>6. CASE Reopened(old, new)
      BY <2>6 DEF Reopened, Reopen, ItemRecord
    <2>7. CASE Claimed(old, new)
      BY <2>7, ConstantsOK DEF Claimed, ItemRecord
    <2>8. CASE new = old \/ Marked(old, new) \/ Unparked(old, new) \/ Granted(old, new)
      BY <1>2, <2>8 DEF Marked, Waiting, Unparked, Granted, BuildRetry, ItemRecord
    <2> QED BY <1>2, <2>4, <2>5, <2>6, <2>7, <2>8 DEF ItemMove
  <1>3. TypeOK /\ ClaimsMatchLease /\ [Next]_vars => ClaimsMatchLease'
    <2> SUFFICES ASSUME TypeOK, ClaimsMatchLease, [Next]_vars
                 PROVE  ClaimsMatchLease'
      OBVIOUS
    <2>1. \A i \in Items : items'[i].status = "in_progress" <=> items'[i].run # NoRun
      BY <1>2, NextMoves DEF Moves, TypeOK, ClaimsMatchLease
    <2>2. ASSUME NEW i \in Items, items'[i].status = "in_progress", ~torn'
          PROVE  items'[i].run = lease'.run
      <3>1. CASE items'[i] = items[i]
        BY <2>2, <3>1, KeptClaims
      <3>2. CASE items'[i] # items[i]
        BY <2>2, <3>2, OnlyTheHolderClaims
      <3> QED BY <3>1, <3>2
    <2> QED BY <2>1, <2>2 DEF ClaimsMatchLease, With
  <1> QED BY <1>1, <1>3, TypeCorrect, PTL DEF Spec

-----------------------------------------------------------------------------
(* The attempts one item has had, against the caps.  An item that has used up all *)
(* that the deploys so far allow failed last under the build deployed now, so no   *)
(* run start grants it an attempt before the next deploy, newer build or older.    *)
AttemptsOK(it) ==
    /\ it.started <= MaxStarted + deploys
    /\ it.counted <= MaxCounted + deploys
    /\ it.status \in Waiting => it.started < MaxStarted + deploys
    /\ it.status \in Waiting \cup {"in_progress"} => it.counted < MaxCounted + deploys
    /\ it.status = "needs_human" /\ it.lastBuild # build =>
           it.started < MaxStarted + deploys /\ it.counted < MaxCounted + deploys

AttemptsInv == \A i \in Items : AttemptsOK(items[i])

(* Whatever builds are deployed, in whatever order, the claims and the counted     *)
(* failures of an item stay within the caps and one extra attempt per deploy.      *)
THEOREM AttemptsAreBounded == Spec => []AttemptsBounded
  <1>1. Init => AttemptsInv
    BY ConstantsOK DEF Init, Absent, NewItem, AttemptsInv, AttemptsOK, Waiting, Builds
  <1>2. ASSUME TypeOK, NEW old \in ItemRecord, NEW new, ItemMove(old, new), AttemptsOK(old)
        PROVE  AttemptsOK(new)
    <2> USE ConstantsOK
    <2>0. /\ deploys \in Nat
          /\ old.started \in Nat /\ old.counted \in Nat
      BY <1>2 DEF TypeOK, ItemRecord
    <2>1. ASSUME NEW it \in ItemRecord, NEW outcome \in Closed,
                 it.started <= MaxStarted + deploys, it.counted <= MaxCounted + deploys
          PROVE  AttemptsOK(Close(it, outcome))
      BY <2>1 DEF Close, ItemRecord, AttemptsOK, Waiting, Closed
    <2>2. ASSUME NEW cls, old.status = "in_progress"
          PROVE  AttemptsOK(FailAttempt(old, cls))
      BY <1>2, <2>0, <2>2, FailAttemptResult DEF AttemptsOK, Waiting, ItemRecord
    <2>3. NewItem \in ItemRecord /\ AttemptsOK(NewItem)
      BY <2>0 DEF NewItem, ItemRecord, Statuses, Waiting, Reasons, Builds, AttemptsOK
    <2>4. CASE Created(old, new)
      BY <2>1, <2>3, <2>4 DEF Created, AttemptsOK, Closed, NewItem
    <2>5. CASE Reopened(old, new)
      <3>1. new.status = "ready" /\ new.started = 0 /\ new.counted = 0
        BY <2>5 DEF Reopened, Reopen, ItemRecord
      <3> QED BY <2>0, <3>1 DEF AttemptsOK, Waiting
    <2>6. CASE GivenBack(old, new)
      BY <2>2, <2>6 DEF GivenBack
    <2>7. CASE Unparked(old, new)
      BY <1>2, <2>0, <2>7 DEF Unparked, ItemRecord, AttemptsOK, Waiting
    <2>8. CASE Granted(old, new)
      <3>1. old.started < MaxStarted + deploys /\ old.counted < MaxCounted + deploys
        BY <1>2, <2>8 DEF Granted, BuildRetry, AttemptsOK
      <3>2. /\ new.status = "ready"
            /\ new.started = old.started /\ new.counted = old.counted
        BY <2>8 DEF Granted, ItemRecord
      <3> QED BY <2>0, <3>1, <3>2 DEF AttemptsOK, Waiting
    <2>9. CASE Claimed(old, new)
      BY <1>2, <2>0, <2>9 DEF Claimed, ItemRecord, AttemptsOK, Waiting
    <2>10. CASE ClosedBy(old, new)
      <3>1. ASSUME NEW outcome \in Closed PROVE AttemptsOK(Close(old, outcome))
        BY <1>2, <2>1 DEF AttemptsOK
      <3>2. ASSUME NEW outcome \in Closed, old.status = "in_progress"
            PROVE  AttemptsOK(Close(FailAttempt(old, "interrupted"), outcome))
        BY <1>2, <2>1, <2>2, <3>2, FailAttemptResult DEF AttemptsOK
      <3> QED BY <2>10, <3>1, <3>2 DEF ClosedBy
    <2>11. CASE Marked(old, new)
      BY <1>2, <2>0, <2>11 DEF Marked, ItemRecord, AttemptsOK, Waiting
    <2> QED
      BY <1>2, <2>4, <2>5, <2>6, <2>7, <2>8, <2>9, <2>10, <2>11 DEF ItemMove
  <1>3. TypeOK /\ AttemptsInv /\ [Next]_vars => AttemptsInv'
    <2> SUFFICES ASSUME TypeOK, AttemptsInv, [Next]_vars, NEW i \in Items
                 PROVE  AttemptsOK(items[i])'
      BY DEF AttemptsInv
    <2>1. AttemptsOK(items'[i])
      BY <1>2, NextMoves DEF Moves, TypeOK, AttemptsInv
    <2>2. items'[i].started \in Nat /\ items'[i].counted \in Nat
      BY NextMoves, MoveType DEF Moves, TypeOK, ItemRecord
    <2>3. /\ deploys \in Nat /\ deploys' \in Nat
          /\ (build' = build /\ deploys' = deploys) \/ deploys' = deploys + 1
      BY RegistryMoves DEF BuildMove, TypeOK
    <2> QED BY <2>1, <2>2, <2>3, ConstantsOK DEF AttemptsOK
  <1>4. AttemptsInv => AttemptsBounded
    BY DEF AttemptsInv, AttemptsOK, AttemptsBounded
  <1> QED BY <1>1, <1>3, <1>4, TypeCorrect, PTL DEF Spec
=============================================================================
