---------------------------- MODULE Parts_proofs ----------------------------
(***************************************************************************)
(* Proofs about five of the parts that the composition of the evidence     *)
(* puts side by side, each by itself and for any constants: HostRuns,      *)
(* Trust, Triage, Attention and Reviewer.                                  *)
(***************************************************************************)
EXTENDS HostRuns, Integers, FiniteSetTheorems, SequenceTheorems, WellFoundedInduction, TLAPS

(* The parameters of Trust. *)
CONSTANTS Concepts, Texts, Evidence, Curator, Auditor, Writer, Person, Skew, Delay, MaxTime, MaxPasses, MaxPushes
VARIABLES doc, sources, now, basis, judged, byHand, passes, pushes

U == INSTANCE Trust

(* The parameters of Triage: the items, the maintainers' runs that close them, and the rest. *)
CONSTANTS Items, Closers, Auditors, Nobody, MaxClock, MaxReopens, MaxCrashes
VARIABLES skips, receipts, request, audited, verdicts, clock, crashes

Tri == INSTANCE Triage WITH Runs <- Closers, items <- skips, lease <- audited

(* The parameters of Attention. *)
CONSTANTS Subjects, Contents, Declared, DefaultDays, Cap, LastDay, MaxMoves
VARIABLES day, published, reviews, notices, start, moves, failures

Att == INSTANCE Attention WITH Concepts <- Subjects, doc <- published, items <- notices, faults <- failures

(* The parameters of Reviewer. *)
CONSTANTS Vetted, Batch, MaxTaken, LastText, MaxChanges
VARIABLES text, backlog, queue, landed, rejected, changes, file, edited, taken, entries, pending, submitted, dropped,
          verb, read, recorded, unanswered, returned, deaths

Rev == INSTANCE Reviewer WITH Concepts <- Vetted, due <- backlog, refused <- rejected, faults <- deaths

(* A run that begun: its session has set the pointer, and may call verbs when the workspace is there. *)
Begun(r) == run[r] = "on" \/ (run[r] = "pull" /\ r \notin Reviews)

(* A session that is beginning, from the lock to the pointer. *)
Beginning(r) == run[r] \in {"lease", "pointer", "record"} \/ (run[r] = "pull" /\ r \in Reviews)

(* The run whose lease the writer would renew. *)
Holds(r) == lease[Role(r)].run = r /\ Active(Role(r))

(* update.lock is held from the lock to the pointer, and by an update while it works. *)
Locked ==
    /\ \A r \in Runs : Beginning(r) => r \in shared
    /\ exclusive = {} \/ (shared = {} /\ \E u \in Updaters : exclusive = {u})
    /\ \A u \in Updaters : updater[u].step # "idle" => exclusive = {u}

(* Leases and pointers are of their role, and were written in the past. *)
Named ==
    \A x \in Roles : /\ lease[x].run # NoRun => Role(lease[x].run) = x
                     /\ pointer[x].run # NoRun => Role(pointer[x].run) = x
                     /\ lease[x].at <= hour

(* No session that is about to unlink a pointer takes it from the run that holds the lease, but for
   the runs `lost` names. *)
Unlinks ==
    \A e, r \in Runs : run[e] = "unlink" /\ Role(e) = Role(r) /\ Begun(r) /\ Holds(r) => r \in lost

Stands == \A r \in Runs : Begun(r) /\ Holds(r) => PointsAt(r) \/ r \in lost

(* A lease was renewed no later than its run wrote, unless the run has been quiet since. *)
Noisy ==
    \A r \in Runs :
       Begun(r) /\ Holds(r) /\ PointsAt(r) /\ r \notin quiet =>
          \/ lease[Role(r)].at <= pointer[Role(r)].at
          \/ record[r] # Never /\ lease[Role(r)].at <= record[r]

(* While an update installs, only runs it could not see hold a lease. *)
Spared ==
    (\E u \in Updaters : updater[u].step \in {"child", "skills"}) =>
       \A r \in Runs : Begun(r) /\ Holds(r) => r \in quiet \cup lost

(* What an update said holds until another one, or the install of one that died, is on its way. *)
Said ==
    /\ told => skills = cli /\ orphans = {} /\ \A u \in Updaters : updater[u].step # "child"
    /\ \A u \in Updaters : updater[u].step = "child" => updater[u].version \in 1..MaxMain

(* The types of the variables, without those of the locks. *)
HostTypes ==
    /\ hour \in 0..MaxHour
    /\ lease \in [Roles -> [run: Runs \cup {NoRun}, at: 0..MaxHour]]
    /\ pointer \in [Roles -> [run: Runs \cup {NoRun}, at: 0..MaxHour]]
    /\ record \in [Runs -> 0..MaxHour \cup {Never}]
    /\ run \in [Runs -> {"off", "wait", "lease", "pull", "pointer", "record", "on", "ending", "unlink"}]
    /\ shared \subseteq Runs /\ exclusive \subseteq Updaters
    /\ updater \in [Updaters -> [step: {"idle", "look", "child", "skills"}, version: 0..MaxMain]]
    /\ orphans \subseteq 1..MaxMain
    /\ main \in 1..MaxMain /\ cli \in 1..MaxMain /\ skills \in 1..MaxMain /\ told \in BOOLEAN
    /\ quiet \subseteq Runs /\ lost \subseteq Runs
    /\ faults \in 0..MaxFaults

HostInv == HostTypes /\ Locked /\ Named /\ Unlinks /\ Stands /\ Noisy /\ Spared /\ Said

-----------------------------------------------------------------------------
(* A role is one of the two. *)
LEMMA RoleOf == \A r : Role(r) \in Roles
  BY DEF Role, Roles

(* A host starts without runs and updates. *)
LEMMA HostInit == ConstantsOK /\ Init => HostInv
<1> SUFFICES ASSUME ConstantsOK, Init PROVE HostInv  OBVIOUS
<1>1. HostTypes
  <2>1. 0 \in 0..MaxHour /\ 1 \in 1..MaxMain /\ 0 \in 0..MaxMain /\ 0 \in 0..MaxFaults  BY DEF ConstantsOK
  <2>2. /\ lease \in [Roles -> [run: Runs \cup {NoRun}, at: 0..MaxHour]]
        /\ pointer \in [Roles -> [run: Runs \cup {NoRun}, at: 0..MaxHour]]
    BY <2>1 DEF Init, Free
  <2>3. updater \in [Updaters -> [step: {"idle", "look", "child", "skills"}, version: 0..MaxMain]]
    BY <2>1 DEF Init, Stopped
  <2> QED  BY <2>1, <2>2, <2>3 DEF Init, HostTypes
<1>2. Locked  BY DEF Init, Locked, Beginning, Stopped
<1>3. Named  BY DEF Init, Named, Free, ConstantsOK
<1>4. Unlinks /\ Stands /\ Noisy /\ Spared  BY DEF Init, Unlinks, Stands, Noisy, Spared, Begun
<1>5. Said  BY DEF Init, Said, Stopped
<1> QED  BY <1>1, <1>2, <1>3, <1>4, <1>5 DEF HostInv

(* Time passes, and leases run out. *)
LEMMA TickKeeps == ConstantsOK /\ HostInv /\ Tick => HostInv'
<1> SUFFICES ASSUME ConstantsOK, HostInv, Tick PROVE HostInv'  OBVIOUS
<1>1. /\ UNCHANGED <<lease, pointer, record, run, shared, quiet, lost, faults, exclusive, updater, orphans,
                     main, cli, skills, told>>
      /\ hour' = hour + 1 /\ hour < MaxHour
  BY DEF Tick, updateVars
<1>2. HostTypes /\ Locked /\ Named /\ Unlinks /\ Stands /\ Noisy /\ Spared /\ Said /\ MaxHour \in Nat /\ TTL \in Nat
  BY DEF HostInv, ConstantsOK
<1>3. HostTypes'  BY <1>1, <1>2 DEF HostTypes, Never
<1>4. Locked' /\ Said'  BY <1>1, <1>2 DEF Locked, Beginning, Said
<1>5. Named'  BY <1>1, <1>2 DEF Named, HostTypes, Role
<1>6. \A r \in Runs : (Holds(r)' => Holds(r)) /\ (Begun(r)' <=> Begun(r)) /\ (PointsAt(r)' <=> PointsAt(r))
  BY <1>1, <1>2, RoleOf DEF Holds, Active, Role, Begun, PointsAt, HostTypes
<1>7. Unlinks' /\ Stands' /\ Spared'  BY <1>1, <1>2, <1>6 DEF Unlinks, Stands, Spared, Role
<1>8. Noisy'  BY <1>1, <1>2, <1>6 DEF Noisy, Role, Never
<1> QED  BY <1>3, <1>4, <1>5, <1>7, <1>8 DEF HostInv

(* A session moves on: nobody but it holds more than before, and it does only if it did before. *)
LEMMA SessionMoves ==
    ASSUME ConstantsOK, HostInv, NEW r \in Runs, NEW step,
           step \in {"off", "wait", "lease", "pull", "pointer", "record", "on", "ending", "unlink"},
           run' = [run EXCEPT ![r] = step],
           UNCHANGED <<hour, pointer, quiet, lost, exclusive, updater, orphans, main, cli, skills, told>>,
           faults' \in 0..MaxFaults,
           lease' \in {lease, Released(r), Renewed(r)},
           record' \in {record, [record EXCEPT ![r] = hour]},
           shared' \in {shared, shared \ {r}, shared \cup {r}}, exclusive = {} \/ shared' = {},
           Beginning(r)' => r \in shared',
           Begun(r)' => Begun(r) /\ lease' \in {lease, Released(r)},
           step = "unlink" => PointsAt(r)
    PROVE  HostInv'
<1>1. HostTypes /\ Locked /\ Named /\ Unlinks /\ Stands /\ Noisy /\ Spared /\ Said
      /\ MaxHour \in Nat /\ TTL \in Nat /\ NoRun \notin Runs
  BY DEF HostInv, ConstantsOK
<1>2. run'[r] = step /\ \A q \in Runs : q # r => run'[q] = run[q]  BY <1>1 DEF HostTypes
<1>3. Role(r) \in Roles /\ \A q : Role(q)' = Role(q)  BY RoleOf DEF Role
<1>4. /\ lease' \in [Roles -> [run: Runs \cup {NoRun}, at: 0..MaxHour]]
      /\ \A x \in Roles : x # Role(r) => lease'[x] = lease[x]
      /\ lease'[Role(r)] \in {lease[Role(r)], Free, [run |-> r, at |-> hour]}
  BY <1>1, <1>3 DEF Released, Renewed, HostTypes, Free
<1>5. record' \in [Runs -> 0..MaxHour \cup {Never}] /\ (\A q \in Runs : record'[q] \in {record[q], hour})
  BY <1>1 DEF HostTypes
<1>6. HostTypes'  BY <1>1, <1>2, <1>4, <1>5 DEF HostTypes, Never
<1>7. Locked'
  <2>1. \A q \in Runs : Beginning(q)' => q \in shared'
    <3> SUFFICES ASSUME NEW q \in Runs, Beginning(q)', q # r PROVE q \in shared'  OBVIOUS
    <3>1. Beginning(q)  BY <1>2 DEF Beginning
    <3> QED  BY <1>1, <3>1 DEF Locked
  <2> QED  BY <1>1, <2>1 DEF Locked
<1>8. Named'
  <2>1. hour \in 0..MaxHour  BY <1>1 DEF HostTypes
  <2> QED  BY <1>1, <1>3, <1>4, <2>1 DEF Named, Free, Role
<1>9. ASSUME NEW q \in Runs, Begun(q)', Holds(q)'
      PROVE  Begun(q) /\ Holds(q) /\ lease'[Role(q)] = lease[Role(q)]
  <2>0. Role(q) \in Roles /\ q # NoRun  BY <1>1, RoleOf
  <2>1. lease'[Role(q)] = lease[Role(q)]
    <3>1. CASE q # r
      <4>1. lease'[Role(q)].run = q  BY <1>9 DEF Holds, Role
      <4> QED  BY <1>4, <2>0, <3>1, <4>1 DEF Free
    <3>2. CASE q = r
      <4>1. lease'[Role(q)].run = q  BY <1>9 DEF Holds, Role
      <4>2. lease' = lease \/ lease' = Released(r)  BY <1>9, <3>2
      <4>3. lease[Role(r)].run = r /\ lease' # lease => lease'[Role(r)] = Free
        BY <1>1, <1>3, <4>2 DEF Released, HostTypes
      <4>4. lease[Role(r)].run # r => lease' = lease  BY <4>2 DEF Released
      <4> QED  BY <2>0, <3>2, <4>1, <4>3, <4>4 DEF Free
    <3> QED  BY <3>1, <3>2
  <2>2. Holds(q)  BY <1>9, <2>1 DEF Holds, Active, Role
  <2>3. Begun(q)
    <3>1. CASE q # r  BY <1>2, <1>9, <3>1 DEF Begun
    <3>2. CASE q = r  BY <1>9, <3>2
    <3> QED  BY <3>1, <3>2
  <2> QED  BY <2>1, <2>2, <2>3
<1>10. Unlinks'
  <2> SUFFICES ASSUME NEW e \in Runs, NEW q \in Runs, run'[e] = "unlink", Role(e) = Role(q), Begun(q)', Holds(q)'
               PROVE  q \in lost
    BY <1>3 DEF Unlinks
  <2>1. Begun(q) /\ Holds(q)  BY <1>9
  <2>2. CASE run[e] = "unlink"  BY <1>1, <2>1, <2>2 DEF Unlinks
  <2>3. CASE run[e] # "unlink"
    <3>1. e = r /\ step = "unlink"  BY <1>2, <2>3
    <3>2. pointer[Role(r)].run = r /\ q # r  BY <1>2, <3>1 DEF PointsAt, Begun
    <3> QED  BY <1>1, <2>1, <3>1, <3>2 DEF Stands, PointsAt
  <2> QED  BY <2>2, <2>3
<1>11. Stands'  BY <1>1, <1>3, <1>9 DEF Stands, PointsAt
<1>12. Noisy'
  <2> SUFFICES ASSUME NEW q \in Runs, Begun(q)', Holds(q)', pointer[Role(q)].run = q, q \notin quiet
               PROVE  \/ lease'[Role(q)].at <= pointer[Role(q)].at
                      \/ record'[q] # Never /\ lease'[Role(q)].at <= record'[q]
    BY <1>3 DEF Noisy, PointsAt, Never
  <2>1. Begun(q) /\ Holds(q) /\ lease'[Role(q)] = lease[Role(q)]  BY <1>9
  <2>2. \/ lease[Role(q)].at <= pointer[Role(q)].at
        \/ record[q] # Never /\ lease[Role(q)].at <= record[q]
    BY <1>1, <2>1 DEF Noisy, PointsAt
  <2>3. hour # Never /\ lease[Role(q)].at <= hour  BY <1>1, RoleOf DEF Never, HostTypes, Named
  <2> QED  BY <1>5, <2>1, <2>2, <2>3
<1>13. Spared'  BY <1>1, <1>9 DEF Spared
<1>14. Said'  BY <1>1 DEF Said
<1> QED  BY <1>6, <1>7, <1>8, <1>10, <1>11, <1>12, <1>13, <1>14 DEF HostInv

(* What a session does between its begin and its end, but for what it does to the pointer. *)
LEMMA SessionKeeps ==
    ASSUME ConstantsOK, HostInv, NEW r \in Runs,
           \/ Begin(r) \/ LockShared(r) \/ TakeLease(r) \/ SaveRecord(r) \/ Pulled(r) \/ End(r)
           \/ ReadPointer(r) \/ Dies(r) \/ (r \in Reviews /\ PullFails(r))
    PROVE  HostInv'
<1>1. HostTypes /\ Locked /\ MaxFaults \in Nat  BY DEF HostInv, ConstantsOK
<1>2. Fault => faults' \in 0..MaxFaults  BY <1>1 DEF Fault, HostTypes
<1>3. Beginning(r) => r \in shared /\ exclusive = {}  BY <1>1 DEF Locked
<1>4. exclusive = {} \/ (shared = {} /\ shared \ {r} = {})  BY <1>1 DEF Locked
<1>5. \A step : To(r, step) => run' = [run EXCEPT ![r] = step] /\ run'[r] = step
  BY <1>1 DEF To, HostTypes
<1>6. CASE Begin(r)
  <2>1. run' = [run EXCEPT ![r] = "wait"] /\ run'[r] = "wait"  BY <1>5, <1>6 DEF Begin
  <2>2. ~Beginning(r)' /\ ~Begun(r)'  BY <2>1 DEF Beginning, Begun
  <2> QED  BY <1>1, <1>4, <1>6, <2>1, <2>2, SessionMoves DEF Begin, updateVars, HostTypes
<1>7. CASE LockShared(r)
  <2>1. CASE exclusive = {} /\ shared' = shared \cup {r} /\ To(r, "lease")
    <3>1. run' = [run EXCEPT ![r] = "lease"] /\ run'[r] = "lease"  BY <1>5, <2>1
    <3>2. ~Begun(r)' /\ r \in shared'  BY <2>1, <3>1 DEF Begun
    <3> QED  BY <1>1, <1>7, <2>1, <3>1, <3>2, SessionMoves DEF LockShared, updateVars, HostTypes
  <2>2. CASE To(r, "off") /\ UNCHANGED shared
    <3>1. run' = [run EXCEPT ![r] = "off"] /\ run'[r] = "off"  BY <1>5, <2>2
    <3>2. ~Begun(r)' /\ ~Beginning(r)'  BY <3>1 DEF Begun, Beginning
    <3> QED  BY <1>1, <1>4, <1>7, <2>2, <3>1, <3>2, SessionMoves DEF LockShared, updateVars, HostTypes
  <2> QED  BY <1>7, <2>1, <2>2 DEF LockShared
<1>8. CASE TakeLease(r)
  <2>0. r \in shared /\ exclusive = {}  BY <1>3, <1>8 DEF TakeLease, Beginning
  <2>1. CASE lease' = Renewed(r) /\ To(r, IF r \in Reviews THEN "pull" ELSE "pointer") /\ UNCHANGED <<shared, faults>>
    <3> DEFINE step == IF r \in Reviews THEN "pull" ELSE "pointer"
    <3>1. run' = [run EXCEPT ![r] = step] /\ run'[r] = step  BY <1>5, <2>1
    <3>2. ~Begun(r)' /\ r \in shared'  BY <2>0, <2>1, <3>1 DEF Begun
    <3> QED  BY <1>1, <1>8, <2>0, <2>1, <3>1, <3>2, SessionMoves DEF TakeLease, updateVars, HostTypes
  <2>2. CASE lease' \in {lease, Renewed(r)} /\ faults' \in 0..MaxFaults /\ To(r, "off") /\ shared' = shared \ {r}
    <3>1. run' = [run EXCEPT ![r] = "off"] /\ run'[r] = "off"  BY <1>5, <2>2
    <3>2. ~Begun(r)' /\ ~Beginning(r)'  BY <3>1 DEF Begun, Beginning
    <3> QED  BY <1>1, <1>8, <2>0, <2>2, <3>1, <3>2, SessionMoves DEF TakeLease, updateVars
  <2>3. faults' = faults => faults' \in 0..MaxFaults  BY <1>1 DEF HostTypes
  <2> QED  BY <1>2, <1>8, <2>1, <2>2, <2>3 DEF TakeLease
<1>9. CASE SaveRecord(r)
  <2>1. run' = [run EXCEPT ![r] = "record"] /\ run'[r] = "record" /\ UNCHANGED shared
    BY <1>5, <1>9 DEF SaveRecord, SetRecord
  <2>2. r \in shared /\ exclusive = {}  BY <1>3, <1>9 DEF SaveRecord, Beginning
  <2>3. ~Begun(r)'  BY <2>1 DEF Begun
  <2> QED  BY <1>1, <1>9, <2>1, <2>2, <2>3, SessionMoves DEF SaveRecord, updateVars, HostTypes
<1>10. CASE Pulled(r)
  <2> DEFINE step == IF r \in Reviews THEN "pointer" ELSE "on"
  <2>1. run' = [run EXCEPT ![r] = step] /\ run'[r] = step /\ UNCHANGED shared /\ run[r] = "pull"
    BY <1>5, <1>10 DEF Pulled
  <2>2. Beginning(r)' => Beginning(r)  BY <2>1 DEF Beginning
  <2>3. Begun(r)' => Begun(r)  BY <2>1 DEF Begun
  <2>4. lease' = lease /\ record' = record /\ faults' = faults  BY <1>10 DEF Pulled
  <2> QED  BY <1>1, <1>3, <1>4, <1>10, <2>1, <2>2, <2>3, <2>4, SessionMoves DEF Pulled, updateVars, HostTypes
<1>11. CASE End(r)
  <2>1. run' = [run EXCEPT ![r] = "ending"] /\ run'[r] = "ending"  BY <1>5, <1>11 DEF End
  <2>2. ~Beginning(r)' /\ ~Begun(r)'  BY <2>1 DEF Beginning, Begun
  <2>3. faults' \in 0..MaxFaults /\ lease' \in {lease, Released(r)}  BY <1>1, <1>2, <1>11 DEF End, HostTypes
  <2> QED  BY <1>4, <1>11, <2>1, <2>2, <2>3, SessionMoves DEF End, updateVars
<1>12. CASE ReadPointer(r)
  <2> DEFINE step == IF PointsAt(r) THEN "unlink" ELSE "off"
  <2>1. run' = [run EXCEPT ![r] = step] /\ run'[r] = step  BY <1>5, <1>12 DEF ReadPointer
  <2>2. ~Beginning(r)' /\ ~Begun(r)'  BY <2>1 DEF Beginning, Begun
  <2>3. step = "unlink" => PointsAt(r)  OBVIOUS
  <2>4. step \in {"off", "unlink"}  OBVIOUS
  <2> HIDE DEF step
  <2> QED  BY <1>1, <1>4, <1>12, <2>1, <2>2, <2>3, <2>4, SessionMoves DEF ReadPointer, updateVars, HostTypes
<1>13. CASE Dies(r)
  <2>1. run' = [run EXCEPT ![r] = "off"] /\ run'[r] = "off"  BY <1>5, <1>13 DEF Dies
  <2>2. ~Beginning(r)' /\ ~Begun(r)'  BY <2>1 DEF Beginning, Begun
  <2> QED  BY <1>2, <1>4, <1>13, <2>1, <2>2, SessionMoves DEF Dies, updateVars
<1>14. CASE r \in Reviews /\ PullFails(r)
  <2>1. run' = [run EXCEPT ![r] = "off"] /\ run'[r] = "off"  BY <1>5, <1>14 DEF PullFails
  <2>2. ~Beginning(r)' /\ ~Begun(r)'  BY <2>1 DEF Beginning, Begun
  <2> QED  BY <1>2, <1>4, <1>14, <2>1, <2>2, SessionMoves DEF PullFails, updateVars
<1> QED  BY <1>6, <1>7, <1>8, <1>9, <1>10, <1>11, <1>12, <1>13, <1>14

(* A pointer is set: what it takes from another run is named. *)
LEMMA SetPointerKeeps == ASSUME ConstantsOK, HostInv, NEW r \in Runs, SetPointer(r) PROVE HostInv'
<1>1. HostTypes /\ Locked /\ Named /\ Unlinks /\ Stands /\ Noisy /\ Spared /\ Said
      /\ MaxHour \in Nat /\ TTL \in Nat /\ NoRun \notin Runs
  BY DEF HostInv, ConstantsOK
<1>2. /\ UNCHANGED <<hour, lease, record, faults, exclusive, updater, orphans, main, cli, skills, told>>
      /\ run[r] = "record" /\ shared' = shared \ {r} /\ quiet' = quiet \ {r}
      /\ pointer' = [pointer EXCEPT ![Role(r)] = [run |-> r, at |-> hour]]
      /\ run' = [run EXCEPT ![r] = AfterPointer(r)]
  BY DEF SetPointer, updateVars, To
<1>3. lost' = IF lease[Role(r)].run # r THEN lost \cup ({lease[Role(r)].run} \ {NoRun})
              ELSE IF \E e \in Runs : Role(e) = Role(r) /\ run[e] = "unlink" THEN lost \cup {r}
              ELSE lost \ {r}
  BY DEF SetPointer
<1>4. Role(r) \in Roles /\ \A q : Role(q)' = Role(q)  BY RoleOf DEF Role
<1>5. AfterPointer(r) \in {"on", "pull"}  BY DEF AfterPointer
<1>6. run'[r] = AfterPointer(r) /\ \A q \in Runs : q # r => run'[q] = run[q]  BY <1>1, <1>2 DEF HostTypes
<1>7. pointer'[Role(r)] = [run |-> r, at |-> hour] /\ \A x \in Roles : x # Role(r) => pointer'[x] = pointer[x]
  BY <1>1, <1>2, <1>4 DEF HostTypes
<1>8. HostTypes'
  <2>1. pointer' \in [Roles -> [run: Runs \cup {NoRun}, at: 0..MaxHour]]  BY <1>1, <1>2, <1>4 DEF HostTypes
  <2>2. lease[Role(r)].run \in Runs \cup {NoRun}  BY <1>1, <1>4 DEF HostTypes
  <2>3. lost' \subseteq Runs /\ quiet' \subseteq Runs  BY <1>1, <1>2, <1>3, <2>2 DEF HostTypes
  <2>4. run' \in [Runs -> {"off", "wait", "lease", "pull", "pointer", "record", "on", "ending", "unlink"}]
    BY <1>1, <1>2, <1>5 DEF HostTypes
  <2> QED  BY <1>1, <1>2, <2>1, <2>3, <2>4 DEF HostTypes, Never
<1>9. r \in shared /\ exclusive = {} /\ \A u \in Updaters : updater[u].step = "idle"
  BY <1>1, <1>2 DEF Locked, Beginning
<1>10. Locked'
  <2>1. ~Beginning(r)'  BY <1>5, <1>6 DEF Beginning, AfterPointer
  <2>2. \A q \in Runs : q # r /\ Beginning(q)' => q \in shared'
    BY <1>1, <1>2, <1>6 DEF Locked, Beginning
  <2> QED  BY <1>1, <1>2, <1>9, <2>1, <2>2 DEF Locked
<1>11. Named'  BY <1>1, <1>2, <1>4, <1>7 DEF Named
<1>12. \A q \in Runs : Holds(q)' <=> Holds(q)  BY <1>2, <1>4 DEF Holds, Active
<1>13. \A q \in Runs : q # r /\ Begun(q)' => Begun(q)  BY <1>6 DEF Begun
<1>14. ASSUME NEW q \in Runs, q # r, Begun(q)', Holds(q)', Role(q) = Role(r)  PROVE q \in lost'
  BY <1>1, <1>3, <1>12, <1>14 DEF Holds
<1>15. Unlinks'
  <2> SUFFICES ASSUME NEW e \in Runs, NEW q \in Runs, run'[e] = "unlink", Role(e) = Role(q), Begun(q)', Holds(q)'
               PROVE  q \in lost'
    BY <1>4 DEF Unlinks
  <2>1. e # r /\ run[e] = "unlink"  BY <1>5, <1>6
  <2>2. CASE q = r
    <3>1. lease[Role(r)].run = r  BY <1>12, <2>2 DEF Holds
    <3> QED  BY <1>3, <2>1, <2>2, <3>1
  <2>3. CASE q # r
    <3>1. CASE Role(q) = Role(r)  BY <1>14, <2>3, <3>1
    <3>2. CASE Role(q) # Role(r)
      <4>1. q \in lost  BY <1>1, <1>12, <1>13, <2>1, <2>3 DEF Unlinks
      <4> QED  BY <1>3, <2>3, <4>1
    <3> QED  BY <3>1, <3>2
  <2> QED  BY <2>2, <2>3
<1>16. Stands'
  <2> SUFFICES ASSUME NEW q \in Runs, Begun(q)', Holds(q)' PROVE pointer'[Role(q)].run = q \/ q \in lost'
    BY <1>4 DEF Stands, PointsAt
  <2>1. CASE q = r  BY <1>7, <2>1
  <2>2. CASE q # r /\ Role(q) = Role(r)  BY <1>14, <2>2
  <2>3. CASE q # r /\ Role(q) # Role(r)
    <3>1. pointer'[Role(q)] = pointer[Role(q)]  BY <1>7, <2>3, RoleOf
    <3>2. PointsAt(q) \/ q \in lost  BY <1>1, <1>12, <1>13, <2>3 DEF Stands
    <3> QED  BY <1>3, <2>3, <3>1, <3>2 DEF PointsAt
  <2> QED  BY <2>1, <2>2, <2>3
<1>17. Noisy'
  <2> SUFFICES ASSUME NEW q \in Runs, Begun(q)', Holds(q)', pointer'[Role(q)].run = q, q \notin quiet'
               PROVE  \/ lease[Role(q)].at <= pointer'[Role(q)].at
                      \/ record[q] # Never /\ lease[Role(q)].at <= record[q]
    BY <1>2, <1>4 DEF Noisy, PointsAt, Never
  <2>1. CASE q = r  BY <1>1, <1>4, <1>7, <2>1 DEF Named
  <2>2. CASE q # r
    <3>1. Role(q) # Role(r) /\ pointer'[Role(q)] = pointer[Role(q)]  BY <1>7, <2>2, RoleOf
    <3>2. Begun(q) /\ Holds(q) /\ q \notin quiet  BY <1>2, <1>12, <1>13, <2>2
    <3> QED  BY <1>1, <3>1, <3>2 DEF Noisy, PointsAt
  <2> QED  BY <2>1, <2>2
<1>18. Spared'  BY <1>2, <1>9 DEF Spared
<1>19. Said'  BY <1>1, <1>2 DEF Said
<1> QED  BY <1>8, <1>10, <1>11, <1>15, <1>16, <1>17, <1>18, <1>19 DEF HostInv

(* A pointer is unlinked: by the session that ends, or one whose workspace failed. *)
LEMMA UnlinkKeeps ==
    ASSUME ConstantsOK, HostInv, NEW r \in Runs, Unlink(r) \/ (r \notin Reviews /\ PullFails(r))
    PROVE  HostInv'
<1>1. HostTypes /\ Locked /\ Named /\ Unlinks /\ Stands /\ Noisy /\ Spared /\ Said
      /\ MaxHour \in Nat /\ TTL \in Nat /\ MaxFaults \in Nat /\ NoRun \notin Runs
  BY DEF HostInv, ConstantsOK
<1>2. Role(r) \in Roles /\ (\A q : Role(q)' = Role(q)) /\ (r \notin Reviews => Role(r) = "maint")
  BY RoleOf DEF Role
<1>3. /\ UNCHANGED <<hour, record, shared, quiet, exclusive, updater, orphans, main, cli, skills, told>>
      /\ pointer' = [pointer EXCEPT ![Role(r)] = Free]
      /\ run' = [run EXCEPT ![r] = "off"]
      /\ lease' \in {lease, Released(r)}
      /\ faults' \in 0..MaxFaults
      /\ \/ run[r] = "unlink" /\ lost' = lost
         \/ lost' = lost \cup ({pointer[Role(r)].run} \ {r, NoRun})
  BY <1>1, <1>2 DEF Unlink, PullFails, updateVars, To, Fault, HostTypes
<1>4. ~Beginning(r) \/ run'[r] = "off"  BY <1>1, <1>3 DEF HostTypes
<1>5. run'[r] = "off" /\ \A q \in Runs : q # r => run'[q] = run[q]  BY <1>1, <1>3 DEF HostTypes
<1>6. pointer'[Role(r)] = Free /\ \A x \in Roles : x # Role(r) => pointer'[x] = pointer[x]
  BY <1>1, <1>2, <1>3 DEF HostTypes
<1>7. /\ lease' \in [Roles -> [run: Runs \cup {NoRun}, at: 0..MaxHour]]
      /\ \A x \in Roles : x # Role(r) => lease'[x] = lease[x]
      /\ lease'[Role(r)] \in {lease[Role(r)], Free}
  <2>1. Free \in [run: Runs \cup {NoRun}, at: 0..MaxHour]  BY <1>1 DEF Free
  <2>2. CASE lease' = lease  BY <1>1, <1>2, <2>2 DEF HostTypes
  <2>3. CASE lease' = [lease EXCEPT ![Role(r)] = Free]  BY <1>1, <1>2, <2>1, <2>3 DEF HostTypes
  <2> QED  BY <1>3, <2>2, <2>3 DEF Released
<1>8. HostTypes'
  <2>1. pointer' \in [Roles -> [run: Runs \cup {NoRun}, at: 0..MaxHour]]
    BY <1>1, <1>2, <1>3 DEF HostTypes, Free
  <2>2. pointer[Role(r)].run \in Runs \cup {NoRun}  BY <1>1, <1>2 DEF HostTypes
  <2>3. lost' \subseteq Runs  BY <1>1, <1>3, <2>2 DEF HostTypes
  <2>4. run' \in [Runs -> {"off", "wait", "lease", "pull", "pointer", "record", "on", "ending", "unlink"}]
    BY <1>1, <1>3 DEF HostTypes
  <2> QED  BY <1>1, <1>3, <1>7, <2>1, <2>3, <2>4 DEF HostTypes, Never
<1>9. Locked'  BY <1>1, <1>3, <1>5 DEF Locked, Beginning
<1>10. Named'
  <2>1. hour \in 0..MaxHour  BY <1>1 DEF HostTypes
  <2> QED  BY <1>1, <1>2, <1>3, <1>6, <1>7, <2>1 DEF Named, Free
<1>11. ASSUME NEW q \in Runs, Begun(q)', Holds(q)'
       PROVE  q # r /\ Begun(q) /\ Holds(q) /\ lease'[Role(q)] = lease[Role(q)]
  <2>1. q # r /\ Begun(q)  BY <1>5, <1>11 DEF Begun
  <2>2. lease'[Role(q)].run = q /\ q # NoRun /\ Role(q) \in Roles  BY <1>1, <1>11, RoleOf DEF Holds, Role
  <2>3. lease'[Role(q)] = lease[Role(q)]  BY <1>7, <2>2 DEF Free
  <2>4. Holds(q)  BY <1>3, <1>11, <2>3 DEF Holds, Active, Role
  <2> QED  BY <2>1, <2>3, <2>4
<1>12. Unlinks'
  <2> SUFFICES ASSUME NEW e \in Runs, NEW q \in Runs, run'[e] = "unlink", Role(e) = Role(q), Begun(q)', Holds(q)'
               PROVE  q \in lost'
    BY <1>2 DEF Unlinks
  <2>1. run[e] = "unlink"  BY <1>5
  <2>2. q \in lost  BY <1>1, <1>11, <2>1 DEF Unlinks
  <2> QED  BY <1>3, <2>2
<1>13. Stands'
  <2> SUFFICES ASSUME NEW q \in Runs, Begun(q)', Holds(q)' PROVE pointer'[Role(q)].run = q \/ q \in lost'
    BY <1>2 DEF Stands, PointsAt
  <2>1. q # r /\ Begun(q) /\ Holds(q) /\ (PointsAt(q) \/ q \in lost)  BY <1>1, <1>11 DEF Stands
  <2>2. CASE Role(q) # Role(r)  BY <1>3, <1>6, <2>1, <2>2, RoleOf DEF PointsAt
  <2>3. CASE Role(q) = Role(r)
    <3>1. run[r] = "unlink" => q \in lost  BY <1>1, <2>1, <2>3 DEF Unlinks
    <3>2. pointer[Role(r)].run = q => q \in {pointer[Role(r)].run} \ {r, NoRun}  BY <1>1, <2>1
    <3> QED  BY <1>3, <2>1, <2>3, <3>1, <3>2 DEF PointsAt
  <2> QED  BY <2>2, <2>3
<1>14. Noisy'
  <2> SUFFICES ASSUME NEW q \in Runs, Begun(q)', Holds(q)', pointer'[Role(q)].run = q, q \notin quiet
               PROVE  \/ lease'[Role(q)].at <= pointer'[Role(q)].at
                      \/ record[q] # Never /\ lease'[Role(q)].at <= record[q]
    BY <1>2, <1>3 DEF Noisy, PointsAt, Never
  <2>1. Begun(q) /\ Holds(q) /\ lease'[Role(q)] = lease[Role(q)]  BY <1>11
  <2>2. Role(q) # Role(r)  BY <1>1, <1>6 DEF Free
  <2>3. pointer'[Role(q)] = pointer[Role(q)]  BY <1>6, <2>2, RoleOf
  <2> QED  BY <1>1, <2>1, <2>3 DEF Noisy, PointsAt
<1>15. Spared'
  <2> SUFFICES ASSUME NEW u \in Updaters, updater[u].step \in {"child", "skills"}, NEW q \in Runs, Begun(q)', Holds(q)'
               PROVE  q \in quiet \cup lost'
    BY <1>3 DEF Spared
  <2> QED  BY <1>1, <1>3, <1>11 DEF Spared
<1>16. Said'  BY <1>1, <1>3 DEF Said
<1> QED  BY <1>8, <1>9, <1>10, <1>12, <1>13, <1>14, <1>15, <1>16 DEF HostInv

(* A verb renews the lease of the run it acts for, and writes its record or leaves it quiet. *)
LEMMA VerbKeeps == ASSUME ConstantsOK, HostInv, NEW r \in Runs, Verb(r) PROVE HostInv'
<1>1. HostTypes /\ Locked /\ Named /\ Unlinks /\ Stands /\ Noisy /\ Spared /\ Said
      /\ MaxHour \in Nat /\ TTL \in Nat /\ NoRun \notin Runs
  BY DEF HostInv, ConstantsOK
<1> DEFINE p == pointer[Role(r)].run
<1>2. /\ UNCHANGED <<hour, pointer, run, shared, lost, faults, exclusive, updater, orphans, main, cli, skills, told>>
      /\ p # NoRun /\ lease[Role(r)].run = p /\ Active(Role(r)) /\ lease' = Renewed(p)
      /\ \/ record' = [record EXCEPT ![p] = hour] /\ quiet' = IF Installing THEN quiet ELSE quiet \ {p}
         \/ record' = record /\ quiet' = quiet \cup {p}
  BY DEF Verb, updateVars
<1>3. Role(r) \in Roles /\ (\A q : Role(q)' = Role(q))  BY RoleOf DEF Role
<1>4. p \in Runs /\ Role(p) = Role(r)  BY <1>1, <1>2, <1>3 DEF HostTypes, Named
<1> HIDE DEF p
<1>5. hour \in 0..MaxHour /\ hour # Never  BY <1>1 DEF HostTypes, Never
<1>6. lease'[Role(r)] = [run |-> p, at |-> hour] /\ \A x \in Roles : x # Role(r) => lease'[x] = lease[x]
  BY <1>1, <1>2, <1>3, <1>4 DEF Renewed, HostTypes
<1>7. HostTypes'
  <2>1. lease' \in [Roles -> [run: Runs \cup {NoRun}, at: 0..MaxHour]]
    BY <1>1, <1>2, <1>3, <1>4, <1>5 DEF Renewed, HostTypes
  <2>2. record' \in [Runs -> 0..MaxHour \cup {Never}]  BY <1>1, <1>2, <1>4, <1>5 DEF HostTypes
  <2>3. quiet' \subseteq Runs  BY <1>1, <1>2, <1>4 DEF HostTypes
  <2> QED  BY <1>1, <1>2, <2>1, <2>2, <2>3 DEF HostTypes, Never
<1>8. Locked' /\ Said'  BY <1>1, <1>2 DEF Locked, Beginning, Said
<1>9. Named'  BY <1>1, <1>2, <1>3, <1>4, <1>5, <1>6 DEF Named
<1>10. Holds(p)  BY <1>2, <1>4 DEF Holds
<1>11. ASSUME NEW q \in Runs, Begun(q)', Holds(q)' PROVE Begun(q) /\ Holds(q)
  <2>1. Begun(q)  BY <1>2, <1>11 DEF Begun
  <2>2. CASE Role(q) = Role(r)
    <3>1. q = p  BY <1>6, <1>11, <2>2 DEF Holds, Role
    <3> QED  BY <1>10, <2>1, <3>1
  <2>3. CASE Role(q) # Role(r)
    <3>1. lease'[Role(q)] = lease[Role(q)]  BY <1>6, <2>3, RoleOf
    <3> QED  BY <1>2, <1>11, <2>1, <3>1 DEF Holds, Active, Role
  <2> QED  BY <2>2, <2>3
<1>12. Unlinks' /\ Stands'  BY <1>1, <1>2, <1>3, <1>11 DEF Unlinks, Stands, PointsAt
<1>13. Noisy'
  <2> SUFFICES ASSUME NEW q \in Runs, Begun(q)', Holds(q)', pointer[Role(q)].run = q, q \notin quiet'
               PROVE  \/ lease'[Role(q)].at <= pointer[Role(q)].at
                      \/ record'[q] # Never /\ lease'[Role(q)].at <= record'[q]
    BY <1>2, <1>3 DEF Noisy, PointsAt, Never
  <2>1. CASE Role(q) = Role(r)
    <3>1. q = p  BY <2>1 DEF p
    <3>2. record'[p] = hour  BY <1>1, <1>2, <1>4, <3>1 DEF HostTypes
    <3> QED  BY <1>5, <1>6, <2>1, <3>1, <3>2
  <2>2. CASE Role(q) # Role(r)
    <3>1. lease'[Role(q)] = lease[Role(q)] /\ q # p  BY <1>4, <1>6, <2>2, RoleOf
    <3>2. record'[q] = record[q] /\ q \notin quiet  BY <1>1, <1>2, <3>1 DEF HostTypes
    <3> QED  BY <1>1, <1>11, <3>1, <3>2 DEF Noisy, PointsAt
  <2> QED  BY <2>1, <2>2
<1>14. Spared'
  <2> SUFFICES ASSUME NEW u \in Updaters, updater[u].step \in {"child", "skills"}, NEW q \in Runs, Begun(q)', Holds(q)'
               PROVE  q \in quiet' \cup lost
    BY <1>2 DEF Spared
  <2>1. quiet \subseteq quiet'  BY <1>2 DEF Installing
  <2> QED  BY <1>1, <1>11, <2>1 DEF Spared
<1> QED  BY <1>7, <1>8, <1>9, <1>12, <1>13, <1>14 DEF HostInv

(* An update goes on, while no lease, pointer or session moves. *)
LEMMA UpdateMoves ==
    ASSUME ConstantsOK, HostInv,
           UNCHANGED <<hour, lease, pointer, record, run, shared, quiet, lost>>,
           HostTypes', Locked', Spared', Said'
    PROVE  HostInv'
<1>1. Named /\ Unlinks /\ Stands /\ Noisy  BY DEF HostInv
<1>2. \A q \in Runs : (Holds(q)' <=> Holds(q)) /\ (Begun(q)' <=> Begun(q)) /\ (PointsAt(q)' <=> PointsAt(q))
  BY DEF Holds, Active, Role, Begun, PointsAt
<1>3. Named'  BY <1>1 DEF Named, Role
<1>4. Unlinks' /\ Stands' /\ Noisy'  BY <1>1, <1>2 DEF Unlinks, Stands, Noisy, Role, Never
<1> QED  BY <1>3, <1>4 DEF HostInv

(* An update looks for runs before it installs. *)
LEMMA LookKeeps == ASSUME ConstantsOK, HostInv, NEW u \in Updaters, Look(u) PROVE HostInv'
<1>1. HostTypes /\ Locked /\ Named /\ Stands /\ Noisy /\ Spared /\ Said
      /\ MaxHour \in Nat /\ TTL \in Nat /\ NoRun \notin Runs /\ MaxMain \in Nat \ {0}
  BY DEF HostInv, ConstantsOK
<1>2. /\ UNCHANGED <<hour, lease, pointer, record, run, shared, orphans, main, cli, skills, quiet, lost, faults>>
      /\ updater[u].step = "look"
  BY DEF Look
<1>3. exclusive = {u} /\ shared = {} /\ \A w \in Updaters : w # u => updater[w].step = "idle"
  BY <1>1, <1>2 DEF Locked
<1>4. CASE exclusive' = {} /\ updater' = [updater EXCEPT ![u] = Stopped] /\ UNCHANGED told
  <2>1. \A w \in Updaters : updater'[w].step = "idle"  BY <1>1, <1>3, <1>4 DEF HostTypes, Stopped
  <2>2. HostTypes'  BY <1>1, <1>2, <1>4 DEF HostTypes, Stopped, Never
  <2>3. Locked'  BY <1>1, <1>2, <1>4, <2>1 DEF Locked, Beginning
  <2>4. Spared' /\ Said'  BY <1>1, <1>2, <1>4, <2>1 DEF Spared, Said
  <2> QED  BY <1>2, <2>2, <2>3, <2>4, UpdateMoves
<1>5. CASE /\ ~\E x \in Roles : Live(x)
           /\ updater' = [updater EXCEPT ![u] = [step |-> IF main # cli THEN "child" ELSE "skills", version |-> main]]
           /\ told' = (told /\ main = cli) /\ UNCHANGED exclusive
  <2>1. /\ updater'[u] = [step |-> IF main # cli THEN "child" ELSE "skills", version |-> main]
        /\ \A w \in Updaters : w # u => updater'[w] = updater[w]
    BY <1>1, <1>5 DEF HostTypes
  <2>2. main \in 1..MaxMain /\ main \in 0..MaxMain  BY <1>1 DEF HostTypes
  <2>3. updater' \in [Updaters -> [step: {"idle", "look", "child", "skills"}, version: 0..MaxMain]]
    BY <1>1, <1>5, <2>2 DEF HostTypes
  <2>4. HostTypes'  BY <1>1, <1>2, <1>5, <2>3 DEF HostTypes, Never
  <2>5. Locked'  BY <1>1, <1>2, <1>3, <1>5, <2>1 DEF Locked, Beginning
  <2>6. Said'
    <3>1. told' => told /\ main = cli  BY <1>5
    <3>2. \A w \in Updaters : updater'[w].step = "child" => w = u /\ main # cli  BY <1>3, <2>1
    <3>3. \A w \in Updaters : updater'[w].step = "child" => updater'[w].version \in 1..MaxMain
      BY <2>1, <2>2, <3>2
    <3> QED  BY <1>1, <1>2, <3>1, <3>2, <3>3 DEF Said
  <2>7. ASSUME NEW q \in Runs, Begun(q), Holds(q) PROVE q \in quiet \cup lost
    <3> SUFFICES ASSUME q \notin lost, q \notin quiet PROVE FALSE  OBVIOUS
    <3>1. PointsAt(q)  BY <1>1, <2>7 DEF Stands
    <3>2. \/ lease[Role(q)].at <= pointer[Role(q)].at
          \/ record[q] # Never /\ lease[Role(q)].at <= record[q]
      BY <1>1, <2>7, <3>1 DEF Noisy
    <3>3. hour < lease[Role(q)].at + TTL  BY <2>7 DEF Holds, Active
    <3>4. /\ hour \in 0..MaxHour /\ Role(q) \in Roles
          /\ lease[Role(q)].at \in 0..MaxHour /\ pointer[Role(q)].at \in 0..MaxHour
          /\ record[q] \in 0..MaxHour \cup {Never}
      BY <1>1, RoleOf DEF HostTypes
    <3>5. Live(Role(q))
      <4>1. pointer[Role(q)].run = q /\ q # NoRun  BY <1>1, <3>1 DEF PointsAt
      <4>2. \/ hour < pointer[Role(q)].at + TTL
            \/ record[q] # Never /\ hour < record[q] + TTL
        BY <1>1, <3>2, <3>3, <3>4
      <4> QED  BY <4>1, <4>2 DEF Live
    <3> QED  BY <1>5, <3>4, <3>5
  <2>8. Spared'
    <3>1. \A q \in Runs : Begun(q)' /\ Holds(q)' => Begun(q) /\ Holds(q)
      BY <1>2 DEF Begun, Holds, Active, Role
    <3> QED  BY <1>2, <2>7, <3>1 DEF Spared
  <2> QED  BY <1>2, <2>4, <2>5, <2>6, <2>8, UpdateMoves
<1> QED  BY <1>4, <1>5 DEF Look

(* The other steps of an update, and what the install of one that died leaves behind. *)
LEMMA UpdaterKeeps ==
    ASSUME ConstantsOK, HostInv, NEW u \in Updaters,
           LockExclusive(u) \/ Install(u) \/ InstallSkills(u) \/ UpdaterDies(u)
    PROVE  HostInv'
<1>1. HostTypes /\ Locked /\ Spared /\ Said /\ MaxMain \in Nat \ {0} /\ MaxFaults \in Nat
  BY DEF HostInv, ConstantsOK
<1>2. /\ UNCHANGED <<hour, lease, pointer, record, run, shared, main, quiet, lost>>
  BY DEF LockExclusive, Install, InstallSkills, UpdaterDies
<1>3. \A w \in Updaters : updater[w].step # "idle" => exclusive = {w} /\ shared = {}
  BY <1>1 DEF Locked
<1>4. \A q \in Runs : (Begun(q)' /\ Holds(q)' => Begun(q) /\ Holds(q)) /\ (Beginning(q)' <=> Beginning(q))
  BY <1>2 DEF Begun, Holds, Active, Role, Beginning
<1>5. Fault => faults' \in 0..MaxFaults  BY <1>1 DEF Fault, HostTypes
<1>6. CASE LockExclusive(u)
  <2>1. /\ UNCHANGED <<orphans, cli, skills, told, faults>>
        /\ updater' = [updater EXCEPT ![u].step = "look"] /\ exclusive = {} /\ shared = {} /\ exclusive' = {u}
    BY <1>6 DEF LockExclusive, UpdaterTo
  <2>2. \A w \in Updaters : updater[w].step = "idle"  BY <1>1, <2>1 DEF Locked
  <2>3. /\ updater'[u].step = "look" /\ \A w \in Updaters : w # u => updater'[w] = updater[w]
        /\ updater' \in [Updaters -> [step: {"idle", "look", "child", "skills"}, version: 0..MaxMain]]
    BY <1>1, <2>1 DEF HostTypes
  <2>4. HostTypes'  BY <1>1, <1>2, <2>1, <2>3 DEF HostTypes, Never
  <2>5. Locked'
    <3>1. \A w \in Updaters : updater'[w].step # "idle" => w = u  BY <2>2, <2>3
    <3> QED  BY <1>1, <1>2, <1>4, <2>1, <3>1 DEF Locked
  <2>6. Spared' /\ Said'
    <3>1. \A w \in Updaters : updater'[w].step \notin {"child", "skills"}  BY <2>2, <2>3
    <3> QED  BY <1>1, <2>1, <3>1 DEF Spared, Said
  <2> QED  BY <1>2, <2>4, <2>5, <2>6, UpdateMoves
<1>7. CASE Install(u) /\ exclusive' = exclusive
  <2>1. /\ UNCHANGED <<orphans, skills, told>> /\ updater[u].step = "child"
    BY <1>7 DEF Install
  <2>2. exclusive = {u}  BY <1>3, <2>1
  <2>3. cli' = updater[u].version /\ updater' = [updater EXCEPT ![u].step = "skills"] /\ faults' = faults
    BY <1>7, <2>2 DEF Install, UpdaterTo
  <2>4. cli' \in 1..MaxMain /\ ~told  BY <1>1, <2>1, <2>3 DEF Said
  <2>5. /\ updater'[u].step = "skills" /\ \A w \in Updaters : w # u => updater'[w] = updater[w]
        /\ updater' \in [Updaters -> [step: {"idle", "look", "child", "skills"}, version: 0..MaxMain]]
    BY <1>1, <2>3 DEF HostTypes
  <2>6. HostTypes'  BY <1>1, <1>2, <1>7, <2>1, <2>3, <2>4, <2>5 DEF HostTypes, Never
  <2>7. Locked'
    <3>1. \A w \in Updaters : updater'[w].step # "idle" => exclusive = {w}  BY <1>3, <2>2, <2>5
    <3> QED  BY <1>1, <1>2, <1>4, <1>7, <3>1 DEF Locked
  <2>8. Spared'  BY <1>1, <1>2, <1>4, <2>1 DEF Spared
  <2>9. Said'
    <3>1. \A w \in Updaters : updater'[w].step = "child" => updater'[w] = updater[w]  BY <2>5
    <3> QED  BY <1>1, <2>1, <2>4, <3>1 DEF Said
  <2> QED  BY <1>2, <2>6, <2>7, <2>8, <2>9, UpdateMoves
<1>8. ASSUME updater[u].step # "idle", exclusive' = {}, updater' = [updater EXCEPT ![u] = Stopped],
             HostTypes', told' => skills' = cli' /\ orphans' = {}
      PROVE  HostInv'
  <2>1. \A w \in Updaters : updater'[w].step = "idle"
    <3>1. exclusive = {u}  BY <1>3, <1>8
    <3>2. \A w \in Updaters : w # u => updater[w].step = "idle" /\ updater'[w] = updater[w]
      BY <1>1, <1>3, <1>8, <3>1 DEF HostTypes
    <3>3. updater'[u] = Stopped  BY <1>1, <1>8 DEF HostTypes
    <3> QED  BY <3>2, <3>3 DEF Stopped
  <2>2. Locked'
    <3>1. \A q \in Runs : Beginning(q)' => q \in shared'  BY <1>1, <1>2, <1>4 DEF Locked
    <3> QED  BY <1>8, <2>1, <3>1 DEF Locked
  <2>3. Spared' /\ Said'  BY <1>8, <2>1 DEF Spared, Said
  <2> QED  BY <1>2, <1>8, <2>2, <2>3, UpdateMoves
<1>9. exclusive' = {} /\ updater' = [updater EXCEPT ![u] = Stopped] =>
        /\ exclusive' \subseteq Updaters
        /\ updater' \in [Updaters -> [step: {"idle", "look", "child", "skills"}, version: 0..MaxMain]]
  BY <1>1 DEF HostTypes, Stopped
<1>10. CASE Install(u) /\ exclusive' # exclusive
  <2>1. /\ UNCHANGED <<orphans, skills, told, cli>> /\ updater[u].step = "child" /\ Fault
        /\ exclusive' = {} /\ updater' = [updater EXCEPT ![u] = Stopped]
    BY <1>10 DEF Install
  <2>2. HostTypes'  BY <1>1, <1>2, <1>5, <1>9, <2>1 DEF HostTypes, Never
  <2>3. ~told  BY <1>1, <2>1 DEF Said
  <2> QED  BY <1>8, <2>1, <2>2, <2>3
<1>11. CASE InstallSkills(u)
  <2>1. /\ UNCHANGED <<orphans, cli>> /\ updater[u].step = "skills"
        /\ exclusive' = {} /\ updater' = [updater EXCEPT ![u] = Stopped]
        /\ \/ skills' = cli /\ told' = (orphans = {}) /\ faults' = faults
           \/ skills' = skills /\ told' = FALSE /\ Fault
    BY <1>11 DEF InstallSkills, NewSkills
  <2>2. HostTypes'  BY <1>1, <1>2, <1>5, <1>9, <2>1 DEF HostTypes, Never
  <2> QED  BY <1>8, <2>1, <2>2
<1>12. CASE UpdaterDies(u)
  <2>1. /\ UNCHANGED <<cli, skills, told>> /\ updater[u].step # "idle" /\ Fault
        /\ exclusive' = {} /\ updater' = [updater EXCEPT ![u] = Stopped]
        /\ orphans' = IF updater[u].step = "child" THEN orphans \cup {updater[u].version} ELSE orphans
    BY <1>12 DEF UpdaterDies
  <2>2. orphans' \subseteq 1..MaxMain  BY <1>1, <2>1 DEF HostTypes, Said
  <2>3. HostTypes'  BY <1>1, <1>2, <1>5, <1>9, <2>1, <2>2 DEF HostTypes, Never
  <2>4. told => skills = cli /\ orphans' = {}  BY <1>1, <2>1 DEF Said
  <2> QED  BY <1>8, <2>1, <2>3, <2>4
<1> QED  BY <1>6, <1>7, <1>10, <1>11, <1>12

LEMMA OthersKeep == ConstantsOK /\ HostInv /\ (Publish \/ OrphanEnds) => HostInv'
<1> SUFFICES ASSUME ConstantsOK, HostInv, Publish \/ OrphanEnds PROVE HostInv'  OBVIOUS
<1>1. HostTypes /\ Locked /\ Spared /\ Said /\ MaxMain \in Nat \ {0}
  BY DEF HostInv, ConstantsOK
<1>2. UNCHANGED <<hour, lease, pointer, record, run, shared, exclusive, updater, skills, told, quiet, lost, faults>>
  BY DEF Publish, OrphanEnds
<1>3. /\ main' \in 1..MaxMain /\ cli' \in 1..MaxMain /\ orphans' \subseteq 1..MaxMain
      /\ told => cli' = cli /\ orphans' = orphans
  <2>1. CASE Publish  BY <1>1, <2>1 DEF Publish, HostTypes
  <2>2. CASE OrphanEnds
    <3>1. PICK v \in orphans : orphans' = orphans \ {v} /\ cli' = v /\ main' = main
      BY <2>2 DEF OrphanEnds
    <3> QED  BY <1>1, <3>1 DEF HostTypes, Said
  <2> QED  BY <2>1, <2>2
<1>4. HostTypes'  BY <1>1, <1>2, <1>3 DEF HostTypes, Never
<1>5. Locked'  BY <1>1, <1>2 DEF Locked, Beginning
<1>6. Spared' /\ Said'  BY <1>1, <1>2, <1>3 DEF Spared, Said, Begun, Holds, Active, Role
<1> QED  BY <1>2, <1>4, <1>5, <1>6, UpdateMoves

(* Every step keeps the invariant, ... *)
LEMMA HostNext == ConstantsOK /\ HostInv /\ [Next]_vars => HostInv'
<1> SUFFICES ASSUME ConstantsOK, HostInv, [Next]_vars PROVE HostInv'  OBVIOUS
<1>1. CASE Tick \/ Publish \/ OrphanEnds  BY <1>1, TickKeeps, OthersKeep
<1>2. CASE \E r \in Runs : \/ Begin(r) \/ LockShared(r) \/ TakeLease(r) \/ SaveRecord(r) \/ Pulled(r) \/ End(r)
                           \/ ReadPointer(r) \/ Dies(r)
  BY <1>2, SessionKeeps
<1>3. CASE \E r \in Runs : SetPointer(r) \/ Unlink(r) \/ Verb(r)
  BY <1>3, SetPointerKeeps, UnlinkKeeps, VerbKeeps
<1>4. CASE \E r \in Runs : PullFails(r)  BY <1>4, SessionKeeps, UnlinkKeeps
<1>5. CASE \E u \in Updaters : LockExclusive(u) \/ Look(u) \/ Install(u) \/ InstallSkills(u) \/ UpdaterDies(u)
  BY <1>5, LookKeeps, UpdaterKeeps
<1>6. CASE UNCHANGED vars
  <2>1. HostTypes /\ Locked /\ Spared /\ Said  BY DEF HostInv
  <2>2. UNCHANGED <<hour, lease, pointer, record, run, shared, exclusive, updater, orphans, main, cli, skills,
                    told, quiet, lost, faults>>
    BY <1>6 DEF vars
  <2>3. HostTypes'  BY <2>1, <2>2 DEF HostTypes, Never
  <2>4. Locked'  BY <2>1, <2>2 DEF Locked, Beginning
  <2>5. Spared' /\ Said'  BY <2>1, <2>2 DEF Spared, Said, Begun, Holds, Active, Role
  <2> QED  BY <2>2, <2>3, <2>4, <2>5, UpdateMoves
<1> QED  BY <1>1, <1>2, <1>3, <1>4, <1>5, <1>6 DEF Next

(* ... and with it runs and updates keep out of each other's way. *)
LEMMA HostSafe == ConstantsOK /\ HostInv => UpdatesSpareRuns
<1> SUFFICES ASSUME ConstantsOK, HostInv PROVE UpdatesSpareRuns  OBVIOUS
<1>1. HostTypes /\ Locked /\ Stands /\ Spared /\ Said  BY DEF HostInv
<1>2. TypeOK
  <2>1. Cardinality(exclusive) <= 1
    <3>1. CASE exclusive = {}  BY <3>1, FS_EmptySet
    <3>2. CASE \E u \in Updaters : exclusive = {u}  BY <3>2, FS_Singleton
    <3> QED  BY <1>1, <3>1, <3>2 DEF Locked
  <2> QED  BY <1>1, <2>1 DEF TypeOK, HostTypes, Hours
<1>3. NoInstallUnderRun
  <2> SUFFICES ASSUME NEW u \in Updaters, updater[u].step \in {"child", "skills"}, NEW r \in Runs
               PROVE  /\ run[r] \notin {"lease", "pointer", "record"}
                      /\ run[r] = "on" /\ lease[Role(r)].run = r /\ Active(Role(r)) => r \in quiet \cup lost
    BY DEF NoInstallUnderRun
  <2>1. exclusive = {u} /\ shared = {}  BY <1>1 DEF Locked
  <2>2. ~Beginning(r)  BY <1>1, <2>1 DEF Locked
  <2> QED  BY <1>1, <2>2 DEF Beginning, Spared, Begun, Holds
<1>4. PointerStands  BY <1>1 DEF PointerStands, Stands, Begun, Holds
<1>5. SkillsFollow  BY <1>1 DEF SkillsFollow, Said
<1> QED  BY <1>2, <1>3, <1>4, <1>5 DEF UpdatesSpareRuns

(* An update never replaces the program under a run it could see, a run's pointer stands, and what *)
(* an update said of the skills holds (UpdatesSpareRuns), for any number of runs and updates, any  *)
(* clock, deaths, lost answers and failed installs.                                                *)
THEOREM HostsAreKept == ASSUME ConstantsOK PROVE Spec => []UpdatesSpareRuns
<1>1. Init => HostInv  BY HostInit
<1>2. HostInv /\ [Next]_vars => HostInv'  BY HostNext
<1>3. HostInv => UpdatesSpareRuns  BY HostSafe
<1> QED  BY <1>1, <1>2, <1>3, PTL DEF Spec

-----------------------------------------------------------------------------
(* Trust. *)

(* Every concept cites what its content was written from, whoever touched it since. *)
BasisCited == \A c \in Concepts : basis[c] \subseteq doc[c].cites

(* A concept nobody touched by hand cites what is there. *)
CitesThere == \A c \in Concepts \ byHand : U!Exists(doc[c]) => doc[c].cites \subseteq sources

(* The inductive invariant. *)
TrustInv == U!TypeOK /\ U!TrustEarned /\ CitesThere /\ BasisCited

-----------------------------------------------------------------------------
(* A bounded set of times that is not empty has a latest one. *)
LEMMA Latest ==
    ASSUME NEW n \in Nat, NEW S \in SUBSET (0..n), S # {}
    PROVE  U!LatestOf(S) \in S /\ \A u \in S : u <= U!LatestOf(S)
<1> DEFINE T == {k \in 0..n : n - k \in S}
<1>0. PICK s \in S : s \in 0..n  OBVIOUS
<1>1. T \subseteq Nat /\ n - s \in T  BY <1>0
<1>2. PICK x \in T : \A y \in T : ~ (<<y, x>> \in OpToRel(<, Nat))
  <2>1. IsWellFoundedOn(OpToRel(<, Nat), Nat) BY NatLessThanWellFounded
  <2> HIDE DEF T
  <2> QED BY <1>1, <2>1, WFMin
<1>3. \A y \in T : ~(y < x)
  BY <1>1, <1>2, Zenon DEF OpToRel
<1>4. n - x \in S /\ x \in 0..n  OBVIOUS
<1>5. \A u \in S : u <= n - x
  <2> SUFFICES ASSUME NEW u \in S PROVE u <= n - x OBVIOUS
  <2>1. u \in 0..n OBVIOUS
  <2>2. n - u \in T BY <2>1
  <2>3. ~(n - u < x) BY <1>3, <2>2
  <2> QED BY <1>4, <2>1, <2>3
<1> QED BY <1>4, <1>5 DEF U!LatestOf

(* A document that is there. *)
LEMMA DocType ==
    ASSUME U!ConstantsOK, U!TypeOK, NEW c \in Concepts
    PROVE  /\ doc[c] \in U!Docs \cup {U!Absent} /\ doc[c].events \in SUBSET U!Events /\ doc[c].cites \in SUBSET Evidence
           /\ doc[c].at \in 0..MaxTime
           /\ U!Exists(doc[c]) => doc[c] \in U!Docs
<1>1. doc[c] \in U!Docs \cup {U!Absent} /\ 0 \in 0..MaxTime  BY DEF U!TypeOK, U!ConstantsOK
<1>2. CASE doc[c] \in U!Docs  BY <1>2 DEF U!Docs, U!Times
<1>3. CASE doc[c] = U!Absent  BY <1>1, <1>3 DEF U!Absent, U!Exists
<1> QED  BY <1>1, <1>2, <1>3

(* A new generation is later than all there was. *)
LEMMA StampIsNew ==
    ASSUME U!ConstantsOK, now \in U!Times, NEW d, d.at \in 0..MaxTime, d.events \in SUBSET U!Events
    PROVE  /\ U!Stamp(d) \in Nat \ {0} /\ U!Stamp(d) > d.at
           /\ \A e \in d.events : U!Stamp(d) > e.at
<1> DEFINE S == {d.at} \cup {e.at : e \in d.events}
<1>1. MaxTime \in Nat /\ S \in SUBSET (0..MaxTime) /\ S # {} /\ d.at \in S /\ \A e \in d.events : e.at \in S
  BY DEF U!ConstantsOK, U!Events, U!Times
<1>2. U!LatestOf(S) \in S /\ \A u \in S : u <= U!LatestOf(S)
  <2> HIDE DEF S
  <2> QED  BY <1>1, Latest
<1>3. U!Stamp(d) = IF now <= U!LatestOf(S) THEN U!LatestOf(S) + 1 ELSE now
  BY DEF U!Stamp
<1> HIDE DEF S
<1>4. U!LatestOf(S) \in Nat /\ now \in Nat /\ now > 0
  <2>1. U!LatestOf(S) \in 0..MaxTime /\ MaxTime \in Nat  BY <1>1, <1>2
  <2> QED  BY <2>1 DEF U!Times
<1>5. U!Stamp(d) > U!LatestOf(S) /\ U!Stamp(d) \in Nat \ {0}
  BY <1>3, <1>4
<1>6. \A u \in S : U!Stamp(d) > u
  <2> SUFFICES ASSUME NEW u \in S PROVE U!Stamp(d) > u  OBVIOUS
  <2>1. u \in Nat /\ u <= U!LatestOf(S)  BY <1>1, <1>2
  <2> QED  BY <1>4, <1>5, <2>1
<1> QED  BY <1>1, <1>5, <1>6

(* A document read by its fields. *)
LEMMA SameDoc ==
    ASSUME NEW d \in U!Docs, NEW e \in U!Docs, d.text = e.text, d.cites = e.cites, d.status = e.status,
           d.by = e.by, d.at = e.at, d.events = e.events
    PROVE  d = e
  BY DEF U!Docs

-----------------------------------------------------------------------------
(* A pass of a curator: what the policies let through keeps every verification there is, and   *)
(* what it writes reads as unverified.                                                          *)
LEMMA CurationKeepsTrust ==
    ASSUME U!ConstantsOK, TrustInv, NEW c \in Concepts, NEW edit \in U!Docs \cup {U!Absent}, NEW tree,
           tree = [doc EXCEPT ![c] = edit], NEW there \in SUBSET Evidence, sources \subseteq there,
           NEW evidence \in Evidence, NEW actor, NEW latest,
           U!CurationPolicy(tree, there, actor, latest), U!ProvenancePolicy(tree, evidence),
           U!Land(tree, there, evidence), UNCHANGED <<now, judged>>, UNCHANGED pushes,
           passes' \in 0..MaxPasses
    PROVE  TrustInv'
<1>1. /\ doc' = tree /\ sources' = there /\ byHand' = byHand \ U!Changed(tree)
      /\ basis' = [a \in Concepts |-> IF a \in U!Changed(tree) THEN {evidence} ELSE basis[a]]
      /\ UNCHANGED <<now, judged, pushes>>
  BY DEF U!Land
<1>2. /\ doc \in [Concepts -> U!Docs \cup {U!Absent}] /\ tree \in [Concepts -> U!Docs \cup {U!Absent}]
      /\ tree[c] = edit /\ \A a \in Concepts : a # c => tree[a] = doc[a]
  BY DEF TrustInv, U!TypeOK
<1>3. U!TypeOK'
  <2>1. basis' \in [Concepts -> SUBSET Evidence] /\ byHand' \subseteq Concepts
    BY <1>1 DEF TrustInv, U!TypeOK
  <2> QED  BY <1>1, <1>2, <2>1 DEF TrustInv, U!TypeOK
(* Where the content and the status stay, everything does; else nothing is verified any more. *)
<1>4. \A a \in Concepts : tree[a] = doc[a] \/ U!CurrentVerified(tree[a]) = {}
  <2> SUFFICES ASSUME tree[c] # doc[c]  PROVE  U!CurrentVerified(tree[c]) = {}
    BY <1>2
  <2>1. CASE ~U!Exists(doc[c])
    <3>1. U!Exists(tree[c])  BY <2>1 DEF U!Exists
    <3>2. tree[c].events = {}  BY <2>1, <3>1 DEF U!CurationPolicy, U!NewPolicy
    <3> QED  BY <3>2 DEF U!CurrentVerified
  <2>2. CASE U!Exists(doc[c])
    <3>1. U!ConceptPolicy(doc[c], tree[c], actor, latest) /\ U!Exists(tree[c])
      BY <2>2 DEF U!CurationPolicy
    <3>2. CASE U!Content(tree[c]) # U!Content(doc[c]) \/ tree[c].status # doc[c].status
      BY <3>1, <3>2 DEF U!ConceptPolicy, U!SubstancePolicy, U!Advances
    <3>3. CASE U!Content(tree[c]) = U!Content(doc[c]) /\ tree[c].status = doc[c].status
      <4>1. tree[c].by = doc[c].by /\ tree[c].at = doc[c].at /\ tree[c].events = doc[c].events
        BY <3>1, <3>3 DEF U!ConceptPolicy, U!GenerationPolicy
      <4>2. tree[c].text = doc[c].text /\ tree[c].cites = doc[c].cites
        BY <3>3 DEF U!Content
      <4>3. tree[c] \in U!Docs /\ doc[c] \in U!Docs
        BY <1>2, <2>2, <3>1 DEF U!Exists
      <4> QED  BY <3>3, <4>1, <4>2, <4>3, SameDoc
    <3> QED  BY <3>2, <3>3
  <2> QED  BY <2>1, <2>2
<1>5. U!TrustEarned'
  <2> SUFFICES ASSUME NEW a \in Concepts, a \notin byHand', NEW e \in U!CurrentVerified(tree[a])
               PROVE  [of |-> a, event |-> e, content |-> U!Content(tree[a])] \in judged
    BY <1>1 DEF U!TrustEarned, U!CurrentVerified, U!Content
  <2>1. tree[a] = doc[a]  BY <1>4
  <2>2. a \notin byHand  BY <1>1, <2>1 DEF U!Changed
  <2> QED  BY <2>1, <2>2 DEF TrustInv, U!TrustEarned
<1>6. \A a \in Concepts : tree[a].cites \subseteq there
  BY DEF U!CurationPolicy, U!Resolve
<1>7. CitesThere'
  BY <1>1, <1>6 DEF CitesThere
<1>8. BasisCited'
  <2> SUFFICES ASSUME NEW a \in Concepts  PROVE  basis'[a] \subseteq tree[a].cites
    BY <1>1 DEF BasisCited
  <2>1. CASE a \in U!Changed(tree)
    BY <1>1, <2>1 DEF U!Changed, U!ProvenancePolicy, U!Cited
  <2>2. CASE a \notin U!Changed(tree)
    <3>1. tree[a].cites = doc[a].cites  BY <2>2 DEF U!Changed, U!Content
    <3> QED  BY <1>1, <2>2, <3>1 DEF TrustInv, BasisCited
  <2> QED  BY <2>1, <2>2
<1> QED  BY <1>3, <1>5, <1>7, <1>8 DEF TrustInv

(* What the bookkeeping makes of an edit is a document. *)
LEMMA BookkeptType ==
    ASSUME U!ConstantsOK, U!TypeOK, NEW c \in Concepts, NEW actor \in U!Actors, NEW edit,
           edit \in [text: Texts, cites: SUBSET Evidence, status: {"draft", "stable"}, by: U!Actors,
                     at: 0..MaxTime, events: SUBSET U!Events],
           U!Bookkept(doc[c], edit, actor).at <= MaxTime
    PROVE  U!Bookkept(doc[c], edit, actor) \in U!Docs
<1>1. U!Stamp(doc[c]) \in Nat \ {0} /\ doc[c].events \in SUBSET U!Events
  BY DocType, StampIsNew DEF U!TypeOK
<1>2. CASE U!Content(edit) = U!Content(doc[c]) /\ edit.status = doc[c].status
  <2>1. doc[c] # U!Absent  BY <1>2 DEF U!Absent
  <2> QED  BY <1>2, <2>1, DocType DEF U!Bookkept, U!Exists
<1>3. CASE ~(U!Content(edit) = U!Content(doc[c]) /\ edit.status = doc[c].status)
  <2>1. U!Bookkept(doc[c], edit, actor)
          = [text |-> edit.text, cites |-> edit.cites, status |-> edit.status, by |-> actor,
             at |-> U!Stamp(doc[c]), events |-> doc[c].events]
    BY <1>3 DEF U!Bookkept
  <2>2. U!Stamp(doc[c]) \in U!Times  BY <1>1, <2>1 DEF U!Times, U!ConstantsOK
  <2> QED  BY <1>1, <2>1, <2>2 DEF U!Docs
<1> QED  BY <1>2, <1>3

(* A Codex curation keeps all of it, whatever its agent wrote. *)
LEMMA CurateStep ==
    ASSUME U!ConstantsOK, TrustInv, NEW c \in Concepts, NEW evidence \in Evidence, U!Curate(c, evidence)
    PROVE  TrustInv'
<1>0. U!TypeOK  BY DEF TrustInv
<1>1. PICK left \in SUBSET Evidence, edit \in U!Patched(doc[c], Curator) \cup U!Unpatched(doc[c]) \cup {U!Absent} :
         /\ edit.at <= MaxTime
         /\ U!SourcePolicy(left \cup {evidence}, evidence)
         /\ U!CurationPolicy([doc EXCEPT ![c] = edit], left \cup {evidence}, Curator, now + Skew)
         /\ U!ProvenancePolicy([doc EXCEPT ![c] = edit], evidence)
         /\ U!Land([doc EXCEPT ![c] = edit], left \cup {evidence}, evidence)
  BY DEF U!Curate
<1>2. edit \in U!Docs \cup {U!Absent}
  <2>1. CASE edit \in U!Patched(doc[c], Curator)
    <3>1. PICK raw \in [text: Texts, cites: SUBSET Evidence, status: {"draft", "stable"},
                        by: {Curator}, at: {0}, events: {{}}] : edit = U!Bookkept(doc[c], raw, Curator)
      BY <2>1 DEF U!Patched
    <3>2. raw \in [text: Texts, cites: SUBSET Evidence, status: {"draft", "stable"}, by: U!Actors,
                   at: 0..MaxTime, events: SUBSET U!Events]
      BY DEF U!Actors, U!ConstantsOK
    <3>3. Curator \in U!Actors  BY DEF U!Actors
    <3> QED  BY <1>0, <1>1, <3>1, <3>2, <3>3, BookkeptType
  <2>2. CASE edit \in U!Unpatched(doc[c])
    <3>1. doc[c].by \in U!Actors  BY <1>0 DEF U!TypeOK, U!Docs, U!Absent, U!Actors
    <3>2. {doc[c].by, Curator, Auditor} \subseteq U!Actors  BY <3>1 DEF U!Actors
    <3>3. [by |-> Auditor, at |-> now] \in U!Events  BY <1>0 DEF U!TypeOK, U!Events, U!Actors
    <3>4. {doc[c].events, {}, doc[c].events \cup {[by |-> Auditor, at |-> now]}} \subseteq SUBSET U!Events
      BY <1>0, <3>3, DocType
    <3> QED  BY <2>2, <3>2, <3>4 DEF U!Unpatched, U!Docs
  <2> QED  BY <1>1, <2>1, <2>2
<1>3. sources \subseteq left \cup {evidence}  BY <1>1 DEF U!SourcePolicy
<1>4. passes' \in 0..MaxPasses  BY <1>0 DEF U!Curate, U!Pass, U!TypeOK, U!ConstantsOK
<1>5. UNCHANGED <<now, judged>> /\ UNCHANGED pushes  BY DEF U!Curate
<1>6. left \cup {evidence} \in SUBSET Evidence  OBVIOUS
<1> DEFINE tree == [doc EXCEPT ![c] = edit]
           there == left \cup {evidence}
           latest == now + Skew
<1>7. U!CurationPolicy(tree, there, Curator, latest) /\ U!ProvenancePolicy(tree, evidence) /\ U!Land(tree, there, evidence)
  BY <1>1
<1>8. tree = [doc EXCEPT ![c] = edit] /\ sources \subseteq there /\ there \in SUBSET Evidence
  BY <1>3, <1>6
<1> HIDE DEF tree, there, latest
<1> QED  BY <1>2, <1>4, <1>5, <1>7, <1>8, CurationKeepsTrust

(* A changeset that is taken keeps all of it: the gate adds evidence and drops none. *)
LEMMA ProposeStep ==
    ASSUME U!ConstantsOK, TrustInv, NEW c \in Concepts, NEW evidence \in Evidence, U!Propose(c, evidence)
    PROVE  TrustInv'
<1>0. U!TypeOK  BY DEF TrustInv
<1> DEFINE Edit(x, k) == [doc[c] EXCEPT !.text = x, !.cites = @ \cup k,
                                        !.status = IF U!Exists(doc[c]) THEN @ ELSE "draft"]
<1>1. PICK x \in Texts, k \in SUBSET Evidence :
         /\ [doc EXCEPT ![c] = U!Bookkept(doc[c], Edit(x, k), Writer)][c].at <= MaxTime
         /\ U!CurationPolicy([doc EXCEPT ![c] = U!Bookkept(doc[c], Edit(x, k), Writer)],
                           sources \cup {evidence}, Writer, MaxTime)
         /\ U!ProvenancePolicy([doc EXCEPT ![c] = U!Bookkept(doc[c], Edit(x, k), Writer)], evidence)
         /\ U!Land([doc EXCEPT ![c] = U!Bookkept(doc[c], Edit(x, k), Writer)], sources \cup {evidence}, evidence)
  BY DEF U!Propose
<1> DEFINE edit == U!Bookkept(doc[c], Edit(x, k), Writer)
           tree == [doc EXCEPT ![c] = edit]
           there == sources \cup {evidence}
<1>2. edit.at <= MaxTime  BY <1>0, <1>1 DEF U!TypeOK
<1>3. Edit(x, k) \in [text: Texts, cites: SUBSET Evidence, status: {"draft", "stable"}, by: U!Actors,
                      at: 0..MaxTime, events: SUBSET U!Events]
  <2>1. Edit(x, k) = [text |-> x, cites |-> doc[c].cites \cup k,
                      status |-> IF U!Exists(doc[c]) THEN doc[c].status ELSE "draft",
                      by |-> doc[c].by, at |-> doc[c].at, events |-> doc[c].events]
    <3> DEFINE status == IF U!Exists(doc[c]) THEN doc[c].status ELSE "draft"
    <3>1. PICK d : d = doc[c]  OBVIOUS
    <3>2. d = [text |-> d.text, cites |-> d.cites, status |-> d.status, by |-> d.by, at |-> d.at,
               events |-> d.events]
      <4>1. CASE d \in U!Docs  BY <4>1 DEF U!Docs
      <4>2. CASE d = U!Absent  BY <4>2 DEF U!Absent
      <4> QED  BY <1>0, <3>1, <4>1, <4>2, DocType
    <3>3. Edit(x, k) = [d EXCEPT !.text = x, !.cites = d.cites \cup k, !.status = status]
      BY <3>1, <3>2
    <3> HIDE DEF status, Edit
    <3>4. Edit(x, k) = [text |-> x, cites |-> d.cites \cup k, status |-> status, by |-> d.by, at |-> d.at,
                        events |-> d.events]
      BY <3>2, <3>3
    <3> QED  BY <3>1, <3>4 DEF status
  <2>2. doc[c].by \in U!Actors /\ (U!Exists(doc[c]) => doc[c].status \in {"draft", "stable"})
    BY <1>0 DEF U!TypeOK, U!Docs, U!Absent, U!Actors, U!Exists
  <2>3. doc[c].events \in SUBSET U!Events /\ doc[c].cites \in SUBSET Evidence /\ doc[c].at \in 0..MaxTime
    BY <1>0, DocType
  <2> QED  BY <2>1, <2>2, <2>3
<1>4. edit \in U!Docs \cup {U!Absent}
  <2>1. Writer \in U!Actors  BY DEF U!Actors
  <2> HIDE DEF Edit
  <2> QED  BY <1>0, <1>2, <1>3, <2>1, BookkeptType
<1>5. passes' \in 0..MaxPasses  BY <1>0 DEF U!Propose, U!Pass, U!TypeOK, U!ConstantsOK
<1>6. UNCHANGED <<now, judged>> /\ UNCHANGED pushes  BY DEF U!Propose
<1>7. there \in SUBSET Evidence /\ sources \subseteq there  BY <1>0 DEF U!TypeOK
<1>8. U!CurationPolicy(tree, there, Writer, MaxTime) /\ U!ProvenancePolicy(tree, evidence) /\ U!Land(tree, there, evidence)
  BY <1>1
<1>9. tree = [doc EXCEPT ![c] = edit]  OBVIOUS
<1> HIDE DEF tree, there, edit
<1> QED  BY <1>4, <1>5, <1>6, <1>7, <1>8, <1>9, CurationKeepsTrust

(* An audit keeps all of it: of what its auditor rewrote nothing reads as verified, what it left  *)
(* is verified as it was, and by the one event the audit adds.                                    *)
LEMMA AuditStep ==
    ASSUME U!ConstantsOK, TrustInv, NEW c \in Concepts, NEW evidence \in Evidence, U!Audit(c, evidence)
    PROVE  TrustInv'
<1>0. U!TypeOK  BY DEF TrustInv
<1> DEFINE d == doc[c]
           Edit(x) == IF x = d.text THEN d ELSE [d EXCEPT !.text = x, !.by = Auditor, !.at = U!Stamp(d)]
           Result(x, verdict) ==
              [(IF verdict = "verified" THEN U!Confirmed(d, Edit(x)) ELSE Edit(x)) EXCEPT !.status = "stable"]
<1>1. PICK x \in Texts, verdict \in {"verified", "unverified"} :
         /\ U!AuditPolicy(d, Result(x, verdict), evidence)
         /\ U!LatestOf({Result(x, verdict).at} \cup {e.at : e \in Result(x, verdict).events}) <= MaxTime
         /\ doc' = [doc EXCEPT ![c] = Result(x, verdict)]
         /\ judged' = judged \cup {[of |-> c, event |-> e, content |-> U!Content(d)] :
                                     e \in Result(x, verdict).events \ d.events}
         /\ byHand' = IF x = d.text THEN byHand ELSE byHand \ {c}
  BY DEF U!Audit
<1>2. d \in U!Docs /\ UNCHANGED <<sources, now, basis, pushes>> /\ passes' \in 0..MaxPasses
  BY <1>0, DocType DEF U!Audit, U!Pass, U!TypeOK, U!ConstantsOK
<1>3. /\ d.text \in Texts /\ d.cites \in SUBSET Evidence /\ d.by \in U!Actors /\ d.at \in U!Times
      /\ d.events \in SUBSET U!Events /\ now \in U!Times /\ MaxTime \in Nat
      /\ d = [text |-> d.text, cites |-> d.cites, status |-> d.status, by |-> d.by, at |-> d.at,
              events |-> d.events]
  BY <1>0, <1>2 DEF U!Docs, U!TypeOK, U!ConstantsOK
<1> DEFINE result == Result(x, verdict)
           at == IF x = d.text THEN d.at ELSE U!Stamp(d)
           by == IF x = d.text THEN d.by ELSE Auditor
           event == [by |-> Auditor, at |-> U!EventAt(d)]
           events == IF x = d.text /\ verdict = "verified" THEN d.events \cup {event} ELSE d.events
(* The audited document, field by field. *)
<1>4. result = [text |-> x, cites |-> d.cites, status |-> "stable", by |-> by, at |-> at, events |-> events]
  <2>1. CASE x = d.text
    <3>1. Edit(x) = d  BY <2>1
    <3>2. U!Confirmed(d, d) = [d EXCEPT !.events = @ \cup {event}]  BY DEF U!Confirmed
    <3>3. result = [(IF verdict = "verified" THEN U!Confirmed(d, d) ELSE d) EXCEPT !.status = "stable"]  BY <3>1
    <3>4. at = d.at /\ by = d.by  BY <2>1
    <3>5. events = IF verdict = "verified" THEN d.events \cup {event} ELSE d.events  BY <2>1
    <3> HIDE DEF d, event, events, at, by, result
    <3>6. CASE verdict = "verified"
      <4>1. result = [[d EXCEPT !.events = events] EXCEPT !.status = "stable"]  BY <3>2, <3>3, <3>5, <3>6
      <4> QED  BY <1>3, <2>1, <3>4, <4>1
    <3>7. CASE verdict # "verified"
      <4>1. result = [d EXCEPT !.status = "stable"] /\ events = d.events  BY <3>3, <3>5, <3>7
      <4> QED  BY <1>3, <2>1, <3>4, <4>1
    <3> QED  BY <3>6, <3>7
  <2>2. CASE x # d.text
    <3>1. Edit(x) = [d EXCEPT !.text = x, !.by = Auditor, !.at = U!Stamp(d)]  BY <2>2
    <3>2. Edit(x) = [text |-> x, cites |-> d.cites, status |-> d.status, by |-> Auditor, at |-> U!Stamp(d),
                     events |-> d.events]
      BY <1>3, <3>1
    <3>3. U!Content(Edit(x)) # U!Content(d)  BY <2>2, <3>2 DEF U!Content
    <3>4. U!Confirmed(d, Edit(x)) = Edit(x)  BY <3>3 DEF U!Confirmed
    <3>5. result = [Edit(x) EXCEPT !.status = "stable"]  BY <3>4
    <3>6. events = d.events /\ at = U!Stamp(d) /\ by = Auditor  BY <2>2
    <3> HIDE DEF d, Edit, Result, at, by, events
    <3> QED  BY <3>2, <3>5, <3>6
  <2> QED  BY <2>1, <2>2
<1>5. event \in [by: U!Actors, at: Nat] /\ event.at >= d.at
  BY <1>3 DEF U!EventAt, U!Times, U!Actors
<1>6. at \in U!Times /\ events \in SUBSET U!Events
  <2> DEFINE S == {at} \cup {e.at : e \in events}
  <2>1. U!Stamp(d) \in Nat \ {0}  BY <1>3, StampIsNew DEF U!Times
  <2>2. at \in Nat \ {0} /\ \A e \in events : e \in [by: U!Actors, at: Nat \ {0}]
    <3>1. event.at \in Nat \ {0}  BY <1>3 DEF U!EventAt, U!Times
    <3> QED  BY <1>3, <1>5, <2>1, <3>1 DEF U!Events, U!Times
  <2>3. U!LatestOf(S) <= MaxTime
    BY <1>1, <1>4
  <2>4. PICK n \in Nat : S \in SUBSET (0..n)
    <3>1. S \subseteq (1..MaxTime) \cup {at, event.at}
      BY <1>3 DEF U!Events, U!Times
    <3>2. at \in Nat /\ event.at \in Nat  BY <1>5, <2>2
    <3>3. PICK n \in Nat : MaxTime <= n /\ at <= n /\ event.at <= n
      <4>1. MaxTime + at + event.at \in Nat /\ MaxTime <= MaxTime + at + event.at
            /\ at <= MaxTime + at + event.at /\ event.at <= MaxTime + at + event.at
        <5> HIDE DEF at, event
        <5> QED  BY <1>3, <3>2
      <4> QED  BY <4>1
    <3>4. (1..MaxTime) \cup {at, event.at} \subseteq 0..n
      <4> HIDE DEF at, event
      <4> QED  BY <1>3, <3>2, <3>3
    <3> QED  BY <3>1, <3>4
  <2>5. \A u \in S : u <= U!LatestOf(S) /\ U!LatestOf(S) \in 0..n
    <3>1. at \in S  OBVIOUS
    <3> HIDE DEF S
    <3> QED  BY <2>4, <3>1, Latest
  <2>6. \A u \in S : u <= MaxTime
    <3> SUFFICES ASSUME NEW u \in S  PROVE u <= MaxTime  OBVIOUS
    <3>1. u <= U!LatestOf(S) /\ U!LatestOf(S) \in Nat /\ u \in Nat  BY <2>4, <2>5
    <3> QED  BY <1>3, <2>3, <3>1
  <2>7. at <= MaxTime /\ \A e \in events : e.at <= MaxTime
    BY <2>6
  <2> HIDE DEF at, events
  <2>8. at \in U!Times  BY <1>3, <2>2, <2>7 DEF U!Times
  <2>9. \A e \in events : e \in U!Events  BY <1>3, <2>2, <2>7 DEF U!Times, U!Events
  <2> QED  BY <2>8, <2>9
<1>7. result \in U!Docs /\ doc' = [doc EXCEPT ![c] = result] /\ doc'[c] = result
      /\ \A a \in Concepts : a # c => doc'[a] = doc[a]
  <2>1. by \in U!Actors  BY <1>3 DEF U!Actors
  <2> HIDE DEF d, at, by, events
  <2>2. result \in U!Docs  BY <1>3, <1>4, <1>6, <2>1 DEF U!Docs
  <2> HIDE DEF result
  <2> QED  BY <1>0, <1>1, <2>2 DEF U!TypeOK, result
<1>8. judged' = judged \cup {[of |-> c, event |-> e, content |-> U!Content(d)] : e \in events \ d.events}
  BY <1>1, <1>4
<1>9. U!TypeOK'
  <2>1. doc' \in [Concepts -> U!Docs \cup {U!Absent}]  BY <1>0, <1>7 DEF U!TypeOK
  <2>2. U!Content(d) \in Texts \X SUBSET Evidence  BY <1>3 DEF U!Content
  <2>3. judged' \subseteq [of: Concepts, event: U!Events, content: Texts \X SUBSET Evidence]
    <3> HIDE DEF d, events
    <3> QED  BY <1>0, <1>6, <1>8, <2>2 DEF U!TypeOK
  <2>4. byHand' \subseteq Concepts  BY <1>0, <1>1 DEF U!TypeOK
  <2> QED  BY <1>0, <1>2, <2>1, <2>3, <2>4 DEF U!TypeOK
<1>10. U!TrustEarned'
  <2> SUFFICES ASSUME NEW a \in Concepts, a \notin byHand', NEW e \in U!CurrentVerified(doc'[a])
               PROVE  [of |-> a, event |-> e, content |-> U!Content(doc'[a])] \in judged'
    BY DEF U!TrustEarned, U!CurrentVerified, U!Content
  <2>1. CASE a # c
    <3>1. a \notin byHand /\ doc'[a] = doc[a]  BY <1>1, <1>7, <2>1
    <3>2. [of |-> a, event |-> e, content |-> U!Content(doc[a])] \in judged
      BY <3>1 DEF TrustInv, U!TrustEarned
    <3> QED  BY <1>8, <3>1, <3>2
  <2>2. CASE a = c /\ x # d.text
    <3>1. doc'[a].events = d.events /\ doc'[a].at = U!Stamp(d)  BY <1>4, <1>7, <2>2
    <3>2. e \in d.events /\ (e.at >= U!Stamp(d) \/ e.at >= U!Stamp(d) + Delay)
      BY <3>1 DEF U!CurrentVerified
    <3>3. d.at \in 0..MaxTime  BY <1>3 DEF U!Times
    <3>4. U!Stamp(d) \in Nat /\ U!Stamp(d) > e.at  BY <1>3, <3>2, <3>3, StampIsNew
    <3>5. e.at \in Nat /\ Delay \in Nat  BY <1>3, <3>2 DEF U!Events, U!Times, U!ConstantsOK
    <3> QED  BY <3>2, <3>4, <3>5
  <2>3. CASE a = c /\ x = d.text
    <3>1. a \notin byHand  BY <1>1, <2>3
    <3>2. U!Content(doc'[a]) = U!Content(d) /\ doc'[a].at = d.at /\ doc'[a].by = d.by /\ doc'[a].events = events
      BY <1>3, <1>4, <1>7, <2>3 DEF U!Content
    <3>3. CASE e \in d.events
      <4>1. e \in U!CurrentVerified(d)  BY <3>2, <3>3 DEF U!CurrentVerified
      <4>2. [of |-> c, event |-> e, content |-> U!Content(d)] \in judged
        BY <2>3, <3>1, <4>1 DEF TrustInv, U!TrustEarned
      <4> QED  BY <1>8, <2>3, <3>2, <4>2
    <3>4. CASE e \notin d.events
      <4>1. e \in events  BY <3>2 DEF U!CurrentVerified
      <4> QED  BY <1>8, <2>3, <3>2, <3>4, <4>1
    <3> QED  BY <3>3, <3>4
  <2> QED  BY <2>1, <2>2, <2>3
<1>11. CitesThere'
  <2>1. c \notin byHand' => doc'[c].cites \subseteq sources
    BY <1>1, <1>4, <1>7 DEF U!AuditPolicy
  <2>2. \A a \in Concepts \ byHand' : a # c /\ U!Exists(doc'[a]) => doc'[a].cites \subseteq sources
    BY <1>1, <1>7 DEF TrustInv, CitesThere
  <2> QED  BY <1>2, <2>1, <2>2 DEF CitesThere
<1>12. BasisCited'
  BY <1>2, <1>4, <1>7 DEF TrustInv, BasisCited
<1> QED  BY <1>9, <1>10, <1>11, <1>12 DEF TrustInv

-----------------------------------------------------------------------------
(* What a person pushes takes its concept, or those citing what goes, out of what is promised. *)
LEMMA PushStep ==
    ASSUME U!ConstantsOK, TrustInv, NEW c \in Concepts, U!Push(c)
    PROVE  TrustInv'
<1>0. U!TypeOK /\ UNCHANGED <<now, basis, judged, passes>>  BY DEF TrustInv, U!Push
<1>1. pushes' \in 0..MaxPushes
  <2>1. pushes < MaxPushes /\ pushes' = pushes + 1  BY DEF U!Push
  <2> QED  BY <1>0, <2>1 DEF U!TypeOK, U!ConstantsOK
<1>2. CASE /\ \E x \in Texts, t \in U!Times, b \in {doc[c].by, Person} :
                doc' = [doc EXCEPT ![c] = [doc[c] EXCEPT !.text = x, !.by = b, !.at = t,
                           !.status = IF U!Exists(doc[c]) THEN doc[c].status ELSE "stable"]]
           /\ byHand' = byHand \cup {c} /\ UNCHANGED sources
  <2> DEFINE status == IF U!Exists(doc[c]) THEN doc[c].status ELSE "stable"
  <2>1. PICK x \in Texts, t \in U!Times, b \in {doc[c].by, Person} :
           doc' = [doc EXCEPT ![c] = [doc[c] EXCEPT !.text = x, !.by = b, !.at = t, !.status = status]]
    BY <1>2
  <2>2. PICK d : d = doc[c]  OBVIOUS
  <2>3. d = [text |-> d.text, cites |-> d.cites, status |-> d.status, by |-> d.by, at |-> d.at,
             events |-> d.events]
    <3>1. CASE d \in U!Docs  BY <3>1 DEF U!Docs
    <3>2. CASE d = U!Absent  BY <3>2 DEF U!Absent
    <3> QED  BY <1>0, <2>2, <3>1, <3>2, DocType
  <2> DEFINE new == [text |-> x, cites |-> d.cites, status |-> status, by |-> b, at |-> t, events |-> d.events]
  <2>4. doc' = [doc EXCEPT ![c] = new]
    <3>1. doc' = [doc EXCEPT ![c] = [d EXCEPT !.text = x, !.by = b, !.at = t, !.status = status]]
      BY <2>1, <2>2
    <3> HIDE DEF status
    <3>2. PICK pushed : pushed = [d EXCEPT !.text = x, !.by = b, !.at = t, !.status = status]  OBVIOUS
    <3>3. pushed = [text |-> x, cites |-> d.cites, status |-> status, by |-> b, at |-> t, events |-> d.events]
      BY <2>3, <3>2
    <3> HIDE DEF new
    <3> QED  BY <3>1, <3>2, <3>3 DEF new
  <2>5. new \in U!Docs
    <3>1. status \in {"draft", "stable"} /\ d.by \in U!Actors
      BY <1>0, <2>2 DEF U!TypeOK, U!Docs, U!Absent, U!Actors, U!Exists
    <3>2. d.events \in SUBSET U!Events /\ d.cites \in SUBSET Evidence  BY <1>0, <2>2, DocType
    <3>3. b \in U!Actors  BY <2>2, <3>1 DEF U!Actors
    <3> HIDE DEF status
    <3> QED  BY <3>1, <3>2, <3>3 DEF U!Docs
  <2>6. doc' \in [Concepts -> U!Docs \cup {U!Absent}] /\ doc'[c].cites = doc[c].cites
        /\ \A a \in Concepts : a # c => doc'[a] = doc[a]
    BY <1>0, <2>2, <2>4, <2>5 DEF U!TypeOK
  <2>7. U!TypeOK'  BY <1>0, <1>1, <1>2, <2>6 DEF U!TypeOK
  <2>8. U!TrustEarned'
    BY <1>0, <1>2, <2>6 DEF TrustInv, U!TrustEarned
  <2>9. CitesThere'  BY <1>2, <2>6 DEF TrustInv, CitesThere
  <2>10. BasisCited'
    <3> SUFFICES ASSUME NEW a \in Concepts  PROVE (basis[a] \subseteq doc[a].cites)'  BY DEF BasisCited
    <3>1. basis[a] \subseteq doc[a].cites  BY DEF TrustInv, BasisCited
    <3>2. doc'[a].cites = doc[a].cites  BY <2>6
    <3> QED  BY <1>0, <3>1, <3>2
  <2> QED  BY <2>7, <2>8, <2>9, <2>10 DEF TrustInv
<1>3. CASE /\ \E e \in sources :
                /\ sources' = sources \ {e}
                /\ byHand' = byHand \cup {d \in Concepts : e \in doc[d].cites}
           /\ UNCHANGED doc
  <2>1. U!TypeOK'  BY <1>0, <1>1, <1>3 DEF U!TypeOK
  <2>2. U!TrustEarned'  BY <1>0, <1>3 DEF TrustInv, U!TrustEarned
  <2>3. CitesThere'  BY <1>3 DEF TrustInv, CitesThere
  <2>4. BasisCited'  BY <1>0, <1>3 DEF TrustInv, BasisCited
  <2> QED  BY <2>1, <2>2, <2>3, <2>4 DEF TrustInv
<1> QED  BY <1>2, <1>3 DEF U!Push

(* The invariant holds of a bundle with nothing in it. *)
LEMMA InitInv == ASSUME U!ConstantsOK, U!Init PROVE TrustInv
<1>1. U!TypeOK  BY DEF U!Init, U!TypeOK, U!ConstantsOK, U!Times
<1>2. \A c \in Concepts : doc[c] = U!Absent /\ basis[c] = {}  BY DEF U!Init
<1>3. U!TrustEarned  BY <1>2 DEF U!TrustEarned, U!CurrentVerified, U!Absent
<1>4. CitesThere /\ BasisCited  BY <1>2 DEF CitesThere, BasisCited, U!Exists
<1> QED  BY <1>1, <1>3, <1>4 DEF TrustInv

(* Every step keeps it. *)
LEMMA NextInv == ASSUME U!ConstantsOK, TrustInv, [U!Next]_(U!vars) PROVE TrustInv'
<1>1. CASE UNCHANGED U!vars
  BY <1>1 DEF U!vars, TrustInv, U!TypeOK, U!TrustEarned, CitesThere, BasisCited
<1>2. CASE U!Tick
  BY <1>2 DEF U!Tick, TrustInv, U!TypeOK, U!TrustEarned, CitesThere, BasisCited, U!Times, U!ConstantsOK
<1>3. ASSUME NEW c \in Concepts, U!Push(c)  PROVE TrustInv'
  BY <1>3, PushStep
<1>4. ASSUME NEW c \in Concepts, NEW e \in Evidence, U!Curate(c, e) \/ U!Propose(c, e) \/ U!Audit(c, e)
      PROVE  TrustInv'
  BY <1>4, CurateStep, ProposeStep, AuditStep
<1> QED  BY <1>1, <1>2, <1>3, <1>4 DEF U!Next

(* The invariant says what the runs check. *)
LEMMA InvKeepsTrust == TrustInv => U!TrustKept
  BY DEF TrustInv, U!TrustKept, U!EvidenceStands, CitesThere, BasisCited

(* Verifications and evidence are what they were written as: for any concepts, texts, evidence,  *)
(* clock skew, delay and number of passes, no pass keeps, moves or makes up a verification       *)
(* (engine/document.py, runtime/policy.py, runtime/audit.py), and what a pass wrote goes on      *)
(* citing the evidence it wrote it from.                                                         *)
THEOREM TrustIsKept == ASSUME U!ConstantsOK PROVE U!Spec => []U!TrustKept
<1>1. U!ConstantsOK  OBVIOUS
<1> QED  BY <1>1, InvKeepsTrust, InitInv, NextInv, PTL DEF U!Spec

-----------------------------------------------------------------------------
(* Triage. *)
Settling == {"applying", "done", "void"}

(* The types of the variables. *)
TriageTypes ==
    /\ skips \in [Items -> [status: {"absent", "ready", "skipped", "split"}, at: 0..MaxClock,
                            run: Closers \cup {Nobody}, reopens: Nat, reviews: SUBSET DOMAIN receipts,
                            marked: BOOLEAN]]
    /\ \A id \in DOMAIN receipts : receipts[id] \in Settling
    /\ request = [by |-> request.by, stage |-> request.stage, todo |-> request.todo, fresh |-> request.fresh,
                  refused |-> request.refused, now |-> request.now]
    /\ request.stage \in {"none", "settle", "judge", "write"} /\ request.todo \subseteq Items
    /\ verdicts \in [Auditors -> [Items -> {"none", "answered", "dropped"} \cup Tri!Pending]]
    /\ clock \in Nat

(* An item bears the review that reopened it, and its mark; one that is not there bears none. *)
Bears ==
    \A i \in Items :
       /\ skips[i].reviews # {} => skips[i].marked
       /\ \A r, s \in skips[i].reviews : r = s
       /\ skips[i].status = "absent" => skips[i].reviews = {} /\ skips[i].reopens = 0 /\ ~skips[i].marked

(* A review whose item nobody reopened since is of the item's last close. *)
OfLastClose(id) ==
    /\ id.item \in Items /\ id.reopens \in Nat /\ id.reopens <= skips[id.item].reopens
    /\ id.reopens = skips[id.item].reopens =>
          skips[id.item].status = "skipped" /\ Tri!Decision(id.item) = Tri!JudgedBy(id)

Overtaken(id) == id.reopens < skips[id.item].reopens

Known == \A id \in DOMAIN receipts \cup request.fresh : OfLastClose(id)

(* The reviews that are still to have an effect. *)
Open == Tri!Applying \cup request.fresh

(* Each is the only one of its item and of its close, and no other review reopened its item. *)
Alone ==
    \A id \in Open :
       /\ \A s \in Open : s.item = id.item => s = id
       /\ \A s \in DOMAIN receipts : receipts[s] = "done" => Tri!JudgedBy(s) # Tri!JudgedBy(id)
       /\ skips[id.item].reviews \subseteq {id}

Fresh == \A id \in request.fresh : id \notin DOMAIN receipts /\ id.item \notin request.todo

(* What became of a review is what its item says. *)
Tells(id, outcome) ==
    /\ id.verdict = "missed" /\ outcome = "done" => id \in skips[id.item].reviews
    /\ outcome = "void" => id \notin skips[id.item].reviews /\ Overtaken(id)

Settled == \A id \in DOMAIN receipts : Tells(id, receipts[id])

(* An effect is written down as what it was. *)
Effected ==
    \A pair \in request.now : pair[1] \in Tri!Applying /\ pair[2] \in {"done", "void"} /\ Tells(pair[1], pair[2])

TriageInv == TriageTypes /\ Bears /\ Known /\ Alone /\ Fresh /\ Settled /\ Effected /\ Tri!JudgedOnce

-----------------------------------------------------------------------------
(* An item that is new. *)
LEMMA ReadyIs ==
    Tri!Ready = [status |-> "ready", at |-> 0, run |-> Nobody, reopens |-> 0, reviews |-> {}, marked |-> FALSE]
<1>1. PICK p : p = Tri!Absent  OBVIOUS
<1>2. p = [status |-> "absent", at |-> 0, run |-> Nobody, reopens |-> 0, reviews |-> {}, marked |-> FALSE]
  BY <1>1 DEF Tri!Absent
<1>3. Tri!Ready = [p EXCEPT !.status = "ready"]  BY <1>1 DEF Tri!Ready
<1> QED  BY <1>2, <1>3

(* Nothing is reviewed in the beginning. *)
LEMMA TriageInit == Tri!ConstantsOK /\ Tri!Init => TriageInv
<1> SUFFICES ASSUME Tri!ConstantsOK, Tri!Init PROVE TriageInv  OBVIOUS
<1>1. DOMAIN receipts = {}  BY DEF Tri!Init
<1>2. request.fresh = {} /\ request.todo = {} /\ request.now = {} /\ request.stage = "none"
  BY DEF Tri!Init, Tri!NoRequest
<1>3. \A i \in Items : skips[i] = Tri!Absent \/ skips[i] = Tri!Ready  BY DEF Tri!Init
<1>4. Tri!Ready = [status |-> "ready", at |-> 0, run |-> Nobody, reopens |-> 0, reviews |-> {}, marked |-> FALSE]
  BY ReadyIs
<1>5. TriageTypes
  <2>1. 0 \in 0..MaxClock  BY DEF Tri!ConstantsOK
  <2>2. {Tri!Absent, Tri!Ready} \subseteq [status: {"absent", "ready", "skipped", "split"}, at: 0..MaxClock,
                                   run: Closers \cup {Nobody}, reopens: Nat, reviews: SUBSET DOMAIN receipts,
                                   marked: BOOLEAN]
    BY <1>4, <2>1 DEF Tri!Absent
  <2>3. skips \in [Items -> {Tri!Absent, Tri!Ready}]  BY DEF Tri!Init
  <2>4. verdicts \in [Auditors -> [Items -> {"none", "answered", "dropped"} \cup Tri!Pending]] /\ clock \in Nat
    BY DEF Tri!Init
  <2>5. request = [by |-> request.by, stage |-> request.stage, todo |-> request.todo, fresh |-> request.fresh,
                   refused |-> request.refused, now |-> request.now]
    BY DEF Tri!Init, Tri!NoRequest
  <2>6. skips \in [Items -> [status: {"absent", "ready", "skipped", "split"}, at: 0..MaxClock,
                             run: Closers \cup {Nobody}, reopens: Nat, reviews: SUBSET DOMAIN receipts,
                             marked: BOOLEAN]]
    <3> HIDE DEF Tri!Absent, Tri!Ready
    <3> QED  BY <2>2, <2>3
  <2> QED  BY <1>1, <1>2, <2>4, <2>5, <2>6 DEF TriageTypes
<1>6. Bears  BY <1>3, <1>4 DEF Bears, Tri!Absent
<1>7. Open = {}  BY <1>1, <1>2 DEF Open, Tri!Applying
<1> QED  BY <1>1, <1>2, <1>5, <1>6, <1>7 DEF TriageInv, Known, Alone, Fresh, Settled, Effected, Tri!JudgedOnce

(* How an item goes on by any step but the effect of a review. *)
GoesOn(p, q) ==
    /\ q.reviews = p.reviews /\ (p.marked => q.marked)
    /\ q.reopens >= p.reopens
    /\ q.reopens = p.reopens /\ p.status = "skipped" =>
          q.status = "skipped" /\ q.at = p.at /\ q.run = p.run
    /\ q.status = "absent" => q = p

(* An item moves: no review is of what it becomes. *)
LEMMA ItemsMove ==
    ASSUME Tri!ConstantsOK, TriageInv, UNCHANGED <<receipts, request>>, TriageTypes',
           \A i \in Items : GoesOn(skips[i], skips'[i])
    PROVE  TriageInv'
<1>1. TriageTypes /\ Bears /\ Known /\ Alone /\ Fresh /\ Settled /\ Effected /\ Tri!JudgedOnce
  BY DEF TriageInv
<1>2. Bears'  BY <1>1 DEF Bears, GoesOn
<1>3. \A id \in DOMAIN receipts \cup request.fresh : OfLastClose(id) => OfLastClose(id)'
  <2> SUFFICES ASSUME NEW id \in DOMAIN receipts \cup request.fresh, OfLastClose(id) PROVE OfLastClose(id)'
    OBVIOUS
  <2>1. id.item \in Items /\ GoesOn(skips[id.item], skips'[id.item])  BY DEF OfLastClose
  <2>2. skips[id.item].reopens \in Nat /\ skips'[id.item].reopens \in Nat  BY <1>1, <2>1 DEF TriageTypes
  <2> QED  BY <2>1, <2>2 DEF OfLastClose, GoesOn, Tri!Decision, Tri!JudgedBy
<1>4. Known'  BY <1>1, <1>3 DEF Known
<1>5. Open' = Open /\ Tri!Applying' = Tri!Applying  BY DEF Open, Tri!Applying
<1>6. Open \subseteq DOMAIN receipts \cup request.fresh /\ \A id \in DOMAIN receipts \cup request.fresh : id.item \in Items
  BY <1>1 DEF Open, Tri!Applying, Known, OfLastClose
<1>7. \A i \in Items : skips'[i].reviews = skips[i].reviews  BY DEF GoesOn
<1>8. Alone'  BY <1>1, <1>5, <1>6, <1>7 DEF Alone, Tri!JudgedBy
<1>9. Fresh' /\ Tri!JudgedOnce'  BY <1>1 DEF Fresh, Tri!JudgedOnce, Tri!JudgedBy
<1>10. ASSUME NEW id \in DOMAIN receipts, NEW outcome, Tells(id, outcome) PROVE Tells(id, outcome)'
  <2>1. skips[id.item].reopens \in Nat /\ skips'[id.item].reopens \in Nat /\ id.reopens \in Nat
    BY <1>1, <1>6 DEF TriageTypes, Known, OfLastClose
  <2>2. GoesOn(skips[id.item], skips'[id.item])  BY <1>6
  <2> QED  BY <1>10, <2>1, <2>2 DEF Tells, Overtaken, GoesOn
<1>11. Settled'  BY <1>1, <1>10 DEF Settled
<1>12. Effected'
  <2> SUFFICES ASSUME NEW pair \in request.now
               PROVE  pair[1] \in Tri!Applying /\ pair[2] \in {"done", "void"} /\ Tells(pair[1], pair[2])'
    BY <1>5 DEF Effected
  <2>1. pair[1] \in Tri!Applying /\ pair[2] \in {"done", "void"} /\ Tells(pair[1], pair[2])  BY <1>1 DEF Effected
  <2> QED  BY <1>10, <2>1 DEF Tri!Applying
<1> QED  BY <1>2, <1>4, <1>8, <1>9, <1>11, <1>12 DEF TriageInv

(* An item that is reopened, field by field. *)
LEMMA ReopenedIs ==
    ASSUME NEW p,
           p = [status |-> p.status, at |-> p.at, run |-> p.run, reopens |-> p.reopens, reviews |-> p.reviews,
                marked |-> p.marked]
    PROVE  Tri!Reopened(p) = [status |-> "ready", at |-> 0, run |-> Nobody, reopens |-> p.reopens + 1,
                          reviews |-> p.reviews, marked |-> p.marked]
<1>1. PICK n : n = p.reopens + 1  OBVIOUS
<1>2. PICK q : q = [p EXCEPT !.status = "ready", !.at = 0, !.run = Nobody, !.reopens = n]  OBVIOUS
<1>3. q = [status |-> "ready", at |-> 0, run |-> Nobody, reopens |-> n, reviews |-> p.reviews, marked |-> p.marked]
  BY <1>2
<1> QED  BY <1>1, <1>2, <1>3 DEF Tri!Reopened

(* What becomes of an item besides the reviews. *)
LEMMA ItemKeeps ==
    ASSUME Tri!ConstantsOK, TriageInv, NEW i \in Items,
           \/ \E r \in Closers \cup {Nobody} : Tri!CloseBy(i, r)
           \/ Tri!AdminRetry(i)
           \/ \E children \in SUBSET Items : Tri!Split(i, children)
    PROVE  TriageInv'
<1>1. TriageTypes /\ Bears /\ MaxClock \in Nat  BY DEF TriageInv, Tri!ConstantsOK
<1> DEFINE Item == [status: {"absent", "ready", "skipped", "split"}, at: 0..MaxClock,
                    run: Closers \cup {Nobody}, reopens: Nat, reviews: SUBSET DOMAIN receipts, marked: BOOLEAN]
<1>2. skips \in [Items -> Item]  BY <1>1 DEF TriageTypes
<1>3. \A j \in Items : GoesOn(skips[j], skips[j])
  <2> SUFFICES ASSUME NEW j \in Items PROVE GoesOn(skips[j], skips[j])  OBVIOUS
  <2>1. skips[j].reopens \in Nat  BY <1>2
  <2> QED  BY <1>1, <2>1 DEF GoesOn, Bears
<1>4. ASSUME skips' \in [Items -> Item], UNCHANGED <<receipts, request, verdicts>>, clock' \in Nat,
             \A j \in Items : GoesOn(skips[j], skips'[j])
      PROVE  TriageInv'
  <2>1. TriageTypes'  BY <1>1, <1>4 DEF TriageTypes
  <2> QED  BY <1>4, <2>1, ItemsMove
<1>5. ASSUME NEW new \in Item, skips' = [skips EXCEPT ![i] = new], UNCHANGED <<receipts, request, verdicts>>,
             clock' \in Nat, GoesOn(skips[i], new)
      PROVE  TriageInv'
  <2>1. skips' \in [Items -> Item]
    <3> HIDE DEF Item
    <3> QED  BY <1>2, <1>5
  <2>2. \A j \in Items : GoesOn(skips[j], skips'[j])
    <3>1. skips'[i] = new /\ \A j \in Items : j # i => skips'[j] = skips[j]  BY <1>2, <1>5
    <3> QED  BY <1>3, <1>5, <3>1
  <2> QED  BY <1>4, <1>5, <2>1, <2>2
<1>6. ASSUME NEW r \in Closers \cup {Nobody}, Tri!CloseBy(i, r)  PROVE TriageInv'
  <2> DEFINE new == [skips[i] EXCEPT !.status = "skipped", !.at = clock', !.run = r]
  <2>1. skips' = [skips EXCEPT ![i] = new] /\ skips[i].status = "ready"  BY <1>2, <1>6, Zenon DEF Tri!CloseBy
  <2>0. clock' \in {clock, clock + 1} /\ clock' <= MaxClock  BY <1>6, Zenon DEF Tri!CloseBy
  <2>2. clock' \in 0..MaxClock /\ clock' \in Nat  BY <1>1, <2>0 DEF TriageTypes
  <2>3. new = [status |-> "skipped", at |-> clock', run |-> r, reopens |-> skips[i].reopens,
               reviews |-> skips[i].reviews, marked |-> skips[i].marked]
    <3>1. PICK p : p = skips[i]  OBVIOUS
    <3>2. p = [status |-> p.status, at |-> p.at, run |-> p.run, reopens |-> p.reopens, reviews |-> p.reviews,
               marked |-> p.marked]
      BY <1>2, <3>1
    <3>3. PICK q : q = [p EXCEPT !.status = "skipped", !.at = clock', !.run = r]  OBVIOUS
    <3>4. q = [status |-> "skipped", at |-> clock', run |-> r, reopens |-> p.reopens, reviews |-> p.reviews,
               marked |-> p.marked]
      BY <3>2, <3>3
    <3> QED  BY <3>1, <3>3, <3>4
  <2>4. new \in Item  BY <1>2, <2>2, <2>3
  <2>5. GoesOn(skips[i], new)  BY <1>2, <2>1, <2>3 DEF GoesOn
  <2>6. UNCHANGED <<receipts, request, verdicts>>  BY <1>6 DEF Tri!CloseBy
  <2> HIDE DEF new, Item
  <2> QED  BY <1>5, <2>1, <2>2, <2>4, <2>5, <2>6
<1>7. CASE Tri!AdminRetry(i)
  <2> DEFINE new == Tri!Reopened(skips[i])
  <2>1. skips' = [skips EXCEPT ![i] = new] /\ UNCHANGED <<receipts, request, verdicts, clock>>
    BY <1>7 DEF Tri!AdminRetry, Tri!ItemStep
  <2>2. new = [status |-> "ready", at |-> 0, run |-> Nobody, reopens |-> skips[i].reopens + 1,
               reviews |-> skips[i].reviews, marked |-> skips[i].marked]
    BY <1>2, ReopenedIs
  <2>3. new \in Item  BY <1>1, <1>2, <2>2
  <2>4. GoesOn(skips[i], new)  BY <1>2, <2>2 DEF GoesOn
  <2> HIDE DEF new, Item
  <2> QED  BY <1>1, <1>5, <2>1, <2>3, <2>4 DEF TriageTypes
<1>8. ASSUME NEW children \in SUBSET Items, Tri!Split(i, children)  PROVE TriageInv'
  <2> DEFINE new(j) == IF j = i THEN [skips[i] EXCEPT !.status = "split"]
                       ELSE IF j \in children THEN Tri!Child(skips[j], skips[i].marked) ELSE skips[j]
  <2>1. skips' = [j \in Items |-> new(j)] /\ UNCHANGED <<receipts, request, verdicts, clock>>
        /\ skips[i].status = "ready"
    BY <1>8 DEF Tri!Split
  <2>2. ASSUME NEW j \in Items PROVE new(j) \in Item /\ GoesOn(skips[j], new(j))
    <3>1. CASE j = i
      <4>1. new(j) = [status |-> "split", at |-> skips[i].at, run |-> skips[i].run, reopens |-> skips[i].reopens,
                      reviews |-> skips[i].reviews, marked |-> skips[i].marked]
        BY <1>2, <3>1
      <4> QED  BY <1>2, <2>1, <3>1, <4>1 DEF GoesOn
    <3>2. CASE j # i /\ j \in children
      <4> DEFINE marked == skips[i].marked
      <4>0. new(j) = Tri!Child(skips[j], marked) /\ marked \in BOOLEAN  BY <1>2, <3>2
      <4> HIDE DEF new, marked
      <4>1. CASE skips[j].status = "absent"
        <5>1. new(j) = [status |-> "ready", at |-> 0, run |-> Nobody, reopens |-> 0, reviews |-> {},
                        marked |-> marked]
          <6>1. new(j) = [Tri!Ready EXCEPT !.marked = marked]  BY <4>0, <4>1 DEF Tri!Child
          <6>2. PICK p : p = Tri!Ready  OBVIOUS
          <6> QED  BY <6>1, <6>2, ReadyIs
        <5>2. skips[j].reviews = {} /\ skips[j].reopens = 0 /\ ~skips[j].marked  BY <1>1, <4>1 DEF Bears
        <5>3. skips[j].marked \in BOOLEAN  BY <1>2
        <5> QED  BY <1>1, <4>0, <4>1, <5>1, <5>2 DEF GoesOn
      <4>2. CASE skips[j].status = "ready"
        <5>1. new(j) = [skips[j] EXCEPT !.marked = skips[j].marked \/ marked]
          BY <4>0, <4>2 DEF Tri!Child
        <5>2. new(j) = [status |-> "ready", at |-> skips[j].at, run |-> skips[j].run,
                        reopens |-> skips[j].reopens, reviews |-> skips[j].reviews,
                        marked |-> skips[j].marked \/ marked]
          BY <1>2, <4>2, <5>1, Zenon
        <5>3. (skips[j].marked \/ marked) \in BOOLEAN  OBVIOUS
        <5> QED  BY <1>2, <4>2, <5>2, <5>3 DEF GoesOn
      <4>3. CASE skips[j].status \notin {"absent", "ready"}
        <5>1. new(j) = skips[j]  BY <4>0, <4>3 DEF Tri!Child
        <5> QED  BY <1>2, <1>3, <5>1
      <4> QED  BY <4>1, <4>2, <4>3
    <3>3. CASE j # i /\ j \notin children  BY <1>2, <1>3, <3>3
    <3> QED  BY <3>1, <3>2, <3>3
  <2> HIDE DEF new, Item
  <2>3. skips' \in [Items -> Item] /\ \A j \in Items : skips'[j] = new(j)  BY <2>1, <2>2
  <2> QED  BY <1>1, <1>4, <2>1, <2>2, <2>3 DEF TriageTypes
<1> QED  BY <1>6, <1>7, <1>8

(* A request goes on without an effect: what it still is to write gets less. *)
LEMMA RequestMoves ==
    ASSUME Tri!ConstantsOK, TriageInv, UNCHANGED <<skips, receipts, clock>>,
           request' = [by |-> request'.by, stage |-> request'.stage, todo |-> request'.todo,
                       fresh |-> request'.fresh, refused |-> request'.refused, now |-> request'.now],
           request'.fresh \subseteq request.fresh, request'.now \subseteq request.now,
           request'.stage \in {"none", "settle", "judge", "write"}, request'.todo \subseteq Items,
           request'.fresh = {} \/ request'.todo \subseteq request.todo,
           verdicts' \in [Auditors -> [Items -> {"none", "answered", "dropped"} \cup Tri!Pending]]
    PROVE  TriageInv'
<1>1. TriageTypes /\ Bears /\ Known /\ Alone /\ Fresh /\ Settled /\ Effected /\ Tri!JudgedOnce
  BY DEF TriageInv
<1>2. TriageTypes'  BY <1>1 DEF TriageTypes
<1>3. Bears' /\ Known' /\ Tri!JudgedOnce'  BY <1>1 DEF Bears, Known, Tri!JudgedOnce, Tri!JudgedBy, OfLastClose, Tri!Decision
<1>4. Tri!Applying' = Tri!Applying /\ Open' \subseteq Open  BY DEF Tri!Applying, Open
<1>5. Alone'  BY <1>1, <1>4 DEF Alone, Tri!JudgedBy
<1>6. Fresh'  BY <1>1 DEF Fresh
<1>7. Settled' /\ Effected'  BY <1>1, <1>4 DEF Settled, Effected, Tells, Overtaken
<1> QED  BY <1>2, <1>3, <1>5, <1>6, <1>7 DEF TriageInv

(* The steps that only move the request, the lease or an auditor's record. *)
LEMMA RequestKeeps ==
    ASSUME Tri!ConstantsOK, TriageInv,
           \/ Tri!Crash \/ Tri!LeaseEnds \/ Tri!Refuse \/ Tri!LeaseRequired \/ Tri!Answer
           \/ \E a \in Auditors : Tri!Begin(a) \/ Tri!Post(a)
           \/ \E i \in Items, a \in Auditors, verdict \in Tri!Pending : Tri!Review(a, i, verdict)
    PROVE  TriageInv'
<1>1. TriageTypes  BY DEF TriageInv
<1>2. /\ Tri!NoRequest.fresh = {} /\ Tri!NoRequest.now = {} /\ Tri!NoRequest.stage = "none" /\ Tri!NoRequest.todo = {}
      /\ Tri!NoRequest = [by |-> Tri!NoRequest.by, stage |-> Tri!NoRequest.stage, todo |-> Tri!NoRequest.todo,
                      fresh |-> Tri!NoRequest.fresh, refused |-> Tri!NoRequest.refused, now |-> Tri!NoRequest.now]
  BY DEF Tri!NoRequest
<1>3. ASSUME request' = Tri!NoRequest \/ request' = request, UNCHANGED <<skips, receipts, clock>>,
             verdicts' \in [Auditors -> [Items -> {"none", "answered", "dropped"} \cup Tri!Pending]]
      PROVE  TriageInv'
  BY <1>1, <1>2, <1>3, RequestMoves DEF TriageTypes
<1>4. verdicts \in [Auditors -> [Items -> {"none", "answered", "dropped"} \cup Tri!Pending]]  BY <1>1 DEF TriageTypes
<1>5. CASE Tri!Crash \/ Tri!LeaseEnds \/ Tri!LeaseRequired  BY <1>3, <1>4, <1>5 DEF Tri!Crash, Tri!LeaseEnds, Tri!LeaseRequired
<1>6. ASSUME NEW a, NEW noted \in [Items -> {"none", "answered", "dropped"} \cup Tri!Pending],
             verdicts' = [verdicts EXCEPT ![a] = noted]
      PROVE  verdicts' \in [Auditors -> [Items -> {"none", "answered", "dropped"} \cup Tri!Pending]]
  BY <1>4, <1>6
<1>7. CASE Tri!Refuse
  <2> DEFINE by == request.by
             noted == [i \in Items |-> IF i \in request.refused THEN "dropped" ELSE verdicts[by][i]]
  <2>0. PICK gone \in BOOLEAN :
           verdicts' = IF gone THEN verdicts ELSE [verdicts EXCEPT ![request.by] =
                               [i \in Items |-> IF i \in request.refused THEN "dropped" ELSE @[i]]]
    BY <1>7 DEF Tri!Refuse
  <2>1. verdicts' = verdicts \/ verdicts' = [verdicts EXCEPT ![by] = noted]  BY <2>0
  <2>2. verdicts' \in [Auditors -> [Items -> {"none", "answered", "dropped"} \cup Tri!Pending]]
    <3>1. CASE by \in Auditors
      <4>1. noted \in [Items -> {"none", "answered", "dropped"} \cup Tri!Pending]  BY <1>4, <3>1
      <4> QED  BY <1>4, <1>6, <2>1, <4>1
    <3>2. CASE by \notin Auditors
      <4> HIDE DEF noted
      <4> QED  BY <1>4, <2>1, <3>2
    <3> QED  BY <3>1, <3>2
  <2> QED  BY <1>3, <1>7, <2>2 DEF Tri!Refuse
<1>8. CASE Tri!Answer
  <2> DEFINE by == request.by
             noted == [i \in Items |-> IF verdicts[by][i] \in Tri!Pending THEN "answered" ELSE verdicts[by][i]]
  <2>0. PICK gone \in BOOLEAN :
           verdicts' = IF gone THEN verdicts ELSE [verdicts EXCEPT ![request.by] =
                               [i \in Items |-> IF @[i] \in Tri!Pending THEN "answered" ELSE @[i]]]
    BY <1>8 DEF Tri!Answer
  <2>1. verdicts' = verdicts \/ verdicts' = [verdicts EXCEPT ![by] = noted]  BY <2>0
  <2>2. verdicts' \in [Auditors -> [Items -> {"none", "answered", "dropped"} \cup Tri!Pending]]
    <3>1. CASE by \in Auditors
      <4>1. noted \in [Items -> {"none", "answered", "dropped"} \cup Tri!Pending]  BY <1>4, <3>1
      <4> QED  BY <1>4, <1>6, <2>1, <4>1
    <3>2. CASE by \notin Auditors
      <4> HIDE DEF noted
      <4> QED  BY <1>4, <2>1, <3>2
    <3> QED  BY <3>1, <3>2
  <2> QED  BY <1>3, <1>8, <2>2 DEF Tri!Answer
<1>9. ASSUME NEW a \in Auditors, Tri!Begin(a)  PROVE TriageInv'
  <2>1. [i \in Items |-> "none"] \in [Items -> {"none", "answered", "dropped"} \cup Tri!Pending]  OBVIOUS
  <2>2. verdicts' = [verdicts EXCEPT ![a] = [i \in Items |-> "none"]]  BY <1>9 DEF Tri!Begin
  <2>3. verdicts' \in [Auditors -> [Items -> {"none", "answered", "dropped"} \cup Tri!Pending]]
    BY <1>6, <2>1, <2>2
  <2> QED  BY <1>3, <1>9, <2>3 DEF Tri!Begin
<1>10. ASSUME NEW a \in Auditors, Tri!Post(a)  PROVE TriageInv'
  <2> DEFINE todo == {i \in Items : verdicts[a][i] \in Tri!Pending}
  <2>1. request' = [by |-> a, stage |-> "settle", todo |-> todo, fresh |-> {}, refused |-> {}, now |-> {}]
    <3>1. request' = [Tri!NoRequest EXCEPT !.by = a, !.stage = "settle", !.todo = todo]  BY <1>10 DEF Tri!Post
    <3>2. PICK none : none = Tri!NoRequest  OBVIOUS
    <3>3. none = [by |-> Nobody, stage |-> "none", todo |-> {}, fresh |-> {}, refused |-> {}, now |-> {}]
      BY <3>2 DEF Tri!NoRequest
    <3> HIDE DEF todo
    <3>4. request' = [none EXCEPT !.by = a, !.stage = "settle", !.todo = todo]  BY <3>1, <3>2
    <3>5. PICK new : new = [none EXCEPT !.by = a, !.stage = "settle", !.todo = todo]  OBVIOUS
    <3>6. new = [by |-> a, stage |-> "settle", todo |-> todo, fresh |-> {}, refused |-> {}, now |-> {}]
      BY <3>3, <3>5
    <3> QED  BY <3>4, <3>5, <3>6
  <2>2. UNCHANGED <<skips, receipts, clock, verdicts>>  BY <1>10 DEF Tri!Post
  <2>3. /\ request'.fresh = {} /\ request'.now = {} /\ request'.stage = "settle" /\ request'.todo \subseteq Items
        /\ request' = [by |-> request'.by, stage |-> request'.stage, todo |-> request'.todo,
                       fresh |-> request'.fresh, refused |-> request'.refused, now |-> request'.now]
    BY <2>1
  <2> QED  BY <1>4, <2>2, <2>3, RequestMoves
<1>11. ASSUME NEW i \in Items, NEW a \in Auditors, NEW verdict \in Tri!Pending, Tri!Review(a, i, verdict)
       PROVE  TriageInv'
  <2>1. verdicts' = [verdicts EXCEPT ![a][i] = verdict]  BY <1>11 DEF Tri!Review
  <2>2. verdicts' \in [Auditors -> [Items -> {"none", "answered", "dropped"} \cup Tri!Pending]]
    BY <1>4, <2>1
  <2> QED  BY <1>3, <1>11, <2>2 DEF Tri!Review
<1> QED  BY <1>5, <1>7, <1>8, <1>9, <1>10, <1>11

(* A review that is judged is of a close no review settled, and of the request's only one of its item. *)
LEMMA JudgeKeeps == ASSUME Tri!ConstantsOK, TriageInv, NEW i \in Items, Tri!JudgeOne(i) PROVE TriageInv'
<1>1. TriageTypes /\ Bears /\ Known /\ Alone /\ Fresh /\ Settled /\ Effected /\ Tri!JudgedOnce
  BY DEF TriageInv
<1> DEFINE a  == request.by
           id == Tri!Id(a, i, verdicts[a][i])
           due == Tri!Due(i) /\ skips[i].run # a
           fresh == IF due THEN request.fresh \cup {id} ELSE request.fresh
           refused == IF (~Tri!Sent(a, i) /\ ~Tri!Due(i)) \/ (Tri!Due(i) /\ skips[i].run = a)
                      THEN request.refused \cup {i} ELSE request.refused
<1>2. /\ UNCHANGED <<skips, receipts, audited, verdicts, clock, crashes>>
      /\ Tri!Applying = {} /\ request.now = {} /\ i \in request.todo
  BY DEF Tri!JudgeOne, Tri!SettlesFirst
<1>3. request' = [by |-> a, stage |-> "judge", todo |-> request.todo \ {i}, fresh |-> fresh, refused |-> refused,
                  now |-> request.now]
  <2>1. request' = [request EXCEPT !.stage = "judge", !.todo = request.todo \ {i}, !.refused = refused, !.fresh = fresh]
    BY Zenon DEF Tri!JudgeOne
  <2> HIDE DEF fresh, refused
  <2> QED  BY <1>1, <2>1 DEF TriageTypes
<1> HIDE DEF refused
<1>4. id.item = i /\ id.reopens = skips[i].reopens /\ Tri!JudgedBy(id) = Tri!Decision(i)
  BY DEF Tri!Id, Tri!JudgedBy, Tri!Decision
<1>5. due => /\ skips[i].reviews = {} /\ skips[i].status = "skipped"
             /\ \A s \in DOMAIN receipts : receipts[s] = "done" => Tri!JudgedBy(s) # Tri!Decision(i)
  BY <1>1 DEF Tri!Due, Tri!Judged, Bears
<1>6. due => id \notin DOMAIN receipts
  <2> SUFFICES ASSUME due, id \in DOMAIN receipts PROVE FALSE  OBVIOUS
  <2>1. receipts[id] \in {"done", "void"}  BY <1>1, <1>2 DEF TriageTypes, Settling, Tri!Applying
  <2>2. receipts[id] # "done"  BY <1>4, <1>5
  <2>3. id.reopens < skips[i].reopens  BY <1>1, <1>4, <2>1, <2>2 DEF Settled, Tells, Overtaken
  <2>4. skips[i].reopens \in Nat  BY <1>1 DEF TriageTypes
  <2> HIDE DEF id
  <2> QED  BY <1>4, <2>3, <2>4
<1>7. due => OfLastClose(id)
  <2> SUFFICES ASSUME due PROVE OfLastClose(id)  OBVIOUS
  <2>1. skips[i].reopens \in Nat  BY <1>1 DEF TriageTypes
  <2> HIDE DEF id, due
  <2> QED  BY <1>4, <1>5, <2>1 DEF OfLastClose
<1>8. /\ request'.fresh = fresh /\ request'.todo = request.todo \ {i} /\ request'.now = {} /\ request'.stage = "judge"
  BY <1>2, <1>3
<1>9. TriageTypes'  BY <1>1, <1>2, <1>3 DEF TriageTypes
<1>10. Bears' /\ Settled' /\ Tri!JudgedOnce'
  BY <1>1, <1>2 DEF Bears, Settled, Tri!JudgedOnce, Tri!JudgedBy, Tells, Overtaken
<1> HIDE DEF id, due
<1>11. Known'
  <2>1. \A r : OfLastClose(r) => OfLastClose(r)'  BY <1>2 DEF OfLastClose, Tri!Decision, Tri!JudgedBy
  <2> QED  BY <1>1, <1>2, <1>7, <1>8, <2>1 DEF Known
<1>12. Open' = fresh /\ Open = request.fresh  BY <1>2, <1>8 DEF Open, Tri!Applying
<1>13. \A r \in request.fresh : r.item # i  BY <1>1, <1>2 DEF Fresh
<1>14. Alone'
  <2> SUFFICES ASSUME NEW r \in fresh
               PROVE  /\ \A s \in fresh : s.item = r.item => s = r
                      /\ \A s \in DOMAIN receipts : receipts[s] = "done" => Tri!JudgedBy(s) # Tri!JudgedBy(r)
                      /\ skips[r.item].reviews \subseteq {r}
    BY <1>2, <1>12 DEF Alone, Tri!JudgedBy
  <2>1. CASE r \in request.fresh
    <3>1. /\ \A s \in request.fresh : s.item = r.item => s = r
          /\ \A s \in DOMAIN receipts : receipts[s] = "done" => Tri!JudgedBy(s) # Tri!JudgedBy(r)
          /\ skips[r.item].reviews \subseteq {r}
      BY <1>1, <1>12, <2>1 DEF Alone
    <3> QED  BY <1>4, <1>13, <2>1, <3>1
  <2>2. CASE r \notin request.fresh
    <3>1. due /\ r = id  BY <2>2
    <3> QED  BY <1>4, <1>5, <1>13, <3>1
  <2> QED  BY <2>1, <2>2
<1>15. Fresh'  BY <1>1, <1>2, <1>4, <1>6, <1>8 DEF Fresh
<1>16. Effected'  BY <1>8 DEF Effected
<1> QED  BY <1>9, <1>10, <1>11, <1>14, <1>15, <1>16 DEF TriageInv

(* A receipt is written for a review that has none. *)
LEMMA WriteKeeps ==
    ASSUME Tri!ConstantsOK, TriageInv, NEW id \in request.fresh, Tri!WriteReceipt(id)
    PROVE  TriageInv' /\ Tri!ReceiptsStay
<1>1. TriageTypes /\ Bears /\ Known /\ Alone /\ Fresh /\ Settled /\ Effected /\ Tri!JudgedOnce
  BY DEF TriageInv
<1>2. /\ UNCHANGED <<skips, verdicts, clock>>
      /\ receipts' = [r \in DOMAIN receipts \cup {id} |-> IF r = id THEN "applying" ELSE receipts[r]]
      /\ request' = [request EXCEPT !.stage = "write", !.fresh = @ \ {id}]
  BY DEF Tri!WriteReceipt
<1>3. id \notin DOMAIN receipts  BY <1>1 DEF Fresh
<1>4. request' = [by |-> request.by, stage |-> "write", todo |-> request.todo, fresh |-> request.fresh \ {id},
                  refused |-> request.refused, now |-> request.now]
  BY <1>1, <1>2 DEF TriageTypes
<1>5. /\ request'.fresh = request.fresh \ {id} /\ request'.todo = request.todo /\ request'.now = request.now
      /\ request'.stage = "write"
  BY <1>4
<1>6. /\ DOMAIN receipts' = DOMAIN receipts \cup {id} /\ receipts'[id] = "applying"
      /\ \A r \in DOMAIN receipts : receipts'[r] = receipts[r]
  BY <1>2, <1>3
<1>7. Tri!ReceiptsStay  BY <1>6 DEF Tri!ReceiptsStay
<1>8. TriageTypes'
  <2>1. \A r \in DOMAIN receipts' : receipts'[r] \in Settling  BY <1>1, <1>6 DEF TriageTypes, Settling
  <2>2. skips' \in [Items -> [status: {"absent", "ready", "skipped", "split"}, at: 0..MaxClock,
                              run: Closers \cup {Nobody}, reopens: Nat, reviews: SUBSET DOMAIN receipts',
                              marked: BOOLEAN]]
    <3>1. SUBSET DOMAIN receipts \subseteq SUBSET DOMAIN receipts'  BY <1>6
    <3> QED  BY <1>1, <1>2, <3>1 DEF TriageTypes
  <2> QED  BY <1>1, <1>2, <1>4, <1>5, <2>1, <2>2 DEF TriageTypes
<1>9. Bears'  BY <1>1, <1>2 DEF Bears
<1>10. Known'
  <2>1. \A r : OfLastClose(r) => OfLastClose(r)'  BY <1>2 DEF OfLastClose, Tri!Decision, Tri!JudgedBy
  <2> QED  BY <1>1, <1>5, <1>6, <2>1 DEF Known
<1>11. Open' = Open /\ Tri!Applying \subseteq Tri!Applying'  BY <1>3, <1>5, <1>6 DEF Open, Tri!Applying
<1>12. \A s \in DOMAIN receipts' : receipts'[s] = "done" => s \in DOMAIN receipts /\ receipts[s] = "done"
  BY <1>6
<1>13. Alone'  BY <1>1, <1>2, <1>11, <1>12 DEF Alone, Tri!JudgedBy
<1>14. Fresh'
  <2> SUFFICES ASSUME NEW r \in request.fresh \ {id} PROVE r \notin DOMAIN receipts' /\ r.item \notin request.todo
    BY <1>5 DEF Fresh
  <2> QED  BY <1>1, <1>6 DEF Fresh
<1>15. Settled'
  <2> SUFFICES ASSUME NEW r \in DOMAIN receipts' PROVE Tells(r, receipts'[r])  BY <1>2 DEF Settled, Tells, Overtaken
  <2>1. CASE r = id  BY <1>6, <2>1 DEF Tells
  <2>2. CASE r # id  BY <1>1, <1>6, <2>2 DEF Settled
  <2> QED  BY <2>1, <2>2
<1>16. Effected'  BY <1>1, <1>2, <1>5, <1>11 DEF Effected, Tells, Overtaken
<1>17. Tri!JudgedOnce'  BY <1>1, <1>12 DEF Tri!JudgedOnce, Tri!JudgedBy
<1> QED  BY <1>7, <1>8, <1>9, <1>10, <1>13, <1>14, <1>15, <1>16, <1>17 DEF TriageInv

(* The effect of a review: what is to be written down is what its item says. *)
LEMMA EffectKeeps == ASSUME Tri!ConstantsOK, TriageInv, NEW id \in Tri!Applying, Tri!Effect(id) PROVE TriageInv'
<1>1. TriageTypes /\ Bears /\ Known /\ Alone /\ Fresh /\ Settled /\ Effected /\ Tri!JudgedOnce
  BY DEF TriageInv
<1> DEFINE i == id.item
           item == skips[i]
           reopens == id.verdict = "missed" /\ Tri!ReopensNow(id)
<1>2. /\ UNCHANGED <<receipts, verdicts, clock>> /\ request.now = {}
      /\ request' = [request EXCEPT !.now = {<<id, Tri!Outcome(id)>>}]
      /\ skips' = IF reopens THEN [skips EXCEPT ![i] = Tri!ReopenedBy(id)] ELSE skips
  BY DEF Tri!Effect
<1>3. request' = [by |-> request.by, stage |-> request.stage, todo |-> request.todo, fresh |-> request.fresh,
                  refused |-> request.refused, now |-> {<<id, Tri!Outcome(id)>>}]
  BY <1>1, <1>2 DEF TriageTypes
<1>4. /\ request'.fresh = request.fresh /\ request'.todo = request.todo /\ request'.now = {<<id, Tri!Outcome(id)>>}
      /\ request'.stage = request.stage
  BY <1>3
<1>5. id \in DOMAIN receipts /\ i \in Items /\ OfLastClose(id) /\ id \in Open
  BY <1>1 DEF Tri!Applying, Known, OfLastClose, Open
<1>6. Tri!Outcome(id) \in {"done", "void"}  BY DEF Tri!Outcome
<1> DEFINE Item == [status: {"absent", "ready", "skipped", "split"}, at: 0..MaxClock,
                    run: Closers \cup {Nobody}, reopens: Nat, reviews: SUBSET DOMAIN receipts, marked: BOOLEAN]
<1>7. skips \in [Items -> Item] /\ item \in Item  BY <1>1, <1>5 DEF TriageTypes
<1>8. Tri!ReopenedBy(id) = [status |-> "ready", at |-> 0, run |-> Nobody, reopens |-> item.reopens + 1,
                        reviews |-> item.reviews \cup {id}, marked |-> TRUE]
  <2>1. Tri!Reopened(item) = [status |-> "ready", at |-> 0, run |-> Nobody, reopens |-> item.reopens + 1,
                          reviews |-> item.reviews, marked |-> item.marked]
    BY <1>7, ReopenedIs
  <2>2. PICK p : p = Tri!Reopened(item)  OBVIOUS
  <2>3. Tri!ReopenedBy(id) = [p EXCEPT !.reviews = item.reviews \cup {id}, !.marked = TRUE]
    BY <2>2, Zenon DEF Tri!ReopenedBy
  <2>4. PICK n : n = item.reopens + 1  OBVIOUS
  <2>5. PICK rs : rs = item.reviews \cup {id}  OBVIOUS
  <2>6. p = [status |-> "ready", at |-> 0, run |-> Nobody, reopens |-> n, reviews |-> item.reviews,
             marked |-> item.marked]
    BY <2>1, <2>2, <2>4
  <2>7. PICK q : q = [p EXCEPT !.reviews = rs, !.marked = TRUE]  OBVIOUS
  <2> HIDE DEF item
  <2>8. q = [status |-> "ready", at |-> 0, run |-> Nobody, reopens |-> n, reviews |-> rs, marked |-> TRUE]
    BY <2>6, <2>7
  <2> QED  BY <2>3, <2>4, <2>5, <2>7, <2>8
<1>9. CASE reopens
  <2> DEFINE new == Tri!ReopenedBy(id)
  <2>1. item.reviews = {}  BY <1>1, <1>5, <1>9 DEF Tri!ReopensNow, Alone
  <2>2. new \in Item
    <3>1. item.reopens + 1 \in Nat /\ 0 \in 0..MaxClock  BY <1>7 DEF Tri!ConstantsOK
    <3> HIDE DEF item
    <3> QED  BY <1>5, <1>8, <2>1, <3>1
  <2>3. skips' = [skips EXCEPT ![i] = new]  BY <1>2, <1>9
  <2> HIDE DEF new, Item
  <2>4. /\ skips' \in [Items -> Item] /\ skips'[i] = new /\ \A j \in Items : j # i => skips'[j] = skips[j]
    BY <1>5, <1>7, <2>2, <2>3
  <2>5. /\ new.status = "ready" /\ new.reopens = item.reopens + 1 /\ new.reviews = {id} /\ new.marked
    BY <1>8, <2>1 DEF new
  <2>6. \A j \in Items : skips[j].reopens \in Nat  BY <1>7 DEF Item
  <2>7. TriageTypes'  BY <1>1, <1>2, <1>3, <2>4 DEF TriageTypes, Item
  <2>8. Bears'  BY <1>1, <2>4, <2>5 DEF Bears
  <2>9. \A r \in DOMAIN receipts \cup request.fresh : OfLastClose(r)' /\ (r.item = i => Overtaken(r)')
    <3> SUFFICES ASSUME NEW r \in DOMAIN receipts \cup request.fresh PROVE OfLastClose(r)' /\ (r.item = i => Overtaken(r)')
      OBVIOUS
    <3>1. OfLastClose(r)  BY <1>1 DEF Known
    <3>2. CASE r.item = i
      <4>1. r.reopens \in Nat /\ r.reopens <= item.reopens  BY <3>1, <3>2 DEF OfLastClose
      <4>2. r.reopens < skips'[i].reopens  BY <2>4, <2>5, <2>6, <1>5, <4>1
      <4>3. skips'[i].reopens \in Nat  BY <2>4, <2>5, <2>6, <1>5
      <4> QED  BY <1>5, <3>2, <4>1, <4>2, <4>3 DEF OfLastClose, Overtaken
    <3>3. CASE r.item # i
      <4>1. r.item \in Items /\ skips'[r.item] = skips[r.item]  BY <2>4, <3>1, <3>3 DEF OfLastClose
      <4> QED  BY <3>1, <3>3, <4>1 DEF OfLastClose, Tri!Decision, Tri!JudgedBy
    <3> QED  BY <3>2, <3>3
  <2>10. Known'  BY <1>2, <1>4, <2>9 DEF Known
  <2>11. Open' = Open /\ Tri!Applying' = Tri!Applying  BY <1>2, <1>4 DEF Open, Tri!Applying
  <2>12. \A r \in Open : r \in DOMAIN receipts \cup request.fresh /\ r.item \in Items
    BY <1>1 DEF Open, Tri!Applying, Known, OfLastClose
  <2>13. Alone'
    <3> SUFFICES ASSUME NEW r \in Open
                 PROVE  /\ \A s \in Open : s.item = r.item => s = r
                        /\ \A s \in DOMAIN receipts : receipts[s] = "done" => Tri!JudgedBy(s) # Tri!JudgedBy(r)
                        /\ skips'[r.item].reviews \subseteq {r}
      BY <1>2, <2>11 DEF Alone, Tri!JudgedBy
    <3>1. /\ \A s \in Open : s.item = r.item => s = r
          /\ \A s \in DOMAIN receipts : receipts[s] = "done" => Tri!JudgedBy(s) # Tri!JudgedBy(r)
          /\ skips[r.item].reviews \subseteq {r}
      BY <1>1 DEF Alone
    <3>2. skips'[r.item].reviews \subseteq {r}
      <4>1. CASE r.item = i  BY <1>5, <2>4, <2>5, <3>1, <4>1
      <4>2. CASE r.item # i  BY <2>4, <2>12, <3>1, <4>2
      <4> QED  BY <4>1, <4>2
    <3> QED  BY <3>1, <3>2
  <2>14. Fresh' /\ Tri!JudgedOnce'  BY <1>1, <1>2, <1>4 DEF Fresh, Tri!JudgedOnce, Tri!JudgedBy
  <2>15. Settled'
    <3> SUFFICES ASSUME NEW r \in DOMAIN receipts PROVE Tells(r, receipts[r])'
      BY <1>2 DEF Settled, Tells, Overtaken
    <3>1. Tells(r, receipts[r]) /\ r.item \in Items  BY <1>1 DEF Settled, Known, OfLastClose
    <3>2. CASE r.item # i  BY <1>2, <2>4, <3>1, <3>2 DEF Tells, Overtaken
    <3>3. CASE r.item = i
      <4>1. receipts[r] # "done" \/ r.verdict # "missed"  BY <2>1, <3>1, <3>3 DEF Tells
      <4>2. receipts[r] = "void" => r # id  BY DEF Tri!Applying
      <4> QED  BY <1>2, <2>4, <2>5, <2>9, <1>5, <3>3, <4>1, <4>2 DEF Tells
    <3> QED  BY <3>2, <3>3
  <2>16. Tri!Outcome(id) = "done" /\ id \in skips'[i].reviews  BY <1>9, <2>4, <2>5 DEF Tri!Outcome
  <2>17. Effected'  BY <1>4, <1>5, <2>11, <2>16 DEF Effected, Tells
  <2> QED  BY <2>7, <2>8, <2>10, <2>13, <2>14, <2>15, <2>17 DEF TriageInv
<1>10. CASE ~reopens
  <2>1. skips' = skips  BY <1>2, <1>10
  <2>2. TriageTypes'  BY <1>1, <1>2, <1>3, <2>1 DEF TriageTypes
  <2>3. \A r : (OfLastClose(r) => OfLastClose(r)') /\ \A o : (Tells(r, o) <=> Tells(r, o)')
    BY <2>1 DEF OfLastClose, Tri!Decision, Tri!JudgedBy, Tells, Overtaken
  <2>4. Bears' /\ Known' /\ Fresh' /\ Tri!JudgedOnce' /\ Settled'
    BY <1>1, <1>2, <1>4, <2>1, <2>3 DEF Bears, Known, Fresh, Tri!JudgedOnce, Tri!JudgedBy, Settled
  <2>5. Open' = Open /\ Tri!Applying' = Tri!Applying  BY <1>2, <1>4 DEF Open, Tri!Applying
  <2>6. Alone'  BY <1>1, <1>2, <2>1, <2>5 DEF Alone, Tri!JudgedBy
  <2>7. Tells(id, Tri!Outcome(id))
    <3>1. id.verdict = "missed" /\ Tri!Outcome(id) = "done" => id \in item.reviews
      BY <1>10 DEF Tri!Outcome
    <3>2. Tri!Outcome(id) = "void" => id \notin item.reviews /\ id.verdict # "upheld" /\ ~Tri!ReopensNow(id)
      BY DEF Tri!Outcome
    <3>3. Tri!Outcome(id) = "void" => id.reopens # item.reopens  BY <1>5, <3>2 DEF OfLastClose, Tri!ReopensNow
    <3>4. item.reopens \in Nat /\ id.reopens \in Nat /\ id.reopens <= item.reopens  BY <1>5, <1>7 DEF OfLastClose
    <3> QED  BY <3>1, <3>2, <3>3, <3>4 DEF Tells, Overtaken
  <2>8. Effected'  BY <1>4, <1>6, <2>3, <2>5, <2>7 DEF Effected
  <2> QED  BY <2>2, <2>4, <2>6, <2>8 DEF TriageInv
<1> QED  BY <1>9, <1>10

(* What it was is written down, once: no other settled review is of the same close. *)
LEMMA RecordKeeps == ASSUME Tri!ConstantsOK, TriageInv, Tri!Record PROVE TriageInv' /\ Tri!ReceiptsStay
<1>1. TriageTypes /\ Bears /\ Known /\ Alone /\ Fresh /\ Settled /\ Effected /\ Tri!JudgedOnce
  BY DEF TriageInv
<1>2. PICK done \in request.now : receipts' = [receipts EXCEPT ![done[1]] = done[2]]  BY DEF Tri!Record
<1>3. UNCHANGED <<skips, verdicts, clock>> /\ request' = [request EXCEPT !.now = {}]  BY DEF Tri!Record
<1> DEFINE id == done[1]
           outcome == done[2]
<1>4. id \in Tri!Applying /\ outcome \in {"done", "void"} /\ Tells(id, outcome)  BY <1>1 DEF Effected
<1>5. request' = [by |-> request.by, stage |-> request.stage, todo |-> request.todo, fresh |-> request.fresh,
                  refused |-> request.refused, now |-> {}]
  BY <1>1, <1>3 DEF TriageTypes
<1>6. /\ request'.fresh = request.fresh /\ request'.todo = request.todo /\ request'.now = {}
      /\ request'.stage = request.stage
  BY <1>5
<1> HIDE DEF id, outcome
<1>7. /\ DOMAIN receipts' = DOMAIN receipts /\ receipts'[id] = outcome /\ id \in DOMAIN receipts
      /\ \A r \in DOMAIN receipts : r # id => receipts'[r] = receipts[r]
  BY <1>2, <1>4 DEF Tri!Applying, id, outcome
<1>8. Tri!ReceiptsStay  BY <1>4, <1>7 DEF Tri!ReceiptsStay, Tri!Applying
<1>9. TriageTypes'
  <2>1. \A r \in DOMAIN receipts : receipts'[r] \in Settling  BY <1>1, <1>4, <1>7 DEF TriageTypes, Settling
  <2> QED  BY <1>1, <1>3, <1>5, <1>6, <1>7, <2>1 DEF TriageTypes
<1>10. \A r : (OfLastClose(r) => OfLastClose(r)') /\ \A o : (Tells(r, o) <=> Tells(r, o)')
  BY <1>3 DEF OfLastClose, Tri!Decision, Tri!JudgedBy, Tells, Overtaken
<1>11. Bears' /\ Known' /\ Fresh'  BY <1>1, <1>3, <1>6, <1>7, <1>10 DEF Bears, Known, Fresh
<1>12. Open' \subseteq Open /\ id \in Open  BY <1>4, <1>6, <1>7 DEF Open, Tri!Applying
<1>13. id \notin Open'
  <2>1. id \notin request.fresh  BY <1>1, <1>7 DEF Fresh
  <2>2. id \notin Tri!Applying'  BY <1>4, <1>7 DEF Tri!Applying
  <2> QED  BY <1>6, <2>1, <2>2 DEF Open
<1>14. Alone'
  <2> SUFFICES ASSUME NEW r \in Open, r # id
               PROVE  /\ \A s \in Open : s.item = r.item => s = r
                      /\ \A s \in DOMAIN receipts : receipts'[s] = "done" => Tri!JudgedBy(s) # Tri!JudgedBy(r)
                      /\ skips[r.item].reviews \subseteq {r}
    BY <1>3, <1>7, <1>12, <1>13 DEF Alone, Tri!JudgedBy
  <2>1. /\ \A s \in Open : s.item = r.item => s = r
        /\ \A s \in DOMAIN receipts : receipts[s] = "done" => Tri!JudgedBy(s) # Tri!JudgedBy(r)
        /\ skips[r.item].reviews \subseteq {r}
    BY <1>1 DEF Alone
  <2>2. id.item # r.item  BY <1>12, <2>1
  <2>3. Tri!JudgedBy(id) # Tri!JudgedBy(r)  BY <2>2 DEF Tri!JudgedBy
  <2> QED  BY <1>7, <2>1, <2>3
<1>15. Settled'
  <2> SUFFICES ASSUME NEW r \in DOMAIN receipts PROVE Tells(r, receipts'[r])
    BY <1>3, <1>7 DEF Settled, Tells, Overtaken
  <2>1. CASE r = id  BY <1>4, <1>7, <2>1
  <2>2. CASE r # id  BY <1>1, <1>7, <2>2 DEF Settled
  <2> QED  BY <2>1, <2>2
<1>16. Effected'  BY <1>6 DEF Effected
<1>17. Tri!JudgedOnce'
  <2> SUFFICES ASSUME NEW r \in DOMAIN receipts, NEW s \in DOMAIN receipts, receipts'[r] = "done", receipts'[s] = "done",
                      Tri!JudgedBy(r) = Tri!JudgedBy(s), r # s
               PROVE  FALSE
    BY <1>7 DEF Tri!JudgedOnce, Tri!JudgedBy
  <2>1. CASE r # id /\ s # id  BY <1>1, <1>7, <2>1 DEF Tri!JudgedOnce
  <2>2. CASE r = id \/ s = id
    <3>1. \A q \in DOMAIN receipts : receipts[q] = "done" => Tri!JudgedBy(q) # Tri!JudgedBy(id)
      BY <1>1, <1>12 DEF Alone
    <3> QED  BY <1>7, <2>2, <3>1
  <2> QED  BY <2>1, <2>2
<1> QED  BY <1>8, <1>9, <1>11, <1>14, <1>15, <1>16, <1>17 DEF TriageInv

-----------------------------------------------------------------------------
(* Every step keeps the invariant, and a settled receipt as it is, ... *)
LEMMA TriageNext == ASSUME Tri!ConstantsOK, TriageInv, [Tri!Next]_(Tri!vars) PROVE TriageInv' /\ Tri!ReceiptsStay
<1>1. UNCHANGED receipts => Tri!ReceiptsStay  BY DEF Tri!ReceiptsStay
<1>2. CASE UNCHANGED Tri!vars
  <2>1. UNCHANGED <<skips, receipts, request, verdicts, clock>>  BY <1>2 DEF Tri!vars
  <2>2. TriageTypes  BY DEF TriageInv
  <2>3. request = [by |-> request.by, stage |-> request.stage, todo |-> request.todo, fresh |-> request.fresh,
                   refused |-> request.refused, now |-> request.now]
    BY <2>2 DEF TriageTypes
  <2> QED  BY <1>1, <2>1, <2>2, <2>3, RequestMoves DEF TriageTypes
<1>3. CASE \/ Tri!Crash \/ Tri!LeaseEnds \/ Tri!Refuse \/ Tri!LeaseRequired \/ Tri!Answer
           \/ \E a \in Auditors : Tri!Begin(a) \/ Tri!Post(a)
           \/ \E i \in Items, a \in Auditors, verdict \in Tri!Pending : Tri!Review(a, i, verdict)
  <2>1. UNCHANGED receipts  BY <1>3 DEF Tri!Crash, Tri!LeaseEnds, Tri!Refuse, Tri!LeaseRequired, Tri!Answer, Tri!Begin, Tri!Post, Tri!Review
  <2> QED  BY <1>1, <1>3, <2>1, RequestKeeps
<1>4. ASSUME NEW i \in Items,
             \/ Tri!AdminSkip(i) \/ Tri!AdminRetry(i) \/ \E r \in Closers : Tri!Skip(i, r)
             \/ \E children \in SUBSET Items : Tri!Split(i, children)
      PROVE  TriageInv' /\ Tri!ReceiptsStay
  <2>1. \/ \E r \in Closers \cup {Nobody} : Tri!CloseBy(i, r)
        \/ Tri!AdminRetry(i)
        \/ \E children \in SUBSET Items : Tri!Split(i, children)
    BY <1>4 DEF Tri!AdminSkip, Tri!Skip
  <2>2. UNCHANGED receipts  BY <2>1, Zenon DEF Tri!CloseBy, Tri!AdminRetry, Tri!ItemStep, Tri!Split
  <2> QED  BY <1>1, <2>1, <2>2, ItemKeeps
<1>5. ASSUME NEW i \in Items, Tri!JudgeOne(i)  PROVE TriageInv' /\ Tri!ReceiptsStay
  <2>1. UNCHANGED receipts  BY <1>5 DEF Tri!JudgeOne
  <2> QED  BY <1>1, <1>5, <2>1, JudgeKeeps
<1>6. ASSUME NEW id \in Tri!Applying, Tri!Effect(id)  PROVE TriageInv' /\ Tri!ReceiptsStay
  <2>1. UNCHANGED receipts  BY <1>6 DEF Tri!Effect
  <2> QED  BY <1>1, <1>6, <2>1, EffectKeeps
<1>7. ASSUME NEW id \in request.fresh, Tri!WriteReceipt(id)  PROVE TriageInv' /\ Tri!ReceiptsStay
  BY <1>7, WriteKeeps
<1>8. CASE Tri!Record  BY <1>8, RecordKeeps
<1> QED  BY <1>2, <1>3, <1>4, <1>5, <1>6, <1>7, <1>8 DEF Tri!Next

(* ... and with it receipts and items agree. *)
LEMMA TriageSafe == ASSUME Tri!ConstantsOK, TriageInv PROVE Tri!ReviewsAgree
<1>1. TriageTypes /\ Bears /\ Settled /\ Tri!JudgedOnce  BY DEF TriageInv
<1>2. Tri!TypeOK  BY <1>1 DEF TriageTypes, Tri!TypeOK, Settling
<1>3. Tri!MissedReopens  BY <1>1 DEF Tri!MissedReopens, Settled, Tells
<1>4. Tri!NeverLoops
  <2> SUFFICES ASSUME NEW i \in Items PROVE Cardinality(skips[i].reviews) <= 1
    BY DEF Tri!NeverLoops, Tri!Cardinality, Cardinality
  <2>1. CASE skips[i].reviews = {}  BY <2>1, FS_EmptySet
  <2>2. CASE skips[i].reviews # {}
    <3>1. PICK r : r \in skips[i].reviews  BY <2>2
    <3>2. skips[i].reviews = {r}
      <4>1. \A s \in skips[i].reviews : s = r  BY <1>1, <3>1 DEF Bears
      <4> QED  BY <3>1, <4>1
    <3>3. Cardinality({r}) = 1  BY FS_Singleton
    <3> QED  BY <3>2, <3>3
  <2> QED  BY <2>1, <2>2
<1> QED  BY <1>1, <1>2, <1>3, <1>4 DEF Tri!ReviewsAgree

-----------------------------------------------------------------------------
(* Attention. *)
Row      == [notice: Att!Notice, since: Nat]
Reviewed == [path: Subjects, base: Contents, outcome: Att!Outcomes, at: Att!Days, reverted: BOOLEAN]
Item     == [first: Att!Notice, keys: SUBSET Att!Notice, says: Att!Notice, status: {"waiting", "claimed", "closed"}]

(* The types of the variables. *)
NoticeTypes ==
    /\ day \in Att!Days /\ published \in [Subjects -> Att!Docs]
    /\ reviews \in Seq(Reviewed) /\ notices \in Seq(Item)
    /\ start \in [step: {"none", "plan", "queue"}, tree: [Subjects -> Att!Docs] \cup {<<>>}, due: SUBSET Row,
                  left: SUBSET Row, known: SUBSET Att!Notice, created: SUBSET Row]
    /\ start.step = "plan" => start.tree \in [Subjects -> Att!Docs]
    /\ moves \in 0..MaxMoves /\ failures \in 0..MaxFaults

(* An item says the notice of its concept it last took. *)
Speaks == \A i \in DOMAIN notices : notices[i].says \in notices[i].keys /\ notices[i].says.path = notices[i].first.path

(* A notice that was due is raised, was known before, or is younger than the new items. *)
Dealt(row) ==
    \/ row.notice \in start.known
    \/ \E i \in DOMAIN notices : notices[i].says = row.notice /\ notices[i].status = "waiting"
    \/ Cardinality(start.created) >= Cap /\ \A r \in start.created : r.since <= row.since

(* A run start deals with one notice a concept, the oldest first. *)
Starts ==
    /\ start.step # "queue" => start.due = {}
    /\ start.left \subseteq start.due
    /\ \A r, s \in start.due : r.notice.path = s.notice.path => r = s
    /\ start.created \subseteq start.due \ start.left /\ IsFiniteSet(start.created)
    /\ \A r \in start.created, s \in start.left : r.since <= s.since
    /\ \A row \in start.due \ start.left : Dealt(row)
    /\ start.step = "queue" =>
          Att!KeysOf(notices) \subseteq start.known \cup {row.notice : row \in start.due \ start.left}

AttentionInv == NoticeTypes /\ Speaks /\ Att!RaisedOnce /\ Starts

-----------------------------------------------------------------------------
(* A start that is none has nothing due. *)
LEMMA NoStartIs ==
    Att!NoStart = [step |-> "none", tree |-> <<>>, due |-> {}, left |-> {}, known |-> {}, created |-> {}]
  BY DEF Att!NoStart

LEMMA NothingStarts == ASSUME start = Att!NoStart PROVE Starts
<1>1. start.step = "none" /\ start.due = {} /\ start.left = {} /\ start.created = {}  BY NoStartIs
<1>2. IsFiniteSet({})  BY FS_EmptySet
<1> QED  BY <1>1, <1>2 DEF Starts

(* Nothing is raised in the beginning. *)
LEMMA AttentionInit == Att!ConstantsOK /\ Att!Init => AttentionInv
<1> SUFFICES ASSUME Att!ConstantsOK, Att!Init PROVE AttentionInv  OBVIOUS
<1>1. notices = <<>> /\ reviews = <<>> /\ start = Att!NoStart  BY DEF Att!Init
<1>2. DOMAIN notices = {}  BY <1>1
<1>3. NoticeTypes
  <2>1. 1 \in Att!Days /\ (CHOOSE b \in Contents : TRUE) \in Contents  BY DEF Att!ConstantsOK, Att!Days
  <2>2. published \in [Subjects -> Att!Docs]  BY <2>1 DEF Att!Init, Att!Docs
  <2>3. day \in Att!Days /\ moves \in 0..MaxMoves /\ failures \in 0..MaxFaults  BY <2>1 DEF Att!Init, Att!ConstantsOK
  <2>4. start.step = "none"  BY <1>1, NoStartIs
  <2> QED  BY <1>1, <2>2, <2>3, <2>4, NoStartIs DEF NoticeTypes
<1> QED  BY <1>1, <1>2, <1>3, NothingStarts DEF AttentionInv, Speaks, Att!RaisedOnce

(* What happens to concepts and reviews leaves items and starts alone. *)
LEMMA MeanwhileKeeps ==
    ASSUME Att!ConstantsOK, AttentionInv, UNCHANGED <<notices, start>>, NoticeTypes'
    PROVE  AttentionInv'
<1>1. Speaks /\ Att!RaisedOnce /\ Starts  BY DEF AttentionInv
<1> QED  BY <1>1 DEF AttentionInv, Speaks, Att!RaisedOnce, Starts, Dealt, Att!KeysOf

LEMMA MeanwhileMoves ==
    ASSUME Att!ConstantsOK, AttentionInv,
           \/ Att!NextDay
           \/ \E c \in Subjects : Att!Push(c) \/ Att!Review(c)
           \/ \E r \in DOMAIN reviews : Att!RevertReview(r)
    PROVE  AttentionInv'
<1>1. NoticeTypes /\ MaxMoves \in Nat /\ LastDay \in Nat  BY DEF AttentionInv, Att!ConstantsOK
<1>2. Att!Move => moves' \in 0..MaxMoves  BY <1>1 DEF Att!Move, NoticeTypes
<1>3. CASE Att!NextDay
  <2>1. NoticeTypes'  BY <1>1, <1>3 DEF Att!NextDay, NoticeTypes, Att!Days
  <2> QED  BY <1>3, <2>1, MeanwhileKeeps DEF Att!NextDay
<1>4. ASSUME NEW c \in Subjects, Att!Push(c)  PROVE AttentionInv'
  <2>1. published' \in [Subjects -> Att!Docs]
    <3>1. CASE \E b \in Contents, d \in Declared :
                  published' = [published EXCEPT ![c] = [base |-> b, generated |-> day, declared |-> d, live |-> TRUE]]
      BY <1>1, <3>1 DEF NoticeTypes, Att!Docs
    <3>2. CASE published' = [published EXCEPT ![c].live = FALSE]
      <4>1. published \in [Subjects -> [base: Contents, generated: Att!Days, declared: Declared, live: BOOLEAN]]
        BY <1>1 DEF NoticeTypes, Att!Docs
      <4>2. published' \in [Subjects -> [base: Contents, generated: Att!Days, declared: Declared, live: BOOLEAN]]
        BY <3>2, <4>1
      <4> QED  BY <4>2 DEF Att!Docs
    <3> QED  BY <1>4, <3>1, <3>2 DEF Att!Push
  <2>2. UNCHANGED <<day, reviews, notices, start, failures>> /\ moves' \in 0..MaxMoves  BY <1>2, <1>4 DEF Att!Push
  <2>3. NoticeTypes'  BY <1>1, <2>1, <2>2 DEF NoticeTypes
  <2> QED  BY <2>2, <2>3, MeanwhileKeeps
<1>5. ASSUME NEW c \in Subjects, Att!Review(c)  PROVE AttentionInv'
  <2>1. PICK o \in Att!Outcomes :
           reviews' = Append(reviews, [path |-> c, base |-> published[c].base, outcome |-> o, at |-> day,
                                       reverted |-> FALSE])
    BY <1>5 DEF Att!Review
  <2>2. published[c].base \in Contents /\ day \in Att!Days  BY <1>1 DEF NoticeTypes, Att!Docs
  <2>3. reviews' \in Seq(Reviewed)  BY <1>1, <2>1, <2>2 DEF NoticeTypes, Reviewed
  <2>4. UNCHANGED <<day, published, notices, start, failures>> /\ moves' \in 0..MaxMoves  BY <1>2, <1>5 DEF Att!Review
  <2>5. NoticeTypes'  BY <1>1, <2>3, <2>4 DEF NoticeTypes
  <2> QED  BY <2>4, <2>5, MeanwhileKeeps
<1>6. ASSUME NEW r \in DOMAIN reviews, Att!RevertReview(r)  PROVE AttentionInv'
  <2>1. reviews' = [reviews EXCEPT ![r].reverted = TRUE]  BY <1>6 DEF Att!RevertReview
  <2>2. reviews \in Seq(Reviewed) /\ reviews[r] \in Reviewed  BY <1>1 DEF NoticeTypes
  <2>3. PICK new : new = [reviews[r] EXCEPT !.reverted = TRUE]  OBVIOUS
  <2>4. new \in Reviewed  BY <2>2, <2>3 DEF Reviewed
  <2>5. reviews' = [reviews EXCEPT ![r] = new]  BY <2>1, <2>3
  <2>6. reviews' \in Seq(Reviewed)  BY <2>2, <2>4, <2>5
  <2>7. UNCHANGED <<day, published, notices, start, failures>> /\ moves' \in 0..MaxMoves  BY <1>2, <1>6 DEF Att!RevertReview
  <2>8. NoticeTypes'  BY <1>1, <2>6, <2>7 DEF NoticeTypes
  <2> QED  BY <2>7, <2>8, MeanwhileKeeps
<1> QED  BY <1>3, <1>4, <1>5, <1>6

(* Item calls and the sweep of a run start: only the status of an item moves. *)
LEMMA StatusKeeps ==
    ASSUME Att!ConstantsOK, AttentionInv, start.step = "none", Starts',
           notices' \in Seq(Item), Len(notices') = Len(notices),
           \A i \in DOMAIN notices : /\ notices'[i].keys = notices[i].keys /\ notices'[i].says = notices[i].says
                                   /\ notices'[i].first = notices[i].first,
           UNCHANGED <<day, published, reviews, moves, failures>>,
           start' = start \/ (start' = [Att!NoStart EXCEPT !.step = "plan", !.tree = published])
    PROVE  AttentionInv'
<1>1. NoticeTypes /\ Speaks /\ Att!RaisedOnce  BY DEF AttentionInv
<1>2. DOMAIN notices' = DOMAIN notices  BY <1>1 DEF NoticeTypes
<1>3. NoticeTypes'
  <2>1. PICK none : none = Att!NoStart  OBVIOUS
  <2>2. start' = start \/ start' = [step |-> "plan", tree |-> published, due |-> {}, left |-> {}, known |-> {}, created |-> {}]
    <3>1. PICK new : new = [none EXCEPT !.step = "plan", !.tree = published]  OBVIOUS
    <3>2. none = [step |-> "none", tree |-> <<>>, due |-> {}, left |-> {}, known |-> {}, created |-> {}]
      BY <2>1, NoStartIs
    <3>3. new = [step |-> "plan", tree |-> published, due |-> {}, left |-> {}, known |-> {}, created |-> {}]
      BY <3>1, <3>2
    <3> QED  BY <2>1, <3>1, <3>3
  <2>3. start' \in [step: {"none", "plan", "queue"}, tree: [Subjects -> Att!Docs] \cup {<<>>}, due: SUBSET Row,
                    left: SUBSET Row, known: SUBSET Att!Notice, created: SUBSET Row]
    BY <1>1, <2>2 DEF NoticeTypes
  <2>4. start'.step = "plan" => start'.tree \in [Subjects -> Att!Docs]  BY <1>1, <2>2 DEF NoticeTypes
  <2> QED  BY <1>1, <2>3, <2>4 DEF NoticeTypes
<1>4. Speaks' /\ Att!RaisedOnce'  BY <1>1, <1>2 DEF Speaks, Att!RaisedOnce
<1> QED  BY <1>3, <1>4 DEF AttentionInv

LEMMA ItemMovesKeeps ==
    ASSUME Att!ConstantsOK, AttentionInv, NEW i \in DOMAIN notices, Att!ItemMoves(i)
    PROVE  AttentionInv'
<1>1. notices \in Seq(Item) /\ notices[i] \in Item /\ Starts  BY DEF AttentionInv, NoticeTypes
<1>2. UNCHANGED <<day, published, reviews, start, moves, failures>> /\ start.step = "none"  BY DEF Att!ItemMoves
<1>3. PICK status \in {"waiting", "claimed", "closed"} : notices' = [notices EXCEPT ![i].status = status]
  BY DEF Att!ItemMoves
<1>4. PICK new : new = [notices[i] EXCEPT !.status = status]  OBVIOUS
<1>5. new \in Item /\ new.keys = notices[i].keys /\ new.says = notices[i].says /\ new.first = notices[i].first
  BY <1>1, <1>4 DEF Item
<1>6. notices' = [notices EXCEPT ![i] = new]  BY <1>3, <1>4
<1>7. notices' \in Seq(Item) /\ Len(notices') = Len(notices)  BY <1>1, <1>5, <1>6
<1>8. \A j \in DOMAIN notices : /\ notices'[j].keys = notices[j].keys /\ notices'[j].says = notices[j].says
                              /\ notices'[j].first = notices[j].first
  <2>1. notices'[i] = new /\ \A j \in DOMAIN notices : j # i => notices'[j] = notices[j]  BY <1>1, <1>6
  <2> QED  BY <1>5, <2>1
<1>9. Starts'
  <2>1. start.due = {} /\ start.left = {} /\ start.created = {}  BY <1>1, <1>2 DEF Starts
  <2> QED  BY <1>1, <1>2, <2>1 DEF Starts
<1> QED  BY <1>2, <1>7, <1>8, <1>9, StatusKeeps

(* A run starts, and ends. *)
LEMMA StartRunKeeps == ASSUME Att!ConstantsOK, AttentionInv, Att!StartRun PROVE AttentionInv'
<1>1. notices \in Seq(Item)  BY DEF AttentionInv, NoticeTypes
<1>2. /\ start.step = "none" /\ notices' = [i \in DOMAIN notices |-> Att!Swept(notices[i])]
      /\ start' = [Att!NoStart EXCEPT !.step = "plan", !.tree = published]
      /\ UNCHANGED <<day, published, reviews, moves, failures>>
  BY DEF Att!StartRun
<1>3. ASSUME NEW item \in Item
      PROVE  /\ Att!Swept(item) \in Item /\ Att!Swept(item).keys = item.keys /\ Att!Swept(item).says = item.says
             /\ Att!Swept(item).first = item.first
  BY <1>3 DEF Att!Swept, Item
<1>4. DOMAIN notices = 1..Len(notices) /\ Len(notices) \in Nat /\ \A i \in DOMAIN notices : notices[i] \in Item
  BY <1>1
<1>5. notices' \in Seq(Item) /\ Len(notices') = Len(notices)
  <2>1. \A i \in 1..Len(notices) : Att!Swept(notices[i]) \in Item  BY <1>3, <1>4
  <2>2. notices' = [i \in 1..Len(notices) |-> Att!Swept(notices[i])]  BY <1>2, <1>4
  <2> QED  BY <1>4, <2>1, <2>2
<1>6. \A i \in DOMAIN notices : /\ notices'[i].keys = notices[i].keys /\ notices'[i].says = notices[i].says
                              /\ notices'[i].first = notices[i].first
  BY <1>2, <1>3, <1>4
<1>7. Starts'
  <2>1. PICK none : none = Att!NoStart  OBVIOUS
  <2>2. none = [step |-> "none", tree |-> <<>>, due |-> {}, left |-> {}, known |-> {}, created |-> {}]
    BY <2>1, NoStartIs
  <2>3. start' = [none EXCEPT !.step = "plan", !.tree = published]  BY <1>2, <2>1
  <2>4. start'.step = "plan" /\ start'.due = {} /\ start'.left = {} /\ start'.created = {}
    BY <2>2, <2>3
  <2>5. IsFiniteSet({})  BY FS_EmptySet
  <2> QED  BY <2>4, <2>5 DEF Starts
<1> QED  BY <1>2, <1>5, <1>6, <1>7, StatusKeeps

LEMMA StartEnds ==
    ASSUME Att!ConstantsOK, AttentionInv, Att!EndStart \/ Att!StartFails
    PROVE  AttentionInv'
<1>1. NoticeTypes /\ Speaks /\ Att!RaisedOnce  BY DEF AttentionInv
<1>2. start' = Att!NoStart /\ UNCHANGED <<day, published, reviews, notices, moves>>  BY DEF Att!EndStart, Att!StartFails
<1>3. failures' \in 0..MaxFaults  BY <1>1 DEF Att!EndStart, Att!StartFails, Att!Fault, NoticeTypes, Att!ConstantsOK
<1>4. Starts'  BY <1>2, NoStartIs, FS_EmptySet DEF Starts
<1>5. NoticeTypes'  BY <1>1, <1>2, <1>3, NoStartIs DEF NoticeTypes
<1> QED  BY <1>1, <1>2, <1>4, <1>5 DEF AttentionInv, Speaks, Att!RaisedOnce

(* A concept has at most one notice due. *)
LEMMA RowsAre ==
    ASSUME Att!ConstantsOK, NoticeTypes, NEW c \in Subjects, NEW d \in Att!Docs
    PROVE  /\ Att!RowsOf(c, d) \in SUBSET Row
           /\ \A r \in Att!RowsOf(c, d) : r.notice.path = c
           /\ \A r, s \in Att!RowsOf(c, d) : r = s
<1>1. DOMAIN reviews \subseteq Nat /\ \A r \in DOMAIN reviews : reviews[r] \in Reviewed
  BY DEF NoticeTypes
<1>2. Att!Unverified(c, d) \subseteq DOMAIN reviews /\ \A r, s \in Att!Unverified(c, d) : r = s
  <2> DEFINE of == {r \in DOMAIN reviews : reviews[r].path = c /\ reviews[r].base = d.base /\ ~reviews[r].reverted}
  <2>1. Att!Unverified(c, d) = {r \in of : reviews[r].outcome = "unverified" /\ \A q \in of : q <= r}
    BY DEF Att!Unverified
  <2>2. of \subseteq DOMAIN reviews  OBVIOUS
  <2> HIDE DEF of
  <2>3. \A r, s \in Att!Unverified(c, d) : r <= s /\ s <= r /\ r \in Nat /\ s \in Nat  BY <1>1, <2>1, <2>2
  <2> QED  BY <2>1, <2>2, <2>3
<1>3. d.base \in Contents /\ d.declared \in Nat /\ d.generated \in Nat /\ DefaultDays \in Nat
  <2>1. Declared \subseteq Nat /\ DefaultDays \in Nat  BY DEF Att!ConstantsOK
  <2>2. Att!Days \subseteq Nat  BY DEF Att!Days
  <2>3. d.base \in Contents /\ d.declared \in Declared /\ d.generated \in Att!Days  BY DEF Att!Docs
  <2> QED  BY <2>1, <2>2, <2>3
<1>4. Att!StaleFrom(d) \in Nat /\ Att!Basis(d) \in Att!Reasons  BY <1>3 DEF Att!StaleFrom, Att!Basis, Att!Reasons
<1> DEFINE Audited(r) == [notice |-> [path |-> c, base |-> d.base, reason |-> "audit_unverified", fact |-> r],
                          since |-> reviews[r].at]
           stale == [notice |-> [path |-> c, base |-> d.base, reason |-> Att!Basis(d), fact |-> Att!StaleFrom(d)],
                     since |-> Att!StaleFrom(d)]
<1>5. ASSUME NEW r \in Att!Unverified(c, d)  PROVE Audited(r) \in Row /\ Audited(r).notice.path = c
  <2>1. r \in Nat /\ reviews[r].at \in Nat  BY <1>1, <1>2 DEF Reviewed, Att!Days
  <2> QED  BY <1>3, <2>1 DEF Row, Att!Notice, Att!Reasons
<1>6. stale \in Row /\ stale.notice.path = c  BY <1>3, <1>4 DEF Row, Att!Notice
<1>7. \/ Att!RowsOf(c, d) = {} \/ Att!RowsOf(c, d) = {stale}
      \/ Att!RowsOf(c, d) = {Audited(r) : r \in Att!Unverified(c, d)}
  BY DEF Att!RowsOf
<1> HIDE DEF Audited, stale
<1> QED  BY <1>2, <1>5, <1>6, <1>7

LEMMA PlanKeeps == ASSUME Att!ConstantsOK, AttentionInv, Att!Plan PROVE AttentionInv'
<1>1. NoticeTypes /\ Speaks /\ Att!RaisedOnce /\ Starts  BY DEF AttentionInv
<1> DEFINE rows == UNION {Att!RowsOf(c, start.tree[c]) : c \in Subjects}
<1>2. /\ start' = [start EXCEPT !.step = "queue", !.due = rows, !.left = rows, !.known = Att!KeysOf(notices)]
      /\ UNCHANGED <<day, published, reviews, notices, moves, failures>> /\ start.step = "plan"
  BY DEF Att!Plan
<1>3. \A c \in Subjects : start.tree[c] \in Att!Docs  BY <1>1, <1>2 DEF NoticeTypes
<1>4. rows \in SUBSET Row /\ \A r, s \in rows : r.notice.path = s.notice.path => r = s
  <2>1. \A c \in Subjects : /\ Att!RowsOf(c, start.tree[c]) \in SUBSET Row
                            /\ \A r \in Att!RowsOf(c, start.tree[c]) : r.notice.path = c
                            /\ \A r, s \in Att!RowsOf(c, start.tree[c]) : r = s
    BY <1>1, <1>3, RowsAre
  <2> QED  BY <2>1
<1> HIDE DEF rows
<1>5. Att!KeysOf(notices) \in SUBSET Att!Notice
  <2>1. \A i \in DOMAIN notices : notices[i] \in Item  BY <1>1 DEF NoticeTypes
  <2>2. \A x \in Item : x.keys \in SUBSET Att!Notice  BY DEF Item
  <2> QED  BY <2>1, <2>2 DEF Att!KeysOf
<1>6. start.created = {}  BY <1>1, <1>2 DEF Starts
<1>7. start' = [step |-> "queue", tree |-> start.tree, due |-> rows, left |-> rows, known |-> Att!KeysOf(notices),
                created |-> {}]
  <2>1. start = [step |-> start.step, tree |-> start.tree, due |-> start.due, left |-> start.left,
                 known |-> start.known, created |-> start.created]
    BY <1>1 DEF NoticeTypes
  <2>2. PICK keys : keys = Att!KeysOf(notices)  OBVIOUS
  <2>3. start' = [start EXCEPT !.step = "queue", !.due = rows, !.left = rows, !.known = keys]  BY <1>2, <2>2
  <2> QED  BY <1>6, <2>1, <2>2, <2>3
<1>8. NoticeTypes'  BY <1>1, <1>2, <1>4, <1>5, <1>7 DEF NoticeTypes
<1>9. Starts'
  <2>1. /\ start'.step = "queue" /\ start'.due = rows /\ start'.left = rows /\ start'.known = Att!KeysOf(notices)
        /\ start'.created = {}
    BY <1>7
  <2>2. IsFiniteSet({}) /\ Att!KeysOf(notices)' = Att!KeysOf(notices)  BY <1>2, FS_EmptySet DEF Att!KeysOf
  <2> QED  BY <1>4, <2>1, <2>2 DEF Starts
<1> QED  BY <1>1, <1>2, <1>8, <1>9 DEF AttentionInv, Speaks, Att!RaisedOnce

(* A notice is queued, merged into a waiting item, known or too many. *)
LEMMA EnqueueKeeps ==
    ASSUME Att!ConstantsOK, AttentionInv, NEW row \in start.left, Att!Enqueue(row)
    PROVE  AttentionInv'
<1>1. NoticeTypes /\ Speaks /\ Att!RaisedOnce /\ Starts /\ Cap \in Nat  BY DEF AttentionInv, Att!ConstantsOK
<1> DEFINE n == row.notice
<1>2. /\ start.step = "queue" /\ (\A r \in start.left : row.since <= r.since)
      /\ UNCHANGED <<day, published, reviews, moves, failures>>
  BY DEF Att!Enqueue
<1>3. row \in Row /\ n \in Att!Notice /\ row \in start.due /\ notices \in Seq(Item)
  BY <1>1 DEF NoticeTypes, Starts, Row
<1>4. start = [step |-> start.step, tree |-> start.tree, due |-> start.due, left |-> start.left,
               known |-> start.known, created |-> start.created]
  BY <1>1 DEF NoticeTypes
(* Another row that was dealt with is of another concept. *)
<1>5. \A r \in start.due \ start.left : r.notice.path # n.path /\ r.notice # n
  BY <1>1, <1>3 DEF Starts
<1>6. Att!Known(n) => n \in start.known
  BY <1>1, <1>2, <1>5 DEF Att!Known, Starts
(* What is left to show: the row is dealt with, the others stay so, and the keys are its own. *)
<1>7. ASSUME NEW created, created \in {start.created, start.created \cup {row}},
             start' = [step |-> "queue", tree |-> start.tree, due |-> start.due, left |-> start.left \ {row},
                       known |-> start.known, created |-> created],
             notices' \in Seq(Item), Speaks', Att!RaisedOnce',
             Att!KeysOf(notices') \subseteq Att!KeysOf(notices) \cup {n},
             \A r \in (start.due \ start.left) \cup {row} : Dealt(r)'
      PROVE  AttentionInv'
  <2>1. /\ start'.step = "queue" /\ start'.due = start.due /\ start'.left = start.left \ {row}
        /\ start'.known = start.known /\ start'.created = created
    BY <1>7
  <2>2. NoticeTypes'
    <3>1. created \in SUBSET Row  BY <1>1, <1>3, <1>7 DEF NoticeTypes
    <3> QED  BY <1>1, <1>2, <1>7, <2>1, <3>1 DEF NoticeTypes
  <2>3. start.due \ start'.left = (start.due \ start.left) \cup {row}  BY <1>3, <2>1
  <2>4. IsFiniteSet(created)  BY <1>1, <1>7, FS_AddElement DEF Starts
  <2>5. \A r \in created, s \in start'.left : r.since <= s.since  BY <1>1, <1>2, <1>7, <2>1 DEF Starts
  <2>6. Att!KeysOf(notices)' \subseteq start.known \cup {r.notice : r \in start.due \ start'.left}
    <3>1. Att!KeysOf(notices)' = Att!KeysOf(notices')  BY DEF Att!KeysOf
    <3>2. Att!KeysOf(notices) \subseteq start.known \cup {r.notice : r \in start.due \ start.left}
      BY <1>1, <1>2 DEF Starts
    <3> QED  BY <1>7, <2>3, <3>1, <3>2
  <2>7. created \subseteq start.due \ start'.left  BY <1>1, <1>3, <1>7, <2>1, <2>3 DEF Starts
  <2>8. Starts'
    <3>1. start'.left \subseteq start'.due  BY <1>1, <2>1 DEF Starts
    <3>2. \A r, s \in start'.due : r.notice.path = s.notice.path => r = s  BY <1>1, <2>1 DEF Starts
    <3> QED  BY <1>7, <2>1, <2>3, <2>4, <2>5, <2>6, <2>7, <3>1, <3>2 DEF Starts
  <2> QED  BY <1>7, <2>2, <2>8 DEF AttentionInv
(* Nothing is queued. *)
<1>8. CASE /\ start' = [start EXCEPT !.left = @ \ {row}] /\ notices' = notices
           /\ Att!Known(n) \/ ~Att!MayCreate
  <2>1. start' = [step |-> "queue", tree |-> start.tree, due |-> start.due, left |-> start.left \ {row},
                  known |-> start.known, created |-> start.created]
    BY <1>2, <1>4, <1>8
  <2>2. start'.known = start.known /\ start'.created = start.created  BY <2>1
  <2>3. \A r : Dealt(r) => Dealt(r)'  BY <1>8, <2>2 DEF Dealt
  <2>4. Dealt(row)
    <3>1. CASE Att!Known(n)  BY <1>6, <3>1 DEF Dealt
    <3>2. CASE ~Att!MayCreate
      <4>1. Cardinality(start.created) \in Nat  BY <1>1, FS_CardinalityType DEF Starts
      <4>2. Cardinality(start.created) >= Cap  BY <1>1, <3>2, <4>1 DEF Att!MayCreate, Att!Cardinality, Cardinality
      <4>3. \A r \in start.created : r.since <= row.since  BY <1>1 DEF Starts
      <4> QED  BY <4>2, <4>3 DEF Dealt
    <3> QED  BY <1>8, <3>1, <3>2
  <2>5. \A r \in (start.due \ start.left) \cup {row} : Dealt(r)'  BY <1>1, <2>3, <2>4 DEF Starts
  <2>6. Speaks' /\ Att!RaisedOnce' /\ Att!KeysOf(notices') = Att!KeysOf(notices)
    BY <1>1, <1>8 DEF Speaks, Att!RaisedOnce, Att!KeysOf
  <2> QED  BY <1>3, <1>7, <1>8, <2>1, <2>5, <2>6
(* A waiting item of the concept takes it. *)
<1>9. CASE /\ ~Att!Known(n) /\ start' = [start EXCEPT !.left = @ \ {row}]
           /\ \E i \in Att!Waiting(n) : notices' = [notices EXCEPT ![i].keys = @ \cup {n}, ![i].says = n]
  <2>1. start' = [step |-> "queue", tree |-> start.tree, due |-> start.due, left |-> start.left \ {row},
                  known |-> start.known, created |-> start.created]
    BY <1>2, <1>4, <1>9
  <2>2. start'.known = start.known /\ start'.created = start.created  BY <2>1
  <2>3. PICK i \in Att!Waiting(n) : notices' = [notices EXCEPT ![i].keys = @ \cup {n}, ![i].says = n]  BY <1>9
  <2>4. i \in DOMAIN notices /\ notices[i].status = "waiting" /\ notices[i].first.path = n.path /\ notices[i] \in Item
    BY <1>3 DEF Att!Waiting
  <2>5. PICK keys : keys = notices[i].keys \cup {n}  OBVIOUS
  <2>6. PICK new : new = [notices[i] EXCEPT !.keys = keys, !.says = n]  OBVIOUS
  <2>7. notices' = [notices EXCEPT ![i] = new]
    <3>1. notices' = [notices EXCEPT ![i] = [notices[i] EXCEPT !.keys = notices[i].keys \cup {n}, !.says = n]]
      BY <2>3, <2>4, Zenon
    <3> QED  BY <2>5, <2>6, <3>1
  <2>8. /\ new \in Item /\ new.keys = notices[i].keys \cup {n} /\ new.says = n /\ new.status = "waiting"
        /\ new.first = notices[i].first
    BY <1>3, <2>4, <2>5, <2>6 DEF Item
  <2>9. /\ notices' \in Seq(Item) /\ DOMAIN notices' = DOMAIN notices /\ notices'[i] = new
        /\ \A j \in DOMAIN notices : j # i => notices'[j] = notices[j]
    BY <1>3, <2>4, <2>7, <2>8
  <2>10. \A j \in DOMAIN notices : n \notin notices[j].keys  BY <1>9 DEF Att!Known, Att!KeysOf
  <2>11. Speaks'  BY <1>1, <2>4, <2>8, <2>9 DEF Speaks
  <2>12. Att!RaisedOnce'
    <3> SUFFICES ASSUME NEW j \in DOMAIN notices, NEW k \in DOMAIN notices, j # k
                 PROVE  notices'[j].keys \cap notices'[k].keys = {}
      BY <2>9 DEF Att!RaisedOnce
    <3>1. notices[j].keys \cap notices[k].keys = {}  BY <1>1 DEF Att!RaisedOnce
    <3> QED  BY <2>8, <2>9, <2>10, <3>1
  <2>13. Att!KeysOf(notices') \subseteq Att!KeysOf(notices) \cup {n}  BY <2>4, <2>8, <2>9 DEF Att!KeysOf
  <2>14. Dealt(row)'  BY <2>4, <2>8, <2>9 DEF Dealt
  <2>15. ASSUME NEW r \in start.due \ start.left  PROVE Dealt(r)'
    <3>1. Dealt(r) /\ r.notice.path # n.path  BY <1>1, <1>5 DEF Starts
    <3>2. ASSUME NEW j \in DOMAIN notices, notices[j].says = r.notice, notices[j].status = "waiting"  PROVE j # i
      BY <1>1, <2>4, <3>1, <3>2 DEF Speaks
    <3> QED  BY <2>2, <2>9, <3>1, <3>2 DEF Dealt
  <2> QED  BY <1>7, <2>1, <2>9, <2>11, <2>12, <2>13, <2>14, <2>15
(* A new item. *)
<1>10. CASE /\ ~Att!Known(n) /\ Att!MayCreate
            /\ notices' = Append(notices, [first |-> n, keys |-> {n}, says |-> n, status |-> "waiting"])
            /\ start' = [start EXCEPT !.left = @ \ {row}, !.created = @ \cup {row}]
  <2> DEFINE new == [first |-> n, keys |-> {n}, says |-> n, status |-> "waiting"]
             created == start.created \cup {row}
  <2>1. start' = [step |-> "queue", tree |-> start.tree, due |-> start.due, left |-> start.left \ {row},
                  known |-> start.known, created |-> created]
    <3>1. PICK left : left = start.left \ {row}  OBVIOUS
    <3>2. start' = [start EXCEPT !.left = left, !.created = created]  BY <1>10, <3>1
    <3> HIDE DEF created
    <3> QED  BY <1>2, <1>4, <3>1, <3>2
  <2>2. start'.known = start.known /\ start'.created = created  BY <2>1
  <2>3. new \in Item /\ notices' = Append(notices, new)  BY <1>3, <1>10 DEF Item
  <2>4. new.keys = {n} /\ new.says = n /\ new.status = "waiting" /\ new.first = n  OBVIOUS
  <2> HIDE DEF new, created
  <2>5. /\ notices' \in Seq(Item) /\ DOMAIN notices' = DOMAIN notices \cup {Len(notices) + 1}
        /\ notices'[Len(notices) + 1] = new /\ Len(notices) + 1 \notin DOMAIN notices
        /\ \A j \in DOMAIN notices : notices'[j] = notices[j]
    BY <1>3, <2>3
  <2>6. \A j \in DOMAIN notices : n \notin notices[j].keys  BY <1>10 DEF Att!Known, Att!KeysOf
  <2>7. Speaks'  BY <1>1, <2>4, <2>5 DEF Speaks
  <2>8. Att!RaisedOnce'
    <3> SUFFICES ASSUME NEW j \in DOMAIN notices', NEW k \in DOMAIN notices', j # k
                 PROVE  notices'[j].keys \cap notices'[k].keys = {}
      BY DEF Att!RaisedOnce
    <3>1. CASE j \in DOMAIN notices /\ k \in DOMAIN notices  BY <1>1, <2>5, <3>1 DEF Att!RaisedOnce
    <3>2. CASE j = Len(notices) + 1 \/ k = Len(notices) + 1  BY <2>4, <2>5, <2>6, <3>2
    <3> QED  BY <2>5, <3>1, <3>2
  <2>9. Att!KeysOf(notices') \subseteq Att!KeysOf(notices) \cup {n}  BY <2>4, <2>5 DEF Att!KeysOf
  <2>10. Dealt(row)'  BY <2>4, <2>5 DEF Dealt
  <2>11. ASSUME NEW r \in start.due \ start.left  PROVE Dealt(r)'
    <3>1. Dealt(r)  BY <1>1 DEF Starts
    <3>2. Cardinality(start.created) \in Nat  BY <1>1, FS_CardinalityType DEF Starts
    <3>3. ~(Cardinality(start.created) >= Cap)  BY <1>1, <1>10, <3>2 DEF Att!MayCreate, Att!Cardinality, Cardinality
    <3> QED  BY <2>2, <2>5, <3>1, <3>3 DEF Dealt
  <2>12. created \in {start.created, start.created \cup {row}}  BY DEF created
  <2> QED  BY <1>7, <2>1, <2>5, <2>7, <2>8, <2>9, <2>10, <2>11, <2>12
<1> QED  BY <1>8, <1>9, <1>10 DEF Att!Enqueue

-----------------------------------------------------------------------------
(* Every step keeps the invariant, ... *)
LEMMA AttentionNext == ASSUME Att!ConstantsOK, AttentionInv, [Att!Next]_(Att!vars) PROVE AttentionInv'
<1>1. CASE UNCHANGED Att!vars
  <2>1. UNCHANGED <<day, published, reviews, notices, start, moves, failures>>  BY <1>1 DEF Att!vars
  <2>2. NoticeTypes'  BY <2>1 DEF AttentionInv, NoticeTypes
  <2> QED  BY <2>1, <2>2, MeanwhileKeeps
<1>2. CASE \/ Att!NextDay
           \/ \E c \in Subjects : Att!Push(c) \/ Att!Review(c)
           \/ \E r \in DOMAIN reviews : Att!RevertReview(r)
  BY <1>2, MeanwhileMoves
<1>3. ASSUME NEW i \in DOMAIN notices, Att!ItemMoves(i)  PROVE AttentionInv'  BY <1>3, ItemMovesKeeps
<1>4. CASE Att!StartRun \/ Att!Plan \/ Att!EndStart \/ Att!StartFails  BY <1>4, StartRunKeeps, PlanKeeps, StartEnds
<1>5. ASSUME NEW row \in start.left, Att!Enqueue(row)  PROVE AttentionInv'  BY <1>5, EnqueueKeeps
<1> QED  BY <1>1, <1>2, <1>3, <1>4, <1>5 DEF Att!Next

(* ... a start that ends well has dealt with what was due, ... *)
LEMMA AttentionRaises == ASSUME Att!ConstantsOK, AttentionInv, [Att!Next]_(Att!vars) PROVE Att!RaisesWhatIsDue
<1>1. NoticeTypes /\ Starts  BY DEF AttentionInv
<1> SUFFICES ASSUME start.step = "queue", start'.step = "none", failures' = failures, NEW row \in start.due
             PROVE  Dealt(row)
  BY DEF Att!RaisesWhatIsDue, Att!Cardinality, Cardinality, Dealt
<1>2. start.left = {}
  <2>1. failures \in Nat  BY <1>1 DEF NoticeTypes
  <2>2. ~Att!StartFails  BY <2>1 DEF Att!StartFails, Att!Fault
  <2>3. start' # start  OBVIOUS
  <2>4. ~UNCHANGED Att!vars /\ ~Att!NextDay /\ (\A c \in Subjects : ~Att!Push(c) /\ ~Att!Review(c))
        /\ (\A r \in DOMAIN reviews : ~Att!RevertReview(r)) /\ (\A i \in DOMAIN notices : ~Att!ItemMoves(i))
    BY <2>3 DEF Att!vars, Att!NextDay, Att!Push, Att!Review, Att!RevertReview, Att!ItemMoves
  <2>5. ~Att!StartRun /\ ~Att!Plan  BY DEF Att!StartRun, Att!Plan
  <2>6. start = [step |-> start.step, tree |-> start.tree, due |-> start.due, left |-> start.left,
                 known |-> start.known, created |-> start.created]
    BY <1>1 DEF NoticeTypes
  <2>7. ASSUME NEW r \in start.left, Att!Enqueue(r)  PROVE FALSE
    <3>1. PICK left, created : start' = [start EXCEPT !.left = left, !.created = created]
                               \/ start' = [start EXCEPT !.left = left]
      BY <2>7 DEF Att!Enqueue
    <3> QED  BY <2>6, <3>1
  <2> QED  BY <2>2, <2>4, <2>5, <2>7 DEF Att!Next, Att!EndStart
<1> QED  BY <1>1, <1>2 DEF Starts

(* ... and what an item was queued for stays its own. *)
LEMMA AttentionSafe == ASSUME AttentionInv PROVE Att!TypeOK /\ Att!RaisedOnce
<1>1. NoticeTypes /\ Speaks /\ Starts /\ Att!RaisedOnce  BY DEF AttentionInv
<1>2. \A r \in DOMAIN reviews : reviews[r] \in Reviewed  BY <1>1 DEF NoticeTypes
<1>3. \A i \in DOMAIN notices : notices[i] \in Item  BY <1>1 DEF NoticeTypes
<1> QED  BY <1>1, <1>2, <1>3 DEF Att!TypeOK, NoticeTypes, Reviewed, Item, Speaks, Starts

-----------------------------------------------------------------------------
(* Reviewer. *)
Among(batch) == {batch[i] : i \in DOMAIN batch}

(* The reviews the run's record knows. *)
OnRecord == Rev!Sent \cup submitted \cup dropped

(* The types of the variables. *)
ReviewerTypes ==
    /\ text \in [Vetted -> 1..LastText] /\ backlog \subseteq Vetted
    /\ queue \subseteq SUBSET Rev!Records /\ landed \subseteq SUBSET Rev!Records
    /\ rejected \subseteq [of: SUBSET Rev!Records, bad: SUBSET Rev!Records]
    /\ changes \in 0..MaxChanges
    /\ file \in [Vetted -> 1..LastText] /\ edited \subseteq Vetted
    /\ taken \subseteq Vetted /\ IsFiniteSet(taken) /\ Cardinality(taken) <= MaxTaken
    /\ entries \in [Vetted -> Rev!AnyContent]
    /\ pending \in Seq(Rev!Records) /\ submitted \subseteq Rev!Records /\ dropped \subseteq Rev!Records
    /\ unanswered \subseteq Rev!Records
    /\ verb \in [step: {"none", "pull", "take", "wait", "save"}, path: SUBSET Vetted,
                 base: Rev!AnyContent, left: Seq(Rev!Records), got: SUBSET Rev!Records, lost: SUBSET Rev!Records]
    /\ read \in [Vetted -> Rev!AnyContent] /\ recorded \subseteq Vetted /\ returned \subseteq Vetted
    /\ deaths \in 0..MaxFaults

(* The concept a run is about to take, and the version the backlog names, is no newer than what
   the workspace will hold. *)
Takes ==
    verb.step \in {"pull", "take"} =>
       /\ Cardinality(taken) < MaxTaken
       /\ \E c \in Vetted \ taken :
             /\ verb.path = {c}
             /\ c \notin returned => verb.base <= text[c] /\ (verb.step = "take" => verb.base <= file[c])

(* While reviews are sent, each pending one is still to be sent, landed or refused. *)
Sending ==
    IF verb.step \in {"wait", "save"}
    THEN /\ Rev!Sent = Among(verb.left) \cup verb.got \cup verb.lost
         /\ Among(verb.left) \cap (verb.got \cup verb.lost) = {} /\ verb.got \cap verb.lost = {}
    ELSE verb.left = <<>> /\ verb.got = {} /\ verb.lost = {}

(* The record knows one review of each concept with a verdict, and in one place. *)
OneEach ==
    /\ recorded = Rev!Paths(OnRecord)
    /\ \A r, s \in OnRecord : r.path = s.path => r = s
    /\ Rev!Sent \cap (submitted \cup dropped) = {} /\ submitted \cap dropped = {}

(* A content the backlog named, the one read, the one of the workspace, the published one: none is
   older than the one before. *)
ReadInOrder ==
    \A c \in Vetted :
       /\ read[c] # 0 => c \in taken
       /\ c \notin returned =>
             /\ file[c] <= text[c] /\ read[c] <= file[c]
             /\ c \in taken => entries[c] <= file[c] /\ (read[c] # 0 => entries[c] <= read[c])

(* So it is of a review that may still land. *)
InOrder(r) == r.path \in returned \/ (r.base <= r.read /\ r.read <= text[r.path])

(* A changeset is in one place; the run waits for its answer, or has it, or will not get it. *)
Flight ==
    /\ queue \cap landed = {}
    /\ \A f \in rejected : f.bad \subseteq f.of /\ f.of \notin queue \cup landed
    /\ \A q \in queue : q \subseteq unanswered \/ (verb.step = "wait" /\ q = Rev!First(verb.left))
    /\ \A q \in landed : \/ q \subseteq unanswered \cup submitted \cup verb.got
                         \/ verb.step = "wait" /\ q = Rev!First(verb.left)
    /\ submitted \cup verb.got \subseteq Rev!AllLanded

ReviewerInv ==
    /\ ReviewerTypes /\ Takes /\ Sending /\ OneEach /\ ReadInOrder
    /\ \A r \in Rev!Sent \cup UNION queue : InOrder(r)
    /\ Flight /\ Rev!JudgedAsRead

-----------------------------------------------------------------------------
(* What is left of a sequence without some of its elements is the others. *)
LEMMA WithoutIs ==
    ASSUME NEW S, NEW batch \in Seq(S), NEW done
    PROVE  Rev!Without(batch, done) \in Seq(S) /\ Among(Rev!Without(batch, done)) = Among(batch) \ done
<1> DEFINE others == {i \in DOMAIN batch : batch[i] \notin done}
           Below(i) == {j \in others : j < i}
           n        == Cardinality(others)
           At(k)    == CHOOSE i \in others : Cardinality(Below(i)) = k - 1
<1>1. others \subseteq 1..Len(batch) /\ Len(batch) \in Nat  OBVIOUS
<1>2. IsFiniteSet(others) /\ n \in Nat
  <2>1. IsFiniteSet(1..Len(batch))  BY <1>1, FS_Interval
  <2> QED  BY <1>1, <2>1, FS_Subset, FS_CardinalityType
<1>3. \A i \in others : /\ IsFiniteSet(Below(i)) /\ Cardinality(Below(i)) \in Nat
                         /\ Cardinality(Below(i)) + 1 \in 1..n
  <2> SUFFICES ASSUME NEW i \in others
               PROVE  /\ IsFiniteSet(Below(i)) /\ Cardinality(Below(i)) \in Nat
                      /\ Cardinality(Below(i)) + 1 \in 1..n
    OBVIOUS
  <2>1. Below(i) \in SUBSET others /\ i \in others /\ i \notin Below(i)  BY <1>1
  <2> HIDE DEF others, Below
  <2>2. IsFiniteSet(Below(i)) /\ Cardinality(Below(i)) <= n /\ (n = Cardinality(Below(i)) => others = Below(i))
    BY <1>2, <2>1, FS_Subset
  <2>3. Cardinality(Below(i)) \in Nat  BY <2>2, FS_CardinalityType
  <2> HIDE DEF n
  <2> QED  BY <1>2, <2>1, <2>2, <2>3
<1>4. \A i, j \in others : j < i => Cardinality(Below(j)) < Cardinality(Below(i))
  <2> SUFFICES ASSUME NEW i \in others, NEW j \in others, j < i
               PROVE  Cardinality(Below(j)) < Cardinality(Below(i))
    OBVIOUS
  <2>1. Below(j) \in SUBSET Below(i) /\ j \in Below(i) /\ j \notin Below(j)  BY <1>1
  <2>2. Cardinality(Below(i)) \in Nat /\ Cardinality(Below(j)) \in Nat /\ IsFiniteSet(Below(i))  BY <1>3
  <2> HIDE DEF others, Below
  <2>3. Cardinality(Below(j)) <= Cardinality(Below(i)) /\ (Cardinality(Below(i)) = Cardinality(Below(j)) =>
                                                             Below(i) = Below(j))
    BY <2>1, <2>2, FS_Subset
  <2> QED  BY <2>1, <2>2, <2>3
<1>5. \A i, j \in others : Cardinality(Below(j)) = Cardinality(Below(i)) => i = j
  <2> SUFFICES ASSUME NEW i \in others, NEW j \in others, Cardinality(Below(j)) = Cardinality(Below(i))
               PROVE  i = j
    OBVIOUS
  <2>1. i \in Nat /\ j \in Nat  BY <1>1
  <2>2. Cardinality(Below(i)) \in Nat  BY <1>3
  <2>3. (j < i => Cardinality(Below(j)) < Cardinality(Below(i)))
        /\ (i < j => Cardinality(Below(i)) < Cardinality(Below(j)))
    BY <1>4
  <2> HIDE DEF others, Below
  <2> QED  BY <2>1, <2>2, <2>3
<1>6. \A k \in 1..n : \E i \in others : Cardinality(Below(i)) = k - 1
  <2> SUFFICES ASSUME NEW k \in 1..n, \A i \in others : Cardinality(Below(i)) # k - 1  PROVE FALSE
    OBVIOUS
  <2> DEFINE ranks == (0..(n - 1)) \ {k - 1}
             f     == [i \in others |-> Cardinality(Below(i))]
  <2>1. f \in [others -> ranks]
    <3> SUFFICES ASSUME NEW i \in others PROVE Cardinality(Below(i)) \in ranks  OBVIOUS
    <3>1. Cardinality(Below(i)) \in Nat /\ Cardinality(Below(i)) + 1 \in 1..n  BY <1>3
    <3>2. Cardinality(Below(i)) # k - 1  OBVIOUS
    <3> HIDE DEF n, Below
    <3> QED  BY <1>2, <3>1, <3>2
  <2>2. IsFiniteSet(ranks) /\ Cardinality(ranks) = n - 1
    <3>2. k - 1 \in 0..(n - 1)  BY <1>2
    <3> HIDE DEF n
    <3>1. IsFiniteSet(0..(n - 1)) /\ Cardinality(0..(n - 1)) = n
      <4>1. PICK last \in Int : last = n - 1  BY <1>2
      <4>2. IsFiniteSet(0..last) /\ Cardinality(0..last) = IF 0 > last THEN 0 ELSE last - 0 + 1
        BY FS_Interval
      <4> QED  BY <1>2, <4>1, <4>2
    <3> QED  BY <3>1, <3>2, FS_RemoveElement
  <2> HIDE DEF ranks
  <2>3. \E i, j \in others : i # j /\ f[i] = f[j]
    <3>1. Cardinality(ranks) < Cardinality(others)  BY <1>2, <2>2
    <3> HIDE DEF f, others, n
    <3> QED  BY <1>2, <2>1, <2>2, <3>1, FS_PigeonHole
  <2> QED  BY <1>5, <2>3
<1>7. \A k \in 1..n : At(k) \in others /\ Cardinality(Below(At(k))) = k - 1  BY <1>6
<1>8. \A i \in others : \E k \in 1..n : At(k) = i
  <2> SUFFICES ASSUME NEW i \in others PROVE \E k \in 1..n : At(k) = i  OBVIOUS
  <2> DEFINE k == Cardinality(Below(i)) + 1
  <2>1. k \in 1..n /\ Cardinality(Below(i)) = k - 1
    <3>1. Cardinality(Below(i)) \in Nat /\ Cardinality(Below(i)) + 1 \in 1..n  BY <1>3
    <3> HIDE DEF n, Below
    <3> QED  BY <3>1
  <2>2. At(k) \in others /\ Cardinality(Below(At(k))) = k - 1  BY <1>7, <2>1
  <2>3. At(k) = i  BY <1>5, <2>1, <2>2
  <2> QED  BY <2>1, <2>3
<1>9. Rev!Without(batch, done) = [k \in 1..n |-> batch[At(k)]]  BY DEF Rev!Without, Rev!Cardinality, Cardinality
<1>10. \A i \in others : batch[i] \in S  BY <1>1
<1>11. Among(batch) \ done = {batch[i] : i \in others}  BY DEF Among
<1> HIDE DEF others, Below, n, At
<1>12. Rev!Without(batch, done) \in Seq(S)  BY <1>2, <1>7, <1>9, <1>10
<1>13. DOMAIN Rev!Without(batch, done) = 1..n  BY <1>9
<1>14. Among(Rev!Without(batch, done)) = {batch[At(k)] : k \in 1..n}
  <2>1. \A k \in 1..n : Rev!Without(batch, done)[k] = batch[At(k)]  BY <1>9
  <2> QED  BY <1>13, <2>1 DEF Among
<1> QED  BY <1>7, <1>8, <1>11, <1>12, <1>14

-----------------------------------------------------------------------------
(* No verb runs. *)
LEMMA NoVerbIs ==
    Rev!NoVerb = [step |-> "none", path |-> {}, base |-> 0, left |-> <<>>, got |-> {}, lost |-> {}]
  BY DEF Rev!NoVerb

LEMMA VerbIs ==
    ASSUME ReviewerTypes
    PROVE  /\ verb = [step |-> verb.step, path |-> verb.path, base |-> verb.base, left |-> verb.left,
                      got |-> verb.got, lost |-> verb.lost]
           /\ verb.step \in {"none", "pull", "take", "wait", "save"} /\ verb.path \subseteq Vetted
           /\ verb.base \in Rev!AnyContent /\ verb.left \in Seq(Rev!Records)
           /\ verb.got \subseteq Rev!Records /\ verb.lost \subseteq Rev!Records
  BY DEF ReviewerTypes

(* What is sent first is of what is to be sent. *)
LEMMA FirstIs ==
    ASSUME NEW batch \in Seq(Rev!Records), Batch \in Nat
    PROVE  Rev!First(batch) \subseteq Among(batch) /\ Among(batch) \subseteq Rev!Records
  BY DEF Rev!First, Among

(* Reviews are of concepts and contents. *)
LEMMA RecordIs == \A r \in Rev!Records : r.path \in Vetted /\ r.base \in Nat /\ r.read \in Nat
  BY DEF Rev!Records, Rev!AnyContent

LEMMA SentIs == ASSUME pending \in Seq(Rev!Records) PROVE Rev!Sent \subseteq Rev!Records
  BY DEF Rev!Sent

LEMMA ReviewerInit == Rev!ConstantsOK /\ Rev!Init => ReviewerInv
<1> SUFFICES ASSUME Rev!ConstantsOK, Rev!Init PROVE ReviewerInv  OBVIOUS
<1>1. /\ text = [c \in Vetted |-> 1] /\ file = [c \in Vetted |-> 1] /\ backlog = Vetted /\ queue = {}
      /\ landed = {} /\ rejected = {} /\ changes = 0 /\ edited = {} /\ taken = {}
      /\ entries = [c \in Vetted |-> 0] /\ pending = <<>> /\ submitted = {} /\ dropped = {}
      /\ verb = Rev!NoVerb /\ read = [c \in Vetted |-> 0] /\ recorded = {} /\ unanswered = {} /\ returned = {}
      /\ deaths = 0
  BY DEF Rev!Init
<1>2. {Batch, MaxTaken, LastText, MaxChanges, MaxFaults} \subseteq Nat /\ LastText > 0  BY DEF Rev!ConstantsOK
<1>3. IsFiniteSet({}) /\ Cardinality({}) = 0  BY FS_EmptySet
<1>4. /\ verb.step = "none" /\ verb.left = <<>> /\ verb.got = {} /\ verb.lost = {} /\ verb.path = {}
      /\ verb.base = 0
  BY <1>1, NoVerbIs
<1>5. 0 \in Rev!AnyContent /\ 1 \in 1..LastText  BY <1>2 DEF Rev!AnyContent
<1>6. ReviewerTypes
  <2>1. verb \in [step: {"none", "pull", "take", "wait", "save"}, path: SUBSET Vetted,
                  base: Rev!AnyContent, left: Seq(Rev!Records), got: SUBSET Rev!Records, lost: SUBSET Rev!Records]
    BY <1>1, <1>5, NoVerbIs
  <2> QED  BY <1>1, <1>2, <1>3, <1>5, <2>1 DEF ReviewerTypes
<1>7. Takes /\ Sending  BY <1>4 DEF Takes, Sending
<1>8. Rev!Sent = {} /\ OnRecord = {}  BY <1>1 DEF Rev!Sent, OnRecord
<1>9. OneEach /\ (\A r \in Rev!Sent \cup UNION queue : InOrder(r))  BY <1>1, <1>8 DEF OneEach, Rev!Paths
<1>10. ReadInOrder  BY <1>1 DEF ReadInOrder
<1>11. Flight /\ Rev!JudgedAsRead  BY <1>1, <1>4 DEF Flight, Rev!JudgedAsRead, Rev!AllLanded
<1> QED  BY <1>6, <1>7, <1>9, <1>10, <1>11 DEF ReviewerInv

(* What others do to a concept makes it newer, or its content came back. *)
LEMMA TextsKeep ==
    ASSUME Rev!ConstantsOK, ReviewerInv,
           text' \in [Vetted -> 1..LastText], backlog' \subseteq Vetted, changes' \in 0..MaxChanges,
           returned \subseteq returned', returned' \subseteq Vetted,
           \A c \in Vetted \ returned' : text[c] <= text'[c],
           UNCHANGED <<queue, landed, rejected, file, edited, Rev!saved, verb, read, recorded, unanswered, deaths>>
    PROVE  ReviewerInv'
<1>1. UNCHANGED <<queue, landed, rejected, file, edited, taken, entries, pending, submitted, dropped, verb, read,
                  recorded, unanswered, deaths>>
  BY DEF Rev!saved
<1>2. ReviewerTypes /\ Takes /\ Sending /\ OneEach /\ ReadInOrder /\ Flight /\ Rev!JudgedAsRead
  BY DEF ReviewerInv
<1>3. ReviewerTypes'  BY <1>1, <1>2 DEF ReviewerTypes
<1>4. \A c \in Vetted : text[c] \in Nat /\ text'[c] \in Nat /\ file[c] \in Nat  BY <1>2 DEF ReviewerTypes
<1>5. verb.base \in Nat  BY <1>2, VerbIs DEF Rev!AnyContent
<1>6. Takes'
  <2> SUFFICES ASSUME verb.step \in {"pull", "take"}
               PROVE  /\ Cardinality(taken) < MaxTaken
                      /\ \E c \in Vetted \ taken :
                           /\ verb.path = {c}
                           /\ c \notin returned' => /\ verb.base <= text'[c]
                                                    /\ verb.step = "take" => verb.base <= file[c]
    BY <1>1 DEF Takes
  <2>1. Cardinality(taken) < MaxTaken  BY <1>2 DEF Takes
  <2>2. PICK c \in Vetted \ taken :
          /\ verb.path = {c}
          /\ c \notin returned => verb.base <= text[c] /\ (verb.step = "take" => verb.base <= file[c])
    BY <1>2 DEF Takes
  <2>3. c \notin returned' => verb.base <= text'[c] /\ (verb.step = "take" => verb.base <= file[c])
    BY <1>4, <1>5, <2>2
  <2> QED  BY <2>1, <2>2, <2>3
<1>7. Sending' /\ OneEach'  BY <1>1, <1>2 DEF Sending, OneEach, OnRecord, Rev!Sent
<1>8. ReadInOrder'
  <2>1. \A c \in Vetted : read[c] \in Nat  BY <1>2 DEF ReviewerTypes, Rev!AnyContent
  <2> QED  BY <1>1, <1>2, <1>4, <2>1 DEF ReadInOrder
<1>9. Rev!Sent' = Rev!Sent /\ \A r \in Rev!Sent \cup UNION queue : r \in Rev!Records
  BY <1>1, <1>2, SentIs DEF Rev!Sent, ReviewerTypes
<1>10. \A r \in (Rev!Sent \cup UNION queue)' : InOrder(r)'
  <2> SUFFICES ASSUME NEW r \in Rev!Sent \cup UNION queue PROVE InOrder(r)'  BY <1>1, <1>9
  <2>1. InOrder(r) /\ r \in Rev!Records  BY <1>9 DEF ReviewerInv
  <2> QED  BY <1>4, <2>1, RecordIs DEF InOrder
<1>11. Flight'  BY <1>1, <1>2 DEF Flight, Rev!AllLanded
<1>12. Rev!JudgedAsRead'  BY <1>1, <1>2 DEF Rev!JudgedAsRead, Rev!AllLanded
<1> QED  BY <1>2, <1>3, <1>6, <1>7, <1>8, <1>10, <1>11, <1>12 DEF ReviewerInv

LEMMA ChangesKeep ==
    ASSUME Rev!ConstantsOK, ReviewerInv, NEW c \in Vetted, Rev!Change(c) \/ Rev!Revert(c)  PROVE ReviewerInv'
<1>1. ReviewerTypes /\ MaxChanges \in Nat /\ LastText \in Nat  BY DEF ReviewerInv, Rev!ConstantsOK
<1>2. changes' \in 0..MaxChanges  BY <1>1 DEF Rev!Change, Rev!Revert, ReviewerTypes
<1>3. text \in [Vetted -> 1..LastText] /\ backlog \subseteq Vetted /\ returned \subseteq Vetted
  BY <1>1 DEF ReviewerTypes
<1>4. text' \in [Vetted -> 1..LastText] /\ backlog' \subseteq Vetted  BY <1>1, <1>3 DEF Rev!Change, Rev!Revert
<1>5. returned \subseteq returned' /\ returned' \subseteq Vetted
  BY <1>3 DEF Rev!Change, Rev!Revert, Rev!historyVars
<1>6. \A d \in Vetted \ returned' : text[d] <= text'[d]
  BY <1>1, <1>3 DEF Rev!Change, Rev!Revert
<1>7. UNCHANGED <<queue, landed, rejected, file, edited, Rev!saved, verb, read, recorded, unanswered, deaths>>
  BY DEF Rev!Change, Rev!Revert, Rev!historyVars
<1> QED  BY <1>2, <1>4, <1>5, <1>6, <1>7, TextsKeep
(* A changeset lands on the contents it names, so on those its auditor read; or it is refused. *)
LEMMA JudgementKeeps ==
    ASSUME Rev!ConstantsOK, ReviewerInv, NEW batch \in queue, Rev!Judge(batch)  PROVE ReviewerInv'
<1>1. ReviewerTypes /\ Takes /\ Sending /\ OneEach /\ ReadInOrder /\ Flight /\ Rev!JudgedAsRead
  BY DEF ReviewerInv
<1>2. UNCHANGED <<changes, file, edited, Rev!saved, verb, Rev!historyVars, deaths>> /\ queue' = queue \ {batch}
  BY DEF Rev!Judge
<1> DEFINE bad == {r \in batch : ~Rev!Stands(r)}
           corrected == Rev!Corrected(batch)
<1>3. \/ /\ bad = {} /\ \A c \in corrected : text[c] < LastText
         /\ landed' = landed \cup {batch} /\ backlog' \subseteq backlog /\ UNCHANGED rejected
         /\ text' = [c \in Vetted |-> IF c \in corrected THEN text[c] + 1 ELSE text[c]]
      \/ /\ rejected' = rejected \cup {[of |-> batch, bad |-> bad]} /\ UNCHANGED <<landed, backlog, text>>
  BY DEF Rev!Judge
<1>4. UNCHANGED <<taken, entries, pending, submitted, dropped, read, recorded, unanswered, returned>>
  BY <1>2 DEF Rev!saved, Rev!historyVars
<1>5. batch \subseteq Rev!Records /\ bad \subseteq batch /\ LastText \in Nat
  BY <1>1 DEF ReviewerTypes, Rev!ConstantsOK
<1>6. \A r \in batch : InOrder(r)  BY DEF ReviewerInv
<1>7. \A r \in batch : Rev!Stands(r) => r.read = r.base \/ r.path \in returned
  <2> SUFFICES ASSUME NEW r \in batch, Rev!Stands(r), r.path \notin returned  PROVE r.read = r.base
    OBVIOUS
  <2>1. r.base = text[r.path] /\ r.base <= r.read /\ r.read <= text[r.path]
    BY <1>6 DEF InOrder, Rev!Stands
  <2>2. r.base \in Nat /\ r.read \in Nat  BY <1>5, RecordIs
  <2> QED  BY <2>1, <2>2
<1>8. \A c \in Vetted : text[c] \in 1..LastText  BY <1>1 DEF ReviewerTypes
<1>9. text' \in [Vetted -> 1..LastText] /\ \A c \in Vetted : text[c] <= text'[c]
  <2> HIDE DEF corrected, bad
  <2>1. text \in [Vetted -> 1..LastText]  BY <1>1 DEF ReviewerTypes
  <2> QED  BY <1>3, <1>5, <1>8, <2>1
<1> HIDE DEF bad, corrected
<1>10. queue' \subseteq SUBSET Rev!Records /\ landed' \subseteq SUBSET Rev!Records
       /\ rejected' \subseteq [of: SUBSET Rev!Records, bad: SUBSET Rev!Records]
  <2>1. queue \subseteq SUBSET Rev!Records /\ landed \subseteq SUBSET Rev!Records
        /\ rejected \subseteq [of: SUBSET Rev!Records, bad: SUBSET Rev!Records]
    BY <1>1 DEF ReviewerTypes
  <2>2. [of |-> batch, bad |-> bad] \in [of: SUBSET Rev!Records, bad: SUBSET Rev!Records]  BY <1>5
  <2>3. landed' = landed \cup {batch} \/ landed' = landed  BY <1>3
  <2>4. rejected' = rejected \cup {[of |-> batch, bad |-> bad]} \/ rejected' = rejected  BY <1>3
  <2>5. landed' \subseteq SUBSET Rev!Records  BY <1>5, <2>1, <2>3
  <2>6. rejected' \subseteq [of: SUBSET Rev!Records, bad: SUBSET Rev!Records]  BY <2>1, <2>2, <2>4
  <2> QED  BY <1>2, <2>1, <2>5, <2>6
<1>11. backlog' \subseteq Vetted  BY <1>1, <1>3 DEF ReviewerTypes
<1>12. ReviewerTypes'  BY <1>1, <1>2, <1>4, <1>9, <1>10, <1>11 DEF ReviewerTypes
<1>13. \A c \in Vetted : text[c] \in Nat /\ text'[c] \in Nat /\ file[c] \in Nat /\ read[c] \in Nat
  BY <1>1, <1>8, <1>9 DEF ReviewerTypes, Rev!AnyContent
<1>14. Takes'
  <2> SUFFICES ASSUME verb.step \in {"pull", "take"}
               PROVE  /\ Cardinality(taken) < MaxTaken
                      /\ \E c \in Vetted \ taken :
                           /\ verb.path = {c}
                           /\ c \notin returned => /\ verb.base <= text'[c]
                                                   /\ verb.step = "take" => verb.base <= file[c]
    BY <1>2, <1>4 DEF Takes
  <2>1. Cardinality(taken) < MaxTaken  BY <1>1 DEF Takes
  <2>2. PICK c \in Vetted \ taken :
          /\ verb.path = {c}
          /\ c \notin returned => verb.base <= text[c] /\ (verb.step = "take" => verb.base <= file[c])
    BY <1>1 DEF Takes
  <2>3. verb.base \in Nat  BY <1>1, VerbIs DEF Rev!AnyContent
  <2>4. c \notin returned => verb.base <= text'[c] /\ (verb.step = "take" => verb.base <= file[c])
    BY <1>9, <1>13, <2>2, <2>3
  <2> QED  BY <2>1, <2>2, <2>4
<1>15. Sending' /\ OneEach'  BY <1>1, <1>2, <1>4 DEF Sending, OneEach, OnRecord, Rev!Sent
<1>16. ReadInOrder'  BY <1>1, <1>2, <1>4, <1>9, <1>13 DEF ReadInOrder
<1>17. \A r \in (Rev!Sent \cup UNION queue)' : InOrder(r)'
  <2>1. Rev!Sent' = Rev!Sent /\ queue' \subseteq queue  BY <1>2, <1>4 DEF Rev!Sent
  <2>2. \A r \in Rev!Sent \cup UNION queue : r \in Rev!Records  BY <1>1, SentIs DEF ReviewerTypes
  <2> SUFFICES ASSUME NEW r \in Rev!Sent \cup UNION queue PROVE InOrder(r)'  BY <2>1
  <2>3. InOrder(r) /\ r \in Rev!Records  BY <2>2 DEF ReviewerInv
  <2>4. r.path \in Vetted /\ r.read \in Nat  BY <2>3, RecordIs
  <2> QED  BY <1>4, <1>9, <1>13, <2>3, <2>4 DEF InOrder
<1>18. batch \notin landed /\ \A f \in rejected : f.of # batch  BY <1>1 DEF Flight
<1>19. Flight'
  <2>1. CASE landed' = landed \cup {batch} /\ UNCHANGED rejected
    BY <1>1, <1>2, <1>4, <1>18, <2>1 DEF Flight, Rev!AllLanded
  <2>2. CASE rejected' = rejected \cup {[of |-> batch, bad |-> bad]} /\ UNCHANGED landed
    BY <1>1, <1>2, <1>4, <1>5, <1>18, <2>2 DEF Flight, Rev!AllLanded
  <2> QED  BY <1>3, <2>1, <2>2
<1>20. Rev!JudgedAsRead'
  <2>1. CASE landed' = landed \cup {batch} /\ \A r \in batch : Rev!Stands(r)
    BY <1>1, <1>4, <1>7, <2>1 DEF Rev!JudgedAsRead, Rev!AllLanded
  <2>2. CASE UNCHANGED landed  BY <1>1, <1>4, <2>2 DEF Rev!JudgedAsRead, Rev!AllLanded
  <2> QED  BY <1>3, <2>1, <2>2 DEF bad
<1> QED  BY <1>1, <1>12, <1>14, <1>15, <1>16, <1>17, <1>19, <1>20 DEF ReviewerInv

-----------------------------------------------------------------------------
(* A verb that begins to take a concept. *)
LEMMA NextConceptKeeps ==
    ASSUME Rev!ConstantsOK, ReviewerInv, NEW c \in Vetted, Rev!NextConcept(c)  PROVE ReviewerInv'
<1>1. ReviewerTypes /\ Takes /\ Sending /\ OneEach /\ ReadInOrder /\ Flight /\ Rev!JudgedAsRead
  BY DEF ReviewerInv
<1>2. /\ verb.step = "none" /\ Cardinality(taken) < MaxTaken /\ c \in backlog \ taken
      /\ UNCHANGED <<text, backlog, queue, landed, rejected, changes, file, edited, taken, entries, pending,
                     submitted, dropped, read, recorded, unanswered, returned, deaths>>
  BY DEF Rev!NextConcept, Rev!Cardinality, Cardinality, Rev!Idle, Rev!writerVars, Rev!saved,
         Rev!historyVars
<1>3. PICK skip \in {FALSE, Rev!Current} :
         verb' = [Rev!NoVerb EXCEPT !.step = IF skip THEN "take" ELSE "pull", !.path = {c}, !.base = text[c]]
  BY DEF Rev!NextConcept, Rev!Cardinality, Cardinality
<1>4. PICK step, base : step = (IF skip THEN "take" ELSE "pull") /\ base = text[c]  OBVIOUS
<1>5. verb' = [step |-> step, path |-> {c}, base |-> base, left |-> <<>>, got |-> {}, lost |-> {}]
  <2>1. verb' = [Rev!NoVerb EXCEPT !.step = step, !.path = {c}, !.base = base]  BY <1>3, <1>4
  <2> QED  BY <2>1, NoVerbIs
<1>6. base \in Rev!AnyContent /\ step \in {"pull", "take"} /\ (step = "take" => base = file[c])
  <2>1. text[c] \in 1..LastText  BY <1>1 DEF ReviewerTypes
  <2>2. CASE file = text  BY <1>4, <2>1, <2>2 DEF Rev!AnyContent
  <2>3. CASE file # text
    <3>1. Rev!Current = FALSE  BY <2>3 DEF Rev!Current
    <3>2. skip = FALSE  BY <3>1
    <3> QED  BY <1>4, <2>1, <3>2 DEF Rev!AnyContent
  <2> QED  BY <2>2, <2>3
<1>7. ReviewerTypes'  BY <1>1, <1>2, <1>5, <1>6 DEF ReviewerTypes
<1>8. /\ verb'.step = step /\ verb'.path = {c} /\ verb'.base = base /\ verb'.left = <<>> /\ verb'.got = {}
      /\ verb'.lost = {}
  BY <1>5
<1>9. Takes'
  <2>1. text[c] \in Nat /\ file[c] \in Nat  BY <1>1 DEF ReviewerTypes
  <2> QED  BY <1>2, <1>4, <1>6, <1>8, <2>1 DEF Takes
<1>10. Sending' /\ OneEach' /\ ReadInOrder'
  BY <1>1, <1>2, <1>6, <1>8 DEF Sending, OneEach, OnRecord, Rev!Sent, ReadInOrder
<1>11. \A r \in (Rev!Sent \cup UNION queue)' : InOrder(r)'
  <2>1. UNCHANGED <<Rev!Sent, queue, text, returned>>  BY <1>2 DEF Rev!Sent
  <2> QED  BY <2>1 DEF ReviewerInv, InOrder
<1>12. Flight' /\ Rev!JudgedAsRead'
  BY <1>1, <1>2, <1>6, <1>8 DEF Flight, Sending, Rev!JudgedAsRead, Rev!AllLanded
<1> QED  BY <1>1, <1>7, <1>9, <1>10, <1>11, <1>12 DEF ReviewerInv

(* A pull is of contents no older than those that were there. *)
LEMMA PullIs ==
    ASSUME ReviewerTypes, ReadInOrder, Rev!PullAll \/ Rev!PullNothing
    PROVE  /\ file' \in [Vetted -> 1..LastText] /\ edited' \subseteq Vetted
           /\ \A c \in Vetted \ returned : file[c] <= file'[c] /\ file'[c] <= text[c]
<1>1. /\ text \in [Vetted -> 1..LastText] /\ file \in [Vetted -> 1..LastText] /\ edited \subseteq Vetted
      /\ \A c \in Vetted : text[c] \in Nat /\ file[c] \in Nat
  BY DEF ReviewerTypes
<1>2. file' \in {file, text} /\ edited' \subseteq edited  BY DEF Rev!PullAll, Rev!PullNothing
<1> QED  BY <1>1, <1>2 DEF ReadInOrder

LEMMA TakeKeeps == ASSUME Rev!ConstantsOK, ReviewerInv, Rev!Take PROVE ReviewerInv'
<1>1. ReviewerTypes /\ Takes /\ Sending /\ OneEach /\ ReadInOrder /\ Flight /\ Rev!JudgedAsRead
  BY DEF ReviewerInv
<1>2. /\ verb.step \in {"pull", "take"} /\ verb' = Rev!NoVerb
      /\ verb.step = "take" => Rev!PullNothing
      /\ verb.step = "pull" => Rev!PullAll
      /\ taken' = taken \cup verb.path
      /\ entries' = [c \in Vetted |-> IF c \in verb.path THEN verb.base ELSE entries[c]]
      /\ UNCHANGED <<text, backlog, queue, landed, rejected, changes, pending, submitted, dropped, read, recorded,
                     unanswered, returned, deaths>>
  BY DEF Rev!Take, Rev!writerVars, Rev!historyVars
<1>3. PICK c \in Vetted \ taken :
        /\ verb.path = {c}
        /\ c \notin returned => verb.base <= text[c] /\ (verb.step = "take" => verb.base <= file[c])
  BY <1>1, <1>2 DEF Takes
<1>4. Cardinality(taken) < MaxTaken /\ MaxTaken \in Nat  BY <1>1, <1>2 DEF Takes, Rev!ConstantsOK
<1>5. IsFiniteSet(taken') /\ Cardinality(taken') <= MaxTaken /\ taken' \subseteq Vetted
  <2>1. IsFiniteSet(taken) /\ Cardinality(taken) \in Nat /\ taken \subseteq Vetted
    BY <1>1, FS_CardinalityType DEF ReviewerTypes
  <2>2. taken' = taken \cup {c}  BY <1>2, <1>3
  <2>3. IsFiniteSet(taken') /\ Cardinality(taken') = Cardinality(taken) + 1  BY <1>3, <2>1, <2>2, FS_AddElement
  <2> QED  BY <1>3, <1>4, <2>1, <2>2, <2>3
<1>6. verb.base \in Rev!AnyContent /\ verb.base \in Nat  BY <1>1, VerbIs DEF Rev!AnyContent
<1>7. entries' \in [Vetted -> Rev!AnyContent]  BY <1>1, <1>2, <1>6 DEF ReviewerTypes
<1>8. /\ verb'.step = "none" /\ verb'.left = <<>> /\ verb'.got = {} /\ verb'.lost = {}
      /\ verb.left = <<>> /\ verb.got = {}
  BY <1>1, <1>2, NoVerbIs DEF Sending
<1>9. /\ file' \in [Vetted -> 1..LastText] /\ edited' \subseteq Vetted
      /\ \A d \in Vetted \ returned : file[d] <= file'[d] /\ file'[d] <= text[d]
  BY <1>1, <1>2, PullIs
<1>10. ReviewerTypes'
  <2>1. verb' \in [step: {"none", "pull", "take", "wait", "save"}, path: SUBSET Vetted,
                   base: Rev!AnyContent, left: Seq(Rev!Records), got: SUBSET Rev!Records, lost: SUBSET Rev!Records]
    <3>1. 0 \in Rev!AnyContent  BY DEF Rev!AnyContent, Rev!ConstantsOK
    <3> QED  BY <1>2, <3>1, NoVerbIs
  <2> QED  BY <1>1, <1>2, <1>5, <1>7, <1>9, <2>1 DEF ReviewerTypes
<1>11. Takes' /\ Sending' /\ OneEach'
  BY <1>1, <1>2, <1>8 DEF Takes, Sending, OneEach, OnRecord, Rev!Sent
<1>12. c \notin returned => verb.base <= file'[c]
  <2>1. file[c] \in Nat /\ text[c] \in Nat  BY <1>1 DEF ReviewerTypes
  <2> QED  BY <1>2, <1>3, <1>6, <2>1 DEF Rev!PullAll, Rev!PullNothing
<1>13. ReadInOrder'
  <2> SUFFICES ASSUME NEW d \in Vetted
               PROVE  /\ read[d] # 0 => d \in taken'
                      /\ d \notin returned =>
                            /\ file'[d] <= text[d] /\ read[d] <= file'[d]
                            /\ d \in taken' => /\ entries'[d] <= file'[d]
                                               /\ read[d] # 0 => entries'[d] <= read[d]
    BY <1>2 DEF ReadInOrder
  <2>1. /\ file[d] \in Nat /\ text[d] \in Nat /\ file'[d] \in Nat /\ read[d] \in Nat /\ entries[d] \in Nat
    BY <1>1, <1>9 DEF ReviewerTypes, Rev!AnyContent
  <2>2. /\ read[d] # 0 => d \in taken
        /\ d \notin returned =>
              /\ file[d] <= text[d] /\ read[d] <= file[d]
              /\ d \in taken => entries[d] <= file[d] /\ (read[d] # 0 => entries[d] <= read[d])
    BY <1>1 DEF ReadInOrder
  <2>3. d \notin returned => file[d] <= file'[d] /\ file'[d] <= text[d]  BY <1>9
  <2>4. CASE d = c
    <3>1. entries'[d] = verb.base /\ d \notin taken  BY <1>2, <1>3, <2>4
    <3> QED  BY <1>2, <1>12, <2>1, <2>2, <2>3, <2>4, <3>1
  <2>5. CASE d # c
    <3>1. entries'[d] = entries[d] /\ (d \in taken' => d \in taken)  BY <1>2, <1>3, <2>5
    <3> QED  BY <1>2, <2>1, <2>2, <2>3, <3>1
  <2> QED  BY <2>4, <2>5
<1>14. \A r \in (Rev!Sent \cup UNION queue)' : InOrder(r)'
  <2>1. UNCHANGED <<Rev!Sent, queue, text, returned>>  BY <1>2 DEF Rev!Sent
  <2> QED  BY <2>1 DEF ReviewerInv, InOrder
<1>15. Flight' /\ Rev!JudgedAsRead'
  BY <1>1, <1>2, <1>8 DEF Flight, Rev!JudgedAsRead, Rev!AllLanded
<1> QED  BY <1>1, <1>10, <1>11, <1>13, <1>14, <1>15 DEF ReviewerInv

(* The auditor reads the workspace. *)
LEMMA ReadKeeps ==
    ASSUME Rev!ConstantsOK, ReviewerInv, NEW c \in Vetted, Rev!Read(c)  PROVE ReviewerInv'
<1>1. ReviewerTypes /\ Takes /\ Sending /\ OneEach /\ ReadInOrder /\ Flight /\ Rev!JudgedAsRead
  BY DEF ReviewerInv
<1>2. /\ c \in taken /\ read' = [read EXCEPT ![c] = file[c]] /\ edited' \subseteq edited \cup {c}
      /\ UNCHANGED <<text, backlog, queue, landed, rejected, changes, file, taken, entries, pending, submitted,
                     dropped, verb, recorded, unanswered, returned, deaths>>
  BY DEF Rev!Read, Rev!Open, Rev!writerVars, Rev!saved
<1>3. /\ read \in [Vetted -> Rev!AnyContent] /\ file[c] \in Rev!AnyContent /\ edited \subseteq Vetted
      /\ \A d \in Vetted : file[d] \in Nat /\ text[d] \in Nat /\ read[d] \in Nat
  BY <1>1 DEF ReviewerTypes, Rev!AnyContent
<1>4. read' \in [Vetted -> Rev!AnyContent] /\ edited' \subseteq Vetted  BY <1>2, <1>3
<1>5. ReviewerTypes'  BY <1>1, <1>2, <1>4 DEF ReviewerTypes
<1>6. ReadInOrder'  BY <1>1, <1>2, <1>3 DEF ReadInOrder
<1>7. Takes' /\ Sending' /\ OneEach'  BY <1>1, <1>2 DEF Takes, Sending, OneEach, OnRecord, Rev!Sent
<1>8. \A r \in (Rev!Sent \cup UNION queue)' : InOrder(r)'
  <2>1. UNCHANGED <<Rev!Sent, queue, text, returned>>  BY <1>2 DEF Rev!Sent
  <2> QED  BY <2>1 DEF ReviewerInv, InOrder
<1>9. Flight' /\ Rev!JudgedAsRead'  BY <1>1, <1>2 DEF Flight, Rev!JudgedAsRead, Rev!AllLanded
<1> QED  BY <1>1, <1>5, <1>6, <1>7, <1>8, <1>9 DEF ReviewerInv

(* A verdict replaces the pending one of its concept, or is the first. *)
LEMMA VerdictKeeps ==
    ASSUME Rev!ConstantsOK, ReviewerInv, NEW c \in Vetted, Rev!Verdict(c)  PROVE ReviewerInv'
<1>1. ReviewerTypes /\ Takes /\ Sending /\ OneEach /\ ReadInOrder /\ Flight /\ Rev!JudgedAsRead
  BY DEF ReviewerInv
<1> DEFINE review == [path |-> c, base |-> Rev!BaseOf(c), read |-> read[c],
                      verdict |-> IF c \in edited THEN "corrected" ELSE "verified"]
           known  == {i \in DOMAIN pending : pending[i].path = c}
<1>2. /\ verb.step = "none" /\ c \in taken /\ (c \in recorded => c \in Rev!Paths(Rev!Sent)) /\ read[c] # 0
      /\ edited' = edited \ {c}
      /\ UNCHANGED <<text, backlog, queue, landed, rejected, changes, file, taken, entries, submitted, dropped, verb,
                     read, unanswered, returned>>
  BY DEF Rev!Verdict, Rev!Idle, Rev!Open, Rev!Sent, Rev!writerVars
<1>3. \/ /\ pending' = IF known = {} THEN Append(pending, review)
                       ELSE [i \in DOMAIN pending |-> IF i \in known THEN review ELSE pending[i]]
         /\ recorded' = recorded \cup {c} /\ UNCHANGED deaths
      \/ UNCHANGED <<pending, recorded>> /\ deaths' \in 0..MaxFaults
  BY <1>1 DEF Rev!Verdict, Rev!Fault, ReviewerTypes, Rev!ConstantsOK
<1>4. pending \in Seq(Rev!Records) /\ deaths \in 0..MaxFaults /\ recorded \subseteq Vetted /\ edited' \subseteq Vetted
  BY <1>1, <1>2 DEF ReviewerTypes
<1>5. review \in Rev!Records /\ review.path = c /\ review.base = entries[c] /\ review.read = read[c]
  <2>1. entries[c] \in Rev!AnyContent /\ read[c] \in Rev!AnyContent  BY <1>1 DEF ReviewerTypes
  <2> QED  BY <2>1 DEF Rev!Records, Rev!Verdicts, Rev!BaseOf
<1>6. InOrder(review)
  <2>1. read[c] \in Nat /\ text[c] \in Nat /\ file[c] \in Nat  BY <1>1 DEF ReviewerTypes, Rev!AnyContent
  <2> QED  BY <1>1, <1>2, <1>5, <2>1 DEF InOrder, ReadInOrder
<1>7. Takes' /\ ReadInOrder'  BY <1>1, <1>2 DEF Takes, ReadInOrder
<1>8. Sending'  BY <1>1, <1>2 DEF Sending
<1>9. Flight' /\ Rev!JudgedAsRead'  BY <1>1, <1>2 DEF Flight, Rev!JudgedAsRead, Rev!AllLanded
<1>10. \A r \in Rev!Sent : r \in Rev!Records  BY <1>4, SentIs
<1> HIDE DEF review
<1>11. CASE UNCHANGED <<pending, recorded>> /\ deaths' \in 0..MaxFaults
  <2>1. ReviewerTypes'  BY <1>1, <1>2, <1>4, <1>11 DEF ReviewerTypes
  <2>2. OneEach'  BY <1>1, <1>2, <1>11 DEF OneEach, OnRecord, Rev!Sent
  <2>3. \A r \in (Rev!Sent \cup UNION queue)' : InOrder(r)'
    <3>1. UNCHANGED <<Rev!Sent, queue, text, returned>>  BY <1>2, <1>11 DEF Rev!Sent
    <3> QED  BY <3>1 DEF ReviewerInv, InOrder
  <2> QED  BY <1>1, <1>7, <1>8, <1>9, <2>1, <2>2, <2>3 DEF ReviewerInv
<1>12. CASE /\ pending' = IF known = {} THEN Append(pending, review)
                          ELSE [i \in DOMAIN pending |-> IF i \in known THEN review ELSE pending[i]]
            /\ recorded' = recorded \cup {c} /\ UNCHANGED deaths
  <2>1. pending' \in Seq(Rev!Records)  BY <1>4, <1>5, <1>12
  <2>2. ReviewerTypes'  BY <1>1, <1>2, <1>4, <1>12, <2>1 DEF ReviewerTypes
  <2>3. \A r : r \in Rev!Sent' <=> r = review \/ (r \in Rev!Sent /\ r.path # c)
    <3>1. CASE known = {}
      <4>1. pending' = Append(pending, review)  BY <1>12, <3>1
      <4>2. /\ DOMAIN pending' = DOMAIN pending \cup {Len(pending) + 1}
            /\ pending'[Len(pending) + 1] = review
            /\ \A i \in DOMAIN pending : pending'[i] = pending[i]
        BY <1>4, <4>1
      <4> QED  BY <3>1, <4>2 DEF Rev!Sent
    <3>2. CASE known # {}
      <4>1. pending' = [i \in DOMAIN pending |-> IF i \in known THEN review ELSE pending[i]]  BY <1>12, <3>2
      <4>2. /\ DOMAIN pending' = DOMAIN pending
            /\ \A i \in DOMAIN pending : pending'[i] = IF pending[i].path = c THEN review ELSE pending[i]
        BY <4>1
      <4>3. PICK k \in DOMAIN pending : pending[k].path = c  BY <3>2
      <4> HIDE DEF known
      <4> QED  BY <4>2, <4>3 DEF Rev!Sent
    <3> QED  BY <3>1, <3>2
  <2>4. \A r \in submitted \cup dropped : r.path # c
    <3> SUFFICES ASSUME NEW r \in submitted \cup dropped, r.path = c PROVE FALSE  OBVIOUS
    <3>1. r \in OnRecord /\ c \in recorded  BY <1>1 DEF OneEach, OnRecord, Rev!Paths
    <3>2. PICK s \in Rev!Sent : s.path = c  BY <1>2, <3>1 DEF Rev!Paths
    <3>3. s = r  BY <1>1, <3>1, <3>2 DEF OneEach, OnRecord
    <3> QED  BY <1>1, <3>2, <3>3 DEF OneEach
  <2>5. OneEach'
    <3> DEFINE others == {r \in Rev!Sent : r.path # c}
    <3>1. Rev!Sent' = others \cup {review}  BY <2>3
    <3>2. OnRecord' = others \cup submitted \cup dropped \cup {review}  BY <1>2, <3>1 DEF OnRecord
    <3>3. \A r, s \in OnRecord' : r.path = s.path => r = s
      <4> SUFFICES ASSUME NEW r \in OnRecord', NEW s \in OnRecord', r.path = s.path PROVE r = s  OBVIOUS
      <4>1. \A q \in OnRecord' : q = review \/ (q \in OnRecord /\ q.path # c)
        BY <2>4, <3>2 DEF OnRecord
      <4> QED  BY <1>1, <1>5, <4>1 DEF OneEach
    <3>4. recorded' = Rev!Paths(OnRecord')
      <4>1. \A d : d \in recorded <=> \E r \in OnRecord : r.path = d  BY <1>1 DEF OneEach, Rev!Paths
      <4>2. \A d : d # c => ((\E r \in OnRecord : r.path = d) <=> (\E r \in OnRecord' : r.path = d))
        BY <1>5, <3>2 DEF OnRecord
      <4>3. \E r \in OnRecord' : r.path = c  BY <1>5, <3>2
      <4> QED  BY <1>12, <4>1, <4>2, <4>3 DEF Rev!Paths
    <3>5. Rev!Sent' \cap (submitted \cup dropped) = {}
      <4>1. others \cap (submitted \cup dropped) = {}  BY <1>1 DEF OneEach
      <4>2. review \notin submitted \cup dropped  BY <1>5, <2>4
      <4> QED  BY <3>1, <4>1, <4>2
    <3> QED  BY <1>1, <1>2, <3>3, <3>4, <3>5 DEF OneEach
  <2>6. \A r \in (Rev!Sent \cup UNION queue)' : InOrder(r)'
    <3>1. \A r \in Rev!Sent' \cup UNION queue : InOrder(r)  BY <1>6, <2>3 DEF ReviewerInv
    <3> QED  BY <1>2, <3>1 DEF InOrder
  <2> QED  BY <1>1, <1>7, <1>8, <1>9, <2>2, <2>5, <2>6 DEF ReviewerInv
<1> QED  BY <1>3, <1>11, <1>12

-----------------------------------------------------------------------------
(* A verb that sends: it has the answer to each changeset but the first of what is left, which it
   posts. *)
LEMMA SendKeeps ==
    ASSUME Rev!ConstantsOK, ReviewerInv,
           NEW step \in {"wait", "save"}, NEW left \in Seq(Rev!Records), NEW got \in SUBSET Rev!Records,
           NEW gone \in SUBSET Rev!Records,
           NEW path \in SUBSET Vetted, NEW base \in Rev!AnyContent,
           verb' = [step |-> step, path |-> path, base |-> base, left |-> left, got |-> got, lost |-> gone],
           left # <<>> => step = "wait",
           Rev!Sent = Among(left) \cup got \cup gone,
           Among(left) \cap (got \cup gone) = {}, got \cap gone = {},
           \A q \in queue : q \subseteq unanswered,
           \A q \in landed : q \subseteq unanswered \cup submitted \cup got,
           got \subseteq Rev!AllLanded,
           Rev!Post(left),
           UNCHANGED <<text, backlog, landed, changes, file, edited, Rev!saved, Rev!historyVars, deaths>>
    PROVE  ReviewerInv'
<1>1. ReviewerTypes /\ Takes /\ Sending /\ OneEach /\ ReadInOrder /\ Flight /\ Rev!JudgedAsRead
  BY DEF ReviewerInv
<1>2. UNCHANGED <<text, backlog, landed, changes, file, edited, taken, entries, pending, submitted, dropped,
                  read, recorded, unanswered, returned, deaths>>
  BY DEF Rev!saved, Rev!historyVars
<1>3. /\ verb'.step = step /\ verb'.left = left /\ verb'.got = got /\ verb'.lost = gone
  OBVIOUS
<1>4. Rev!First(left) \subseteq Among(left) /\ Among(left) \subseteq Rev!Records  BY FirstIs DEF Rev!ConstantsOK
<1>5. /\ queue' \subseteq queue \cup {Rev!First(left)} /\ rejected' \subseteq rejected
      /\ Rev!First(left) \in queue' \ queue => left # <<>> /\ Rev!First(left) \notin landed
                                           /\ \A f \in rejected' : f.of # Rev!First(left)
  BY DEF Rev!Post
<1>6. ReviewerTypes'
  <2>1. verb' \in [step: {"none", "pull", "take", "wait", "save"}, path: SUBSET Vetted,
                   base: Rev!AnyContent, left: Seq(Rev!Records), got: SUBSET Rev!Records, lost: SUBSET Rev!Records]
    OBVIOUS
  <2>2. queue' \subseteq SUBSET Rev!Records
    <3>1. queue \subseteq SUBSET Rev!Records  BY <1>1 DEF ReviewerTypes
    <3>2. Rev!First(left) \in SUBSET Rev!Records  BY <1>4
    <3> QED  BY <1>5, <3>1, <3>2
  <2> QED  BY <1>1, <1>2, <1>5, <2>1, <2>2 DEF ReviewerTypes
<1>7. Takes' /\ ReadInOrder'  BY <1>1, <1>2, <1>3 DEF Takes, ReadInOrder
<1>8. Sending'  BY <1>2, <1>3 DEF Sending, Rev!Sent
<1>9. OneEach' /\ Rev!JudgedAsRead'  BY <1>1, <1>2 DEF OneEach, OnRecord, Rev!Sent, Rev!JudgedAsRead, Rev!AllLanded
<1>10. \A r \in (Rev!Sent \cup UNION queue)' : InOrder(r)'
  <2>1. Rev!Sent' = Rev!Sent /\ UNCHANGED <<text, returned>>  BY <1>2 DEF Rev!Sent
  <2>2. Rev!First(left) \subseteq Rev!Sent  BY <1>4
  <2>3. (Rev!Sent \cup UNION queue)' \subseteq Rev!Sent \cup UNION queue  BY <1>5, <2>1, <2>2
  <2> QED  BY <2>1, <2>3 DEF ReviewerInv, InOrder
<1>11. Flight'
  <2>1. queue' \cap landed' = {}  BY <1>1, <1>2, <1>5 DEF Flight
  <2>2. \A f \in rejected' : f.bad \subseteq f.of /\ f.of \notin queue' \cup landed'
    BY <1>1, <1>2, <1>5 DEF Flight
  <2>3. \A q \in queue' : q \subseteq unanswered' \/ (verb'.step = "wait" /\ q = Rev!First(verb'.left))
    BY <1>2, <1>3, <1>5
  <2>4. \A q \in landed' : q \subseteq unanswered' \cup submitted' \cup verb'.got  BY <1>2, <1>3
  <2>5. submitted' \cup verb'.got \subseteq Rev!AllLanded'  BY <1>1, <1>2, <1>3 DEF Flight, Rev!AllLanded
  <2> QED  BY <2>1, <2>2, <2>3, <2>4, <2>5 DEF Flight
<1> QED  BY <1>6, <1>7, <1>8, <1>9, <1>10, <1>11 DEF ReviewerInv

LEMMA SubmitKeeps == ASSUME Rev!ConstantsOK, ReviewerInv, Rev!Submit PROVE ReviewerInv'
<1>1. ReviewerTypes /\ Sending /\ Flight  BY DEF ReviewerInv
<1>2. /\ verb.step = "none" /\ pending # <<>> /\ Rev!Post(pending)
      /\ verb' = [Rev!NoVerb EXCEPT !.step = "wait", !.left = pending]
      /\ UNCHANGED <<text, backlog, landed, changes, file, edited, Rev!saved, Rev!historyVars, deaths>>
  BY DEF Rev!Submit, Rev!Idle
<1>3. verb' = [step |-> "wait", path |-> {}, base |-> 0, left |-> pending, got |-> {}, lost |-> {}]
  BY <1>2, NoVerbIs
<1>4. verb.got = {} /\ pending \in Seq(Rev!Records)  BY <1>1, <1>2 DEF Sending, ReviewerTypes
<1>5. Rev!Sent = Among(pending) \cup {} \cup {}  BY DEF Rev!Sent, Among
<1>6. (\A q \in queue : q \subseteq unanswered) /\ (\A q \in landed : q \subseteq unanswered \cup submitted \cup {})
  BY <1>1, <1>2, <1>4 DEF Flight
<1>7. 0 \in Rev!AnyContent  BY DEF Rev!AnyContent, Rev!ConstantsOK
<1>8. PICK none : none = {}  OBVIOUS
<1>9. /\ verb' = [step |-> "wait", path |-> none, base |-> 0, left |-> pending, got |-> none, lost |-> none]
      /\ none \in SUBSET Rev!Records /\ none \in SUBSET Vetted /\ none \subseteq Rev!AllLanded
      /\ Rev!Sent = Among(pending) \cup none \cup none
      /\ Among(pending) \cap (none \cup none) = {} /\ none \cap none = {}
      /\ \A q \in landed : q \subseteq unanswered \cup submitted \cup none
  BY <1>3, <1>5, <1>6, <1>8
<1>10. /\ Rev!Post(pending)
       /\ UNCHANGED <<text, backlog, landed, changes, file, edited, Rev!saved, Rev!historyVars, deaths>>
  BY <1>2
<1> QED  BY <1>4, <1>6, <1>7, <1>9, <1>10, SendKeeps

(* Of a verb that waits: what it sent first is with the writer, or was. *)
LEMMA AnswerKeeps ==
    ASSUME Rev!ConstantsOK, ReviewerInv, Rev!Done \/ Rev!Refused  PROVE ReviewerInv'
<1>1. ReviewerTypes /\ Sending /\ OneEach /\ Flight  BY DEF ReviewerInv
<1>2. verb.step = "wait"  BY DEF Rev!Done, Rev!Refused
<1>3. /\ verb = [step |-> verb.step, path |-> verb.path, base |-> verb.base, left |-> verb.left,
                 got |-> verb.got, lost |-> verb.lost]
      /\ verb.left \in Seq(Rev!Records) /\ verb.got \subseteq Rev!Records /\ verb.lost \subseteq Rev!Records
      /\ verb.path \in SUBSET Vetted /\ verb.base \in Rev!AnyContent
  BY <1>1, VerbIs
<1>4. Rev!First(verb.left) \subseteq Among(verb.left) /\ Among(verb.left) \subseteq Rev!Records
  BY <1>3, FirstIs DEF Rev!ConstantsOK
<1>5. /\ Rev!Sent = Among(verb.left) \cup verb.got \cup verb.lost
      /\ Among(verb.left) \cap (verb.got \cup verb.lost) = {} /\ verb.got \cap verb.lost = {}
  BY <1>1, <1>2 DEF Sending
<1>6. ASSUME Rev!Done  PROVE ReviewerInv'
  <2> DEFINE left == Rev!Without(verb.left, Rev!First(verb.left))
             got  == verb.got \cup Rev!First(verb.left)
  <2>1. /\ Rev!First(verb.left) \in landed /\ Rev!Post(left)
        /\ verb' = [verb EXCEPT !.left = left, !.got = verb.got \cup Rev!First(verb.left), !.step = Rev!Goes(left)]
        /\ UNCHANGED <<text, backlog, landed, changes, file, edited, Rev!saved, Rev!historyVars, deaths>>
    BY <1>6 DEF Rev!Done
  <2>2. left \in Seq(Rev!Records) /\ Among(left) = Among(verb.left) \ Rev!First(verb.left)  BY <1>3, WithoutIs
  <2> HIDE DEF left
  <2>3. \A q \in queue : q \subseteq unanswered  BY <1>1, <2>1 DEF Flight
  <2>4. \A q \in landed : q \subseteq unanswered \cup submitted \cup got  BY <1>1 DEF Flight
  <2>5. got \subseteq Rev!AllLanded  BY <1>1, <2>1 DEF Flight, Rev!AllLanded
  <2>6. /\ Rev!Sent = Among(left) \cup got \cup verb.lost
        /\ Among(left) \cap (got \cup verb.lost) = {} /\ got \cap verb.lost = {}
    BY <1>4, <1>5, <2>2
  <2>7. PICK step : step = Rev!Goes(left)  OBVIOUS
  <2>8. step \in {"wait", "save"} /\ (left # <<>> => step = "wait")  BY <2>7 DEF Rev!Goes
  <2>9. got \in SUBSET Rev!Records /\ verb.lost \in SUBSET Rev!Records  BY <1>3, <1>4
  <2> HIDE DEF got
  <2>10. verb' = [step |-> step, path |-> verb.path, base |-> verb.base, left |-> left, got |-> got,
                  lost |-> verb.lost]
    <3>1. verb' = [verb EXCEPT !.left = left, !.got = got, !.step = step]  BY <2>1, <2>7 DEF got
    <3> QED  BY <1>3, <3>1
  <2>11. /\ Rev!Post(left)
         /\ UNCHANGED <<text, backlog, landed, changes, file, edited, Rev!saved, Rev!historyVars, deaths>>
    BY <2>1
  <2> QED  BY <2>2, <2>3, <2>4, <2>5, <2>6, <2>8, <2>9, <2>10, <2>11, <1>3, SendKeeps
<1>7. ASSUME Rev!Refused  PROVE ReviewerInv'
  <2>1. PICK f \in rejected :
          /\ f.of = Rev!First(verb.left) /\ Rev!Post(Rev!Without(verb.left, f.bad))
          /\ verb' = [verb EXCEPT !.left = Rev!Without(verb.left, f.bad), !.lost = verb.lost \cup f.bad,
                                  !.step = Rev!Goes(Rev!Without(verb.left, f.bad))]
    BY <1>7 DEF Rev!Refused
  <2> DEFINE left == Rev!Without(verb.left, f.bad)
             gone == verb.lost \cup f.bad
  <2>2. left \in Seq(Rev!Records) /\ Among(left) = Among(verb.left) \ f.bad  BY <1>3, WithoutIs
  <2>3. f.bad \subseteq Rev!First(verb.left) /\ Rev!First(verb.left) \notin queue \cup landed
    BY <1>1, <2>1 DEF Flight
  <2>4. \A q \in queue : q \subseteq unanswered  BY <1>1, <2>3 DEF Flight
  <2>5. \A q \in landed : q \subseteq unanswered \cup submitted \cup verb.got  BY <1>1, <2>3 DEF Flight
  <2>6. verb.got \subseteq Rev!AllLanded  BY <1>1 DEF Flight
  <2>7. /\ Rev!Post(left)
        /\ UNCHANGED <<text, backlog, landed, changes, file, edited, Rev!saved, Rev!historyVars, deaths>>
    BY <1>7, <2>1 DEF Rev!Refused
  <2> HIDE DEF left
  <2>8. /\ Rev!Sent = Among(left) \cup verb.got \cup gone
        /\ Among(left) \cap (verb.got \cup gone) = {} /\ verb.got \cap gone = {}
    BY <1>4, <1>5, <2>2, <2>3
  <2>9. PICK step : step = Rev!Goes(left)  OBVIOUS
  <2>10. step \in {"wait", "save"} /\ (left # <<>> => step = "wait")  BY <2>9 DEF Rev!Goes
  <2>11. gone \in SUBSET Rev!Records /\ verb.got \in SUBSET Rev!Records  BY <1>3, <1>4, <2>3
  <2> HIDE DEF gone
  <2>12. verb' = [step |-> step, path |-> verb.path, base |-> verb.base, left |-> left, got |-> verb.got,
                  lost |-> gone]
    <3>1. verb' = [verb EXCEPT !.left = left, !.lost = gone, !.step = step]  BY <2>1, <2>9 DEF left, gone
    <3> QED  BY <1>3, <3>1
  <2> QED  BY <2>2, <2>4, <2>5, <2>6, <2>7, <2>8, <2>10, <2>11, <2>12, <1>3, SendKeeps
<1> QED  BY <1>6, <1>7

-----------------------------------------------------------------------------
(* A verb that ends without an answer, or dies, remembers whom nobody answered. *)
LEMMA FaultsKeep ==
    ASSUME Rev!ConstantsOK, ReviewerInv, Rev!NoAnswer \/ Rev!Dies  PROVE ReviewerInv'
<1>1. ReviewerTypes /\ Takes /\ Sending /\ OneEach /\ ReadInOrder /\ Flight /\ Rev!JudgedAsRead
  BY DEF ReviewerInv
<1>2. UNCHANGED <<text, backlog, queue, landed, rejected, changes, file, edited, taken, entries, pending, submitted,
                  dropped, read, recorded, returned>>
  BY DEF Rev!NoAnswer, Rev!Dies, Rev!writerVars, Rev!saved
<1>3. deaths' \in 0..MaxFaults  BY <1>1 DEF Rev!NoAnswer, Rev!Dies, Rev!Fault, ReviewerTypes, Rev!ConstantsOK
<1>4. /\ verb = [step |-> verb.step, path |-> verb.path, base |-> verb.base, left |-> verb.left,
                 got |-> verb.got, lost |-> verb.lost]
      /\ verb.path \subseteq Vetted /\ verb.base \in Rev!AnyContent
      /\ verb.left \in Seq(Rev!Records) /\ verb.got \subseteq Rev!Records /\ verb.lost \subseteq Rev!Records
  BY <1>1, VerbIs
<1>5. Rev!First(verb.left) \subseteq Rev!Records  BY <1>4, FirstIs DEF Rev!ConstantsOK
<1>6. unanswered \subseteq Rev!Records  BY <1>1 DEF ReviewerTypes
<1>7. OneEach' /\ ReadInOrder' /\ Rev!JudgedAsRead'
  BY <1>1, <1>2 DEF OneEach, OnRecord, Rev!Sent, ReadInOrder, Rev!JudgedAsRead, Rev!AllLanded
<1>8. \A r \in (Rev!Sent \cup UNION queue)' : InOrder(r)'
  <2>1. UNCHANGED <<Rev!Sent, queue, text, returned>>  BY <1>2 DEF Rev!Sent
  <2> QED  BY <2>1 DEF ReviewerInv, InOrder
<1>9. ASSUME Rev!NoAnswer  PROVE ReviewerInv'
  <2>1. /\ verb.step = "wait" /\ unanswered' = unanswered \cup Rev!First(verb.left)
        /\ verb' = [verb EXCEPT !.step = "save"]
    BY <1>9 DEF Rev!NoAnswer
  <2>2. verb' = [step |-> "save", path |-> verb.path, base |-> verb.base, left |-> verb.left,
                 got |-> verb.got, lost |-> verb.lost]
    BY <1>4, <2>1
  <2>3. /\ verb'.step = "save" /\ verb'.left = verb.left /\ verb'.got = verb.got /\ verb'.lost = verb.lost
    BY <2>2
  <2>4. verb' \in [step: {"none", "pull", "take", "wait", "save"}, path: SUBSET Vetted,
                   base: Rev!AnyContent, left: Seq(Rev!Records), got: SUBSET Rev!Records, lost: SUBSET Rev!Records]
    BY <1>4, <2>2
  <2>5. unanswered' \subseteq Rev!Records  BY <1>5, <1>6, <2>1
  <2>6. ReviewerTypes'  BY <1>1, <1>2, <1>3, <2>4, <2>5 DEF ReviewerTypes
  <2>7. Takes' /\ Sending'  BY <1>1, <1>2, <2>1, <2>3 DEF Takes, Sending, Rev!Sent
  <2>8. Flight'  BY <1>1, <1>2, <2>1, <2>3 DEF Flight, Rev!AllLanded
  <2> QED  BY <1>7, <1>8, <2>6, <2>7, <2>8 DEF ReviewerInv
<1>10. ASSUME Rev!Dies  PROVE ReviewerInv'
  <2>1. /\ unanswered' = unanswered \cup verb.got \cup (IF verb.step = "wait" THEN Rev!First(verb.left) ELSE {})
        /\ verb' = Rev!NoVerb
    BY <1>10 DEF Rev!Dies
  <2>2. /\ verb'.step = "none" /\ verb'.left = <<>> /\ verb'.got = {} /\ verb'.lost = {}
    BY <2>1, NoVerbIs
  <2>3. verb' \in [step: {"none", "pull", "take", "wait", "save"}, path: SUBSET Vetted,
                   base: Rev!AnyContent, left: Seq(Rev!Records), got: SUBSET Rev!Records, lost: SUBSET Rev!Records]
    <3>1. 0 \in Rev!AnyContent  BY DEF Rev!AnyContent, Rev!ConstantsOK
    <3> QED  BY <2>1, <3>1, NoVerbIs
  <2>4. unanswered' \subseteq Rev!Records  BY <1>4, <1>5, <1>6, <2>1
  <2>5. ReviewerTypes'  BY <1>1, <1>2, <1>3, <2>3, <2>4 DEF ReviewerTypes
  <2>6. Takes' /\ Sending'  BY <2>2 DEF Takes, Sending
  <2>7. Flight'  BY <1>1, <1>2, <2>1, <2>2 DEF Flight, Rev!AllLanded
  <2> QED  BY <1>7, <1>8, <2>5, <2>6, <2>7 DEF ReviewerInv
<1> QED  BY <1>9, <1>10

(* The record takes what was answered, and keeps the rest pending. *)
LEMMA SaveKeeps == ASSUME Rev!ConstantsOK, ReviewerInv, Rev!Save PROVE ReviewerInv'
<1>1. ReviewerTypes /\ Takes /\ Sending /\ OneEach /\ ReadInOrder /\ Flight /\ Rev!JudgedAsRead
  BY DEF ReviewerInv
<1>2. /\ verb.step = "save" /\ pending' = verb.left /\ verb' = Rev!NoVerb
      /\ submitted' = submitted \cup verb.got /\ dropped' = dropped \cup verb.lost
      /\ UNCHANGED <<text, backlog, queue, landed, rejected, changes, taken, entries, read, recorded, unanswered,
                     returned, deaths>>
      /\ Rev!PullAll \/ Rev!PullNothing
  BY DEF Rev!Save, Rev!Kept, Rev!writerVars, Rev!historyVars
<1>3. /\ verb.left \in Seq(Rev!Records) /\ verb.got \subseteq Rev!Records /\ verb.lost \subseteq Rev!Records
  BY <1>1, VerbIs
<1>4. /\ file' \in [Vetted -> 1..LastText] /\ edited' \subseteq Vetted
      /\ \A d \in Vetted \ returned : file[d] <= file'[d] /\ file'[d] <= text[d]
  BY <1>1, <1>2, PullIs
<1>5. /\ verb'.step = "none" /\ verb'.left = <<>> /\ verb'.got = {} /\ verb'.lost = {}
  BY <1>2, NoVerbIs
<1>6. verb' \in [step: {"none", "pull", "take", "wait", "save"}, path: SUBSET Vetted,
                 base: Rev!AnyContent, left: Seq(Rev!Records), got: SUBSET Rev!Records, lost: SUBSET Rev!Records]
  <2>1. 0 \in Rev!AnyContent  BY DEF Rev!AnyContent, Rev!ConstantsOK
  <2> QED  BY <1>2, <2>1, NoVerbIs
<1>7. ReviewerTypes'
  <2>1. submitted' \subseteq Rev!Records /\ dropped' \subseteq Rev!Records  BY <1>1, <1>2, <1>3 DEF ReviewerTypes
  <2> QED  BY <1>1, <1>2, <1>3, <1>4, <1>6, <2>1 DEF ReviewerTypes
<1>8. Takes' /\ Sending'  BY <1>5 DEF Takes, Sending
<1>9. /\ Rev!Sent = Among(verb.left) \cup verb.got \cup verb.lost
      /\ Among(verb.left) \cap (verb.got \cup verb.lost) = {} /\ verb.got \cap verb.lost = {}
      /\ Rev!Sent' = Among(verb.left)
  BY <1>1, <1>2 DEF Sending, Rev!Sent, Among
<1>10. OneEach'
  <2>1. OnRecord' = OnRecord  BY <1>2, <1>9 DEF OnRecord
  <2> QED  BY <1>1, <1>2, <1>9, <2>1 DEF OneEach
<1>11. ReadInOrder'
  <2>1. \A d \in Vetted : /\ file[d] \in Nat /\ text[d] \in Nat /\ file'[d] \in Nat /\ read[d] \in Nat
                            /\ entries[d] \in Nat
    BY <1>1, <1>4 DEF ReviewerTypes, Rev!AnyContent
  <2> QED  BY <1>1, <1>2, <1>4, <2>1 DEF ReadInOrder
<1>12. \A r \in (Rev!Sent \cup UNION queue)' : InOrder(r)'
  <2>1. Rev!Sent' \subseteq Rev!Sent /\ UNCHANGED <<queue, text, returned>>  BY <1>2, <1>9
  <2> QED  BY <2>1 DEF ReviewerInv, InOrder
<1>13. Flight' /\ Rev!JudgedAsRead'
  BY <1>1, <1>2, <1>5 DEF Flight, Rev!JudgedAsRead, Rev!AllLanded
<1> QED  BY <1>7, <1>8, <1>10, <1>11, <1>12, <1>13 DEF ReviewerInv

-----------------------------------------------------------------------------
(* Every step keeps the invariant, ... *)
LEMMA ReviewerNext == ASSUME Rev!ConstantsOK, ReviewerInv, [Rev!Next]_(Rev!vars) PROVE ReviewerInv'
<1>1. CASE UNCHANGED Rev!vars
  <2>1. UNCHANGED <<text, backlog, queue, landed, rejected, changes, file, edited, taken, entries, pending, submitted,
                    dropped, verb, read, recorded, unanswered, returned, deaths>>
    BY <1>1 DEF Rev!vars
  <2>2. ReviewerTypes'  BY <2>1 DEF ReviewerInv, ReviewerTypes
  <2>5. Takes' /\ Sending'  BY <2>1 DEF ReviewerInv, Takes, Sending, Rev!Sent
  <2>6. OneEach' /\ ReadInOrder'  BY <2>1 DEF ReviewerInv, OneEach, ReadInOrder, OnRecord, Rev!Sent
  <2>3. Flight' /\ Rev!JudgedAsRead'  BY <2>1 DEF ReviewerInv, Flight, Rev!JudgedAsRead, Rev!AllLanded
  <2>4. \A r \in (Rev!Sent \cup UNION queue)' : InOrder(r)'  BY <2>1 DEF ReviewerInv, InOrder, Rev!Sent
  <2> QED  BY <2>2, <2>3, <2>4, <2>5, <2>6 DEF ReviewerInv
<1>2. ASSUME NEW c \in Vetted, Rev!Change(c) \/ Rev!Revert(c)  PROVE ReviewerInv'  BY <1>2, ChangesKeep
<1>3. ASSUME NEW c \in Vetted, Rev!NextConcept(c)  PROVE ReviewerInv'  BY <1>3, NextConceptKeeps
<1>4. ASSUME NEW c \in Vetted, Rev!Read(c)  PROVE ReviewerInv'  BY <1>4, ReadKeeps
<1>5. ASSUME NEW c \in Vetted, Rev!Verdict(c)  PROVE ReviewerInv'  BY <1>5, VerdictKeeps
<1>6. ASSUME NEW batch \in queue, Rev!Judge(batch)  PROVE ReviewerInv'  BY <1>6, JudgementKeeps
<1>7. CASE Rev!Take \/ Rev!Submit \/ Rev!Done \/ Rev!Refused \/ Rev!NoAnswer \/ Rev!Save \/ Rev!Dies
  BY <1>7, TakeKeeps, SubmitKeeps, AnswerKeeps, FaultsKeep, SaveKeeps
<1> QED  BY <1>1, <1>2, <1>3, <1>4, <1>5, <1>6, <1>7 DEF Rev!Next

(* ... and with it verdicts land as read, and are accounted for. *)
LEMMA ReviewerSafe == ASSUME Rev!ConstantsOK, ReviewerInv PROVE Rev!VerdictsAccounted
<1>1. ReviewerTypes /\ Takes /\ Sending /\ OneEach /\ Flight /\ Rev!JudgedAsRead  BY DEF ReviewerInv
<1>2. Rev!TypeOK
  <2>1. file \in [Vetted -> Rev!AnyContent]  BY <1>1 DEF ReviewerTypes, Rev!AnyContent
  <2> QED  BY <1>1, <2>1 DEF ReviewerTypes, Rev!TypeOK, Rev!Cardinality, Cardinality
<1>3. ASSUME NEW c \in recorded  PROVE Cardinality({r \in OnRecord : r.path = c}) = 1
  <2>1. PICK r \in OnRecord : r.path = c  BY <1>1, <1>3 DEF OneEach, Rev!Paths
  <2>2. {s \in OnRecord : s.path = c} = {r}  BY <1>1, <2>1 DEF OneEach
  <2> QED  BY <2>2, FS_Singleton
<1>4. submitted \subseteq Rev!AllLanded  BY <1>1 DEF Flight
<1>5. ASSUME NEW r \in dropped \cap Rev!AllLanded  PROVE r \in unanswered
  <2>1. PICK q \in landed : r \in q  BY DEF Rev!AllLanded
  <2>2. r \notin Rev!Sent /\ r \notin submitted  BY <1>1 DEF OneEach
  <2>3. verb.got \subseteq Rev!Sent /\ (verb.step = "wait" => Among(verb.left) \subseteq Rev!Sent)
    BY <1>1 DEF Sending
  <2>4. verb.left \in Seq(Rev!Records)  BY <1>1, VerbIs
  <2>5. Rev!First(verb.left) \subseteq Among(verb.left)  BY <2>4, FirstIs DEF Rev!ConstantsOK
  <2> QED  BY <1>1, <2>1, <2>2, <2>3, <2>5 DEF Flight
<1> QED  BY <1>1, <1>2, <1>3, <1>4, <1>5 DEF Rev!VerdictsAccounted, Rev!Accounted, Rev!Cardinality, Cardinality, OnRecord
=============================================================================
