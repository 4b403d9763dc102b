------------------------------ MODULE HostRuns -------------------------------
(***************************************************************************)
(* One host of the agents: `ai-wiki maint` and `ai-wiki review` runs that  *)
(* begin, go on and end, and `ai-wiki update`, which replaces the program  *)
(* under them (cli/update.py; begin, end and the run pointer of            *)
(* cli/maint.py and cli/review.py).  A step is one call to the writer, one *)
(* file written or one lock; hours pass between any two.                   *)
(*                                                                         *)
(* Left out: --check, which waits for an install and changes nothing;      *)
(* state directories an update is not told of; runs of other hosts; the    *)
(* legacy `maintain`, which takes no update.lock, but as what an update    *)
(* may refuse for.                                                         *)
(***************************************************************************)
EXTENDS Naturals, FiniteSets

CONSTANTS
    Runs,
    Reviews,    \* the runs that are an auditor's; the others are a maintainer's
    Updaters,
    NoRun,
    TTL,        \* hours a lease lasts, and a run's last write counts
    MaxHour,    \* bound: the clock
    MaxMain,    \* bound: versions published
    MaxFaults   \* bound: deaths, lost answers, failed pulls and installs

ConstantsOK ==
    /\ Reviews \subseteq Runs /\ NoRun \notin Runs
    /\ {TTL, MaxHour, MaxFaults} \subseteq Nat /\ MaxMain \in Nat \ {0}

Roles   == {"maint", "review"}
Role(r) == IF r \in Reviews THEN "review" ELSE "maint"
Never   == MaxHour + 1

VARIABLES
    hour,
    lease,      \* the writer's, per role: the run and when it last called
    pointer,    \* current-<bundle>.json, per role: the run and when it was written
    record,     \* per run: when its record was last written; Never: not begun
    run,        \* what each run's session is doing
    shared, exclusive, \* who holds update.lock
    updater,    \* what each update is doing, and the version it installs
    orphans,    \* the installs whose update died
    main, cli, skills, \* versions: published, installed, of the installed skills
    told,       \* the last update said that both are current
    quiet,      \* history: runs that renewed their lease and wrote nothing since
    lost,       \* history: runs whose pointer another session took
    faults

vars == <<hour, lease, pointer, record, run, shared, exclusive, updater, orphans, main, cli, skills,
          told, quiet, lost, faults>>
updateVars == <<exclusive, updater, orphans, main, cli, skills, told>>

Free     == [run |-> NoRun, at |-> 0]
Stopped  == [step |-> "idle", version |-> 0]

Init ==
    /\ hour = 0
    /\ lease = [x \in Roles |-> Free] /\ pointer = [x \in Roles |-> Free]
    /\ record = [r \in Runs |-> Never]
    /\ run = [r \in Runs |-> "off"]
    /\ shared = {} /\ exclusive = {}
    /\ updater = [u \in Updaters |-> Stopped] /\ orphans = {}
    /\ main = 1 /\ cli = 1 /\ skills = 1 /\ told = FALSE
    /\ quiet = {} /\ lost = {} /\ faults = 0

Fault == faults < MaxFaults /\ faults' = faults + 1

Tick ==
    /\ hour < MaxHour /\ hour' = hour + 1
    /\ UNCHANGED <<lease, pointer, record, run, shared, quiet, lost, faults, updateVars>>

Publish ==
    /\ main < MaxMain /\ main' = main + 1
    /\ UNCHANGED <<hour, lease, pointer, record, run, shared, exclusive, updater, orphans, cli, skills,
                   told, quiet, lost, faults>>

-----------------------------------------------------------------------------
(* The writer's lease (maint_state._active). *)
Active(x)    == lease[x].run # NoRun /\ hour < lease[x].at + TTL
Grants(r)    == ~Active(Role(r)) \/ lease[Role(r)].run = r
Renewed(r)   == [lease EXCEPT ![Role(r)] = [run |-> r, at |-> hour]]
Released(r)  == IF lease[Role(r)].run = r THEN [lease EXCEPT ![Role(r)] = Free] ELSE lease

To(r, step)  == run' = [run EXCEPT ![r] = step]
PointsAt(r)     == pointer[Role(r)].run = r

(* Begin. *)
Begin(r) ==
    /\ run[r] \in {"off", "on"} /\ To(r, "wait")
    /\ UNCHANGED <<hour, lease, pointer, record, shared, quiet, lost, faults, updateVars>>

(* Shared with other runs, not with an install; after some time the run gives up. *)
LockShared(r) ==
    /\ run[r] = "wait"
    /\ \/ exclusive = {} /\ shared' = shared \cup {r} /\ To(r, "lease")
       \/ exclusive # {} /\ To(r, "off") /\ UNCHANGED shared
    /\ UNCHANGED <<hour, lease, pointer, record, quiet, lost, faults, updateVars>>

(* The lease; its answer may get lost. *)
TakeLease(r) ==
    /\ run[r] = "lease"
    /\ \/ /\ Grants(r)
          /\ lease' = Renewed(r)
          /\ \/ To(r, IF r \in Reviews THEN "pull" ELSE "pointer") /\ UNCHANGED <<shared, faults>>
             \/ Fault /\ To(r, "off") /\ shared' = shared \ {r}
       \/ ~Grants(r) /\ To(r, "off") /\ shared' = shared \ {r} /\ UNCHANGED <<lease, faults>>
    /\ UNCHANGED <<hour, pointer, record, quiet, lost, updateVars>>

AfterPointer(r) == IF r \in Reviews THEN "on" ELSE "pull"

SetPointerEarly(r) == /\ shared' = shared \ {r} /\ To(r, "record")

(* The record, then the pointer that names it; the lock is held until both are there. *)
SetRecord(r) == /\ UNCHANGED shared /\ To(r, "record")

SaveRecord(r) ==
    /\ run[r] = "pointer"
    /\ record' = [record EXCEPT ![r] = hour]
    /\ SetRecord(r)
    /\ UNCHANGED <<hour, lease, pointer, quiet, lost, faults, updateVars>>

(* A session that ends, or one whose lease lapsed, may write or unlink under another's pointer. *)
SetPointer(r) ==
    /\ run[r] = "record"
    /\ pointer' = [pointer EXCEPT ![Role(r)] = [run |-> r, at |-> hour]]
    /\ lost' = IF lease[Role(r)].run # r THEN lost \cup ({lease[Role(r)].run} \ {NoRun})
               ELSE IF \E e \in Runs : Role(e) = Role(r) /\ run[e] = "unlink" THEN lost \cup {r}
               ELSE lost \ {r}
    /\ shared' = shared \ {r}
    /\ quiet' = quiet \ {r}
    /\ To(r, AfterPointer(r))
    /\ UNCHANGED <<hour, lease, record, faults, updateVars>>

(* The workspace.  A maintainer that cannot pull it gives the lease back, and unlinks whatever
   pointer there is; an auditor has none yet. *)
Pulled(r) ==
    /\ run[r] = "pull"
    /\ To(r, IF r \in Reviews THEN "pointer" ELSE "on")
    /\ UNCHANGED <<hour, lease, pointer, record, shared, quiet, lost, faults, updateVars>>

PullFails(r) ==
    /\ run[r] = "pull" /\ Fault
    /\ lease' \in {lease, Released(r)}
    /\ IF r \in Reviews THEN shared' = shared \ {r} /\ UNCHANGED <<pointer, lost>>
       ELSE /\ pointer' = [pointer EXCEPT !["maint"] = Free]
            /\ lost' = lost \cup ({pointer["maint"].run} \ {r, NoRun})
            /\ UNCHANGED shared
    /\ To(r, "off")
    /\ UNCHANGED <<hour, record, quiet, updateVars>>

Installing == orphans # {} \/ \E u \in Updaters : updater[u].step \in {"child", "skills"}

(* A verb acts for the run the pointer names, and the writer asks for its lease: some save a
   record, others (resolve, add-evidence) do not. *)
Verb(r) ==
    /\ run[r] = "on"
    /\ LET p == pointer[Role(r)].run
       IN /\ p # NoRun /\ record[p] # Never /\ lease[Role(r)].run = p /\ Active(Role(r))
          /\ lease' = Renewed(p)
          /\ \/ /\ record' = [record EXCEPT ![p] = hour]
                /\ quiet' = IF Installing THEN quiet ELSE quiet \ {p}
             \/ lease[Role(r)].at # hour /\ quiet' = quiet \cup {p} /\ UNCHANGED record
    /\ UNCHANGED <<hour, pointer, run, shared, lost, faults, updateVars>>

(* End: the lease, then the pointer, if it names this run. *)
End(r) ==
    /\ run[r] = "on"
    /\ \/ lease' = Released(r) /\ UNCHANGED faults
       \/ Fault /\ UNCHANGED lease
    /\ To(r, "ending")
    /\ UNCHANGED <<hour, pointer, record, shared, quiet, lost, updateVars>>

ReadPointer(r) ==
    /\ run[r] = "ending"
    /\ To(r, IF PointsAt(r) THEN "unlink" ELSE "off")
    /\ UNCHANGED <<hour, lease, pointer, record, shared, quiet, lost, faults, updateVars>>

Unlink(r) ==
    /\ run[r] = "unlink"
    /\ pointer' = [pointer EXCEPT ![Role(r)] = Free]
    /\ To(r, "off")
    /\ UNCHANGED <<hour, lease, record, shared, quiet, lost, faults, updateVars>>

Dies(r) ==
    /\ run[r] # "off" /\ Fault
    /\ To(r, "off") /\ shared' = shared \ {r}
    /\ UNCHANGED <<hour, lease, pointer, record, quiet, lost, updateVars>>

-----------------------------------------------------------------------------
(* The update. *)
UpdaterTo(u, step) == updater' = [updater EXCEPT ![u].step = step]

LockExclusive(u) ==
    /\ updater[u].step = "idle" /\ exclusive = {} /\ shared = {}
    /\ exclusive' = {u} /\ UpdaterTo(u, "look")
    /\ UNCHANGED <<hour, lease, pointer, record, run, shared, orphans, main, cli, skills, told, quiet,
                   lost, faults>>

(* A run that the pointer names, with anything written in the last hours. *)
Live(x) ==
    /\ pointer[x].run # NoRun
    /\ \/ hour < pointer[x].at + TTL
       \/ record[pointer[x].run] # Never /\ hour < record[pointer[x].run] + TTL

(* It refuses under a live run, and under a legacy `maintain`, which may be there at any time. *)
Look(u) ==
    /\ updater[u].step = "look"
    /\ \/ exclusive' = {} /\ updater' = [updater EXCEPT ![u] = Stopped] /\ UNCHANGED told
       \/ /\ ~\E x \in Roles : Live(x)
          /\ updater' = [updater EXCEPT ![u] = [step |-> IF main # cli THEN "child" ELSE "skills",
                                                version |-> main]]
          /\ told' = (told /\ main = cli) /\ UNCHANGED exclusive
    /\ UNCHANGED <<hour, lease, pointer, record, run, shared, orphans, main, cli, skills, quiet, lost, faults>>

(* `uv tool install`, in a process of its own; it may fail. *)
Install(u) ==
    /\ updater[u].step = "child"
    /\ \/ cli' = updater[u].version /\ UpdaterTo(u, "skills") /\ UNCHANGED <<exclusive, faults>>
       \/ Fault /\ exclusive' = {} /\ updater' = [updater EXCEPT ![u] = Stopped] /\ UNCHANGED cli
    /\ UNCHANGED <<hour, lease, pointer, record, run, shared, orphans, main, skills, told, quiet, lost>>

(* The program now installed brings its own skills. *)
NewSkills(u) == cli

InstallSkills(u) ==
    /\ updater[u].step = "skills"
    /\ \/ skills' = NewSkills(u) /\ told' = (orphans = {}) /\ UNCHANGED faults
       \/ Fault /\ told' = FALSE /\ UNCHANGED skills
    /\ exclusive' = {} /\ updater' = [updater EXCEPT ![u] = Stopped]
    /\ UNCHANGED <<hour, lease, pointer, record, run, shared, orphans, main, cli, quiet, lost>>

UpdaterDies(u) ==
    /\ updater[u].step # "idle" /\ Fault
    /\ orphans' = IF updater[u].step = "child" THEN orphans \cup {updater[u].version} ELSE orphans
    /\ exclusive' = {} /\ updater' = [updater EXCEPT ![u] = Stopped]
    /\ UNCHANGED <<hour, lease, pointer, record, run, shared, main, cli, skills, told, quiet, lost>>

OrphanEnds ==
    /\ \E v \in orphans : orphans' = orphans \ {v} /\ cli' = v
    /\ UNCHANGED <<hour, lease, pointer, record, run, shared, exclusive, updater, main, skills, told,
                   quiet, lost, faults>>

Next ==
    \/ Tick \/ Publish \/ OrphanEnds
    \/ \E r \in Runs :
         \/ Begin(r) \/ LockShared(r) \/ TakeLease(r) \/ SaveRecord(r) \/ SetPointer(r) \/ Pulled(r)
         \/ PullFails(r) \/ Verb(r) \/ End(r) \/ ReadPointer(r) \/ Unlink(r) \/ Dies(r)
    \/ \E u \in Updaters :
         \/ LockExclusive(u) \/ Look(u) \/ Install(u) \/ InstallSkills(u) \/ UpdaterDies(u)

Spec == Init /\ [][Next]_vars

-----------------------------------------------------------------------------
Hours == 0..MaxHour

(* The type of every variable. *)
TypeOK ==
    /\ hour \in Hours
    /\ {lease, pointer} \subseteq [Roles -> [run: Runs \cup {NoRun}, at: Hours]]
    /\ record \in [Runs -> Hours \cup {Never}]
    /\ run \in [Runs -> {"off", "wait", "lease", "pull", "pointer", "record", "on", "ending", "unlink"}]
    /\ shared \subseteq Runs /\ exclusive \subseteq Updaters /\ Cardinality(exclusive) <= 1
    /\ updater \in [Updaters -> [step: {"idle", "look", "child", "skills"}, version: 0..MaxMain]]
    /\ orphans \subseteq 1..MaxMain
    /\ {main, cli, skills} \subseteq 1..MaxMain /\ told \in BOOLEAN
    /\ {quiet, lost} \subseteq SUBSET Runs
    /\ faults \in 0..MaxFaults

(* An update never replaces the program under a run: while it installs, no session of this host
   holds a live lease or is about to take one; but for a run that for hours did nothing that
   saves a record, and one whose pointer is gone. *)
NoInstallUnderRun ==
    (\E u \in Updaters : updater[u].step \in {"child", "skills"}) =>
       \A r \in Runs :
          /\ run[r] \notin {"lease", "pointer", "record"}
          /\ run[r] = "on" /\ lease[Role(r)].run = r /\ Active(Role(r)) => r \in quiet \cup lost

(* A run that begun and holds the lease is the one its verbs find, so no other session's end or
   begin takes it from them, but for the races `lost` names. *)
PointerStands ==
    \A r \in Runs :
       run[r] = "on" /\ lease[Role(r)].run = r /\ Active(Role(r)) => PointsAt(r) \/ r \in lost

(* After an update that said so, the skills are the installed program's; but for the install of
   an update that died. *)
SkillsFollow == told => skills = cli

(* Runs and updates of a host keep out of each other's way. *)
UpdatesSpareRuns == TypeOK /\ NoInstallUnderRun /\ PointerStands /\ SkillsFollow
=============================================================================
