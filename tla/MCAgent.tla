------------------------------ MODULE MCAgent ------------------------------
(* The ways of an agent's edit to the branch, on small instances: a behaviour   *)
(* is one audit, one curation, one job and the restarts of its service, a       *)
(* maintainer's workspace, or the gate and its changesets while others push.    *)
(* The five share no state.                                                     *)
EXTENDS AgentAudit, TLC

CONSTANTS
    Concepts, Other, Snapshot, Inbox,
    Kinds, MaxCrashes, MaxPushes,
    Items, MaxRev, MaxCuts, MaxSent,
    MaxLoad,     \* bound: what a workspace's behaviour meets at once
    Titles, Closes, Earlier, None, MaxTexts, MaxRequests, MaxMoves

VARIABLES
    pass,   \* the one this behaviour is of
    live, space, gitdir, recovery, curation, proc, first, stage, published, abused,
    kind, record, head, pushed, source, at, crashes, pushes,
    branch, rev, queue, lease, local, mine, base, hashes, discard, pull, request,
    sent, queued, ever, cuts, whole, batched,
    upstream, pulled, changeset, txn, closed, judged, texts, requests, moves

C == INSTANCE AgentCurate WITH meta <- gitdir, job <- curation, step <- stage,
                               remote <- published, misused <- abused
R == INSTANCE Recovery WITH job <- record, remote <- pushed, step <- at
W == INSTANCE Workspace WITH Paths <- Concepts, published <- branch
G == INSTANCE Changeset WITH Paths <- Concepts, Items <- Closes, remote <- upstream, request <- changeset

ASSUME AuditOK == ConstantsOK
ASSUME CurateOK == C!ConstantsOK
ASSUME RecoveryOK == R!ConstantsOK
ASSUME WorkspaceOK == W!ConstantsOK
ASSUME ChangesetOK == G!ConstantsOK

Symmetry == Permutations(Declared) \cup Permutations(Items)

curateVars    == <<live, space, gitdir, recovery, curation, proc, first, stage, published, abused>>
recoveryVars  == <<kind, record, head, pushed, source, at, crashes, pushes>>
workspaceVars == <<branch, rev, queue, lease, local, mine, base, hashes, discard, pull, request, sent,
                   queued, ever, cuts, whole, batched>>
gateVars      == <<upstream, pulled, changeset, txn, closed, judged, texts, requests, moves>>
serviceVars   == <<vars, curateVars, recoveryVars>>
clientVars    == <<workspaceVars, gateVars>>
allVars       == <<pass, serviceVars, clientVars>>

(* The gate where nothing is proposed. *)
GateAtRest ==
    /\ upstream = [p \in Concepts |-> G!Absent] /\ pulled = upstream
    /\ changeset = G!NoRequest
    /\ txn = [phase |-> "idle", base |-> upstream, tree |-> upstream, onto |-> upstream]
    /\ closed = [i \in Closes |-> {}] /\ judged = {}
    /\ texts = 0 /\ requests = 0 /\ moves = 0

(* Those a behaviour is not of stay in one initial state.  A workspace starts with one concept of
   the branch, and one path nobody has written. *)
AllInit ==
    /\ pass \in {"audit", "curate", "restart", "workspace", "gate"}
    /\ Init /\ C!Init /\ R!Init /\ W!Init
    /\ IF pass = "gate" THEN G!Init ELSE GateAtRest
    /\ pass # "audit" => withGit /\ retired = {}
    /\ pass # "restart" => kind = "ingest"
    /\ Cardinality({p \in Concepts : branch[p] = W!NoFile}) = IF pass = "workspace" THEN 1 ELSE 2

(* Commits, cut pulls, items taken up, and a changeset nobody waits for any more. *)
Load ==
    rev - 1 + cuts + (IF sent \cup queued \subseteq {request.changeset} THEN 0 ELSE 1)
      + Cardinality({i \in Items :
            queue[i] # "ready" \/ \E p \in Concepts : i \in local[p].of \cup mine[p].of \cup branch[p].of})

AuditStep     == pass = "audit" /\ Next /\ UNCHANGED <<pass, curateVars, recoveryVars, clientVars>>
CurateStep    == pass = "curate" /\ C!Next /\ UNCHANGED <<pass, vars, recoveryVars, clientVars>>
RestartStep   == pass = "restart" /\ R!Next /\ UNCHANGED <<pass, vars, curateVars, clientVars>>
WorkspaceStep ==
    /\ pass = "workspace" /\ W!Next /\ Load' <= MaxLoad
    /\ UNCHANGED <<pass, serviceVars, gateVars>>
GateStep      == pass = "gate" /\ G!Next /\ UNCHANGED <<pass, serviceVars, workspaceVars>>

AllNext == AuditStep \/ CurateStep \/ RestartStep \/ WorkspaceStep \/ GateStep
AllSpec == AllInit /\ [][AllNext]_allVars

(* AgentCurate's CurationContained: a curation agent is contained, the upload outlives it. *)
CurationContained == C!CurationContained

(* Recovery's RecoverySound: what a restart says of the job it found is so. *)
RecoverySound == R!RecoverySound

(* Workspace's WorkspaceFaithful: edits are neither lost nor sent with the wrong item. *)
WorkspaceFaithful == W!WorkspaceFaithful

(* Changeset's GateHolds: what is admitted fits the branch as it is when it is pushed. *)
GateHolds == G!GateHolds
=============================================================================
