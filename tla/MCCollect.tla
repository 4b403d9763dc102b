----------------------------- MODULE MCCollect ------------------------------
(* Small instances of what runs on the maintainer's host: the runner of a source *)
(* manifest and the two collectors.  They share no state: a behaviour is of one  *)
(* of the three.                                                                 *)
EXTENDS Maintain, TLC

CONSTANTS
    MaxIssues, Known, Excluded, PageSize, Settle, Lag, LastChange, MaxChanges, MaxFaults,
    Repos, Own, Branches, NoBranch, Pinned, Collectors, MaxCommits, MaxEvents,
    own, main,
    MaxTrouble   \* bound: of the runner's mishaps and the writer's deploys together

VARIABLES
    collector,  \* the one this behaviour is of
    now, alive, changes, issues, enqueued, deltas, faults,
    heads, default, listed, made, events, cursor, frozen, scans

Delta == INSTANCE IssueDelta WITH cursor <- issues, run <- deltas
Scan  == INSTANCE RepoScan WITH run <- scans

ASSUME MaintainOK == ConstantsOK
ASSUME IssuesOK   == Delta!ConstantsOK
ASSUME ReposOK    == Scan!ConstantsOK

PinOwn   == [r \in Repos |-> IF r = own THEN main ELSE NoBranch]
Symmetry == Permutations(Collectors)

issueVars == <<now, alive, changes, issues, enqueued, deltas, faults>>
repoVars  == <<heads, default, listed, made, events, cursor, frozen, scans>>
allVars   == <<collector, vars, issueVars, repoVars>>

(* The names of the branches being interchangeable, `main` is the first default. *)
AllInit ==
    /\ collector \in {"issues", "repos", "maintain"}
    /\ Init /\ Delta!Init /\ Scan!Init /\ default = [r \in Repos |-> main]

RunnerStep ==
    /\ collector = "maintain" /\ Next /\ UNCHANGED <<collector, issueVars, repoVars>>
    /\ lost' + imports' + (build' - 1) <= MaxTrouble
IssuesStep == collector = "issues" /\ Delta!Next /\ UNCHANGED <<collector, vars, repoVars>>
ReposStep  == collector = "repos" /\ Scan!Next /\ UNCHANGED <<collector, vars, issueVars>>

AllNext == IssuesStep \/ ReposStep \/ RunnerStep
AllSpec == AllInit /\ [][AllNext]_allVars

(* IssueDelta's IssuesComplete and RepoScan's ReposComplete: no cursor passes what is not on the
   writer. *)
CursorsComplete ==
    /\ [](collector = "issues" => Delta!NothingMissed) /\ Delta!CursorForward
    /\ [](collector = "repos" => Scan!NothingMissed) /\ Scan!RowsKept

(* Maintain's VersionsOnce: each version is ingested and judged once, in order. *)
RunnerSound == collector = "maintain" => VersionsOnce
=============================================================================
