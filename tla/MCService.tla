----------------------------- MODULE MCService ------------------------------
(* Small instances of what runs on the writer's host and touches no transaction  *)
(* of it: the reads, the intake, the watchdog and the vector store.  They share  *)
(* no state, so a behaviour is of one of them; what the watchdog looks at moves one part at a    *)
(* time.                                                                         *)
EXTENDS ReadCache, TLC

CONSTANTS
    Contents, NoContent, MaxJobs, MaxDeaths, MaxRetries,
    Titles, MaxItems, Buckets, FailedWindow, Unresolved, Stuck, ReadyMax, MemberMax, CursorMax, PendingMax,
    TTL, MaxHour, MaxMoves, MaxFaults,
    Searches, Warmers, Builders, Content, Patience, MaxIndexes, MaxStoreFaults

VARIABLES
    part,  \* the one this behaviour is of
    nature, mode, stored, tickets, jobs, lastId, handler, answering, queue, finished, at, held, curators,
    proposed, accepted, cut, lapsed, retries, deaths,
    hour, records, undone, items, cursor, lease, source, shift, previous, told, forgot, known, moves, faults,
    newest, indexes, current, vectorCache, disk, torn, temporary, building, gaveUp, asked, builder,
    matrixLock, raced, storeFaults

I == INSTANCE Intake
W == INSTANCE Watchdog
V == INSTANCE Vectors WITH cache <- vectorCache, request <- asked, faults <- storeFaults,
                           Requests <- Searches, MaxFaults <- MaxStoreFaults

ASSUME IntakeOK   == I!ConstantsOK
ASSUME WatchdogOK == W!ConstantsOK
ASSUME VectorsOK  == V!ConstantsOK

(* Two snapshots with a chunk in common. *)
Pulled == <<{"t1", "t2"}, {"t2", "t3"}>>

Symmetry == Permutations(Files) \cup Permutations(Requests) \cup Permutations(Builders)

intakeVars == <<nature, mode, stored, tickets, jobs, lastId, handler, answering, queue, finished, at, held,
                curators, proposed, accepted, cut, lapsed, retries, deaths>>
watchVars  == <<hour, records, undone, items, cursor, lease, source, shift, previous, told, forgot, known,
                moves, faults>>
recallVars == <<newest, indexes, current, vectorCache, disk, torn, temporary, building, gaveUp, asked,
                builder, matrixLock, raced, storeFaults>>
allVars    == <<part, vars, intakeVars, watchVars, recallVars>>

(* The others are in one state. *)
Rests ==
    /\ part # "reads" => tick = CHOOSE t \in Ticks : TRUE
    /\ part # "intake" => mode = "inbox" /\ nature = [c \in Contents |-> "plain"]

AllInit ==
    /\ part \in {"reads", "intake", "jobs", "queue", "others", "recall"}
    /\ Init /\ I!Init /\ W!Init /\ V!Init /\ Rests

ReadsStep  == part = "reads" /\ Next /\ UNCHANGED <<part, intakeVars, watchVars, recallVars>>
IntakeStep == part = "intake" /\ I!Next /\ UNCHANGED <<part, vars, watchVars, recallVars>>
RecallStep == part = "recall" /\ V!Next /\ UNCHANGED <<part, vars, intakeVars, watchVars>>

WatchdogStep ==
    /\ \/ part = "jobs" /\ (W!JobsMove \/ W!LeaseMoves)
       \/ part = "queue" /\ W!QueueMoves
       \/ part = "others" /\ (W!OthersMove \/ W!LeaseMoves)
       \/ part \in {"jobs", "queue", "others"} /\ W!Watches
    /\ UNCHANGED <<part, vars, intakeVars, recallVars>>

AllNext == ReadsStep \/ IntakeStep \/ WatchdogStep \/ RecallStep
AllSpec == AllInit /\ [][AllNext]_allVars

Watched == {"jobs", "queue", "others"}

(* Intake's IntakeSafe: a submission is kept, handed on, curated once and told of truly. *)
IntakeSafe == part = "intake" => I!IntakeSafe

(* Watchdog's CardsTell: the cards tell what is wrong, all of it, and only news. *)
CardsTell ==
    [](part \in Watched => W!TypeOK /\ W!NothingReadsAsFixed /\ W!EverythingTold) /\ W!OnlyNews

(* Vectors' RecallWhole: answers by meaning are of a whole index, built once and kept. *)
RecallWhole == part = "recall" => V!RecallWhole
=============================================================================
