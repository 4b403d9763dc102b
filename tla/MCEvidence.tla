----------------------------- MODULE MCEvidence -----------------------------
(* The work items of the writer and the runs that process them, on small         *)
(* instances: the items' evidence, the attention items, the reviews of skips,    *)
(* the runs of a host while its program is updated, an auditor's run, and the    *)
(* stamps all of them leave on a concept.  They share no state: a behaviour is   *)
(* of one of them, and what is not the evidence's is kept in w1, w2, ... by the  *)
(* one it is of.                                                                 *)
EXTENDS Evidence, TLC

CONSTANTS
    Skipped, Runs, Auditors, Nobody, MaxClock, MaxReopens, MaxRestarts,
    Contents, Declared, DefaultDays, Cap, LastDay, MaxMoves, MaxFaults,
    Sessions, Updaters, NoRun, TTL, MaxHour, MaxMain,
    Batch, MaxTaken, LastText, MaxWrites,
    Stamped, Texts, Proofs, Curator, Auditor, Writer, Person, Skew, Delay, MaxTime, MaxPasses, MaxPushes

VARIABLES
    part,   \* the one this behaviour is of
    w1, w2, w3, w4, w5, w6, w7, w8, w9, w10, w11, w12, w13, w14, w15, w16, w17, w18, w19

T == INSTANCE Triage WITH
       Items <- Skipped, MaxCrashes <- MaxRestarts,
       items <- w1, receipts <- w2, request <- w3, lease <- w4, verdicts <- w5, clock <- w6, crashes <- w7
A == INSTANCE Attention WITH
       Concepts <- Skipped,
       day <- w1, doc <- w2, reviews <- w3, items <- w4, start <- w5, moves <- w6, faults <- w7
M == INSTANCE HostRuns WITH
       Runs <- Sessions, Reviews <- {},
       hour <- w1, lease <- w2, pointer <- w3, record <- w4, run <- w5, shared <- w6, exclusive <- w7,
       updater <- w8, orphans <- w9, main <- w10, cli <- w11, skills <- w12, told <- w13, quiet <- w14,
       lost <- w15, faults <- w16
V == INSTANCE HostRuns WITH
       Runs <- Sessions, Reviews <- Sessions, MaxMain <- 1,
       hour <- w1, lease <- w2, pointer <- w3, record <- w4, run <- w5, shared <- w6, exclusive <- w7,
       updater <- w8, orphans <- w9, main <- w10, cli <- w11, skills <- w12, told <- w13, quiet <- w14,
       lost <- w15, faults <- w16
R == INSTANCE Reviewer WITH
       Concepts <- Skipped, MaxChanges <- MaxWrites,
       text <- w1, due <- w2, queue <- w3, landed <- w4, refused <- w5, changes <- w6, file <- w7,
       edited <- w8, taken <- w9, entries <- w10, pending <- w11, submitted <- w12, dropped <- w13,
       verb <- w14, read <- w15, recorded <- w16, unanswered <- w17, returned <- w18, faults <- w19
U == INSTANCE Trust WITH
       Concepts <- Stamped, Evidence <- Proofs,
       doc <- w1, sources <- w2, now <- w3, basis <- w4, judged <- w5, byHand <- w6, passes <- w7, pushes <- w8

ASSUME TriageOK    == T!ConstantsOK
ASSUME AttentionOK == A!ConstantsOK
ASSUME RunsOK      == M!ConstantsOK /\ V!ConstantsOK
ASSUME ReviewerOK  == R!ConstantsOK
ASSUME TrustOK     == U!ConstantsOK

(* The names, the skips and the sessions are the same model values. *)
Symmetry == Permutations(Names) \cup Permutations(Proofs)

work    == <<w1, w2, w3, w4, w5, w6, w7, w8, w9, w10, w11, w12, w13, w14, w15, w16, w17, w18, w19>>
allVars == <<part, vars, work>>

(* The variables a module has no use for. *)
After7   == <<w8, w9, w10, w11, w12, w13, w14, w15, w16, w17, w18, w19>>
After8   == <<w9, w10, w11, w12, w13, w14, w15, w16, w17, w18, w19>>
After16  == <<w17, w18, w19>>
Unused16 == w17 = 0 /\ w18 = 0 /\ w19 = 0
Unused8  == w9 = 0 /\ w10 = 0 /\ w11 = 0 /\ w12 = 0 /\ w13 = 0 /\ w14 = 0 /\ w15 = 0 /\ w16 = 0 /\ Unused16
Unused7  == w8 = 0 /\ Unused8
Unused   == w1 = 0 /\ w2 = 0 /\ w3 = 0 /\ w4 = 0 /\ w5 = 0 /\ w6 = 0 /\ w7 = 0 /\ Unused7

AllInit ==
    /\ Init
    /\ \/ part = "evidence" /\ Unused
       \/ part = "triage" /\ T!Init /\ Unused7
       \/ part = "attention" /\ A!Init /\ Unused7
       \/ part = "maintainers" /\ M!Init /\ Unused16
       \/ part = "auditors" /\ V!Init /\ Unused16
       \/ part = "reviewer" /\ R!Init
       \/ part = "trust" /\ U!Init /\ Unused8

EvidenceStep  == part = "evidence" /\ Next /\ UNCHANGED work
TriageStep    == part = "triage" /\ T!Next /\ UNCHANGED <<vars, After7>>
AttentionStep == part = "attention" /\ A!Next /\ UNCHANGED <<vars, After7>>
HostStep ==
    /\ (part = "maintainers" /\ M!Next) \/ (part = "auditors" /\ V!Next)
    /\ UNCHANGED <<vars, After16>>
ReviewerStep  == part = "reviewer" /\ R!Next /\ UNCHANGED vars
TrustStep     == part = "trust" /\ U!Next /\ UNCHANGED <<vars, After8>>

AllNext == (EvidenceStep \/ TriageStep \/ AttentionStep \/ HostStep \/ ReviewerStep \/ TrustStep) /\ UNCHANGED part
AllSpec == AllInit /\ [][AllNext]_allVars

(* The evidence alone. *)
SplitSpec == AllInit /\ part = "evidence" /\ [][EvidenceStep /\ UNCHANGED part]_allVars

(* Triage's ReviewsSettle: receipts and items agree, a settled receipt is final. *)
ReviewsSettle == [](part = "triage" => T!ReviewsAgree) /\ [][part = "triage" => T!ReceiptsStay]_allVars

(* Attention's NoticesRaised: what is due is raised, and raised once. *)
NoticesRaised ==
    [](part = "attention" => A!TypeOK /\ A!RaisedOnce) /\ [][part = "attention" => A!RaisesWhatIsDue]_allVars

(* HostRuns' UpdatesSpareRuns: runs and updates keep out of each other's way. *)
UpdatesSpareRuns ==
    (part = "maintainers" => M!UpdatesSpareRuns) /\ (part = "auditors" => V!UpdatesSpareRuns)

(* Reviewer's VerdictsAccounted: each verdict lands on what was read, and is accounted for. *)
VerdictsAccounted == part = "reviewer" => R!VerdictsAccounted

(* Trust's TrustKept: verifications and evidence are what they were written as. *)
TrustKept == part = "trust" => U!TrustKept
=============================================================================
