----------------------------- MODULE JobOutcome -----------------------------
(***************************************************************************)
(* What the writer promises of a job, whatever its Git commands, the other *)
(* writers and the crashes do: the job's edits reach the published branch  *)
(* in one step and at most once, and its receipt, given once, says which;  *)
(* of a job whose publication nobody confirmed it may say failed.          *)
(* WriterTxn is shown to implement it.                                     *)
(***************************************************************************)
EXTENDS Naturals

CONSTANT Jobs

VARIABLES
    published,  \* how often the branch holds the job's edits
    receipt,    \* the job's final answer
    doubted     \* the jobs whose publication was not confirmed to the writer

outcome == <<published, receipt, doubted>>

Receipts == {"none", "published", "noop", "failed"}

Init ==
    /\ published = [j \in Jobs |-> 0]
    /\ receipt = [j \in Jobs |-> "none"]
    /\ doubted = {}

Publish(j) ==
    /\ published[j] = 0 /\ receipt[j] = "none"
    /\ published' = [published EXCEPT ![j] = 1]
    /\ doubted' \in {doubted, doubted \cup {j}}
    /\ UNCHANGED receipt

Answer(j, answer) ==
    /\ receipt[j] = "none"
    /\ published[j] = (IF answer = "published" THEN 1 ELSE 0) \/ (answer = "failed" /\ j \in doubted)
    /\ receipt' = [receipt EXCEPT ![j] = answer]
    /\ UNCHANGED <<published, doubted>>

(* What follows an answer, a closeout say, may leave its own doubt. *)
Doubt(j) ==
    /\ doubted' = doubted \cup {j}
    /\ UNCHANGED <<published, receipt>>

Next == \E j \in Jobs : \/ Publish(j)
                        \/ \E answer \in Receipts \ {"none"} : Answer(j, answer)
                        \/ Doubt(j)

Spec == Init /\ [][Next]_outcome
=============================================================================
