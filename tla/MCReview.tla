------------------------------ MODULE MCReview ------------------------------
(* Small instances of Review. *)
EXTENDS Review, TLC

Symmetry == Permutations(Runs)

(* Two concepts compete for the seeds of a day; one of them is only reviewed.   *)
OneIsQuiet ==
    /\ strays' # strays => head'[2] = head[2] /\ frozen'[2] = frozen[2]
    /\ Len(jobs') > Len(jobs) =>
           \/ jobs'[Len(jobs')].kind = "audit"
           \/ jobs'[Len(jobs')].concept = 1
=============================================================================
