---------------------------- MODULE MCMaintState ----------------------------
(* Small instances of MaintState for TLC. *)
EXTENDS MaintState, TLC

(* One disturbance a behaviour: a deploy, or the reopen of an item. *)
Calm == deploys = 0 \/ \A i \in Items : items[i].reopens = 0

CalmSpec == Init /\ [][Next /\ Calm']_vars /\ Fairness
=============================================================================
