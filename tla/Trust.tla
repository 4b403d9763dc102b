-------------------------------- MODULE Trust --------------------------------
(***************************************************************************)
(* What a concept's trust rests on, pass after pass: the untrusted edits   *)
(* of curators, auditors and maintainers, the service's bookkeeping        *)
(* (engine/bookkeeping.py), the policies that judge the result             *)
(* (runtime/policy.py, runtime/audit.py) and who reads as verifying what   *)
(* (engine/document.py).                                                   *)
(*                                                                         *)
(* A pass is one step: what runs beside it is in AgentCurate, AgentAudit   *)
(* and Changeset, an auditor's changeset in Review.  A concept's content   *)
(* is its text and the evidence it cites.  An edit that bookkeeping cannot *)
(* patch keeps what the agent wrote.  Left out: deprecations, and          *)
(* documents that do not parse, which the bundle's validation refuses.     *)
(***************************************************************************)
EXTENDS Naturals, FiniteSets

CONSTANTS
    Concepts, Texts, Evidence,
    Curator, Auditor, Writer, Person,   \* the actors
    Skew,      \* CURATION_CLOCK_SKEW
    Delay,     \* SELF_REVIEW_DELAY
    MaxTime,   \* bound: the clock, and the stamps
    MaxPasses, \* bound
    MaxPushes  \* bound

ConstantsOK == {Skew, Delay, MaxPasses, MaxPushes} \subseteq Nat /\ MaxTime \in Nat \ {0}

Actors == {Curator, Auditor, Writer, Person}
Times  == 1..MaxTime
Events == [by: Actors, at: Times]
Absent == [text |-> "none", cites |-> {}, status |-> "none", by |-> Person, at |-> 0, events |-> {}]
Docs   == [text: Texts, cites: SUBSET Evidence, status: {"draft", "stable"}, by: Actors, at: Times,
           events: SUBSET Events]

VARIABLES
    doc,     \* the published concepts
    sources, \* the evidence under sources/, with the bytes it was ingested with
    now,
    basis,   \* history: the evidence of the last pass that changed a concept's content
    judged,  \* history: an audit's event, of what, and the content it was of
    byHand,  \* history: the concepts somebody pushed, or whose evidence is gone, since a pass changed them
    passes, pushes

vars == <<doc, sources, now, basis, judged, byHand, passes, pushes>>

Init ==
    /\ doc = [c \in Concepts |-> Absent] /\ sources = {} /\ now = 1
    /\ basis = [c \in Concepts |-> {}] /\ judged = {} /\ byHand = {}
    /\ passes = 0 /\ pushes = 0

Exists(d)  == d # Absent
Content(d) == <<d.text, d.cites>>
LatestOf(times) == IF times = {} THEN 0 ELSE CHOOSE t \in times : \A u \in times : u <= t

-----------------------------------------------------------------------------
(* current_verified: the events no older than the generation; a process's on its own, half a
   day later only. *)
CurrentVerified(d) ==
    {e \in d.events : e.at >= IF e.by = d.by /\ d.by # Person THEN d.at + Delay ELSE d.at}

(* A new generation is later than every generation and event there was. *)
Stamp(d) == LET floor == LatestOf({d.at} \cup {e.at : e \in d.events})
            IN IF now <= floor THEN floor + 1 ELSE now

(* What bookkeeping makes of an edit of d: its history stays, and it is stamped if it is of
   substance; else nothing of it stays. *)
Bookkept(d, edit, actor) ==
    IF Content(edit) = Content(d) /\ edit.status = d.status THEN d
    ELSE [edit EXCEPT !.by = actor, !.at = Stamp(d), !.events = d.events]

-----------------------------------------------------------------------------
(* The policies. *)
SourcePolicy(there, evidence) == sources \subseteq there /\ there \ sources \subseteq {evidence}

(* A source that is named must be there, whoever named it. *)
Resolve(tree, there) == \A c \in Concepts : tree[c].cites \subseteq there

NewPolicy(d, actor, latest) == d.status = "draft" /\ d.events = {} /\ d.by = actor /\ d.at <= latest

GenerationPolicy(d, edit, actor, latest) ==
    <<edit.by, edit.at>> # <<d.by, d.at>> =>
        (Content(edit) # Content(d) \/ edit.status # d.status) /\ edit.by = actor /\ edit.at <= latest

AdvancesUnlooked(d, edit) == edit.at > d.at

Advances(d, edit) == edit.at > d.at /\ CurrentVerified(edit) = {}

SubstancePolicy(d, edit, actor) ==
    Content(edit) # Content(d) \/ edit.status # d.status => edit.by = actor /\ Advances(d, edit)

ConceptPolicy(d, edit, actor, latest) ==
    /\ edit.events = d.events
    /\ GenerationPolicy(d, edit, actor, latest)
    /\ SubstancePolicy(d, edit, actor)

CurationPolicy(tree, there, actor, latest) ==
    /\ Resolve(tree, there)
    /\ \A c \in Concepts :
          /\ Exists(doc[c]) => Exists(tree[c])
          /\ Exists(doc[c]) => ConceptPolicy(doc[c], tree[c], actor, latest)
          /\ ~Exists(doc[c]) /\ Exists(tree[c]) => NewPolicy(tree[c], actor, latest)

Cited(c, tree, evidence) == evidence \in tree[c].cites

(* What a pass wrote cites the evidence of the pass. *)
ProvenancePolicy(tree, evidence) ==
    \A c \in Concepts :
       Content(tree[c]) # Content(doc[c]) \/ tree[c].status # doc[c].status => Cited(c, tree, evidence)

-----------------------------------------------------------------------------
Changed(tree) == {c \in Concepts : Content(tree[c]) # Content(doc[c])}

Land(tree, there, evidence) ==
    /\ doc' = tree /\ sources' = there
    /\ basis' = [c \in Concepts |-> IF c \in Changed(tree) THEN {evidence} ELSE basis[c]]
    /\ byHand' = byHand \ Changed(tree)

Pass == passes < MaxPasses /\ passes' = passes + 1

(* An edit the bookkeeping patches, and one it leaves as the agent wrote it. *)
Patched(d, actor) ==
    {Bookkept(d, edit, actor) : edit \in [text: Texts, cites: SUBSET Evidence, status: {"draft", "stable"},
                                          by: {actor}, at: {0}, events: {{}}]}
Unpatched(d) ==
    [text: Texts, cites: SUBSET Evidence, status: {"draft", "stable"},
     by: {d.by, Curator, Auditor}, at: Times,
     events: {d.events, {}, d.events \cup {[by |-> Auditor, at |-> now]}}]

(* A Codex curation of one piece of evidence: the agent edits, and removes what it likes. *)
Curate(c, evidence) ==
    /\ Pass
    /\ \E left \in SUBSET Evidence, edit \in Patched(doc[c], Curator) \cup Unpatched(doc[c]) \cup {Absent} :
          LET tree  == [doc EXCEPT ![c] = edit]
              there == left \cup {evidence}
          IN /\ edit.at <= MaxTime
             /\ SourcePolicy(there, evidence)
             /\ CurationPolicy(tree, there, Curator, now + Skew)
             /\ ProvenancePolicy(tree, evidence)
             /\ Land(tree, there, evidence)
    /\ UNCHANGED <<now, judged, pushes>>

(* A maintainer's changeset: the gate writes what it takes, drops no source and owns the status. *)
Propose(c, evidence) ==
    /\ Pass
    /\ \E x \in Texts, k \in SUBSET Evidence :
          LET there == sources \cup {evidence}
              edit  == [doc[c] EXCEPT !.text = x, !.cites = @ \cup k,
                                      !.status = IF Exists(doc[c]) THEN @ ELSE "draft"]
              tree  == [doc EXCEPT ![c] = Bookkept(doc[c], edit, Writer)]
          IN /\ Changed(tree) = {c} /\ tree[c].at <= MaxTime
             /\ CurationPolicy(tree, there, Writer, MaxTime)
             /\ ProvenancePolicy(tree, evidence)
             /\ Land(tree, there, evidence)
    /\ UNCHANGED <<now, judged, pushes>>

(* Verification history kept; the sources are as they were and there, the ingest's among them. *)
AuditPolicy(d, edit, evidence) ==
    /\ d.events \subseteq edit.events /\ edit.cites = d.cites
    /\ evidence \in edit.cites /\ edit.cites \subseteq sources

(* The event confirms the generation there is: it does not predate it. *)
EventAt(d) == IF now < d.at THEN d.at ELSE now

(* An auditor never confirms what it wrote itself. *)
Confirmed(d, edit) ==
    IF Content(edit) # Content(d) THEN edit
    ELSE [edit EXCEPT !.events = @ \cup {[by |-> Auditor, at |-> EventAt(edit)]}]

(* A Codex audit: a text and a verdict; status and sources are the service's. *)
Audit(c, evidence) ==
    /\ Pass /\ Exists(doc[c])
    /\ \E x \in Texts, verdict \in {"verified", "unverified"} :
          LET d      == doc[c]
              edit   == IF x = d.text THEN d ELSE [d EXCEPT !.text = x, !.by = Auditor, !.at = Stamp(d)]
              result == [(IF verdict = "verified" THEN Confirmed(d, edit) ELSE edit) EXCEPT !.status = "stable"]
          IN /\ AuditPolicy(d, result, evidence)
             /\ LatestOf({result.at} \cup {e.at : e \in result.events}) <= MaxTime
             /\ doc' = [doc EXCEPT ![c] = result]
             /\ judged' = judged \cup {[of |-> c, event |-> e, content |-> Content(d)] :
                                         e \in result.events \ d.events}
             /\ byHand' = IF x = d.text THEN byHand ELSE byHand \ {c}
    /\ UNCHANGED <<sources, now, basis, pushes>>

-----------------------------------------------------------------------------
(* A person's push is not judged: any stamps, some from a clock ahead; evidence may go. *)
Push(c) ==
    /\ pushes < MaxPushes /\ pushes' = pushes + 1
    /\ \/ /\ \E x \in Texts, t \in Times, b \in {doc[c].by, Person} :
                doc' = [doc EXCEPT ![c] = [doc[c] EXCEPT !.text = x, !.by = b, !.at = t,
                           !.status = IF Exists(doc[c]) THEN doc[c].status ELSE "stable"]]
          /\ byHand' = byHand \cup {c} /\ UNCHANGED sources
       \/ /\ \E e \in sources :
                /\ sources' = sources \ {e}
                /\ byHand' = byHand \cup {d \in Concepts : e \in doc[d].cites}
          /\ UNCHANGED doc
    /\ UNCHANGED <<now, basis, judged, passes>>

Tick ==
    /\ now < MaxTime /\ now' = now + 1
    /\ UNCHANGED <<doc, sources, basis, judged, byHand, passes, pushes>>

Next ==
    \/ Tick
    \/ \E c \in Concepts :
         \/ Push(c)
         \/ \E e \in Evidence : Curate(c, e) \/ Propose(c, e) \/ Audit(c, e)

Spec == Init /\ [][Next]_vars

-----------------------------------------------------------------------------
(* The type of every variable. *)
TypeOK ==
    /\ doc \in [Concepts -> Docs \cup {Absent}] /\ sources \subseteq Evidence /\ now \in Times
    /\ basis \in [Concepts -> SUBSET Evidence] /\ byHand \subseteq Concepts
    /\ judged \subseteq [of: Concepts, event: Events, content: Texts \X SUBSET Evidence]
    /\ passes \in 0..MaxPasses /\ pushes \in 0..MaxPushes

(* What reads as verified was read by who verified it, with the evidence it had: no pass keeps,
   moves or makes up a verification, whatever its agent wrote and how its stamps fall; but for
   what somebody pushed under the stamps of another content. *)
TrustEarned ==
    \A c \in Concepts \ byHand :
       \A e \in CurrentVerified(doc[c]) : [of |-> c, event |-> e, content |-> Content(doc[c])] \in judged

(* What a pass wrote goes on citing the evidence it wrote it from, and the evidence stays: later
   passes neither drop nor change it. *)
EvidenceStands ==
    \A c \in Concepts \ byHand :
       Exists(doc[c]) => doc[c].cites \subseteq sources /\ basis[c] \subseteq doc[c].cites

(* Verifications and evidence are what they were written as. *)
TrustKept == TypeOK /\ TrustEarned /\ EvidenceStands
=============================================================================
