--------------------------- MODULE Collect_proofs ---------------------------
(***************************************************************************)
(* Proofs about the runner of a source manifest (Maintain), and about the  *)
(* composition MCCollect checks: every version is ingested and judged      *)
(* once, in order and within its attempts (VersionsOnce), for any sources, *)
(* caps, builds, losses of answers, deaths of the runner, manifests and    *)
(* orders of the writer's queue.                                           *)
(***************************************************************************)
EXTENDS MCCollect, Integers, FiniteSetTheorems, SequenceTheorems, WellFoundedInduction, TLAPS

EntrySet ==
    [source: Sources, ingest: Seq(AttemptSet), audit: Seq(AttemptSet), orphan: BOOLEAN,
     status: {"pending", "done", "needs_repair", "superseded", "dropped"},
     submitting: Stages \cup {"none"}, extra: [Stages -> 0..MaxBuilds]]

ReceiptSet ==
    [kind: Stages, source: Sources, parent: 0..MaxPosted, status: Statuses,
     class: {"none", "capacity", "counted", "final"}, rolled: BOOLEAN, slip: BOOLEAN, build: 1..MaxBuilds]

(* The types, and where the runner is when it posts. *)
Types ==
    /\ entries \in Seq(EntrySet) /\ Len(entries) <= MaxEntries
    /\ receipts \in Seq(ReceiptSet) /\ Len(receipts) <= MaxPosted
    /\ build \in 1..MaxBuilds
    /\ run \in [at: 0..(MaxEntries + 1), stage: Stages, step: {"look", "post", "answer"},
                submitted: BOOLEAN, blocked: SUBSET Identities, answer: 0..MaxPosted]
    /\ lost \in 0..MaxOdd /\ imports \in 0..MaxOdd
    /\ landed \in Seq(Sources) /\ loose \subseteq Sources
    /\ run.at <= Len(entries) + 1
    /\ Idle => run = NoRun
    /\ run.step # "look" \/ run.stage = "audit" => run.at \in DOMAIN entries
    /\ run.step = "answer" => run.answer \in Jobs
    /\ run.stage = "audit" => Now.ingest # <<>>

Ingests(s) == {j \in Jobs : receipts[j].kind = "ingest" /\ receipts[j].source = s}
Done(s) == \E j \in Ingests(s) : receipts[j].status = "done"

(* The entries of the manifest, one for each version. *)
Plain == {e \in DOMAIN entries : ~entries[e].orphan}

(* No version that is older than one the runner went on to still has a job to come. *)
Given(e) ==
    LET s == entries[e].source
    IN s \in loose \/ Done(s) \/ (Landing(s) = {} /\ entries[e].submitting # "ingest")

(* What the writer's jobs say of each other. *)
Linked(j) ==
    LET r == receipts[j] IN
    /\ r.kind = "ingest" => r.parent = 0
    /\ r.kind = "audit" => /\ r.parent \in Jobs /\ receipts[r.parent].kind = "ingest"
                           /\ receipts[r.parent].status = "done"
    /\ r.slip => r.status = "done" /\ r.kind = "audit"
    /\ r.status = "failed" => r.class # "none"
    /\ r.build <= build

(* Each attempt an entry records is of its source; one that ended, ended so. *)
Refers(e) ==
    /\ \A n \in DOMAIN entries[e].ingest :
         LET a == entries[e].ingest[n] IN
         /\ a.job \in Ingests(entries[e].source)
         /\ a.status # "queued" => receipts[a.job].status = a.status
    /\ \A n \in DOMAIN entries[e].audit :
         LET a == entries[e].audit[n] IN
         /\ a.job \in Jobs /\ receipts[a.job].kind = "audit"
         /\ receipts[receipts[a.job].parent].source = entries[e].source
         /\ a.status # "queued" => receipts[a.job].status = a.status
    /\ \A m, n \in DOMAIN entries[e].audit : m < n => entries[e].audit[m].job < entries[e].audit[n].job

(* The writer has one ingest of a version that may be reused, and reviews an ingest again only
   after reviews that could not be read, few of them. *)
UniqueIngest ==
    \A j, k \in Jobs :
       (/\ receipts[j].kind = "ingest" /\ receipts[k].kind = "ingest" /\ Reusable(j) /\ Reusable(k)
        /\ receipts[j].source = receipts[k].source) => j = k

Slipped(j) == {i \in AuditsOf(receipts[j].parent) : i <= j /\ receipts[i].slip}

AuditsInTurn ==
    \A j, k \in Jobs :
       (/\ receipts[j].kind = "audit" /\ receipts[k].kind = "audit" /\ j < k /\ Reusable(j)
        /\ receipts[j].parent = receipts[k].parent) => receipts[j].slip /\ Cardinality(Slipped(j)) < Slips

LandedDone == \A m \in DOMAIN landed : Done(landed[m])

(* Versions come in order, and every ingest is of one. *)
Ordered ==
    /\ \A e, f \in Plain :
         e < f /\ entries[e].source[1] = entries[f].source[1] => entries[e].source[2] < entries[f].source[2]
    /\ \A e \in Plain : entries[e].source[2] <= Cardinality(Versions(entries[e].source[1]))
    /\ \A j \in Jobs : receipts[j].kind = "ingest" => \E e \in Plain : entries[e].source = receipts[j].source

(* What a run that posts knows. *)
Posting ==
    /\ run.step # "look" =>
         /\ Now.submitting = run.stage
         /\ run.stage = "ingest" => ~Now.orphan
         /\ ~Now.orphan => Now.source[1] \notin run.blocked
    /\ run.step = "answer" /\ run.stage = "ingest" =>
         run.answer \in Ingests(Now.source) /\ Landing(Now.source) \subseteq {run.answer}
    /\ run.step = "answer" /\ run.stage = "audit" =>
         /\ run.answer \in AuditsOf(Parent)
         /\ \A j \in AuditsOf(Parent) : j <= run.answer
    /\ run.stage = "audit" => Now.ingest[Len(Now.ingest)].status = "done" /\ Now.submitting # "ingest"

(* The runner waits for what may land: the last attempt, or the POST it is about to repeat. *)
Waits(e) ==
    LET s == entries[e].source
        tried == entries[e].ingest
    IN /\ entries[e].submitting = "ingest" /\ tried # <<>> => RolledBack(tried[Len(tried)])
       /\ s \notin loose =>
            /\ \A n \in DOMAIN tried : n < Len(tried) => Settled(tried[n])
            /\ entries[e].submitting # "ingest" => \A j \in Landing(s) : tried # <<>> /\ tried[Len(tried)].job = j

(* The attempts of a version that are spent: those that ended do not count when the writer was at its
   capacity. *)
KnownJobsOf(e) == {entries[e].ingest[n].job : n \in DOMAIN entries[e].ingest}

Spent(e) ==
    {j \in Ingests(entries[e].source) :
        \/ receipts[j].status = "queued" \/ j \notin KnownJobsOf(e)
        \/ (receipts[j].status = "failed" /\ receipts[j].class = "counted")}

CountedOf(e) ==
    {n \in DOMAIN entries[e].ingest :
        Failed(entries[e].ingest[n]) /\ receipts[entries[e].ingest[n].job].class # "capacity"}

Unseen(e) == Spent(e) \ {entries[e].ingest[n].job : n \in CountedOf(e)}

(* The attempt under way, which no answer was lost for. *)
Current(e) ==
    IF run.at = e /\ run.step = "answer" /\ run.stage = "ingest" THEN {run.answer}
    ELSE IF entries[e].submitting = "ingest" \/ entries[e].ingest = <<>> THEN {}
    ELSE {entries[e].ingest[Len(entries[e].ingest)].job}

Builds(e) == IF entries[e].extra["ingest"] = 0 THEN 0 ELSE entries[e].extra["ingest"] - 1

Budget(e) ==
    /\ entries[e].extra["ingest"] <= build
    /\ Cardinality(Spent(e) \ Current(e)) + 1 <= Cap + Builds(e) + lost
    /\ Cardinality(Unseen(e) \ Current(e)) <= lost

(* What DoneIsAudited asks of a done entry. *)
Reviewed(e) ==
    \E n \in DOMAIN entries[e].ingest :
       LET parent == entries[e].ingest[n].job
           audits == {j \in AuditsOf(parent) : receipts[j].status = "done"}
       IN /\ receipts[parent].status = "done" /\ receipts[parent].source = entries[e].source
          /\ \/ \E j \in audits : ~receipts[j].slip
             \/ Cardinality(audits) >= Slips

Audited(e) == entries[e].status = "done" => Reviewed(e)

(* The runner went past it. *)
Behind(e) ==
    /\ entries[e].status \in {"done", "superseded", "dropped"} => Given(e)
    /\ e < run.at => Given(e) \/ entries[e].source[1] \in run.blocked
    /\ \A f \in Plain :
         e < f /\ entries[e].source[1] = entries[f].source[1] /\ Ingests(entries[f].source) # {} => Given(e)

MaintainInv ==
    /\ Types
    /\ \A j \in Jobs : Linked(j)
    /\ \A e \in DOMAIN entries : Refers(e) /\ Audited(e)
    /\ UniqueIngest /\ AuditsInTurn /\ LandedDone
    /\ Ordered /\ Posting
    /\ \A e \in Plain : Waits(e) /\ Behind(e) /\ Budget(e)
    /\ NewerLandsLast

(* Numbers, and the finite sets counted with them. *)
LEMMA NextIsMore ==
    ASSUME NEW n \in Nat, NEW c \in Nat, n <= c, NEW v, v = c + 1
    PROVE  n < v
OBVIOUS

LEMMA UpToIsFinite == \A n \in Nat : IsFiniteSet(1..n)
  BY FS_Interval

-----------------------------------------------------------------------------
(* A set of jobs has a newest. *)
LEMMA NewestIs ==
    ASSUME NEW n \in Nat, NEW S \in SUBSET (1..n), S # {}
    PROVE  Newest(S) \in S /\ \A k \in S : k <= Newest(S)
<1> DEFINE T == {n - k : k \in S}
<1>1. T \subseteq Nat /\ T # {}
  <2>1. \A k \in S : n - k \in Nat  OBVIOUS
  <2> QED  BY <2>1
<1>2. IsWellFoundedOn(OpToRel(<, Nat), Nat)  BY NatLessThanWellFounded
<1>3. PICK x \in T : \A y \in T : ~(<<y, x>> \in OpToRel(<, Nat))
  <2> HIDE DEF T
  <2> QED  BY <1>1, <1>2, WFMin
<1>4. \A y \in T : x <= y
  <2> TAKE y \in T
  <2>1. x \in Nat /\ y \in Nat  BY <1>1
  <2>2. ~(y < x)  BY <1>3, <2>1 DEF OpToRel
  <2> QED  BY <2>1, <2>2
<1>5. PICK j \in S : x = n - j  OBVIOUS
<1>6. \A k \in S : k <= j
  <2> TAKE k \in S
  <2>1. n - k \in T  OBVIOUS
  <2>2. x <= n - k  BY <1>4, <2>1
  <2> QED  BY <1>5, <2>2
<1> QED  BY <1>5, <1>6 DEF Newest

(* Sets of jobs are finite. *)
LEMMA FewJobs ==
    ASSUME Types, NEW S \in SUBSET Jobs
    PROVE  IsFiniteSet(S) /\ Cardinality(S) \in Nat
<1>1. Len(receipts) \in Nat  BY LenProperties DEF Types
<1>2. IsFiniteSet(Jobs)  BY <1>1, FS_Interval DEF Jobs
<1> QED  BY <1>2, FS_Subset, FS_CardinalityType

(* What the types say of one entry and of one job. *)
LEMMA EntryIs ==
    ASSUME Types, NEW e \in DOMAIN entries
    PROVE  /\ entries[e] \in EntrySet /\ e \in Nat /\ e >= 1 /\ e <= Len(entries)
           /\ DOMAIN entries = 1..Len(entries) /\ Len(entries) \in Nat
           /\ entries[e].source \in Sources /\ entries[e].orphan \in BOOLEAN
           /\ entries[e].ingest \in Seq(AttemptSet) /\ entries[e].audit \in Seq(AttemptSet)
           /\ entries[e].submitting \in Stages \cup {"none"}
           /\ entries[e].extra \in [Stages -> 0..MaxBuilds]
           /\ Len(entries[e].ingest) \in Nat /\ DOMAIN entries[e].ingest = 1..Len(entries[e].ingest)
           /\ Len(entries[e].audit) \in Nat /\ DOMAIN entries[e].audit = 1..Len(entries[e].audit)
           /\ \A n \in DOMAIN entries[e].ingest : entries[e].ingest[n] \in AttemptSet
           /\ \A n \in DOMAIN entries[e].audit : entries[e].audit[n] \in AttemptSet
<1>1. entries \in Seq(EntrySet)  BY DEF Types
<1>2. DOMAIN entries = 1..Len(entries) /\ Len(entries) \in Nat  BY <1>1, LenProperties
<1>3. entries[e] \in EntrySet  BY <1>1, <1>2, ElementOfSeq
<1>4. entries[e].ingest \in Seq(AttemptSet) /\ entries[e].audit \in Seq(AttemptSet)  BY <1>3 DEF EntrySet
<1>5. /\ Len(entries[e].ingest) \in Nat /\ DOMAIN entries[e].ingest = 1..Len(entries[e].ingest)
      /\ Len(entries[e].audit) \in Nat /\ DOMAIN entries[e].audit = 1..Len(entries[e].audit)
  BY <1>4, LenProperties
<1>6. \A n \in DOMAIN entries[e].ingest : entries[e].ingest[n] \in AttemptSet  BY <1>4, <1>5, ElementOfSeq
<1>7. \A n \in DOMAIN entries[e].audit : entries[e].audit[n] \in AttemptSet  BY <1>4, <1>5, ElementOfSeq
<1> QED  BY <1>2, <1>3, <1>4, <1>5, <1>6, <1>7 DEF EntrySet

LEMMA JobIs ==
    ASSUME ConstantsOK, Types
    PROVE  /\ Len(receipts) \in Nat /\ Jobs \subseteq 1..MaxPosted /\ Jobs = DOMAIN receipts /\ Jobs \subseteq Nat
           /\ \A j \in Jobs : receipts[j] \in ReceiptSet
<1>1. receipts \in Seq(ReceiptSet)  BY DEF Types
<1>2. Len(receipts) \in Nat /\ DOMAIN receipts = 1..Len(receipts)  BY <1>1, LenProperties
<1>3. \A j \in Jobs : receipts[j] \in ReceiptSet  BY <1>1, <1>2, ElementOfSeq DEF Jobs
<1>4. MaxPosted \in Nat  BY DEF ConstantsOK
<1> QED  BY <1>2, <1>3, <1>4 DEF Jobs, Types

(* One entry is replaced, and a new one is the last. *)
LEMMA OneEntry ==
    ASSUME Types, NEW e \in DOMAIN entries, NEW new \in EntrySet, entries' = [entries EXCEPT ![e] = new]
    PROVE  /\ entries' \in Seq(EntrySet) /\ Len(entries') = Len(entries) /\ DOMAIN entries' = DOMAIN entries
           /\ entries'[e] = new
           /\ \A f \in DOMAIN entries : f # e => entries'[f] = entries[f]
<1>1. entries \in Seq(EntrySet)  BY DEF Types
<1>2. DOMAIN entries = 1..Len(entries)  BY <1>1, LenProperties
<1>3. /\ entries' \in Seq(EntrySet) /\ Len(entries') = Len(entries)
      /\ \A f \in 1..Len(entries) : entries'[f] = IF f = e THEN new ELSE entries[f]
  BY <1>1, <1>2, ExceptSeq
<1>4. DOMAIN entries' = 1..Len(entries')  BY <1>3, LenProperties
<1> QED  BY <1>2, <1>3, <1>4

LEMMA LastEntry ==
    ASSUME Types, NEW new \in EntrySet, entries' = Append(entries, new)
    PROVE  /\ entries' \in Seq(EntrySet) /\ Len(entries') = Len(entries) + 1
           /\ DOMAIN entries' = DOMAIN entries \cup {Len(entries) + 1}
           /\ Len(entries) + 1 \notin DOMAIN entries
           /\ entries'[Len(entries) + 1] = new
           /\ \A f \in DOMAIN entries : entries'[f] = entries[f]
<1>1. entries \in Seq(EntrySet)  BY DEF Types
<1>2. DOMAIN entries = 1..Len(entries) /\ Len(entries) \in Nat  BY <1>1, LenProperties
<1>3. /\ entries' \in Seq(EntrySet) /\ Len(entries') = Len(entries) + 1
      /\ \A f \in 1..Len(entries) : entries'[f] = entries[f]
      /\ entries'[Len(entries) + 1] = new
  BY <1>1, AppendProperties
<1>4. DOMAIN entries' = 1..Len(entries')  BY <1>3, LenProperties
<1> QED  BY <1>2, <1>3, <1>4

LEMMA OneJob ==
    ASSUME Types, NEW j \in Jobs, NEW new \in ReceiptSet, receipts' = [receipts EXCEPT ![j] = new]
    PROVE  /\ receipts' \in Seq(ReceiptSet) /\ Len(receipts') = Len(receipts) /\ Jobs' = Jobs
           /\ receipts'[j] = new
           /\ \A k \in Jobs : k # j => receipts'[k] = receipts[k]
<1>1. receipts \in Seq(ReceiptSet)  BY DEF Types
<1>2. DOMAIN receipts = 1..Len(receipts)  BY <1>1, LenProperties
<1>3. /\ receipts' \in Seq(ReceiptSet) /\ Len(receipts') = Len(receipts)
      /\ \A f \in 1..Len(receipts) : receipts'[f] = IF f = j THEN new ELSE receipts[f]
  BY <1>1, <1>2, ExceptSeq DEF Jobs
<1> QED  BY <1>2, <1>3 DEF Jobs

LEMMA LastJob ==
    ASSUME Types, NEW new \in ReceiptSet, receipts' = Append(receipts, new)
    PROVE  /\ receipts' \in Seq(ReceiptSet) /\ Len(receipts') = Len(receipts) + 1
           /\ Jobs' = Jobs \cup {Len(receipts) + 1} /\ Len(receipts) + 1 \notin Jobs
           /\ receipts'[Len(receipts) + 1] = new
           /\ \A k \in Jobs : receipts'[k] = receipts[k]
<1>1. receipts \in Seq(ReceiptSet)  BY DEF Types
<1>2. Len(receipts) \in Nat  BY <1>1, LenProperties
<1>3. /\ receipts' \in Seq(ReceiptSet) /\ Len(receipts') = Len(receipts) + 1
      /\ \A f \in 1..Len(receipts) : receipts'[f] = receipts[f]
      /\ receipts'[Len(receipts) + 1] = new
  BY <1>1, AppendProperties
<1> QED  BY <1>2, <1>3 DEF Jobs

-----------------------------------------------------------------------------
(* What the writer answers: a job it has, or a new one. *)
NewReceipt == Receipt(run.stage, Now.source, IF run.stage = "audit" THEN Parent ELSE 0)

OldJob(j) ==
    /\ receipts' = receipts /\ j \in Jobs
    /\ run.stage = "ingest" => j \in IngestOf(Now.source)
    /\ run.stage = "audit" =>
         /\ j \in AuditsOf(Parent) /\ Reusable(j)
         /\ \A k \in AuditsOf(Parent) : Reusable(k) => k <= j
         /\ ~(receipts[j].slip /\ Cardinality({i \in AuditsOf(Parent) : receipts[i].slip}) < Slips)

NewJob(j) ==
    /\ receipts' = Append(receipts, NewReceipt) /\ j = Len(receipts) + 1 /\ j <= MaxPosted
    /\ NewReceipt \in ReceiptSet
    /\ run.stage = "ingest" => IngestOf(Now.source) = {}
    /\ run.stage = "audit" =>
         /\ receipts[Parent].status = "done"
         /\ \A k \in AuditsOf(Parent) :
              (Reusable(k) /\ \A i \in AuditsOf(Parent) : Reusable(i) => i <= k) =>
                 receipts[k].slip /\ Cardinality({i \in AuditsOf(Parent) : receipts[i].slip}) < Slips

LEMMA PostedIs ==
    ASSUME ConstantsOK, Types, run.at \in DOMAIN entries, NEW j, Posted(j)
    PROVE  OldJob(j) \/ NewJob(j)
<1>0. run.stage \in Stages /\ run.stage \in {"ingest", "audit"}  BY DEF Types, Stages
<1>1. Jobs = 1..Len(receipts) /\ Len(receipts) \in Nat /\ \A k \in Jobs : receipts[k] \in ReceiptSet
  BY JobIs DEF Jobs
<1>2. \A S \in SUBSET Jobs : S # {} => Newest(S) \in S /\ \A k \in S : k <= Newest(S)
  BY <1>1, NewestIs
<1>3. Newest({}) = 0  BY DEF Newest
<1>4. ASSUME run.stage = "audit" PROVE Parent \in 0..MaxPosted
  <2>1. Now.ingest # <<>>  BY <1>4 DEF Types
  <2>2. Len(Now.ingest) \in Nat /\ Len(Now.ingest) # 0 /\ DOMAIN Now.ingest = 1..Len(Now.ingest)
    BY <2>1, EntryIs, EmptySeq DEF Now
  <2>3. Now.ingest[Len(Now.ingest)] \in AttemptSet  BY <2>2, EntryIs DEF Now
  <2> QED  BY <2>3 DEF Parent, AttemptSet
<1>5. CASE Found # 0
  <2>1. j = Found /\ receipts' = receipts  BY <1>5 DEF Posted
  <2>2. CASE run.stage = "ingest"
    <3>1. IngestOf(Now.source) \subseteq Jobs  BY DEF IngestOf
    <3>2. j = Newest(IngestOf(Now.source))  BY <2>1, <2>2 DEF Found
    <3>3. j \in IngestOf(Now.source)  BY <1>2, <1>3, <1>5, <2>1, <3>1, <3>2
    <3> QED  BY <2>1, <2>2, <3>1, <3>3 DEF OldJob
  <2>3. CASE run.stage = "audit"
    <3> DEFINE R == {k \in AuditsOf(Parent) : Reusable(k)}
               S == {k \in AuditsOf(Parent) : receipts[k].slip}
    <3>1. R \subseteq Jobs  BY DEF AuditsOf
    <3>2. j = IF Newest(R) # 0 /\ Newest(R) \in S /\ Cardinality(S) < Slips THEN 0 ELSE Newest(R)
      BY <2>1, <2>3 DEF Found, ReusableAudit
    <3>3. Newest(R) # 0 /\ j = Newest(R) /\ ~(Newest(R) \in S /\ Cardinality(S) < Slips)  BY <1>5, <2>1, <3>2
    <3>4. R # {} => Newest(R) \in R /\ \A k \in R : k <= Newest(R)  BY <1>2, <3>1
    <3>5. R # {}
      <4>1. SUFFICES ASSUME R = {} PROVE FALSE  OBVIOUS
      <4>2. Newest(R) = 0
        <5> HIDE DEF R
        <5> QED  BY <1>3, <4>1
      <4> QED  BY <3>3, <4>2
    <3>6. j \in R /\ \A k \in R : k <= j  BY <3>3, <3>4, <3>5
    <3> QED  BY <2>1, <2>3, <3>1, <3>3, <3>6 DEF OldJob
  <2> QED  BY <1>0, <2>2, <2>3
<1>6. CASE Found = 0
  <2>1. receipts' = Append(receipts, NewReceipt) /\ j = Len(receipts) + 1 /\ j <= MaxPosted
    BY <1>6 DEF Posted, NewReceipt
  <2>2. NewReceipt \in ReceiptSet
    <3>1. Now.source \in Sources  BY EntryIs DEF Now
    <3>2. build \in 1..MaxBuilds  BY DEF Types
    <3>3. (IF run.stage = "audit" THEN Parent ELSE 0) \in 0..MaxPosted
      <4>1. MaxPosted \in Nat  BY DEF ConstantsOK
      <4> QED  BY <1>4, <4>1
    <3> QED  BY <1>0, <3>1, <3>2, <3>3 DEF NewReceipt, Receipt, ReceiptSet, Statuses
  <2>3. CASE run.stage = "ingest"
    <3>1. IngestOf(Now.source) \subseteq Jobs  BY DEF IngestOf
    <3>2. Newest(IngestOf(Now.source)) = 0  BY <1>6, <2>3 DEF Found
    <3>3. IngestOf(Now.source) = {}  BY <1>1, <1>2, <3>1, <3>2
    <3> QED  BY <2>1, <2>2, <2>3, <3>3 DEF NewJob
  <2>4. CASE run.stage = "audit"
    <3> DEFINE R == {k \in AuditsOf(Parent) : Reusable(k)}
               S == {k \in AuditsOf(Parent) : receipts[k].slip}
    <3>1. R \subseteq Jobs  BY DEF AuditsOf
    <3>2. 0 = IF Newest(R) # 0 /\ Newest(R) \in S /\ Cardinality(S) < Slips THEN 0 ELSE Newest(R)
      BY <1>6, <2>4 DEF Found, ReusableAudit
    <3>3. ASSUME NEW k \in AuditsOf(Parent), Reusable(k), \A i \in AuditsOf(Parent) : Reusable(i) => i <= k
          PROVE  receipts[k].slip /\ Cardinality(S) < Slips
      <4>1. k \in R /\ \A i \in R : i <= k  BY <3>3
      <4>2. Newest(R) \in R /\ k <= Newest(R)  BY <1>2, <3>1, <4>1
      <4>3. k = Newest(R) /\ k # 0
        <5>1. R \subseteq Nat  BY <1>1, <3>1
        <5>2. Newest(R) <= k  BY <4>1, <4>2
        <5>3. k \in 1..Len(receipts)  BY <1>1, <3>1, <4>1
        <5> HIDE DEF R
        <5>4. Newest(R) \in Nat  BY <4>2, <5>1
        <5> QED  BY <1>1, <4>2, <5>2, <5>3, <5>4
      <4>4. k \in S /\ Cardinality(S) < Slips  BY <3>2, <4>3
      <4> QED  BY <4>4
    <3>4. receipts[Parent].status = "done"  BY <2>4 DEF Posted
    <3> QED  BY <2>1, <2>2, <2>4, <3>3, <3>4 DEF NewJob
  <2> QED  BY <1>0, <2>3, <2>4
<1> QED  BY <1>5, <1>6

-----------------------------------------------------------------------------
(* What the actions do to the entries: one is touched, which stays of its source. *)
Touched(e) ==
    /\ e \in DOMAIN entries
    /\ entries' \in Seq(EntrySet) /\ Len(entries') = Len(entries) /\ DOMAIN entries' = DOMAIN entries
    /\ \A f \in DOMAIN entries : f # e => entries'[f] = entries[f]
    /\ entries'[e].source = entries[e].source /\ entries'[e].orphan = entries[e].orphan

SameAttempts(e) ==
    /\ entries'[e].ingest = entries[e].ingest /\ entries'[e].audit = entries[e].audit
    /\ entries'[e].extra = entries[e].extra

(* It leaves with a status. *)
Left(status, submitting) ==
    /\ Touched(run.at) /\ SameAttempts(run.at)
    /\ entries'[run.at].status = status /\ entries'[run.at].submitting = submitting

EntryStatus == {"pending", "done", "needs_repair", "superseded", "dropped"}

LEMMA LeftIs ==
    ASSUME Types, NEW e \in DOMAIN entries, NEW st \in EntryStatus, NEW sub \in Stages \cup {"none"},
           entries' = [entries EXCEPT ![e] = [entries[e] EXCEPT !.status = st, !.submitting = sub]]
    PROVE  /\ Touched(e) /\ SameAttempts(e)
           /\ entries'[e].status = st /\ entries'[e].submitting = sub
<1> DEFINE new == [entries[e] EXCEPT !.status = st, !.submitting = sub]
<1>1. entries[e] \in EntrySet  BY EntryIs
<1>2. /\ new \in EntrySet /\ new.status = st /\ new.submitting = sub /\ new.source = entries[e].source
      /\ new.orphan = entries[e].orphan /\ new.ingest = entries[e].ingest /\ new.audit = entries[e].audit
      /\ new.extra = entries[e].extra
  BY <1>1 DEF EntrySet, EntryStatus
<1> HIDE DEF new
<1>3. entries' = [entries EXCEPT ![e] = new]  BY DEF new
<1>4. /\ entries' \in Seq(EntrySet) /\ Len(entries') = Len(entries) /\ DOMAIN entries' = DOMAIN entries
      /\ entries'[e] = new /\ \A f \in DOMAIN entries : f # e => entries'[f] = entries[f]
  BY <1>2, <1>3, OneEntry
<1> QED  BY <1>2, <1>4 DEF Touched, SameAttempts

LEMMA LeaveAsIs ==
    ASSUME Types, Looking, NEW st \in EntryStatus, NEW stops, LeaveAs(st, stops)
    PROVE  /\ Left(st, IF st = "superseded" THEN "none" ELSE Now.submitting)
           /\ run.at \in DOMAIN entries
           /\ run' = NoRun \/ run' = [NoRun EXCEPT !.at = run.at + 1,
                 !.blocked = IF st = "pending" /\ ~Now.orphan THEN run.blocked \cup {Now.source[1]}
                             ELSE run.blocked]
           /\ UNCHANGED <<build, receipts, lost, imports, landed>>
<1> DEFINE sub == IF st = "superseded" THEN "none" ELSE Now.submitting
<1>1. run.at \in DOMAIN entries
  <2>1. entries \in Seq(EntrySet) /\ run.at \in Nat  BY DEF Types
  <2>2. DOMAIN entries = 1..Len(entries) /\ Len(entries) \in Nat  BY <2>1, LenProperties
  <2> QED  BY <2>1, <2>2 DEF Looking, Idle
<1>2. sub \in Stages \cup {"none"}  BY <1>1, EntryIs DEF Now
<1>3. entries' = [entries EXCEPT ![run.at] = [entries[run.at] EXCEPT !.status = st, !.submitting = sub]]
  <2>1. entries \in Seq(EntrySet) /\ entries[run.at] \in EntrySet  BY <1>1, EntryIs DEF Types
  <2> QED  BY <1>1, <2>1 DEF LeaveAs, Now, EntrySet
<1> HIDE DEF sub
<1>4. Left(st, sub)  BY <1>1, <1>2, <1>3, LeftIs DEF Left
<1> QED  BY <1>1, <1>4 DEF LeaveAs, sub

LEMMA RefusedIs ==
    ASSUME Types, Refused
    PROVE  \E st \in {"pending", "needs_repair"} :
             /\ Left(st, "none") /\ run.at \in DOMAIN entries
             /\ run' = [NoRun EXCEPT !.at = run.at + 1,
                   !.blocked = IF st = "pending" /\ ~Now.orphan THEN run.blocked \cup {Now.source[1]}
                               ELSE run.blocked]
             /\ lost' = lost + 1 /\ lost + imports < MaxOdd
             /\ loose' = IF run.stage = "ingest" THEN GivenUp(Now.source) ELSE loose
             /\ UNCHANGED <<build, receipts, imports, landed>>
<1>1. run.at \in DOMAIN entries  BY DEF Types, Refused
<1>2. PICK st \in {"pending", "needs_repair"} :
        /\ entries' = [entries EXCEPT ![run.at].status = st, ![run.at].submitting = "none"]
        /\ run' = [NoRun EXCEPT !.at = run.at + 1,
                   !.blocked = IF st = "pending" /\ ~Now.orphan THEN run.blocked \cup {Now.source[1]}
                               ELSE run.blocked]
  BY DEF Refused
<1>3. entries' = [entries EXCEPT ![run.at] = [entries[run.at] EXCEPT !.status = st, !.submitting = "none"]]
  <2>1. entries \in Seq(EntrySet) /\ entries[run.at] \in EntrySet  BY <1>1, EntryIs DEF Types
  <2> QED  BY <1>1, <1>2, <2>1 DEF EntrySet
<1>4. Left(st, "none")  BY <1>1, <1>3, LeftIs DEF Left, EntryStatus
<1> QED  BY <1>1, <1>2, <1>4 DEF Refused, Odd

LEMMA PostLostIs ==
    ASSUME ConstantsOK, Types, PostLost
    PROVE  /\ Left("pending", Now.submitting) /\ run.at \in DOMAIN entries
           /\ receipts' = receipts \/ \E j \in 1..MaxPosted : NewJob(j)
           /\ run' = [NoRun EXCEPT !.at = run.at + 1,
                 !.blocked = IF Now.orphan THEN run.blocked ELSE run.blocked \cup {Now.source[1]}]
           /\ lost' = lost + 1 /\ lost + imports < MaxOdd /\ UNCHANGED <<build, imports, landed, loose>>
<1>1. run.at \in DOMAIN entries  BY DEF Types, PostLost
<1>2. entries' = [entries EXCEPT ![run.at] = [entries[run.at] EXCEPT !.status = "pending", !.submitting = Now.submitting]]
  <2>1. entries \in Seq(EntrySet) /\ entries[run.at] \in EntrySet  BY <1>1, EntryIs DEF Types
  <2> QED  BY <1>1, <2>1 DEF EntrySet, PostLost, Now
<1>3. Now.submitting \in Stages \cup {"none"}  BY <1>1, EntryIs DEF Now
<1>4. Left("pending", Now.submitting)  BY <1>1, <1>2, <1>3, LeftIs DEF Left, EntryStatus
<1>5. receipts' = receipts \/ \E j \in 1..MaxPosted : NewJob(j)
  BY <1>1, PostedIs DEF PostLost, OldJob
<1> QED  BY <1>1, <1>4, <1>5 DEF PostLost, Odd

LEMMA DropIs ==
    ASSUME Types, NEW e \in DOMAIN entries, Drop(e)
    PROVE  /\ Touched(e) /\ SameAttempts(e) /\ entries[e].submitting = "none"
           /\ entries'[e].status = "dropped" /\ entries'[e].submitting = "none"
<1>1. entries \in Seq(EntrySet) /\ entries[e] \in EntrySet  BY EntryIs DEF Types
<1>2. entries' = [entries EXCEPT ![e] = [entries[e] EXCEPT !.status = "dropped", !.submitting = "none"]]
  BY <1>1 DEF Drop, EntrySet
<1> QED  BY <1>2, LeftIs DEF EntryStatus, Drop

(* A sequence of attempts of which the last is added, or replaced. *)
Longer(old, next, a) ==
    /\ next \in Seq(AttemptSet) /\ Len(next) = Len(old) + 1 /\ DOMAIN next = 1..(Len(old) + 1) /\ next # <<>>
    /\ \A n \in DOMAIN old : next[n] = old[n]
    /\ next[Len(next)] = a

Renewed(old, next, a) ==
    /\ old # <<>> /\ old[Len(old)].job = a.job
    /\ next \in Seq(AttemptSet) /\ Len(next) = Len(old) /\ DOMAIN next = DOMAIN old /\ next # <<>>
    /\ \A n \in DOMAIN old : n < Len(old) => next[n] = old[n]
    /\ next[Len(next)] = a

LEMMA LongerIs ==
    ASSUME NEW old \in Seq(AttemptSet), NEW a \in AttemptSet
    PROVE  Longer(old, Append(old, a), a)
<1>1. /\ Append(old, a) \in Seq(AttemptSet) /\ Len(Append(old, a)) = Len(old) + 1 /\ Append(old, a) # <<>>
      /\ \A n \in 1..Len(old) : Append(old, a)[n] = old[n]
      /\ Append(old, a)[Len(old) + 1] = a
  BY AppendProperties
<1>2. DOMAIN Append(old, a) = 1..(Len(old) + 1) /\ DOMAIN old = 1..Len(old)  BY <1>1, LenProperties
<1> QED  BY <1>1, <1>2 DEF Longer

LEMMA RecordedIs ==
    ASSUME NEW old \in Seq(AttemptSet), NEW j \in 1..MaxPosted, NEW st \in Statuses
    PROVE  /\ Attempt(j, st) \in AttemptSet
           /\ IF old # <<>> /\ old[Len(old)].job = j
              THEN Renewed(old, Recorded(old, j, st), Attempt(j, st))
              ELSE Longer(old, Recorded(old, j, st), Attempt(j, st))
<1>1. Attempt(j, st) \in AttemptSet  BY DEF Attempt, AttemptSet
<1>2. CASE old # <<>> /\ old[Len(old)].job = j
  <2>1. DOMAIN old = 1..Len(old) /\ Len(old) \in Nat /\ Len(old) # 0  BY <1>2, LenProperties, EmptySeq
  <2>2. Len(old) \in 1..Len(old)  BY <2>1
  <2> DEFINE next == [old EXCEPT ![Len(old)] = Attempt(j, st)]
  <2>3. Recorded(old, j, st) = next  BY <1>2 DEF Recorded
  <2>4. /\ next \in Seq(AttemptSet) /\ Len(next) = Len(old)
        /\ \A n \in 1..Len(old) : next[n] = IF n = Len(old) THEN Attempt(j, st) ELSE old[n]
    BY <1>1, <2>2, ExceptSeq
  <2>5. DOMAIN next = 1..Len(next) /\ (next = <<>> => Len(next) = 0)  BY <2>4, LenProperties, EmptySeq
  <2> HIDE DEF next
  <2>6. Attempt(j, st).job = j  BY DEF Attempt
  <2>7. ASSUME NEW n \in DOMAIN old, n < Len(old) PROVE next[n] = old[n]
    <3>1. n \in 1..Len(old) /\ n # Len(old)  BY SMTT(30), <2>1, <2>7
    <3> QED  BY <2>4, <3>1
  <2>8. next[Len(next)] = Attempt(j, st) /\ next # <<>>  BY <2>1, <2>2, <2>4, <2>5
  <2>9. DOMAIN next = DOMAIN old  BY <2>1, <2>4, <2>5
  <2>10. Renewed(old, next, Attempt(j, st))  BY <1>2, <2>4, <2>6, <2>7, <2>8, <2>9 DEF Renewed
  <2> QED  BY <1>1, <1>2, <2>3, <2>10
<1>3. CASE ~(old # <<>> /\ old[Len(old)].job = j)
  BY <1>1, <1>3, LongerIs DEF Recorded
<1> QED  BY <1>1, <1>2, <1>3

LEMMA ImportIs ==
    ASSUME ConstantsOK, Types, NEW e \in DOMAIN entries, NEW j \in Jobs, Import(e, j)
    PROVE  /\ Touched(e) /\ entries'[e].audit = entries[e].audit /\ entries'[e].extra = entries[e].extra
           /\ Longer(entries[e].ingest, entries'[e].ingest, Attempt(j, receipts[j].status))
           /\ entries'[e].submitting = IF entries[e].submitting = "ingest" THEN "none" ELSE entries[e].submitting
           /\ entries'[e].status = IF entries[e].status = "done" THEN "done" ELSE "pending"
<1> DEFINE old == Append(entries[e].ingest, Attempt(j, receipts[j].status))
           new == [entries[e] EXCEPT !.ingest = old,
                     !.submitting = IF @ = "ingest" THEN "none" ELSE @,
                     !.status = IF @ = "done" THEN @ ELSE "pending"]
<1>1. entries[e] \in EntrySet /\ entries[e].ingest \in Seq(AttemptSet)  BY EntryIs
<1>2. Attempt(j, receipts[j].status) \in AttemptSet  BY JobIs DEF Attempt, AttemptSet, ReceiptSet
<1>3. Longer(entries[e].ingest, old, Attempt(j, receipts[j].status))  BY <1>1, <1>2, LongerIs
<1>4. old \in Seq(AttemptSet)  BY <1>3 DEF Longer
<1> HIDE DEF old
<1>5. entries' = [entries EXCEPT ![e] = new]
  <2>1. entries \in Seq(EntrySet)  BY DEF Types
  <2> QED  BY <1>1, <2>1 DEF Import, EntrySet, old
<1>6. /\ new \in EntrySet /\ new.source = entries[e].source /\ new.orphan = entries[e].orphan /\ new.ingest = old
      /\ new.audit = entries[e].audit /\ new.extra = entries[e].extra
      /\ new.submitting = IF entries[e].submitting = "ingest" THEN "none" ELSE entries[e].submitting
      /\ new.status = IF entries[e].status = "done" THEN "done" ELSE "pending"
  BY <1>1, <1>4 DEF EntrySet
<1> HIDE DEF new
<1>7. /\ entries' \in Seq(EntrySet) /\ Len(entries') = Len(entries) /\ DOMAIN entries' = DOMAIN entries
      /\ entries'[e] = new /\ \A f \in DOMAIN entries : f # e => entries'[f] = entries[f]
  BY <1>5, <1>6, OneEntry
<1> QED  BY <1>3, <1>6, <1>7 DEF Touched

LEMMA IntendIs ==
    ASSUME Types, Intend
    PROVE  /\ Touched(run.at) /\ run.at \in DOMAIN entries
           /\ entries'[run.at].ingest = Now.ingest /\ entries'[run.at].audit = Now.audit
           /\ entries'[run.at].status = Now.status /\ entries'[run.at].submitting = run.stage
           /\ entries'[run.at].extra =
                [Now.extra EXCEPT ![run.stage] =
                     IF ~MustSubmit /\ LastOne.status = "failed" /\ Capped THEN build ELSE Now.extra[run.stage]]
           /\ run' = [run EXCEPT !.step = "post"]
<1> DEFINE ex == [Now.extra EXCEPT ![run.stage] =
                     IF ~MustSubmit /\ LastOne.status = "failed" /\ Capped THEN build ELSE Now.extra[run.stage]]
           new == [entries[run.at] EXCEPT !.submitting = run.stage, !.extra = ex]
<1>0. run.at \in DOMAIN entries
  <2>1. entries \in Seq(EntrySet) /\ run.at \in Nat  BY DEF Types
  <2>2. DOMAIN entries = 1..Len(entries) /\ Len(entries) \in Nat  BY <2>1, LenProperties
  <2> QED  BY <2>1, <2>2 DEF Intend, Goes, Looks, Process, Looking, Idle
<1>1. entries[run.at] \in EntrySet /\ entries[run.at].extra \in [Stages -> 0..MaxBuilds]  BY <1>0, EntryIs
<1>2. ex \in [Stages -> 0..MaxBuilds]
  <2>1. build \in 0..MaxBuilds /\ run.stage \in Stages  BY DEF Types
  <2> QED  BY <1>1, <2>1 DEF Now
<1>3. entries' = [entries EXCEPT ![run.at].submitting = run.stage, ![run.at].extra[run.stage] =
                     IF ~MustSubmit /\ LastOne.status = "failed" /\ Capped THEN build ELSE @]
  BY DEF Intend
<1>4. entries' = [entries EXCEPT ![run.at] = new]
  <2>1. entries \in Seq(EntrySet)  BY DEF Types
  <2> QED  BY <1>0, <1>1, <1>3, <2>1 DEF EntrySet, Now
<1> HIDE DEF ex
<1>5. /\ new \in EntrySet /\ new.source = entries[run.at].source /\ new.orphan = entries[run.at].orphan
      /\ new.ingest = Now.ingest /\ new.audit = Now.audit /\ new.status = Now.status
      /\ new.submitting = run.stage /\ new.extra = ex
  BY <1>1, <1>2 DEF EntrySet, Now, Types
<1> HIDE DEF new
<1>6. /\ entries' \in Seq(EntrySet) /\ Len(entries') = Len(entries) /\ DOMAIN entries' = DOMAIN entries
      /\ entries'[run.at] = new /\ \A f \in DOMAIN entries : f # run.at => entries'[f] = entries[f]
  BY <1>0, <1>4, <1>5, OneEntry
<1> QED  BY <1>0, <1>5, <1>6 DEF Touched, Intend, ex

LEMMA RecordIs ==
    ASSUME ConstantsOK, Types, Record
    PROVE  LET st == IF run.stage = "ingest" THEN "queued" ELSE receipts[run.answer].status
           IN /\ Touched(run.at) /\ run.at \in DOMAIN entries
              /\ entries'[run.at].status = Now.status /\ entries'[run.at].submitting = "none"
              /\ entries'[run.at].extra = Now.extra
              /\ entries'[run.at].ingest = IF run.stage = "ingest" THEN Recorded(Now.ingest, run.answer, st)
                                           ELSE Now.ingest
              /\ entries'[run.at].audit = IF run.stage = "audit" THEN Recorded(Now.audit, run.answer, st)
                                          ELSE Now.audit
              /\ st \in Statuses /\ run.answer \in Jobs /\ run.answer \in 1..MaxPosted
              /\ run' = [run EXCEPT !.step = "look", !.submitted = TRUE, !.answer = 0]
<1> DEFINE st == IF run.stage = "ingest" THEN "queued" ELSE receipts[run.answer].status
           old == Recorded(Now[run.stage], run.answer, st)
           new == [[entries[run.at] EXCEPT ![run.stage] = old] EXCEPT !.submitting = "none"]
<1>1. run.at \in DOMAIN entries /\ run.answer \in Jobs /\ run.stage \in {"ingest", "audit"}
  BY DEF Record, Types, Stages
<1>2. run.answer \in 1..MaxPosted /\ st \in Statuses  BY <1>1, JobIs DEF Statuses, ReceiptSet
<1>3. entries[run.at] \in EntrySet /\ Now[run.stage] \in Seq(AttemptSet)  BY <1>1, EntryIs DEF Now
<1>4. old \in Seq(AttemptSet)
  <2> HIDE DEF st
  <2> QED  BY <1>2, <1>3, RecordedIs DEF Renewed, Longer
<1>5. entries' = [entries EXCEPT ![run.at][run.stage] = Recorded(@, run.answer, st), ![run.at].submitting = "none"]
  BY DEF Record
<1> HIDE DEF st
<1>6. entries' = [entries EXCEPT ![run.at] = new]
  <2>1. entries \in Seq(EntrySet)  BY DEF Types
  <2> QED  BY <1>1, <1>3, <1>5, <2>1 DEF EntrySet, Now
<1> HIDE DEF old
<1>7. /\ new \in EntrySet /\ new.source = entries[run.at].source /\ new.orphan = entries[run.at].orphan
      /\ new.ingest = IF run.stage = "ingest" THEN old ELSE Now.ingest
      /\ new.audit = IF run.stage = "audit" THEN old ELSE Now.audit
      /\ new.extra = Now.extra /\ new.status = Now.status /\ new.submitting = "none"
  <2>1. CASE run.stage = "ingest"  BY <1>3, <1>4, <2>1 DEF EntrySet, Now
  <2>2. CASE run.stage = "audit"  BY <1>3, <1>4, <2>2 DEF EntrySet, Now
  <2> QED  BY <1>1, <2>1, <2>2
<1> HIDE DEF new
<1>8. /\ entries' \in Seq(EntrySet) /\ Len(entries') = Len(entries) /\ DOMAIN entries' = DOMAIN entries
      /\ entries'[run.at] = new /\ \A f \in DOMAIN entries : f # run.at => entries'[f] = entries[f]
  BY <1>1, <1>6, <1>7, OneEntry
<1> QED  BY <1>1, <1>2, <1>7, <1>8 DEF Touched, Record, old, st

(* The attempts of the stage under way, and the last of them. *)
LEMMA AttemptsAre ==
    ASSUME ConstantsOK, Types, NEW e \in DOMAIN entries, e = run.at, Refers(e)
    PROVE  /\ run.stage \in {"ingest", "audit"}
           /\ Attempts = IF run.stage = "ingest" THEN Now.ingest ELSE Now.audit
           /\ Attempts \in Seq(AttemptSet) /\ Len(Attempts) \in Nat /\ DOMAIN Attempts = 1..Len(Attempts)
           /\ Attempts # <<>> =>
                /\ LastOne \in AttemptSet /\ LastOne.job \in Jobs /\ LastOne.job \in 1..MaxPosted
                /\ receipts[LastOne.job] \in ReceiptSet
                /\ receipts[LastOne.job].kind = run.stage /\ Len(Attempts) \in DOMAIN Attempts
                /\ LastOne.status # "queued" => receipts[LastOne.job].status = LastOne.status
<1>1. run.stage \in {"ingest", "audit"}  BY DEF Types, Stages
<1>2. Attempts = IF run.stage = "ingest" THEN Now.ingest ELSE Now.audit  BY <1>1 DEF Attempts
<1>3. Attempts \in Seq(AttemptSet)  BY <1>2, EntryIs DEF Now
<1>4. Len(Attempts) \in Nat /\ DOMAIN Attempts = 1..Len(Attempts)  BY <1>3, LenProperties
<1>5. ASSUME Attempts # <<>>
      PROVE  /\ LastOne \in AttemptSet /\ LastOne.job \in Jobs /\ LastOne.job \in 1..MaxPosted
             /\ receipts[LastOne.job] \in ReceiptSet
             /\ receipts[LastOne.job].kind = run.stage /\ Len(Attempts) \in DOMAIN Attempts
             /\ LastOne.status # "queued" => receipts[LastOne.job].status = LastOne.status
  <2>1. Len(Attempts) \in Nat \ {0}  BY <1>3, <1>5, EmptySeq
  <2>2. Len(Attempts) \in DOMAIN Attempts  BY <1>4, <2>1
  <2>3. LastOne \in AttemptSet  BY <1>3, <1>4, <2>2, ElementOfSeq DEF LastOne
  <2>4. CASE run.stage = "ingest"
    <3>1. Attempts = entries[e].ingest  BY <1>2, <2>4 DEF Now
    <3>2. LastOne = entries[e].ingest[Len(Attempts)] /\ Len(Attempts) \in DOMAIN entries[e].ingest
      BY <2>2, <3>1 DEF LastOne
    <3>3. LastOne.job \in Ingests(entries[e].source) /\ (LastOne.status # "queued" => receipts[LastOne.job].status = LastOne.status)
      BY <3>2 DEF Refers
    <3> QED  BY <2>2, <2>3, <2>4, <3>3, JobIs DEF Ingests
  <2>5. CASE run.stage = "audit"
    <3>1. Attempts = entries[e].audit  BY <1>2, <2>5 DEF Now
    <3>2. LastOne = entries[e].audit[Len(Attempts)] /\ Len(Attempts) \in DOMAIN entries[e].audit
      BY <2>2, <3>1 DEF LastOne
    <3>3. /\ LastOne.job \in Jobs /\ receipts[LastOne.job].kind = "audit"
          /\ LastOne.status # "queued" => receipts[LastOne.job].status = LastOne.status
      BY <3>2 DEF Refers
    <3> QED  BY <2>2, <2>3, <2>5, <3>3, JobIs
  <2> QED  BY <1>1, <2>4, <2>5
<1> QED  BY <1>1, <1>2, <1>3, <1>4, <1>5

LEMMA LookingAt ==
    ASSUME Types, Looking
    PROVE  run.at \in DOMAIN entries
<1>1. entries \in Seq(EntrySet) /\ run.at \in Nat  BY DEF Types
<1>2. DOMAIN entries = 1..Len(entries) /\ Len(entries) \in Nat  BY <1>1, LenProperties
<1> QED  BY <1>1, <1>2 DEF Looking, Idle

LEMMA RefreshIs ==
    ASSUME ConstantsOK, Types, \A e \in DOMAIN entries : Refers(e), Refresh
    PROVE  LET st == receipts[LastOne.job].status
           IN /\ Touched(run.at) /\ run.at \in DOMAIN entries
              /\ entries'[run.at].status = Now.status /\ entries'[run.at].submitting = Now.submitting
              /\ entries'[run.at].extra = Now.extra
              /\ entries'[run.at].ingest = IF run.stage = "ingest" THEN Recorded(Now.ingest, LastOne.job, st)
                                           ELSE Now.ingest
              /\ entries'[run.at].audit = IF run.stage = "audit" THEN Recorded(Now.audit, LastOne.job, st)
                                          ELSE Now.audit
              /\ Attempts # <<>> /\ Now.submitting # run.stage /\ st \in Statuses /\ st # "queued"
              /\ LastOne.status = "queued" /\ LastOne.job \in Jobs
<1> DEFINE st == receipts[LastOne.job].status
           tried == Recorded(Attempts, LastOne.job, st)
           new == [entries[run.at] EXCEPT ![run.stage] = tried]
<1>0. run.at \in DOMAIN entries  BY LookingAt DEF Refresh, Goes, Looks, Process
<1>1. /\ run.stage \in {"ingest", "audit"} /\ Attempts \in Seq(AttemptSet)
      /\ Attempts = IF run.stage = "ingest" THEN Now.ingest ELSE Now.audit
  BY <1>0, AttemptsAre
<1>2. Attempts # <<>> /\ Now.submitting # run.stage  BY DEF Refresh, MustSubmit
<1>3. LastOne \in AttemptSet /\ LastOne.job \in Jobs /\ LastOne.job \in 1..MaxPosted /\ st \in Statuses
  BY <1>0, <1>2, AttemptsAre DEF ReceiptSet
<1>4. entries[run.at] \in EntrySet  BY <1>0, EntryIs
<1> HIDE DEF st
<1>5. tried \in Seq(AttemptSet)  BY <1>1, <1>3, RecordedIs DEF Renewed, Longer
<1>6. entries' = [entries EXCEPT ![run.at][run.stage] = Recorded(@, LastOne.job, st)]
  BY DEF Refresh, st
<1>7. entries' = [entries EXCEPT ![run.at] = new]
  <2>1. entries \in Seq(EntrySet)  BY DEF Types
  <2> QED  BY <1>0, <1>1, <1>4, <1>6, <2>1 DEF EntrySet, Now
<1>8. tried = Recorded(IF run.stage = "ingest" THEN Now.ingest ELSE Now.audit, LastOne.job, st)  BY <1>1
<1> HIDE DEF tried
<1>9. /\ new \in EntrySet /\ new.source = entries[run.at].source /\ new.orphan = entries[run.at].orphan
      /\ new.ingest = IF run.stage = "ingest" THEN tried ELSE Now.ingest
      /\ new.audit = IF run.stage = "audit" THEN tried ELSE Now.audit
      /\ new.extra = Now.extra /\ new.status = Now.status /\ new.submitting = Now.submitting
  <2>1. CASE run.stage = "ingest"  BY <1>4, <1>5, <2>1 DEF EntrySet, Now
  <2>2. CASE run.stage = "audit"  BY <1>4, <1>5, <2>2 DEF EntrySet, Now
  <2> QED  BY <1>1, <2>1, <2>2
<1> HIDE DEF new
<1>10. /\ entries' \in Seq(EntrySet) /\ Len(entries') = Len(entries) /\ DOMAIN entries' = DOMAIN entries
      /\ entries'[run.at] = new /\ \A f \in DOMAIN entries : f # run.at => entries'[f] = entries[f]
  BY <1>0, <1>7, <1>9, OneEntry
<1>11. st # "queued" /\ LastOne.status = "queued"  BY DEF Refresh, st
<1> QED  BY <1>0, <1>1, <1>2, <1>3, <1>8, <1>9, <1>10, <1>11 DEF Touched, st

(* A version, or an orphaned ingest, is the last entry. *)
Added(source, orphan) ==
    LET e == Len(entries) + 1 IN
    /\ entries' \in Seq(EntrySet) /\ Len(entries') = e
    /\ DOMAIN entries' = DOMAIN entries \cup {e} /\ e \notin DOMAIN entries
    /\ \A f \in DOMAIN entries : entries'[f] = entries[f]
    /\ entries'[e].source = source /\ entries'[e].orphan = orphan
    /\ entries'[e].status = "pending" /\ entries'[e].submitting = "none"
    /\ entries'[e].extra = [s \in Stages |-> 0]

LEMMA AddSourceIs ==
    ASSUME ConstantsOK, Types, NEW i \in Identities, AddSource(i)
    PROVE  LET v == Cardinality(Versions(i)) + 1
           IN /\ v \in 1..MaxVersions /\ Cardinality(Versions(i)) \in Nat
              /\ Added(<<i, v>>, FALSE)
              /\ entries'[Len(entries) + 1].ingest = <<>> /\ entries'[Len(entries) + 1].audit = <<>>
<1> DEFINE v == Cardinality(Versions(i)) + 1
           new == Entry(<<i, v>>, <<>>, <<>>, FALSE)
<1>1. IsFiniteSet(Versions(i)) /\ Cardinality(Versions(i)) \in Nat
  <2>1. entries \in Seq(EntrySet)  BY DEF Types
  <2>2. DOMAIN entries = 1..Len(entries) /\ Len(entries) \in Nat  BY <2>1, LenProperties
  <2>3. IsFiniteSet(DOMAIN entries)  BY <2>2, FS_Interval
  <2>4. Versions(i) \in SUBSET DOMAIN entries  BY DEF Versions
  <2> QED  BY <2>3, <2>4, FS_Subset, FS_CardinalityType
<1>2. v \in 1..MaxVersions /\ entries' = Append(entries, new)  BY <1>1 DEF AddSource, ConstantsOK
<1> HIDE DEF v
<1>3. new \in EntrySet
  <2>1. <<>> \in Seq(AttemptSet)  BY EmptySeq
  <2>2. 0 \in 0..MaxBuilds  BY DEF ConstantsOK
  <2> QED  BY <1>2, <2>1, <2>2 DEF Entry, EntrySet, Sources
<1>4. /\ new.source = <<i, v>> /\ new.orphan = FALSE /\ new.status = "pending" /\ new.submitting = "none"
      /\ new.extra = [s \in Stages |-> 0] /\ new.ingest = <<>> /\ new.audit = <<>>
  BY DEF Entry
<1> HIDE DEF new
<1>5. Added(<<i, v>>, FALSE) /\ entries'[Len(entries) + 1] = new
  BY <1>2, <1>3, <1>4, LastEntry DEF Added
<1> QED  BY <1>1, <1>2, <1>4, <1>5 DEF v

LEMMA AdoptIs ==
    ASSUME ConstantsOK, Types, NEW j \in Jobs, Adopt(j)
    PROVE  LET e == Len(entries) + 1
           IN /\ Added(receipts[j].source, TRUE)
              /\ entries'[e].ingest = <<Attempt(j, "done")>>
              /\ \A n \in DOMAIN entries'[e].audit :
                   /\ entries'[e].audit[n].job \in AuditsOf(j) /\ entries'[e].audit[n].status = "failed"
                   /\ receipts[entries'[e].audit[n].job].status = "failed"
              /\ \A m, n \in DOMAIN entries'[e].audit : m < n => entries'[e].audit[m].job < entries'[e].audit[n].job
              /\ receipts[j].kind = "ingest" /\ receipts[j].status = "done"
<1> DEFINE S == {k \in AuditsOf(j) : receipts[k].status = "failed"}
<1>1. PICK f \in [1..Cardinality(S) -> S] :
        /\ \A m, n \in DOMAIN f : m < n => f[m] < f[n]
        /\ entries' = Append(entries, Entry(receipts[j].source, <<Attempt(j, "done")>>,
                                            [n \in DOMAIN f |-> Attempt(f[n], "failed")], TRUE))
  BY DEF Adopt, FailedAudits
<1>2. Cardinality(S) \in Nat /\ S \subseteq Jobs
  <2>1. S \in SUBSET Jobs  BY DEF AuditsOf
  <2> QED  BY <2>1, FewJobs
<1> DEFINE audits == [n \in DOMAIN f |-> Attempt(f[n], "failed")]
           new == Entry(receipts[j].source, <<Attempt(j, "done")>>, audits, TRUE)
<1>3. \A n \in 1..Cardinality(S) : f[n] \in S  BY <1>1
<1>4. audits \in Seq(AttemptSet) /\ DOMAIN audits = DOMAIN f
  <2>1. DOMAIN f = 1..Cardinality(S)  BY <1>1
  <2>2. S \subseteq 1..MaxPosted  BY <1>2, JobIs
  <2> HIDE DEF S
  <2>3. \A n \in 1..Cardinality(S) : Attempt(f[n], "failed") \in AttemptSet
    BY <1>3, <2>2 DEF Attempt, AttemptSet, Statuses
  <2>4. audits = [n \in 1..Cardinality(S) |-> Attempt(f[n], "failed")]  BY <2>1
  <2>5. [n \in 1..Cardinality(S) |-> Attempt(f[n], "failed")] \in Seq(AttemptSet)
    BY <1>2, <2>3, IsASeq
  <2> QED  BY <2>4, <2>5
<1>5. \A n \in DOMAIN audits : audits[n].job = f[n] /\ audits[n].status = "failed" /\ f[n] \in S
  BY <1>1, <1>3 DEF Attempt
<1>6. Attempt(j, "done") \in AttemptSet  BY JobIs DEF Attempt, AttemptSet, Statuses
<1> HIDE DEF audits
<1>7. new \in EntrySet
  <2>1. <<Attempt(j, "done")>> \in Seq(AttemptSet)  BY <1>6
  <2>2. 0 \in 0..MaxBuilds  BY DEF ConstantsOK
  <2>3. receipts[j].source \in Sources  BY JobIs DEF ReceiptSet
  <2> QED  BY <1>4, <2>1, <2>2, <2>3 DEF Entry, EntrySet
<1>8. /\ new.source = receipts[j].source /\ new.orphan = TRUE /\ new.status = "pending" /\ new.submitting = "none"
      /\ new.extra = [s \in Stages |-> 0] /\ new.ingest = <<Attempt(j, "done")>> /\ new.audit = audits
  BY DEF Entry
<1>9. entries' = Append(entries, new)  BY <1>1 DEF audits
<1> HIDE DEF new
<1>10. Added(receipts[j].source, TRUE) /\ entries'[Len(entries) + 1] = new
  BY <1>7, <1>8, <1>9, LastEntry DEF Added
<1>11. receipts[j].kind = "ingest" /\ receipts[j].status = "done"  BY DEF Adopt, Orphans
<1>12. ASSUME NEW m \in DOMAIN audits, NEW n \in DOMAIN audits, m < n PROVE audits[m].job < audits[n].job
  <2>1. m \in DOMAIN f /\ n \in DOMAIN f  BY <1>4
  <2>2. f[m] < f[n]  BY <1>1, <1>12, <2>1
  <2> QED  BY <1>5, <2>2
<1> HIDE DEF S
<1>13. \A n \in DOMAIN audits : f[n] \in AuditsOf(j) /\ receipts[f[n]].status = "failed"  BY <1>5 DEF S
<1>14. /\ entries'[Len(entries) + 1].ingest = <<Attempt(j, "done")>>
       /\ entries'[Len(entries) + 1].audit = audits
  BY <1>8, <1>10
<1>15. \A n \in DOMAIN audits : /\ audits[n].job \in AuditsOf(j) /\ audits[n].status = "failed"
                                /\ receipts[audits[n].job].status = "failed"
  BY <1>5, <1>13
<1>16. \A m, n \in DOMAIN audits : m < n => audits[m].job < audits[n].job  BY <1>12
<1> QED  BY <1>10, <1>11, <1>14, <1>15, <1>16

-----------------------------------------------------------------------------
(* What a step does to the writer's jobs: nothing, one ends, or there is a new one. *)
Ends(j) ==
    /\ j \in Jobs /\ receipts[j].status = "queued"
    /\ receipts' \in Seq(ReceiptSet) /\ Len(receipts') = Len(receipts) /\ Jobs' = Jobs
    /\ \A k \in Jobs : k # j => receipts'[k] = receipts[k]
    /\ receipts'[j].kind = receipts[j].kind /\ receipts'[j].source = receipts[j].source
    /\ receipts'[j].parent = receipts[j].parent /\ receipts'[j].build = receipts[j].build
    /\ receipts'[j].status \in {"done", "failed"}
    /\ receipts'[j].slip => receipts'[j].status = "done" /\ receipts[j].kind = "audit"
    /\ receipts'[j].status = "failed" => receipts'[j].class # "none"

Comes(j) ==
    /\ run.at \in DOMAIN entries /\ run.step = "post" /\ NewJob(j)
    /\ receipts' \in Seq(ReceiptSet) /\ Len(receipts') = Len(receipts) + 1
    /\ Jobs' = Jobs \cup {j} /\ j \notin Jobs
    /\ receipts'[j] = NewReceipt
    /\ \A k \in Jobs : receipts'[k] = receipts[k] /\ k < j

JobStep == receipts' = receipts \/ (\E j \in Jobs : Ends(j)) \/ (\E j \in Nat : Comes(j))

(* What is said of a job stays; the rest once it ended. *)
Evolves ==
    /\ receipts' \in Seq(ReceiptSet) /\ Len(receipts') <= MaxPosted /\ Jobs \subseteq Jobs'
    /\ \A k \in Jobs :
         /\ receipts'[k].kind = receipts[k].kind /\ receipts'[k].source = receipts[k].source
         /\ receipts'[k].parent = receipts[k].parent /\ receipts'[k].build = receipts[k].build
         /\ receipts[k].status # "queued" => receipts'[k] = receipts[k]

LEMMA LandsIs ==
    ASSUME ConstantsOK, Types, \A k \in Jobs : Linked(k), NEW j \in Jobs, Lands(j)
    PROVE  Ends(j) /\ receipts'[j].status = "done"
<1>1. PICK slip \in {FALSE, receipts[j].kind = "audit"} :
        receipts' = [receipts EXCEPT ![j].status = "done", ![j].slip = slip]
  BY DEF Lands
<1> DEFINE new == [receipts[j] EXCEPT !.status = "done", !.slip = slip]
<1>2. receipts[j] \in ReceiptSet /\ Jobs = DOMAIN receipts  BY JobIs
<1>3. receipts' = [receipts EXCEPT ![j] = new]
  <2>1. receipts \in Seq(ReceiptSet)  BY DEF Types
  <2> QED  BY <1>1, <1>2, <2>1 DEF ReceiptSet
<1>4. slip \in BOOLEAN /\ (slip => receipts[j].kind = "audit")
  <2>1. CASE slip = FALSE  BY <2>1
  <2>2. CASE slip = (receipts[j].kind = "audit")  BY <2>2
  <2> QED  BY <2>1, <2>2
<1>5. /\ new \in ReceiptSet /\ new.kind = receipts[j].kind /\ new.source = receipts[j].source
      /\ new.parent = receipts[j].parent /\ new.build = receipts[j].build
      /\ new.status = "done" /\ (new.slip => receipts[j].kind = "audit")
  BY <1>2, <1>4 DEF ReceiptSet, Statuses
<1> HIDE DEF new
<1>6. /\ receipts' \in Seq(ReceiptSet) /\ Len(receipts') = Len(receipts) /\ Jobs' = Jobs
      /\ receipts'[j] = new /\ \A k \in Jobs : k # j => receipts'[k] = receipts[k]
  BY <1>3, <1>5, OneJob
<1> QED  BY <1>5, <1>6 DEF Ends, Lands

LEMMA FailsIs ==
    ASSUME ConstantsOK, Types, \A k \in Jobs : Linked(k), NEW j \in Jobs, Fails(j)
    PROVE  Ends(j) /\ receipts'[j].status = "failed"
<1>1. PICK o \in Outcomes :
        receipts' = [receipts EXCEPT ![j].status = "failed", ![j].class = o[1], ![j].rolled = o[2]]
  BY DEF Fails
<1> DEFINE new == [receipts[j] EXCEPT !.status = "failed", !.class = o[1], !.rolled = o[2]]
<1>2. receipts[j] \in ReceiptSet /\ Jobs = DOMAIN receipts  BY JobIs
<1>3. receipts' = [receipts EXCEPT ![j] = new]
  <2>1. receipts \in Seq(ReceiptSet)  BY DEF Types
  <2> QED  BY <1>1, <1>2, <2>1 DEF ReceiptSet
<1>4. o[1] \in {"capacity", "counted", "final"} /\ o[2] \in BOOLEAN
  <2>1. \/ o = <<"capacity", TRUE>> \/ o = <<"counted", TRUE>>
        \/ o = <<"final", TRUE>> \/ o = <<"counted", FALSE>>
    BY DEF Outcomes
  <2>2. CASE o = <<"capacity", TRUE>>  BY <2>2
  <2>3. CASE o = <<"counted", TRUE>>  BY <2>3
  <2>4. CASE o = <<"final", TRUE>>  BY <2>4
  <2>5. CASE o = <<"counted", FALSE>>  BY <2>5
  <2> QED  BY <2>1, <2>2, <2>3, <2>4, <2>5
<1>5. ~receipts[j].slip  BY DEF Linked, Fails
<1>6. /\ new \in ReceiptSet /\ new.kind = receipts[j].kind /\ new.source = receipts[j].source
      /\ new.parent = receipts[j].parent /\ new.build = receipts[j].build
      /\ new.status = "failed" /\ ~new.slip /\ new.class # "none"
  BY <1>2, <1>4, <1>5 DEF ReceiptSet, Statuses
<1> HIDE DEF new
<1>7. /\ receipts' \in Seq(ReceiptSet) /\ Len(receipts') = Len(receipts) /\ Jobs' = Jobs
      /\ receipts'[j] = new /\ \A k \in Jobs : k # j => receipts'[k] = receipts[k]
  BY <1>3, <1>6, OneJob
<1> QED  BY <1>6, <1>7 DEF Ends, Fails

LEMMA ComesIs ==
    ASSUME ConstantsOK, Types, run.at \in DOMAIN entries, run.step = "post", NEW j, NewJob(j)
    PROVE  Comes(j) /\ j \in Nat
<1>1. Len(receipts) \in Nat /\ Jobs = 1..Len(receipts)  BY JobIs DEF Jobs
<1>2. /\ receipts' \in Seq(ReceiptSet) /\ Len(receipts') = Len(receipts) + 1
      /\ Jobs' = Jobs \cup {j} /\ j \notin Jobs /\ receipts'[j] = NewReceipt
      /\ \A k \in Jobs : receipts'[k] = receipts[k]
  BY LastJob DEF NewJob
<1>3. j = Len(receipts) + 1  BY DEF NewJob
<1> QED  BY <1>1, <1>2, <1>3 DEF Comes

LEMMA JobsEvolve ==
    ASSUME ConstantsOK, Types, JobStep
    PROVE  Evolves
<1>1. /\ receipts \in Seq(ReceiptSet) /\ Len(receipts) <= MaxPosted
      /\ Len(receipts) \in Nat
  BY JobIs DEF Types
<1>2. CASE receipts' = receipts  BY <1>1, <1>2 DEF Evolves, Jobs
<1>3. ASSUME NEW j \in Jobs, Ends(j) PROVE Evolves
  BY <1>1, <1>3 DEF Evolves, Ends
<1>4. ASSUME NEW j \in Nat, Comes(j) PROVE Evolves
  <2>1. Len(receipts') <= MaxPosted  BY <1>1, <1>4 DEF Comes, NewJob
  <2> QED  BY <1>4, <2>1 DEF Evolves, Comes
<1> QED  BY <1>2, <1>3, <1>4 DEF JobStep

(* The receipts still say of each other what they did. *)
LEMMA LinkedKept ==
    ASSUME ConstantsOK, Types, JobStep, \A j \in Jobs : Linked(j), build' \in Nat, build <= build',
           Posting, \A e \in DOMAIN entries : Refers(e)
    PROVE  \A j \in Jobs' : Linked(j)'
<1>0. Evolves  BY JobsEvolve
<1>00. build \in Nat  BY DEF Types
<1>a. ASSUME NEW j \in Jobs, receipts'[j] = receipts[j] PROVE Linked(j)'
  <2>1. Linked(j) /\ receipts[j] \in ReceiptSet  BY JobIs
  <2>2. receipts[j].build <= build'
    <3>1. receipts[j].build \in Nat  BY <2>1 DEF ReceiptSet
    <3> QED  BY <1>00, <2>1, <3>1 DEF Linked
  <2>3. receipts[j].kind = "audit" =>
          /\ receipts[j].parent \in Jobs' /\ receipts'[receipts[j].parent].kind = "ingest"
          /\ receipts'[receipts[j].parent].status = "done"
    BY <1>0, <2>1 DEF Linked, Evolves
  <2> QED  BY <1>a, <2>1, <2>2, <2>3 DEF Linked
<1>1. CASE receipts' = receipts
  <2>1. Jobs' = Jobs  BY <1>1 DEF Jobs
  <2> QED  BY <1>a, <1>1, <2>1
<1>2. ASSUME NEW i \in Jobs, Ends(i), NEW j \in Jobs' PROVE Linked(j)'
  <2>1. j \in Jobs  BY <1>2 DEF Ends
  <2>2. CASE j # i  BY <1>a, <1>2, <2>1, <2>2 DEF Ends
  <2>3. CASE j = i
    <3>1. Linked(i) /\ receipts[i] \in ReceiptSet  BY <1>2, JobIs
    <3>2. receipts[i].build <= build'
      <4>1. receipts[i].build \in Nat  BY <3>1 DEF ReceiptSet
      <4> QED  BY <1>00, <3>1, <4>1 DEF Linked
    <3>3. receipts[i].kind = "audit" =>
            /\ receipts[i].parent \in Jobs' /\ receipts'[receipts[i].parent].kind = "ingest"
            /\ receipts'[receipts[i].parent].status = "done"
      BY <1>0, <3>1 DEF Linked, Evolves
    <3>4. receipts[i].kind = "ingest" => receipts[i].parent = 0  BY <3>1 DEF Linked
    <3> QED  BY <1>2, <2>3, <3>2, <3>3, <3>4 DEF Linked, Ends
  <2> QED  BY <2>2, <2>3
<1>3. ASSUME NEW i \in Nat, Comes(i), NEW j \in Jobs' PROVE Linked(j)'
  <2>1. CASE j \in Jobs  BY <1>a, <1>3, <2>1 DEF Comes
  <2>2. CASE j = i
    <3>1. receipts'[i] = NewReceipt  BY <1>3 DEF Comes
    <3>2. run.stage \in {"ingest", "audit"}  BY DEF Types, Stages
    <3>3. /\ NewReceipt.kind = run.stage /\ NewReceipt.slip = FALSE /\ NewReceipt.status = "queued"
          /\ NewReceipt.build = build /\ NewReceipt.parent = IF run.stage = "audit" THEN Parent ELSE 0
      BY DEF NewReceipt, Receipt
    <3>4. ASSUME run.stage = "audit"
          PROVE  Parent \in Jobs' /\ receipts'[Parent].kind = "ingest" /\ receipts'[Parent].status = "done"
      <4>1. Now.ingest # <<>> /\ run.at \in DOMAIN entries  BY <1>3, <3>4 DEF Types, Comes
      <4>2. Len(Now.ingest) \in DOMAIN entries[run.at].ingest
        <5>1. Now.ingest \in Seq(AttemptSet)  BY <4>1, EntryIs DEF Now
        <5>2. Len(Now.ingest) \in Nat /\ Len(Now.ingest) # 0 /\ DOMAIN Now.ingest = 1..Len(Now.ingest)
          BY <4>1, <5>1, LenProperties, EmptySeq
        <5> QED  BY <5>2 DEF Now
      <4>3. Parent \in Ingests(entries[run.at].source)  BY <4>1, <4>2 DEF Parent, Refers, Now
      <4>4. receipts[Parent].status = "done"  BY <1>3, <3>4 DEF Comes, NewJob
      <4>5. Parent \in Jobs /\ receipts[Parent].kind = "ingest"  BY <4>3 DEF Ingests
      <4> QED  BY <1>0, <4>4, <4>5 DEF Evolves
    <3> HIDE DEF NewReceipt
    <3>5. build <= build'  OBVIOUS
    <3> QED  BY <2>2, <3>1, <3>2, <3>3, <3>4, <3>5 DEF Linked
  <2> QED  BY <1>3, <2>1, <2>2 DEF Comes
<1> QED  BY <1>1, <1>2, <1>3 DEF JobStep

(* A version has one reusable ingest, whatever a step does to the jobs. *)
LEMMA UniqueKept ==
    ASSUME ConstantsOK, Types, JobStep, UniqueIngest
    PROVE  UniqueIngest'
<1>0. Evolves  BY JobsEvolve
<1>1. ASSUME NEW j \in Jobs, receipts'[j].status \in {"queued", "done"},
             receipts' = receipts \/ \E i \in Jobs : Ends(i)
      PROVE  Reusable(j)
  BY <1>1 DEF Reusable, Ends
<1>2. CASE receipts' = receipts \/ \E i \in Jobs : Ends(i)
  <2> SUFFICES ASSUME NEW j \in Jobs', NEW k \in Jobs', receipts'[j].kind = "ingest", receipts'[k].kind = "ingest",
                      Reusable(j)', Reusable(k)', receipts'[j].source = receipts'[k].source
               PROVE  j = k
    BY DEF UniqueIngest
  <2>1. j \in Jobs /\ k \in Jobs  BY <1>2 DEF Ends, Jobs
  <2>2. Reusable(j) /\ Reusable(k)  BY <1>1, <1>2, <2>1 DEF Reusable
  <2>3. /\ receipts[j].kind = "ingest" /\ receipts[k].kind = "ingest"
        /\ receipts[j].source = receipts[k].source
    BY <1>0, <2>1 DEF Evolves
  <2> QED  BY <2>1, <2>2, <2>3 DEF UniqueIngest
<1>3. ASSUME NEW i \in Nat, Comes(i) PROVE UniqueIngest'
  <2> SUFFICES ASSUME NEW j \in Jobs', NEW k \in Jobs', receipts'[j].kind = "ingest", receipts'[k].kind = "ingest",
                      Reusable(j)', Reusable(k)', receipts'[j].source = receipts'[k].source
               PROVE  j = k
    BY DEF UniqueIngest
  <2>1. NewReceipt.kind = run.stage /\ NewReceipt.source = Now.source  BY DEF NewReceipt, Receipt
  <2>2. ASSUME NEW m \in Jobs, receipts'[m].kind = "ingest", Reusable(m)', receipts'[m].source = Now.source,
               run.stage = "ingest"
        PROVE  FALSE
    <3>1. receipts'[m] = receipts[m]  BY <1>3 DEF Comes
    <3>2. m \in IngestOf(Now.source)  BY <2>2, <3>1 DEF IngestOf, Reusable
    <3> QED  BY <1>3, <2>2, <3>2 DEF Comes, NewJob
  <2> HIDE DEF NewReceipt
  <2>3. CASE j \in Jobs /\ k \in Jobs
    <3>1. receipts'[j] = receipts[j] /\ receipts'[k] = receipts[k]  BY <1>3, <2>3 DEF Comes
    <3> QED  BY <2>3, <3>1 DEF UniqueIngest, Reusable
  <2>4. CASE j \in Jobs /\ k = i  BY <1>3, <2>1, <2>2, <2>4 DEF Comes
  <2>5. CASE k \in Jobs /\ j = i  BY <1>3, <2>1, <2>2, <2>5 DEF Comes
  <2> QED  BY <1>3, <2>3, <2>4, <2>5 DEF Comes
<1> QED  BY <1>2, <1>3 DEF JobStep

(* Reviews of an ingest come in turn. *)
LEMMA InTurnKept ==
    ASSUME ConstantsOK, Types, JobStep, AuditsInTurn, \A j \in Jobs : Linked(j)
    PROVE  AuditsInTurn'
<1>0. Evolves /\ Jobs \subseteq Nat  BY JobsEvolve, JobIs
<1> SUFFICES ASSUME NEW j \in Jobs', NEW k \in Jobs', receipts'[j].kind = "audit", receipts'[k].kind = "audit",
                    j < k, Reusable(j)', receipts'[j].parent = receipts'[k].parent
             PROVE  receipts'[j].slip /\ Cardinality(Slipped(j)') < Slips
  BY DEF AuditsInTurn
<1>1. CASE receipts' = receipts
  <2>1. Jobs' = Jobs  BY <1>1 DEF Jobs
  <2>2. Slipped(j)' = Slipped(j) /\ Reusable(j)  BY <1>1, <2>1 DEF Slipped, AuditsOf, Reusable
  <2> QED  BY <1>1, <2>1, <2>2 DEF AuditsInTurn
<1>2. ASSUME NEW i \in Jobs, Ends(i) PROVE receipts'[j].slip /\ Cardinality(Slipped(j)') < Slips
  <2>1. j \in Jobs /\ k \in Jobs /\ Jobs' = Jobs  BY <1>2 DEF Ends
  <2>2. /\ receipts[j].kind = "audit" /\ receipts[k].kind = "audit" /\ receipts[j].parent = receipts[k].parent
        /\ Reusable(j)
    BY <1>0, <1>2, <2>1 DEF Evolves, Reusable, Ends
  <2>3. receipts[j].slip /\ Cardinality(Slipped(j)) < Slips  BY <2>1, <2>2 DEF AuditsInTurn
  <2>4. receipts'[j] = receipts[j]  BY <1>0, <2>1, <2>3 DEF Evolves, Linked
  <2>5. ASSUME i \in AuditsOf(receipts[j].parent), i <= j PROVE FALSE
    <3>1. i # j  BY <1>2, <2>1, <2>3 DEF Ends, Linked
    <3>2. i < j  BY <1>0, <1>2, <2>1, <2>5, <3>1
    <3>3. Reusable(i) /\ receipts[i].kind = "audit" /\ receipts[i].parent = receipts[j].parent
      BY <1>2, <2>5 DEF Ends, Reusable, AuditsOf
    <3>4. receipts[i].slip  BY <1>2, <2>1, <2>2, <3>2, <3>3 DEF AuditsInTurn
    <3> QED  BY <1>2, <3>4 DEF Ends, Linked
  <2>6. \A m \in Jobs : m \in Slipped(j)' <=> m \in Slipped(j)
    <3> TAKE m \in Jobs
    <3>1. CASE m = i
      <4>1. m \notin Slipped(j)  BY <2>5, <3>1 DEF Slipped
      <4>2. m \in Slipped(j)' => m \in AuditsOf(receipts[j].parent) /\ m <= j
        BY <1>0, <2>1, <2>4, <3>1 DEF Slipped, AuditsOf, Evolves
      <4> QED  BY <2>5, <3>1, <4>1, <4>2
    <3>2. CASE m # i
      <4>1. receipts'[m] = receipts[m]  BY <1>2, <3>2 DEF Ends
      <4> QED  BY <2>1, <2>4, <4>1 DEF Slipped, AuditsOf
    <3> QED  BY <3>1, <3>2
  <2>7. Slipped(j)' \subseteq Jobs /\ Slipped(j) \subseteq Jobs  BY <2>1 DEF Slipped, AuditsOf
  <2>8. Slipped(j)' = Slipped(j)  BY <2>6, <2>7
  <2> QED  BY <2>3, <2>4, <2>8
<1>3. ASSUME NEW i \in Nat, Comes(i) PROVE receipts'[j].slip /\ Cardinality(Slipped(j)') < Slips
  <2>1. j \in Jobs
    <3>1. j # i  BY <1>0, <1>3 DEF Comes
    <3> QED  BY <1>3, <3>1 DEF Comes
  <2>2. receipts'[j] = receipts[j] /\ Reusable(j) /\ receipts[j].kind = "audit"  BY <1>3, <2>1 DEF Comes, Reusable
  <2>3. Slipped(j)' = Slipped(j)
    <3>1. j < i /\ j \in Nat /\ Jobs' = Jobs \cup {i}  BY <1>0, <1>3, <2>1 DEF Comes
    <3>2. \A m \in Jobs : receipts'[m] = receipts[m]  BY <1>3 DEF Comes
    <3>3. \A m \in Slipped(j)' : m \in Jobs /\ m \in Slipped(j)
      <4> TAKE m \in Slipped(j)'
      <4>1. m \in Jobs' /\ m <= j  BY DEF Slipped, AuditsOf
      <4>2. m \in Jobs  BY <1>0, <1>3, <3>1, <4>1 DEF Comes
      <4> QED  BY <2>2, <3>2, <4>2 DEF Slipped, AuditsOf
    <3>4. \A m \in Slipped(j) : m \in Slipped(j)'
      <4> TAKE m \in Slipped(j)
      <4>1. m \in Jobs /\ m \in Jobs'  BY <3>1 DEF Slipped, AuditsOf
      <4> QED  BY <2>2, <3>2, <4>1 DEF Slipped, AuditsOf
    <3> QED  BY <3>3, <3>4
  <2>4. CASE k \in Jobs
    <3>1. receipts'[k] = receipts[k]  BY <1>3, <2>4 DEF Comes
    <3> QED  BY <2>1, <2>2, <2>3, <2>4, <3>1 DEF AuditsInTurn
  <2>5. CASE k = i
    <3>1. receipts'[i] = NewReceipt  BY <1>3 DEF Comes
    <3>2. NewReceipt.kind = run.stage /\ NewReceipt.parent = IF run.stage = "audit" THEN Parent ELSE 0
      BY DEF NewReceipt, Receipt
    <3> HIDE DEF NewReceipt
    <3>3. run.stage = "audit" /\ receipts[j].parent = Parent  BY <2>2, <2>5, <3>1, <3>2
    <3> DEFINE S == {m \in AuditsOf(Parent) : receipts[m].slip}
               W == {m \in AuditsOf(Parent) : Reusable(m)}
    <3>4. j \in W  BY <2>1, <2>2, <3>3 DEF AuditsOf
    <3>5. Newest(W) \in W /\ \A m \in W : m <= Newest(W)
      <4>1. W \subseteq 1..Len(receipts) /\ Len(receipts) \in Nat  BY JobIs DEF AuditsOf, Jobs
      <4> HIDE DEF W
      <4> QED  BY <3>4, <4>1, NewestIs
    <3>6. PICK m \in W : \A n \in W : n <= m  BY <3>5
    <3>7. receipts[m].slip /\ Cardinality(S) < Slips  BY <1>3, <3>3, <3>6 DEF Comes, NewJob
    <3>8. receipts[j].slip
      <4>1. CASE j = m  BY <3>7, <4>1
      <4>2. CASE j # m
        <5>1. j < m /\ m \in Jobs  BY <1>0, <2>1, <3>4, <3>6, <4>2 DEF AuditsOf
        <5> QED  BY <2>1, <2>2, <3>3, <3>6, <5>1 DEF AuditsInTurn, AuditsOf
      <4> QED  BY <4>1, <4>2
    <3>9. Cardinality(Slipped(j)) <= Cardinality(S) /\ Cardinality(S) \in Nat /\ Cardinality(Slipped(j)) \in Nat
      <4>1. Slipped(j) \subseteq S  BY <3>3 DEF Slipped
      <4>2. S \in SUBSET Jobs  BY DEF AuditsOf
      <4>3. Slipped(j) \in SUBSET Jobs  BY DEF Slipped, AuditsOf
      <4>4. IsFiniteSet(S)  BY <4>2, FewJobs
      <4> QED  BY <4>1, <4>2, <4>3, <4>4, FewJobs, FS_Subset
    <3>10. Slips \in Nat  BY DEF ConstantsOK
    <3> QED  BY <2>2, <2>3, <3>7, <3>8, <3>9, <3>10
  <2> QED  BY <1>3, <2>4, <2>5 DEF Comes
<1> QED  BY <1>1, <1>2, <1>3 DEF JobStep

(* What was ingested stays so. *)
LEMMA DoneKept ==
    ASSUME Evolves, NEW s, Done(s)
    PROVE  Done(s)'
<1>1. PICK j \in Ingests(s) : receipts[j].status = "done"  BY DEF Done
<1>2. j \in Jobs /\ receipts'[j] = receipts[j] /\ j \in Jobs'  BY <1>1 DEF Ingests, Evolves
<1> QED  BY <1>1, <1>2 DEF Done, Ingests

LEMMA LandedKept ==
    ASSUME ConstantsOK, Types, Evolves, LandedDone,
           \/ landed' = landed
           \/ \E j \in Jobs : /\ receipts[j].kind = "ingest" /\ receipts'[j].status = "done"
                              /\ landed' = Append(landed, receipts[j].source)
    PROVE  LandedDone'
<1>1. CASE landed' = landed  BY <1>1, DoneKept DEF LandedDone
<1>2. ASSUME NEW j \in Jobs, receipts[j].kind = "ingest", receipts'[j].status = "done",
             landed' = Append(landed, receipts[j].source)
      PROVE  LandedDone'
  <2>1. landed \in Seq(Sources) /\ DOMAIN landed = 1..Len(landed) /\ Len(landed) \in Nat
    BY LenProperties DEF Types
  <2>2. /\ DOMAIN landed' = 1..(Len(landed) + 1) /\ landed'[Len(landed) + 1] = receipts[j].source
        /\ \A n \in 1..Len(landed) : landed'[n] = landed[n]
    <3>1. receipts[j].source \in Sources  BY JobIs DEF ReceiptSet
    <3> DEFINE x == receipts[j].source
    <3> HIDE DEF x
    <3>2. /\ Append(landed, x) \in Seq(Sources) /\ Len(Append(landed, x)) = Len(landed) + 1
          /\ \A n \in 1..Len(landed) : Append(landed, x)[n] = landed[n]
          /\ Append(landed, x)[Len(landed) + 1] = x
      BY <2>1, <3>1, AppendProperties DEF x
    <3>3. DOMAIN Append(landed, x) = 1..Len(Append(landed, x))  BY <3>2, LenProperties
    <3>4. landed' = Append(landed, x)  BY <1>2 DEF x
    <3> QED  BY <3>2, <3>3, <3>4 DEF x
  <2>3. Done(receipts[j].source)'
    <3>1. j \in Jobs' /\ receipts'[j].kind = "ingest" /\ receipts'[j].source = receipts[j].source
      BY <1>2 DEF Evolves
    <3> QED  BY <1>2, <3>1 DEF Done, Ingests
  <2> SUFFICES ASSUME NEW m \in DOMAIN landed' PROVE Done(landed[m])'
    BY DEF LandedDone
  <2>4. CASE m = Len(landed) + 1
    <3>1. landed'[m] = receipts[j].source  BY <2>2, <2>4
    <3>2. receipts'[j].source = receipts[j].source  BY <1>2 DEF Evolves
    <3> QED  BY <2>3, <3>1, <3>2 DEF Done, Ingests
  <2>5. CASE m \in 1..Len(landed)
    <3>1. Done(landed[m])  BY <2>1, <2>5 DEF LandedDone
    <3>2. Done(landed[m])' <=> \E k \in Jobs' : receipts'[k].kind = "ingest" /\ receipts'[k].source = landed'[m]
                                                /\ receipts'[k].status = "done"
      BY DEF Done, Ingests
    <3>3. landed'[m] = landed[m]  BY <2>2, <2>5
    <3>4. PICK k \in Jobs : receipts[k].kind = "ingest" /\ receipts[k].source = landed[m] /\ receipts[k].status = "done"
      BY <3>1 DEF Done, Ingests
    <3>5. k \in Jobs' /\ receipts'[k] = receipts[k]  BY <3>4 DEF Evolves
    <3> QED  BY <3>2, <3>3, <3>4, <3>5
  <2> QED  BY <2>1, <2>2, <2>4, <2>5
<1> QED  BY <1>1, <1>2

-----------------------------------------------------------------------------
(* What a step does, whichever it is. *)
EntryStep ==
    \/ entries' = entries
    \/ \E e \in DOMAIN entries : Touched(e)
    \/ \E s \in Sources, o \in BOOLEAN : Added(s, o) /\ Len(entries) < MaxEntries

LandedStep ==
    \/ landed' = landed
    \/ \E j \in Jobs : /\ receipts[j].kind = "ingest" /\ receipts'[j].status = "done"
                       /\ landed' = Append(landed, receipts[j].source)

StepKind ==
    /\ JobStep /\ EntryStep /\ LandedStep
    /\ build' \in 1..MaxBuilds /\ build <= build'
    /\ loose \subseteq loose' /\ loose' \subseteq Sources
    /\ lost' \in 0..MaxOdd /\ lost <= lost' /\ imports' \in 0..MaxOdd

LEMMA StepIs ==
    ASSUME ConstantsOK, Types, \A j \in Jobs : Linked(j), \A e \in DOMAIN entries : Refers(e), Next
    PROVE  StepKind
<1> DEFINE Bounds == /\ build' \in 1..MaxBuilds /\ build <= build'
                     /\ lost' \in 0..MaxOdd /\ lost <= lost' /\ imports' \in 0..MaxOdd
           Kept    == UNCHANGED <<build, lost, imports>>
           Odder   == /\ build' = build /\ lost + imports < MaxOdd
                      /\ \/ lost' = lost + 1 /\ imports' = imports
                         \/ imports' = imports + 1 /\ lost' = lost
<1>a. build \in 1..MaxBuilds /\ lost \in 0..MaxOdd /\ imports \in 0..MaxOdd /\ loose \subseteq Sources
      /\ MaxOdd \in Nat /\ MaxBuilds \in Nat
  BY DEF Types, ConstantsOK
<1>b. Kept => Bounds  BY <1>a
<1>c. Odder => Bounds  BY <1>a
<1> HIDE DEF Bounds
<1>d. ASSUME NEW s \in Sources PROVE loose \subseteq GivenUp(s) /\ GivenUp(s) \subseteq Sources
  BY <1>a DEF GivenUp
<1>e. run.at \in DOMAIN entries => Now.source \in Sources  BY EntryIs DEF Now
<1>f. ASSUME JobStep, EntryStep, LandedStep, Bounds, loose \subseteq loose', loose' \subseteq Sources PROVE StepKind
  BY <1>f DEF StepKind, Bounds
<1>1. ASSUME NEW j \in Jobs, Lands(j) PROVE StepKind
  <2>1. Ends(j) /\ receipts'[j].status = "done"  BY <1>1, LandsIs
  <2>2. JobStep /\ LandedStep  BY <1>1, <2>1 DEF JobStep, LandedStep, Lands
  <2> QED  BY <1>1, <1>a, <1>b, <1>f, <2>2 DEF Lands, EntryStep
<1>2. ASSUME NEW j \in Jobs, Fails(j) PROVE StepKind
  <2>1. Ends(j)  BY <1>2, FailsIs
  <2>2. JobStep /\ LandedStep  BY <1>2, <2>1 DEF JobStep, LandedStep, Fails
  <2> QED  BY <1>2, <1>a, <1>b, <1>f, <2>2 DEF Fails, EntryStep
<1>3. ASSUME NEW j \in Jobs, Adopt(j) PROVE StepKind
  <2>1. Added(receipts[j].source, TRUE)  BY <1>3, AdoptIs
  <2>2. receipts[j].source \in Sources  BY JobIs DEF ReceiptSet
  <2>3. EntryStep  BY <1>3, <2>1, <2>2 DEF EntryStep, Adopt
  <2> QED  BY <1>3, <1>a, <1>b, <1>f, <2>3 DEF Adopt, JobStep, LandedStep
<1>4. ASSUME NEW i \in Identities, AddSource(i) PROVE StepKind
  <2> DEFINE v == Cardinality(Versions(i)) + 1
  <2>1. v \in 1..MaxVersions /\ Added(<<i, v>>, FALSE)  BY <1>4, AddSourceIs
  <2> HIDE DEF v
  <2>2. <<i, v>> \in Sources  BY <2>1 DEF Sources
  <2>3. EntryStep  BY <1>4, <2>1, <2>2 DEF EntryStep, AddSource
  <2> QED  BY <1>4, <1>a, <1>b, <1>f, <2>3 DEF AddSource, JobStep, LandedStep
<1>5. ASSUME NEW e \in DOMAIN entries, Drop(e) PROVE StepKind
  <2>1. Touched(e)  BY <1>5, DropIs
  <2>2. entries[e].source \in Sources  BY EntryIs
  <2>3. EntryStep  BY <2>1 DEF EntryStep
  <2> QED  BY <1>5, <1>a, <1>b, <1>d, <1>f, <2>2, <2>3 DEF Drop, JobStep, LandedStep
<1>6. ASSUME NEW e \in DOMAIN entries, NEW j \in Jobs, Import(e, j) PROVE StepKind
  <2>1. Touched(e)  BY <1>6, ImportIs
  <2>2. entries[e].source \in Sources  BY EntryIs
  <2>3. EntryStep  BY <2>1 DEF EntryStep
  <2>4. loose \subseteq loose' /\ loose' \subseteq Sources  BY <1>6, <1>a, <2>2 DEF Import
  <2>5. Odder  BY <1>6 DEF Import, Odd
  <2> QED  BY <1>6, <1>c, <1>f, <2>3, <2>4, <2>5 DEF Import, JobStep, LandedStep
<1>7. ASSUME NEW j \in 1..MaxPosted, Post(j) PROVE StepKind
  <2>1. run.at \in DOMAIN entries /\ run.step = "post"  BY <1>7 DEF Post, Types
  <2>2. OldJob(j) \/ NewJob(j)  BY <1>7, <2>1, PostedIs DEF Post
  <2>3. JobStep  BY <2>1, <2>2, ComesIs DEF JobStep, OldJob
  <2> QED  BY <1>7, <1>a, <1>b, <1>f, <2>3 DEF Post, EntryStep, LandedStep
<1>8. CASE PostLost
  <2>1. run.at \in DOMAIN entries /\ run.step = "post"  BY <1>8 DEF PostLost, Types
  <2>2. /\ Touched(run.at) /\ (receipts' = receipts \/ \E j \in 1..MaxPosted : NewJob(j))
        /\ Odder /\ UNCHANGED <<landed, loose>>
    BY <1>8, PostLostIs DEF Left
  <2>3. JobStep  BY <2>1, <2>2, ComesIs DEF JobStep
  <2>4. EntryStep  BY <2>1, <2>2 DEF EntryStep
  <2> QED  BY <1>a, <1>c, <1>f, <2>2, <2>3, <2>4 DEF LandedStep
<1>9. CASE Refused
  <2>1. /\ Touched(run.at) /\ run.at \in DOMAIN entries /\ Odder /\ UNCHANGED <<landed, receipts>>
        /\ loose' = IF run.stage = "ingest" THEN GivenUp(Now.source) ELSE loose
    BY <1>9, RefusedIs DEF Left
  <2>2. EntryStep  BY <2>1 DEF EntryStep
  <2>3. loose \subseteq loose' /\ loose' \subseteq Sources  BY <1>a, <1>d, <1>e, <2>1
  <2> QED  BY <1>c, <1>f, <2>1, <2>2, <2>3 DEF LandedStep, JobStep
<1>10. ASSUME Looking, NEW st \in EntryStatus, NEW stops, LeaveAs(st, stops),
              loose' = loose \/ loose' = GivenUp(Now.source)
       PROVE  StepKind
  <2>1. Touched(run.at) /\ run.at \in DOMAIN entries /\ UNCHANGED <<build, receipts, lost, imports, landed>>
    BY <1>10, LeaveAsIs DEF Left
  <2>2. EntryStep  BY <2>1 DEF EntryStep
  <2>3. loose \subseteq loose' /\ loose' \subseteq Sources  BY <1>10, <1>a, <1>d, <1>e, <2>1
  <2> QED  BY <1>b, <1>f, <2>1, <2>2, <2>3 DEF LandedStep, JobStep
<1>11. CASE Intend
  <2>1. EntryStep  BY <1>11, IntendIs DEF EntryStep
  <2> QED  BY <1>11, <1>a, <1>b, <1>f, <2>1 DEF Intend, JobStep, LandedStep
<1>12. CASE Record
  <2>1. EntryStep  BY <1>12, RecordIs DEF EntryStep
  <2> QED  BY <1>12, <1>a, <1>b, <1>f, <2>1 DEF Record, JobStep, LandedStep
<1>13. CASE Refresh
  <2>1. EntryStep  BY <1>13, RefreshIs DEF EntryStep
  <2> QED  BY <1>13, <1>a, <1>b, <1>f, <2>1 DEF Refresh, JobStep, LandedStep
<1>14. CASE Deploy
  <2>1. Bounds  BY <1>14, <1>a DEF Deploy, Bounds
  <2> QED  BY <1>14, <1>a, <1>f, <2>1 DEF Deploy, JobStep, LandedStep, EntryStep
<1>15. CASE RunnerDies
  <2>1. Kept \/ Odder  BY <1>15 DEF RunnerDies, Odd
  <2> QED  BY <1>15, <1>a, <1>b, <1>c, <1>f, <2>1 DEF RunnerDies, JobStep, LandedStep, EntryStep
<1>16. CASE StartRun \/ SkipEntry \/ EndRun \/ NextStage
  BY <1>16, <1>a, <1>b, <1>f DEF StartRun, SkipEntry, EndRun, NextStage, JobStep, LandedStep, EntryStep
<1>17. CASE Blocked \/ Supersede \/ Finish \/ Repair \/ Postpone
  <2>1. Looking  BY <1>17 DEF Blocked, Supersede, Finish, Repair, Postpone, StageDone, Goes, Looks, Process
  <2>2. CASE Blocked  BY <1>10, <2>1, <2>2 DEF Blocked, EntryStatus
  <2>3. CASE Supersede  BY <1>10, <2>1, <2>3 DEF Supersede, EntryStatus
  <2>4. CASE Finish  BY <1>10, <2>1, <2>4 DEF Finish, EntryStatus
  <2>5. CASE Repair  BY <1>10, <2>1, <2>5 DEF Repair, EntryStatus
  <2>6. CASE Postpone
    <3>1. PICK stops : LeaveAs("pending", stops)  BY <2>6 DEF Postpone
    <3> QED  BY <1>10, <2>1, <2>6, <3>1 DEF Postpone, EntryStatus
  <2> QED  BY <1>17, <2>2, <2>3, <2>4, <2>5, <2>6
<1> QED
  BY <1>1, <1>2, <1>3, <1>4, <1>5, <1>6, <1>7, <1>8, <1>9, <1>11, <1>12, <1>13, <1>14, <1>15, <1>16, <1>17 DEF Next

(* Every step keeps the types. *)
RunTyped ==
    /\ run \in [at: 0..(MaxEntries + 1), stage: Stages, step: {"look", "post", "answer"},
                submitted: BOOLEAN, blocked: SUBSET Identities, answer: 0..MaxPosted]
    /\ run.at <= Len(entries) + 1
    /\ Idle => run = NoRun
    /\ run.step # "look" \/ run.stage = "audit" => run.at \in DOMAIN entries
    /\ run.step = "answer" => run.answer \in Jobs
    /\ run.stage = "audit" => Now.ingest # <<>>

LEMMA EntriesTyped ==
    ASSUME ConstantsOK, Types, EntryStep
    PROVE  /\ entries' \in Seq(EntrySet) /\ Len(entries') <= MaxEntries /\ Len(entries') \in Nat
           /\ Len(entries) \in Nat /\ Len(entries) <= Len(entries') /\ DOMAIN entries' = 1..Len(entries')
           /\ DOMAIN entries = 1..Len(entries)
<1>1. entries \in Seq(EntrySet) /\ Len(entries) <= MaxEntries /\ MaxEntries \in Nat  BY DEF Types, ConstantsOK
<1>2. Len(entries) \in Nat /\ DOMAIN entries = 1..Len(entries)  BY <1>1, LenProperties
<1>3. entries' \in Seq(EntrySet) /\ Len(entries') <= MaxEntries /\ Len(entries) <= Len(entries')
  BY <1>1, <1>2 DEF EntryStep, Touched, Added
<1>4. Len(entries') \in Nat /\ DOMAIN entries' = 1..Len(entries')  BY <1>3, LenProperties
<1> QED  BY <1>2, <1>3, <1>4

LEMMA RunStep ==
    ASSUME ConstantsOK, Types, \A e \in DOMAIN entries : Refers(e), Posting, StepKind, Next
    PROVE  RunTyped'
<1>0. /\ Len(entries') \in Nat /\ Len(entries') <= MaxEntries /\ DOMAIN entries' = 1..Len(entries')
      /\ Len(entries) \in Nat /\ Len(entries) <= Len(entries') /\ DOMAIN entries = 1..Len(entries)
      /\ MaxEntries \in Nat /\ MaxPosted \in Nat /\ Evolves
  BY EntriesTyped, JobsEvolve DEF StepKind, ConstantsOK
<1>00. /\ run \in [at: 0..(MaxEntries + 1), stage: Stages, step: {"look", "post", "answer"},
                   submitted: BOOLEAN, blocked: SUBSET Identities, answer: 0..MaxPosted]
       /\ run.at <= Len(entries) + 1
       /\ Idle => run = NoRun
       /\ run.step # "look" \/ run.stage = "audit" => run.at \in DOMAIN entries
       /\ run.step = "answer" => run.answer \in Jobs
       /\ run.stage = "audit" => Now.ingest # <<>>
  BY DEF Types
<1>a. ASSUME run' = NoRun PROVE RunTyped'
  BY <1>0, <1>a DEF RunTyped, NoRun, Idle, Stages
<1>b. ASSUME run.at \in DOMAIN entries, NEW B \in SUBSET Identities,
             run' = [NoRun EXCEPT !.at = run.at + 1, !.blocked = B]
      PROVE  RunTyped'
  <2>1. /\ run'.at = run.at + 1 /\ run'.stage = "ingest" /\ run'.step = "look"
        /\ run' = [at |-> run.at + 1, stage |-> "ingest", step |-> "look", submitted |-> FALSE, blocked |-> B, answer |-> 0]
    BY <1>b DEF NoRun
  <2>2. run.at + 1 \in 0..(MaxEntries + 1) /\ run.at + 1 <= Len(entries') + 1 /\ run.at + 1 # 0  BY <1>0, <1>b
  <2>3. run' \in [at: 0..(MaxEntries + 1), stage: Stages, step: {"look", "post", "answer"},
                  submitted: BOOLEAN, blocked: SUBSET Identities, answer: 0..MaxPosted]
    BY <1>0, <2>1, <2>2 DEF Stages
  <2> QED  BY <2>1, <2>2, <2>3 DEF RunTyped, Idle
<1>c. ASSUME run' = run, entries' = entries \/ run = NoRun \/ (run.at \in DOMAIN entries /\ entries'[run.at].ingest # <<>>)
      PROVE  RunTyped'
  <2>1. CASE run = NoRun  BY <1>a, <1>c, <2>1
  <2>2. CASE run # NoRun
    <3>1. run.stage = "audit" => entries'[run.at].ingest # <<>>  BY <1>00, <1>c, <2>2 DEF Now
    <3>2. run.step = "answer" => run.answer \in Jobs'  BY <1>0, <1>00 DEF Evolves
    <3>3. DOMAIN entries \subseteq DOMAIN entries'  BY <1>0
    <3>4. run.at # 0  BY <1>00, <2>2 DEF Idle
    <3> QED  BY <1>c, <1>0, <1>00, <3>1, <3>2, <3>3, <3>4 DEF RunTyped, Idle, Now
  <2> QED  BY <2>1, <2>2
<1>d. run.at \in DOMAIN entries => Now.source[1] \in Identities
  <2>1. ASSUME run.at \in DOMAIN entries PROVE Now.source \in Identities \X (1..MaxVersions)
    BY <2>1, EntryIs DEF Now, Sources
  <2> QED  BY <2>1
<1>e. run.blocked \in SUBSET Identities  BY <1>00
<1>1. ASSUME NEW j \in Jobs, Lands(j) \/ Fails(j) PROVE RunTyped'
  BY <1>1, <1>c DEF Lands, Fails
<1>2. CASE Deploy  BY <1>2, <1>c DEF Deploy
<1>3. ASSUME Idle, run' = run PROVE RunTyped'  BY <1>00, <1>3, <1>c
<1>4. ASSUME NEW j \in 1..MaxPosted, Post(j) PROVE RunTyped'
  <2>1. run' = [run EXCEPT !.step = "answer", !.answer = j] /\ entries' = entries /\ run.step = "post"
    BY <1>4 DEF Post
  <2>2. run.at \in DOMAIN entries  BY <1>00, <2>1
  <2>3. j \in Jobs'
    <3>1. OldJob(j) \/ NewJob(j)  BY <1>4, <2>2, PostedIs DEF Post
    <3>2. CASE OldJob(j)  BY <1>0, <3>2 DEF OldJob, Evolves
    <3>3. CASE NewJob(j)  BY <2>1, <2>2, <3>3, ComesIs DEF Comes
    <3> QED  BY <3>1, <3>2, <3>3
  <2>5. run.at # 0 /\ j \in 0..MaxPosted  BY <1>0, <2>2
  <2>4. /\ run'.at = run.at /\ run'.stage = run.stage /\ run'.step = "answer" /\ run'.answer = j /\ run.at # 0
        /\ run' \in [at: 0..(MaxEntries + 1), stage: Stages, step: {"look", "post", "answer"},
                     submitted: BOOLEAN, blocked: SUBSET Identities, answer: 0..MaxPosted]
    BY <1>00, <2>1, <2>5
  <2> QED  BY <1>00, <2>1, <2>2, <2>3, <2>4 DEF RunTyped, Idle, Now
<1>5. CASE StartRun
  <2>1. run' = [NoRun EXCEPT !.at = 1] /\ entries' = entries /\ entries # <<>>  BY <1>5 DEF StartRun
  <2>2. /\ run'.at = 1 /\ run'.stage = "ingest" /\ run'.step = "look"
        /\ run' = [at |-> 1, stage |-> "ingest", step |-> "look", submitted |-> FALSE, blocked |-> {}, answer |-> 0]
    BY <2>1 DEF NoRun
  <2>3. 1 \in 0..(MaxEntries + 1) /\ 1 <= Len(entries') + 1  BY <1>0
  <2>4. run' \in [at: 0..(MaxEntries + 1), stage: Stages, step: {"look", "post", "answer"},
                  submitted: BOOLEAN, blocked: SUBSET Identities, answer: 0..MaxPosted]
    BY <1>0, <2>2, <2>3 DEF Stages
  <2> QED  BY <2>2, <2>3, <2>4 DEF RunTyped, Idle
<1>6. CASE RunnerDies \/ EndRun  BY <1>6, <1>a DEF RunnerDies, EndRun
<1>7. CASE SkipEntry
  <2>1. run.at \in DOMAIN entries  BY <1>7, LookingAt DEF SkipEntry
  <2> QED  BY <1>7, <1>b, <1>e, <2>1 DEF SkipEntry
<1>8. ASSUME Looking, NEW st \in EntryStatus, NEW stops, LeaveAs(st, stops) PROVE RunTyped'
  <2>1. /\ run.at \in DOMAIN entries
        /\ run' = NoRun \/ run' = [NoRun EXCEPT !.at = run.at + 1,
              !.blocked = IF st = "pending" /\ ~Now.orphan THEN run.blocked \cup {Now.source[1]}
                          ELSE run.blocked]
    BY <1>8, LeaveAsIs
  <2>2. (IF st = "pending" /\ ~Now.orphan THEN run.blocked \cup {Now.source[1]} ELSE run.blocked) \in SUBSET Identities
    BY <1>d, <1>e, <2>1
  <2> QED  BY <1>a, <1>b, <2>1, <2>2
<1>9. CASE Refused
  <2>1. PICK st \in {"pending", "needs_repair"} :
          /\ run.at \in DOMAIN entries
          /\ run' = [NoRun EXCEPT !.at = run.at + 1,
                !.blocked = IF st = "pending" /\ ~Now.orphan THEN run.blocked \cup {Now.source[1]}
                            ELSE run.blocked]
    BY <1>9, RefusedIs
  <2>2. (IF st = "pending" /\ ~Now.orphan THEN run.blocked \cup {Now.source[1]} ELSE run.blocked) \in SUBSET Identities
    BY <1>d, <1>e, <2>1
  <2> QED  BY <1>b, <2>1, <2>2
<1>10. CASE PostLost
  <2>1. /\ run.at \in DOMAIN entries
        /\ run' = [NoRun EXCEPT !.at = run.at + 1,
              !.blocked = IF Now.orphan THEN run.blocked ELSE run.blocked \cup {Now.source[1]}]
    BY <1>10, PostLostIs
  <2>2. (IF Now.orphan THEN run.blocked ELSE run.blocked \cup {Now.source[1]}) \in SUBSET Identities
    BY <1>d, <1>e, <2>1
  <2> QED  BY <1>b, <2>1, <2>2
<1>11. CASE Intend
  <2>1. /\ run.at \in DOMAIN entries /\ entries'[run.at].ingest = Now.ingest
        /\ run' = [run EXCEPT !.step = "post"]
    BY <1>11, IntendIs
  <2>3. run.at # 0  BY <1>0, <2>1
  <2>2. /\ run'.at = run.at /\ run'.stage = run.stage /\ run'.step = "post" /\ run.at # 0
        /\ run' \in [at: 0..(MaxEntries + 1), stage: Stages, step: {"look", "post", "answer"},
                     submitted: BOOLEAN, blocked: SUBSET Identities, answer: 0..MaxPosted]
    BY <1>00, <2>1, <2>3
  <2> QED  BY <1>0, <1>00, <2>1, <2>2 DEF RunTyped, Idle, Now
<1>12. CASE Record
  <2>1. run' = [run EXCEPT !.step = "look", !.submitted = TRUE, !.answer = 0] /\ run.at \in DOMAIN entries
    BY <1>12, RecordIs
  <2>4. run.at # 0 /\ 0 \in 0..MaxPosted  BY <1>0, <2>1
  <2>2. /\ run'.at = run.at /\ run'.stage = run.stage /\ run'.step = "look" /\ run.at # 0
        /\ run' \in [at: 0..(MaxEntries + 1), stage: Stages, step: {"look", "post", "answer"},
                     submitted: BOOLEAN, blocked: SUBSET Identities, answer: 0..MaxPosted]
    BY <1>00, <2>1, <2>4
  <2>3. run.stage = "audit" => entries'[run.at].ingest = Now.ingest
    <3>1. ASSUME run.stage = "audit" PROVE entries'[run.at].ingest = Now.ingest
      BY <1>12, <3>1, RecordIs
    <3> QED  BY <3>1
  <2> QED  BY <1>0, <1>00, <2>1, <2>2, <2>3 DEF RunTyped, Idle, Now
<1>13. CASE Refresh
  <2>1. run' = run /\ run.at \in DOMAIN entries  BY <1>13, RefreshIs DEF Refresh
  <2>2. CASE run.stage = "audit"
    <3>1. entries'[run.at].ingest = Now.ingest  BY <1>13, <2>2, RefreshIs
    <3> QED  BY <1>00, <1>c, <2>1, <2>2, <3>1
  <2>3. CASE run.stage = "ingest"
    <3>1. /\ Now.ingest \in Seq(AttemptSet) /\ LastOne.job \in 1..MaxPosted
          /\ entries'[run.at].ingest = Recorded(Now.ingest, LastOne.job, receipts[LastOne.job].status)
          /\ receipts[LastOne.job].status \in Statuses
      <4>1. /\ Attempts # <<>> /\ receipts[LastOne.job].status \in Statuses
            /\ entries'[run.at].ingest = Recorded(Now.ingest, LastOne.job, receipts[LastOne.job].status)
        BY <1>13, <2>3, RefreshIs
      <4>2. LastOne.job \in 1..MaxPosted  BY <2>1, <4>1, AttemptsAre
      <4> QED  BY <2>1, <4>1, <4>2, EntryIs DEF Now
    <3>2. entries'[run.at].ingest # <<>>  BY <3>1, RecordedIs DEF Renewed, Longer
    <3> QED  BY <1>c, <2>1, <3>2
  <2> QED  BY <1>00, <2>2, <2>3 DEF Stages
<1>14. CASE NextStage
  <2>1. run.at \in DOMAIN entries  BY <1>14, LookingAt DEF NextStage, StageDone, Goes, Looks, Process
  <2>2. run' = [run EXCEPT !.stage = "audit", !.submitted = FALSE] /\ entries' = entries  BY <1>14 DEF NextStage
  <2>3. Now.ingest # <<>>
    BY <1>14 DEF NextStage, StageDone, MustSubmit, Attempts
  <2>5. run.at # 0  BY <1>0, <2>1
  <2>4. /\ run'.at = run.at /\ run'.stage = "audit" /\ run'.step = run.step /\ run.at # 0 /\ run'.answer = run.answer
        /\ run' \in [at: 0..(MaxEntries + 1), stage: Stages, step: {"look", "post", "answer"},
                     submitted: BOOLEAN, blocked: SUBSET Identities, answer: 0..MaxPosted]
    BY <1>00, <2>2, <2>5 DEF Stages
  <2> QED  BY <1>0, <1>00, <2>1, <2>2, <2>3, <2>4 DEF RunTyped, Idle, Now, Evolves
<1>15. CASE Blocked \/ Supersede \/ Finish \/ Repair \/ Postpone
  <2>1. Looking  BY <1>15 DEF Blocked, Supersede, Finish, Repair, Postpone, StageDone, Goes, Looks, Process
  <2>2. CASE Blocked  BY <1>8, <2>1, <2>2 DEF Blocked, EntryStatus
  <2>3. CASE Supersede  BY <1>8, <2>1, <2>3 DEF Supersede, EntryStatus
  <2>4. CASE Finish  BY <1>8, <2>1, <2>4 DEF Finish, EntryStatus
  <2>5. CASE Repair  BY <1>8, <2>1, <2>5 DEF Repair, EntryStatus
  <2>6. CASE Postpone
    <3>1. PICK stops : LeaveAs("pending", stops)  BY <2>6 DEF Postpone
    <3> QED  BY <1>8, <2>1, <3>1 DEF EntryStatus
  <2> QED  BY <1>15, <2>2, <2>3, <2>4, <2>5, <2>6
<1>16. ASSUME NEW j \in Jobs, Adopt(j) PROVE RunTyped'  BY <1>3, <1>16 DEF Adopt
<1>17. ASSUME NEW i \in Identities, AddSource(i) PROVE RunTyped'  BY <1>3, <1>17 DEF AddSource
<1>18. ASSUME NEW e \in DOMAIN entries, Drop(e) PROVE RunTyped'  BY <1>3, <1>18 DEF Drop
<1>19. ASSUME NEW e \in DOMAIN entries, NEW j \in Jobs, Import(e, j) PROVE RunTyped'  BY <1>3, <1>19 DEF Import
<1> QED
  BY <1>1, <1>2, <1>4, <1>5, <1>6, <1>7, <1>9, <1>10, <1>11, <1>12, <1>13, <1>14, <1>15,
     <1>16, <1>17, <1>18, <1>19 DEF Next

LEMMA TypesKept ==
    ASSUME ConstantsOK, Types, \A e \in DOMAIN entries : Refers(e), Posting, StepKind, Next
    PROVE  Types'
<1>1. RunTyped'  BY RunStep
<1>2. entries' \in Seq(EntrySet) /\ Len(entries') <= MaxEntries  BY EntriesTyped DEF StepKind
<1>3. receipts' \in Seq(ReceiptSet) /\ Len(receipts') <= MaxPosted  BY JobsEvolve DEF StepKind, Evolves
<1>4. landed' \in Seq(Sources)
  <2>1. landed \in Seq(Sources)  BY DEF Types
  <2>2. ASSUME NEW j \in Jobs, landed' = Append(landed, receipts[j].source) PROVE landed' \in Seq(Sources)
    <3>1. receipts[j].source \in Sources  BY JobIs DEF ReceiptSet
    <3> QED  BY <2>1, <2>2, <3>1, AppendProperties
  <2> QED  BY <2>1, <2>2 DEF StepKind, LandedStep
<1> QED  BY <1>1, <1>2, <1>3, <1>4 DEF Types, RunTyped, StepKind

-----------------------------------------------------------------------------
(* What an entry records of the writer stays true. *)
LEMMA RefersFrame ==
    ASSUME Evolves, \A j \in Jobs : Linked(j), NEW e \in DOMAIN entries, Refers(e),
           entries'[e].ingest = entries[e].ingest, entries'[e].audit = entries[e].audit,
           entries'[e].source = entries[e].source
    PROVE  Refers(e)'
<1>1. ASSUME NEW n \in DOMAIN entries[e].ingest
      PROVE  /\ entries[e].ingest[n].job \in Ingests(entries[e].source)'
             /\ entries[e].ingest[n].status # "queued" =>
                  receipts'[entries[e].ingest[n].job].status = entries[e].ingest[n].status
  BY DEF Refers, Evolves, Ingests
<1>2. ASSUME NEW n \in DOMAIN entries[e].audit
      PROVE  /\ entries[e].audit[n].job \in Jobs' /\ receipts'[entries[e].audit[n].job].kind = "audit"
             /\ receipts'[receipts'[entries[e].audit[n].job].parent].source = entries[e].source
             /\ entries[e].audit[n].status # "queued" =>
                  receipts'[entries[e].audit[n].job].status = entries[e].audit[n].status
  <2>1. entries[e].audit[n].job \in Jobs /\ receipts[entries[e].audit[n].job].kind = "audit"  BY DEF Refers
  <2>2. receipts[entries[e].audit[n].job].parent \in Jobs  BY SMTT(30), <2>1 DEF Linked
  <2> QED  BY <2>1, <2>2 DEF Refers, Evolves
<1> QED  BY <1>1, <1>2 DEF Refers, Ingests

LEMMA RefersIngest ==
    ASSUME Types, Evolves, \A j \in Jobs : Linked(j), NEW e \in DOMAIN entries, Refers(e),
           entries'[e].audit = entries[e].audit, entries'[e].source = entries[e].source,
           NEW a, a.job \in Ingests(entries[e].source),
           a.status # "queued" => receipts[a.job].status = a.status,
           \/ Longer(entries[e].ingest, entries'[e].ingest, a)
           \/ Renewed(entries[e].ingest, entries'[e].ingest, a)
    PROVE  Refers(e)'
<1> DEFINE old == entries[e].ingest
           next == entries'[e].ingest
<1>0. Len(old) \in Nat /\ DOMAIN old = 1..Len(old)  BY EntryIs
<1>1. ASSUME NEW n \in DOMAIN next
      PROVE  \/ next[n] = a
             \/ n \in DOMAIN old /\ next[n] = old[n]
  <2>1. CASE Longer(old, next, a)  BY <1>0, <2>1 DEF Longer
  <2>2. CASE Renewed(old, next, a)
    <3>1. n \in DOMAIN old /\ Len(next) = Len(old) /\ next[Len(next)] = a
          /\ (n < Len(old) => next[n] = old[n])
      BY <2>2 DEF Renewed
    <3> HIDE DEF next, old
    <3> QED  BY <1>0, <3>1
  <2> QED  BY <2>1, <2>2
<1>2. ASSUME NEW n \in DOMAIN next
      PROVE  /\ next[n].job \in Jobs /\ receipts[next[n].job].kind = "ingest"
             /\ receipts[next[n].job].source = entries[e].source
             /\ next[n].status # "queued" => receipts[next[n].job].status = next[n].status
  <2>1. CASE next[n] = a  BY <2>1 DEF Ingests
  <2>2. CASE n \in DOMAIN old /\ next[n] = old[n]  BY <2>2 DEF Refers, Ingests
  <2> QED  BY <1>1, <2>1, <2>2
<1>3. ASSUME NEW n \in DOMAIN next
      PROVE  /\ next[n].job \in Jobs' /\ receipts'[next[n].job].kind = "ingest"
             /\ receipts'[next[n].job].source = entries'[e].source
             /\ next[n].status # "queued" => receipts'[next[n].job].status = next[n].status
  BY <1>2 DEF Evolves
<1>4. ASSUME NEW n \in DOMAIN entries[e].audit
      PROVE  /\ entries[e].audit[n].job \in Jobs' /\ receipts'[entries[e].audit[n].job].kind = "audit"
             /\ receipts'[receipts'[entries[e].audit[n].job].parent].source = entries[e].source
             /\ entries[e].audit[n].status # "queued" =>
                  receipts'[entries[e].audit[n].job].status = entries[e].audit[n].status
  <2>1. entries[e].audit[n].job \in Jobs /\ receipts[entries[e].audit[n].job].kind = "audit"  BY DEF Refers
  <2>2. receipts[entries[e].audit[n].job].parent \in Jobs  BY <2>1 DEF Linked
  <2> QED  BY <2>1, <2>2 DEF Refers, Evolves
<1> QED  BY <1>3, <1>4 DEF Refers, Ingests

LEMMA RefersAudit ==
    ASSUME Types, Evolves, \A j \in Jobs : Linked(j), NEW e \in DOMAIN entries, Refers(e),
           entries'[e].ingest = entries[e].ingest, entries'[e].source = entries[e].source,
           NEW a, a.job \in Jobs, receipts[a.job].kind = "audit",
           receipts[receipts[a.job].parent].source = entries[e].source,
           a.status # "queued" => receipts[a.job].status = a.status,
           \/ /\ Longer(entries[e].audit, entries'[e].audit, a)
              /\ \A n \in DOMAIN entries[e].audit : entries[e].audit[n].job < a.job
           \/ Renewed(entries[e].audit, entries'[e].audit, a)
    PROVE  Refers(e)'
<1> DEFINE old == entries[e].audit
           next == entries'[e].audit
<1>0. Len(old) \in Nat /\ DOMAIN old = 1..Len(old)  BY EntryIs
<1>1. ASSUME NEW n \in DOMAIN next
      PROVE  \/ next[n] = a
             \/ n \in DOMAIN old /\ next[n] = old[n]
  <2>1. CASE Longer(old, next, a)  BY <1>0, <2>1 DEF Longer
  <2>2. CASE Renewed(old, next, a)
    <3>1. n \in DOMAIN old /\ Len(next) = Len(old) /\ next[Len(next)] = a
          /\ (n < Len(old) => next[n] = old[n])
      BY SMTT(30), <2>2 DEF Renewed
    <3> HIDE DEF next, old
    <3> QED  BY <1>0, <3>1
  <2> QED  BY <2>1, <2>2
<1>2. ASSUME NEW n \in DOMAIN next
      PROVE  /\ next[n].job \in Jobs /\ receipts[next[n].job].kind = "audit"
             /\ receipts[receipts[next[n].job].parent].source = entries[e].source
             /\ next[n].status # "queued" => receipts[next[n].job].status = next[n].status
  <2>1. CASE next[n] = a  BY <2>1
  <2>2. CASE n \in DOMAIN old /\ next[n] = old[n]  BY SMTT(30), <2>2 DEF Refers
  <2> QED  BY <1>1, <2>1, <2>2
<1>3. ASSUME NEW n \in DOMAIN next
      PROVE  /\ next[n].job \in Jobs' /\ receipts'[next[n].job].kind = "audit"
             /\ receipts'[receipts'[next[n].job].parent].source = entries'[e].source
             /\ next[n].status # "queued" => receipts'[next[n].job].status = next[n].status
  <2>1. receipts[next[n].job].parent \in Jobs  BY <1>2 DEF Linked
  <2> QED  BY SMTT(30), <1>2, <2>1 DEF Evolves
<1>4. ASSUME NEW m \in DOMAIN next, NEW n \in DOMAIN next, m < n
      PROVE  next[m].job < next[n].job
  <2>0. \A i, k \in DOMAIN old : i < k => old[i].job < old[k].job  BY DEF Refers
  <2>1. CASE Longer(old, next, a) /\ \A k \in DOMAIN old : old[k].job < a.job
    <3>1. /\ Len(next) = Len(old) + 1 /\ DOMAIN next = 1..(Len(old) + 1)
          /\ (\A k \in DOMAIN old : next[k] = old[k]) /\ next[Len(next)] = a
      BY <2>1 DEF Longer
    <3> HIDE DEF old, next
    <3>2. m \in DOMAIN old  BY <1>0, <1>4, <3>1
    <3>3. CASE n = Len(next)  BY <2>1, <3>1, <3>2, <3>3
    <3>4. CASE n # Len(next)
      <4>1. n \in DOMAIN old  BY <1>0, <1>4, <3>1, <3>4
      <4> QED  BY <1>4, <2>0, <3>1, <3>2, <4>1
    <3> QED  BY <3>3, <3>4
  <2>2. CASE Renewed(old, next, a)
    <3>1. /\ Len(next) = Len(old) /\ DOMAIN next = DOMAIN old /\ old[Len(old)].job = a.job
          /\ (\A k \in DOMAIN old : k < Len(old) => next[k] = old[k]) /\ next[Len(next)] = a
      BY <2>2 DEF Renewed
    <3> HIDE DEF old, next
    <3>2. m \in DOMAIN old /\ n \in DOMAIN old /\ m < Len(old)  BY <1>0, <1>4, <3>1
    <3>3. old[m].job < old[n].job /\ next[m] = old[m]  BY <1>4, <2>0, <3>1, <3>2
    <3>4. CASE n < Len(old)  BY <3>1, <3>2, <3>3, <3>4
    <3>5. CASE n = Len(old)  BY <3>1, <3>2, <3>3, <3>5
    <3> QED  BY <1>0, <3>2, <3>4, <3>5
  <2> QED  BY <2>1, <2>2
<1>5. ASSUME NEW n \in DOMAIN entries[e].ingest
      PROVE  /\ entries[e].ingest[n].job \in Ingests(entries[e].source)'
             /\ entries[e].ingest[n].status # "queued" =>
                  receipts'[entries[e].ingest[n].job].status = entries[e].ingest[n].status
  BY DEF Refers, Evolves, Ingests
<1>6. \A n \in DOMAIN entries'[e].ingest :
         /\ entries'[e].ingest[n].job \in Ingests(entries[e].source)'
         /\ entries'[e].ingest[n].status # "queued" =>
              receipts'[entries'[e].ingest[n].job].status = entries'[e].ingest[n].status
  BY SMTT(30), <1>5
<1>7. \A n \in DOMAIN entries'[e].audit :
         /\ entries'[e].audit[n].job \in Jobs' /\ receipts'[entries'[e].audit[n].job].kind = "audit"
         /\ receipts'[receipts'[entries'[e].audit[n].job].parent].source = entries'[e].source
         /\ entries'[e].audit[n].status # "queued" =>
              receipts'[entries'[e].audit[n].job].status = entries'[e].audit[n].status
  BY <1>3
<1>8. \A m, n \in DOMAIN entries'[e].audit : m < n => entries'[e].audit[m].job < entries'[e].audit[n].job
  BY <1>4
<1> HIDE DEF old, next
<1> QED  BY ZenonT(30), <1>6, <1>7, <1>8 DEF Refers

(* The reviews an entry records are of the ingest that landed. *)
LEMMA AuditsAreOf ==
    ASSUME ConstantsOK, Types, \A j \in Jobs : Linked(j), UniqueIngest, NEW e \in DOMAIN entries, Refers(e),
           NEW p \in Ingests(entries[e].source), receipts[p].status = "done",
           NEW n \in DOMAIN entries[e].audit
    PROVE  entries[e].audit[n].job \in AuditsOf(p)
<1> DEFINE j == entries[e].audit[n].job
<1>1. j \in Jobs /\ receipts[j].kind = "audit" /\ receipts[receipts[j].parent].source = entries[e].source  BY DEF Refers
<1>2. receipts[j].parent \in Jobs /\ receipts[receipts[j].parent].kind = "ingest"
      /\ receipts[receipts[j].parent].status = "done"
  BY <1>1 DEF Linked
<1>3. receipts[j].parent = p  BY <1>1, <1>2 DEF UniqueIngest, Reusable, Ingests
<1> QED  BY <1>1, <1>3 DEF AuditsOf

(* Most steps leave the attempts of every entry alone. *)
Quiet ==
    /\ DOMAIN entries' = DOMAIN entries
    /\ \A e \in DOMAIN entries :
         /\ entries'[e].source = entries[e].source /\ entries'[e].orphan = entries[e].orphan
         /\ entries'[e].ingest = entries[e].ingest /\ entries'[e].audit = entries[e].audit

AttemptStep ==
    \/ Quiet
    \/ \E e \in DOMAIN entries, j \in Jobs : Import(e, j)
    \/ Record \/ Refresh
    \/ \E j \in Jobs : Adopt(j)
    \/ \E i \in Identities : AddSource(i)

LEMMA AttemptsChange ==
    ASSUME ConstantsOK, Types, \A e \in DOMAIN entries : Refers(e), Next
    PROVE  AttemptStep
<1>a. entries' = entries => Quiet  BY DEF Quiet
<1>c. Quiet => AttemptStep  BY DEF AttemptStep
<1>b. ASSUME NEW e \in DOMAIN entries, Touched(e), SameAttempts(e) PROVE Quiet
  BY <1>b DEF Touched, SameAttempts, Quiet
<1>1. ASSUME NEW j \in Jobs, Lands(j) \/ Fails(j) PROVE Quiet  BY <1>1, <1>a DEF Lands, Fails
<1>2. CASE Deploy \/ StartRun \/ RunnerDies \/ SkipEntry \/ EndRun \/ NextStage \/ \E j \in 1..MaxPosted : Post(j)
  BY <1>2, <1>a, <1>c DEF Deploy, StartRun, RunnerDies, SkipEntry, EndRun, NextStage, Post
<1>3. ASSUME NEW e \in DOMAIN entries, Drop(e) PROVE Quiet  BY <1>3, <1>b, DropIs
<1>4. ASSUME Looking, NEW st \in EntryStatus, NEW stops, LeaveAs(st, stops) PROVE Quiet
  <2>1. Touched(run.at) /\ SameAttempts(run.at) /\ run.at \in DOMAIN entries  BY <1>4, LeaveAsIs DEF Left
  <2> QED  BY <1>b, <2>1
<1>5. CASE Refused
  <2>1. Touched(run.at) /\ SameAttempts(run.at) /\ run.at \in DOMAIN entries  BY <1>5, RefusedIs DEF Left
  <2> QED  BY <1>b, <1>c, <2>1
<1>6. CASE PostLost
  <2>1. Touched(run.at) /\ SameAttempts(run.at) /\ run.at \in DOMAIN entries  BY <1>6, PostLostIs DEF Left
  <2> QED  BY <1>b, <1>c, <2>1
<1>7. CASE Intend
  <2>1. /\ Touched(run.at) /\ run.at \in DOMAIN entries
        /\ entries'[run.at].ingest = Now.ingest /\ entries'[run.at].audit = Now.audit
    BY <1>7, IntendIs
  <2> QED  BY <1>c, <2>1 DEF Quiet, Touched, Now
<1>8. CASE Blocked \/ Supersede \/ Finish \/ Repair \/ Postpone
  <2>1. Looking  BY <1>8 DEF Blocked, Supersede, Finish, Repair, Postpone, StageDone, Goes, Looks, Process
  <2>2. CASE Blocked  BY <1>4, <1>c, <2>1, <2>2 DEF Blocked, EntryStatus
  <2>3. CASE Supersede  BY <1>4, <1>c, <2>1, <2>3 DEF Supersede, EntryStatus
  <2>4. CASE Finish  BY <1>4, <1>c, <2>1, <2>4 DEF Finish, EntryStatus
  <2>5. CASE Repair  BY <1>4, <1>c, <2>1, <2>5 DEF Repair, EntryStatus
  <2>6. CASE Postpone
    <3>1. PICK stops : LeaveAs("pending", stops)  BY <2>6 DEF Postpone
    <3> QED  BY <1>4, <1>c, <2>1, <3>1 DEF EntryStatus
  <2> QED  BY <1>8, <2>2, <2>3, <2>4, <2>5, <2>6
<1> QED  BY <1>1, <1>2, <1>3, <1>5, <1>6, <1>7, <1>8 DEF Next, AttemptStep

(* The answer of a review is later than the reviews the entry has. *)
LEMMA AnswerIsLast ==
    ASSUME ConstantsOK, Types, \A j \in Jobs : Linked(j), UniqueIngest, Posting,
           \A e \in DOMAIN entries : Refers(e), run.step = "answer", run.stage = "audit"
    PROVE  /\ run.answer \in Jobs /\ receipts[run.answer].kind = "audit"
           /\ receipts[run.answer].parent = Parent /\ Parent \in Ingests(Now.source)
           /\ receipts[Parent].status = "done"
           /\ \A n \in DOMAIN Now.audit :
                Now.audit[n].job \in AuditsOf(Parent) /\ Now.audit[n].job <= run.answer
<1>1. run.at \in DOMAIN entries /\ Now.ingest # <<>> /\ run.answer \in AuditsOf(Parent)
      /\ \A j \in AuditsOf(Parent) : j <= run.answer
  BY DEF Types, Posting
<1>2. run.answer \in Jobs /\ receipts[run.answer].kind = "audit" /\ receipts[run.answer].parent = Parent
  BY <1>1 DEF AuditsOf
<1>3. receipts[Parent].status = "done"  BY <1>2 DEF Linked
<1>4. Parent \in Ingests(Now.source)
  <2>1. Len(Now.ingest) \in DOMAIN entries[run.at].ingest
    <3>1. Now.ingest \in Seq(AttemptSet)  BY <1>1, EntryIs DEF Now
    <3>2. Len(Now.ingest) \in Nat /\ Len(Now.ingest) # 0 /\ DOMAIN Now.ingest = 1..Len(Now.ingest)
      BY <1>1, <3>1, LenProperties, EmptySeq
    <3> QED  BY <3>2 DEF Now
  <2> QED  BY <1>1, <2>1 DEF Parent, Refers, Now
<1>5. ASSUME NEW n \in DOMAIN Now.audit PROVE Now.audit[n].job \in AuditsOf(Parent)
  BY <1>1, <1>3, <1>4, AuditsAreOf DEF Now
<1> QED  BY <1>1, <1>2, <1>3, <1>4, <1>5

LEMMA RefersStep ==
    ASSUME ConstantsOK, Types, \A j \in Jobs : Linked(j), UniqueIngest, Posting,
           \A e \in DOMAIN entries : Refers(e), StepKind, Next
    PROVE  \A e \in DOMAIN entries' : Refers(e)'
<1>0. Evolves /\ AttemptStep  BY JobsEvolve, AttemptsChange DEF StepKind
<1>00. Jobs \subseteq Nat  BY JobIs
<1>a. ASSUME NEW e \in DOMAIN entries, Touched(e), Refers(e)' PROVE \A f \in DOMAIN entries' : Refers(f)'
  <2> SUFFICES ASSUME NEW f \in DOMAIN entries', f # e PROVE Refers(f)'  BY <1>a
  <2>1. f \in DOMAIN entries /\ entries'[f] = entries[f]  BY <1>a DEF Touched
  <2> QED  BY <1>0, <2>1, RefersFrame
<1>1. CASE Quiet
  <2> SUFFICES ASSUME NEW e \in DOMAIN entries' PROVE Refers(e)'  OBVIOUS
  <2>1. e \in DOMAIN entries  BY <1>1 DEF Quiet
  <2> QED  BY <1>0, <1>1, <2>1, RefersFrame DEF Quiet
<1>2. ASSUME NEW e \in DOMAIN entries, NEW j \in Jobs, Import(e, j) PROVE \A f \in DOMAIN entries' : Refers(f)'
  <2> DEFINE a == Attempt(j, receipts[j].status)
  <2>1. /\ Touched(e) /\ entries'[e].audit = entries[e].audit
        /\ Longer(entries[e].ingest, entries'[e].ingest, a)
    BY <1>2, ImportIs
  <2>2. a.job = j /\ a.status = receipts[j].status  BY DEF Attempt
  <2>3. j \in Ingests(entries[e].source)  BY <1>2 DEF Import, Ingests
  <2> HIDE DEF a
  <2>4. entries'[e].source = entries[e].source  BY <2>1 DEF Touched
  <2>5. Refers(e)'  BY <1>0, <2>1, <2>2, <2>3, <2>4, RefersIngest
  <2> QED  BY <1>a, <2>1, <2>5
<1>3. CASE Record
  <2>0. PICK e \in DOMAIN entries : e = run.at  BY <1>3, RecordIs
  <2> DEFINE st == IF run.stage = "ingest" THEN "queued" ELSE receipts[run.answer].status
             a == Attempt(run.answer, st)
  <2>1. /\ Touched(e) /\ e \in DOMAIN entries
        /\ entries'[e].ingest = IF run.stage = "ingest" THEN Recorded(Now.ingest, run.answer, st) ELSE Now.ingest
        /\ entries'[e].audit = IF run.stage = "audit" THEN Recorded(Now.audit, run.answer, st) ELSE Now.audit
        /\ st \in Statuses /\ run.answer \in Jobs /\ run.answer \in 1..MaxPosted
    BY <1>3, <2>0, RecordIs
  <2>2. a.job = run.answer /\ a.status = st /\ run.stage \in {"ingest", "audit"} /\ run.step = "answer"
    BY <1>3 DEF Attempt, Types, Stages, Record
  <2>3. /\ entries'[e].source = entries[e].source
        /\ Now.ingest \in Seq(AttemptSet) /\ Now.audit \in Seq(AttemptSet)
    BY <2>0, <2>1, EntryIs DEF Touched, Now
  <2>4. CASE run.stage = "ingest"
    <3>1. run.answer \in Ingests(entries[e].source)  BY <2>0, <2>2, <2>4 DEF Posting, Now
    <3>2. st = "queued"  BY <2>4
    <3> HIDE DEF st
    <3>3. \/ Longer(Now.ingest, Recorded(Now.ingest, run.answer, st), a)
          \/ Renewed(Now.ingest, Recorded(Now.ingest, run.answer, st), a)
      BY <2>1, <2>3, RecordedIs
    <3> HIDE DEF a
    <3>4. Refers(e)'
      BY <2>0, <1>0, <2>1, <2>2, <2>3, <2>4, <3>1, <3>2, <3>3, RefersIngest DEF Now
    <3> QED  BY <1>a, <2>1, <3>4
  <2>5. CASE run.stage = "audit"
    <3>1. /\ receipts[run.answer].kind = "audit"
          /\ receipts[run.answer].parent = Parent /\ Parent \in Ingests(Now.source)
          /\ \A n \in DOMAIN Now.audit :
                Now.audit[n].job \in AuditsOf(Parent) /\ Now.audit[n].job <= run.answer
      BY <2>2, <2>5, AnswerIsLast
    <3>2. st = receipts[run.answer].status  BY <2>5
    <3> HIDE DEF st
    <3>3. IF Now.audit # <<>> /\ Now.audit[Len(Now.audit)].job = run.answer
          THEN Renewed(Now.audit, Recorded(Now.audit, run.answer, st), a)
          ELSE Longer(Now.audit, Recorded(Now.audit, run.answer, st), a)
      BY <2>1, <2>3, RecordedIs
    <3> HIDE DEF a
    <3>4. ASSUME ~(Now.audit # <<>> /\ Now.audit[Len(Now.audit)].job = run.answer), NEW n \in DOMAIN Now.audit
          PROVE  Now.audit[n].job < run.answer
      <4>1. Now.audit[n].job \in Nat /\ run.answer \in Nat /\ Now.audit[n].job <= run.answer
        BY <1>00, <2>1, <3>1 DEF AuditsOf
      <4>2. Len(Now.audit) \in Nat /\ DOMAIN Now.audit = 1..Len(Now.audit)  BY <2>3, LenProperties
      <4>3. Now.audit # <<>>  BY <3>4
      <4>4. Len(Now.audit) \in DOMAIN Now.audit /\ n <= Len(Now.audit) /\ n \in Nat  BY <4>2
      <4>5. Now.audit[Len(Now.audit)].job # run.answer  BY <3>4, <4>3
      <4>6. CASE n = Len(Now.audit)  BY <4>1, <4>5, <4>6
      <4>7. CASE n < Len(Now.audit)
        <5>1. Now.audit[n].job < Now.audit[Len(Now.audit)].job  BY <2>0, <2>1, <4>4, <4>7 DEF Refers, Now
        <5>2. Now.audit[Len(Now.audit)].job <= run.answer /\ Now.audit[Len(Now.audit)].job \in Nat
          BY <1>00, <3>1, <4>4 DEF AuditsOf
        <5> QED  BY <4>1, <5>1, <5>2
      <4> QED  BY <4>2, <4>4, <4>6, <4>7
    <3>5. receipts[receipts[a.job].parent].source = entries[e].source /\ receipts[a.job].kind = "audit"
      BY <2>0, <2>2, <3>1 DEF Ingests, Now
    <3>6. Refers(e)'
      <4>1. \/ Longer(entries[e].audit, entries'[e].audit, a)
               /\ \A n \in DOMAIN entries[e].audit : entries[e].audit[n].job < a.job
            \/ Renewed(entries[e].audit, entries'[e].audit, a)
        BY <2>0, <2>1, <2>2, <2>5, <3>3, <3>4 DEF Now
      <4>2. /\ entries'[e].ingest = entries[e].ingest
            /\ a.job \in Jobs /\ (a.status # "queued" => receipts[a.job].status = a.status)
        BY <2>0, <2>1, <2>2, <2>5, <3>2 DEF Now
      <4>3. Refers(e)  BY <2>1
      <4> QED  BY <1>0, <2>1, <2>3, <3>5, <4>1, <4>2, <4>3, RefersAudit
    <3> QED  BY <1>a, <2>1, <3>6
  <2> QED  BY <2>2, <2>4, <2>5
<1>4. CASE Refresh
  <2>0. PICK e \in DOMAIN entries : e = run.at  BY <1>4, RefreshIs
  <2> DEFINE st == receipts[LastOne.job].status
             j == LastOne.job
             a == Attempt(j, st)
  <2>1. /\ Touched(e) /\ e \in DOMAIN entries
        /\ entries'[e].ingest = IF run.stage = "ingest" THEN Recorded(Now.ingest, j, st) ELSE Now.ingest
        /\ entries'[e].audit = IF run.stage = "audit" THEN Recorded(Now.audit, j, st) ELSE Now.audit
        /\ st \in Statuses /\ Attempts # <<>>
    BY <1>4, <2>0, RefreshIs
  <2>2. /\ j \in Jobs /\ j \in 1..MaxPosted /\ receipts[j].kind = run.stage
        /\ run.stage \in {"ingest", "audit"}
        /\ Attempts = IF run.stage = "ingest" THEN Now.ingest ELSE Now.audit
        /\ Len(Attempts) \in DOMAIN Attempts
    BY <2>0, <2>1, AttemptsAre
  <2>3. /\ entries'[e].source = entries[e].source
        /\ Now.ingest \in Seq(AttemptSet) /\ Now.audit \in Seq(AttemptSet) /\ Refers(e)
    BY <2>0, <2>1, EntryIs DEF Touched, Now
  <2>4. a.job = j /\ a.status = st /\ st = receipts[j].status /\ j = Attempts[Len(Attempts)].job
    BY DEF Attempt, LastOne
  <2> HIDE DEF st
  <2>5. CASE run.stage = "ingest"
    <3>1. j \in Ingests(entries[e].source)
      BY ZenonT(30), <2>0, <2>2, <2>3, <2>4, <2>5 DEF Refers, Now
    <3> HIDE DEF j
    <3>2. \/ Longer(Now.ingest, Recorded(Now.ingest, j, st), a)
          \/ Renewed(Now.ingest, Recorded(Now.ingest, j, st), a)
      BY <2>1, <2>2, <2>3, RecordedIs
    <3> HIDE DEF a
    <3>3. Refers(e)'
      BY <2>0, <1>0, <2>1, <2>3, <2>4, <2>5, <3>1, <3>2, RefersIngest DEF Now
    <3> QED  BY <1>a, <2>1, <3>3
  <2>6. CASE run.stage = "audit"
    <3>1. /\ receipts[receipts[j].parent].source = entries[e].source /\ receipts[j].kind = "audit"
          /\ Now.audit # <<>> /\ Now.audit[Len(Now.audit)].job = j
      BY ZenonT(30), <2>0, <2>1, <2>2, <2>3, <2>4, <2>6 DEF Refers, Now
    <3> HIDE DEF j
    <3>2. Renewed(Now.audit, Recorded(Now.audit, j, st), a)
      BY <2>1, <2>2, <2>3, <3>1, RecordedIs
    <3> HIDE DEF a
    <3>3. Refers(e)'
      <4>1. Renewed(entries[e].audit, entries'[e].audit, a)  BY <2>0, <2>1, <2>6, <3>2 DEF Now
      <4>2. /\ entries'[e].ingest = entries[e].ingest
            /\ a.job \in Jobs /\ (a.status # "queued" => receipts[a.job].status = a.status)
        BY <2>0, <2>1, <2>2, <2>4, <2>6 DEF Now
      <4> QED  BY <1>0, <2>1, <2>3, <2>4, <3>1, <4>1, <4>2, RefersAudit
    <3> QED  BY <1>a, <2>1, <3>3
  <2> QED  BY <2>2, <2>5, <2>6
<1>5. ASSUME NEW j \in Jobs, Adopt(j) PROVE \A f \in DOMAIN entries' : Refers(f)'
  <2>0. PICK e \in Nat : e = Len(entries) + 1  BY EntriesTyped DEF StepKind
  <2>1. /\ Added(receipts[j].source, TRUE)
        /\ entries'[e].ingest = <<Attempt(j, "done")>>
        /\ \A n \in DOMAIN entries'[e].audit :
             /\ entries'[e].audit[n].job \in AuditsOf(j) /\ entries'[e].audit[n].status = "failed"
             /\ receipts[entries'[e].audit[n].job].status = "failed"
        /\ \A m, n \in DOMAIN entries'[e].audit : m < n => entries'[e].audit[m].job < entries'[e].audit[n].job
        /\ receipts[j].kind = "ingest" /\ receipts[j].status = "done"
    BY <1>5, <2>0, AdoptIs
  <2>2. /\ DOMAIN entries' = DOMAIN entries \cup {e} /\ entries'[e].source = receipts[j].source
        /\ \A f \in DOMAIN entries : entries'[f] = entries[f]
    BY <2>0, <2>1 DEF Added
  <2>3. receipts' = receipts /\ Jobs' = Jobs  BY SMTT(30), <1>5 DEF Adopt, Jobs
  <2>4. Refers(e)'
    <3>1. DOMAIN entries'[e].ingest = {1} /\ entries'[e].ingest[1] = Attempt(j, "done")  BY <2>1
    <3>2. Attempt(j, "done").job = j /\ Attempt(j, "done").status = "done"  BY DEF Attempt
    <3>3. ASSUME NEW n \in DOMAIN entries'[e].ingest
          PROVE  /\ entries'[e].ingest[n].job \in Ingests(entries[e].source)'
                 /\ entries'[e].ingest[n].status # "queued" =>
                      receipts'[entries'[e].ingest[n].job].status = entries'[e].ingest[n].status
      BY <2>1, <2>2, <2>3, <3>1, <3>2 DEF Ingests
    <3>4. ASSUME NEW n \in DOMAIN entries'[e].audit
          PROVE  /\ entries'[e].audit[n].job \in Jobs' /\ receipts'[entries'[e].audit[n].job].kind = "audit"
                 /\ receipts'[receipts'[entries'[e].audit[n].job].parent].source = entries'[e].source
                 /\ entries'[e].audit[n].status # "queued" =>
                      receipts'[entries'[e].audit[n].job].status = entries'[e].audit[n].status
      BY <2>1, <2>2, <2>3 DEF AuditsOf
    <3> QED  BY <2>1, <3>3, <3>4 DEF Refers
  <2> QED
    <3>1. ASSUME NEW f \in DOMAIN entries PROVE Refers(f)'  BY <1>0, <2>2, RefersFrame
    <3> QED  BY <2>2, <2>4, <3>1
<1>6. ASSUME NEW i \in Identities, AddSource(i) PROVE \A f \in DOMAIN entries' : Refers(f)'
  <2>0. PICK e \in Nat : e = Len(entries) + 1  BY EntriesTyped DEF StepKind
  <2>1. /\ DOMAIN entries' = DOMAIN entries \cup {e}
        /\ \A f \in DOMAIN entries : entries'[f] = entries[f]
        /\ entries'[e].ingest = <<>> /\ entries'[e].audit = <<>>
    BY <1>6, <2>0, AddSourceIs DEF Added
  <2>2. Refers(e)'  BY <2>1 DEF Refers
  <2> QED
    <3>1. ASSUME NEW f \in DOMAIN entries PROVE Refers(f)'  BY <1>0, <2>1, RefersFrame
    <3> QED  BY <2>1, <2>2, <3>1
<1> QED  BY <1>0, <1>1, <1>2, <1>3, <1>4, <1>5, <1>6 DEF AttemptStep

-----------------------------------------------------------------------------
(* Entries keep their sources, and a new one is the last. *)
LEMMA EntriesKeep ==
    ASSUME ConstantsOK, Types, EntryStep
    PROVE  /\ DOMAIN entries \subseteq DOMAIN entries' /\ DOMAIN entries \subseteq Nat
           /\ \A e \in DOMAIN entries : entries'[e].source = entries[e].source /\ entries'[e].orphan = entries[e].orphan
           /\ Plain \subseteq Plain' /\ Plain' \cap DOMAIN entries \subseteq Plain
<1>1. DOMAIN entries \subseteq DOMAIN entries' /\ DOMAIN entries \subseteq Nat  BY EntriesTyped
<1>2. ASSUME NEW e \in DOMAIN entries
      PROVE  entries'[e].source = entries[e].source /\ entries'[e].orphan = entries[e].orphan
  <2>1. CASE entries' = entries  BY <2>1
  <2>2. ASSUME NEW f \in DOMAIN entries, Touched(f)
        PROVE  entries'[e].source = entries[e].source /\ entries'[e].orphan = entries[e].orphan
    BY <2>2 DEF Touched
  <2>3. ASSUME NEW s \in Sources, NEW o \in BOOLEAN, Added(s, o)
        PROVE  entries'[e].source = entries[e].source /\ entries'[e].orphan = entries[e].orphan
    BY <2>3 DEF Added
  <2> QED  BY <2>1, <2>2, <2>3 DEF EntryStep
<1> QED  BY <1>1, <1>2 DEF Plain

LEMMA SameVersions ==
    ASSUME Types, DOMAIN entries' = DOMAIN entries \/ \E e : DOMAIN entries' = DOMAIN entries \cup {e} /\ entries'[e].orphan,
           \A e \in DOMAIN entries : entries'[e].source = entries[e].source /\ entries'[e].orphan = entries[e].orphan
    PROVE  Plain' = Plain /\ \A i \in Identities : Versions(i)' = Versions(i)
BY DEF Plain, Versions

(* Versions come in order. *)
LEMMA OrderedStep ==
    ASSUME ConstantsOK, Types, Ordered, Posting, \A e \in DOMAIN entries : Refers(e), StepKind, Next
    PROVE  Ordered'
<1>0. Evolves /\ AttemptStep /\ Jobs \subseteq Nat  BY JobsEvolve, AttemptsChange, JobIs DEF StepKind
<1>1. /\ DOMAIN entries \subseteq DOMAIN entries' /\ DOMAIN entries \subseteq Nat
      /\ \A e \in DOMAIN entries : entries'[e].source = entries[e].source /\ entries'[e].orphan = entries[e].orphan
      /\ Plain \subseteq Plain' /\ Plain' \cap DOMAIN entries \subseteq Plain
  BY EntriesKeep DEF StepKind
<1>2. \A e \in Plain : entries[e].source[1] \in Identities /\ entries[e].source[2] \in Nat
  <2> SUFFICES ASSUME NEW e \in Plain PROVE entries[e].source[1] \in Identities /\ entries[e].source[2] \in Nat
    OBVIOUS
  <2>1. entries[e].source \in Identities \X (1..MaxVersions)  BY EntryIs DEF Plain, Sources
  <2>2. entries[e].source[1] \in Identities /\ entries[e].source[2] \in 1..MaxVersions  BY <2>1
  <2> QED  BY <2>2
<1>3. \A j \in Jobs' : receipts'[j].kind = "ingest" => \E e \in Plain' : entries'[e].source = receipts'[j].source
  <2>1. ASSUME NEW j \in Jobs, receipts[j].kind = "ingest"
        PROVE  \E e \in Plain' : entries'[e].source = receipts[j].source
    <3>1. PICK e \in Plain : entries[e].source = receipts[j].source  BY <2>1 DEF Ordered
    <3>2. e \in DOMAIN entries  BY DEF Plain
    <3> QED  BY <1>1, <3>1, <3>2
  <2>2. CASE receipts' = receipts  BY <2>1, <2>2 DEF Jobs
  <2>3. ASSUME NEW i \in Jobs, Ends(i), NEW j \in Jobs', receipts'[j].kind = "ingest"
        PROVE  \E e \in Plain' : entries'[e].source = receipts'[j].source
    <3>1. j \in Jobs /\ receipts'[j].kind = receipts[j].kind /\ receipts'[j].source = receipts[j].source
      BY <1>0, <2>3 DEF Ends, Evolves
    <3> QED  BY <2>1, <2>3, <3>1
  <2>4. ASSUME NEW i \in Nat, Comes(i), NEW j \in Jobs', receipts'[j].kind = "ingest"
        PROVE  \E e \in Plain' : entries'[e].source = receipts'[j].source
    <3>1. CASE j \in Jobs
      <4>1. receipts'[j] = receipts[j]  BY <2>4, <3>1 DEF Comes
      <4> QED  BY <2>1, <2>4, <3>1, <4>1
    <3>2. CASE j = i
      <4>1. receipts'[i] = NewReceipt /\ run.at \in DOMAIN entries /\ run.step = "post"  BY <2>4 DEF Comes
      <4>2. NewReceipt.kind = run.stage /\ NewReceipt.source = Now.source  BY DEF NewReceipt, Receipt
      <4> HIDE DEF NewReceipt
      <4>3. ~Now.orphan  BY <2>4, <3>2, <4>1, <4>2 DEF Posting
      <4>4. PICK e \in DOMAIN entries : e = run.at  BY <4>1
      <4>5. e \in Plain /\ entries[e].source = Now.source  BY <4>3, <4>4 DEF Plain, Now
      <4> QED  BY <1>1, <3>2, <4>1, <4>2, <4>5
    <3> QED  BY <2>4, <3>1, <3>2 DEF Comes
  <2> QED  BY <2>2, <2>3, <2>4 DEF StepKind, JobStep
<1>4. CASE Plain' = Plain /\ \A i \in Identities : Versions(i)' = Versions(i)
  <2>1. \A e \in Plain : entries'[e].source = entries[e].source  BY <1>1 DEF Plain
  <2>2. ASSUME NEW e \in Plain PROVE entries'[e].source[2] <= Cardinality(Versions(entries[e].source[1]))'
    <3>0. entries[e].source[1] \in Identities /\ entries'[e].source = entries[e].source  BY <1>2, <2>1
    <3>1. PICK i \in Identities : i = entries[e].source[1]  BY <3>0
    <3>2. Versions(i)' = Versions(i)  BY <1>4
    <3>3. entries[e].source[2] <= Cardinality(Versions(i))  BY <3>1 DEF Ordered
    <3>4. Versions(entries[e].source[1])' = Versions(i)'  BY <3>0, <3>1 DEF Versions
    <3> QED  BY <3>0, <3>2, <3>3, <3>4
  <2>3. \A e, f \in Plain :
          e < f /\ entries'[e].source[1] = entries'[f].source[1] => entries'[e].source[2] < entries'[f].source[2]
    BY <2>1 DEF Ordered
  <2> QED  BY <1>3, <1>4, <2>2, <2>3 DEF Ordered
<1>5. ASSUME NEW k \in Identities, AddSource(k) PROVE Ordered'
  <2>0. PICK new \in Nat : new = Len(entries) + 1  BY EntriesTyped DEF StepKind
  <2>1. PICK v : v = Cardinality(Versions(k)) + 1  OBVIOUS
  <2>2. /\ v \in 1..MaxVersions /\ Cardinality(Versions(k)) \in Nat /\ v = Cardinality(Versions(k)) + 1
        /\ DOMAIN entries' = DOMAIN entries \cup {new} /\ new \notin DOMAIN entries
        /\ \A e \in DOMAIN entries : entries'[e] = entries[e]
        /\ entries'[new].source = <<k, v>> /\ entries'[new].orphan = FALSE
    BY <1>5, <2>0, <2>1, AddSourceIs DEF Added
  <2>3. \A e \in DOMAIN entries : e < new  BY <2>0, EntriesTyped DEF StepKind
  <2>4. Plain' = Plain \cup {new} /\ Plain \subseteq DOMAIN entries  BY <2>2 DEF Plain
  <2>5. entries'[new].source[1] = k /\ entries'[new].source[2] = v  BY <2>2
  <2>6. \A e \in Plain : entries'[e].source = entries[e].source  BY <2>2, <2>4
  <2>7. ASSUME NEW i \in Identities
        PROVE  /\ Versions(i) \in SUBSET DOMAIN entries /\ Cardinality(Versions(i)) \in Nat
               /\ i # k => Versions(i)' = Versions(i)
               /\ i = k => Cardinality(Versions(i)') = v
    <3>1. Versions(i) \in SUBSET DOMAIN entries  BY DEF Versions
    <3>2. IsFiniteSet(Versions(i)) /\ Cardinality(Versions(i)) \in Nat
      <4>1. DOMAIN entries = 1..Len(entries) /\ Len(entries) \in Nat  BY EntriesTyped DEF StepKind
      <4>2. IsFiniteSet(DOMAIN entries)  BY <4>1, FS_Interval
      <4> QED  BY <3>1, <4>2, FS_Subset, FS_CardinalityType
    <3>3. Versions(i)' = IF i = k THEN Versions(i) \cup {new} ELSE Versions(i)  BY <2>2, <2>5 DEF Versions
    <3>4. new \notin Versions(i)  BY <2>2, <3>1
    <3>5. i = k => Cardinality(Versions(i)') = Cardinality(Versions(i)) + 1  BY <3>2, <3>3, <3>4, FS_AddElement
    <3> QED  BY <2>2, <3>1, <3>2, <3>3, <3>5
  <2>8. ASSUME NEW e \in Plain', NEW f \in Plain', e < f, entries'[e].source[1] = entries'[f].source[1]
        PROVE  entries'[e].source[2] < entries'[f].source[2]
    <3>1. e \in Plain  BY <2>2, <2>3, <2>4, <2>8, <1>1
    <3>2. CASE f \in Plain  BY <2>6, <2>8, <3>1, <3>2 DEF Ordered
    <3>3. CASE f = new
      <4>1. entries[e].source[1] = k  BY <2>5, <2>6, <2>8, <3>1, <3>3
      <4>2. entries[e].source[2] <= Cardinality(Versions(k)) /\ entries[e].source[2] \in Nat
        BY <1>2, <3>1, <4>1 DEF Ordered
      <4>3. entries'[e].source[2] = entries[e].source[2]  BY <2>6, <3>1
      <4>4. entries'[f].source[2] = v  BY <2>5, <3>3
      <4>5. Cardinality(Versions(k)) \in Nat /\ v = Cardinality(Versions(k)) + 1  BY <2>2
      <4>6. entries[e].source[2] < v  BY <4>2, <4>5, NextIsMore
      <4> QED  BY <4>3, <4>4, <4>6
    <3> QED  BY <2>4, <3>2, <3>3
  <2>9. ASSUME NEW e \in Plain' PROVE entries'[e].source[2] <= Cardinality(Versions(entries[e].source[1]))'
    <3>1. CASE e = new
      <4>1. Cardinality(Versions(k)') = v  BY <2>7
      <4>2. Versions(entries[e].source[1])' = Versions(k)'  BY <2>5, <3>1 DEF Versions
      <4> QED  BY <2>2, <2>5, <3>1, <4>1, <4>2
    <3>2. CASE e \in Plain
      <4>1. PICK i \in Identities : i = entries[e].source[1]  BY <1>2, <3>2
      <4>2. entries[e].source[2] <= Cardinality(Versions(i)) /\ entries[e].source[2] \in Nat
        BY <1>2, <3>2, <4>1 DEF Ordered
      <4>3. Cardinality(Versions(i)) <= Cardinality(Versions(i)') /\ Cardinality(Versions(i)') \in Nat
            /\ Cardinality(Versions(i)) \in Nat
        BY <2>2, <2>7
      <4>4. Versions(entries[e].source[1])' = Versions(i)' /\ entries'[e].source = entries[e].source
        BY <2>6, <3>2, <4>1 DEF Versions
      <4> QED  BY <4>2, <4>3, <4>4
    <3> QED  BY <2>4, <3>1, <3>2
  <2> QED  BY <1>3, <2>8, <2>9 DEF Ordered
<1>6. CASE Quiet \/ Record \/ Refresh \/ \E e \in DOMAIN entries, j \in Jobs : Import(e, j)
  <2>1. DOMAIN entries' = DOMAIN entries
    <3>1. CASE Quiet  BY <3>1 DEF Quiet
    <3>2. CASE Record  BY <3>2, RecordIs DEF Touched
    <3>3. CASE Refresh  BY <3>3, RefreshIs DEF Touched
    <3>4. ASSUME NEW e \in DOMAIN entries, NEW j \in Jobs, Import(e, j) PROVE DOMAIN entries' = DOMAIN entries
      BY <3>4, ImportIs DEF Touched
    <3> QED  BY <1>6, <3>1, <3>2, <3>3, <3>4
  <2> QED  BY <1>1, <1>4, <2>1, SameVersions
<1>7. ASSUME NEW j \in Jobs, Adopt(j) PROVE Ordered'
  <2>1. \E e : DOMAIN entries' = DOMAIN entries \cup {e} /\ entries'[e].orphan
    BY <1>7, AdoptIs DEF Added
  <2> QED  BY <1>1, <1>4, <2>1, SameVersions
<1> QED  BY <1>0, <1>5, <1>6, <1>7 DEF AttemptStep

-----------------------------------------------------------------------------
(* What a run that posts knows. *)
LEMMA AnswerIsNewest ==
    ASSUME ConstantsOK, Types, \A j \in Jobs : Linked(j), UniqueIngest, AuditsInTurn, NEW at \in DOMAIN entries, at = run.at,
           run.step = "post", NEW j, Posted(j)
    PROVE  /\ run.stage = "ingest" =>
                /\ j \in Jobs' /\ receipts'[j].kind = "ingest" /\ receipts'[j].source = Now.source
                /\ \A k \in Jobs' : (/\ receipts'[k].kind = "ingest" /\ receipts'[k].source = Now.source
                                     /\ receipts'[k].status = "queued") => k = j
           /\ run.stage = "audit" =>
                /\ j \in Jobs' /\ receipts'[j].kind = "audit" /\ receipts'[j].parent = Parent
                /\ \A k \in Jobs' : receipts'[k].kind = "audit" /\ receipts'[k].parent = Parent => k <= j
<1>0. Jobs \subseteq Nat  BY JobIs
<1>1. OldJob(j) \/ NewJob(j)  BY PostedIs
<1>2. CASE OldJob(j)
  <2>1. receipts' = receipts /\ Jobs' = Jobs /\ j \in Jobs  BY <1>2 DEF OldJob, Jobs
  <2>2. ASSUME run.stage = "ingest"
        PROVE  /\ receipts[j].kind = "ingest" /\ receipts[j].source = Now.source
               /\ \A k \in Jobs : (/\ receipts[k].kind = "ingest" /\ receipts[k].source = Now.source
                                   /\ receipts[k].status = "queued") => k = j
    <3>1. j \in IngestOf(Now.source)  BY <1>2, <2>2 DEF OldJob
    <3> QED  BY <3>1 DEF IngestOf, UniqueIngest, Reusable
  <2>3. ASSUME run.stage = "audit", NEW k \in AuditsOf(Parent), ~(k <= j) PROVE FALSE
    <3> DEFINE S == {i \in AuditsOf(Parent) : receipts[i].slip}
    <3>1. /\ j \in AuditsOf(Parent) /\ Reusable(j)
          /\ \A i \in AuditsOf(Parent) : Reusable(i) => i <= j
          /\ ~(receipts[j].slip /\ Cardinality(S) < Slips)
      BY <1>2, <2>3 DEF OldJob
    <3>2. j < k /\ k \in Jobs  BY <1>0, <2>1, <2>3 DEF AuditsOf
    <3>3. receipts[j].slip /\ Cardinality(Slipped(j)) < Slips
      BY <2>1, <2>3, <3>1, <3>2 DEF AuditsInTurn, AuditsOf
    <3>4. \A i \in S : i <= j  BY <3>1 DEF Linked, AuditsOf, Reusable
    <3>5. receipts[j].parent = Parent  BY <3>1 DEF AuditsOf
    <3>6. Slipped(j) = S  BY <3>4, <3>5 DEF Slipped
    <3> QED  BY <3>1, <3>3, <3>6
  <2>4. ASSUME run.stage = "audit" PROVE j \in AuditsOf(Parent)  BY <1>2, <2>4 DEF OldJob
  <2> QED  BY <2>1, <2>2, <2>3, <2>4 DEF AuditsOf
<1>3. CASE NewJob(j)
  <2>1. Comes(j)  BY <1>3, ComesIs
  <2>2. /\ Jobs' = Jobs \cup {j} /\ receipts'[j] = NewReceipt
        /\ \A k \in Jobs : receipts'[k] = receipts[k] /\ k < j
    BY <2>1 DEF Comes
  <2>3. /\ NewReceipt.kind = run.stage /\ NewReceipt.source = Now.source
        /\ NewReceipt.parent = IF run.stage = "audit" THEN Parent ELSE 0
    BY DEF NewReceipt, Receipt
  <2> HIDE DEF NewReceipt
  <2>4. ASSUME run.stage = "ingest", NEW k \in Jobs, receipts[k].kind = "ingest", receipts[k].source = Now.source,
               receipts[k].status = "queued"
        PROVE  FALSE
    BY <1>3, <2>4 DEF NewJob, IngestOf, Reusable
  <2>5. j \in Nat /\ \A k \in Jobs' : k <= j
    <3>1. j \in Nat  BY <1>3, ComesIs
    <3> QED  BY <1>0, <2>2, <3>1
  <2> QED  BY <2>2, <2>3, <2>4, <2>5
<1> QED  BY <1>1, <1>2, <1>3

LEMMA PostingStep ==
    ASSUME ConstantsOK, Types, \A j \in Jobs : Linked(j), UniqueIngest, AuditsInTurn, Posting,
           \A e \in DOMAIN entries : Refers(e), StepKind, Next
    PROVE  Posting'
<1>0. Evolves  BY JobsEvolve DEF StepKind
<1>a. ASSUME run'.step = "look", run'.stage = "ingest" PROVE Posting'
  BY <1>a DEF Posting
<1>b. run' = NoRun => Posting'  BY <1>a DEF NoRun
<1>c. ASSUME NEW x, NEW y, run' = [NoRun EXCEPT !.at = x, !.blocked = y] PROVE Posting'
  BY <1>a, <1>c DEF NoRun
<1>1. ASSUME NEW j \in Jobs, Lands(j) \/ Fails(j) PROVE Posting'
  <2>1. Ends(j) /\ run' = run /\ entries' = entries  BY <1>1, LandsIs, FailsIs DEF Lands, Fails
  <2>2. Now' = Now /\ Parent' = Parent  BY <2>1 DEF Now, Parent
  <2>3. /\ Jobs' = Jobs
        /\ \A k \in Jobs : /\ receipts'[k].kind = receipts[k].kind /\ receipts'[k].source = receipts[k].source
                           /\ receipts'[k].parent = receipts[k].parent
                           /\ receipts'[k].status = "queued" => receipts[k].status = "queued"
    BY <2>1 DEF Ends
  <2>4. \A k \in Jobs : (k \in Ingests(Now.source))' <=> k \in Ingests(Now.source)
    BY <2>2, <2>3 DEF Ingests
  <2>5. \A k \in Jobs : (k \in Landing(Now.source))' => k \in Landing(Now.source)
    BY <2>2, <2>3 DEF Landing
  <2>6. AuditsOf(Parent)' = AuditsOf(Parent)  BY <2>2, <2>3 DEF AuditsOf
  <2>7. (Landing(Now.source))' \subseteq Landing(Now.source)
    <3>1. (Landing(Now.source))' \subseteq Jobs  BY <2>3 DEF Landing
    <3> QED  BY <2>5, <3>1
  <2>8. run.step = "answer" => run.answer \in Jobs  BY DEF Types
  <2> QED  BY <2>1, <2>2, <2>4, <2>6, <2>7, <2>8 DEF Posting
<1>2. CASE Deploy  BY <1>2 DEF Deploy, Posting, Now, Parent, Ingests, Landing, AuditsOf, Jobs
<1>3. ASSUME Idle, run' = run PROVE Posting'  BY <1>3, <1>b DEF Types
<1>4. ASSUME NEW j \in 1..MaxPosted, Post(j) PROVE Posting'
  <2>0. PICK e \in DOMAIN entries : e = run.at  BY <1>4 DEF Types, Post
  <2>1. run' = [run EXCEPT !.step = "answer", !.answer = j] /\ entries' = entries /\ run.step = "post" /\ Posted(j)
    BY <1>4 DEF Post
  <2>2. /\ run'.at = run.at /\ run'.stage = run.stage /\ run'.step = "answer" /\ run'.answer = j
        /\ run'.blocked = run.blocked
    BY <2>1 DEF Types
  <2>3. Now' = Now /\ Parent' = Parent  BY <2>1, <2>2 DEF Now, Parent
  <2>4. run.stage = "ingest" =>
                /\ j \in Jobs' /\ receipts'[j].kind = "ingest" /\ receipts'[j].source = Now.source
                /\ \A k \in Jobs' : (/\ receipts'[k].kind = "ingest" /\ receipts'[k].source = Now.source
                                     /\ receipts'[k].status = "queued") => k = j
    BY <2>0, <2>1, AnswerIsNewest
  <2>5. run.stage = "audit" =>
                /\ j \in Jobs' /\ receipts'[j].kind = "audit" /\ receipts'[j].parent = Parent
                /\ \A k \in Jobs' : receipts'[k].kind = "audit" /\ receipts'[k].parent = Parent => k <= j
    BY <2>0, <2>1, AnswerIsNewest
  <2>6. run.stage = "ingest" => run'.answer \in Ingests(Now.source)' /\ Landing(Now.source)' \subseteq {run'.answer}
    BY <2>2, <2>3, <2>4 DEF Ingests, Landing
  <2>7. run.stage = "audit" => run'.answer \in AuditsOf(Parent)' /\ \A k \in AuditsOf(Parent)' : k <= run'.answer
    BY <2>2, <2>3, <2>5 DEF AuditsOf
  <2>8. /\ Now.submitting = run.stage
        /\ run.stage = "ingest" => ~Now.orphan
        /\ ~Now.orphan => Now.source[1] \notin run.blocked
    BY <2>1 DEF Posting
  <2>9. run.stage = "audit" => Now.ingest[Len(Now.ingest)].status = "done" /\ Now.submitting # "ingest"
    BY DEF Posting
  <2> HIDE DEF Now, Parent
  <2> QED  BY <2>2, <2>3, <2>6, <2>7, <2>8, <2>9 DEF Posting
<1>5. CASE StartRun  BY <1>5, <1>a DEF StartRun, NoRun
<1>6. CASE RunnerDies \/ EndRun  BY <1>6, <1>b DEF RunnerDies, EndRun
<1>7. CASE SkipEntry  BY <1>7, <1>c DEF SkipEntry
<1>8. ASSUME Looking, NEW st \in EntryStatus, NEW stops, LeaveAs(st, stops) PROVE Posting'
  <2>1. run' = NoRun \/ run' = [NoRun EXCEPT !.at = run.at + 1,
              !.blocked = IF st = "pending" /\ ~Now.orphan THEN run.blocked \cup {Now.source[1]}
                          ELSE run.blocked]
    BY <1>8, LeaveAsIs
  <2> QED  BY <1>b, <1>c, <2>1
<1>9. CASE Refused  BY <1>9, <1>c, RefusedIs
<1>10. CASE PostLost  BY <1>10, <1>c, PostLostIs
<1>11. CASE Intend
  <2>0. PICK e \in DOMAIN entries : e = run.at  BY <1>11, IntendIs
  <2>1. /\ Touched(e) /\ entries'[e].ingest = Now.ingest /\ entries'[e].submitting = run.stage
        /\ run' = [run EXCEPT !.step = "post"]
    BY <1>11, <2>0, IntendIs
  <2>2. /\ run'.at = e /\ run'.stage = run.stage /\ run'.step = "post" /\ run'.blocked = run.blocked
    BY <2>0, <2>1 DEF Types
  <2>3. /\ Now'.submitting = run.stage /\ Now'.ingest = Now.ingest /\ Now'.source = Now.source
        /\ Now'.orphan = Now.orphan
    BY <2>0, <2>1, <2>2 DEF Now, Touched
  <2>4. ~(run.stage = "ingest" /\ Now.orphan) /\ (~Now.orphan => Now.source[1] \notin run.blocked)
    BY <1>11 DEF Intend, Goes, Looks, IsBlocked
  <2>5. run.stage = "audit" => Now.ingest[Len(Now.ingest)].status = "done"  BY DEF Posting
  <2> HIDE DEF Now
  <2> QED  BY <2>2, <2>3, <2>4, <2>5 DEF Posting
<1>12. CASE Record
  <2>0. PICK e \in DOMAIN entries : e = run.at  BY <1>12, RecordIs
  <2>1. /\ run' = [run EXCEPT !.step = "look", !.submitted = TRUE, !.answer = 0]
        /\ entries'[e].submitting = "none"
        /\ run.stage = "audit" => entries'[e].ingest = Now.ingest
    BY <1>12, <2>0, RecordIs
  <2>2. run'.at = e /\ run'.stage = run.stage /\ run'.step = "look"  BY <2>0, <2>1 DEF Types
  <2>3. Now'.submitting = "none" /\ (run.stage = "audit" => Now'.ingest = Now.ingest)  BY <2>1, <2>2 DEF Now
  <2>4. run.stage = "audit" => Now.ingest[Len(Now.ingest)].status = "done"  BY DEF Posting
  <2> HIDE DEF Now
  <2> QED  BY <2>2, <2>3, <2>4 DEF Posting
<1>13. CASE Refresh
  <2>0. PICK e \in DOMAIN entries : e = run.at  BY <1>13, RefreshIs
  <2>1. /\ run' = run /\ entries'[e].submitting = Now.submitting
        /\ run.stage = "audit" => entries'[e].ingest = Now.ingest
    BY <1>13, <2>0, RefreshIs DEF Refresh
  <2>2. run.step = "look"  BY <1>13 DEF Refresh, Goes, Looks, Process, Looking
  <2>3. Now'.submitting = Now.submitting /\ (run.stage = "audit" => Now'.ingest = Now.ingest)
    BY <2>0, <2>1 DEF Now
  <2>4. run.stage = "audit" => Now.ingest[Len(Now.ingest)].status = "done" /\ Now.submitting # "ingest"
    BY DEF Posting
  <2> HIDE DEF Now
  <2> QED  BY <2>1, <2>2, <2>3, <2>4 DEF Posting
<1>14. CASE NextStage
  <2>1. /\ run' = [run EXCEPT !.stage = "audit", !.submitted = FALSE] /\ entries' = entries /\ run.step = "look"
        /\ run.stage = "ingest"
    BY <1>14 DEF NextStage, StageDone, Goes, Looks, Process, Looking
  <2>2. run'.at = run.at /\ run'.stage = "audit" /\ run'.step = "look"  BY <2>1 DEF Types
  <2>3. Now' = Now  BY <2>1, <2>2 DEF Now
  <2>4. LastOne.status = "done" /\ Now.submitting # "ingest"  BY <1>14, <2>1 DEF NextStage, StageDone, MustSubmit
  <2>5. Now.ingest[Len(Now.ingest)].status = "done"  BY <2>1, <2>4 DEF LastOne, Attempts
  <2> HIDE DEF Now
  <2> QED  BY <2>2, <2>3, <2>4, <2>5 DEF Posting
<1>15. CASE Blocked \/ Supersede \/ Finish \/ Repair \/ Postpone
  <2>1. Looking  BY <1>15 DEF Blocked, Supersede, Finish, Repair, Postpone, StageDone, Goes, Looks, Process
  <2>2. CASE Blocked  BY <1>8, <2>1, <2>2 DEF Blocked, EntryStatus
  <2>3. CASE Supersede  BY <1>8, <2>1, <2>3 DEF Supersede, EntryStatus
  <2>4. CASE Finish  BY <1>8, <2>1, <2>4 DEF Finish, EntryStatus
  <2>5. CASE Repair  BY <1>8, <2>1, <2>5 DEF Repair, EntryStatus
  <2>6. CASE Postpone
    <3>1. PICK stops : LeaveAs("pending", stops)  BY <2>6 DEF Postpone
    <3> QED  BY <1>8, <2>1, <3>1 DEF EntryStatus
  <2> QED  BY <1>15, <2>2, <2>3, <2>4, <2>5, <2>6
<1>16. ASSUME NEW j \in Jobs, Adopt(j) PROVE Posting'  BY <1>3, <1>16 DEF Adopt
<1>17. ASSUME NEW i \in Identities, AddSource(i) PROVE Posting'  BY <1>3, <1>17 DEF AddSource
<1>18. ASSUME NEW e \in DOMAIN entries, Drop(e) PROVE Posting'  BY <1>3, <1>18 DEF Drop
<1>19. ASSUME NEW e \in DOMAIN entries, NEW j \in Jobs, Import(e, j) PROVE Posting'  BY <1>3, <1>19 DEF Import
<1> QED
  BY <1>1, <1>2, <1>4, <1>5, <1>6, <1>7, <1>9, <1>10, <1>11, <1>12, <1>13, <1>14, <1>15,
     <1>16, <1>17, <1>18, <1>19 DEF Next

-----------------------------------------------------------------------------
(* A version is of one entry of the manifest, which is the one that posts when it has a new ingest. *)
LEMMA OnlyPlain ==
    ASSUME Types, Ordered, NEW e \in Plain, NEW f \in Plain, entries[e].source = entries[f].source
    PROVE  e = f
<1>1. e \in DOMAIN entries /\ f \in DOMAIN entries  BY DEF Plain
<1>2. e \in Nat /\ f \in Nat  BY <1>1, EntryIs
<1>3. entries[e].source \in Identities \X (1..MaxVersions)  BY <1>1, EntryIs DEF Sources
<1>4. entries[e].source[2] \in Nat  BY <1>3
<1>5. CASE e < f  BY <1>4, <1>5 DEF Ordered
<1>6. CASE f < e  BY <1>4, <1>6 DEF Ordered
<1> QED  BY <1>2, <1>5, <1>6

LEMMA NewIngestIs ==
    ASSUME ConstantsOK, Types, Ordered, Posting, JobStep, NEW e \in Plain, NEW j \in Jobs',
           receipts'[j].kind = "ingest", receipts'[j].source = entries[e].source
    PROVE  \/ /\ j \in Jobs /\ receipts[j].kind = "ingest" /\ receipts[j].source = entries[e].source
              /\ receipts'[j].status = "queued" => receipts[j].status = "queued"
           \/ /\ Comes(j) /\ run.at = e /\ run.stage = "ingest" /\ Now.submitting = "ingest"
              /\ receipts'[j].status = "queued" /\ Now = entries[e]
<1>0. Evolves  BY JobsEvolve
<1>1. CASE receipts' = receipts  BY <1>1 DEF Jobs
<1>2. ASSUME NEW i \in Jobs, Ends(i)
      PROVE  /\ j \in Jobs /\ receipts[j].kind = "ingest" /\ receipts[j].source = entries[e].source
             /\ receipts'[j].status = "queued" => receipts[j].status = "queued"
  <2>1. j \in Jobs /\ receipts'[j].kind = receipts[j].kind /\ receipts'[j].source = receipts[j].source
    BY <1>0, <1>2 DEF Ends, Evolves
  <2>2. receipts'[j].status = "queued" => receipts[j].status = "queued"  BY <1>2, <2>1 DEF Ends
  <2> QED  BY <2>1, <2>2
<1>3. ASSUME NEW i \in Nat, Comes(i), j \notin Jobs
      PROVE  /\ Comes(j) /\ run.at = e /\ run.stage = "ingest" /\ Now.submitting = "ingest"
             /\ receipts'[j].status = "queued" /\ Now = entries[e]
  <2>1. j = i  BY <1>3 DEF Comes
  <2>2. receipts'[j] = NewReceipt /\ run.at \in DOMAIN entries /\ run.step = "post"  BY <1>3, <2>1 DEF Comes
  <2>3. NewReceipt.kind = run.stage /\ NewReceipt.source = Now.source /\ NewReceipt.status = "queued"
    BY DEF NewReceipt, Receipt
  <2> HIDE DEF NewReceipt
  <2>4. run.stage = "ingest" /\ ~Now.orphan /\ Now.submitting = "ingest"  BY <2>2, <2>3 DEF Posting
  <2>5. PICK f \in DOMAIN entries : f = run.at  BY <2>2
  <2>6. f \in Plain /\ entries[f].source = entries[e].source  BY <2>2, <2>3, <2>4, <2>5 DEF Plain, Now
  <2>7. f = e  BY <2>6, OnlyPlain
  <2> QED  BY <1>3, <2>1, <2>2, <2>3, <2>4, <2>5, <2>7 DEF Now
<1>4. ASSUME NEW i \in Nat, Comes(i), j \in Jobs
      PROVE  /\ receipts[j].kind = "ingest" /\ receipts[j].source = entries[e].source
             /\ receipts'[j].status = "queued" => receipts[j].status = "queued"
  BY <1>4 DEF Comes
<1> QED  BY <1>1, <1>2, <1>3, <1>4 DEF JobStep

(* An entry that no step touches waits as it did. *)
LEMMA WaitsFrame ==
    ASSUME ConstantsOK, Types, Ordered, Posting, JobStep, NEW e \in Plain, Refers(e), Waits(e),
           loose \subseteq loose', entries'[e].ingest = entries[e].ingest, entries'[e].source = entries[e].source,
           (entries'[e].submitting = "ingest") = (entries[e].submitting = "ingest")
    PROVE  Waits(e)'
<1> DEFINE tried == entries[e].ingest
<1>0. Evolves /\ e \in DOMAIN entries  BY JobsEvolve DEF Plain
<1>1. ASSUME NEW n \in DOMAIN tried
      PROVE  /\ RolledBack(tried[n]) => tried[n].status = "failed" /\ receipts'[tried[n].job].rolled
             /\ Settled(tried[n]) => tried[n].status = "done"
                                     \/ (tried[n].status = "failed" /\ receipts'[tried[n].job].rolled)
  BY <1>0 DEF Refers, Evolves, Ingests, RolledBack, Settled, Failed
<1>2. Len(tried) \in Nat /\ DOMAIN tried = 1..Len(tried) /\ tried \in Seq(AttemptSet)  BY <1>0, EntryIs
<1>3. tried # <<>> => Len(tried) \in DOMAIN tried
  <2>1. tried # <<>> => Len(tried) # 0  BY <1>2, EmptySeq
  <2> QED  BY <1>2, <2>1
<1>4. ASSUME entries[e].submitting # "ingest", NEW j \in Landing(entries[e].source)'
      PROVE  j \in Landing(entries[e].source)
  <2>1. /\ j \in Jobs' /\ receipts'[j].kind = "ingest" /\ receipts'[j].source = entries[e].source
        /\ receipts'[j].status = "queued"
    BY DEF Landing
  <2>2. /\ j \in Jobs /\ receipts[j].kind = "ingest" /\ receipts[j].source = entries[e].source
        /\ receipts'[j].status = "queued" => receipts[j].status = "queued"
    BY <1>4, <2>1, NewIngestIs
  <2> QED  BY <2>1, <2>2 DEF Landing
<1>5. ASSUME entries'[e].submitting = "ingest", tried # <<>>
      PROVE  tried[Len(tried)].status = "failed" /\ receipts'[tried[Len(tried)].job].rolled
  <2>1. RolledBack(tried[Len(tried)])  BY <1>5 DEF Waits
  <2> QED  BY <1>1, <1>3, <1>5, <2>1
<1>6. ASSUME entries[e].source \notin loose', NEW n \in DOMAIN tried, n < Len(tried)
      PROVE  tried[n].status = "done" \/ (tried[n].status = "failed" /\ receipts'[tried[n].job].rolled)
  <2>1. Settled(tried[n])  BY <1>6 DEF Waits
  <2> QED  BY <1>1, <2>1
<1>7. ASSUME entries[e].source \notin loose', entries'[e].submitting # "ingest", NEW j \in Landing(entries[e].source)'
      PROVE  tried # <<>> /\ tried[Len(tried)].job = j
  <2>1. j \in Landing(entries[e].source)  BY <1>4, <1>7
  <2> QED  BY <1>7, <2>1 DEF Waits
<1> QED  BY <1>5, <1>6, <1>7 DEF Waits, RolledBack, Settled, Failed

(* Every version is waited for, whatever the step. *)
LEMMA WaitsStep ==
    ASSUME ConstantsOK, Types, \A j \in Jobs : Linked(j), Ordered, Posting, \A e \in Plain : Waits(e),
           \A e \in DOMAIN entries : Refers(e), StepKind, Next
    PROVE  \A e \in Plain' : Waits(e)'
<1>0. Evolves /\ JobStep /\ loose \subseteq loose'  BY JobsEvolve DEF StepKind
<1>00. /\ DOMAIN entries \subseteq DOMAIN entries' /\ Plain \subseteq DOMAIN entries
       /\ \A e \in DOMAIN entries : entries'[e].source = entries[e].source /\ entries'[e].orphan = entries[e].orphan
       /\ Plain' \cap DOMAIN entries \subseteq Plain
  BY EntriesKeep DEF StepKind, Plain
<1>a. ASSUME NEW e \in Plain, entries'[e].ingest = entries[e].ingest,
             entries'[e].submitting = "ingest" <=> entries[e].submitting = "ingest"
      PROVE  Waits(e)'
  BY <1>0, <1>00, <1>a, WaitsFrame
<1>b. ASSUME NEW e \in Plain, entries'[e] = entries[e] PROVE Waits(e)'  BY <1>a, <1>b
<1>c. ASSUME entries' = entries PROVE \A e \in Plain' : Waits(e)'  BY <1>b, <1>c DEF Plain
<1>d. ASSUME NEW e \in DOMAIN entries, Touched(e), e \in Plain => Waits(e)' PROVE \A f \in Plain' : Waits(f)'
  <2> SUFFICES ASSUME NEW f \in Plain', f # e PROVE Waits(f)'
    <3>1. e \in Plain' => e \in Plain  BY <1>00
    <3> QED  BY <1>d, <3>1
  <2>1. f \in DOMAIN entries  BY <1>d DEF Touched, Plain
  <2>2. f \in Plain /\ entries'[f] = entries[f]  BY <1>00, <1>d, <2>1 DEF Touched
  <2> QED  BY <1>b, <2>2
<1>e. ASSUME NEW e \in Plain, entries'[e].ingest = entries[e].ingest, entries'[e].submitting # "ingest",
             entries[e].source \notin loose' => Landing(entries[e].source) = {}, receipts' = receipts
      PROVE  Waits(e)'
  <2>1. Jobs' = Jobs /\ entries'[e].source = entries[e].source  BY <1>00, <1>e DEF Jobs
  <2>2. Landing(entries[e].source)' = Landing(entries[e].source)  BY <1>e, <2>1 DEF Landing
  <2>3. \A n \in DOMAIN entries[e].ingest : Settled(entries[e].ingest[n])' <=> Settled(entries[e].ingest[n])
    BY <1>e DEF Settled, RolledBack, Failed
  <2>4. entries[e].source \notin loose' => \A n \in DOMAIN entries[e].ingest :
          n < Len(entries[e].ingest) => Settled(entries[e].ingest[n])
    BY <1>0 DEF Waits
  <2> QED  BY <1>e, <2>1, <2>2, <2>3, <2>4 DEF Waits
<1>1. ASSUME NEW j \in Jobs, Lands(j) \/ Fails(j) PROVE \A e \in Plain' : Waits(e)'  BY <1>1, <1>c DEF Lands, Fails
<1>2. CASE Deploy \/ StartRun \/ RunnerDies \/ SkipEntry \/ EndRun \/ NextStage \/ \E j \in 1..MaxPosted : Post(j)
  BY <1>2, <1>c DEF Deploy, StartRun, RunnerDies, SkipEntry, EndRun, NextStage, Post
<1>3. ASSUME NEW e \in DOMAIN entries, Drop(e) PROVE \A f \in Plain' : Waits(f)'
  <2>1. /\ Touched(e) /\ SameAttempts(e) /\ entries[e].submitting = "none" /\ entries'[e].submitting = "none"
    BY <1>3, DropIs
  <2> QED  BY <1>a, <1>d, <2>1 DEF SameAttempts
<1>4. ASSUME Looking, NEW st \in EntryStatus, NEW stops, LeaveAs(st, stops), st # "superseded"
      PROVE  \A f \in Plain' : Waits(f)'
  <2>0. PICK e \in DOMAIN entries : e = run.at  BY <1>4, LeaveAsIs
  <2>1. Touched(e) /\ SameAttempts(e) /\ entries'[e].submitting = entries[e].submitting
    BY <1>4, <2>0, LeaveAsIs DEF Left, Now
  <2> QED  BY <1>a, <1>d, <2>1 DEF SameAttempts
<1>5. CASE Supersede
  <2>0. Looking /\ LeaveAs("superseded", FALSE) /\ loose' = GivenUp(Now.source)
    BY <1>5 DEF Supersede, Looks, Process
  <2>1. PICK e \in DOMAIN entries : e = run.at  BY <2>0, LeaveAsIs DEF EntryStatus
  <2>2. /\ Touched(e) /\ SameAttempts(e) /\ entries'[e].submitting = "none" /\ receipts' = receipts
    BY <2>0, <2>1, LeaveAsIs DEF Left, Now, EntryStatus
  <2>3. entries[e].source \notin loose' => Landing(entries[e].source) = {}
    BY <2>0, <2>1 DEF GivenUp, Now
  <2> QED  BY <1>d, <1>e, <2>2, <2>3 DEF SameAttempts
<1>6. CASE Refused
  <2>1. PICK st \in {"pending", "needs_repair"} :
           /\ Left(st, "none") /\ run.at \in DOMAIN entries
           /\ loose' = IF run.stage = "ingest" THEN GivenUp(Now.source) ELSE loose
           /\ receipts' = receipts
    BY <1>6, RefusedIs
  <2>2. PICK e \in DOMAIN entries : e = run.at  BY <2>1
  <2>3. Touched(e) /\ SameAttempts(e) /\ entries'[e].submitting = "none"  BY <2>1, <2>2 DEF Left
  <2>4. CASE run.stage = "ingest"
    <3>1. entries[e].source \notin loose' => Landing(entries[e].source) = {}  BY <2>1, <2>2, <2>4 DEF GivenUp, Now
    <3> QED  BY <1>d, <1>e, <2>1, <2>3, <3>1 DEF SameAttempts
  <2>5. CASE run.stage # "ingest"
    <3>1. entries[e].submitting # "ingest"  BY <1>6, <2>2, <2>5 DEF Refused, Posting, Now
    <3> QED  BY <1>a, <1>d, <2>3, <3>1 DEF SameAttempts
  <2> QED  BY <2>4, <2>5
<1>7. CASE PostLost
  <2>0. PICK e \in DOMAIN entries : e = run.at  BY <1>7, PostLostIs
  <2>1. Touched(e) /\ SameAttempts(e) /\ entries'[e].submitting = entries[e].submitting
    BY <1>7, <2>0, PostLostIs DEF Left, Now
  <2> QED  BY <1>a, <1>d, <2>1 DEF SameAttempts
<1>8. CASE Intend
  <2>0. PICK e \in DOMAIN entries : e = run.at  BY <1>8, IntendIs
  <2>1. /\ Touched(e) /\ entries'[e].ingest = entries[e].ingest /\ entries'[e].submitting = run.stage
        /\ receipts' = receipts
    BY <1>8, <2>0, IntendIs DEF Now, Intend
  <2>2. CASE run.stage = "ingest"
    <3>1. ASSUME e \in Plain, entries[e].ingest # <<>> PROVE RolledBack(entries[e].ingest[Len(entries[e].ingest)])
      <4>1. Attempts = entries[e].ingest /\ LastOne = entries[e].ingest[Len(entries[e].ingest)]
        BY <2>0, <2>2 DEF Attempts, LastOne, Now
      <4>2. CASE MustSubmit
        <5>1. entries[e].submitting = "ingest"  BY <2>0, <2>2, <3>1, <4>1, <4>2 DEF MustSubmit, Now
        <5> QED  BY <3>1, <5>1 DEF Waits
      <4>3. CASE ~MustSubmit
        <5>1. MayRetry  BY <1>8, <2>2, <4>3 DEF Intend, SlipAgain
        <5> QED  BY <4>1, <5>1 DEF MayRetry
      <4> QED  BY <4>2, <4>3
    <3>2. ASSUME e \in Plain PROVE Waits(e)'
      <4>1. entries'[e].ingest # <<>> => (RolledBack(entries[e].ingest[Len(entries[e].ingest)]))'
        BY <2>1, <3>1, <3>2 DEF RolledBack, Failed
      <4>2. \A n \in DOMAIN entries[e].ingest : Settled(entries[e].ingest[n])' <=> Settled(entries[e].ingest[n])
        BY <2>1 DEF Settled, RolledBack, Failed
      <4>3. entries[e].source \notin loose' => \A n \in DOMAIN entries[e].ingest :
              n < Len(entries[e].ingest) => Settled(entries[e].ingest[n])
        BY <1>0, <3>2 DEF Waits
      <4> QED  BY <1>00, <2>1, <2>2, <4>1, <4>2, <4>3 DEF Waits
    <3> QED  BY <1>d, <2>1, <3>2
  <2>3. CASE run.stage = "audit"
    <3>1. entries[e].submitting # "ingest"  BY <2>0, <2>3 DEF Posting, Now
    <3> QED  BY <1>a, <1>d, <2>1, <2>3, <3>1
  <2> QED  BY <2>2, <2>3 DEF Types, Stages
<1>9. CASE Record
  <2>0. PICK e \in DOMAIN entries : e = run.at  BY <1>9, RecordIs
  <2>1. /\ Touched(e) /\ entries'[e].submitting = "none" /\ receipts' = receipts /\ loose' = loose
        /\ run.answer \in 1..MaxPosted
    BY <1>9, <2>0, RecordIs DEF Record
  <2>2. CASE run.stage = "audit"
    <3>1. entries[e].submitting # "ingest"  BY <2>0, <2>2 DEF Posting, Now
    <3>2. entries'[e].ingest = entries[e].ingest  BY <1>9, <2>0, <2>2, RecordIs DEF Now
    <3> QED  BY <1>a, <1>d, <2>1, <3>1, <3>2
  <2>3. CASE run.stage = "ingest"
    <3> DEFINE a == Attempt(run.answer, "queued")
               old == entries[e].ingest
               next == entries'[e].ingest
    <3>1. next = Recorded(old, run.answer, "queued")
      BY <1>9, <2>0, <2>3, RecordIs DEF Now
    <3>2. old \in Seq(AttemptSet) /\ Len(old) \in Nat /\ DOMAIN old = 1..Len(old)  BY EntryIs
    <3>3. Longer(old, next, a) \/ Renewed(old, next, a)
      BY <2>1, <3>1, <3>2, RecordedIs DEF Statuses
    <3>4. a.job = run.answer  BY DEF Attempt
    <3>5. entries[e].submitting = "ingest" /\ Landing(entries[e].source) \subseteq {run.answer}
      BY <1>9, <2>0, <2>3 DEF Record, Posting, Now
    <3> HIDE DEF a
    <3>6. next # <<>> /\ next[Len(next)] = a  BY <3>3 DEF Longer, Renewed
    <3>7. ASSUME e \in Plain, entries[e].source \notin loose, NEW n \in DOMAIN next, n < Len(next)
          PROVE  Settled(entries[e].ingest[n])'
      <4>1. n \in DOMAIN old /\ next[n] = old[n] /\ Settled(old[n])
        <5>1. \A k \in DOMAIN old : k < Len(old) => Settled(old[k])  BY <3>7 DEF Waits
        <5>2. old # <<>> => Settled(old[Len(old)])  BY <3>5, <3>7 DEF Waits, Settled
        <5>3. CASE Longer(old, next, a)
          <6>1. Len(next) = Len(old) + 1 /\ DOMAIN next = 1..(Len(old) + 1) /\ \A k \in DOMAIN old : next[k] = old[k]
            BY <5>3 DEF Longer
          <6> HIDE DEF old, next
          <6>2. n \in DOMAIN old  BY <3>2, <3>7, <6>1
          <6>3. old # <<>>  BY <6>2
          <6> QED  BY <3>2, <5>1, <5>2, <6>1, <6>2, <6>3
        <5>4. CASE Renewed(old, next, a)
          <6>1. Len(next) = Len(old) /\ DOMAIN next = DOMAIN old /\ \A k \in DOMAIN old : k < Len(old) => next[k] = old[k]
            BY <5>4 DEF Renewed
          <6> HIDE DEF old, next
          <6> QED  BY <3>7, <5>1, <6>1
        <5> QED  BY <3>3, <5>3, <5>4
      <4>2. old[n].status = "done" \/ (old[n].status = "failed" /\ receipts[old[n].job].rolled)
        BY <4>1 DEF Settled, RolledBack, Failed
      <4>3. PICK x : x = old[n]  OBVIOUS
      <4>4. entries'[e].ingest[n] = x  BY <4>1, <4>3
      <4> QED  BY <2>1, <4>2, <4>3, <4>4 DEF Settled, RolledBack, Failed
    <3>8. ASSUME e \in Plain PROVE Waits(e)'
      <4>1. Landing(entries[e].source)' = Landing(entries[e].source) /\ entries'[e].source = entries[e].source
        BY <1>00, <2>1 DEF Landing, Jobs
      <4>2. \A j \in Landing(entries[e].source) : next # <<>> /\ next[Len(next)].job = j  BY <3>4, <3>5, <3>6
      <4>3. entries[e].source \notin loose' => \A n \in DOMAIN entries'[e].ingest :
              n < Len(entries'[e].ingest) => Settled(entries[e].ingest[n])'
        BY <2>1, <3>7, <3>8
      <4> QED  BY <2>1, <4>1, <4>2, <4>3 DEF Waits
    <3> QED  BY <1>d, <2>1, <3>8
  <2> QED  BY <2>2, <2>3 DEF Types, Stages
<1>10. CASE Refresh
  <2>0. PICK e \in DOMAIN entries : e = run.at  BY <1>10, RefreshIs
  <2>1. /\ Touched(e) /\ entries'[e].submitting = entries[e].submitting /\ receipts' = receipts /\ loose' = loose
        /\ entries[e].submitting # run.stage /\ Attempts # <<>> /\ LastOne.job \in Jobs
        /\ receipts[LastOne.job].status \in Statuses
    BY <1>10, <2>0, RefreshIs DEF Refresh, Now
  <2>2. CASE run.stage = "audit"
    <3>1. entries'[e].ingest = entries[e].ingest  BY <1>10, <2>0, <2>2, RefreshIs DEF Now
    <3> QED  BY <1>a, <1>d, <2>1, <3>1
  <2>3. CASE run.stage = "ingest"
    <3> DEFINE j == LastOne.job
               st == receipts[j].status
               a == Attempt(j, st)
               old == entries[e].ingest
               next == entries'[e].ingest
    <3>1. next = Recorded(old, j, st)
      BY <1>10, <2>0, <2>3, RefreshIs DEF Now
    <3>2. old \in Seq(AttemptSet) /\ Len(old) \in Nat /\ DOMAIN old = 1..Len(old)  BY EntryIs
    <3>3. old # <<>> /\ old[Len(old)].job = j  BY <2>0, <2>1, <2>3 DEF Attempts, LastOne, Now
    <3>4. j \in 1..MaxPosted  BY <2>1, JobIs
    <3>5. a.job = j  BY DEF Attempt
    <3> HIDE DEF j, st
    <3>6. Renewed(old, next, a)  BY <2>1, <3>1, <3>2, <3>3, <3>4, RecordedIs DEF st, j
    <3>7. /\ next # <<>> /\ next[Len(next)] = a /\ Len(next) = Len(old) /\ DOMAIN next = DOMAIN old
          /\ \A k \in DOMAIN old : k < Len(old) => next[k] = old[k]
      BY <3>6 DEF Renewed
    <3> HIDE DEF a
    <3>8. ASSUME e \in Plain, entries[e].source \notin loose, NEW n \in DOMAIN next, n < Len(next)
          PROVE  Settled(entries[e].ingest[n])'
      <4>1. n \in DOMAIN old /\ next[n] = old[n] /\ Settled(old[n])
        <5>1. \A k \in DOMAIN old : k < Len(old) => Settled(old[k])  BY <3>8 DEF Waits
        <5> HIDE DEF old, next
        <5> QED  BY <3>7, <3>8, <5>1
      <4>2. old[n].status = "done" \/ (old[n].status = "failed" /\ receipts[old[n].job].rolled)
        BY <4>1 DEF Settled, RolledBack, Failed
      <4>3. PICK x : x = old[n]  OBVIOUS
      <4>4. entries'[e].ingest[n] = x  BY <4>1, <4>3
      <4> QED  BY <2>1, <4>2, <4>3, <4>4 DEF Settled, RolledBack, Failed
    <3>9. ASSUME e \in Plain PROVE Waits(e)'
      <4>1. Landing(entries[e].source)' = Landing(entries[e].source) /\ entries'[e].source = entries[e].source
        BY <1>00, <2>1 DEF Landing, Jobs
      <4>2. entries[e].source \notin loose => \A k \in Landing(entries[e].source) : next[Len(next)].job = k
        <5>1. entries[e].source \notin loose => \A k \in Landing(entries[e].source) : old[Len(old)].job = k
          BY <2>1, <2>3, <3>9 DEF Waits
        <5> QED  BY <3>3, <3>5, <3>7, <5>1
      <4>3. entries[e].source \notin loose' => \A n \in DOMAIN entries'[e].ingest :
              n < Len(entries'[e].ingest) => Settled(entries[e].ingest[n])'
        BY <2>1, <3>8, <3>9
      <4> QED  BY <2>1, <2>3, <3>7, <4>1, <4>2, <4>3 DEF Waits
    <3> QED  BY <1>d, <2>1, <3>9
  <2> QED  BY <2>2, <2>3 DEF Types, Stages
<1>11. ASSUME NEW e \in DOMAIN entries, NEW j \in Jobs, Import(e, j) PROVE \A f \in Plain' : Waits(f)'
  <2> DEFINE a == Attempt(j, receipts[j].status)
             old == entries[e].ingest
             next == entries'[e].ingest
  <2>1. /\ Touched(e) /\ Longer(old, next, a) /\ receipts' = receipts
        /\ entries'[e].submitting = IF entries[e].submitting = "ingest" THEN "none" ELSE entries[e].submitting
        /\ loose' = IF /\ Landing(entries[e].source) \subseteq {j}
                       /\ \A n \in DOMAIN entries[e].ingest : Settled(entries[e].ingest[n])
                    THEN loose ELSE loose \cup {entries[e].source}
    BY <1>11, ImportIs DEF Import
  <2>2. a.job = j /\ entries'[e].submitting # "ingest"  BY <2>1 DEF Attempt
  <2>3. Len(old) \in Nat /\ DOMAIN old = 1..Len(old)  BY EntryIs
  <2> HIDE DEF a
  <2>4. /\ next # <<>> /\ next[Len(next)] = a /\ Len(next) = Len(old) + 1 /\ DOMAIN next = 1..(Len(old) + 1)
        /\ \A k \in DOMAIN old : next[k] = old[k]
    BY <2>1 DEF Longer
  <2>5. ASSUME entries[e].source \notin loose', NEW n \in DOMAIN next, n < Len(next) PROVE Settled(entries[e].ingest[n])'
    <3>1. n \in DOMAIN old
      <4> HIDE DEF old, next
      <4> QED  BY <2>3, <2>4, <2>5
    <3>2. Settled(old[n])  BY <2>1, <2>5, <3>1
    <3>3. old[n].status = "done" \/ (old[n].status = "failed" /\ receipts[old[n].job].rolled)
      BY <3>2 DEF Settled, RolledBack, Failed
    <3>4. PICK x : x = old[n]  OBVIOUS
    <3>5. entries'[e].ingest[n] = x  BY <2>4, <3>1, <3>4
    <3> QED  BY <2>1, <3>3, <3>4, <3>5 DEF Settled, RolledBack, Failed
  <2>6. Waits(e)'
    <3>1. Landing(entries[e].source)' = Landing(entries[e].source) /\ entries'[e].source = entries[e].source
      BY <1>00, <2>1 DEF Landing, Jobs
    <3>2. entries[e].source \notin loose' => \A k \in Landing(entries[e].source) : next[Len(next)].job = k
      BY <2>1, <2>2, <2>4
    <3>3. entries[e].source \notin loose' => \A n \in DOMAIN entries'[e].ingest :
            n < Len(entries'[e].ingest) => Settled(entries[e].ingest[n])'
      BY <2>5
    <3> QED  BY <2>2, <2>4, <3>1, <3>2, <3>3 DEF Waits
  <2> QED  BY SMTT(30), <1>d, <2>1, <2>6
<1>12. ASSUME NEW j \in Jobs, Adopt(j) PROVE \A f \in Plain' : Waits(f)'
  <2>1. Added(receipts[j].source, TRUE)  BY <1>12, AdoptIs
  <2>2. \A f \in Plain' : f \in Plain /\ entries'[f] = entries[f]  BY <2>1 DEF Added, Plain
  <2> QED  BY <1>b, <2>2
<1>13. ASSUME NEW i \in Identities, AddSource(i) PROVE \A f \in Plain' : Waits(f)'
  <2>0. PICK new \in Nat : new = Len(entries) + 1  BY EntriesTyped DEF StepKind
  <2>1. PICK v : v = Cardinality(Versions(i)) + 1  OBVIOUS
  <2>2. /\ v \in 1..MaxVersions /\ Cardinality(Versions(i)) \in Nat
        /\ DOMAIN entries' = DOMAIN entries \cup {new} /\ new \notin DOMAIN entries
        /\ \A e \in DOMAIN entries : entries'[e] = entries[e]
        /\ entries'[new].source = <<i, v>> /\ entries'[new].ingest = <<>>
    BY <1>13, <2>0, <2>1, AddSourceIs DEF Added
  <2>3. ASSUME NEW f \in Plain', f # new PROVE Waits(f)'
    <3>1. f \in DOMAIN entries  BY <2>2, <2>3 DEF Plain
    <3>2. f \in Plain /\ entries'[f] = entries[f]  BY <2>2, <3>1 DEF Plain
    <3> QED  BY <1>b, <3>2
  <2>4. receipts' = receipts /\ Jobs' = Jobs  BY <1>13 DEF AddSource, Jobs
  <2>5. ASSUME NEW j \in Jobs, receipts[j].kind = "ingest", receipts[j].source = <<i, v>> PROVE FALSE
    <3>1. PICK e \in Plain : entries[e].source = <<i, v>>  BY <2>5 DEF Ordered
    <3>2. entries[e].source[1] = i /\ entries[e].source[2] = v  BY <3>1
    <3>3. v <= Cardinality(Versions(i))  BY <3>2 DEF Ordered
    <3> QED  BY <2>1, <2>2, <3>3
  <2>6. Landing(<<i, v>>)' = {}  BY <2>4, <2>5 DEF Landing
  <2>7. Landing(entries[new].source)' = {}
    <3>1. Landing(entries[new].source)' = {k \in Jobs' : /\ receipts'[k].kind = "ingest" /\ receipts'[k].source = entries'[new].source
                                                        /\ receipts'[k].status = "queued"}
      BY DEF Landing
    <3> QED  BY <2>2, <2>4, <2>5, <3>1
  <2>8. Waits(new)'  BY <2>2, <2>7 DEF Waits
  <2> QED  BY <2>3, <2>8
<1>14. CASE Blocked \/ Finish \/ Repair \/ Postpone
  <2>1. Looking  BY <1>14 DEF Blocked, Finish, Repair, Postpone, StageDone, Goes, Looks, Process
  <2>2. CASE Blocked  BY <1>4, <2>1, <2>2 DEF Blocked, EntryStatus
  <2>3. CASE Finish  BY <1>4, <2>1, <2>3 DEF Finish, EntryStatus
  <2>4. CASE Repair  BY <1>4, <2>1, <2>4 DEF Repair, EntryStatus
  <2>5. CASE Postpone
    <3>1. PICK stops : LeaveAs("pending", stops)  BY <2>5 DEF Postpone
    <3> QED  BY <1>4, <2>1, <3>1 DEF EntryStatus
  <2> QED  BY <1>14, <2>2, <2>3, <2>4, <2>5
<1> QED
  BY <1>1, <1>2, <1>3, <1>5, <1>6, <1>7, <1>8, <1>9, <1>10, <1>11, <1>12, <1>13, <1>14 DEF Next

-----------------------------------------------------------------------------
(* A version that is given stays so, unless it is to be posted. *)
LEMMA GivenKept ==
    ASSUME ConstantsOK, Types, Ordered, Posting, JobStep, NEW e \in Plain, Given(e), loose \subseteq loose',
           entries'[e].source = entries[e].source,
           entries'[e].submitting = "ingest" => entries[e].submitting = "ingest"
    PROVE  Given(e)'
<1>0. Evolves  BY JobsEvolve
<1>1. CASE entries[e].source \in loose  BY <1>1 DEF Given
<1>2. CASE Done(entries[e].source)
  <2>1. PICK j \in Jobs : /\ receipts[j].kind = "ingest" /\ receipts[j].source = entries[e].source
                          /\ receipts[j].status = "done"
    BY <1>2 DEF Done, Ingests
  <2>2. j \in Jobs' /\ receipts'[j] = receipts[j]  BY <1>0, <2>1 DEF Evolves
  <2>3. Done(entries[e].source)'  BY <2>1, <2>2 DEF Done, Ingests
  <2> QED  BY <2>3 DEF Given
<1>3. CASE Landing(entries[e].source) = {} /\ entries[e].submitting # "ingest"
  <2>1. ASSUME NEW j \in Landing(entries[e].source)' PROVE FALSE
    <3>1. /\ j \in Jobs' /\ receipts'[j].kind = "ingest" /\ receipts'[j].source = entries[e].source
          /\ receipts'[j].status = "queued"
      BY DEF Landing
    <3>2. /\ j \in Jobs /\ receipts[j].kind = "ingest" /\ receipts[j].source = entries[e].source
          /\ receipts[j].status = "queued"
      BY <1>3, <3>1, NewIngestIs
    <3> QED  BY <1>3, <3>2 DEF Landing
  <2> QED  BY <1>3, <2>1 DEF Given
<1> QED  BY <1>1, <1>2, <1>3 DEF Given

Closed == {"done", "superseded", "dropped"}

LEMMA BehindFrame ==
    ASSUME ConstantsOK, Types, Ordered, Posting, JobStep, EntryStep, NEW e \in Plain, \A f \in Plain : Behind(f),
           loose \subseteq loose',
           entries'[e].submitting = "ingest" => entries[e].submitting = "ingest",
           entries'[e].status \in Closed => entries[e].status \in Closed \/ Given(e)',
           e < run'.at => \/ e < run.at /\ run.blocked \subseteq run'.blocked
                          \/ Given(e)' \/ entries[e].source[1] \in run'.blocked,
           \A f \in Plain' \ DOMAIN entries : \A j \in Jobs : receipts[j].kind = "ingest" => receipts[j].source # entries'[f].source,
           receipts' = receipts \/ Plain' \subseteq DOMAIN entries
    PROVE  Behind(e)'
<1>0. /\ DOMAIN entries \subseteq DOMAIN entries' /\ Plain \subseteq DOMAIN entries
      /\ \A f \in DOMAIN entries : entries'[f].source = entries[f].source
      /\ Plain' \cap DOMAIN entries \subseteq Plain
  BY EntriesKeep DEF Plain
<1>1. Given(e) => Given(e)'  BY <1>0, GivenKept
<1>2. entries'[e].status \in Closed => Given(e)'  BY <1>1 DEF Behind, Closed
<1>3. e < run'.at => Given(e)' \/ entries'[e].source[1] \in run'.blocked  BY <1>0, <1>1 DEF Behind
<1>4. ASSUME NEW f \in Plain', e < f, entries'[e].source[1] = entries'[f].source[1], NEW j \in Ingests(entries[f].source)'
      PROVE  Given(e)'
  <2>1. j \in Jobs' /\ receipts'[j].kind = "ingest" /\ receipts'[j].source = entries'[f].source  BY DEF Ingests
  <2>2. f \in DOMAIN entries
    <3>1. SUFFICES ASSUME f \notin DOMAIN entries PROVE FALSE  OBVIOUS
    <3>2. receipts' = receipts /\ Jobs' = Jobs  BY <3>1 DEF Jobs
    <3> QED  BY <2>1, <3>1, <3>2
  <2>3. f \in Plain /\ entries'[f].source = entries[f].source /\ entries'[e].source = entries[e].source
    BY <1>0, <2>2
  <2>4. CASE j \in Jobs /\ receipts[j].kind = "ingest" /\ receipts[j].source = entries[f].source
    <3>1. Ingests(entries[f].source) # {}  BY <2>4 DEF Ingests
    <3> QED  BY <1>1, <1>4, <2>3, <3>1 DEF Behind
  <2>5. CASE Comes(j) /\ run.at = f /\ run.stage = "ingest" /\ Now = entries[f]
    <3>1. ~Now.orphan /\ Now.source[1] \notin run.blocked
      BY <2>5 DEF Posting, Comes
    <3>2. Given(e)  BY <1>4, <2>3, <2>5, <3>1 DEF Behind
    <3> QED  BY <1>1, <3>2
  <2> QED  BY <2>1, <2>3, <2>4, <2>5, NewIngestIs
<1> QED  BY <1>2, <1>3, <1>4 DEF Behind, Closed

(* An ingest is intended of a version that may be given no longer only when it need not be. *)
LEMMA IntendGivesWay ==
    ASSUME ConstantsOK, Types, NEW e \in Plain, e = run.at, Refers(e), Waits(e), Intend, run.stage = "ingest",
           NEW f \in Plain, e < f, entries[e].source[1] = entries[f].source[1], Given(e)
    PROVE  entries[e].source \in loose \/ Done(entries[e].source)
<1> SUFFICES ASSUME entries[e].source \notin loose, ~Done(entries[e].source) PROVE FALSE  OBVIOUS
<1>0. e \in DOMAIN entries /\ f \in DOMAIN entries /\ Now = entries[e] /\ Attempts = entries[e].ingest
  BY DEF Plain, Now, Attempts
<1>1. entries[e].submitting # "ingest"  BY DEF Given
<1>2. HasNewer
  <2>1. f \in Versions(Now.source[1])  BY <1>0 DEF Versions, Plain
  <2> QED  BY <1>0, <2>1 DEF HasNewer, Plain
<1>3. ~GivesWay  BY DEF Intend, Goes
<1>4. PICK n \in DOMAIN Attempts : ~RolledBack(Attempts[n])  BY <1>2, <1>3 DEF GivesWay
<1>5. Attempts # <<>>  BY <1>4
<1>6. ~MustSubmit  BY <1>0, <1>1, <1>5 DEF MustSubmit
<1>7. RolledBack(LastOne)  BY <1>6 DEF Intend, SlipAgain, MayRetry
<1>8. Len(Attempts) \in Nat /\ DOMAIN Attempts = 1..Len(Attempts)  BY <1>0, EntryIs
<1>9. n < Len(Attempts)
  <2>1. n # Len(Attempts)  BY <1>4, <1>7 DEF LastOne
  <2> QED  BY <1>8, <2>1
<1>10. Settled(Attempts[n])  BY <1>0, <1>9 DEF Waits
<1>11. Attempts[n].status = "done"  BY <1>4, <1>10 DEF Settled
<1>12. Attempts[n].job \in Ingests(entries[e].source) /\ receipts[Attempts[n].job].status = "done"
  BY <1>0, <1>11 DEF Refers
<1> QED  BY <1>12 DEF Done

(* An entry that was ingested. *)
LEMMA AuditIsOfDone ==
    ASSUME ConstantsOK, Types, Posting, NEW e \in DOMAIN entries, e = run.at, Refers(e), run.stage = "audit"
    PROVE  /\ Done(entries[e].source) /\ Parent \in Ingests(entries[e].source) /\ receipts[Parent].status = "done"
           /\ Parent = entries[e].ingest[Len(entries[e].ingest)].job /\ Len(entries[e].ingest) \in DOMAIN entries[e].ingest
<1>1. Now = entries[e] /\ entries[e].ingest # <<>>  BY DEF Now, Types
<1>2. Len(entries[e].ingest) \in DOMAIN entries[e].ingest
  <2>1. entries[e].ingest \in Seq(AttemptSet)  BY EntryIs
  <2>2. Len(entries[e].ingest) # 0  BY <1>1, <2>1, EmptySeq
  <2> QED  BY <2>2, EntryIs
<1>3. entries[e].ingest[Len(entries[e].ingest)].status = "done"  BY <1>1 DEF Posting
<1> QED  BY <1>1, <1>2, <1>3 DEF Refers, Done, Parent

(* The runner goes past a version only when it is given, whatever the step. *)
LEMMA BehindStep ==
    ASSUME ConstantsOK, Types, \A j \in Jobs : Linked(j), Ordered, Posting,
           \A e \in Plain : Waits(e) /\ Behind(e),
           \A e \in DOMAIN entries : Refers(e), StepKind, Next
    PROVE  \A e \in Plain' : Behind(e)'
<1>0. Evolves /\ JobStep /\ EntryStep /\ loose \subseteq loose'  BY JobsEvolve DEF StepKind
<1>00. /\ DOMAIN entries \subseteq DOMAIN entries' /\ Plain \subseteq DOMAIN entries
       /\ \A e \in DOMAIN entries : entries'[e].source = entries[e].source /\ entries'[e].orphan = entries[e].orphan
       /\ Plain' \cap DOMAIN entries \subseteq Plain
  BY EntriesKeep DEF StepKind, Plain
<1>000. run.at \in 0..(MaxEntries + 1) /\ MaxEntries \in Nat /\ DOMAIN entries \subseteq Nat \ {0}
  <2>1. DOMAIN entries = 1..Len(entries) /\ Len(entries) \in Nat  BY EntriesTyped DEF StepKind
  <2>2. DOMAIN entries \subseteq Nat \ {0}  BY <2>1
  <2>3. run.at \in 0..(MaxEntries + 1) /\ MaxEntries \in Nat  BY DEF Types, ConstantsOK
  <2> QED  BY <2>2, <2>3
<1>a. ASSUME DOMAIN entries' = DOMAIN entries, NEW e \in Plain,
             entries'[e].submitting = "ingest" => entries[e].submitting = "ingest",
             entries'[e].status \in Closed => entries[e].status \in Closed \/ Given(e)',
             e < run'.at => \/ e < run.at /\ run.blocked \subseteq run'.blocked
                            \/ Given(e)' \/ entries[e].source[1] \in run'.blocked
      PROVE  Behind(e)'
  <2>1. Plain' \subseteq DOMAIN entries  BY <1>a DEF Plain
  <2> QED  BY <1>0, <1>a, <2>1, BehindFrame
<1>b. ASSUME entries' = entries, NEW e \in Plain,
             e < run'.at => \/ e < run.at /\ run.blocked \subseteq run'.blocked
                            \/ Given(e)' \/ entries[e].source[1] \in run'.blocked
      PROVE  Behind(e)'
  BY <1>a, <1>b
<1>c. ASSUME entries' = entries, run'.at = 0 \/ run' = run PROVE \A e \in Plain' : Behind(e)'
  <2>1. Plain' = Plain  BY <1>c DEF Plain
  <2>2. ASSUME NEW e \in Plain PROVE e < run'.at => e < run.at /\ run.blocked \subseteq run'.blocked
    <3>1. e \in Nat  BY <1>00, <1>000
    <3> QED  BY <1>c, <3>1
  <2> QED  BY <1>b, <1>c, <2>1, <2>2
<1>d. ASSUME NEW e \in DOMAIN entries, Touched(e), e \in Plain => Behind(e)',
             run'.at = 0 \/ run' = run
             \/ (e = run.at /\ run'.at \in {run.at, run.at + 1} /\ run.blocked \subseteq run'.blocked)
      PROVE \A f \in Plain' : Behind(f)'
  <2> SUFFICES ASSUME NEW f \in Plain', f # e PROVE Behind(f)'
    <3>1. e \in Plain' => e \in Plain  BY <1>00
    <3> QED  BY <1>d, <3>1
  <2>1. f \in DOMAIN entries /\ DOMAIN entries' = DOMAIN entries  BY <1>d DEF Touched, Plain
  <2>2. f \in Plain /\ entries'[f] = entries[f]  BY <1>00, <1>d, <2>1 DEF Touched
  <2>3. f < run'.at => f < run.at /\ run.blocked \subseteq run'.blocked
    <3>1. f \in Nat \ {0} /\ e \in Nat  BY <1>000, <2>1
    <3> QED  BY <1>000, <1>d, <2>2, <3>1
  <2> QED  BY <1>a, <2>1, <2>2, <2>3
<1>e. ASSUME NEW e \in Plain, NEW st \in EntryStatus, Touched(e), entries'[e].status = st,
             entries'[e].submitting = "ingest" => entries[e].submitting = "ingest",
             st \in Closed => Given(e)', run'.at = 0 \/ Given(e)' \/ entries[e].source[1] \in run'.blocked
      PROVE  Behind(e)'
  <2>1. DOMAIN entries' = DOMAIN entries /\ e \in Nat  BY <1>00, <1>000, <1>e DEF Touched
  <2>2. run'.at = 0 => ~(e < run'.at)  BY <2>1
  <2> QED  BY <1>a, <1>e, <2>1, <2>2
<1>f. ASSUME NEW e \in Plain, Touched(e), receipts' = receipts, entries'[e].submitting # "ingest",
             Landing(entries[e].source) = {} \/ entries[e].source \in loose'
      PROVE  Given(e)'
  <2>1. Landing(entries[e].source)' = Landing(entries[e].source)  BY <1>f DEF Landing, Jobs, Touched
  <2>2. entries'[e].source = entries[e].source  BY <1>f DEF Touched
  <2> QED  BY <1>f, <2>1, <2>2 DEF Given
<1>g. ASSUME NEW e \in Plain, Touched(e), e = run.at, run.stage = "audit" PROVE Given(e)'
  <2>1. Done(entries[e].source)  BY <1>00, <1>g, AuditIsOfDone
  <2>2. PICK j \in Jobs : /\ receipts[j].kind = "ingest" /\ receipts[j].source = entries[e].source
                          /\ receipts[j].status = "done"
    BY <2>1 DEF Done, Ingests
  <2>3. j \in Jobs' /\ receipts'[j] = receipts[j]  BY <1>0, <2>2 DEF Evolves
  <2>4. Done(entries[e].source)'  BY <1>g, <2>2, <2>3 DEF Done, Ingests, Touched
  <2> QED  BY <2>4 DEF Given
<1>h. ASSUME NEW e \in DOMAIN entries, e = run.at
      PROVE  /\ e \in Plain <=> ~Now.orphan
             /\ Now.source = entries[e].source /\ Now = entries[e]
  BY <1>h DEF Plain, Now
<1>1. ASSUME NEW j \in Jobs, Lands(j) \/ Fails(j) PROVE \A e \in Plain' : Behind(e)'  BY <1>1, <1>c DEF Lands, Fails
<1>2. CASE Deploy  BY <1>2, <1>c DEF Deploy
<1>3. ASSUME NEW j \in 1..MaxPosted, Post(j) PROVE \A e \in Plain' : Behind(e)'
  <2>1. run' = [run EXCEPT !.step = "answer", !.answer = j] /\ entries' = entries  BY <1>3 DEF Post
  <2>2. run'.at = run.at /\ run'.blocked = run.blocked  BY <2>1 DEF Types
  <2>3. Plain' = Plain  BY <2>1 DEF Plain
  <2> QED  BY <1>b, <2>1, <2>2, <2>3
<1>4. CASE RunnerDies \/ EndRun
  <2>1. run' = NoRun /\ entries' = entries  BY <1>4 DEF RunnerDies, EndRun
  <2> QED  BY <1>c, <2>1 DEF NoRun
<1>5. CASE StartRun
  <2>1. run'.at = 1 /\ entries' = entries  BY <1>5 DEF StartRun, NoRun
  <2>2. \A e \in Plain : ~(e < run'.at)
    <3>1. \A e \in Plain : e \in Nat \ {0}  BY <1>00, <1>000
    <3> QED  BY <2>1, <3>1
  <2>3. Plain' = Plain  BY <2>1 DEF Plain
  <2> QED  BY <1>b, <2>1, <2>2, <2>3
<1>6. CASE SkipEntry
  <2>0. PICK e \in DOMAIN entries : e = run.at  BY <1>6, LookingAt DEF SkipEntry
  <2>1. /\ run' = [NoRun EXCEPT !.at = run.at + 1, !.blocked = run.blocked] /\ entries' = entries
        /\ entries[e].status \in Closed
    BY <1>6, <2>0 DEF SkipEntry, Now, Closed
  <2>2. run'.at = run.at + 1 /\ run'.blocked = run.blocked  BY <2>1 DEF NoRun
  <2>3. Plain' = Plain  BY <2>1 DEF Plain
  <2>4. ASSUME e \in Plain PROVE Given(e)'
    <3>1. Given(e)  BY <2>1, <2>4 DEF Behind, Closed
    <3> QED  BY <1>0, <2>1, <2>4, <3>1, GivenKept
  <2>5. ASSUME NEW f \in Plain, f < run'.at PROVE f < run.at \/ f = e
    <3>1. f \in Nat  BY <1>00, <1>000
    <3> QED  BY <1>000, <2>0, <2>2, <2>5, <3>1
  <2>6. ASSUME NEW f \in Plain, f < run'.at PROVE (f < run.at /\ run.blocked \subseteq run'.blocked) \/ Given(f)'
    BY <2>2, <2>4, <2>5, <2>6
  <2> QED  BY <1>b, <2>1, <2>3, <2>6
<1>7. CASE NextStage
  <2>1. run' = [run EXCEPT !.stage = "audit", !.submitted = FALSE] /\ entries' = entries  BY <1>7 DEF NextStage
  <2>2. run'.at = run.at /\ run'.blocked = run.blocked  BY <2>1 DEF Types
  <2>3. Plain' = Plain  BY <2>1 DEF Plain
  <2> QED  BY <1>b, <2>1, <2>2, <2>3
<1>8. ASSUME NEW e \in DOMAIN entries, Drop(e) PROVE \A f \in Plain' : Behind(f)'
  <2>1. /\ Touched(e) /\ entries[e].submitting = "none" /\ entries'[e].submitting = "none"
        /\ entries'[e].status = "dropped" /\ loose' = GivenUp(entries[e].source) /\ receipts' = receipts
        /\ run = NoRun /\ run' = run
    BY <1>8, DropIs DEF Drop, Types
  <2>2. run'.at = 0  BY <2>1 DEF NoRun
  <2>3. Landing(entries[e].source) = {} \/ entries[e].source \in loose'  BY <2>1 DEF GivenUp
  <2>4. ASSUME e \in Plain PROVE Behind(e)'
    <3>1. Given(e)'  BY <1>f, <2>1, <2>3, <2>4
    <3> QED  BY <1>e, <2>1, <2>2, <2>4, <3>1 DEF EntryStatus
  <2> QED  BY <1>d, <2>1, <2>2, <2>4
<1>9. ASSUME Looking, NEW st \in EntryStatus, NEW stops, LeaveAs(st, stops),
             NEW e \in DOMAIN entries, e = run.at, e \in Plain /\ st # "pending" => Given(e)'
      PROVE  \A f \in Plain' : Behind(f)'
  <2>1. /\ Touched(e) /\ entries'[e].status = st
        /\ entries'[e].submitting = "ingest" => entries[e].submitting = "ingest"
        /\ run' = NoRun \/ run' = [NoRun EXCEPT !.at = run.at + 1,
                 !.blocked = IF st = "pending" /\ ~Now.orphan THEN run.blocked \cup {Now.source[1]}
                             ELSE run.blocked]
    BY <1>9, LeaveAsIs DEF Left, Now
  <2>2. /\ run'.at \in {0, run.at + 1} /\ (run'.at = 0 \/ run.blocked \subseteq run'.blocked)
        /\ (run'.at = 0 \/ st # "pending" \/ Now.orphan \/ Now.source[1] \in run'.blocked)
    <3>1. CASE run' = NoRun  BY <3>1 DEF NoRun
    <3>2. CASE run' = [NoRun EXCEPT !.at = run.at + 1,
                 !.blocked = IF st = "pending" /\ ~Now.orphan THEN run.blocked \cup {Now.source[1]} ELSE run.blocked]
      <4>1. /\ run'.at = run.at + 1
            /\ run'.blocked = IF st = "pending" /\ ~Now.orphan THEN run.blocked \cup {Now.source[1]} ELSE run.blocked
        BY <3>2 DEF NoRun
      <4> QED  BY <4>1
    <3> QED  BY <2>1, <3>1, <3>2
  <2>3. ASSUME e \in Plain PROVE Behind(e)'
    <3>1. run'.at = 0 \/ Given(e)' \/ entries[e].source[1] \in run'.blocked
      BY <1>9, <1>h, <2>2, <2>3
    <3> QED  BY <1>9, <1>e, <2>1, <2>3, <3>1 DEF Closed
  <2> QED  BY <1>9, <1>d, <2>1, <2>2, <2>3
<1>10. CASE Blocked \/ Finish \/ Repair \/ Postpone \/ Supersede
  <2>1. Looking  BY <1>10 DEF Blocked, Finish, Repair, Postpone, Supersede, StageDone, Goes, Looks, Process
  <2>0. PICK e \in DOMAIN entries : e = run.at  BY <2>1, LookingAt
  <2>2. CASE Blocked  BY <1>9, <2>0, <2>1, <2>2 DEF Blocked, EntryStatus
  <2>3. CASE Finish
    <3>1. LeaveAs("done", FALSE) /\ run.stage = "audit"  BY <2>3 DEF Finish
    <3>2. Touched(e)  BY <2>0, <2>1, <3>1, LeaveAsIs DEF Left, EntryStatus
    <3>3. e \in Plain => Given(e)'  BY <1>g, <2>0, <3>1, <3>2
    <3> QED  BY <1>9, <2>0, <2>1, <3>1, <3>3 DEF EntryStatus
  <2>4. CASE Repair
    <3>1. LeaveAs("needs_repair", FALSE) /\ loose' = loose /\ receipts' = receipts  BY <2>4 DEF Repair, LeaveAs
    <3>2. Touched(e) /\ entries'[e].submitting = entries[e].submitting
      BY <2>0, <2>1, <3>1, LeaveAsIs DEF Left, EntryStatus, Now
    <3>3. ASSUME e \in Plain PROVE Given(e)'
      <4>1. CASE run.stage = "audit"  BY <1>g, <2>0, <3>2, <3>3, <4>1
      <4>2. CASE run.stage = "ingest"
        <5>1. /\ ~MustSubmit /\ Attempts = entries[e].ingest /\ LastOne.status = "failed"
              /\ LastOne = entries[e].ingest[Len(entries[e].ingest)]
          BY <2>0, <2>4, <4>2 DEF Repair, Attempts, LastOne, Now
        <5>2. entries[e].submitting # "ingest" /\ Attempts # <<>>  BY <2>0, <4>2, <5>1 DEF MustSubmit, Now
        <5>3. receipts[LastOne.job].status = "failed"  BY <2>0, <5>1, <5>2, AttemptsAre
        <5>4. entries[e].source \in loose \/ Landing(entries[e].source) = {}
          <6>1. SUFFICES ASSUME entries[e].source \notin loose, NEW j \in Landing(entries[e].source) PROVE FALSE
            OBVIOUS
          <6>2. LastOne.job = j  BY <3>3, <5>1, <5>2, <6>1 DEF Waits
          <6> QED  BY <5>3, <6>2 DEF Landing
        <5> QED  BY <1>f, <3>1, <3>2, <3>3, <5>2, <5>4
      <4> QED  BY <4>1, <4>2 DEF Types, Stages
    <3> QED  BY <1>9, <2>0, <2>1, <3>1, <3>3 DEF EntryStatus
  <2>5. CASE Postpone
    <3>1. PICK stops : LeaveAs("pending", stops)  BY <2>5 DEF Postpone
    <3> QED  BY <1>9, <2>0, <2>1, <3>1 DEF EntryStatus
  <2>6. CASE Supersede
    <3>1. LeaveAs("superseded", FALSE) /\ loose' = GivenUp(Now.source) /\ receipts' = receipts
      BY <2>6 DEF Supersede, LeaveAs
    <3>2. Touched(e) /\ entries'[e].submitting = "none"
      BY <2>0, <2>1, <3>1, LeaveAsIs DEF Left, EntryStatus
    <3>3. Landing(entries[e].source) = {} \/ entries[e].source \in loose'  BY <1>h, <2>0, <3>1 DEF GivenUp
    <3>4. e \in Plain => Given(e)'  BY <1>f, <3>1, <3>2, <3>3
    <3> QED  BY <1>9, <2>0, <2>1, <3>1, <3>4 DEF EntryStatus
  <2> QED  BY <1>10, <2>2, <2>3, <2>4, <2>5, <2>6
<1>11. CASE Refused
  <2>1. PICK st \in {"pending", "needs_repair"} :
           /\ Left(st, "none") /\ run.at \in DOMAIN entries
           /\ run' = [NoRun EXCEPT !.at = run.at + 1,
                 !.blocked = IF st = "pending" /\ ~Now.orphan THEN run.blocked \cup {Now.source[1]}
                             ELSE run.blocked]
           /\ loose' = IF run.stage = "ingest" THEN GivenUp(Now.source) ELSE loose
           /\ receipts' = receipts
    BY <1>11, RefusedIs
  <2>2. PICK e \in DOMAIN entries : e = run.at  BY <2>1
  <2>3. Touched(e) /\ entries'[e].submitting = "none" /\ entries'[e].status = st  BY <2>1, <2>2 DEF Left
  <2>4. run'.at = run.at + 1 /\ run.blocked \subseteq run'.blocked
        /\ (st # "pending" \/ Now.orphan \/ Now.source[1] \in run'.blocked)
    BY <2>1 DEF NoRun
  <2>5. ASSUME e \in Plain PROVE Given(e)'
    <3>1. CASE run.stage = "audit"  BY <1>g, <2>2, <2>3, <2>5, <3>1
    <3>2. CASE run.stage = "ingest"
      <4>1. Landing(entries[e].source) = {} \/ entries[e].source \in loose'  BY <1>h, <2>1, <2>2, <3>2 DEF GivenUp
      <4> QED  BY <1>f, <2>1, <2>3, <2>5, <4>1
    <3> QED  BY <3>1, <3>2 DEF Types, Stages
  <2>6. e \in Plain => Behind(e)'  BY <1>e, <2>3, <2>5 DEF EntryStatus
  <2> QED  BY <1>d, <2>2, <2>3, <2>4, <2>6
<1>12. CASE PostLost
  <2>1. PICK e \in DOMAIN entries : e = run.at  BY <1>12, PostLostIs
  <2>2. /\ Touched(e) /\ entries'[e].submitting = entries[e].submitting /\ entries'[e].status = "pending"
        /\ run' = [NoRun EXCEPT !.at = run.at + 1,
                 !.blocked = IF Now.orphan THEN run.blocked ELSE run.blocked \cup {Now.source[1]}]
    BY <1>12, <2>1, PostLostIs DEF Left, Now
  <2>3. run'.at = run.at + 1 /\ run.blocked \subseteq run'.blocked
        /\ (Now.orphan \/ Now.source[1] \in run'.blocked)
    BY <2>2 DEF NoRun
  <2>4. ASSUME e \in Plain PROVE Behind(e)'
    <3>1. entries[e].source[1] \in run'.blocked  BY <1>h, <2>1, <2>3, <2>4
    <3> QED  BY <1>e, <2>2, <2>4, <3>1 DEF EntryStatus, Closed
  <2> QED  BY <1>d, <2>1, <2>2, <2>3, <2>4
<1>13. CASE Intend
  <2>0. PICK e \in DOMAIN entries : e = run.at  BY <1>13, IntendIs
  <2>1. /\ Touched(e) /\ entries'[e].status = entries[e].status /\ entries'[e].submitting = run.stage
        /\ run' = [run EXCEPT !.step = "post"] /\ entries[e].status \notin Closed /\ receipts' = receipts
    BY <1>13, <2>0, IntendIs DEF Now, Closed, Intend, Goes, Looks, Process
  <2>2. run'.at = run.at /\ run'.blocked = run.blocked  BY <2>1 DEF Types
  <2>3. ASSUME e \in Plain PROVE Behind(e)'
    <3>0. DOMAIN entries' = DOMAIN entries /\ ~(e < run'.at)  BY <1>000, <2>0, <2>1, <2>2 DEF Touched
    <3>1. CASE run.stage = "audit"  BY <1>a, <2>1, <2>3, <3>0, <3>1
    <3>2. CASE run.stage = "ingest"
      <4>1. ASSUME NEW f \in Plain', e < f, entries'[e].source[1] = entries'[f].source[1], Ingests(entries[f].source)' # {}
            PROVE  Given(e)'
        <5>1. f \in Plain /\ f \in DOMAIN entries  BY <1>00, <3>0 DEF Plain
        <5>2. entries'[f].source = entries[f].source /\ entries'[e].source = entries[e].source  BY <1>00, <5>1
        <5>3. Ingests(entries[f].source)' = Ingests(entries[f].source)  BY <2>1, <5>2 DEF Ingests, Jobs
        <5>4. Given(e)  BY <2>3, <4>1, <5>1, <5>2, <5>3 DEF Behind
        <5>5. entries[e].source \in loose \/ Done(entries[e].source)
          BY <1>13, <2>0, <2>3, <3>2, <4>1, <5>1, <5>2, <5>4, IntendGivesWay
        <5>6. Done(entries[e].source)' <=> Done(entries[e].source)  BY <2>1, <5>2 DEF Done, Ingests, Jobs
        <5> QED  BY <1>0, <5>2, <5>5, <5>6 DEF Given
      <4> QED  BY <2>1, <3>0, <4>1 DEF Behind, Closed
    <3> QED  BY <3>1, <3>2 DEF Types, Stages
  <2> QED  BY <1>d, <2>0, <2>1, <2>2, <2>3
<1>14. CASE Record
  <2>0. PICK e \in DOMAIN entries : e = run.at  BY <1>14, RecordIs
  <2>1. /\ Touched(e) /\ entries'[e].status = entries[e].status /\ entries'[e].submitting = "none"
        /\ run' = [run EXCEPT !.step = "look", !.submitted = TRUE, !.answer = 0]
    BY <1>14, <2>0, RecordIs DEF Now
  <2>2. run'.at = run.at /\ run'.blocked = run.blocked  BY <2>1 DEF Types
  <2>3. ASSUME e \in Plain PROVE Behind(e)'
    <3>0. DOMAIN entries' = DOMAIN entries /\ ~(e < run'.at)  BY <1>000, <2>0, <2>1, <2>2 DEF Touched
    <3> QED  BY <1>a, <2>1, <2>3, <3>0
  <2> QED  BY <1>d, <2>0, <2>1, <2>2, <2>3
<1>15. CASE Refresh
  <2>0. PICK e \in DOMAIN entries : e = run.at  BY <1>15, RefreshIs
  <2>1. /\ Touched(e) /\ entries'[e].status = entries[e].status /\ entries'[e].submitting = entries[e].submitting
        /\ run' = run
    BY <1>15, <2>0, RefreshIs DEF Now, Refresh
  <2>2. e \in Plain => Behind(e)'
    <3>0. DOMAIN entries' = DOMAIN entries /\ ~(e < run'.at)  BY <1>000, <2>0, <2>1 DEF Touched
    <3> QED  BY <1>a, <2>1, <3>0
  <2> QED  BY <1>d, <2>1, <2>2
<1>16. ASSUME NEW e \in DOMAIN entries, NEW j \in Jobs, Import(e, j) PROVE \A f \in Plain' : Behind(f)'
  <2>1. /\ Touched(e) /\ (entries'[e].submitting = "ingest" => entries[e].submitting = "ingest")
        /\ (entries'[e].status \in Closed => entries[e].status \in Closed)
        /\ run' = run /\ run = NoRun
    <3>1. /\ Touched(e)
          /\ entries'[e].submitting = IF entries[e].submitting = "ingest" THEN "none" ELSE entries[e].submitting
          /\ entries'[e].status = IF entries[e].status = "done" THEN "done" ELSE "pending"
      BY <1>16, ImportIs
    <3>2. run' = run /\ run = NoRun  BY <1>16 DEF Import, Types
    <3> QED  BY <3>1, <3>2 DEF Closed
  <2>2. e \in Plain => Behind(e)'
    <3>0. DOMAIN entries' = DOMAIN entries /\ ~(e < run'.at)  BY <1>000, <2>1 DEF Touched, NoRun
    <3> QED  BY <1>a, <2>1, <3>0
  <2> QED  BY <1>d, <2>1, <2>2
<1>17. ASSUME NEW j \in Jobs, Adopt(j) PROVE \A f \in Plain' : Behind(f)'
  <2>1. Added(receipts[j].source, TRUE) /\ run' = run /\ receipts' = receipts
    BY <1>17, AdoptIs DEF Adopt
  <2>2. Plain' \subseteq DOMAIN entries /\ \A f \in Plain' : f \in Plain /\ entries'[f] = entries[f]
    BY <2>1 DEF Added, Plain
  <2> QED  BY SMTT(30), <1>0, <2>1, <2>2, BehindFrame
<1>18. ASSUME NEW i \in Identities, AddSource(i) PROVE \A f \in Plain' : Behind(f)'
  <2>0. PICK new \in Nat : new = Len(entries) + 1  BY EntriesTyped DEF StepKind
  <2>1. PICK v : v = Cardinality(Versions(i)) + 1  OBVIOUS
  <2>2. /\ v \in 1..MaxVersions /\ Cardinality(Versions(i)) \in Nat
        /\ DOMAIN entries' = DOMAIN entries \cup {new} /\ new \notin DOMAIN entries
        /\ \A e \in DOMAIN entries : entries'[e] = entries[e]
        /\ entries'[new].source = <<i, v>> /\ entries'[new].status = "pending"
    BY <1>18, <2>0, <2>1, AddSourceIs DEF Added
  <2>3. ASSUME NEW j \in Jobs, receipts[j].kind = "ingest", receipts[j].source = <<i, v>> PROVE FALSE
    <3>1. PICK e \in Plain : entries[e].source = <<i, v>>  BY <2>3 DEF Ordered
    <3>2. entries[e].source[1] = i /\ entries[e].source[2] = v  BY <3>1
    <3>3. v <= Cardinality(Versions(i))  BY <3>2 DEF Ordered
    <3> QED  BY <2>1, <2>2, <3>3
  <2>4. receipts' = receipts /\ run' = run /\ run = NoRun  BY <1>18 DEF AddSource, Types
  <2>5. ASSUME NEW f \in Plain PROVE Behind(f)'
    <3>1. entries'[f] = entries[f]  BY <1>00, <2>2
    <3>2. \A g \in Plain' \ DOMAIN entries : \A j \in Jobs : receipts[j].kind = "ingest" => receipts[j].source # entries'[g].source
      BY <2>2, <2>3 DEF Plain
    <3> QED  BY <1>0, <2>4, <3>1, <3>2, BehindFrame
  <2>6. Behind(new)'
    <3>1. ~(new < run'.at)  BY <2>4 DEF NoRun
    <3>2. \A f \in Plain' : ~(new < f)
      <4>1. \A f \in DOMAIN entries : f <= Len(entries) /\ f \in Nat  BY EntriesTyped DEF StepKind
      <4>2. Len(entries) \in Nat /\ Plain' \subseteq DOMAIN entries'  BY EntriesTyped DEF StepKind, Plain
      <4> QED  BY <2>0, <2>2, <4>1, <4>2
    <3> QED  BY <2>2, <3>1, <3>2 DEF Behind
  <2>7. \A f \in Plain' : f \in Plain \/ f = new  BY <2>2 DEF Plain
  <2> QED  BY <2>5, <2>6, <2>7
<1> QED
  BY <1>1, <1>2, <1>3, <1>4, <1>5, <1>6, <1>7, <1>8, <1>10, <1>11, <1>12, <1>13, <1>14, <1>15, <1>16, <1>17, <1>18 DEF Next

-----------------------------------------------------------------------------
(* What lands is newer than what landed. *)
LEMMA NewerStep ==
    ASSUME ConstantsOK, Types, UniqueIngest, LandedDone, Ordered, \A e \in Plain : Behind(e), NewerLandsLast,
           StepKind, \A j \in Jobs : Linked(j), Next
    PROVE  NewerLandsLast'
<1>1. landed' = landed \/ \E j \in Jobs : Lands(j) /\ receipts[j].kind = "ingest"
  BY ZenonT(30) DEF Next, Lands, Fails, Adopt, AddSource, Drop, Import, Post, Deploy, StartRun, RunnerDies, SkipEntry, Blocked,
         EndRun, Supersede, Intend, PostLost, Refused, Record, Refresh, NextStage, Finish, Repair, Postpone, LeaveAs
<1>2. CASE landed' = landed  BY <1>2 DEF NewerLandsLast, StepKind
<1>3. ASSUME NEW j \in Jobs, Lands(j), receipts[j].kind = "ingest" PROVE NewerLandsLast'
  <2>1. PICK s : s = receipts[j].source  OBVIOUS
  <2>2. s \in Sources /\ receipts[j].status = "queued" /\ landed' = Append(landed, s)
    BY <1>3, <2>1, JobIs DEF Lands, ReceiptSet
  <2>3. landed \in Seq(Sources) /\ DOMAIN landed = 1..Len(landed) /\ Len(landed) \in Nat
    BY LenProperties DEF Types
  <2>4. /\ Append(landed, s) \in Seq(Sources) /\ Len(Append(landed, s)) = Len(landed) + 1
        /\ \A n \in 1..Len(landed) : Append(landed, s)[n] = landed[n]
        /\ Append(landed, s)[Len(landed) + 1] = s
    BY <2>2, <2>3, AppendProperties
  <2>5. DOMAIN landed' = 1..(Len(landed) + 1)  BY <2>2, <2>4, LenProperties
  <2>6. ASSUME NEW m \in 1..Len(landed), landed[m][1] = s[1], s \notin loose PROVE landed[m][2] < s[2]
    <3>1. PICK k \in Jobs : /\ receipts[k].kind = "ingest" /\ receipts[k].source = landed[m]
                            /\ receipts[k].status = "done"
      BY <2>3 DEF LandedDone, Done, Ingests
    <3>2. PICK e \in Plain : entries[e].source = s  BY <1>3, <2>1 DEF Ordered
    <3>3. PICK f \in Plain : entries[f].source = landed[m]  BY <3>1 DEF Ordered
    <3>4. e \in Nat /\ f \in Nat /\ s[2] \in Nat /\ landed[m][2] \in Nat
      <4>1. e \in DOMAIN entries /\ f \in DOMAIN entries  BY DEF Plain
      <4>2. s \in Identities \X (1..MaxVersions) /\ landed[m] \in Identities \X (1..MaxVersions)
        BY <3>2, <3>3, <4>1, EntryIs DEF Sources
      <4>3. s[2] \in 1..MaxVersions /\ landed[m][2] \in 1..MaxVersions  BY <4>2
      <4> QED  BY <4>1, <4>3, EntryIs
    <3>5. ~Done(s)
      <4>1. SUFFICES ASSUME NEW i \in Jobs, receipts[i].kind = "ingest", receipts[i].source = s, receipts[i].status = "done"
                     PROVE  FALSE
        BY DEF Done, Ingests
      <4>2. i = j  BY <1>3, <2>1, <2>2, <4>1 DEF UniqueIngest, Reusable
      <4> QED  BY <2>2, <4>1, <4>2
    <3>6. Landing(s) # {}  BY <1>3, <2>1, <2>2 DEF Landing
    <3>7. ~Given(e)  BY <2>6, <3>2, <3>5, <3>6 DEF Given
    <3>8. Ingests(entries[f].source) # {}  BY <3>1, <3>3 DEF Ingests
    <3>9. ~(e < f)  BY <2>6, <3>2, <3>3, <3>7, <3>8 DEF Behind
    <3>10. e # f
      <4>1. SUFFICES ASSUME landed[m] = s PROVE FALSE  BY <3>2, <3>3
      <4>2. Done(s)  BY <3>1, <4>1 DEF Done, Ingests
      <4> QED  BY <3>5, <4>2
    <3>11. f < e  BY <3>4, <3>9, <3>10
    <3> QED  BY <2>6, <3>2, <3>3, <3>11 DEF Ordered
  <2>7. loose' = loose  BY <1>3 DEF Lands
  <2> SUFFICES ASSUME NEW m \in DOMAIN landed', NEW n \in DOMAIN landed', m < n, landed'[m][1] = landed'[n][1],
                      landed'[n] \notin loose
               PROVE  landed'[m][2] < landed'[n][2]
    BY <2>7 DEF NewerLandsLast
  <2>8. m \in 1..Len(landed) /\ landed'[m] = landed[m]
    <3>1. m \in 1..Len(landed)  BY <2>3, <2>5
    <3> QED  BY <2>2, <2>4, <3>1
  <2>9. CASE n = Len(landed) + 1
    <3>1. landed'[n] = s  BY <2>2, <2>4, <2>9
    <3> QED  BY <2>6, <2>8, <3>1
  <2>10. CASE n # Len(landed) + 1
    <3>1. n \in 1..Len(landed)  BY <2>3, <2>5, <2>10
    <3>2. landed'[n] = landed[n]  BY <2>2, <2>4, <3>1
    <3> QED  BY <2>3, <2>8, <3>1, <3>2 DEF NewerLandsLast
  <2> QED  BY <2>9, <2>10
<1> QED  BY <1>1, <1>2, <1>3

(* A review stays, and so does what it was of. *)
LEMMA ReviewedKept ==
    ASSUME ConstantsOK, Types, Evolves, NEW e \in DOMAIN entries, Reviewed(e), Refers(e),
           entries'[e].source = entries[e].source,
           \A n \in DOMAIN entries[e].ingest : \E m \in DOMAIN entries'[e].ingest :
              entries'[e].ingest[m].job = entries[e].ingest[n].job
    PROVE  Reviewed(e)'
<1> SUFFICES \E m \in DOMAIN entries'[e].ingest :
               LET parent == entries'[e].ingest[m].job
                   after == {j \in {j \in Jobs' : receipts'[j].kind = "audit" /\ receipts'[j].parent = parent} :
                                receipts'[j].status = "done"}
               IN /\ receipts'[parent].status = "done" /\ receipts'[parent].source = entries'[e].source
                  /\ \/ \E j \in after : ~receipts'[j].slip
                     \/ Cardinality(after) >= Slips
  BY DEF Reviewed, AuditsOf
<1>1. PICK n \in DOMAIN entries[e].ingest :
          LET parent == entries[e].ingest[n].job
              audits == {j \in AuditsOf(parent) : receipts[j].status = "done"}
          IN /\ receipts[parent].status = "done" /\ receipts[parent].source = entries[e].source
             /\ \/ \E j \in audits : ~receipts[j].slip
                \/ Cardinality(audits) >= Slips
  BY DEF Reviewed
<1>2. PICK p : p = entries[e].ingest[n].job  OBVIOUS
<1>3. PICK m \in DOMAIN entries'[e].ingest : entries'[e].ingest[m].job = p  BY <1>2
<1> DEFINE audits == {j \in Jobs : receipts[j].kind = "audit" /\ receipts[j].parent = p /\ receipts[j].status = "done"}
           after == {j \in Jobs' : receipts'[j].kind = "audit" /\ receipts'[j].parent = p /\ receipts'[j].status = "done"}
<1>4. p \in Jobs /\ receipts[p].status = "done" /\ receipts[p].source = entries[e].source
      /\ ((\E j \in audits : ~receipts[j].slip) \/ Cardinality(audits) >= Slips)
  BY <1>1, <1>2 DEF AuditsOf, Refers, Ingests
<1>5. receipts'[p] = receipts[p]  BY <1>4 DEF Evolves
<1>6. \A j \in audits : j \in after /\ receipts'[j] = receipts[j]  BY DEF Evolves
<1>7. Cardinality(audits) <= Cardinality(after) /\ Cardinality(audits) \in Nat /\ Cardinality(after) \in Nat
  <2> receipts' \in Seq(ReceiptSet)  BY DEF Evolves
  <2>1. Len(receipts') \in Nat  BY LenProperties
  <2>2. IsFiniteSet(Jobs')  BY <2>1, FS_Interval DEF Jobs
  <2>3. IsFiniteSet(after)  BY <2>2, FS_Subset
  <2>4. audits \subseteq after  BY <1>6
  <2> HIDE DEF audits, after
  <2> QED  BY <2>3, <2>4, FS_Subset, FS_CardinalityType
<1>8. Slips \in Nat  BY DEF ConstantsOK
<1>9. (\E j \in after : ~receipts'[j].slip) \/ Cardinality(after) >= Slips
  <2>1. CASE \E j \in audits : ~receipts[j].slip  BY <1>6, <2>1
  <2>2. CASE Cardinality(audits) >= Slips
    <3> HIDE DEF audits, after
    <3> QED  BY <1>7, <1>8, <2>2
  <2> QED  BY <1>4, <2>1, <2>2
<1>10. {j \in {j \in Jobs' : receipts'[j].kind = "audit" /\ receipts'[j].parent = p} : receipts'[j].status = "done"} = after
  OBVIOUS
<1> HIDE DEF after, audits
<1> QED  BY ZenonT(30), <1>3, <1>4, <1>5, <1>9, <1>10

-----------------------------------------------------------------------------
(* Only Finish makes an entry done. *)
LEMMA StatusStep ==
    ASSUME ConstantsOK, Types, \A e \in DOMAIN entries : Refers(e), Next, NEW e \in DOMAIN entries,
           entries'[e].status = "done"
    PROVE  entries[e].status = "done" \/ (Finish /\ e = run.at)
<1>a. CASE entries' = entries  BY <1>a
<1>b. ASSUME NEW f \in DOMAIN entries, Touched(f),
             entries'[f].status = "done" => entries[f].status = "done" \/ (Finish /\ f = run.at)
      PROVE  entries[e].status = "done" \/ (Finish /\ e = run.at)
  BY <1>b DEF Touched
<1>1. ASSUME NEW j \in Jobs, Lands(j) \/ Fails(j) PROVE entries' = entries  BY <1>1 DEF Lands, Fails
<1>2. ASSUME NEW j \in Jobs, Adopt(j) PROVE entries'[e] = entries[e]
  <2>1. Added(receipts[j].source, TRUE)  BY <1>2, AdoptIs
  <2> QED  BY <2>1 DEF Added
<1>3. ASSUME NEW i \in Identities, AddSource(i) PROVE entries'[e] = entries[e]
  <2>1. Added(<<i, Cardinality(Versions(i)) + 1>>, FALSE)  BY <1>3, AddSourceIs
  <2> QED  BY <2>1 DEF Added
<1>4. ASSUME NEW f \in DOMAIN entries, Drop(f) PROVE entries[e].status = "done" \/ (Finish /\ e = run.at)
  BY <1>4, <1>b, DropIs
<1>5. ASSUME NEW f \in DOMAIN entries, NEW j \in Jobs, Import(f, j)
      PROVE  entries[e].status = "done" \/ (Finish /\ e = run.at)
  BY <1>5, <1>b, ImportIs
<1>6. CASE Deploy \/ StartRun \/ RunnerDies \/ SkipEntry \/ EndRun \/ NextStage \/ \E j \in 1..MaxPosted : Post(j)
  BY <1>6, <1>a DEF Deploy, StartRun, RunnerDies, SkipEntry, EndRun, NextStage, Post
<1>7. ASSUME Looking, NEW st \in EntryStatus, NEW stops, LeaveAs(st, stops), st # "done" \/ Finish
      PROVE  entries[e].status = "done" \/ (Finish /\ e = run.at)
  <2>1. Touched(run.at) /\ run.at \in DOMAIN entries /\ entries'[run.at].status = st  BY <1>7, LeaveAsIs DEF Left
  <2> QED  BY <1>7, <1>b, <2>1
<1>8. CASE Refused
  <2>1. PICK st \in {"pending", "needs_repair"} : Left(st, "none") /\ run.at \in DOMAIN entries
    BY <1>8, RefusedIs
  <2> QED  BY <1>b, <2>1 DEF Left
<1>9. CASE PostLost
  <2>1. Left("pending", Now.submitting) /\ run.at \in DOMAIN entries  BY <1>9, PostLostIs
  <2> QED  BY <1>b, <2>1 DEF Left
<1>10. CASE Intend \/ Record \/ Refresh
  <2>1. Touched(run.at) /\ run.at \in DOMAIN entries /\ entries'[run.at].status = Now.status
    BY <1>10, IntendIs, RecordIs, RefreshIs
  <2> QED  BY <1>b, <2>1 DEF Now
<1>11. CASE Blocked \/ Supersede \/ Finish \/ Repair \/ Postpone
  <2>1. Looking  BY <1>11 DEF Blocked, Supersede, Finish, Repair, Postpone, StageDone, Goes, Looks, Process
  <2>2. CASE Blocked  BY <1>7, <2>1, <2>2 DEF Blocked, EntryStatus
  <2>3. CASE Supersede  BY <1>7, <2>1, <2>3 DEF Supersede, EntryStatus
  <2>4. CASE Finish
    <3>1. LeaveAs("done", FALSE)  BY <2>4 DEF Finish
    <3> QED  BY <1>7, <2>1, <2>4, <3>1 DEF EntryStatus
  <2>5. CASE Repair  BY <1>7, <2>1, <2>5 DEF Repair, EntryStatus
  <2>6. CASE Postpone
    <3>1. PICK stops : LeaveAs("pending", stops)  BY <2>6 DEF Postpone
    <3> QED  BY <1>7, <2>1, <3>1 DEF EntryStatus
  <2> QED  BY <1>11, <2>2, <2>3, <2>4, <2>5, <2>6
<1> QED  BY <1>a, <1>1, <1>2, <1>3, <1>4, <1>5, <1>6, <1>8, <1>9, <1>10, <1>11 DEF Next

(* The jobs of an entry stay its jobs. *)
LEMMA JobsPersist ==
    ASSUME ConstantsOK, Types, \A e \in DOMAIN entries : Refers(e), Next, NEW e \in DOMAIN entries,
           NEW n \in DOMAIN entries[e].ingest
    PROVE  \E m \in DOMAIN entries'[e].ingest : entries'[e].ingest[m].job = entries[e].ingest[n].job
<1>0. AttemptStep  BY AttemptsChange
<1>a. CASE entries'[e].ingest = entries[e].ingest  BY <1>a
<1>b. ASSUME NEW a, \/ Longer(entries[e].ingest, entries'[e].ingest, a)
                    \/ Renewed(entries[e].ingest, entries'[e].ingest, a)
      PROVE  \E m \in DOMAIN entries'[e].ingest : entries'[e].ingest[m].job = entries[e].ingest[n].job
  <2>1. Len(entries[e].ingest) \in Nat /\ DOMAIN entries[e].ingest = 1..Len(entries[e].ingest)  BY EntryIs
  <2>2. CASE Longer(entries[e].ingest, entries'[e].ingest, a)
    <3>1. n \in DOMAIN entries'[e].ingest /\ entries'[e].ingest[n] = entries[e].ingest[n]  BY <2>1, <2>2 DEF Longer
    <3> QED  BY <3>1
  <2>3. CASE Renewed(entries[e].ingest, entries'[e].ingest, a)
    <3>1. n \in DOMAIN entries'[e].ingest  BY <2>3 DEF Renewed
    <3>2. CASE n < Len(entries[e].ingest)  BY <2>3, <3>1, <3>2 DEF Renewed
    <3>3. CASE n = Len(entries[e].ingest)  BY <2>3, <3>1, <3>3 DEF Renewed
    <3> QED  BY <2>1, <3>2, <3>3
  <2> QED  BY <1>b, <2>2, <2>3
<1>1. CASE Quiet  BY <1>1, <1>a DEF Quiet
<1>2. ASSUME NEW f \in DOMAIN entries, NEW j \in Jobs, Import(f, j)
      PROVE  \E m \in DOMAIN entries'[e].ingest : entries'[e].ingest[m].job = entries[e].ingest[n].job
  <2>1. Touched(f) /\ Longer(entries[f].ingest, entries'[f].ingest, Attempt(j, receipts[j].status))
    BY <1>2, ImportIs
  <2> QED  BY <1>a, <1>b, <2>1 DEF Touched
<1>3. ASSUME NEW f \in DOMAIN entries, f = run.at, Touched(f), NEW j \in 1..MaxPosted, NEW st \in Statuses,
             entries'[f].ingest = IF run.stage = "ingest" THEN Recorded(entries[f].ingest, j, st) ELSE entries[f].ingest
      PROVE  \E m \in DOMAIN entries'[e].ingest : entries'[e].ingest[m].job = entries[e].ingest[n].job
  <2>1. entries[f].ingest \in Seq(AttemptSet)  BY EntryIs
  <2>2. \/ entries'[f].ingest = entries[f].ingest
        \/ Longer(entries[f].ingest, entries'[f].ingest, Attempt(j, st))
        \/ Renewed(entries[f].ingest, entries'[f].ingest, Attempt(j, st))
    BY <1>3, <2>1, RecordedIs
  <2> QED  BY <1>3, <1>a, <1>b, <2>2 DEF Touched
<1>4. CASE Record
  <2>1. PICK f \in DOMAIN entries : f = run.at  BY <1>4, RecordIs
  <2> DEFINE st == IF run.stage = "ingest" THEN "queued" ELSE receipts[run.answer].status
  <2>2. /\ Touched(f) /\ st \in Statuses /\ run.answer \in 1..MaxPosted
        /\ entries'[f].ingest = IF run.stage = "ingest" THEN Recorded(entries[f].ingest, run.answer, st)
                                ELSE entries[f].ingest
    BY <1>4, <2>1, RecordIs DEF Now
  <2> HIDE DEF st
  <2> QED  BY <1>3, <2>1, <2>2
<1>5. CASE Refresh
  <2>1. PICK f \in DOMAIN entries : f = run.at  BY <1>5, RefreshIs
  <2> DEFINE st == receipts[LastOne.job].status
  <2>2. /\ Touched(f) /\ st \in Statuses /\ LastOne.job \in Jobs
        /\ entries'[f].ingest = IF run.stage = "ingest" THEN Recorded(entries[f].ingest, LastOne.job, st)
                                ELSE entries[f].ingest
    BY <1>5, <2>1, RefreshIs DEF Now
  <2>3. LastOne.job \in 1..MaxPosted  BY <2>2, JobIs
  <2> HIDE DEF st
  <2> QED  BY <1>3, <2>1, <2>2, <2>3
<1>6. ASSUME NEW j \in Jobs, Adopt(j) PROVE entries'[e] = entries[e]
  <2>1. Added(receipts[j].source, TRUE)  BY <1>6, AdoptIs
  <2> QED  BY <2>1 DEF Added
<1>7. ASSUME NEW i \in Identities, AddSource(i) PROVE entries'[e] = entries[e]
  <2>1. Added(<<i, Cardinality(Versions(i)) + 1>>, FALSE)  BY <1>7, AddSourceIs
  <2> QED  BY <2>1 DEF Added
<1> QED  BY <1>0, <1>a, <1>1, <1>2, <1>4, <1>5, <1>6, <1>7 DEF AttemptStep

(* The runner is done with a version when its last review could be read, or enough could not. *)
LEMMA FinishIsReviewed ==
    ASSUME ConstantsOK, Types, \A j \in Jobs : Linked(j), UniqueIngest, Posting,
           NEW e \in DOMAIN entries, e = run.at, Refers(e), Finish
    PROVE  Reviewed(e)
<1>0. run.stage = "audit" /\ ~MustSubmit /\ LastOne.status = "done" /\ ~SlipAgain  BY DEF Finish, StageDone
<1>1. Attempts # <<>> /\ Attempts = entries[e].audit /\ Now = entries[e]
  BY <1>0 DEF MustSubmit, Attempts, Now
<1>2. /\ LastOne.job \in Jobs /\ Len(Attempts) \in DOMAIN Attempts /\ receipts[LastOne.job].status = "done"
      /\ receipts[LastOne.job] \in ReceiptSet /\ DOMAIN Attempts = 1..Len(Attempts) /\ Len(Attempts) \in Nat
  BY <1>0, <1>1, AttemptsAre
<1> DEFINE p == entries[e].ingest[Len(entries[e].ingest)].job
<1>3. /\ p \in Ingests(entries[e].source) /\ receipts[p].status = "done"
      /\ Len(entries[e].ingest) \in DOMAIN entries[e].ingest
  BY <1>0, AuditIsOfDone
<1>4. \A n \in DOMAIN Attempts : Attempts[n].job \in AuditsOf(p)
  <2> HIDE DEF p
  <2> QED  BY <1>1, <1>3, AuditsAreOf
<1> DEFINE audits == {j \in AuditsOf(p) : receipts[j].status = "done"}
<1>5. LastOne.job \in audits  BY <1>2, <1>4 DEF LastOne
<1>6. CASE ~receipts[LastOne.job].slip
  BY <1>3, <1>5, <1>6 DEF Reviewed, Ingests
<1>7. CASE receipts[LastOne.job].slip
  <2>1. ~(Cardinality(SlipsSeen) < Slips)  BY <1>0, <1>7 DEF SlipAgain
  <2>2. audits \subseteq Jobs  BY DEF AuditsOf
  <2>3. IsFiniteSet(audits) /\ Cardinality(audits) \in Nat
    <3> HIDE DEF audits
    <3> QED  BY <2>2, FewJobs
  <2> DEFINE f == [n \in SlipsSeen |-> Attempts[n].job]
  <2>4. \A n \in SlipsSeen : n \in DOMAIN Attempts /\ Attempts[n].status = "done"  BY DEF SlipsSeen
  <2>5. \A n \in SlipsSeen : Attempts[n].job \in audits
    <3> SUFFICES ASSUME NEW n \in SlipsSeen PROVE Attempts[n].job \in audits  OBVIOUS
    <3>1. n \in DOMAIN entries[e].audit /\ entries[e].audit[n].status = "done"  BY <1>1, <2>4
    <3>2. receipts[entries[e].audit[n].job].status = "done"  BY <3>1 DEF Refers
    <3>3. Attempts[n].job \in AuditsOf(p)  BY <1>4, <2>4
    <3> QED  BY <1>1, <3>2, <3>3
  <2>6. \A m, n \in SlipsSeen : Attempts[m].job = Attempts[n].job => m = n
    <3> SUFFICES ASSUME NEW m \in SlipsSeen, NEW n \in SlipsSeen, Attempts[m].job = Attempts[n].job, m # n
                 PROVE  FALSE
      OBVIOUS
    <3>1. m \in 1..Len(Attempts) /\ n \in 1..Len(Attempts)  BY <1>2, <2>4
    <3>2. Attempts[n].job \in Nat
      <4>1. Attempts[n].job \in Jobs  BY <2>2, <2>5
      <4> QED  BY <4>1, JobIs
    <3>3. CASE m < n
      <4>1. Attempts[m].job < Attempts[n].job  BY <1>1, <2>4, <3>3 DEF Refers
      <4> QED  BY <3>2, <4>1
    <3>4. CASE n < m
      <4>1. Attempts[n].job < Attempts[m].job  BY <1>1, <2>4, <3>4 DEF Refers
      <4> QED  BY <3>2, <4>1
    <3> QED  BY <1>2, <3>1, <3>3, <3>4
  <2>7. f \in Injection(SlipsSeen, audits)
    <3> HIDE DEF audits
    <3>1. f \in [SlipsSeen -> audits]  BY <2>5
    <3> QED  BY <3>1, <2>6 DEF Injection, IsInjective
  <2>8. IsFiniteSet(SlipsSeen) /\ Cardinality(SlipsSeen) <= Cardinality(audits)
    <3> HIDE DEF audits, f
    <3> QED  BY <2>3, <2>7, FS_Injection
  <2>9. Cardinality(audits) >= Slips
    <3>1. Cardinality(SlipsSeen) \in Nat  BY <2>8, FS_CardinalityType
    <3>2. Slips \in Nat  BY DEF ConstantsOK
    <3> HIDE DEF audits
    <3> QED  BY <2>1, <2>3, <2>8, <3>1, <3>2
  <2> QED  BY <1>3, <2>9 DEF Reviewed, Ingests
<1> QED  BY <1>6, <1>7

(* Every done entry was reviewed, whatever the step. *)
LEMMA AuditedStep ==
    ASSUME ConstantsOK, Types, \A j \in Jobs : Linked(j), UniqueIngest, Posting,
           \A e \in DOMAIN entries : Refers(e) /\ Audited(e), StepKind, Next
    PROVE  \A e \in DOMAIN entries' : Audited(e)'
<1>1. Evolves  BY JobsEvolve DEF StepKind
<1>2. \A e \in DOMAIN entries : entries'[e].source = entries[e].source  BY EntriesKeep DEF StepKind
<1>3. ASSUME NEW e \in DOMAIN entries PROVE Audited(e)'
  <2> SUFFICES ASSUME entries'[e].status = "done" PROVE Reviewed(e)'  BY DEF Audited
  <2>1. Reviewed(e)  BY StatusStep, FinishIsReviewed DEF Audited
  <2>2. \A n \in DOMAIN entries[e].ingest : \E m \in DOMAIN entries'[e].ingest :
           entries'[e].ingest[m].job = entries[e].ingest[n].job
    BY JobsPersist
  <2> QED  BY <1>1, <1>2, <2>1, <2>2, ReviewedKept
<1>4. ASSUME NEW e \in DOMAIN entries' \ DOMAIN entries PROVE entries'[e].status = "pending"
  BY <1>4 DEF StepKind, EntryStep, Touched, Added
<1> QED  BY <1>3, <1>4 DEF Audited

-----------------------------------------------------------------------------
(* A set that grows by one element, and one of which an element is replaced. *)
LEMMA OneMore ==
    ASSUME NEW S, IsFiniteSet(S), NEW x, NEW T, T \subseteq S \cup {x}
    PROVE  IsFiniteSet(T) /\ Cardinality(T) \in Nat /\ Cardinality(S) \in Nat /\ Cardinality(T) <= Cardinality(S) + 1
<1>1. IsFiniteSet(S \cup {x}) /\ Cardinality(S \cup {x}) = IF x \in S THEN Cardinality(S) ELSE Cardinality(S) + 1
  BY FS_AddElement
<1>2. IsFiniteSet(T) /\ Cardinality(T) <= Cardinality(S \cup {x})  BY <1>1, FS_Subset
<1>3. Cardinality(S) \in Nat /\ Cardinality(T) \in Nat  BY <1>2, FS_CardinalityType
<1> QED  BY <1>1, <1>2, <1>3

LEMMA Replaced ==
    ASSUME NEW S, IsFiniteSet(S), NEW x, NEW y \in S, NEW T, T \subseteq (S \ {y}) \cup {x}
    PROVE  IsFiniteSet(T) /\ Cardinality(T) \in Nat /\ Cardinality(S) \in Nat /\ Cardinality(T) <= Cardinality(S)
<1>1. IsFiniteSet(S \ {y}) /\ Cardinality(S \ {y}) = Cardinality(S) - 1  BY FS_RemoveElement
<1>2. /\ IsFiniteSet(T) /\ Cardinality(T) \in Nat /\ Cardinality(S \ {y}) \in Nat
      /\ Cardinality(T) <= Cardinality(S \ {y}) + 1
  BY <1>1, OneMore
<1>3. Cardinality(S) \in Nat  BY FS_CardinalityType
<1> QED  BY <1>1, <1>2, <1>3

(* What is spent of a version, apart from the attempt under way. *)
SpentRest(e) == Spent(e) \ Current(e)
UnseenRest(e) == Unseen(e) \ Current(e)

LEMMA RestIsFinite ==
    ASSUME Types, NEW e
    PROVE  /\ IsFiniteSet(Spent(e)) /\ Cardinality(Spent(e)) \in Nat
           /\ IsFiniteSet(Unseen(e)) /\ Cardinality(Unseen(e)) \in Nat
           /\ IsFiniteSet(SpentRest(e)) /\ Cardinality(SpentRest(e)) \in Nat
           /\ IsFiniteSet(UnseenRest(e)) /\ Cardinality(UnseenRest(e)) \in Nat
<1>1. Spent(e) \subseteq Jobs  BY DEF Spent, Ingests
<1>2. Unseen(e) \subseteq Jobs /\ SpentRest(e) \subseteq Jobs /\ UnseenRest(e) \subseteq Jobs
  BY <1>1 DEF Unseen, SpentRest, UnseenRest
<1> QED  BY <1>1, <1>2, FewJobs

LEMMA BuildsIs ==
    ASSUME ConstantsOK, Types, NEW e \in DOMAIN entries
    PROVE  /\ entries[e].extra["ingest"] \in Nat /\ entries[e].extra["audit"] \in Nat
           /\ Builds(e) \in Nat /\ build \in Nat /\ build >= 1 /\ lost \in Nat /\ Cap \in Nat /\ Cap >= 1
<1>1. entries[e].extra \in [Stages -> 0..MaxBuilds]  BY EntryIs
<1>2. entries[e].extra["ingest"] \in 0..MaxBuilds /\ entries[e].extra["audit"] \in 0..MaxBuilds  BY <1>1 DEF Stages
<1>3. Cap \in Nat /\ Cap > 0  BY DEF ConstantsOK
<1>4. build \in 1..MaxBuilds /\ lost \in 0..MaxOdd  BY DEF Types
<1> QED  BY <1>2, <1>3, <1>4 DEF Builds

(* A version keeps its budget when it spends no more, one attempt more for an answer lost, or one
   attempt in place of another. *)
Spends(e) ==
    \/ SpentRest(e)' \subseteq SpentRest(e) /\ UnseenRest(e)' \subseteq UnseenRest(e)
    \/ lost' >= lost + 1 /\ \E x : /\ SpentRest(e)' \subseteq SpentRest(e) \cup {x}
                                   /\ UnseenRest(e)' \subseteq UnseenRest(e) \cup {x}
    \/ \E x : \E y \in SpentRest(e) \cap UnseenRest(e) :
          /\ SpentRest(e)' \subseteq (SpentRest(e) \ {y}) \cup {x}
          /\ UnseenRest(e)' \subseteq (UnseenRest(e) \ {y}) \cup {x}

LEMMA SpendsWithin ==
    ASSUME ConstantsOK, Types, Types', NEW e \in DOMAIN entries, e \in DOMAIN entries', Budget(e),
           build <= build', lost <= lost', entries'[e].extra["ingest"] = entries[e].extra["ingest"], Spends(e)
    PROVE  Budget(e)'
<1> DEFINE S == SpentRest(e)
           U == UnseenRest(e)
           T == SpentRest(e)'
           V == UnseenRest(e)'
<1>1. /\ IsFiniteSet(S) /\ Cardinality(S) \in Nat /\ IsFiniteSet(U) /\ Cardinality(U) \in Nat
  BY RestIsFinite
<1>2. entries[e].extra["ingest"] <= build /\ Cardinality(S) + 1 <= Cap + Builds(e) + lost /\ Cardinality(U) <= lost
  BY DEF Budget, SpentRest, UnseenRest
<1>3. /\ Builds(e) \in Nat /\ build \in Nat /\ lost \in Nat /\ Cap \in Nat /\ Builds(e)' = Builds(e)
      /\ entries[e].extra["ingest"] \in Nat
  BY BuildsIs DEF Builds
<1>4. lost' \in Nat /\ build' \in Nat
  <2>1. lost' \in 0..MaxOdd /\ build' \in 1..MaxBuilds  BY DEF Types
  <2> QED  BY <2>1
<1>5. SUFFICES Cardinality(T) + 1 <= Cap + Builds(e) + lost' /\ Cardinality(V) <= lost'
  <2>1. entries'[e].extra["ingest"] <= build'  BY <1>2, <1>3, <1>4
  <2> QED  BY <1>3, <2>1 DEF Budget, SpentRest, UnseenRest
<1> HIDE DEF S, U, T, V
<1>6. CASE T \subseteq S /\ V \subseteq U
  <2>1. /\ Cardinality(T) <= Cardinality(S) /\ Cardinality(V) <= Cardinality(U)
        /\ Cardinality(T) \in Nat /\ Cardinality(V) \in Nat
    BY <1>1, <1>6, FS_Subset, FS_CardinalityType
  <2> QED  BY <1>1, <1>2, <1>3, <1>4, <2>1
<1>7. ASSUME lost' >= lost + 1, NEW x, T \subseteq S \cup {x}, V \subseteq U \cup {x}
      PROVE  Cardinality(T) + 1 <= Cap + Builds(e) + lost' /\ Cardinality(V) <= lost'
  <2>1. /\ Cardinality(T) <= Cardinality(S) + 1 /\ Cardinality(V) <= Cardinality(U) + 1
        /\ Cardinality(T) \in Nat /\ Cardinality(V) \in Nat
    BY <1>1, <1>7, OneMore
  <2> QED  BY <1>1, <1>2, <1>3, <1>4, <1>7, <2>1
<1>8. ASSUME NEW x, NEW y \in S \cap U, T \subseteq (S \ {y}) \cup {x}, V \subseteq (U \ {y}) \cup {x}
      PROVE  Cardinality(T) + 1 <= Cap + Builds(e) + lost' /\ Cardinality(V) <= lost'
  <2>0. y \in S /\ y \in U  OBVIOUS
  <2>1. Cardinality(T) <= Cardinality(S) /\ Cardinality(T) \in Nat  BY <1>1, <1>8, <2>0, Replaced
  <2>2. Cardinality(V) <= Cardinality(U) /\ Cardinality(V) \in Nat  BY <1>1, <1>8, <2>0, Replaced
  <2> QED  BY <1>1, <1>2, <1>3, <1>4, <2>1, <2>2
<1>9. Spends(e) => \/ T \subseteq S /\ V \subseteq U
                   \/ lost' >= lost + 1 /\ \E x : T \subseteq S \cup {x} /\ V \subseteq U \cup {x}
                   \/ \E x : \E y \in S \cap U : T \subseteq (S \ {y}) \cup {x} /\ V \subseteq (U \ {y}) \cup {x}
  BY DEF Spends, S, T, U, V
<1> QED  BY <1>6, <1>7, <1>8, <1>9

-----------------------------------------------------------------------------
(* What a version spent, when its attempts are left alone: a new job of it at most. *)
LEMMA SpentFrame ==
    ASSUME ConstantsOK, Types, Ordered, Posting, JobStep, NEW e \in Plain, Refers(e),
           entries'[e].ingest = entries[e].ingest, entries'[e].source = entries[e].source
    PROVE  /\ \A j \in Spent(e)' : j \in Spent(e) \/ (Comes(j) /\ run.at = e /\ run.stage = "ingest")
           /\ \A j \in Unseen(e)' : j \in Unseen(e) \/ (Comes(j) /\ run.at = e /\ run.stage = "ingest")
<1>0. Evolves /\ e \in DOMAIN entries  BY JobsEvolve DEF Plain
<1>1. KnownJobsOf(e)' = KnownJobsOf(e)  BY DEF KnownJobsOf
<1>2. CountedOf(e)' = CountedOf(e)
  <2>1. ASSUME NEW n \in DOMAIN entries[e].ingest, entries[e].ingest[n].status = "failed"
        PROVE  receipts'[entries[e].ingest[n].job] = receipts[entries[e].ingest[n].job]
    <3>1. entries[e].ingest[n].job \in Jobs /\ receipts[entries[e].ingest[n].job].status = "failed"
      BY <2>1 DEF Refers, Ingests
    <3> QED  BY <1>0, <3>1 DEF Evolves
  <2> QED  BY <2>1 DEF CountedOf, Failed
<1>3. ASSUME NEW j \in Spent(e)' PROVE j \in Spent(e) \/ (Comes(j) /\ run.at = e /\ run.stage = "ingest")
  <2>1. j \in Jobs' /\ receipts'[j].kind = "ingest" /\ receipts'[j].source = entries[e].source
    BY DEF Spent, Ingests
  <2>2. SUFFICES ASSUME j \in Jobs, receipts[j].kind = "ingest", receipts[j].source = entries[e].source
                 PROVE  j \in Spent(e)
    BY <2>1, NewIngestIs
  <2>3. j \in Ingests(entries[e].source)  BY <2>2 DEF Ingests
  <2>4. CASE receipts[j].status = "queued"  BY <2>3, <2>4 DEF Spent
  <2>5. CASE receipts[j].status # "queued"
    <3>1. receipts'[j] = receipts[j]  BY <1>0, <2>2, <2>5 DEF Evolves
    <3>2. \/ receipts'[j].status = "queued" \/ j \notin KnownJobsOf(e)
          \/ receipts'[j].status = "failed" /\ receipts'[j].class = "counted"
      BY <1>1 DEF Spent
    <3> QED  BY <2>3, <2>5, <3>1, <3>2 DEF Spent
  <2> QED  BY <2>4, <2>5
<1>4. ASSUME NEW j \in Unseen(e)' PROVE j \in Unseen(e) \/ (Comes(j) /\ run.at = e /\ run.stage = "ingest")
  <2>1. j \in Spent(e)'  BY DEF Unseen
  <2>2. j \notin {entries[e].ingest[n].job : n \in CountedOf(e)}  BY <1>2 DEF Unseen
  <2> QED  BY <1>3, <2>1, <2>2 DEF Unseen
<1> QED  BY <1>3, <1>4

(* A step that leaves a version's attempts alone, and takes none from under way. *)
LEMMA BudgetFrame ==
    ASSUME ConstantsOK, Types, Types', Ordered, Posting, StepKind, NEW e \in Plain, Refers(e), Budget(e),
           e \in DOMAIN entries', entries'[e].ingest = entries[e].ingest, entries'[e].source = entries[e].source,
           entries'[e].extra["ingest"] = entries[e].extra["ingest"],
           Current(e) \subseteq Current(e)',
           receipts' = receipts \/ run.at # e \/ run.step # "post" \/ run.stage # "ingest"
    PROVE  Budget(e)'
<1>1. e \in DOMAIN entries /\ JobStep /\ build <= build' /\ lost <= lost'  BY DEF Plain, StepKind
<1>2. ASSUME NEW j, Comes(j), run.at = e, run.stage = "ingest" PROVE FALSE
  <2>1. receipts' = receipts /\ Jobs' = Jobs \cup {j} /\ j \notin Jobs  BY <1>2 DEF Comes
  <2> QED  BY <2>1 DEF Jobs
<1>3. /\ \A j \in Spent(e)' : j \in Spent(e)
      /\ \A j \in Unseen(e)' : j \in Unseen(e)
  BY <1>1, <1>2, SpentFrame
<1>4. SpentRest(e)' \subseteq SpentRest(e) /\ UnseenRest(e)' \subseteq UnseenRest(e)
  BY <1>3 DEF SpentRest, UnseenRest
<1> QED  BY <1>1, <1>4, SpendsWithin DEF Spends

(* The attempt under way stays, when no answer is recorded. *)
LEMMA CurrentFrame ==
    ASSUME NEW e, entries'[e].ingest = entries[e].ingest,
           entries'[e].submitting = "ingest" => entries[e].submitting = "ingest",
           run' = run \/ ((run.step # "answer" \/ run.at # e \/ run.stage # "ingest")
                          /\ (run'.step # "answer" \/ run'.at # e \/ run'.stage # "ingest"))
    PROVE  Current(e) \subseteq Current(e)'
BY DEF Current

(* One more attempt is intended only when it is within the budget. *)
LEMMA IntendBudget ==
    ASSUME ConstantsOK, Types, Types', \A j \in Jobs : Linked(j), Ordered, Posting, StepKind,
           NEW e \in Plain, e = run.at, Refers(e), Budget(e), e \in DOMAIN entries', Intend
    PROVE  Budget(e)'
<1>0. e \in DOMAIN entries /\ Now = entries[e]  BY DEF Plain, Now
<1>1. /\ entries'[e].source = entries[e].source /\ entries'[e].ingest = entries[e].ingest
      /\ entries'[e].submitting = run.stage
      /\ entries'[e].extra = [entries[e].extra EXCEPT ![run.stage] =
                               IF ~MustSubmit /\ LastOne.status = "failed" /\ Capped THEN build ELSE @]
      /\ run' = [run EXCEPT !.step = "post"] /\ receipts' = receipts /\ UNCHANGED <<build, lost>>
  <2>1. /\ Touched(run.at) /\ entries'[run.at].ingest = Now.ingest /\ entries'[run.at].submitting = run.stage
        /\ entries'[run.at].extra = [Now.extra EXCEPT ![run.stage] =
                 IF ~MustSubmit /\ LastOne.status = "failed" /\ Capped THEN build ELSE Now.extra[run.stage]]
        /\ run' = [run EXCEPT !.step = "post"]
    BY IntendIs
  <2> QED  BY <1>0, <2>1 DEF Touched, Intend
<1>2. run.step = "look" /\ run.stage \in {"ingest", "audit"} /\ run'.step = "post"
      /\ entries[e].extra \in [Stages -> 0..MaxBuilds]
  BY <1>0, <1>1, EntryIs DEF Intend, Goes, Looks, Process, Looking, Types, Stages
<1>3. CASE run.stage = "audit"
  <2>1. entries'[e].extra["ingest"] = entries[e].extra["ingest"]  BY <1>1, <1>2, <1>3 DEF Stages
  <2>2. Current(e) \subseteq Current(e)'  BY <1>1, <1>2, <1>3, CurrentFrame
  <2> QED  BY <1>1, <2>1, <2>2, BudgetFrame
<1>4. CASE run.stage = "ingest" /\ MustSubmit
  <2>1. entries'[e].extra["ingest"] = entries[e].extra["ingest"]  BY <1>1, <1>2, <1>4 DEF Stages
  <2>2. Current(e) \subseteq Current(e)'
    <3>1. entries[e].submitting = "ingest" \/ entries[e].ingest = <<>>  BY <1>0, <1>4 DEF MustSubmit, Attempts
    <3>2. Current(e) = {}  BY <1>2, <3>1 DEF Current
    <3> QED  BY <3>2
  <2> QED  BY <1>1, <2>1, <2>2, BudgetFrame
<1>5. CASE run.stage = "ingest" /\ ~MustSubmit
  <2>1. Attempts = entries[e].ingest /\ Attempts # <<>> /\ entries[e].submitting # "ingest"
    BY <1>0, <1>5 DEF MustSubmit, Attempts
  <2>2. LastOne.status = "failed" /\ MayRetry  BY <1>5 DEF Intend, SlipAgain
  <2> DEFINE l == LastOne.job
             n == Len(Attempts)
  <2>3. /\ l \in Jobs /\ receipts[l] \in ReceiptSet /\ n \in DOMAIN entries[e].ingest /\ receipts[l].status = "failed"
        /\ entries[e].ingest[n] = LastOne
    BY <1>0, <2>1, <2>2, AttemptsAre DEF LastOne
  <2>4. receipts[l].class \in {"capacity", "counted"}
    <3>1. receipts[l].class # "none"  BY <2>3 DEF Linked
    <3> QED  BY <2>2, <2>3, <3>1 DEF MayRetry, ReceiptSet
  <2>5. Current(e) = {l} /\ Current(e)' = {}  BY <1>1, <1>2, <1>5, <2>1 DEF Current, LastOne
  <2>6. Spent(e)' = Spent(e) /\ Unseen(e)' = Unseen(e)
    <3>1. Jobs' = Jobs /\ receipts' = receipts  BY <1>1 DEF Jobs
    <3>2. KnownJobsOf(e)' = KnownJobsOf(e) /\ CountedOf(e)' = CountedOf(e)
      BY <1>1, <3>1 DEF KnownJobsOf, CountedOf
    <3>3. Spent(e)' = Spent(e)  BY <1>1, <3>1, <3>2 DEF Spent, Ingests
    <3> QED  BY <1>1, <3>2, <3>3 DEF Unseen
  <2>7. CASE receipts[l].class = "capacity"
    <3>1. l \notin Spent(e)  BY <2>3, <2>7 DEF Spent, KnownJobsOf
    <3>2. SpentRest(e)' \subseteq SpentRest(e) /\ UnseenRest(e)' \subseteq UnseenRest(e)
      BY <2>5, <2>6, <3>1 DEF SpentRest, UnseenRest, Unseen
    <3>3. ~Capped  BY <2>7 DEF Capped
    <3>4. entries'[e].extra["ingest"] = entries[e].extra["ingest"]  BY <1>1, <1>2, <1>5, <3>3 DEF Stages
    <3> QED  BY <1>0, <1>1, <3>2, <3>4, SpendsWithin DEF Spends, StepKind
  <2>8. CASE receipts[l].class = "counted"
    <3>1. n \in CountedOf(e)  BY <2>2, <2>3, <2>8 DEF CountedOf, Failed
    <3>2. l \notin Unseen(e)  BY <2>3, <3>1 DEF Unseen
    <3>3. Cardinality(Unseen(e)) <= lost /\ UnseenRest(e) = Unseen(e)
      <4>1. Unseen(e) \ Current(e) = Unseen(e)  BY <2>5, <3>2
      <4> QED  BY <4>1 DEF Budget, UnseenRest
    <3>4. /\ IsFiniteSet(Spent(e)) /\ Cardinality(Spent(e)) \in Nat
          /\ IsFiniteSet(Unseen(e)) /\ Cardinality(Unseen(e)) \in Nat
          /\ IsFiniteSet(SpentRest(e)) /\ Cardinality(SpentRest(e)) \in Nat
      BY RestIsFinite
    <3>5. /\ Builds(e) \in Nat /\ build \in Nat /\ build >= 1 /\ lost \in Nat /\ Cap \in Nat
          /\ entries[e].extra["ingest"] \in Nat /\ entries[e].extra["ingest"] <= build
      BY <1>0, BuildsIs DEF Budget
    <3>6. Unseen(e)' = Unseen(e) /\ Cardinality(Unseen(e)' \ Current(e)') <= lost'
      <4>1. Unseen(e)' \ Current(e)' = Unseen(e)  BY <2>5, <2>6
      <4> QED  BY <1>1, <2>6, <3>3, <4>1
    <3>7. Spent(e)' \ Current(e)' = Spent(e)  BY <2>5, <2>6
    <3>8. CASE ~Capped
      <4>1. Cardinality(Counted) < Cap
        <5>1. ~(Cardinality(Counted) >= Cap)  BY <2>8, <3>8 DEF Capped
        <5>2. Cardinality(Counted) \in Nat
          <6>1. Counted \subseteq 1..Len(entries[e].ingest) /\ Len(entries[e].ingest) \in Nat
            BY <1>0, <2>1, EntryIs DEF Counted
          <6>2. IsFiniteSet(1..Len(entries[e].ingest))  BY <6>1, FS_Interval
          <6> QED  BY <6>1, <6>2, FS_Subset, FS_CardinalityType
        <5> QED  BY <3>5, <5>1, <5>2
      <4>2. Counted = CountedOf(e)  BY <2>1 DEF Counted, CountedOf
      <4> DEFINE C == {entries[e].ingest[m].job : m \in CountedOf(e)}
      <4>3. IsFiniteSet(C) /\ Cardinality(C) \in Nat /\ Cardinality(C) <= Cardinality(CountedOf(e))
            /\ Cardinality(CountedOf(e)) \in Nat
        <5>1. CountedOf(e) \subseteq 1..Len(entries[e].ingest) /\ Len(entries[e].ingest) \in Nat
          BY <1>0, EntryIs DEF CountedOf
        <5>2. IsFiniteSet(1..Len(entries[e].ingest))  BY <5>1, UpToIsFinite
        <5>3. IsFiniteSet(CountedOf(e))  BY <5>1, <5>2, FS_Subset
        <5> DEFINE f == [m \in CountedOf(e) |-> entries[e].ingest[m].job]
        <5>4. f \in Surjection(CountedOf(e), C)  BY DEF Surjection
        <5> HIDE DEF f, C
        <5>5. IsFiniteSet(C) /\ Cardinality(C) <= Cardinality(CountedOf(e))  BY <5>3, <5>4, FS_Surjection
        <5> QED  BY <5>3, <5>5, FS_CardinalityType
      <4>4. Spent(e) \subseteq Unseen(e) \cup C  BY DEF Unseen
      <4>5. Cardinality(Spent(e)) <= Cardinality(Unseen(e)) + Cardinality(C)
        <5> HIDE DEF C
        <5>1. /\ IsFiniteSet(Unseen(e) \cup C)
              /\ Cardinality(Unseen(e) \cup C) = Cardinality(Unseen(e)) + Cardinality(C) - Cardinality(Unseen(e) \cap C)
          BY <3>4, <4>3, FS_Union
        <5>2. Cardinality(Unseen(e) \cap C) \in Nat
          <6>1. IsFiniteSet(Unseen(e) \cap C)  BY <3>4, FS_Intersection
          <6> QED  BY <6>1, FS_CardinalityType
        <5>3. Cardinality(Spent(e)) <= Cardinality(Unseen(e) \cup C)  BY <4>4, <5>1, FS_Subset
        <5> QED  BY <3>4, <4>3, <5>1, <5>2, <5>3
      <4>6. entries'[e].extra["ingest"] = entries[e].extra["ingest"] /\ Builds(e)' = Builds(e)
        BY <1>1, <1>2, <1>5, <3>8 DEF Stages, Builds
      <4> HIDE DEF C
      <4>7. Cardinality(Spent(e)) + 1 <= Cap + Builds(e) + lost
        BY <3>3, <3>4, <3>5, <4>1, <4>2, <4>3, <4>5
      <4> QED  BY <1>1, <3>5, <3>6, <3>7, <4>6, <4>7 DEF Budget
    <3>9. CASE Capped
      <4>1. build # receipts[l].build /\ entries[e].extra["ingest"] # build
        BY <1>0, <1>5, <2>2, <3>9 DEF MayRetry, ExtraBuild
      <4>2. build >= 2
        <5>1. receipts[l].build \in 1..MaxBuilds /\ receipts[l].build <= build  BY <2>3 DEF ReceiptSet, Linked
        <5> QED  BY <3>5, <4>1, <5>1
      <4>3. entries'[e].extra["ingest"] = build /\ Builds(e)' = build - 1
        <5>1. entries'[e].extra["ingest"] = build  BY <1>1, <1>2, <1>5, <2>2, <3>9 DEF Stages
        <5> QED  BY <3>5, <4>2, <5>1 DEF Builds
      <4>4. Builds(e) + 1 <= build - 1  BY <3>5, <4>1, <4>2 DEF Builds
      <4>5. Cardinality(Spent(e)) <= Cardinality(SpentRest(e)) + 1
        <5>1. Spent(e) \subseteq SpentRest(e) \cup {l}  BY <2>5 DEF SpentRest
        <5> HIDE DEF l
        <5> QED  BY <3>4, <5>1, OneMore
      <4>6. Cardinality(SpentRest(e)) + 1 <= Cap + Builds(e) + lost  BY DEF Budget, SpentRest
      <4>7. Cardinality(Spent(e)) + 1 <= Cap + (build - 1) + lost  BY <3>4, <3>5, <4>4, <4>5, <4>6
      <4>8. Cardinality(Spent(e)' \ Current(e)') + 1 <= Cap + Builds(e)' + lost'  BY <1>1, <3>7, <4>3, <4>7
      <4>9. entries'[e].extra["ingest"] <= build'  BY <1>1, <3>5, <4>3
      <4> QED  BY <3>6, <4>8, <4>9 DEF Budget
    <3> QED  BY <3>8, <3>9
  <2> QED  BY <2>4, <2>7, <2>8
<1> QED  BY <1>2, <1>3, <1>4, <1>5

(* When an attempt is recorded it is the one under way, and only its own place changes. *)
LEMMA AttemptBudget ==
    ASSUME Types, NEW e \in DOMAIN entries, receipts' = receipts,
           entries'[e].source = entries[e].source, NEW a, Current(e)' = {a.job},
           \/ Longer(entries[e].ingest, entries'[e].ingest, a)
           \/ Renewed(entries[e].ingest, entries'[e].ingest, a)
    PROVE  SpentRest(e)' \subseteq Spent(e) \ {a.job} /\ UnseenRest(e)' \subseteq Unseen(e) \ {a.job}
<1> DEFINE old == entries[e].ingest
           next == entries'[e].ingest
<1>0. Jobs' = Jobs /\ Len(old) \in Nat /\ DOMAIN old = 1..Len(old)  BY EntryIs DEF Jobs
<1>1. /\ DOMAIN old \subseteq DOMAIN next
      /\ \A n \in DOMAIN old : next[n] = old[n] \/ (next[n].job = a.job /\ old[n].job = a.job)
  <2>1. CASE Longer(old, next, a)
    <3>1. DOMAIN old \subseteq DOMAIN next  BY <1>0, <2>1 DEF Longer
    <3> QED  BY <2>1, <3>1 DEF Longer
  <2>2. CASE Renewed(old, next, a)
    <3>1. DOMAIN next = DOMAIN old /\ Len(next) = Len(old) /\ old[Len(old)].job = a.job /\ next[Len(old)] = a
          /\ \A n \in DOMAIN old : n < Len(old) => next[n] = old[n]
      BY <2>2 DEF Renewed
    <3>2. \A n \in DOMAIN old : n < Len(old) \/ n = Len(old)  BY <1>0
    <3> HIDE DEF old, next
    <3> QED  BY <3>1, <3>2
  <2> QED  BY <2>1, <2>2
<1>2. KnownJobsOf(e) \subseteq KnownJobsOf(e)'
  <2>1. \A n \in DOMAIN old : n \in DOMAIN next /\ next[n].job = old[n].job  BY <1>1
  <2> QED  BY <2>1 DEF KnownJobsOf
<1>3. Spent(e)' \subseteq Spent(e)
  <2> SUFFICES ASSUME NEW j \in Spent(e)' PROVE j \in Spent(e)  OBVIOUS
  <2>1. j \in Ingests(entries[e].source)  BY <1>0 DEF Spent, Ingests
  <2> QED  BY <1>2, <2>1 DEF Spent
<1>4. ASSUME NEW j \in Unseen(e)', j # a.job PROVE j \in Unseen(e)
  <2>1. j \in Spent(e) /\ \A n \in CountedOf(e)' : j # next[n].job  BY <1>3 DEF Unseen
  <2> SUFFICES ASSUME NEW n \in CountedOf(e), j = old[n].job PROVE FALSE  BY <2>1 DEF Unseen
  <2>2. n \in DOMAIN old /\ n \in DOMAIN next /\ next[n] = old[n]  BY <1>1, <1>4 DEF CountedOf
  <2>3. n \in CountedOf(e)'  BY <2>2 DEF CountedOf, Failed
  <2> QED  BY <2>1, <2>2, <2>3
<1> QED  BY <1>3, <1>4 DEF SpentRest, UnseenRest

LEMMA RecordBudget ==
    ASSUME ConstantsOK, Types, Types', Ordered, Posting, StepKind,
           NEW e \in Plain, e = run.at, Refers(e), Budget(e), e \in DOMAIN entries', Record
    PROVE  Budget(e)'
<1>0. e \in DOMAIN entries /\ Now = entries[e]  BY DEF Plain, Now
<1> DEFINE st == IF run.stage = "ingest" THEN "queued" ELSE receipts[run.answer].status
<1>1. /\ entries'[e].source = entries[e].source
      /\ entries'[e].ingest = IF run.stage = "ingest" THEN Recorded(entries[e].ingest, run.answer, st) ELSE entries[e].ingest
      /\ entries'[e].submitting = "none" /\ entries'[e].extra = entries[e].extra
      /\ run' = [run EXCEPT !.step = "look", !.submitted = TRUE, !.answer = 0]
      /\ run.answer \in 1..MaxPosted /\ st \in Statuses
  BY <1>0, RecordIs DEF Touched
<1>2. receipts' = receipts /\ run.step = "answer" /\ run'.step = "look" /\ run.stage \in {"ingest", "audit"}
      /\ build <= build' /\ lost <= lost' /\ e \in Nat
  BY <1>0, <1>1, EntryIs DEF Record, Types, StepKind, Stages
<1>3. CASE run.stage = "audit"
  <2>1. entries'[e].ingest = entries[e].ingest  BY <1>1, <1>3
  <2>2. Current(e) \subseteq Current(e)'  BY <1>1, <1>2, <1>3, <2>1, CurrentFrame
  <2> QED  BY <1>1, <1>2, <2>1, <2>2, BudgetFrame
<1>4. CASE run.stage = "ingest"
  <2> DEFINE a == Attempt(run.answer, "queued")
  <2>1. entries[e].ingest \in Seq(AttemptSet)  BY <1>0, EntryIs
  <2>2. \/ Longer(entries[e].ingest, entries'[e].ingest, a)
        \/ Renewed(entries[e].ingest, entries'[e].ingest, a)
    BY <1>1, <1>4, <2>1, RecordedIs
  <2>3. a.job = run.answer  BY DEF Attempt
  <2> HIDE DEF a
  <2>4. Current(e) = {a.job}  BY SMTT(30), <1>2, <1>4, <2>3 DEF Current
  <2>5. Current(e)' = {a.job}
    <3>1. entries'[e].ingest # <<>> /\ entries'[e].ingest[Len(entries'[e].ingest)] = a  BY <2>2 DEF Longer, Renewed
    <3> QED  BY <1>1, <1>2, <3>1 DEF Current
  <2>6. SpentRest(e)' \subseteq Spent(e) \ {a.job} /\ UnseenRest(e)' \subseteq Unseen(e) \ {a.job}
    BY <1>0, <1>1, <1>2, <2>2, <2>5, AttemptBudget
  <2>7. Spends(e)  BY <2>4, <2>6 DEF Spends, SpentRest, UnseenRest
  <2> QED  BY <1>0, <1>1, <1>2, <2>7, SpendsWithin
<1> QED  BY <1>2, <1>3, <1>4

LEMMA RefreshBudget ==
    ASSUME ConstantsOK, Types, Types', Ordered, Posting, StepKind, \A f \in DOMAIN entries : Refers(f),
           NEW e \in Plain, e = run.at, Budget(e), e \in DOMAIN entries', Refresh
    PROVE  Budget(e)'
<1>0. e \in DOMAIN entries /\ Now = entries[e]  BY DEF Plain, Now
<1> DEFINE st == receipts[LastOne.job].status
<1>1. /\ entries'[e].source = entries[e].source
      /\ entries'[e].ingest = IF run.stage = "ingest" THEN Recorded(entries[e].ingest, LastOne.job, st) ELSE entries[e].ingest
      /\ entries'[e].submitting = entries[e].submitting /\ entries'[e].extra = entries[e].extra
      /\ Attempts # <<>> /\ entries[e].submitting # run.stage /\ LastOne.job \in Jobs /\ st \in Statuses
  BY <1>0, RefreshIs DEF Touched
<1>2. receipts' = receipts /\ run' = run /\ run.step = "look" /\ run.stage \in {"ingest", "audit"}
      /\ build <= build' /\ lost <= lost' /\ LastOne.job \in 1..MaxPosted
  BY <1>1, JobIs DEF Refresh, Types, StepKind, Stages, Goes, Looks, Process, Looking
<1>3. CASE run.stage = "audit"
  <2>1. entries'[e].ingest = entries[e].ingest  BY <1>1, <1>3
  <2>2. Current(e) \subseteq Current(e)'  BY <1>1, <1>2, <1>3, <2>1, CurrentFrame
  <2> QED  BY <1>0, <1>1, <1>2, <2>1, <2>2, BudgetFrame
<1>4. CASE run.stage = "ingest"
  <2> DEFINE a == Attempt(LastOne.job, st)
  <2>1. entries[e].ingest \in Seq(AttemptSet) /\ Attempts = entries[e].ingest  BY <1>0, <1>4, EntryIs DEF Attempts
  <2>2. \/ Longer(entries[e].ingest, entries'[e].ingest, a)
        \/ Renewed(entries[e].ingest, entries'[e].ingest, a)
    <3> HIDE DEF st
    <3> QED  BY <1>1, <1>2, <1>4, <2>1, RecordedIs
  <2>3. a.job = LastOne.job  BY DEF Attempt
  <2> HIDE DEF a
  <2>4. Current(e) = {a.job}  BY ZenonT(30), <1>1, <1>2, <1>4, <2>1, <2>3 DEF Current, LastOne
  <2>5. Current(e)' = {a.job}
    <3>1. entries'[e].ingest # <<>> /\ entries'[e].ingest[Len(entries'[e].ingest)] = a  BY <2>2 DEF Longer, Renewed
    <3> QED  BY <1>1, <1>2, <1>4, <3>1 DEF Current
  <2>6. SpentRest(e)' \subseteq Spent(e) \ {a.job} /\ UnseenRest(e)' \subseteq Unseen(e) \ {a.job}
    BY <1>0, <1>1, <1>2, <2>2, <2>5, AttemptBudget
  <2>7. Spends(e)  BY <2>4, <2>6 DEF Spends, SpentRest, UnseenRest
  <2> QED  BY <1>0, <1>1, <1>2, <2>7, SpendsWithin
<1> QED  BY <1>2, <1>3, <1>4

LEMMA ImportBudget ==
    ASSUME ConstantsOK, Types, Types', Ordered, Posting, StepKind,
           NEW e \in Plain, Refers(e), Budget(e), e \in DOMAIN entries', NEW j \in Jobs, Import(e, j)
    PROVE  Budget(e)'
<1>0. e \in DOMAIN entries  BY DEF Plain
<1> DEFINE a == Attempt(j, receipts[j].status)
<1>1. /\ entries'[e].source = entries[e].source /\ entries'[e].extra = entries[e].extra
      /\ Longer(entries[e].ingest, entries'[e].ingest, a)
      /\ entries'[e].submitting # "ingest"
  BY <1>0, ImportIs DEF Touched
<1>2. receipts' = receipts /\ run' = run /\ run.step = "look" /\ build <= build' /\ lost <= lost'
  BY DEF Import, Types, StepKind, NoRun
<1>3. a.job = j  BY DEF Attempt
<1> HIDE DEF a
<1>4. Current(e)' = {a.job}
  <2>1. entries'[e].ingest # <<>> /\ entries'[e].ingest[Len(entries'[e].ingest)] = a  BY <1>1 DEF Longer
  <2> QED  BY <1>1, <1>2, <2>1 DEF Current
<1>5. SpentRest(e)' \subseteq Spent(e) \ {j} /\ UnseenRest(e)' \subseteq Unseen(e) \ {j}
  BY <1>0, <1>1, <1>2, <1>3, <1>4, AttemptBudget
<1>6. j \in Ingests(entries[e].source) /\ j \notin KnownJobsOf(e)  BY DEF Import, Ingests, KnownJobsOf
<1>7. j \in Spent(e) /\ j \in Unseen(e)
  <2>1. j \in Spent(e)  BY <1>6 DEF Spent
  <2>2. \A n \in CountedOf(e) : entries[e].ingest[n].job # j  BY <1>6 DEF KnownJobsOf, CountedOf
  <2> QED  BY <2>1, <2>2 DEF Unseen
<1>8. Current(e) = {} \/ \E l \in KnownJobsOf(e) : Current(e) = {l}
  <2>1. CASE entries[e].submitting = "ingest" \/ entries[e].ingest = <<>>  BY <1>2, <2>1 DEF Current
  <2>2. CASE ~(entries[e].submitting = "ingest" \/ entries[e].ingest = <<>>)
    <3>1. Len(entries[e].ingest) \in DOMAIN entries[e].ingest
      <4>1. entries[e].ingest \in Seq(AttemptSet)  BY <1>0, EntryIs
      <4>2. Len(entries[e].ingest) # 0  BY <2>2, <4>1, EmptySeq
      <4> QED  BY <1>0, <4>2, EntryIs
    <3>2. Current(e) = {entries[e].ingest[Len(entries[e].ingest)].job}  BY <1>2, <2>2 DEF Current
    <3> QED  BY <3>1, <3>2 DEF KnownJobsOf
  <2> QED  BY <2>1, <2>2
<1>9. Spends(e)
  <2>1. CASE Current(e) = {}  BY <1>5, <2>1 DEF Spends, SpentRest, UnseenRest
  <2>2. ASSUME NEW l \in KnownJobsOf(e), Current(e) = {l} PROVE Spends(e)
    <3>1. j # l  BY <1>6
    <3>2. j \in SpentRest(e) \cap UnseenRest(e)  BY <1>7, <2>2, <3>1 DEF SpentRest, UnseenRest
    <3>3. Spent(e) \ {j} \subseteq (SpentRest(e) \ {j}) \cup {l} /\ Unseen(e) \ {j} \subseteq (UnseenRest(e) \ {j}) \cup {l}
      BY <2>2 DEF SpentRest, UnseenRest
    <3>4. /\ SpentRest(e)' \subseteq (SpentRest(e) \ {j}) \cup {l}
          /\ UnseenRest(e)' \subseteq (UnseenRest(e) \ {j}) \cup {l}
      BY <1>5, <3>3
    <3> QED  BY <3>2, <3>4 DEF Spends
  <2> QED  BY <1>8, <2>1, <2>2
<1> QED  BY <1>0, <1>1, <1>2, <1>9, SpendsWithin

(* A job of the version comes, or the answer that names one is lost. *)
LEMMA PostBudget ==
    ASSUME ConstantsOK, Types, Types', Ordered, Posting, StepKind, NEW e \in Plain, Refers(e), Budget(e),
           entries' = entries \/ (entries'[e].ingest = entries[e].ingest /\ entries'[e].source = entries[e].source
                                  /\ entries'[e].extra = entries[e].extra),
           e \in DOMAIN entries', e = run.at, run.step = "post", run.stage = "ingest",
           \/ lost' = lost + 1
           \/ \A j : Comes(j) => Current(e)' = {j}
    PROVE  Budget(e)'
<1>0. e \in DOMAIN entries /\ Now = entries[e] /\ JobStep /\ build <= build' /\ lost <= lost'
  BY DEF Plain, Now, StepKind
<1>1. Current(e) = {}
  <2>1. entries[e].submitting = "ingest"  BY <1>0 DEF Posting
  <2> QED  BY <2>1 DEF Current
<1>2. /\ \A j \in Spent(e)' : j \in Spent(e) \/ Comes(j)
      /\ \A j \in Unseen(e)' : j \in Unseen(e) \/ Comes(j)
  BY <1>0, SpentFrame
<1>3. \A j, k : Comes(j) /\ Comes(k) => j = k
  BY DEF Comes, NewJob
<1>4. Spends(e)
  <2>1. CASE \A j : ~Comes(j)
    <3>1. Spent(e)' \subseteq Spent(e) /\ Unseen(e)' \subseteq Unseen(e)  BY <1>2, <2>1
    <3> QED  BY <1>1, <3>1 DEF Spends, SpentRest, UnseenRest
  <2>2. ASSUME NEW x, Comes(x) PROVE Spends(e)
    <3>1. Spent(e)' \subseteq Spent(e) \cup {x} /\ Unseen(e)' \subseteq Unseen(e) \cup {x}  BY <1>2, <1>3, <2>2
    <3>2. CASE lost' = lost + 1
      <4>1. lost' >= lost + 1
        <5>1. lost \in 0..MaxOdd  BY DEF Types
        <5> QED  BY <3>2, <5>1
      <4>2. SpentRest(e)' \subseteq SpentRest(e) \cup {x} /\ UnseenRest(e)' \subseteq UnseenRest(e) \cup {x}
        BY <1>1, <3>1 DEF SpentRest, UnseenRest
      <4> QED  BY <4>1, <4>2 DEF Spends
    <3>3. CASE Current(e)' = {x}
      <4>1. SpentRest(e)' \subseteq SpentRest(e) /\ UnseenRest(e)' \subseteq UnseenRest(e)
        BY <1>1, <3>1, <3>3 DEF SpentRest, UnseenRest
      <4> QED  BY <4>1 DEF Spends
    <3> QED  BY <2>2, <3>2, <3>3
  <2> QED  BY <2>1, <2>2
<1>5. entries'[e].extra["ingest"] = entries[e].extra["ingest"]  OBVIOUS
<1> QED  BY <1>0, <1>4, <1>5, SpendsWithin

LEMMA DiesBudget ==
    ASSUME ConstantsOK, Types, Types', Ordered, Posting, StepKind, NEW e \in Plain, Refers(e), Budget(e),
           e \in DOMAIN entries', RunnerDies
    PROVE  Budget(e)'
<1>0. e \in DOMAIN entries /\ JobStep /\ build <= build' /\ lost <= lost'  BY DEF Plain, StepKind
<1>1. entries' = entries /\ receipts' = receipts /\ run'.step = "look"  BY DEF RunnerDies, NoRun
<1>2. CASE run.step # "answer"
  <2>1. Current(e) \subseteq Current(e)'
    <3>1. run'.step # "answer"  BY <1>1
    <3> QED  BY <1>1, <1>2, <3>1, CurrentFrame
  <2> QED  BY <1>1, <2>1, BudgetFrame
<1>3. CASE run.step = "answer"
  <2>1. lost' >= lost + 1
    <3>1. lost \in 0..MaxOdd /\ lost' = lost + 1  BY <1>3 DEF Types, RunnerDies
    <3> QED  BY <3>1
  <2>2. \A j : ~Comes(j)  BY <1>3 DEF Comes
  <2>3. Spent(e)' \subseteq Spent(e) /\ Unseen(e)' \subseteq Unseen(e)  BY <1>0, <1>1, <2>2, SpentFrame
  <2>4. CASE run.at = e /\ run.stage = "ingest"
    <3>1. Current(e) = {run.answer}  BY <1>3, <2>4 DEF Current
    <3>2. /\ SpentRest(e)' \subseteq SpentRest(e) \cup {run.answer}
          /\ UnseenRest(e)' \subseteq UnseenRest(e) \cup {run.answer}
      BY <2>3, <3>1 DEF SpentRest, UnseenRest
    <3>3. Spends(e)  BY <2>1, <3>2 DEF Spends
    <3> QED  BY <1>0, <1>1, <3>3, SpendsWithin
  <2>5. CASE ~(run.at = e /\ run.stage = "ingest")
    <3>1. run'.step # "answer"  BY <1>1
    <3>2. Current(e) \subseteq Current(e)'  BY <1>1, <2>5, <3>1, CurrentFrame
    <3> QED  BY <1>1, <3>2, BudgetFrame
  <2> QED  BY <2>4, <2>5
<1> QED  BY <1>2, <1>3

(* A version that has not been tried has its budget. *)
LEMMA NewBudget ==
    ASSUME ConstantsOK, Types', NEW e \in DOMAIN entries', entries'[e].extra["ingest"] = 0,
           entries'[e].ingest = <<>>, run'.step = "look", Ingests(entries[e].source)' = {}
    PROVE  Budget(e)'
<1>1. Current(e)' = {} /\ Spent(e)' = {} /\ Unseen(e)' = {}  BY DEF Current, Spent, Unseen
<1>2. Spent(e)' \ Current(e)' = {} /\ Unseen(e)' \ Current(e)' = {}  BY <1>1
<1>3. Cardinality(Spent(e)' \ Current(e)') = 0 /\ Cardinality(Unseen(e)' \ Current(e)') = 0
  BY <1>2, FS_EmptySet
<1>4. lost' \in Nat /\ build' \in Nat /\ Cap \in Nat /\ Cap > 0  BY DEF Types, ConstantsOK
<1>5. Builds(e)' = 0  BY DEF Builds
<1>6. entries'[e].extra["ingest"] <= build'  BY <1>4
<1>7. 0 + 1 <= Cap + 0 + lost' /\ 0 <= lost'
  <2>1. \A cap, missed \in Nat : cap > 0 => 0 + 1 <= cap + 0 + missed /\ 0 <= missed  OBVIOUS
  <2> QED  BY ZenonT(30), <1>4, <2>1
<1> QED  BY ZenonT(30), <1>3, <1>5, <1>6, <1>7 DEF Budget

-----------------------------------------------------------------------------
(* Every version stays within its attempts, whatever the step. *)
LEMMA BudgetStep ==
    ASSUME ConstantsOK, Types, Types', \A j \in Jobs : Linked(j), Ordered, Posting,
           \A e \in Plain : Budget(e), \A e \in DOMAIN entries : Refers(e), StepKind, Next
    PROVE  \A e \in Plain' : Budget(e)'
<1>0. /\ DOMAIN entries \subseteq DOMAIN entries' /\ Plain \subseteq DOMAIN entries
      /\ \A e \in DOMAIN entries : entries'[e].source = entries[e].source /\ entries'[e].orphan = entries[e].orphan
      /\ Plain' \cap DOMAIN entries \subseteq Plain
  BY EntriesKeep DEF StepKind, Plain
<1>00. \A e \in Plain : e \in DOMAIN entries' /\ Refers(e) /\ entries'[e].source = entries[e].source
  BY <1>0
<1>a. ASSUME DOMAIN entries' = DOMAIN entries, \A e \in Plain : Budget(e)' PROVE \A e \in Plain' : Budget(e)'
  BY <1>0, <1>a DEF Plain
<1>b. ASSUME NEW e \in Plain, entries'[e].ingest = entries[e].ingest,
             entries'[e].extra = entries[e].extra,
             entries'[e].submitting = "ingest" => entries[e].submitting = "ingest",
             run' = run \/ ((run.step # "answer" \/ run.at # e \/ run.stage # "ingest")
                            /\ (run'.step # "answer" \/ run'.at # e \/ run'.stage # "ingest")),
             receipts' = receipts \/ run.at # e \/ run.step # "post" \/ run.stage # "ingest"
      PROVE  Budget(e)'
  <2>1. Current(e) \subseteq Current(e)'  BY <1>b, CurrentFrame
  <2>2. entries'[e].extra["ingest"] = entries[e].extra["ingest"]  BY <1>b
  <2> QED  BY <1>00, <1>b, <2>1, <2>2, BudgetFrame
<1>c. ASSUME entries' = entries, run' = run \/ (run.step # "answer" /\ run'.step # "answer"),
             receipts' = receipts \/ run.step # "post"
      PROVE  \A e \in Plain' : Budget(e)'
  BY <1>a, <1>b, <1>c
<1>d. ASSUME NEW e \in DOMAIN entries, Touched(e), e \in Plain => Budget(e)',
             \/ (run' = run /\ receipts' = receipts)
             \/ (e = run.at /\ (run'.at = e \/ run'.step # "answer"))
      PROVE  \A f \in Plain' : Budget(f)'
  <2> SUFFICES ASSUME NEW f \in Plain, f # e PROVE Budget(f)'
    BY <1>a, <1>d DEF Touched
  <2>1. entries'[f] = entries[f]  BY <1>0, <1>d DEF Touched
  <2> QED  BY <1>b, <1>d, <2>1
<1>e. ASSUME NEW e \in DOMAIN entries, NEW st, NEW sub, Touched(e), SameAttempts(e), entries'[e].submitting = sub,
             e = run.at, sub = "ingest" => entries[e].submitting = "ingest",
             run.step # "answer", run'.step # "answer", receipts' = receipts
      PROVE  \A f \in Plain' : Budget(f)'
  <2>1. e \in Plain => Budget(e)'  BY <1>b, <1>e DEF SameAttempts
  <2> QED  BY <1>d, <1>e, <2>1
<1>1. ASSUME NEW j \in Jobs, Lands(j) \/ Fails(j) PROVE \A e \in Plain' : Budget(e)'
  <2>1. entries' = entries /\ run' = run  BY <1>1 DEF Lands, Fails
  <2>2. \A i : ~Comes(i)
    <3>1. Ends(j)  BY <1>1, LandsIs, FailsIs
    <3> QED  BY <3>1 DEF Ends, Comes
  <2>3. ASSUME NEW e \in Plain PROVE Budget(e)'
    <3>1. Current(e)' = Current(e)  BY <2>1 DEF Current
    <3>2. Spent(e)' \subseteq Spent(e) /\ Unseen(e)' \subseteq Unseen(e)
      BY <1>00, <2>1, <2>2, SpentFrame DEF StepKind
    <3>3. Spends(e)  BY <3>1, <3>2 DEF Spends, SpentRest, UnseenRest
    <3> QED  BY <1>0, <2>1, <3>3, SpendsWithin DEF StepKind
  <2> QED  BY <1>a, <2>1, <2>3
<1>2. CASE Deploy
  <2>1. entries' = entries /\ run' = run /\ receipts' = receipts  BY <1>2 DEF Deploy
  <2> QED  BY <1>c, <2>1
<1>3. ASSUME NEW j \in 1..MaxPosted, Post(j) PROVE \A e \in Plain' : Budget(e)'
  <2>0. PICK e \in DOMAIN entries : e = run.at  BY <1>3 DEF Types, Post
  <2>1. run' = [run EXCEPT !.step = "answer", !.answer = j] /\ entries' = entries /\ run.step = "post"
    BY <1>3 DEF Post
  <2>2. run'.at = e /\ run'.stage = run.stage /\ run'.step = "answer" /\ run'.answer = j
    BY <2>0, <2>1 DEF Types
  <2>3. ASSUME NEW f \in Plain, f # e \/ run.stage # "ingest" PROVE Budget(f)'
    BY <1>b, <2>0, <2>1, <2>2, <2>3
  <2>4. ASSUME e \in Plain, run.stage = "ingest" PROVE Budget(e)'
    <3>1. Current(e)' = {j}  BY <2>2, <2>4 DEF Current
    <3>2. OldJob(j) \/ NewJob(j)  BY <1>3, <2>0, PostedIs DEF Post
    <3>3. \A k : Comes(k) => k = j
      <4>1. CASE NewJob(j)  BY <4>1 DEF NewJob, Comes
      <4>2. CASE OldJob(j)  BY <4>2 DEF OldJob, Comes, Jobs
      <4> QED  BY <3>2, <4>1, <4>2
    <3> QED  BY <1>00, <2>0, <2>1, <2>4, <3>1, <3>3, PostBudget
  <2> QED  BY <1>a, <2>1, <2>3, <2>4
<1>4. CASE RunnerDies
  <2>1. DOMAIN entries' = DOMAIN entries  BY <1>4 DEF RunnerDies
  <2> QED  BY <1>00, <1>4, <1>a, <2>1, DiesBudget
<1>5. CASE StartRun \/ SkipEntry \/ EndRun \/ NextStage
  <2>1. entries' = entries /\ receipts' = receipts  BY <1>5 DEF StartRun, SkipEntry, EndRun, NextStage
  <2>2. run.step # "answer"
    <3>1. CASE StartRun  BY <3>1 DEF StartRun, Types, NoRun
    <3>2. CASE SkipEntry \/ NextStage
      BY <3>2 DEF SkipEntry, NextStage, StageDone, Goes, Looks, Process, Looking
    <3>3. CASE EndRun
      <4>1. run.at \notin DOMAIN entries
        <5>1. DOMAIN entries = 1..Len(entries) /\ Len(entries) \in Nat  BY EntriesTyped DEF StepKind
        <5> QED  BY <3>3, <5>1 DEF EndRun
      <4> QED  BY <4>1 DEF Types
    <3> QED  BY <1>5, <3>1, <3>2, <3>3
  <2>3. run'.step # "answer"
    <3>1. CASE StartRun \/ SkipEntry \/ EndRun
      <4>1. \/ run' = [NoRun EXCEPT !.at = 1] \/ run' = NoRun
            \/ run' = [NoRun EXCEPT !.at = run.at + 1, !.blocked = run.blocked]
        BY <3>1 DEF StartRun, SkipEntry, EndRun
      <4>2. CASE run' = [NoRun EXCEPT !.at = 1]  BY <4>2 DEF NoRun
      <4>3. CASE run' = NoRun  BY <4>3 DEF NoRun
      <4>4. CASE run' = [NoRun EXCEPT !.at = run.at + 1, !.blocked = run.blocked]  BY <4>4 DEF NoRun
      <4> QED  BY <4>1, <4>2, <4>3, <4>4
    <3>2. CASE NextStage
      <4>1. run' = [run EXCEPT !.stage = "audit", !.submitted = FALSE]  BY <3>2 DEF NextStage
      <4>2. run'.step = run.step  BY <4>1 DEF Types
      <4> QED  BY <2>2, <4>2
    <3> QED  BY <1>5, <3>1, <3>2
  <2> QED  BY <1>c, <2>1, <2>2, <2>3
<1>6. ASSUME NEW e \in DOMAIN entries, Drop(e) PROVE \A f \in Plain' : Budget(f)'
  <2>1. Touched(e) /\ SameAttempts(e) /\ entries'[e].submitting = "none" /\ run' = run /\ receipts' = receipts
    BY <1>6, DropIs DEF Drop
  <2>2. e \in Plain => Budget(e)'  BY <1>b, <2>1 DEF SameAttempts
  <2> QED  BY <1>d, <2>1, <2>2
<1>7. ASSUME NEW e \in DOMAIN entries, NEW j \in Jobs, Import(e, j) PROVE \A f \in Plain' : Budget(f)'
  <2>1. Touched(e) /\ run' = run /\ receipts' = receipts  BY <1>7, ImportIs DEF Import
  <2>2. e \in Plain => Budget(e)'  BY <1>00, <1>7, ImportBudget
  <2> QED  BY SMTT(30), <1>d, <2>1, <2>2
<1>8. ASSUME Looking, NEW st \in EntryStatus, NEW stops, LeaveAs(st, stops) PROVE \A e \in Plain' : Budget(e)'
  <2>0. PICK e \in DOMAIN entries : e = run.at  BY <1>8, LookingAt
  <2> DEFINE sub == IF st = "superseded" THEN "none" ELSE Now.submitting
  <2>1. /\ Left(st, sub) /\ receipts' = receipts
        /\ run' = NoRun \/ run' = [NoRun EXCEPT !.at = run.at + 1,
               !.blocked = IF st = "pending" /\ ~Now.orphan THEN run.blocked \cup {Now.source[1]} ELSE run.blocked]
    BY <1>8, LeaveAsIs
  <2>2. run.step = "look" /\ run'.step = "look"
    <3>1. run' = NoRun => run'.step = "look"  BY DEF NoRun
    <3>2. ASSUME NEW x, NEW y, run' = [NoRun EXCEPT !.at = x, !.blocked = y] PROVE run'.step = "look"
      BY <3>2 DEF NoRun
    <3> QED  BY <1>8, <2>1, <3>1, <3>2 DEF Looking
  <2>3. sub = "ingest" => entries[e].submitting = "ingest"  BY <2>0 DEF Now
  <2>4. Touched(e) /\ SameAttempts(e) /\ entries'[e].submitting = sub  BY <2>0, <2>1 DEF Left
  <2> HIDE DEF sub
  <2> QED  BY <1>e, <2>0, <2>1, <2>2, <2>3, <2>4
<1>9. CASE Refused
  <2>0. PICK e \in DOMAIN entries : e = run.at  BY <1>9, RefusedIs
  <2>1. PICK st \in {"pending", "needs_repair"} :
          /\ Left(st, "none") /\ receipts' = receipts
          /\ run' = [NoRun EXCEPT !.at = run.at + 1,
                 !.blocked = IF st = "pending" /\ ~Now.orphan THEN run.blocked \cup {Now.source[1]} ELSE run.blocked]
    BY <1>9, RefusedIs
  <2>2. run.step = "post" /\ run'.step = "look"  BY <1>9, <2>1 DEF Refused, NoRun
  <2>3. Touched(e) /\ SameAttempts(e) /\ entries'[e].submitting = "none"  BY <2>0, <2>1 DEF Left
  <2> QED  BY <1>e, <2>0, <2>1, <2>2, <2>3
<1>10. CASE PostLost
  <2>0. PICK e \in DOMAIN entries : e = run.at  BY <1>10, PostLostIs
  <2>1. /\ Touched(e) /\ SameAttempts(e) /\ entries'[e].submitting = entries[e].submitting
        /\ run' = [NoRun EXCEPT !.at = run.at + 1,
               !.blocked = IF Now.orphan THEN run.blocked ELSE run.blocked \cup {Now.source[1]}]
        /\ lost' = lost + 1
    BY <1>10, <2>0, PostLostIs DEF Left, Now
  <2>2. run.step = "post" /\ run'.step = "look"  BY <1>10, <2>1 DEF PostLost, NoRun
  <2>3. ASSUME e \in Plain PROVE Budget(e)'
    <3>1. CASE run.stage = "ingest"  BY <1>00, <2>0, <2>1, <2>2, <2>3, <3>1, PostBudget DEF SameAttempts
    <3>2. CASE run.stage # "ingest"  BY <1>b, <2>1, <2>2, <2>3, <3>2 DEF SameAttempts
    <3> QED  BY <3>1, <3>2
  <2> QED  BY <1>d, <2>0, <2>1, <2>2, <2>3
<1>11. CASE Intend \/ Record \/ Refresh
  <2>0. PICK e \in DOMAIN entries : e = run.at  BY <1>11, IntendIs, RecordIs, RefreshIs
  <2>1. Touched(e)  BY <1>11, <2>0, IntendIs, RecordIs, RefreshIs
  <2>2. run'.at = e
    <3>1. CASE Intend
      <4>1. run' = [run EXCEPT !.step = "post"]  BY <3>1, IntendIs
      <4> QED  BY <2>0, <4>1 DEF Types
    <3>2. CASE Record
      <4>1. run' = [run EXCEPT !.step = "look", !.submitted = TRUE, !.answer = 0]  BY <3>2, RecordIs
      <4> QED  BY <2>0, <4>1 DEF Types
    <3>3. CASE Refresh  BY <2>0, <3>3 DEF Refresh
    <3> QED  BY <1>11, <3>1, <3>2, <3>3
  <2>3. e \in Plain => Budget(e)'
    BY <1>00, <1>11, <2>0, IntendBudget, RecordBudget, RefreshBudget
  <2> QED  BY <1>d, <2>0, <2>1, <2>2, <2>3
<1>12. CASE Blocked \/ Supersede \/ Finish \/ Repair \/ Postpone
  <2>1. Looking  BY <1>12 DEF Blocked, Supersede, Finish, Repair, Postpone, StageDone, Goes, Looks, Process
  <2>2. \E st \in EntryStatus : \E stops : LeaveAs(st, stops)
    <3>1. CASE Blocked  BY <3>1 DEF Blocked, EntryStatus
    <3>2. CASE Supersede  BY <3>2 DEF Supersede, EntryStatus
    <3>3. CASE Finish  BY <3>3 DEF Finish, EntryStatus
    <3>4. CASE Repair  BY <3>4 DEF Repair, EntryStatus
    <3>5. CASE Postpone
      <4>1. PICK stops : LeaveAs("pending", stops)  BY <3>5 DEF Postpone
      <4> QED  BY <4>1 DEF EntryStatus
    <3> QED  BY <1>12, <3>1, <3>2, <3>3, <3>4, <3>5
  <2> QED  BY <1>8, <2>1, <2>2
<1>13. ASSUME NEW j \in Jobs, Adopt(j) PROVE \A e \in Plain' : Budget(e)'
  <2>1. /\ DOMAIN entries' = DOMAIN entries \cup {Len(entries) + 1} /\ entries'[Len(entries) + 1].orphan = TRUE
        /\ \A e \in DOMAIN entries : entries'[e] = entries[e]
    BY <1>13, AdoptIs DEF Added
  <2>2. Plain' \subseteq Plain  BY <1>0, <2>1 DEF Plain
  <2>3. run' = run /\ receipts' = receipts  BY <1>13 DEF Adopt
  <2>4. ASSUME NEW e \in Plain PROVE Budget(e)'
    <3>1. entries'[e] = entries[e]  BY <1>0, <2>1
    <3> QED  BY <1>b, <2>3, <3>1
  <2> QED  BY <2>2, <2>4
<1>14. ASSUME NEW i \in Identities, AddSource(i) PROVE \A e \in Plain' : Budget(e)'
  <2>0. PICK new \in Nat : new = Len(entries) + 1  BY EntriesTyped DEF StepKind
  <2>1. PICK v : v = Cardinality(Versions(i)) + 1  OBVIOUS
  <2>2. /\ v \in 1..MaxVersions /\ Cardinality(Versions(i)) \in Nat
        /\ DOMAIN entries' = DOMAIN entries \cup {new} /\ new \notin DOMAIN entries
        /\ \A e \in DOMAIN entries : entries'[e] = entries[e]
        /\ entries'[new].source = <<i, v>> /\ entries'[new].extra = [s \in Stages |-> 0]
        /\ entries'[new].ingest = <<>>
    BY <1>14, <2>0, <2>1, AddSourceIs DEF Added
  <2>3. ASSUME NEW j \in Jobs, receipts[j].kind = "ingest", receipts[j].source = <<i, v>> PROVE FALSE
    <3>1. PICK e \in Plain : entries[e].source = <<i, v>>  BY <2>3 DEF Ordered
    <3>2. entries[e].source[1] = i /\ entries[e].source[2] = v  BY <3>1
    <3>3. v <= Cardinality(Versions(i))  BY <3>2 DEF Ordered
    <3> QED  BY <2>1, <2>2, <3>3
  <2>4. receipts' = receipts /\ run' = run /\ run = NoRun  BY <1>14 DEF AddSource, Types
  <2>5. ASSUME NEW e \in Plain PROVE Budget(e)'
    <3>1. entries'[e] = entries[e]  BY <1>0, <2>2
    <3> QED  BY <1>b, <2>4, <3>1
  <2>6. Budget(new)'
    <3>1. \A j \in Jobs' : ~(receipts'[j].kind = "ingest" /\ receipts'[j].source = entries'[new].source)
      BY <2>2, <2>3, <2>4 DEF Jobs
    <3>2. Ingests(entries[new].source)' = {}  BY <3>1 DEF Ingests
    <3>3. entries'[new].extra["ingest"] = 0 /\ run'.step = "look"  BY <2>2, <2>4 DEF Stages, NoRun
    <3> QED  BY <2>2, <3>2, <3>3, NewBudget
  <2>7. \A e \in Plain' : e \in Plain \/ e = new  BY <2>2 DEF Plain
  <2> QED  BY <2>5, <2>6, <2>7
<1> QED
  BY <1>1, <1>2, <1>3, <1>4, <1>5, <1>6, <1>7, <1>9, <1>10, <1>11, <1>12, <1>13, <1>14 DEF Next

-----------------------------------------------------------------------------
LEMMA MaintainStart ==
    ASSUME ConstantsOK, Init
    PROVE  MaintainInv
<1>1. /\ entries = <<>> /\ receipts = <<>> /\ landed = <<>> /\ build = 1 /\ run = NoRun /\ lost = 0 /\ imports = 0
      /\ loose = {}
  BY DEF Init
<1>2. Jobs = {} /\ DOMAIN entries = {} /\ DOMAIN landed = {} /\ Len(entries) = 0 /\ Len(receipts) = 0
  BY <1>1 DEF Jobs
<1>3. Types
  <2>1. entries \in Seq(EntrySet) /\ receipts \in Seq(ReceiptSet) /\ landed \in Seq(Sources)  BY <1>1
  <2>2. /\ 0 <= MaxEntries /\ 0 <= MaxPosted /\ build \in 1..MaxBuilds /\ lost \in 0..MaxOdd /\ imports \in 0..MaxOdd
        /\ run.at = 0 /\ run.step = "look" /\ run.stage = "ingest"
        /\ run \in [at: 0..(MaxEntries + 1), stage: Stages, step: {"look", "post", "answer"},
                    submitted: BOOLEAN, blocked: SUBSET Identities, answer: 0..MaxPosted]
    BY <1>1 DEF ConstantsOK, NoRun, Stages
  <2> QED  BY <1>1, <1>2, <2>1, <2>2 DEF Types, Idle
<1>4. Plain = {}  BY <1>2 DEF Plain
<1>5. run.step = "look" /\ run.stage = "ingest"  BY <1>1 DEF NoRun
<1> QED
  BY <1>2, <1>3, <1>4, <1>5
  DEF MaintainInv, UniqueIngest, AuditsInTurn, LandedDone, Ordered, Posting, NewerLandsLast

LEMMA MaintainStep ==
    ASSUME ConstantsOK, MaintainInv, Next
    PROVE  MaintainInv'
<1>1. StepKind  BY StepIs DEF MaintainInv
<1>2. JobStep /\ Evolves /\ build' \in Nat /\ build <= build'
  <2>1. build' \in 1..MaxBuilds  BY <1>1 DEF StepKind
  <2> QED  BY <1>1, <2>1, JobsEvolve DEF StepKind, MaintainInv
<1>3. Types'  BY <1>1, TypesKept DEF MaintainInv
<1>4. \A j \in Jobs' : Linked(j)'  BY <1>2, LinkedKept DEF MaintainInv
<1>5. \A e \in DOMAIN entries' : Refers(e)'  BY <1>1, RefersStep DEF MaintainInv
<1>6. \A e \in DOMAIN entries' : Audited(e)'  BY <1>1, AuditedStep DEF MaintainInv
<1>7. UniqueIngest'  BY <1>2, UniqueKept DEF MaintainInv
<1>8. AuditsInTurn'  BY <1>2, InTurnKept DEF MaintainInv
<1>9. LandedDone'  BY <1>1, <1>2, LandedKept DEF MaintainInv, StepKind, LandedStep
<1>10. Ordered'  BY <1>1, OrderedStep DEF MaintainInv
<1>11. Posting'  BY <1>1, PostingStep DEF MaintainInv
<1>12. \A e \in Plain' : Waits(e)'  BY <1>1, WaitsStep DEF MaintainInv
<1>13. \A e \in Plain' : Behind(e)'  BY <1>1, BehindStep DEF MaintainInv
<1>14. \A e \in Plain' : Budget(e)'  BY <1>1, <1>3, BudgetStep DEF MaintainInv
<1>15. NewerLandsLast'  BY <1>1, NewerStep DEF MaintainInv
<1> QED
  BY <1>3, <1>4, <1>5, <1>6, <1>7, <1>8, <1>9, <1>10, <1>11, <1>12, <1>13, <1>14, <1>15 DEF MaintainInv

LEMMA MaintainStutters ==
    ASSUME MaintainInv, UNCHANGED vars
    PROVE  MaintainInv'
<1>1. /\ entries' = entries /\ build' = build /\ receipts' = receipts /\ run' = run /\ lost' = lost
      /\ imports' = imports /\ landed' = landed /\ loose' = loose
  BY DEF vars
<1>2. Jobs' = Jobs /\ Plain' = Plain  BY <1>1 DEF Jobs, Plain
<1>3. \A s : Landing(s)' = Landing(s) /\ Ingests(s)' = Ingests(s) /\ (Done(s)' <=> Done(s)) /\ AuditsOf(s)' = AuditsOf(s)
  BY <1>1, <1>2 DEF Landing, Ingests, Done, AuditsOf
<1>4. Types'  BY <1>1, <1>2 DEF MaintainInv, Types, Idle, Now
<1>5. \A j \in Jobs' : Linked(j)'  BY <1>1, <1>2 DEF MaintainInv, Linked
<1>6. \A e \in DOMAIN entries' : Refers(e)' /\ Audited(e)'
  <2>1. \A e : Refers(e)' <=> Refers(e)  BY <1>1, <1>2 DEF Refers, Ingests
  <2>2. \A e : Audited(e)' <=> Audited(e)
    <3> SUFFICES ASSUME NEW e PROVE Audited(e)' <=> Audited(e)  OBVIOUS
    <3>1. Reviewed(e)' <=> Reviewed(e)  BY <1>1, <1>2 DEF Reviewed, AuditsOf
    <3> QED  BY <1>1, <3>1 DEF Audited
  <2> QED  BY <1>1, <2>1, <2>2 DEF MaintainInv
<1>7. UniqueIngest' /\ AuditsInTurn' /\ LandedDone' /\ Ordered' /\ NewerLandsLast'
  <2>1. UniqueIngest'  BY <1>1, <1>2 DEF MaintainInv, UniqueIngest, Reusable
  <2>2. AuditsInTurn'
    <3>1. \A j : Slipped(j)' = Slipped(j) /\ (Reusable(j)' <=> Reusable(j))
      BY <1>1, <1>2 DEF Slipped, AuditsOf, Reusable
    <3> QED  BY <1>1, <1>2, <3>1 DEF MaintainInv, AuditsInTurn
  <2>3. LandedDone'  BY <1>1, <1>2 DEF MaintainInv, LandedDone, Done, Ingests
  <2>4. Ordered'
    <3>1. \A i : Versions(i)' = Versions(i)  BY <1>1 DEF Versions
    <3> QED  BY <1>1, <1>2, <3>1 DEF MaintainInv, Ordered
  <2>5. NewerLandsLast'  BY <1>1 DEF MaintainInv, NewerLandsLast
  <2> QED  BY <2>1, <2>2, <2>3, <2>4, <2>5
<1>8. Posting'
  BY <1>1, <1>2, <1>3 DEF MaintainInv, Posting, Now, Parent, Landing, Ingests, AuditsOf
<1>9. \A e \in Plain' : Waits(e)' /\ Behind(e)'
  BY <1>1, <1>2, <1>3 DEF MaintainInv, Waits, Behind, Given, RolledBack, Failed, Settled, Landing, Ingests, Done
<1>10. \A e \in Plain' : Budget(e)'
  <2> SUFFICES ASSUME NEW e \in Plain PROVE Budget(e)'  BY <1>2
  <2>1. KnownJobsOf(e)' = KnownJobsOf(e) /\ CountedOf(e)' = CountedOf(e) /\ Current(e)' = Current(e) /\ Builds(e)' = Builds(e)
    BY <1>1 DEF KnownJobsOf, CountedOf, Current, Builds
  <2>2. Spent(e)' = Spent(e)  BY <1>1, <1>2, <2>1 DEF Spent, Ingests
  <2>3. Unseen(e)' = Unseen(e)  BY <1>1, <2>1, <2>2 DEF Unseen
  <2>4. Budget(e)  BY DEF MaintainInv
  <2> QED  BY <1>1, <2>1, <2>2, <2>3, <2>4 DEF Budget
<1> QED  BY <1>4, <1>5, <1>6, <1>7, <1>8, <1>9, <1>10 DEF MaintainInv

-----------------------------------------------------------------------------
(* No more attempts at a version failed than its budget allows. *)
LEMMA BudgetBounds ==
    ASSUME ConstantsOK, MaintainInv
    PROVE  AttemptsBounded
<1> SUFFICES ASSUME NEW s \in Sources
             PROVE  Cardinality({j \in Jobs : /\ receipts[j].kind = "ingest" /\ receipts[j].source = s
                                              /\ receipts[j].status = "failed" /\ receipts[j].class = "counted"})
                      <= Cap + (build - 1) + lost
  BY DEF AttemptsBounded
<1> DEFINE F == {j \in Jobs : /\ receipts[j].kind = "ingest" /\ receipts[j].source = s
                              /\ receipts[j].status = "failed" /\ receipts[j].class = "counted"}
<1>0. Types  BY DEF MaintainInv
<1>1. build \in Nat /\ build >= 1 /\ lost \in Nat /\ Cap \in Nat
  <2>1. build \in 1..MaxBuilds /\ lost \in 0..MaxOdd /\ Cap \in Nat  BY <1>0 DEF Types, ConstantsOK
  <2> QED  BY <2>1
<1>2. CASE F = {}
  <2>1. Cardinality(F) = 0
    <3> HIDE DEF F
    <3> QED  BY <1>2, FS_EmptySet
  <2> HIDE DEF F
  <2>2. Cardinality(F) <= Cap + (build - 1) + lost  BY <1>1, <2>1
  <2> QED  BY <2>2 DEF F
<1>3. CASE F # {}
  <2>1. PICK e \in Plain : entries[e].source = s  BY <1>3 DEF MaintainInv, Ordered
  <2>2. e \in DOMAIN entries  BY DEF Plain
  <2>3. F \subseteq Spent(e)  BY <2>1 DEF Spent, Ingests
  <2>4. \E x : Current(e) \subseteq {x}
    <3>1. Current(e) \in {{run.answer}, {}, {entries[e].ingest[Len(entries[e].ingest)].job}}  BY DEF Current
    <3> QED  BY <3>1
  <2>5. PICK x : Spent(e) \subseteq SpentRest(e) \cup {x}  BY <2>4 DEF SpentRest
  <2>6. F \subseteq SpentRest(e) \cup {x}  BY <2>3, <2>5
  <2>7. IsFiniteSet(SpentRest(e)) /\ Cardinality(SpentRest(e)) \in Nat  BY <1>0, RestIsFinite
  <2>8. Cardinality(F) <= Cardinality(SpentRest(e)) + 1 /\ Cardinality(F) \in Nat
    <3> HIDE DEF F
    <3> QED  BY <2>6, <2>7, OneMore
  <2>9. Cardinality(SpentRest(e)) + 1 <= Cap + Builds(e) + lost /\ entries[e].extra["ingest"] <= build
    BY DEF MaintainInv, Budget, SpentRest
  <2>10. Builds(e) \in Nat /\ Builds(e) <= build - 1
    <3>1. entries[e].extra["ingest"] \in Nat  BY <1>0, <2>2, BuildsIs
    <3> QED  BY <1>1, <2>9, <3>1 DEF Builds
  <2> HIDE DEF F
  <2>11. Cardinality(F) <= Cap + (build - 1) + lost  BY <1>1, <2>7, <2>8, <2>9, <2>10
  <2> QED  BY <2>11 DEF F
<1> QED  BY <1>2, <1>3

(* The inductive invariant says it all. *)
LEMMA MaintainTells ==
    ASSUME ConstantsOK, MaintainInv
    PROVE  VersionsOnce
<1>0. Types  BY DEF MaintainInv
<1>1. TypeOK
  <2>1. \A e \in DOMAIN entries : entries[e] \in EntrySet  BY <1>0, EntryIs
  <2>2. \A j \in Jobs : receipts[j] \in ReceiptSet  BY <1>0, JobIs
  <2> QED  BY <1>0, <2>1, <2>2 DEF TypeOK, Types, EntrySet, ReceiptSet
<1>2. NewerLandsLast  BY DEF MaintainInv
<1>3. DoneOnce
  <2> SUFFICES ASSUME NEW j \in Jobs, NEW k \in Jobs, j # k, receipts[j].status = "done", receipts[k].status = "done",
                      receipts[j].kind = receipts[k].kind, receipts[j].source = receipts[k].source,
                      receipts[j].parent = receipts[k].parent
               PROVE  receipts[j].slip \/ receipts[k].slip
    BY DEF DoneOnce
  <2>1. receipts[j].kind \in {"ingest", "audit"} /\ j \in Nat /\ k \in Nat  BY <1>0, JobIs DEF ReceiptSet, Stages
  <2>2. Reusable(j) /\ Reusable(k)  BY DEF Reusable
  <2>3. CASE receipts[j].kind = "ingest"  BY <2>2, <2>3 DEF MaintainInv, UniqueIngest
  <2>4. CASE receipts[j].kind = "audit"
    <3>1. CASE j < k  BY <2>2, <2>4, <3>1 DEF MaintainInv, AuditsInTurn
    <3>2. CASE k < j  BY <2>2, <2>4, <3>2 DEF MaintainInv, AuditsInTurn
    <3> QED  BY <2>1, <3>1, <3>2
  <2> QED  BY <2>1, <2>3, <2>4
<1>4. DoneIsAudited  BY DEF MaintainInv, Audited, Reviewed, DoneIsAudited
<1>5. AttemptsBounded  BY BudgetBounds
<1> QED  BY <1>1, <1>2, <1>3, <1>4, <1>5 DEF VersionsOnce

(* Each version of a source is ingested and judged once, in the order of its versions and within its
   attempts, whoever dies, whatever answer is lost and whatever is deployed between. *)
THEOREM VersionsAreOnce == ASSUME ConstantsOK PROVE Spec => []VersionsOnce
<1>1. Init => MaintainInv  BY MaintainStart
<1>2. MaintainInv /\ [Next]_vars => MaintainInv'  BY MaintainStep, MaintainStutters
<1>3. MaintainInv => VersionsOnce  BY MaintainTells
<1> QED  BY <1>1, <1>2, <1>3, PTL DEF Spec

-----------------------------------------------------------------------------
(* The composition: a behaviour is of one of the three, and the runner rests in the others. *)

LEMMA RunnerStarts == AllInit => MaintainInv
  BY MaintainOK, MaintainStart DEF AllInit

LEMMA RunnerKeeps == MaintainInv /\ [AllNext]_allVars => MaintainInv'
<1> SUFFICES ASSUME MaintainInv, [AllNext]_allVars PROVE MaintainInv'  OBVIOUS
<1>1. CASE RunnerStep  BY <1>1, MaintainOK, MaintainStep DEF RunnerStep
<1>2. CASE IssuesStep \/ ReposStep \/ UNCHANGED allVars
  <2>1. UNCHANGED vars  BY <1>2 DEF IssuesStep, ReposStep, allVars
  <2> QED  BY <2>1, MaintainStutters
<1> QED  BY <1>1, <1>2 DEF AllNext

(* What the runs check of the runner, for any constants. *)
THEOREM RunnerIsSound == AllSpec => []RunnerSound
<1>1. MaintainInv => RunnerSound  BY MaintainOK, MaintainTells DEF RunnerSound
<1> QED  BY <1>1, RunnerStarts, RunnerKeeps, PTL DEF AllSpec
=============================================================================
