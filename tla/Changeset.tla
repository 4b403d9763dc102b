----------------------------- MODULE Changeset -----------------------------
(***************************************************************************)
(* The gate of a curate changeset: src/aiwiki/runtime/changeset.py, and    *)
(* the producer and push-time recheck of src/aiwiki/runtime/curate.py.  A  *)
(* curator proposes whole concepts against a tree it pulled; the gate      *)
(* judges them on the branch as it is when the writer takes the job; the   *)
(* branch may move again before the push, and Git then merges.             *)
(*                                                                         *)
(* A concept is what the gate tells apart: its body (a number, a new one   *)
(* for each edit; 0 is no concept), its title, its status, whether its     *)
(* last verification is current, the packets it cites and the concept it   *)
(* links.  Shape errors, secrets and sizes end as any rejection does.      *)
(***************************************************************************)
EXTENDS Naturals, FiniteSets

CONSTANTS
    Paths,
    Titles,
    Items,
    Earlier,       \* what a concept cites before any changeset
    None,          \* no link, no entry, no successor
    MaxTexts,      \* bound: edits of all concepts
    MaxRequests,   \* bound: changesets
    MaxMoves       \* bound: commits others push

ConstantsOK ==
    /\ MaxTexts \in Nat \ {0} /\ {MaxRequests, MaxMoves} \subseteq Nat
    /\ None \notin Paths /\ Items # {}

VARIABLES
    remote,     \* the published branch
    pulled,     \* the tree the curator edits
    request,    \* the changeset sent, while it is judged
    txn,        \* the writer's transaction: the tree it judged, what it committed
    closed,     \* the evidence each item was closed on
    judged,     \* the contents an auditor verified
    texts, requests, moves

vars == <<remote, pulled, request, txn, closed, judged, texts, requests, moves>>

Absent == [text |-> 0, title |-> None, status |-> "none", verified |-> FALSE, cites |-> {}, link |-> None]

Exists(c) == c.text # 0
Live(c)   == Exists(c) /\ c.status # "deprecated"

(* content_hash leaves out generated, verified and status. *)
ContentHash(c) == <<c.text, c.title, c.cites, c.link>>

(* An item holds a notice of what is wrong and evidence; a packet is the evidence it is made of. *)
Files == Items \X {"notice", "evidence"}
Packets == {p \in SUBSET Files : p # {}}
NoRequest == [items |-> {}, cited |-> {}, files |-> [p \in Paths |-> None], seen |-> [p \in Paths |-> Absent]]
Idle == [phase |-> "idle", base |-> remote, tree |-> remote, onto |-> remote]

Init ==
    /\ \E p \in Paths, t \in Titles, cites \in {{Earlier}, {Earlier, Items \X {"evidence"}}} :
          remote = [q \in Paths |-> IF q = p THEN [text |-> 1, title |-> t, status |-> "stable", verified |-> TRUE,
                                                   cites |-> cites, link |-> None]
                                    ELSE Absent]
    /\ pulled = remote
    /\ request = NoRequest
    /\ txn = [phase |-> "idle", base |-> remote, tree |-> remote, onto |-> remote]
    /\ closed = [i \in Items |-> {}]
    /\ judged = {<<p, ContentHash(remote[p])>> : p \in Paths}
    /\ texts = 1
    /\ requests = 0
    /\ moves = 0

-----------------------------------------------------------------------------
(* Others push to the branch: auditors, people, the writer of another host. *)
Moved(p, c) ==
    /\ moves < MaxMoves
    /\ moves' = moves + 1
    /\ remote' = [remote EXCEPT ![p] = c]
    /\ UNCHANGED <<pulled, request, txn, closed, requests>>

OtherVerifies(p) ==
    /\ Live(remote[p])
    /\ Moved(p, [remote[p] EXCEPT !.verified = TRUE, !.status = "stable"])
    /\ judged' = judged \cup {<<p, ContentHash(remote[p])>>}
    /\ UNCHANGED texts

OtherDeprecates(p) ==
    /\ Live(remote[p])
    /\ Moved(p, [remote[p] EXCEPT !.status = "deprecated"])
    /\ UNCHANGED <<judged, texts>>

OtherDeletes(p) ==
    /\ Exists(remote[p])
    /\ Moved(p, Absent)
    /\ UNCHANGED <<judged, texts>>

OtherEdits(p) ==
    /\ texts < MaxTexts /\ texts' = texts + 1
    /\ remote[p].status # "deprecated"
    /\ \E t \in Titles :
          Moved(p, [remote[p] EXCEPT !.text = texts + 1, !.verified = FALSE,
                                     !.title = IF Exists(remote[p]) THEN @ ELSE t,
                                     !.status = IF Exists(remote[p]) THEN @ ELSE "draft"])
    /\ UNCHANGED judged

-----------------------------------------------------------------------------
(* The curator. *)
Pull ==
    /\ request = NoRequest /\ pulled # remote
    /\ pulled' = remote
    /\ UNCHANGED <<remote, request, txn, closed, judged, texts, requests, moves>>

(* A put is a whole file: it may drop what HEAD cites, and may forget to cite the packet. *)
Put(p, cites, keeps, t, l, text) ==
    [op |-> "put", base |-> ContentHash(pulled[p]), cites |-> cites, keeps |-> keeps, successor |-> None,
     title |-> IF Exists(pulled[p]) THEN pulled[p].title ELSE t, link |-> l, text |-> text]

Deprecate(p, s) ==
    [op |-> "deprecate", base |-> ContentHash(pulled[p]), cites |-> TRUE, keeps |-> TRUE, successor |-> s,
     title |-> pulled[p].title, link |-> pulled[p].link, text |-> texts + 1]

(* What the curator may decide for a file; "touch" sends it as it was pulled.   *)
Edits == [op : {"put"}, cites : BOOLEAN, keeps : BOOLEAN, title : Titles, link : Paths \cup {None}]
         \cup [op : {"touch"}] \cup [op : {"deprecate"}, successor : Paths]

CanEdit(p, e) == IF e.op = "put" THEN e.link # p ELSE Exists(pulled[p])

Entry(p, e) ==
    CASE e.op = "put"       -> Put(p, e.cites, e.keeps, e.title, e.link, texts + 1)
      [] e.op = "touch"     -> Put(p, TRUE, TRUE, pulled[p].title, pulled[p].link, pulled[p].text)
      [] e.op = "deprecate" -> Deprecate(p, e.successor)

(* What names evidence: each item's own file, and never a notice or a triage record alone. *)
Named(cited) == {f \in cited : f[2] = "evidence"}

(* check_request and build_packet: every item it closes brings evidence of its own. *)
CitedOwn(items, cited) ==
    /\ {f[1] : f \in cited} = items
    /\ {f[1] : f \in Named(cited)} = items

(* Any items, evidence and files; a packet that check_request turns away for its *)
(* evidence is tried with one file.                                             *)
Propose ==
    /\ request = NoRequest /\ txn.phase = "idle" /\ requests < MaxRequests
    /\ texts < MaxTexts
    /\ \E items \in (SUBSET Items) \ {{}}, paths \in (SUBSET Paths) \ {{}}, cited \in SUBSET Files :
          /\ \A i \in items : closed[i] = {}
          /\ CitedOwn(items, cited) \/ Cardinality(paths) = 1
          /\ \E edits \in [paths -> Edits] :
                /\ \A p \in paths : CanEdit(p, edits[p])
                /\ request' = [items |-> items, cited |-> cited, seen |-> pulled,
                               files |-> [p \in Paths |-> IF p \in paths THEN Entry(p, edits[p]) ELSE None]]
    /\ requests' = requests + 1
    /\ texts' = texts + 1
    /\ UNCHANGED <<remote, pulled, txn, closed, judged, moves>>

-----------------------------------------------------------------------------
(* The gate, on the tree the writer fetched. *)
Touched == {p \in Paths : request.files[p] # None}
Packet  == Named(request.cited)

(* G6: each file still is the one it was edited from, and none is retired. *)
Unchanged(tree) ==
    \A p \in Touched : request.files[p].base = ContentHash(tree[p]) /\ tree[p].status # "deprecated"

Noop(tree, p) ==
    request.files[p].op = "put" /\ request.files[p].text = tree[p].text
    /\ request.files[p].link = tree[p].link /\ request.files[p].title = tree[p].title
    /\ Packet \in tree[p].cites

(* The sources of HEAD the edit dropped are put back. *)
Cites(tree, p) == tree[p].cites \cup (IF request.files[p].cites THEN {Packet} ELSE {})

(* G8, G9: what the service stamps; a deprecation gets a dated note on its body. *)
Stamp(tree, p) ==
    LET f == request.files[p] IN
    [text     |-> f.text,
     title    |-> f.title,
     status   |-> IF f.op = "deprecate" THEN "deprecated" ELSE IF Exists(tree[p]) THEN tree[p].status ELSE "draft",
     verified |-> f.op = "put" /\ Noop(tree, p) /\ tree[p].verified,
     cites    |-> Cites(tree, p),
     link     |-> IF f.op = "deprecate" THEN f.successor ELSE f.link]

Applied(tree) == [p \in Paths |-> IF p \in Touched THEN Stamp(tree, p) ELSE tree[p]]

Written(tree) == {p \in Touched : ~Noop(tree, p)}

(* A successor is a live concept of the changeset or the tree, and not deprecated with it. *)
SuccessorsLive(tree) ==
    \A p \in Touched : request.files[p].op = "deprecate" =>
        LET s == request.files[p].successor IN
        /\ s # p /\ (s \in Touched => request.files[s].op = "put")
        /\ Live(tree[s]) \/ s \in Touched

NewTitles(tree) ==
    \A p \in Touched, q \in Paths :
        p # q /\ ~Exists(tree[p]) /\ Live(Applied(tree)[q]) => Applied(tree)[p].title # Applied(tree)[q].title

(* lint's high findings, of the files the changeset writes. *)
LinksResolve(tree, files) == \A p \in files : tree[p].link # None => Exists(tree[tree[p].link])

Admissible(tree) ==
    /\ Unchanged(tree) /\ SuccessorsLive(tree) /\ NewTitles(tree)
    /\ \A p \in Written(tree) : request.files[p].cites
    /\ LinksResolve(Applied(tree), Written(tree))

-----------------------------------------------------------------------------
(* The writer. *)
Answered == request' = NoRequest /\ txn' = Idle

(* G1 to G4, before a job exists. *)
Refuse ==
    /\ request # NoRequest /\ txn.phase = "idle" /\ ~CitedOwn(request.items, request.cited)
    /\ Answered
    /\ UNCHANGED <<remote, pulled, closed, judged, texts, requests, moves>>

Reject ==
    /\ request # NoRequest /\ txn.phase = "idle"
    /\ CitedOwn(request.items, request.cited) /\ ~Admissible(remote)
    /\ Answered
    /\ UNCHANGED <<remote, pulled, closed, judged, texts, requests, moves>>

Close == closed' = [i \in Items |-> IF i \in request.items THEN request.cited ELSE closed[i]]

NothingToWrite ==
    /\ request # NoRequest /\ txn.phase = "idle"
    /\ CitedOwn(request.items, request.cited) /\ Admissible(remote) /\ Written(remote) = {}
    /\ Close /\ Answered
    /\ UNCHANGED <<remote, pulled, judged, texts, requests, moves>>

Apply ==
    /\ request # NoRequest /\ txn.phase = "idle"
    /\ CitedOwn(request.items, request.cited) /\ Admissible(remote) /\ Written(remote) # {}
    /\ txn' = [phase |-> "committed", base |-> remote, tree |-> Applied(remote), onto |-> remote]
    /\ UNCHANGED <<remote, pulled, request, closed, judged, texts, requests, moves>>

Push ==
    /\ txn.phase = "committed" /\ remote = txn.onto
    /\ remote' = txn.tree
    /\ Close
    /\ request' = NoRequest
    /\ txn' = [phase |-> "idle", base |-> txn.tree, tree |-> txn.tree, onto |-> txn.tree]
    /\ UNCHANGED <<pulled, judged, texts, requests, moves>>

(* Git merges field by field; two changes of one field, or of lines too close, conflict. *)
Merge3(base, ours, theirs) == IF ours = base THEN theirs ELSE ours

Merged ==
    [p \in Paths |-> [f \in DOMAIN Absent |-> Merge3(txn.onto[p][f], txn.tree[p][f], remote[p][f])]]

Collide ==
    \E p \in Paths, f \in DOMAIN Absent :
        /\ txn.tree[p][f] # txn.onto[p][f] /\ remote[p][f] # txn.onto[p][f]
        /\ txn.tree[p][f] # remote[p][f]

MayCollide ==
    \E p \in Paths : txn.tree[p] # txn.onto[p] /\ remote[p] # txn.onto[p]

MovedContent == \E p \in Touched : ContentHash(remote[p]) # request.files[p].base

(* _changeset_conflicts: a file it writes holds the bytes it was stamped against. *)
MovedUpstream ==
    \E p \in Touched :
        IF p \in Written(txn.base) THEN remote[p] # txn.base[p] ELSE ContentHash(remote[p]) # request.files[p].base

(* _changeset_recheck: the links of the merged tree too. *)
Recheck == ~MovedUpstream /\ LinksResolve(Merged, Written(txn.base))

Rebase ==
    /\ txn.phase = "committed" /\ remote # txn.onto
    /\ ~Collide /\ Recheck
    /\ txn' = [txn EXCEPT !.tree = Merged, !.onto = remote]
    /\ UNCHANGED <<remote, pulled, request, closed, judged, texts, requests, moves>>

(* A 409: the transaction is rolled back and the curator pulls and applies its edit again. *)
Conflict ==
    /\ txn.phase = "committed" /\ remote # txn.onto
    /\ Collide \/ MayCollide \/ ~Recheck
    /\ Answered
    /\ UNCHANGED <<remote, pulled, closed, judged, texts, requests, moves>>

Next ==
    \/ \E p \in Paths : OtherVerifies(p) \/ OtherDeprecates(p) \/ OtherDeletes(p) \/ OtherEdits(p)
    \/ Pull
    \/ Propose
    \/ Refuse \/ Reject \/ NothingToWrite \/ Apply \/ Push \/ Rebase \/ Conflict

Spec == Init /\ [][Next]_vars

-----------------------------------------------------------------------------
ConceptOK(c) ==
    /\ c.text \in 0 .. MaxTexts /\ c.title \in Titles \cup {None}
    /\ c.status \in {"none", "draft", "stable", "deprecated"} /\ c.verified \in BOOLEAN
    /\ c.cites \subseteq Packets \cup {Earlier} /\ c.link \in Paths \cup {None}
    /\ Exists(c) <=> c.status # "none"

TypeOK ==
    /\ \A p \in Paths : ConceptOK(remote[p]) /\ ConceptOK(pulled[p]) /\ ConceptOK(txn.tree[p])
    /\ txn.phase \in {"idle", "committed"}
    /\ closed \in [Items -> SUBSET Files]

(* What is published as verified was verified as it stands: a verification pushed while a changeset
   was on its way never lands on the text the changeset writes. *)
VerifiedIsJudged == \A p \in Paths : remote[p].verified => <<p, ContentHash(remote[p])>> \in judged

(* A changeset overwrites only what its author had read, whatever was pushed since. *)
NoLostUpdate ==
    [][Push => \A p \in Touched :
         ContentHash(remote'[p]) # ContentHash(remote[p]) => ContentHash(remote[p]) = ContentHash(request.seen[p])]_vars

(* A retired concept is never brought back, nor edited, by a changeset written before it was. *)
RetiredStays ==
    [][Push => \A p \in Paths : remote[p].status = "deprecated" => remote'[p] = remote[p]]_vars

(* No changeset takes away what a concept cites. *)
SourcesKept == [][Push => \A p \in Paths : remote[p].cites \subseteq remote'[p].cites]_vars

(* What a changeset writes links what is there, also when the link's target went while it was
   on its way. *)
NoBrokenLink == [][Push => LinksResolve(remote', Written(txn.base))]_vars

(* An item is closed on evidence of its own. *)
ClosedOnEvidence == \A i \in Items : closed[i] # {} => <<i, "evidence">> \in closed[i]

(* What the gate admits fits the branch as it is when it is pushed: it undoes no edit, retirement,
   citation or link, keeps no verification of another text, and closes items on their evidence. *)
GateHolds ==
    /\ [](TypeOK /\ VerifiedIsJudged /\ ClosedOnEvidence)
    /\ NoLostUpdate /\ RetiredStays /\ SourcesKept /\ NoBrokenLink
=============================================================================
