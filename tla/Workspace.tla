----------------------------- MODULE Workspace -----------------------------
(***************************************************************************)
(* A maintainer's workspace: src/aiwiki/cli/workspace.py, and the verbs of *)
(* src/aiwiki/cli/maint.py that touch it.  An agent edits the concepts of  *)
(* the items its run holds, pulls what others publish, and proposes; the   *)
(* answer may be lost, the lease may be lost, and a pull may be cut short  *)
(* between any two files.  A changeset the agent gave up on may still be   *)
(* accepted and committed.                                                 *)
(*                                                                         *)
(* What a file holds is the edits that went into it and the stamp of the   *)
(* commit it was published by; a content hash does not see the stamp.      *)
(***************************************************************************)
EXTENDS Naturals, FiniteSets

CONSTANTS
    Paths,
    Items,
    MaxRev,      \* bound: commits
    MaxCuts,     \* bound: pulls cut short
    MaxSent      \* bound: changesets under way at once

ConstantsOK == MaxRev \in Nat \ {0} /\ MaxCuts \in Nat /\ MaxSent \in Nat \ {0}

VARIABLES
    published, rev,                \* the branch: a content for each path, and its revision
    queue,                         \* the work items on the writer
    lease,                         \* whether the run holds the maintainer lease
    local, mine,                   \* the workspace's files and their .mine copies
    base, hashes, discard,         \* .ai-wiki/base, and what workspace.json says
    pull,                          \* a pull on its way
    request,                       \* the changeset the agent waits for, and what became of it
    sent, queued,                  \* the changesets on their way to the writer, and in its queue
    ever,                          \* history: what the branch ever held of a path
    cuts,                          \* pulls cut short
    whole,                         \* history: the last pull was not cut short
    batched                        \* history: the run's last item was claimed for a batch

vars == <<published, rev, queue, lease, local, mine, base, hashes, discard, pull, request, sent, queued, ever,
          cuts, whole, batched>>
disk == <<local, mine, base, hashes, discard>>
history == <<cuts, whole, batched>>
branch == <<published, rev, ever>>
writer == <<branch, queue, lease>>
underway == <<sent, queued>>

NoFile == [of |-> {}, stamp |-> 0]
Hash(c) == c.of
Held == {i \in Items : queue[i] = "in_progress"}
NoPull == [stage |-> "none", new |-> [p \in Paths |-> NoFile], plan |-> [p \in Paths |-> "done"]]
NoChangeset == [paths |-> {}, put |-> [p \in Paths |-> {}], seen |-> [p \in Paths |-> {}], items |-> {},
                torn |-> FALSE]
NoRequest == [status |-> "none", changeset |-> NoChangeset]

Changed == {p \in Paths : local[p] # hashes[p]}
Conflicts == {p \in Paths : mine[p] # NoFile}

Init ==
    /\ published \in [Paths -> {NoFile, [of |-> {0}, stamp |-> 1]}]
    /\ rev = 1
    /\ queue = [i \in Items |-> "ready"]
    /\ lease = TRUE
    /\ local = published /\ base = published /\ hashes = published
    /\ mine = [p \in Paths |-> NoFile]
    /\ discard = [p \in Paths |-> NoFile]
    /\ pull = NoPull
    /\ request = NoRequest
    /\ sent = {} /\ queued = {}
    /\ ever = [p \in Paths |-> published[p].of]
    /\ cuts = 0 /\ whole = TRUE /\ batched = FALSE

Ready == pull.stage = "none" /\ request.status = "none"

(* Somebody else publishes an edit, or stamps the file and changes nothing a hash sees. *)
OtherPublishes(p) ==
    /\ rev < MaxRev
    /\ rev' = rev + 1
    /\ \E edit \in {{}, {rev + 1}} :
          /\ published' = [published EXCEPT ![p] = [of |-> @.of \cup edit, stamp |-> rev + 1]]
          /\ ever' = [ever EXCEPT ![p] = @ \cup edit]
    /\ UNCHANGED <<queue, lease, disk, pull, request, underway, history>>

-----------------------------------------------------------------------------
(* The agent writes an item's knowledge into one concept, with or without what a conflict set aside:
   and it may not know yet that the run has lost its lease. *)
Edit(i, p) ==
    /\ Ready /\ (i \in Held \/ ~lease) /\ \A q \in Paths : i \notin local[q].of
    /\ \E again \in {{}, mine[p].of} : local' = [local EXCEPT ![p].of = @ \cup {i} \cup again]
    /\ UNCHANGED <<writer, mine, base, hashes, discard, pull, request, underway, history>>

(* maint next: never beside changes, unless the run opens a batch. *)
NextItem(i, batch) ==
    /\ Ready /\ lease /\ queue[i] = "ready"
    /\ batch \/ (Changed = {} /\ Conflicts = {} /\ Held = {})
    /\ queue' = [queue EXCEPT ![i] = "in_progress"]
    /\ batched' = batch
    /\ UNCHANGED <<branch, lease, disk, pull, request, underway, cuts, whole>>

(* _reset: every change back to the base, .mine copies too. *)
ResetFiles ==
    /\ local' = [p \in Paths |-> IF p \in Changed THEN base[p] ELSE local[p]]
    /\ mine' = [p \in Paths |-> NoFile]

KeepFiles == UNCHANGED <<local, mine>>

(* maint skip, split or park: out of a batch, the other items' edits stay, and this one's with them.
   A parked item waits for the next run.  The verb may die before it resets the workspace. *)
Resolve(i, outcome) ==
    /\ Ready /\ i \in Held
    /\ queue' = [queue EXCEPT ![i] = outcome]
    /\ KeepFiles \/ (Held = {i} /\ ResetFiles)
    /\ UNCHANGED <<branch, lease, base, hashes, discard, pull, request, underway, history>>

(* Repeated, it finds the item resolved and only resets. *)
ResolveAgain ==
    /\ Ready /\ lease /\ Held = {} /\ \E i \in Items : queue[i] \in {"skipped", "parked"}
    /\ ResetFiles
    /\ UNCHANGED <<writer, base, hashes, discard, pull, request, underway, history>>

(* The lease runs out, or is released, and the items go back to the queue. *)
LeaseLost ==
    /\ lease
    /\ lease' = FALSE
    /\ queue' = [i \in Items |-> IF i \in Held THEN "ready" ELSE queue[i]]
    /\ UNCHANGED <<branch, disk, pull, request, underway, history>>

(* Taking the lease anew returns what was parked. *)
TakeLease ==
    /\ lease' = TRUE
    /\ queue' = [i \in Items |-> IF ~lease /\ queue[i] = "parked" THEN "ready" ELSE queue[i]]

BeginKeeps ==
    /\ Ready /\ TakeLease
    /\ KeepFiles
    /\ UNCHANGED <<branch, base, hashes, discard, pull, request, underway, history>>

(* maint begin again: the edits of items the writer took back go. *)
Begin ==
    /\ Ready /\ TakeLease
    /\ IF Held = {} THEN ResetFiles ELSE KeepFiles
    /\ UNCHANGED <<branch, base, hashes, discard, pull, request, underway, history>>

-----------------------------------------------------------------------------
(* workspace pull: what becomes of a file, of the one pulled before and the one on the branch now. *)

(* A path a changeset committed, whose bytes are still the committed ones. *)
Committed(p) == discard[p] # NoFile /\ discard[p] = local[p]

Edited(p, new) == local[p] # hashes[p] /\ ~Committed(p) /\ local[p] # new

(* A local edit of what the server left alone stays, and so does what nobody changed. *)
Kept(p, new) == hashes[p] = new /\ (Edited(p, new) \/ local[p] = hashes[p])

Plan(p, new) ==
    IF Committed(p) THEN "committed"
    ELSE IF Kept(p, new) THEN "done"
    ELSE IF Edited(p, new) THEN "conflict" ELSE "take"

(* With the base intact, no commit to note and nothing published since, the pull changes nothing. *)
UpToDate == published = hashes /\ base = hashes /\ \A p \in Paths : discard[p] = NoFile

Fetch ==
    /\ Ready /\ ~UpToDate
    /\ pull' = [stage |-> "files", new |-> published, plan |-> [p \in Paths |-> Plan(p, published[p])]]
    /\ UNCHANGED <<writer, disk, request, underway, history>>

(* A conflict sets the local version aside before the server's takes its place. *)
SetAside(p) ==
    /\ pull.stage = "files" /\ pull.plan[p] = "conflict"
    /\ mine' = [mine EXCEPT ![p] = IF local[p] # NoFile THEN local[p] ELSE @]
    /\ local' = [local EXCEPT ![p] = NoFile]
    /\ pull' = [pull EXCEPT !.plan[p] = "take"]
    /\ UNCHANGED <<writer, base, hashes, discard, request, underway, history>>

TakeServers(p) ==
    /\ pull.stage = "files" /\ pull.plan[p] \in {"take", "committed"}
    /\ local' = [local EXCEPT ![p] = pull.new[p]]
    /\ pull' = [pull EXCEPT !.plan[p] = IF @ = "committed" THEN "taken" ELSE "done"]
    /\ UNCHANGED <<writer, mine, base, hashes, discard, request, underway, history>>

(* The conflict a commit resolved: its .mine copy goes; then the base is replaced. *)
ReplaceBase ==
    /\ pull.stage = "files" /\ \A p \in Paths : pull.plan[p] \in {"done", "taken"}
    /\ mine' = [p \in Paths |-> IF pull.plan[p] = "taken" THEN NoFile ELSE mine[p]]
    /\ base' = pull.new
    /\ pull' = [pull EXCEPT !.stage = "state"]
    /\ UNCHANGED <<writer, local, hashes, discard, request, underway, history>>

SaveState ==
    /\ pull.stage = "state"
    /\ hashes' = pull.new
    /\ discard' = [p \in Paths |-> NoFile]
    /\ pull' = NoPull
    /\ whole' = TRUE
    /\ UNCHANGED <<writer, local, mine, base, request, underway, cuts, batched>>

Cut ==
    /\ pull.stage # "none" /\ cuts < MaxCuts
    /\ pull' = NoPull
    /\ cuts' = cuts + 1
    /\ whole' = FALSE
    /\ UNCHANGED <<writer, disk, request, underway, batched>>

-----------------------------------------------------------------------------
(* propose: every file that differs from what was pulled, whosever edits it holds, with the hash of its
   base, for the items the run holds.  A deletion the workspace's own judgement rejects.  Until the
   changeset is answered the agent waits. *)
Propose ==
    /\ Ready /\ Changed # {} /\ Held # {} /\ Cardinality(sent \cup queued) < MaxSent
    /\ \A p \in Changed : local[p] # NoFile
    /\ LET c == [paths |-> Changed, items |-> Held, torn |-> ~whole,
                 put |-> [p \in Paths |-> IF p \in Changed THEN local[p].of ELSE {}],
                 seen |-> [p \in Paths |-> IF p \in Changed THEN Hash(base[p]) ELSE {}]]
       IN  request' = [status |-> "sent", changeset |-> c] /\ sent' = sent \cup {c}
    /\ UNCHANGED <<writer, disk, pull, queued, history>>

Awaits(c) == request.status = "sent" /\ request.changeset = c
Answer(c, status) == request' = IF Awaits(c) THEN [request EXCEPT !.status = status] ELSE request

(* POST /changesets takes a changeset from a run that holds the lease, if none of its items is closed:
   the run need not hold them any more. *)
Accept(c) ==
    /\ c \in sent /\ lease /\ \A i \in c.items : queue[i] \notin {"curated", "skipped"}
    /\ sent' = sent \ {c} /\ queued' = queued \cup {c}
    /\ UNCHANGED <<writer, disk, pull, request, history>>

(* It refuses any other, and whatever its throttle or its rules of access do not let pass. *)
Refuse(c) ==
    /\ c \in sent
    /\ sent' = sent \ {c}
    /\ Answer(c, "refused")
    /\ UNCHANGED <<writer, disk, pull, queued, history>>

(* What the agent no longer sends again may never get there. *)
Vanish(c) ==
    /\ c \in sent /\ ~Awaits(c)
    /\ sent' = sent \ {c}
    /\ UNCHANGED <<writer, disk, pull, request, queued, history>>

CasHolds(c) == \A p \in c.paths : Hash(published[p]) = c.seen[p]

(* The writer's verdict, whether or not somebody still waits for it, and whoever holds the items: it
   closes them unless they are closed.  It may also reject what the gate does not take. *)
Commit(c) ==
    /\ c \in queued /\ CasHolds(c) /\ rev < MaxRev
    /\ rev' = rev + 1
    /\ published' = [p \in Paths |->
           IF p \in c.paths THEN [of |-> c.put[p], stamp |-> rev + 1] ELSE published[p]]
    /\ ever' = [p \in Paths |-> IF p \in c.paths THEN ever[p] \cup c.put[p] ELSE ever[p]]
    /\ queue' = [i \in Items |-> IF i \in c.items /\ queue[i] # "skipped" THEN "curated" ELSE queue[i]]
    /\ queued' = queued \ {c}
    /\ Answer(c, "done")
    /\ UNCHANGED <<lease, disk, pull, sent, history>>

Reject(c) ==
    /\ c \in queued
    /\ queued' = queued \ {c}
    /\ Answer(c, "refused")
    /\ UNCHANGED <<writer, disk, pull, sent, history>>

(* Exit 0: the committed bytes are noted, so that a later pull takes the server's. *)
NoteCommitted ==
    /\ request.status = "done"
    /\ discard' = [p \in Paths |-> IF p \in request.changeset.paths THEN local[p] ELSE discard[p]]
    /\ request' = NoRequest
    /\ UNCHANGED <<writer, local, mine, base, hashes, pull, underway, history>>

(* Exit 6 or 7: the edits stay where they are. *)
NoteRefused ==
    /\ request.status = "refused"
    /\ request' = NoRequest
    /\ UNCHANGED <<writer, disk, pull, underway, history>>

(* Exit 8, no final answer, whatever became of the changeset, which stays under way: the items the
   writer answers for are parked, and the files sent are put back. *)
GiveUp ==
    /\ request.status # "none"
    /\ \E parked \in SUBSET (request.changeset.items \cap Held) :
          queue' = [i \in Items |-> IF i \in parked THEN "parked" ELSE queue[i]]
    /\ local' = [p \in Paths |-> IF p \in request.changeset.paths THEN base[p] ELSE local[p]]
    /\ mine' = [p \in Paths |-> IF p \in request.changeset.paths THEN NoFile ELSE mine[p]]
    /\ request' = NoRequest
    /\ UNCHANGED <<branch, lease, base, hashes, discard, pull, underway, history>>

Next ==
    \/ \E p \in Paths : OtherPublishes(p) \/ SetAside(p) \/ TakeServers(p)
    \/ \E i \in Items : \/ \E outcome \in {"skipped", "parked"} : Resolve(i, outcome)
                        \/ \E p \in Paths : Edit(i, p)
                        \/ \E batch \in BOOLEAN : NextItem(i, batch)
    \/ ResolveAgain \/ LeaseLost \/ Begin
    \/ Fetch \/ ReplaceBase \/ SaveState \/ Cut
    \/ \E c \in sent \cup queued : Accept(c) \/ Refuse(c) \/ Vanish(c) \/ Commit(c) \/ Reject(c)
    \/ Propose \/ NoteCommitted \/ NoteRefused \/ GiveUp

Spec == Init /\ [][Next]_vars

-----------------------------------------------------------------------------
Edits == Items \cup (0 .. MaxRev)
Files == [of: SUBSET Edits, stamp: 0 .. MaxRev]
FilesOK(files) == \A p \in Paths : files[p].of \subseteq Edits /\ files[p].stamp \in 0 .. MaxRev

ChangesetOK(c) ==
    /\ c.paths \subseteq Paths /\ c.items \subseteq Items /\ c.torn \in BOOLEAN
    /\ \A p \in Paths : c.put[p] \subseteq Edits /\ c.seen[p] \subseteq Edits

TypeOK ==
    /\ FilesOK(published) /\ FilesOK(local) /\ FilesOK(mine) /\ FilesOK(base) /\ FilesOK(hashes) /\ FilesOK(discard)
    /\ queue \in [Items -> {"ready", "in_progress", "curated", "skipped", "parked"}]
    /\ pull.stage \in {"none", "files", "state"} 
    /\ pull.plan \in [Paths -> {"done", "taken", "committed", "conflict", "take"}]
    /\ request.status \in {"none", "sent", "done", "refused"} /\ ChangesetOK(request.changeset)
    /\ \A c \in sent \cup queued : ChangesetOK(c)
    /\ \A p \in Paths : ever[p] \subseteq Edits

(* What the branch holds of a path, nobody's changeset takes away: a put is of a file that was
   edited from it.  One proposed after a cut pull, before a whole one, may. *)
NothingOverwritten ==
    [][(\A p \in Paths : published[p].of \subseteq published'[p].of) \/ \E c \in queued \ queued' : c.torn]_vars

(* The agent has written into the file since it was pulled. *)
Touched(p) == ~(local[p].of \cap Items \subseteq hashes[p].of)

(* What a pull takes out of a file, or out of its .mine copy; but the copy of a path that was committed
   goes, and what the agent wrote since may be set aside in its place. *)
Lost(i, p) ==
    /\ i \in local[p].of \cup (IF pull.plan[p] = "taken" \/ Touched(p) THEN {} ELSE mine[p].of)
    /\ i \notin local'[p].of \cup mine'[p].of \cup ever'[p]

(* No pull loses an edit that is not published, unless the pull before it was cut short. *)
EditsKept == [][pull.stage # "none" /\ whole => \A i \in Items, p \in Paths : ~Lost(i, p)]_vars

(* "A local edit of a path the server changed too is moved to <path>.mine": after a cut, too. *)
EditsKeptAlways == [][pull.stage # "none" => \A i \in Items, p \in Paths : ~Lost(i, p)]_vars

(* The items whose unpublished edits a changeset carries. *)
Carried == {i \in Items : \E p \in request.changeset.paths : i \in local[p].of \ ever[p]}

(* A changeset never carries the edits of an item the writer took back with the lease, and none but
   those of the items it names while the run takes its items one by one. *)
OwnEditsOnly ==
    request.status = "sent" =>
        /\ lease => \A i \in Carried : queue[i] # "ready"
        /\ ~batched => Carried \subseteq request.changeset.items

(* maint.py: "its edits leave the workspace with it". *)
EditsLeaveWithItem == request.status = "sent" => \A i \in Carried : queue[i] \notin {"skipped", "parked"}

(* Edits are neither lost nor sent with the wrong item, nor do they undo another's. *)
WorkspaceFaithful == [](TypeOK /\ OwnEditsOnly) /\ NothingOverwritten /\ EditsKept
=============================================================================
