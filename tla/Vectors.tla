------------------------------- MODULE Vectors -------------------------------
(***************************************************************************)
(* The vector store of semantic recall, src/aiwiki/service/vectors.py      *)
(* (Store, _Index): requests and the warmer ask for the index of the       *)
(* snapshot they hold, a background builder embeds what it lacks, a file   *)
(* keeps the vectors over restarts.  What runs under the store's lock is   *)
(* one step, except what readers look at without it.                       *)
(*                                                                         *)
(* A text is a chunk's embedding input, by its sha; a batch is one chunk.  *)
(* Left out: the vectors' numbers, the fusion of the two rankings, cached  *)
(* queries and the pause after a failed one (a request may always answer   *)
(* lexically).                                                             *)
(***************************************************************************)
EXTENDS Naturals, Sequences, FiniteSets

CONSTANTS
    Requests,    \* searches, and the warmer's passes
    Warmers,     \* the latter: they restart no builder that gave up
    Builders,    \* threads
    Content,     \* the texts of each snapshot of the bundle, one pulled after another
    Patience,    \* failures in a row after which a builder gives up
    MaxIndexes,  \* bound: index objects
    MaxFaults    \* bound: deaths, failures of the endpoint, of the disk

Snapshots == DOMAIN Content
Texts     == UNION {Content[s] : s \in Snapshots}

ConstantsOK == /\ Warmers \subseteq Requests /\ {MaxIndexes, MaxFaults, Patience} \subseteq Nat
               /\ Content \in Seq(SUBSET Texts) /\ Content # <<>> /\ Patience > 0

VARIABLES
    newest,    \* the bundle's snapshot
    indexes,   \* every _Index: its snapshot, the chunks pending, the vectors it has, its matrix
    current,   \* self.index; 0: none
    cache,     \* self.cache: the texts with a vector
    disk,      \* the lines of the file
    torn,      \* a death left half a line at its end
    temporary, \* the file a compaction writes
    building, gaveUp,
    request,   \* what each request is doing, and with which index
    builder,   \* what each thread is doing
    matrixLock,\* per index, who builds its matrix
    raced,     \* history: a file was written under a compaction, or not written at all
    faults

vars == <<newest, indexes, current, cache, disk, torn, temporary, building, gaveUp, request, builder,
          matrixLock, raced, faults>>

AtRest  == [step |-> "idle", snapshot |-> 0, index |-> 0]
Resting == [step |-> "off", index |-> 0, text |-> {}, failures |-> 0, keep |-> {}]
NoFile  == [there |-> FALSE, texts |-> {}]

Init ==
    /\ newest = 1 /\ indexes = <<>> /\ current = 0
    /\ cache = {} /\ disk = {} /\ torn = FALSE /\ temporary = NoFile
    /\ building = FALSE /\ gaveUp = FALSE
    /\ request = [r \in Requests |-> AtRest]
    /\ builder = [b \in Builders |-> Resting]
    /\ matrixLock = <<>>
    /\ raced = FALSE /\ faults = 0

Fault == faults < MaxFaults /\ faults' = faults + 1

Pull ==
    /\ newest < Len(Content) /\ newest' = newest + 1
    /\ UNCHANGED <<indexes, current, cache, disk, torn, temporary, building, gaveUp, request, builder,
                   matrixLock, raced, faults>>

-----------------------------------------------------------------------------
(* Requests. *)
Arrive(r) ==
    /\ request[r].step = "idle"
    /\ request' = [request EXCEPT ![r] = [step |-> "ensure", snapshot |-> newest, index |-> 0]]
    /\ UNCHANGED <<newest, indexes, current, cache, disk, torn, temporary, building, gaveUp, builder,
                   matrixLock, raced, faults>>

NewIndex(s) == [snapshot |-> s, pending |-> Content[s] \ cache, vectors |-> Content[s] \cap cache,
                matrix |-> "none"]

(* One builder at a time. *)
Starts(index, r) == index.pending # {} /\ ~building /\ (r \notin Warmers \/ ~gaveUp)

(* ensure: the index of another snapshot than the last one is a new one. *)
Ensure(r) ==
    /\ request[r].step = "ensure"
    /\ LET s     == request[r].snapshot
           known == current # 0 /\ indexes[current].snapshot = s
           index == IF known THEN indexes[current] ELSE NewIndex(s)
           i     == IF known THEN current ELSE Len(indexes) + 1
       IN /\ i <= MaxIndexes
          /\ indexes' = IF known THEN indexes ELSE Append(indexes, index)
          /\ matrixLock' = IF known THEN matrixLock ELSE Append(matrixLock, {})
          /\ current' = i
          /\ request' = [request EXCEPT ![r] =
                            [@ EXCEPT !.index = i, !.step = IF r \in Warmers THEN "idle" ELSE "rank"]]
          /\ IF Starts(index, r)
             THEN \E b \in Builders :
                     /\ builder[b].step = "off"
                     /\ builder' = [builder EXCEPT ![b].step = "next"]
                     /\ building' = TRUE /\ gaveUp' = FALSE
             ELSE UNCHANGED <<builder, building, gaveUp>>
    /\ UNCHANGED <<newest, cache, disk, torn, temporary, raced, faults>>

Of(r) == indexes[request[r].index]

RequestTo(r, step) == request' = [request EXCEPT ![r].step = step]

(* rank, without the lock: lexical while a chunk is pending, or the query has no vector. *)
Rank(r) ==
    /\ request[r].step = "rank"
    /\ \/ RequestTo(r, "lexical")
       \/ Of(r).pending = {} /\ RequestTo(r, IF Of(r).matrix = "ready" THEN "hybrid" ELSE "matrix")
    /\ UNCHANGED <<newest, indexes, current, cache, disk, torn, temporary, building, gaveUp, builder,
                   matrixLock, raced, faults>>

(* ready_matrix: one request builds it, the others wait for it. *)
LockMatrix(r) ==
    /\ request[r].step = "matrix" /\ matrixLock[request[r].index] = {}
    /\ matrixLock' = [matrixLock EXCEPT ![request[r].index] = {r}]
    /\ RequestTo(r, IF Of(r).matrix = "ready" THEN "unlock" ELSE "owners")
    /\ UNCHANGED <<newest, indexes, current, cache, disk, torn, temporary, building, gaveUp, builder,
                   raced, faults>>

MatrixTo(r, matrix) == indexes' = [indexes EXCEPT ![request[r].index].matrix = matrix]

(* Whose the rows are comes before the rows, which a reader tests without the lock. *)
SetOwners(r) ==
    /\ request[r].step = "owners"
    /\ MatrixTo(r, "owners") /\ RequestTo(r, "rows")
    /\ UNCHANGED <<newest, current, cache, disk, torn, temporary, building, gaveUp, builder, matrixLock,
                   raced, faults>>

SetMatrix(r) ==
    /\ request[r].step = "rows"
    /\ MatrixTo(r, "ready") /\ RequestTo(r, "unlock")
    /\ UNCHANGED <<newest, current, cache, disk, torn, temporary, building, gaveUp, builder, matrixLock,
                   raced, faults>>

UnlockMatrix(r) ==
    /\ request[r].step = "unlock"
    /\ matrixLock' = [matrixLock EXCEPT ![request[r].index] = {}]
    /\ RequestTo(r, "hybrid")
    /\ UNCHANGED <<newest, indexes, current, cache, disk, torn, temporary, building, gaveUp, builder,
                   raced, faults>>

Answer(r) ==
    /\ request[r].step \in {"lexical", "hybrid"}
    /\ request' = [request EXCEPT ![r] = AtRest]
    /\ UNCHANGED <<newest, indexes, current, cache, disk, torn, temporary, building, gaveUp, builder,
                   matrixLock, raced, faults>>

-----------------------------------------------------------------------------
(* The builder. *)
Looping == {"next", "embed", "vector", "leave", "append", "done", "end"}
BuilderTo(b, step) == builder' = [builder EXCEPT ![b].step = step]

(* _next_batch: of the newest index; what the cache has meanwhile is filled in. *)
NextBatch(b) ==
    /\ builder[b].step = "next"
    /\ LET i == current
           rest == indexes[i].pending \ cache
           had  == indexes[i].pending \cap cache
       IN /\ indexes' = [indexes EXCEPT ![i] = [@ EXCEPT !.pending = rest, !.vectors = indexes[i].vectors \cup had]]
          /\ \/ rest = {} /\ builder' = [builder EXCEPT ![b] = [@ EXCEPT !.step = "done", !.text = {}]]
             \/ \E t \in rest :
                   builder' = [builder EXCEPT ![b] = [@ EXCEPT !.step = "embed", !.index = i, !.text = {t}]]
    /\ UNCHANGED <<newest, current, cache, disk, torn, temporary, building, gaveUp, request, matrixLock,
                   raced, faults>>

(* Which index it completed is read afterwards: it may have a newer one with chunks pending. *)
DoneFor(b) ==
    /\ builder[b].step = "done"
    /\ builder' = [builder EXCEPT ![b] = [@ EXCEPT !.step = "end", !.index = current]]
    /\ UNCHANGED <<newest, indexes, current, cache, disk, torn, temporary, building, gaveUp, request, matrixLock,
                   raced, faults>>

Embed(b) ==
    /\ builder[b].step = "embed"
    /\ builder' = [builder EXCEPT ![b] = [@ EXCEPT !.step = "vector", !.failures = 0]]
    /\ UNCHANGED <<newest, indexes, current, cache, disk, torn, temporary, building, gaveUp, request,
                   matrixLock, raced, faults>>

(* The endpoint fails; after some failures in a row the builder gives up, without the lock. *)
EmbedFails(b) ==
    /\ builder[b].step = "embed" /\ Fault
    /\ LET failed == builder[b].failures + 1
       IN IF failed >= Patience
          THEN gaveUp' = TRUE /\ builder' = [builder EXCEPT ![b] = [@ EXCEPT !.failures = failed, !.index = 0, !.step = "end"]]
          ELSE UNCHANGED gaveUp /\ builder' = [builder EXCEPT ![b] = [@ EXCEPT !.failures = failed, !.step = "next"]]
    /\ UNCHANGED <<newest, indexes, current, cache, disk, torn, temporary, building, request, matrixLock, raced>>

Vector(b)  == indexes' = [indexes EXCEPT ![builder[b].index].vectors = @ \cup builder[b].text]
Pending(b) == indexes' = [indexes EXCEPT ![builder[b].index].pending = @ \ builder[b].text]

SetVectorLate(b) == IF builder[b].step = "vector" THEN Pending(b) ELSE Vector(b)

(* The vector is there before the chunk leaves pending, which is what a reader tests. *)
SetVector(b) == IF builder[b].step = "vector" THEN Vector(b) ELSE Pending(b)

StoreVector(b) ==
    /\ builder[b].step = "vector"
    /\ cache' = cache \cup builder[b].text
    /\ SetVector(b) /\ BuilderTo(b, "leave")
    /\ UNCHANGED <<newest, current, disk, torn, temporary, building, gaveUp, request, matrixLock, raced, faults>>

LeavePending(b) ==
    /\ builder[b].step = "leave"
    /\ SetVector(b) /\ BuilderTo(b, "append")
    /\ UNCHANGED <<newest, current, cache, disk, torn, temporary, building, gaveUp, request, matrixLock,
                   raced, faults>>

Compacting == {b \in Builders : builder[b].step \in {"write", "replace"}}

(* _append: a row after half a line is lost with it. *)
AppendRow(b) ==
    /\ builder[b].step = "append"
    /\ BuilderTo(b, "next")
    /\ \/ /\ disk' = IF torn THEN disk ELSE disk \cup builder[b].text
          /\ torn' = FALSE
          /\ raced' = (raced \/ torn \/ Compacting # {})
          /\ UNCHANGED faults
       \/ Fault /\ raced' = TRUE /\ UNCHANGED <<disk, torn>>
    /\ UNCHANGED <<newest, indexes, current, cache, temporary, building, gaveUp, request, matrixLock>>

(* The end of _build: the flag first, then the compaction of the index it completed. *)
EndBuild(b) ==
    /\ builder[b].step = "end"
    /\ building' = FALSE
    /\ LET i == builder[b].index
       IN builder' = IF i # 0 /\ indexes[i].pending = {} THEN [builder EXCEPT ![b].step = "keep"]
                     ELSE [builder EXCEPT ![b] = Resting]
    /\ UNCHANGED <<newest, indexes, current, cache, disk, torn, temporary, gaveUp, request, matrixLock,
                   raced, faults>>

(* An index that is not the current one any more is not compacted to. *)
Keeps(b) == builder[b].index = current

Keep(b) ==
    /\ builder[b].step = "keep"
    /\ LET keep == Content[indexes[builder[b].index].snapshot] \cap cache
       IN IF Keeps(b)
          THEN /\ cache' = keep
               /\ builder' = [builder EXCEPT ![b] = [@ EXCEPT !.step = "write", !.keep = keep]]
               /\ raced' = (raced \/ Compacting # {})
          ELSE builder' = [builder EXCEPT ![b] = Resting] /\ UNCHANGED <<cache, raced>>
    /\ UNCHANGED <<newest, indexes, current, disk, torn, temporary, building, gaveUp, request, matrixLock, faults>>

WriteTemporary(b) ==
    /\ builder[b].step = "write"
    /\ \/ /\ temporary' = [there |-> TRUE, texts |-> builder[b].keep]
          /\ BuilderTo(b, "replace")
          /\ UNCHANGED <<faults, raced>>
       \/ Fault /\ raced' = TRUE /\ builder' = [builder EXCEPT ![b] = Resting] /\ UNCHANGED temporary
    /\ UNCHANGED <<newest, indexes, current, cache, disk, torn, building, gaveUp, request, matrixLock>>

Replace(b) ==
    /\ builder[b].step = "replace"
    /\ IF temporary.there THEN disk' = temporary.texts /\ torn' = FALSE ELSE UNCHANGED <<disk, torn>>
    /\ temporary' = NoFile
    /\ builder' = [builder EXCEPT ![b] = Resting]
    /\ UNCHANGED <<newest, indexes, current, cache, building, gaveUp, request, matrixLock, raced, faults>>

(* The service dies, an append half done or not, and the file is loaded. *)
Restart ==
    /\ Fault
    /\ torn' \in {torn, torn \/ \E b \in Builders : builder[b].step = "append"}
    /\ cache' = disk
    /\ indexes' = <<>> /\ current' = 0 /\ matrixLock' = <<>>
    /\ building' = FALSE /\ gaveUp' = FALSE
    /\ request' = [r \in Requests |-> AtRest] /\ builder' = [b \in Builders |-> Resting]
    /\ raced' = FALSE
    /\ UNCHANGED <<newest, disk, temporary>>

Next ==
    \/ Pull \/ Restart
    \/ \E r \in Requests :
         \/ Arrive(r) \/ Ensure(r) \/ Rank(r) \/ Answer(r)
         \/ LockMatrix(r) \/ SetOwners(r) \/ SetMatrix(r) \/ UnlockMatrix(r)
    \/ \E b \in Builders :
         \/ NextBatch(b) \/ DoneFor(b) \/ Embed(b) \/ EmbedFails(b) \/ StoreVector(b) \/ LeavePending(b) \/ AppendRow(b)
         \/ EndBuild(b) \/ Keep(b) \/ WriteTemporary(b) \/ Replace(b)

Spec == Init /\ [][Next]_vars

-----------------------------------------------------------------------------
Ids == 1..MaxIndexes

(* The type of every variable. *)
TypeOK ==
    /\ newest \in Snapshots /\ current \in 0..Len(indexes) /\ Len(indexes) <= MaxIndexes
    /\ Len(matrixLock) = Len(indexes)
    /\ \A i \in DOMAIN indexes :
         /\ indexes[i] \in [snapshot: Snapshots, pending: SUBSET Texts, vectors: SUBSET Texts,
                            matrix: {"none", "owners", "ready"}]
         /\ matrixLock[i] \subseteq Requests
    /\ {cache, disk} \subseteq SUBSET Texts
    /\ temporary \in [there: BOOLEAN, texts: SUBSET Texts]
    /\ {torn, building, gaveUp, raced} \subseteq BOOLEAN
    /\ request \in [Requests -> [snapshot: 0..Len(Content), index: Ids \cup {0},
                       step: {"idle", "ensure", "rank", "matrix", "owners", "rows", "unlock", "lexical", "hybrid"}]]
    /\ builder \in [Builders -> [index: Ids \cup {0}, text: SUBSET Texts, failures: 0..Patience, keep: SUBSET Texts,
                       step: Looping \cup {"off", "keep", "write", "replace"}]]
    /\ faults \in 0..MaxFaults

(* A search that answers by meaning ranks every chunk of its snapshot, each by a vector and its
   concept, however far the builder was when it looked. *)
AnswersWhole ==
    \A r \in Requests :
       request[r].step \in {"matrix", "owners", "rows", "unlock", "hybrid"} =>
          /\ Of(r).vectors = Content[Of(r).snapshot]
          /\ request[r].step = "hybrid" => Of(r).matrix = "ready"

(* At most one thread embeds, and while the store says that it builds one does: no pull embeds
   a chunk twice, and no search stays lexical for a builder that is gone. *)
OneBuilder ==
    LET looping == {b \in Builders : builder[b].step \in Looping}
    IN Cardinality(looping) <= 1 /\ (building <=> looping # {})

(* A compaction never takes away what the current index has: its vectors are in the cache, and in
   the file once nothing runs, unless the file was written under a compaction or not at all. *)
CurrentIsKept ==
    current # 0 =>
       LET index == indexes[current]
       IN /\ index.vectors \subseteq cache
          /\ (index.pending = {} /\ ~raced /\ \A b \in Builders : builder[b].step = "off")
                => index.vectors \subseteq disk

(* The store answers by meaning only with a whole index, builds once and keeps what it built. *)
RecallWhole == TypeOK /\ AnswersWhole /\ OneBuilder /\ CurrentIsKept
=============================================================================
