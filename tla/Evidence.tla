------------------------------ MODULE Evidence ------------------------------
(***************************************************************************)
(* The evidence of work items: src/aiwiki/service/maint_state.py           *)
(* (_enqueue, _split, add_file, _write_blobs), the part of that module     *)
(* MaintState leaves out.                                                  *)
(*                                                                         *)
(* One collected topic; a split gives each child a topic of its own, so a  *)
(* topic_key is the sequence of split indexes below the collected topic.   *)
(* A file is its name and the version its bytes are; a collector sends the *)
(* current version of some files.  Every writer holds _LOCK from its first *)
(* write to its last, which is `todo` and `parent`; readers do not.  A     *)
(* crash cuts the holder between two writes.  Of the item's status machine *)
(* only what guards evidence is kept: "waiting" is ready and parked.       *)
(***************************************************************************)
EXTENDS Naturals, FiniteSets, Sequences

CONSTANTS
    Names,          \* file names of the evidence
    NoItem,
    MaxChanges,     \* bound: changes of the collected files
    MaxBytes,       \* the caps of an item's evidence (MAX_FILES, MAX_BYTES)
    MaxCollections, \* bound: distinct collections
    MaxItems,       \* bound: items
    MaxDepth,       \* bound: splits below splits
    MaxCrashes,     \* bound: crashes
    TopicMayStay    \* whether a split names topics itself, and may keep its item's

ASSUME BoundsOK ==
    /\ IsFiniteSet(Names)
    /\ MaxChanges \in Nat /\ MaxBytes \in Nat /\ MaxCollections \in Nat
    /\ MaxItems \in Nat
    /\ MaxDepth \in Nat /\ MaxCrashes \in Nat /\ TopicMayStay \in BOOLEAN

VARIABLES
    source,    \* the current version of each file
    items,     \* the item.json records that exist, by item key
    blobs,     \* <<item, file>>: the bytes under items/<id>/files
    todo,      \* what the holder of _LOCK has still to enqueue
    parent,    \* the item it closes as split afterwards
    crashes

vars == <<source, items, blobs, todo, parent, crashes>>

Versions == 1..(MaxChanges + 1)
File    == [name: Names, version: Versions]
Topic   == UNION {[1..depth -> {1, 2}] : depth \in 0..MaxDepth}
(* item_key: the digest of the topic and the files' digests.  The id is cut from it. *)
ItemKey == [topic: Topic, files: SUBSET File]

ASSUME NoItemOK == NoItem \notin ItemKey

Item == [status: {"waiting", "in_progress", "closed", "split"},
         keys: SUBSET ItemKey,   \* item_key and those of versions
         files: SUBSET File,
         replaced: SUBSET File]  \* the files versions keep

Known      == DOMAIN items
With(i, s) == i \in Known /\ items[i].status = s
Held(i)    == items[i].files \cup items[i].replaced
NamesOf(fs) == {f.name : f \in fs}
BlobsOf(i, fs) == {<<i, f>> : f \in fs}
(* _fits.  A later version of a file is a larger one: version v has v bytes. *)
Bytes(fs)  == {fb \in fs \X Versions : fb[2] <= fb[1].version}
Fits(fs)   == Cardinality(Bytes(fs)) <= MaxBytes
(* The names in a list of files are distinct. *)
Distinct(fs) == \A f, g \in fs : f.name = g.name => f = g
Current    == {[name |-> n, version |-> source[n]] : n \in Names}
Collected  == {key \in UNION {items[i].keys : i \in Known} : key.topic = <<>>}
Unlocked   == todo = <<>> /\ parent = NoItem

-----------------------------------------------------------------------------
(* _enqueue: the item a collection or a child belongs to. *)

Owners(spec) == {i \in Known : spec \in items[i].keys}

(* Same-named files take the given bytes, the other files stay. *)
Merged(i, fs) == fs \cup {f \in items[i].files : f.name \notin NamesOf(fs)}

(* Mutant: a claimed item takes newer collections too. *)
TargetsClaimed(spec) ==
    {i \in Known : items[i].status \in {"waiting", "in_progress"} /\ i.topic = spec.topic
                       /\ Fits(Merged(i, spec.files))}

Targets(spec) ==
    {i \in Known : items[i].status = "waiting" /\ i.topic = spec.topic
                       /\ Fits(Merged(i, spec.files))}

Merge(i, spec) ==
    LET fs == Merged(i, spec.files) IN
    items' = [items EXCEPT ![i] = [status |-> @.status, keys |-> @.keys \cup {spec}, files |-> fs,
                                   replaced |-> @.replaced \cup (@.files \ fs)]]

Create(spec) ==
    Cardinality(Known) < MaxItems /\ items' = [i \in Known \cup {spec} |->
                  IF i = spec THEN [status |-> "waiting", keys |-> {spec},
                                    files |-> spec.files, replaced |-> {}]
                  ELSE items[i]]

Targetless(spec) == Owners(spec) = {} /\ Targets(spec) = {}

(* The item whose directory takes the blobs of a spec. *)
Homes(spec) ==
    IF Owners(spec) # {} THEN Owners(spec)
    ELSE IF Targets(spec) # {} THEN Targets(spec) ELSE {spec}

(* One spec enqueued: its blobs, then its record. *)
Place ==
    /\ todo # <<>>
    /\ LET spec == Head(todo) IN
       \E i \in Homes(spec) :
           /\ blobs' = blobs \cup BlobsOf(i, spec.files)
           /\ \/ i \in Owners(spec) /\ UNCHANGED items
              \/ Owners(spec) = {} /\ i \in Targets(spec) /\ Merge(i, spec)
              \/ Targetless(spec) /\ Create(spec)
    /\ todo' = Tail(todo)
    /\ UNCHANGED <<source, parent, crashes>>

(* The process dies: of the spec in hand some blobs are written, no record.  (A *)
(* directory without item.json is nobody's: a create writes its blobs anew.)    *)
Crash ==
    /\ ~Unlocked
    /\ crashes < MaxCrashes /\ crashes' = crashes + 1
    /\ \/ todo = <<>> /\ UNCHANGED blobs
       \/ /\ todo # <<>>
          /\ \E i \in Homes(Head(todo)), part \in SUBSET Head(todo).files :
                 blobs' = blobs \cup (IF i \in Known THEN BlobsOf(i, part) ELSE {})
    /\ todo' = <<>> /\ parent' = NoItem
    /\ UNCHANGED <<source, items>>

-----------------------------------------------------------------------------
(* The collected repositories and conversations change.  (While a writer works *)
(* that makes no difference to it: it has its bytes.)                          *)
Change(n) ==
    /\ Unlocked
    /\ source[n] <= MaxChanges
    /\ Cardinality({f \in File : 1 < f.version /\ f.version <= source[f.name]}) < MaxChanges
    /\ source' = [source EXCEPT ![n] = @ + 1]
    /\ UNCHANGED <<items, blobs, todo, parent, crashes>>

(* enqueue: current files, or a collection it took before (its answer was lost). *)
Enqueue(fs) ==
    /\ Unlocked
    /\ fs # {} /\ Fits(fs)
    /\ LET spec == [topic |-> <<>>, files |-> fs] IN
       /\ fs \subseteq Current \/ Owners(spec) # {}
       /\ Cardinality(Collected \cup {spec}) <= MaxCollections
       /\ todo' = <<spec>>
    /\ UNCHANGED <<source, items, blobs, parent, crashes>>

SetStatus(i, from, to) ==
    /\ Unlocked /\ i \in Known /\ items[i].status \in from
    /\ items' = [items EXCEPT ![i].status = to]
    /\ UNCHANGED <<source, blobs, todo, parent, crashes>>

(* next_item. *)
Claim(i) == SetStatus(i, {"waiting"}, "in_progress")

(* resolve parked, and the sweeps of acquire_lease and release_lease. *)
GiveBack(i) == SetStatus(i, {"in_progress"}, "waiting")

(* resolve with an outcome, close_curated, admin_resolve, needs_human. *)
Close(i) == SetStatus(i, {"waiting", "in_progress"}, "closed")

(* admin_retry and the other reopens. *)
Reopen(i) == SetStatus(i, {"closed"}, "waiting")

(* add_file: one more file for the run's item, under a name it does not have. *)
AddFile(i, f) ==
    /\ Unlocked /\ With(i, "in_progress")
    /\ f.name \notin NamesOf(items[i].files) /\ Fits(items[i].files \cup {f})
    /\ blobs' = blobs \cup BlobsOf(i, {f})
    /\ items' = [items EXCEPT ![i].files = @ \cup {f}]
    /\ UNCHANGED <<source, todo, parent, crashes>>

(* Mutant: the item is closed as split before its children are queued. *)
SplitCloseFirst(i, names) ==
    /\ Unlocked /\ With(i, "in_progress") /\ Len(i.topic) < MaxDepth
    /\ names # {} /\ names \subseteq NamesOf(items[i].files)
    /\ names # NamesOf(items[i].files)
    /\ LET part == {f \in items[i].files : f.name \in names}
       IN  todo' = << [topic |-> Append(i.topic, 1), files |-> part],
                      [topic |-> Append(i.topic, 2), files |-> items[i].files \ part] >>
    /\ parent' = i /\ items' = [items EXCEPT ![i].status = "split"]
    /\ UNCHANGED <<source, blobs, crashes>>

(* _split: two children that share out the names under topics of their own.  *)
Split(i, names) ==
    /\ Unlocked /\ With(i, "in_progress") /\ Len(i.topic) < MaxDepth
    /\ names # {} /\ names \subseteq NamesOf(items[i].files)
    /\ names # NamesOf(items[i].files)
    /\ \E topic \in {Append(i.topic, 1)} \cup (IF TopicMayStay THEN {i.topic} ELSE {}) :
           LET part == {f \in items[i].files : f.name \in names}
           IN  todo' = << [topic |-> topic, files |-> part],
                          [topic |-> Append(i.topic, 2), files |-> items[i].files \ part] >>
    /\ parent' = i
    /\ UNCHANGED <<source, items, blobs, crashes>>

(* resolve: the children are queued, their item is closed as split. *)
EndSplit ==
    /\ todo = <<>> /\ parent # NoItem
    /\ items' = [items EXCEPT ![parent].status = "split"]
    /\ parent' = NoItem
    /\ UNCHANGED <<source, blobs, todo, crashes>>

Init ==
    /\ source = [n \in Names |-> 1]
    /\ items = [i \in {} |-> NoItem] /\ blobs = {}
    /\ todo = <<>> /\ parent = NoItem
    /\ crashes = 0

Next ==
    \/ \E n \in Names : Change(n)
    \/ \E fs \in SUBSET File : Enqueue(fs)
    \/ Place \/ EndSplit \/ Crash
    \/ \E i \in Known :
           \/ Claim(i) \/ GiveBack(i) \/ Close(i) \/ Reopen(i)
           \/ \E f \in Current : AddFile(i, f)
           \/ \E names \in SUBSET Names : Split(i, names)

Spec == Init /\ [][Next]_vars

-----------------------------------------------------------------------------
(* Properties. *)

(* Every record has its shape: no item holds two files of one name, or more *)
(* than the caps allow.                                                     *)
TypeOK ==
    /\ source \in [Names -> Versions]
    /\ Known \subseteq ItemKey /\ items \in [Known -> Item]
    /\ \A i \in Known : Distinct(items[i].files) /\ Fits(items[i].files)
    /\ blobs \subseteq ItemKey \X File
    /\ todo \in Seq(ItemKey) /\ parent \in ItemKey \cup {NoItem}
    /\ crashes \in 0..MaxCrashes

(* "the item exists only once all of its evidence is durable": every file an    *)
(* item.json names, or keeps under versions, has its bytes, after any crash.    *)
EvidenceThere == \A i \in Known : BlobsOf(i, Held(i)) \subseteq blobs

(* "idempotent by item_key": a collection, and a split child, belongs to one    *)
(* item however often it is sent, and that item has each of its files, also     *)
(* those a later merge replaced.                                                *)
CollectionsKept ==
    /\ \A i, j \in Known : items[i].keys \cap items[j].keys # {} => i = j
    /\ \A i \in Known : \A key \in items[i].keys : key.files \subseteq Held(i)

(* A claimed item keeps the evidence its run fetched: newer collections go to   *)
(* another item, and the run itself can only add files.                         *)
ClaimedIsFrozen ==
    [][\A i \in Known :
           items[i].status = "in_progress" /\ items'[i].status = "in_progress" =>
               /\ items[i].files \subseteq items'[i].files
               /\ items'[i].replaced = items[i].replaced /\ items'[i].keys = items[i].keys]_vars

(* A later collection brought another version of the file. *)
Replaced(f) == \E i \in Known : f \in items[i].replaced

(* The item goes on with the file, or with what replaced it. *)
Carries(i, f) ==
    items[i].status # "split" /\ \E g \in items[i].files : g.name = f.name /\ (g = f \/ Replaced(f))

(* "a split can drop no evidence": each file of an item closed as split is in   *)
(* an item that is not, unless a later collection replaced it, and then that    *)
(* other version is, wherever a crash cut the split and however often its       *)
(* children are split again.                                                    *)
SplitDropsNothing ==
    \A i \in Known : items[i].status = "split" =>
        \A f \in items[i].files : \E j \in Known : Carries(j, f)

(* What was collected stays, in one item, however it is merged and split.       *)
EvidenceSound == TypeOK /\ EvidenceThere /\ CollectionsKept /\ SplitDropsNothing
=============================================================================
