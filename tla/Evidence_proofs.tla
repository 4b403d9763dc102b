--------------------------- MODULE Evidence_proofs ---------------------------
(***************************************************************************)
(* Proofs about Evidence, for any names, caps, collections, depth of       *)
(* splits and crashes: no record without its bytes, one item per           *)
(* collection, claimed evidence stands still, and a split drops nothing.   *)
(***************************************************************************)
EXTENDS MCEvidence, FiniteSetTheorems, SequenceTheorems, TLAPS

(* A record of item i whose evidence is in bs. *)
Sound(i, r, bs) ==
    /\ r \in Item
    /\ Distinct(r.files) /\ Fits(r.files)
    /\ NamesOf(r.replaced) \subseteq NamesOf(r.files)
    /\ BlobsOf(i, r.files \cup r.replaced) \subseteq bs
    /\ i \in r.keys
    /\ \A key \in r.keys :
           /\ key.topic = i.topic /\ Distinct(key.files) /\ Fits(key.files)
           /\ key.files \subseteq r.files \cup r.replaced

(* The variables besides the records. *)
Shape ==
    /\ source \in [Names -> Versions]
    /\ Known \subseteq ItemKey /\ items = [i \in Known |-> items[i]]
    /\ blobs \subseteq ItemKey \X File
    /\ todo \in Seq(ItemKey) /\ parent \in ItemKey \cup {NoItem}
    /\ crashes \in 0..MaxCrashes

Records == \A i \in Known : Sound(i, items[i], blobs)

Apart == \A i, j \in Known : items[i].keys \cap items[j].keys # {} => i = j

(* What is still to be enqueued could be a record. *)
Handing ==
    /\ \A k \in 1..Len(todo) : Distinct(todo[k].files) /\ Fits(todo[k].files)
    /\ parent # NoItem => With(parent, "in_progress")

EvidenceInv == Shape /\ Records /\ Apart /\ Handing

(* A file goes on below a topic. *)
CarriedBelow(f, topic) == \E j \in Known : Len(j.topic) > Len(topic) /\ Carries(j, f)

(* Each file of a split item goes on below it. *)
SplitsOnly ==
    \A i \in Known : items[i].status = "split" =>
        \A f \in items[i].files : CarriedBelow(f, i.topic)

(* And each file of the item that is being split is below it, or in a child that is still to be enqueued. *)
SplitInv ==
    /\ SplitsOnly
    /\ parent # NoItem =>
           /\ \A k \in 1..Len(todo) : Len(todo[k].topic) > Len(parent.topic)
           /\ \A f \in items[parent].files :
                  (\E k \in 1..Len(todo) : f \in todo[k].files) \/ CarriedBelow(f, parent.topic)

-----------------------------------------------------------------------------
(* Finitely many files and versions: there are finitely many names. *)
LEMMA FileIsFinite == IsFiniteSet(File) /\ IsFiniteSet(Versions)
<1>1. IsFiniteSet(Versions)
  <2>1. MaxChanges + 1 \in Int  BY BoundsOK
  <2> QED  BY <2>1, FS_Interval DEF Versions
<1>2. IsFiniteSet(Names \X Versions)  BY <1>1, BoundsOK, FS_Product
<1> DEFINE pairs == Names \X Versions
           made == [p \in pairs |-> [name |-> p[1], version |-> p[2]]]
<1>3. made \in Surjection(pairs, File)
  <2>1. made \in [pairs -> File]  BY DEF File
  <2>2. ASSUME NEW f \in File  PROVE \E p \in pairs : made[p] = f
    <3>1. <<f.name, f.version>> \in pairs  BY DEF File
    <3>2. made[<<f.name, f.version>>] = f  BY <3>1 DEF File
    <3> QED  BY <3>1, <3>2
  <2> QED  BY <2>1, <2>2 DEF Surjection
<1>4. IsFiniteSet(File)  BY <1>2, <1>3, FS_Surjection
<1> QED  BY <1>1, <1>4

(* Fewer files fit where all of them did (_fits). *)
LEMMA SubsetFits == ASSUME NEW fs \in SUBSET File, NEW gs \in SUBSET fs, Fits(fs)  PROVE Fits(gs)
<1>1. IsFiniteSet(File \X Versions)  BY FileIsFinite, FS_Product
<1>2. Bytes(fs) \in SUBSET (File \X Versions)  BY DEF Bytes
<1>3. IsFiniteSet(Bytes(fs))  BY <1>1, <1>2, FS_Subset
<1>4. Bytes(gs) \in SUBSET Bytes(fs)  BY DEF Bytes
<1>5. IsFiniteSet(Bytes(gs)) /\ Cardinality(Bytes(gs)) <= Cardinality(Bytes(fs))  BY <1>3, <1>4, FS_Subset
<1>6. Cardinality(Bytes(gs)) \in Nat /\ Cardinality(Bytes(fs)) \in Nat  BY <1>3, <1>5, FS_CardinalityType
<1> QED  BY <1>5, <1>6, BoundsOK DEF Fits

(* A split child's own topic is a topic, longer than its parent's. *)
LEMMA ChildTopic ==
    ASSUME NEW topic \in Topic, Len(topic) < MaxDepth, NEW k \in {1, 2}
    PROVE  Append(topic, k) \in Topic /\ Len(Append(topic, k)) > Len(topic)
<1>1. topic \in Seq({1, 2}) /\ Len(topic) \in Nat
  <2>1. PICK depth \in 0..MaxDepth : topic \in [1..depth -> {1, 2}]  BY DEF Topic
  <2>2. depth \in Nat  BY BoundsOK
  <2> QED  BY <2>1, <2>2
<1>2. /\ Append(topic, k) \in Seq({1, 2})
      /\ Len(Append(topic, k)) = Len(topic) + 1  BY <1>1, AppendProperties
<1>3. Append(topic, k) \in [1..(Len(topic) + 1) -> {1, 2}]
  BY <1>2, LenProperties
<1>4. Len(topic) + 1 \in 0..MaxDepth  BY <1>1, BoundsOK
<1> QED  BY <1>1, <1>2, <1>3, <1>4 DEF Topic

(* Topics have lengths. *)
LEMMA TopicLength == \A topic \in Topic : Len(topic) \in Nat
<1> TAKE topic \in Topic
<1>1. PICK depth \in 0..MaxDepth : topic \in [1..depth -> {1, 2}]  BY DEF Topic
<1>2. depth \in Nat  BY BoundsOK
<1> QED  BY <1>1, <1>2

-----------------------------------------------------------------------------
(* One record is written, over its old one or as a new item. *)
Written(i, r) == items' = [j \in Known \cup {i} |-> IF j = i THEN r ELSE items[j]]

(* A record is not harmed by more blobs. *)
LEMMA SoundStays ==
    ASSUME NEW i, NEW r, NEW bs, NEW more, bs \subseteq more, Sound(i, r, bs)
    PROVE  Sound(i, r, more)
BY DEF Sound

(* Nor are all of them, when none is written. *)
LEMMA RecordsStay ==
    ASSUME EvidenceInv, UNCHANGED items, blobs \subseteq blobs'
    PROVE  Records' /\ Apart'
<1>1. Records'
  <2> SUFFICES ASSUME NEW j \in Known'  PROVE Sound(j, items'[j], blobs')
    BY DEF Records
  <2>1. Sound(j, items'[j], blobs)  BY DEF EvidenceInv, Records, Known
  <2> QED  BY <2>1, SoundStays
<1>2. Apart'  BY DEF EvidenceInv, Apart, Known
<1> QED  BY <1>1, <1>2

(* Writing one sound record, with keys no other record has, keeps all records sound. *)
LEMMA WriteKeeps ==
    ASSUME EvidenceInv, NEW i \in ItemKey, NEW r, Written(i, r),
           blobs \subseteq blobs', Sound(i, r, blobs'),
           \A j \in Known : j # i => items[j].keys \cap r.keys = {}
    PROVE  /\ Records' /\ Apart'
           /\ Known' = Known \cup {i} /\ Known' \subseteq ItemKey /\ items' = [j \in Known' |-> items'[j]]
<1>1. /\ Known' = Known \cup {i} /\ items' = [j \in Known' |-> items'[j]]
      /\ items'[i] = r /\ \A j \in Known : j # i => items'[j] = items[j]
  BY DEF Written, Known
<1>2. Known' \subseteq ItemKey  BY <1>1 DEF EvidenceInv, Shape
<1>3. Records'
  <2> SUFFICES ASSUME NEW j \in Known'  PROVE Sound(j, items'[j], blobs')
    BY DEF Records
  <2>1. CASE j = i  BY <2>1, <1>1
  <2>2. CASE j # i
    <3>1. j \in Known /\ Sound(j, items[j], blobs)  BY <2>2, <1>1 DEF EvidenceInv, Records
    <3>2. Sound(j, items[j], blobs')  BY <3>1, SoundStays
    <3> QED  BY <3>1, <3>2, <2>2, <1>1
  <2> QED  BY <2>1, <2>2
<1>4. Apart'
  <2> SUFFICES ASSUME NEW j \in Known', NEW k \in Known', items'[j].keys \cap items'[k].keys # {}
               PROVE  j = k
    BY DEF Apart
  <2>1. CASE j # i /\ k # i  BY <2>1, <1>1 DEF EvidenceInv, Apart
  <2>2. CASE j = i \/ k = i  BY <2>2, <1>1
  <2> QED  BY <2>1, <2>2
<1> QED  BY <1>1, <1>2, <1>3, <1>4

(* A new status keeps the evidence as it is. *)
LEMMA StatusKeeps ==
    ASSUME EvidenceInv, NEW i \in Known, NEW status \in {"waiting", "in_progress", "closed", "split"},
           items' = [items EXCEPT ![i].status = status], UNCHANGED blobs
    PROVE  /\ Records' /\ Apart'
           /\ Known' = Known /\ items' = [j \in Known' |-> items'[j]]
<1> DEFINE r == [items[i] EXCEPT !.status = status]
<1>1. i \in ItemKey /\ Sound(i, items[i], blobs)  BY DEF EvidenceInv, Shape, Records
<1>2. items[i] \in Item  BY <1>1 DEF Sound
<1>3. /\ r \in Item /\ r.keys = items[i].keys
      /\ r.files = items[i].files /\ r.replaced = items[i].replaced  BY <1>2 DEF Item
<1>4. Sound(i, r, blobs')  BY <1>1, <1>3 DEF Sound
<1>5. Written(i, r)  BY DEF Written, Known
<1>6. \A j \in Known : j # i => items[j].keys \cap r.keys = {}  BY <1>3 DEF EvidenceInv, Apart
<1>7. blobs \subseteq blobs'  OBVIOUS
<1>8. Known \cup {i} = Known  OBVIOUS
<1> HIDE DEF r
<1>9. Records' /\ Apart' /\ Known' = Known \cup {i} /\ items' = [j \in Known' |-> items'[j]]
  BY <1>1, <1>4, <1>5, <1>6, <1>7, WriteKeeps
<1> QED  BY <1>8, <1>9

-----------------------------------------------------------------------------
(* The record of an enqueued spec. *)

(* The next spec to be enqueued, and the rest. *)
LEMMA HeadIsKey ==
    ASSUME EvidenceInv, todo # <<>>
    PROVE  /\ Head(todo) \in ItemKey /\ Distinct(Head(todo).files) /\ Fits(Head(todo).files)
           /\ Head(todo) = todo[1] /\ 1 \in 1..Len(todo)
           /\ Tail(todo) \in Seq(ItemKey) /\ Len(Tail(todo)) = Len(todo) - 1
           /\ \A k \in 1..Len(Tail(todo)) : k + 1 \in 1..Len(todo) /\ Tail(todo)[k] = todo[k + 1]
<1>1. todo \in Seq(ItemKey)  BY DEF EvidenceInv, Shape
<1>2. Len(todo) \in Nat /\ Len(todo) # 0  BY <1>1
<1>3. Head(todo) = todo[1] /\ 1 \in 1..Len(todo) /\ todo[1] \in ItemKey  BY <1>1, <1>2
<1>4. Tail(todo) \in Seq(ItemKey) /\ Len(Tail(todo)) = Len(todo) - 1  BY <1>1
<1>5. \A k \in 1..Len(Tail(todo)) : k + 1 \in 1..Len(todo) /\ Tail(todo)[k] = todo[k + 1]
  BY <1>1, <1>2, <1>4
<1>6. Distinct(Head(todo).files) /\ Fits(Head(todo).files)  BY <1>3 DEF EvidenceInv, Handing
<1> QED  BY <1>3, <1>4, <1>5, <1>6

(* What a merge leaves of an item. *)
MergedRecord(i, spec) ==
    [status |-> items[i].status, keys |-> items[i].keys \cup {spec}, files |-> Merged(i, spec.files),
     replaced |-> items[i].replaced \cup (items[i].files \ Merged(i, spec.files))]

(* Merge writes the merged record. *)
LEMMA MergeWrites ==
    ASSUME EvidenceInv, NEW spec \in ItemKey, NEW i \in Known, Merge(i, spec)
    PROVE  Written(i, MergedRecord(i, spec))
<1>1. items' = [items EXCEPT ![i] = MergedRecord(i, spec)]  BY DEF Merge, MergedRecord
<1>2. items = [j \in Known |-> items[j]]  BY DEF EvidenceInv, Shape
<1> QED  BY <1>1, <1>2 DEF Written

(* A merged record is sound once the blobs of the collection are written (_enqueue). *)
LEMMA MergeSound ==
    ASSUME EvidenceInv, NEW spec \in ItemKey, Distinct(spec.files), Fits(spec.files),
           NEW i \in Targets(spec), Owners(spec) = {},
           NEW bs, blobs \subseteq bs, BlobsOf(i, spec.files) \subseteq bs
    PROVE  /\ Sound(i, MergedRecord(i, spec), bs)
           /\ \A j \in Known : j # i => items[j].keys \cap MergedRecord(i, spec).keys = {}
<1> DEFINE r == MergedRecord(i, spec)
<1>1. /\ i \in Known /\ i.topic = spec.topic /\ Fits(Merged(i, spec.files))
      /\ Sound(i, items[i], blobs)
  BY DEF Targets, EvidenceInv, Records
<1>2. items[i] \in Item /\ spec.files \subseteq File /\ items[i].files \subseteq File
  BY <1>1 DEF Sound, Item, ItemKey
<1>3. /\ r.keys = items[i].keys \cup {spec} /\ r.files = Merged(i, spec.files) /\ r.status = items[i].status
      /\ r.replaced = items[i].replaced \cup (items[i].files \ Merged(i, spec.files))  BY DEF MergedRecord
<1>4. Merged(i, spec.files) \subseteq File  BY <1>2 DEF Merged
<1>5. r \in Item  BY <1>2, <1>4 DEF MergedRecord, Item
<1>6. Distinct(r.files)  BY <1>1, <1>3 DEF Distinct, Merged, NamesOf, Sound
<1>7. NamesOf(items[i].files) \subseteq NamesOf(r.files)  BY <1>3 DEF Merged, NamesOf
<1>8. NamesOf(r.replaced) \subseteq NamesOf(r.files)  BY <1>1, <1>3, <1>7 DEF NamesOf, Sound
<1>9. items[i].files \cup items[i].replaced \subseteq r.files \cup r.replaced  BY <1>3
<1>10. r.files \cup r.replaced \subseteq items[i].files \cup items[i].replaced \cup spec.files
  BY <1>3 DEF Merged
<1>11. BlobsOf(i, r.files \cup r.replaced) \subseteq bs  BY <1>1, <1>10 DEF Sound, BlobsOf
<1>12. spec.files \subseteq r.files  BY <1>3 DEF Merged
<1>13. \A key \in r.keys : /\ key.topic = i.topic /\ Distinct(key.files) /\ Fits(key.files)
                           /\ key.files \subseteq r.files \cup r.replaced
  BY <1>1, <1>3, <1>9, <1>12 DEF Sound
<1>14. i \in r.keys  BY <1>1, <1>3 DEF Sound
<1>15. Fits(r.files)  BY <1>1, <1>3
<1>16. Sound(i, r, bs)  BY <1>5, <1>6, <1>8, <1>11, <1>13, <1>14, <1>15 DEF Sound
<1>17. \A j \in Known : j # i => items[j].keys \cap r.keys = {}
  BY <1>1, <1>3 DEF Owners, EvidenceInv, Apart
<1> QED  BY <1>16, <1>17

(* The record of a new item. *)
NewRecord(spec) == [status |-> "waiting", keys |-> {spec}, files |-> spec.files, replaced |-> {}]

(* So is a new one, and it is written over none: its key would have been a duplicate. *)
LEMMA CreateSound ==
    ASSUME EvidenceInv, NEW spec \in ItemKey, Distinct(spec.files), Fits(spec.files),
           Owners(spec) = {}, NEW bs, blobs \subseteq bs, BlobsOf(spec, spec.files) \subseteq bs
    PROVE  /\ Sound(spec, NewRecord(spec), bs) /\ spec \notin Known
           /\ \A j \in Known : j # spec => items[j].keys \cap NewRecord(spec).keys = {}
<1>1. NewRecord(spec) \in Item  BY DEF NewRecord, Item, ItemKey
<1>2. Sound(spec, NewRecord(spec), bs)  BY <1>1 DEF NewRecord, Sound, NamesOf
<1>3. \A j \in Known : spec \notin items[j].keys  BY DEF Owners
<1>4. spec \notin Known  BY <1>3 DEF EvidenceInv, Records, Sound
<1> QED  BY <1>2, <1>3, <1>4 DEF NewRecord

-----------------------------------------------------------------------------
(* What every step does to the records. *)

(* Files are kept, or replaced by others of their name. *)
Grows ==
    /\ Known \subseteq Known'
    /\ \A i \in Known :
           /\ items[i].files \subseteq items'[i].files \cup items'[i].replaced
           /\ items[i].replaced \subseteq items'[i].replaced
           /\ NamesOf(items[i].files) \subseteq NamesOf(items'[i].files)

(* An item closed as split is one already, and stays as it was. *)
SplitsStay ==
    \A i \in Known' : items'[i].status = "split" =>
        i \in Known /\ items[i].status = "split" /\ items'[i].files = items[i].files

(* A spec has its item. *)
Homed(spec) ==
    \E i \in Known' : i.topic = spec.topic /\ spec.files \subseteq items'[i].files \cup items'[i].replaced

(* What Place does. *)
Placed ==
    /\ EvidenceInv' /\ Grows /\ SplitsStay /\ Homed(Head(todo))
    /\ \A i \in Known : /\ items'[i].status = items[i].status
                        /\ i.topic # Head(todo).topic => items'[i] = items[i]

(* Blobs are kept by item and file. *)
LEMMA BlobsType ==
    ASSUME EvidenceInv, NEW i \in ItemKey, NEW fs \in SUBSET File
    PROVE  blobs \cup BlobsOf(i, fs) \subseteq ItemKey \X File
BY DEF EvidenceInv, Shape, BlobsOf

(* What is left to enqueue can be, and the item being split stays claimed. *)
LEMMA PlaceHands ==
    ASSUME EvidenceInv, todo # <<>>, todo' = Tail(todo), parent' = parent,
           \A i \in Known : i \in Known' /\ items'[i].status = items[i].status
    PROVE  Handing'
<1>1. \A k \in 1..Len(todo') : Distinct(todo'[k].files) /\ Fits(todo'[k].files)
  BY HeadIsKey DEF EvidenceInv, Handing
<1>2. parent' # NoItem => With(parent, "in_progress")'
  BY DEF EvidenceInv, Handing, With
<1> QED  BY <1>1, <1>2 DEF Handing

(* A duplicate only repairs the blobs of its item. *)
LEMMA PlaceAgain ==
    ASSUME EvidenceInv, Place, NEW i \in Owners(Head(todo)),
           blobs' = blobs \cup BlobsOf(i, Head(todo).files), UNCHANGED items
    PROVE  Placed
<1> DEFINE spec == Head(todo)
<1>1. /\ todo # <<>> /\ todo' = Tail(todo) /\ UNCHANGED <<source, parent, crashes>>  BY DEF Place
<1>2. /\ spec \in ItemKey /\ Tail(todo) \in Seq(ItemKey)  BY <1>1, HeadIsKey
<1>3. i \in Known /\ i \in ItemKey /\ spec \in items[i].keys /\ Sound(i, items[i], blobs)
  BY DEF Owners, EvidenceInv, Shape, Records
<1>4. blobs' \subseteq ItemKey \X File  BY <1>2, <1>3, BlobsType DEF ItemKey
<1>5. Known' = Known  BY DEF Known
<1>6. Shape'  BY <1>1, <1>2, <1>4, <1>5 DEF EvidenceInv, Shape
<1>7. Records' /\ Apart'  BY RecordsStay
<1>8. Handing'  BY <1>1, <1>5, PlaceHands
<1>9. Grows /\ SplitsStay  BY <1>5 DEF Grows, SplitsStay
<1>10. Homed(spec)  BY <1>3, <1>5 DEF Homed, Sound
<1> QED  BY <1>6, <1>7, <1>8, <1>9, <1>10 DEF EvidenceInv, Placed

(* A merge into a waiting item. *)
LEMMA PlaceMerge ==
    ASSUME EvidenceInv, Place, Owners(Head(todo)) = {}, NEW i \in Targets(Head(todo)),
           blobs' = blobs \cup BlobsOf(i, Head(todo).files), Merge(i, Head(todo))
    PROVE  Placed
<1> DEFINE spec == Head(todo)
           r == MergedRecord(i, spec)
<1>1. /\ todo # <<>> /\ todo' = Tail(todo) /\ UNCHANGED <<source, parent, crashes>>  BY DEF Place
<1>2. /\ spec \in ItemKey /\ Tail(todo) \in Seq(ItemKey)
      /\ Distinct(spec.files) /\ Fits(spec.files)  BY <1>1, HeadIsKey
<1>3. i \in Known /\ i \in ItemKey /\ items[i].status = "waiting" /\ i.topic = spec.topic
      /\ Sound(i, items[i], blobs)
  BY DEF Targets, EvidenceInv, Shape, Records
<1>4. blobs' \subseteq ItemKey \X File  BY <1>2, <1>3, BlobsType DEF ItemKey
<1>5. Written(i, r)  BY <1>2, <1>3, MergeWrites
<1>6. /\ Sound(i, r, blobs')
      /\ \A j \in Known : j # i => items[j].keys \cap r.keys = {}
  BY <1>2, MergeSound
<1>7. /\ r.status = "waiting" /\ r.files = Merged(i, spec.files)
      /\ r.replaced = items[i].replaced \cup (items[i].files \ Merged(i, spec.files))
  BY <1>3 DEF MergedRecord
<1> HIDE DEF r
<1>8. /\ Records' /\ Apart'
      /\ Known' = Known \cup {i} /\ Known' \subseteq ItemKey /\ items' = [j \in Known' |-> items'[j]]
  BY <1>3, <1>5, <1>6, WriteKeeps
<1>9. Known' = Known  BY <1>3, <1>8
<1>10. items'[i] = r /\ \A j \in Known : j # i => items'[j] = items[j]
  BY <1>3, <1>5 DEF Written
<1>11. Shape'  BY <1>1, <1>2, <1>4, <1>8 DEF EvidenceInv, Shape
<1>12. \A j \in Known : items'[j].status = items[j].status  BY <1>3, <1>7, <1>10
<1>13. Handing'  BY <1>1, <1>9, <1>12, PlaceHands
<1>14. Grows
  <2>1. /\ items[i].files \subseteq r.files \cup r.replaced
        /\ items[i].replaced \subseteq r.replaced  BY <1>7
  <2>2. NamesOf(items[i].files) \subseteq NamesOf(r.files)  BY <1>7 DEF Merged, NamesOf
  <2> QED  BY <1>9, <1>10, <2>1, <2>2 DEF Grows
<1>15. SplitsStay  BY <1>7, <1>9, <1>10 DEF SplitsStay
<1>16. Homed(spec)  BY <1>3, <1>7, <1>9, <1>10 DEF Homed, Merged
<1>17. \A j \in Known : j.topic # spec.topic => items'[j] = items[j]  BY <1>3, <1>10
<1> QED  BY <1>8, <1>11, <1>12, <1>13, <1>14, <1>15, <1>16, <1>17 DEF EvidenceInv, Placed

(* A new item. *)
LEMMA PlaceNew ==
    ASSUME EvidenceInv, Place, Owners(Head(todo)) = {}, Create(Head(todo)),
           blobs' = blobs \cup BlobsOf(Head(todo), Head(todo).files)
    PROVE  Placed
<1> DEFINE spec == Head(todo)
           r == NewRecord(spec)
<1>1. /\ todo # <<>> /\ todo' = Tail(todo) /\ UNCHANGED <<source, parent, crashes>>  BY DEF Place
<1>2. /\ spec \in ItemKey /\ Tail(todo) \in Seq(ItemKey)
      /\ Distinct(spec.files) /\ Fits(spec.files)  BY <1>1, HeadIsKey
<1>3. blobs' \subseteq ItemKey \X File  BY <1>2, BlobsType DEF ItemKey
<1>4. /\ Sound(spec, r, blobs') /\ spec \notin Known
      /\ \A j \in Known : j # spec => items[j].keys \cap r.keys = {}
  BY <1>2, CreateSound
<1>5. Written(spec, r)  BY DEF Create, Written, NewRecord
<1>6. r.status = "waiting" /\ r.files = spec.files  BY DEF NewRecord
<1> HIDE DEF r
<1>7. /\ Records' /\ Apart'
      /\ Known' = Known \cup {spec} /\ Known' \subseteq ItemKey /\ items' = [j \in Known' |-> items'[j]]
  BY <1>2, <1>4, <1>5, WriteKeeps
<1>8. items'[spec] = r /\ \A j \in Known : items'[j] = items[j]
  BY <1>4, <1>5 DEF Written
<1>9. Shape'  BY <1>1, <1>2, <1>3, <1>7 DEF EvidenceInv, Shape
<1>10. Handing'  BY <1>1, <1>7, <1>8, PlaceHands
<1>11. Grows  BY <1>7, <1>8 DEF Grows
<1>12. SplitsStay  BY <1>6, <1>7, <1>8 DEF SplitsStay
<1>13. Homed(spec)  BY <1>6, <1>7, <1>8 DEF Homed
<1> QED  BY <1>7, <1>8, <1>9, <1>10, <1>11, <1>12, <1>13 DEF EvidenceInv, Placed

(* Each way of enqueueing a spec gives it an item and keeps the records sound. *)
LEMMA PlaceKeeps == ASSUME EvidenceInv, Place  PROVE Placed
<1> DEFINE spec == Head(todo)
<1>1. PICK i \in Homes(spec) :
          /\ blobs' = blobs \cup BlobsOf(i, spec.files)
          /\ \/ i \in Owners(spec) /\ UNCHANGED items
             \/ Owners(spec) = {} /\ i \in Targets(spec) /\ Merge(i, spec)
             \/ Targetless(spec) /\ Create(spec)
  BY DEF Place
<1>2. CASE i \in Owners(spec) /\ UNCHANGED items  BY <1>1, <1>2, PlaceAgain
<1>3. CASE Owners(spec) = {} /\ i \in Targets(spec) /\ Merge(i, spec)  BY <1>1, <1>3, PlaceMerge
<1>4. CASE Targetless(spec) /\ Create(spec)
  <2>1. i = spec  BY <1>4 DEF Homes, Targetless
  <2> QED  BY <1>1, <1>4, <2>1, PlaceNew DEF Targetless
<1> QED  BY <1>1, <1>2, <1>3, <1>4

-----------------------------------------------------------------------------
(* The other steps. *)

Kept == EvidenceInv' /\ Grows

(* A step that writes no record. *)
LEMMA Unchanged == ASSUME EvidenceInv, UNCHANGED items  PROVE Grows /\ SplitsStay
BY DEF Grows, SplitsStay, Known

(* What is collected changes. *)
LEMMA ChangeKeeps == ASSUME EvidenceInv, NEW n \in Names, Change(n)  PROVE Kept
<1>1. Known' = Known /\ UNCHANGED <<items, blobs, todo, parent, crashes>>  BY DEF Change, Known
<1>2. source' \in [Names -> Versions]
  <2>1. source[n] + 1 \in Versions  BY BoundsOK DEF EvidenceInv, Shape, Versions, Change
  <2> QED  BY <2>1 DEF EvidenceInv, Shape, Change
<1>3. Shape'  BY <1>1, <1>2 DEF EvidenceInv, Shape
<1>4. Records' /\ Apart'  BY <1>1, RecordsStay
<1>5. Handing'  BY <1>1 DEF EvidenceInv, Handing, With
<1> QED  BY <1>1, <1>3, <1>4, <1>5, Unchanged DEF Kept, EvidenceInv

(* A collection is taken in hand: its files are distinct, being current or taken before. *)
LEMMA EnqueueKeeps == ASSUME EvidenceInv, NEW fs \in SUBSET File, Enqueue(fs)  PROVE Kept
<1> DEFINE spec == [topic |-> <<>>, files |-> fs]
<1>1. Known' = Known /\ UNCHANGED <<source, items, blobs, parent, crashes>>  BY DEF Enqueue, Known
<1>2. todo' = <<spec>> /\ parent = NoItem /\ Fits(fs) /\ (fs \subseteq Current \/ Owners(spec) # {})
  BY DEF Enqueue, Unlocked
<1>3. spec \in ItemKey
  <2>1. <<>> \in [1..0 -> {1, 2}] /\ 0 \in 0..MaxDepth  BY BoundsOK
  <2> QED  BY <2>1 DEF Topic, ItemKey
<1>4. Distinct(fs)
  <2>1. CASE fs \subseteq Current  BY <2>1 DEF Current, Distinct
  <2>2. CASE Owners(spec) # {}
    <3>1. PICK i \in Known : spec \in items[i].keys  BY <2>2 DEF Owners
    <3>2. Sound(i, items[i], blobs)  BY DEF EvidenceInv, Records
    <3> QED  BY <3>1, <3>2 DEF Sound
  <2> QED  BY <1>2, <2>1, <2>2
<1>5. Len(todo') = 1 /\ todo'[1] = spec /\ todo' \in Seq(ItemKey)  BY <1>2, <1>3
<1>6. Shape'  BY <1>1, <1>5 DEF EvidenceInv, Shape
<1>7. Records' /\ Apart'  BY <1>1, RecordsStay
<1>8. Handing'
  <2>1. \A k \in 1..Len(todo') : Distinct(todo'[k].files) /\ Fits(todo'[k].files)
    BY <1>2, <1>4, <1>5
  <2>2. parent' = NoItem  BY <1>1, <1>2
  <2> QED  BY <2>1, <2>2 DEF Handing
<1> QED  BY <1>1, <1>6, <1>7, <1>8, Unchanged DEF Kept, EvidenceInv

(* A crash leaves blobs without a record at most. *)
LEMMA CrashKeeps == ASSUME EvidenceInv, Crash  PROVE Kept
<1>1. /\ Known' = Known /\ UNCHANGED <<source, items>> /\ todo' = <<>> /\ parent' = NoItem
      /\ crashes < MaxCrashes /\ crashes' = crashes + 1  BY DEF Crash, Known
<1>2. blobs \subseteq blobs' /\ blobs' \subseteq ItemKey \X File
  <2>1. CASE todo = <<>>  BY <2>1 DEF Crash, EvidenceInv, Shape
  <2>2. CASE todo # <<>>
    <3>1. PICK i \in Homes(Head(todo)), piece \in SUBSET Head(todo).files :
              blobs' = blobs \cup (IF i \in Known THEN BlobsOf(i, piece) ELSE {})
      BY <2>2 DEF Crash
    <3>2. piece \subseteq File  BY <2>2, HeadIsKey DEF ItemKey
    <3>3. CASE i \in Known
      <4>1. i \in ItemKey  BY <3>3 DEF EvidenceInv, Shape
      <4> QED  BY <3>1, <3>2, <3>3, <4>1, BlobsType
    <3>4. CASE i \notin Known  BY <3>1, <3>4 DEF EvidenceInv, Shape
    <3> QED  BY <3>3, <3>4
  <2> QED  BY <2>1, <2>2
<1>3. Len(todo') = 0 /\ todo' \in Seq(ItemKey)  BY <1>1
<1>4. crashes' \in 0..MaxCrashes  BY <1>1, BoundsOK DEF EvidenceInv, Shape
<1>5. Shape'  BY <1>1, <1>2, <1>3, <1>4 DEF EvidenceInv, Shape
<1>6. Records' /\ Apart'  BY <1>1, <1>2, RecordsStay
<1>7. Handing'  BY <1>1, <1>3 DEF Handing
<1> QED  BY <1>1, <1>5, <1>6, <1>7, Unchanged DEF Kept, EvidenceInv

(* A step that sets one status. *)
LEMMA StatusStep ==
    ASSUME EvidenceInv, NEW i \in Known, NEW status \in {"waiting", "in_progress", "closed", "split"},
           items' = [items EXCEPT ![i].status = status], UNCHANGED <<source, blobs, todo, crashes>>,
           parent' = NoItem
    PROVE  /\ Kept
           /\ Known' = Known /\ items'[i].status = status
           /\ \A j \in Known : /\ items'[j].files = items[j].files
                               /\ items'[j].replaced = items[j].replaced
                               /\ items'[j].keys = items[j].keys
                               /\ j # i => items'[j] = items[j]
<1>1. /\ Records' /\ Apart'
      /\ Known' = Known /\ items' = [j \in Known' |-> items'[j]]
  BY StatusKeeps
<1>2. Sound(i, items[i], blobs)  BY DEF EvidenceInv, Records
<1>3. items[i] \in Item  BY <1>2 DEF Sound
<1>4. items'[i] = [items[i] EXCEPT !.status = status] /\ \A j \in Known : j # i => items'[j] = items[j]
  BY DEF Known
<1>5. /\ items'[i].status = status /\ items'[i].files = items[i].files
      /\ items'[i].replaced = items[i].replaced /\ items'[i].keys = items[i].keys
  BY <1>3, <1>4 DEF Item
<1>6. Shape'  BY <1>1 DEF EvidenceInv, Shape
<1>7. Handing'  BY DEF EvidenceInv, Handing
<1>8. Grows  BY <1>1, <1>4, <1>5 DEF Grows
<1> QED  BY <1>1, <1>4, <1>5, <1>6, <1>7, <1>8 DEF Kept, EvidenceInv

(* Claims, parks, closes and reopens. *)
LEMMA SetStatusKeeps ==
    ASSUME EvidenceInv, NEW i \in Known, NEW from, NEW to \in {"waiting", "in_progress", "closed"},
           "split" \notin from, SetStatus(i, from, to)
    PROVE  Kept /\ SplitsStay
<1>1. /\ items' = [items EXCEPT ![i].status = to] /\ UNCHANGED <<source, blobs, todo, crashes>>
      /\ parent' = NoItem /\ items[i].status # "split"
  BY DEF SetStatus, Unlocked
<1>2. /\ Kept /\ Known' = Known /\ items'[i].status = to
      /\ \A j \in Known : items'[j].files = items[j].files /\ (j # i => items'[j] = items[j])
  BY <1>1, StatusStep
<1>3. SplitsStay  BY <1>1, <1>2 DEF SplitsStay
<1> QED  BY <1>2, <1>3

(* The split item is closed. *)
LEMMA EndSplitKeeps == ASSUME EvidenceInv, EndSplit  PROVE Kept
<1>1. parent \in Known  BY DEF EndSplit, EvidenceInv, Handing, With
<1> QED  BY <1>1, StatusStep DEF EndSplit

(* A run adds a file under a new name. *)
LEMMA AddFileKeeps == ASSUME EvidenceInv, NEW i \in Known, NEW f \in Current, AddFile(i, f)
                      PROVE  Kept /\ SplitsStay
<1> DEFINE r == [items[i] EXCEPT !.files = @ \cup {f}]
<1>1. /\ items' = [items EXCEPT ![i].files = @ \cup {f}] /\ blobs' = blobs \cup BlobsOf(i, {f})
      /\ UNCHANGED <<source, todo, parent, crashes>> /\ parent = NoItem
      /\ f.name \notin NamesOf(items[i].files) /\ Fits(items[i].files \cup {f})
      /\ items[i].status = "in_progress"
  BY DEF AddFile, Unlocked, With
<1>2. f \in File  BY DEF Current, File, EvidenceInv, Shape
<1>3. i \in ItemKey /\ Sound(i, items[i], blobs)  BY DEF EvidenceInv, Shape, Records
<1>4. items[i] \in Item  BY <1>3 DEF Sound
<1>5. /\ r \in Item /\ r.keys = items[i].keys /\ r.status = items[i].status
      /\ r.files = items[i].files \cup {f} /\ r.replaced = items[i].replaced
  BY <1>2, <1>4 DEF Item
<1> HIDE DEF r
<1>6. Sound(i, r, blobs')
  <2>1. Distinct(r.files)  BY <1>1, <1>3, <1>5 DEF Sound, Distinct, NamesOf
  <2>2. NamesOf(r.replaced) \subseteq NamesOf(r.files)  BY <1>3, <1>5 DEF Sound, NamesOf
  <2>3. BlobsOf(i, r.files \cup r.replaced) \subseteq blobs'  BY <1>1, <1>3, <1>5 DEF Sound, BlobsOf
  <2>4. Fits(r.files)  BY <1>1, <1>5
  <2> QED  BY <1>3, <1>5, <2>1, <2>2, <2>3, <2>4 DEF Sound
<1>7. Written(i, r)
  <2>1. items' = [items EXCEPT ![i] = r]  BY <1>1 DEF r
  <2>2. items = [j \in Known |-> items[j]]  BY DEF EvidenceInv, Shape
  <2> QED  BY <2>1, <2>2 DEF Written
<1>8. \A j \in Known : j # i => items[j].keys \cap r.keys = {}  BY <1>5 DEF EvidenceInv, Apart
<1>9. blobs \subseteq blobs'  BY <1>1
<1>10. /\ Records' /\ Apart'
       /\ Known' = Known \cup {i} /\ Known' \subseteq ItemKey /\ items' = [j \in Known' |-> items'[j]]
  BY <1>3, <1>6, <1>7, <1>8, <1>9, WriteKeeps
<1>11. Known' = Known  BY <1>10
<1>12. items'[i] = r /\ \A j \in Known : j # i => items'[j] = items[j]  BY <1>7 DEF Written
<1>13. blobs' \subseteq ItemKey \X File  BY <1>1, <1>2, <1>3, BlobsType
<1>14. Shape'  BY <1>1, <1>10, <1>13 DEF EvidenceInv, Shape
<1>15. Handing'  BY <1>1 DEF EvidenceInv, Handing
<1>16. Grows
  <2>1. /\ items[i].files \subseteq r.files /\ items[i].replaced \subseteq r.replaced
        /\ NamesOf(items[i].files) \subseteq NamesOf(r.files)
    BY <1>5 DEF NamesOf
  <2> QED  BY <1>11, <1>12, <2>1 DEF Grows
<1>17. SplitsStay  BY <1>1, <1>5, <1>11, <1>12 DEF SplitsStay
<1> QED  BY <1>10, <1>14, <1>15, <1>16, <1>17 DEF Kept, EvidenceInv

(* The two children of a split. *)
Children(i, names, first) ==
    LET piece == {f \in items[i].files : f.name \in names}
    IN  << [topic |-> first, files |-> piece],
           [topic |-> Append(i.topic, 2), files |-> items[i].files \ piece] >>

(* The children of a split share out all files of the item; the second, and without a topic of the
   run's choice the first too, has a longer topic. *)
LEMMA SplitHands ==
    ASSUME EvidenceInv, NEW i \in Known, NEW names \in SUBSET Names, Split(i, names)
    PROVE  \E first \in {Append(i.topic, 1)} \cup (IF TopicMayStay THEN {i.topic} ELSE {}) :
               /\ todo' = Children(i, names, first)
               /\ todo' \in Seq(ItemKey) /\ Len(todo') = 2
               /\ todo'[1].topic = first /\ todo'[2].topic = Append(i.topic, 2)
               /\ todo'[1].files \cup todo'[2].files = items[i].files
               /\ Len(Append(i.topic, 1)) > Len(i.topic) /\ Len(Append(i.topic, 2)) > Len(i.topic)
<1>1. PICK first \in {Append(i.topic, 1)} \cup (IF TopicMayStay THEN {i.topic} ELSE {}) :
          todo' = Children(i, names, first)
  BY DEF Split, Children
<1>2. i \in ItemKey /\ items[i] \in Item  BY DEF EvidenceInv, Shape, Records, Sound
<1>3. i.topic \in Topic /\ items[i].files \subseteq File  BY <1>2 DEF ItemKey, Item
<1>4. Len(i.topic) < MaxDepth  BY DEF Split
<1>5. /\ Append(i.topic, 1) \in Topic /\ Len(Append(i.topic, 1)) > Len(i.topic)
      /\ Append(i.topic, 2) \in Topic /\ Len(Append(i.topic, 2)) > Len(i.topic)
  BY <1>3, <1>4, ChildTopic
<1> DEFINE piece == {f \in items[i].files : f.name \in names}
           one == [topic |-> first, files |-> piece]
           two == [topic |-> Append(i.topic, 2), files |-> items[i].files \ piece]
<1>6. one \in ItemKey /\ two \in ItemKey  BY <1>3, <1>5 DEF ItemKey
<1>7. todo' = <<one, two>>  BY <1>1 DEF Children
<1>8. /\ one.topic = first /\ two.topic = Append(i.topic, 2)
      /\ one.files \cup two.files = items[i].files
  OBVIOUS
<1> HIDE DEF one, two
<1>9. Len(todo') = 2 /\ todo'[1] = one /\ todo'[2] = two /\ todo' \in Seq(ItemKey)  BY <1>6, <1>7
<1> QED  BY <1>1, <1>5, <1>8, <1>9

(* The children of a split can be enqueued: their files are distinct and fit, as their item's did. *)
LEMMA SplitKeeps ==
    ASSUME EvidenceInv, NEW i \in Known, NEW names \in SUBSET Names, Split(i, names)
    PROVE  Kept
<1>1. /\ Known' = Known /\ UNCHANGED <<source, items, blobs, crashes>> /\ parent' = i
      /\ items[i].status = "in_progress"
  BY DEF Split, Known, With
<1>2. /\ todo' \in Seq(ItemKey) /\ Len(todo') = 2
      /\ todo'[1].files \subseteq items[i].files /\ todo'[2].files \subseteq items[i].files
  BY SplitHands
<1>3. Sound(i, items[i], blobs) /\ i \in ItemKey  BY DEF EvidenceInv, Shape, Records
<1>4. items[i].files \in SUBSET File /\ Distinct(items[i].files) /\ Fits(items[i].files)
  BY <1>3 DEF Sound, Item
<1>5. Shape'  BY <1>1, <1>2, <1>3 DEF EvidenceInv, Shape
<1>6. Records' /\ Apart'  BY <1>1, RecordsStay
<1>7. \A k \in 1..Len(todo') : Distinct(todo'[k].files) /\ Fits(todo'[k].files)
  <2>1. \A fs \in SUBSET items[i].files : Distinct(fs) /\ Fits(fs)
    BY <1>4, SubsetFits DEF Distinct
  <2>2. \A k \in 1..Len(todo') : k = 1 \/ k = 2  BY <1>2
  <2> QED  BY <1>2, <2>1, <2>2
<1>8. Handing'  BY <1>1, <1>7 DEF Handing, With
<1> QED  BY <1>1, <1>5, <1>6, <1>8, Unchanged DEF Kept, EvidenceInv

-----------------------------------------------------------------------------
(* It holds at first, there are no items. *)
LEMMA InitHolds == ASSUME Init  PROVE EvidenceInv /\ SplitInv
<1>1. Known = {} /\ items = [i \in Known |-> items[i]]  BY DEF Init, Known
<1>2. source \in [Names -> Versions]  BY BoundsOK DEF Init, Versions
<1>3. todo = <<>> /\ todo \in Seq(ItemKey) /\ Len(todo) = 0 /\ parent = NoItem /\ blobs = {}
  BY DEF Init
<1>4. crashes \in 0..MaxCrashes  BY BoundsOK DEF Init
<1>5. Shape  BY <1>1, <1>2, <1>3, <1>4 DEF Shape
<1>6. Records /\ Apart /\ SplitsOnly  BY <1>1 DEF Records, Apart, SplitsOnly
<1>7. Handing  BY <1>3 DEF Handing
<1> QED  BY <1>3, <1>5, <1>6, <1>7 DEF EvidenceInv, SplitInv

(* And when nothing happens. *)
LEMMA StutterKeeps == ASSUME EvidenceInv, UNCHANGED vars  PROVE Kept
<1>1. Known' = Known /\ UNCHANGED <<source, items, blobs, todo, parent, crashes>>  BY DEF vars, Known
<1>2. Records' /\ Apart'  BY <1>1, RecordsStay
<1>3. Shape' /\ Handing'  BY <1>1 DEF EvidenceInv, Shape, Handing, With
<1> QED  BY <1>1, <1>2, <1>3, Unchanged DEF Kept, EvidenceInv

(* Every step keeps the records sound, and forgets no file. *)
LEMMA NextKeeps == ASSUME EvidenceInv, [Next]_vars  PROVE Kept
<1>1. CASE \E n \in Names : Change(n)  BY <1>1, ChangeKeeps
<1>2. CASE \E fs \in SUBSET File : Enqueue(fs)  BY <1>2, EnqueueKeeps
<1>3. CASE Place  BY <1>3, PlaceKeeps DEF Placed, Kept
<1>4. CASE EndSplit  BY <1>4, EndSplitKeeps
<1>5. CASE Crash  BY <1>5, CrashKeeps
<1>6. ASSUME NEW i \in Known, Claim(i) \/ GiveBack(i) \/ Close(i) \/ Reopen(i)  PROVE Kept
  BY <1>6, SetStatusKeeps DEF Claim, GiveBack, Close, Reopen
<1>7. ASSUME NEW i \in Known, \E f \in Current : AddFile(i, f)  PROVE Kept
  BY <1>7, AddFileKeeps
<1>8. ASSUME NEW i \in Known, \E names \in SUBSET Names : Split(i, names)  PROVE Kept
  BY <1>8, SplitKeeps
<1>9. CASE UNCHANGED vars  BY <1>9, StutterKeeps
<1> QED  BY <1>1, <1>2, <1>3, <1>4, <1>5, <1>6, <1>7, <1>8, <1>9 DEF Next

(* EvidenceInv is an invariant of maint_state.py's evidence, with crashes between any two writes. *)
THEOREM EvidenceInvariant == Spec => []EvidenceInv
<1>1. EvidenceInv /\ [Next]_vars => EvidenceInv'  BY NextKeeps DEF Kept
<1>2. Init => EvidenceInv  BY InitHolds
<1> QED  BY <1>1, <1>2, PTL DEF Spec

(* What it says of the properties the runs check. *)
LEMMA WhatItSays == EvidenceInv => TypeOK /\ EvidenceThere /\ CollectionsKept
<1> SUFFICES ASSUME EvidenceInv  PROVE TypeOK /\ EvidenceThere /\ CollectionsKept
  OBVIOUS
<1>1. TypeOK
  <2>1. items \in [Known -> Item]  BY DEF EvidenceInv, Shape, Records, Sound
  <2> QED  BY <2>1 DEF EvidenceInv, Shape, Records, Sound, TypeOK
<1>2. EvidenceThere  BY DEF EvidenceInv, Records, Sound, EvidenceThere, Held
<1>3. CollectionsKept  BY DEF EvidenceInv, Records, Sound, Apart, CollectionsKept, Held
<1> QED  BY <1>1, <1>2, <1>3

-----------------------------------------------------------------------------
(* Where the files of a split item go. *)

(* An item that goes on with a file does so after any step that does not close it as split. *)
LEMMA CarryOn ==
    ASSUME Grows, NEW j \in Known, NEW f, Carries(j, f), items'[j].status # "split"
    PROVE  Carries(j, f)'
<1>1. PICK g \in items[j].files : g.name = f.name /\ (g = f \/ Replaced(f))  BY DEF Carries
<1>2. PICK h \in items'[j].files : h.name = g.name  BY <1>1 DEF Grows, NamesOf
<1>3. Replaced(f) => Replaced(f)'  BY DEF Replaced, Grows
<1>4. j \in Known'  BY DEF Grows
<1>5. CASE g \in items'[j].files  BY <1>1, <1>3, <1>5 DEF Carries
<1>6. CASE g \notin items'[j].files
  <2>1. g \in items'[j].replaced  BY <1>1, <1>6 DEF Grows
  <2>2. Replaced(g)'  BY <1>4, <2>1 DEF Replaced
  <2>3. Replaced(f)'  BY <1>1, <1>3, <2>2
  <2> QED  BY <1>1, <1>2, <2>3 DEF Carries
<1> QED  BY <1>5, <1>6

(* So a file goes on below a topic. *)
LEMMA CarryBelow ==
    ASSUME Grows, SplitsStay, NEW f, NEW topic, CarriedBelow(f, topic)
    PROVE  CarriedBelow(f, topic)'
<1>1. PICK j \in Known : Len(j.topic) > Len(topic) /\ Carries(j, f)  BY DEF CarriedBelow
<1>2. j \in Known' /\ items'[j].status # "split"  BY <1>1 DEF Grows, SplitsStay, Carries
<1>3. Carries(j, f)'  BY <1>1, <1>2, CarryOn
<1> QED  BY <1>1, <1>2, <1>3 DEF CarriedBelow

(* A step that closes no item as split keeps what was said of the split ones. *)
LEMMA SplitsStand ==
    ASSUME SplitInv, Grows, SplitsStay
    PROVE  SplitsOnly'
<1> SUFFICES ASSUME NEW i \in Known', items'[i].status = "split", NEW f \in items'[i].files
             PROVE  CarriedBelow(f, i.topic)'
  BY DEF SplitsOnly
<1>1. i \in Known /\ items[i].status = "split" /\ f \in items[i].files  BY DEF SplitsStay
<1>2. CarriedBelow(f, i.topic)  BY <1>1 DEF SplitInv, SplitsOnly
<1> QED  BY <1>2, CarryBelow

(* What an item of a longer topic holds goes on below. *)
HeldGoesOn ==
    \A i \in Known, topic \in Topic : Len(i.topic) > Len(topic) =>
        \A f \in items[i].files \cup items[i].replaced : CarriedBelow(f, topic)

(* What a split item holds goes on below it, by what SplitsOnly says of its current files. *)
LEMMA HoldersCarry == EvidenceInv /\ SplitsOnly => HeldGoesOn
<1> SUFFICES ASSUME EvidenceInv, SplitsOnly, NEW i \in Known, NEW topic \in Topic, Len(i.topic) > Len(topic),
                    NEW f \in items[i].files \cup items[i].replaced
             PROVE  CarriedBelow(f, topic)
  BY DEF HeldGoesOn
<1>1. Sound(i, items[i], blobs) /\ i \in ItemKey /\ i.topic \in Topic
  BY DEF EvidenceInv, Shape, Records, ItemKey
<1>2. PICK g \in items[i].files : g.name = f.name /\ (g = f \/ Replaced(f))
  BY <1>1 DEF Sound, NamesOf, Replaced
<1>3. CASE items[i].status # "split"  BY <1>2, <1>3 DEF CarriedBelow, Carries
<1>4. CASE items[i].status = "split"
  <2>1. CarriedBelow(g, i.topic)  BY <1>2, <1>4 DEF SplitsOnly
  <2>2. PICK j \in Known : Len(j.topic) > Len(i.topic) /\ Carries(j, g)  BY <2>1 DEF CarriedBelow
  <2>3. Carries(j, f)  BY <1>2, <2>2 DEF Carries
  <2>4. j.topic \in Topic  BY DEF EvidenceInv, Shape, ItemKey
  <2>5. Len(j.topic) > Len(topic)  BY <1>1, <2>2, <2>4, TopicLength
  <2> QED  BY <2>3, <2>5 DEF CarriedBelow
<1> QED  BY <1>3, <1>4

(* A spec of the item being split hands its files on: to its new item, to the one it is merged into, or
   to the one it was enqueued as before, and if that has been split since, to what is below it.  None of
   them is the item being split, whose topic is shorter. *)
LEMMA PlaceHandsOn == ASSUME EvidenceInv, SplitInv, Place  PROVE SplitInv'
<1> DEFINE spec == Head(todo)
<1>1. Placed  BY PlaceKeeps
<1>2. EvidenceInv' /\ Grows /\ SplitsStay /\ Homed(spec)  BY <1>1 DEF Placed
<1>3. SplitsOnly'  BY <1>2, SplitsStand
<1>4. parent' = parent /\ todo' = Tail(todo) /\ todo # <<>>  BY DEF Place
<1>5. CASE parent = NoItem  BY <1>3, <1>4, <1>5 DEF SplitInv
<1>6. ASSUME NEW p, p = parent, p # NoItem
      PROVE  /\ \A k \in 1..Len(todo') : Len(todo'[k].topic) > Len(p.topic)
             /\ \A f \in items'[p].files :
                    (\E k \in 1..Len(todo') : f \in todo'[k].files) \/ CarriedBelow(f, p.topic)'
  <2>1. p \in Known /\ p.topic \in Topic
    BY <1>6 DEF EvidenceInv, Shape, Handing, With, ItemKey
  <2>2. /\ \A k \in 1..Len(todo) : Len(todo[k].topic) > Len(p.topic)
        /\ \A f \in items[p].files :
               (\E k \in 1..Len(todo) : f \in todo[k].files) \/ CarriedBelow(f, p.topic)
    BY <1>6 DEF SplitInv
  <2>3. \A k \in 1..Len(todo') : Len(todo'[k].topic) > Len(p.topic)
    BY <1>4, <2>2, HeadIsKey
  <2>4. /\ spec = todo[1] /\ spec \in ItemKey /\ 1 \in 1..Len(todo)
        /\ \A k \in 1..Len(todo) : k = 1 \/ (k - 1 \in 1..Len(todo') /\ todo'[k - 1] = todo[k])
    <3>1. todo \in Seq(ItemKey)  BY DEF EvidenceInv, Shape
    <3>2. \A k \in 1..Len(todo) : k = 1 \/ (k - 1 \in 1..Len(todo') /\ todo'[k - 1] = todo[k])
      BY <1>4, <3>1
    <3> QED  BY <1>4, <3>2, HeadIsKey
  <2>5. Len(spec.topic) > Len(p.topic) /\ spec.topic # p.topic
    <3>1. Len(p.topic) \in Nat  BY <2>1, TopicLength
    <3> QED  BY <2>2, <2>4, <3>1
  <2>6. items'[p] = items[p]  BY <1>1, <2>1, <2>5 DEF Placed
  <2>7. HeldGoesOn'
    <3>1. (EvidenceInv /\ SplitsOnly => HeldGoesOn)'  BY HoldersCarry, PTL
    <3> QED  BY <1>2, <1>3, <3>1
  <2>8. PICK i \in Known' : i.topic = spec.topic /\ spec.files \subseteq items'[i].files \cup items'[i].replaced
    BY <1>2 DEF Homed
  <2>9. ASSUME NEW f \in spec.files  PROVE CarriedBelow(f, p.topic)'
    <3>1. Len(i.topic) > Len(p.topic) /\ f \in items'[i].files \cup items'[i].replaced
      BY <2>5, <2>8
    <3> QED  BY <2>1, <2>7, <2>8, <3>1 DEF HeldGoesOn
  <2>10. ASSUME NEW f \in items[p].files
         PROVE  (\E k \in 1..Len(todo') : f \in todo'[k].files) \/ CarriedBelow(f, p.topic)'
    <3>1. CASE CarriedBelow(f, p.topic)  BY <1>2, <3>1, CarryBelow
    <3>2. CASE \E k \in 1..Len(todo') : f \in todo'[k].files  BY <3>2
    <3>3. CASE f \in spec.files  BY <2>9, <3>3
    <3> QED  BY <2>2, <2>4, <3>1, <3>2, <3>3
  <2> QED  BY <2>3, <2>6, <2>10
<1>7. CASE parent # NoItem
  <2>1. PICK p : p = parent  OBVIOUS
  <2>2. /\ \A k \in 1..Len(todo') : Len(todo'[k].topic) > Len(p.topic)
        /\ \A f \in items'[p].files :
               (\E k \in 1..Len(todo') : f \in todo'[k].files) \/ CarriedBelow(f, p.topic)'
    BY <1>6, <1>7, <2>1
  <2>3. parent' = p  BY <1>4, <2>1
  <2> QED  BY <1>3, <2>2, <2>3 DEF SplitInv
<1> QED  BY <1>5, <1>7

(* When the item is closed as split all its files are below it; those of other split items it carried
   are carried by what is below it. *)
LEMMA EndSplitHandsOn == ASSUME EvidenceInv, SplitInv, EndSplit  PROVE SplitInv'
<1>1. /\ todo = <<>> /\ parent # NoItem /\ parent' = NoItem /\ UNCHANGED <<source, blobs, todo, crashes>>
      /\ items' = [items EXCEPT ![parent].status = "split"]
      /\ parent \in Known /\ parent.topic \in Topic
  BY DEF EndSplit, EvidenceInv, Shape, Handing, With, ItemKey
<1>2. Grows  BY EndSplitKeeps DEF Kept
<1>3. /\ Known' = Known
      /\ \A j \in Known : items'[j].files = items[j].files /\ (j # parent => items'[j] = items[j])
  BY <1>1, StatusStep
<1>4. \A f \in items[parent].files : CarriedBelow(f, parent.topic)  BY <1>1 DEF SplitInv
(* An item below the parent, or whose files it carries, is not the parent. *)
<1>5. ASSUME NEW j \in Known, j # parent, NEW f, Carries(j, f)  PROVE Carries(j, f)'
  BY <1>2, <1>3, <1>5, CarryOn DEF Carries
<1>6. ASSUME NEW f, NEW topic \in Topic, CarriedBelow(f, topic)  PROVE CarriedBelow(f, topic)'
  <2>1. PICK j \in Known : Len(j.topic) > Len(topic) /\ Carries(j, f)  BY <1>6 DEF CarriedBelow
  <2>2. CASE j # parent  BY <1>3, <1>5, <2>1, <2>2 DEF CarriedBelow
  <2>3. CASE j = parent
    <3>1. PICK g \in items[parent].files : g.name = f.name /\ (g = f \/ Replaced(f))
      BY <2>1, <2>3 DEF Carries
    <3>2. PICK k \in Known : Len(k.topic) > Len(parent.topic) /\ Carries(k, g)
      BY <1>4, <3>1 DEF CarriedBelow
    <3>3. Carries(k, f)  BY <3>1, <3>2 DEF Carries
    <3>4. k.topic \in Topic  BY DEF EvidenceInv, Shape, ItemKey
    <3>5. Len(k.topic) > Len(topic) /\ k # parent  BY <1>1, <2>1, <2>3, <3>2, <3>4, TopicLength
    <3> QED  BY <1>3, <1>5, <3>3, <3>5 DEF CarriedBelow
  <2> QED  BY <2>2, <2>3
<1>7. SplitsOnly'
  <2> SUFFICES ASSUME NEW i \in Known', items'[i].status = "split", NEW f \in items'[i].files
               PROVE  CarriedBelow(f, i.topic)'
    BY DEF SplitsOnly
  <2>1. i \in Known /\ f \in items[i].files /\ i.topic \in Topic  BY <1>3 DEF EvidenceInv, Shape, ItemKey
  <2>2. CarriedBelow(f, i.topic)
    <3>1. CASE i = parent  BY <1>4, <2>1, <3>1
    <3>2. CASE i # parent
      <4>1. items[i].status = "split"  BY <1>3, <2>1, <3>2
      <4> QED  BY <2>1, <4>1 DEF SplitInv, SplitsOnly
    <3> QED  BY <3>1, <3>2
  <2> QED  BY <1>6, <2>1, <2>2
<1> QED  BY <1>1, <1>7 DEF SplitInv

(* A split begins with each file in one of the children. *)
LEMMA SplitHandsOn ==
    ASSUME TopicMayStay = FALSE, EvidenceInv, SplitInv,
           NEW i \in Known, NEW names \in SUBSET Names, Split(i, names)
    PROVE  SplitInv'
<1>1. parent' = i /\ UNCHANGED items /\ Known' = Known  BY DEF Split, Known
<1>2. /\ Len(todo') = 2
      /\ Len(todo'[1].topic) > Len(i.topic) /\ Len(todo'[2].topic) > Len(i.topic)
      /\ todo'[1].files \cup todo'[2].files = items[i].files
  BY SplitHands
<1>3. SplitsOnly'  BY SplitsStand, Unchanged, <1>1
<1>4. \A k \in 1..Len(todo') : Len(todo'[k].topic) > Len(i.topic)
  <2>1. \A k \in 1..Len(todo') : k = 1 \/ k = 2  BY <1>2
  <2> QED  BY <1>2, <2>1
<1>5. \A f \in items[i].files : \E k \in 1..Len(todo') : f \in todo'[k].files
  <2>1. 1 \in 1..Len(todo') /\ 2 \in 1..Len(todo')  BY <1>2
  <2> QED  BY <1>2, <2>1
<1> QED  BY <1>1, <1>3, <1>4, <1>5 DEF SplitInv

(* A step that leaves no split under way, and closes no item as split. *)
LEMMA Elsewhere ==
    ASSUME SplitInv, Grows, SplitsStay, parent' = NoItem
    PROVE  SplitInv'
BY SplitsStand DEF SplitInv

(* Every step keeps SplitInv. *)
LEMMA NextHandsOn ==
    ASSUME TopicMayStay = FALSE, EvidenceInv, SplitInv, [Next]_vars
    PROVE  SplitInv'
<1>1. CASE \E n \in Names : Change(n)
  BY <1>1, Unchanged, Elsewhere DEF Change, Unlocked
<1>2. CASE \E fs \in SUBSET File : Enqueue(fs)
  BY <1>2, Unchanged, Elsewhere DEF Enqueue, Unlocked
<1>3. CASE Place  BY <1>3, PlaceHandsOn
<1>4. CASE EndSplit  BY <1>4, EndSplitHandsOn
<1>5. CASE Crash  BY <1>5, Unchanged, Elsewhere DEF Crash
<1>6. ASSUME NEW i \in Known, Claim(i) \/ GiveBack(i) \/ Close(i) \/ Reopen(i)  PROVE SplitInv'
  <2>1. Kept /\ SplitsStay  BY <1>6, SetStatusKeeps DEF Claim, GiveBack, Close, Reopen
  <2>2. parent' = NoItem  BY <1>6 DEF Claim, GiveBack, Close, Reopen, SetStatus, Unlocked
  <2> QED  BY <2>1, <2>2, Elsewhere DEF Kept
<1>7. ASSUME NEW i \in Known, NEW f \in Current, AddFile(i, f)  PROVE SplitInv'
  <2>1. Kept /\ SplitsStay  BY <1>7, AddFileKeeps
  <2>2. parent' = NoItem  BY <1>7 DEF AddFile, Unlocked
  <2> QED  BY <2>1, <2>2, Elsewhere DEF Kept
<1>8. ASSUME NEW i \in Known, NEW names \in SUBSET Names, Split(i, names)  PROVE SplitInv'
  BY <1>8, SplitHandsOn
<1>9. CASE UNCHANGED vars
  <2>1. UNCHANGED <<items, todo, parent>>  BY <1>9 DEF vars
  <2>2. Known' = Known  BY <2>1 DEF Known
  <2>3. SplitsOnly'  BY <2>1, SplitsStand, Unchanged
  <2>4. \A f, topic : CarriedBelow(f, topic) <=> CarriedBelow(f, topic)'
    BY <2>1, <2>2 DEF CarriedBelow, Carries, Replaced
  <2> QED  BY <2>1, <2>3, <2>4 DEF SplitInv
<1> QED  BY <1>1, <1>2, <1>3, <1>4, <1>5, <1>6, <1>7, <1>8, <1>9 DEF Next

(* "a split can drop no evidence" and all else EvidenceSound says, for any depth of splits, when children
   have topics of their own (_split's default).  Without that it is false: run evidence_split. *)
THEOREM EvidenceIsSound == ASSUME TopicMayStay = FALSE  PROVE Spec => []EvidenceSound
<1>1. EvidenceInv /\ SplitInv /\ [Next]_vars => (EvidenceInv /\ SplitInv)'
  BY NextKeeps, NextHandsOn DEF Kept
<1>2. Init => EvidenceInv /\ SplitInv  BY InitHolds
<1>3. EvidenceInv /\ SplitInv => EvidenceSound
  <2>1. SplitInv => SplitDropsNothing  BY DEF SplitInv, SplitsOnly, SplitDropsNothing, CarriedBelow
  <2> QED  BY <2>1, WhatItSays DEF EvidenceSound
<1> QED  BY <1>1, <1>2, <1>3, PTL DEF Spec

(* Durable evidence and idempotent collections (EvidenceThere, CollectionsKept), whatever topics a split
   names. *)
THEOREM EvidenceStays == Spec => [](TypeOK /\ EvidenceThere /\ CollectionsKept)
BY EvidenceInvariant, WhatItSays, PTL

(* What a claimed item shows its run. *)
Frozen ==
    \A i \in Known :
        items[i].status = "in_progress" /\ items'[i].status = "in_progress" =>
            /\ items[i].files \subseteq items'[i].files
            /\ items'[i].replaced = items[i].replaced /\ items'[i].keys = items[i].keys

(* Enqueueing merges into waiting items only. *)
LEMMA PlaceSparesClaims == ASSUME EvidenceInv, Place  PROVE Frozen
<1> DEFINE spec == Head(todo)
<1>1. PICK i \in Homes(spec) :
          \/ UNCHANGED items
          \/ Owners(spec) = {} /\ i \in Targets(spec) /\ Merge(i, spec)
          \/ Targetless(spec) /\ Create(spec)
  BY DEF Place
<1>2. CASE UNCHANGED items  BY <1>2 DEF Frozen
<1>3. CASE i \in Targets(spec) /\ Merge(i, spec)
  <2>1. i \in Known /\ items[i].status = "waiting"  BY <1>3 DEF Targets
  <2>2. \A j \in Known : j # i => items'[j] = items[j]  BY <1>3 DEF Merge, Known
  <2> QED  BY <2>1, <2>2 DEF Frozen
<1>4. CASE Targetless(spec) /\ Create(spec)
  <2>1. spec \notin Known  BY <1>4 DEF Targetless, Owners, EvidenceInv, Records, Sound
  <2>2. \A j \in Known : items'[j] = items[j]  BY <1>4, <2>1 DEF Create
  <2> QED  BY <2>2 DEF Frozen
<1> QED  BY <1>1, <1>2, <1>3, <1>4

(* No step takes files from a claimed item, or merges into it. *)
LEMMA NextSparesClaims == ASSUME EvidenceInv, [Next]_vars  PROVE Frozen
<1>1. CASE UNCHANGED items  BY <1>1 DEF Frozen
<1>2. CASE Place  BY <1>2, PlaceSparesClaims
<1>3. CASE EndSplit
  <2>1. parent \in Known  BY <1>3 DEF EndSplit, EvidenceInv, Handing, With
  <2>2. \A j \in Known : /\ items'[j].files = items[j].files /\ items'[j].replaced = items[j].replaced
                         /\ items'[j].keys = items[j].keys
    BY <1>3, <2>1, StatusStep DEF EndSplit
  <2> QED  BY <2>2 DEF Frozen
<1>4. ASSUME NEW i \in Known, Claim(i) \/ GiveBack(i) \/ Close(i) \/ Reopen(i)  PROVE Frozen
  <2>1. PICK to \in {"waiting", "in_progress", "closed"} :
            /\ items' = [items EXCEPT ![i].status = to] /\ UNCHANGED <<source, blobs, todo, crashes>>
            /\ parent' = NoItem
    BY <1>4 DEF Claim, GiveBack, Close, Reopen, SetStatus, Unlocked
  <2>2. \A j \in Known : /\ items'[j].files = items[j].files /\ items'[j].replaced = items[j].replaced
                         /\ items'[j].keys = items[j].keys
    BY <2>1, StatusStep
  <2> QED  BY <2>2 DEF Frozen
<1>5. ASSUME NEW i \in Known, NEW f \in Current, AddFile(i, f)  PROVE Frozen
  <2>1. items[i] \in Item  BY DEF EvidenceInv, Records, Sound
  <2>2. items'[i] = [items[i] EXCEPT !.files = @ \cup {f}] /\ \A j \in Known : j # i => items'[j] = items[j]
    BY <1>5 DEF AddFile, Known
  <2>3. /\ items[i].files \subseteq items'[i].files
        /\ items'[i].replaced = items[i].replaced /\ items'[i].keys = items[i].keys
    BY <2>1, <2>2 DEF Item
  <2> QED  BY <2>2, <2>3 DEF Frozen
<1> QED
  BY <1>1, <1>2, <1>3, <1>4, <1>5 DEF Next, Change, Enqueue, Crash, Split, vars

(* ClaimedIsFrozen: a claimed item keeps the evidence its run fetched (add_file only adds). *)
THEOREM ClaimsAreFrozen == Spec => ClaimedIsFrozen
<1>1. EvidenceInv /\ [Next]_vars => [Frozen]_vars  BY NextSparesClaims
<1>2. Spec => [][Frozen]_vars  BY <1>1, EvidenceInvariant, PTL DEF Spec
<1> QED  BY <1>2 DEF ClaimedIsFrozen, Frozen

-----------------------------------------------------------------------------
(* The parts of the composition that Parts_proofs is about, each by itself: the runs of a host,    *)
(* maintainers' or auditors', while its program is updated, and the stamps of a concept.           *)
MP == INSTANCE Parts_proofs WITH
         Runs <- Sessions, Reviews <- {}, Concepts <- Stamped, Evidence <- Proofs,
         hour <- w1, lease <- w2, pointer <- w3, record <- w4, run <- w5, shared <- w6, exclusive <- w7,
         updater <- w8, orphans <- w9, main <- w10, cli <- w11, skills <- w12, told <- w13, quiet <- w14,
         lost <- w15, faults <- w16,
         doc <- w1, sources <- w2, now <- w3, basis <- w4, judged <- w5, byHand <- w6, passes <- w7, pushes <- w8,
         Items <- Skipped, Closers <- Runs, MaxCrashes <- MaxRestarts,
         skips <- w1, receipts <- w2, request <- w3, audited <- w4, verdicts <- w5, clock <- w6, crashes <- w7,
         Subjects <- Skipped,
         day <- w1, published <- w2, reviews <- w3, notices <- w4, start <- w5, moves <- w6, failures <- w7,
         Vetted <- Skipped, MaxChanges <- MaxWrites,
         text <- w1, backlog <- w2, queue <- w3, landed <- w4, rejected <- w5, changes <- w6, file <- w7,
         edited <- w8, taken <- w9, entries <- w10, pending <- w11, submitted <- w12, dropped <- w13,
         verb <- w14, read <- w15, recorded <- w16, unanswered <- w17, returned <- w18, deaths <- w19
VP == INSTANCE Parts_proofs WITH
         Runs <- Sessions, Reviews <- Sessions, MaxMain <- 1, Concepts <- Stamped, Evidence <- Proofs,
         hour <- w1, lease <- w2, pointer <- w3, record <- w4, run <- w5, shared <- w6, exclusive <- w7,
         updater <- w8, orphans <- w9, main <- w10, cli <- w11, skills <- w12, told <- w13, quiet <- w14,
         lost <- w15, faults <- w16,
         doc <- w1, sources <- w2, now <- w3, basis <- w4, judged <- w5, byHand <- w6, passes <- w7, pushes <- w8,
         Items <- Skipped, Closers <- Runs, MaxCrashes <- MaxRestarts,
         skips <- w1, receipts <- w2, request <- w3, audited <- w4, verdicts <- w5, clock <- w6, crashes <- w7,
         Subjects <- Skipped,
         day <- w1, published <- w2, reviews <- w3, notices <- w4, start <- w5, moves <- w6, failures <- w7,
         Vetted <- Skipped, MaxChanges <- MaxWrites,
         text <- w1, backlog <- w2, queue <- w3, landed <- w4, rejected <- w5, changes <- w6, file <- w7,
         edited <- w8, taken <- w9, entries <- w10, pending <- w11, submitted <- w12, dropped <- w13,
         verb <- w14, read <- w15, recorded <- w16, unanswered <- w17, returned <- w18, deaths <- w19

(* Each starts, moves and promises as the composition's does: the maintainers of a host, ...     *)
LEMMA SameMaintainers ==
    /\ M!ConstantsOK <=> MP!ConstantsOK
    /\ M!Init <=> MP!Init
    /\ [M!Next]_(M!vars) <=> [MP!Next]_(MP!vars)
    /\ M!UpdatesSpareRuns <=> MP!UpdatesSpareRuns
  BY DEF M!ConstantsOK, MP!ConstantsOK, M!Roles, MP!Roles, M!Role, MP!Role, M!Never, MP!Never, M!vars,
         MP!vars, M!updateVars, MP!updateVars, M!Free, MP!Free, M!Stopped, MP!Stopped, M!Init, MP!Init,
         M!Fault, MP!Fault, M!Tick, MP!Tick, M!Publish, MP!Publish, M!Active, MP!Active, M!Grants,
         MP!Grants, M!Renewed, MP!Renewed, M!Released, MP!Released, M!To, MP!To, M!PointsAt, MP!PointsAt,
         M!Begin, MP!Begin, M!LockShared, MP!LockShared, M!TakeLease, MP!TakeLease, M!AfterPointer,
         MP!AfterPointer, M!SetPointerEarly, MP!SetPointerEarly, M!SetRecord, MP!SetRecord, M!SaveRecord,
         MP!SaveRecord, M!SetPointer, MP!SetPointer, M!Pulled, MP!Pulled, M!PullFails, MP!PullFails,
         M!Installing, MP!Installing, M!Verb, MP!Verb, M!End, MP!End, M!ReadPointer, MP!ReadPointer,
         M!Unlink, MP!Unlink, M!Dies, MP!Dies, M!UpdaterTo, MP!UpdaterTo, M!LockExclusive,
         MP!LockExclusive, M!Live, MP!Live, M!Look, MP!Look, M!Install, MP!Install, M!NewSkills,
         MP!NewSkills, M!InstallSkills, MP!InstallSkills, M!UpdaterDies, MP!UpdaterDies, M!OrphanEnds,
         MP!OrphanEnds, M!Next, MP!Next, M!Spec, MP!Spec, M!Hours, MP!Hours, M!TypeOK, MP!TypeOK,
         M!NoInstallUnderRun, MP!NoInstallUnderRun, M!PointerStands, MP!PointerStands, M!SkillsFollow,
         MP!SkillsFollow, M!UpdatesSpareRuns, MP!UpdatesSpareRuns, M!Cardinality, MP!Cardinality

(* ... its auditors, ... *)
LEMMA SameAuditors ==
    /\ V!ConstantsOK <=> VP!ConstantsOK
    /\ V!Init <=> VP!Init
    /\ [V!Next]_(V!vars) <=> [VP!Next]_(VP!vars)
    /\ V!UpdatesSpareRuns <=> VP!UpdatesSpareRuns
  BY DEF V!ConstantsOK, VP!ConstantsOK, V!Roles, VP!Roles, V!Role, VP!Role, V!Never, VP!Never, V!vars,
         VP!vars, V!updateVars, VP!updateVars, V!Free, VP!Free, V!Stopped, VP!Stopped, V!Init, VP!Init,
         V!Fault, VP!Fault, V!Tick, VP!Tick, V!Publish, VP!Publish, V!Active, VP!Active, V!Grants,
         VP!Grants, V!Renewed, VP!Renewed, V!Released, VP!Released, V!To, VP!To, V!PointsAt, VP!PointsAt,
         V!Begin, VP!Begin, V!LockShared, VP!LockShared, V!TakeLease, VP!TakeLease, V!AfterPointer,
         VP!AfterPointer, V!SetPointerEarly, VP!SetPointerEarly, V!SetRecord, VP!SetRecord, V!SaveRecord,
         VP!SaveRecord, V!SetPointer, VP!SetPointer, V!Pulled, VP!Pulled, V!PullFails, VP!PullFails,
         V!Installing, VP!Installing, V!Verb, VP!Verb, V!End, VP!End, V!ReadPointer, VP!ReadPointer,
         V!Unlink, VP!Unlink, V!Dies, VP!Dies, V!UpdaterTo, VP!UpdaterTo, V!LockExclusive,
         VP!LockExclusive, V!Live, VP!Live, V!Look, VP!Look, V!Install, VP!Install, V!NewSkills,
         VP!NewSkills, V!InstallSkills, VP!InstallSkills, V!UpdaterDies, VP!UpdaterDies, V!OrphanEnds,
         VP!OrphanEnds, V!Next, VP!Next, V!Spec, VP!Spec, V!Hours, VP!Hours, V!TypeOK, VP!TypeOK,
         V!NoInstallUnderRun, VP!NoInstallUnderRun, V!PointerStands, VP!PointerStands, V!SkillsFollow,
         VP!SkillsFollow, V!UpdatesSpareRuns, VP!UpdatesSpareRuns, V!Cardinality, VP!Cardinality

(* ... the stamps, ... *)
LEMMA SameTrust ==
    /\ U!ConstantsOK <=> MP!U!ConstantsOK
    /\ U!Init <=> MP!U!Init
    /\ [U!Next]_(U!vars) <=> [MP!U!Next]_(MP!U!vars)
    /\ U!TrustKept <=> MP!U!TrustKept
  BY DEF U!ConstantsOK, MP!U!ConstantsOK, U!Actors, MP!U!Actors, U!Times, MP!U!Times, U!Events,
         MP!U!Events, U!Absent, MP!U!Absent, U!Docs, MP!U!Docs, U!vars, MP!U!vars, U!Init, MP!U!Init,
         U!Exists, MP!U!Exists, U!Content, MP!U!Content, U!LatestOf, MP!U!LatestOf, U!CurrentVerified,
         MP!U!CurrentVerified, U!Stamp, MP!U!Stamp, U!Bookkept, MP!U!Bookkept, U!SourcePolicy,
         MP!U!SourcePolicy, U!Resolve, MP!U!Resolve, U!NewPolicy, MP!U!NewPolicy, U!GenerationPolicy,
         MP!U!GenerationPolicy, U!AdvancesUnlooked, MP!U!AdvancesUnlooked, U!Advances, MP!U!Advances,
         U!SubstancePolicy, MP!U!SubstancePolicy, U!ConceptPolicy, MP!U!ConceptPolicy, U!CurationPolicy,
         MP!U!CurationPolicy, U!Cited, MP!U!Cited, U!ProvenancePolicy, MP!U!ProvenancePolicy, U!Changed,
         MP!U!Changed, U!Land, MP!U!Land, U!Pass, MP!U!Pass, U!Patched, MP!U!Patched, U!Unpatched,
         MP!U!Unpatched, U!Curate, MP!U!Curate, U!Propose, MP!U!Propose, U!AuditPolicy, MP!U!AuditPolicy,
         U!EventAt, MP!U!EventAt, U!Confirmed, MP!U!Confirmed, U!Audit, MP!U!Audit, U!Push, MP!U!Push,
         U!Tick, MP!U!Tick, U!Next, MP!U!Next, U!Spec, MP!U!Spec, U!TypeOK, MP!U!TypeOK, U!TrustEarned,
         MP!U!TrustEarned, U!EvidenceStands, MP!U!EvidenceStands, U!TrustKept, MP!U!TrustKept

(* ... the reviews of skips, ... *)
LEMMA SameTriage ==
    /\ T!ConstantsOK <=> MP!Tri!ConstantsOK
    /\ T!Init <=> MP!Tri!Init
    /\ [T!Next]_(T!vars) <=> [MP!Tri!Next]_(MP!Tri!vars)
    /\ T!ReviewsAgree <=> MP!Tri!ReviewsAgree
    /\ T!ReceiptsStay <=> MP!Tri!ReceiptsStay
  BY DEF T!ConstantsOK, MP!Tri!ConstantsOK, T!vars, MP!Tri!vars, T!Absent, MP!Tri!Absent, T!Ready,
         MP!Tri!Ready, T!Pending, MP!Tri!Pending, T!NoRequest, MP!Tri!NoRequest, T!Init, MP!Tri!Init,
         T!ItemStep, MP!Tri!ItemStep, T!CloseBy, MP!Tri!CloseBy, T!Skip, MP!Tri!Skip, T!AdminSkip,
         MP!Tri!AdminSkip, T!Reopened, MP!Tri!Reopened, T!AdminRetry, MP!Tri!AdminRetry, T!Child,
         MP!Tri!Child, T!Split, MP!Tri!Split, T!Decision, MP!Tri!Decision, T!JudgedBy, MP!Tri!JudgedBy,
         T!Judged, MP!Tri!Judged, T!Due, MP!Tri!Due, T!Id, MP!Tri!Id, T!Applying, MP!Tri!Applying,
         T!ReopensNow, MP!Tri!ReopensNow, T!ReopenedBy, MP!Tri!ReopenedBy, T!Outcome, MP!Tri!Outcome,
         T!Post, MP!Tri!Post, T!MayApply, MP!Tri!MayApply, T!Effect, MP!Tri!Effect, T!Record,
         MP!Tri!Record, T!SettlesLater, MP!Tri!SettlesLater, T!SettlesFirst, MP!Tri!SettlesFirst, T!Sent,
         MP!Tri!Sent, T!JudgeOne, MP!Tri!JudgeOne, T!Judging, MP!Tri!Judging, T!Refuse, MP!Tri!Refuse,
         T!LeaseRequired, MP!Tri!LeaseRequired, T!WriteReceipt, MP!Tri!WriteReceipt, T!Answer,
         MP!Tri!Answer, T!Crash, MP!Tri!Crash, T!Begin, MP!Tri!Begin, T!LeaseEnds, MP!Tri!LeaseEnds,
         T!Review, MP!Tri!Review, T!Next, MP!Tri!Next, T!Spec, MP!Tri!Spec, T!TypeOK, MP!Tri!TypeOK,
         T!JudgedOnce, MP!Tri!JudgedOnce, T!MissedReopens, MP!Tri!MissedReopens, T!NeverLoops,
         MP!Tri!NeverLoops, T!ReceiptsStay, MP!Tri!ReceiptsStay, T!ReceiptsFinal, MP!Tri!ReceiptsFinal,
         T!ReviewsAgree, MP!Tri!ReviewsAgree, T!ReviewsSettle, MP!Tri!ReviewsSettle, T!Cardinality,
         MP!Tri!Cardinality

(* ... the notices, ... *)
LEMMA SameAttention ==
    /\ A!ConstantsOK <=> MP!Att!ConstantsOK
    /\ A!Init <=> MP!Att!Init
    /\ [A!Next]_(A!vars) <=> [MP!Att!Next]_(MP!Att!vars)
    /\ A!TypeOK <=> MP!Att!TypeOK
    /\ A!RaisedOnce <=> MP!Att!RaisedOnce
    /\ A!RaisesWhatIsDue <=> MP!Att!RaisesWhatIsDue
  BY DEF A!ConstantsOK, MP!Att!ConstantsOK, A!Outcomes, MP!Att!Outcomes, A!Reasons, MP!Att!Reasons,
         A!Days, MP!Att!Days, A!Notice, MP!Att!Notice, A!vars, MP!Att!vars, A!NoStart, MP!Att!NoStart,
         A!Init, MP!Att!Init, A!Move, MP!Att!Move, A!Fault, MP!Att!Fault, A!NextDay, MP!Att!NextDay,
         A!Push, MP!Att!Push, A!Review, MP!Att!Review, A!RevertReview, MP!Att!RevertReview, A!ItemMoves,
         MP!Att!ItemMoves, A!StaleFrom, MP!Att!StaleFrom, A!Basis, MP!Att!Basis, A!Unverified,
         MP!Att!Unverified, A!RowsOf, MP!Att!RowsOf, A!KeysOf, MP!Att!KeysOf, A!Swept, MP!Att!Swept,
         A!StartRun, MP!Att!StartRun, A!Plan, MP!Att!Plan, A!KnownByFirstKey, MP!Att!KnownByFirstKey,
         A!Known, MP!Att!Known, A!Waiting, MP!Att!Waiting, A!MayCreate, MP!Att!MayCreate, A!Enqueue,
         MP!Att!Enqueue, A!EndStart, MP!Att!EndStart, A!StartFails, MP!Att!StartFails, A!Next,
         MP!Att!Next, A!Spec, MP!Att!Spec, A!Docs, MP!Att!Docs, A!TypeOK, MP!Att!TypeOK,
         A!RaisesWhatIsDue, MP!Att!RaisesWhatIsDue, A!Raised, MP!Att!Raised, A!RaisedOnce,
         MP!Att!RaisedOnce, A!NoticesRaised, MP!Att!NoticesRaised, A!Cardinality, MP!Att!Cardinality

(* ... and an auditor's run. *)
LEMMA SameReviewer ==
    /\ R!ConstantsOK <=> MP!Rev!ConstantsOK
    /\ R!Init <=> MP!Rev!Init
    /\ [R!Next]_(R!vars) <=> [MP!Rev!Next]_(MP!Rev!vars)
    /\ R!VerdictsAccounted <=> MP!Rev!VerdictsAccounted
  BY DEF R!ConstantsOK, MP!Rev!ConstantsOK, R!Verdicts, MP!Rev!Verdicts, R!vars, MP!Rev!vars,
         R!writerVars, MP!Rev!writerVars, R!saved, MP!Rev!saved, R!historyVars, MP!Rev!historyVars,
         R!NoVerb, MP!Rev!NoVerb, R!Init, MP!Rev!Init, R!Idle, MP!Rev!Idle, R!Fault, MP!Rev!Fault,
         R!Change, MP!Rev!Change, R!Revert, MP!Rev!Revert, R!Paths, MP!Rev!Paths, R!Stands, MP!Rev!Stands,
         R!Corrected, MP!Rev!Corrected, R!Judge, MP!Rev!Judge, R!CurrentAny, MP!Rev!CurrentAny, R!Current,
         MP!Rev!Current, R!PullAll, MP!Rev!PullAll, R!PullNothing, MP!Rev!PullNothing, R!NextConcept,
         MP!Rev!NextConcept, R!Take, MP!Rev!Take, R!Open, MP!Rev!Open, R!Read, MP!Rev!Read, R!BaseOf,
         MP!Rev!BaseOf, R!Verdict, MP!Rev!Verdict, R!First, MP!Rev!First, R!Without, MP!Rev!Without,
         R!Post, MP!Rev!Post, R!Goes, MP!Rev!Goes, R!Submit, MP!Rev!Submit, R!Done, MP!Rev!Done,
         R!Refused, MP!Rev!Refused, R!Kept, MP!Rev!Kept, R!NoAnswer, MP!Rev!NoAnswer, R!Save, MP!Rev!Save,
         R!Dies, MP!Rev!Dies, R!Next, MP!Rev!Next, R!Spec, MP!Rev!Spec, R!AnyContent, MP!Rev!AnyContent,
         R!Records, MP!Rev!Records, R!TypeOK, MP!Rev!TypeOK, R!AllLanded, MP!Rev!AllLanded,
         R!JudgedAsRead, MP!Rev!JudgedAsRead, R!Sent, MP!Rev!Sent, R!Accounted, MP!Rev!Accounted,
         R!VerdictsAccounted, MP!Rev!VerdictsAccounted, R!Cardinality, MP!Rev!Cardinality

(* What a behaviour of a part keeps: of the runs of a host, of the stamps, ... *)
HostsInv ==
    /\ part = "maintainers" => MP!HostInv
    /\ part = "auditors" => VP!HostInv
StampsInv == part = "trust" => MP!TrustInv

(* ... of the reviews, of the notices, and of an auditor's run. *)
SkipsInv   == part = "triage" => MP!TriageInv
NoticesInv == part = "attention" => MP!AttentionInv
RunInv     == part = "reviewer" => MP!ReviewerInv

PartsInv == HostsInv /\ StampsInv /\ SkipsInv /\ NoticesInv /\ RunInv

(* They start so, ... *)
LEMMA PartsInit == AllInit => PartsInv
<1> SUFFICES ASSUME AllInit PROVE PartsInv  OBVIOUS
<1>1. ASSUME part = "maintainers"  PROVE MP!HostInv
  <2>1. MP!Init /\ MP!ConstantsOK  BY <1>1, SameMaintainers, RunsOK DEF AllInit
  <2> QED  BY <2>1, MP!HostInit
<1>2. ASSUME part = "auditors"  PROVE VP!HostInv
  <2>1. VP!Init /\ VP!ConstantsOK  BY <1>2, SameAuditors, RunsOK DEF AllInit
  <2> QED  BY <2>1, VP!HostInit
<1>3. ASSUME part = "trust"  PROVE MP!TrustInv
  <2>1. MP!U!Init /\ MP!U!ConstantsOK  BY <1>3, SameTrust, TrustOK DEF AllInit
  <2> QED  BY <2>1, MP!InitInv
<1>4. ASSUME part = "triage"  PROVE MP!TriageInv
  <2>1. MP!Tri!Init /\ MP!Tri!ConstantsOK  BY <1>4, SameTriage, TriageOK DEF AllInit
  <2> QED  BY <2>1, MP!TriageInit
<1>5. ASSUME part = "attention"  PROVE MP!AttentionInv
  <2>1. MP!Att!Init /\ MP!Att!ConstantsOK  BY <1>5, SameAttention, AttentionOK DEF AllInit
  <2> QED  BY <2>1, MP!AttentionInit
<1>6. ASSUME part = "reviewer"  PROVE MP!ReviewerInv
  <2>1. MP!Rev!Init /\ MP!Rev!ConstantsOK  BY <1>6, SameReviewer, ReviewerOK DEF AllInit
  <2> QED  BY <2>1, MP!ReviewerInit
<1> QED  BY <1>1, <1>2, <1>3, <1>4, <1>5, <1>6 DEF PartsInv, HostsInv, StampsInv, SkipsInv, NoticesInv, RunInv

(* A step of the composition is one of its part, or nothing there moves. *)
LEMMA PartSteps ==
    ASSUME [AllNext]_allVars
    PROVE  /\ part' = part
           /\ part = "maintainers" => [M!Next]_(M!vars)
           /\ part = "auditors" => [V!Next]_(V!vars)
           /\ part = "trust" => [U!Next]_(U!vars)
           /\ part = "triage" => [T!Next]_(T!vars)
           /\ part = "attention" => [A!Next]_(A!vars)
           /\ part = "reviewer" => [R!Next]_(R!vars)
<1>1. UNCHANGED work => /\ UNCHANGED M!vars /\ UNCHANGED V!vars /\ UNCHANGED U!vars
                        /\ UNCHANGED T!vars /\ UNCHANGED A!vars /\ UNCHANGED R!vars
  BY DEF work, M!vars, V!vars, U!vars, T!vars, A!vars, R!vars, R!writerVars, R!saved, R!historyVars
<1> QED  BY <1>1 DEF AllNext, allVars, EvidenceStep, TriageStep, AttentionStep, HostStep, ReviewerStep, TrustStep

(* ... and every step of the composition keeps it, and what the reviews and the notices promise of it. *)
LEMMA PartsNext ==
    ASSUME PartsInv, [AllNext]_allVars
    PROVE  /\ PartsInv'
           /\ part = "triage" => T!ReceiptsStay
           /\ part = "attention" => A!RaisesWhatIsDue
<1> USE DEF PartsInv
<1>1. part' = part  BY PartSteps
<1>2. ASSUME part = "maintainers"  PROVE MP!HostInv'
  <2>1. [MP!Next]_(MP!vars) /\ MP!ConstantsOK  BY <1>2, PartSteps, SameMaintainers, RunsOK
  <2> QED  BY <1>2, <2>1, MP!HostNext DEF HostsInv
<1>3. ASSUME part = "auditors"  PROVE VP!HostInv'
  <2>1. [VP!Next]_(VP!vars) /\ VP!ConstantsOK  BY <1>3, PartSteps, SameAuditors, RunsOK
  <2> QED  BY <1>3, <2>1, VP!HostNext DEF HostsInv
<1>4. ASSUME part = "trust"  PROVE MP!TrustInv'
  <2>1. [MP!U!Next]_(MP!U!vars) /\ MP!U!ConstantsOK  BY <1>4, PartSteps, SameTrust, TrustOK
  <2> QED  BY <1>4, <2>1, MP!NextInv DEF StampsInv
<1>5. ASSUME part = "triage"  PROVE MP!TriageInv' /\ T!ReceiptsStay
  <2>1. [MP!Tri!Next]_(MP!Tri!vars) /\ MP!Tri!ConstantsOK  BY <1>5, PartSteps, SameTriage, TriageOK
  <2>2. MP!TriageInv' /\ MP!Tri!ReceiptsStay  BY <1>5, <2>1, MP!TriageNext DEF SkipsInv
  <2> QED  BY <2>2, SameTriage
<1>6. ASSUME part = "attention"  PROVE MP!AttentionInv' /\ A!RaisesWhatIsDue
  <2>1. [MP!Att!Next]_(MP!Att!vars) /\ MP!Att!ConstantsOK  BY <1>6, PartSteps, SameAttention, AttentionOK
  <2>2. MP!AttentionInv  BY <1>6 DEF NoticesInv
  <2>3. MP!AttentionInv' /\ MP!Att!RaisesWhatIsDue  BY <2>1, <2>2, MP!AttentionNext, MP!AttentionRaises
  <2> QED  BY <2>3, SameAttention
<1>7. ASSUME part = "reviewer"  PROVE MP!ReviewerInv'
  <2>1. [MP!Rev!Next]_(MP!Rev!vars) /\ MP!Rev!ConstantsOK  BY <1>7, PartSteps, SameReviewer, ReviewerOK
  <2> QED  BY <1>7, <2>1, MP!ReviewerNext DEF RunInv
<1> QED  BY <1>1, <1>2, <1>3, <1>4, <1>5, <1>6, <1>7 DEF HostsInv, StampsInv, SkipsInv, NoticesInv, RunInv

(* Verifications and evidence are what they were written as, whoever writes and in whatever order *)
(* their edits land (TrustKept), for any concepts, texts, evidence and number of passes.          *)
THEOREM StampsAreKept == AllSpec => []TrustKept
<1>1. MP!TrustInv => MP!U!TrustKept  BY MP!InvKeepsTrust
<1>2. PartsInv => TrustKept  BY <1>1, SameTrust DEF PartsInv, StampsInv, TrustKept
<1> QED  BY <1>2, PartsInit, PartsNext, PTL DEF AllSpec

(* An update never replaces the program under a run of its host that it could see, a run's pointer *)
(* stands, and what an update said of the skills holds (UpdatesSpareRuns), for any number of runs  *)
(* and updates, any clock, deaths, lost answers and failed installs.                               *)
THEOREM RunsAreSpared == AllSpec => []UpdatesSpareRuns
<1>1. MP!ConstantsOK /\ VP!ConstantsOK  BY SameMaintainers, SameAuditors, RunsOK
<1>2. (MP!HostInv => MP!UpdatesSpareRuns) /\ (VP!HostInv => VP!UpdatesSpareRuns)
  BY <1>1, MP!HostSafe, VP!HostSafe
<1>3. PartsInv => UpdatesSpareRuns
  BY <1>2, SameMaintainers, SameAuditors DEF PartsInv, HostsInv, UpdatesSpareRuns
<1> QED  BY <1>3, PartsInit, PartsNext, PTL DEF AllSpec

(* A receipt says of its item what became of it, a skip is judged once a close and reopened at    *)
(* most once by reviews, and a settled receipt is final (ReviewsSettle), for any items, runs,     *)
(* auditors and crashes of the service between the writes of a review.                            *)
THEOREM ReviewsAreSettled == AllSpec => ReviewsSettle
<1>1. MP!TriageInv => MP!Tri!ReviewsAgree
  <2>1. MP!Tri!ConstantsOK  BY SameTriage, TriageOK
  <2> QED  BY <2>1, MP!TriageSafe
<1>2. PartsInv => (part = "triage" => T!ReviewsAgree)  BY <1>1, SameTriage DEF PartsInv, SkipsInv
<1>3. PartsInv /\ [AllNext]_allVars => PartsInv' /\ [part = "triage" => T!ReceiptsStay]_allVars  BY PartsNext
<1> QED  BY <1>2, <1>3, PartsInit, PTL DEF AllSpec, ReviewsSettle

(* No two items hold one notice, and a run start that ends well leaves nothing that was due       *)
(* unraised but for the cap (NoticesRaised), for any concepts, contents, cap, calendar and any     *)
(* run starts that die half way.                                                                   *)
THEOREM NoticesAreRaised == AllSpec => NoticesRaised
<1>1. MP!AttentionInv => MP!Att!TypeOK /\ MP!Att!RaisedOnce  BY MP!AttentionSafe
<1>2. PartsInv => (part = "attention" => A!TypeOK /\ A!RaisedOnce)
  BY <1>1, SameAttention DEF PartsInv, NoticesInv
<1>3. PartsInv /\ [AllNext]_allVars => PartsInv' /\ [part = "attention" => A!RaisesWhatIsDue]_allVars
  BY PartsNext
<1> QED  BY <1>2, <1>3, PartsInit, PTL DEF AllSpec, NoticesRaised

(* A verdict lands on the content its auditor read, and is pending, in the receipts or dropped     *)
(* and rightly so (VerdictsAccounted), for any concepts, batches, changes by others, deaths and     *)
(* lost answers.                                                                                    *)
THEOREM VerdictsAreAccounted == AllSpec => []VerdictsAccounted
<1>1. MP!ReviewerInv => MP!Rev!VerdictsAccounted
  <2>1. MP!Rev!ConstantsOK  BY SameReviewer, ReviewerOK
  <2> QED  BY <2>1, MP!ReviewerSafe
<1>2. PartsInv => VerdictsAccounted  BY <1>1, SameReviewer DEF PartsInv, RunInv, VerdictsAccounted
<1> QED  BY <1>2, PartsInit, PartsNext, PTL DEF AllSpec
=============================================================================
