-------------------------- MODULE WriterTxn_proofs --------------------------
(***************************************************************************)
(* Proofs about WriterTxn, for any jobs and items and any number of pushes,*)
(* foreign commits and crashes: the type invariant, that the clone is      *)
(* clean between jobs, that receipts, closed items and branch agree, and   *)
(* that the writer implements JobOutcome.                                  *)
(*                                                                         *)
(* A property of the branch is stated with Carries(remote, j), the remote  *)
(* branch holds the edits of j (Published in WriterTxn).                   *)
(***************************************************************************)
EXTENDS WriterTxn, SequencesExt, SequenceTheorems, FiniteSetTheorems, TLAPS

-----------------------------------------------------------------------------
(* Prefixes of sequences: a branch is its history, and "is an ancestor of" is "is a prefix of". *)

(* A prefix is no longer, and equal as far as it goes. *)
LEMMA PrefixPointwise ==
    ASSUME NEW S, NEW s \in Seq(S), NEW t \in Seq(S)
    PROVE  IsPrefix(s, t) <=> Len(s) <= Len(t) /\ \A k \in 1..Len(s) : s[k] = t[k]
<1>1. CASE Len(s) <= Len(t)
  <2>1. /\ SubSeq(s, 1, Len(s)) \in Seq(S) /\ Len(SubSeq(s, 1, Len(s))) = Len(s)
        /\ \A k \in 1..Len(s) : SubSeq(s, 1, Len(s))[k] = s[k]
    BY SubSeqProperties, LenProperties
  <2>2. /\ SubSeq(t, 1, Len(s)) \in Seq(S) /\ Len(SubSeq(t, 1, Len(s))) = Len(s)
        /\ \A k \in 1..Len(s) : SubSeq(t, 1, Len(s))[k] = t[k]
    BY <1>1, SubSeqProperties, LenProperties
  <2>3. ASSUME \A k \in 1..Len(s) : s[k] = t[k]
        PROVE  SubSeq(s, 1, Len(s)) = SubSeq(t, 1, Len(s))
    <3>1. \A k \in 1..Len(s) : SubSeq(s, 1, Len(s))[k] = SubSeq(t, 1, Len(s))[k]
      BY <2>1, <2>2, <2>3
    <3> QED BY <2>1, <2>2, <3>1, SeqEqual
  <2>4. ASSUME SubSeq(s, 1, Len(s)) = SubSeq(t, 1, Len(s)), NEW k \in 1..Len(s)
        PROVE  s[k] = t[k]
    BY <2>1, <2>2, <2>4
  <2> QED BY <1>1, <2>3, <2>4 DEF IsPrefix
<1>2. CASE ~(Len(s) <= Len(t))
  BY <1>2 DEF IsPrefix
<1> QED BY <1>1, <1>2

(* Every history is a prefix of itself. *)
LEMMA PrefixReflexive ==
    ASSUME NEW S, NEW s \in Seq(S)
    PROVE  IsPrefix(s, s)
<1>1. Len(s) \in Nat BY LenProperties
<1> QED BY <1>1, PrefixPointwise

(* A prefix of a prefix is a prefix. *)
LEMMA PrefixTransitive ==
    ASSUME NEW S, NEW s \in Seq(S), NEW t \in Seq(S), NEW u \in Seq(S),
           IsPrefix(s, t), IsPrefix(t, u)
    PROVE  IsPrefix(s, u)
<1>1. Len(s) \in Nat /\ Len(t) \in Nat /\ Len(u) \in Nat BY LenProperties
<1>2. Len(s) <= Len(t) /\ \A k \in 1..Len(s) : s[k] = t[k] BY PrefixPointwise
<1>3. Len(t) <= Len(u) /\ \A k \in 1..Len(t) : t[k] = u[k] BY PrefixPointwise
<1>4. Len(s) <= Len(u) /\ \A k \in 1..Len(s) : s[k] = u[k] BY <1>1, <1>2, <1>3
<1> QED BY <1>4, PrefixPointwise

(* Of two prefixes of one history, one is a prefix of the other. *)
LEMMA PrefixesOfOne ==
    ASSUME NEW S, NEW s \in Seq(S), NEW t \in Seq(S), NEW u \in Seq(S),
           IsPrefix(s, u), IsPrefix(t, u)
    PROVE  IsPrefix(s, t) \/ IsPrefix(t, s)
<1>1. Len(s) \in Nat /\ Len(t) \in Nat /\ Len(u) \in Nat BY LenProperties
<1>2. Len(s) <= Len(u) /\ \A k \in 1..Len(s) : s[k] = u[k] BY PrefixPointwise
<1>3. Len(t) <= Len(u) /\ \A k \in 1..Len(t) : t[k] = u[k] BY PrefixPointwise
<1>4. CASE Len(s) <= Len(t)
  <2>1. \A k \in 1..Len(s) : s[k] = t[k] BY <1>1, <1>2, <1>3, <1>4
  <2> QED BY <1>4, <2>1, PrefixPointwise
<1>5. CASE Len(t) <= Len(s)
  <2>1. \A k \in 1..Len(t) : t[k] = s[k] BY <1>1, <1>2, <1>3, <1>5
  <2> QED BY <1>5, <2>1, PrefixPointwise
<1> QED BY <1>1, <1>4, <1>5

(* Two histories that are prefixes of each other are the same. *)
LEMMA PrefixAntisymmetric ==
    ASSUME NEW S, NEW s \in Seq(S), NEW t \in Seq(S), IsPrefix(s, t), IsPrefix(t, s)
    PROVE  s = t
<1>1. Len(s) \in Nat /\ Len(t) \in Nat BY LenProperties
<1>2. Len(s) <= Len(t) /\ \A k \in 1..Len(s) : s[k] = t[k] BY PrefixPointwise
<1>3. Len(t) <= Len(s) BY PrefixPointwise
<1>4. Len(s) = Len(t) BY <1>1, <1>2, <1>3
<1> QED BY <1>2, <1>4, SeqEqual

(* One more commit: what is a prefix of the longer history, and what it is.     *)
LEMMA PrefixOfAppend ==
    ASSUME NEW S, NEW s \in Seq(S), NEW t \in Seq(S), NEW e \in S
    PROVE  /\ Append(s, e) \in Seq(S) /\ Append(s, e) # <<>> /\ Append(s, e) # s
           /\ IsPrefix(s, Append(s, e))
           /\ IsPrefix(t, Append(s, e)) <=> IsPrefix(t, s) \/ t = Append(s, e)
           /\ ~IsPrefix(Append(s, e), s)
<1> DEFINE a == Append(s, e)
<1>1. /\ a \in Seq(S) /\ Len(a) = Len(s) + 1 /\ a[Len(s) + 1] = e
      /\ \A k \in 1..Len(s) : a[k] = s[k]
  BY AppendProperties
<1>2. Len(s) \in Nat /\ Len(t) \in Nat /\ Len(a) \in Nat BY <1>1, LenProperties
<1> HIDE DEF a
<1>3. a # <<>> BY <1>1, <1>2, EmptySeq
<1>4. a # s BY <1>1, <1>2
<1>5. IsPrefix(s, a) BY <1>1, <1>2, PrefixPointwise
<1>6. ASSUME IsPrefix(t, a), t # a PROVE IsPrefix(t, s)
  <2>1. Len(t) <= Len(a) /\ \A k \in 1..Len(t) : t[k] = a[k] BY <1>1, <1>6, PrefixPointwise
  <2>2. Len(t) # Len(a) BY <1>1, <1>6, <2>1, SeqEqual
  <2>3. Len(t) <= Len(s) /\ \A k \in 1..Len(t) : t[k] = s[k] BY <1>1, <1>2, <2>1, <2>2
  <2> QED BY <2>3, PrefixPointwise
<1>7. IsPrefix(t, s) => IsPrefix(t, a) BY <1>1, <1>5, PrefixTransitive
<1>8. t = a => IsPrefix(t, a) BY <1>1, PrefixReflexive
<1>9. ~IsPrefix(a, s) BY <1>1, <1>2, PrefixPointwise
<1> QED BY <1>1, <1>3, <1>4, <1>5, <1>6, <1>7, <1>8, <1>9 DEF a

(* Whether some element of the history holds m. *)
Carries(h, m) == \E k \in 1..Len(h) : m \in h[k]

(* A longer history carries what a shorter one does. *)
LEMMA CarriesPrefix ==
    ASSUME NEW S, NEW s \in Seq(S), NEW t \in Seq(S), NEW m, IsPrefix(s, t), Carries(s, m)
    PROVE  Carries(t, m)
<1>1. Len(s) \in Nat /\ Len(t) \in Nat BY LenProperties
<1>2. Len(s) <= Len(t) /\ \A k \in 1..Len(s) : s[k] = t[k] BY PrefixPointwise
<1>3. PICK k \in 1..Len(s) : m \in s[k] BY DEF Carries
<1>4. k \in 1..Len(t) /\ m \in t[k] BY <1>1, <1>2, <1>3
<1> QED BY <1>4 DEF Carries

(* A commit adds what it holds, and nothing else. *)
LEMMA CarriesAppend ==
    ASSUME NEW S, NEW s \in Seq(S), NEW e \in S, NEW m
    PROVE  Carries(Append(s, e), m) <=> Carries(s, m) \/ m \in e
<1> DEFINE a == Append(s, e)
<1>1. /\ a \in Seq(S) /\ Len(a) = Len(s) + 1 /\ a[Len(s) + 1] = e
      /\ \A k \in 1..Len(s) : a[k] = s[k]
  BY AppendProperties
<1>2. Len(s) \in Nat BY LenProperties
<1> HIDE DEF a
<1>3. ASSUME Carries(s, m) PROVE Carries(a, m)
  <2>1. PICK k \in 1..Len(s) : m \in s[k] BY <1>3 DEF Carries
  <2>2. k \in 1..Len(a) /\ m \in a[k] BY <1>1, <1>2, <2>1
  <2> QED BY <2>2 DEF Carries
<1>4. ASSUME m \in e PROVE Carries(a, m)
  <2>1. Len(s) + 1 \in 1..Len(a) BY <1>1, <1>2
  <2>2. m \in a[Len(s) + 1] BY <1>1, <1>4
  <2> QED BY <2>1, <2>2 DEF Carries
<1>5. ASSUME Carries(a, m), m \notin e PROVE Carries(s, m)
  <2>1. PICK k \in 1..Len(a) : m \in a[k] BY <1>5 DEF Carries
  <2>2. k # Len(s) + 1 BY <1>1, <1>5, <2>1
  <2>3. k \in 1..Len(s) BY <1>1, <1>2, <2>1, <2>2
  <2>4. m \in s[k] BY <1>1, <2>1, <2>3
  <2> QED BY <2>3, <2>4 DEF Carries
<1> QED BY <1>3, <1>4, <1>5 DEF a

(* No element of a history holds two members, and no two elements hold one. *)
OnePlace(h) ==
    /\ \A k \in 1..Len(h) : h[k] = {} \/ \E m \in h[k] : h[k] = {m}
    /\ \A k, l \in 1..Len(h) : h[k] \cap h[l] # {} => k = l

(* A commit of one new member, or of none, keeps every member in one place. *)
LEMMA OnePlaceAppend ==
    ASSUME NEW S, NEW s \in Seq(S), NEW e \in S, OnePlace(s),
           e = {} \/ \E m \in e : e = {m} /\ ~Carries(s, m)
    PROVE  OnePlace(Append(s, e))
<1> DEFINE a == Append(s, e)
<1>1. /\ a \in Seq(S) /\ Len(a) = Len(s) + 1 /\ a[Len(s) + 1] = e
      /\ \A k \in 1..Len(s) : a[k] = s[k]
  BY AppendProperties
<1>2. Len(s) \in Nat BY LenProperties
<1> HIDE DEF a
<1>3. \A k \in 1..Len(s) : s[k] \cap e = {} BY DEF Carries
<1>4. ASSUME NEW k \in 1..Len(a) PROVE a[k] = {} \/ \E m \in a[k] : a[k] = {m}
  <2>1. CASE k \in 1..Len(s) BY <1>1, <2>1 DEF OnePlace
  <2>2. CASE k = Len(s) + 1 BY <1>1, <2>2
  <2> QED BY <1>1, <1>2, <2>1, <2>2
<1>5. ASSUME NEW k \in 1..Len(a), NEW l \in 1..Len(a), a[k] \cap a[l] # {} PROVE k = l
  <2>1. CASE k \in 1..Len(s) /\ l \in 1..Len(s) BY <1>1, <1>5, <2>1 DEF OnePlace
  <2>2. CASE k \in 1..Len(s) /\ l = Len(s) + 1 BY <1>1, <1>3, <1>5, <2>2
  <2>3. CASE l \in 1..Len(s) /\ k = Len(s) + 1 BY <1>1, <1>3, <1>5, <2>3
  <2> QED BY <1>1, <1>2, <2>1, <2>2, <2>3
<1> QED BY <1>4, <1>5 DEF OnePlace, a

(* How many elements hold m: one or none. *)
LEMMA OnePlaceCount ==
    ASSUME NEW S, NEW s \in Seq(S), NEW m, OnePlace(s)
    PROVE  Cardinality({k \in DOMAIN s : m \in s[k]}) = IF Carries(s, m) THEN 1 ELSE 0
<1>1. DOMAIN s = 1..Len(s) BY LenProperties
<1>2. CASE Carries(s, m)
  <2>1. PICK k \in 1..Len(s) : m \in s[k] BY <1>2 DEF Carries
  <2>2. {i \in DOMAIN s : m \in s[i]} = {k} BY <1>1, <2>1 DEF OnePlace
  <2> QED BY <1>2, <2>2, FS_Singleton
<1>3. CASE ~Carries(s, m)
  <2>1. {i \in DOMAIN s : m \in s[i]} = {} BY <1>1, <1>3 DEF Carries
  <2> QED BY <1>3, <2>1, FS_EmptySet
<1> QED BY <1>2, <1>3

-----------------------------------------------------------------------------
(* The worker thread has at most one running job, and knows what it may do.      *)
Thread ==
    /\ (worker.job = NoJob) <=> (worker.step \in {"idle", "down"})
    /\ worker.job # NoJob => jobs[worker.job].status = "running"
    /\ \A j \in Jobs : jobs[j].status = "running" => worker.step = "down" \/ worker.job = j
    /\ \A j1, j2 \in Jobs :
           jobs[j1].status = "running" /\ jobs[j2].status = "running" => j1 = j2
    /\ \A j \in queue : jobs[j].status = "queued"
    /\ \A j \in worker.tried : jobs[j].status = "done"
    /\ worker.step \in {"push", "integrate"} => worker.pushes < MaxAttempts
    /\ worker.step = "closeout" => worker.job \in Changesets

(* Commits of the branch are foreign or one job's, and the clone knows a part.   *)
Branch ==
    /\ remote # NoCommit /\ local # NoCommit
    /\ OnePlace(remote)
    /\ IsPrefix(tracking, remote)

(* Nothing uncommitted, and nothing committed that the remote is not known to have. *)
Clean == tree = {} /\ IsPrefix(local, tracking)

(* A history that ends in a commit of the job.                                   *)
EndsWith(h, j) == \E q \in Histories : h = Append(q, {j})

(* One commit of the job on top of a part of the branch without any.             *)
OneAhead(h, branch, j) ==
    \E p \in Histories : h = Append(p, {j}) /\ IsPrefix(p, branch) /\ ~Carries(p, j)

(* What the clone holds at each step.                                            *)
CloneAt ==
    /\ worker.step \in {"idle", "start", "sync", "produce", "pushed", "closeout", "finish", "fail"}
           => Clean
    /\ worker.step = "commit" => tree = {worker.job} /\ IsPrefix(local, tracking)
    /\ worker.step \in {"save", "push", "integrate"} => tree = {} /\ OneAhead(local, tracking, worker.job)
    /\ (\A j \in Jobs : jobs[j].status # "running") => Clean \/ worker.step # "down"

(* Where a rollback, of this process or of the next one, goes back to.           *)
WayBack ==
    /\ \A j \in Jobs : jobs[j].status = "running" =>
           IF jobs[j].base = NoCommit
           THEN worker.step \in {"start", "down"} /\ Clean /\ jobs[j].commit = NoCommit
           ELSE IsPrefix(jobs[j].base, tracking)
    /\ worker.refs # NoCommit =>
           /\ IsPrefix(worker.refs, remote)
           /\ worker.job # NoJob => IsPrefix(jobs[worker.job].base, worker.refs)
    /\ worker.step \in {"start", "sync"} => worker.refs = NoCommit

(* What a job has done at each step of the worker.                               *)
Progress ==
    LET j == worker.job
        r == jobs[worker.job]
    IN  /\ worker.step \in {"start", "sync", "produce"} => ~r.edited
        /\ worker.step \in {"commit", "save", "push", "integrate", "pushed"} => r.edited
        /\ worker.step \in {"start", "sync", "produce", "commit"} => r.commit = NoCommit
        /\ worker.step \in {"push", "integrate", "pushed"} => r.commit = local
        /\ worker.step = "save" /\ Carries(remote, j) => r.commit = local
        /\ worker.step \in {"save", "push", "integrate", "rollback", "fail"} /\ Carries(remote, j)
               => j \in lapsed
        /\ worker.step \in {"closeout", "finish"} /\ r.edited
               => r.commit # NoCommit /\ IsPrefix(r.commit, remote)
        /\ worker.step \in {"idle", "down", "finish", "closeout"} \/ \A i \in Items : curated[i] # j
        /\ worker.step = "finish" /\ j \in Changesets => r.closed # "no"

(* What a job record says of the branch, whatever the step.                      *)
Recorded(j) ==
    /\ jobs[j].commit # NoCommit =>
           jobs[j].edited /\ EndsWith(jobs[j].commit, j)
    /\ Carries(remote, j) => jobs[j].edited
    /\ jobs[j].status \in {"absent", "queued"} =>
           jobs[j].base = NoCommit /\ jobs[j].commit = NoCommit /\ ~jobs[j].edited
    /\ jobs[j].status = "running" /\ Carries(remote, j) =>
           jobs[j].commit # NoCommit /\ IsPrefix(jobs[j].commit, remote)
    /\ jobs[j].status = "done" /\ jobs[j].edited =>
           jobs[j].commit # NoCommit /\ IsPrefix(jobs[j].commit, remote)
    /\ jobs[j].status = "failed" /\ Carries(remote, j) => j \in lapsed
    /\ jobs[j].closed = "error" => j \in lapsed
    /\ jobs[j].closed = "yes" => j \in Changesets /\ curated[ItemOf[j]] # NoJob
    /\ jobs[j].status \in {"absent", "queued"} => jobs[j].closed = "no"

(* An item is closed by one of its changesets, whose edits are on the branch.    *)
ClosedRight ==
    \A i \in Items : curated[i] # NoJob =>
        /\ ItemOf[curated[i]] = i
        /\ jobs[curated[i]].status \notin {"absent", "queued"}
        /\ jobs[curated[i]].edited => Carries(remote, curated[i])

(* A published changeset has closed its item, or will before the worker takes    *)
(* another job, unless something lapsed; and the running one is alone.           *)
Alone ==
    /\ \A j \in Changesets :
           Carries(remote, j) /\ j \notin lapsed /\ curated[ItemOf[j]] = NoJob =>
               \/ jobs[j].status = "running"
               \/ /\ jobs[j].status = "done" /\ worker.step = "down"
                  /\ jobs[j].closed = "no" /\ j \notin worker.tried
    /\ \A j1, j2 \in Changesets :
           j1 # j2 /\ ItemOf[j1] = ItemOf[j2] /\ jobs[j2].status = "running"
               /\ Carries(remote, j1) => j1 \in lapsed
    /\ \A j1, j2 \in Changesets :
           j1 # j2 /\ ItemOf[j1] = ItemOf[j2] /\ Carries(remote, j1) /\ Carries(remote, j2)
               => {j1, j2} \cap lapsed # {}

(* Every job's record agrees with the branch. *)
RecordInv == \A j \in Jobs : Recorded(j)

(* The inductive invariant of the writer. *)
WriterInv == /\ TypeOK /\ Thread /\ Branch /\ CloneAt /\ WayBack
             /\ Progress /\ RecordInv /\ ClosedRight /\ Alone

-----------------------------------------------------------------------------
(* The lemmas about prefixes, for histories. *)

(* Being an ancestor is a partial order, and total below one commit. *)
LEMMA Ancestry ==
    ASSUME NEW s \in Histories, NEW t \in Histories, NEW u \in Histories
    PROVE  /\ IsPrefix(s, s)
           /\ IsPrefix(s, t) /\ IsPrefix(t, u) => IsPrefix(s, u)
           /\ IsPrefix(s, u) /\ IsPrefix(t, u) => IsPrefix(s, t) \/ IsPrefix(t, s)
           /\ IsPrefix(s, t) /\ IsPrefix(t, s) => s = t
  BY PrefixReflexive, PrefixTransitive, PrefixesOfOne, PrefixAntisymmetric DEF Histories

(* What one more commit is an ancestor of, and what is one of it. *)
LEMMA OneCommitMore ==
    ASSUME NEW s \in Histories, NEW t \in Histories, NEW e \in Commits
    PROVE  /\ Append(s, e) \in Histories /\ Append(s, e) # NoCommit /\ Append(s, e) # s
           /\ IsPrefix(s, Append(s, e))
           /\ IsPrefix(t, Append(s, e)) <=> IsPrefix(t, s) \/ t = Append(s, e)
           /\ ~IsPrefix(Append(s, e), s)
  BY PrefixOfAppend DEF Histories, NoCommit

(* A branch carries what its ancestors do. *)
LEMMA CarriedOn ==
    ASSUME NEW s \in Histories, NEW t \in Histories, NEW j, IsPrefix(s, t), Carries(s, j)
    PROVE  Carries(t, j)
  BY CarriesPrefix DEF Histories

(* A commit adds the edits it holds. *)
LEMMA CarriedMore ==
    ASSUME NEW s \in Histories, NEW e \in Commits, NEW j
    PROVE  Carries(Append(s, e), j) <=> Carries(s, j) \/ j \in e
  BY CarriesAppend DEF Histories

(* Published(j) of WriterTxn, in the words of prefixes. *)
LEMMA PublishedIsCarried ==
    ASSUME remote \in Histories, NEW j
    PROVE  Published(j) <=> Carries(remote, j)
<1>1. DOMAIN remote = 1..Len(remote) BY LenProperties DEF Histories
<1> QED BY <1>1 DEF Published, Carries

(* Nothing to move: the rebase of a part of the branch is the branch.           *)
LEMMA RebaseUpToDate ==
    ASSUME NEW s \in Histories, NEW t \in Histories, IsPrefix(s, t)
    PROVE  Rebase(s, t) = t
<1> DEFINE forks == {k \in 0..Len(s) : IsPrefix(SubSeq(s, 1, k), t)}
<1>1. Len(s) \in Nat BY LenProperties DEF Histories
<1>2. SubSeq(s, 1, Len(s)) = s
  <2>1. /\ SubSeq(s, 1, Len(s)) \in Seq(Commits) /\ Len(SubSeq(s, 1, Len(s))) = Len(s)
        /\ \A k \in 1..Len(s) : SubSeq(s, 1, Len(s))[k] = s[k]
    BY <1>1, SubSeqProperties DEF Histories
  <2> QED BY <2>1, SeqEqual DEF Histories
<1>3. Len(s) \in forks /\ forks \subseteq 0..Len(s)
  <2>1. IsPrefix(SubSeq(s, 1, Len(s)), t) BY <1>2
  <2>2. Len(s) \in 0..Len(s) BY <1>1
  <2> QED BY <2>1, <2>2, Zenon
<1>4. Max(forks) = Len(s)
  <2>1. Len(s) \in forks /\ \A y \in forks : Len(s) >= y BY <1>1, <1>3
  <2>2. \A x \in forks : (\A y \in forks : x >= y) => x = Len(s) BY <1>1, <1>3
  <2> HIDE DEF forks
  <2> QED BY <2>1, <2>2 DEF Max
<1>5. SubSeq(s, Len(s) + 1, Len(s)) = <<>>
  <2>1. SubSeq(s, Len(s) + 1, Len(s)) \in Seq(Commits) /\ Len(SubSeq(s, Len(s) + 1, Len(s))) = 0
    BY <1>1, SubSeqProperties DEF Histories
  <2> QED BY <2>1, EmptySeq
<1>6. t \o <<>> = t BY ConcatEmptySeq DEF Histories
<1> QED BY <1>4, <1>5, <1>6 DEF Rebase

(* One commit to move: the rebase of a commit made on a part of the branch is   *)
(* that commit on top of the branch.                                            *)
LEMMA RebaseOne ==
    ASSUME NEW p \in Histories, NEW t \in Histories, NEW e \in Commits,
           IsPrefix(p, t), ~IsPrefix(Append(p, e), t)
    PROVE  Rebase(Append(p, e), t) = Append(t, e)
<1> DEFINE s == Append(p, e)
           forks == {k \in 0..Len(s) : IsPrefix(SubSeq(s, 1, k), t)}
<1>1. /\ s \in Seq(Commits) /\ Len(s) = Len(p) + 1 /\ s[Len(p) + 1] = e
      /\ \A k \in 1..Len(p) : s[k] = p[k]
  BY AppendProperties DEF Histories
<1>2. Len(p) \in Nat BY LenProperties DEF Histories
<1> HIDE DEF s
<1>3. SubSeq(s, 1, Len(s)) = s
  <2>1. /\ SubSeq(s, 1, Len(s)) \in Seq(Commits) /\ Len(SubSeq(s, 1, Len(s))) = Len(s)
        /\ \A k \in 1..Len(s) : SubSeq(s, 1, Len(s))[k] = s[k]
    BY <1>1, <1>2, SubSeqProperties
  <2> QED BY <1>1, <2>1, SeqEqual
<1>4. SubSeq(s, 1, Len(p)) = p
  <2>1. /\ SubSeq(s, 1, Len(p)) \in Seq(Commits) /\ Len(SubSeq(s, 1, Len(p))) = Len(p)
        /\ \A k \in 1..Len(p) : SubSeq(s, 1, Len(p))[k] = s[k]
    BY <1>1, <1>2, SubSeqProperties
  <2>2. \A k \in 1..Len(p) : SubSeq(s, 1, Len(p))[k] = p[k] BY <1>1, <2>1
  <2> QED BY <2>1, <2>2, SeqEqual DEF Histories
<1>5. Len(p) \in forks
  <2>1. IsPrefix(SubSeq(s, 1, Len(p)), t) BY <1>4
  <2>2. Len(p) \in 0..Len(s) BY <1>1, <1>2
  <2> QED BY <2>1, <2>2, Zenon
<1>6. Len(s) \notin forks BY <1>3 DEF s
<1>7. forks \subseteq 0..Len(s) OBVIOUS
<1>8. Max(forks) = Len(p)
  <2> HIDE DEF forks
  <2>1. \A y \in forks : Len(p) >= y BY <1>1, <1>2, <1>6, <1>7
  <2>2. \A x \in forks : (\A y \in forks : x >= y) => x = Len(p) BY <1>2, <1>5, <1>7, <2>1, <1>1
  <2> QED BY <1>5, <2>1, <2>2 DEF Max
<1>9. SubSeq(s, Len(p) + 1, Len(s)) = <<e>>
  <2>1. /\ SubSeq(s, Len(p) + 1, Len(s)) \in Seq(Commits)
        /\ Len(SubSeq(s, Len(p) + 1, Len(s))) = 1
        /\ SubSeq(s, Len(p) + 1, Len(s))[1] = s[Len(p) + 1]
    BY <1>1, <1>2, SubSeqProperties
  <2>2. <<e>> \in Seq(Commits) /\ Len(<<e>>) = 1 /\ <<e>>[1] = e OBVIOUS
  <2>3. ASSUME NEW q \in Seq(Commits), NEW r \in Seq(Commits), Len(q) = 1, Len(r) = 1, q[1] = r[1]
        PROVE  q = r
    BY <2>3, SeqEqual
  <2> QED BY <1>1, <2>1, <2>2, <2>3
<1>10. t \o <<e>> = Append(t, e) BY AppendIsConcat DEF Histories
<1> QED BY <1>8, <1>9, <1>10 DEF Rebase, s

-----------------------------------------------------------------------------
(* What steps of one kind share. *)

USE DEF At, Goto, Rest, git, others

(* The type of the worker's memory. *)
WorkerRecords == [step: Steps, job: Jobs \cup {NoJob}, pushes: 0..MaxAttempts,
                  refs: Histories, tried: SUBSET Changesets]

(* A record stays a record when a field is set.                                  *)
LEMMA RecordFields ==
    ASSUME NEW r \in JobRecord, NEW h \in Histories
    PROVE  /\ \A s \in {"queued", "running", "done", "failed"} : [r EXCEPT !.status = s] \in JobRecord
           /\ \A p \in {"done", "rolled_back"}, s \in {"done", "failed"} :
                  [r EXCEPT !.status = s, !.phase = p] \in JobRecord
           /\ \A p \in {"syncing", "prepared"} : [r EXCEPT !.base = h, !.phase = p] \in JobRecord
           /\ \A p \in {"committed", "pushed"} : [r EXCEPT !.commit = h, !.phase = p] \in JobRecord
           /\ [r EXCEPT !.edited = TRUE] \in JobRecord
           /\ \A c \in {"yes", "error"} : [r EXCEPT !.closed = c] \in JobRecord
  BY DEF JobRecord

(* A worker without a job has the worker's type. *)
LEMMA RestIsRecord ==
    ASSUME NEW s \in Steps
    PROVE  Rest(s) \in WorkerRecords
<1>1. NoCommit \in Histories /\ 0 \in 0..MaxAttempts
  BY ConstantsOK DEF NoCommit, Histories, ConstantsOK
<1> QED BY <1>1 DEF WorkerRecords

(* A branch that grows keeps its prefixes and what it carries.                   *)
LEMMA BranchGrows ==
    ASSUME NEW s \in Histories, NEW t \in Histories, IsPrefix(s, t)
    PROVE  /\ \A h \in Histories : IsPrefix(h, s) => IsPrefix(h, t)
           /\ \A j : Carries(s, j) => Carries(t, j)
  BY Ancestry, CarriedOn

(* A step of the running worker that changes neither the branch nor a record.    *)
LEMMA QuietStep ==
    ASSUME WriterInv, worker.step # "down", UNCHANGED <<remote, jobs, curated, lapsed>>
    PROVE  RecordInv' /\ ClosedRight' /\ Alone'
<1>1. RecordInv' BY DEF WriterInv, RecordInv, Recorded
<1>2. ClosedRight' BY DEF WriterInv, ClosedRight
<1>3. Alone' BY DEF WriterInv, Alone
<1> QED BY <1>1, <1>2, <1>3

-----------------------------------------------------------------------------
(* One lemma per action: it keeps the invariant. *)

(* A push by somebody else only lengthens the branch (curate.py knows nothing of it). *)
LEMMA ForeignPushStep ==
    ASSUME WriterInv, ForeignPush
    PROVE  WriterInv'
<1>1. /\ remote' \in Histories /\ remote' # NoCommit /\ IsPrefix(remote, remote')
      /\ \A j : Carries(remote', j) <=> Carries(remote, j)
  <2>1. remote' = Append(remote, Foreign) /\ remote \in Histories /\ Foreign \in Commits
    BY DEF WriterInv, TypeOK, ForeignPush, Foreign, Commits
  <2>2. \A j : j \notin Foreign BY DEF Foreign
  <2> QED BY <2>1, <2>2, OneCommitMore, CarriedMore
<1>2. OnePlace(remote')
  BY OnePlaceAppend DEF WriterInv, TypeOK, Branch, ForeignPush, Foreign, Histories, Commits
<1>3. \A h \in Histories : IsPrefix(h, remote) => IsPrefix(h, remote')
  BY <1>1, BranchGrows DEF WriterInv, TypeOK
<1>4. TypeOK' BY <1>1 DEF WriterInv, TypeOK, ForeignPush
<1>5. Thread' BY DEF WriterInv, Thread, ForeignPush
<1>6. Branch' BY <1>1, <1>2, <1>3 DEF WriterInv, TypeOK, Branch, ForeignPush
<1>7. CloneAt' BY DEF WriterInv, CloneAt, Clean, ForeignPush
<1>8. WayBack' BY <1>3 DEF WriterInv, TypeOK, WayBack, Clean, ForeignPush
<1>9. Progress'
  <2>1. worker.job # NoJob => jobs[worker.job].commit \in Histories
    BY DEF WriterInv, TypeOK, JobRecord
  <2> QED BY <1>1, <1>3, <2>1, ConstantsOK DEF WriterInv, TypeOK, Thread, Progress, ForeignPush
<1>10. RecordInv'
  <2>1. ASSUME NEW j \in Jobs PROVE Recorded(j)'
    <3>1. Recorded(j) /\ jobs[j].commit \in Histories
      BY DEF WriterInv, TypeOK, JobRecord, RecordInv
    <3> QED BY <1>1, <1>3, <3>1 DEF Recorded, ForeignPush
  <2> QED BY <2>1 DEF RecordInv
<1>11. ClosedRight' BY <1>1 DEF WriterInv, ClosedRight, ForeignPush
<1>12. Alone' BY <1>1 DEF WriterInv, Alone, ForeignPush
<1> QED BY <1>4, <1>5, <1>6, <1>7, <1>8, <1>9, <1>10, <1>11, <1>12 DEF WriterInv

(* A new job's record says that nothing was done. *)
LEMMA SubmitStep ==
    ASSUME WriterInv, NEW j \in Jobs, Submit(j)
    PROVE  WriterInv'
<1>1. jobs' = [jobs EXCEPT ![j] = [jobs[j] EXCEPT !.status = "queued"]] /\ jobs[j] \in JobRecord
  BY DEF WriterInv, TypeOK, JobRecord, Submit
<1>2. TypeOK' BY <1>1, RecordFields, ZenonT(30) DEF WriterInv, TypeOK, Submit, NoCommit
<1>3. Thread' BY ConstantsOK DEF WriterInv, TypeOK, JobRecord, Thread, Submit
<1>4. Branch' BY DEF WriterInv, Branch, Submit
<1>5. CloneAt' BY DEF WriterInv, TypeOK, JobRecord, CloneAt, Clean, Submit
<1>6. WayBack' BY ConstantsOK DEF WriterInv, TypeOK, JobRecord, Thread, WayBack, Clean, Submit
<1>7. Progress' BY ConstantsOK DEF WriterInv, TypeOK, JobRecord, Thread, Progress, Submit
<1>8. RecordInv'
  <2>1. ASSUME NEW k \in Jobs PROVE Recorded(k)'
    <3>1. Recorded(k) BY DEF WriterInv, RecordInv
    <3> QED BY <3>1 DEF WriterInv, TypeOK, JobRecord, Recorded, Submit
  <2> QED BY <2>1 DEF RecordInv
<1>9. ClosedRight' BY ConstantsOK DEF WriterInv, TypeOK, JobRecord, ClosedRight, Submit
<1>10. Alone' BY ConstantsOK DEF WriterInv, TypeOK, JobRecord, Alone, Submit
<1> QED BY <1>2, <1>3, <1>4, <1>5, <1>6, <1>7, <1>8, <1>9, <1>10 DEF WriterInv

(* A job that fails before its record has a base: nothing of it is anywhere.     *)
LEMMA FailedEarly ==
    ASSUME WriterInv, NEW j \in Jobs, jobs[j].status \in {"queued", "running"},
           jobs' = [jobs EXCEPT ![j] = [jobs[j] EXCEPT !.status = "failed"]],
           ~Carries(remote, j),
           UNCHANGED <<remote, local, tracking, tree, curated, crashes, lapsed>>,
           (worker.step \in {"idle", "down"} /\ worker' = worker)
               \/ (worker.job = j /\ worker' = Rest("idle")),
           queue' = queue \ {j}, Clean
    PROVE  WriterInv'
<1>1. jobs[j] \in JobRecord BY DEF WriterInv, TypeOK
<1>a. /\ jobs'[j].status = "failed" /\ jobs'[j].commit = jobs[j].commit
      /\ \A k \in Jobs : k # j => jobs'[k] = jobs[k]
  BY <1>1 DEF WriterInv, TypeOK, JobRecord
<1>2. TypeOK'
  <2>1. jobs' \in [Jobs -> JobRecord] BY <1>1, RecordFields, ZenonT(30) DEF WriterInv, TypeOK, NoCommit
  <2>2. worker' \in WorkerRecords BY RestIsRecord DEF WriterInv, TypeOK, WorkerRecords, Steps
  <2>3. queue' \in SUBSET Jobs BY DEF WriterInv, TypeOK
  <2> QED BY <2>1, <2>2, <2>3 DEF WriterInv, TypeOK, WorkerRecords
<1>3. Thread'
  <2>1. \A k \in Jobs : jobs'[k].status = "running" => jobs[k].status = "running" /\ k # j
    BY <1>a
  <2>2. CASE worker' = worker
    BY <1>a, <2>1, <2>2, ConstantsOK DEF WriterInv, TypeOK, WorkerRecords, Thread
  <2>3. CASE worker.job = j /\ worker' = Rest("idle")
    BY <1>a, <2>1, <2>3, ConstantsOK DEF WriterInv, TypeOK, Thread
  <2> QED BY <2>2, <2>3
<1>4. Branch' BY DEF WriterInv, Branch
<1>5. CloneAt'
  <2>1. worker'.step \in {"idle", "down"} /\ Clean' BY DEF Clean
  <2> QED BY <2>1 DEF CloneAt
<1>6. WayBack'
  <2>1. \A k \in Jobs : jobs'[k].status = "running" => worker' = worker /\ jobs'[k] = jobs[k]
    BY <1>a, ConstantsOK DEF WriterInv, Thread
  <2> QED BY <2>1, ConstantsOK DEF WriterInv, TypeOK, Thread, WayBack, Clean
<1>7. Progress' BY <1>1 DEF WriterInv, Thread, Progress
<1>8. RecordInv'
  <2>1. ASSUME NEW k \in Jobs PROVE Recorded(k)'
    <3>1. Recorded(k) BY DEF WriterInv, RecordInv
    <3> QED BY <1>1, <3>1 DEF WriterInv, TypeOK, JobRecord, Recorded
  <2> QED BY <2>1 DEF RecordInv
<1>9. ClosedRight' BY <1>1, ConstantsOK DEF WriterInv, TypeOK, JobRecord, ClosedRight
<1>10. Alone' BY <1>1, ConstantsOK DEF WriterInv, TypeOK, JobRecord, Thread, Alone
<1> QED BY <1>2, <1>3, <1>4, <1>5, <1>6, <1>7, <1>8, <1>9, <1>10 DEF WriterInv

(* Taking a job from the queue: it runs, or is refused because its item is closed. *)
LEMMA TakeStep ==
    ASSUME WriterInv, NEW j \in Jobs, Take(j)
    PROVE  WriterInv'
<1>1. /\ jobs[j] \in JobRecord /\ jobs[j].status = "queued" /\ Clean
      /\ ~Carries(remote, j) /\ jobs[j].base = NoCommit /\ jobs[j].commit = NoCommit /\ ~jobs[j].edited
  <2>1. jobs[j] \in JobRecord /\ jobs[j].status = "queued" /\ Clean /\ Recorded(j)
    BY DEF WriterInv, TypeOK, Thread, CloneAt, RecordInv, Take
  <2> QED BY <2>1 DEF Recorded
<1>a. CASE j \in Changesets /\ curated[ItemOf[j]] # NoJob
  <2>1. /\ jobs' = [jobs EXCEPT ![j] = [jobs[j] EXCEPT !.status = "failed"]]
        /\ worker' = worker /\ worker.step = "idle" /\ queue' = queue \ {j}
        /\ UNCHANGED <<git, curated, crashes, lapsed>>
    BY <1>a DEF WriterInv, TypeOK, JobRecord, Take
  <2> QED BY <1>1, <2>1, FailedEarly
<1>b. CASE ~(j \in Changesets /\ curated[ItemOf[j]] # NoJob)
  <2> DEFINE new == [jobs[j] EXCEPT !.status = "running"]
  <2>1. /\ jobs' = [jobs EXCEPT ![j] = new] /\ new \in JobRecord
        /\ worker' = [step |-> "start", job |-> j, pushes |-> 0, refs |-> NoCommit, tried |-> {}]
        /\ worker.step = "idle" /\ j \in queue /\ queue' = queue \ {j}
        /\ UNCHANGED <<git, curated, crashes, lapsed>>
    <3>1. jobs' = [jobs EXCEPT ![j] = new]
      BY <1>b DEF WriterInv, TypeOK, JobRecord, Take
    <3>2. new \in JobRecord BY <1>1, RecordFields, ZenonT(30) DEF WriterInv, TypeOK
    <3>3. worker' = [step |-> "start", job |-> j, pushes |-> 0, refs |-> NoCommit, tried |-> {}]
      BY <1>b DEF Take
    <3> QED BY <3>1, <3>2, <3>3 DEF Take
  <2>2. TypeOK'
    <3>1. jobs' \in [Jobs -> JobRecord] BY <2>1 DEF WriterInv, TypeOK
    <3>2. worker' \in WorkerRecords
      BY <2>1, ConstantsOK DEF WorkerRecords, Steps, NoCommit, Histories
    <3> QED BY <2>1, <3>1, <3>2 DEF WriterInv, TypeOK, WorkerRecords
  <2>3. /\ jobs'[j].status = "running" /\ jobs'[j].base = NoCommit
        /\ jobs'[j].commit = NoCommit /\ ~jobs'[j].edited /\ jobs'[j].closed = jobs[j].closed
        /\ \A k \in Jobs : k # j => jobs'[k] = jobs[k]
    BY <1>1, <2>1 DEF WriterInv, TypeOK, JobRecord
  <2> HIDE DEF new
  <2>4. Thread' BY <2>1, <2>3, ConstantsOK DEF WriterInv, TypeOK, Thread
  <2>5. Branch' BY <2>1 DEF WriterInv, Branch
  <2>6. CloneAt' BY <1>1, <2>1 DEF CloneAt, Clean
  <2>7. WayBack'
    BY <1>1, <2>1, <2>3, ConstantsOK DEF WriterInv, TypeOK, Thread, WayBack, Clean
  <2>8. Progress'
    <3>1. \A i \in Items : curated[i] # j BY <1>1, ConstantsOK DEF WriterInv, ClosedRight
    <3> QED BY <1>1, <2>1, <2>3, <3>1 DEF Progress
  <2>9. RecordInv'
    <3>1. ASSUME NEW k \in Jobs PROVE Recorded(k)'
      <4>1. Recorded(k) BY DEF WriterInv, RecordInv
      <4> QED BY <1>1, <2>1, <2>3, <4>1 DEF Recorded
    <3> QED BY <3>1 DEF RecordInv
  <2>10. ClosedRight' BY <1>1, <2>1, <2>3, ConstantsOK DEF WriterInv, TypeOK, ClosedRight
  <2>11. Alone'
    BY <1>1, <1>b, <2>1, <2>3, ConstantsOK DEF WriterInv, TypeOK, Thread, Alone
  <2> QED BY <2>2, <2>4, <2>5, <2>6, <2>7, <2>8, <2>9, <2>10, <2>11 DEF WriterInv
<1> QED BY <1>a, <1>b

(* The transaction starts from the clean head of the clone. *)
LEMMA StartSyncStep ==
    ASSUME WriterInv, NEW j \in Jobs, StartSync(j)
    PROVE  WriterInv'
<1>1. /\ jobs[j] \in JobRecord /\ jobs[j].status = "running" /\ Clean /\ tree = {}
      /\ worker.step = "start" /\ worker.job = j /\ jobs[j].commit = NoCommit
      /\ local \in Histories /\ local # NoCommit
  BY ConstantsOK DEF WriterInv, TypeOK, Thread, CloneAt, Clean, Branch, Progress, StartSync
<1> DEFINE new == [jobs[j] EXCEPT !.base = local, !.phase = "syncing"]
<1>2. /\ jobs' = [jobs EXCEPT ![j] = new] /\ new \in JobRecord
      /\ worker' = [worker EXCEPT !.step = "sync"]
      /\ UNCHANGED <<remote, local, tracking, tree, curated, queue, crashes, lapsed>>
  <2>1. jobs' = [jobs EXCEPT ![j] = new] /\ worker' = [worker EXCEPT !.step = "sync"]
    BY <1>1, ZenonT(30) DEF WriterInv, TypeOK, JobRecord, StartSync
  <2>2. new \in JobRecord BY <1>1, RecordFields, ZenonT(30)
  <2> QED BY <2>1, <2>2 DEF StartSync
<1>3. /\ jobs'[j].base = local
      /\ jobs'[j].status = "running" /\ jobs'[j].commit = NoCommit
      /\ jobs'[j].edited = jobs[j].edited /\ jobs'[j].closed = jobs[j].closed
      /\ \A k \in Jobs : k # j => jobs'[k] = jobs[k]
  BY <1>1, <1>2 DEF WriterInv, TypeOK, JobRecord
<1>4. worker' \in WorkerRecords /\ worker'.step = "sync" /\ worker'.job = j
      /\ worker'.refs = worker.refs /\ worker'.tried = worker.tried
  BY <1>1, <1>2 DEF WriterInv, TypeOK, WorkerRecords, Steps
<1> HIDE DEF new
<1>5. TypeOK' BY <1>2, <1>4 DEF WriterInv, TypeOK, WorkerRecords
<1>6. Thread' BY <1>1, <1>2, <1>3, <1>4, ConstantsOK DEF WriterInv, TypeOK, Thread
<1>7. Branch' BY <1>2 DEF WriterInv, Branch
<1>8. CloneAt' BY <1>1, <1>2, <1>3, <1>4 DEF CloneAt, Clean
<1>9. WayBack' BY <1>1, <1>2, <1>3, <1>4 DEF WriterInv, Thread, WayBack, Clean
<1>10. Progress' BY <1>1, <1>2, <1>3, <1>4 DEF WriterInv, Progress
<1>11. RecordInv'
  <2>1. ASSUME NEW k \in Jobs PROVE Recorded(k)'
    <3>1. Recorded(k) BY DEF WriterInv, RecordInv
    <3> QED BY <1>1, <1>2, <1>3, <3>1 DEF Recorded
  <2> QED BY <2>1 DEF RecordInv
<1>12. ClosedRight' BY <1>1, <1>2, <1>3, ConstantsOK DEF WriterInv, TypeOK, ClosedRight
<1>13. Alone' BY <1>1, <1>2, <1>3, <1>4, ConstantsOK DEF WriterInv, Alone
<1> QED BY <1>5, <1>6, <1>7, <1>8, <1>9, <1>10, <1>11, <1>12, <1>13 DEF WriterInv

(* What the fetch and the rebase of _pre_sync find, or the state they leave as it was. *)
LEMMA Prepared ==
    ASSUME WriterInv, NEW j \in Jobs, At("sync", j), NEW h \in Histories, h # NoCommit,
           IsPrefix(h, tracking'), tracking' \in Histories, IsPrefix(tracking', remote),
           IsPrefix(tracking, tracking'), local' = h,
           jobs' = [jobs EXCEPT ![j] = [jobs[j] EXCEPT !.base = h, !.phase = "prepared"]],
           worker' = [worker EXCEPT !.step = "produce", !.refs = tracking'],
           UNCHANGED <<remote, tree, curated, queue, crashes, lapsed>>
    PROVE  WriterInv'
<1>1. /\ jobs[j] \in JobRecord /\ jobs[j].status = "running" /\ tree = {}
      /\ worker.step = "sync" /\ worker.job = j /\ jobs[j].commit = NoCommit
  BY ConstantsOK DEF WriterInv, TypeOK, Thread, CloneAt, Clean, Branch, Progress
<1>2. [jobs[j] EXCEPT !.base = h, !.phase = "prepared"] \in JobRecord
  BY <1>1, RecordFields, ZenonT(30)
<1>3. /\ jobs'[j].base = h /\ jobs' \in [Jobs -> JobRecord]
      /\ jobs'[j].status = "running" /\ jobs'[j].commit = NoCommit
      /\ jobs'[j].edited = jobs[j].edited /\ jobs'[j].closed = jobs[j].closed
      /\ \A k \in Jobs : k # j => jobs'[k] = jobs[k]
  BY <1>1, <1>2 DEF WriterInv, TypeOK, JobRecord
<1>4. worker' \in WorkerRecords /\ worker'.step = "produce" /\ worker'.job = j
      /\ worker'.refs = tracking' /\ worker'.tried = worker.tried
  BY <1>1 DEF WriterInv, TypeOK, WorkerRecords, Steps
<1>5. TypeOK' BY <1>3, <1>4 DEF WriterInv, TypeOK, WorkerRecords
<1>6. Thread' BY <1>1, <1>3, <1>4, ConstantsOK DEF WriterInv, TypeOK, Thread
<1>7. Branch' BY DEF WriterInv, Branch
<1>8. CloneAt' BY <1>1, <1>3, <1>4 DEF CloneAt, Clean
<1>9. WayBack' BY <1>1, <1>3, <1>4 DEF WriterInv, Thread, WayBack, Clean
<1>10. Progress' BY <1>1, <1>3, <1>4 DEF WriterInv, Progress
<1>11. RecordInv'
  <2>1. ASSUME NEW k \in Jobs PROVE Recorded(k)'
    <3>1. Recorded(k) BY DEF WriterInv, RecordInv
    <3> QED BY <1>1, <1>3, <3>1 DEF Recorded
  <2> QED BY <2>1 DEF RecordInv
<1>12. ClosedRight' BY <1>1, <1>3, ConstantsOK DEF WriterInv, TypeOK, ClosedRight
<1>13. Alone' BY <1>1, <1>3, <1>4, ConstantsOK DEF WriterInv, Alone
<1> QED BY <1>5, <1>6, <1>7, <1>8, <1>9, <1>10, <1>11, <1>12, <1>13 DEF WriterInv

(* A fetch that worked brings the clone to the branch. *)
LEMMA PreSyncStep ==
    ASSUME WriterInv, NEW j \in Jobs, PreSync(j)
    PROVE  WriterInv'
<1>1. /\ remote \in Histories /\ local \in Histories /\ tracking \in Histories
      /\ remote # NoCommit /\ IsPrefix(local, tracking) /\ IsPrefix(tracking, remote)
  BY DEF WriterInv, TypeOK, Branch, CloneAt, Clean, PreSync
<1>2. IsPrefix(local, remote) /\ IsPrefix(remote, remote) BY <1>1, Ancestry
<1>3. local' = remote /\ tracking' = remote BY <1>1, <1>2, RebaseUpToDate DEF PreSync
<1>4. jobs' = [jobs EXCEPT ![j] = [jobs[j] EXCEPT !.base = remote, !.phase = "prepared"]]
  BY <1>3 DEF WriterInv, TypeOK, JobRecord, PreSync
<1>5. worker' = [worker EXCEPT !.step = "produce", !.refs = tracking']
  BY DEF PreSync
<1>6. /\ IsPrefix(remote, tracking') /\ tracking' \in Histories
      /\ IsPrefix(tracking', remote) /\ IsPrefix(tracking, tracking')
  BY <1>1, <1>2, <1>3
<1>7. UNCHANGED <<remote, tree, curated, queue, crashes, lapsed>> BY DEF PreSync
<1>8. At("sync", j) BY DEF PreSync
<1> QED BY <1>1, <1>3, <1>4, <1>5, <1>6, <1>7, <1>8, Prepared

(* A fetch that failed: a changeset ends, an ingest goes on from what the clone has. *)
LEMMA PreSyncOfflineStep ==
    ASSUME WriterInv, NEW j \in Jobs, PreSyncOffline(j)
    PROVE  WriterInv'
<1>1. /\ remote \in Histories /\ local \in Histories /\ tracking \in Histories
      /\ local # NoCommit /\ IsPrefix(local, tracking) /\ IsPrefix(tracking, remote)
      /\ Clean /\ worker.step = "sync" /\ worker.job = j
  BY DEF WriterInv, TypeOK, Branch, CloneAt, Clean, PreSyncOffline
<1>2. IsPrefix(tracking, tracking) BY <1>1, Ancestry
<1>3. jobs[j] \in JobRecord /\ jobs[j].status = "running" /\ jobs[j].commit = NoCommit
  BY <1>1, ConstantsOK DEF WriterInv, TypeOK, Thread, Progress
<1>4. CASE j \in Changesets
  <2>1. ~Carries(remote, j) BY <1>3 DEF WriterInv, RecordInv, Recorded
  <2>2. jobs' = [jobs EXCEPT ![j] = [jobs[j] EXCEPT !.status = "failed"]]
    BY <1>4 DEF WriterInv, TypeOK, JobRecord, PreSyncOffline
  <2>3. queue' = queue \ {j} BY <1>3 DEF WriterInv, Thread, PreSyncOffline
  <2> QED BY <1>1, <1>3, <1>4, <2>1, <2>2, <2>3, FailedEarly DEF PreSyncOffline
<1>5. CASE j \notin Changesets
  <2>1. jobs' = [jobs EXCEPT ![j] = [jobs[j] EXCEPT !.base = local, !.phase = "prepared"]]
    BY <1>5 DEF WriterInv, TypeOK, JobRecord, PreSyncOffline
  <2>2. worker' = [worker EXCEPT !.step = "produce", !.refs = tracking']
    BY <1>5 DEF PreSyncOffline
  <2> QED BY <1>1, <1>2, <1>5, <2>1, <2>2, Prepared DEF PreSyncOffline
<1> QED BY <1>4, <1>5

(* A step of a transaction under way that changes neither the branch nor a record. *)
LEMMA MoveStep ==
    ASSUME WriterInv, NEW j \in Jobs, worker.job = j, worker.step # "start",
           NEW s \in Steps \ {"idle", "down", "start", "sync"}, NEW n \in 0..MaxAttempts,
           s \in {"push", "integrate"} => n < MaxAttempts,
           s = "closeout" => j \in Changesets,
           worker' = [worker EXCEPT !.step = s, !.pushes = n],
           UNCHANGED <<remote, jobs, curated, queue, crashes, lapsed>>,
           local' \in Histories, local' # NoCommit, tree' \in SUBSET Jobs,
           tracking' \in Histories, IsPrefix(tracking', remote), IsPrefix(jobs[j].base, tracking'),
           CloneAt', Progress'
    PROVE  WriterInv'
<1>1. /\ worker.step \notin {"idle", "down"} /\ jobs[j].status = "running"
      /\ \A k \in Jobs : jobs[k].status = "running" => k = j
  BY ConstantsOK DEF WriterInv, Thread
<1>2. /\ worker' \in WorkerRecords /\ worker'.step = s /\ worker'.job = j /\ worker'.pushes = n
      /\ worker'.refs = worker.refs /\ worker'.tried = worker.tried
  BY DEF WriterInv, TypeOK, WorkerRecords, Steps
<1>3. TypeOK' BY <1>2 DEF WriterInv, TypeOK, WorkerRecords
<1>4. Thread' BY <1>1, <1>2, ConstantsOK DEF WriterInv, Thread
<1>5. Branch' BY DEF WriterInv, Branch
<1>6. WayBack'
  <2>1. jobs[j].base # NoCommit BY <1>1 DEF WriterInv, WayBack
  <2> QED BY <1>1, <1>2, <2>1 DEF WriterInv, WayBack
<1>7. RecordInv' /\ ClosedRight' /\ Alone' BY <1>1, QuietStep
<1> QED BY <1>3, <1>4, <1>5, <1>6, <1>7 DEF WriterInv

(* What holds of a transaction that has a base.                                  *)
LEMMA UnderWay ==
    ASSUME WriterInv, NEW j \in Jobs, worker.job = j
    PROVE  /\ worker.step \notin {"idle", "down"} /\ jobs[j].status = "running"
           /\ \A k \in Jobs : jobs[k].status = "running" => k = j
           /\ jobs[j] \in JobRecord /\ Recorded(j)
           /\ remote \in Histories /\ local \in Histories /\ tracking \in Histories
           /\ local # NoCommit /\ IsPrefix(tracking, remote)
           /\ worker.pushes \in 0..MaxAttempts
           /\ worker.step # "start" =>
                 /\ jobs[j].base \in Histories /\ jobs[j].base # NoCommit
                 /\ IsPrefix(jobs[j].base, tracking)
<1>1. /\ worker.step \notin {"idle", "down"} /\ jobs[j].status = "running"
      /\ \A k \in Jobs : jobs[k].status = "running" => k = j
  BY ConstantsOK DEF WriterInv, Thread
<1>2. jobs[j] \in JobRecord /\ Recorded(j) BY DEF WriterInv, TypeOK, RecordInv
<1>3. jobs[j].base \in Histories BY <1>2 DEF JobRecord
<1>4. worker.step # "start" => jobs[j].base # NoCommit /\ IsPrefix(jobs[j].base, tracking)
  BY <1>1 DEF WriterInv, WayBack
<1>5. /\ remote \in Histories /\ local \in Histories /\ tracking \in Histories
      /\ local # NoCommit /\ IsPrefix(tracking, remote) /\ worker.pushes \in 0..MaxAttempts
  BY DEF WriterInv, TypeOK, Branch
<1> QED BY <1>1, <1>2, <1>3, <1>4, <1>5

(* Only the step of the thread changes.                                          *)
LEMMA OnlyGoes ==
    ASSUME WriterInv, NEW j \in Jobs, worker.job = j, worker.step # "start",
           NEW s \in Steps \ {"idle", "down", "start", "sync"},
           s \in {"push", "integrate"} => worker.pushes < MaxAttempts,
           s = "closeout" => j \in Changesets,
           worker' = [worker EXCEPT !.step = s],
           UNCHANGED <<remote, local, tracking, tree, jobs, curated, queue, crashes, lapsed>>,
           CloneAt', Progress'
    PROVE  WriterInv'
<1>1. worker' = [worker EXCEPT !.step = s, !.pushes = worker.pushes]
  BY DEF WriterInv, TypeOK
<1>2. tree' \in SUBSET Jobs BY DEF WriterInv, TypeOK
<1> QED BY <1>1, <1>2, UnderWay, MoveStep, ZenonT(40)

(* A changeset that changes nothing goes to its closeout. *)
LEMMA NoopStep ==
    ASSUME WriterInv, NEW j \in Jobs, Noop(j)
    PROVE  WriterInv'
<1>1. /\ worker.step = "produce" /\ worker.job = j /\ worker'.step = "closeout" /\ worker'.job = j
      /\ j \in Changesets
      /\ UNCHANGED <<remote, local, tracking, tree, jobs, curated, queue, crashes, lapsed>>
  BY DEF WriterInv, TypeOK, WorkerRecords, Noop
<1>2. CloneAt' BY <1>1 DEF WriterInv, CloneAt, Clean
<1>3. Progress' BY <1>1 DEF WriterInv, Progress
<1> QED BY <1>1, <1>2, <1>3, OnlyGoes DEF Noop, Steps

(* A transaction that gives up, before it published or after.                    *)
LEMMA GivesUp ==
    ASSUME WriterInv, NEW j \in Jobs, worker.job = j,
           worker.step \in {"sync", "produce", "commit", "push", "integrate"},
           worker' = [worker EXCEPT !.step = "rollback"],
           tracking' \in {tracking, remote},
           UNCHANGED <<remote, local, tree, jobs, curated, queue, crashes, lapsed>>
    PROVE  WriterInv'
<1>1. /\ jobs[j].status = "running" /\ Recorded(j) /\ local # NoCommit
      /\ remote \in Histories /\ local \in Histories /\ tracking \in Histories
      /\ jobs[j].base \in Histories /\ IsPrefix(jobs[j].base, tracking) /\ IsPrefix(tracking, remote)
  BY UnderWay
<1>2. worker'.step = "rollback" /\ worker'.job = j /\ jobs' = jobs
  BY DEF WriterInv, TypeOK
<1>3. /\ tracking' \in Histories /\ IsPrefix(tracking', remote) /\ IsPrefix(jobs[j].base, tracking')
  BY <1>1, Ancestry
<1>4. CloneAt' BY <1>1, <1>2 DEF CloneAt
<1>5. Progress'
  <2>1. Carries(remote, j) => j \in lapsed
    BY <1>1 DEF WriterInv, Progress, Recorded
  <2> QED BY <1>2, <2>1 DEF WriterInv, Progress
<1>6. worker' = [worker EXCEPT !.step = "rollback", !.pushes = worker.pushes]
      /\ worker.pushes \in 0..MaxAttempts /\ tree' \in SUBSET Jobs
  BY DEF WriterInv, TypeOK
<1>7. "rollback" \in Steps \ {"idle", "down", "start", "sync"} BY DEF Steps
<1> QED BY <1>1, <1>3, <1>4, <1>5, <1>6, <1>7, MoveStep

(* The gate's refusal leads to the rollback. *)
LEMMA RefuseStep ==
    ASSUME WriterInv, NEW j \in Jobs, Refuse(j)
    PROVE  WriterInv'
  BY GivesUp DEF Refuse

(* A rebase that Git cannot do leads to the rollback. *)
LEMMA RebaseConflictStep ==
    ASSUME WriterInv, NEW j \in Jobs, NEW fetched, RebaseConflict(j, fetched)
    PROVE  WriterInv'
  BY GivesUp DEF RebaseConflict

(* The commit puts the job's edits on top of the clone's head. *)
LEMMA GitCommitStep ==
    ASSUME WriterInv, NEW j \in Jobs, GitCommit(j)
    PROVE  WriterInv'
<1>1. /\ worker.step = "commit" /\ worker.job = j /\ worker'.step = "save" /\ worker'.job = j
      /\ worker' = [worker EXCEPT !.step = "save", !.pushes = worker.pushes]
      /\ local' = Append(local, tree) /\ tree' = {}
      /\ UNCHANGED <<remote, tracking, jobs, curated, queue, crashes, lapsed>>
  BY DEF WriterInv, TypeOK, WorkerRecords, GitCommit
<1>2. /\ jobs[j].status = "running" /\ Recorded(j) /\ worker.pushes \in 0..MaxAttempts
      /\ remote \in Histories /\ local \in Histories /\ tracking \in Histories
      /\ IsPrefix(jobs[j].base, tracking) /\ IsPrefix(tracking, remote)
  BY <1>1, UnderWay
<1>3. tree = {j} /\ IsPrefix(local, tracking) BY <1>1 DEF WriterInv, CloneAt
<1>4. ~Carries(remote, j) /\ jobs[j].edited
  BY <1>1, <1>2 DEF WriterInv, Progress, Recorded
<1>5. IsPrefix(local, remote) /\ ~Carries(local, j)
  BY <1>2, <1>3, <1>4, Ancestry, CarriedOn
<1>6. local' = Append(local, {j}) /\ local' \in Histories /\ local' # NoCommit
  <2>1. {j} \in Commits BY DEF Commits
  <2> QED BY <1>1, <1>2, <1>3, <2>1, OneCommitMore
<1>7. OneAhead(local', tracking, j) BY <1>2, <1>3, <1>5, <1>6 DEF OneAhead
<1>8. CloneAt' BY <1>1, <1>2, <1>7 DEF CloneAt, OneAhead
<1>9. Progress' BY <1>1, <1>4 DEF WriterInv, Progress
<1>10. "save" \in Steps \ {"idle", "down", "start", "sync"} /\ tree' \in SUBSET Jobs
  BY <1>1 DEF Steps
<1> QED BY <1>1, <1>2, <1>6, <1>8, <1>9, <1>10, MoveStep

(* A rejected push changes nothing but the next step. *)
LEMMA PushRejectedStep ==
    ASSUME WriterInv, NEW j \in Jobs, PushRejected(j)
    PROVE  WriterInv'
<1>1. /\ worker.step = "push" /\ worker.job = j /\ worker'.step = "integrate" /\ worker'.job = j
      /\ worker.pushes < MaxAttempts
      /\ UNCHANGED <<remote, local, tracking, tree, jobs, curated, queue, crashes, lapsed>>
  BY DEF WriterInv, TypeOK, WorkerRecords, Thread, PushRejected
<1>2. jobs[j].status = "running" BY <1>1, UnderWay
<1>3. CloneAt' BY <1>1, <1>2 DEF WriterInv, CloneAt, OneAhead
<1>4. Progress' BY <1>1 DEF WriterInv, Progress
<1> QED BY <1>1, <1>3, <1>4, OnlyGoes DEF PushRejected, Steps

(* The commit is found on the branch after a push without an answer. *)
LEMMA FoundOnRemoteStep ==
    ASSUME WriterInv, NEW j \in Jobs, NEW fetched, FoundOnRemote(j, fetched)
    PROVE  WriterInv'
<1>1. /\ worker.step = "integrate" /\ worker.job = j /\ worker'.step = "pushed" /\ worker'.job = j
      /\ worker' = [worker EXCEPT !.step = "pushed", !.pushes = worker.pushes]
      /\ tracking' \in {remote, tracking} /\ IsPrefix(local, tracking')
      /\ UNCHANGED <<remote, local, tree, jobs, curated, queue, crashes, lapsed>>
  BY DEF WriterInv, TypeOK, WorkerRecords, FoundOnRemote
<1>2. /\ jobs[j].status = "running" /\ worker.pushes \in 0..MaxAttempts
      /\ remote \in Histories /\ local \in Histories /\ tracking \in Histories /\ local # NoCommit
      /\ jobs[j].base \in Histories /\ IsPrefix(jobs[j].base, tracking) /\ IsPrefix(tracking, remote)
  BY <1>1, UnderWay
<1>3. /\ tracking' \in Histories /\ IsPrefix(tracking', remote) /\ IsPrefix(jobs[j].base, tracking')
  BY <1>1, <1>2, Ancestry
<1>4. CloneAt' BY <1>1, <1>2 DEF WriterInv, CloneAt, Clean
<1>5. Progress' BY <1>1 DEF WriterInv, Progress
<1>6. "pushed" \in Steps \ {"idle", "down", "start", "sync"} /\ tree' \in SUBSET Jobs
  BY <1>1 DEF WriterInv, TypeOK, Steps
<1> QED BY <1>1, <1>2, <1>3, <1>4, <1>5, <1>6, MoveStep

(* A commit the fetch does not show is moved to its end; if the remote has it all *)
(* the same, it stays where it is.                                               *)
LEMMA IntegrateStep ==
    ASSUME WriterInv, NEW j \in Jobs, NEW fetched, Integrate(j, fetched)
    PROVE  WriterInv'
<1>1. /\ worker.step = "integrate" /\ worker.job = j /\ worker'.step = "save" /\ worker'.job = j
      /\ worker' = [worker EXCEPT !.step = "save", !.pushes = worker.pushes + 1]
      /\ tracking' = fetched /\ fetched \in {remote, tracking} /\ ~IsPrefix(local, fetched)
      /\ local' = Rebase(local, fetched)
      /\ UNCHANGED <<remote, tree, jobs, curated, queue, crashes, lapsed>>
  BY DEF WriterInv, TypeOK, WorkerRecords, Integrate
<1>2. /\ jobs[j].status = "running" /\ Recorded(j) /\ worker.pushes \in 0..MaxAttempts
      /\ remote \in Histories /\ local \in Histories /\ tracking \in Histories
      /\ jobs[j].base \in Histories /\ IsPrefix(jobs[j].base, tracking) /\ IsPrefix(tracking, remote)
  BY <1>1, UnderWay
<1>3. worker.pushes + 1 \in 0..MaxAttempts
  BY <1>1, <1>2, ConstantsOK DEF WriterInv, Thread, ConstantsOK
<1>4. PICK p \in Histories : local = Append(p, {j}) /\ IsPrefix(p, tracking) /\ ~Carries(p, j)
  BY <1>1 DEF WriterInv, CloneAt, OneAhead
<1>5. /\ fetched \in Histories /\ IsPrefix(fetched, remote) /\ IsPrefix(tracking, fetched)
      /\ IsPrefix(p, fetched) /\ IsPrefix(jobs[j].base, fetched)
  BY <1>1, <1>2, <1>4, Ancestry
<1>6. local' = Append(fetched, {j}) /\ local' \in Histories /\ local' # NoCommit
  <2>1. {j} \in Commits BY DEF Commits
  <2>2. Rebase(Append(p, {j}), fetched) = Append(fetched, {j})
    BY <1>1, <1>4, <1>5, <2>1, RebaseOne
  <2>3. Append(fetched, {j}) \in Histories /\ Append(fetched, {j}) # NoCommit
    BY <1>5, <2>1, OneCommitMore
  <2> QED BY <1>1, <1>4, <2>2, <2>3
<1>7. jobs[j].commit = local BY <1>1 DEF WriterInv, Progress
<1>8. ~Carries(fetched, j) /\ (Carries(remote, j) => local' = local)
  <2>1. CASE ~Carries(remote, j) BY <1>2, <1>5, <2>1, CarriedOn
  <2>2. CASE Carries(remote, j)
    <3>1. IsPrefix(local, remote) BY <1>2, <1>7, <2>2 DEF Recorded
    <3>2. IsPrefix(fetched, local) BY <1>1, <1>2, <1>5, <3>1, Ancestry
    <3>3. fetched # local BY <1>1, <1>2, Ancestry
    <3>4. IsPrefix(fetched, p) BY <1>4, <1>5, <3>2, <3>3, OneCommitMore DEF Commits
    <3>5. fetched = p BY <1>4, <1>5, <3>4, Ancestry
    <3> QED BY <1>4, <1>6, <3>5
  <2> QED BY <2>1, <2>2
<1>9. IsPrefix(fetched, fetched) BY <1>5, Ancestry
<1>10. OneAhead(local', tracking', j) BY <1>1, <1>5, <1>6, <1>8, <1>9 DEF OneAhead
<1>11. CloneAt' BY <1>1, <1>2, <1>10 DEF WriterInv, CloneAt, OneAhead
<1>12. Progress' BY <1>1, <1>7, <1>8 DEF WriterInv, Progress
<1>13. "save" \in Steps \ {"idle", "down", "start", "sync"} /\ tree' \in SUBSET Jobs
  BY <1>1 DEF WriterInv, TypeOK, Steps
<1> QED BY <1>1, <1>2, <1>3, <1>5, <1>6, <1>11, <1>12, <1>13, MoveStep

(* .git and the tree as they were when the job began.                            *)
LEMMA RollbackStep ==
    ASSUME WriterInv, NEW j \in Jobs, Rollback(j)
    PROVE  WriterInv'
<1>1. /\ worker.step = "rollback" /\ worker.job = j /\ worker'.step = "fail" /\ worker'.job = j
      /\ worker' = [worker EXCEPT !.step = "fail", !.pushes = worker.pushes]
      /\ local' = jobs[j].base /\ tree' = {}
      /\ tracking' = (IF worker.refs = NoCommit THEN tracking ELSE worker.refs)
      /\ UNCHANGED <<remote, jobs, curated, queue, crashes, lapsed>>
  BY DEF WriterInv, TypeOK, WorkerRecords, Rollback
<1>2. /\ jobs[j].status = "running" /\ worker.pushes \in 0..MaxAttempts
      /\ tracking \in Histories /\ IsPrefix(tracking, remote)
      /\ jobs[j].base \in Histories /\ jobs[j].base # NoCommit /\ IsPrefix(jobs[j].base, tracking)
  BY <1>1, UnderWay
<1>3. /\ tracking' \in Histories /\ IsPrefix(tracking', remote) /\ IsPrefix(jobs[j].base, tracking')
  BY <1>1, <1>2, ConstantsOK DEF WriterInv, TypeOK, WayBack, ConstantsOK
<1>4. CloneAt' BY <1>1, <1>2, <1>3 DEF CloneAt, Clean
<1>5. Progress' BY <1>1 DEF WriterInv, Progress
<1>6. "fail" \in Steps \ {"idle", "down", "start", "sync"} /\ tree' \in SUBSET Jobs
  BY <1>1 DEF Steps
<1> QED BY <1>1, <1>2, <1>3, <1>4, <1>5, <1>6, MoveStep

(* The remote takes the push: the branch is the clone's, one commit of the job longer. *)
LEMMA Publishes ==
    ASSUME WriterInv, NEW j \in Jobs, At("push", j), IsPrefix(remote, local), remote' = local,
           NEW s \in {"pushed", "integrate", "rollback"}, worker' = [worker EXCEPT !.step = s],
           tracking' \in {tracking, local}, s = "pushed" => tracking' = local,
           lapsed' \in {lapsed, lapsed \cup {j}}, s # "pushed" => j \in lapsed',
           UNCHANGED <<local, tree, jobs, curated, queue, crashes>>
    PROVE  WriterInv'
<1>1. /\ jobs[j].status = "running" /\ Recorded(j) /\ worker.pushes \in 0..MaxAttempts
      /\ \A k \in Jobs : jobs[k].status = "running" => k = j
      /\ remote \in Histories /\ local \in Histories /\ tracking \in Histories /\ local # NoCommit
      /\ jobs[j].base \in Histories /\ jobs[j].base # NoCommit
      /\ IsPrefix(jobs[j].base, tracking) /\ IsPrefix(tracking, remote)
      /\ worker.step = "push" /\ worker.job = j
  BY UnderWay
<1>2. /\ worker' \in WorkerRecords /\ worker'.step = s /\ worker'.job = j
      /\ worker'.pushes = worker.pushes /\ worker.pushes < MaxAttempts
      /\ worker'.refs = worker.refs /\ worker'.tried = worker.tried
  BY <1>1 DEF WriterInv, TypeOK, WorkerRecords, Steps, Thread
<1>3. PICK p \in Histories : local = Append(p, {j}) /\ IsPrefix(p, tracking) /\ ~Carries(p, j)
  BY <1>1 DEF WriterInv, CloneAt, OneAhead
<1>4. {j} \in Commits BY DEF Commits
<1>5. IsPrefix(p, remote) BY <1>1, <1>3, Ancestry
<1>6. remote = p \/ remote = local
  BY <1>1, <1>3, <1>4, <1>5, OneCommitMore, Ancestry
<1>7. /\ IsPrefix(local, local) /\ IsPrefix(tracking, local) /\ IsPrefix(tracking', local)
      /\ \A h \in Histories : IsPrefix(h, remote) => IsPrefix(h, local)
  BY <1>1, Ancestry
<1>8. \A k : Carries(local, k) <=> Carries(remote, k) \/ k = j
  <2>1. \A k : Carries(local, k) <=> Carries(p, k) \/ k = j BY <1>3, <1>4, CarriedMore
  <2> QED BY <1>6, <2>1
<1>9. OnePlace(local)
  <2>1. CASE remote = p
    <3>1. \E m \in {j} : {j} = {m} /\ ~Carries(p, m) BY <1>3
    <3>2. OnePlace(p) BY <2>1 DEF WriterInv, Branch
    <3> QED BY <1>3, <1>4, <3>1, <3>2, OnePlaceAppend DEF Histories
  <2>2. CASE remote = local BY <2>2 DEF WriterInv, Branch
  <2> QED BY <1>6, <2>1, <2>2
<1>10. jobs[j].commit = local /\ jobs[j].edited BY <1>1 DEF WriterInv, Progress
<1>11. lapsed \subseteq lapsed' /\ lapsed' \in SUBSET Jobs BY DEF WriterInv, TypeOK
<1>12. TypeOK' BY <1>1, <1>2, <1>11 DEF WriterInv, TypeOK, WorkerRecords
<1>13. Thread' BY <1>1, <1>2, ConstantsOK DEF WriterInv, Thread
<1>14. Branch' BY <1>1, <1>7, <1>9 DEF WriterInv, Branch
<1>15. CloneAt'
  <2>1. CASE s = "pushed" BY <1>1, <1>2, <1>7, <2>1 DEF WriterInv, CloneAt, Clean
  <2>2. CASE s = "rollback" BY <1>1, <1>2, <2>2 DEF CloneAt
  <2>3. CASE s = "integrate"
    <3>1. IsPrefix(p, tracking')
      <4>1. tracking' = tracking \/ tracking' = local BY <1>1
      <4>2. IsPrefix(tracking, local) /\ tracking \in Histories /\ local \in Histories BY <1>1, <1>7
      <4>3. IsPrefix(p, local) BY <1>3, <4>2, Ancestry
      <4> QED BY <1>3, <4>1, <4>3
    <3>2. OneAhead(local, tracking', j) BY <1>3, <3>1 DEF OneAhead
    <3> QED BY <1>1, <1>2, <2>3, <3>2 DEF WriterInv, CloneAt, OneAhead
  <2> QED BY <2>1, <2>2, <2>3
<1>16. WayBack'
  <2>1. IsPrefix(jobs[j].base, tracking') BY <1>1, <1>7, Ancestry
  <2>2. worker.refs \in Histories BY DEF WriterInv, TypeOK
  <2> QED BY <1>1, <1>2, <1>7, <2>1, <2>2 DEF WriterInv, WayBack
<1>17. Progress' BY <1>1, <1>2, <1>10 DEF WriterInv, Progress
<1>18. RecordInv'
  <2>1. ASSUME NEW k \in Jobs PROVE Recorded(k)'
    <3>1. Recorded(k) /\ jobs[k].commit \in Histories BY DEF WriterInv, TypeOK, JobRecord, RecordInv
    <3> QED BY <1>1, <1>7, <1>8, <1>10, <1>11, <3>1 DEF Recorded
  <2> QED BY <2>1 DEF RecordInv
<1>19. ClosedRight' BY <1>8 DEF WriterInv, ClosedRight
<1>20. Alone'
  <2>1. Changesets \subseteq Jobs BY ConstantsOK DEF ConstantsOK
  <2>2. \A k \in Changesets :
            Carries(local, k) /\ k \notin lapsed' /\ curated'[ItemOf[k]] = NoJob =>
                jobs'[k].status = "running"
    BY <1>1, <1>8, <1>11 DEF WriterInv, Alone
  <2>3. ASSUME NEW j1 \in Changesets, NEW j2 \in Changesets, j1 # j2, ItemOf[j1] = ItemOf[j2],
               jobs[j2].status = "running", Carries(local, j1)
        PROVE  j1 \in lapsed'
    <3>1. j2 = j /\ Carries(remote, j1) BY <1>1, <1>8, <2>1, <2>3
    <3> QED BY <1>11, <2>3, <3>1 DEF WriterInv, Alone
  <2>4. ASSUME NEW j1 \in Changesets, NEW j2 \in Changesets, j1 # j2, ItemOf[j1] = ItemOf[j2],
               Carries(local, j1), Carries(local, j2)
        PROVE  {j1, j2} \cap lapsed' # {}
    <3>1. CASE j1 = j \/ j2 = j BY <1>1, <2>3, <2>4, <3>1
    <3>2. CASE j1 # j /\ j2 # j
      <4>1. {j1, j2} \cap lapsed # {} BY <1>8, <2>4, <3>2 DEF WriterInv, Alone
      <4> QED BY <1>11, <4>1
    <3> QED BY <3>1, <3>2
  <2> QED BY <1>2, <2>2, <2>3, <2>4 DEF Alone
<1> QED BY <1>12, <1>13, <1>14, <1>15, <1>16, <1>17, <1>18, <1>19, <1>20 DEF WriterInv

(* A push that is answered. *)
LEMMA PushStep ==
    ASSUME WriterInv, NEW j \in Jobs, Push(j)
    PROVE  WriterInv'
  BY Publishes DEF Push

(* A push whose answer is lost: the branch has the commit, the clone does not know. *)
LEMMA PushAckLostStep ==
    ASSUME WriterInv, NEW j \in Jobs, PushAckLost(j)
    PROVE  WriterInv'
  BY Publishes DEF PushAckLost

(* A push that outlasts its timeout, before or after it reached the remote. *)
LEMMA TimeOutStep ==
    ASSUME WriterInv, NEW j \in Jobs, TimeOut(j)
    PROVE  WriterInv'
<1>1. /\ worker.step \in {"sync", "produce", "commit", "push", "integrate"} /\ worker.job = j
      /\ worker' = [worker EXCEPT !.step = "rollback"]
      /\ UNCHANGED <<local, tracking, tree, jobs, curated, queue, crashes>>
  BY DEF TimeOut
<1>2. CASE remote' = remote
  <2>1. lapsed' = lapsed BY <1>2 DEF TimeOut
  <2> QED BY <1>1, <1>2, <2>1, GivesUp
<1>3. CASE remote' # remote
  <2>1. /\ At("push", j) /\ IsPrefix(remote, local) /\ remote' = local
        /\ lapsed' = lapsed \cup {j}
    BY <1>3 DEF TimeOut
  <2> QED BY <1>1, <2>1, Publishes
<1> QED BY <1>2, <1>3

(* The edits are made in the tree and the receipt says so. *)
LEMMA ProduceStep ==
    ASSUME WriterInv, NEW j \in Jobs, Produce(j)
    PROVE  WriterInv'
<1>1. /\ worker.step = "produce" /\ worker.job = j /\ Clean /\ tree' = {j}
      /\ UNCHANGED <<remote, local, tracking, curated, queue, crashes, lapsed>>
  BY DEF WriterInv, CloneAt, Clean, Produce
<1>2. /\ jobs[j].status = "running" /\ Recorded(j) /\ jobs[j] \in JobRecord
      /\ \A k \in Jobs : jobs[k].status = "running" => k = j
  BY <1>1, UnderWay
<1> DEFINE new == [jobs[j] EXCEPT !.edited = TRUE]
<1>3. jobs' = [jobs EXCEPT ![j] = new] /\ new \in JobRecord
  <2>1. NoCommit \in Histories BY DEF NoCommit, Histories
  <2>2. new \in JobRecord BY <1>2, <2>1, RecordFields, ZenonT(30)
  <2> QED BY <1>2, <2>2 DEF WriterInv, TypeOK, JobRecord, Produce
<1>4. /\ jobs'[j].status = "running" /\ jobs'[j].commit = jobs[j].commit /\ jobs'[j].edited
      /\ jobs'[j].base = jobs[j].base /\ jobs'[j].closed = jobs[j].closed
      /\ \A k \in Jobs : k # j => jobs'[k] = jobs[k]
  BY <1>2, <1>3 DEF WriterInv, TypeOK, JobRecord
<1>5. /\ worker' \in WorkerRecords /\ worker'.step = "commit" /\ worker'.job = j
      /\ worker'.refs = worker.refs /\ worker'.tried = worker.tried /\ worker'.pushes = worker.pushes
  BY <1>1 DEF WriterInv, TypeOK, WorkerRecords, Steps, Produce
<1>6. TypeOK' BY <1>1, <1>3, <1>5 DEF WriterInv, TypeOK, WorkerRecords
<1> HIDE DEF new
<1>7. Thread' BY <1>1, <1>2, <1>4, <1>5, ConstantsOK DEF WriterInv, TypeOK, Thread
<1>8. Branch' BY <1>1 DEF WriterInv, Branch
<1>9. CloneAt' BY <1>1, <1>2, <1>4, <1>5 DEF CloneAt, Clean
<1>10. WayBack' BY <1>1, <1>2, <1>4, <1>5 DEF WriterInv, WayBack
<1>11. Progress' BY <1>1, <1>4, <1>5 DEF WriterInv, Progress
<1>12. RecordInv'
  <2>1. ASSUME NEW k \in Jobs PROVE Recorded(k)'
    <3>1. Recorded(k) BY DEF WriterInv, RecordInv
    <3> QED BY <1>1, <1>2, <1>4, <3>1 DEF Recorded
  <2> QED BY <2>1 DEF RecordInv
<1>13. ClosedRight'
  <2>1. \A i \in Items : curated[i] # j BY <1>1 DEF WriterInv, Progress
  <2>2. \A i \in Items : curated[i] # NoJob => curated[i] \in Jobs
    BY ConstantsOK DEF WriterInv, TypeOK, ConstantsOK
  <2> QED BY <1>1, <1>4, <2>1, <2>2 DEF WriterInv, ClosedRight
<1>14. Alone'
  <2>1. Changesets \subseteq Jobs BY ConstantsOK DEF ConstantsOK
  <2> QED BY <1>1, <1>2, <1>4, <1>5, <2>1 DEF WriterInv, Alone
<1> QED BY <1>6, <1>7, <1>8, <1>9, <1>10, <1>11, <1>12, <1>13, <1>14 DEF WriterInv

(* progress("committed") and progress("pushed"): the record names the clone's HEAD. *)
LEMMA Saved ==
    ASSUME WriterInv, NEW j \in Jobs, worker.job = j, worker.step \in {"save", "pushed"},
           NEW ph \in {"committed", "pushed"}, NEW s \in {"push", "rollback", "closeout", "finish"},
           worker.step = "save" => s \in {"push", "rollback"},
           worker.step = "pushed" => s = (IF j \in Changesets THEN "closeout" ELSE "finish"),
           s = "push" => worker.pushes < MaxAttempts,
           jobs' = [jobs EXCEPT ![j] = [jobs[j] EXCEPT !.commit = local, !.phase = ph]],
           worker' = [worker EXCEPT !.step = s],
           UNCHANGED <<remote, local, tracking, tree, curated, queue, crashes, lapsed>>
    PROVE  WriterInv'
<1>1. /\ jobs[j].status = "running" /\ Recorded(j) /\ jobs[j] \in JobRecord
      /\ \A k \in Jobs : jobs[k].status = "running" => k = j
      /\ remote \in Histories /\ local \in Histories /\ tracking \in Histories
      /\ local # NoCommit /\ IsPrefix(tracking, remote)
  BY UnderWay
<1>2. [jobs[j] EXCEPT !.commit = local, !.phase = ph] \in JobRecord BY <1>1, RecordFields, ZenonT(30)
<1>3. /\ jobs' \in [Jobs -> JobRecord] /\ jobs'[j].commit = local
      /\ jobs'[j].status = "running" /\ jobs'[j].edited = jobs[j].edited
      /\ jobs'[j].base = jobs[j].base /\ jobs'[j].closed = jobs[j].closed
      /\ \A k \in Jobs : k # j => jobs'[k] = jobs[k]
  BY <1>1, <1>2 DEF WriterInv, TypeOK, JobRecord
<1>4. /\ worker' \in WorkerRecords /\ worker'.step = s /\ worker'.job = j
      /\ worker'.refs = worker.refs /\ worker'.tried = worker.tried /\ worker'.pushes = worker.pushes
  BY DEF WriterInv, TypeOK, WorkerRecords, Steps
<1>5. jobs[j].edited /\ (Carries(remote, j) => jobs[j].commit = local)
  BY DEF WriterInv, Progress
<1>6. EndsWith(local, j)
  <2>1. CASE worker.step = "save" BY <2>1 DEF WriterInv, CloneAt, OneAhead, EndsWith
  <2>2. CASE worker.step = "pushed"
    <3>1. jobs[j].commit = local BY <2>2 DEF WriterInv, Progress
    <3> QED BY <1>1, <3>1 DEF Recorded
  <2> QED BY <2>1, <2>2
<1>7. worker.step = "pushed" => IsPrefix(local, remote)
  BY <1>1, Ancestry DEF WriterInv, CloneAt, Clean
<1>8. TypeOK' BY <1>3, <1>4 DEF WriterInv, TypeOK, WorkerRecords
<1>9. Thread' BY <1>1, <1>3, <1>4, ConstantsOK DEF WriterInv, TypeOK, Thread
<1>10. Branch' BY DEF WriterInv, Branch
<1>11. CloneAt' BY <1>1, <1>3, <1>4, SMTT(30) DEF WriterInv, CloneAt, Clean, OneAhead
<1>12. WayBack' BY <1>1, <1>3, <1>4 DEF WriterInv, WayBack
<1>13. Progress' BY <1>1, <1>3, <1>4, <1>5, <1>7 DEF WriterInv, Progress
<1>14. RecordInv'
  <2>1. ASSUME NEW k \in Jobs PROVE Recorded(k)'
    <3>1. Recorded(k) BY DEF WriterInv, RecordInv
    <3>2. CASE k = j
      <4>1. EndsWith(jobs'[j].commit, j) BY <1>3, <1>6 DEF EndsWith
      <4> QED BY <1>1, <1>3, <1>5, <3>1, <3>2, <4>1 DEF Recorded
    <3>3. CASE k # j BY <1>3, <3>1, <3>3 DEF Recorded, EndsWith
    <3> QED BY <3>2, <3>3
  <2> QED BY <2>1 DEF RecordInv
<1>15. ClosedRight'
  <2>1. \A i \in Items : curated[i] # NoJob => curated[i] \in Jobs
    BY ConstantsOK DEF WriterInv, TypeOK, ConstantsOK
  <2> QED BY <1>1, <1>3, <2>1 DEF WriterInv, ClosedRight
<1>16. Alone'
  <2>1. Changesets \subseteq Jobs BY ConstantsOK DEF ConstantsOK
  <2> QED BY <1>1, <1>3, <1>4, <2>1 DEF WriterInv, Alone
<1> QED BY <1>8, <1>9, <1>10, <1>11, <1>12, <1>13, <1>14, <1>15, <1>16 DEF WriterInv

(* The record learns the commit before it is pushed. *)
LEMMA SaveCommitStep ==
    ASSUME WriterInv, NEW j \in Jobs, SaveCommit(j)
    PROVE  WriterInv'
<1>1. /\ worker.job = j /\ worker.step = "save"
      /\ UNCHANGED <<remote, local, tracking, tree, curated, queue, crashes, lapsed>>
  BY DEF SaveCommit
<1>2. jobs' = [jobs EXCEPT ![j] = [jobs[j] EXCEPT !.commit = local, !.phase = "committed"]]
  BY DEF WriterInv, TypeOK, JobRecord, SaveCommit
<1>3. PICK s \in {"push", "rollback"} :
          worker' = [worker EXCEPT !.step = s] /\ (s = "push" => worker.pushes < MaxAttempts)
  BY DEF SaveCommit
<1> QED BY <1>1, <1>2, <1>3, Saved

(* The record learns that the commit was pushed. *)
LEMMA SavePushedStep ==
    ASSUME WriterInv, NEW j \in Jobs, SavePushed(j)
    PROVE  WriterInv'
<1>1. jobs' = [jobs EXCEPT ![j] = [jobs[j] EXCEPT !.commit = local, !.phase = "pushed"]]
  BY DEF WriterInv, TypeOK, JobRecord, SavePushed
<1>2. (IF j \in Changesets THEN "closeout" ELSE "finish") \in {"closeout", "finish"} OBVIOUS
<1> QED BY <1>1, <1>2, Saved DEF SavePushed

(* A record whose commit the branch has carries the job.                         *)
LEMMA CommitCarries ==
    ASSUME WriterInv, NEW j \in Jobs, jobs[j].commit # NoCommit, IsPrefix(jobs[j].commit, remote)
    PROVE  Carries(remote, j)
<1>1. /\ jobs[j].commit \in Histories /\ remote \in Histories /\ EndsWith(jobs[j].commit, j)
  BY DEF WriterInv, TypeOK, JobRecord, RecordInv, Recorded
<1>2. PICK q \in Histories : jobs[j].commit = Append(q, {j}) BY <1>1 DEF EndsWith
<1>3. {j} \in Commits BY DEF Commits
<1>4. Carries(jobs[j].commit, j) BY <1>2, <1>3, CarriedMore
<1> QED BY <1>1, <1>4, CarriedOn

(* The closeout, of the worker or of a later start: it may close the item, and says so. *)
LEMMA ClosesOut ==
    ASSUME WriterInv, NEW j \in Changesets, NEW receipt \in {"yes", "error"}, CloseoutOf(j, receipt),
           jobs[j].status \in {"running", "done"},
           jobs[j].edited => jobs[j].commit # NoCommit /\ IsPrefix(jobs[j].commit, remote),
           NEW s \in {"finish", "down"},
           \/ /\ worker.job = j /\ s = "finish" /\ worker.step = "closeout"
              /\ worker' = [worker EXCEPT !.step = "finish"]
           \/ /\ worker.step = "down" /\ s = "down" /\ jobs[j].status = "done"
              /\ worker' = [worker EXCEPT !.tried = @ \cup {j}],
           UNCHANGED <<remote, local, tracking, tree, queue, crashes>>
    PROVE  WriterInv'
<1>1. j \in Jobs /\ jobs[j] \in JobRecord /\ ItemOf[j] \in Items /\ NoJob \notin Jobs
      /\ Changesets \subseteq Jobs /\ Recorded(j)
  BY ConstantsOK DEF WriterInv, TypeOK, ConstantsOK, RecordInv
<1> DEFINE new == [jobs[j] EXCEPT !.closed = receipt]
<1>2. jobs' = [jobs EXCEPT ![j] = new] /\ new \in JobRecord
  <2>1. NoCommit \in Histories BY DEF NoCommit, Histories
  <2>2. new \in JobRecord BY <1>1, <2>1, RecordFields, ZenonT(30)
  <2> QED BY <1>1, <2>2 DEF WriterInv, TypeOK, JobRecord, CloseoutOf
<1>3. /\ jobs' \in [Jobs -> JobRecord] /\ jobs'[j].closed = receipt
      /\ jobs'[j].status = jobs[j].status /\ jobs'[j].edited = jobs[j].edited
      /\ jobs'[j].base = jobs[j].base /\ jobs'[j].commit = jobs[j].commit
      /\ \A k \in Jobs : k # j => jobs'[k] = jobs[k]
  BY <1>1, <1>2 DEF WriterInv, TypeOK, JobRecord
<1> HIDE DEF new
<1>4. /\ \A k \in Jobs : /\ jobs'[k].status = jobs[k].status /\ jobs'[k].edited = jobs[k].edited
                         /\ jobs'[k].base = jobs[k].base /\ jobs'[k].commit = jobs[k].commit
  BY <1>3
<1>5. /\ worker' \in WorkerRecords /\ worker'.step = s /\ worker'.job = worker.job
      /\ worker'.refs = worker.refs /\ worker'.pushes = worker.pushes
      /\ worker'.tried \in {worker.tried, worker.tried \cup {j}}
      /\ (s = "down" => jobs[j].status = "done")
  BY DEF WriterInv, TypeOK, WorkerRecords, Steps
<1>6. /\ curated' \in [Items -> Changesets \cup {NoJob}]
      /\ \A i \in Items : curated'[i] = curated[i]
                          \/ (i = ItemOf[j] /\ curated[i] = NoJob /\ curated'[i] = j)
      /\ receipt = "yes" => curated'[ItemOf[j]] # NoJob
  BY <1>1 DEF WriterInv, TypeOK, CloseoutOf, CloseItem
<1>7. /\ lapsed \subseteq lapsed' /\ lapsed' \in SUBSET Jobs /\ (receipt = "error" => j \in lapsed')
  BY <1>1 DEF WriterInv, TypeOK, CloseoutOf
<1>8. TypeOK' BY <1>3, <1>5, <1>6, <1>7 DEF WriterInv, TypeOK, WorkerRecords
<1>9. Thread'
  <2>1. worker.job = j \/ worker.job = NoJob BY DEF WriterInv, Thread
  <2>2. worker.tried \subseteq Changesets /\ queue \subseteq Jobs BY DEF WriterInv, TypeOK
  <2>3. \A k \in worker'.tried : jobs'[k].status = "done"
    <3>1. \A k \in worker.tried : jobs[k].status = "done" BY DEF WriterInv, Thread
    <3>2. worker'.tried # worker.tried => s = "down" BY DEF WriterInv, TypeOK
    <3> QED BY <1>1, <1>4, <1>5, <2>2, <3>1, <3>2
  <2>4. worker.step \in {"closeout", "down"} /\ worker'.step = s
        /\ ((worker.job = NoJob) <=> s = "down") /\ (worker.step = "down" <=> s = "down")
    BY <1>1, <1>5 DEF WriterInv, Thread
  <2> QED BY <1>1, <1>4, <1>5, <2>1, <2>2, <2>3, <2>4 DEF WriterInv, Thread
<1>10. Branch' BY DEF WriterInv, Branch
<1>11. CloneAt'
  <2>1. worker.step = "closeout" => Clean BY DEF WriterInv, CloneAt
  <2> QED BY <1>4, <1>5, <2>1 DEF WriterInv, CloneAt, Clean
<1>12. WayBack'
  <2>1. worker.job # NoJob => worker.job = j BY DEF WriterInv, Thread
  <2>2. worker.step = "closeout" \/ (worker.step = "down" /\ s = "down") OBVIOUS
  <2> QED BY <1>1, <1>4, <1>5, <2>1, <2>2 DEF WriterInv, WayBack, Clean
<1>13. Progress'
  <2>1. s = "finish" => worker.job = j OBVIOUS
  <2> QED BY <1>1, <1>3, <1>5, <2>1 DEF Progress
<1>14. RecordInv'
  <2>1. ASSUME NEW k \in Jobs PROVE Recorded(k)'
    <3>1. Recorded(k) BY DEF WriterInv, RecordInv
    <3>2. k \in Changesets /\ curated[ItemOf[k]] # NoJob => curated'[ItemOf[k]] # NoJob
      BY <1>1, <1>6, ConstantsOK DEF ConstantsOK
    <3> QED BY <1>1, <1>3, <1>4, <1>6, <1>7, <3>1, <3>2, ZenonT(40) DEF Recorded, EndsWith
  <2> QED BY <2>1 DEF RecordInv
<1>15. ClosedRight'
  <2>1. jobs[j].edited => Carries(remote, j) BY <1>1, CommitCarries
  <2>2. \A i \in Items : curated[i] # NoJob => curated[i] \in Jobs
    BY <1>1 DEF WriterInv, TypeOK
  <2> QED BY <1>1, <1>4, <1>6, <2>1, <2>2 DEF WriterInv, ClosedRight
<1>16. Alone'
  <2>1. ASSUME NEW k \in Changesets, Carries(remote, k), k \notin lapsed', curated'[ItemOf[k]] = NoJob
        PROVE  \/ jobs'[k].status = "running"
               \/ /\ jobs'[k].status = "done" /\ worker'.step = "down"
                  /\ jobs'[k].closed = "no" /\ k \notin worker'.tried
    <3>1. ItemOf[k] \in Items BY ConstantsOK DEF ConstantsOK
    <3>2. k # j /\ curated[ItemOf[k]] = NoJob /\ k \notin lapsed
      BY <1>1, <1>6, <1>7, <2>1, <3>1
    <3> QED BY <1>1, <1>3, <1>5, <2>1, <3>2 DEF WriterInv, Alone
  <2> QED BY <1>1, <1>4, <1>7, <2>1 DEF WriterInv, Alone
<1> QED BY <1>8, <1>9, <1>10, <1>11, <1>12, <1>13, <1>14, <1>15, <1>16 DEF WriterInv

(* The closeout of the job just pushed. *)
LEMMA CloseoutStep ==
    ASSUME WriterInv, NEW j \in Jobs, NEW receipt \in {"yes", "error"}, Closeout(j, receipt)
    PROVE  WriterInv'
<1>1. /\ worker.step = "closeout" /\ worker.job = j /\ worker' = [worker EXCEPT !.step = "finish"]
      /\ CloseoutOf(j, receipt) /\ UNCHANGED <<remote, local, tracking, tree, queue, crashes>>
  BY DEF Closeout
<1>2. j \in Changesets BY <1>1 DEF WriterInv, Thread
<1>3. jobs[j].status = "running" BY <1>1, UnderWay
<1>4. jobs[j].edited => jobs[j].commit # NoCommit /\ IsPrefix(jobs[j].commit, remote)
  BY <1>1 DEF WriterInv, Progress
<1> QED BY <1>1, <1>2, <1>3, <1>4, ClosesOut

(* The closeout that recovery owes a done job. *)
LEMMA RecoverCloseoutStep ==
    ASSUME WriterInv, NEW j \in Jobs, NEW receipt \in {"yes", "error"}, RecoverCloseout(j, receipt)
    PROVE  WriterInv'
<1>1. /\ worker.step = "down" /\ worker' = [worker EXCEPT !.tried = @ \cup {j}]
      /\ CloseoutOf(j, receipt) /\ UNCHANGED <<remote, local, tracking, tree, queue, crashes>>
      /\ j \in Changesets /\ jobs[j].status = "done"
  BY DEF RecoverCloseout, Down, Unclosed
<1>2. jobs[j].edited => jobs[j].commit # NoCommit /\ IsPrefix(jobs[j].commit, remote)
  BY <1>1 DEF WriterInv, RecordInv, Recorded
<1> QED BY <1>1, <1>2, ClosesOut

(* The worker rests: nothing is running any more.                                *)
LEMMA ToRest ==
    ASSUME WriterInv, worker' = Rest("idle"), Clean,
           UNCHANGED <<remote, local, tracking, tree, crashes, lapsed>>,
           jobs' \in [Jobs -> JobRecord], \A k \in Jobs : jobs'[k].status # "running",
           queue' \in SUBSET Jobs, \A k \in queue' : jobs'[k].status = "queued",
           UNCHANGED curated, RecordInv', ClosedRight', Alone'
    PROVE  WriterInv'
<1>1. worker' \in WorkerRecords BY RestIsRecord DEF Steps
<1>2. TypeOK' BY <1>1 DEF WriterInv, TypeOK, WorkerRecords
<1>3. Thread' BY DEF Thread
<1>4. Branch' BY DEF WriterInv, Branch
<1>5. CloneAt' BY DEF CloneAt, Clean
<1>6. WayBack' BY DEF WayBack
<1>7. Progress' BY DEF Progress
<1> QED BY <1>2, <1>3, <1>4, <1>5, <1>6, <1>7 DEF WriterInv

(* The receipt of the job the worker is at: its status and phase.                *)
LEMMA Ends ==
    ASSUME WriterInv, NEW j \in Jobs, worker.job = j, Clean,
           NEW st \in {"done", "failed"}, NEW ph \in {"done", "rolled_back"},
           jobs' = [jobs EXCEPT ![j] = [jobs[j] EXCEPT !.status = st, !.phase = ph]],
           worker' = Rest("idle"),
           UNCHANGED <<remote, local, tracking, tree, curated, queue, crashes, lapsed>>,
           st = "done" => /\ jobs[j].edited => jobs[j].commit # NoCommit /\ IsPrefix(jobs[j].commit, remote)
                          /\ j \in Changesets => jobs[j].closed # "no",
           st = "failed" => /\ Carries(remote, j) => j \in lapsed
    PROVE  WriterInv'
<1>1. /\ worker.step \notin {"idle", "down"} /\ jobs[j].status = "running" /\ Recorded(j)
      /\ \A k \in Jobs : jobs[k].status = "running" => k = j
      /\ jobs[j] \in JobRecord /\ Changesets \subseteq Jobs /\ NoJob \notin Jobs
  BY UnderWay, ConstantsOK DEF ConstantsOK
<1>2. [jobs[j] EXCEPT !.status = st, !.phase = ph] \in JobRecord
  <2>1. NoCommit \in Histories BY DEF NoCommit, Histories
  <2> QED BY <1>1, <2>1, RecordFields, ZenonT(30)
<1>3. /\ jobs' \in [Jobs -> JobRecord] /\ jobs'[j].status = st
      /\ jobs'[j].commit = jobs[j].commit /\ jobs'[j].edited = jobs[j].edited
      /\ jobs'[j].base = jobs[j].base /\ jobs'[j].closed = jobs[j].closed
      /\ \A k \in Jobs : k # j => jobs'[k] = jobs[k]
  BY <1>1, <1>2 DEF WriterInv, TypeOK, JobRecord
<1>4. RecordInv'
  <2>1. ASSUME NEW k \in Jobs PROVE Recorded(k)'
    <3>1. Recorded(k) BY DEF WriterInv, RecordInv
    <3>2. CASE k = j BY <1>1, <1>3, <3>1, <3>2, SMTT(30) DEF Recorded, EndsWith
    <3>3. CASE k # j BY <1>3, <3>1, <3>3 DEF Recorded, EndsWith
    <3> QED BY <3>2, <3>3
  <2> QED BY <2>1 DEF RecordInv
<1>5. ClosedRight'
  <2>1. \A i \in Items : curated[i] # NoJob => curated[i] \in Jobs
    BY <1>1 DEF WriterInv, TypeOK
  <2> QED BY <1>1, <1>3, <2>1 DEF WriterInv, ClosedRight
<1>6. Alone'
  <2>1. ASSUME NEW k \in Changesets, Carries(remote, k), k \notin lapsed, curated[ItemOf[k]] = NoJob
        PROVE  FALSE
    <3>1. k = j BY <1>1, <2>1 DEF WriterInv, Alone
    <3>2. st = "done" /\ jobs[j].closed # "no" BY <2>1, <3>1
    <3>3. jobs[j].closed \in {"yes", "error"} BY <1>1, <3>2 DEF JobRecord
    <3> QED BY <1>1, <2>1, <3>1, <3>3 DEF Recorded
  <2>2. \A k \in Jobs : jobs'[k].status # "running" BY <1>1, <1>3
  <2> QED BY <1>1, <2>1, <2>2 DEF WriterInv, Alone
<1>7. queue' \in SUBSET Jobs /\ \A k \in queue' : jobs'[k].status = "queued"
  BY <1>1, <1>3 DEF WriterInv, TypeOK, Thread
<1>8. \A k \in Jobs : jobs'[k].status # "running" BY <1>1, <1>3
<1> QED BY <1>3, <1>4, <1>5, <1>6, <1>7, <1>8, ToRest

(* The worker saves the last receipt and rests. *)
LEMMA FinishStep ==
    ASSUME WriterInv, NEW j \in Jobs, Finish(j)
    PROVE  WriterInv'
<1>1. /\ worker.step = "finish" /\ worker.job = j /\ worker' = Rest("idle")
      /\ UNCHANGED <<remote, local, tracking, tree, curated, queue, crashes, lapsed>>
  BY DEF Finish
<1>2. jobs' = [jobs EXCEPT ![j] = [jobs[j] EXCEPT !.status = "done", !.phase = "done"]]
  BY DEF WriterInv, TypeOK, JobRecord, Finish
<1>3. Clean BY <1>1 DEF WriterInv, CloneAt
<1>4. /\ jobs[j].edited => jobs[j].commit # NoCommit /\ IsPrefix(jobs[j].commit, remote)
      /\ j \in Changesets => jobs[j].closed # "no"
  BY <1>1 DEF WriterInv, Progress
<1> HIDE DEF Rest
<1> QED BY <1>1, <1>2, <1>3, <1>4, Ends

(* The worker saves the failure of a job it rolled back and rests. *)
LEMMA SaveFailedStep ==
    ASSUME WriterInv, NEW j \in Jobs, SaveFailed(j)
    PROVE  WriterInv'
<1>1. /\ worker.step = "fail" /\ worker.job = j /\ worker' = Rest("idle")
      /\ UNCHANGED <<remote, local, tracking, tree, curated, queue, crashes, lapsed>>
  BY DEF SaveFailed
<1>2. jobs' = [jobs EXCEPT ![j] = [jobs[j] EXCEPT !.status = "failed", !.phase = "rolled_back"]]
  BY DEF WriterInv, TypeOK, JobRecord, SaveFailed
<1>3. Clean BY <1>1 DEF WriterInv, CloneAt
<1>4. Carries(remote, j) => j \in lapsed BY <1>1 DEF WriterInv, Progress
<1> HIDE DEF Rest
<1> QED BY <1>1, <1>2, <1>3, <1>4, Ends

(* A crash loses the worker's memory, and nothing else. *)
LEMMA CrashStep ==
    ASSUME WriterInv, Crash
    PROVE  WriterInv'
<1>1. /\ worker.step # "down" /\ worker' = Rest("down") /\ queue' = {}
      /\ UNCHANGED <<remote, local, tracking, tree, jobs, curated, lapsed>>
  BY DEF Crash
<1>2. TypeOK'
  <2>1. worker' \in WorkerRecords BY <1>1, RestIsRecord DEF Steps
  <2>2. crashes' \in 0..MaxCrashes
    BY ConstantsOK DEF WriterInv, TypeOK, Crash, ConstantsOK
  <2> QED BY <1>1, <2>1, <2>2 DEF WriterInv, TypeOK, WorkerRecords
<1>3. Thread' BY <1>1 DEF WriterInv, Thread
<1>4. Branch' BY <1>1 DEF WriterInv, Branch
<1>5. CloneAt'
  <2>1. (\A k \in Jobs : jobs[k].status # "running") => Clean
    <3>1. worker.job = NoJob \/ worker.job \in Jobs BY DEF WriterInv, TypeOK
    <3> QED BY <1>1, <3>1 DEF WriterInv, Thread, CloneAt
  <2> QED BY <1>1, <2>1 DEF CloneAt, Clean
<1>6. WayBack' BY <1>1 DEF WriterInv, WayBack, Clean
<1>7. Progress' BY <1>1 DEF Progress
<1>8. RecordInv' /\ ClosedRight' BY <1>1 DEF WriterInv, RecordInv, Recorded, ClosedRight
<1>9. Alone' BY <1>1 DEF WriterInv, Alone
<1> QED BY <1>2, <1>3, <1>4, <1>5, <1>6, <1>7, <1>8, <1>9 DEF WriterInv

(* Recovery fails a job that has no base: it had not begun. *)
LEMMA ReconcileNothingStep ==
    ASSUME WriterInv, NEW j \in Jobs, ReconcileNothing(j)
    PROVE  WriterInv'
<1>1. /\ worker.step = "down" /\ jobs[j].status = "running" /\ jobs[j].base = NoCommit
      /\ UNCHANGED <<remote, local, tracking, tree, worker, curated, queue, crashes, lapsed>>
  BY DEF ReconcileNothing, Down, Running
<1>2. Clean /\ jobs[j].commit = NoCommit /\ Recorded(j)
  BY <1>1 DEF WriterInv, WayBack, RecordInv
<1>3. ~Carries(remote, j) BY <1>1, <1>2 DEF Recorded
<1>4. jobs' = [jobs EXCEPT ![j] = [jobs[j] EXCEPT !.status = "failed"]]
  BY DEF WriterInv, TypeOK, JobRecord, ReconcileNothing
<1>5. queue' = queue \ {j} BY <1>1 DEF WriterInv, Thread
<1> QED BY <1>1, <1>2, <1>3, <1>4, <1>5, FailedEarly

(* recover gives the interrupted job its end, and the clone a place on the branch. *)
LEMMA Settles ==
    ASSUME WriterInv, NEW j \in Jobs, worker.step = "down", jobs[j].status = "running",
           NEW st \in {"done", "failed"}, NEW ph \in {"done", "rolled_back"},
           jobs' = [jobs EXCEPT ![j] = [jobs[j] EXCEPT !.status = st, !.phase = ph]],
           local' \in Histories, local' # NoCommit, tracking' \in Histories, tree' = {},
           IsPrefix(local', tracking'), IsPrefix(tracking', remote),
           UNCHANGED <<remote, worker, curated, queue, crashes, lapsed>>,
           st = "done" => jobs[j].commit # NoCommit /\ IsPrefix(jobs[j].commit, remote),
           st = "failed" => ~Carries(remote, j)
    PROVE  WriterInv'
<1>1. /\ Recorded(j) /\ jobs[j] \in JobRecord /\ Changesets \subseteq Jobs /\ NoJob \notin Jobs
      /\ \A k \in Jobs : jobs[k].status = "running" => k = j
      /\ worker.job = NoJob /\ j \notin worker.tried /\ j \notin queue
  BY ConstantsOK DEF WriterInv, TypeOK, Thread, RecordInv, ConstantsOK
<1>2. [jobs[j] EXCEPT !.status = st, !.phase = ph] \in JobRecord
  <2>1. NoCommit \in Histories BY DEF NoCommit, Histories
  <2> QED BY <1>1, <2>1, RecordFields, ZenonT(30)
<1>3. /\ jobs' \in [Jobs -> JobRecord] /\ jobs'[j].status = st
      /\ jobs'[j].commit = jobs[j].commit /\ jobs'[j].edited = jobs[j].edited
      /\ jobs'[j].base = jobs[j].base /\ jobs'[j].closed = jobs[j].closed
      /\ \A k \in Jobs : k # j => jobs'[k] = jobs[k]
  BY <1>1, <1>2 DEF WriterInv, TypeOK, JobRecord
<1>4. TypeOK' BY <1>3 DEF WriterInv, TypeOK
<1>5. Thread' BY <1>1, <1>3 DEF WriterInv, TypeOK, Thread
<1>6. Branch' BY DEF WriterInv, Branch
<1>7. CloneAt' BY DEF CloneAt, Clean
<1>8. WayBack' BY <1>1, <1>3 DEF WriterInv, WayBack
<1>9. Progress' BY DEF Progress
<1>10. RecordInv'
  <2>1. ASSUME NEW k \in Jobs PROVE Recorded(k)'
    <3>1. Recorded(k) BY DEF WriterInv, RecordInv
    <3>2. CASE k = j BY <1>1, <1>3, <3>1, <3>2 DEF Recorded, EndsWith
    <3>3. CASE k # j BY <1>3, <3>1, <3>3 DEF Recorded, EndsWith
    <3> QED BY <3>2, <3>3
  <2> QED BY <2>1 DEF RecordInv
<1>11. ClosedRight'
  <2>1. \A i \in Items : curated[i] # NoJob => curated[i] \in Jobs
    BY <1>1 DEF WriterInv, TypeOK
  <2> QED BY <1>1, <1>3, <2>1 DEF WriterInv, ClosedRight
<1>12. Alone'
  <2>1. ASSUME NEW k \in Changesets, Carries(remote, k), k \notin lapsed, curated[ItemOf[k]] = NoJob
        PROVE  /\ jobs'[k].status = "done" /\ jobs'[k].closed = "no" /\ k \notin worker.tried
    <3>1. CASE k = j
      <4>1. st = "done" BY <2>1, <3>1
      <4>2. jobs[j].closed \in {"no", "yes", "error"} BY <1>1 DEF JobRecord
      <4>3. jobs[j].closed = "no" BY <1>1, <2>1, <3>1, <4>2 DEF Recorded
      <4> QED BY <1>1, <1>3, <3>1, <4>1, <4>3
    <3>2. CASE k # j BY <1>1, <1>3, <2>1, <3>2 DEF WriterInv, Alone
    <3> QED BY <3>1, <3>2
  <2>2. \A k \in Jobs : jobs'[k].status # "running" BY <1>1, <1>3
  <2> QED BY <1>1, <2>1, <2>2 DEF WriterInv, Alone
<1> QED BY <1>4, <1>5, <1>6, <1>7, <1>8, <1>9, <1>10, <1>11, <1>12 DEF WriterInv

(* Recovery completes a job whose commit is on the branch. *)
LEMMA ReconcileDoneStep ==
    ASSUME WriterInv, NEW j \in Jobs, ReconcileDone(j)
    PROVE  WriterInv'
<1>1. /\ worker.step = "down" /\ jobs[j].status = "running"
      /\ jobs[j].commit # NoCommit /\ IsPrefix(jobs[j].commit, remote)
      /\ tracking' = remote /\ local' = remote /\ tree' = {}
      /\ UNCHANGED <<remote, worker, curated, queue, crashes, lapsed>>
  BY DEF ReconcileDone, Down, Running
<1>2. jobs' = [jobs EXCEPT ![j] = [jobs[j] EXCEPT !.status = "done", !.phase = "done"]]
  BY DEF WriterInv, TypeOK, JobRecord, ReconcileDone
<1>3. remote \in Histories /\ remote # NoCommit /\ IsPrefix(remote, remote)
  BY Ancestry DEF WriterInv, TypeOK, Branch
<1> QED BY <1>1, <1>2, <1>3, Settles

(* Recovery rolls back a job whose commit is not on the branch. *)
LEMMA ReconcileRollbackStep ==
    ASSUME WriterInv, NEW j \in Jobs, ReconcileRollback(j)
    PROVE  WriterInv'
<1>1. /\ worker.step = "down" /\ jobs[j].status = "running" /\ jobs[j].base # NoCommit
      /\ local' = jobs[j].base /\ tree' = {}
      /\ UNCHANGED <<remote, worker, curated, queue, crashes, lapsed>>
  BY DEF ReconcileRollback, Down, Running
<1>2. jobs' = [jobs EXCEPT ![j] = [jobs[j] EXCEPT !.status = "failed", !.phase = "rolled_back"]]
  BY DEF WriterInv, TypeOK, JobRecord, ReconcileRollback
<1>3. /\ remote \in Histories /\ tracking \in Histories /\ jobs[j].base \in Histories
      /\ IsPrefix(tracking, remote) /\ IsPrefix(jobs[j].base, tracking) /\ Recorded(j)
  BY <1>1 DEF WriterInv, TypeOK, JobRecord, Branch, WayBack, RecordInv
<1>4. IsPrefix(remote, remote) /\ IsPrefix(jobs[j].base, remote) BY <1>3, Ancestry
<1>5. /\ tracking' \in Histories /\ IsPrefix(local', tracking') /\ IsPrefix(tracking', remote)
  BY <1>1, <1>3, <1>4 DEF ReconcileRollback
<1>6. ~Carries(remote, j) BY <1>1, <1>3 DEF Recorded, ReconcileRollback
<1> QED BY <1>1, <1>2, <1>3, <1>5, <1>6, Settles

(* The worker starts when no job is running and every closeout was tried. *)
LEMMA StartWorkerStep ==
    ASSUME WriterInv, StartWorker
    PROVE  WriterInv'
<1>1. /\ worker.step = "down" /\ Running = {} /\ Unclosed \subseteq worker.tried
      /\ queue' = Queued /\ worker' = Rest("idle")
      /\ UNCHANGED <<remote, local, tracking, tree, jobs, curated, crashes, lapsed>>
  BY DEF StartWorker, Down
<1>2. \A k \in Jobs : jobs[k].status # "running" BY <1>1 DEF Running
<1>3. Clean BY <1>1, <1>2 DEF WriterInv, CloneAt
<1>4. RecordInv' /\ ClosedRight' BY <1>1 DEF WriterInv, RecordInv, Recorded, ClosedRight
<1>5. Alone'
  <2>1. Changesets \subseteq Jobs BY ConstantsOK DEF ConstantsOK
  <2>2. ASSUME NEW k \in Changesets, Carries(remote, k), k \notin lapsed, curated[ItemOf[k]] = NoJob
        PROVE  FALSE
    BY <1>1, <1>2, <2>1, <2>2 DEF WriterInv, Alone, Unclosed
  <2> QED BY <1>1, <1>2, <2>1, <2>2 DEF WriterInv, Alone
<1>6. jobs' \in [Jobs -> JobRecord] BY <1>1 DEF WriterInv, TypeOK
<1>7. queue' \in SUBSET Jobs /\ \A k \in queue' : jobs'[k].status = "queued"
  BY <1>1 DEF Queued
<1> HIDE DEF Rest
<1> QED BY <1>1, <1>2, <1>3, <1>4, <1>5, <1>6, <1>7, ToRest

-----------------------------------------------------------------------------
(* The invariant holds at first, and every step keeps it. *)

(* The invariant holds before the first job. *)
LEMMA InitInv ==
    ASSUME Init
    PROVE  WriterInv
<1>1. /\ remote = <<{}>> /\ local = <<{}>> /\ tracking = <<{}>> /\ tree = {}
      /\ jobs = [k \in Jobs |-> NoRecord] /\ curated = [i \in Items |-> NoJob] /\ queue = {}
      /\ worker = Rest("idle") /\ crashes = 0 /\ lapsed = {}
  BY DEF Init, Foreign
<1>2. /\ <<{}>> \in Histories /\ <<{}>> # NoCommit /\ NoCommit \in Histories
      /\ Len(<<{}>>) = 1 /\ <<{}>>[1] = {}
  BY DEF Histories, Commits, NoCommit
<1>3. IsPrefix(<<{}>>, <<{}>>) BY <1>2, Ancestry
<1>4. \A k : ~Carries(<<{}>>, k)
  <2>1. ASSUME NEW m \in 1..Len(<<{}>>) PROVE <<{}>>[m] = {} BY <1>2, <2>1
  <2> QED BY <2>1 DEF Carries
<1>5. OnePlace(<<{}>>)
  <2>1. ASSUME NEW m \in 1..Len(<<{}>>) PROVE m = 1 /\ <<{}>>[m] = {} BY <1>2, <2>1
  <2> QED BY <2>1 DEF OnePlace
<1>6. NoRecord \in JobRecord BY <1>2 DEF NoRecord, JobRecord
<1>7. TypeOK
  <2>1. worker \in WorkerRecords BY <1>1, RestIsRecord DEF Steps
  <2>2. crashes \in 0..MaxCrashes BY <1>1, ConstantsOK DEF ConstantsOK
  <2> QED BY <1>1, <1>2, <1>6, <2>1, <2>2 DEF TypeOK, WorkerRecords
<1>8. Thread BY <1>1 DEF Thread, NoRecord
<1>9. Branch BY <1>1, <1>2, <1>3, <1>5 DEF Branch
<1>10. CloneAt BY <1>1, <1>3 DEF CloneAt, Clean
<1>11. WayBack BY <1>1 DEF WayBack, NoRecord
<1>12. Progress BY <1>1 DEF Progress
<1>13. RecordInv BY <1>1, <1>4 DEF RecordInv, Recorded, NoRecord
<1>14. ClosedRight BY <1>1 DEF ClosedRight
<1>15. Alone BY <1>1, <1>4 DEF Alone
<1> QED BY <1>7, <1>8, <1>9, <1>10, <1>11, <1>12, <1>13, <1>14, <1>15 DEF WriterInv

(* Every step keeps the invariant. *)
LEMMA NextInv ==
    ASSUME WriterInv, [Next]_vars
    PROVE  WriterInv'
<1>1. CASE UNCHANGED vars
  <2>1. UNCHANGED <<remote, local, tracking, tree, jobs, worker, curated, queue, crashes, lapsed>>
    BY <1>1 DEF vars
  <2>2. TypeOK' /\ Thread' /\ Branch' /\ CloneAt' /\ WayBack' /\ Progress'
    BY <2>1 DEF WriterInv, TypeOK, Thread, Branch, CloneAt, Clean, OneAhead, WayBack, Progress
  <2>3. RecordInv' /\ ClosedRight' /\ Alone'
    BY <2>1 DEF WriterInv, RecordInv, Recorded, ClosedRight, Alone
  <2> QED BY <2>2, <2>3 DEF WriterInv
<1>2. CASE ForeignPush BY <1>2, ForeignPushStep
<1>3. ASSUME NEW j \in Jobs, Submit(j) PROVE WriterInv' BY <1>3, SubmitStep
<1>4. ASSUME NEW j \in Jobs, WorkerStep(j) PROVE WriterInv'
  <2>1. CASE Take(j) BY <2>1, TakeStep
  <2>2. CASE StartSync(j) BY <2>2, StartSyncStep
  <2>3. CASE PreSync(j) BY <2>3, PreSyncStep
  <2>4. CASE PreSyncOffline(j) BY <2>4, PreSyncOfflineStep
  <2>5. CASE Produce(j) BY <2>5, ProduceStep
  <2>6. CASE Noop(j) BY <2>6, NoopStep
  <2>7. CASE Refuse(j) BY <2>7, RefuseStep
  <2>8. CASE GitCommit(j) BY <2>8, GitCommitStep
  <2>9. CASE SaveCommit(j) BY <2>9, SaveCommitStep
  <2>10. CASE Push(j) BY <2>10, PushStep
  <2>11. CASE PushRejected(j) BY <2>11, PushRejectedStep
  <2>12. CASE PushAckLost(j) BY <2>12, PushAckLostStep
  <2>13. ASSUME NEW fetched, FoundOnRemote(j, fetched) PROVE WriterInv'
    BY <2>13, FoundOnRemoteStep
  <2>14. ASSUME NEW fetched, Integrate(j, fetched) PROVE WriterInv' BY <2>14, IntegrateStep
  <2>15. ASSUME NEW fetched, RebaseConflict(j, fetched) PROVE WriterInv'
    BY <2>15, RebaseConflictStep
  <2>16. CASE SavePushed(j) BY <2>16, SavePushedStep
  <2>17. CASE Finish(j) BY <2>17, FinishStep
  <2>18. ASSUME NEW receipt \in {"yes", "error"}, Closeout(j, receipt) PROVE WriterInv'
    BY <2>18, CloseoutStep
  <2>19. CASE TimeOut(j) BY <2>19, TimeOutStep
  <2>20. CASE Rollback(j) BY <2>20, RollbackStep
  <2>21. CASE SaveFailed(j) BY <2>21, SaveFailedStep
  <2> QED BY <1>4, <2>1, <2>2, <2>3, <2>4, <2>5, <2>6, <2>7, <2>8, <2>9, <2>10, <2>11, <2>12,
             <2>13, <2>14, <2>15, <2>16, <2>17, <2>18, <2>19, <2>20, <2>21 DEF WorkerStep
<1>5. CASE Crash BY <1>5, CrashStep
<1>6. CASE RecoveryStep
  <2>1. ASSUME NEW j \in Jobs, ReconcileNothing(j) PROVE WriterInv' BY <2>1, ReconcileNothingStep
  <2>2. ASSUME NEW j \in Jobs, ReconcileDone(j) PROVE WriterInv' BY <2>2, ReconcileDoneStep
  <2>3. ASSUME NEW j \in Jobs, ReconcileRollback(j) PROVE WriterInv' BY <2>3, ReconcileRollbackStep
  <2>4. ASSUME NEW j \in Jobs, NEW receipt \in {"yes", "error"}, RecoverCloseout(j, receipt)
        PROVE  WriterInv'
    BY <2>4, RecoverCloseoutStep
  <2>5. CASE StartWorker BY <2>5, StartWorkerStep
  <2> QED BY <1>6, <2>1, <2>2, <2>3, <2>4, <2>5 DEF RecoveryStep
<1> QED BY <1>1, <1>2, <1>3, <1>4, <1>5, <1>6 DEF Next

(* The invariant of the transaction, in every reachable state.                   *)
THEOREM WriterInvariant == Spec => []WriterInv
<1>1. Init => WriterInv BY InitInv
<1>2. WriterInv /\ [Next]_vars => WriterInv' BY NextInv
<1> QED BY <1>1, <1>2, PTL DEF Spec

(* Every variable of the transaction keeps its shape.                            *)
THEOREM TypeCorrect == Spec => []TypeOK
<1>1. WriterInv => TypeOK BY DEF WriterInv
<1> QED BY <1>1, WriterInvariant, PTL

(* Between two jobs the clone has no edit and no commit the remote lacks, whatever *)
(* pushes, timeouts, rollbacks and crashes came before.                          *)
THEOREM CloneIsClean == Spec => []CleanAtRest
<1>1. ASSUME WriterInv PROVE CleanAtRest
  <2>1. /\ local \in Histories /\ tracking \in Histories /\ remote \in Histories
        /\ IsPrefix(tracking, remote)
    BY <1>1 DEF WriterInv, TypeOK, Branch
  <2>2. worker.step = "idle" => tree = {} /\ IsPrefix(local, tracking)
    BY <1>1 DEF WriterInv, CloneAt, Clean
  <2> QED BY <2>1, <2>2, Ancestry DEF CleanAtRest
<1> QED BY <1>1, WriterInvariant, PTL

(* A commit that ends in the job's holds the job.                                *)
LEMMA LastIsTheJobs ==
    ASSUME NEW h \in Histories, NEW j \in Jobs, EndsWith(h, j)
    PROVE  j \in Last(h)
<1>1. PICK q \in Histories : h = Append(q, {j}) BY DEF EndsWith
<1>2. {j} \in Commits BY DEF Commits
<1>3. Len(h) = Len(q) + 1 /\ h[Len(q) + 1] = {j}
  BY <1>1, <1>2, AppendProperties DEF Histories
<1> QED BY <1>3 DEF Last

(* Receipts, closed items and the branch agree: what a receipt calls done the    *)
(* branch holds, and holds once; a closed item's edits are on it; and of two     *)
(* changesets for one item one got in, unless an answer was lost.                *)
THEOREM RecordsAgree == Spec => []RecordsMatchBranch
<1>1. ASSUME WriterInv PROVE RecordsMatchBranch
  <2>1. remote \in Histories /\ OnePlace(remote) /\ Changesets \subseteq Jobs
        /\ DOMAIN remote = 1..Len(remote)
    BY <1>1, ConstantsOK, LenProperties DEF WriterInv, TypeOK, Branch, ConstantsOK, Histories
  <2>2. \A j : Published(j) <=> Carries(remote, j) BY <2>1, PublishedIsCarried
  <2>3. DoneIsPublished
    <3>1. ASSUME NEW j \in Jobs, jobs[j].status = "done", jobs[j].edited
          PROVE  /\ jobs[j].commit # NoCommit /\ IsPrefix(jobs[j].commit, remote)
                 /\ j \in Last(jobs[j].commit)
      <4>1. Recorded(j) /\ jobs[j].commit \in Histories
        BY <1>1 DEF WriterInv, TypeOK, JobRecord, RecordInv
      <4>2. jobs[j].commit # NoCommit /\ IsPrefix(jobs[j].commit, remote)
        BY <3>1, <4>1 DEF Recorded
      <4>3. EndsWith(jobs[j].commit, j) BY <4>1, <4>2 DEF Recorded
      <4> QED BY <4>1, <4>2, <4>3, LastIsTheJobs
    <3> QED BY <3>1 DEF DoneIsPublished
  <2>4. PublishedOnce
    <3>1. \A j \in Jobs : Cardinality({k \in DOMAIN remote : j \in remote[k]}) <= 1
      <4>1. ASSUME NEW j \in Jobs
            PROVE  Cardinality({k \in DOMAIN remote : j \in remote[k]})
                       = IF Carries(remote, j) THEN 1 ELSE 0
        BY <2>1, OnePlaceCount DEF Histories
      <4> QED BY <4>1
    <3>2. ASSUME NEW k \in DOMAIN remote PROVE Cardinality(remote[k]) <= 1
      <4>1. CASE remote[k] = {} BY <4>1, FS_EmptySet
      <4>2. CASE remote[k] # {}
        <5>1. PICK m : remote[k] = {m} BY <2>1, <4>2 DEF OnePlace
        <5>2. Cardinality({m}) = 1 BY FS_Singleton
        <5> QED BY <5>1, <5>2
      <4> QED BY <4>1, <4>2
    <3> QED BY <3>1, <3>2 DEF PublishedOnce
  <2>5. CuratedIsPublished
    BY <1>1, <2>2 DEF WriterInv, ClosedRight, CuratedIsPublished
  <2>6. OneChangesetPerItem
    BY <1>1, <2>2 DEF WriterInv, Alone, OneChangesetPerItem
  <2> QED BY <2>3, <2>4, <2>5, <2>6 DEF RecordsMatchBranch
<1> QED BY <1>1, WriterInvariant, PTL

-----------------------------------------------------------------------------
(* The refinement: what each step is to JobOutcome. *)

(* JobOutcome counts the places of a job on the branch: one or none.             *)
LEMMA Counted ==
    ASSUME WriterInv, WriterInv'
    PROVE  /\ \A j \in Jobs : Cardinality({k \in DOMAIN remote : j \in remote[k]})
                                  = IF Carries(remote, j) THEN 1 ELSE 0
           /\ \A j \in Jobs : Cardinality({k \in DOMAIN remote' : j \in remote'[k]})
                                  = IF Carries(remote', j) THEN 1 ELSE 0
<1>1. remote \in Histories /\ OnePlace(remote) BY DEF WriterInv, TypeOK, Branch
<1>2. remote' \in Histories /\ OnePlace(remote') BY DEF WriterInv, TypeOK, Branch
<1> QED BY <1>1, <1>2, OnePlaceCount DEF Histories

(* A step of JobOutcome, or none. *)
OutcomeStep == Outcome!Next \/ UNCHANGED Outcome!outcome

(* A step that leaves branch, receipts and doubts alone is no step of JobOutcome. *)
LEMMA Stutters ==
    ASSUME WriterInv, WriterInv', lapsed' = lapsed,
           \A k \in Jobs : Carries(remote', k) <=> Carries(remote, k),
           \A k \in Jobs : Receipt(k)' = Receipt(k)
    PROVE  OutcomeStep
  BY Counted DEF OutcomeStep, Outcome!outcome

(* A step that only adds a doubt is JobOutcome's Doubt. *)
LEMMA Doubts ==
    ASSUME WriterInv, WriterInv', NEW j \in Jobs, lapsed' = lapsed \cup {j},
           \A k \in Jobs : Carries(remote', k) <=> Carries(remote, k),
           \A k \in Jobs : Receipt(k)' = Receipt(k)
    PROVE  OutcomeStep
  BY Counted DEF OutcomeStep, Outcome!Next, Outcome!Doubt

(* A step that puts the edits of an unanswered job on the branch is Publish. *)
LEMMA IsPublished ==
    ASSUME WriterInv, WriterInv', NEW j \in Jobs, lapsed' \in {lapsed, lapsed \cup {j}},
           ~Carries(remote, j), Receipt(j) = "none",
           \A k \in Jobs : Carries(remote', k) <=> Carries(remote, k) \/ k = j,
           \A k \in Jobs : Receipt(k)' = Receipt(k)
    PROVE  OutcomeStep
<1> DEFINE pub == [k \in Jobs |-> Cardinality({m \in DOMAIN remote : k \in remote[m]})]
           rec == [k \in Jobs |-> Receipt(k)]
<1>1. pub[j] = 0 /\ rec[j] = "none" BY Counted
<1>2. pub' = [pub EXCEPT ![j] = 1] BY Counted
<1>3. rec' = rec OBVIOUS
<1>4. Outcome!Publish(j) BY <1>1, <1>2, <1>3 DEF Outcome!Publish
<1> QED BY <1>4 DEF OutcomeStep, Outcome!Next

(* A step that gives a job its receipt, true or in doubt, is Answer. *)
LEMMA IsAnswered ==
    ASSUME WriterInv, WriterInv', NEW j \in Jobs, UNCHANGED <<remote, lapsed>>,
           NEW answer \in {"published", "noop", "failed"},
           Receipt(j) = "none", Receipt(j)' = answer,
           \A k \in Jobs : k # j => Receipt(k)' = Receipt(k),
           \/ Carries(remote, j) <=> answer = "published"
           \/ answer = "failed" /\ j \in lapsed
    PROVE  OutcomeStep
<1> DEFINE pub == [k \in Jobs |-> Cardinality({m \in DOMAIN remote : k \in remote[m]})]
           rec == [k \in Jobs |-> Receipt(k)]
<1>1. /\ rec[j] = "none" /\ pub[j] = (IF Carries(remote, j) THEN 1 ELSE 0) /\ pub' = pub
  BY Counted
<1>2. rec' = [rec EXCEPT ![j] = answer] OBVIOUS
<1>3. pub[j] = (IF answer = "published" THEN 1 ELSE 0) \/ (answer = "failed" /\ j \in lapsed)
  BY <1>1
<1>4. Outcome!Answer(j, answer) BY <1>1, <1>2, <1>3 DEF Outcome!Answer
<1>5. answer \in Outcome!Receipts \ {"none"} BY DEF Outcome!Receipts
<1> QED BY <1>4, <1>5 DEF OutcomeStep, Outcome!Next

(* A step that keeps the branch, the doubts and what the receipts say.           *)
LEMMA KeepsOutcome ==
    ASSUME WriterInv, WriterInv', UNCHANGED <<remote, lapsed>>,
           \A k \in Jobs : \/ jobs'[k] = jobs[k]
                           \/ jobs[k].status \notin {"failed", "done"}
                              /\ jobs'[k].status \notin {"failed", "done"}
                           \/ jobs'[k].status = jobs[k].status /\ jobs'[k].edited = jobs[k].edited
    PROVE  OutcomeStep
<1>1. \A k \in Jobs : Receipt(k)' = Receipt(k) BY DEF Receipt
<1> QED BY <1>1, Stutters

(* The push is the publication, or repeats it.                                   *)
LEMMA PushPublishes ==
    ASSUME WriterInv, WriterInv', NEW j \in Jobs, At("push", j), IsPrefix(remote, local),
           remote' = local, jobs' = jobs, lapsed' \in {lapsed, lapsed \cup {j}}
    PROVE  OutcomeStep
<1>1. /\ remote \in Histories /\ local \in Histories /\ tracking \in Histories
      /\ IsPrefix(tracking, remote) /\ jobs[j].status = "running" /\ worker.step = "push"
  BY UnderWay
<1>2. PICK p \in Histories : local = Append(p, {j}) /\ IsPrefix(p, tracking) /\ ~Carries(p, j)
  BY <1>1 DEF WriterInv, CloneAt, OneAhead
<1>3. {j} \in Commits BY DEF Commits
<1>4. IsPrefix(p, remote) BY <1>1, <1>2, Ancestry
<1>5. remote = p \/ remote = local BY <1>1, <1>2, <1>3, <1>4, OneCommitMore, Ancestry
<1>6. \A k : Carries(local, k) <=> Carries(p, k) \/ k = j BY <1>2, <1>3, CarriedMore
<1>7. \A k \in Jobs : Receipt(k)' = Receipt(k) BY DEF Receipt
<1>8. Receipt(j) = "none" BY <1>1 DEF Receipt
<1>9. CASE remote = p BY <1>2, <1>6, <1>7, <1>8, <1>9, IsPublished
<1>10. CASE remote = local
  <2>1. \A k \in Jobs : Carries(remote', k) <=> Carries(remote, k) BY <1>10
  <2> QED BY <1>7, <2>1, Stutters, Doubts
<1> QED BY <1>5, <1>9, <1>10

(* The closeout leaves the receipt as it is, and a doubt when it raised.         *)
LEMMA CloseoutDoubts ==
    ASSUME WriterInv, WriterInv', NEW j \in Jobs, NEW receipt \in {"yes", "error"},
           CloseoutOf(j, receipt), remote' = remote
    PROVE  OutcomeStep
<1>1. \A k \in Jobs : jobs'[k].status = jobs[k].status /\ jobs'[k].edited = jobs[k].edited
  BY DEF WriterInv, TypeOK, JobRecord, CloseoutOf
<1>2. \A k \in Jobs : Receipt(k)' = Receipt(k) BY <1>1 DEF Receipt
<1>3. lapsed' = lapsed \/ lapsed' = lapsed \cup {j} BY DEF CloseoutOf
<1> QED BY <1>2, <1>3, Stutters, Doubts

(* What the steps of the worker are to JobOutcome. *)
LEMMA WorkerStepOutcome ==
    ASSUME WriterInv, WriterInv', NEW j \in Jobs, WorkerStep(j)
    PROVE  OutcomeStep
<1>1. CASE Take(j)
  <2>1. /\ jobs[j].status = "queued" /\ Recorded(j) /\ remote' = remote /\ lapsed' = lapsed
    BY <1>1 DEF WriterInv, Thread, RecordInv, Take
  <2>2. ~Carries(remote, j) /\ Receipt(j) = "none" BY <2>1 DEF Recorded, Receipt
  <2>3. /\ \A k \in Jobs : k # j => jobs'[k] = jobs[k]
        /\ jobs'[j].status \in {"failed", "running"}
    BY <1>1 DEF WriterInv, TypeOK, JobRecord, Take
  <2>4. \A k \in Jobs : k # j => Receipt(k)' = Receipt(k) BY <2>3 DEF Receipt
  <2>5. CASE jobs'[j].status = "failed"
    <3>1. Receipt(j)' = "failed" BY <2>5 DEF Receipt
    <3> QED BY <2>1, <2>2, <2>4, <3>1, IsAnswered
  <2>6. CASE jobs'[j].status = "running"
    <3>1. Receipt(j)' = "none" BY <2>6 DEF Receipt
    <3> QED BY <2>1, <2>2, <2>4, <3>1, Stutters
  <2> QED BY <2>3, <2>5, <2>6
<1>2. CASE StartSync(j)
  <2>1. Clean /\ jobs[j].status = "running"
    BY <1>2, UnderWay DEF WriterInv, CloneAt, StartSync
  <2>2. /\ remote' = remote /\ lapsed' = lapsed
        /\ \A k \in Jobs : jobs'[k].status = jobs[k].status /\ jobs'[k].edited = jobs[k].edited
    BY <1>2, <2>1 DEF WriterInv, TypeOK, JobRecord, StartSync, Clean
  <2> QED BY <2>2, KeepsOutcome
<1>3. CASE PreSync(j) \/ SaveCommit(j) \/ SavePushed(j)
  <2>1. /\ remote' = remote /\ lapsed' = lapsed
        /\ \A k \in Jobs : jobs'[k].status = jobs[k].status /\ jobs'[k].edited = jobs[k].edited
    <3>1. CASE PreSync(j) BY <3>1 DEF WriterInv, TypeOK, JobRecord, PreSync
    <3>2. CASE SaveCommit(j) BY <3>2 DEF WriterInv, TypeOK, JobRecord, SaveCommit
    <3>3. CASE SavePushed(j) BY <3>3 DEF WriterInv, TypeOK, JobRecord, SavePushed
    <3> QED BY <1>3, <3>1, <3>2, <3>3
  <2> QED BY <2>1, KeepsOutcome
<1>4. CASE PreSyncOffline(j)
  <2>1. /\ jobs[j].status = "running" /\ Recorded(j) /\ jobs[j].commit = NoCommit
        /\ remote' = remote /\ lapsed' = lapsed
    BY <1>4, UnderWay DEF WriterInv, Progress, PreSyncOffline
  <2>2. ~Carries(remote, j) /\ Receipt(j) = "none" BY <2>1 DEF Recorded, Receipt
  <2>3. CASE j \in Changesets
    <3>1. \A k \in Jobs : jobs'[k] = IF k = j THEN [jobs[j] EXCEPT !.status = "failed"] ELSE jobs[k]
      BY <1>4, <2>3 DEF WriterInv, TypeOK, JobRecord, PreSyncOffline
    <3>2. jobs'[j].status = "failed" BY <3>1 DEF WriterInv, TypeOK, JobRecord
    <3>3. Receipt(j)' = "failed" /\ \A k \in Jobs : k # j => Receipt(k)' = Receipt(k)
      BY <3>1, <3>2 DEF Receipt
    <3> QED BY <2>1, <2>2, <3>3, IsAnswered
  <2>4. CASE j \notin Changesets
    <3>1. \A k \in Jobs : jobs'[k].status = jobs[k].status /\ jobs'[k].edited = jobs[k].edited
      BY <1>4, <2>4 DEF WriterInv, TypeOK, JobRecord, PreSyncOffline
    <3> QED BY <2>1, <3>1, KeepsOutcome
  <2> QED BY <2>3, <2>4
<1>5. CASE Produce(j)
  <2>1. jobs[j].status = "running" BY <1>5, UnderWay DEF Produce
  <2>2. /\ remote' = remote /\ lapsed' = lapsed
        /\ \A k \in Jobs : k # j => jobs'[k] = jobs[k]
        /\ jobs'[j].status = jobs[j].status
    BY <1>5 DEF WriterInv, TypeOK, JobRecord, Produce
  <2> QED BY <2>1, <2>2, KeepsOutcome
<1>6. CASE Noop(j) \/ Refuse(j) \/ GitCommit(j) \/ PushRejected(j) \/ Rollback(j)
  <2>1. jobs' = jobs /\ remote' = remote /\ lapsed' = lapsed
    BY <1>6 DEF Noop, Refuse, GitCommit, PushRejected, Rollback
  <2> QED BY <2>1, KeepsOutcome
<1>7. ASSUME NEW fetched,
             FoundOnRemote(j, fetched) \/ Integrate(j, fetched) \/ RebaseConflict(j, fetched)
      PROVE  OutcomeStep
  <2>1. jobs' = jobs /\ remote' = remote /\ lapsed' = lapsed
    BY <1>7 DEF FoundOnRemote, Integrate, RebaseConflict
  <2> QED BY <2>1, KeepsOutcome
<1>8. CASE Push(j) BY <1>8, PushPublishes DEF Push
<1>9. CASE PushAckLost(j) BY <1>9, PushPublishes DEF PushAckLost
<1>10. CASE TimeOut(j)
  <2>1. CASE remote' = remote
    <3>1. jobs' = jobs /\ lapsed' = lapsed BY <1>10, <2>1 DEF TimeOut
    <3> QED BY <2>1, <3>1, KeepsOutcome
  <2>2. CASE remote' # remote BY <1>10, <2>2, PushPublishes DEF TimeOut
  <2> QED BY <2>1, <2>2
<1>11. CASE Finish(j)
  <2>1. /\ worker.step = "finish" /\ worker.job = j /\ remote' = remote /\ lapsed' = lapsed
        /\ \A k \in Jobs : k # j => jobs'[k] = jobs[k]
        /\ jobs'[j].status = "done" /\ jobs'[j].edited = jobs[j].edited
    BY <1>11 DEF WriterInv, TypeOK, JobRecord, Finish
  <2>2. jobs[j].status = "running" /\ Recorded(j) /\ jobs[j].edited \in BOOLEAN
    BY <2>1, UnderWay DEF JobRecord
  <2>3. Carries(remote, j) <=> jobs[j].edited
    BY <2>1, <2>2, CommitCarries DEF WriterInv, Progress, Recorded
  <2>4. /\ Receipt(j) = "none" /\ \A k \in Jobs : k # j => Receipt(k)' = Receipt(k)
        /\ Receipt(j)' = IF jobs[j].edited THEN "published" ELSE "noop"
    BY <2>1, <2>2 DEF Receipt
  <2> QED BY <2>1, <2>3, <2>4, IsAnswered
<1>12. ASSUME NEW receipt \in {"yes", "error"}, Closeout(j, receipt) PROVE OutcomeStep
  BY <1>12, CloseoutDoubts DEF Closeout
<1>13. CASE SaveFailed(j)
  <2>1. /\ worker.step = "fail" /\ worker.job = j /\ remote' = remote /\ lapsed' = lapsed
        /\ \A k \in Jobs : k # j => jobs'[k] = jobs[k]
        /\ jobs'[j].status = "failed"
    BY <1>13 DEF WriterInv, TypeOK, JobRecord, SaveFailed
  <2>2. jobs[j].status = "running" BY <2>1, UnderWay
  <2>3. Carries(remote, j) => j \in lapsed BY <2>1 DEF WriterInv, Progress
  <2>4. /\ Receipt(j) = "none" /\ \A k \in Jobs : k # j => Receipt(k)' = Receipt(k)
        /\ Receipt(j)' = "failed"
    BY <2>1, <2>2 DEF Receipt
  <2> QED BY <2>1, <2>3, <2>4, IsAnswered
<1> QED BY <1>1, <1>2, <1>3, <1>4, <1>5, <1>6, <1>7, <1>8, <1>9, <1>10, <1>11, <1>12, <1>13
        DEF WorkerStep

(* What the steps of recovery are to JobOutcome. *)
LEMMA RecoveryStepOutcome ==
    ASSUME WriterInv, WriterInv', RecoveryStep
    PROVE  OutcomeStep
<1>1. ASSUME NEW j \in Jobs, ReconcileNothing(j) \/ ReconcileRollback(j) PROVE OutcomeStep
  <2>1. /\ worker.step = "down" /\ jobs[j].status = "running" /\ remote' = remote /\ lapsed' = lapsed
        /\ \A k \in Jobs : k # j => jobs'[k] = jobs[k]
        /\ jobs'[j].status = "failed" /\ Recorded(j)
    BY <1>1 DEF WriterInv, TypeOK, JobRecord, RecordInv, ReconcileNothing, ReconcileRollback, Down, Running
  <2>2. ~Carries(remote, j)
    BY <1>1, <2>1 DEF WriterInv, WayBack, Recorded, ReconcileNothing, ReconcileRollback
  <2>3. /\ Receipt(j) = "none" /\ \A k \in Jobs : k # j => Receipt(k)' = Receipt(k)
        /\ Receipt(j)' = "failed"
    BY <2>1 DEF Receipt
  <2> QED BY <2>1, <2>2, <2>3, IsAnswered
<1>2. ASSUME NEW j \in Jobs, ReconcileDone(j) PROVE OutcomeStep
  <2>1. /\ jobs[j].status = "running" /\ remote' = remote /\ lapsed' = lapsed
        /\ \A k \in Jobs : k # j => jobs'[k] = jobs[k]
        /\ jobs'[j].status = "done" /\ jobs'[j].edited = jobs[j].edited
        /\ jobs[j].commit # NoCommit /\ IsPrefix(jobs[j].commit, remote) /\ Recorded(j)
    BY <1>2 DEF WriterInv, TypeOK, JobRecord, RecordInv, ReconcileDone, Down, Running
  <2>2. jobs[j].edited /\ Carries(remote, j) BY <2>1, CommitCarries DEF Recorded
  <2>3. /\ Receipt(j) = "none" /\ \A k \in Jobs : k # j => Receipt(k)' = Receipt(k)
        /\ Receipt(j)' = "published"
    BY <2>1, <2>2 DEF Receipt
  <2> QED BY <2>1, <2>2, <2>3, IsAnswered
<1>3. ASSUME NEW j \in Jobs, NEW receipt \in {"yes", "error"}, RecoverCloseout(j, receipt)
      PROVE  OutcomeStep
  BY <1>3, CloseoutDoubts DEF RecoverCloseout
<1>4. CASE StartWorker
  <2>1. jobs' = jobs /\ remote' = remote /\ lapsed' = lapsed BY <1>4 DEF StartWorker
  <2> QED BY <2>1, KeepsOutcome
<1> QED BY <1>1, <1>2, <1>3, <1>4 DEF RecoveryStep

(* Every step of the writer is one of JobOutcome, or none. *)
LEMMA NextOutcome ==
    ASSUME WriterInv, WriterInv', [Next]_vars
    PROVE  OutcomeStep
<1>1. CASE UNCHANGED vars
  <2>1. jobs' = jobs /\ remote' = remote /\ lapsed' = lapsed BY <1>1 DEF vars
  <2> QED BY <2>1, KeepsOutcome
<1>2. CASE ForeignPush
  <2>1. remote' = Append(remote, {}) /\ remote \in Histories /\ {} \in Commits
        /\ jobs' = jobs /\ lapsed' = lapsed
    BY <1>2 DEF WriterInv, TypeOK, ForeignPush, Foreign, Commits
  <2>2. \A k \in Jobs : Carries(remote', k) <=> Carries(remote, k) BY <2>1, CarriedMore
  <2>3. \A k \in Jobs : Receipt(k)' = Receipt(k) BY <2>1 DEF Receipt
  <2> QED BY <2>1, <2>2, <2>3, Stutters
<1>3. ASSUME NEW j \in Jobs, Submit(j) PROVE OutcomeStep
  <2>1. /\ remote' = remote /\ lapsed' = lapsed /\ jobs[j].status = "absent"
        /\ \A k \in Jobs : k # j => jobs'[k] = jobs[k]
        /\ jobs'[j].status = "queued"
    BY <1>3 DEF WriterInv, TypeOK, JobRecord, Submit
  <2> QED BY <2>1, KeepsOutcome
<1>4. ASSUME NEW j \in Jobs, WorkerStep(j) PROVE OutcomeStep BY <1>4, WorkerStepOutcome
<1>5. CASE Crash
  <2>1. jobs' = jobs /\ remote' = remote /\ lapsed' = lapsed BY <1>5 DEF Crash
  <2> QED BY <2>1, KeepsOutcome
<1>6. CASE RecoveryStep BY <1>6, RecoveryStepOutcome
<1> QED BY <1>1, <1>2, <1>3, <1>4, <1>5, <1>6 DEF Next

(* The writer implements JobOutcome: a job's edits reach the branch in one step and *)
(* at most once, and its one answer agrees with them unless nobody confirmed it. *)
THEOREM KeepsThePromise == Spec => ImplementsOutcome
<1>1. ASSUME Init PROVE Outcome!Init
  <2>1. WriterInv BY <1>1, InitInv
  <2>2. remote \in Histories /\ OnePlace(remote) BY <2>1 DEF WriterInv, TypeOK, Branch
  <2>3. \A j \in Jobs : ~Carries(remote, j)
    BY <1>1, <2>1 DEF Init, NoRecord, WriterInv, RecordInv, Recorded
  <2>4. \A j \in Jobs : Cardinality({k \in DOMAIN remote : j \in remote[k]}) = 0
    BY <2>2, <2>3, OnePlaceCount DEF Histories
  <2>5. \A j \in Jobs : Receipt(j) = "none" BY <1>1 DEF Init, NoRecord, Receipt
  <2>6. lapsed = {} BY <1>1 DEF Init
  <2> QED BY <2>4, <2>5, <2>6 DEF Outcome!Init
<1>2. ASSUME WriterInv, WriterInv', [Next]_vars PROVE [Outcome!Next]_(Outcome!outcome)
  BY <1>2, NextOutcome DEF OutcomeStep
<1> QED BY <1>1, <1>2, WriterInvariant, PTL DEF Spec, ImplementsOutcome, Outcome!Spec
=============================================================================
