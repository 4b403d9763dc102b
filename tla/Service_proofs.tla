---------------------------- MODULE Service_proofs ----------------------------
(***************************************************************************)
(* Proofs about what runs on the writer's host and touches no transaction  *)
(* of it: the snapshots of semantic reads (ReadCache), the vector store    *)
(* (Vectors, here V), the watchdog (Watchdog, here W) and the intake       *)
(* (Intake, here I), for any number of files, requests, snapshots of the   *)
(* bundle, submissions, jobs, failures and restarts; and of the            *)
(* composition MCService checks.                                           *)
(***************************************************************************)
EXTENDS MCService, Integers, SequenceTheorems, FiniteSetTheorems, WellFoundedInduction, TLAPS

-----------------------------------------------------------------------------
(* The snapshots of semantic reads: an answer is never older than the      *)
(* arrival of its request, and a settled snapshot whose fingerprint still  *)
(* holds is the tree, at any file system tick the margins were chosen for. *)

(* A kept snapshot that was settled: no later change can leave its timestamps,  *)
(* and what it holds of a file whose timestamp is still there is the file.      *)
Tells(s) ==
    s # NoSnapshot /\ s.settled =>
        \A f \in Files : /\ Settled(s.print[f], clock) /\ s.print[f] % tick = 0
                         /\ s.print[f] = files[f].ctime => s.version[f] = files[f].version

(* What s holds of f is no older than the arrival of r. *)
Fresh(s, r, f) == s.version[f] >= floor[r][f]

(* Timestamps are ticks that have passed, and a request arrived in the past. *)
Now ==
    /\ \A f \in Files : files[f].ctime % tick = 0
    /\ \A r \in Requests, f \in Files : floor[r][f] <= files[f].version

(* The cached snapshot is worth a request's while that is listed in it. *)
Cached ==
    /\ Tells(cache)
    /\ cache # NoSnapshot => \A r \in cache.arrived, f \in Files : Fresh(cache, r, f)

(* A request that compares the fingerprint without the lock: files that still    *)
(* have their timestamp were current after it arrived.                           *)
Peeking(r) ==
    LET snap == request[r].snapshot IN
    /\ snap # NoSnapshot /\ snap.settled /\ Tells(snap)
    /\ \A f \in Files \ request[r].todo : Fresh(snap, r, f)

(* The same under the lock, where the fingerprint is a new one. *)
Walking(r) ==
    LET old == request[r].snapshot IN
    /\ Tells(old) /\ r \in scan.snapshot.arrived /\ scan.now <= clock
    /\ \A f \in Files \ request[r].todo :
           /\ scan.snapshot.print[f] % tick = 0
           /\ old # NoSnapshot /\ old.settled /\ old.print[f] = scan.snapshot.print[f] => Fresh(old, r, f)

(* The contents read so far are fresh for every request that waits for them.     *)
Reading(r) ==
    LET snap == scan.snapshot IN
    /\ r \in snap.arrived
    /\ snap.settled => \A f \in Files : Settled(snap.print[f], clock) /\ snap.print[f] % tick = 0
    /\ \A f \in Files \ request[r].todo :
           /\ \A q \in snap.arrived : Fresh(snap, q, f)
           /\ snap.settled /\ snap.print[f] = files[f].ctime => snap.version[f] = files[f].version

(* What the request knows at its step. *)
Knows(r) ==
    /\ At(r, "peek") => Peeking(r)
    /\ At(r, "walk") => Walking(r)
    /\ At(r, "read") => Reading(r)
    /\ At(r, "answer") => \A f \in Files : Fresh(request[r].snapshot, r, f)

(* The inductive invariant. *)
ReadInv == TypeOK /\ Now /\ Cached /\ \A r \in Requests : Knows(r)

(* The type of a request's memory. *)
RequestRecord == [step: Steps, todo: SUBSET Files, snapshot: Snapshot \cup {NoSnapshot}]

-----------------------------------------------------------------------------
(* A timestamp is the last tick that has passed. *)
LEMMA StampOfTime ==
    ASSUME NEW t \in Nat \ {0}, NEW c \in Nat
    PROVE  LET s == (c \div t) * t IN s \in Nat /\ s <= c /\ c < s + t /\ s % t = 0
<1>1. (c \div t) * t <= c OBVIOUS
<1>2. (c \div t) * t + t > c OBVIOUS
<1>3. c \div t \in Nat OBVIOUS
<1> DEFINE q == c \div t
<1>4. q \in Nat BY <1>3
<1>5. q * t <= c /\ q * t + t > c BY <1>1, <1>2
<1> HIDE DEF q
<1>6. (q * t) % t = 0 BY <1>4
<1>7. q * t \in Nat BY <1>4
<1> QED BY <1>5, <1>6, <1>7 DEF q

(* Where a whole tick has passed since p, a timestamp is later. *)
LEMMA NextTick ==
    ASSUME NEW t \in Nat \ {0}, NEW p \in Nat, NEW c \in Nat, p + t <= c
    PROVE  (c \div t) * t > p
<1>1. (c \div t) * t + t > c OBVIOUS
<1>2. c \div t \in Nat OBVIOUS
<1> DEFINE s == (c \div t) * t
<1>3. s \in Int /\ s + t > c BY <1>1, <1>2
<1> HIDE DEF s
<1>4. s > p BY <1>3
<1> QED BY <1>4 DEF s
(* Ticks of whole seconds leave timestamps of whole seconds. *)
LEMMA WholeSeconds ==
    ASSUME NEW p \in Nat, NEW t \in Nat \ {0}, NEW sec \in Nat \ {0}, p % t = 0, t % sec = 0
    PROVE  p % sec = 0
<1>1. ASSUME NEW n \in Nat, NEW d \in Nat \ {0}, n % d = 0 PROVE n = (n \div d) * d
  <2>1. (n \div d) * d <= n /\ (n \div d) * d + d > n OBVIOUS
  <2> QED BY <1>1, <2>1
<1> DEFINE k == p \div t
           m == t \div sec
<1>2. k \in Nat /\ m \in Nat OBVIOUS
<1>3. p = k * t /\ t = m * sec BY <1>1
<1> HIDE DEF k, m
<1>4. p = (k * m) * sec BY <1>2, <1>3
<1>5. k * m \in Nat BY <1>2
<1> DEFINE n == k * m
<1>6. n \in Nat /\ p = n * sec BY <1>4, <1>5
<1> HIDE DEF n
<1> QED BY <1>6

(* What _settled promises: a change from now on leaves a later timestamp, for    *)
(* ticks within the margins.                                                     *)
LEMMA SettledHides ==
    ASSUME tick \in Ticks, clock \in Nat, NEW p \in Nat, p % tick = 0, Settled(p, clock)
    PROVE  Stamp(clock) > p
<1>1. tick \in Nat \ {0} /\ Racy \in Nat /\ Second \in Nat \ {0} /\ CoarseTick \in Nat
  BY TimesOK
<1>2. CASE tick <= Racy + 1
  <2>1. p + tick <= clock BY <1>1, <1>2 DEF Settled
  <2> QED BY <1>1, <2>1, NextTick DEF Stamp
<1>3. CASE tick % Second = 0 /\ tick <= CoarseTick + Racy + 1
  <2>1. p % Second = 0 BY <1>1, <1>3, WholeSeconds
  <2>2. p + tick <= clock BY <1>1, <1>3, <2>1 DEF Settled
  <2> QED BY <1>1, <2>2, NextTick DEF Stamp
<1> QED BY <1>2, <1>3, TimesOK

(* What was settled stays settled. *)
LEMMA SettledStays ==
    ASSUME NEW p \in Nat, NEW n \in Nat, NEW m \in Nat, n <= m, Settled(p, n)
    PROVE  Settled(p, m)
  BY TimesOK DEF Settled

(* The types, one by one. *)
LEMMA Types ==
    ASSUME TypeOK
    PROVE  /\ tick \in Ticks /\ tick \in Nat \ {0} /\ clock \in Nat
           /\ \A f \in Files : /\ files[f].ctime \in Nat /\ files[f].ctime \in Times
                               /\ files[f].version \in Nat /\ files[f].version \in Versions
           /\ \A s \in Snapshot, f \in Files :
                  /\ s.print[f] \in Nat /\ s.version[f] \in Nat
           /\ \A r \in Requests : request[r] \in RequestRecord
           /\ \A r \in Requests, f \in Files : floor[r][f] \in Nat
           /\ scan.now \in Nat /\ scan.snapshot \in Snapshot
           /\ MaxClock \in Nat /\ MaxWrites \in Nat
  BY TimesOK DEF TypeOK, Times, Versions, Snapshot, RequestRecord

(* A snapshot in hand goes on telling when neither files nor time change. *)
LEMMA TellsOn ==
    ASSUME UNCHANGED <<clock, tick, files>>, NEW s
    PROVE  Tells(s)' <=> Tells(s)
  BY DEF Tells, Settled

-----------------------------------------------------------------------------
(* The requests before the first read know nothing. *)
LEMMA InitInv == Init => ReadInv
<1> SUFFICES ASSUME Init PROVE ReadInv OBVIOUS
<1>1. 0 \in Times /\ 0 \in Versions BY TimesOK DEF Times, Versions
<1>2. Blank \in Snapshot BY <1>1 DEF Blank, Snapshot
<1>3. TypeOK
  <2>1. files \in [Files -> [version: Versions, ctime: Times]] BY <1>1 DEF Init
  <2>2. request \in [Requests -> [step: Steps, todo: SUBSET Files, snapshot: Snapshot \cup {NoSnapshot}]]
    BY DEF Init, Rest, Steps
  <2>3. floor \in [Requests -> [Files -> Versions]] BY <1>1 DEF Init
  <2>4. \A r \in Requests : request[r].step = "idle" BY DEF Init, Rest
  <2> QED BY <1>1, <1>2, <2>1, <2>2, <2>3, <2>4, TimesOK DEF Init, TypeOK
<1>4. Now BY <1>3, Types DEF Init, Now
<1>5. Cached BY DEF Init, Cached, Tells
<1>6. \A r \in Requests : Knows(r) BY DEF Init, Knows, At, Rest
<1> QED BY <1>3, <1>4, <1>5, <1>6 DEF ReadInv

(* Time settles more, and changes no file. *)
LEMMA TimePassesStep ==
    ASSUME ReadInv, TimePasses
    PROVE  ReadInv'
<1>1. TypeOK /\ Now /\ Cached /\ \A r \in Requests : Knows(r) BY DEF ReadInv
<1>2. /\ clock \in Nat /\ clock' = clock + 1 /\ clock' \in Nat
      /\ UNCHANGED <<tick, files, cache, lock, scan, request, floor>>
  BY <1>1, Types DEF TimePasses
<1>3. TypeOK' BY <1>1, <1>2, TimesOK DEF TypeOK, Times, TimePasses
<1>4. ASSUME NEW s \in Snapshot, NEW f \in Files, Settled(s.print[f], clock)
      PROVE  Settled(s.print[f], clock')
  BY <1>1, <1>2, <1>4, Types, SettledStays
<1>5. ASSUME NEW s \in Snapshot \cup {NoSnapshot}, Tells(s) PROVE Tells(s)'
  BY <1>2, <1>4, <1>5 DEF Tells
<1>6. Now' BY <1>1, <1>2 DEF Now
<1>7. Cached' BY <1>1, <1>2, <1>5 DEF Cached, Fresh, TypeOK
<1>8. ASSUME NEW r \in Requests PROVE Knows(r)'
  <2>1. Knows(r) /\ request[r].snapshot \in Snapshot \cup {NoSnapshot} BY <1>1, Types DEF RequestRecord
  <2>2. At(r, "peek") => Peeking(r)' BY <1>2, <1>5, <2>1 DEF Knows, Peeking, Fresh
  <2>3. At(r, "walk") => Walking(r)'
    <3>1. scan.now \in Nat BY <1>1, Types
    <3> QED BY <1>2, <1>5, <2>1, <3>1 DEF Knows, Walking, Fresh
  <2>4. At(r, "read") => Reading(r)'
    <3>1. scan.snapshot \in Snapshot BY <1>1, Types
    <3> QED BY <1>2, <1>4, <2>1, <3>1 DEF Knows, Reading, Fresh
  <2>5. At(r, "answer") => \A f \in Files : Fresh(request[r].snapshot, r, f)'
    BY <1>2, <2>1 DEF Knows, Fresh
  <2> QED BY <1>2, <2>2, <2>3, <2>4, <2>5 DEF Knows, At
<1> QED BY <1>3, <1>6, <1>7, <1>8 DEF ReadInv

(* A change leaves a timestamp that no settled snapshot has. *)
LEMMA WriteStep ==
    ASSUME ReadInv, NEW f \in Files, Write(f)
    PROVE  ReadInv'
<1>1. TypeOK /\ Now /\ Cached /\ \A r \in Requests : Knows(r) BY DEF ReadInv
<1>2. PICK change \in Versions :
          /\ \A g \in Files : files[g].version < change
          /\ files' = [files EXCEPT ![f] = [version |-> change, ctime |-> Stamp(clock)]]
          /\ UNCHANGED <<clock, tick, cache, lock, scan, request, floor>>
  BY DEF Write
<1>3. /\ Stamp(clock) \in Nat /\ Stamp(clock) <= clock /\ Stamp(clock) % tick = 0
  BY <1>1, Types, StampOfTime DEF Stamp
<1>4. Stamp(clock) \in Times BY <1>1, <1>3, Types DEF TypeOK, Times
<1>5. TypeOK'
  <2>1. files' \in [Files -> [version: Versions, ctime: Times]] BY <1>1, <1>2, <1>4 DEF TypeOK
  <2> QED BY <1>1, <1>2, <2>1 DEF TypeOK
<1>6. \A g \in Files : /\ files'[g] = IF g = f THEN [version |-> change, ctime |-> Stamp(clock)] ELSE files[g]
                       /\ files'[g].version >= files[g].version
  <2>1. \A g \in Files : files'[g] = IF g = f THEN [version |-> change, ctime |-> Stamp(clock)] ELSE files[g]
    BY <1>1, <1>2 DEF TypeOK
  <2>2. change \in Nat BY TimesOK DEF Versions
  <2> QED BY <1>1, <1>2, <2>1, <2>2, Types
<1>7. Now'
  <2>1. \A g \in Files : files'[g].ctime % tick = 0 BY <1>1, <1>3, <1>6 DEF Now
  <2>2. \A r \in Requests, g \in Files : floor[r][g] <= files'[g].version
    <3>1. \A g \in Files : files'[g].version \in Nat BY <1>5, TimesOK DEF TypeOK, Versions
    <3> QED BY <1>1, <1>6, <3>1, Types DEF Now
  <2> QED BY <1>2, <2>1, <2>2 DEF Now
<1>8. ASSUME NEW s \in Snapshot, NEW g \in Files, Settled(s.print[g], clock), s.print[g] % tick = 0,
             s.print[g] = files[g].ctime => s.version[g] = files[g].version
      PROVE  s.print[g] = files'[g].ctime => s.version[g] = files'[g].version
  <2>1. CASE g = f
    <3>1. Stamp(clock) > s.print[g] /\ s.print[g] \in Nat BY <1>1, <1>8, Types, SettledHides
    <3> QED BY <1>3, <1>6, <2>1, <3>1
  <2>2. CASE g # f BY <1>6, <1>8, <2>2
  <2> QED BY <2>1, <2>2
<1>9. ASSUME NEW s \in Snapshot \cup {NoSnapshot}, Tells(s) PROVE Tells(s)'
  BY <1>2, <1>8, <1>9 DEF Tells
<1>10. Cached' BY <1>1, <1>2, <1>9 DEF Cached, Fresh, TypeOK
<1>11. ASSUME NEW r \in Requests PROVE Knows(r)'
  <2>1. Knows(r) /\ request[r].snapshot \in Snapshot \cup {NoSnapshot} BY <1>1, Types DEF RequestRecord
  <2>2. At(r, "peek") => Peeking(r)' BY <1>2, <1>9, <2>1 DEF Knows, Peeking, Fresh
  <2>3. At(r, "walk") => Walking(r)' BY <1>2, <1>9, <2>1 DEF Knows, Walking, Fresh
  <2>4. At(r, "read") => Reading(r)'
    <3>1. scan.snapshot \in Snapshot BY <1>1, Types
    <3> QED BY <1>2, <1>8, <2>1, <3>1 DEF Knows, Reading, Fresh
  <2>5. At(r, "answer") => \A g \in Files : Fresh(request[r].snapshot, r, g)'
    BY <1>2, <2>1 DEF Knows, Fresh
  <2> QED BY <1>2, <2>2, <2>3, <2>4, <2>5 DEF Knows, At
<1> QED BY <1>5, <1>7, <1>10, <1>11 DEF ReadInv

(* What a step of one request leaves: time, files and the other requests.        *)
LEMMA OthersKnow ==
    ASSUME ReadInv, UNCHANGED <<clock, tick, files, floor>>,
           NEW r \in Requests, NEW new \in RequestRecord, request' = [request EXCEPT ![r] = new],
           \A q \in Requests \ {r} : At(q, "walk") \/ At(q, "read") => scan' = scan
    PROVE  \A q \in Requests \ {r} : Knows(q)'
<1> SUFFICES ASSUME NEW q \in Requests \ {r} PROVE Knows(q)' OBVIOUS
<1>1. TypeOK /\ Knows(q) BY DEF ReadInv
<1>2. request'[q] = request[q] BY <1>1 DEF TypeOK
<1>3. At(q, "peek") => Peeking(q)' BY <1>1, <1>2, TellsOn DEF Knows, Peeking, Fresh
<1>4. At(q, "walk") => Walking(q)' BY <1>1, <1>2, TellsOn DEF Knows, Walking, Fresh
<1>5. At(q, "read") => Reading(q)' BY <1>1, <1>2 DEF Knows, Reading, Fresh, Settled
<1>6. At(q, "answer") => \A f \in Files : Fresh(request[q].snapshot, q, f)'
  BY <1>1, <1>2 DEF Knows, Fresh
<1> QED BY <1>2, <1>3, <1>4, <1>5, <1>6 DEF Knows, At

(* One request moves, outside the lock or inside it. *)
LEMMA OneRequestMoves ==
    ASSUME ReadInv, UNCHANGED <<clock, tick, files, floor>>,
           NEW r \in Requests, NEW new \in RequestRecord, request' = [request EXCEPT ![r] = new],
           lock' \in Requests \cup {Nobody}, scan' \in [now: Times, snapshot: Snapshot],
           cache' \in Snapshot \cup {NoSnapshot},
           \A q \in Requests \ {r} : (q = lock <=> q = lock') /\ (q = lock => scan' = scan),
           new.step \in {"walk", "read"} <=> lock' = r,
           Knows(r)', Cached'
    PROVE  ReadInv'
<1>1. TypeOK /\ Now BY DEF ReadInv
<1>2. request' \in [Requests -> RequestRecord] /\ \A q \in Requests : request'[q] = IF q = r THEN new ELSE request[q]
  BY <1>1 DEF TypeOK, RequestRecord
<1>3. \A q \in Requests : request'[q].step \in {"walk", "read"} <=> lock' = q
  BY <1>1, <1>2 DEF TypeOK
<1>4. TypeOK' BY <1>1, <1>2, <1>3 DEF TypeOK, RequestRecord
<1>5. Now' BY <1>1 DEF Now
<1>6. \A q \in Requests \ {r} : At(q, "walk") \/ At(q, "read") => scan' = scan
  BY <1>1 DEF TypeOK, At
<1>7. \A q \in Requests \ {r} : Knows(q)' BY <1>6, OthersKnow
<1> QED BY <1>4, <1>5, <1>7 DEF ReadInv

(* The cached snapshot stays as it is. *)
LEMMA CachedStays ==
    ASSUME ReadInv, UNCHANGED <<clock, tick, files, floor, cache>>
    PROVE  Cached'
  BY TellsOn DEF ReadInv, Cached, Fresh

(* A request arrives now, and no snapshot was scanned after that. *)
LEMMA ArriveStep ==
    ASSUME ReadInv, NEW r \in Requests, Arrive(r)
    PROVE  ReadInv'
<1>1. TypeOK /\ Now /\ Cached /\ \A q \in Requests : Knows(q) BY DEF ReadInv
<1>2. /\ At(r, "idle") /\ UNCHANGED <<clock, tick, files, lock>>
      /\ floor' = [floor EXCEPT ![r] = [f \in Files |-> files[f].version]]
      /\ scan' = [scan EXCEPT !.snapshot.arrived = @ \ {r}]
      /\ cache' = IF cache = NoSnapshot THEN cache ELSE [cache EXCEPT !.arrived = @ \ {r}]
  BY DEF Arrive
<1> DEFINE new == IF cache # NoSnapshot /\ cache.settled
                  THEN [step |-> "peek", todo |-> Files, snapshot |-> cache]
                  ELSE [step |-> "wait", todo |-> {}, snapshot |-> NoSnapshot]
<1>3. request' = [request EXCEPT ![r] = new] BY DEF Arrive
<1>4. new \in RequestRecord /\ new.step \in {"peek", "wait"}
  BY <1>1 DEF RequestRecord, TypeOK, Steps
<1>5. /\ new.step = "peek" => cache # NoSnapshot /\ cache.settled
      /\ new.step = "peek" => new.todo = Files /\ new.snapshot = cache
  OBVIOUS
<1> HIDE DEF new
<1>6. /\ \A q \in Requests : request'[q] = IF q = r THEN new ELSE request[q]
      /\ request' \in [Requests -> RequestRecord]
  BY <1>1, <1>3, <1>4 DEF TypeOK, RequestRecord
<1>7. /\ floor' \in [Requests -> [Files -> Versions]]
      /\ \A q \in Requests, f \in Files :
             floor'[q][f] = IF q = r THEN files[f].version ELSE floor[q][f]
  <2>1. [f \in Files |-> files[f].version] \in [Files -> Versions] BY <1>1 DEF TypeOK
  <2> QED BY <1>1, <1>2, <2>1 DEF TypeOK
<1>8. /\ scan' \in [now: Times, snapshot: Snapshot] /\ scan'.now = scan.now
      /\ scan'.snapshot.print = scan.snapshot.print /\ scan'.snapshot.version = scan.snapshot.version
      /\ scan'.snapshot.settled = scan.snapshot.settled
      /\ scan'.snapshot.arrived = scan.snapshot.arrived \ {r}
  BY <1>1, <1>2 DEF TypeOK, Snapshot
<1>9. /\ cache' \in Snapshot \cup {NoSnapshot}
      /\ cache = NoSnapshot => cache' = NoSnapshot
      /\ cache # NoSnapshot => /\ cache'.print = cache.print /\ cache'.version = cache.version
                               /\ cache'.settled = cache.settled
                               /\ cache'.arrived = cache.arrived \ {r}
  BY <1>1, <1>2 DEF TypeOK, Snapshot
<1>10. TypeOK'
  <2>1. \A q \in Requests : request'[q].step \in {"walk", "read"} <=> lock' = q
    BY <1>1, <1>2, <1>4, <1>6 DEF TypeOK, At
  <2> QED BY <1>1, <1>2, <1>6, <1>7, <1>8, <1>9, <2>1 DEF TypeOK, RequestRecord
<1>11. Now' BY <1>1, <1>2, <1>7, Types DEF Now
<1>12. Cached'
  <2>1. Tells(cache') BY <1>1, <1>9 DEF Cached, Tells
  <2>2. Tells(cache)' BY <1>2, <2>1 DEF Tells, Settled
  <2>3. ASSUME cache' # NoSnapshot, NEW q \in cache'.arrived, NEW f \in Files
        PROVE  cache'.version[f] >= floor'[q][f]
    <3>1. cache # NoSnapshot /\ q \in cache.arrived /\ q # r /\ cache.arrived \subseteq Requests
      BY <1>1, <1>9, <2>3 DEF TypeOK, Snapshot
    <3>2. cache.version[f] >= floor[q][f] BY <1>1, <3>1 DEF Cached, Fresh
    <3> QED BY <1>7, <1>9, <3>1, <3>2
  <2> QED BY <2>2, <2>3 DEF Cached, Fresh
<1>13. Knows(r)'
  <2>1. new.step = "peek" => Peeking(r)'
    <3> SUFFICES ASSUME new.step = "peek" PROVE Peeking(r)' OBVIOUS
    <3>1. request'[r].snapshot = cache /\ request'[r].todo = Files BY <1>5, <1>6
    <3>2. Tells(cache)' BY <1>12 DEF Cached
    <3>3. \A s : Tells(s)' <=> Tells(s) BY <1>2, TellsOn
    <3>4. Tells(cache) BY <1>1 DEF Cached
    <3>5. \A s : s = cache => Tells(s)' BY <3>3, <3>4
    <3> QED BY <1>5, <3>1, <3>5 DEF Peeking
  <2> QED BY <1>4, <1>6, <2>1 DEF Knows, At
<1>14. ASSUME NEW q \in Requests \ {r} PROVE Knows(q)'
  <2>1. Knows(q) /\ request'[q] = request[q] /\ \A f \in Files : floor'[q][f] = floor[q][f]
    BY <1>1, <1>6, <1>7
  <2>2. At(q, "peek") => Peeking(q)' BY <1>2, <2>1, TellsOn DEF Knows, Peeking, Fresh
  <2>3. At(q, "walk") => Walking(q)' BY <1>2, <1>8, <2>1, TellsOn DEF Knows, Walking, Fresh
  <2>4. At(q, "read") => Reading(q)'
    <3>1. scan.snapshot.arrived \subseteq Requests BY <1>1 DEF TypeOK, Snapshot
    <3>2. \A p \in Requests \ {r}, f \in Files : floor'[p][f] = floor[p][f] BY <1>7
    <3> SUFFICES ASSUME At(q, "read") PROVE Reading(q)' OBVIOUS
    <3>3. Reading(q) BY <2>1 DEF Knows
    <3>4. q \in scan'.snapshot.arrived BY <1>8, <3>3 DEF Reading
    <3>5. ASSUME NEW f \in Files \ request'[q].todo, NEW p \in scan'.snapshot.arrived
          PROVE  scan'.snapshot.version[f] >= floor'[p][f]
      <4>1. p \in scan.snapshot.arrived /\ p \in Requests \ {r} BY <1>8, <3>1
      <4>2. scan.snapshot.version[f] >= floor[p][f] BY <2>1, <3>3, <4>1 DEF Reading, Fresh
      <4> QED BY <1>8, <3>2, <4>1, <4>2
    <3>6. scan'.snapshot.settled => \A f \in Files : /\ Settled(scan'.snapshot.print[f], clock')
                                                     /\ scan'.snapshot.print[f] % tick' = 0
      BY <1>2, <1>8, <3>3 DEF Reading
    <3>7. ASSUME NEW f \in Files \ request'[q].todo, scan'.snapshot.settled,
                 scan'.snapshot.print[f] = files'[f].ctime
          PROVE  scan'.snapshot.version[f] = files'[f].version
      BY <1>2, <1>8, <2>1, <3>3, <3>7 DEF Reading
    <3> QED BY <3>4, <3>5, <3>6, <3>7 DEF Reading, Fresh
  <2>5. At(q, "answer") => \A f \in Files : Fresh(request[q].snapshot, q, f)'
    BY <2>1 DEF Knows, Fresh
  <2> QED BY <2>1, <2>2, <2>3, <2>4, <2>5 DEF Knows, At
<1> QED BY <1>10, <1>11, <1>12, <1>13, <1>14 DEF ReadInv

(* A file that still has its timestamp was current just now. *)
LEMMA PeekStep ==
    ASSUME ReadInv, NEW r \in Requests, NEW f \in Files, Peek(r, f)
    PROVE  ReadInv'
<1>1. TypeOK /\ Now /\ Knows(r) /\ request[r] \in RequestRecord BY Types DEF ReadInv
<1>2. /\ request[r].step = "peek" /\ f \in request[r].todo
      /\ UNCHANGED <<clock, tick, files, cache, lock, scan, floor>>
  BY DEF Peek, At
<1> DEFINE snap == request[r].snapshot
<1>3. /\ snap # NoSnapshot /\ snap.settled /\ Tells(snap) /\ snap \in Snapshot
      /\ \A g \in Files \ request[r].todo : Fresh(snap, r, g)
  BY <1>1, <1>2 DEF Knows, At, Peeking, RequestRecord
<1>4. snap.print[f] = files[f].ctime => Fresh(snap, r, f)
  <2>1. snap.print[f] = files[f].ctime => snap.version[f] = files[f].version BY <1>3 DEF Tells
  <2> QED BY <1>1, <2>1, Types DEF Now, Fresh
<1>5. \A s : Tells(s)' <=> Tells(s) BY <1>2, TellsOn
<1>6. Cached' BY <1>2, CachedStays
<1>7. CASE files[f].ctime # snap.print[f]
  <2> DEFINE new == [request[r] EXCEPT !.step = "wait"]
  <2>1. request' = [request EXCEPT ![r] = new] BY <1>1, <1>7 DEF Peek, TypeOK
  <2>2. new \in RequestRecord /\ new.step = "wait" BY <1>1 DEF RequestRecord, Steps
  <2> HIDE DEF new
  <2>3. request'[r] = new BY <1>1, <2>1 DEF TypeOK
  <2>4. Knows(r)' BY <2>2, <2>3 DEF Knows, At
  <2>5. lock' # r BY <1>1, <1>2 DEF TypeOK
  <2> QED BY <1>1, <1>2, <1>6, <2>1, <2>2, <2>4, <2>5, OneRequestMoves DEF TypeOK
<1>8. CASE files[f].ctime = snap.print[f] /\ request[r].todo = {f}
  <2> DEFINE new == [step |-> "answer", todo |-> {}, snapshot |-> snap]
  <2>1. request' = [request EXCEPT ![r] = new] BY <1>8 DEF Peek, Answer
  <2>2. new \in RequestRecord /\ new.step = "answer" /\ new.snapshot = snap
    BY <1>3 DEF RequestRecord, Steps
  <2> HIDE DEF new
  <2>3. request'[r] = new BY <1>1, <2>1 DEF TypeOK
  <2>4. \A g \in Files : Fresh(snap, r, g) BY <1>3, <1>4, <1>8
  <2>5. Knows(r)' BY <1>2, <2>2, <2>3, <2>4 DEF Knows, At, Fresh
  <2>6. lock' # r BY <1>1, <1>2 DEF TypeOK
  <2> QED BY <1>1, <1>2, <1>6, <2>1, <2>2, <2>5, <2>6, OneRequestMoves DEF TypeOK
<1>9. CASE files[f].ctime = snap.print[f] /\ request[r].todo # {f}
  <2> DEFINE new == [request[r] EXCEPT !.todo = @ \ {f}]
  <2>1. request' = [request EXCEPT ![r] = new] BY <1>1, <1>9 DEF Peek, TypeOK
  <2>2. /\ new \in RequestRecord /\ new.step = "peek" /\ new.snapshot = snap
        /\ new.todo = request[r].todo \ {f}
    BY <1>1, <1>2 DEF RequestRecord, Steps
  <2> HIDE DEF new
  <2>3. request'[r] = new BY <1>1, <2>1 DEF TypeOK
  <2>4. \A g \in Files \ new.todo : Fresh(snap, r, g) BY <1>3, <1>4, <1>9, <2>2
  <2>5. Peeking(r)' BY <1>2, <1>3, <1>5, <2>2, <2>3, <2>4 DEF Peeking, Fresh
  <2>6. Knows(r)' BY <2>2, <2>3, <2>5 DEF Knows, At
  <2>7. lock' # r BY <1>1, <1>2 DEF TypeOK
  <2> QED BY <1>1, <1>2, <1>6, <2>1, <2>2, <2>6, <2>7, OneRequestMoves DEF TypeOK
<1> QED BY <1>7, <1>8, <1>9

(* A scan that began after the request arrived read nothing older. *)
LEMMA ShareStep ==
    ASSUME ReadInv, NEW r \in Requests, Share(r)
    PROVE  ReadInv'
<1>1. TypeOK /\ Now /\ Cached BY DEF ReadInv
<1>2. /\ request[r].step = "wait" /\ cache # NoSnapshot /\ r \in cache.arrived
      /\ UNCHANGED <<clock, tick, files, cache, lock, scan, floor>>
  BY DEF Share, Shared, At
<1> DEFINE new == [step |-> "answer", todo |-> {}, snapshot |-> cache]
<1>3. request' = [request EXCEPT ![r] = new] BY DEF Share, Answer
<1>4. new \in RequestRecord /\ new.step = "answer" /\ new.snapshot = cache
  BY <1>1 DEF RequestRecord, TypeOK, Steps
<1> HIDE DEF new
<1>5. request'[r] = new BY <1>1, <1>3 DEF TypeOK
<1>6. \A f \in Files : Fresh(cache, r, f) BY <1>1, <1>2 DEF Cached
<1>7. Knows(r)' BY <1>2, <1>4, <1>5, <1>6 DEF Knows, At, Fresh
<1>8. Cached' BY <1>2, CachedStays
<1>9. lock' # r BY <1>1, <1>2 DEF TypeOK
<1> QED BY <1>1, <1>2, <1>3, <1>4, <1>7, <1>8, <1>9, OneRequestMoves DEF TypeOK

(* The request takes the lock and notes who waits already. *)
LEMMA BeginStep ==
    ASSUME ReadInv, NEW r \in Requests, Begin(r)
    PROVE  ReadInv'
<1>1. TypeOK /\ Now /\ Cached BY DEF ReadInv
<1>2. /\ request[r].step = "wait" /\ lock = Nobody /\ lock' = r
      /\ scan' = [now |-> clock, snapshot |-> [Blank EXCEPT !.arrived = Present]]
      /\ UNCHANGED <<clock, tick, files, cache, floor>>
  BY DEF Begin, At
<1> DEFINE new == [step |-> "walk", todo |-> Files, snapshot |-> cache]
<1>3. request' = [request EXCEPT ![r] = new] BY DEF Begin
<1>4. /\ new \in RequestRecord /\ new.step = "walk" /\ new.snapshot = cache /\ new.todo = Files
  BY <1>1 DEF RequestRecord, TypeOK, Steps
<1> HIDE DEF new
<1>5. request'[r] = new BY <1>1, <1>3 DEF TypeOK
<1>6. Blank \in Snapshot
  <2>1. 0 \in Times /\ 0 \in Versions BY TimesOK DEF Times, Versions
  <2> QED BY <2>1 DEF Blank, Snapshot
<1>7. Present \subseteq Requests /\ r \in Present BY <1>2 DEF Present, At
<1>8. /\ scan' \in [now: Times, snapshot: Snapshot] /\ scan'.now = clock
      /\ scan'.snapshot.arrived = Present
  <2>1. [Blank EXCEPT !.arrived = Present] \in Snapshot BY <1>6, <1>7 DEF Snapshot
  <2>2. [Blank EXCEPT !.arrived = Present].arrived = Present BY <1>6 DEF Snapshot
  <2> QED BY <1>1, <1>2, <2>1, <2>2 DEF TypeOK
<1>9. \A s : Tells(s)' <=> Tells(s) BY <1>2, TellsOn
<1>10. Walking(r)'
  <2>1. Tells(cache) BY <1>1 DEF Cached
  <2>2. \A s : s = cache => Tells(s)' BY <1>9, <2>1
  <2>3. clock \in Nat BY <1>1, Types
  <2> QED BY <1>2, <1>4, <1>5, <1>7, <1>8, <2>2, <2>3 DEF Walking
<1>11. Knows(r)' BY <1>4, <1>5, <1>10 DEF Knows, At
<1>12. Cached' BY <1>2, CachedStays
<1>13. lock' \in Requests \cup {Nobody} /\ cache' \in Snapshot \cup {NoSnapshot}
  BY <1>1, <1>2 DEF TypeOK
<1>14. \A q \in Requests \ {r} : (q = lock <=> q = lock') /\ (q = lock => scan' = scan)
  BY <1>2, TimesOK
<1> QED BY <1>2, <1>3, <1>4, <1>8, <1>11, <1>12, <1>13, <1>14, OneRequestMoves

(* The holder of the lock takes the timestamp of one more file. *)
LEMMA WalkStep ==
    ASSUME ReadInv, NEW r \in Requests, NEW f \in Files, Walk(r, f)
    PROVE  ReadInv'
<1>1. TypeOK /\ Now /\ Knows(r) /\ request[r] \in RequestRecord BY Types DEF ReadInv
<1>2. /\ request[r].step = "walk" /\ f \in request[r].todo
      /\ UNCHANGED <<clock, tick, files, cache, floor>>
  BY DEF Walk, At
<1> DEFINE old == request[r].snapshot
           print == [scan.snapshot.print EXCEPT ![f] = files[f].ctime]
<1>3. /\ Tells(old) /\ old \in Snapshot \cup {NoSnapshot}
      /\ r \in scan.snapshot.arrived /\ scan.now <= clock
      /\ \A g \in Files \ request[r].todo :
             /\ scan.snapshot.print[g] % tick = 0
             /\ old # NoSnapshot /\ old.settled /\ old.print[g] = scan.snapshot.print[g] => Fresh(old, r, g)
  BY <1>1, <1>2 DEF Knows, At, Walking, RequestRecord
<1>4. /\ lock = r /\ lock # Nobody
      /\ \A q \in Requests \ {r} : q # lock
  BY <1>1, <1>2, TimesOK DEF TypeOK
<1>5. /\ print \in [Files -> Times] /\ scan.snapshot.print \in [Files -> Times]
      /\ \A g \in Files : print[g] = IF g = f THEN files[f].ctime ELSE scan.snapshot.print[g]
  BY <1>1 DEF TypeOK, Snapshot
<1>6. \A g \in Files : g \notin request[r].todo \/ g = f =>
          /\ print[g] % tick = 0
          /\ old # NoSnapshot /\ old.settled /\ old.print[g] = print[g] => Fresh(old, r, g)
  <2>1. files[f].ctime % tick = 0 BY <1>1 DEF Now
  <2>2. old # NoSnapshot /\ old.settled /\ old.print[f] = files[f].ctime => Fresh(old, r, f)
    <3>1. old # NoSnapshot /\ old.settled /\ old.print[f] = files[f].ctime
              => old.version[f] = files[f].version
      BY <1>3 DEF Tells
    <3> QED BY <1>1, <3>1, Types DEF Now, Fresh
  <2> QED BY <1>3, <1>5, <2>1, <2>2
<1> DEFINE done == request[r].todo = {f}
           same == old # NoSnapshot /\ old.settled /\ old.print = print
<1>7. /\ ~done => /\ scan' = [scan EXCEPT !.snapshot.print = print] /\ lock' = lock
                  /\ request' = [request EXCEPT ![r].todo = @ \ {f}]
      /\ done /\ same => lock' = Nobody /\ Answer(r, old) /\ scan' = scan
      /\ done /\ ~same => /\ scan' = [scan EXCEPT !.snapshot.print = print,
                                          !.snapshot.settled = \A g \in Files : Settled(print[g], scan.now)]
                          /\ request' = [request EXCEPT ![r].step = "read", ![r].todo = Files]
                          /\ lock' = lock
  BY DEF Walk
<1> HIDE DEF old, print, same, done
<1>8. \A s : Tells(s)' <=> Tells(s) BY <1>2, TellsOn
<1>9. Cached' BY <1>2, CachedStays
<1>10. cache' \in Snapshot \cup {NoSnapshot} BY <1>1, <1>2 DEF TypeOK
<1>11. CASE ~done
  <2> DEFINE new == [request[r] EXCEPT !.todo = @ \ {f}]
  <2>1. request' = [request EXCEPT ![r] = new] BY <1>1, <1>7, <1>11 DEF TypeOK
  <2>2. /\ new \in RequestRecord /\ new.step = "walk" /\ new.snapshot = old
        /\ new.todo = request[r].todo \ {f}
    BY <1>1, <1>2 DEF RequestRecord, Steps, old
  <2> HIDE DEF new
  <2>3. request'[r] = new BY <1>1, <2>1 DEF TypeOK
  <2>4. /\ scan' \in [now: Times, snapshot: Snapshot] /\ scan'.now = scan.now
        /\ scan'.snapshot.print = print /\ scan'.snapshot.arrived = scan.snapshot.arrived
    <3> DEFINE next == [scan.snapshot EXCEPT !.print = print]
    <3>1. /\ next \in Snapshot /\ next.print = print /\ next.arrived = scan.snapshot.arrived
      BY <1>1, <1>5 DEF TypeOK, Snapshot
    <3>2. scan' = [scan EXCEPT !.snapshot = next] BY <1>1, <1>7, <1>11 DEF TypeOK
    <3> HIDE DEF next
    <3> QED BY <1>1, <3>1, <3>2 DEF TypeOK
  <2>5. Walking(r)' BY <1>2, <1>3, <1>6, <1>8, <2>2, <2>3, <2>4 DEF Walking, Fresh
  <2>6. Knows(r)' BY <2>2, <2>3, <2>5 DEF Knows, At
  <2> QED BY <1>2, <1>4, <1>7, <1>9, <1>10, <1>11, <2>1, <2>2, <2>4, <2>6, OneRequestMoves
<1>12. CASE done /\ same
  <2> DEFINE new == [step |-> "answer", todo |-> {}, snapshot |-> old]
  <2>1. request' = [request EXCEPT ![r] = new] BY <1>7, <1>12 DEF Answer
  <2>2. new \in RequestRecord /\ new.step = "answer" /\ new.snapshot = old
    BY <1>3 DEF RequestRecord, Steps
  <2> HIDE DEF new
  <2>3. request'[r] = new BY <1>1, <2>1 DEF TypeOK
  <2>4. \A g \in Files : Fresh(old, r, g) BY <1>6, <1>12 DEF done, same
  <2>5. Knows(r)' BY <1>2, <2>2, <2>3, <2>4 DEF Knows, At, Fresh
  <2>6. scan' \in [now: Times, snapshot: Snapshot] BY <1>1, <1>7, <1>12 DEF TypeOK
  <2>7. /\ lock' = Nobody /\ \A q \in Requests : q # Nobody
    BY <1>7, <1>12, TimesOK
  <2> QED BY <1>2, <1>4, <1>9, <1>10, <2>1, <2>2, <2>5, <2>6, <2>7, OneRequestMoves
<1>13. CASE done /\ ~same
  <2> DEFINE new == [request[r] EXCEPT !.step = "read", !.todo = Files]
             tells == \A g \in Files : Settled(print[g], scan.now)
  <2>1. request' = [request EXCEPT ![r] = new] BY <1>1, <1>7, <1>13 DEF TypeOK
  <2>2. new \in RequestRecord /\ new.step = "read" /\ new.todo = Files
    BY <1>1 DEF RequestRecord, Steps
  <2> HIDE DEF new
  <2>3. request'[r] = new BY <1>1, <2>1 DEF TypeOK
  <2>4. scan' = [scan EXCEPT !.snapshot.print = print, !.snapshot.settled = tells] /\ tells \in BOOLEAN
    BY <1>7, <1>13
  <2>5. /\ tells => \A g \in Files : Settled(print[g], clock) /\ print[g] % tick = 0
    <3>1. \A g \in Files : print[g] \in Nat /\ scan.now \in Nat /\ clock \in Nat
      BY <1>1, <1>5, Types DEF Times
    <3>2. \A g \in Files : print[g] % tick = 0 BY <1>6, <1>13 DEF done
    <3> QED BY <1>3, <3>1, <3>2, SettledStays
  <2> HIDE DEF tells
  <2>6. /\ scan' \in [now: Times, snapshot: Snapshot]
        /\ scan'.snapshot.print = print /\ scan'.snapshot.arrived = scan.snapshot.arrived
        /\ scan'.snapshot.settled = tells
    BY <1>1, <1>5, <2>4 DEF TypeOK, Snapshot
  <2>7. Reading(r)'
    <3>1. scan'.snapshot.settled => \A g \in Files : /\ Settled(scan'.snapshot.print[g], clock')
                                                     /\ scan'.snapshot.print[g] % tick' = 0
      BY <1>2, <2>5, <2>6
    <3> QED BY <1>3, <2>2, <2>3, <2>6, <3>1 DEF Reading
  <2>8. Knows(r)' BY <2>2, <2>3, <2>7 DEF Knows, At
  <2> QED BY <1>2, <1>4, <1>7, <1>9, <1>10, <1>13, <2>1, <2>2, <2>6, <2>8, OneRequestMoves
<1> QED BY <1>11, <1>12, <1>13

(* The holder of the lock reads one more file, and keeps the snapshot after the last. *)
LEMMA ReadStep ==
    ASSUME ReadInv, NEW r \in Requests, NEW f \in Files, Read(r, f)
    PROVE  ReadInv'
<1>1. TypeOK /\ Now /\ Knows(r) /\ request[r] \in RequestRecord BY Types DEF ReadInv
<1>2. /\ request[r].step = "read" /\ f \in request[r].todo
      /\ UNCHANGED <<clock, tick, files, floor>>
  BY DEF Read, At
<1> DEFINE snap == scan.snapshot
           done == [scan.snapshot EXCEPT !.version[f] = files[f].version]
           last == request[r].todo = {f}
<1>3. /\ r \in snap.arrived /\ snap \in Snapshot
      /\ snap.settled => \A g \in Files : Settled(snap.print[g], clock) /\ snap.print[g] % tick = 0
      /\ \A g \in Files \ request[r].todo :
             /\ \A q \in snap.arrived : Fresh(snap, q, g)
             /\ snap.settled /\ snap.print[g] = files[g].ctime => snap.version[g] = files[g].version
  BY <1>1, <1>2, Types DEF Knows, At, Reading
<1>4. /\ lock = r /\ lock # Nobody
      /\ \A q \in Requests \ {r} : q # lock
  BY <1>1, <1>2, TimesOK DEF TypeOK
<1>5. /\ done \in Snapshot /\ done.print = snap.print /\ done.settled = snap.settled
      /\ done.arrived = snap.arrived /\ snap.arrived \subseteq Requests
      /\ \A g \in Files : done.version[g] = IF g = f THEN files[f].version ELSE snap.version[g]
  BY <1>1, <1>3 DEF TypeOK, Snapshot
<1>6. \A g \in Files : g \notin request[r].todo \/ g = f =>
          /\ \A q \in snap.arrived : Fresh(done, q, g)
          /\ snap.settled /\ snap.print[g] = files[g].ctime => done.version[g] = files[g].version
  <2>1. \A q \in Requests : files[f].version >= floor[q][f] BY <1>1, Types DEF Now
  <2> QED BY <1>3, <1>5, <2>1 DEF Fresh
<1>7. /\ ~last => /\ scan' = [scan EXCEPT !.snapshot = done] /\ UNCHANGED <<cache, lock>>
                  /\ request' = [request EXCEPT ![r].todo = @ \ {f}]
      /\ last => cache' = done /\ lock' = Nobody /\ Answer(r, done) /\ scan' = scan
  BY DEF Read
<1> HIDE DEF snap, done, last
<1>8. CASE ~last
  <2> DEFINE new == [request[r] EXCEPT !.todo = @ \ {f}]
  <2>1. request' = [request EXCEPT ![r] = new] BY <1>1, <1>7, <1>8 DEF TypeOK
  <2>2. new \in RequestRecord /\ new.step = "read" /\ new.todo = request[r].todo \ {f}
    BY <1>1, <1>2 DEF RequestRecord, Steps
  <2> HIDE DEF new
  <2>3. request'[r] = new BY <1>1, <2>1 DEF TypeOK
  <2>4. scan' \in [now: Times, snapshot: Snapshot] /\ scan'.snapshot = done
    BY <1>1, <1>5, <1>7, <1>8 DEF TypeOK
  <2>5. Reading(r)'
    <3>1. done.settled => \A g \in Files : Settled(done.print[g], clock') /\ done.print[g] % tick' = 0
      BY <1>2, <1>3, <1>5
    <3>2. \A g \in Files \ new.todo :
              /\ \A q \in done.arrived : done.version[g] >= floor'[q][g]
              /\ done.settled /\ done.print[g] = files'[g].ctime => done.version[g] = files'[g].version
      BY <1>2, <1>5, <1>6, <2>2 DEF Fresh
    <3>3. r \in done.arrived BY <1>3, <1>5
    <3> QED BY <2>3, <2>4, <3>1, <3>2, <3>3 DEF Reading, Fresh
  <2>6. Knows(r)' BY <2>2, <2>3, <2>5 DEF Knows, At
  <2>7. Cached' BY <1>2, <1>7, <1>8, CachedStays
  <2>8. cache' \in Snapshot \cup {NoSnapshot} /\ lock' = r BY <1>1, <1>4, <1>7, <1>8 DEF TypeOK
  <2> QED BY <1>2, <1>4, <2>1, <2>2, <2>4, <2>6, <2>7, <2>8, OneRequestMoves
<1>9. CASE last
  <2> DEFINE new == [step |-> "answer", todo |-> {}, snapshot |-> done]
  <2>1. request' = [request EXCEPT ![r] = new] BY <1>7, <1>9 DEF Answer
  <2>2. new \in RequestRecord /\ new.step = "answer" /\ new.snapshot = done
    BY <1>5 DEF RequestRecord, Steps
  <2> HIDE DEF new
  <2>3. request'[r] = new BY <1>1, <2>1 DEF TypeOK
  <2>4. \A g \in Files :
            /\ \A q \in done.arrived : Fresh(done, q, g)
            /\ done.settled /\ done.print[g] = files[g].ctime => done.version[g] = files[g].version
    BY <1>5, <1>6, <1>9 DEF last
  <2>5. Knows(r)' BY <1>2, <1>3, <1>5, <2>2, <2>3, <2>4 DEF Knows, At, Fresh
  <2>6. Tells(done) BY <1>3, <1>5, <2>4 DEF Tells
  <2>7. Cached'
    <3>1. \A s : s = done => Tells(s)' BY <1>2, <2>6, TellsOn
    <3> QED BY <1>2, <1>7, <1>9, <2>4, <3>1 DEF Cached, Fresh
  <2>8. /\ scan' \in [now: Times, snapshot: Snapshot] /\ cache' \in Snapshot \cup {NoSnapshot}
        /\ lock' = Nobody /\ \A q \in Requests : q # Nobody
    BY <1>1, <1>5, <1>7, <1>9, TimesOK DEF TypeOK
  <2> QED BY <1>2, <1>4, <2>1, <2>2, <2>5, <2>7, <2>8, OneRequestMoves
<1> QED BY <1>8, <1>9

(* An answered request knows nothing any more. *)
LEMMA LeaveStep ==
    ASSUME ReadInv, NEW r \in Requests, Leave(r)
    PROVE  ReadInv'
<1>1. TypeOK BY DEF ReadInv
<1>2. /\ request[r].step = "answer" /\ request' = [request EXCEPT ![r] = Rest]
      /\ UNCHANGED <<clock, tick, files, cache, lock, scan, floor>>
  BY DEF Leave, At
<1>3. Rest \in RequestRecord /\ Rest.step = "idle" BY DEF Rest, RequestRecord, Steps
<1>4. request'[r] = Rest BY <1>1, <1>2 DEF TypeOK
<1>5. Knows(r)' BY <1>3, <1>4 DEF Knows, At
<1>6. Cached' BY <1>2, CachedStays
<1>7. lock' # r BY <1>1, <1>2 DEF TypeOK
<1> QED BY <1>1, <1>2, <1>3, <1>5, <1>6, <1>7, OneRequestMoves DEF TypeOK

(* Every step keeps the invariant. *)
LEMMA NextInv == ReadInv /\ [Next]_vars => ReadInv'
<1> SUFFICES ASSUME ReadInv, [Next]_vars PROVE ReadInv' OBVIOUS
<1>1. CASE UNCHANGED vars
  <2>1. UNCHANGED <<clock, tick, files, cache, lock, scan, request, floor>> BY <1>1 DEF vars
  <2>2. \A s : Tells(s)' <=> Tells(s) BY <2>1, TellsOn
  <2>3. TypeOK' /\ Now' BY <2>1 DEF ReadInv, TypeOK, Now
  <2>4. Cached' BY <2>1, CachedStays
  <2>5. ASSUME NEW r \in Requests PROVE Knows(r)'
    <3>1. Knows(r) BY DEF ReadInv
    <3> QED BY <2>1, <2>2, <3>1 DEF Knows, At, Peeking, Walking, Reading, Fresh, Settled
  <2> QED BY <2>3, <2>4, <2>5 DEF ReadInv
<1>2. CASE TimePasses BY <1>2, TimePassesStep
<1>3. ASSUME NEW f \in Files, Write(f) PROVE ReadInv' BY <1>3, WriteStep
<1>4. ASSUME NEW r \in Requests, Arrive(r) \/ Share(r) \/ Begin(r) \/ Leave(r) PROVE ReadInv'
  BY <1>4, ArriveStep, ShareStep, BeginStep, LeaveStep
<1>5. ASSUME NEW r \in Requests, NEW f \in Files, Peek(r, f) \/ Walk(r, f) \/ Read(r, f) PROVE ReadInv'
  BY <1>5, PeekStep, WalkStep, ReadStep
<1> QED BY <1>1, <1>2, <1>3, <1>4, <1>5 DEF Next

(* Whatever a mirror's pulls do between the stats and the reads of a walk, an     *)
(* answer is no older than its request, and a settled snapshot that still has its *)
(* fingerprint is the tree (_snapshot, _scan, _settled).                          *)
THEOREM ReadsAreSound == Spec => []ReadsSound
<1>1. ReadInv => ReadsSound
  BY Types DEF ReadInv, ReadsSound, FreshAnswers, FingerprintsTell, Knows, Cached, Tells, Fresh, At
<1> QED BY <1>1, InitInv, NextInv, PTL DEF Spec

-----------------------------------------------------------------------------
(* The vector store of semantic recall. *)

(* An index is of a snapshot: what has no vector yet is pending, and nothing else is. *)
Index == [snapshot: V!Snapshots, pending: SUBSET V!Texts, vectors: SUBSET V!Texts, matrix: {"none", "owners", "ready"}]

IndexesOK ==
    /\ indexes \in Seq(Index) /\ matrixLock \in Seq(SUBSET Searches)
    /\ Len(matrixLock) = Len(indexes) /\ Len(indexes) <= MaxIndexes /\ current \in 0..Len(indexes)
    /\ \A i \in 1..Len(indexes) : indexes[i].pending \cup indexes[i].vectors = Content[indexes[i].snapshot]

Here == 1..Len(indexes)

(* A request past ensure has an index; who builds its matrix holds its lock, and a matrix that is
   there stays there. *)
RequestOK(r) ==
    LET q == asked[r] IN
    /\ q.step = "ensure" => q.snapshot \in V!Snapshots
    /\ q.step \notin {"idle", "ensure"} => q.index \in Here
    /\ q.step \in {"matrix", "owners", "rows", "unlock", "hybrid"} => indexes[q.index].pending = {}
    /\ q.step \in {"owners", "rows"} => matrixLock[q.index] = {r} /\ indexes[q.index].matrix # "ready"
    /\ q.step = "unlock" => matrixLock[q.index] = {r} /\ indexes[q.index].matrix = "ready"
    /\ q.step = "hybrid" => indexes[q.index].matrix = "ready"

(* What a builder holds is of the index it holds, which may be no longer the current one. *)
BuilderOK(b) ==
    LET w == builder[b] IN
    /\ w.step \in V!Looping => current # 0
    /\ w.step \in {"off", "next", "embed", "vector", "leave", "append"} => w.failures < Patience
    /\ w.step \in {"embed", "vector", "leave"} =>
         w.index \in Here /\ w.text \subseteq Content[indexes[w.index].snapshot]
    /\ w.step = "leave" => w.text \subseteq indexes[w.index].vectors
    /\ w.step = "end" => w.index \in 0..Len(indexes)
    /\ w.step = "keep" => w.index \in Here

OneLoops ==
    /\ \A a, b \in Builders : builder[a].step \in V!Looping /\ builder[b].step \in V!Looping => a = b
    /\ building <=> \E b \in Builders : builder[b].step \in V!Looping

CacheHolds == current # 0 => indexes[current].vectors \subseteq vectorCache

(* The texts of the rows still to be appended. *)
Coming == UNION {builder[b].text : b \in {a \in Builders : builder[a].step \in {"leave", "append"}}}

(* While nothing raced, the file lacks of the cache only the rows to come, and so will what a
   compaction makes of it. *)
FileHolds ==
    ~raced =>
       /\ vectorCache \subseteq disk \cup Coming
       /\ \A b \in V!Compacting :
            /\ V!Compacting = {b} /\ vectorCache \subseteq builder[b].keep \cup Coming
            /\ builder[b].step = "replace" => temporary = [there |-> TRUE, texts |-> builder[b].keep]

Working == [index: V!Ids \cup {0}, text: SUBSET V!Texts, failures: 0..Patience, keep: SUBSET V!Texts,
            step: V!Looping \cup {"off", "keep", "write", "replace"}]
Asking  == [snapshot: 0..Len(Content), index: V!Ids \cup {0},
            step: {"idle", "ensure", "rank", "matrix", "owners", "rows", "unlock", "lexical", "hybrid"}]

(* The types but the indexes'. *)
RestTyped ==
    /\ newest \in V!Snapshots /\ vectorCache \in SUBSET V!Texts /\ disk \in SUBSET V!Texts
    /\ temporary \in [there: BOOLEAN, texts: SUBSET V!Texts]
    /\ torn \in BOOLEAN /\ building \in BOOLEAN /\ gaveUp \in BOOLEAN /\ raced \in BOOLEAN
    /\ asked \in [Searches -> Asking] /\ builder \in [Builders -> Working] /\ storeFaults \in 0..MaxStoreFaults

(* The inductive invariant. *)
RecallInv ==
    /\ RestTyped /\ IndexesOK /\ OneLoops /\ CacheHolds /\ FileHolds
    /\ (\A r \in Searches : RequestOK(r)) /\ (\A b \in Builders : BuilderOK(b))

-----------------------------------------------------------------------------
(* The indexes as a function of their ids. *)
LEMMA IndexesRead ==
    ASSUME IndexesOK
    PROVE  /\ Len(indexes) \in Nat /\ indexes \in [Here -> Index] /\ matrixLock \in [Here -> SUBSET Searches]
           /\ DOMAIN indexes = Here /\ DOMAIN matrixLock = Here
           /\ \A i \in Here : indexes[i] = [snapshot |-> indexes[i].snapshot, pending |-> indexes[i].pending,
                                            vectors |-> indexes[i].vectors, matrix |-> indexes[i].matrix]
<1>1. indexes \in Seq(Index) /\ matrixLock \in Seq(SUBSET Searches) /\ Len(matrixLock) = Len(indexes)
  BY DEF IndexesOK
<1>2. Len(indexes) \in Nat /\ indexes \in [1..Len(indexes) -> Index]  BY <1>1, LenProperties
<1>3. matrixLock \in [1..Len(matrixLock) -> SUBSET Searches]  BY <1>1, LenProperties
<1>4. \A i \in Here : indexes[i] \in Index  BY <1>2 DEF Here
<1> QED  BY <1>1, <1>2, <1>3, <1>4 DEF Here, Index

(* What a step does to the indexes when it makes none and takes nothing from them. *)
Grow ==
    /\ indexes' \in [Here -> Index]
    /\ \A i \in Here :
          /\ indexes'[i].snapshot = indexes[i].snapshot /\ indexes'[i].pending \subseteq indexes[i].pending
          /\ indexes[i].vectors \subseteq indexes'[i].vectors
          /\ indexes'[i].pending \cup indexes'[i].vectors = indexes[i].pending \cup indexes[i].vectors

(* Indexes that grow, and the locks of their matrices, are as they should be. *)
LEMMA GrownIndexes ==
    ASSUME IndexesOK, Grow, current' = current, matrixLock' \in [Here -> SUBSET Searches]
    PROVE  IndexesOK' /\ Here' = Here /\ Len(indexes') = Len(indexes)
<1>1. Len(indexes) \in Nat  BY IndexesRead
<1>2. indexes' \in Seq(Index) /\ Len(indexes') = Len(indexes)
  BY <1>1, LenProperties DEF Grow, Here
<1>3. matrixLock' \in Seq(SUBSET Searches) /\ Len(matrixLock') = Len(indexes)
  BY <1>1, LenProperties DEF Here
<1>4. \A i \in Here : indexes'[i].pending \cup indexes'[i].vectors = Content[indexes'[i].snapshot]
  BY DEF Grow, IndexesOK, Here
<1> QED  BY <1>2, <1>3, <1>4 DEF IndexesOK, Here, Index, V!Snapshots, V!Texts

-----------------------------------------------------------------------------
(* A request that moves disturbs no other: it touches the matrix and the lock of its index only   *)
(* while no other holds it.                                                                       *)
LEMMA OtherRequests ==
    ASSUME RecallInv, Grow, IndexesOK', Here' = Here, NEW r \in Searches, NEW q, asked' = [asked EXCEPT ![r] = q],
           \A i \in Here : matrixLock[i] \notin {{}, {r}} =>
              matrixLock'[i] = matrixLock[i] /\ indexes'[i].matrix = indexes[i].matrix,
           \A i \in Here : indexes[i].matrix = "ready" => indexes'[i].matrix = "ready"
    PROVE  \A a \in Searches \ {r} : RequestOK(a)'
<1> SUFFICES ASSUME NEW a \in Searches, a # r  PROVE RequestOK(a)'  OBVIOUS
<1>1. RequestOK(a) /\ asked'[a] = asked[a]  BY DEF RecallInv, RestTyped
<1>2. \A i \in Here : indexes'[i].pending \subseteq indexes[i].pending  BY DEF Grow
<1>3. matrixLock[asked[a].index] = {a} /\ asked[a].index \in Here =>
        /\ matrixLock'[asked[a].index] = {a}
        /\ indexes'[asked[a].index].matrix = indexes[asked[a].index].matrix
  OBVIOUS
<1> QED  BY <1>1, <1>2, <1>3 DEF RequestOK

(* Requests that stay where they are, while indexes only grow. *)
LEMMA RequestsStay ==
    ASSUME RecallInv, Grow, Here' = Here, UNCHANGED <<asked, matrixLock>>,
           \A i \in Here : indexes'[i].matrix = indexes[i].matrix
    PROVE  \A a \in Searches : RequestOK(a)'
<1> SUFFICES ASSUME NEW a \in Searches  PROVE RequestOK(a)'  OBVIOUS
<1>1. RequestOK(a)  BY DEF RecallInv
<1> QED  BY <1>1 DEF RequestOK, Grow

(* Nor does a builder that moves disturb another. *)
LEMMA OtherBuilders ==
    ASSUME RecallInv, Grow, Here' = Here, Len(indexes') = Len(indexes), UNCHANGED current,
           NEW b \in Builders, NEW w, builder' = [builder EXCEPT ![b] = w]
    PROVE  \A a \in Builders \ {b} : BuilderOK(a)'
<1> SUFFICES ASSUME NEW a \in Builders, a # b  PROVE BuilderOK(a)'  OBVIOUS
<1>1. BuilderOK(a) /\ builder'[a] = builder[a]  BY DEF RecallInv, RestTyped
<1> QED  BY <1>1 DEF BuilderOK, Grow

(* Builders that stay where they are. *)
LEMMA BuildersStay ==
    ASSUME RecallInv, Grow, Here' = Here, Len(indexes') = Len(indexes), UNCHANGED <<current, builder, building>>
    PROVE  (\A a \in Builders : BuilderOK(a)') /\ OneLoops'
<1>1. OneLoops'  BY DEF RecallInv, OneLoops
<1> SUFFICES ASSUME NEW a \in Builders  PROVE BuilderOK(a)'  BY <1>1
<1>2. BuilderOK(a)  BY DEF RecallInv
<1> QED  BY <1>2 DEF BuilderOK, Grow

(* A builder that goes on leaves the flag as it is. *)
LEMMA LoopGoesOn ==
    ASSUME RecallInv, NEW b \in Builders, NEW w, builder' = [builder EXCEPT ![b] = w], UNCHANGED building,
           w.step \in V!Looping <=> builder[b].step \in V!Looping
    PROVE  OneLoops'
<1>1. \A a \in Builders : builder'[a].step \in V!Looping <=> builder[a].step \in V!Looping
  BY DEF RecallInv, RestTyped
<1> QED  BY <1>1 DEF RecallInv, OneLoops

(* The file is of those who append and compact: another's step leaves it as it is. *)
LEMMA FileStays ==
    ASSUME RecallInv, NEW b \in Builders, NEW w, builder' = [builder EXCEPT ![b] = w],
           builder[b].step \notin {"leave", "append", "write", "replace"},
           w.step \notin {"leave", "append", "write", "replace"}, UNCHANGED <<vectorCache, disk, temporary, raced>>
    PROVE  FileHolds'
<1>1. \A a \in Builders : a # b => builder'[a] = builder[a]
  BY DEF RecallInv, RestTyped
<1>2. builder'[b] = w  BY DEF RecallInv, RestTyped
<1>3. V!Compacting' = V!Compacting /\ b \notin V!Compacting  BY <1>1, <1>2 DEF V!Compacting
<1>4. Coming' = Coming
  <2>1. {a \in Builders : builder[a].step \in {"leave", "append"}}'
          = {a \in Builders : builder[a].step \in {"leave", "append"}}
    BY <1>1, <1>2
  <2>2. \A a \in {c \in Builders : builder[c].step \in {"leave", "append"}} : builder'[a].text = builder[a].text
    BY <1>1
  <2> QED  BY <2>1, <2>2 DEF Coming
<1>5. \A a \in V!Compacting : builder'[a] = builder[a]  BY <1>1, <1>3 DEF V!Compacting
<1> QED  BY <1>3, <1>4, <1>5 DEF RecallInv, FileHolds

-----------------------------------------------------------------------------
(* A request past ensure that moves, with its index's matrix and its lock. *)
LEMMA RequestMoves ==
    ASSUME V!ConstantsOK, RecallInv, NEW r \in Searches, NEW q \in Asking, asked' = [asked EXCEPT ![r] = q],
           Grow, matrixLock' \in [Here -> SUBSET Searches],
           \A i \in Here : indexes'[i].vectors = indexes[i].vectors,
           \A i \in Here : matrixLock[i] \notin {{}, {r}} =>
              matrixLock'[i] = matrixLock[i] /\ indexes'[i].matrix = indexes[i].matrix,
           \A i \in Here : indexes[i].matrix = "ready" => indexes'[i].matrix = "ready",
           UNCHANGED <<newest, current, vectorCache, disk, torn, temporary, building, gaveUp, builder, raced, storeFaults>>,
           RequestOK(r)'
    PROVE  RecallInv'
<1>0. IndexesOK /\ FileHolds /\ CacheHolds /\ RestTyped  BY DEF RecallInv
<1>1. IndexesOK' /\ Here' = Here /\ Len(indexes') = Len(indexes)  BY <1>0, GrownIndexes
<1>2. \A a \in Searches : RequestOK(a)'  BY <1>1, OtherRequests
<1>3. (\A b \in Builders : BuilderOK(b)') /\ OneLoops'  BY <1>1, BuildersStay
<1>4. CacheHolds'  BY <1>0 DEF CacheHolds, IndexesOK, Here
<1>5. FileHolds'  BY <1>0 DEF FileHolds, V!Compacting, Coming
<1>6. RestTyped'  BY <1>0 DEF RestTyped
<1> QED  BY <1>1, <1>2, <1>3, <1>4, <1>5, <1>6 DEF RecallInv

(* Nothing grows where nothing changes. *)
LEMMA GrowNot == ASSUME IndexesOK, UNCHANGED indexes PROVE Grow
  BY IndexesRead DEF Grow

(* What a request is doing. *)
LEMMA RequestType ==
    ASSUME RecallInv, NEW r \in Searches
    PROVE  /\ asked[r] \in Asking /\ RequestOK(r)
           /\ asked[r] = [snapshot |-> asked[r].snapshot, index |-> asked[r].index, step |-> asked[r].step]
<1>1. asked[r] \in Asking  BY DEF RecallInv, RestTyped
<1> QED  BY <1>1 DEF RecallInv, Asking

(* A request that goes on to another step is still of its index. *)
LEMMA Stepped ==
    ASSUME RecallInv, NEW r \in Searches, NEW step, V!RequestTo(r, step),
           step \in {"rank", "matrix", "owners", "rows", "unlock", "lexical", "hybrid"}
    PROVE  \E q \in Asking : /\ asked' = [asked EXCEPT ![r] = q] /\ asked'[r] = q
                             /\ q = [snapshot |-> asked[r].snapshot, index |-> asked[r].index, step |-> step]
<1> DEFINE q == [snapshot |-> asked[r].snapshot, index |-> asked[r].index, step |-> step]
<1>1. asked[r] \in Asking /\ asked \in [Searches -> Asking]  BY RequestType DEF RecallInv, RestTyped
<1>2. q \in Asking  BY <1>1 DEF Asking
<1>3. [asked[r] EXCEPT !.step = step] = q
  <2>1. PICK now : now = asked[r]  OBVIOUS
  <2>2. now = [snapshot |-> now.snapshot, index |-> now.index, step |-> now.step]  BY <2>1, RequestType
  <2> QED  BY <2>1, <2>2
<1>4. asked' = [asked EXCEPT ![r] = [asked[r] EXCEPT !.step = step]]  BY DEF V!RequestTo
<1> HIDE DEF q
<1>5. asked' = [asked EXCEPT ![r] = q]  BY <1>3, <1>4
<1> QED  BY <1>1, <1>2, <1>5 DEF q

(* A request that arrives. *)
LEMMA SearchArrives == ASSUME V!ConstantsOK, RecallInv, NEW r \in Searches, V!Arrive(r) PROVE RecallInv'
<1> DEFINE q == [step |-> "ensure", snapshot |-> newest, index |-> 0]
<1>0. IndexesOK /\ RestTyped  BY DEF RecallInv
<1>1. q \in Asking /\ newest \in V!Snapshots  BY <1>0, LenProperties DEF Asking, RestTyped, V!Snapshots, V!ConstantsOK
<1>2. asked' = [asked EXCEPT ![r] = q] /\ asked'[r] = q /\ UNCHANGED <<indexes, matrixLock>>
      /\ UNCHANGED <<newest, current, vectorCache, disk, torn, temporary, building, gaveUp, builder, raced, storeFaults>>
  BY <1>0 DEF V!Arrive, RestTyped
<1>3. Grow /\ matrixLock' \in [Here -> SUBSET Searches]  BY <1>0, <1>2, GrowNot, IndexesRead
<1>4. RequestOK(r)'  BY <1>1, <1>2 DEF RequestOK
<1> QED  BY <1>1, <1>2, <1>3, <1>4, RequestMoves

(* A request that answers. *)
LEMMA AnswerStep == ASSUME V!ConstantsOK, RecallInv, NEW r \in Searches, V!Answer(r) PROVE RecallInv'
<1>0. IndexesOK /\ RestTyped  BY DEF RecallInv
<1>1. V!AtRest \in Asking  BY LenProperties DEF Asking, V!AtRest, V!ConstantsOK
<1>2. asked' = [asked EXCEPT ![r] = V!AtRest] /\ asked'[r] = V!AtRest /\ UNCHANGED <<indexes, matrixLock>>
      /\ UNCHANGED <<newest, current, vectorCache, disk, torn, temporary, building, gaveUp, builder, raced, storeFaults>>
  BY <1>0 DEF V!Answer, RestTyped
<1>3. Grow /\ matrixLock' \in [Here -> SUBSET Searches]  BY <1>0, <1>2, GrowNot, IndexesRead
<1>4. RequestOK(r)'  BY <1>2 DEF RequestOK, V!AtRest
<1> QED  BY <1>1, <1>2, <1>3, <1>4, RequestMoves

(* A request that ranks. *)
LEMMA RankStep == ASSUME V!ConstantsOK, RecallInv, NEW r \in Searches, V!Rank(r) PROVE RecallInv'
<1>0. IndexesOK /\ RestTyped /\ RequestOK(r)  BY DEF RecallInv
<1>1. UNCHANGED <<indexes, matrixLock>>
      /\ UNCHANGED <<newest, current, vectorCache, disk, torn, temporary, building, gaveUp, builder, raced, storeFaults>>
  BY DEF V!Rank
<1>2. Grow /\ matrixLock' \in [Here -> SUBSET Searches]  BY <1>0, <1>1, GrowNot, IndexesRead
<1>3. PICK step \in {"lexical", "hybrid", "matrix"} :
         /\ V!RequestTo(r, step)
         /\ step # "lexical" => V!Of(r).pending = {}
         /\ step = "hybrid" => V!Of(r).matrix = "ready"
  BY DEF V!Rank
<1>4. PICK q \in Asking : /\ asked' = [asked EXCEPT ![r] = q] /\ asked'[r] = q
                          /\ q = [snapshot |-> asked[r].snapshot, index |-> asked[r].index, step |-> step]
  BY <1>3, Stepped
<1>5. asked[r].index \in Here  BY <1>0 DEF V!Rank, RequestOK
<1>6. RequestOK(r)'  BY <1>1, <1>3, <1>4, <1>5 DEF RequestOK, Here, V!Of
<1> QED  BY <1>1, <1>2, <1>4, <1>6, RequestMoves

(* A request that locks the matrix of its index. *)
LEMMA LockMatrixStep == ASSUME V!ConstantsOK, RecallInv, NEW r \in Searches, V!LockMatrix(r) PROVE RecallInv'
<1>0. IndexesOK /\ RestTyped /\ RequestOK(r)  BY DEF RecallInv
<1>1. /\ UNCHANGED indexes
      /\ UNCHANGED <<newest, current, vectorCache, disk, torn, temporary, building, gaveUp, builder, raced, storeFaults>>
      /\ matrixLock' = [matrixLock EXCEPT ![asked[r].index] = {r}] /\ matrixLock[asked[r].index] = {}
      /\ asked[r].step = "matrix"
  BY DEF V!LockMatrix
<1>2. Grow /\ matrixLock \in [Here -> SUBSET Searches]  BY <1>0, <1>1, GrowNot, IndexesRead
<1>3. asked[r].index \in Here /\ V!Of(r).pending = {}  BY <1>0, <1>1 DEF RequestOK, V!Of
<1>4. matrixLock' \in [Here -> SUBSET Searches] /\ matrixLock'[asked[r].index] = {r}
      /\ \A i \in Here : matrixLock[i] \notin {{}, {r}} => matrixLock'[i] = matrixLock[i]
  BY <1>1, <1>2, <1>3
<1>5. PICK step \in {"unlock", "owners"} : V!RequestTo(r, step) /\ (step = "unlock" <=> V!Of(r).matrix = "ready")
  BY DEF V!LockMatrix
<1>6. PICK q \in Asking : /\ asked' = [asked EXCEPT ![r] = q] /\ asked'[r] = q
                          /\ q = [snapshot |-> asked[r].snapshot, index |-> asked[r].index, step |-> step]
  BY <1>5, Stepped
<1>7. RequestOK(r)'  BY <1>1, <1>3, <1>4, <1>5, <1>6 DEF RequestOK, Here, V!Of
<1> QED  BY <1>1, <1>2, <1>4, <1>6, <1>7, RequestMoves

(* A request that unlocks it. *)
LEMMA UnlockMatrixStep == ASSUME V!ConstantsOK, RecallInv, NEW r \in Searches, V!UnlockMatrix(r) PROVE RecallInv'
<1>0. IndexesOK /\ RestTyped /\ RequestOK(r)  BY DEF RecallInv
<1>1. /\ UNCHANGED indexes
      /\ UNCHANGED <<newest, current, vectorCache, disk, torn, temporary, building, gaveUp, builder, raced, storeFaults>>
      /\ matrixLock' = [matrixLock EXCEPT ![asked[r].index] = {}] /\ asked[r].step = "unlock"
      /\ V!RequestTo(r, "hybrid")
  BY DEF V!UnlockMatrix
<1>2. Grow /\ matrixLock \in [Here -> SUBSET Searches]  BY <1>0, <1>1, GrowNot, IndexesRead
<1>3. asked[r].index \in Here /\ V!Of(r).pending = {} /\ V!Of(r).matrix = "ready" /\ matrixLock[asked[r].index] = {r}
  BY <1>0, <1>1 DEF RequestOK, V!Of
<1>4. matrixLock' \in [Here -> SUBSET Searches]
      /\ \A i \in Here : matrixLock[i] \notin {{}, {r}} => matrixLock'[i] = matrixLock[i]
  BY <1>1, <1>2, <1>3
<1>5. PICK q \in Asking : /\ asked' = [asked EXCEPT ![r] = q] /\ asked'[r] = q
                          /\ q = [snapshot |-> asked[r].snapshot, index |-> asked[r].index, step |-> "hybrid"]
  BY <1>1, Stepped
<1>6. RequestOK(r)'  BY <1>1, <1>3, <1>4, <1>5 DEF RequestOK, Here, V!Of
<1> QED  BY <1>1, <1>2, <1>4, <1>5, <1>6, RequestMoves

(* Whose matrix is set keeps all else of its index. *)
LEMMA MatrixSet ==
    ASSUME RecallInv, NEW r \in Searches, NEW matrix \in {"owners", "ready"}, V!MatrixTo(r, matrix),
           asked[r].index \in Here
    PROVE  /\ Grow /\ indexes'[asked[r].index].matrix = matrix
           /\ \A i \in Here : indexes'[i].vectors = indexes[i].vectors /\ indexes'[i].pending = indexes[i].pending
           /\ \A i \in Here : i # asked[r].index => indexes'[i] = indexes[i]
<1> DEFINE k == asked[r].index
           new == [snapshot |-> indexes[k].snapshot, pending |-> indexes[k].pending,
                   vectors |-> indexes[k].vectors, matrix |-> matrix]
<1>0. indexes \in [Here -> Index] /\ \A i \in Here : indexes[i] \in Index  BY IndexesRead DEF RecallInv
<1>1. new \in Index /\ [indexes[k] EXCEPT !.matrix = matrix] = new  BY <1>0, IndexesRead DEF RecallInv, Index
<1>2. indexes' = [indexes EXCEPT ![k] = [indexes[k] EXCEPT !.matrix = matrix]]  BY DEF V!MatrixTo
<1> HIDE DEF new
<1>3. indexes' = [indexes EXCEPT ![k] = new]  BY <1>1, <1>2
<1>4. indexes' \in [Here -> Index] /\ indexes'[k] = new /\ \A i \in Here : i # k => indexes'[i] = indexes[i]
  BY <1>0, <1>1, <1>3
<1>5. /\ indexes'[k].snapshot = indexes[k].snapshot /\ indexes'[k].pending = indexes[k].pending
      /\ indexes'[k].vectors = indexes[k].vectors /\ indexes'[k].matrix = matrix
  BY <1>4 DEF new
<1> QED  BY <1>4, <1>5 DEF Grow

(* Whose the rows are. *)
LEMMA SetOwnersStep == ASSUME V!ConstantsOK, RecallInv, NEW r \in Searches, V!SetOwners(r) PROVE RecallInv'
<1>0. IndexesOK /\ RestTyped /\ RequestOK(r)  BY DEF RecallInv
<1>1. /\ UNCHANGED <<newest, current, vectorCache, disk, torn, temporary, building, gaveUp, builder, raced, storeFaults>>
      /\ UNCHANGED matrixLock /\ asked[r].step = "owners" /\ V!MatrixTo(r, "owners") /\ V!RequestTo(r, "rows")
  BY DEF V!SetOwners
<1>2. asked[r].index \in Here /\ V!Of(r).pending = {} /\ V!Of(r).matrix # "ready" /\ matrixLock[asked[r].index] = {r}
  BY <1>0, <1>1 DEF RequestOK, V!Of
<1>3. /\ Grow /\ indexes'[asked[r].index].matrix = "owners"
      /\ \A i \in Here : indexes'[i].vectors = indexes[i].vectors /\ indexes'[i].pending = indexes[i].pending
      /\ \A i \in Here : i # asked[r].index => indexes'[i] = indexes[i]
  BY <1>1, <1>2, MatrixSet
<1>4. /\ \A i \in Here : matrixLock[i] \notin {{}, {r}} => indexes'[i].matrix = indexes[i].matrix
      /\ \A i \in Here : indexes[i].matrix = "ready" => indexes'[i].matrix = "ready"
  BY <1>2, <1>3 DEF V!Of
<1>5. PICK q \in Asking : /\ asked' = [asked EXCEPT ![r] = q] /\ asked'[r] = q
                          /\ q = [snapshot |-> asked[r].snapshot, index |-> asked[r].index, step |-> "rows"]
  BY <1>1, Stepped
<1>6. matrixLock' \in [Here -> SUBSET Searches]  BY <1>0, <1>1, IndexesRead
<1>7. Here' = Here  BY <1>0, <1>3, <1>1, <1>6, GrownIndexes
<1>8. RequestOK(r)'  BY <1>1, <1>2, <1>3, <1>5, <1>7 DEF RequestOK, V!Of
<1> QED  BY <1>1, <1>3, <1>4, <1>5, <1>6, <1>8, RequestMoves

(* The rows themselves. *)
LEMMA SetMatrixStep == ASSUME V!ConstantsOK, RecallInv, NEW r \in Searches, V!SetMatrix(r) PROVE RecallInv'
<1>0. IndexesOK /\ RestTyped /\ RequestOK(r)  BY DEF RecallInv
<1>1. /\ UNCHANGED <<newest, current, vectorCache, disk, torn, temporary, building, gaveUp, builder, raced, storeFaults>>
      /\ UNCHANGED matrixLock /\ asked[r].step = "rows" /\ V!MatrixTo(r, "ready") /\ V!RequestTo(r, "unlock")
  BY DEF V!SetMatrix
<1>2. asked[r].index \in Here /\ V!Of(r).pending = {} /\ matrixLock[asked[r].index] = {r}
  BY <1>0, <1>1 DEF RequestOK, V!Of
<1>3. /\ Grow /\ indexes'[asked[r].index].matrix = "ready"
      /\ \A i \in Here : indexes'[i].vectors = indexes[i].vectors /\ indexes'[i].pending = indexes[i].pending
      /\ \A i \in Here : i # asked[r].index => indexes'[i] = indexes[i]
  BY <1>1, <1>2, MatrixSet
<1>4. /\ \A i \in Here : matrixLock[i] \notin {{}, {r}} => indexes'[i].matrix = indexes[i].matrix
      /\ \A i \in Here : indexes[i].matrix = "ready" => indexes'[i].matrix = "ready"
  BY <1>2, <1>3
<1>5. PICK q \in Asking : /\ asked' = [asked EXCEPT ![r] = q] /\ asked'[r] = q
                          /\ q = [snapshot |-> asked[r].snapshot, index |-> asked[r].index, step |-> "unlock"]
  BY <1>1, Stepped
<1>6. matrixLock' \in [Here -> SUBSET Searches]  BY <1>0, <1>1, IndexesRead
<1>7. Here' = Here  BY <1>0, <1>3, <1>1, <1>6, GrownIndexes
<1>8. RequestOK(r)'  BY <1>1, <1>2, <1>3, <1>5, <1>7 DEF RequestOK, V!Of
<1> QED  BY <1>1, <1>3, <1>4, <1>5, <1>6, <1>8, RequestMoves

-----------------------------------------------------------------------------
(* What a builder is doing. *)
LEMMA BuilderType ==
    ASSUME RecallInv, NEW b \in Builders
    PROVE  /\ builder[b] \in Working /\ BuilderOK(b)
           /\ builder[b] = [index |-> builder[b].index, text |-> builder[b].text, failures |-> builder[b].failures,
                            keep |-> builder[b].keep, step |-> builder[b].step]
<1>1. builder[b] \in Working  BY DEF RecallInv, RestTyped
<1> QED  BY <1>1 DEF RecallInv, Working

(* A builder's record is set whole. *)
LEMMA BuilderSet ==
    ASSUME RecallInv, NEW b \in Builders, NEW w \in Working, builder' = [builder EXCEPT ![b] = w]
    PROVE  builder'[b] = w /\ builder' \in [Builders -> Working] /\ \A a \in Builders : a # b => builder'[a] = builder[a]
  BY DEF RecallInv, RestTyped

(* A builder that goes on to another step. *)
LEMMA BuilderStepped ==
    ASSUME RecallInv, NEW b \in Builders, NEW step \in V!Looping \cup {"off", "keep", "write", "replace"}, V!BuilderTo(b, step)
    PROVE  \E w \in Working : /\ builder' = [builder EXCEPT ![b] = w]
                              /\ w = [index |-> builder[b].index, text |-> builder[b].text,
                                      failures |-> builder[b].failures, keep |-> builder[b].keep, step |-> step]
<1> DEFINE w == [index |-> builder[b].index, text |-> builder[b].text, failures |-> builder[b].failures,
                 keep |-> builder[b].keep, step |-> step]
<1>1. builder[b] \in Working  BY BuilderType
<1>2. w \in Working  BY <1>1 DEF Working
<1>3. [builder[b] EXCEPT !.step = step] = w
  <2>1. PICK now : now = builder[b]  OBVIOUS
  <2>2. now = [index |-> now.index, text |-> now.text, failures |-> now.failures, keep |-> now.keep, step |-> now.step]
    BY <2>1, BuilderType
  <2> QED  BY <2>1, <2>2
<1>4. builder' = [builder EXCEPT ![b] = [builder[b] EXCEPT !.step = step]]  BY DEF V!BuilderTo
<1> HIDE DEF w
<1>5. builder' = [builder EXCEPT ![b] = w]  BY <1>3, <1>4
<1> QED  BY <1>2, <1>5 DEF w

(* A builder that moves and leaves the file alone. *)
LEMMA BuilderMoves ==
    ASSUME V!ConstantsOK, RecallInv, NEW b \in Builders, NEW w \in Working, builder' = [builder EXCEPT ![b] = w], Grow,
           \A i \in Here : indexes'[i].matrix = indexes[i].matrix,
           current # 0 => indexes'[current].vectors \subseteq vectorCache,
           builder[b].step \notin {"leave", "append", "write", "replace"},
           w.step \notin {"leave", "append", "write", "replace"},
           UNCHANGED <<newest, current, vectorCache, disk, torn, temporary, building, asked, matrixLock, raced>>,
           w.step \in V!Looping <=> builder[b].step \in V!Looping,
           gaveUp' \in BOOLEAN, storeFaults' \in 0..MaxStoreFaults, BuilderOK(b)'
    PROVE  RecallInv'
<1>0. IndexesOK /\ FileHolds /\ CacheHolds /\ RestTyped  BY DEF RecallInv
<1>1. matrixLock' \in [Here -> SUBSET Searches]  BY <1>0, IndexesRead
<1>2. IndexesOK' /\ Here' = Here /\ Len(indexes') = Len(indexes)  BY <1>0, <1>1, GrownIndexes
<1>3. \A a \in Searches : RequestOK(a)'  BY <1>2, RequestsStay
<1>4. \A a \in Builders : BuilderOK(a)'  BY <1>2, OtherBuilders
<1>5. OneLoops'  BY LoopGoesOn
<1>6. CacheHolds'  BY DEF CacheHolds
<1>7. FileHolds'  BY FileStays
<1>8. builder' \in [Builders -> Working]  BY BuilderSet
<1>9. RestTyped'  BY <1>0, <1>8 DEF RestTyped
<1> QED  BY <1>2, <1>3, <1>4, <1>5, <1>6, <1>7, <1>9 DEF RecallInv

(* A builder that looks for a batch. *)
LEMMA NextBatchStep == ASSUME V!ConstantsOK, RecallInv, NEW b \in Builders, V!NextBatch(b) PROVE RecallInv'
<1>0. IndexesOK /\ RestTyped /\ CacheHolds /\ BuilderOK(b) /\ builder[b].step = "next"  BY DEF RecallInv, V!NextBatch
<1>1. current \in Here /\ current # 0 /\ indexes[current] \in Index /\ Len(indexes) \in Nat
  BY <1>0, IndexesRead DEF BuilderOK, V!Looping, IndexesOK, Here
<1> DEFINE rest == indexes[current].pending \ vectorCache
           had  == indexes[current].pending \cap vectorCache
           new  == [snapshot |-> indexes[current].snapshot, pending |-> rest,
                    vectors |-> indexes[current].vectors \cup had, matrix |-> indexes[current].matrix]
<1>2. UNCHANGED <<newest, current, vectorCache, disk, torn, temporary, building, gaveUp, asked, matrixLock, raced, storeFaults>>
  BY DEF V!NextBatch
<1>3. indexes' = [indexes EXCEPT ![current] = new]
  <2>1. PICK old : old = indexes[current]  OBVIOUS
  <2>2. old = [snapshot |-> old.snapshot, pending |-> old.pending, vectors |-> old.vectors, matrix |-> old.matrix]
    BY <1>0, <1>1, <2>1, IndexesRead
  <2>3. [indexes[current] EXCEPT !.pending = rest, !.vectors = indexes[current].vectors \cup had] = new
    <3>1. PICK edited : edited = [old EXCEPT !.pending = rest, !.vectors = old.vectors \cup had]  OBVIOUS
    <3>2. edited = new  BY <2>1, <2>2, <3>1
    <3> HIDE DEF new, rest, had
    <3> QED  BY <2>1, <3>1, <3>2
  <2>4. indexes' = [indexes EXCEPT ![current] = [indexes[current] EXCEPT !.pending = rest,
                                                  !.vectors = indexes[current].vectors \cup had]]
    BY DEF V!NextBatch
  <2> HIDE DEF new
  <2> QED  BY <2>3, <2>4
<1>4. new \in Index  BY <1>1 DEF Index
<1>5. /\ indexes' \in [Here -> Index] /\ indexes'[current] = new
      /\ \A i \in Here : i # current => indexes'[i] = indexes[i]
  <2> HIDE DEF new
  <2> QED  BY <1>0, <1>1, <1>3, <1>4, IndexesRead
<1>6. Grow /\ \A i \in Here : indexes'[i].matrix = indexes[i].matrix
  BY <1>5 DEF Grow
<1>7. indexes'[current].vectors \subseteq vectorCache  BY <1>0, <1>1, <1>5 DEF CacheHolds
<1>8. Here' = Here /\ Len(indexes') = Len(indexes)  BY <1>0, <1>2, <1>6, GrownIndexes, IndexesRead
<1>9. current \in V!Ids  BY <1>0, <1>1 DEF IndexesOK, V!Ids, Here, V!ConstantsOK
<1>10. CASE rest = {} /\ builder' = [builder EXCEPT ![b] = [builder[b] EXCEPT !.step = "done", !.text = {}]]
  <2> DEFINE w == [index |-> builder[b].index, text |-> {}, failures |-> builder[b].failures,
                   keep |-> builder[b].keep, step |-> "done"]
  <2>1. [builder[b] EXCEPT !.step = "done", !.text = {}] = w
    <3>1. PICK old : old = builder[b]  OBVIOUS
    <3>2. old = [index |-> old.index, text |-> old.text, failures |-> old.failures, keep |-> old.keep, step |-> old.step]
      BY <3>1, BuilderType
    <3>3. PICK edited : edited = [old EXCEPT !.step = "done", !.text = {}]  OBVIOUS
    <3>4. edited = w  BY <3>1, <3>2, <3>3
    <3> QED  BY <3>1, <3>3, <3>4
  <2>2. w \in Working  BY BuilderType DEF Working, V!Looping
  <2>3. w.step = "done"  OBVIOUS
  <2>4. builder' = [builder EXCEPT ![b] = w]
    <3> HIDE DEF w
    <3> QED  BY <1>10, <2>1
  <2>5. BuilderOK(b)'
    <3> HIDE DEF w
    <3>1. builder'[b] = w  BY <2>2, <2>4, BuilderSet
    <3> QED  BY <1>1, <1>2, <2>3, <3>1 DEF BuilderOK, V!Looping
  <2> HIDE DEF w, new, rest, had
  <2> QED  BY <1>0, <1>2, <1>6, <1>7, <2>2, <2>3, <2>4, <2>5, BuilderMoves DEF V!Looping, RestTyped
<1>11. CASE \E t \in rest : builder' = [builder EXCEPT ![b] =
                                [builder[b] EXCEPT !.step = "embed", !.index = current, !.text = {t}]]
  <2>1. PICK t \in rest : builder' = [builder EXCEPT ![b] =
                                [builder[b] EXCEPT !.step = "embed", !.index = current, !.text = {t}]]
    BY <1>11
  <2> DEFINE w == [index |-> current, text |-> {t}, failures |-> builder[b].failures,
                   keep |-> builder[b].keep, step |-> "embed"]
  <2>2. [builder[b] EXCEPT !.step = "embed", !.index = current, !.text = {t}] = w
    <3>1. PICK old : old = builder[b]  OBVIOUS
    <3>2. old = [index |-> old.index, text |-> old.text, failures |-> old.failures, keep |-> old.keep, step |-> old.step]
      BY <3>1, BuilderType
    <3>3. PICK edited : edited = [old EXCEPT !.step = "embed", !.index = current, !.text = {t}]  OBVIOUS
    <3>4. edited = w  BY <3>1, <3>2, <3>3
    <3> QED  BY <3>1, <3>3, <3>4
  <2>3. t \in V!Texts /\ t \in Content[indexes[current].snapshot]  BY <1>0, <1>1 DEF Index, IndexesOK, Here
  <2>4. w \in Working  BY <1>9, <2>3, BuilderType DEF Working, V!Looping
  <2>5. builder' = [builder EXCEPT ![b] = w]
    <3> HIDE DEF w
    <3> QED  BY <2>1, <2>2
  <2>6. w.step = "embed" /\ w.index = current /\ w.text = {t} /\ w.failures = builder[b].failures  OBVIOUS
  <2>7. BuilderOK(b)'
    <3> HIDE DEF w
    <3>1. builder'[b] = w  BY <2>4, <2>5, BuilderSet
    <3>2. indexes'[current].snapshot = indexes[current].snapshot  BY <1>1, <1>6 DEF Grow
    <3> QED  BY <1>0, <1>1, <1>2, <1>8, <2>3, <2>6, <3>1, <3>2 DEF BuilderOK, V!Looping
  <2> HIDE DEF w, new, rest, had
  <2> QED  BY <1>0, <1>2, <1>6, <1>7, <2>4, <2>5, <2>6, <2>7, BuilderMoves DEF V!Looping, RestTyped
<1> QED  BY <1>10, <1>11 DEF V!NextBatch

(* A builder that found none reads which index it has completed. *)
LEMMA DoneForStep == ASSUME V!ConstantsOK, RecallInv, NEW b \in Builders, V!DoneFor(b) PROVE RecallInv'
<1>0. IndexesOK /\ RestTyped /\ CacheHolds /\ builder[b].step = "done"  BY DEF RecallInv, V!DoneFor
<1>1. UNCHANGED <<newest, current, vectorCache, disk, torn, temporary, building, gaveUp, asked, matrixLock, raced, storeFaults>>
      /\ UNCHANGED indexes
  BY DEF V!DoneFor
<1>2. Grow /\ \A i \in Here : indexes'[i].matrix = indexes[i].matrix  BY <1>0, <1>1, GrowNot
<1>3. current \in V!Ids \cup {0} /\ current \in 0..Len(indexes) /\ current # 0
  <2>1. current # 0  BY <1>0, BuilderType DEF BuilderOK, V!Looping
  <2>2. Len(indexes) \in Nat /\ current \in 0..Len(indexes) /\ Len(indexes) <= MaxIndexes
    BY <1>0, IndexesRead DEF IndexesOK
  <2> QED  BY <2>1, <2>2 DEF V!Ids, V!ConstantsOK
<1> DEFINE w == [index |-> current, text |-> builder[b].text, failures |-> builder[b].failures,
                 keep |-> builder[b].keep, step |-> "end"]
<1>4. [builder[b] EXCEPT !.step = "end", !.index = current] = w
  <2>1. PICK old : old = builder[b]  OBVIOUS
  <2>2. old = [index |-> old.index, text |-> old.text, failures |-> old.failures, keep |-> old.keep, step |-> old.step]
    BY <2>1, BuilderType
  <2>3. PICK edited : edited = [old EXCEPT !.step = "end", !.index = current]  OBVIOUS
  <2>4. edited = w  BY <2>1, <2>2, <2>3
  <2> QED  BY <2>1, <2>3, <2>4
<1>5. w \in Working  BY <1>3, BuilderType DEF Working, V!Looping
<1>6. w.step = "end" /\ w.index = current  OBVIOUS
<1> HIDE DEF w
<1>7. builder' = [builder EXCEPT ![b] = w]  BY <1>4 DEF V!DoneFor
<1>8. BuilderOK(b)'
  <2>1. builder'[b] = w  BY <1>5, <1>7, BuilderSet
  <2> QED  BY <1>1, <1>3, <1>6, <2>1 DEF BuilderOK, V!Looping
<1> QED  BY <1>0, <1>1, <1>2, <1>5, <1>6, <1>7, <1>8, BuilderMoves DEF V!Looping, RestTyped, CacheHolds

(* A builder whose text is embedded. *)
LEMMA EmbedStep == ASSUME V!ConstantsOK, RecallInv, NEW b \in Builders, V!Embed(b) PROVE RecallInv'
<1>0. IndexesOK /\ RestTyped /\ CacheHolds /\ builder[b].step = "embed"  BY DEF RecallInv, V!Embed
<1>1. UNCHANGED <<newest, current, vectorCache, disk, torn, temporary, building, gaveUp, asked, matrixLock, raced, storeFaults>>
      /\ UNCHANGED indexes
  BY DEF V!Embed
<1>2. Grow /\ \A i \in Here : indexes'[i].matrix = indexes[i].matrix  BY <1>0, <1>1, GrowNot
<1> DEFINE w == [index |-> builder[b].index, text |-> builder[b].text, failures |-> 0,
                 keep |-> builder[b].keep, step |-> "vector"]
<1>4. [builder[b] EXCEPT !.step = "vector", !.failures = 0] = w
  <2>1. PICK old : old = builder[b]  OBVIOUS
  <2>2. old = [index |-> old.index, text |-> old.text, failures |-> old.failures, keep |-> old.keep, step |-> old.step]
    BY <2>1, BuilderType
  <2>3. PICK edited : edited = [old EXCEPT !.step = "vector", !.failures = 0]  OBVIOUS
  <2>4. edited = w  BY <2>1, <2>2, <2>3
  <2> QED  BY <2>1, <2>3, <2>4
<1>5. w \in Working
  <2>1. 0 \in 0..Patience  BY DEF V!ConstantsOK
  <2> QED  BY <2>1, BuilderType DEF Working, V!Looping
<1>6. w.step = "vector" /\ w.index = builder[b].index /\ w.text = builder[b].text /\ w.failures = 0  OBVIOUS
<1> HIDE DEF w
<1>7. builder' = [builder EXCEPT ![b] = w]  BY <1>4 DEF V!Embed
<1>8. BuilderOK(b)'
  <2>1. builder'[b] = w  BY <1>5, <1>7, BuilderSet
  <2> QED  BY <1>0, <1>1, <1>6, <2>1, BuilderType DEF BuilderOK, V!Looping, V!ConstantsOK, Here
<1> QED  BY <1>0, <1>1, <1>2, <1>5, <1>6, <1>7, <1>8, BuilderMoves DEF V!Looping, RestTyped, CacheHolds

(* A builder whose text is not, and which gives up or looks for a batch again. *)
LEMMA EmbedFailsStep == ASSUME V!ConstantsOK, RecallInv, NEW b \in Builders, V!EmbedFails(b) PROVE RecallInv'
<1>0. IndexesOK /\ RestTyped /\ CacheHolds /\ builder[b].step = "embed"  BY DEF RecallInv, V!EmbedFails
<1>1. UNCHANGED <<newest, current, vectorCache, disk, torn, temporary, building, asked, matrixLock, raced>>
      /\ UNCHANGED indexes
  BY DEF V!EmbedFails
<1>2. Grow /\ \A i \in Here : indexes'[i].matrix = indexes[i].matrix  BY <1>0, <1>1, GrowNot
<1>3. storeFaults' \in 0..MaxStoreFaults  BY <1>0 DEF V!EmbedFails, V!Fault, RestTyped, V!ConstantsOK
<1> DEFINE failed == builder[b].failures + 1
<1>4. failed \in 0..Patience /\ current # 0 /\ Len(indexes) \in Nat
  <2>1. builder[b].failures \in Nat
    <3>1. builder[b].failures \in 0..Patience  BY BuilderType DEF Working
    <3> QED  BY <3>1
  <2>2. builder[b].failures < Patience /\ current # 0  BY <1>0, BuilderType DEF BuilderOK, V!Looping
  <2>3. Len(indexes) \in Nat  BY <1>0, IndexesRead
  <2> QED  BY <2>1, <2>2, <2>3 DEF V!ConstantsOK
<1>5. CASE failed >= Patience /\ gaveUp' = TRUE
           /\ builder' = [builder EXCEPT ![b] = [builder[b] EXCEPT !.failures = failed, !.index = 0, !.step = "end"]]
  <2> DEFINE w == [index |-> 0, text |-> builder[b].text, failures |-> failed,
                   keep |-> builder[b].keep, step |-> "end"]
  <2>1. [builder[b] EXCEPT !.failures = failed, !.index = 0, !.step = "end"] = w
    <3>1. PICK old : old = builder[b]  OBVIOUS
    <3>2. old = [index |-> old.index, text |-> old.text, failures |-> old.failures, keep |-> old.keep, step |-> old.step]
      BY <3>1, BuilderType
    <3>3. PICK edited : edited = [old EXCEPT !.failures = failed, !.index = 0, !.step = "end"]  OBVIOUS
    <3>4. edited = w  BY <3>1, <3>2, <3>3
    <3> QED  BY <3>1, <3>3, <3>4
  <2>2. w \in Working  BY <1>4, BuilderType DEF Working, V!Looping
  <2>3. w.step = "end" /\ w.index = 0  OBVIOUS
  <2> HIDE DEF w
  <2>4. builder' = [builder EXCEPT ![b] = w]  BY <1>5, <2>1
  <2>5. BuilderOK(b)'
    <3>1. builder'[b] = w  BY <2>2, <2>4, BuilderSet
    <3> QED  BY <1>1, <1>4, <2>3, <3>1 DEF BuilderOK, V!Looping
  <2> QED  BY <1>0, <1>1, <1>2, <1>3, <1>5, <2>2, <2>3, <2>4, <2>5, BuilderMoves DEF V!Looping, RestTyped, CacheHolds
<1>6. CASE ~(failed >= Patience) /\ gaveUp' = gaveUp
           /\ builder' = [builder EXCEPT ![b] = [builder[b] EXCEPT !.failures = failed, !.step = "next"]]
  <2> DEFINE w == [index |-> builder[b].index, text |-> builder[b].text, failures |-> failed,
                   keep |-> builder[b].keep, step |-> "next"]
  <2>1. [builder[b] EXCEPT !.failures = failed, !.step = "next"] = w
    <3>1. PICK old : old = builder[b]  OBVIOUS
    <3>2. old = [index |-> old.index, text |-> old.text, failures |-> old.failures, keep |-> old.keep, step |-> old.step]
      BY <3>1, BuilderType
    <3>3. PICK edited : edited = [old EXCEPT !.failures = failed, !.step = "next"]  OBVIOUS
    <3>4. edited = w  BY <3>1, <3>2, <3>3
    <3> QED  BY <3>1, <3>3, <3>4
  <2>2. w \in Working  BY <1>4, BuilderType DEF Working, V!Looping
  <2>3. w.step = "next" /\ w.failures < Patience  BY <1>4, <1>6 DEF V!ConstantsOK
  <2> HIDE DEF w
  <2>4. builder' = [builder EXCEPT ![b] = w]  BY <1>6, <2>1
  <2>5. BuilderOK(b)'
    <3>1. builder'[b] = w  BY <2>2, <2>4, BuilderSet
    <3> QED  BY <1>1, <1>4, <2>3, <3>1 DEF BuilderOK, V!Looping
  <2> QED  BY <1>0, <1>1, <1>2, <1>3, <1>6, <2>2, <2>3, <2>4, <2>5, BuilderMoves DEF V!Looping, RestTyped, CacheHolds
<1> QED  BY <1>5, <1>6 DEF V!EmbedFails

-----------------------------------------------------------------------------
(* The rows to come, one by one. *)
LEMMA InComing ==
    /\ \A t : t \in Coming <=> \E a \in Builders : builder[a].step \in {"leave", "append"} /\ t \in builder[a].text
    /\ \A t : t \in Coming' <=> \E a \in Builders : builder'[a].step \in {"leave", "append"} /\ t \in builder'[a].text
  BY DEF Coming

(* A builder that moves, whatever it does to the file. *)
LEMMA BuilderActs ==
    ASSUME V!ConstantsOK, RecallInv, NEW b \in Builders, NEW w \in Working, builder' = [builder EXCEPT ![b] = w], Grow,
           \A i \in Here : indexes'[i].matrix = indexes[i].matrix, UNCHANGED <<current, asked, matrixLock>>,
           OneLoops', CacheHolds', FileHolds', RestTyped', BuilderOK(b)'
    PROVE  RecallInv'
<1>0. IndexesOK  BY DEF RecallInv
<1>1. matrixLock' \in [Here -> SUBSET Searches]  BY <1>0, IndexesRead
<1>2. IndexesOK' /\ Here' = Here /\ Len(indexes') = Len(indexes)  BY <1>0, <1>1, GrownIndexes
<1>3. \A a \in Searches : RequestOK(a)'  BY <1>2, RequestsStay
<1>4. \A a \in Builders : BuilderOK(a)'  BY <1>2, OtherBuilders
<1> QED  BY <1>2, <1>3, <1>4 DEF RecallInv

(* A builder that stores a vector: it is the cache's first, then the index's. *)
LEMMA StoreVectorStep == ASSUME V!ConstantsOK, RecallInv, NEW b \in Builders, V!StoreVector(b) PROVE RecallInv'
<1>0. IndexesOK /\ RestTyped /\ CacheHolds /\ FileHolds /\ BuilderOK(b) /\ builder[b].step = "vector"
  BY DEF RecallInv, V!StoreVector
<1> DEFINE k == builder[b].index
           text == builder[b].text
           new == [snapshot |-> indexes[k].snapshot, pending |-> indexes[k].pending,
                   vectors |-> indexes[k].vectors \cup text, matrix |-> indexes[k].matrix]
<1>1. k \in Here /\ text \subseteq Content[indexes[k].snapshot] /\ text \in SUBSET V!Texts
  BY <1>0, BuilderType DEF BuilderOK, Working
<1>2. UNCHANGED <<newest, current, disk, torn, temporary, building, gaveUp, asked, matrixLock, raced, storeFaults>>
      /\ vectorCache' = vectorCache \cup text /\ V!BuilderTo(b, "leave")
  BY DEF V!StoreVector
<1>3. indexes \in [Here -> Index] /\ indexes[k] \in Index  BY <1>0, <1>1, IndexesRead
<1>4. indexes' = [indexes EXCEPT ![k] = new]
  <2>1. indexes' = [indexes EXCEPT ![k] = [indexes[k] EXCEPT !.vectors = indexes[k].vectors \cup text]]
    BY <1>0 DEF V!StoreVector, V!SetVector, V!Vector
  <2>2. PICK old : old = indexes[k]  OBVIOUS
  <2>3. old = [snapshot |-> old.snapshot, pending |-> old.pending, vectors |-> old.vectors, matrix |-> old.matrix]
    BY <1>0, <1>1, <2>2, IndexesRead
  <2>4. PICK edited : edited = [old EXCEPT !.vectors = old.vectors \cup text]  OBVIOUS
  <2>5. edited = new  BY <2>2, <2>3, <2>4
  <2> HIDE DEF new, text, k
  <2> QED  BY <2>1, <2>2, <2>4, <2>5
<1>5. new \in Index  BY <1>1, <1>3 DEF Index
<1>6. indexes' \in [Here -> Index] /\ indexes'[k] = new /\ \A i \in Here : i # k => indexes'[i] = indexes[i]
  <2> HIDE DEF new, k
  <2> QED  BY <1>1, <1>3, <1>4, <1>5
<1>7. \A i \in Here : indexes'[i].matrix = indexes[i].matrix  BY <1>6
<1>8. Grow
  <2>1. indexes[k].pending \cup indexes[k].vectors = Content[indexes[k].snapshot]  BY <1>0, <1>1 DEF IndexesOK, Here
  <2> QED  BY <1>1, <1>6, <2>1 DEF Grow
<1>9. PICK w \in Working : builder' = [builder EXCEPT ![b] = w]
         /\ w = [index |-> k, text |-> text, failures |-> builder[b].failures, keep |-> builder[b].keep, step |-> "leave"]
  BY <1>2, BuilderStepped DEF V!Looping
<1>10. w.index = k /\ w.text = text /\ w.failures = builder[b].failures /\ w.step = "leave"  BY <1>9
<1>11. builder'[b] = w /\ builder' \in [Builders -> Working] /\ \A a \in Builders : a # b => builder'[a] = builder[a]
  BY <1>9, BuilderSet
<1> HIDE DEF new, k, text
<1>12. OneLoops'  BY <1>0, <1>2, <1>9, <1>10, LoopGoesOn DEF V!Looping
<1>13. CacheHolds'
  <2> SUFFICES ASSUME current # 0  PROVE indexes'[current].vectors \subseteq vectorCache'  BY <1>2 DEF CacheHolds
  <2>1. current \in Here  BY <1>0, IndexesRead DEF IndexesOK, Here
  <2>2. indexes[current].vectors \subseteq vectorCache  BY <1>0 DEF CacheHolds
  <2>3. indexes'[current].vectors \subseteq indexes[current].vectors \cup text  BY <1>6, <2>1 DEF new
  <2> QED  BY <1>2, <2>2, <2>3
<1>14. FileHolds'
  <2> SUFFICES ASSUME ~raced  PROVE FileHolds'  BY <1>2 DEF FileHolds
  <2>1. V!Compacting' = V!Compacting /\ b \notin V!Compacting  BY <1>0, <1>10, <1>11 DEF V!Compacting
  <2>2. Coming \subseteq Coming' /\ text \subseteq Coming'
    <3>1. \A t \in Coming : t \in Coming'
      <4> SUFFICES ASSUME NEW t \in Coming  PROVE t \in Coming'  OBVIOUS
      <4>1. PICK a \in Builders : builder[a].step \in {"leave", "append"} /\ t \in builder[a].text  BY InComing
      <4>2. a # b  BY <1>0, <4>1
      <4> QED  BY <1>11, <4>1, <4>2, InComing
    <3>2. \A t \in text : t \in Coming'  BY <1>10, <1>11, InComing
    <3> QED  BY <3>1, <3>2
  <2>3. \A a \in V!Compacting : builder'[a] = builder[a]  BY <1>11, <2>1 DEF V!Compacting
  <2> QED  BY <1>0, <1>2, <2>1, <2>2, <2>3 DEF FileHolds
<1>15. RestTyped'  BY <1>0, <1>1, <1>2, <1>11 DEF RestTyped
<1>16. Here' = Here /\ Len(indexes') = Len(indexes)  BY <1>0, <1>2, <1>8, GrownIndexes, IndexesRead
<1>17. BuilderOK(b)'
  <2>1. text \subseteq indexes'[k].vectors /\ indexes'[k].snapshot = indexes[k].snapshot  BY <1>6 DEF new
  <2> QED  BY <1>0, <1>1, <1>2, <1>10, <1>11, <1>16, <2>1 DEF BuilderOK, V!Looping
<1> QED  BY <1>2, <1>7, <1>8, <1>9, <1>12, <1>13, <1>14, <1>15, <1>17, BuilderActs

(* A builder whose chunk leaves what is pending. *)
LEMMA LeavePendingStep == ASSUME V!ConstantsOK, RecallInv, NEW b \in Builders, V!LeavePending(b) PROVE RecallInv'
<1>0. IndexesOK /\ RestTyped /\ CacheHolds /\ FileHolds /\ BuilderOK(b) /\ builder[b].step = "leave"
  BY DEF RecallInv, V!LeavePending
<1> DEFINE k == builder[b].index
           text == builder[b].text
           new == [snapshot |-> indexes[k].snapshot, pending |-> indexes[k].pending \ text,
                   vectors |-> indexes[k].vectors, matrix |-> indexes[k].matrix]
<1>1. k \in Here /\ text \subseteq indexes[k].vectors
  BY <1>0 DEF BuilderOK
<1>2. UNCHANGED <<newest, current, vectorCache, disk, torn, temporary, building, gaveUp, asked, matrixLock, raced, storeFaults>>
      /\ V!BuilderTo(b, "append")
  BY DEF V!LeavePending
<1>3. indexes \in [Here -> Index] /\ indexes[k] \in Index  BY <1>0, <1>1, IndexesRead
<1>4. indexes' = [indexes EXCEPT ![k] = new]
  <2>1. indexes' = [indexes EXCEPT ![k] = [indexes[k] EXCEPT !.pending = indexes[k].pending \ text]]
    BY <1>0 DEF V!LeavePending, V!SetVector, V!Pending
  <2>2. PICK old : old = indexes[k]  OBVIOUS
  <2>3. old = [snapshot |-> old.snapshot, pending |-> old.pending, vectors |-> old.vectors, matrix |-> old.matrix]
    BY <1>0, <1>1, <2>2, IndexesRead
  <2>4. PICK edited : edited = [old EXCEPT !.pending = old.pending \ text]  OBVIOUS
  <2>5. edited = new  BY <2>2, <2>3, <2>4
  <2> HIDE DEF new, text, k
  <2> QED  BY <2>1, <2>2, <2>4, <2>5
<1>5. new \in Index  BY <1>1, <1>3 DEF Index
<1>6. indexes' \in [Here -> Index] /\ indexes'[k] = new /\ \A i \in Here : i # k => indexes'[i] = indexes[i]
  <2> HIDE DEF new, k
  <2> QED  BY <1>1, <1>3, <1>4, <1>5
<1>7. \A i \in Here : indexes'[i].matrix = indexes[i].matrix /\ indexes'[i].vectors = indexes[i].vectors
  BY <1>6
<1>8. Grow  BY <1>1, <1>6 DEF Grow
<1>9. PICK w \in Working : builder' = [builder EXCEPT ![b] = w]
         /\ w = [index |-> k, text |-> text, failures |-> builder[b].failures, keep |-> builder[b].keep, step |-> "append"]
  BY <1>2, BuilderStepped DEF V!Looping
<1>10. w.index = k /\ w.text = text /\ w.failures = builder[b].failures /\ w.step = "append"  BY <1>9
<1>11. builder'[b] = w /\ builder' \in [Builders -> Working] /\ \A a \in Builders : a # b => builder'[a] = builder[a]
  BY <1>9, BuilderSet
<1>12. OneLoops'  BY <1>0, <1>2, <1>9, <1>10, LoopGoesOn DEF V!Looping
<1>13. CacheHolds'
  <2>1. current # 0 => current \in Here  BY <1>0, IndexesRead DEF IndexesOK, Here
  <2> QED  BY <1>0, <1>2, <1>7, <2>1 DEF CacheHolds
<1>14. FileHolds'
  <2>1. V!Compacting' = V!Compacting /\ b \notin V!Compacting  BY <1>0, <1>10, <1>11 DEF V!Compacting
  <2>2. Coming' = Coming
    <3>1. \A a \in Builders : /\ builder'[a].step \in {"leave", "append"} <=> builder[a].step \in {"leave", "append"}
                              /\ builder'[a].text = builder[a].text
      BY <1>0, <1>10, <1>11
    <3> QED  BY <3>1, InComing
  <2>3. \A a \in V!Compacting : builder'[a] = builder[a]  BY <1>11, <2>1 DEF V!Compacting
  <2> QED  BY <1>0, <1>2, <2>1, <2>2, <2>3 DEF FileHolds
<1>15. RestTyped'  BY <1>0, <1>2, <1>11 DEF RestTyped
<1>17. BuilderOK(b)'  BY <1>0, <1>2, <1>10, <1>11 DEF BuilderOK, V!Looping
<1> HIDE DEF new, k, text
<1> QED  BY <1>2, <1>7, <1>8, <1>9, <1>12, <1>13, <1>14, <1>15, <1>17, BuilderActs

(* Steps that leave the indexes as they are. *)
LEMMA IndexesStay ==
    ASSUME RecallInv, UNCHANGED indexes
    PROVE  Grow /\ \A i \in Here : indexes'[i].matrix = indexes[i].matrix
  BY GrowNot DEF RecallInv

(* A builder that appends its row. *)
LEMMA AppendRowStep == ASSUME V!ConstantsOK, RecallInv, NEW b \in Builders, V!AppendRow(b) PROVE RecallInv'
<1>0. IndexesOK /\ RestTyped /\ CacheHolds /\ FileHolds /\ BuilderOK(b) /\ builder[b].step = "append"
  BY DEF RecallInv, V!AppendRow
<1>1. UNCHANGED <<newest, indexes, current, vectorCache, temporary, building, gaveUp, asked, matrixLock>>
      /\ V!BuilderTo(b, "next")
  BY DEF V!AppendRow
<1>2. builder[b].text \in SUBSET V!Texts  BY BuilderType DEF Working
<1>3. Grow /\ \A i \in Here : indexes'[i].matrix = indexes[i].matrix  BY <1>1, IndexesStay
<1>4. PICK w \in Working : builder' = [builder EXCEPT ![b] = w]
         /\ w = [index |-> builder[b].index, text |-> builder[b].text, failures |-> builder[b].failures,
                 keep |-> builder[b].keep, step |-> "next"]
  BY <1>1, BuilderStepped DEF V!Looping
<1>5. w.failures = builder[b].failures /\ w.step = "next"  BY <1>4
<1>6. builder'[b] = w /\ builder' \in [Builders -> Working] /\ \A a \in Builders : a # b => builder'[a] = builder[a]
  BY <1>4, BuilderSet
<1>7. OneLoops'  BY <1>0, <1>1, <1>4, <1>5, LoopGoesOn DEF V!Looping
<1>8. CacheHolds'  BY <1>0, <1>1 DEF CacheHolds
<1>9. BuilderOK(b)'  BY <1>0, <1>1, <1>5, <1>6 DEF BuilderOK, V!Looping
<1>10. CASE /\ disk' = IF torn THEN disk ELSE disk \cup builder[b].text
            /\ torn' = FALSE /\ raced' = (raced \/ torn \/ V!Compacting # {}) /\ UNCHANGED storeFaults
  <2>1. disk' \in SUBSET V!Texts  BY <1>0, <1>2, <1>10 DEF RestTyped
  <2>2. RestTyped'  BY <1>0, <1>1, <1>6, <1>10, <2>1 DEF RestTyped
  <2>3. FileHolds'
    <3> SUFFICES ASSUME ~raced'  PROVE FileHolds'  BY DEF FileHolds
    <3>1. ~raced /\ ~torn /\ V!Compacting = {}  BY <1>0, <1>10 DEF RestTyped
    <3>2. V!Compacting' = {}  BY <1>5, <1>6, <3>1 DEF V!Compacting
    <3>3. Coming \subseteq Coming' \cup builder[b].text
      <4> SUFFICES ASSUME NEW t \in Coming, t \notin builder[b].text  PROVE t \in Coming'  OBVIOUS
      <4>1. PICK a \in Builders : builder[a].step \in {"leave", "append"} /\ t \in builder[a].text  BY InComing
      <4> QED  BY <1>6, <4>1, InComing
    <3>4. disk' = disk \cup builder[b].text  BY <1>10, <3>1
    <3> QED  BY <1>0, <1>1, <3>1, <3>2, <3>3, <3>4 DEF FileHolds
  <2> QED  BY <1>1, <1>3, <1>4, <1>7, <1>8, <1>9, <2>2, <2>3, BuilderActs
<1>11. CASE V!Fault /\ raced' = TRUE /\ UNCHANGED <<disk, torn>>
  <2>1. RestTyped'  BY <1>0, <1>1, <1>6, <1>11 DEF RestTyped, V!Fault, V!ConstantsOK
  <2>2. FileHolds'  BY <1>11 DEF FileHolds
  <2> QED  BY <1>1, <1>3, <1>4, <1>7, <1>8, <1>9, <2>1, <2>2, BuilderActs
<1> QED  BY <1>10, <1>11 DEF V!AppendRow

(* A builder at rest. *)
LEMMA RestingWorks == ASSUME V!ConstantsOK PROVE V!Resting \in Working /\ V!Resting.step = "off" /\ V!Resting.failures = 0
  BY DEF V!Resting, Working, V!ConstantsOK

(* A builder that ends lowers the flag, and goes on to compact what it completed. *)
LEMMA EndBuildStep == ASSUME V!ConstantsOK, RecallInv, NEW b \in Builders, V!EndBuild(b) PROVE RecallInv'
<1>0. IndexesOK /\ RestTyped /\ CacheHolds /\ OneLoops /\ BuilderOK(b) /\ builder[b].step = "end"
  BY DEF RecallInv, V!EndBuild
<1>1. UNCHANGED <<newest, indexes, current, vectorCache, disk, torn, temporary, gaveUp, asked, matrixLock, raced, storeFaults>>
      /\ building' = FALSE
  BY DEF V!EndBuild
<1>2. Grow /\ \A i \in Here : indexes'[i].matrix = indexes[i].matrix  BY <1>1, IndexesStay
<1>3. CacheHolds'  BY <1>0, <1>1 DEF CacheHolds
<1>4. ASSUME NEW w \in Working, builder' = [builder EXCEPT ![b] = w], w.step \in {"keep", "off"}, BuilderOK(b)'
      PROVE  RecallInv'
  <2>1. builder'[b] = w /\ builder' \in [Builders -> Working] /\ \A a \in Builders : a # b => builder'[a] = builder[a]
    BY <1>4, BuilderSet
  <2>2. OneLoops'
    <3>1. \A a \in Builders : builder'[a].step \notin V!Looping
      <4>1. builder[b].step \in V!Looping /\ w.step \notin V!Looping  BY <1>0, <1>4 DEF V!Looping
      <4> QED  BY <1>0, <2>1, <4>1 DEF OneLoops
    <3> QED  BY <1>1, <3>1 DEF OneLoops
  <2>3. FileHolds'  BY <1>0, <1>1, <1>4, FileStays
  <2>4. RestTyped'  BY <1>0, <1>1, <2>1 DEF RestTyped
  <2> QED  BY <1>1, <1>2, <1>3, <1>4, <2>2, <2>3, <2>4, BuilderActs
<1>5. CASE builder[b].index # 0 /\ builder' = [builder EXCEPT ![b].step = "keep"]
  <2>1. V!BuilderTo(b, "keep")  BY <1>5 DEF V!BuilderTo
  <2>2. PICK w \in Working : builder' = [builder EXCEPT ![b] = w]
         /\ w = [index |-> builder[b].index, text |-> builder[b].text, failures |-> builder[b].failures,
                 keep |-> builder[b].keep, step |-> "keep"]
    BY <2>1, BuilderStepped
  <2>3. w.step = "keep" /\ w.index = builder[b].index  BY <2>2
  <2>4. builder[b].index \in Here
    <3>1. builder[b].index \in 0..Len(indexes) /\ Len(indexes) \in Nat  BY <1>0, IndexesRead DEF BuilderOK
    <3> QED  BY <1>5, <3>1 DEF Here
  <2>5. builder'[b] = w  BY <2>2, BuilderSet
  <2>6. BuilderOK(b)'  BY <1>1, <2>3, <2>4, <2>5 DEF BuilderOK, V!Looping, Here
  <2> QED  BY <1>4, <2>2, <2>3, <2>6
<1>6. CASE builder' = [builder EXCEPT ![b] = V!Resting]
  <2>1. builder'[b] = V!Resting  BY <1>6, BuilderSet, RestingWorks
  <2>2. BuilderOK(b)'  BY <2>1, RestingWorks DEF BuilderOK, V!Looping, V!ConstantsOK
  <2> QED  BY <1>4, <1>6, <2>2, RestingWorks
<1> QED  BY <1>5, <1>6 DEF V!EndBuild

(* A builder that drops from the cache what its index, the current one, does not need. *)
LEMMA KeepStep == ASSUME V!ConstantsOK, RecallInv, NEW b \in Builders, V!Keep(b) PROVE RecallInv'
<1>0. IndexesOK /\ RestTyped /\ CacheHolds /\ FileHolds /\ BuilderOK(b) /\ builder[b].step = "keep"
  BY DEF RecallInv, V!Keep
<1>1. UNCHANGED <<newest, indexes, current, disk, torn, temporary, building, gaveUp, asked, matrixLock, storeFaults>>
  BY DEF V!Keep
<1>2. Grow /\ \A i \in Here : indexes'[i].matrix = indexes[i].matrix  BY <1>1, IndexesStay
<1> DEFINE keep == Content[indexes[builder[b].index].snapshot] \cap vectorCache
<1>3. CASE builder[b].index = current /\ vectorCache' = keep /\ raced' = (raced \/ V!Compacting # {})
           /\ builder' = [builder EXCEPT ![b] = [builder[b] EXCEPT !.step = "write", !.keep = keep]]
  <2> DEFINE w == [index |-> builder[b].index, text |-> builder[b].text, failures |-> builder[b].failures,
                   keep |-> keep, step |-> "write"]
  <2>1. [builder[b] EXCEPT !.step = "write", !.keep = keep] = w
    <3>1. PICK old : old = builder[b]  OBVIOUS
    <3>2. old = [index |-> old.index, text |-> old.text, failures |-> old.failures, keep |-> old.keep, step |-> old.step]
      BY <3>1, BuilderType
    <3>3. PICK edited : edited = [old EXCEPT !.step = "write", !.keep = keep]  OBVIOUS
    <3>4. edited = [index |-> old.index, text |-> old.text, failures |-> old.failures, keep |-> keep, step |-> "write"]
      <4> HIDE DEF keep
      <4> QED  BY <3>2, <3>3
    <3> HIDE DEF keep
    <3> QED  BY <3>1, <3>3, <3>4
  <2>2. keep \in SUBSET V!Texts  BY <1>0 DEF RestTyped
  <2>3. w \in Working
    <3> HIDE DEF keep
    <3> QED  BY <2>2, BuilderType DEF Working
  <2>4. w.step = "write" /\ w.keep = keep  OBVIOUS
  <2>5. builder' = [builder EXCEPT ![b] = w]
    <3> HIDE DEF w, keep
    <3> QED  BY <1>3, <2>1
  <2> HIDE DEF w
  <2>6. builder'[b] = w /\ builder' \in [Builders -> Working] /\ \A a \in Builders : a # b => builder'[a] = builder[a]
    BY <2>3, <2>5, BuilderSet
  <2>7. OneLoops'  BY <1>0, <1>1, <2>4, <2>5, LoopGoesOn DEF V!Looping
  <2>8. CacheHolds'
    <3>1. current \in Here  BY <1>0, <1>3 DEF BuilderOK
    <3>2. indexes[current].vectors \subseteq Content[indexes[current].snapshot]  BY <1>0, <3>1 DEF IndexesOK, Here
    <3> QED  BY <1>0, <1>1, <1>3, <3>2 DEF CacheHolds
  <2>9. FileHolds'
    <3> SUFFICES ASSUME ~raced'  PROVE FileHolds'  BY DEF FileHolds
    <3>1. ~raced /\ V!Compacting = {}  BY <1>0, <1>3 DEF RestTyped
    <3>2. V!Compacting' = {b}  BY <2>4, <2>6, <3>1 DEF V!Compacting
    <3>3. Coming' = Coming
      <4>1. \A a \in Builders : /\ builder'[a].step \in {"leave", "append"} <=> builder[a].step \in {"leave", "append"}
                                /\ builder[a].step \in {"leave", "append"} => builder'[a].text = builder[a].text
        BY <1>0, <2>4, <2>6
      <4> QED  BY <4>1, InComing
    <3>4. vectorCache' \subseteq vectorCache /\ vectorCache' = keep /\ vectorCache \subseteq disk \cup Coming  BY <1>0, <1>3, <3>1 DEF FileHolds
    <3> HIDE DEF keep
    <3> QED  BY <1>1, <2>4, <2>6, <3>2, <3>3, <3>4 DEF FileHolds
  <2>10. RestTyped'
    <3> HIDE DEF keep
    <3> QED  BY <1>0, <1>1, <1>3, <2>2, <2>6 DEF RestTyped
  <2>11. BuilderOK(b)'  BY <2>4, <2>6 DEF BuilderOK, V!Looping
  <2> HIDE DEF keep
  <2> QED  BY <1>1, <1>2, <2>3, <2>5, <2>7, <2>8, <2>9, <2>10, <2>11, BuilderActs
<1>4. CASE builder' = [builder EXCEPT ![b] = V!Resting] /\ UNCHANGED <<vectorCache, raced>>
  <2>1. builder'[b] = V!Resting /\ builder' \in [Builders -> Working]  BY <1>4, BuilderSet, RestingWorks
  <2>2. BuilderOK(b)'  BY <2>1, RestingWorks DEF BuilderOK, V!Looping, V!ConstantsOK
  <2>3. OneLoops'  BY <1>0, <1>1, <1>4, RestingWorks, LoopGoesOn DEF V!Looping
  <2>4. CacheHolds'  BY <1>0, <1>1, <1>4 DEF CacheHolds
  <2>5. FileHolds'  BY <1>0, <1>1, <1>4, RestingWorks, FileStays
  <2>6. RestTyped'  BY <1>0, <1>1, <1>4, <2>1 DEF RestTyped
  <2> QED  BY <1>1, <1>2, <1>4, <2>2, <2>3, <2>4, <2>5, <2>6, RestingWorks, BuilderActs
<1> QED  BY <1>3, <1>4 DEF V!Keep, V!Keeps

(* A builder that writes the file to be. *)
LEMMA WriteTemporaryStep == ASSUME V!ConstantsOK, RecallInv, NEW b \in Builders, V!WriteTemporary(b) PROVE RecallInv'
<1>0. IndexesOK /\ RestTyped /\ CacheHolds /\ FileHolds /\ BuilderOK(b) /\ builder[b].step = "write"
  BY DEF RecallInv, V!WriteTemporary
<1>1. UNCHANGED <<newest, indexes, current, vectorCache, disk, torn, building, gaveUp, asked, matrixLock>>
  BY DEF V!WriteTemporary
<1>2. Grow /\ \A i \in Here : indexes'[i].matrix = indexes[i].matrix  BY <1>1, IndexesStay
<1>3. CacheHolds'  BY <1>0, <1>1 DEF CacheHolds
<1>4. CASE temporary' = [there |-> TRUE, texts |-> builder[b].keep] /\ V!BuilderTo(b, "replace") /\ UNCHANGED <<storeFaults, raced>>
  <2>1. PICK w \in Working : builder' = [builder EXCEPT ![b] = w]
         /\ w = [index |-> builder[b].index, text |-> builder[b].text, failures |-> builder[b].failures,
                 keep |-> builder[b].keep, step |-> "replace"]
    BY <1>4, BuilderStepped
  <2>2. w.keep = builder[b].keep /\ w.step = "replace"  BY <2>1
  <2>3. builder'[b] = w /\ builder' \in [Builders -> Working] /\ \A a \in Builders : a # b => builder'[a] = builder[a]
    BY <2>1, BuilderSet
  <2>4. OneLoops'  BY <1>0, <1>1, <2>1, <2>2, LoopGoesOn DEF V!Looping
  <2>5. FileHolds'
    <3> SUFFICES ASSUME ~raced  PROVE FileHolds'  BY <1>4 DEF FileHolds
    <3>1. b \in V!Compacting /\ V!Compacting = {b} /\ vectorCache \subseteq builder[b].keep \cup Coming
      BY <1>0 DEF FileHolds, V!Compacting
    <3>2. V!Compacting' = {b}  BY <2>2, <2>3, <3>1 DEF V!Compacting
    <3>3. Coming' = Coming
      <4>1. \A a \in Builders : /\ builder'[a].step \in {"leave", "append"} <=> builder[a].step \in {"leave", "append"}
                                /\ builder[a].step \in {"leave", "append"} => builder'[a].text = builder[a].text
        BY <1>0, <2>2, <2>3
      <4> QED  BY <4>1, InComing
    <3> QED  BY <1>0, <1>1, <1>4, <2>2, <2>3, <3>1, <3>2, <3>3 DEF FileHolds
  <2>6. RestTyped'
    <3>1. builder[b].keep \in SUBSET V!Texts  BY BuilderType DEF Working
    <3>2. temporary' \in [there: BOOLEAN, texts: SUBSET V!Texts]  BY <1>4, <3>1
    <3> QED  BY <1>0, <1>1, <1>4, <2>3, <3>2 DEF RestTyped
  <2>7. BuilderOK(b)'  BY <2>2, <2>3 DEF BuilderOK, V!Looping
  <2> QED  BY <1>1, <1>2, <1>3, <2>1, <2>4, <2>5, <2>6, <2>7, BuilderActs
<1>5. CASE V!Fault /\ raced' = TRUE /\ builder' = [builder EXCEPT ![b] = V!Resting] /\ UNCHANGED temporary
  <2>1. builder'[b] = V!Resting /\ builder' \in [Builders -> Working]  BY <1>5, BuilderSet, RestingWorks
  <2>2. BuilderOK(b)'  BY <2>1, RestingWorks DEF BuilderOK, V!Looping, V!ConstantsOK
  <2>3. OneLoops'  BY <1>0, <1>1, <1>5, RestingWorks, LoopGoesOn DEF V!Looping
  <2>4. FileHolds'  BY <1>5 DEF FileHolds
  <2>5. RestTyped'  BY <1>0, <1>1, <1>5, <2>1 DEF RestTyped, V!Fault, V!ConstantsOK
  <2> QED  BY <1>1, <1>2, <1>3, <1>5, <2>2, <2>3, <2>4, <2>5, RestingWorks, BuilderActs
<1> QED  BY <1>4, <1>5 DEF V!WriteTemporary

(* A builder that replaces the file. *)
LEMMA ReplaceStep == ASSUME V!ConstantsOK, RecallInv, NEW b \in Builders, V!Replace(b) PROVE RecallInv'
<1>0. IndexesOK /\ RestTyped /\ CacheHolds /\ FileHolds /\ BuilderOK(b) /\ builder[b].step = "replace"
  BY DEF RecallInv, V!Replace
<1>1. UNCHANGED <<newest, indexes, current, vectorCache, building, gaveUp, asked, matrixLock, raced, storeFaults>>
      /\ temporary' = V!NoFile /\ builder' = [builder EXCEPT ![b] = V!Resting]
  BY DEF V!Replace
<1>2. temporary.there => disk' = temporary.texts /\ torn' = FALSE  BY DEF V!Replace
<1>3. ~temporary.there => UNCHANGED <<disk, torn>>  BY DEF V!Replace
<1>4. Grow /\ \A i \in Here : indexes'[i].matrix = indexes[i].matrix  BY <1>1, IndexesStay
<1>5. CacheHolds'  BY <1>0, <1>1 DEF CacheHolds
<1>6. builder'[b] = V!Resting /\ builder' \in [Builders -> Working] /\ \A a \in Builders : a # b => builder'[a] = builder[a]
  BY <1>1, BuilderSet, RestingWorks
<1>7. BuilderOK(b)'  BY <1>6, RestingWorks DEF BuilderOK, V!Looping, V!ConstantsOK
<1>8. OneLoops'  BY <1>0, <1>1, RestingWorks, LoopGoesOn DEF V!Looping
<1>9. RestTyped'
  <2>1. disk' \in SUBSET V!Texts /\ torn' \in BOOLEAN  BY <1>0, <1>2, <1>3 DEF RestTyped
  <2>2. temporary' \in [there: BOOLEAN, texts: SUBSET V!Texts]  BY <1>1 DEF V!NoFile
  <2> QED  BY <1>0, <1>1, <1>6, <2>1, <2>2 DEF RestTyped
<1>10. FileHolds'
  <2> SUFFICES ASSUME ~raced  PROVE FileHolds'  BY <1>1 DEF FileHolds
  <2>1. /\ b \in V!Compacting /\ V!Compacting = {b} /\ vectorCache \subseteq builder[b].keep \cup Coming
        /\ temporary = [there |-> TRUE, texts |-> builder[b].keep]
    BY <1>0 DEF FileHolds, V!Compacting
  <2>2. disk' = builder[b].keep
    <3>1. temporary.there /\ temporary.texts = builder[b].keep  BY <2>1
    <3> QED  BY <1>2, <3>1
  <2>3. V!Compacting' = {}  BY <1>6, <2>1, RestingWorks DEF V!Compacting
  <2>4. Coming' = Coming
    <3>1. \A a \in Builders : /\ builder'[a].step \in {"leave", "append"} <=> builder[a].step \in {"leave", "append"}
                              /\ builder[a].step \in {"leave", "append"} => builder'[a].text = builder[a].text
      BY <1>0, <1>6, RestingWorks
    <3> QED  BY <3>1, InComing
  <2> QED  BY <1>1, <2>1, <2>2, <2>3, <2>4 DEF FileHolds
<1> QED  BY <1>1, <1>4, <1>5, <1>7, <1>8, <1>9, <1>10, RestingWorks, BuilderActs

-----------------------------------------------------------------------------
(* A pull makes a snapshot and touches nothing of the store. *)
LEMMA PullStep == ASSUME V!ConstantsOK, RecallInv, V!Pull PROVE RecallInv'
<1>0. IndexesOK /\ RestTyped /\ OneLoops /\ CacheHolds /\ FileHolds  BY DEF RecallInv
<1>1. UNCHANGED <<indexes, current, vectorCache, disk, torn, temporary, building, gaveUp, asked, builder,
                  matrixLock, raced, storeFaults>>
  BY DEF V!Pull
<1>2. newest' \in V!Snapshots
  <2>1. Len(Content) \in Nat /\ DOMAIN Content = 1..Len(Content)  BY LenProperties DEF V!ConstantsOK
  <2> QED  BY <1>0, <2>1 DEF V!Pull, RestTyped, V!Snapshots
<1>3. IndexesOK'  BY <1>0, <1>1 DEF IndexesOK
<1>4. OneLoops' /\ CacheHolds' /\ FileHolds'
  BY <1>0, <1>1 DEF OneLoops, CacheHolds, FileHolds, V!Compacting, Coming
<1>5. RestTyped'  BY <1>0, <1>1, <1>2 DEF RestTyped
<1>6. \A r \in Searches : RequestOK(r)'  BY <1>1 DEF RecallInv, RequestOK, Here
<1>7. \A b \in Builders : BuilderOK(b)'  BY <1>1 DEF RecallInv, BuilderOK, Here
<1> QED  BY <1>3, <1>4, <1>5, <1>6, <1>7 DEF RecallInv

(* A store with nothing running: as it starts, and after a restart. *)
LEMMA NewStore ==
    ASSUME V!ConstantsOK,
           indexes' = <<>>, current' = 0, matrixLock' = <<>>, building' = FALSE,
           asked' = [r \in Searches |-> V!AtRest], builder' = [b \in Builders |-> V!Resting],
           vectorCache' = disk', RestTyped'
    PROVE  RecallInv'
<1>1. Len(<<>>) = 0 /\ <<>> \in Seq(Index) /\ <<>> \in Seq(SUBSET Searches)  BY EmptySeq
<1>2. IndexesOK'  BY <1>1 DEF IndexesOK, V!ConstantsOK, Index, V!Snapshots, V!Texts
<1>3. \A r \in Searches : RequestOK(r)'
  <2> SUFFICES ASSUME NEW r \in Searches  PROVE RequestOK(r)'  OBVIOUS
  <2>1. asked'[r].step = "idle"  BY DEF V!AtRest
  <2> QED  BY <2>1 DEF RequestOK
<1>4. \A b \in Builders : BuilderOK(b)'
  <2> SUFFICES ASSUME NEW b \in Builders  PROVE BuilderOK(b)'  OBVIOUS
  <2>1. builder'[b].step = "off" /\ builder'[b].failures = 0  BY DEF V!Resting
  <2> QED  BY <2>1 DEF BuilderOK, V!Looping, V!ConstantsOK
<1>5. OneLoops'
  <2>1. \A b \in Builders : builder'[b].step \notin V!Looping  BY DEF V!Resting, V!Looping
  <2> QED  BY <2>1 DEF OneLoops
<1>6. CacheHolds'  BY DEF CacheHolds
<1>7. FileHolds'
  <2>1. V!Compacting' = {}  BY DEF V!Compacting, V!Resting
  <2> QED  BY <2>1 DEF FileHolds
<1> QED  BY <1>2, <1>3, <1>4, <1>5, <1>6, <1>7 DEF RecallInv

(* The invariant holds of a new store. *)
LEMMA RecallInit ==
    ASSUME V!ConstantsOK, V!Init PROVE RecallInv
<1>0. Len(Content) \in Nat /\ DOMAIN Content = 1..Len(Content) /\ Len(Content) > 0
  BY LenProperties, EmptySeq DEF V!ConstantsOK
<1>1. Len(<<>>) = 0 /\ <<>> \in Seq(Index) /\ <<>> \in Seq(SUBSET Searches)  BY EmptySeq
<1>2. IndexesOK  BY <1>1 DEF IndexesOK, V!ConstantsOK, V!Init
<1>3. \A r \in Searches : RequestOK(r)
  <2> SUFFICES ASSUME NEW r \in Searches  PROVE RequestOK(r)  OBVIOUS
  <2>1. asked[r].step = "idle"  BY DEF V!AtRest, V!Init
  <2> QED  BY <2>1 DEF RequestOK
<1>4. \A b \in Builders : BuilderOK(b)
  <2> SUFFICES ASSUME NEW b \in Builders  PROVE BuilderOK(b)  OBVIOUS
  <2>1. builder[b].step = "off" /\ builder[b].failures = 0  BY DEF V!Resting, V!Init
  <2> QED  BY <2>1 DEF BuilderOK, V!Looping, V!ConstantsOK
<1>5. OneLoops
  <2>1. \A b \in Builders : builder[b].step \notin V!Looping  BY DEF V!Resting, V!Looping, V!Init
  <2> QED  BY <2>1 DEF OneLoops, V!Init
<1>6. CacheHolds  BY DEF CacheHolds, V!Init
<1>7. FileHolds
  <2>1. V!Compacting = {}  BY DEF V!Compacting, V!Resting, V!Init
  <2> QED  BY <2>1 DEF FileHolds, V!Init
<1>8. V!AtRest \in Asking  BY <1>0 DEF V!AtRest, Asking
<1>9. RestTyped
  <2>1. asked \in [Searches -> Asking] /\ builder \in [Builders -> Working]
    BY <1>8, RestingWorks DEF V!Init
  <2>2. newest \in V!Snapshots /\ temporary \in [there: BOOLEAN, texts: SUBSET V!Texts] /\ storeFaults \in 0..MaxStoreFaults
    BY <1>0 DEF V!Init, V!Snapshots, V!NoFile, V!ConstantsOK
  <2> QED  BY <2>1, <2>2 DEF RestTyped, V!Init
<1> QED  BY <1>2, <1>3, <1>4, <1>5, <1>6, <1>7, <1>9 DEF RecallInv

(* A restart loads the file. *)
LEMMA RestartStep == ASSUME V!ConstantsOK, RecallInv, V!Restart PROVE RecallInv'
<1>0. RestTyped  BY DEF RecallInv
<1>1. /\ indexes' = <<>> /\ current' = 0 /\ matrixLock' = <<>> /\ building' = FALSE /\ gaveUp' = FALSE
      /\ asked' = [r \in Searches |-> V!AtRest] /\ builder' = [b \in Builders |-> V!Resting]
      /\ vectorCache' = disk /\ raced' = FALSE /\ UNCHANGED <<newest, disk, temporary>>
  BY DEF V!Restart
<1>2. V!AtRest \in Asking
  <2>1. Len(Content) \in Nat  BY LenProperties DEF V!ConstantsOK
  <2> QED  BY <2>1 DEF V!AtRest, Asking
<1>3. torn' \in BOOLEAN
  <2>1. torn' = torn \/ torn' = (torn \/ \E b \in Builders : builder[b].step = "append")  BY DEF V!Restart
  <2> QED  BY <1>0, <2>1, Zenon DEF RestTyped
<1>4. storeFaults' \in 0..MaxStoreFaults  BY <1>0 DEF V!Restart, V!Fault, RestTyped, V!ConstantsOK
<1>5. RestTyped'  BY <1>0, <1>1, <1>2, <1>3, <1>4, RestingWorks DEF RestTyped
<1> QED  BY <1>1, <1>5, NewStore

(* A request that asks for the index of its snapshot: the last one, or a new one, which becomes  *)
(* the last; and a builder is started where none runs.                                            *)
LEMMA EnsureStep == ASSUME V!ConstantsOK, RecallInv, NEW r \in Searches, V!Ensure(r) PROVE RecallInv'
<1>0. IndexesOK /\ RestTyped /\ OneLoops /\ CacheHolds /\ FileHolds /\ RequestOK(r) /\ asked[r].step = "ensure"
  BY DEF RecallInv, V!Ensure
<1> DEFINE s     == asked[r].snapshot
           same == current # 0 /\ indexes[current].snapshot = s
           index == IF same THEN indexes[current] ELSE V!NewIndex(s)
           i     == IF same THEN current ELSE Len(indexes) + 1
           step  == IF r \in Warmers THEN "idle" ELSE "rank"
<1>1. /\ i <= MaxIndexes /\ current' = i
      /\ indexes' = IF same THEN indexes ELSE Append(indexes, index)
      /\ matrixLock' = IF same THEN matrixLock ELSE Append(matrixLock, {})
      /\ asked' = [asked EXCEPT ![r] = [asked[r] EXCEPT !.index = i, !.step = step]]
      /\ UNCHANGED <<newest, vectorCache, disk, torn, temporary, raced, storeFaults>>
  BY DEF V!Ensure
<1>2. IF V!Starts(index, r)
      THEN \E b \in Builders : /\ builder[b].step = "off" /\ builder' = [builder EXCEPT ![b].step = "next"]
                               /\ building' = TRUE /\ gaveUp' = FALSE
      ELSE UNCHANGED <<builder, building, gaveUp>>
  BY DEF V!Ensure
<1>3. s \in V!Snapshots /\ Len(indexes) \in Nat /\ indexes \in Seq(Index) /\ matrixLock \in Seq(SUBSET Searches)
      /\ Len(matrixLock) = Len(indexes) /\ current \in 0..Len(indexes)
  BY <1>0, IndexesRead DEF RequestOK, IndexesOK
(* The indexes there were are there as they were, and the current one has its vectors in the cache. *)
<1>4. /\ IndexesOK' /\ Here \subseteq Here' /\ Len(indexes) <= Len(indexes') /\ i \in Here' /\ i # 0
      /\ \A k \in Here : indexes'[k] = indexes[k] /\ matrixLock'[k] = matrixLock[k]
      /\ indexes'[i].vectors \subseteq vectorCache
  <2>1. CASE same
    <3>1. indexes' = indexes /\ matrixLock' = matrixLock /\ current' = current /\ i = current  BY <1>1, <2>1
    <3>2. current \in Here /\ current # 0  BY <1>3, <2>1 DEF Here
    <3>3. IndexesOK' /\ Here' = Here  BY <1>0, <3>1 DEF IndexesOK, Here
    <3> HIDE DEF i, same
    <3> QED  BY <1>0, <1>3, <3>1, <3>2, <3>3 DEF CacheHolds
  <2>2. CASE ~same
    <3> DEFINE new == V!NewIndex(s)
    <3>1. indexes' = Append(indexes, new) /\ matrixLock' = Append(matrixLock, {}) /\ i = Len(indexes) + 1
      BY <1>1, <2>2
    <3>2. new \in Index /\ new.vectors \subseteq vectorCache /\ new.pending \cup new.vectors = Content[new.snapshot]
      <4>1. Content[s] \subseteq V!Texts  BY <1>3 DEF V!Texts
      <4> QED  BY <1>3, <4>1 DEF Index, V!NewIndex
    <3> HIDE DEF new
    <3>3. /\ indexes' \in Seq(Index) /\ Len(indexes') = Len(indexes) + 1 /\ indexes'[Len(indexes) + 1] = new
          /\ \A k \in 1..Len(indexes) : indexes'[k] = indexes[k]
      BY <1>3, <3>1, <3>2, AppendProperties
    <3>4. /\ matrixLock' \in Seq(SUBSET Searches) /\ Len(matrixLock') = Len(indexes) + 1
          /\ \A k \in 1..Len(indexes) : matrixLock'[k] = matrixLock[k]
      <4>1. {} \in SUBSET Searches  OBVIOUS
      <4> QED  BY <1>3, <3>1, <4>1, AppendProperties
    <3>5. current' = Len(indexes) + 1 /\ Len(indexes) + 1 <= MaxIndexes  BY <1>1, <3>1
    <3>6. \A k \in 1..Len(indexes') : indexes'[k].pending \cup indexes'[k].vectors = Content[indexes'[k].snapshot]
      <4> SUFFICES ASSUME NEW k \in 1..(Len(indexes) + 1)
                   PROVE  indexes'[k].pending \cup indexes'[k].vectors = Content[indexes'[k].snapshot]
        BY <3>3
      <4>1. CASE k = Len(indexes) + 1  BY <3>2, <3>3, <4>1
      <4>2. CASE k \in 1..Len(indexes)  BY <1>0, <3>3, <4>2 DEF IndexesOK
      <4> QED  BY <1>3, <4>1, <4>2
    <3>7. IndexesOK'
      BY <1>3, <3>3, <3>4, <3>5, <3>6 DEF IndexesOK, Index, V!Snapshots, V!Texts
    <3>8. Here \subseteq Here' /\ i \in Here' /\ i # 0  BY <1>3, <3>1, <3>3 DEF Here
    <3> HIDE DEF i, same, index
    <3> QED  BY <1>3, <3>1, <3>2, <3>3, <3>4, <3>7, <3>8 DEF Here
  <2> QED  BY <2>1, <2>2
<1>5. i \in V!Ids
  <2>1. Len(indexes') \in Nat /\ MaxIndexes \in Nat  BY <1>4, LenProperties DEF IndexesOK, V!ConstantsOK
  <2> HIDE DEF i
  <2> QED  BY <1>1, <1>4, <2>1 DEF V!Ids, Here
<1> DEFINE q == [snapshot |-> s, index |-> i, step |-> step]
<1>6. q \in Asking /\ q.step \in {"idle", "rank"} /\ q.index = i
  <2> HIDE DEF i
  <2> QED  BY <1>5, RequestType DEF Asking
<1>7. [asked[r] EXCEPT !.index = i, !.step = step] = q
  <2>1. PICK old : old = asked[r]  OBVIOUS
  <2>2. old = [snapshot |-> old.snapshot, index |-> old.index, step |-> old.step]  BY <2>1, RequestType
  <2> HIDE DEF i, step
  <2>3. PICK edited : edited = [old EXCEPT !.index = i, !.step = step]  OBVIOUS
  <2>4. edited = q  BY <2>1, <2>2, <2>3
  <2> QED  BY <2>1, <2>3, <2>4
<1> HIDE DEF q, i, step, same, index
<1>8. asked' = [asked EXCEPT ![r] = q]  BY <1>1, <1>7
<1>9. asked' \in [Searches -> Asking] /\ asked'[r] = q /\ \A a \in Searches : a # r => asked'[a] = asked[a]
  BY <1>0, <1>6, <1>8 DEF RestTyped
<1>10. \A a \in Searches : RequestOK(a)'
  <2> SUFFICES ASSUME NEW a \in Searches  PROVE RequestOK(a)'  OBVIOUS
  <2>1. CASE a = r  BY <1>4, <1>6, <1>9, <2>1 DEF RequestOK
  <2>2. CASE a # r
    <3>1. RequestOK(a) /\ asked'[a] = asked[a]  BY <1>9, <2>2 DEF RecallInv
    <3> QED  BY <1>4, <3>1 DEF RequestOK
  <2> QED  BY <2>1, <2>2
<1>11. CacheHolds'  BY <1>1, <1>4 DEF CacheHolds
<1>12. \A a \in Builders : BuilderOK(a) /\ builder'[a] = builder[a] => BuilderOK(a)'
  <2> SUFFICES ASSUME NEW a \in Builders, BuilderOK(a), builder'[a] = builder[a]  PROVE BuilderOK(a)'  OBVIOUS
  <2>1. \A k \in 0..Len(indexes) : k \in 0..Len(indexes')
    <3>1. Len(indexes') \in Nat  BY <1>4, LenProperties DEF IndexesOK
    <3> QED  BY <1>3, <1>4, <3>1
  <2> QED  BY <1>1, <1>4, <2>1 DEF BuilderOK, Here
<1>13. CASE UNCHANGED <<builder, building, gaveUp>>
  <2>1. \A b \in Builders : BuilderOK(b)'  BY <1>12, <1>13 DEF RecallInv
  <2>2. OneLoops' /\ FileHolds'  BY <1>0, <1>1, <1>13 DEF OneLoops, FileHolds, V!Compacting, Coming
  <2>3. RestTyped'  BY <1>0, <1>1, <1>9, <1>13 DEF RestTyped
  <2> QED  BY <1>4, <1>10, <1>11, <2>1, <2>2, <2>3 DEF RecallInv
<1>14. CASE /\ ~building
            /\ \E b \in Builders : /\ builder[b].step = "off" /\ builder' = [builder EXCEPT ![b].step = "next"]
                                   /\ building' = TRUE /\ gaveUp' = FALSE
  <2>1. PICK b \in Builders : /\ builder[b].step = "off" /\ builder' = [builder EXCEPT ![b].step = "next"]
                              /\ building' = TRUE /\ gaveUp' = FALSE
    BY <1>14
  <2>2. PICK w \in Working : builder' = [builder EXCEPT ![b] = w]
         /\ w = [index |-> builder[b].index, text |-> builder[b].text, failures |-> builder[b].failures,
                 keep |-> builder[b].keep, step |-> "next"]
    BY <2>1, BuilderStepped DEF V!BuilderTo, V!Looping
  <2>3. w.failures = builder[b].failures /\ w.step = "next"  BY <2>2
  <2>4. builder'[b] = w /\ builder' \in [Builders -> Working] /\ \A a \in Builders : a # b => builder'[a] = builder[a]
    BY <2>2, BuilderSet
  <2>5. BuilderOK(b)'
    <3>1. builder[b].failures < Patience  BY <2>1, BuilderType DEF BuilderOK
    <3> QED  BY <1>1, <1>4, <2>3, <2>4, <3>1 DEF BuilderOK, V!Looping
  <2>6. \A a \in Builders : BuilderOK(a)'  BY <1>12, <2>4, <2>5 DEF RecallInv
  <2>7. OneLoops'
    <3>1. \A a \in Builders : builder[a].step \notin V!Looping  BY <1>0, <1>14 DEF OneLoops
    <3>2. \A a \in Builders : builder'[a].step \in V!Looping <=> a = b  BY <2>3, <2>4, <3>1 DEF V!Looping
    <3> QED  BY <2>1, <3>2 DEF OneLoops
  <2>8. FileHolds'  BY <1>1, <2>1, <2>2, <2>3, FileStays
  <2>9. RestTyped'  BY <1>0, <1>1, <1>9, <2>1, <2>4 DEF RestTyped
  <2> QED  BY <1>4, <1>10, <1>11, <2>6, <2>7, <2>8, <2>9 DEF RecallInv
<1> QED  BY <1>2, <1>13, <1>14 DEF V!Starts

-----------------------------------------------------------------------------
(* Every step keeps the invariant. *)
LEMMA RecallNext == ASSUME V!ConstantsOK, RecallInv, [V!Next]_(V!vars) PROVE RecallInv'
<1>1. CASE UNCHANGED V!vars
  <2>0. IndexesOK /\ RestTyped /\ OneLoops /\ CacheHolds /\ FileHolds  BY DEF RecallInv
  <2>1. UNCHANGED <<newest, indexes, current, vectorCache, disk, torn, temporary, building, gaveUp, asked, builder,
                    matrixLock, raced, storeFaults>>
    BY <1>1 DEF V!vars
  <2>2. IndexesOK' /\ RestTyped'  BY <2>0, <2>1 DEF IndexesOK, RestTyped
  <2>3. OneLoops' /\ CacheHolds' /\ FileHolds'
    BY <2>0, <2>1 DEF OneLoops, CacheHolds, FileHolds, V!Compacting, Coming
  <2>4. \A r \in Searches : RequestOK(r)'  BY <2>1 DEF RecallInv, RequestOK, Here
  <2>5. \A b \in Builders : BuilderOK(b)'  BY <2>1 DEF RecallInv, BuilderOK, Here
  <2> QED  BY <2>2, <2>3, <2>4, <2>5 DEF RecallInv
<1>2. ASSUME NEW r \in Searches,
             \/ V!Arrive(r) \/ V!Ensure(r) \/ V!Rank(r) \/ V!Answer(r)
             \/ V!LockMatrix(r) \/ V!SetOwners(r) \/ V!SetMatrix(r) \/ V!UnlockMatrix(r)
      PROVE  RecallInv'
  BY <1>2, SearchArrives, EnsureStep, RankStep, AnswerStep, LockMatrixStep, SetOwnersStep, SetMatrixStep,
     UnlockMatrixStep
<1>3. ASSUME NEW b \in Builders,
             \/ V!NextBatch(b) \/ V!DoneFor(b) \/ V!Embed(b) \/ V!EmbedFails(b) \/ V!StoreVector(b) \/ V!LeavePending(b)
             \/ V!AppendRow(b) \/ V!EndBuild(b) \/ V!Keep(b) \/ V!WriteTemporary(b) \/ V!Replace(b)
      PROVE  RecallInv'
  BY <1>3, NextBatchStep, DoneForStep, EmbedStep, EmbedFailsStep, StoreVectorStep, LeavePendingStep,
     AppendRowStep, EndBuildStep, KeepStep, WriteTemporaryStep, ReplaceStep
<1> QED  BY <1>1, <1>2, <1>3, PullStep, RestartStep DEF V!Next

(* What the invariant says of a store. *)
LEMMA RecallSafe == ASSUME V!ConstantsOK, RecallInv PROVE V!RecallWhole
<1>0. IndexesOK /\ RestTyped /\ OneLoops /\ CacheHolds /\ FileHolds  BY DEF RecallInv
<1>1. V!TypeOK
  <2>1. \A i \in DOMAIN indexes :
           /\ indexes[i] \in [snapshot: V!Snapshots, pending: SUBSET V!Texts, vectors: SUBSET V!Texts,
                              matrix: {"none", "owners", "ready"}]
           /\ matrixLock[i] \subseteq Searches
    BY <1>0, IndexesRead DEF Index
  <2> QED  BY <1>0, <2>1 DEF V!TypeOK, IndexesOK, RestTyped, Asking, Working
<1>2. V!AnswersWhole
  <2> SUFFICES ASSUME NEW r \in Searches, asked[r].step \in {"matrix", "owners", "rows", "unlock", "hybrid"}
               PROVE  /\ V!Of(r).vectors = Content[V!Of(r).snapshot]
                      /\ asked[r].step = "hybrid" => V!Of(r).matrix = "ready"
    BY DEF V!AnswersWhole
  <2>1. /\ asked[r].index \in Here /\ V!Of(r).pending = {}
        /\ asked[r].step = "hybrid" => V!Of(r).matrix = "ready"
    BY DEF RecallInv, RequestOK, V!Of
  <2> QED  BY <1>0, <2>1 DEF IndexesOK, Here, V!Of
<1>3. V!OneBuilder
  <2> DEFINE looping == {b \in Builders : builder[b].step \in V!Looping}
  <2>1. Cardinality(looping) <= 1
    <3>1. CASE looping = {}  BY <3>1, FS_EmptySet
    <3>2. CASE looping # {}
      <4>1. PICK b \in looping : TRUE  BY <3>2
      <4>2. looping = {b}  BY <1>0, <4>1 DEF OneLoops
      <4> QED  BY <4>2, FS_Singleton
    <3> QED  BY <3>1, <3>2
  <2>2. building <=> looping # {}  BY <1>0 DEF OneLoops
  <2>3. V!Cardinality(looping) = Cardinality(looping)  BY DEF V!Cardinality, Cardinality
  <2> QED  BY <2>1, <2>2, <2>3 DEF V!OneBuilder
<1>4. V!CurrentIsKept
  <2> SUFFICES ASSUME current # 0
               PROVE  /\ indexes[current].vectors \subseteq vectorCache
                      /\ ~raced /\ (\A b \in Builders : builder[b].step = "off") => vectorCache \subseteq disk
    BY <1>0 DEF V!CurrentIsKept
  <2>1. indexes[current].vectors \subseteq vectorCache  BY <1>0 DEF CacheHolds
  <2>2. ASSUME ~raced, \A b \in Builders : builder[b].step = "off"  PROVE vectorCache \subseteq disk
    BY <1>0, <2>2, InComing DEF FileHolds
  <2> QED  BY <2>1, <2>2
<1> QED  BY <1>1, <1>2, <1>3, <1>4 DEF V!RecallWhole

(* The store answers by meaning only with a whole index, builds once at a time and keeps what it  *)
(* built: for any snapshots, requests, builders, failures and restarts (service/vectors.py).      *)
THEOREM RecallIsWhole == ASSUME V!ConstantsOK PROVE V!Spec => []V!RecallWhole
<1>1. V!ConstantsOK  OBVIOUS
<1> QED  BY <1>1, RecallInit, RecallNext, RecallSafe, PTL DEF V!Spec

-----------------------------------------------------------------------------
(* The watchdog: what a card announced and nobody fixed is still there, so *)
(* the check it is of finds it again or could not read.                    *)

(* A job of the writer, as the watchdog reads it. *)
JobRecord == [kind: {"ingest", "audit"}, title: Titles, parent: 0..MaxMoves,
              status: {"queued", "running", "done", "failed"}, at: W!Hours, corrupt: BOOLEAN]

(* The types, with no more jobs than moves, and a cursor that was stale no later than it was read. *)
WatchTypes ==
    /\ hour \in W!Hours /\ moves \in 0..MaxMoves /\ faults \in 0..MaxFaults
    /\ records \in Seq(JobRecord) /\ Len(records) <= moves
    /\ undone \subseteq DOMAIN records
    /\ items \in [W!Items -> [status: {"absent", "ready", "needs_human", "curated"}, since: W!Hours,
                              member: BOOLEAN, corrupt: BOOLEAN]]
    /\ \A i \in W!Items : items[i].corrupt => items[i].status # "absent"
    /\ cursor \in [updated: 0..W!Never, stale: 0..W!Never]
    /\ cursor.updated # W!Never => cursor.updated <= hour
    /\ cursor.stale # W!Never => cursor.updated # W!Never /\ cursor.stale <= cursor.updated
    /\ lease \in [run: 0..W!Never, acquired: W!Hours, renewed: W!Hours]
    /\ source \in [status: {"done", "pending", "needs_repair"}, since: W!Hours]
    /\ shift \in [id: 0..MaxMoves, since: W!Hours, status: {"running", "done", "failed"}, closed: BOOLEAN]

(* What a check finds for as long as nobody fixes it. *)
FailedStill(j) == j \in DOMAIN records /\ records[j].status = "failed" /\ ~W!Retried(j)
GivenUp(i)     == i \in W!Items /\ (items[i].corrupt \/ items[i].status = "needs_human")
HeldLong       == W!LeaseShown /\ W!Age(lease.acquired) > Stuck
Behind         == cursor.stale # W!Never /\ W!CursorStale # {}

(* The problem p is there, and nobody has taken it in hand. *)
Unfixed(p) ==
    \/ \E j \in DOMAIN records : p = <<"job", j>> /\ FailedStill(j)
    \/ \E i \in W!Items : p = <<"item", i>> /\ GivenUp(i)
    \/ p = <<"lease", lease.run>> /\ HeldLong
    \/ p = <<"source", 0>> /\ source.status = "needs_repair"
    \/ p = <<"shift", shift.id>> /\ shift.status = "failed" /\ ~shift.closed
    \/ p = <<"repo", 0>> /\ Behind

(* A card names one size of the backlog. *)
OneBacklog(keys) == \A k, l \in W!Backlogs(keys) : k = l /\ k[3] = ""

(* What has been announced and fixed by nobody is still there: this is why a pass that saves what *)
(* it announced covers it.                                                                        *)
CardsInv ==
    /\ WatchTypes
    /\ previous \subseteq W!Keys /\ told \subseteq W!Keys /\ forgot \in BOOLEAN
    /\ \A p \in known : Unfixed(p)
    /\ OneBacklog(previous)
    /\ W!NothingReadsAsFixed /\ W!EverythingTold

(* What a problem is named by, one kind of key at a time. *)
LEMMA ProblemIs ==
    ASSUME NEW k
    PROVE  /\ k[1] = "job_failed" => W!Problem(k) = <<"job", k[2]>>
           /\ k[1] \in {"maint_item_corrupt", "maint_needs_human"} => W!Problem(k) = <<"item", k[2]>>
           /\ k[1] = "maint_lease_stuck" => W!Problem(k) = <<"lease", k[2]>>
           /\ k[1] = "ledger_needs_repair" => W!Problem(k) = <<"source", 0>>
           /\ k[1] = "latest_run_failed" => W!Problem(k) = <<"shift", k[2]>>
           /\ k[1] = "maint_cursor_stale" =>
                W!Problem(k) = IF cursor.stale # W!Never THEN <<"repo", 0>> ELSE <<"none", 0>>
           /\ k[1] \notin {"job_failed", "maint_item_corrupt", "maint_needs_human", "maint_lease_stuck",
                           "ledger_needs_repair", "latest_run_failed", "maint_cursor_stale"} =>
                W!Problem(k) = <<"none", 0>>
  BY DEF W!Problem

(* A step of the world: the cards stay as they are, and what is known and unfixed is still there. *)
LEMMA WorldKeeps ==
    ASSUME W!ConstantsOK, CardsInv, WatchTypes', hour' >= hour,
           UNCHANGED <<previous, told, forgot>>, known' \subseteq known,
           \A p \in known' : Unfixed(p)',
           \A j \in DOMAIN records : records[j].status = "failed" => records'[j].at = records[j].at
    PROVE  CardsInv'
<1>1. previous' \subseteq W!Keys /\ told' \subseteq W!Keys /\ forgot' \in BOOLEAN  BY DEF CardsInv
<1>2. OneBacklog(previous)' /\ W!EverythingTold'
  BY DEF CardsInv, OneBacklog, W!Backlogs, W!EverythingTold
<1>3. W!NothingReadsAsFixed'
  <2> SUFFICES ASSUME ~forgot, NEW p \in known'
               PROVE  \/ \E k \in told : W!Problem(k)' = p \/ k = <<"error", 0, W!CheckOf(p)>>
                      \/ p[1] = "job" /\ (hour' - records'[p[2]].at > Unresolved)
    BY DEF W!NothingReadsAsFixed, W!CheckOf, W!Age
  <2>1. Unfixed(p) /\ Unfixed(p)'  BY DEF CardsInv
  <2>2. CASE \E k \in told : W!Problem(k) = p \/ k = <<"error", 0, W!CheckOf(p)>>
    <3>1. PICK k \in told : W!Problem(k) = p \/ k = <<"error", 0, W!CheckOf(p)>>  BY <2>2
    <3>2. CASE k = <<"error", 0, W!CheckOf(p)>>  BY <3>2
    <3>3. CASE W!Problem(k) = p
      <4>1. p # <<"none", 0>>  BY <2>1 DEF Unfixed
      <4>2. CASE k[1] # "maint_cursor_stale"
        <5>1. W!Problem(k)' = W!Problem(k)  BY <4>2 DEF W!Problem
        <5> QED  BY <3>3, <5>1
      <4>3. CASE k[1] = "maint_cursor_stale"
        <5>1. p = <<"repo", 0>>  BY <3>3, <4>1, <4>3, ProblemIs
        <5>2. cursor'.stale # W!Never  BY <2>1, <5>1 DEF Unfixed, Behind, W!Never
        <5>3. W!Problem(k)' = <<"repo", 0>>  BY <4>3, <5>2 DEF W!Problem, W!Never
        <5> QED  BY <5>1, <5>3
      <4> QED  BY <4>2, <4>3
    <3> QED  BY <3>1, <3>2, <3>3
  <2>3. CASE p[1] = "job" /\ (hour - records[p[2]].at > Unresolved)
    <3>1. PICK j \in DOMAIN records : p = <<"job", j>> /\ FailedStill(j)  BY <2>1, <2>3 DEF Unfixed
    <3>2. records'[p[2]].at = records[p[2]].at  BY <3>1 DEF FailedStill
    <3>3. records[j] \in JobRecord
      <4>1. records \in Seq(JobRecord)  BY DEF CardsInv, WatchTypes
      <4> QED  BY <3>1, <4>1, ElementOfSeq
    <3>4. records[p[2]].at \in Int  BY <3>1, <3>3 DEF JobRecord, W!Hours
    <3>5. hour \in Int /\ hour' \in Int  BY DEF CardsInv, WatchTypes, W!Hours
    <3>6. Unresolved \in Int  BY DEF W!ConstantsOK
    <3> QED  BY <2>3, <3>2, <3>4, <3>5, <3>6
  <2> QED  BY <2>2, <2>3 DEF CardsInv, W!NothingReadsAsFixed, W!Age
<1> QED  BY <1>1, <1>2, <1>3 DEF CardsInv

(* The limits and the bounds are numbers. *)
LEMMA NumbersAre ==
    ASSUME W!ConstantsOK
    PROVE  /\ MaxItems \in Nat /\ FailedWindow \in Nat /\ Unresolved \in Nat /\ Stuck \in Nat /\ ReadyMax \in Nat
           /\ MemberMax \in Nat /\ CursorMax \in Nat /\ PendingMax \in Nat /\ TTL \in Nat /\ MaxHour \in Nat
           /\ MaxMoves \in Nat /\ MaxFaults \in Nat
           /\ 0 \in W!Hours /\ W!Never \in Nat /\ W!Never = MaxHour + 1
  BY DEF W!ConstantsOK, W!Hours, W!Never

(* What the types say of the numbers. *)
LEMMA RangesAre ==
    ASSUME W!ConstantsOK, WatchTypes
    PROVE  /\ hour \in Nat /\ hour <= MaxHour /\ hour + 1 \in 0..W!Never /\ hour \in W!Hours
           /\ moves \in Nat /\ moves <= MaxMoves /\ faults \in Nat /\ faults <= MaxFaults
           /\ cursor.updated \in Nat /\ cursor.stale \in Nat
           /\ lease.acquired \in Nat /\ lease.renewed \in Nat /\ lease.run \in Nat /\ shift.id \in 0..MaxMoves
           /\ Len(records) \in Nat
<1>1. hour \in 0..MaxHour /\ moves \in 0..MaxMoves /\ faults \in 0..MaxFaults  BY DEF WatchTypes, W!Hours
<1>2. lease.acquired \in Nat /\ lease.renewed \in Nat /\ lease.run \in Nat  BY DEF WatchTypes, W!Hours
<1>3. cursor.updated \in Nat /\ cursor.stale \in Nat  BY DEF WatchTypes
<1>4. hour + 1 \in 0..W!Never /\ hour \in W!Hours  BY <1>1, NumbersAre DEF W!Hours
<1> QED  BY <1>1, <1>2, <1>3, <1>4, NumbersAre DEF WatchTypes

(* A job that is known stays unfixed, and nothing else moved. *)
LEMMA JobStays ==
    ASSUME NEW p, Unfixed(p), UNCHANGED <<items, lease, source, shift, cursor, hour>>,
           \A j \in DOMAIN records : p = <<"job", j>> /\ FailedStill(j) => FailedStill(j)'
    PROVE  Unfixed(p)'
<1>1. CASE \E j \in DOMAIN records : p = <<"job", j>> /\ FailedStill(j)
  <2>1. PICK j \in DOMAIN records : p = <<"job", j>> /\ FailedStill(j)  BY <1>1
  <2>2. FailedStill(j)'  BY <2>1
  <2>3. j \in DOMAIN records'  BY <2>2 DEF FailedStill
  <2> QED  BY <2>1, <2>2, <2>3 DEF Unfixed
<1>2. CASE ~\E j \in DOMAIN records : p = <<"job", j>> /\ FailedStill(j)
  BY <1>2 DEF Unfixed, GivenUp, HeldLong, W!LeaseShown, W!Age, Behind, W!CursorStale, W!CursorAt, W!Least
<1> QED  BY <1>1, <1>2

(* At first nothing is there and nothing was announced. *)
LEMMA CardsStart == ASSUME W!ConstantsOK, W!Init PROVE CardsInv
<1>1. WatchTypes
  <2>1. records \in Seq(JobRecord) /\ Len(records) = 0  BY DEF W!Init
  <2> QED  BY <2>1 DEF W!Init, W!ConstantsOK, WatchTypes, W!Hours, W!Never, W!Items
<1>2. OneBacklog(previous)  BY DEF W!Init, OneBacklog, W!Backlogs
<1> QED  BY <1>1, <1>2 DEF W!Init, CardsInv, W!NothingReadsAsFixed, W!EverythingTold

(* One more job: what it retries is no longer known. *)
LEMMA SubmitKeeps ==
    ASSUME W!ConstantsOK, CardsInv, NEW kind \in {"ingest", "audit"}, NEW title \in Titles,
           NEW parent \in 0..MaxMoves, W!Submit(kind, title, parent)
    PROVE  CardsInv'
<1> DEFINE new == [kind |-> kind, title |-> title, parent |-> parent, status |-> "queued", at |-> hour,
               corrupt |-> FALSE]
<1>1. WatchTypes  BY DEF CardsInv
<1>2. new \in JobRecord  BY <1>1 DEF WatchTypes, JobRecord
<1>3. /\ records \in Seq(JobRecord) /\ records' = Append(records, new)
      /\ records' \in Seq(JobRecord) /\ Len(records') = Len(records) + 1
      /\ DOMAIN records = 1..Len(records) /\ DOMAIN records' = 1..(Len(records) + 1)
      /\ \A j \in DOMAIN records : records'[j] = records[j]
      /\ records'[Len(records) + 1] = new
  BY <1>1, <1>2 DEF WatchTypes, W!Submit
<1>4. WatchTypes'
  <2>1. Len(records') <= moves' /\ moves' \in 0..MaxMoves
    <3>1. moves' = moves + 1 /\ moves < MaxMoves  BY DEF W!Submit, W!Moves
    <3>2. moves \in 0..MaxMoves /\ Len(records) <= moves /\ Len(records) \in Nat
      BY <1>1, <1>3 DEF WatchTypes
    <3>3. MaxMoves \in Nat /\ moves \in Nat  BY <1>1, NumbersAre, RangesAre
    <3>4. moves' \in 0..MaxMoves  BY <3>1, <3>3
    <3> QED  BY <1>3, <3>1, <3>2, <3>3, <3>4
  <2>2. undone' \subseteq DOMAIN records'  BY <1>1, <1>3 DEF W!Submit, WatchTypes
  <2> QED  BY <1>1, <1>3, <2>1, <2>2 DEF W!Submit, W!Moves, W!Follows, WatchTypes, W!Hours, W!Never
<1>5. ASSUME NEW p \in known'  PROVE Unfixed(p)'
  <2>1. p \in known /\ Unfixed(p)  BY DEF W!Submit, W!Moves, W!Follows, CardsInv
  <2>2. ASSUME NEW j \in DOMAIN records, p = <<"job", j>>, FailedStill(j)
        PROVE  FailedStill(j)'
    <3>1. ~(/\ records[j].kind = kind
            /\ IF kind = "ingest" THEN records[j].title = title ELSE records[j].parent = parent)
      BY <2>2 DEF W!Submit, W!Moves, W!Follows
    <3>2. \A k \in W!Legible' : k > j => ~(W!Resolves(k, j)' /\ records'[k].status # "failed")
      <4> SUFFICES ASSUME NEW k \in W!Legible', k > j, W!Resolves(k, j)', records'[k].status # "failed"
                   PROVE  FALSE
        OBVIOUS
      <4>1. CASE k \in DOMAIN records
        BY <1>3, <2>2, <4>1 DEF FailedStill, W!Retried, W!Resolves, W!Legible
      <4>2. CASE k \notin DOMAIN records
        <5>1. k = Len(records) + 1  BY <1>3, <4>2 DEF W!Legible
        <5>2. records'[k] = new /\ records'[j] = records[j]  BY <1>3, <5>1
        <5> QED  BY <3>1, <5>2 DEF W!Resolves
      <4> QED  BY <4>1, <4>2
    <3>3. records'[j] = records[j] /\ j \in DOMAIN records' /\ undone' = undone
      BY <1>3 DEF W!Submit
    <3> QED  BY <2>2, <3>2, <3>3 DEF FailedStill, W!Retried, W!Legible
  <2>3. UNCHANGED <<items, lease, source, shift, cursor, hour>>  BY DEF W!Submit, W!Moves, W!Follows
  <2> QED  BY <1>3, <2>1, <2>2, <2>3, JobStays
<1>6. UNCHANGED <<hour, previous, told, forgot>> /\ known' \subseteq known
  BY DEF W!Submit, W!Moves, W!Follows
<1>7. hour' >= hour  BY <1>1, <1>6 DEF WatchTypes, W!Hours
<1> QED  BY <1>3, <1>4, <1>5, <1>6, <1>7, WorldKeeps

(* A job that moves was under way: it was no failure, and retries what it did. *)
LEMMA JobMovesKeeps ==
    ASSUME W!ConstantsOK, CardsInv, NEW j \in DOMAIN records, NEW status \in {"running", "done", "failed"},
           W!JobMoves(j, status)
    PROVE  CardsInv'
<1>1. WatchTypes  BY DEF CardsInv
<1>2. records \in Seq(JobRecord) /\ DOMAIN records = 1..Len(records)  BY <1>1 DEF WatchTypes
<1>3. records[j] \in JobRecord /\ hour \in W!Hours  BY <1>1, <1>2, ElementOfSeq DEF WatchTypes
<1>4. /\ records' \in Seq(JobRecord) /\ Len(records') = Len(records) /\ DOMAIN records' = DOMAIN records
      /\ \A k \in DOMAIN records : k # j => records'[k] = records[k]
      /\ records'[j].kind = records[j].kind /\ records'[j].title = records[j].title
      /\ records'[j].parent = records[j].parent /\ records'[j].corrupt = records[j].corrupt
      /\ records[j].status \in {"queued", "running"}
  <2> DEFINE moved == [records[j] EXCEPT !.status = status, !.at = IF status = "done" THEN 0 ELSE hour]
  <2>1. moved \in JobRecord  BY <1>3, NumbersAre DEF JobRecord
  <2>2. records' = [records EXCEPT ![j] = moved]  BY <1>2, <1>3 DEF W!JobMoves, JobRecord
  <2>3. records' \in Seq(JobRecord) /\ Len(records') = Len(records)  BY <1>2, <2>1, <2>2, ExceptSeq
  <2>4. records'[j] = moved /\ DOMAIN records' = DOMAIN records  BY <2>2
  <2> QED  BY <1>3, <2>2, <2>3, <2>4 DEF W!JobMoves, JobRecord
<1>5. WatchTypes'
  <2>1. undone' \subseteq DOMAIN records' /\ Len(records') <= moves'
    BY <1>1, <1>4 DEF W!JobMoves, WatchTypes
  <2> QED  BY <1>1, <1>4, <2>1 DEF W!JobMoves, W!Follows, WatchTypes, W!Hours, W!Never
<1>6. ASSUME NEW p \in known'  PROVE Unfixed(p)'
  <2>1. p \in known /\ Unfixed(p)  BY DEF W!JobMoves, W!Follows, CardsInv
  <2>2. ASSUME NEW n \in DOMAIN records, p = <<"job", n>>, FailedStill(n)
        PROVE  FailedStill(n)'
    <3>1. n # j /\ records'[n] = records[n] /\ undone' = undone  BY <1>4, <2>2 DEF FailedStill, W!JobMoves
    <3>2. \A k \in DOMAIN records : W!Resolves(k, n)' <=> W!Resolves(k, n)
      BY <1>4, <3>1 DEF W!Resolves
    <3>3. \A k \in DOMAIN records : records'[k].status # "failed" => records[k].status # "failed"
      BY <1>4
    <3>4. W!Legible' = W!Legible  BY <1>4 DEF W!Legible
    <3> QED  BY <1>4, <2>2, <3>1, <3>2, <3>3, <3>4 DEF FailedStill, W!Retried, W!Legible
  <2>3. UNCHANGED <<items, lease, source, shift, cursor, hour>>  BY DEF W!JobMoves, W!Follows
  <2> QED  BY <1>3, <2>1, <2>2, <2>3, JobStays
<1>7. UNCHANGED <<hour, previous, told, forgot>> /\ known' \subseteq known
  BY DEF W!JobMoves, W!Follows
<1>8. hour' >= hour  BY <1>1, <1>7 DEF WatchTypes, W!Hours
<1>9. \A k \in DOMAIN records : records[k].status = "failed" => records'[k] = records[k]  BY <1>4
<1> QED  BY <1>5, <1>6, <1>7, <1>8, <1>9, WorldKeeps

(* The revert of a job: what judged it is no longer known. *)
LEMMA RevertKeeps ==
    ASSUME W!ConstantsOK, CardsInv, NEW j \in DOMAIN records, W!Revert(j)
    PROVE  CardsInv'
<1>1. WatchTypes  BY DEF CardsInv
<1>2. WatchTypes'  BY <1>1 DEF W!Revert, W!Follows, WatchTypes, W!Hours, W!Never
<1>3. UNCHANGED <<records, items, lease, source, shift, cursor, hour, previous, told, forgot>> /\ known' \subseteq known
  BY DEF W!Revert, W!Follows
<1>4. ASSUME NEW p \in known'  PROVE Unfixed(p)'
  <2>1. p \in known /\ Unfixed(p)  BY <1>3 DEF CardsInv
  <2>2. ASSUME NEW n \in DOMAIN records, p = <<"job", n>>, FailedStill(n)
        PROVE  FailedStill(n)'
    <3>1. records[n].parent # j /\ undone' = undone \cup {j}  BY <2>2 DEF W!Revert, W!Follows
    <3> QED  BY <1>3, <2>2, <3>1 DEF FailedStill, W!Retried, W!Resolves, W!Legible
  <2> QED  BY <1>3, <2>1, <2>2, JobStays
<1>5. hour' >= hour  BY <1>1, <1>3 DEF WatchTypes, W!Hours
<1> QED  BY <1>2, <1>3, <1>4, <1>5, WorldKeeps

(* A damaged record hides what it retried, and one restored brings that back: what a pass announced *)
(* meanwhile is no longer known.                                                                    *)
LEMMA DamagedKeeps ==
    ASSUME W!ConstantsOK, CardsInv, NEW j \in DOMAIN records, W!RecordDamaged(j)
    PROVE  CardsInv'
<1>1. WatchTypes  BY DEF CardsInv
<1>2. records \in Seq(JobRecord) /\ DOMAIN records = 1..Len(records) /\ j \in Nat
  BY <1>1 DEF WatchTypes
<1>3. records[j] \in JobRecord  BY <1>2, ElementOfSeq
<1>4. /\ records' \in Seq(JobRecord) /\ Len(records') = Len(records) /\ DOMAIN records' = DOMAIN records
      /\ \A k \in DOMAIN records : k # j => records'[k] = records[k]
      /\ records'[j].kind = records[j].kind /\ records'[j].title = records[j].title
      /\ records'[j].parent = records[j].parent /\ records'[j].status = records[j].status
      /\ records'[j].at = records[j].at /\ records'[j].corrupt = ~records[j].corrupt
  <2> DEFINE moved == [records[j] EXCEPT !.corrupt = ~records[j].corrupt]
  <2>1. moved \in JobRecord  BY <1>3 DEF JobRecord
  <2>2. records' = [records EXCEPT ![j] = moved]  BY <1>2, <1>3 DEF W!RecordDamaged, JobRecord
  <2>3. records' \in Seq(JobRecord) /\ Len(records') = Len(records)  BY <1>2, <2>1, <2>2, ExceptSeq
  <2>4. records'[j] = moved /\ DOMAIN records' = DOMAIN records  BY <2>2
  <2> QED  BY <1>3, <2>2, <2>3, <2>4 DEF JobRecord
<1>5. /\ UNCHANGED <<undone, items, cursor, lease, source, shift, hour, previous, told, forgot, faults>>
      /\ known' \subseteq known /\ moves' = moves + 1 /\ moves < MaxMoves
  BY DEF W!RecordDamaged, W!Moves, W!Follows
<1>6. WatchTypes'
  <2>1. undone' \subseteq DOMAIN records'  BY <1>1, <1>4, <1>5 DEF WatchTypes
  <2>2. moves' \in 0..MaxMoves /\ Len(records') <= moves'
    <3>1. moves \in Nat /\ MaxMoves \in Nat /\ Len(records) \in Nat /\ Len(records) <= moves
      BY <1>1, NumbersAre, RangesAre DEF WatchTypes
    <3> QED  BY <1>4, <1>5, <3>1
  <2> QED  BY <1>1, <1>4, <1>5, <2>1, <2>2 DEF WatchTypes, W!Hours, W!Never
<1>7. ASSUME NEW p \in known'  PROVE Unfixed(p)'
  <2>1. p \in known /\ Unfixed(p)  BY <1>5 DEF CardsInv
  <2>2. ASSUME NEW n \in DOMAIN records, p = <<"job", n>>, FailedStill(n)
        PROVE  FailedStill(n)'
    <3>1. records'[n].status = "failed" /\ undone' = undone /\ n \in DOMAIN records'
      BY <1>4, <1>5, <2>2 DEF FailedStill
    <3>2. \A k \in DOMAIN records : W!Resolves(k, n)' <=> W!Resolves(k, n)
      BY <1>4, <2>2 DEF W!Resolves
    <3>3. records[j].corrupt /\ records[j].status # "failed" /\ j > n => ~W!Resolves(j, n)
      <4> SUFFICES ASSUME records[j].corrupt, records[j].status # "failed", j > n, W!Resolves(j, n)
                   PROVE  FALSE
        OBVIOUS
      <4>1. n \in 1..(j - 1)  BY <1>2, <2>2
      <4>2. p \in {<<"job", m>> : m \in {l \in 1..(j - 1) : W!Resolves(j, l)}}  BY <2>2, <4>1
      <4> QED  BY <4>2 DEF W!RecordDamaged, W!Moves, W!Follows
    <3>4. ~\E k \in W!Legible' : k > n /\ W!Resolves(k, n)' /\ records'[k].status # "failed"
      <4> SUFFICES ASSUME NEW k \in W!Legible', k > n, W!Resolves(k, n)', records'[k].status # "failed"
                   PROVE  FALSE
        OBVIOUS
      <4>1. k \in DOMAIN records /\ ~records'[k].corrupt /\ W!Resolves(k, n)
        BY <1>4, <3>2 DEF W!Legible
      <4>2. CASE k = j  BY <1>4, <3>3, <4>1, <4>2
      <4>3. CASE k # j
        BY <1>4, <2>2, <4>1, <4>3 DEF FailedStill, W!Retried, W!Legible
      <4> QED  BY <4>2, <4>3
    <3>5. ~(records'[n].kind = "audit" /\ records'[n].parent \in undone')
      BY <1>4, <1>5, <2>2 DEF FailedStill, W!Retried
    <3> QED  BY <3>1, <3>4, <3>5 DEF FailedStill, W!Retried, W!Legible
  <2> QED  BY <1>5, <2>1, <2>2, JobStays
<1>8. hour' >= hour  BY <1>1, <1>5, RangesAre
<1>9. \A k \in DOMAIN records : records'[k].at = records[k].at  BY <1>4
<1> QED  BY <1>5, <1>6, <1>7, <1>8, <1>9, WorldKeeps

(* What happens to the items of the queue. *)
LEMMA QueueStepKeeps ==
    ASSUME W!ConstantsOK, CardsInv, NEW i \in W!Items,
           W!NewItem(i) \/ W!CloseItem(i) \/ W!OwnerFixes(i) \/ W!ItemDamaged(i)
    PROVE  CardsInv'
<1>1. WatchTypes  BY DEF CardsInv
<1>2. /\ UNCHANGED <<hour, records, undone, cursor, lease, source, shift, previous, told, forgot, faults>>
      /\ known' \subseteq known
      /\ \A n \in W!Items : n # i => items'[n] = items[n]
      /\ moves' = moves \/ (moves' = moves + 1 /\ moves < MaxMoves)
  BY <1>1 DEF WatchTypes, W!NewItem, W!CloseItem, W!OwnerFixes, W!ItemDamaged, W!ItemTo, W!Moves, W!Follows
<1>3. items' \in [W!Items -> [status: {"absent", "ready", "needs_human", "curated"}, since: W!Hours,
                              member: BOOLEAN, corrupt: BOOLEAN]]
  <2>1. hour \in W!Hours /\ 0 \in W!Hours  BY <1>1, NumbersAre DEF WatchTypes
  <2>2. CASE W!NewItem(i)  BY <1>1, <2>1, <2>2 DEF W!NewItem, WatchTypes
  <2>3. ASSUME NEW status \in {"curated", "needs_human", "ready"}, NEW fixed, W!ItemTo(i, status, fixed)
        PROVE  items' \in [W!Items -> [status: {"absent", "ready", "needs_human", "curated"}, since: W!Hours,
                                       member: BOOLEAN, corrupt: BOOLEAN]]
    <3>1. items \in [W!Items -> [status: {"absent", "ready", "needs_human", "curated"}, since: W!Hours,
                                 member: BOOLEAN, corrupt: BOOLEAN]]
      BY <1>1 DEF WatchTypes
    <3>2. items' = [items EXCEPT ![i] = [items[i] EXCEPT !.status = status,
                                                          !.since = IF status = "ready" THEN hour ELSE 0]]
      BY <2>3, <3>1 DEF W!ItemTo
    <3>3. [items[i] EXCEPT !.status = status, !.since = IF status = "ready" THEN hour ELSE 0]
             \in [status: {"absent", "ready", "needs_human", "curated"}, since: W!Hours,
                  member: BOOLEAN, corrupt: BOOLEAN]
      BY <2>1, <3>1
    <3> QED  BY <3>1, <3>2, <3>3
  <2>4. CASE W!ItemDamaged(i)
    <3>1. items \in [W!Items -> [status: {"absent", "ready", "needs_human", "curated"}, since: W!Hours,
                                 member: BOOLEAN, corrupt: BOOLEAN]]
      BY <1>1 DEF WatchTypes
    <3>2. items' = [items EXCEPT ![i] = [items[i] EXCEPT !.corrupt = ~items[i].corrupt]]
      BY <2>4, <3>1 DEF W!ItemDamaged
    <3>3. [items[i] EXCEPT !.corrupt = ~items[i].corrupt]
             \in [status: {"absent", "ready", "needs_human", "curated"}, since: W!Hours,
                  member: BOOLEAN, corrupt: BOOLEAN]
      BY <3>1
    <3> QED  BY <3>1, <3>2, <3>3
  <2> QED  BY <2>2, <2>3, <2>4 DEF W!CloseItem, W!OwnerFixes
<1>4. WatchTypes'
  <2>1. Len(records') <= moves' /\ moves' \in 0..MaxMoves
    <3>1. Len(records) \in Nat /\ moves \in Nat /\ moves <= MaxMoves /\ MaxMoves \in Nat /\ Len(records) <= moves
      BY <1>1, RangesAre, NumbersAre DEF WatchTypes
    <3> QED  BY <1>2, <3>1
  <2>2. items'[i].corrupt => items'[i].status # "absent"
    BY <1>1 DEF WatchTypes, W!NewItem, W!CloseItem, W!OwnerFixes, W!ItemDamaged, W!ItemTo
  <2> QED  BY <1>1, <1>2, <1>3, <2>1, <2>2 DEF WatchTypes, W!Hours, W!Never
<1>5. ASSUME NEW p \in known'  PROVE Unfixed(p)'
  <2>1. p \in known /\ Unfixed(p)  BY <1>2 DEF CardsInv
  <2>2. CASE p = <<"item", i>>
    <3>1. GivenUp(i)  BY <2>1, <2>2 DEF Unfixed
    <3>2. GivenUp(i)'
      <4>1. CASE W!NewItem(i)
        BY <1>1, <2>2, <3>1, <4>1 DEF W!NewItem, GivenUp, WatchTypes
      <4>2. CASE W!CloseItem(i)  BY <3>1, <4>2 DEF W!CloseItem, W!ItemTo, GivenUp
      <4>3. CASE W!OwnerFixes(i)  BY <2>2, <4>3 DEF W!OwnerFixes, W!ItemTo, W!Follows
      <4>4. CASE W!ItemDamaged(i)
        BY <1>1, <2>2, <3>1, <4>4 DEF W!ItemDamaged, W!Moves, W!Follows, GivenUp, WatchTypes
      <4> QED  BY <4>1, <4>2, <4>3, <4>4
    <3> QED  BY <2>2, <3>2 DEF Unfixed
  <2>3. CASE p # <<"item", i>>
    BY <1>2, <2>1, <2>3 DEF Unfixed, FailedStill, W!Retried, W!Resolves, W!Legible, GivenUp, HeldLong, W!LeaseShown,
                            W!Age, Behind,
                            W!CursorStale, W!CursorAt, W!Least
  <2> QED  BY <2>2, <2>3
<1>6. hour' >= hour  BY <1>1, <1>2 DEF WatchTypes, W!Hours
<1> QED  BY <1>2, <1>4, <1>5, <1>6, WorldKeeps

(* A collection: what was behind still is, unless every repository was read. *)
LEMMA CollectorKeeps ==
    ASSUME W!ConstantsOK, CardsInv, NEW whole \in BOOLEAN, W!CollectorRuns(whole)
    PROVE  CardsInv'
<1>1. WatchTypes  BY DEF CardsInv
<1>2. /\ UNCHANGED <<hour, records, undone, items, lease, source, shift, previous, told, forgot, faults>>
      /\ known' \subseteq known
      /\ moves < MaxMoves /\ moves' = moves + 1
  BY DEF W!CollectorRuns, W!Moves, W!Follows
<1>3. hour \in 0..MaxHour /\ W!Never = MaxHour + 1 /\ MaxHour \in Nat  BY <1>1, NumbersAre DEF WatchTypes,
  W!Hours, W!Never
<1>4. /\ cursor'.updated = hour
      /\ cursor'.stale = IF whole THEN W!Never ELSE IF cursor.stale < hour THEN cursor.stale ELSE hour
  BY DEF W!CollectorRuns, W!Least
<1>5. WatchTypes'
  <2>1. cursor' \in [updated: 0..W!Never, stale: 0..W!Never]
    BY <1>1, <1>3, <1>4 DEF WatchTypes, W!CollectorRuns, W!Least
  <2>2. /\ cursor'.updated # W!Never => cursor'.updated <= hour'
        /\ cursor'.stale # W!Never => cursor'.updated # W!Never /\ cursor'.stale <= cursor'.updated
    BY <1>1, <1>2, <1>3, <1>4 DEF WatchTypes
  <2>3. Len(records') <= moves' /\ moves' \in 0..MaxMoves
    <3>1. Len(records) \in Nat /\ moves \in Nat /\ moves <= MaxMoves /\ MaxMoves \in Nat /\ Len(records) <= moves
      BY <1>1, RangesAre, NumbersAre DEF WatchTypes
    <3> QED  BY <1>2, <3>1
  <2> QED  BY <1>1, <1>2, <2>1, <2>2, <2>3 DEF WatchTypes, W!Never
<1>6. ASSUME NEW p \in known'  PROVE Unfixed(p)'
  <2>1. p \in known /\ Unfixed(p)  BY <1>2 DEF CardsInv
  <2>2. CASE p = <<"repo", 0>>
    <3>1. ~whole /\ Behind  BY <2>1, <2>2 DEF W!CollectorRuns, W!Moves, W!Follows, Unfixed
    <3>2. /\ cursor.stale \in 0..MaxHour /\ cursor.stale <= cursor.updated /\ cursor.updated <= hour
          /\ cursor.updated \in Nat /\ hour > cursor.stale + CursorMax
      <4>1. cursor.stale # W!Never /\ cursor.updated # W!Never /\ hour > W!CursorAt + CursorMax
        BY <3>1 DEF Behind, W!CursorStale
      <4>2. cursor.stale <= cursor.updated /\ cursor.updated <= hour  BY <1>1, <4>1 DEF WatchTypes
      <4>3. W!CursorAt = cursor.stale  BY <1>1, <4>2, RangesAre DEF W!CursorAt, W!Least
      <4> QED  BY <1>1, <1>3, <4>1, <4>2, <4>3, RangesAre
    <3>3. cursor'.stale = cursor.stale  BY <1>3, <1>4, <3>1, <3>2
    <3>4. W!CursorAt' = cursor.stale  BY <1>3, <1>4, <3>2, <3>3 DEF W!CursorAt, W!Least
    <3>5. cursor'.updated # W!Never' /\ cursor'.stale # W!Never'  BY <1>3, <1>4, <3>2, <3>3 DEF W!Never
    <3>6. Behind'  BY <1>2, <3>2, <3>4, <3>5 DEF Behind, W!CursorStale
    <3> QED  BY <2>2, <3>6 DEF Unfixed
  <2>3. CASE p # <<"repo", 0>>
    BY <1>2, <2>1, <2>3 DEF Unfixed, FailedStill, W!Retried, W!Resolves, W!Legible, GivenUp, HeldLong, W!LeaseShown,
                            W!Age
  <2> QED  BY <2>2, <2>3
<1>7. hour' >= hour  BY <1>1, <1>2 DEF WatchTypes, W!Hours
<1> QED  BY <1>2, <1>5, <1>6, <1>7, WorldKeeps

(* The lease: a run that begins or ends takes the one that held it off what is known. *)
LEMMA LeaseStepKeeps ==
    ASSUME W!ConstantsOK, CardsInv, W!BeginRun \/ W!RenewRun \/ W!EndRun
    PROVE  CardsInv'
<1>1. WatchTypes  BY DEF CardsInv
<1>2. /\ UNCHANGED <<hour, records, undone, items, cursor, source, shift, previous, told, forgot, faults, moves>>
      /\ known' \subseteq known
  BY DEF W!BeginRun, W!RenewRun, W!EndRun, W!Follows
<1>3. lease' \in [run: 0..W!Never, acquired: W!Hours, renewed: W!Hours]
  <2>1. hour \in W!Hours /\ 0 \in W!Hours /\ hour + 1 \in 0..W!Never /\ 0 \in 0..W!Never
    BY <1>1, NumbersAre, RangesAre
  <2> QED  BY <1>1, <2>1 DEF WatchTypes, W!BeginRun, W!RenewRun, W!EndRun
<1>4. WatchTypes'  BY <1>1, <1>2, <1>3 DEF WatchTypes, W!Never
<1>5. ASSUME NEW p \in known'  PROVE Unfixed(p)'
  <2>1. p \in known /\ Unfixed(p)  BY <1>2 DEF CardsInv
  <2>2. CASE p = <<"lease", lease.run>> /\ HeldLong
    <3>1. W!RenewRun  BY <2>2 DEF W!BeginRun, W!EndRun, W!Follows
    <3>2. lease'.run = lease.run /\ lease'.acquired = lease.acquired
      BY <1>1, <3>1 DEF W!RenewRun, WatchTypes
    <3> QED  BY <1>2, <2>2, <3>2 DEF Unfixed, HeldLong, W!LeaseShown, W!Age
  <2>3. CASE ~(p = <<"lease", lease.run>> /\ HeldLong)
    BY <1>2, <2>1, <2>3 DEF Unfixed, FailedStill, W!Retried, W!Resolves, W!Legible, GivenUp, Behind, W!CursorStale,
                            W!CursorAt, W!Least
  <2> QED  BY <2>2, <2>3
<1>6. hour' >= hour  BY <1>1, <1>2 DEF WatchTypes, W!Hours
<1> QED  BY <1>2, <1>4, <1>5, <1>6, WorldKeeps

(* The ledger and the scheduler: whatever moves is off what is known. *)
LEMMA OthersKeep ==
    ASSUME W!ConstantsOK, CardsInv, W!ShiftMoves \/ \E s \in {"pending", "needs_repair", "done"} : W!LedgerMoves(s)
    PROVE  CardsInv'
<1>1. WatchTypes  BY DEF CardsInv
<1>2. /\ UNCHANGED <<hour, records, undone, items, cursor, lease, previous, told, forgot, faults>>
      /\ known' \subseteq known
      /\ moves < MaxMoves /\ moves' = moves + 1
  BY DEF W!ShiftMoves, W!LedgerMoves, W!Moves, W!Follows
<1>3. moves + 1 \in 0..MaxMoves /\ hour \in W!Hours
  <2>1. MaxMoves \in Nat /\ moves \in Nat /\ hour \in W!Hours  BY <1>1, NumbersAre, RangesAre
  <2> QED  BY <1>2, <2>1
<1>4. /\ source' \in [status: {"done", "pending", "needs_repair"}, since: W!Hours]
      /\ shift' \in [id: 0..MaxMoves, since: W!Hours, status: {"running", "done", "failed"}, closed: BOOLEAN]
  <2>1. CASE W!ShiftMoves
    <3>1. source' = source /\ source \in [status: {"done", "pending", "needs_repair"}, since: W!Hours]
      BY <1>1, <2>1 DEF W!ShiftMoves, WatchTypes
    <3>2. shift \in [id: 0..MaxMoves, since: W!Hours, status: {"running", "done", "failed"}, closed: BOOLEAN]
      BY <1>1 DEF WatchTypes
    <3>3. /\ [id |-> moves + 1, since |-> hour, status |-> "running", closed |-> FALSE]
                \in [id: 0..MaxMoves, since: W!Hours, status: {"running", "done", "failed"}, closed: BOOLEAN]
          /\ \A s \in {"done", "failed"} : [shift EXCEPT !.status = s]
                \in [id: 0..MaxMoves, since: W!Hours, status: {"running", "done", "failed"}, closed: BOOLEAN]
          /\ [shift EXCEPT !.closed = TRUE]
                \in [id: 0..MaxMoves, since: W!Hours, status: {"running", "done", "failed"}, closed: BOOLEAN]
      BY <1>3, <3>2
    <3>4. \/ shift' = [id |-> moves + 1, since |-> hour, status |-> "running", closed |-> FALSE]
          \/ \E s \in {"done", "failed"} : shift' = [shift EXCEPT !.status = s]
          \/ shift' = [shift EXCEPT !.closed = TRUE]
      BY <2>1 DEF W!ShiftMoves
    <3> QED  BY <3>1, <3>3, <3>4
  <2>2. CASE \E s \in {"pending", "needs_repair", "done"} : W!LedgerMoves(s)
    BY <1>1, <1>3, <2>2 DEF W!LedgerMoves, WatchTypes
  <2> QED  BY <2>1, <2>2
<1>5. WatchTypes'
  <2>1. Len(records') <= moves' /\ moves' \in 0..MaxMoves
    BY <1>1, <1>2, <1>3, RangesAre DEF WatchTypes
  <2> QED  BY <1>1, <1>2, <1>3, <1>4, <2>1 DEF WatchTypes, W!Never
<1>6. ASSUME NEW p \in known'  PROVE Unfixed(p)'
  <2>1. p \in known /\ Unfixed(p)  BY <1>2 DEF CardsInv
  <2>2. CASE W!ShiftMoves
    <3>1. p # <<"shift", shift.id>> \/ shift.status # "failed"
      BY <2>2 DEF W!ShiftMoves, W!Moves, W!Follows
    <3>2. source' = source  BY <2>2 DEF W!ShiftMoves
    <3> QED
      BY <1>2, <2>1, <3>1, <3>2 DEF Unfixed, FailedStill, W!Retried, W!Resolves, W!Legible, GivenUp, HeldLong,
                                    W!LeaseShown, W!Age,
                                    Behind, W!CursorStale, W!CursorAt, W!Least
  <2>3. CASE \E s \in {"pending", "needs_repair", "done"} : W!LedgerMoves(s)
    <3>1. shift' = shift /\ p # <<"source", 0>>
      BY <2>3 DEF W!LedgerMoves, W!Moves, W!Follows
    <3> QED
      BY <1>2, <2>1, <3>1 DEF Unfixed, FailedStill, W!Retried, W!Resolves, W!Legible, GivenUp, HeldLong, W!LeaseShown,
                              W!Age,
                              Behind, W!CursorStale, W!CursorAt, W!Least
  <2> QED  BY <2>2, <2>3
<1>7. hour' >= hour  BY <1>1, <1>2 DEF WatchTypes, W!Hours
<1> QED  BY <1>2, <1>5, <1>6, <1>7, WorldKeeps

(* Time passes: what has lasted too long has lasted longer. *)
LEMMA HourKeeps == ASSUME W!ConstantsOK, CardsInv, W!HourPasses PROVE CardsInv'
<1>1. WatchTypes  BY DEF CardsInv
<1>2. /\ UNCHANGED <<records, undone, items, cursor, lease, source, shift, previous, told, forgot, known, faults, moves>>
      /\ hour' = hour + 1 /\ hour < MaxHour
  BY DEF W!HourPasses, W!world, W!book
<1>3. hour \in Nat /\ hour' \in W!Hours /\ hour' \in Nat
  <2>1. hour \in Nat /\ MaxHour \in Nat  BY <1>1, NumbersAre, RangesAre
  <2> QED  BY <1>2, <2>1 DEF W!Hours
<1>n. /\ Stuck \in Nat /\ CursorMax \in Nat /\ lease.acquired \in Nat
      /\ cursor.updated \in Nat /\ cursor.stale \in Nat
  BY <1>1, NumbersAre, RangesAre
<1>4. WatchTypes'
  <2>1. cursor'.updated # W!Never => cursor'.updated <= hour'
    <3>1. cursor.updated # W!Never => cursor.updated <= hour  BY <1>1 DEF WatchTypes
    <3> QED  BY <1>2, <1>3, <1>n, <3>1
  <2> QED  BY <1>1, <1>2, <1>3, <2>1 DEF WatchTypes, W!Never
<1>5. ASSUME NEW p \in known'  PROVE Unfixed(p)'
  <2>1. p \in known /\ Unfixed(p)  BY <1>2 DEF CardsInv
  <2>2. HeldLong => HeldLong'
    BY <1>2, <1>3, <1>n DEF HeldLong, W!LeaseShown, W!Age
  <2>3. Behind => Behind'
    <3>1. W!CursorAt' = W!CursorAt /\ W!CursorAt \in Nat  BY <1>2, <1>n DEF W!CursorAt, W!Least
    <3>2. hour > W!CursorAt + CursorMax => hour' > W!CursorAt' + CursorMax  BY <1>2, <1>3, <1>n, <3>1
    <3> QED  BY <1>2, <3>2 DEF Behind, W!CursorStale, W!Never
  <2> QED  BY <1>2, <2>1, <2>2, <2>3 DEF Unfixed, FailedStill, W!Retried, W!Resolves, W!Legible, GivenUp
<1> QED  BY <1>2, <1>3, <1>4, <1>5, WorldKeeps

(* A step that leaves the world alone fixes nothing. *)
LEMMA SameProblems ==
    ASSUME UNCHANGED <<hour, records, undone, items, cursor, lease, source, shift>>
    PROVE  \A p : Unfixed(p) => Unfixed(p)'
<1>1. W!Legible' = W!Legible  BY DEF W!Legible
<1>2. \A j : W!Retried(j)' <=> W!Retried(j)  BY <1>1 DEF W!Retried, W!Resolves
<1>3. \A j : FailedStill(j)' <=> FailedStill(j)  BY <1>2 DEF FailedStill
<1>4. \A i : GivenUp(i)' <=> GivenUp(i)  BY DEF GivenUp, W!Items
<1>5. (HeldLong' <=> HeldLong) /\ (Behind' <=> Behind)
  BY DEF HeldLong, W!LeaseShown, W!Age, Behind, W!CursorStale, W!CursorAt, W!Least
<1> QED  BY <1>3, <1>4, <1>5 DEF Unfixed

(* The state file is lost. *)
LEMMA StateLostKeeps == ASSUME W!ConstantsOK, CardsInv, W!StateLost PROVE CardsInv'
<1>1. WatchTypes  BY DEF CardsInv
<1>2. UNCHANGED <<hour, records, undone, items, cursor, lease, source, shift, told, known, moves>>
  BY DEF W!StateLost, W!world
<1>3. WatchTypes'
  <2>1. faults' \in 0..MaxFaults
    <3>1. faults \in Nat /\ MaxFaults \in Nat  BY <1>1, NumbersAre, RangesAre
    <3> QED  BY <3>1 DEF W!StateLost
  <2> QED  BY <1>1, <1>2, <2>1 DEF WatchTypes, W!Never
<1>4. \A p \in known' : Unfixed(p)'
  BY <1>2, SameProblems DEF CardsInv
<1> QED
  BY <1>2, <1>3, <1>4 DEF W!StateLost, CardsInv, OneBacklog, W!Backlogs, W!NothingReadsAsFixed,
                          W!EverythingTold

(* A bounded set of numbers has a largest one. *)
LEMMA LargestIs ==
    ASSUME NEW S, S \subseteq Nat, S # {}, NEW top \in Nat, \A s \in S : s <= top
    PROVE  \E m \in S : \A s \in S : s <= m
<1> DEFINE gaps == {n \in 0..top : top - n \in S}
<1>0. PICK s \in S : s \in 0..top
  <2>1. PICK x : x \in S  OBVIOUS
  <2>2. x \in Nat /\ x <= top  BY <2>1
  <2> QED  BY <2>1, <2>2
<1>1. gaps \subseteq Nat /\ top - s \in gaps  BY <1>0
<1>2. IsWellFoundedOn(OpToRel(<, Nat), Nat)  BY NatLessThanWellFounded
<1>3. PICK g \in gaps : \A h \in gaps : <<h, g>> \notin OpToRel(<, Nat)
  <2> HIDE DEF gaps
  <2> QED  BY <1>1, <1>2, WFMin
<1>4. \A h \in gaps : ~(h < g)  BY <1>1, <1>3, Zenon DEF OpToRel
<1>5. top - g \in S /\ g \in 0..top  OBVIOUS
<1>6. ASSUME NEW x \in S  PROVE x <= top - g
  <2>1. top - x \in gaps  OBVIOUS
  <2>2. ~(top - x < g)  BY <1>4, <2>1
  <2> QED  BY <1>5, <2>2
<1> QED  BY <1>5, <1>6

(* The bucket of a backlog is a size it has reached. *)
LEMMA BucketIs ==
    ASSUME W!ConstantsOK, W!Waiting(ReadyMax) # {}
    PROVE  W!Bucket(Cardinality(W!Waiting(ReadyMax))) \in 0..MaxItems
<1> DEFINE count == Cardinality(W!Waiting(ReadyMax))
           reached == {b \in Buckets : b <= count}
<1>1. W!Waiting(ReadyMax) \subseteq W!Items  BY DEF W!Waiting, W!Readable
<1>2. IsFiniteSet(W!Items) /\ Cardinality(W!Items) = MaxItems
  <2>1. MaxItems \in Nat  BY NumbersAre
  <2> QED  BY <2>1, FS_Interval DEF W!Items
<1>3. count \in Nat /\ count <= MaxItems /\ count # 0
  <2>1. IsFiniteSet(W!Waiting(ReadyMax)) /\ count <= MaxItems  BY <1>1, <1>2, FS_Subset
  <2> QED  BY <2>1, FS_CardinalityType, FS_EmptySet
<1>4. reached \subseteq Nat /\ 1 \in reached
  <2>1. Buckets \subseteq Nat /\ 1 \in Buckets  BY DEF W!ConstantsOK
  <2> HIDE DEF count
  <2>2. 1 <= count  BY <1>3
  <2> QED  BY <2>1, <2>2
<1>5. \E m \in reached : \A s \in reached : s <= m
  <2> HIDE DEF reached, count
  <2>1. \A s \in reached : s <= count  BY DEF reached
  <2> QED  BY <1>3, <1>4, <2>1, LargestIs
<1>6. \E b \in Buckets : b <= count /\ \A c \in Buckets : c <= count => c <= b  BY <1>5
<1>7. W!Bucket(count) \in Buckets /\ W!Bucket(count) <= count  BY <1>6 DEF W!Bucket
<1>8. W!Bucket(count) \in Nat /\ MaxItems \in Nat  BY <1>7, NumbersAre DEF W!ConstantsOK
<1> HIDE DEF count
<1>9. W!Bucket(count) <= MaxItems  BY <1>3, <1>7, <1>8
<1> QED  BY <1>8, <1>9 DEF count

(* The numbers a key may have. *)
Counts == 0..(W!Never + MaxMoves + MaxItems)

(* What is found is a set of keys, and of a backlog there is one. *)
LEMMA FoundTyped ==
    ASSUME W!ConstantsOK, WatchTypes, NEW c \in W!Checks, NEW k \in W!Found(c)
    PROVE  /\ k \in W!Keys
           /\ k[1] = "maint_ready_stale" => k \in W!ReadyStale
<1>1. /\ 0 \in Counts /\ (\A n \in 0..MaxItems : n \in Counts) /\ (\A n \in 0..MaxMoves : n \in Counts)
      /\ \A n \in 0..W!Never : n \in Counts
  <2>1. W!Never \in Nat /\ MaxMoves \in Nat /\ MaxItems \in Nat  BY NumbersAre
  <2> QED  BY <2>1 DEF Counts
<1>2. records \in Seq(JobRecord) /\ \A j \in DOMAIN records : j \in Counts /\ records[j] \in JobRecord
  <2>1. records \in Seq(JobRecord) /\ Len(records) <= moves  BY DEF WatchTypes
  <2>2. MaxMoves \in Nat /\ moves \in Nat /\ moves <= MaxMoves  BY NumbersAre, RangesAre
  <2>3. \A j \in DOMAIN records : j \in 0..MaxMoves  BY <2>1, <2>2
  <2> QED  BY <1>1, <2>1, <2>3, ElementOfSeq
<1>3. \A w \in W!Whats, n \in Counts, x \in {"", "queued", "running"} : <<w, n, x>> \in W!Keys
  BY DEF W!Keys, Counts
<1>4. CASE c = "writer"
  <2>1. CASE k \in W!FailedJobs
    <3>1. PICK j \in DOMAIN records : k = <<"job_failed", j, "">>  BY <2>1 DEF W!FailedJobs, W!Legible
    <3>2. "job_failed" \in W!Whats /\ j \in Counts  BY <1>2 DEF W!Whats
    <3> QED  BY <1>3, <3>1, <3>2
  <2>2. CASE k \in W!StuckJobs
    <3>1. PICK j \in DOMAIN records : /\ k = <<"job_stuck", j, records[j].status>>
                                      /\ records[j].status \in {"queued", "running"}
      BY <2>2 DEF W!StuckJobs, W!Legible
    <3>2. "job_stuck" \in W!Whats /\ j \in Counts  BY <1>2 DEF W!Whats
    <3> QED  BY <1>3, <3>1, <3>2
  <2> QED  BY <1>4, <2>1, <2>2 DEF W!Found, W!CheckBundle
<1>5. CASE c = "maint"
  <2>1. CASE k \in W!Corrupt
    <3>1. PICK i \in W!Items : k = <<"maint_item_corrupt", i, "">>  BY <2>1 DEF W!Corrupt
    <3>2. "maint_item_corrupt" \in W!Whats /\ i \in Counts  BY <1>1 DEF W!Whats, W!Items
    <3> QED  BY <1>3, <3>1, <3>2
  <2>2. CASE k \in W!NeedsHuman
    <3>1. PICK i \in W!Items : k = <<"maint_needs_human", i, "">>  BY <2>2 DEF W!NeedsHuman, W!Readable
    <3>2. "maint_needs_human" \in W!Whats /\ i \in Counts  BY <1>1 DEF W!Whats, W!Items
    <3> QED  BY <1>3, <3>1, <3>2
  <2>3. CASE k \in W!ReadyStale
    <3>1. k = <<"maint_ready_stale", W!Bucket(Cardinality(W!Waiting(ReadyMax))), "">> /\ W!Waiting(ReadyMax) # {}
      BY <2>3 DEF W!ReadyStale, W!Cardinality, Cardinality
    <3>2. "maint_ready_stale" \in W!Whats /\ W!Bucket(Cardinality(W!Waiting(ReadyMax))) \in Counts
      BY <1>1, <3>1, BucketIs DEF W!Whats
    <3> QED  BY <1>3, <2>3, <3>1, <3>2
  <2>4. CASE k \in W!MemberStale
    <3>1. k = <<"maint_member_ready_stale", 0, "">>  BY <2>4 DEF W!MemberStale
    <3>2. "maint_member_ready_stale" \in W!Whats  BY DEF W!Whats
    <3> QED  BY <1>1, <1>3, <3>1, <3>2
  <2>5. CASE k \in W!CursorStale
    <3>1. k = <<"maint_cursor_stale", 0, "">>  BY <2>5 DEF W!CursorStale
    <3>2. "maint_cursor_stale" \in W!Whats  BY DEF W!Whats
    <3> QED  BY <1>1, <1>3, <3>1, <3>2
  <2>6. CASE k \in W!LeaseStuck
    <3>1. k = <<"maint_lease_stuck", lease.run, "">>  BY <2>6 DEF W!LeaseStuck
    <3>2. "maint_lease_stuck" \in W!Whats /\ lease.run \in Counts  BY <1>1 DEF WatchTypes, W!Whats
    <3> QED  BY <1>3, <3>1, <3>2
  <2> QED  BY <1>5, <2>1, <2>2, <2>3, <2>4, <2>5, <2>6 DEF W!Found, W!CheckMaint
<1>6. CASE c = "ledger"
  <2>1. k \in W!CheckLedger  BY <1>6 DEF W!Found
  <2>2. k = <<"ledger_needs_repair", 0, "">> \/ k = <<"ledger_pending_stale", 0, "">>  BY <2>1
    DEF W!CheckLedger
  <2>3. "ledger_needs_repair" \in W!Whats /\ "ledger_pending_stale" \in W!Whats  BY DEF W!Whats
  <2>4. CASE k = <<"ledger_needs_repair", 0, "">>  BY <1>1, <1>3, <2>3, <2>4
  <2>5. CASE k = <<"ledger_pending_stale", 0, "">>  BY <1>1, <1>3, <2>3, <2>5
  <2> QED  BY <2>2, <2>4, <2>5
<1>7. CASE c = "multica"
  <2>1. k \in W!CheckMultica  BY <1>7 DEF W!Found
  <2>2. k = <<"run_stuck", shift.id, "">> \/ k = <<"latest_run_failed", shift.id, "">>  BY <2>1
    DEF W!CheckMultica
  <2>3. shift.id \in Counts /\ "run_stuck" \in W!Whats /\ "latest_run_failed" \in W!Whats
    BY <1>1 DEF WatchTypes, W!Whats
  <2>4. CASE k = <<"run_stuck", shift.id, "">>  BY <1>3, <2>3, <2>4
  <2>5. CASE k = <<"latest_run_failed", shift.id, "">>  BY <1>3, <2>3, <2>5
  <2> QED  BY <2>2, <2>4, <2>5
<1> QED  BY <1>4, <1>5, <1>6, <1>7 DEF W!Checks

(* The sets of a key's parts. *)
Notes == {"", "queued", "running"} \cup W!Checks

(* A key has three parts, and is told by them. *)
LEMMA KeysAre == W!Keys = W!Whats \X Counts \X Notes
  BY DEF W!Keys, Counts, Notes

LEMMA TriplesAre ==
    ASSUME NEW A, NEW B, NEW C
    PROVE  /\ \A x \in A \X B \X C : x[1] \in A /\ x[2] \in B /\ x[3] \in C /\ x = <<x[1], x[2], x[3]>>
           /\ \A x, y \in A \X B \X C : x[1] = y[1] /\ x[2] = y[2] /\ x[3] = y[3] => x = y
  OBVIOUS

(* A backlog is announced by the highest size announced while it lasts. *)
LEMMA AnnouncedIs ==
    ASSUME W!ConstantsOK, NEW keys, keys \subseteq W!Keys, OneBacklog(keys), NEW k \in W!Keys
    PROVE  /\ k[1] # "maint_ready_stale" => W!Announced(k, keys) = k
           /\ W!Announced(k, keys) \in W!Keys /\ W!Announced(k, keys)[1] = k[1] /\ W!Announced(k, keys)[3] = k[3]
           /\ k[1] = "maint_ready_stale" =>
                \A l \in W!Backlogs(keys) : W!Announced(k, keys)[2] = l[2] \/ W!Announced(k, keys)[2] > l[2]
<1>1. Counts \subseteq Nat
  <2>1. W!Never + MaxMoves + MaxItems \in Nat  BY NumbersAre
  <2> QED  BY <2>1 DEF Counts
<1>2. \A l \in W!Keys : l[1] \in W!Whats /\ l[2] \in Counts /\ l[3] \in Notes /\ l = <<l[1], l[2], l[3]>>
  BY KeysAre, TriplesAre
<1>3. CASE k[1] # "maint_ready_stale"  BY <1>3 DEF W!Announced
<1>4. CASE k[1] = "maint_ready_stale"
  <2> DEFINE sizes == {l[2] : l \in {n \in keys \cup {k} : n[1] = "maint_ready_stale"}}
             m == CHOOSE x \in sizes : \A n \in sizes : n <= x
  <2>1. W!Announced(k, keys) = <<k[1], m, k[3]>>  BY <1>4 DEF W!Announced
  <2>2. k[2] \in sizes /\ sizes \subseteq Counts  BY <1>2, <1>4
  <2>3. \E x \in sizes : \A n \in sizes : n <= x
    <3>1. CASE W!Backlogs(keys) = {}
      <4>1. sizes = {k[2]}  BY <1>4, <3>1 DEF W!Backlogs
      <4>2. k[2] \in Nat  BY <1>1, <1>2
      <4> QED  BY <4>1, <4>2
    <3>2. CASE W!Backlogs(keys) # {}
      <4>1. PICK l \in W!Backlogs(keys) : TRUE  BY <3>2
      <4>2. \A n \in sizes : n = k[2] \/ n = l[2]  BY <4>1 DEF OneBacklog, W!Backlogs
      <4>3. l[2] \in sizes /\ l[2] \in Nat /\ k[2] \in Nat  BY <1>1, <1>2, <4>1 DEF W!Backlogs
      <4>4. CASE l[2] <= k[2]  BY <2>2, <4>2, <4>3, <4>4
      <4>5. CASE ~(l[2] <= k[2])  BY <2>2, <4>2, <4>3, <4>5
      <4> QED  BY <4>4, <4>5
    <3> QED  BY <3>1, <3>2
  <2>4. m \in sizes /\ \A n \in sizes : n <= m  BY <2>3
  <2>5. m \in Counts  BY <2>2, <2>4
  <2>6. \A l \in W!Backlogs(keys) : l[2] \in sizes  BY DEF W!Backlogs
  <2> HIDE DEF sizes, m
  <2>7. \A l \in W!Backlogs(keys) : m = l[2] \/ m > l[2]
    <3> SUFFICES ASSUME NEW l \in W!Backlogs(keys) PROVE m = l[2] \/ m > l[2]  OBVIOUS
    <3>1. l[2] <= m /\ l[2] \in Nat /\ m \in Nat  BY <1>1, <2>2, <2>4, <2>5, <2>6
    <3> QED  BY <3>1
  <2>8. <<k[1], m, k[3]>> \in W!Keys  BY <1>2, <2>5, KeysAre
  <2> QED  BY <1>4, <2>1, <2>7, <2>8
<1> QED  BY <1>3, <1>4

(* What a pass finds, and the keys it announces. *)
PassFound(broken) == UNION {W!Found(c) : c \in W!Checks \ broken}
PassKeys(broken)  ==
    {W!Announced(k, previous) : k \in PassFound(broken) \cup {<<"error", 0, c>> : c \in broken}}

(* A pass announces keys, and of backlogs the one of the ready items. *)
LEMMA KeysTyped ==
    ASSUME W!ConstantsOK, WatchTypes, NEW broken \in SUBSET W!Checks
    PROVE  \A k \in PassFound(broken) \cup {<<"error", 0, c>> : c \in broken} :
              /\ k \in W!Keys
              /\ k[1] = "maint_ready_stale" => k \in W!ReadyStale
<1>1. ASSUME NEW k \in PassFound(broken)
      PROVE  k \in W!Keys /\ (k[1] = "maint_ready_stale" => k \in W!ReadyStale)
  <2>1. PICK c \in W!Checks : k \in W!Found(c)  BY <1>1 DEF PassFound
  <2> QED  BY <2>1, FoundTyped
<1>2. ASSUME NEW c \in broken
      PROVE  <<"error", 0, c>> \in W!Keys /\ <<"error", 0, c>>[1] # "maint_ready_stale"
  <2>1. c \in W!Checks /\ "error" \in W!Whats  BY DEF W!Whats
  <2>2. 0 \in Counts
    <3>1. W!Never \in Nat /\ MaxMoves \in Nat /\ MaxItems \in Nat  BY NumbersAre
    <3> QED  BY <3>1 DEF Counts
  <2>3. \A w \in W!Whats, n \in Counts, x \in W!Checks : <<w, n, x>> \in W!Keys  BY DEF W!Keys, Counts
  <2> QED  BY <2>1, <2>2, <2>3
<1> QED  BY <1>1, <1>2

(* One pass announces one backlog at most, by one of the sizes announced or a larger one. *)
LEMMA PassBacklog ==
    ASSUME W!ConstantsOK, CardsInv, NEW broken \in SUBSET W!Checks
    PROVE  /\ PassKeys(broken) \subseteq W!Keys
           /\ OneBacklog(PassKeys(broken))
           /\ \A k \in W!Backlogs(PassKeys(broken)), l \in W!Backlogs(previous) : k = l \/ k[2] > l[2]
<1> DEFINE all == PassFound(broken) \cup {<<"error", 0, c>> : c \in broken}
<1>1. WatchTypes /\ previous \subseteq W!Keys /\ OneBacklog(previous)  BY DEF CardsInv
<1>2. \A k \in all : k \in W!Keys /\ (k[1] = "maint_ready_stale" => k \in W!ReadyStale)  BY <1>1, KeysTyped
<1>3. \A k \in all : /\ W!Announced(k, previous) \in W!Keys /\ W!Announced(k, previous)[1] = k[1]
                     /\ W!Announced(k, previous)[3] = k[3]
                     /\ k[1] = "maint_ready_stale" =>
                          \A l \in W!Backlogs(previous) :
                             W!Announced(k, previous)[2] = l[2] \/ W!Announced(k, previous)[2] > l[2]
  BY <1>1, <1>2, AnnouncedIs
<1>4. PassKeys(broken) = {W!Announced(k, previous) : k \in all}  BY DEF PassKeys
<1> HIDE DEF all
<1>5. \A k, l \in W!ReadyStale : k = l /\ k[3] = ""
  <2> DEFINE only == <<"maint_ready_stale", W!Bucket(Cardinality(W!Waiting(ReadyMax))), "">>
  <2>1. W!ReadyStale = {} \/ W!ReadyStale = {only}  BY DEF W!ReadyStale, W!Cardinality, Cardinality
  <2>2. only[3] = ""  OBVIOUS
  <2> HIDE DEF only
  <2> QED  BY <2>1, <2>2
<1>6. \A k \in W!Backlogs(PassKeys(broken)) :
         \E n \in W!ReadyStale : n \in all /\ n[1] = "maint_ready_stale" /\ k = W!Announced(n, previous)
  BY <1>2, <1>3, <1>4 DEF W!Backlogs
<1>7. OneBacklog(PassKeys(broken))
  <2> SUFFICES ASSUME NEW k \in W!Backlogs(PassKeys(broken)), NEW l \in W!Backlogs(PassKeys(broken))
               PROVE  k = l /\ k[3] = ""
    BY DEF OneBacklog
  <2>1. PICK m \in W!ReadyStale : m \in all /\ k = W!Announced(m, previous)  BY <1>6
  <2>2. PICK n \in W!ReadyStale : n \in all /\ l = W!Announced(n, previous)  BY <1>6
  <2> QED  BY <1>3, <1>5, <2>1, <2>2
<1>8. ASSUME NEW k \in W!Backlogs(PassKeys(broken)), NEW l \in W!Backlogs(previous)
      PROVE  k = l \/ k[2] > l[2]
  <2>1. PICK n \in W!ReadyStale : n \in all /\ n[1] = "maint_ready_stale" /\ k = W!Announced(n, previous)  BY <1>6
  <2>2. k[2] = l[2] \/ k[2] > l[2]  BY <1>3, <2>1
  <2>3. k[1] = l[1] /\ k[3] = l[3]  BY <1>1, <1>3, <1>5, <2>1 DEF OneBacklog, W!Backlogs
  <2>4. k \in W!Keys /\ l \in W!Keys  BY <1>1, <1>3, <2>1 DEF W!Backlogs
  <2>5. \A x \in W!Keys, y \in W!Keys : x[1] = y[1] /\ x[2] = y[2] /\ x[3] = y[3] => x = y
    BY KeysAre, TriplesAre
  <2> QED  BY <2>2, <2>3, <2>4, <2>5
<1>9. PassKeys(broken) \subseteq W!Keys  BY <1>3, <1>4
<1> QED  BY <1>7, <1>8, <1>9

(* A problem that is there is found, by the check it is of, unless it is a failure that expired or *)
(* whose record nobody can read.                                                                   *)
LEMMA UnfixedIsFound ==
    ASSUME W!ConstantsOK, WatchTypes, NEW p, Unfixed(p)
    PROVE  \/ \E k \in W!Found(W!CheckOf(p)) : k[1] # "maint_ready_stale" /\ W!Problem(k) = p
           \/ p[1] = "job" /\ W!Age(records[p[2]].at) > Unresolved
           \/ W!CheckOf(p) = "writer" /\ \E j \in DOMAIN records \ W!Legible : p = <<"job", j>>
<1>1. CASE \E j \in DOMAIN records : p = <<"job", j>> /\ FailedStill(j)
  <2>1. PICK j \in DOMAIN records : p = <<"job", j>> /\ FailedStill(j)  BY <1>1
  <2>0. W!CheckOf(p) = "writer"  BY <2>1 DEF W!CheckOf
  <2>2. CASE j \in W!Legible /\ W!Age(records[j].at) <= W!AlertFor
    <3>1. <<"job_failed", j, "">> \in W!FailedJobs  BY <2>1, <2>2 DEF FailedStill, W!FailedJobs
    <3>2. W!CheckOf(p) = "writer"  BY <2>0
    <3>3. W!Found("writer") = W!CheckBundle  BY DEF W!Found
    <3>4. W!Problem(<<"job_failed", j, "">>) = p  BY <2>1 DEF W!Problem
    <3> QED  BY <3>1, <3>2, <3>3, <3>4 DEF W!CheckBundle
  <2>3. CASE ~(W!Age(records[j].at) <= W!AlertFor)
    <3>1. records[j] \in JobRecord
      <4>1. records \in Seq(JobRecord)  BY DEF WatchTypes
      <4> QED  BY <4>1, ElementOfSeq
    <3>2. W!Age(records[j].at) \in Int
      <4>1. hour \in Nat  BY RangesAre
      <4> QED  BY <3>1, <4>1 DEF JobRecord, W!Hours, W!Age
    <3>3. FailedWindow \in Nat /\ Unresolved \in Nat  BY NumbersAre
    <3>4. W!Age(records[j].at) > Unresolved  BY <2>3, <3>2, <3>3 DEF W!AlertFor
    <3> QED  BY <2>1, <3>4
  <2> QED  BY <2>0, <2>1, <2>2, <2>3
<1>2. CASE \E i \in W!Items : p = <<"item", i>> /\ GivenUp(i)
  <2>1. PICK i \in W!Items : p = <<"item", i>> /\ GivenUp(i)  BY <1>2
  <2>2. W!CheckOf(p) = "maint" /\ W!Found("maint") = W!CheckMaint  BY <2>1 DEF W!CheckOf, W!Found
  <2>3. CASE items[i].corrupt
    <3>1. <<"maint_item_corrupt", i, "">> \in W!Corrupt  BY <2>3 DEF W!Corrupt
    <3>2. W!Problem(<<"maint_item_corrupt", i, "">>) = p  BY <2>1 DEF W!Problem
    <3> QED  BY <2>2, <3>1, <3>2 DEF W!CheckMaint
  <2>4. CASE ~items[i].corrupt
    <3>1. items[i].status = "needs_human" /\ i \in W!Readable  BY <2>1, <2>4 DEF GivenUp, W!Readable
    <3>2. <<"maint_needs_human", i, "">> \in W!NeedsHuman  BY <3>1 DEF W!NeedsHuman
    <3>3. W!Problem(<<"maint_needs_human", i, "">>) = p  BY <2>1 DEF W!Problem
    <3> QED  BY <2>2, <3>2, <3>3 DEF W!CheckMaint
  <2> QED  BY <2>3, <2>4
<1>3. CASE p = <<"lease", lease.run>> /\ HeldLong
  <2>1. <<"maint_lease_stuck", lease.run, "">> \in W!LeaseStuck  BY <1>3 DEF HeldLong, W!LeaseStuck
  <2>2. W!CheckOf(p) = "maint" /\ W!Found("maint") = W!CheckMaint  BY <1>3 DEF W!CheckOf, W!Found
  <2>3. W!Problem(<<"maint_lease_stuck", lease.run, "">>) = p  BY <1>3 DEF W!Problem
  <2> QED  BY <2>1, <2>2, <2>3 DEF W!CheckMaint
<1>4. CASE p = <<"source", 0>> /\ source.status = "needs_repair"
  <2>1. <<"ledger_needs_repair", 0, "">> \in W!CheckLedger  BY <1>4 DEF W!CheckLedger
  <2>2. W!CheckOf(p) = "ledger" /\ W!Found("ledger") = W!CheckLedger  BY <1>4 DEF W!CheckOf, W!Found
  <2>3. W!Problem(<<"ledger_needs_repair", 0, "">>) = p  BY <1>4 DEF W!Problem
  <2> QED  BY <2>1, <2>2, <2>3
<1>5. CASE p = <<"shift", shift.id>> /\ shift.status = "failed" /\ ~shift.closed
  <2>1. <<"latest_run_failed", shift.id, "">> \in W!CheckMultica  BY <1>5 DEF W!CheckMultica
  <2>2. W!CheckOf(p) = "multica" /\ W!Found("multica") = W!CheckMultica  BY <1>5 DEF W!CheckOf, W!Found
  <2>3. W!Problem(<<"latest_run_failed", shift.id, "">>) = p  BY <1>5 DEF W!Problem
  <2> QED  BY <2>1, <2>2, <2>3
<1>6. CASE p = <<"repo", 0>> /\ Behind
  <2>1. <<"maint_cursor_stale", 0, "">> \in W!CursorStale  BY <1>6 DEF Behind, W!CursorStale
  <2>2. W!CheckOf(p) = "maint" /\ W!Found("maint") = W!CheckMaint  BY <1>6 DEF W!CheckOf, W!Found
  <2>3. W!Problem(<<"maint_cursor_stale", 0, "">>) = p  BY <1>6 DEF W!Problem, Behind
  <2> QED  BY <2>1, <2>2, <2>3 DEF W!CheckMaint
<1> QED  BY <1>1, <1>2, <1>3, <1>4, <1>5, <1>6 DEF Unfixed

(* What is found to be a problem is one. *)
LEMMA FoundIsUnfixed ==
    ASSUME W!ConstantsOK, WatchTypes, NEW c \in W!Checks, NEW k \in W!Found(c), W!Problem(k) # <<"none", 0>>
    PROVE  Unfixed(W!Problem(k))
<1>1. CASE c = "writer"
  <2>1. CASE k \in W!FailedJobs
    <3>1. PICK j \in DOMAIN records : k = <<"job_failed", j, "">> /\ FailedStill(j)
      BY <2>1 DEF W!FailedJobs, FailedStill, W!Legible
    <3>2. W!Problem(k) = <<"job", j>>  BY <3>1, ProblemIs
    <3> QED  BY <3>1, <3>2 DEF Unfixed
  <2>2. CASE k \in W!StuckJobs
    <3>1. k[1] = "job_stuck"  BY <2>2 DEF W!StuckJobs
    <3> QED  BY <3>1, ProblemIs
  <2> QED  BY <1>1, <2>1, <2>2 DEF W!Found, W!CheckBundle
<1>2. CASE c = "maint"
  <2>1. CASE k \in W!Corrupt
    <3>1. PICK i \in W!Items : k = <<"maint_item_corrupt", i, "">> /\ GivenUp(i)  BY <2>1 DEF W!Corrupt,
      GivenUp
    <3>2. W!Problem(k) = <<"item", i>>  BY <3>1, ProblemIs
    <3> QED  BY <3>1, <3>2 DEF Unfixed
  <2>2. CASE k \in W!NeedsHuman
    <3>1. PICK i \in W!Items : k = <<"maint_needs_human", i, "">> /\ GivenUp(i)
      BY <2>2 DEF W!NeedsHuman, W!Readable, GivenUp
    <3>2. W!Problem(k) = <<"item", i>>  BY <3>1, ProblemIs
    <3> QED  BY <3>1, <3>2 DEF Unfixed
  <2>3. CASE k \in W!ReadyStale
    <3>1. k = <<"maint_ready_stale", W!Bucket(Cardinality(W!Waiting(ReadyMax))), "">>  BY <2>3
      DEF W!ReadyStale, W!Cardinality, Cardinality
    <3> QED  BY <3>1, ProblemIs
  <2>r. CASE k \in W!MemberStale
    <3>1. k = <<"maint_member_ready_stale", 0, "">>  BY <2>r DEF W!MemberStale
    <3> QED  BY <3>1, ProblemIs
  <2>4. CASE k \in W!CursorStale
    <3>1. k = <<"maint_cursor_stale", 0, "">> /\ W!CursorStale # {}  BY <2>4 DEF W!CursorStale
    <3>2. cursor.stale # W!Never /\ W!Problem(k) = <<"repo", 0>>  BY <3>1, ProblemIs
    <3> QED  BY <3>1, <3>2 DEF Unfixed, Behind
  <2>5. CASE k \in W!LeaseStuck
    <3>1. k = <<"maint_lease_stuck", lease.run, "">> /\ HeldLong  BY <2>5 DEF W!LeaseStuck, HeldLong
    <3>2. W!Problem(k) = <<"lease", lease.run>>  BY <3>1, ProblemIs
    <3> QED  BY <3>1, <3>2 DEF Unfixed
  <2> QED  BY <1>2, <2>1, <2>2, <2>3, <2>r, <2>4, <2>5 DEF W!Found, W!CheckMaint
<1>3. CASE c = "ledger"
  <2>1. k \in W!CheckLedger  BY <1>3 DEF W!Found
  <2>2. CASE source.status = "needs_repair"
    <3>1. k = <<"ledger_needs_repair", 0, "">>  BY <2>1, <2>2 DEF W!CheckLedger
    <3> QED  BY <2>2, <3>1, ProblemIs DEF Unfixed
  <2>3. CASE source.status # "needs_repair"
    <3>1. k = <<"ledger_pending_stale", 0, "">>  BY <2>1, <2>3 DEF W!CheckLedger
    <3> QED  BY <3>1, ProblemIs
  <2> QED  BY <2>2, <2>3
<1>4. CASE c = "multica"
  <2>1. k \in W!CheckMultica  BY <1>4 DEF W!Found
  <2>2. \/ k = <<"run_stuck", shift.id, "">>
        \/ k = <<"latest_run_failed", shift.id, "">> /\ shift.status = "failed" /\ ~shift.closed
    BY <2>1 DEF W!CheckMultica
  <2>3. CASE k = <<"run_stuck", shift.id, "">>  BY <2>3, ProblemIs
  <2>4. CASE k = <<"latest_run_failed", shift.id, "">> /\ shift.status = "failed" /\ ~shift.closed
    <3>1. W!Problem(k) = <<"shift", shift.id>>  BY <2>4, ProblemIs
    <3> QED  BY <2>4, <3>1 DEF Unfixed
  <2> QED  BY <2>2, <2>3, <2>4
<1> QED  BY <1>1, <1>2, <1>3, <1>4 DEF W!Checks

(* A pass that posts a card and saves it covers what is known, and what it finds anew. *)
LEMMA WatchKeeps ==
    ASSUME W!ConstantsOK, CardsInv, NEW broken \in SUBSET W!Checks, NEW result \in {"saved", "unsaved", "failed"},
           W!Watch(broken, result)
    PROVE  CardsInv'
<1> DEFINE found == PassFound(broken)
           keys  == PassKeys(broken)
           delivered == keys # previous /\ result # "failed"
<1>1. WatchTypes  BY DEF CardsInv
<1>2. UNCHANGED <<hour, records, undone, items, cursor, lease, source, shift, moves>>  BY DEF W!Watch, W!world
<1>3. /\ told' = IF delivered THEN keys ELSE told
      /\ previous' = IF result = "saved" THEN keys ELSE previous
      /\ forgot' = IF delivered THEN result = "unsaved" ELSE forgot
      /\ known' = IF result = "saved"
                  THEN (known \ W!PassedOver(broken)) \cup ({W!Problem(k) : k \in found} \ {<<"none", 0>>})
                  ELSE known
  BY DEF W!Watch, W!Saves, PassKeys, PassFound
<1>4. keys \subseteq W!Keys /\ OneBacklog(keys)  BY PassBacklog
<1>5. WatchTypes'
  <2>1. faults' \in 0..MaxFaults
    <3>1. IsFiniteSet(W!Checks)
      <4>1. IsFiniteSet({"writer"})  BY FS_Singleton
      <4>2. IsFiniteSet({"writer"} \cup {"maint"})  BY <4>1, FS_AddElement
      <4>3. IsFiniteSet(({"writer"} \cup {"maint"}) \cup {"ledger"})  BY <4>2, FS_AddElement
      <4>4. IsFiniteSet((({"writer"} \cup {"maint"}) \cup {"ledger"}) \cup {"multica"})  BY <4>3, FS_AddElement
      <4>5. W!Checks = (({"writer"} \cup {"maint"}) \cup {"ledger"}) \cup {"multica"}  BY DEF W!Checks
      <4> QED  BY <4>4, <4>5
    <3>2. Cardinality(broken) \in Nat  BY <3>1, FS_Subset, FS_CardinalityType
    <3>3. faults \in Nat /\ MaxFaults \in Nat  BY <1>1, NumbersAre, RangesAre
    <3>4. faults' = faults + Cardinality(broken) + (IF result = "saved" THEN 0 ELSE 1) /\ faults' <= MaxFaults
      BY DEF W!Watch, W!Cardinality, Cardinality
    <3> QED  BY <3>2, <3>3, <3>4
  <2> QED  BY <1>1, <1>2, <2>1 DEF WatchTypes, W!Never
<1>6. \A p \in known' : Unfixed(p)
  <2>1. \A k \in found : W!Problem(k) # <<"none", 0>> => Unfixed(W!Problem(k))
    BY <1>1, FoundIsUnfixed DEF PassFound
  <2> QED  BY <1>3, <2>1 DEF CardsInv
<1>7. ASSUME NEW p  PROVE Unfixed(p)' <=> Unfixed(p)
  BY <1>2 DEF Unfixed, FailedStill, W!Retried, W!Resolves, W!Legible, GivenUp, HeldLong, W!LeaseShown, W!Age,
              Behind, W!CursorStale, W!CursorAt, W!Least
<1>8. previous' \subseteq W!Keys /\ told' \subseteq W!Keys /\ forgot' \in BOOLEAN /\ OneBacklog(previous')
  BY <1>3, <1>4 DEF CardsInv
<1>9. ~forgot' => previous' = told'
  BY <1>3 DEF CardsInv, W!EverythingTold
<1>10. ASSUME NEW p, Unfixed(p), p \notin W!PassedOver(broken)
       PROVE  \/ \E k \in keys : W!Problem(k) = p \/ k = <<"error", 0, W!CheckOf(p)>>
              \/ p[1] = "job" /\ W!Age(records[p[2]].at) > Unresolved
  <2> DEFINE error == <<"error", 0, W!CheckOf(p)>>
  <2>0. W!CheckOf(p) \in W!Checks  BY DEF W!CheckOf, W!Checks
  <2>1. CASE W!CheckOf(p) \in broken
    <3>1. error \in PassFound(broken) \cup {<<"error", 0, c>> : c \in broken}  BY <2>1
    <3>2. error \in W!Keys /\ error[1] # "maint_ready_stale"  BY <1>1, <3>1, KeysTyped
    <3>3. W!Announced(error, previous) = error  BY <3>2 DEF W!Announced
    <3> QED  BY <3>1, <3>3 DEF PassKeys
  <2>2. CASE W!CheckOf(p) \notin broken
    <3>1. CASE \E k \in W!Found(W!CheckOf(p)) : k[1] # "maint_ready_stale" /\ W!Problem(k) = p
      <4>1. PICK k \in W!Found(W!CheckOf(p)) : k[1] # "maint_ready_stale" /\ W!Problem(k) = p  BY <3>1
      <4>2. k \in found  BY <2>0, <2>2 DEF PassFound
      <4>3. W!Announced(k, previous) = k  BY <4>1 DEF W!Announced
      <4>4. k \in keys  BY <4>2, <4>3 DEF PassKeys
      <4> QED  BY <4>1, <4>4
    <3>2. ~(W!CheckOf(p) = "writer" /\ \E j \in DOMAIN records \ W!Legible : p = <<"job", j>>)
      BY <1>10, <2>2 DEF W!PassedOver
    <3> QED  BY <1>1, <1>10, <3>1, <3>2, UnfixedIsFound
  <2> QED  BY <2>1, <2>2
<1>12. ASSUME NEW k \in found, W!Problem(k) # <<"none", 0>>  PROVE k \in keys
  <2>1. k[1] # "maint_ready_stale"  BY <1>12, ProblemIs
  <2>2. W!Announced(k, previous) = k  BY <2>1 DEF W!Announced
  <2> QED  BY <2>2 DEF PassKeys
<1>11. W!NothingReadsAsFixed'
  <2> SUFFICES ASSUME ~forgot', NEW p \in known'
               PROVE  \/ \E k \in told' : W!Problem(k) = p \/ k = <<"error", 0, W!CheckOf(p)>>
                      \/ p[1] = "job" /\ W!Age(records[p[2]].at) > Unresolved
    BY <1>2 DEF W!NothingReadsAsFixed, W!CheckOf, W!Problem, W!Never, W!Age
  <2>1. CASE result = "saved"
    <3>1. told' = keys
      <4>1. CASE delivered  BY <1>3, <4>1
      <4>2. CASE ~delivered
        <5>1. keys = previous /\ told' = told /\ ~forgot  BY <1>3, <2>1, <4>2
        <5> QED  BY <5>1 DEF CardsInv, W!EverythingTold
      <4> QED  BY <4>1, <4>2
    <3>2. CASE \E k \in found : p = W!Problem(k) /\ p # <<"none", 0>>  BY <1>12, <3>1, <3>2
    <3>3. CASE p \in known \ W!PassedOver(broken)
      <4>1. Unfixed(p)  BY <3>3 DEF CardsInv
      <4> QED  BY <1>10, <3>1, <3>3, <4>1
    <3> QED  BY <1>3, <2>1, <3>2, <3>3
  <2>2. CASE result # "saved"
    <3>1. ~delivered  BY <1>3, <2>2
    <3>2. told' = told /\ known' = known /\ ~forgot  BY <1>3, <2>2, <3>1
    <3> QED  BY <3>2 DEF CardsInv, W!NothingReadsAsFixed
  <2> QED  BY <2>1, <2>2
<1> QED
  BY <1>5, <1>6, <1>7, <1>8, <1>9, <1>11 DEF CardsInv, W!EverythingTold, OneBacklog, W!Backlogs

(* Every step keeps it. *)
LEMMA CardsNext == ASSUME W!ConstantsOK PROVE CardsInv /\ [W!Next]_(W!vars) => CardsInv'
<1> SUFFICES ASSUME CardsInv, [W!Next]_(W!vars) PROVE CardsInv'  OBVIOUS
<1>1. CASE UNCHANGED W!vars
  <2>1. UNCHANGED <<hour, records, undone, items, cursor, lease, source, shift, previous, told, forgot, known,
                    moves, faults>>
    BY <1>1 DEF W!vars, W!world, W!book
  <2>2. WatchTypes'  BY <2>1 DEF CardsInv, WatchTypes, W!Never
  <2>3. \A p \in known' : Unfixed(p)'
    BY <2>1, SameProblems DEF CardsInv
  <2>4. hour' >= hour  BY <2>1, RangesAre DEF CardsInv
  <2> QED  BY <2>1, <2>2, <2>3, <2>4, WorldKeeps
<1>2. CASE W!JobsMove  BY <1>2, SubmitKeeps, RevertKeeps, DamagedKeeps, JobMovesKeeps DEF W!JobsMove
<1>3. CASE W!QueueMoves  BY <1>3, QueueStepKeeps, CollectorKeeps DEF W!QueueMoves
<1>4. CASE W!LeaseMoves  BY <1>4, LeaseStepKeeps DEF W!LeaseMoves
<1>5. CASE W!OthersMove  BY <1>5, OthersKeep DEF W!OthersMove
<1>6. CASE W!Watches  BY <1>6, HourKeeps, StateLostKeeps, WatchKeeps DEF W!Watches
<1> QED  BY <1>1, <1>2, <1>3, <1>4, <1>5, <1>6 DEF W!Next

(* What the invariant says of the cards. *)
LEMMA CardsSafe == ASSUME W!ConstantsOK, CardsInv PROVE W!TypeOK /\ W!NothingReadsAsFixed /\ W!EverythingTold
<1>1. WatchTypes  BY DEF CardsInv
<1>2. \A j \in DOMAIN records : records[j] \in JobRecord /\ j \in 1..MaxMoves
  <2>1. records \in Seq(JobRecord) /\ Len(records) <= moves  BY <1>1 DEF WatchTypes
  <2>2. MaxMoves \in Nat /\ moves \in Nat /\ moves <= MaxMoves  BY <1>1, NumbersAre, RangesAre
  <2> QED  BY <2>1, <2>2, ElementOfSeq
<1>3. known \subseteq {"job", "item", "lease", "source", "shift", "repo"} \X Counts
  <2>1. /\ 0 \in Counts /\ (\A n \in 0..MaxItems : n \in Counts) /\ (\A n \in 0..MaxMoves : n \in Counts)
        /\ \A n \in 0..W!Never : n \in Counts
    <3>1. W!Never \in Nat /\ MaxMoves \in Nat /\ MaxItems \in Nat  BY NumbersAre
    <3> QED  BY <3>1 DEF Counts
  <2>2. lease.run \in Counts /\ shift.id \in Counts  BY <1>1, <2>1 DEF WatchTypes
  <2>3. (\A j \in DOMAIN records : j \in Counts) /\ (\A i \in W!Items : i \in Counts)
    BY <1>2, <2>1 DEF W!Items
  <2> QED  BY <2>1, <2>2, <2>3 DEF CardsInv, Unfixed
<1>4. W!TypeOK
  BY <1>1, <1>2, <1>3 DEF CardsInv, WatchTypes, W!TypeOK, JobRecord, Counts
<1> QED  BY <1>4 DEF CardsInv

(* A card that is news. *)
LEMMA NewsOnly ==
    ASSUME W!ConstantsOK, CardsInv, [W!Next]_(W!vars),
           told' # told, previous = told, W!Backlogs(told) # {}, W!Backlogs(told') # {}
    PROVE  \/ told' \ W!Backlogs(told') # told \ W!Backlogs(told)
           \/ \E k \in W!Backlogs(told') : \A l \in W!Backlogs(told) : k[2] > l[2]
<1>1. PICK broken \in SUBSET W!Checks, result \in {"saved", "unsaved", "failed"} : W!Watch(broken, result)
  <2>1. ~UNCHANGED W!vars  BY DEF W!vars, W!book
  <2>2. ~W!JobsMove /\ ~W!QueueMoves /\ ~W!LeaseMoves /\ ~W!OthersMove
    BY DEF W!JobsMove, W!QueueMoves, W!LeaseMoves, W!OthersMove, W!Submit, W!Revert, W!RecordDamaged, W!JobMoves,
           W!NewItem, W!CloseItem, W!OwnerFixes,
           W!ItemDamaged, W!ItemTo, W!CollectorRuns, W!BeginRun, W!RenewRun, W!EndRun, W!ShiftMoves,
           W!LedgerMoves, W!Moves, W!Follows
  <2>3. ~W!HourPasses /\ ~W!StateLost  BY DEF W!HourPasses, W!StateLost, W!book
  <2> QED  BY <2>1, <2>2, <2>3 DEF W!Next, W!Watches
<1>2. told' = PassKeys(broken)  BY <1>1 DEF W!Watch, PassKeys, PassFound
<1>3. PICK k \in W!Backlogs(told') : TRUE  OBVIOUS
<1>4. PICK l \in W!Backlogs(told) : TRUE  OBVIOUS
<1>5. OneBacklog(told) /\ OneBacklog(told')  BY <1>2, PassBacklog DEF CardsInv
<1>6. W!Backlogs(told) = {l} /\ W!Backlogs(told') = {k}  BY <1>3, <1>4, <1>5 DEF OneBacklog
<1>7. k = l \/ k[2] > l[2]  BY <1>2, <1>3, <1>4, PassBacklog
<1>8. CASE k[2] > l[2]  BY <1>6, <1>8
<1>9. CASE k = l
  <2>1. l \in told /\ k \in told'  BY <1>3, <1>4 DEF W!Backlogs
  <2>2. told # told'  OBVIOUS
  <2> QED  BY <1>6, <1>9, <2>1, <2>2
<1> QED  BY <1>7, <1>8, <1>9

-----------------------------------------------------------------------------
(* The intake: what a handler or the worker that stopped between two of its writes has left is    *)
(* part of the invariant, which has a part for each record the service keeps.                     *)

(* The types of a ticket and of a job record. *)
Ticket  == [status: {"absent"} \cup I!Open \cup I!Terminal, job: 0..MaxJobs, intake: 0..MaxJobs]
Record  == [kind: I!Kinds, content: Contents, status: I!Statuses, retryable: BOOLEAN]

(* The stages of a handler that enters a new content, and of the worker with a job in hand. *)
Entering   == {"source", "item", "intake", "job", "codex"}
InHand    == {"commit", "settle", "save", "curate"}

(* A job record is of one content and kind, and only the worker has a running one. *)
JobsOK ==
    /\ lastId \in 0..MaxJobs /\ DOMAIN jobs \subseteq 1..lastId
    /\ \A j \in DOMAIN jobs :
         /\ jobs[j] \in Record
         /\ jobs[j].kind = "inbox" <=> jobs[j].status = "inbox"
         /\ jobs[j].status = "running" => j = at.job /\ at.step \in InHand

(* A ticket names a job of its content, its item and no other's; what has an item has a
   ticket, and a ticket has its job unless a restart cut its handler off. *)
TicketsOK ==
    /\ tickets \in [Contents -> Ticket]
    /\ \A c \in Contents :
         /\ tickets[c].status = "absent" => tickets[c] = I!NoTicket
         /\ tickets[c].job <= lastId
         /\ tickets[c].job \in DOMAIN jobs =>
              /\ tickets[c].job \in I!Members(c)
              /\ jobs[tickets[c].job].kind = "codex" => tickets[c].status = "requeued"
         /\ tickets[c].intake # 0 => tickets[c].intake \in I!Copies(c)
         /\ I!Copies(c) # {} => tickets[c].status # "absent"
         /\ tickets[c].status # "absent" /\ c \notin cut =>
              tickets[c].job \in I!Members(c) \/ (handler.stage \in {"intake", "job"} /\ handler.content = c)

(* A handler enters a content under an id nobody has yet, while every job of the content
   has failed; what it has written so far is there. *)
HandlerOK ==
    /\ handler \in [kind: {"none", "post", "sweep", "requeue"}, content: Contents \cup {NoContent},
                    stage: I!Stages, job: 0..MaxJobs, intake: 0..MaxJobs, pending: SUBSET I!Ids]
    /\ handler.stage = "none" <=> handler.kind = "none"
    /\ handler.pending \subseteq {j \in DOMAIN jobs : jobs[j].kind = "intake"}
    /\ handler.stage \in Entering =>
         /\ handler.content \in Contents /\ handler.job \in 1..lastId /\ handler.job \notin DOMAIN jobs
         /\ \A j \in I!Members(handler.content) : jobs[j].status = "failed"
         /\ \A c \in Contents : tickets[c].job = handler.job => c = handler.content /\ handler.stage \in {"intake", "job"}
    /\ handler.stage \in {"intake", "job"} =>
         tickets[handler.content].job = handler.job /\ tickets[handler.content].status # "absent"
    /\ handler.stage = "job" =>
         /\ handler.intake # 0 => handler.intake \in I!Copies(handler.content)
         /\ handler.content \notin I!Unreadable => handler.intake # 0
    /\ handler.stage = "rewrite" =>
         /\ handler.content \in Contents /\ tickets[handler.content].status = "requeued"
         /\ tickets[handler.content].job \in DOMAIN jobs
         /\ jobs[tickets[handler.content].job].kind = "inbox"

(* The worker runs the job it holds, and holds the title of an item it settles. *)
WorkerOK ==
    /\ at \in [job: 0..MaxJobs, content: Contents \cup {NoContent},
               step: {"rest", "leave", "changeset"} \cup InHand]
    /\ at.step = "rest" => at = I!Resting
    /\ at.step = "changeset" => at.job = 0 /\ at.content \in Contents
    /\ at.step \in InHand =>
         /\ at.job \in DOMAIN jobs /\ jobs[at.job].content = at.content
         /\ jobs[at.job].status = "running"
         /\ at.step \in {"commit", "settle"} => jobs[at.job].kind = "intake"
         /\ at.step = "curate" => jobs[at.job].kind = "codex"
         /\ at.step \in {"settle", "save"} /\ jobs[at.job].kind = "intake" => at.content \in held
         /\ at.step = "save" /\ jobs[at.job].kind = "intake" => tickets[at.content].intake # 0

(* What is queued, answered or finished is a job, and no job that waits is forgotten. *)
QueueOK ==
    /\ queue \subseteq DOMAIN jobs
    /\ \A j \in queue : jobs[j].kind = "intake" \/ (jobs[j].kind = "codex" /\ jobs[j].status = "queued")
    /\ answering \subseteq {j \in DOMAIN jobs : jobs[j].kind = "intake"}
    /\ finished \subseteq DOMAIN jobs /\ I!NeverStranded

(* An accepted content has a job, and an item unless it cannot be read. *)
KeptOK ==
    /\ \A c \in accepted :
         \/ \E j \in I!Members(c) : jobs[j].kind = "codex"
         \/ tickets[c].job \in I!Members(c) /\ (c \notin I!Unreadable => I!Copies(c) # {})
    /\ I!DoneIsHeld

(* The Codex jobs of a content that may still publish, or have. *)
Live(c) == {j \in I!Members(c) : jobs[j].kind = "codex" /\ jobs[j].status # "failed"}

(* A Codex job whose push is through. *)
Published(j) == jobs[j].status = "done" \/ (at.job = j /\ at.step = "save")

(* Who may curate a content shows in its ticket: a maintainer holds it while it proposes,
   and a live Codex job means it was handed on. *)
CuratorsOK ==
    \A c \in Contents :
      /\ I!Proposing(c) => tickets[c].status # "absent"
      /\ I!Proposing(c) /\ c \notin lapsed => tickets[c].status \in {"held", "curated"}
      /\ "maintainer" \in curators[c] /\ c \notin lapsed => tickets[c].status = "curated"
      /\ Live(c) # {} /\ c \notin cut => tickets[c].status \in {"absent", "requeued"}
      /\ "codex" \in curators[c] => \E j \in Live(c) : Published(j)

(* The types of the other variables. *)
RestOK ==
    /\ nature \in [Contents -> I!Natures] /\ mode \in {"inbox", "codex"}
    /\ stored \subseteq Contents /\ held \subseteq Contents /\ proposed \subseteq Contents
    /\ accepted \subseteq Contents /\ cut \subseteq Contents /\ lapsed \subseteq Contents
    /\ curators \in [Contents -> SUBSET {"codex", "maintainer"}]
    /\ retries \in 0..MaxRetries /\ deaths \in 0..MaxDeaths

(* The inductive invariant. *)
IntakeInv == JobsOK /\ TicketsOK /\ HandlerOK /\ WorkerOK /\ QueueOK /\ KeptOK /\ CuratorsOK /\ RestOK

(* What leaves a part's variables alone leaves the part alone. *)
LEMMA Frames ==
    ASSUME IntakeInv
    PROVE  /\ UNCHANGED <<jobs, lastId, at>> => JobsOK'
           /\ UNCHANGED <<tickets, jobs, lastId, handler, cut>> => TicketsOK'
           /\ UNCHANGED <<handler, jobs, lastId, tickets, nature>> => HandlerOK'
           /\ UNCHANGED <<at, jobs, held, tickets>> => WorkerOK'
           /\ UNCHANGED <<queue, jobs, answering, finished, at>> => QueueOK'
           /\ UNCHANGED <<accepted, jobs, tickets, nature, held>> => KeptOK'
           /\ UNCHANGED <<proposed, at, lapsed, tickets, jobs, cut, curators>> => CuratorsOK'
           /\ UNCHANGED <<nature, mode, stored, held, proposed, accepted, cut, lapsed, curators, retries, deaths>> => RestOK'
<1>1. UNCHANGED <<jobs, lastId, at>> => JobsOK'  BY DEF IntakeInv, JobsOK
<1>2. UNCHANGED <<tickets, jobs, lastId, handler, cut>> => TicketsOK'  BY DEF IntakeInv, TicketsOK, I!Members,
        I!Copies
<1>3. UNCHANGED <<handler, jobs, lastId, tickets, nature>> => HandlerOK'  BY DEF IntakeInv, HandlerOK, I!Members,
        I!Copies, I!Unreadable
<1>4. UNCHANGED <<at, jobs, held, tickets>> => WorkerOK'  BY DEF IntakeInv, WorkerOK
<1>5. UNCHANGED <<queue, jobs, answering, finished, at>> => QueueOK'  BY DEF IntakeInv, QueueOK, I!NeverStranded
<1>6. UNCHANGED <<accepted, jobs, tickets, nature, held>> => KeptOK'
  BY DEF IntakeInv, KeptOK, I!DoneIsHeld, I!Intakes, I!Members, I!Copies, I!Unreadable
<1>7. UNCHANGED <<proposed, at, lapsed, tickets, jobs, cut, curators>> => CuratorsOK'
  BY DEF IntakeInv, CuratorsOK, Live, I!Members, I!Proposing, Published
<1>8. UNCHANGED <<nature, mode, stored, held, proposed, accepted, cut, lapsed, curators, retries, deaths>> => RestOK'
  BY DEF IntakeInv, RestOK
<1> QED  BY <1>1, <1>2, <1>3, <1>4, <1>5, <1>6, <1>7, <1>8

(* Nobody holds the lock. *)
LEMMA LockFree ==
    ASSUME I!ConstantsOK, handler' = I!NoHandler
    PROVE  HandlerOK'
<1>1. 0 \in 0..MaxJobs  BY DEF I!ConstantsOK
<1>2. I!NoHandler \in [kind: {"none", "post", "sweep", "requeue"}, content: Contents \cup {NoContent},
                    stage: I!Stages, job: 0..MaxJobs, intake: 0..MaxJobs, pending: SUBSET I!Ids]
  BY <1>1 DEF I!NoHandler, I!Stages
<1> QED  BY <1>2 DEF HandlerOK, I!NoHandler, Entering

(* A job keeps its kind and content. *)
SameJobs ==
    /\ DOMAIN jobs' = DOMAIN jobs
    /\ \A j \in DOMAIN jobs : jobs'[j].kind = jobs[j].kind /\ jobs'[j].content = jobs[j].content

(* Then each content keeps its jobs. *)
LEMMA SameMembers ==
    ASSUME SameJobs
    PROVE  \A c \in Contents : I!Members(c)' = I!Members(c) /\ I!Copies(c)' = I!Copies(c)
  BY DEF SameJobs, I!Members, I!Copies

(* A job record that is written anew. *)
LEMMA OneJobMore ==
    ASSUME NEW j, j \notin DOMAIN jobs, NEW job, jobs' = I!WithJob(j, job)
    PROVE  /\ DOMAIN jobs' = DOMAIN jobs \cup {j}
           /\ jobs'[j] = job /\ \A k \in DOMAIN jobs : jobs'[k] = jobs[k]
           /\ \A c : /\ I!Members(c)' = IF job.content = c /\ job.kind # "intake" THEN I!Members(c) \cup {j} ELSE I!Members(c)
                     /\ I!Copies(c)' = IF job.content = c /\ job.kind = "intake" THEN I!Copies(c) \cup {j} ELSE I!Copies(c)
<1>1. /\ DOMAIN jobs' = DOMAIN jobs \cup {j}
      /\ jobs'[j] = job /\ \A k \in DOMAIN jobs : jobs'[k] = jobs[k]
  BY DEF I!WithJob
<1>2. ASSUME NEW c
      PROVE  I!Members(c)' = IF job.content = c /\ job.kind # "intake" THEN I!Members(c) \cup {j} ELSE I!Members(c)
  BY <1>1 DEF I!Members
<1>3. ASSUME NEW c
      PROVE  I!Copies(c)' = IF job.content = c /\ job.kind = "intake" THEN I!Copies(c) \cup {j} ELSE I!Copies(c)
  BY <1>1 DEF I!Copies
<1> QED  BY <1>1, <1>2, <1>3

(* A new job of a kind, for a content. *)
LEMMA JobAdded ==
    ASSUME NEW j, j \notin DOMAIN jobs, NEW kind \in I!Kinds, NEW d \in Contents, NEW status \in I!Statuses,
           jobs' = I!WithJob(j, I!Job(kind, d, status))
    PROVE  /\ DOMAIN jobs' = DOMAIN jobs \cup {j}
           /\ jobs'[j] \in Record /\ jobs'[j].kind = kind /\ jobs'[j].content = d /\ jobs'[j].status = status
           /\ \A k \in DOMAIN jobs : jobs'[k] = jobs[k]
           /\ \A c : I!Members(c) \subseteq I!Members(c)' /\ I!Copies(c) \subseteq I!Copies(c)'
           /\ \A c : c # d => I!Members(c)' = I!Members(c) /\ I!Copies(c)' = I!Copies(c)
           /\ kind = "intake" => I!Members(d)' = I!Members(d) /\ I!Copies(d)' = I!Copies(d) \cup {j}
           /\ kind # "intake" => I!Copies(d)' = I!Copies(d) /\ I!Members(d)' = I!Members(d) \cup {j}
<1>1. /\ I!Job(kind, d, status).kind = kind /\ I!Job(kind, d, status).content = d
      /\ I!Job(kind, d, status).status = status /\ I!Job(kind, d, status) \in Record
  BY DEF I!Job, Record
<1>2. /\ DOMAIN jobs' = DOMAIN jobs \cup {j}
      /\ jobs'[j] = I!Job(kind, d, status) /\ \A k \in DOMAIN jobs : jobs'[k] = jobs[k]
      /\ \A c : /\ I!Members(c)' = IF d = c /\ kind # "intake" THEN I!Members(c) \cup {j} ELSE I!Members(c)
                /\ I!Copies(c)' = IF d = c /\ kind = "intake" THEN I!Copies(c) \cup {j} ELSE I!Copies(c)
  BY <1>1, OneJobMore
<1>3. \A c : I!Members(c) \subseteq I!Members(c)' /\ I!Copies(c) \subseteq I!Copies(c)'
  <2> SUFFICES ASSUME NEW c PROVE I!Members(c) \subseteq I!Members(c)' /\ I!Copies(c) \subseteq I!Copies(c)'
    OBVIOUS
  <2>1. CASE d = c  BY <1>2, <2>1
  <2>2. CASE d # c  BY <1>2, <2>2
  <2> QED  BY <2>1, <2>2
<1>4. \A c : c # d => I!Members(c)' = I!Members(c) /\ I!Copies(c)' = I!Copies(c)
  BY <1>2
<1>5. /\ kind = "intake" => I!Members(d)' = I!Members(d) /\ I!Copies(d)' = I!Copies(d) \cup {j}
      /\ kind # "intake" => I!Copies(d)' = I!Copies(d) /\ I!Members(d)' = I!Members(d) \cup {j}
  BY <1>2
<1> QED  BY <1>1, <1>2, <1>3, <1>4, <1>5

(* A job whose status is set. *)
LEMMA OneJobSet ==
    ASSUME NEW j \in DOMAIN jobs, jobs[j] \in Record, NEW status \in I!Statuses, NEW retryable \in BOOLEAN,
           I!SetJob(j, status, retryable)
    PROVE  /\ SameJobs
           /\ \A k \in DOMAIN jobs : k # j => jobs'[k] = jobs[k]
           /\ jobs'[j] \in Record /\ jobs'[j].status = status /\ jobs'[j].retryable = retryable
<1>1. /\ DOMAIN jobs' = DOMAIN jobs
      /\ \A k \in DOMAIN jobs : k # j => jobs'[k] = jobs[k]
      /\ jobs'[j] = [kind |-> jobs[j].kind, content |-> jobs[j].content, status |-> status, retryable |-> retryable]
  BY DEF I!SetJob, Record
<1> QED  BY <1>1 DEF SameJobs, Record

(* What follows for the other parts when only statuses of jobs change. *)
LEMMA StatusesMove ==
    ASSUME IntakeInv, SameJobs
    PROVE  /\ UNCHANGED <<tickets, lastId, handler, cut>> => TicketsOK'
           /\ UNCHANGED <<handler, lastId, tickets, nature>>
              /\ (\A k \in DOMAIN jobs : jobs[k].kind # "intake" /\ jobs[k].status = "failed" => jobs'[k].status = "failed")
              => HandlerOK'
           /\ UNCHANGED <<accepted, tickets, nature, held>>
              /\ (\A k \in DOMAIN jobs : jobs[k].kind = "intake" /\ jobs'[k].status = "done" =>
                     jobs[k].content \in held /\ tickets[jobs[k].content].intake # 0)
              => KeptOK'
           /\ UNCHANGED <<proposed, lapsed, tickets, cut, curators>> /\ (\A c \in Contents : I!Proposing(c)' => I!Proposing(c))
              /\ (\A k \in DOMAIN jobs : jobs[k].kind = "codex" =>
                     /\ jobs[k].status = "failed" => jobs'[k].status = "failed"
                     /\ Published(k) => jobs'[k].status = "done" \/ (at'.job = k /\ at'.step = "save" /\ jobs'[k].status # "failed"))
              => CuratorsOK'
<1>1. \A c \in Contents : I!Members(c)' = I!Members(c) /\ I!Copies(c)' = I!Copies(c)
  BY SameMembers
<1>2. UNCHANGED <<tickets, lastId, handler, cut>> => TicketsOK'
  BY <1>1 DEF IntakeInv, TicketsOK, SameJobs
<1>3. ASSUME UNCHANGED <<handler, lastId, tickets, nature>>,
             \A k \in DOMAIN jobs : jobs[k].kind # "intake" /\ jobs[k].status = "failed" => jobs'[k].status = "failed"
      PROVE  HandlerOK'
  <2>1. I!Unreadable' = I!Unreadable  BY <1>3 DEF I!Unreadable
  <2>2. \A c \in Contents : (\A j \in I!Members(c) : jobs[j].status = "failed")
            => \A j \in I!Members(c)' : jobs'[j].status = "failed"
    BY <1>1, <1>3 DEF I!Members
  <2>3. handler.stage = "job" => handler.content \in Contents
    BY DEF IntakeInv, HandlerOK, Entering
  <2>4. handler'.pending \subseteq {j \in DOMAIN jobs' : jobs'[j].kind = "intake"}
    BY <1>3 DEF IntakeInv, HandlerOK, SameJobs
  <2> QED  BY <1>1, <1>3, <2>1, <2>2, <2>3, <2>4 DEF IntakeInv, HandlerOK, SameJobs
<1>4. ASSUME UNCHANGED <<accepted, tickets, nature, held>>,
             \A k \in DOMAIN jobs : jobs[k].kind = "intake" /\ jobs'[k].status = "done" =>
                     jobs[k].content \in held /\ tickets[jobs[k].content].intake # 0
      PROVE  KeptOK'
  <2>1. accepted \subseteq Contents /\ I!Unreadable' = I!Unreadable  BY <1>4 DEF IntakeInv, RestOK, I!Unreadable
  <2>2. I!DoneIsHeld'  BY <1>4 DEF I!DoneIsHeld, I!Intakes, SameJobs
  <2>3. \A c \in Contents : (\E j \in I!Members(c) : jobs[j].kind = "codex")
            => \E j \in I!Members(c)' : jobs'[j].kind = "codex"
    BY <1>1 DEF SameJobs, I!Members
  <2> QED  BY <1>1, <1>4, <2>1, <2>2, <2>3 DEF IntakeInv, KeptOK
<1>5. ASSUME UNCHANGED <<proposed, lapsed, tickets, cut, curators>>, \A c \in Contents : I!Proposing(c)' => I!Proposing(c),
             \A k \in DOMAIN jobs : jobs[k].kind = "codex" =>
                     /\ jobs[k].status = "failed" => jobs'[k].status = "failed"
                     /\ Published(k) => jobs'[k].status = "done" \/ (at'.job = k /\ at'.step = "save" /\ jobs'[k].status # "failed")
      PROVE  CuratorsOK'
  <2> SUFFICES ASSUME NEW c \in Contents
               PROVE  /\ Live(c)' # {} => Live(c) # {}
                      /\ "codex" \in curators[c] => \E j \in Live(c)' : Published(j)'
    BY <1>5 DEF IntakeInv, CuratorsOK
  <2>1. Live(c)' \subseteq Live(c)  BY <1>1, <1>5 DEF Live, SameJobs, I!Members
  <2>2. ASSUME "codex" \in curators[c] PROVE \E j \in Live(c)' : Published(j)'
    <3>1. PICK j \in Live(c) : Published(j)  BY <2>2 DEF IntakeInv, CuratorsOK
    <3>2. j \in Live(c)' /\ Published(j)'  BY <1>1, <1>5, <3>1 DEF Live, SameJobs, I!Members, Published
    <3> QED  BY <3>2
  <2> QED  BY <2>1, <2>2
<1> QED  BY <1>2, <1>3, <1>4, <1>5

-----------------------------------------------------------------------------

(* A submission of a content no live job holds takes the lock. *)
LEMMA PostStep ==
    ASSUME I!ConstantsOK, IntakeInv, NEW c \in Contents, I!Post(c)
    PROVE  IntakeInv'
<1>0. I!ConstantsOK /\ IntakeInv  OBVIOUS
<1>1. WorkerOK' /\ QueueOK' /\ KeptOK' /\ CuratorsOK' /\ RestOK'
  BY <1>0, Frames DEF IntakeInv, I!Post, I!Hold, I!Free
<1>2. JobsOK'
  BY <1>0 DEF IntakeInv, I!Post, JobsOK, I!ConstantsOK
<1>3. TicketsOK'
  BY <1>0 DEF IntakeInv, I!Post, I!Free, TicketsOK, Ticket, I!Members, I!Copies, HandlerOK, JobsOK
<1>4. HandlerOK'
  <2>1. /\ handler' = [kind |-> "post", content |-> c, stage |-> "source", job |-> lastId + 1, intake |-> 0,
                       pending |-> {}]
        /\ lastId' = lastId + 1 /\ UNCHANGED <<jobs, tickets, nature>> /\ lastId < MaxJobs
    BY DEF I!Post, I!Hold, I!NoHandler
  <2>2. lastId \in Nat /\ MaxJobs \in Nat /\ lastId + 1 \notin DOMAIN jobs
    BY <1>0 DEF IntakeInv, JobsOK, I!ConstantsOK
  <2>3. \A j \in I!Members(c) : jobs[j].status = "failed"
    BY <1>0 DEF I!Post, I!Reusable, I!Members, IntakeInv, JobsOK, Record, I!Statuses
  <2>4. \A d \in Contents : tickets[d].job # lastId + 1
    BY <1>0, <2>2 DEF IntakeInv, TicketsOK, Ticket
  <2>5. \A j \in I!Members(c)' : jobs'[j].status = "failed"
    BY <2>1, <2>3 DEF I!Members
  <2> QED  BY <2>1, <2>2, <2>4, <2>5 DEF HandlerOK, Entering, I!Stages
<1> QED  BY <1>1, <1>2, <1>3, <1>4 DEF IntakeInv

(* Its bytes are stored. *)
LEMMA WriteSourceStep ==
    ASSUME I!ConstantsOK, IntakeInv, I!WriteSource
    PROVE  IntakeInv'
<1>0. I!ConstantsOK /\ IntakeInv  OBVIOUS
<1>1. JobsOK' /\ WorkerOK' /\ QueueOK' /\ KeptOK' /\ CuratorsOK'
  BY <1>0, Frames DEF IntakeInv, I!WriteSource, I!NextStage
<1>2. TicketsOK'
  BY <1>0 DEF IntakeInv, I!WriteSource, TicketsOK, I!Members, I!Copies
<1>3. HandlerOK'
  BY <1>0 DEF IntakeInv, I!WriteSource, I!NextStage, HandlerOK, Entering, I!Stages, I!Members
<1>4. RestOK'
  BY <1>0 DEF IntakeInv, I!WriteSource, RestOK, HandlerOK, Entering
<1> QED  BY <1>1, <1>2, <1>3, <1>4 DEF IntakeInv

(* A file that somebody copies into the inbox. *)
LEMMA DropStep ==
    ASSUME I!ConstantsOK, IntakeInv, NEW c \in Contents, I!Drop(c)
    PROVE  IntakeInv'
<1>0. I!ConstantsOK /\ IntakeInv  OBVIOUS
<1>1. JobsOK' /\ TicketsOK' /\ HandlerOK' /\ WorkerOK' /\ QueueOK' /\ KeptOK' /\ CuratorsOK'
  BY <1>0, Frames DEF IntakeInv, I!Drop
<1>2. RestOK'
  BY <1>0 DEF IntakeInv, I!Drop, RestOK
<1> QED  BY <1>1, <1>2 DEF IntakeInv

(* Its ticket gets the item. *)
LEMMA EnterItemStep ==
    ASSUME I!ConstantsOK, IntakeInv, I!EnterItem
    PROVE  IntakeInv'
<1>0. I!ConstantsOK /\ IntakeInv  OBVIOUS
<1>a. /\ handler.content \in Contents /\ handler.job \in 1..lastId /\ handler.job \notin DOMAIN jobs
      /\ \A j \in I!Members(handler.content) : jobs[j].status = "failed"
      /\ \A c \in Contents : tickets[c].job # handler.job
  BY <1>0 DEF IntakeInv, HandlerOK, Entering, I!EnterItem
<1>j. PICK n, d, ticket : n = handler.job /\ d = handler.content /\ ticket = I!Entered(tickets[d], d, n)
  OBVIOUS
<1>b. /\ tickets[d] \in Ticket /\ n \in 0..MaxJobs /\ n \in Nat /\ lastId \in Nat /\ MaxJobs \in Nat
      /\ tickets[d].status = "absent" => tickets[d].intake = 0
  BY <1>0, <1>a, <1>j DEF IntakeInv, TicketsOK, JobsOK, I!NoTicket, I!ConstantsOK
<1>c. /\ ticket \in Ticket /\ ticket.job = n /\ ticket.intake = tickets[d].intake /\ ticket.status # "absent"
      /\ ticket.status # tickets[d].status => tickets[d].status \in {"absent", "requeued"}
  <2>1. CASE tickets[d].status = "absent"
    <3>1. ticket = [status |-> IF d \in I!Unreadable THEN "closed" ELSE "ready", job |-> n, intake |-> 0]
      BY <1>j, <2>1 DEF I!Entered, I!NoTicket
    <3> QED  BY <1>b, <2>1, <3>1 DEF Ticket, I!Open, I!Terminal
  <2>2. CASE tickets[d].status = "requeued"
    <3>1. ticket = [status |-> "ready", job |-> n, intake |-> tickets[d].intake]
      BY <1>j, <1>b, <2>2 DEF I!Entered, Ticket
    <3> QED  BY <1>b, <2>2, <3>1 DEF Ticket, I!Open, I!Terminal
  <2>3. CASE tickets[d].status \notin {"absent", "requeued"}
    <3>1. ticket = [status |-> tickets[d].status, job |-> n, intake |-> tickets[d].intake]
      BY <1>j, <1>b, <2>3 DEF I!Entered, Ticket
    <3> QED  BY <1>b, <2>3, <3>1 DEF Ticket
  <2> QED  BY <2>1, <2>2, <2>3
<1>d. /\ tickets' = [tickets EXCEPT ![d] = ticket] /\ tickets \in [Contents -> Ticket]
      /\ handler' = [kind |-> handler.kind, content |-> d, job |-> n, intake |-> ticket.intake,
                     stage |-> IF d \in I!Unreadable \/ ticket.intake # 0 THEN "job" ELSE "intake",
                     pending |-> handler.pending]
      /\ UNCHANGED <<nature, mode, stored, jobs, lastId, answering, queue, finished, at, held, curators,
                     proposed, accepted, cut, lapsed, retries, deaths>>
  BY <1>0, <1>j DEF I!EnterItem, IntakeInv, HandlerOK, TicketsOK
<1>e. /\ tickets'[d] = ticket /\ \A c \in Contents : c # d => tickets'[c] = tickets[c]
      /\ tickets' \in [Contents -> Ticket]
      /\ handler'.stage \in {"intake", "job"} /\ handler'.content = d /\ handler'.job = n
      /\ handler'.intake = ticket.intake /\ handler'.kind = handler.kind /\ handler'.pending = handler.pending
  BY <1>a, <1>j, <1>c, <1>d
<1>f. \A c : I!Members(c)' = I!Members(c) /\ I!Copies(c)' = I!Copies(c)
  BY <1>d DEF I!Members, I!Copies
<1>g. \A c \in Contents : tickets'[c].intake = tickets[c].intake
  BY <1>c, <1>e
<1>1. JobsOK' /\ QueueOK' /\ RestOK'
  BY <1>0, Frames DEF IntakeInv, I!EnterItem, I!Entered
<1>2. TicketsOK'
  <2> SUFFICES ASSUME NEW c \in Contents
               PROVE  /\ tickets'[c].status = "absent" => tickets'[c] = I!NoTicket
                      /\ tickets'[c].job <= lastId
                      /\ tickets'[c].job \in DOMAIN jobs =>
                           /\ tickets'[c].job \in I!Members(c)
                           /\ jobs[tickets'[c].job].kind = "codex" => tickets'[c].status = "requeued"
                      /\ tickets'[c].intake # 0 => tickets'[c].intake \in I!Copies(c)
                      /\ I!Copies(c) # {} => tickets'[c].status # "absent"
                      /\ tickets'[c].status # "absent" /\ c \notin cut =>
                           tickets'[c].job \in I!Members(c) \/ (handler'.stage \in {"intake", "job"} /\ handler'.content = c)
    BY <1>d, <1>e, <1>f DEF TicketsOK
  <2>1. CASE c = d
    BY <1>0, <1>a, <1>j, <1>b, <1>c, <1>e, <2>1 DEF IntakeInv, TicketsOK
  <2>2. CASE c # d
    BY <1>0, <1>e, <2>2 DEF IntakeInv, TicketsOK, I!EnterItem
  <2> QED  BY <2>1, <2>2
<1>3. HandlerOK'
  <2>1. /\ handler' \in [kind: {"none", "post", "sweep", "requeue"}, content: Contents \cup {NoContent},
                         stage: I!Stages, job: 0..MaxJobs, intake: 0..MaxJobs, pending: SUBSET I!Ids]
        /\ handler'.kind # "none" /\ handler.pending \subseteq {j \in DOMAIN jobs : jobs[j].kind = "intake"}
    BY <1>0, <1>a, <1>j, <1>b, <1>c, <1>d DEF IntakeInv, HandlerOK, I!EnterItem, I!Stages, Ticket
  <2>2. \A j \in I!Members(d)' : jobs'[j].status = "failed"
    BY <1>a, <1>j, <1>d, <1>f
  <2>3. \A c \in Contents : tickets'[c].job = n => c = d
    BY <1>a, <1>j, <1>e
  <2>4. I!Unreadable' = I!Unreadable /\ (ticket.intake # 0 => ticket.intake \in I!Copies(d))
    BY <1>0, <1>a, <1>j, <1>c, <1>d DEF I!Unreadable, IntakeInv, TicketsOK
  <2>5. handler'.stage = "job" => ticket.intake # 0 \/ d \in I!Unreadable
    BY <1>d
  <2> QED  BY <1>a, <1>j, <1>c, <1>d, <1>e, <1>f, <2>1, <2>2, <2>3, <2>4, <2>5 DEF HandlerOK, Entering
<1>4. WorkerOK'
  <2>1. at.step = "save" /\ jobs[at.job].kind = "intake" => at.content \in Contents
    BY <1>0 DEF IntakeInv, WorkerOK, InHand, JobsOK, Record
  <2> QED  BY <1>0, <1>d, <1>g, <2>1 DEF IntakeInv, WorkerOK, InHand
<1>5. KeptOK'
  <2>1. I!DoneIsHeld'
    BY <1>0, <1>d, <1>g DEF IntakeInv, JobsOK, Record, KeptOK, I!DoneIsHeld, I!Intakes
  <2>2. d \in accepted => \E j \in I!Members(d) : jobs[j].kind = "codex"
    BY <1>0, <1>a, <1>j DEF IntakeInv, KeptOK, JobsOK, I!Members, Record, I!Kinds
  <2>3. accepted \subseteq Contents /\ I!Unreadable' = I!Unreadable
    BY <1>0, <1>d DEF IntakeInv, RestOK, I!Unreadable
  <2> QED  BY <1>0, <1>d, <1>e, <1>f, <2>1, <2>2, <2>3 DEF IntakeInv, KeptOK
<1>6. CuratorsOK'
  <2>1. \A c : I!Proposing(c)' = I!Proposing(c) /\ Live(c)' = Live(c)
    BY <1>d, <1>f DEF I!Proposing, Live, I!Members
  <2>2. \A j : Published(j)' = Published(j)
    BY <1>d DEF Published
  <2>3. Live(d) = {}
    BY <1>a, <1>j DEF Live
  <2>4. ticket.status # tickets[d].status => tickets[d].status \notin {"held", "curated"}
    BY <1>c
  <2> QED  BY <1>0, <1>a, <1>j, <1>c, <1>d, <1>e, <2>1, <2>2, <2>3, <2>4 DEF IntakeInv, CuratorsOK
<1> QED  BY <1>1, <1>2, <1>3, <1>4, <1>5, <1>6 DEF IntakeInv

(* The intake job of its item is written. *)
LEMMA NewIntakeStep ==
    ASSUME I!ConstantsOK, IntakeInv, I!NewIntake
    PROVE  IntakeInv'
<1>0. I!ConstantsOK /\ IntakeInv  OBVIOUS
<1>a. /\ handler.content \in Contents /\ handler.job \in 1..lastId /\ handler.job \notin DOMAIN jobs
      /\ tickets[handler.content].status # "absent"
  BY <1>0 DEF IntakeInv, HandlerOK, Entering, I!NewIntake
<1>b. lastId \in Nat /\ MaxJobs \in Nat /\ lastId + 1 \in 1..MaxJobs /\ lastId + 1 \notin DOMAIN jobs
  BY <1>0 DEF IntakeInv, JobsOK, I!NewIntake, I!ConstantsOK
<1>j. PICK n, d : n = lastId + 1 /\ d = handler.content
  OBVIOUS
<1>c. /\ DOMAIN jobs' = DOMAIN jobs \cup {n}
      /\ jobs'[n] \in Record /\ jobs'[n].kind = "intake" /\ jobs'[n].content = d /\ jobs'[n].status = "queued"
      /\ \A k \in DOMAIN jobs : jobs'[k] = jobs[k]
      /\ \A c : I!Members(c) \subseteq I!Members(c)' /\ I!Copies(c) \subseteq I!Copies(c)'
      /\ \A c : c # d => I!Members(c)' = I!Members(c) /\ I!Copies(c)' = I!Copies(c)
      /\ I!Members(d)' = I!Members(d) /\ I!Copies(d)' = I!Copies(d) \cup {n}
  <2>1. /\ "intake" \in I!Kinds /\ "queued" \in I!Statuses /\ d \in Contents /\ n \notin DOMAIN jobs
        /\ jobs' = I!WithJob(n, I!Job("intake", d, "queued"))
    BY <1>a, <1>b, <1>j DEF I!NewIntake, I!Kinds, I!Statuses
  <2> QED  BY <2>1, JobAdded, Zenon
<1>d. /\ lastId' = lastId + 1
      /\ handler' = [kind |-> handler.kind, content |-> handler.content, stage |-> "job", job |-> handler.job,
                     intake |-> lastId + 1, pending |-> handler.pending]
      /\ UNCHANGED <<nature, mode, stored, tickets, answering, queue, finished, at, held, curators,
                   proposed, accepted, cut, lapsed, retries, deaths>>
  BY <1>0 DEF I!NewIntake, IntakeInv, HandlerOK
<1>1. RestOK'
  BY <1>0, Frames DEF IntakeInv, I!NewIntake, I!Job
<1>2. JobsOK'
  BY <1>0, <1>b, <1>j, <1>c, <1>d DEF IntakeInv, JobsOK
<1>3. TicketsOK'
  <2> SUFFICES ASSUME NEW c \in Contents
               PROVE  /\ tickets[c].job <= lastId + 1
                      /\ tickets[c].job \in DOMAIN jobs' => tickets[c].job \in DOMAIN jobs
                      /\ tickets[c].intake # 0 => tickets[c].intake \in I!Copies(c)'
                      /\ I!Copies(c)' # {} => tickets[c].status # "absent"
    BY <1>0, <1>j, <1>c, <1>d DEF IntakeInv, TicketsOK, I!NewIntake
  <2>1. tickets[c].job \in Nat /\ tickets[c].job <= lastId
    BY <1>0 DEF IntakeInv, TicketsOK, Ticket
  <2>2. I!Copies(c)' # {} => tickets[c].status # "absent"
    BY <1>0, <1>a, <1>j, <1>c DEF IntakeInv, TicketsOK
  <2> QED  BY <1>0, <1>b, <1>j, <1>c, <2>1, <2>2 DEF IntakeInv, TicketsOK
<1>4. HandlerOK'
  <2>1. \A j \in I!Members(d)' : jobs'[j].status = "failed"
    BY <1>0, <1>j, <1>c DEF IntakeInv, HandlerOK, Entering, I!Members, I!NewIntake
  <2>2. handler.pending \subseteq {j \in DOMAIN jobs' : jobs'[j].kind = "intake"}
    BY <1>0, <1>j, <1>c DEF IntakeInv, HandlerOK
  <2> QED  BY <1>0, <1>a, <1>b, <1>j, <1>c, <1>d, <2>1, <2>2 DEF IntakeInv, HandlerOK, Entering, I!Stages,
              I!NewIntake
<1>5. WorkerOK'
  BY <1>0, <1>j, <1>c, <1>d DEF IntakeInv, WorkerOK
<1>6. QueueOK'
  BY <1>0, <1>j, <1>c, <1>d DEF IntakeInv, QueueOK, I!NeverStranded
<1>7. KeptOK'
  <2>1. I!DoneIsHeld'  BY <1>0, <1>j, <1>c, <1>d DEF IntakeInv, KeptOK, I!DoneIsHeld, I!Intakes
  <2>2. \A c : (\E j \in I!Members(c) : jobs[j].kind = "codex") => \E j \in I!Members(c)' : jobs'[j].kind = "codex"
    BY <1>c DEF I!Members
  <2>3. I!Unreadable' = I!Unreadable  BY <1>d DEF I!Unreadable
  <2> QED  BY <1>0, <1>j, <1>c, <1>d, <2>1, <2>2, <2>3 DEF IntakeInv, KeptOK
<1>8. CuratorsOK'
  <2>1. \A c : Live(c)' = Live(c)
    BY <1>c DEF Live, I!Members
  <2>2. \A c : I!Proposing(c)' = I!Proposing(c)
    BY <1>d DEF I!Proposing
  <2>3. \A c : \A j \in Live(c) : Published(j)' = Published(j)
    BY <1>c, <1>d DEF Live, I!Members, Published
  <2> QED  BY <1>0, <1>d, <2>1, <2>2, <2>3 DEF IntakeInv, CuratorsOK
<1> QED  BY <1>1, <1>2, <1>3, <1>4, <1>5, <1>6, <1>7, <1>8 DEF IntakeInv

(* Its inbox job is written. *)
LEMMA WriteJobStep ==
    ASSUME I!ConstantsOK, IntakeInv, I!WriteJob
    PROVE  IntakeInv'
<1>0. I!ConstantsOK /\ IntakeInv  OBVIOUS
<1>a. /\ handler.content \in Contents /\ handler.job \in 1..lastId /\ handler.job \notin DOMAIN jobs
      /\ tickets[handler.content].job = handler.job /\ tickets[handler.content].status # "absent"
      /\ \A c \in Contents : tickets[c].job = handler.job => c = handler.content
      /\ handler.intake # 0 => handler.intake \in I!Copies(handler.content)
      /\ handler.content \notin I!Unreadable => handler.intake # 0
  BY <1>0 DEF IntakeInv, HandlerOK, Entering, I!WriteJob
<1>j. PICK n, d : n = handler.job /\ d = handler.content
  OBVIOUS
<1>c. /\ DOMAIN jobs' = DOMAIN jobs \cup {n}
      /\ jobs'[n] \in Record /\ jobs'[n].kind = "inbox" /\ jobs'[n].content = d /\ jobs'[n].status = "inbox"
      /\ \A k \in DOMAIN jobs : jobs'[k] = jobs[k]
      /\ \A c : I!Members(c) \subseteq I!Members(c)' /\ I!Copies(c) \subseteq I!Copies(c)'
      /\ \A c : c # d => I!Members(c)' = I!Members(c) /\ I!Copies(c)' = I!Copies(c)
      /\ I!Copies(d)' = I!Copies(d) /\ I!Members(d)' = I!Members(d) \cup {n}
  <2>1. /\ "inbox" \in I!Kinds /\ "inbox" \in I!Statuses /\ d \in Contents /\ n \notin DOMAIN jobs
        /\ jobs' = I!WithJob(n, I!Job("inbox", d, "inbox"))
    BY <1>a, <1>j DEF I!WriteJob, I!Kinds, I!Statuses
  <2>2. "inbox" # "intake"  OBVIOUS
  <2> QED  BY <2>1, <2>2, JobAdded, Zenon
<1>d. \A c : I!Copies(c)' = I!Copies(c) /\ (c # d => I!Members(c)' = I!Members(c))
  BY <1>c
<1>e. handler' = I!NoHandler /\ accepted' = accepted \cup {d}
      /\ UNCHANGED <<nature, mode, stored, tickets, lastId, at, held, curators, proposed, cut, lapsed,
                     retries, deaths>>
  BY <1>j DEF I!WriteJob
<1>1. TRUE
  BY <1>0, Frames DEF IntakeInv, I!WriteJob, I!Job
<1>2. JobsOK'
  BY <1>0, <1>a, <1>j, <1>c, <1>e DEF IntakeInv, JobsOK
<1>3. TicketsOK'
  <2> SUFFICES ASSUME NEW c \in Contents
               PROVE  /\ tickets[c].job \in DOMAIN jobs' =>
                            /\ tickets[c].job \in I!Members(c)'
                            /\ jobs'[tickets[c].job].kind = "codex" => tickets[c].status = "requeued"
                      /\ tickets[c].status # "absent" /\ c \notin cut => tickets[c].job \in I!Members(c)'
    BY <1>0, <1>d, <1>e DEF IntakeInv, TicketsOK
  <2>1. CASE c = d
    BY <1>a, <1>j, <1>c, <2>1
  <2>2. CASE c # d
    BY <1>0, <1>a, <1>j, <1>c, <2>2 DEF IntakeInv, TicketsOK
  <2> QED  BY <2>1, <2>2
<1>4. HandlerOK'
  BY <1>0, <1>e, LockFree
<1>5. WorkerOK'
  BY <1>0, <1>c, <1>e DEF IntakeInv, WorkerOK
<1>6. QueueOK'
  <2>1. \A i \in {handler.intake} \ {0} : i \in DOMAIN jobs /\ jobs[i].kind = "intake"
    BY <1>a DEF I!Copies
  <2>2. CASE handler.kind = "post"
    <3>1. answering' \subseteq answering \cup ({handler.intake} \ {0}) /\ UNCHANGED <<queue, finished>>
      BY <2>2 DEF I!WriteJob
    <3> QED  BY <1>0, <1>c, <1>e, <2>1, <3>1 DEF IntakeInv, QueueOK, I!NeverStranded
  <2>3. CASE handler.kind # "post"
    <3>1. /\ queue' = queue \cup ({handler.intake} \ {0}) /\ finished' = finished \cup ({handler.intake} \ {0})
          /\ answering' = answering
      BY <2>3 DEF I!WriteJob
    <3> QED  BY <1>0, <1>c, <1>e, <2>1, <3>1 DEF IntakeInv, QueueOK, I!NeverStranded
  <2> QED  BY <2>2, <2>3
<1>7. KeptOK'
  <2>1. I!DoneIsHeld'  BY <1>0, <1>c, <1>e DEF IntakeInv, KeptOK, I!DoneIsHeld, I!Intakes
  <2>2. \A c : (\E j \in I!Members(c) : jobs[j].kind = "codex") => \E j \in I!Members(c)' : jobs'[j].kind = "codex"
    BY <1>c DEF I!Members
  <2>3. I!Unreadable' = I!Unreadable  BY <1>e DEF I!Unreadable
  <2>4. tickets[d].job \in I!Members(d)' /\ (d \notin I!Unreadable => I!Copies(d) # {})
    BY <1>a, <1>j, <1>c
  <2> QED  BY <1>0, <1>c, <1>d, <1>e, <2>1, <2>2, <2>3, <2>4 DEF IntakeInv, KeptOK
<1>8. CuratorsOK'
  <2>1. \A c : Live(c)' = Live(c)
    BY <1>a, <1>j, <1>c, <1>d DEF Live, I!Members
  <2>2. \A c : I!Proposing(c)' = I!Proposing(c)
    BY <1>e DEF I!Proposing
  <2>3. \A c : \A j \in Live(c) : Published(j)' = Published(j)
    BY <1>c, <1>e DEF Live, I!Members, Published
  <2> QED  BY <1>0, <1>e, <2>1, <2>2, <2>3 DEF IntakeInv, CuratorsOK
<1>9. RestOK'
  BY <1>0, <1>a, <1>j, <1>e DEF IntakeInv, RestOK
<1> QED  BY <1>1, <1>2, <1>3, <1>4, <1>5, <1>6, <1>7, <1>8, <1>9 DEF IntakeInv

(* A POST hands its intake job to the worker. *)
LEMMA HandOverStep ==
    ASSUME I!ConstantsOK, IntakeInv, NEW j \in I!Ids, I!HandOver(j)
    PROVE  IntakeInv'
<1>0. I!ConstantsOK /\ IntakeInv  OBVIOUS
<1>1. JobsOK' /\ TicketsOK' /\ HandlerOK' /\ WorkerOK' /\ KeptOK' /\ CuratorsOK' /\ RestOK'
  BY <1>0, Frames DEF IntakeInv, I!HandOver
<1>2. QueueOK'
  BY <1>0 DEF IntakeInv, I!HandOver, QueueOK, I!NeverStranded
<1> QED  BY <1>1, <1>2 DEF IntakeInv

(* Without the inbox its one job is written, and queued if it can be read. *)
LEMMA NewJobStep ==
    ASSUME I!ConstantsOK, IntakeInv, I!NewJob
    PROVE  IntakeInv'
<1>0. I!ConstantsOK /\ IntakeInv  OBVIOUS
<1>a. /\ handler.content \in Contents /\ handler.job \in 1..lastId /\ handler.job \notin DOMAIN jobs
      /\ \A c \in Contents : tickets[c].job # handler.job
      /\ \A j \in I!Members(handler.content) : jobs[j].status = "failed"
  BY <1>0 DEF IntakeInv, HandlerOK, Entering, I!NewJob
<1>j. PICK n, d, status : /\ n = handler.job /\ d = handler.content
                          /\ status = IF handler.content \notin I!Unreadable THEN "queued" ELSE "needs_conversion"
  OBVIOUS
<1>c. /\ DOMAIN jobs' = DOMAIN jobs \cup {n}
      /\ jobs'[n] \in Record /\ jobs'[n].kind = "codex" /\ jobs'[n].content = d /\ jobs'[n].status = status
      /\ \A k \in DOMAIN jobs : jobs'[k] = jobs[k]
      /\ \A c : I!Members(c) \subseteq I!Members(c)' /\ I!Copies(c) \subseteq I!Copies(c)'
      /\ \A c : c # d => I!Members(c)' = I!Members(c) /\ I!Copies(c)' = I!Copies(c)
      /\ I!Copies(d)' = I!Copies(d) /\ I!Members(d)' = I!Members(d) \cup {n}
  <2>1. /\ "codex" \in I!Kinds /\ status \in I!Statuses /\ d \in Contents /\ n \notin DOMAIN jobs
        /\ jobs' = I!WithJob(n, I!Job("codex", d, status))
    BY <1>a, <1>j DEF I!NewJob, I!Kinds, I!Statuses
  <2>2. "codex" # "intake"  OBVIOUS
  <2> QED  BY <2>1, <2>2, JobAdded, Zenon
<1>d. \A c : I!Copies(c)' = I!Copies(c) /\ (c # d => I!Members(c)' = I!Members(c))
  BY <1>c
<1>e. /\ handler' = I!NoHandler /\ accepted' = accepted \cup {d}
      /\ queue' = IF status = "queued" THEN queue \cup {n} ELSE queue
      /\ UNCHANGED <<nature, mode, stored, tickets, lastId, answering, finished, at, held, curators,
                     proposed, cut, lapsed, retries, deaths>>
  BY <1>j DEF I!NewJob
<1>1. TRUE
  BY <1>0, Frames DEF IntakeInv, I!NewJob, I!Job
<1>2. JobsOK'
  BY <1>0, <1>a, <1>j, <1>c, <1>e DEF IntakeInv, JobsOK
<1>3. TicketsOK'
  <2>1. \A c \in Contents : tickets[c].job \in DOMAIN jobs' => tickets[c].job \in DOMAIN jobs
    BY <1>a, <1>j, <1>c
  <2>2. handler.stage = "codex"  BY DEF I!NewJob
  <2> QED  BY <1>0, <1>c, <1>d, <1>e, <2>1, <2>2 DEF IntakeInv, TicketsOK
<1>4. HandlerOK'
  BY <1>0, <1>e, LockFree
<1>5. WorkerOK'
  BY <1>0, <1>c, <1>e DEF IntakeInv, WorkerOK
<1>6. QueueOK'
  BY <1>0, <1>c, <1>e DEF IntakeInv, QueueOK, I!NeverStranded
<1>7. KeptOK'
  <2>1. I!DoneIsHeld'  BY <1>0, <1>c, <1>e DEF IntakeInv, KeptOK, I!DoneIsHeld, I!Intakes
  <2>2. \A c : (\E j \in I!Members(c) : jobs[j].kind = "codex") => \E j \in I!Members(c)' : jobs'[j].kind = "codex"
    BY <1>c DEF I!Members
  <2>3. I!Unreadable' = I!Unreadable  BY <1>e DEF I!Unreadable
  <2>4. \E j \in I!Members(d)' : jobs'[j].kind = "codex"
    BY <1>c
  <2> QED  BY <1>0, <1>c, <1>d, <1>e, <2>1, <2>2, <2>3, <2>4 DEF IntakeInv, KeptOK
<1>8. CuratorsOK'
  (* A content that has an item and no live job was requeued before. *)
  <2>1. d \notin cut => tickets[d].status \in {"absent", "requeued"}
    <3> SUFFICES ASSUME d \notin cut, tickets[d].status # "absent"
                 PROVE  tickets[d].status = "requeued"
      OBVIOUS
    <3>1. tickets[d].job \in I!Members(d)
      BY <1>0, <1>a, <1>j DEF IntakeInv, TicketsOK, I!NewJob
    <3>2. jobs[tickets[d].job].status = "failed"
      BY <1>a, <1>j, <3>1
    <3>3. jobs[tickets[d].job].kind = "codex"
      BY <1>0, <3>1, <3>2 DEF IntakeInv, JobsOK, I!Members, Record, I!Kinds
    <3> QED  BY <1>0, <1>a, <1>j, <3>1, <3>3 DEF IntakeInv, TicketsOK, I!Members
  <2>2. \A c : Live(c) \subseteq Live(c)' /\ (c # d => Live(c)' = Live(c))
    BY <1>c, <1>d DEF Live, I!Members
  <2>3. \A c : I!Proposing(c)' = I!Proposing(c)
    BY <1>e DEF I!Proposing
  <2>4. \A c : \A j \in Live(c) : Published(j)' = Published(j)
    BY <1>c, <1>e DEF Live, I!Members, Published
  <2> QED  BY <1>0, <1>e, <2>1, <2>2, <2>3, <2>4 DEF IntakeInv, CuratorsOK
<1>9. RestOK'
  BY <1>0, <1>a, <1>j, <1>e DEF IntakeInv, RestOK
<1> QED  BY <1>1, <1>2, <1>3, <1>4, <1>5, <1>6, <1>7, <1>8, <1>9 DEF IntakeInv

(* A sweep starts, and what failed and is due for a retry waits again. *)
LEMMA SweepStep ==
    ASSUME I!ConstantsOK, IntakeInv, I!Sweep
    PROVE  IntakeInv'
<1>0. I!ConstantsOK /\ IntakeInv  OBVIOUS
<1>a. PICK due \in SUBSET {j \in I!Intakes("failed") : jobs[j].retryable} :
         jobs' = [j \in DOMAIN jobs |->
                     IF j \in due THEN [jobs[j] EXCEPT !.status = "queued", !.retryable = FALSE] ELSE jobs[j]]
  BY DEF I!Sweep
<1>b. \A j \in DOMAIN jobs :
         jobs[j] \in Record /\
         \/ jobs'[j] = jobs[j]
         \/ /\ jobs[j].kind = "intake" /\ jobs[j].status = "failed"
            /\ jobs'[j] = [kind |-> jobs[j].kind, content |-> jobs[j].content, status |-> "queued", retryable |-> FALSE]
  BY <1>0, <1>a DEF IntakeInv, JobsOK, Record, I!Intakes
<1>c. /\ SameJobs
      /\ \A j \in DOMAIN jobs :
            /\ jobs'[j] \in Record
            /\ \/ jobs'[j] = jobs[j]
               \/ jobs[j].kind = "intake" /\ jobs[j].status = "failed" /\ jobs'[j].status = "queued"
  BY <1>a, <1>b DEF SameJobs, Record, I!Statuses
<1>d. PICK pending \in SUBSET {j \in DOMAIN jobs : jobs[j].kind = "intake"} :
         handler' = [kind |-> "sweep", content |-> NoContent, stage |-> "hand", job |-> 0, intake |-> 0,
                     pending |-> pending]
  BY DEF I!Sweep, I!NoHandler, I!Intakes
<1>e. UNCHANGED <<nature, mode, stored, tickets, lastId, answering, queue, finished, at, held, curators, proposed,
                  accepted, cut, lapsed, retries, deaths>>
  BY DEF I!Sweep
<1>f. \A c \in Contents : I!Members(c)' = I!Members(c) /\ I!Copies(c)' = I!Copies(c)
  BY <1>c, SameMembers
<1>1. RestOK'
  BY <1>0, Frames DEF IntakeInv, I!Sweep, I!Free
<1>2. JobsOK'
  BY <1>0, <1>c, <1>e DEF IntakeInv, JobsOK, SameJobs
<1>3. TicketsOK'
  <2>1. \A c \in Contents : handler.stage \notin {"intake", "job"}
    BY <1>0 DEF I!Sweep, I!Free, IntakeInv, HandlerOK
  <2> QED  BY <1>0, <1>c, <1>e, <1>f, <2>1 DEF IntakeInv, TicketsOK, SameJobs
<1>4. HandlerOK'
  <2>1. pending \subseteq {j \in DOMAIN jobs' : jobs'[j].kind = "intake"}
    BY <1>c, <1>d DEF SameJobs
  <2>2. pending \subseteq I!Ids /\ 0 \in 0..MaxJobs
    BY <1>0 DEF I!ConstantsOK, IntakeInv, JobsOK, I!Ids
  <2> QED  BY <1>d, <2>1, <2>2 DEF HandlerOK, Entering, I!Stages
<1>5. WorkerOK'
  BY <1>0, <1>c, <1>e DEF IntakeInv, WorkerOK, SameJobs
<1>6. QueueOK'
  BY <1>0, <1>c, <1>e DEF IntakeInv, QueueOK, I!NeverStranded, SameJobs
<1>7. KeptOK'
  BY <1>0, <1>c, <1>e, StatusesMove DEF IntakeInv, KeptOK, I!DoneIsHeld, I!Intakes
<1>8. CuratorsOK'
  <2>1. \A k \in DOMAIN jobs : jobs[k].kind = "codex" => jobs'[k] = jobs[k]
    BY <1>c
  <2>2. \A c \in Contents : I!Proposing(c)' => I!Proposing(c)
    BY <1>e DEF I!Proposing
  <2>3. \A k \in DOMAIN jobs : Published(k) => jobs[k].status = "done" \/ (at.job = k /\ at.step = "save" /\ jobs[k].status # "failed")
    BY <1>0 DEF IntakeInv, WorkerOK, InHand, Published
  <2> QED  BY <1>0, <1>c, <1>e, <2>1, <2>2, <2>3, StatusesMove
<1> QED  BY <1>1, <1>2, <1>3, <1>4, <1>5, <1>6, <1>7, <1>8 DEF IntakeInv

(* It hands an intake job on. *)
LEMMA SweepHandsStep ==
    ASSUME I!ConstantsOK, IntakeInv, NEW j \in I!Ids, I!SweepHands(j)
    PROVE  IntakeInv'
<1>0. I!ConstantsOK /\ IntakeInv  OBVIOUS
<1>1. JobsOK' /\ WorkerOK' /\ KeptOK' /\ CuratorsOK' /\ RestOK'
  BY <1>0, Frames DEF IntakeInv, I!SweepHands
<1>2. TicketsOK'
  BY <1>0 DEF IntakeInv, I!SweepHands, TicketsOK, I!Members, I!Copies
<1>3. HandlerOK'
  BY <1>0 DEF IntakeInv, I!SweepHands, HandlerOK, Entering
<1>4. QueueOK'
  BY <1>0 DEF IntakeInv, I!SweepHands, QueueOK, I!NeverStranded, HandlerOK
<1> QED  BY <1>1, <1>2, <1>3, <1>4 DEF IntakeInv

(* It takes up a stored content that no job knows. *)
LEMMA SweepTakesStep ==
    ASSUME I!ConstantsOK, IntakeInv, NEW c \in Contents, I!SweepTakes(c)
    PROVE  IntakeInv'
<1>0. I!ConstantsOK /\ IntakeInv  OBVIOUS
<1>1. WorkerOK' /\ QueueOK' /\ KeptOK' /\ CuratorsOK' /\ RestOK'
  BY <1>0, Frames DEF IntakeInv, I!SweepTakes, I!Hold
<1>2. JobsOK'
  BY <1>0 DEF IntakeInv, I!SweepTakes, JobsOK, I!ConstantsOK
<1>3. TicketsOK'
  BY <1>0 DEF IntakeInv, I!SweepTakes, TicketsOK, Ticket, I!Members, I!Copies, JobsOK
<1>4. HandlerOK'
  <2>0. PICK stage \in {"item", "codex"} : I!Hold("sweep", c, stage)
    BY DEF I!SweepTakes, I!NextStage
  <2>1. /\ handler' = [kind |-> "sweep", content |-> c, stage |-> stage, job |-> lastId + 1, intake |-> 0,
                       pending |-> {}]
        /\ lastId' = lastId + 1 /\ UNCHANGED <<jobs, tickets, nature>> /\ lastId < MaxJobs
    BY <2>0 DEF I!SweepTakes, I!Hold, I!NoHandler
  <2>2. lastId \in Nat /\ MaxJobs \in Nat /\ lastId + 1 \notin DOMAIN jobs
    BY <1>0 DEF IntakeInv, JobsOK, I!ConstantsOK, I!SweepTakes
  <2>3. I!Members(c) = {}
    BY DEF I!SweepTakes, I!Known
  <2>4. \A d \in Contents : tickets[d].job # lastId + 1
    BY <1>0, <2>2 DEF IntakeInv, TicketsOK, Ticket
  <2>5. I!Members(c)' = {}
    BY <2>1, <2>3 DEF I!Members
  <2> QED  BY <2>1, <2>2, <2>4, <2>5 DEF HandlerOK, Entering, I!Stages
<1> QED  BY <1>1, <1>2, <1>3, <1>4 DEF IntakeInv

(* It ends. *)
LEMMA SweepEndsStep ==
    ASSUME I!ConstantsOK, IntakeInv, I!SweepEnds
    PROVE  IntakeInv'
<1>0. I!ConstantsOK /\ IntakeInv  OBVIOUS
<1>1. JobsOK' /\ WorkerOK' /\ QueueOK' /\ KeptOK' /\ CuratorsOK' /\ RestOK'
  BY <1>0, Frames DEF IntakeInv, I!SweepEnds
<1>2. TicketsOK'
  BY <1>0 DEF IntakeInv, I!SweepEnds, TicketsOK, I!Members, I!Copies
<1>3. HandlerOK'
  BY <1>0 DEF I!SweepEnds, HandlerOK, Entering, I!Stages, I!NoHandler, I!ConstantsOK
<1> QED  BY <1>1, <1>2, <1>3 DEF IntakeInv

(* A rollback to Codex requeues an item, ... *)
LEMMA RequeueStep ==
    ASSUME I!ConstantsOK, IntakeInv, NEW c \in Contents, I!Requeue(c)
    PROVE  IntakeInv'
<1>0. I!ConstantsOK /\ IntakeInv  OBVIOUS
<1>1. JobsOK' /\ QueueOK' /\ RestOK'
  BY <1>0, Frames DEF IntakeInv, I!Requeue, I!Free, I!Requeueable
<1>2. TicketsOK'
  BY <1>0 DEF IntakeInv, I!Requeue, I!Free, I!Requeueable, TicketsOK, Ticket, I!Members, I!Copies, I!Open,
     I!Terminal, HandlerOK, WorkerOK, Entering
<1>3. HandlerOK'
  <2>1. /\ handler' = [kind |-> "requeue", content |-> c, stage |-> "rewrite", job |-> 0, intake |-> 0,
                       pending |-> {}]
        /\ tickets' = [tickets EXCEPT ![c].status = "requeued"] /\ UNCHANGED <<jobs, lastId, nature>>
    BY DEF I!Requeue, I!NoHandler
  <2>2. tickets'[c].status = "requeued" /\ tickets'[c].job = tickets[c].job
    BY <1>0, <2>1 DEF IntakeInv, TicketsOK, Ticket
  <2>3. tickets[c].job \in DOMAIN jobs /\ jobs[tickets[c].job].kind = "inbox"
    BY <1>0 DEF IntakeInv, TicketsOK, JobsOK, Record, I!Kinds, I!Members, I!Requeue, I!Requeueable
  <2>4. 0 \in 0..MaxJobs  BY <1>0 DEF I!ConstantsOK
  <2> QED  BY <2>1, <2>2, <2>3, <2>4 DEF HandlerOK, Entering, I!Stages
<1>4. WorkerOK'
  BY <1>0 DEF IntakeInv, I!Requeue, WorkerOK
<1>5. KeptOK'
  BY <1>0 DEF IntakeInv, I!Requeue, KeptOK, I!Members, I!Copies, I!Unreadable, I!DoneIsHeld, I!Intakes
<1>6. CuratorsOK'
  BY <1>0 DEF IntakeInv, I!Requeue, I!Free, I!Requeueable, CuratorsOK, Live, I!Members, I!Proposing, Published
<1> QED  BY <1>1, <1>2, <1>3, <1>4, <1>5, <1>6 DEF IntakeInv

(* ... and then its job becomes a Codex job. *)
LEMMA RewriteStep ==
    ASSUME I!ConstantsOK, IntakeInv, I!Rewrite
    PROVE  IntakeInv'
<1>0. I!ConstantsOK /\ IntakeInv  OBVIOUS
<1>a. /\ handler.content \in Contents /\ tickets[handler.content].status = "requeued"
      /\ tickets[handler.content].job \in DOMAIN jobs /\ jobs[tickets[handler.content].job].kind = "inbox"
  BY <1>0 DEF IntakeInv, HandlerOK, I!Rewrite
<1>j. PICK d, j : d = handler.content /\ j = tickets[handler.content].job
  OBVIOUS
<1>b. /\ j \in DOMAIN jobs /\ jobs[j] \in Record /\ jobs[j].content = d /\ jobs[j].kind = "inbox"
      /\ jobs[j].status = "inbox"
      /\ \A c \in Contents : tickets[c].job = j => c = d
  BY <1>0, <1>a, <1>j DEF IntakeInv, JobsOK, TicketsOK, I!Members
<1>c. /\ DOMAIN jobs' = DOMAIN jobs /\ \A k \in DOMAIN jobs : k # j => jobs'[k] = jobs[k]
      /\ jobs'[j] = [kind |-> "codex", content |-> d, status |-> "queued", retryable |-> jobs[j].retryable]
  <2>1. jobs' = [jobs EXCEPT ![j].kind = "codex", ![j].status = "queued"]
    BY <1>j DEF I!Rewrite
  <2> QED  BY <1>b, <2>1 DEF Record
<1>d. /\ jobs'[j] \in Record /\ jobs'[j].kind = "codex" /\ jobs'[j].content = d /\ jobs'[j].status = "queued"
      /\ handler' = I!NoHandler /\ queue' = queue \cup {j}
      /\ UNCHANGED <<nature, mode, stored, tickets, lastId, answering, finished, at, held, curators, proposed,
                     accepted, cut, lapsed, retries, deaths>>
  BY <1>b, <1>c, <1>j DEF Record, I!Kinds, I!Statuses, I!Rewrite
<1>e. \A c : I!Members(c)' = I!Members(c) /\ I!Copies(c)' = I!Copies(c)
  BY <1>b, <1>c, <1>d DEF I!Members, I!Copies
<1>1. RestOK'
  BY <1>0, Frames DEF IntakeInv, I!Rewrite
<1>2. JobsOK'
  BY <1>0, <1>b, <1>c, <1>d DEF IntakeInv, JobsOK
<1>3. TicketsOK'
  <2>1. handler.stage = "rewrite"  BY DEF I!Rewrite
  <2> QED  BY <1>0, <1>a, <1>j, <1>b, <1>c, <1>d, <1>e, <2>1 DEF IntakeInv, TicketsOK
<1>4. HandlerOK'
  BY <1>0, <1>d, LockFree
<1>5. WorkerOK'
  <2>1. at.step \in InHand => at.job # j
    BY <1>0, <1>b DEF IntakeInv, WorkerOK
  <2> QED  BY <1>0, <1>c, <1>d, <2>1 DEF IntakeInv, WorkerOK
<1>6. QueueOK'
  BY <1>0, <1>b, <1>c, <1>d DEF IntakeInv, QueueOK, I!NeverStranded
<1>7. KeptOK'
  <2>1. I!DoneIsHeld'  BY <1>0, <1>c, <1>d DEF IntakeInv, KeptOK, I!DoneIsHeld, I!Intakes
  <2>2. \A c : (\E i \in I!Members(c) : jobs[i].kind = "codex") => \E i \in I!Members(c)' : jobs'[i].kind = "codex"
    BY <1>b, <1>c, <1>d, <1>e DEF I!Members
  <2>3. I!Unreadable' = I!Unreadable  BY <1>d DEF I!Unreadable
  <2> QED  BY <1>0, <1>d, <1>e, <2>1, <2>2, <2>3 DEF IntakeInv, KeptOK
<1>8. CuratorsOK'
  <2>1. \A c : Live(c) \subseteq Live(c)' /\ (c # d => Live(c)' = Live(c))
    BY <1>b, <1>c, <1>d, <1>e DEF Live, I!Members
  <2>2. \A c : I!Proposing(c)' = I!Proposing(c)
    BY <1>d DEF I!Proposing
  <2>3. \A c : \A i \in Live(c) : Published(i)' = Published(i)
    BY <1>b, <1>c, <1>d DEF Live, I!Members, Published
  <2> QED  BY <1>0, <1>a, <1>j, <1>d, <2>1, <2>2, <2>3 DEF IntakeInv, CuratorsOK
<1> QED  BY <1>1, <1>2, <1>3, <1>4, <1>5, <1>6, <1>7, <1>8 DEF IntakeInv

(* The worker takes a job from the queue. *)
LEMMA TakeStep ==
    ASSUME I!ConstantsOK, IntakeInv, NEW j \in I!Ids, I!Take(j)
    PROVE  IntakeInv'
<1>0. I!ConstantsOK /\ IntakeInv  OBVIOUS
<1>a. /\ j \in DOMAIN jobs /\ jobs[j] \in Record /\ jobs[j].status # "running" /\ "running" \in I!Statuses
      /\ jobs[j].kind \in {"codex", "intake"} /\ (jobs[j].kind = "codex" => jobs[j].status = "queued")
  BY <1>0 DEF IntakeInv, JobsOK, QueueOK, I!Resting, InHand, I!Statuses, I!Take
<1>b. \/ /\ jobs[j].status = "queued"
         /\ at' = [job |-> j, content |-> jobs[j].content, step |-> IF jobs[j].kind = "codex" THEN "curate" ELSE "commit"]
         /\ I!SetJob(j, "running", FALSE)
      \/ /\ jobs[j].kind = "intake" /\ at' = [job |-> j, content |-> jobs[j].content, step |-> "leave"]
         /\ jobs' = jobs
  BY <1>a DEF I!Take
<1>c. /\ SameJobs /\ \A k \in DOMAIN jobs : k # j => jobs'[k] = jobs[k]
      /\ jobs'[j] \in Record
      /\ jobs'[j].status # jobs[j].status => jobs[j].status = "queued" /\ jobs'[j].status = "running"
      /\ at'.job = j /\ at'.content = jobs[j].content /\ at'.step \in {"curate", "commit", "leave"}
      /\ at'.step = "curate" => jobs[j].kind = "codex"
      /\ at'.step = "commit" => jobs[j].kind = "intake"
      /\ IF at'.step = "leave" THEN jobs[j].kind = "intake" /\ jobs'[j] = jobs[j] ELSE jobs'[j].status = "running"
  <2>1. CASE I!SetJob(j, "running", FALSE) /\ jobs[j].status = "queued" /\
         at' = [job |-> j, content |-> jobs[j].content, step |-> IF jobs[j].kind = "codex" THEN "curate" ELSE "commit"]
    BY <1>a, <2>1, OneJobSet
  <2>2. CASE jobs' = jobs /\ jobs[j].kind = "intake" /\ at' = [job |-> j, content |-> jobs[j].content, step |-> "leave"]
    BY <1>a, <2>2 DEF SameJobs
  <2> QED BY <1>b, <2>1, <2>2
<1>d. \A c \in Contents : I!Members(c)' = I!Members(c) /\ I!Copies(c)' = I!Copies(c)
  BY <1>c, SameMembers
<1>1. RestOK'
  BY <1>0, Frames DEF IntakeInv, I!Take
<1>2. JobsOK'
  BY <1>0, <1>a, <1>b, <1>c, <1>d DEF IntakeInv, I!Take, JobsOK, TicketsOK, HandlerOK, WorkerOK, QueueOK, KeptOK,
     CuratorsOK, RestOK, Published, SameJobs, I!Members, I!Copies, Live, I!Unreadable, I!Proposing, I!DoneIsHeld,
     I!Intakes, I!NeverStranded, Ticket, Record, I!Kinds, I!Statuses, I!Open, I!Terminal, I!Stages, I!Ids,
     I!NoTicket, I!NoHandler, I!Resting, Entering, InHand, I!ConstantsOK
<1>3. TicketsOK'
  BY <1>c, StatusesMove DEF I!Take
<1>4. HandlerOK'
  BY <1>0, <1>a, <1>b, <1>c, <1>d, StatusesMove DEF I!Take, IntakeInv, JobsOK
<1>5. WorkerOK'
  BY <1>0, <1>a, <1>b, <1>c, <1>d DEF IntakeInv, I!Take, JobsOK, TicketsOK, HandlerOK, WorkerOK, QueueOK, KeptOK,
     CuratorsOK, RestOK, Published, SameJobs, I!Members, I!Copies, Live, I!Unreadable, I!Proposing, I!DoneIsHeld,
     I!Intakes, I!NeverStranded, Ticket, Record, I!Kinds, I!Statuses, I!Open, I!Terminal, I!Stages, I!Ids,
     I!NoTicket, I!NoHandler, I!Resting, Entering, InHand, I!ConstantsOK
<1>6. QueueOK'
  BY <1>0, <1>a, <1>b, <1>c, <1>d DEF IntakeInv, I!Take, JobsOK, TicketsOK, HandlerOK, WorkerOK, QueueOK, KeptOK,
     CuratorsOK, RestOK, Published, SameJobs, I!Members, I!Copies, Live, I!Unreadable, I!Proposing, I!DoneIsHeld,
     I!Intakes, I!NeverStranded, Ticket, Record, I!Kinds, I!Statuses, I!Open, I!Terminal, I!Stages, I!Ids,
     I!NoTicket, I!NoHandler, I!Resting, Entering, InHand, I!ConstantsOK
<1>7. KeptOK'
  BY <1>0, <1>a, <1>b, <1>c, <1>d, StatusesMove DEF I!Take, IntakeInv, KeptOK, I!DoneIsHeld, I!Intakes, WorkerOK,
     InHand
<1>8. CuratorsOK'
  BY <1>0, <1>a, <1>b, <1>c, <1>d, StatusesMove DEF I!Take, IntakeInv, JobsOK, WorkerOK, InHand, I!Proposing,
     Published, I!Resting
<1> QED  BY <1>1, <1>2, <1>3, <1>4, <1>5, <1>6, <1>7, <1>8 DEF IntakeInv

(* Its commit of an intake is on the remote. *)
LEMMA CommitStep ==
    ASSUME I!ConstantsOK, IntakeInv, I!Commit
    PROVE  IntakeInv'
<1>0. I!ConstantsOK /\ IntakeInv  OBVIOUS
<1>1. TicketsOK' /\ HandlerOK'
  BY <1>0, Frames DEF IntakeInv, I!Commit, I!Step
<1>2. JobsOK'
  BY <1>0 DEF IntakeInv, I!Commit, I!Step, JobsOK, InHand
<1>3. WorkerOK'
  BY <1>0 DEF IntakeInv, I!Commit, I!Step, WorkerOK, InHand
<1>4. QueueOK'
  BY <1>0 DEF IntakeInv, I!Commit, I!Step, QueueOK, I!NeverStranded
<1>5. KeptOK'
  BY <1>0 DEF IntakeInv, I!Commit, I!Step, KeptOK, I!Members, I!Copies, I!Unreadable, I!DoneIsHeld, I!Intakes
<1>6. CuratorsOK'
  BY <1>0 DEF IntakeInv, I!Commit, I!Step, CuratorsOK, Live, I!Members, I!Proposing, Published
<1>7. RestOK'
  BY <1>0 DEF IntakeInv, I!Commit, I!Step, RestOK, HandlerOK, Entering, I!ConstantsOK, WorkerOK, InHand, JobsOK,
     Record
<1> QED  BY <1>1, <1>2, <1>3, <1>4, <1>5, <1>6, <1>7 DEF IntakeInv

(* It writes the intake into the item of its content. *)
LEMMA SettleStep ==
    ASSUME I!ConstantsOK, IntakeInv, I!Settle
    PROVE  IntakeInv'
<1>0. I!ConstantsOK /\ IntakeInv  OBVIOUS
<1>a. /\ at.job \in DOMAIN jobs /\ jobs[at.job].kind = "intake" /\ jobs[at.job].content = at.content
      /\ at.content \in held /\ jobs[at.job].status = "running"
  BY <1>0 DEF IntakeInv, WorkerOK, InHand, I!Settle
<1>j. PICK n, d : n = at.job /\ d = at.content
  OBVIOUS
<1>b. d \in Contents /\ n \in 1..MaxJobs /\ n # 0 /\ n \in I!Copies(d) /\ tickets \in [Contents -> Ticket]
  BY <1>0, <1>a, <1>j DEF IntakeInv, JobsOK, TicketsOK, Record, I!Copies, I!ConstantsOK
<1>c. tickets' = [tickets EXCEPT ![d].intake = n]
  BY <1>a, <1>j DEF I!Settle, I!Settled
<1>d. /\ tickets' \in [Contents -> Ticket] /\ \A c \in Contents : c # d => tickets'[c] = tickets[c]
      /\ tickets'[d] = [status |-> tickets[d].status, job |-> tickets[d].job, intake |-> n]
  BY <1>b, <1>c DEF Ticket
<1>e. /\ tickets[d].status # "absent"
      /\ \A c \in Contents : tickets'[c].status = tickets[c].status /\ tickets'[c].job = tickets[c].job
  BY <1>0, <1>b, <1>d DEF IntakeInv, TicketsOK
<1>f. /\ at' = [job |-> n, content |-> d, step |-> "save"] /\ at.step = "settle"
      /\ UNCHANGED <<nature, mode, stored, jobs, lastId, handler, answering, queue, finished, held, curators,
                     proposed, accepted, cut, lapsed, retries, deaths>>
  BY <1>0, <1>j DEF I!Settle, I!Step, IntakeInv, WorkerOK
<1>g. \A c : I!Members(c)' = I!Members(c) /\ I!Copies(c)' = I!Copies(c)
  BY <1>f DEF I!Members, I!Copies
<1>1. RestOK'
  BY <1>0, Frames DEF IntakeInv, I!Settle, I!Step, I!Settled
<1>2. JobsOK'
  BY <1>0, <1>a, <1>j, <1>b, <1>c, <1>d, <1>e, <1>f, <1>g DEF IntakeInv, I!Settle, I!Step, I!Settled, JobsOK, InHand
<1>3. TicketsOK'
  <2> SUFFICES ASSUME NEW c \in Contents
               PROVE  /\ tickets'[c].status = "absent" => tickets'[c] = I!NoTicket
                      /\ tickets'[c].intake # 0 => tickets'[c].intake \in I!Copies(c)
    BY <1>0, <1>d, <1>e, <1>f, <1>g DEF IntakeInv, TicketsOK
  <2>1. CASE c = d
    BY <1>b, <1>d, <1>e, <2>1
  <2>2. CASE c # d
    BY <1>0, <1>d, <2>2 DEF IntakeInv, TicketsOK
  <2> QED  BY <2>1, <2>2
<1>4. HandlerOK'
  BY <1>0, <1>a, <1>j, <1>b, <1>c, <1>d, <1>e, <1>f, <1>g DEF IntakeInv, I!Settle, I!Step, I!Settled, HandlerOK,
     Entering, I!Stages, I!Members, I!Copies, I!Unreadable
<1>5. WorkerOK'
  BY <1>0, <1>a, <1>j, <1>b, <1>c, <1>d, <1>e, <1>f, <1>g DEF IntakeInv, I!Settle, I!Step, I!Settled, WorkerOK,
     InHand
<1>6. QueueOK'
  BY <1>0, <1>a, <1>j, <1>b, <1>c, <1>d, <1>e, <1>f, <1>g DEF IntakeInv, I!Settle, I!Step, I!Settled, QueueOK,
     I!NeverStranded
<1>7. KeptOK'
  BY <1>0, <1>a, <1>j, <1>b, <1>c, <1>d, <1>e, <1>f, <1>g DEF IntakeInv, I!Settle, I!Step, I!Settled, KeptOK,
     I!Members, I!Copies, I!Unreadable, I!DoneIsHeld, I!Intakes
<1>8. CuratorsOK'
  BY <1>0, <1>a, <1>j, <1>b, <1>c, <1>d, <1>e, <1>f, <1>g DEF IntakeInv, I!Settle, I!Step, I!Settled, CuratorsOK,
     Live, I!Members, I!Proposing, Published
<1> QED  BY <1>1, <1>2, <1>3, <1>4, <1>5, <1>6, <1>7, <1>8 DEF IntakeInv

(* It saves the job it is done with. *)
LEMMA SaveStep ==
    ASSUME I!ConstantsOK, IntakeInv, I!Save
    PROVE  IntakeInv'
<1>0. I!ConstantsOK /\ IntakeInv  OBVIOUS
<1>a. /\ at.job \in DOMAIN jobs /\ jobs[at.job] \in Record /\ jobs[at.job].status = "running"
      /\ "done" \in I!Statuses /\ FALSE \in BOOLEAN /\ I!SetJob(at.job, "done", FALSE)
  BY <1>0 DEF IntakeInv, JobsOK, WorkerOK, InHand, I!Statuses, I!Save
<1>b. /\ SameJobs /\ \A k \in DOMAIN jobs : k # at.job => jobs'[k] = jobs[k]
      /\ jobs'[at.job] \in Record /\ jobs'[at.job].status = "done" /\ jobs'[at.job].retryable = FALSE
  BY <1>a, OneJobSet
<1>c. \A c \in Contents : I!Members(c)' = I!Members(c) /\ I!Copies(c)' = I!Copies(c)
  BY <1>b, SameMembers
<1>1. RestOK'
  BY <1>0, Frames DEF IntakeInv, I!Save, I!Step
<1>2. JobsOK'
  BY <1>0, <1>a, <1>b, <1>c DEF IntakeInv, I!Save, I!Step, JobsOK, TicketsOK, HandlerOK, WorkerOK, QueueOK,
     KeptOK, CuratorsOK, RestOK, Published, SameJobs, I!Members, I!Copies, Live, I!Unreadable, I!Proposing,
     I!DoneIsHeld, I!Intakes, I!NeverStranded, Ticket, Record, I!Kinds, I!Statuses, I!Open, I!Terminal, I!Stages,
     I!Ids, I!NoTicket, I!NoHandler, I!Resting, Entering, InHand, I!ConstantsOK
<1>3. TicketsOK'
  BY <1>b, StatusesMove DEF I!Save
<1>4. HandlerOK'
  BY <1>0, <1>a, <1>b, <1>c, StatusesMove DEF I!Save, IntakeInv, JobsOK
<1>5. WorkerOK'
  BY <1>0, <1>a, <1>b, <1>c DEF IntakeInv, I!Save, I!Step, WorkerOK, InHand
<1>6. QueueOK'
  BY <1>0, <1>a, <1>b, <1>c DEF IntakeInv, I!Save, I!Step, JobsOK, TicketsOK, HandlerOK, WorkerOK, QueueOK,
     KeptOK, CuratorsOK, RestOK, Published, SameJobs, I!Members, I!Copies, Live, I!Unreadable, I!Proposing,
     I!DoneIsHeld, I!Intakes, I!NeverStranded, Ticket, Record, I!Kinds, I!Statuses, I!Open, I!Terminal, I!Stages,
     I!Ids, I!NoTicket, I!NoHandler, I!Resting, Entering, InHand, I!ConstantsOK
<1>7. KeptOK'
  BY <1>0, <1>a, <1>b, <1>c, StatusesMove DEF I!Save, IntakeInv, KeptOK, I!DoneIsHeld, I!Intakes, WorkerOK, InHand
<1>8. CuratorsOK'
  BY <1>0, <1>a, <1>b, <1>c, StatusesMove DEF I!Save, IntakeInv, JobsOK, WorkerOK, InHand, I!Proposing,
     Published, I!Resting, I!Step
<1> QED  BY <1>1, <1>2, <1>3, <1>4, <1>5, <1>6, <1>7, <1>8 DEF IntakeInv

(* Its job fails. *)
LEMMA FailsStep ==
    ASSUME I!ConstantsOK, IntakeInv, I!Fails
    PROVE  IntakeInv'
<1>0. I!ConstantsOK /\ IntakeInv  OBVIOUS
<1>a. PICK retryable \in BOOLEAN : I!SetJob(at.job, "failed", retryable)
  BY DEF I!Fails
<1>a1. /\ at.job \in DOMAIN jobs /\ jobs[at.job] \in Record /\ jobs[at.job].status = "running"
       /\ "failed" \in I!Statuses
  BY <1>0 DEF IntakeInv, JobsOK, WorkerOK, InHand, I!Statuses, I!Fails
<1>b. /\ SameJobs /\ \A k \in DOMAIN jobs : k # at.job => jobs'[k] = jobs[k]
      /\ jobs'[at.job] \in Record /\ jobs'[at.job].status = "failed"
  BY <1>a, <1>a1, OneJobSet
<1>c. \A c \in Contents : I!Members(c)' = I!Members(c) /\ I!Copies(c)' = I!Copies(c)
  BY <1>b, SameMembers
<1>1. TRUE
  BY <1>0, Frames DEF IntakeInv, I!Fails, I!Step
<1>2. JobsOK'
  BY <1>0, <1>a, <1>a1, <1>b, <1>c DEF IntakeInv, I!Fails, I!Step, JobsOK, TicketsOK, HandlerOK, WorkerOK,
     QueueOK, KeptOK, CuratorsOK, RestOK, Published, SameJobs, I!Members, I!Copies, Live, I!Unreadable,
     I!Proposing, I!DoneIsHeld, I!Intakes, I!NeverStranded, Ticket, Record, I!Kinds, I!Statuses, I!Open,
     I!Terminal, I!Stages, I!Ids, I!NoTicket, I!NoHandler, I!Resting, Entering, InHand, I!ConstantsOK
<1>3. TicketsOK'
  BY <1>b, StatusesMove DEF I!Fails
<1>4. HandlerOK'
  BY <1>0, <1>a, <1>a1, <1>b, <1>c, StatusesMove DEF I!Fails, IntakeInv, JobsOK
<1>5. WorkerOK'
  BY <1>0, <1>a, <1>a1, <1>b, <1>c DEF IntakeInv, I!Fails, I!Step, WorkerOK, InHand
<1>6. QueueOK'
  BY <1>0, <1>a, <1>a1, <1>b, <1>c DEF IntakeInv, I!Fails, I!Step, JobsOK, TicketsOK, HandlerOK, WorkerOK,
     QueueOK, KeptOK, CuratorsOK, RestOK, Published, SameJobs, I!Members, I!Copies, Live, I!Unreadable,
     I!Proposing, I!DoneIsHeld, I!Intakes, I!NeverStranded, Ticket, Record, I!Kinds, I!Statuses, I!Open,
     I!Terminal, I!Stages, I!Ids, I!NoTicket, I!NoHandler, I!Resting, Entering, InHand, I!ConstantsOK
<1>7. KeptOK'
  BY <1>0, <1>a, <1>a1, <1>b, <1>c, StatusesMove DEF I!Fails, IntakeInv, KeptOK, I!DoneIsHeld, I!Intakes,
     WorkerOK, InHand
<1>8. CuratorsOK'
  BY <1>0, <1>a, <1>a1, <1>b, <1>c, StatusesMove DEF I!Fails, IntakeInv, JobsOK, WorkerOK, InHand, I!Proposing,
     Published, I!Resting, I!Step
<1>9. RestOK'
  BY <1>0, <1>a, <1>a1, <1>b, <1>c DEF IntakeInv, I!Fails, I!Step, RestOK, HandlerOK, Entering, I!ConstantsOK
<1> QED  BY <1>1, <1>2, <1>3, <1>4, <1>5, <1>6, <1>7, <1>8, <1>9 DEF IntakeInv

(* Codex publishes its curation. *)
LEMMA CurateStep ==
    ASSUME I!ConstantsOK, IntakeInv, I!Curate
    PROVE  IntakeInv'
<1>0. I!ConstantsOK /\ IntakeInv  OBVIOUS
<1>1. TicketsOK' /\ HandlerOK' /\ KeptOK'
  BY <1>0, Frames DEF IntakeInv, I!Curate, I!Step
<1>2. JobsOK'
  BY <1>0 DEF IntakeInv, I!Curate, I!Step, JobsOK, InHand
<1>3. WorkerOK'
  BY <1>0 DEF IntakeInv, I!Curate, I!Step, WorkerOK, InHand
<1>4. QueueOK'
  BY <1>0 DEF IntakeInv, I!Curate, I!Step, QueueOK, I!NeverStranded
<1>5. CuratorsOK'
  BY <1>0 DEF IntakeInv, I!Curate, I!Step, CuratorsOK, Live, I!Members, I!Proposing, Published, TicketsOK,
     Ticket, I!Open, I!Terminal, WorkerOK, InHand, JobsOK, Record, I!Resting
<1>6. RestOK'
  BY <1>0 DEF IntakeInv, I!Curate, I!Step, RestOK
<1> QED  BY <1>1, <1>2, <1>3, <1>4, <1>5, <1>6 DEF IntakeInv

(* The worker is done with a job. *)
LEMMA WorkerLeaveStep ==
    ASSUME I!ConstantsOK, IntakeInv, I!Leave
    PROVE  IntakeInv'
<1>0. I!ConstantsOK /\ IntakeInv  OBVIOUS
<1>1. TicketsOK' /\ HandlerOK' /\ KeptOK' /\ RestOK'
  BY <1>0, Frames DEF IntakeInv, I!Leave, I!Wake
<1>2. JobsOK'
  BY <1>0 DEF IntakeInv, I!Leave, I!Wake, JobsOK, InHand
<1>3. WorkerOK'
  BY <1>0 DEF IntakeInv, I!Leave, I!Wake, JobsOK, TicketsOK, HandlerOK, WorkerOK, QueueOK, KeptOK, CuratorsOK,
     RestOK, Published, SameJobs, I!Members, I!Copies, Live, I!Unreadable, I!Proposing, I!DoneIsHeld, I!Intakes,
     I!NeverStranded, Ticket, Record, I!Kinds, I!Statuses, I!Open, I!Terminal, I!Stages, I!Ids, I!NoTicket,
     I!NoHandler, I!Resting, Entering, InHand, I!ConstantsOK
<1>4. QueueOK'
  BY <1>0 DEF IntakeInv, I!Leave, I!Wake, QueueOK, I!NeverStranded
<1>5. CuratorsOK'
  BY <1>0 DEF IntakeInv, I!Leave, I!Wake, CuratorsOK, Live, I!Members, I!Proposing, Published, TicketsOK, Ticket,
     I!Open, I!Terminal, WorkerOK, InHand, JobsOK, Record, I!Resting
<1> QED  BY <1>1, <1>2, <1>3, <1>4, <1>5 DEF IntakeInv

(* A maintainer claims a ready item. *)
LEMMA ClaimStep ==
    ASSUME I!ConstantsOK, IntakeInv, NEW c \in Contents, I!Claim(c)
    PROVE  IntakeInv'
<1>0. I!ConstantsOK /\ IntakeInv  OBVIOUS
<1>1. JobsOK' /\ QueueOK' /\ RestOK'
  BY <1>0, Frames DEF IntakeInv, I!Claim, I!TicketStep
<1>2. TicketsOK'
  BY <1>0 DEF IntakeInv, I!Claim, I!TicketStep, TicketsOK, Ticket, I!Members, I!Copies, I!Open, I!Terminal
<1>3. HandlerOK'
  BY <1>0 DEF IntakeInv, I!Claim, I!TicketStep, HandlerOK, Entering, I!Stages, I!Members, I!Copies, I!Unreadable
<1>4. WorkerOK'
  BY <1>0 DEF IntakeInv, I!Claim, I!TicketStep, WorkerOK
<1>5. KeptOK'
  BY <1>0 DEF IntakeInv, I!Claim, I!TicketStep, KeptOK, I!Members, I!Copies, I!Unreadable, I!DoneIsHeld, I!Intakes
<1>6. CuratorsOK'
  BY <1>0 DEF IntakeInv, I!Claim, I!TicketStep, CuratorsOK, Live, I!Members, I!Proposing, Published
<1> QED  BY <1>1, <1>2, <1>3, <1>4, <1>5, <1>6 DEF IntakeInv

(* Its lease ends. *)
LEMMA LeaseEndsStep ==
    ASSUME I!ConstantsOK, IntakeInv, NEW c \in Contents, I!LeaseEnds(c)
    PROVE  IntakeInv'
<1>0. I!ConstantsOK /\ IntakeInv  OBVIOUS
<1>1. JobsOK' /\ QueueOK'
  BY <1>0, Frames DEF IntakeInv, I!LeaseEnds, I!TicketStep
<1>2. TicketsOK'
  BY <1>0 DEF IntakeInv, I!LeaseEnds, I!TicketStep, TicketsOK, Ticket, I!Members, I!Copies, I!Open, I!Terminal
<1>3. HandlerOK'
  BY <1>0 DEF IntakeInv, I!LeaseEnds, I!TicketStep, HandlerOK, Entering, I!Stages, I!Members, I!Copies, I!Unreadable
<1>4. WorkerOK'
  BY <1>0 DEF IntakeInv, I!LeaseEnds, I!TicketStep, WorkerOK
<1>5. KeptOK'
  BY <1>0 DEF IntakeInv, I!LeaseEnds, I!TicketStep, KeptOK, I!Members, I!Copies, I!Unreadable, I!DoneIsHeld,
     I!Intakes
<1>6. CuratorsOK'
  BY <1>0 DEF IntakeInv, I!LeaseEnds, I!TicketStep, CuratorsOK, Live, I!Members, I!Proposing, Published
<1>7. RestOK'
  BY <1>0 DEF IntakeInv, I!LeaseEnds, I!TicketStep, RestOK
<1> QED  BY <1>1, <1>2, <1>3, <1>4, <1>5, <1>6, <1>7 DEF IntakeInv

(* Its next run makes an orphan ready. *)
LEMMA NewRunStep ==
    ASSUME I!ConstantsOK, IntakeInv, NEW c \in Contents, I!NewRun(c)
    PROVE  IntakeInv'
<1>0. I!ConstantsOK /\ IntakeInv  OBVIOUS
<1>1. JobsOK' /\ QueueOK' /\ RestOK'
  BY <1>0, Frames DEF IntakeInv, I!NewRun, I!TicketStep
<1>2. TicketsOK'
  BY <1>0 DEF IntakeInv, I!NewRun, I!TicketStep, TicketsOK, Ticket, I!Members, I!Copies, I!Open, I!Terminal
<1>3. HandlerOK'
  BY <1>0 DEF IntakeInv, I!NewRun, I!TicketStep, HandlerOK, Entering, I!Stages, I!Members, I!Copies, I!Unreadable
<1>4. WorkerOK'
  BY <1>0 DEF IntakeInv, I!NewRun, I!TicketStep, WorkerOK
<1>5. KeptOK'
  BY <1>0 DEF IntakeInv, I!NewRun, I!TicketStep, KeptOK, I!Members, I!Copies, I!Unreadable, I!DoneIsHeld, I!Intakes
<1>6. CuratorsOK'
  BY <1>0 DEF IntakeInv, I!NewRun, I!TicketStep, CuratorsOK, Live, I!Members, I!Proposing, Published
<1> QED  BY <1>1, <1>2, <1>3, <1>4, <1>5, <1>6 DEF IntakeInv

(* It skips the item. *)
LEMMA SkipStep ==
    ASSUME I!ConstantsOK, IntakeInv, NEW c \in Contents, I!Skip(c)
    PROVE  IntakeInv'
<1>0. I!ConstantsOK /\ IntakeInv  OBVIOUS
<1>1. JobsOK' /\ QueueOK'
  BY <1>0, Frames DEF IntakeInv, I!Skip, I!TicketStep
<1>2. TicketsOK'
  BY <1>0 DEF IntakeInv, I!Skip, I!TicketStep, TicketsOK, Ticket, I!Members, I!Copies, I!Open, I!Terminal
<1>3. HandlerOK'
  BY <1>0 DEF IntakeInv, I!Skip, I!TicketStep, HandlerOK, Entering, I!Stages, I!Members, I!Copies, I!Unreadable
<1>4. WorkerOK'
  BY <1>0 DEF IntakeInv, I!Skip, I!TicketStep, WorkerOK
<1>5. KeptOK'
  BY <1>0 DEF IntakeInv, I!Skip, I!TicketStep, KeptOK, I!Members, I!Copies, I!Unreadable, I!DoneIsHeld, I!Intakes
<1>6. CuratorsOK'
  BY <1>0 DEF IntakeInv, I!Skip, I!TicketStep, CuratorsOK, Live, I!Members, I!Proposing, Published
<1>7. RestOK'
  BY <1>0 DEF IntakeInv, I!Skip, I!TicketStep, RestOK
<1> QED  BY <1>1, <1>2, <1>3, <1>4, <1>5, <1>6, <1>7 DEF IntakeInv

(* An admin reopens a skipped or closed item. *)
LEMMA AdminRetryStep ==
    ASSUME I!ConstantsOK, IntakeInv, NEW c \in Contents, I!AdminRetry(c)
    PROVE  IntakeInv'
<1>0. I!ConstantsOK /\ IntakeInv  OBVIOUS
<1>1. JobsOK' /\ QueueOK' /\ RestOK'
  BY <1>0, Frames DEF IntakeInv, I!AdminRetry, I!TicketStep
<1>2. TicketsOK'
  BY <1>0 DEF IntakeInv, I!AdminRetry, I!TicketStep, TicketsOK, Ticket, I!Members, I!Copies, I!Open, I!Terminal
<1>3. HandlerOK'
  BY <1>0 DEF IntakeInv, I!AdminRetry, I!TicketStep, HandlerOK, Entering, I!Stages, I!Members, I!Copies,
     I!Unreadable
<1>4. WorkerOK'
  BY <1>0 DEF IntakeInv, I!AdminRetry, I!TicketStep, WorkerOK
<1>5. KeptOK'
  BY <1>0 DEF IntakeInv, I!AdminRetry, I!TicketStep, KeptOK, I!Members, I!Copies, I!Unreadable, I!DoneIsHeld,
     I!Intakes
<1>6. CuratorsOK'
  BY <1>0 DEF IntakeInv, I!AdminRetry, I!TicketStep, CuratorsOK, Live, I!Members, I!Proposing, Published
<1> QED  BY <1>1, <1>2, <1>3, <1>4, <1>5, <1>6 DEF IntakeInv

(* The maintainer proposes a changeset. *)
LEMMA ProposeStep ==
    ASSUME I!ConstantsOK, IntakeInv, NEW c \in Contents, I!Propose(c)
    PROVE  IntakeInv'
<1>0. I!ConstantsOK /\ IntakeInv  OBVIOUS
<1>1. JobsOK' /\ TicketsOK' /\ HandlerOK' /\ WorkerOK' /\ QueueOK' /\ KeptOK'
  BY <1>0, Frames DEF IntakeInv, I!Propose
<1>2. CuratorsOK'
  BY <1>0 DEF IntakeInv, I!Propose, CuratorsOK, Live, I!Members, I!Proposing, Published
<1>3. RestOK'
  BY <1>0 DEF IntakeInv, I!Propose, RestOK
<1> QED  BY <1>1, <1>2, <1>3 DEF IntakeInv

(* The worker takes the changeset up, or rejects it. *)
LEMMA StartChangesetStep ==
    ASSUME I!ConstantsOK, IntakeInv, NEW c \in Contents, I!StartChangeset(c)
    PROVE  IntakeInv'
<1>0. I!ConstantsOK /\ IntakeInv  OBVIOUS
<1>1. TicketsOK' /\ HandlerOK' /\ KeptOK'
  BY <1>0, Frames DEF IntakeInv, I!StartChangeset, I!Rejected
<1>2. JobsOK'
  BY <1>0 DEF IntakeInv, I!StartChangeset, I!Rejected, JobsOK, InHand, WorkerOK, I!Resting, Record, QueueOK,
     I!Statuses
<1>3. WorkerOK'
  BY <1>0 DEF IntakeInv, I!StartChangeset, I!Rejected, WorkerOK, InHand, I!Resting, JobsOK, Record
<1>4. QueueOK'
  BY <1>0 DEF IntakeInv, I!StartChangeset, I!Rejected, QueueOK, I!NeverStranded, I!Resting, HandlerOK
<1>5. CuratorsOK'
  BY <1>0 DEF IntakeInv, I!StartChangeset, I!Rejected, CuratorsOK, Live, I!Members, I!Proposing, Published,
     TicketsOK, Ticket, I!Open, I!Terminal, WorkerOK, InHand, JobsOK, Record, I!Resting
<1>6. RestOK'
  BY <1>0 DEF IntakeInv, I!StartChangeset, I!Rejected, RestOK
<1> QED  BY <1>1, <1>2, <1>3, <1>4, <1>5, <1>6 DEF IntakeInv

(* The changeset ends, pushed or not. *)
LEMMA EndChangesetStep ==
    ASSUME I!ConstantsOK, IntakeInv, I!EndChangeset
    PROVE  IntakeInv'
<1>0. I!ConstantsOK /\ IntakeInv  OBVIOUS
<1>a. /\ tickets' \in [Contents -> Ticket] /\ tickets \in [Contents -> Ticket]
      /\ \A c \in Contents :
            /\ tickets'[c].job = tickets[c].job /\ tickets'[c].intake = tickets[c].intake
            /\ tickets'[c] = tickets[c] \/ (c = at.content /\ tickets[c].status \notin I!Terminal /\ tickets'[c].status = "curated")
  BY <1>0 DEF I!EndChangeset, IntakeInv, TicketsOK, WorkerOK, Ticket, I!Terminal
<1>b. /\ at' = I!Resting
      /\ UNCHANGED <<nature, mode, stored, jobs, lastId, handler, answering, queue, finished, held, proposed,
                   accepted, cut, lapsed, retries, deaths>>
  BY DEF I!EndChangeset
<1>c. \A c : I!Members(c)' = I!Members(c) /\ I!Copies(c)' = I!Copies(c)
  BY <1>b DEF I!Members, I!Copies
<1>1. TRUE
  BY <1>0, Frames DEF IntakeInv, I!EndChangeset
<1>2. JobsOK'
  BY <1>0, <1>a, <1>b, <1>c DEF IntakeInv, I!EndChangeset, JobsOK, InHand
<1>3. TicketsOK'
  BY <1>0, <1>a, <1>b, <1>c DEF IntakeInv, I!EndChangeset, JobsOK, TicketsOK, HandlerOK, WorkerOK, QueueOK,
     KeptOK, CuratorsOK, RestOK, Published, SameJobs, I!Members, I!Copies, Live, I!Unreadable, I!Proposing,
     I!DoneIsHeld, I!Intakes, I!NeverStranded, Ticket, Record, I!Kinds, I!Statuses, I!Open, I!Terminal, I!Stages,
     I!Ids, I!NoTicket, I!NoHandler, I!Resting, Entering, InHand, I!ConstantsOK
<1>4. HandlerOK'
  <2>1. \A c \in Contents : /\ tickets[c].status = "requeued" => tickets'[c].status = "requeued"
                            /\ tickets[c].status # "absent" => tickets'[c].status # "absent"
    BY <1>a DEF I!Terminal
  <2>2. I!Unreadable' = I!Unreadable  BY <1>b DEF I!Unreadable
  <2>3. handler.stage \in {"intake", "job", "rewrite"} => handler.content \in Contents
    BY <1>0 DEF IntakeInv, HandlerOK, Entering
  <2> QED  BY <1>0, <1>a, <1>b, <1>c, <2>1, <2>2, <2>3 DEF IntakeInv, HandlerOK, Entering
<1>5. WorkerOK'
  BY <1>0, <1>a, <1>b, <1>c DEF IntakeInv, I!EndChangeset, WorkerOK, InHand, I!Resting, JobsOK, Record
<1>6. QueueOK'
  BY <1>0, <1>a, <1>b, <1>c DEF IntakeInv, I!EndChangeset, QueueOK, I!NeverStranded, I!Resting, HandlerOK,
     JobsOK, WorkerOK, InHand, I!Copies
<1>7. KeptOK'
  <2>1. accepted \subseteq Contents /\ I!Unreadable' = I!Unreadable
    BY <1>0, <1>b DEF IntakeInv, RestOK, I!Unreadable
  <2>2. I!DoneIsHeld'
    BY <1>0, <1>a, <1>b DEF IntakeInv, JobsOK, Record, KeptOK, I!DoneIsHeld, I!Intakes
  <2> QED  BY <1>0, <1>a, <1>b, <1>c, <2>1, <2>2 DEF IntakeInv, KeptOK
<1>8. CuratorsOK'
  BY <1>0, <1>a, <1>b, <1>c DEF IntakeInv, I!EndChangeset, JobsOK, TicketsOK, HandlerOK, WorkerOK, QueueOK,
     KeptOK, CuratorsOK, RestOK, Published, SameJobs, I!Members, I!Copies, Live, I!Unreadable, I!Proposing,
     I!DoneIsHeld, I!Intakes, I!NeverStranded, Ticket, Record, I!Kinds, I!Statuses, I!Open, I!Terminal, I!Stages,
     I!Ids, I!NoTicket, I!NoHandler, I!Resting, Entering, InHand, I!ConstantsOK
<1>9. RestOK'
  BY <1>0, <1>a, <1>b, <1>c DEF IntakeInv, I!EndChangeset, RestOK
<1> QED  BY <1>1, <1>2, <1>3, <1>4, <1>5, <1>6, <1>7, <1>8, <1>9 DEF IntakeInv

(* The service dies and starts again: handlers and the worker are gone, the records stay. *)
LEMMA ServiceRestartStep ==
    ASSUME I!ConstantsOK, IntakeInv, I!Restart
    PROVE  IntakeInv'
<1>0. I!ConstantsOK /\ IntakeInv  OBVIOUS
<1>a. /\ at.job \in 0..MaxJobs /\ \A j \in DOMAIN jobs : jobs[j] \in Record
      /\ \A j \in DOMAIN jobs : jobs[j].status = "running" => j = at.job /\ at.step \in InHand
  BY <1>0 DEF IntakeInv, JobsOK, WorkerOK
<1>o. PICK outcome \in {"done", "failed"} : outcome = "done" <=> I!Landed
  OBVIOUS
<1>b. /\ DOMAIN jobs' = DOMAIN jobs
      /\ \A j \in DOMAIN jobs :
            /\ jobs[j].status # "running" => jobs'[j] = jobs[j]
            /\ jobs[j].status = "running" =>
                 \E retryable \in BOOLEAN :
                    jobs'[j] = [kind |-> jobs[j].kind, content |-> jobs[j].content, status |-> outcome,
                                retryable |-> retryable]
  <2>1. jobs' = I!Reconciled  BY DEF I!Restart
  <2>2. DOMAIN jobs' = DOMAIN jobs  BY <2>1 DEF I!Reconciled
  <2> SUFFICES ASSUME NEW j \in DOMAIN jobs
               PROVE  /\ jobs[j].status # "running" => jobs'[j] = jobs[j]
                      /\ jobs[j].status = "running" =>
                           \E retryable \in BOOLEAN :
                              jobs'[j] = [kind |-> jobs[j].kind, content |-> jobs[j].content, status |-> outcome,
                                          retryable |-> retryable]
    BY <2>2
  <2>3. jobs[j] \in Record  BY <1>a
  <2>4. CASE jobs[j].status # "running"
    BY <2>1, <2>4 DEF I!Reconciled
  <2>5. CASE jobs[j].status = "running" /\ I!Landed
    <3>1. jobs'[j] = [kind |-> jobs[j].kind, content |-> jobs[j].content, status |-> outcome,
                      retryable |-> jobs[j].retryable]
      BY <1>o, <2>1, <2>3, <2>5 DEF I!Reconciled, Record
    <3>2. jobs[j].retryable \in BOOLEAN  BY <2>3 DEF Record
    <3> QED  BY <2>5, <3>1, <3>2
  <2>6. CASE jobs[j].status = "running" /\ ~I!Landed
    <3>1. jobs'[j] = [kind |-> jobs[j].kind, content |-> jobs[j].content, status |-> outcome, retryable |-> TRUE]
      BY <1>o, <2>1, <2>3, <2>6 DEF I!Reconciled, Record
    <3> QED  BY <2>6, <3>1
  <2> QED  BY <2>4, <2>5, <2>6
<1>c. /\ SameJobs
      /\ \A j \in DOMAIN jobs : /\ jobs'[j] \in Record /\ jobs'[j].status # "running"
                                /\ jobs[j].status # "running" => jobs'[j] = jobs[j]
                                /\ jobs[j].status = "running" => jobs'[j].status = outcome
  <2> SUFFICES ASSUME NEW j \in DOMAIN jobs
               PROVE  /\ jobs'[j] \in Record /\ jobs'[j].status # "running"
                      /\ jobs'[j].kind = jobs[j].kind /\ jobs'[j].content = jobs[j].content
                      /\ jobs[j].status # "running" => jobs'[j] = jobs[j]
                      /\ jobs[j].status = "running" => jobs'[j].status = outcome
    BY <1>b DEF SameJobs
  <2>1. jobs[j] \in Record  BY <1>a
  <2>2. CASE jobs[j].status # "running"
    BY <1>b, <2>1, <2>2
  <2>3. CASE jobs[j].status = "running"
    BY <1>o, <1>b, <2>1, <2>3 DEF Record, I!Statuses
  <2> QED  BY <2>2, <2>3
<1>d. \A c \in Contents : I!Members(c)' = I!Members(c) /\ I!Copies(c)' = I!Copies(c)
  BY <1>c, SameMembers
<1>e. /\ handler' = I!NoHandler /\ answering' = {} /\ finished' = {} /\ at' = I!Resting
      /\ queue' = {j \in DOMAIN jobs : jobs[j].kind = "codex" /\ jobs[j].status = "queued"}
      /\ cut' = IF handler.stage \in {"intake", "job"} THEN cut \cup {handler.content} ELSE cut
      /\ UNCHANGED <<nature, stored, lastId, held, curators, proposed, accepted, lapsed, retries>>
  BY DEF I!Restart
<1>f. /\ tickets' \in [Contents -> Ticket]
      /\ \A c \in Contents :
            /\ tickets'[c].job = tickets[c].job /\ tickets'[c].status = tickets[c].status
            /\ \/ tickets'[c] = tickets[c]
               \/ /\ tickets[c].status # "absent" /\ tickets'[c].intake \in I!Copies(c) /\ tickets'[c].intake # 0
      /\ I!Landed /\ jobs[at.job].kind = "intake" => tickets'[at.content].intake # 0
  <2>1. tickets \in [Contents -> Ticket]  BY <1>0 DEF IntakeInv, TicketsOK
  <2>2. CASE ~(I!Landed /\ jobs[at.job].kind = "intake")
    BY <2>1, <2>2 DEF I!Restart
  <2>3. CASE I!Landed /\ jobs[at.job].kind = "intake"
    <3>1. /\ at.job \in DOMAIN jobs /\ jobs[at.job].content = at.content /\ at.content \in Contents
          /\ at.job \in I!Copies(at.content) /\ at.job # 0
      BY <1>0, <1>a, <2>3 DEF IntakeInv, WorkerOK, InHand, JobsOK, Record, I!Copies, I!Landed
    <3>2. tickets' = [tickets EXCEPT ![at.content].intake = at.job]
      BY <2>3, <3>1 DEF I!Restart, I!Settled
    <3>3. /\ tickets' \in [Contents -> Ticket] /\ \A c \in Contents : c # at.content => tickets'[c] = tickets[c]
          /\ tickets'[at.content] = [status |-> tickets[at.content].status, job |-> tickets[at.content].job,
                                     intake |-> at.job]
      BY <1>a, <2>1, <3>1, <3>2 DEF Ticket
    <3>4. tickets[at.content].status # "absent"
      BY <1>0, <3>1 DEF IntakeInv, TicketsOK
    <3> QED  BY <3>1, <3>3, <3>4
  <2> QED  BY <2>2, <2>3
<1>g. /\ \A c \in Contents : tickets[c].intake # 0 => tickets'[c].intake # 0
      /\ accepted \subseteq Contents /\ I!Unreadable' = I!Unreadable
  BY <1>0, <1>e, <1>f DEF IntakeInv, RestOK, I!Unreadable
<1>1. TRUE
  BY <1>0, Frames DEF IntakeInv, I!Restart, I!Landed, I!Settled
<1>2. JobsOK'
  BY <1>0, <1>c, <1>e DEF IntakeInv, JobsOK, SameJobs
<1>3. TicketsOK'
  <2> SUFFICES ASSUME NEW c \in Contents
               PROVE  /\ tickets'[c].status = "absent" => tickets'[c] = I!NoTicket
                      /\ tickets'[c].job <= lastId
                      /\ tickets'[c].job \in DOMAIN jobs =>
                           /\ tickets'[c].job \in I!Members(c)
                           /\ jobs[tickets'[c].job].kind = "codex" => tickets'[c].status = "requeued"
                      /\ tickets'[c].intake # 0 => tickets'[c].intake \in I!Copies(c)
                      /\ I!Copies(c) # {} => tickets'[c].status # "absent"
                      /\ tickets'[c].status # "absent" /\ c \notin cut' => tickets'[c].job \in I!Members(c)
    BY <1>c, <1>d, <1>e, <1>f DEF TicketsOK, SameJobs
  <2>1. c \notin cut' => c \notin cut /\ ~(handler.stage \in {"intake", "job"} /\ handler.content = c)
    BY <1>e
  <2> QED  BY <1>0, <1>f, <2>1 DEF IntakeInv, TicketsOK
<1>4. HandlerOK'
  BY <1>0, <1>e, LockFree
<1>5. WorkerOK'
  <2>1. 0 \in 0..MaxJobs  BY <1>0 DEF I!ConstantsOK
  <2> QED  BY <1>e, <2>1 DEF WorkerOK, I!Resting, InHand
<1>6. QueueOK'
  BY <1>c, <1>e DEF QueueOK, I!NeverStranded, SameJobs
<1>7. KeptOK'
  <2>1. I!DoneIsHeld'
    <3> SUFFICES ASSUME NEW j \in DOMAIN jobs, jobs[j].kind = "intake", jobs'[j].status = "done"
                 PROVE  jobs[j].content \in held /\ tickets'[jobs[j].content].intake # 0
      BY <1>c, <1>e DEF I!DoneIsHeld, I!Intakes, SameJobs
    <3>1. CASE jobs[j].status = "done"
      BY <1>0, <1>a, <1>g, <3>1 DEF IntakeInv, KeptOK, I!DoneIsHeld, I!Intakes, Record
    <3>2. CASE jobs[j].status # "done"
      <4>1. j = at.job /\ I!Landed
        BY <1>o, <1>a, <1>c, <3>2
      <4> QED  BY <1>0, <1>f, <4>1 DEF IntakeInv, WorkerOK, InHand, I!Landed
    <3> QED  BY <3>1, <3>2
  <2>2. \A c \in Contents : (\E j \in I!Members(c) : jobs[j].kind = "codex")
            => \E j \in I!Members(c)' : jobs'[j].kind = "codex"
    BY <1>c, <1>d DEF SameJobs, I!Members
  <2> QED  BY <1>0, <1>d, <1>e, <1>f, <1>g, <2>1, <2>2 DEF IntakeInv, KeptOK
<1>8. CuratorsOK'
  <2>1. \A c \in Contents : I!Proposing(c)' => I!Proposing(c)
    BY <1>e DEF I!Proposing, I!Resting
  <2>2. \A c \in Contents : Live(c)' \subseteq Live(c)
    BY <1>c, <1>d DEF Live, I!Members, SameJobs
  <2>3. \A c \in Contents : c \notin cut' => c \notin cut
    BY <1>e
  <2>4. \A c \in Contents : "codex" \in curators[c] => \E j \in Live(c)' : Published(j)'
    <3> SUFFICES ASSUME NEW c \in Contents, "codex" \in curators[c]
                 PROVE  \E j \in Live(c)' : Published(j)'
      OBVIOUS
    <3>1. PICK j \in Live(c) : Published(j)
      BY <1>0 DEF IntakeInv, CuratorsOK
    <3>2. j \in I!Members(c) /\ j \in DOMAIN jobs /\ jobs[j].kind = "codex"
      BY <3>1 DEF Live, I!Members
    <3>3. jobs[j].status = "done" \/ (jobs[j].status = "running" /\ I!Landed)
      BY <1>0, <3>1, <3>2 DEF IntakeInv, WorkerOK, InHand, Published, I!Landed
    <3>4. jobs'[j].status = "done" /\ jobs'[j].kind = "codex"
      BY <1>o, <1>c, <3>2, <3>3 DEF SameJobs
    <3> QED  BY <1>d, <3>2, <3>4 DEF Live, Published
  <2>5. \A c \in Contents : tickets'[c].status = tickets[c].status
    BY <1>f
  <2> QED  BY <1>0, <1>e, <2>1, <2>2, <2>3, <2>4, <2>5 DEF IntakeInv, CuratorsOK
<1>9. RestOK'
  <2>1. cut' \subseteq Contents
    BY <1>0, <1>e DEF IntakeInv, RestOK, HandlerOK, Entering
  <2>2. deaths' \in 0..MaxDeaths /\ mode' \in {"inbox", "codex"}
    BY <1>0 DEF I!Restart, IntakeInv, RestOK, I!ConstantsOK
  <2> QED  BY <1>0, <1>e, <2>1, <2>2 DEF IntakeInv, RestOK
<1> QED  BY <1>1, <1>2, <1>3, <1>4, <1>5, <1>6, <1>7, <1>8, <1>9 DEF IntakeInv

-----------------------------------------------------------------------------
(* The intake starts so. *)
LEMMA IntakeInit ==
    ASSUME I!ConstantsOK, I!Init
    PROVE  IntakeInv
<1>0. /\ 0 \in 0..MaxJobs /\ 0 \in 0..MaxRetries /\ 0 \in 0..MaxDeaths
      /\ DOMAIN jobs = {}
  BY DEF I!ConstantsOK, I!Init
<1>m. \A c : I!Members(c) = {} /\ I!Copies(c) = {}
  BY <1>0 DEF I!Members, I!Copies
<1>1. JobsOK  BY <1>0 DEF I!Init, JobsOK
<1>2. TicketsOK
  BY <1>0, <1>m DEF I!Init, TicketsOK, Ticket, I!NoTicket
<1>3. HandlerOK
  BY <1>0 DEF I!Init, HandlerOK, I!NoHandler, Entering, I!Stages
<1>4. WorkerOK  BY <1>0 DEF I!Init, WorkerOK, I!Resting, InHand
<1>5. QueueOK  BY DEF I!Init, QueueOK, I!NeverStranded
<1>6. KeptOK  BY <1>0 DEF I!Init, KeptOK, I!DoneIsHeld, I!Intakes
<1>7. CuratorsOK
  BY <1>m DEF I!Init, CuratorsOK, Live, I!Proposing, I!Resting
<1>8. RestOK  BY <1>0 DEF I!Init, RestOK
<1> QED  BY <1>1, <1>2, <1>3, <1>4, <1>5, <1>6, <1>7, <1>8 DEF IntakeInv

(* Every step of the intake keeps the invariant. *)
LEMMA IntakeNext ==
    ASSUME I!ConstantsOK, IntakeInv, [I!Next]_(I!vars)
    PROVE  IntakeInv'
<1>1. CASE UNCHANGED I!vars
  BY <1>1, Frames DEF I!vars, IntakeInv
<1>2. ASSUME NEW c \in Contents,
             I!Post(c) \/ I!Drop(c) \/ I!SweepTakes(c) \/ I!Requeue(c) \/ I!Claim(c) \/ I!LeaseEnds(c) \/ I!NewRun(c)
               \/ I!Skip(c) \/ I!AdminRetry(c) \/ I!Propose(c) \/ I!StartChangeset(c)
      PROVE  IntakeInv'
  BY <1>2, PostStep, DropStep, SweepTakesStep, RequeueStep, ClaimStep, LeaseEndsStep, NewRunStep, SkipStep,
     AdminRetryStep, ProposeStep, StartChangesetStep
<1>3. ASSUME I!WriteSource \/ I!EnterItem \/ I!NewIntake \/ I!WriteJob \/ I!NewJob \/ I!Sweep \/ I!SweepEnds \/ I!Rewrite
      PROVE  IntakeInv'
  BY <1>3, WriteSourceStep, EnterItemStep, NewIntakeStep, WriteJobStep, NewJobStep, SweepStep, SweepEndsStep,
     RewriteStep
<1>4. ASSUME NEW j \in I!Ids, I!HandOver(j) \/ I!SweepHands(j) \/ I!Take(j)
      PROVE  IntakeInv'
  BY <1>4, HandOverStep, SweepHandsStep, TakeStep
<1>5. ASSUME I!Commit \/ I!Settle \/ I!Save \/ I!Fails \/ I!Curate \/ I!Leave \/ I!EndChangeset \/ I!Restart
      PROVE  IntakeInv'
  BY <1>5, CommitStep, SettleStep, SaveStep, FailsStep, CurateStep, WorkerLeaveStep, EndChangesetStep,
     ServiceRestartStep
<1> QED  BY <1>1, <1>2, <1>3, <1>4, <1>5 DEF I!Next

(* The invariant says what the runs check. *)
LEMMA IntakeKept ==
    ASSUME I!ConstantsOK, IntakeInv
    PROVE  I!IntakeSafe
<1>1. I!TypeOK
  <2>1. tickets \in [Contents -> [status: {"absent"} \cup I!Open \cup I!Terminal, job: I!Ids \cup {0}, intake: I!Ids \cup {0}]]
    BY DEF I!ConstantsOK, IntakeInv, TicketsOK, Ticket, I!Ids
  <2>2. {stored, held, proposed, accepted, cut, lapsed} \subseteq SUBSET Contents
    BY DEF IntakeInv, RestOK
  <2>3. {answering, queue, finished} \subseteq SUBSET DOMAIN jobs
    BY DEF IntakeInv, QueueOK
  <2>4. at \in [job: 0..MaxJobs, content: Contents \cup {NoContent},
               step: {"rest", "leave", "commit", "settle", "save", "curate", "changeset"}]
    BY DEF IntakeInv, WorkerOK, InHand
  <2> QED  BY <2>1, <2>2, <2>3, <2>4 DEF IntakeInv, JobsOK, HandlerOK, RestOK, Record, I!TypeOK
<1>2. I!AcceptedIsKept
  BY DEF IntakeInv, KeptOK, I!AcceptedIsKept
<1>3. I!OneCurator
  <2> SUFFICES ASSUME NEW c \in Contents, c \notin cut, c \notin lapsed, curators[c] = {"codex", "maintainer"}
               PROVE  FALSE
    BY DEF I!OneCurator
  <2>1. tickets[c].status = "curated"  BY DEF IntakeInv, CuratorsOK
  <2>2. Live(c) # {}  BY DEF IntakeInv, CuratorsOK
  <2>3. tickets[c].status \in {"absent", "requeued"}  BY <2>2 DEF IntakeInv, CuratorsOK
  <2> QED  BY <2>1, <2>3
<1>4. I!DoneIsHeld /\ I!NeverStranded  BY DEF IntakeInv, KeptOK, QueueOK
<1> QED  BY <1>1, <1>2, <1>3, <1>4 DEF I!IntakeSafe

(* Whatever the interleaving of submissions, sweeps, requeues, the worker and the maintainer, and
   wherever the service dies: what was answered is kept, nobody curates what somebody else
   curated, a done intake is in the remote's Git, and nothing queued is left behind. *)
THEOREM IntakeIsSafe == ASSUME I!ConstantsOK PROVE I!Spec => []I!IntakeSafe
<1>1. I!Init => IntakeInv  BY IntakeInit
<1>2. IntakeInv /\ [I!Next]_(I!vars) => IntakeInv'  BY IntakeNext
<1>3. IntakeInv => I!IntakeSafe  BY IntakeKept
<1> QED  BY <1>1, <1>2, <1>3, PTL DEF I!Spec

-----------------------------------------------------------------------------
(* The composition: a behaviour is of one part, and the others rest in it. *)

(* What each part keeps, in the behaviours that are of it. *)
PartsInv ==
    /\ part = "reads"  => ReadInv
    /\ part = "intake" => IntakeInv
    /\ part = "recall" => RecallInv
    /\ part \in Watched => CardsInv

(* The constants of the parts are what their proofs assume. *)
LEMMA PartsConstants == I!ConstantsOK /\ V!ConstantsOK /\ W!ConstantsOK
  BY IntakeOK, VectorsOK, WatchdogOK

(* Each part starts so. *)
LEMMA PartsInit == AllInit => PartsInv
<1> SUFFICES ASSUME AllInit PROVE PartsInv  OBVIOUS
<1>1. Init /\ I!Init /\ V!Init /\ W!Init  BY DEF AllInit
<1>2. ReadInv  BY <1>1, InitInv
<1>3. IntakeInv  BY <1>1, PartsConstants, IntakeInit
<1>4. RecallInv  BY <1>1, PartsConstants, RecallInit
<1>5. CardsInv  BY <1>1, PartsConstants, CardsStart
<1> QED  BY <1>2, <1>3, <1>4, <1>5 DEF PartsInv

(* A step is the watchdog's, or of a part that leaves what it looks at alone. *)
LEMMA SameWatchdog ==
    ASSUME [AllNext]_allVars
    PROVE  IF part \in Watched THEN [W!Next]_(W!vars) ELSE UNCHANGED W!vars
<1>1. watchVars' = watchVars => UNCHANGED W!vars  BY DEF watchVars, W!vars, W!world, W!book
<1>2. CASE part \in Watched
  <2>1. CASE UNCHANGED allVars  BY <1>1, <1>2, <2>1 DEF allVars
  <2>2. CASE WatchdogStep  BY <1>2, <2>2 DEF WatchdogStep, W!Next
  <2>3. CASE ReadsStep \/ IntakeStep \/ RecallStep  BY <1>2, <2>3 DEF Watched, ReadsStep, IntakeStep, RecallStep
  <2> QED  BY <2>1, <2>2, <2>3, <1>2 DEF AllNext
<1>3. CASE part \notin Watched
  <2>1. watchVars' = watchVars
    BY <1>3 DEF allVars, AllNext, ReadsStep, IntakeStep, RecallStep, WatchdogStep, Watched
  <2> QED  BY <1>1, <1>3, <2>1
<1> QED  BY <1>2, <1>3

(* A step of one part keeps its invariant, and the part stays the same. *)
LEMMA PartsNext == PartsInv /\ [AllNext]_allVars => PartsInv'
<1> SUFFICES ASSUME PartsInv, [AllNext]_allVars PROVE PartsInv'  OBVIOUS
<1>1. part' = part
  BY DEF allVars, AllNext, ReadsStep, IntakeStep, RecallStep, WatchdogStep
<1>2. CASE part = "reads"
  <2>1. [Next]_vars
    BY <1>2 DEF allVars, AllNext, ReadsStep, IntakeStep, RecallStep, WatchdogStep
  <2>2. ReadInv'  BY <1>2, <2>1, NextInv DEF PartsInv
  <2> QED  BY <1>1, <1>2, <2>2 DEF PartsInv, Watched
<1>3. CASE part = "intake"
  <2>1. [I!Next]_(I!vars)
    <3>1. intakeVars' = intakeVars => I!vars' = I!vars  BY DEF intakeVars, I!vars
    <3> QED  BY <1>3, <3>1 DEF allVars, AllNext, ReadsStep, IntakeStep, RecallStep, WatchdogStep
  <2>2. IntakeInv'  BY <1>3, <2>1, PartsConstants, IntakeNext DEF PartsInv
  <2> QED  BY <1>1, <1>3, <2>2 DEF PartsInv, Watched
<1>4. CASE part = "recall"
  <2>1. [V!Next]_(V!vars)
    <3>1. recallVars' = recallVars => V!vars' = V!vars  BY DEF recallVars, V!vars
    <3> QED  BY <1>4, <3>1 DEF allVars, AllNext, ReadsStep, IntakeStep, RecallStep, WatchdogStep
  <2>2. RecallInv'  BY <1>4, <2>1, PartsConstants, RecallNext DEF PartsInv
  <2> QED  BY <1>1, <1>4, <2>2 DEF PartsInv, Watched
<1>5. CASE part \in Watched
  <2>1. [W!Next]_(W!vars)  BY <1>5, SameWatchdog
  <2>2. CardsInv'  BY <1>5, <2>1, PartsConstants, CardsNext DEF PartsInv
  <2> QED  BY <1>1, <1>5, <2>2 DEF PartsInv, Watched
<1>6. CASE part \notin {"reads", "intake", "recall"} \cup Watched
  BY <1>1, <1>6 DEF PartsInv, Watched
<1> QED  BY <1>2, <1>3, <1>4, <1>5, <1>6

(* The intake keeps its promises: a submission is kept, handed on, curated once and told of truly *)
(* (IntakeSafe), for any submissions, interleavings, deaths and restarts of the service.          *)
THEOREM SubmissionsAreSafe == AllSpec => []IntakeSafe
<1>1. PartsInv => IntakeSafe
  BY IntakeKept, PartsConstants DEF PartsInv, IntakeSafe
<1> QED  BY <1>1, PartsInit, PartsNext, PTL DEF AllSpec

(* An answer by meaning is of a whole index, which is built once and kept (RecallWhole), for any  *)
(* snapshots of the bundle, searches, builders, failures of the embedder and restarts.            *)
THEOREM AnswersAreWhole == AllSpec => []RecallWhole
<1>1. PartsInv => RecallWhole
  BY RecallSafe, PartsConstants DEF PartsInv, RecallWhole
<1> QED  BY <1>1, PartsInit, PartsNext, PTL DEF AllSpec

(* The cards tell what is wrong, all of it, and only news (CardsTell): a problem announced and    *)
(* fixed by nobody stays on the card, or the check that cannot see it does, whatever pass fails   *)
(* and whenever the state file is lost; for any queue, jobs, limits and clock                     *)
(* (scripts/maintenance_watchdog.py).                                                             *)
THEOREM CardsAreTold == AllSpec => CardsTell
<1>1. PartsInv => (part \in Watched => W!TypeOK /\ W!NothingReadsAsFixed /\ W!EverythingTold)
  BY CardsSafe, PartsConstants DEF PartsInv
<1>2. PartsInv /\ [AllNext]_allVars =>
        [(told' # told /\ previous = told /\ W!Backlogs(told) # {} /\ W!Backlogs(told') # {}) =>
           \/ told' \ W!Backlogs(told') # told \ W!Backlogs(told)
           \/ \E k \in W!Backlogs(told') : \A l \in W!Backlogs(told) : k[2] > l[2]]_(W!vars)
  <2> SUFFICES ASSUME PartsInv, [AllNext]_allVars, ~UNCHANGED W!vars, told' # told, previous = told,
                      W!Backlogs(told) # {}, W!Backlogs(told') # {}
               PROVE  \/ told' \ W!Backlogs(told') # told \ W!Backlogs(told)
                      \/ \E k \in W!Backlogs(told') : \A l \in W!Backlogs(told) : k[2] > l[2]
    OBVIOUS
  <2>1. part \in Watched /\ [W!Next]_(W!vars)  BY SameWatchdog
  <2>2. CardsInv  BY <2>1 DEF PartsInv
  <2> QED  BY <2>1, <2>2, NewsOnly, PartsConstants
<1> QED  BY <1>1, <1>2, PartsInit, PartsNext, PTL DEF AllSpec, CardsTell, W!OnlyNews
===============================================================================
