----------------------------- MODULE ReadCache -----------------------------
(***************************************************************************)
(* The snapshot cache of semantic reads: src/aiwiki/service/bundle.py      *)
(* (_snapshot, _scan, _fingerprint, _settled), on a deployment whose files *)
(* change under it (a mirror that pulls, a host operator).                 *)
(*                                                                         *)
(* A file is its version and the timestamp its last change left; the other *)
(* parts of its stat are as before (the hard case: an edit that keeps the  *)
(* inode and the size).  Stats and reads of different files are separate   *)
(* steps, so a change may fall anywhere inside a walk.  drop_snapshots is  *)
(* the writer's and is modelled in Gate.                                   *)
(***************************************************************************)
EXTENDS Naturals

CONSTANTS
    Files, Requests,
    NoSnapshot, Nobody,
    Ticks,      \* the ticks a file system's timestamps may have
    Racy,       \* _RACY_NS
    Second,     \* one second
    CoarseTick, \* _COARSE_TICK_NS
    MaxClock,   \* bound: time
    MaxWrites   \* bound: changes, all files together

ASSUME TimesOK ==
    /\ Nobody \notin Requests
    /\ Ticks \subseteq Nat \ {0} /\ Racy \in Nat /\ Second \in Nat \ {0} /\ CoarseTick \in Nat
    /\ MaxClock \in Nat /\ MaxWrites \in Nat
    (* The ticks _RACY_NS and _COARSE_TICK_NS were chosen for: short ones, and *)
    (* whole seconds up to _COARSE_TICK_NS.                                    *)
    /\ \A tick \in Ticks :
           tick <= Racy + 1 \/ (tick % Second = 0 /\ tick <= CoarseTick + Racy + 1)

VARIABLES
    clock,   \* time.time_ns
    tick,    \* of the file system that holds the bundle
    files,   \* per file, the number of the change that left it and its timestamp
    cache,   \* _snapshots of the bundle
    lock,    \* holder of the bundle's lock
    scan,    \* what the holder has gathered so far
    request, \* per request: its step, the snapshot it looks at, ...
    floor    \* history: the versions when each request arrived

vars == <<clock, tick, files, cache, lock, scan, request, floor>>

Versions == 0..MaxWrites
Times    == 0..MaxClock
Stamp(time) == (time \div tick) * tick

Snapshot == [print: [Files -> Times], version: [Files -> Versions],
             settled: BOOLEAN,
             arrived: SUBSET Requests]  \* the requests there before the scan began
Blank    == [print |-> [f \in Files |-> 0], version |-> [f \in Files |-> 0],
             settled |-> FALSE, arrived |-> {}]

Steps == {"idle", "peek", "wait", "walk", "read", "answer"}
Rest  == [step |-> "idle", todo |-> {}, snapshot |-> NoSnapshot]

At(r, step)     == request[r].step = step
Answer(r, snap) == request' = [request EXCEPT ![r] = [step |-> "answer", todo |-> {}, snapshot |-> snap]]
Shared(r)       == cache # NoSnapshot /\ r \in cache.arrived
Present         == {r \in Requests : ~At(r, "idle")}

(* _settled: no later change can leave the same timestamp. *)
Settled(ctime, now) ==
    ctime + Racy + (IF ctime % Second = 0 THEN CoarseTick ELSE 0) < now

Init ==
    /\ clock = 0 /\ tick \in Ticks
    /\ files = [f \in Files |-> [version |-> 0, ctime |-> 0]]
    /\ cache = NoSnapshot /\ lock = Nobody
    /\ scan = [now |-> 0, snapshot |-> Blank]
    /\ request = [r \in Requests |-> Rest]
    /\ floor = [r \in Requests |-> [f \in Files |-> 0]]

TimePasses ==
    /\ clock < MaxClock /\ clock' = clock + 1
    /\ UNCHANGED <<tick, files, cache, lock, scan, request, floor>>

(* A pull or an operator changes a file: the next change of the tree. *)
Write(f) ==
    /\ \E change \in Versions :
           /\ \A g \in Files : files[g].version < change
           /\ \E g \in Files : files[g].version + 1 = change
           /\ files' = [files EXCEPT ![f] = [version |-> change, ctime |-> Stamp(clock)]]
    /\ UNCHANGED <<clock, tick, cache, lock, scan, request, floor>>

(* A request arrives: no scan so far began after it.  A settled snapshot is   *)
(* looked at first, without the lock.                                         *)
Arrive(r) ==
    /\ At(r, "idle")
    /\ floor' = [floor EXCEPT ![r] = [f \in Files |-> files[f].version]]
    /\ request' = [request EXCEPT ![r] =
           IF cache # NoSnapshot /\ cache.settled
           THEN [step |-> "peek", todo |-> Files, snapshot |-> cache]
           ELSE [step |-> "wait", todo |-> {}, snapshot |-> NoSnapshot]]
    /\ cache' = IF cache = NoSnapshot THEN cache ELSE [cache EXCEPT !.arrived = @ \ {r}]
    /\ scan' = [scan EXCEPT !.snapshot.arrived = @ \ {r}]
    /\ UNCHANGED <<clock, tick, files, lock>>

(* The fingerprint of the cached snapshot, file by file. *)
Peek(r, f) ==
    /\ At(r, "peek") /\ f \in request[r].todo
    /\ IF files[f].ctime # request[r].snapshot.print[f]
       THEN request' = [request EXCEPT ![r].step = "wait"]
       ELSE IF request[r].todo = {f} THEN Answer(r, request[r].snapshot)
       ELSE request' = [request EXCEPT ![r].todo = @ \ {f}]
    /\ UNCHANGED <<clock, tick, files, cache, lock, scan, floor>>

(* Mutant: any scan that ended while the request waited is shared. *)
ShareAny(r) ==
    /\ At(r, "wait") /\ lock = Nobody
    /\ cache # NoSnapshot
    /\ Answer(r, cache)
    /\ UNCHANGED <<clock, tick, files, cache, lock, scan, floor>>

(* Under the lock: a scan that began after this request arrived is shared. *)
Share(r) ==
    /\ At(r, "wait") /\ lock = Nobody
    /\ Shared(r)
    /\ Answer(r, cache)
    /\ UNCHANGED <<clock, tick, files, cache, lock, scan, floor>>

(* Otherwise the request scans: it notes the times first and what was kept before. *)
Begin(r) ==
    /\ At(r, "wait") /\ lock = Nobody /\ ~Shared(r)
    /\ lock' = r
    /\ scan' = [now |-> clock, snapshot |-> [Blank EXCEPT !.arrived = Present]]
    /\ request' = [request EXCEPT ![r] = [step |-> "walk", todo |-> Files, snapshot |-> cache]]
    /\ UNCHANGED <<clock, tick, files, cache, floor>>

(* The fingerprint, "before any read, so a change during the scan rescans". *)
Walk(r, f) ==
    /\ At(r, "walk") /\ f \in request[r].todo
    /\ LET print == [scan.snapshot.print EXCEPT ![f] = files[f].ctime]
           old   == request[r].snapshot
       IN  IF request[r].todo # {f}
           THEN /\ scan' = [scan EXCEPT !.snapshot.print = print]
                /\ request' = [request EXCEPT ![r].todo = @ \ {f}]
                /\ UNCHANGED lock
           ELSE IF old # NoSnapshot /\ old.settled /\ old.print = print
           THEN lock' = Nobody /\ Answer(r, old) /\ UNCHANGED scan
           ELSE /\ scan' = [scan EXCEPT !.snapshot.print = print,
                       !.snapshot.settled = \A g \in Files : Settled(print[g], scan.now)]
                /\ request' = [request EXCEPT ![r].step = "read", ![r].todo = Files]
                /\ UNCHANGED lock
    /\ UNCHANGED <<clock, tick, files, cache, floor>>

(* The contents, file by file; the last one keeps the snapshot. *)
Read(r, f) ==
    /\ At(r, "read") /\ f \in request[r].todo
    /\ LET done == [scan.snapshot EXCEPT !.version[f] = files[f].version]
       IN  IF request[r].todo # {f}
           THEN /\ scan' = [scan EXCEPT !.snapshot = done]
                /\ request' = [request EXCEPT ![r].todo = @ \ {f}]
                /\ UNCHANGED <<cache, lock>>
           ELSE /\ cache' = done /\ lock' = Nobody
                /\ Answer(r, done)
                /\ UNCHANGED scan
    /\ UNCHANGED <<clock, tick, files, floor>>

Leave(r) ==
    /\ At(r, "answer")
    /\ request' = [request EXCEPT ![r] = Rest]
    /\ UNCHANGED <<clock, tick, files, cache, lock, scan, floor>>

Next ==
    \/ TimePasses
    \/ \E f \in Files : Write(f)
    \/ \E r \in Requests :
           \/ Arrive(r) \/ Share(r) \/ Begin(r) \/ Leave(r)
           \/ \E f \in Files : Peek(r, f) \/ Walk(r, f) \/ Read(r, f)

Spec == Init /\ [][Next]_vars

-----------------------------------------------------------------------------
(* Properties. *)

(* Every variable has its shape, and whoever walks or reads the tree holds the *)
(* bundle's lock.                                                              *)
TypeOK ==
    /\ clock \in Times /\ tick \in Ticks
    /\ files \in [Files -> [version: Versions, ctime: Times]]
    /\ cache \in Snapshot \cup {NoSnapshot}
    /\ lock \in Requests \cup {Nobody}
    /\ scan \in [now: Times, snapshot: Snapshot]
    /\ request \in [Requests -> [step: Steps, todo: SUBSET Files,
                                 snapshot: Snapshot \cup {NoSnapshot}]]
    /\ floor \in [Requests -> [Files -> Versions]]
    /\ \A r \in Requests : request[r].step \in {"walk", "read"} <=> lock = r

(* A read sees every change that was complete when its request arrived, whether *)
(* it scanned, shared another request's scan or took the cached snapshot.       *)
FreshAnswers ==
    \A r \in Requests : At(r, "answer") =>
        \A f \in Files : request[r].snapshot.version[f] >= floor[r][f]

(* A settled snapshot whose fingerprint still holds is the tree as it is: equal *)
(* timestamps never hide a change from it.                                      *)
FingerprintsTell ==
    cache # NoSnapshot /\ cache.settled =>
        \A f \in Files : cache.print[f] = files[f].ctime => cache.version[f] = files[f].version

(* Answers and the cached snapshot they come from are of the tree. *)
ReadsSound == TypeOK /\ FreshAnswers /\ FingerprintsTell
=============================================================================
