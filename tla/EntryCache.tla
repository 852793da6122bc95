----------------------------- MODULE EntryCache -----------------------------
(***************************************************************************)
(* The recently-visited-entry cache of internal/ldapclient (client.go,     *)
(* read.go, write.go) with the goroutines that use it.  The program runs   *)
(* every LDAP operation in a goroutine of its own over one multiplexed     *)
(* connection; c.mu makes each cache access atomic, and nothing makes a    *)
(* server answer and the cache access that follows it atomic.              *)
(*                                                                         *)
(* An entry's content is its version: every change the server makes to a   *)
(* DN raises the version of that DN.  A deleted DN has a version but is    *)
(* not live.  Time is abstracted to the age of each cached entry, in ticks *)
(* that saturate once the entry has expired.                               *)
(***************************************************************************)
EXTENDS Integers, FiniteSets

CONSTANTS
    DN,         \* the distinguished names in play
    Readers,    \* goroutines running ReadEntry or ReadEntryFresh
    Writers,    \* goroutines running Add, Modify, Delete or ModifyDN
    CacheMax,   \* entryCacheMax (64 in the code)
    TTL,        \* entryCacheTTL, in ticks
    MaxWrites   \* bound of the model: changes made to the directory

ASSUME CacheMaxAssumption == CacheMax \in Nat \ {0}
ASSUME TTLAssumption == TTL \in Nat
ASSUME MaxWritesAssumption == MaxWrites \in Nat
ASSUME DNAssumption == IsFiniteSet(DN)

VARIABLES
    server,     \* the directory: version and liveness of each DN
    late,       \* write requests given up by the client, still on the wire
    cache,      \* Client.ents: a partial function from DN to cached entries
    rd,         \* the reading goroutines
    wr,         \* the writing goroutines
    committed,  \* ghost: version of each DN the writes that returned have made
    issued      \* ghost: number of changes asked for, at most MaxWrites

cacheVars == <<server, late, cache, rd, wr, committed, issued>>

-----------------------------------------------------------------------------
(* The directory and the four write operations.                            *)

OpKinds == {"add", "modify", "delete", "moddn"}
Ops == {op \in [kind : OpKinds, dn : DN, to : DN] : op.kind = "moddn" <=> op.dn # op.to}

\* The DNs a write touches: a rename empties one DN and fills another.
Touched(op) == {op.dn, op.to}

\* The server accepts a write exactly when its entries exist, or do not.
Accepts(op) ==
    IF op.kind = "add" THEN ~server[op.dn].live
    ELSE /\ server[op.dn].live
         /\ op.kind = "moddn" => ~server[op.to].live

LiveAfter(op, d) == op.kind \in {"add", "modify"} \/ (op.kind = "moddn" /\ d = op.to)

Changed(op) ==
    [d \in DN |-> IF d \in Touched(op)
                  THEN [ver |-> server[d].ver + 1, live |-> LiveAfter(op, d)]
                  ELSE server[d]]

-----------------------------------------------------------------------------
(* The cache operations, each atomic under c.mu.                           *)

Entries == [ver : Nat, age : 0 .. TTL + 1, raced : BOOLEAN]
EmptyCache == [d \in {} |-> <<>>]

Without(c, d) == [x \in DOMAIN c \ {d} |-> c[x]]

\* Mutant of CacheHit: the age of an entry is not looked at.
CacheHitForEver(d) == d \in DOMAIN cache

CacheHit(d) == d \in DOMAIN cache /\ cache[d].age <= TTL

Oldest(c) == {d \in DOMAIN c : \A x \in DOMAIN c : c[x].age <= c[d].age}

\* Mutant of Evictions: off by one.
EvictionsLate(c) ==
    IF Cardinality(DOMAIN c) > CacheMax THEN {Without(c, d) : d \in Oldest(c)} ELSE {c}

\* What the map keeps when an entry is put: a full map first loses its oldest
\* entry, even when the entry that is put is in it already.
Evictions(c) ==
    IF Cardinality(DOMAIN c) >= CacheMax THEN {Without(c, d) : d \in Oldest(c)} ELSE {c}

Put(c, d, e) == [x \in DOMAIN c \cup {d} |-> IF x = d THEN e ELSE c[x]]

-----------------------------------------------------------------------------
Idle == [pc |-> "idle"]
Nothing == [d \in DN |-> 0]    \* the versions a failed write has made
ReaderStates ==
    {Idle}
    \cup [pc : {"wire"}, dn : DN, fresh : BOOLEAN, floor : Nat]
    \cup [pc : {"answered"}, dn : DN, fresh : BOOLEAN, floor : Nat, ver : Nat, raced : BOOLEAN]
    \cup [pc : {"done"}, dn : DN, fresh : BOOLEAN, floor : Nat, ver : Nat, raced : BOOLEAN]
WriterStates ==
    {Idle}
    \cup [pc : {"sent"}, op : Ops]
    \cup [pc : {"replied"}, op : Ops, made : [DN -> Nat]]

CacheTypeOK ==
    /\ server \in [DN -> [ver : Nat, live : BOOLEAN]]
    /\ late \subseteq Ops
    /\ DOMAIN cache \subseteq DN
    /\ cache \in [DOMAIN cache -> Entries]
    /\ rd \in [Readers -> ReaderStates]
    /\ wr \in [Writers -> WriterStates]
    /\ committed \in [DN -> Nat]
    /\ issued \in 0 .. MaxWrites

CacheInit ==
    /\ server \in [DN -> [ver : {0}, live : BOOLEAN]]
    /\ late = {}
    /\ cache = EmptyCache
    /\ rd = [r \in Readers |-> Idle]
    /\ wr = [w \in Writers |-> Idle]
    /\ committed = [d \in DN |-> 0]
    /\ issued = 0

-----------------------------------------------------------------------------
(* ReadEntry and ReadEntryFresh.  "floor" is a ghost: the oldest version   *)
(* the caller may be shown.                                                *)

\* ReadEntry served from the cache.
ReadHit(r, d) ==
    /\ rd[r].pc = "idle"
    /\ CacheHit(d)
    /\ rd' = [rd EXCEPT ![r] =
                [pc |-> "done", dn |-> d, fresh |-> FALSE, floor |-> committed[d],
                 ver |-> cache[d].ver, raced |-> cache[d].raced]]
    /\ UNCHANGED <<server, late, cache, wr, committed, issued>>

\* ReadEntry that misses: the request goes to the server.
ReadMiss(r, d) ==
    /\ rd[r].pc = "idle"
    /\ ~CacheHit(d)
    /\ rd' = [rd EXCEPT ![r] =
                [pc |-> "wire", dn |-> d, fresh |-> FALSE, floor |-> committed[d]]]
    /\ UNCHANGED <<server, late, cache, wr, committed, issued>>

\* ReadEntryFresh asks the server whatever the cache holds.
ReadFresh(r, d) ==
    /\ rd[r].pc = "idle"
    /\ rd' = [rd EXCEPT ![r] =
                [pc |-> "wire", dn |-> d, fresh |-> TRUE, floor |-> server[d].ver]]
    /\ UNCHANGED <<server, late, cache, wr, committed, issued>>

\* The server answers a base-object search with the entry as it is now.
ServerAnswers(r) ==
    /\ rd[r].pc = "wire"
    /\ server[rd[r].dn].live
    /\ rd' = [rd EXCEPT ![r] =
                [pc |-> "answered", dn |-> rd[r].dn, fresh |-> rd[r].fresh, floor |-> rd[r].floor,
                 ver |-> server[rd[r].dn].ver, raced |-> FALSE]]
    /\ UNCHANGED <<server, late, cache, wr, committed, issued>>

\* Mutant of ReadFails: the error is dropped and an entry of no version handed on.
ReadFailsIgnored(r) ==
    /\ rd[r].pc = "wire"
    /\ rd' = [rd EXCEPT ![r] = [pc |-> "done", dn |-> rd[r].dn, fresh |-> rd[r].fresh,
                                floor |-> rd[r].floor, ver |-> -1, raced |-> FALSE]]
    /\ UNCHANGED <<server, late, cache, wr, committed, issued>>

\* The search fails (no such object, timeout, connection lost): nothing is cached.
ReadFails(r) ==
    /\ rd[r].pc = "wire"
    /\ rd' = [rd EXCEPT ![r] = Idle]
    /\ UNCHANGED <<server, late, cache, wr, committed, issued>>

\* ReadEntryFresh's cachePut of the entry it was sent, and its return.
CachePut(r) ==
    /\ rd[r].pc = "answered"
    /\ \E c \in Evictions(cache) :
         cache' = Put(c, rd[r].dn, [ver |-> rd[r].ver, age |-> 0, raced |-> rd[r].raced])
    /\ rd' = [rd EXCEPT ![r] =
                [pc |-> "done", dn |-> rd[r].dn, fresh |-> rd[r].fresh, floor |-> rd[r].floor,
                 ver |-> rd[r].ver, raced |-> FALSE]]
    /\ UNCHANGED <<server, late, wr, committed, issued>>

\* The event loop consumes the result.
Consume(r) ==
    /\ rd[r].pc = "done"
    /\ rd' = [rd EXCEPT ![r] = Idle]
    /\ UNCHANGED <<server, late, cache, wr, committed, issued>>

-----------------------------------------------------------------------------
(* Add, Modify, Delete, ModifyDN.                                          *)

SendWrite(w, op) ==
    /\ wr[w].pc = "idle"
    /\ issued < MaxWrites
    /\ wr' = [wr EXCEPT ![w] = [pc |-> "sent", op |-> op]]
    /\ issued' = issued + 1
    /\ UNCHANGED <<server, late, cache, rd, committed>>

ServerApplies(w) ==
    /\ wr[w].pc = "sent"
    /\ Accepts(wr[w].op)
    /\ server' = Changed(wr[w].op)
    /\ wr' = [wr EXCEPT ![w] =
                [pc |-> "replied", op |-> wr[w].op,
                 made |-> [d \in DN |-> IF d \in Touched(wr[w].op) THEN server[d].ver + 1 ELSE 0]]]
    /\ UNCHANGED <<late, cache, rd, committed, issued>>

ServerRejects(w) ==
    /\ wr[w].pc = "sent"
    /\ ~Accepts(wr[w].op)
    /\ wr' = [wr EXCEPT ![w] = [pc |-> "replied", op |-> wr[w].op, made |-> Nothing]]
    /\ UNCHANGED <<server, late, cache, rd, committed, issued>>

\* conn.SetTimeout fires: the call returns an error, the request stays on the wire.
WriteTimesOut(w) ==
    /\ wr[w].pc = "sent"
    /\ late' = late \cup {wr[w].op}
    /\ wr' = [wr EXCEPT ![w] = [pc |-> "replied", op |-> wr[w].op, made |-> Nothing]]
    /\ UNCHANGED <<server, cache, rd, committed, issued>>

LateWriteLands(op) ==
    /\ op \in late
    /\ late' = late \ {op}
    /\ server' = IF Accepts(op) THEN Changed(op) ELSE server
    /\ UNCHANGED <<cache, rd, wr, committed, issued>>

\* Mutant of WriteReturns: the cache is emptied when entries come and go, and
\* not when one of them is modified.
WriteReturnsShapeOnly(w) ==
    /\ wr[w].pc = "replied"
    /\ cache' = IF wr[w].op.kind = "modify" THEN cache ELSE EmptyCache
    /\ rd' = [r \in Readers |->
                IF rd[r].pc = "answered" THEN [rd[r] EXCEPT !.raced = TRUE] ELSE rd[r]]
    /\ committed' = [d \in DN |->
                       IF committed[d] < wr[w].made[d]
                       THEN wr[w].made[d] ELSE committed[d]]
    /\ wr' = [wr EXCEPT ![w] = Idle]
    /\ UNCHANGED <<server, late, issued>>

\* InvalidateEntries, run whatever the outcome of the request, and the return.
\* An answer that a reader already holds is out of its reach: it is marked.
WriteReturns(w) ==
    /\ wr[w].pc = "replied"
    /\ cache' = EmptyCache
    /\ rd' = [r \in Readers |->
                IF rd[r].pc = "answered" THEN [rd[r] EXCEPT !.raced = TRUE] ELSE rd[r]]
    /\ committed' = [d \in DN |->
                       IF committed[d] < wr[w].made[d]
                       THEN wr[w].made[d] ELSE committed[d]]
    /\ wr' = [wr EXCEPT ![w] = Idle]
    /\ UNCHANGED <<server, late, issued>>

\* Another LDAP client changes the directory; this cache is told nothing.
OtherClientWrites(op) ==
    /\ issued < MaxWrites
    /\ Accepts(op)
    /\ server' = Changed(op)
    /\ issued' = issued + 1
    /\ UNCHANGED <<late, cache, rd, wr, committed>>

Tick ==
    /\ cache' = [d \in DOMAIN cache |->
                   [cache[d] EXCEPT !.age = IF @ > TTL THEN @ ELSE @ + 1]]
    /\ UNCHANGED <<server, late, rd, wr, committed, issued>>

-----------------------------------------------------------------------------
ReaderStep(r) == ServerAnswers(r) \/ ReadFails(r) \/ CachePut(r) \/ Consume(r)
WriterStep(w) == ServerApplies(w) \/ ServerRejects(w) \/ WriteTimesOut(w) \/ WriteReturns(w)

CacheNext ==
    \/ \E r \in Readers, d \in DN : ReadHit(r, d) \/ ReadMiss(r, d) \/ ReadFresh(r, d)
    \/ \E r \in Readers : ReaderStep(r)
    \/ \E w \in Writers, op \in Ops : SendWrite(w, op)
    \/ \E w \in Writers : WriterStep(w)
    \/ \E op \in Ops : LateWriteLands(op) \/ OtherClientWrites(op)
    \/ Tick

CacheSpec == CacheInit /\ [][CacheNext]_cacheVars

\* Every request is answered or times out, every goroutine runs to its end,
\* and time passes.  Nobody is obliged to start a read or a write.
CacheFairness ==
    /\ \A r \in Readers : WF_cacheVars(ReaderStep(r))
    /\ \A w \in Writers : WF_cacheVars(WriterStep(w))
    /\ \A op \in Ops : WF_cacheVars(LateWriteLands(op))
    /\ WF_cacheVars(Tick)

FairCacheSpec == CacheSpec /\ CacheFairness

-----------------------------------------------------------------------------
(* What the cache promises.                                                *)

\* The map never outgrows entryCacheMax (cachePut's eviction).
CacheBounded == Cardinality(DOMAIN cache) <= CacheMax

\* Writes are seen by the reads that follow them: a read never returns content
\* older than a write that returned before the read began - unless it is served
\* an entry whose answer was in a reader's hands when a write invalidated the
\* cache.  A Refresh (ReadEntryFresh) knows no exception, and is as new as the
\* directory was when it began, whoever wrote it.
ReadsFollowWrites ==
    \A r \in Readers :
        rd[r].pc = "done" => rd[r].ver >= rd[r].floor \/ (~rd[r].fresh /\ rd[r].raced)

\* Staleness heals: once nobody changes the directory any more, the entries the
\* cache still serves are in the end those of the directory, whether they went
\* stale by a race, by a late write or by another client (entryCacheTTL).
Serves(d) == CacheHit(d)
StalenessHeals ==
    <>[](\A d \in DN : Serves(d) => server[d] = [ver |-> cache[d].ver, live |-> TRUE])

=============================================================================
