---------------------------- MODULE ClientProofs ----------------------------
(***************************************************************************)
(* Theorems about the LDAP client and the session that holds it: EntryCache*)
(* for every set of names and goroutines, every capacity and every TTL, and*)
(* Session for every set of connections, modifications and profiles, and   *)
(* imports of every length.                                                *)
(***************************************************************************)
EXTENDS EntryCache, Session, FiniteSetTheorems, TLAPS

-----------------------------------------------------------------------------
(* The cache: type correctness.                                            *)

LEMMA CacheTypeInit == CacheInit => CacheTypeOK
BY MaxWritesAssumption DEF CacheInit, CacheTypeOK, EmptyCache, Entries, ReaderStates, WriterStates, Idle

LEMMA ChangedType ==
    ASSUME CacheTypeOK, NEW op \in Ops
    PROVE  /\ Changed(op) \in [DN -> [ver : Nat, live : BOOLEAN]]
           /\ \A d \in DN : Changed(op)[d].ver \in {server[d].ver, server[d].ver + 1}
<1>1. ASSUME NEW d \in DN
      PROVE  /\ [ver |-> server[d].ver + 1, live |-> LiveAfter(op, d)] \in [ver : Nat, live : BOOLEAN]
             /\ server[d] \in [ver : Nat, live : BOOLEAN]
  BY DEF CacheTypeOK, LiveAfter
<1> QED
  BY <1>1 DEF Changed

LEMMA EvictionsType ==
    ASSUME CacheTypeOK, NEW c \in Evictions(cache), NEW d \in DN, NEW e \in Entries
    PROVE  /\ DOMAIN Put(c, d, e) \subseteq DN
           /\ Put(c, d, e) \in [DOMAIN Put(c, d, e) -> Entries]
           /\ \A x \in DOMAIN Put(c, d, e) :
                \/ x = d /\ Put(c, d, e)[x] = e
                \/ x \in DOMAIN cache /\ Put(c, d, e)[x] = cache[x]
<1>1. /\ DOMAIN c \subseteq DOMAIN cache
      /\ \A x \in DOMAIN c : c[x] = cache[x]
  BY DEF Evictions, Without, Oldest
<1>2. DOMAIN Put(c, d, e) = DOMAIN c \cup {d}
  BY DEF Put
<1>3. \A x \in DOMAIN c \cup {d} : Put(c, d, e)[x] = IF x = d THEN e ELSE c[x]
  BY DEF Put
<1>4. \A x \in DOMAIN cache : cache[x] \in Entries
  BY DEF CacheTypeOK
<1>5. Put(c, d, e) \in [DOMAIN c \cup {d} -> Entries]
  BY <1>1, <1>4 DEF Put
<1> QED
  BY <1>1, <1>2, <1>3, <1>5 DEF CacheTypeOK

LEMMA CacheTypeStep == CacheTypeOK /\ [CacheNext]_cacheVars => CacheTypeOK'
<1> SUFFICES ASSUME CacheTypeOK, [CacheNext]_cacheVars PROVE CacheTypeOK'
  OBVIOUS
<1> USE MaxWritesAssumption, TTLAssumption
<1>1. ASSUME NEW r \in Readers, NEW d \in DN, ReadHit(r, d) PROVE CacheTypeOK'
  BY <1>1 DEF ReadHit, CacheTypeOK, ReaderStates, CacheHit, Entries
<1>2. ASSUME NEW r \in Readers, NEW d \in DN, ReadMiss(r, d) PROVE CacheTypeOK'
  BY <1>2 DEF ReadMiss, CacheTypeOK, ReaderStates
<1>3. ASSUME NEW r \in Readers, NEW d \in DN, ReadFresh(r, d) PROVE CacheTypeOK'
  BY <1>3 DEF ReadFresh, CacheTypeOK, ReaderStates
<1>4. ASSUME NEW r \in Readers, ServerAnswers(r) PROVE CacheTypeOK'
  <2>1. rd[r] \in [pc : {"wire"}, dn : DN, fresh : BOOLEAN, floor : Nat]
    BY <1>4 DEF ServerAnswers, CacheTypeOK, ReaderStates, Idle
  <2> QED BY <2>1, <1>4 DEF ServerAnswers, CacheTypeOK, ReaderStates
<1>5. ASSUME NEW r \in Readers, ReadFails(r) PROVE CacheTypeOK'
  BY <1>5 DEF ReadFails, CacheTypeOK, ReaderStates
<1>6. ASSUME NEW r \in Readers, CachePut(r) PROVE CacheTypeOK'
  <2>1. rd[r] \in [pc : {"answered"}, dn : DN, fresh : BOOLEAN, floor : Nat, ver : Nat, raced : BOOLEAN]
    BY <1>6 DEF CachePut, CacheTypeOK, ReaderStates, Idle
  <2>2. rd' \in [Readers -> ReaderStates]
    BY <2>1, <1>6 DEF CachePut, CacheTypeOK, ReaderStates
  <2>3. [ver |-> rd[r].ver, age |-> 0, raced |-> rd[r].raced] \in Entries
    BY <2>1 DEF Entries
  <2>4. DOMAIN cache' \subseteq DN /\ cache' \in [DOMAIN cache' -> Entries]
    <3>1. PICK c \in Evictions(cache) :
            cache' = Put(c, rd[r].dn, [ver |-> rd[r].ver, age |-> 0, raced |-> rd[r].raced])
      BY <1>6 DEF CachePut
    <3> QED BY <3>1, <2>1, <2>3, EvictionsType
  <2> QED BY <2>2, <2>4, <1>6 DEF CachePut, CacheTypeOK
<1>7. ASSUME NEW r \in Readers, Consume(r) PROVE CacheTypeOK'
  BY <1>7 DEF Consume, CacheTypeOK, ReaderStates
<1>8. ASSUME NEW w \in Writers, NEW op \in Ops, SendWrite(w, op) PROVE CacheTypeOK'
  BY <1>8 DEF SendWrite, CacheTypeOK, WriterStates
<1>9. ASSUME NEW w \in Writers, ServerApplies(w) PROVE CacheTypeOK'
  <2>1. wr[w] \in [pc : {"sent"}, op : Ops]
    BY <1>9 DEF ServerApplies, CacheTypeOK, WriterStates, Idle
  <2>2. [d \in DN |-> IF d \in Touched(wr[w].op) THEN server[d].ver + 1 ELSE 0] \in [DN -> Nat]
    BY DEF CacheTypeOK
  <2> QED BY <2>1, <2>2, <1>9, ChangedType DEF ServerApplies, CacheTypeOK, WriterStates
<1>10. ASSUME NEW w \in Writers, ServerRejects(w) PROVE CacheTypeOK'
  <2>1. wr[w] \in [pc : {"sent"}, op : Ops]
    BY <1>10 DEF ServerRejects, CacheTypeOK, WriterStates, Idle
  <2> QED BY <2>1, <1>10 DEF ServerRejects, CacheTypeOK, WriterStates, Nothing
<1>11. ASSUME NEW w \in Writers, WriteTimesOut(w) PROVE CacheTypeOK'
  <2>1. wr[w] \in [pc : {"sent"}, op : Ops]
    BY <1>11 DEF WriteTimesOut, CacheTypeOK, WriterStates, Idle
  <2> QED BY <2>1, <1>11 DEF WriteTimesOut, CacheTypeOK, WriterStates, Nothing
<1>12. ASSUME NEW w \in Writers, WriteReturns(w) PROVE CacheTypeOK'
  <2>1. wr[w] \in [pc : {"replied"}, op : Ops, made : [DN -> Nat]]
    BY <1>12 DEF WriteReturns, CacheTypeOK, WriterStates, Idle
  <2>2. ASSUME NEW r \in Readers, rd[r].pc = "answered"
        PROVE  [rd[r] EXCEPT !.raced = TRUE] \in ReaderStates
    BY <2>2 DEF CacheTypeOK, ReaderStates, Idle
  <2>3. rd' \in [Readers -> ReaderStates]
    BY <2>2, <1>12 DEF WriteReturns, CacheTypeOK
  <2>4. committed' \in [DN -> Nat]
    BY <2>1, <1>12 DEF WriteReturns, CacheTypeOK
  <2> QED BY <2>3, <2>4, <1>12 DEF WriteReturns, CacheTypeOK, EmptyCache, WriterStates
<1>13. ASSUME NEW op \in Ops, LateWriteLands(op) PROVE CacheTypeOK'
  BY <1>13, ChangedType DEF LateWriteLands, CacheTypeOK
<1>14. ASSUME NEW op \in Ops, OtherClientWrites(op) PROVE CacheTypeOK'
  BY <1>14, ChangedType DEF OtherClientWrites, CacheTypeOK
<1>15. CASE Tick
  <2>1. ASSUME NEW d \in DOMAIN cache
        PROVE  [cache[d] EXCEPT !.age = IF @ > TTL THEN @ ELSE @ + 1] \in Entries
    BY DEF CacheTypeOK, Entries
  <2> QED BY <2>1, <1>15 DEF Tick, CacheTypeOK
<1>16. CASE UNCHANGED cacheVars
  BY <1>16 DEF cacheVars, CacheTypeOK
<1> QED
  BY <1>1, <1>2, <1>3, <1>4, <1>5, <1>6, <1>7, <1>8, <1>9, <1>10, <1>11, <1>12,
     <1>13, <1>14, <1>15, <1>16 DEF CacheNext, ReaderStep, WriterStep

\* Every variable keeps its type, whatever the constants.
THEOREM CacheTypeCorrect == CacheSpec => []CacheTypeOK
BY CacheTypeInit, CacheTypeStep, PTL DEF CacheSpec

-----------------------------------------------------------------------------
(* The capacity.                                                           *)

LEMMA TypedCacheFinite == CacheTypeOK => IsFiniteSet(DOMAIN cache)
BY DNAssumption, FS_Subset DEF CacheTypeOK

\* cachePut makes room before it adds: one entry leaves a full map.  The map
\* that is left always has a free place.
LEMMA EvictionMakesRoom ==
    ASSUME CacheTypeOK, CacheBounded, NEW c \in Evictions(cache)
    PROVE  IsFiniteSet(DOMAIN c) /\ Cardinality(DOMAIN c) < CacheMax
<1> USE CacheMaxAssumption
<1>1. IsFiniteSet(DOMAIN cache) /\ Cardinality(DOMAIN cache) \in Nat
  BY TypedCacheFinite, FS_CardinalityType
<1>2. CASE Cardinality(DOMAIN cache) >= CacheMax
  <2>1. PICK d \in DOMAIN cache : c = Without(cache, d)
    BY <1>2 DEF Evictions, Oldest
  <2>2. DOMAIN c = DOMAIN cache \ {d}
    BY <2>1 DEF Without
  <2>3. IsFiniteSet(DOMAIN c) /\ Cardinality(DOMAIN c) = Cardinality(DOMAIN cache) - 1
    BY <2>2, <1>1, FS_RemoveElement
  <2> QED
    BY <2>3, <1>1 DEF CacheBounded
<1>3. CASE ~(Cardinality(DOMAIN cache) >= CacheMax)
  BY <1>1, <1>3 DEF Evictions
<1> QED
  BY <1>2, <1>3

LEMMA BoundedStep == CacheTypeOK /\ CacheBounded /\ [CacheNext]_cacheVars => CacheBounded'
<1> SUFFICES ASSUME CacheTypeOK, CacheBounded, [CacheNext]_cacheVars PROVE CacheBounded'
  OBVIOUS
<1> USE CacheMaxAssumption
<1>1. ASSUME NEW r \in Readers, CachePut(r) PROVE CacheBounded'
  <2>1. PICK c \in Evictions(cache) :
          cache' = Put(c, rd[r].dn, [ver |-> rd[r].ver, age |-> 0, raced |-> rd[r].raced])
    BY <1>1 DEF CachePut
  <2>2. DOMAIN cache' = DOMAIN c \cup {rd[r].dn}
    BY <2>1 DEF Put
  <2>3. IsFiniteSet(DOMAIN c) /\ Cardinality(DOMAIN c) < CacheMax
    BY EvictionMakesRoom
  <2>4. Cardinality(DOMAIN c) \in Nat
    BY <2>3, FS_CardinalityType
  <2>5. Cardinality(DOMAIN cache') \in {Cardinality(DOMAIN c), Cardinality(DOMAIN c) + 1}
    BY <2>2, <2>3, FS_AddElement
  <2> QED
    BY <2>3, <2>4, <2>5 DEF CacheBounded
<1>2. ASSUME NEW w \in Writers, WriteReturns(w) PROVE CacheBounded'
  <2>1. DOMAIN cache' = {}
    BY <1>2 DEF WriteReturns, EmptyCache
  <2> QED
    BY <2>1, FS_EmptySet DEF CacheBounded
<1>3. CASE Tick
  <2>1. DOMAIN cache' = DOMAIN cache
    BY <1>3 DEF Tick
  <2> QED
    BY <2>1 DEF CacheBounded
<1>4. CASE UNCHANGED cache
  BY <1>4 DEF CacheBounded
<1> QED
  BY <1>1, <1>2, <1>3, <1>4
  DEF CacheNext, ReaderStep, WriterStep, cacheVars, ReadHit, ReadMiss, ReadFresh, ServerAnswers,
      ReadFails, Consume, SendWrite, ServerApplies, ServerRejects, WriteTimesOut,
      LateWriteLands, OtherClientWrites

\* The cache never holds more than entryCacheMax entries, however many
\* goroutines put entries into it.
THEOREM CapacityKept == CacheSpec => []CacheBounded
<1>1. CacheInit => CacheBounded
  BY FS_EmptySet, CacheMaxAssumption DEF CacheInit, EmptyCache, CacheBounded
<1> QED
  BY <1>1, CacheTypeCorrect, BoundedStep, PTL DEF CacheSpec

-----------------------------------------------------------------------------
(* Reads follow writes.  ReadsFollowWrites is not inductive: it says       *)
(* nothing of the requests still running or of the entries a later read    *)
(* will hit.  The parts below say what each of them carries.               *)

\* A write that returned did change the directory, and so did one that is
\* about to return.
MadeIsInServer ==
    \A d \in DN :
        /\ committed[d] <= server[d].ver
        /\ \A w \in Writers : wr[w].pc = "replied" => wr[w].made[d] <= server[d].ver

\* A request on the wire will be answered with content its caller may be shown,
\* an answer is such content, and one not marked is no older than the writes
\* that have returned.
AnswersAreRecent ==
    \A r \in Readers :
        /\ rd[r].pc = "wire" => rd[r].floor <= server[rd[r].dn].ver
        /\ rd[r].pc = "answered" =>
             /\ rd[r].floor <= rd[r].ver
             /\ ~rd[r].raced => committed[rd[r].dn] <= rd[r].ver

\* A cached entry not marked is no older than the writes that have returned.
CacheIsRecent ==
    \A d \in DOMAIN cache : ~cache[d].raced => committed[d] <= cache[d].ver

Recency == MadeIsInServer /\ AnswersAreRecent /\ CacheIsRecent /\ ReadsFollowWrites

LEMMA RecencyInit == CacheInit => Recency
BY DEF CacheInit, Recency, MadeIsInServer, AnswersAreRecent, CacheIsRecent, ReadsFollowWrites,
       Idle, EmptyCache

\* The directory only moves forward, and each part follows it.
LEMMA ServerMovesForward ==
    ASSUME CacheTypeOK, Recency, CacheTypeOK',
           \A d \in DN : server[d].ver <= server'[d].ver,
           UNCHANGED <<cache, rd, committed>>,
           \A w \in Writers, d \in DN :
             wr'[w].pc = "replied" =>
               \/ wr[w].pc = "replied" /\ wr'[w].made[d] = wr[w].made[d]
               \/ wr'[w].made[d] <= server'[d].ver
    PROVE  Recency'
<1>1. \A d \in DN : /\ server[d].ver \in Nat /\ server'[d].ver \in Nat
                    /\ committed[d] \in Nat /\ committed'[d] = committed[d]
  BY DEF CacheTypeOK
<1>2. \A w \in Writers : wr[w].pc = "replied" => wr[w].made \in [DN -> Nat]
  BY DEF CacheTypeOK, WriterStates, Idle
<1>3. \A r \in Readers : rd[r].pc = "wire" => rd[r].dn \in DN /\ rd[r].floor \in Nat
  BY DEF CacheTypeOK, ReaderStates, Idle
<1>4. MadeIsInServer'
  BY <1>1, <1>2 DEF Recency, MadeIsInServer
<1>5. AnswersAreRecent'
  BY <1>1, <1>3 DEF Recency, AnswersAreRecent
<1>6. CacheIsRecent' /\ ReadsFollowWrites'
  BY DEF Recency, CacheIsRecent, ReadsFollowWrites
<1> QED
  BY <1>4, <1>5, <1>6 DEF Recency

\* A step of one reader that leaves the directory, the cache and the writers
\* alone preserves Recency if the reader's own new state satisfies it.
LEMMA ReaderMoves ==
    ASSUME Recency, NEW r \in Readers, NEW s,
           rd' = [rd EXCEPT ![r] = s], CacheTypeOK,
           UNCHANGED <<server, wr, committed, cache>>,
           s.pc = "wire" => s.floor <= server[s.dn].ver,
           s.pc = "answered" => /\ s.floor <= s.ver
                                /\ ~s.raced => committed[s.dn] <= s.ver,
           s.pc = "done" => s.ver >= s.floor \/ (~s.fresh /\ s.raced)
    PROVE  Recency'
<1>1. \A q \in Readers : rd'[q] = IF q = r THEN s ELSE rd[q]
  BY DEF CacheTypeOK
<1>2. AnswersAreRecent' /\ ReadsFollowWrites'
  BY <1>1 DEF Recency, AnswersAreRecent, ReadsFollowWrites
<1>3. MadeIsInServer' /\ CacheIsRecent'
  BY DEF Recency, MadeIsInServer, CacheIsRecent
<1> QED
  BY <1>2, <1>3 DEF Recency

LEMMA RecencyStep == CacheTypeOK /\ CacheTypeOK' /\ Recency /\ [CacheNext]_cacheVars => Recency'
<1> SUFFICES ASSUME CacheTypeOK, CacheTypeOK', Recency, [CacheNext]_cacheVars PROVE Recency'
  OBVIOUS
<1>a. \A d \in DN : server[d].ver \in Nat /\ committed[d] \in Nat
  BY DEF CacheTypeOK
<1>b. \A d \in DN : committed[d] <= server[d].ver
  BY DEF Recency, MadeIsInServer
<1>1. ASSUME NEW r \in Readers, NEW d \in DN, ReadHit(r, d) PROVE Recency'
  <2>1. cache[d].raced \/ committed[d] <= cache[d].ver
    BY <1>1 DEF ReadHit, CacheHit, Recency, CacheIsRecent
  <2>2. cache[d].ver \in Nat
    BY <1>1 DEF ReadHit, CacheHit, CacheTypeOK, Entries
  <2> QED
    BY <2>1, <2>2, <1>1, <1>a, ReaderMoves DEF ReadHit
<1>2. ASSUME NEW r \in Readers, NEW d \in DN, ReadMiss(r, d) PROVE Recency'
  BY <1>2, <1>b, ReaderMoves DEF ReadMiss
<1>3. ASSUME NEW r \in Readers, NEW d \in DN, ReadFresh(r, d) PROVE Recency'
  <2>1. server[d].ver <= server[d].ver
    BY <1>a
  <2> QED
    BY <2>1, <1>3, ReaderMoves DEF ReadFresh
<1>4. ASSUME NEW r \in Readers, ServerAnswers(r) PROVE Recency'
  <2>1. rd[r].dn \in DN /\ rd[r].floor <= server[rd[r].dn].ver
    BY <1>4 DEF ServerAnswers, CacheTypeOK, ReaderStates, Idle, Recency, AnswersAreRecent
  <2> QED
    BY <2>1, <1>4, <1>b, ReaderMoves DEF ServerAnswers
<1>5. ASSUME NEW r \in Readers, ReadFails(r) PROVE Recency'
  BY <1>5, ReaderMoves DEF ReadFails, Idle
<1>6. ASSUME NEW r \in Readers, CachePut(r) PROVE Recency'
  <2> DEFINE d == rd[r].dn
             e == [ver |-> rd[r].ver, age |-> 0, raced |-> rd[r].raced]
             s == [pc |-> "done", dn |-> rd[r].dn, fresh |-> rd[r].fresh,
                   floor |-> rd[r].floor, ver |-> rd[r].ver, raced |-> FALSE]
  <2>1. /\ rd[r] \in [pc : {"answered"}, dn : DN, fresh : BOOLEAN, floor : Nat,
                        ver : Nat, raced : BOOLEAN]
        /\ rd[r].floor <= rd[r].ver
        /\ ~rd[r].raced => committed[d] <= rd[r].ver
    BY <1>6 DEF CachePut, CacheTypeOK, ReaderStates, Idle, Recency, AnswersAreRecent
  <2>2. e \in Entries
    BY <2>1, TTLAssumption DEF Entries
  <2>3. \A x \in DOMAIN cache' : \/ x = d /\ cache'[x] = e
                                 \/ x \in DOMAIN cache /\ cache'[x] = cache[x]
    <3>1. PICK c \in Evictions(cache) : cache' = Put(c, d, e)
      BY <1>6 DEF CachePut
    <3> QED
      BY <3>1, <2>1, <2>2, EvictionsType
  <2>4. CacheIsRecent'
    BY <2>1, <2>3, <1>6 DEF CachePut, Recency, CacheIsRecent
  <2>5. \A q \in Readers : rd'[q] = IF q = r THEN s ELSE rd[q]
    BY <1>6 DEF CachePut, CacheTypeOK
  <2>6. AnswersAreRecent' /\ ReadsFollowWrites'
    BY <2>1, <2>5, <1>6 DEF CachePut, Recency, AnswersAreRecent, ReadsFollowWrites
  <2>7. MadeIsInServer'
    BY <1>6 DEF CachePut, Recency, MadeIsInServer
  <2> QED
    BY <2>4, <2>6, <2>7 DEF Recency
<1>7. ASSUME NEW r \in Readers, Consume(r) PROVE Recency'
  BY <1>7, ReaderMoves DEF Consume, Idle
<1>8. ASSUME NEW w \in Writers, NEW op \in Ops, SendWrite(w, op) PROVE Recency'
  <2>1. \A v \in Writers : wr'[v].pc = "replied" => wr'[v] = wr[v]
    BY <1>8 DEF SendWrite, CacheTypeOK
  <2> QED
    BY <2>1, <1>8, <1>a, ServerMovesForward DEF SendWrite
<1>9. ASSUME NEW w \in Writers, ServerApplies(w) PROVE Recency'
  <2>1. wr[w].op \in Ops
    BY <1>9 DEF ServerApplies, CacheTypeOK, WriterStates, Idle
  <2>2. \A d \in DN : /\ server'[d].ver \in {server[d].ver, server[d].ver + 1}
                      /\ d \in Touched(wr[w].op) => server'[d].ver = server[d].ver + 1
    BY <2>1, <1>9, ChangedType DEF ServerApplies, Changed
  <2>3. \A d \in DN : wr'[w].made[d] <= server'[d].ver
    BY <2>2, <1>9, <1>a DEF ServerApplies, CacheTypeOK
  <2>4. \A v \in Writers : v # w => wr'[v] = wr[v]
    BY <1>9 DEF ServerApplies, CacheTypeOK
  <2> QED
    BY <2>2, <2>3, <2>4, <1>9, <1>a, ServerMovesForward DEF ServerApplies
<1>10. ASSUME NEW w \in Writers, ServerRejects(w) \/ WriteTimesOut(w) PROVE Recency'
  <2>1. /\ wr' = [wr EXCEPT ![w] = [pc |-> "replied", op |-> wr[w].op, made |-> Nothing]]
        /\ UNCHANGED <<server, cache, rd, committed>>
    BY <1>10 DEF ServerRejects, WriteTimesOut
  <2>2. \A d \in DN : wr'[w].made[d] = 0
    BY <2>1 DEF CacheTypeOK, Nothing
  <2>3. \A v \in Writers : v # w => wr'[v] = wr[v]
    BY <2>1 DEF CacheTypeOK
  <2> QED
    BY <2>1, <2>2, <2>3, <1>a, ServerMovesForward
<1>11. ASSUME NEW w \in Writers, WriteReturns(w) PROVE Recency'
  <2>1. wr[w].made \in [DN -> Nat] /\ \A d \in DN : wr[w].made[d] <= server[d].ver
    BY <1>11 DEF WriteReturns, CacheTypeOK, WriterStates, Idle, Recency, MadeIsInServer
  <2>2. \A d \in DN : committed'[d] <= server[d].ver
    BY <2>1, <1>11, <1>a, <1>b DEF WriteReturns
  <2>3. \A v \in Writers : wr'[v].pc = "replied" => wr'[v] = wr[v]
    BY <1>11 DEF WriteReturns, CacheTypeOK, Idle
  <2>4. MadeIsInServer'
    BY <2>2, <2>3, <1>11 DEF WriteReturns, Recency, MadeIsInServer
  <2>5. \A r \in Readers :
          IF rd[r].pc = "answered"
          THEN rd'[r].pc = "answered" /\ rd'[r].raced /\ rd'[r].floor = rd[r].floor
               /\ rd'[r].ver = rd[r].ver
          ELSE rd'[r] = rd[r]
    BY <1>11 DEF WriteReturns, CacheTypeOK, ReaderStates, Idle
  <2>6. AnswersAreRecent' /\ ReadsFollowWrites'
    BY <2>5, <1>11 DEF WriteReturns, Recency, AnswersAreRecent, ReadsFollowWrites
  <2>7. CacheIsRecent'
    BY <1>11 DEF WriteReturns, EmptyCache, CacheIsRecent
  <2> QED
    BY <2>4, <2>6, <2>7 DEF Recency
<1>12. ASSUME NEW op \in Ops, LateWriteLands(op) \/ OtherClientWrites(op) PROVE Recency'
  <2>1. \A d \in DN : server[d].ver <= server'[d].ver
    BY <1>12, <1>a, ChangedType DEF LateWriteLands, OtherClientWrites
  <2> QED
    BY <2>1, <1>12, ServerMovesForward DEF LateWriteLands, OtherClientWrites
<1>13. CASE Tick
  <2>1. \A d \in DOMAIN cache : cache[d] \in Entries
    BY DEF CacheTypeOK
  <2>2. DOMAIN cache' = DOMAIN cache
    BY <1>13 DEF Tick
  <2>3. \A d \in DOMAIN cache : cache'[d].raced = cache[d].raced /\ cache'[d].ver = cache[d].ver
    BY <2>1, <1>13 DEF Tick, Entries
  <2>4. CacheIsRecent'
    BY <2>2, <2>3, <1>13 DEF Tick, Recency, CacheIsRecent
  <2> QED
    BY <2>4, <1>13 DEF Tick, Recency, MadeIsInServer, AnswersAreRecent, ReadsFollowWrites
<1>14. CASE UNCHANGED cacheVars
  BY <1>14, <1>a, ServerMovesForward DEF cacheVars
<1> QED
  BY <1>1, <1>2, <1>3, <1>4, <1>5, <1>6, <1>7, <1>8, <1>9, <1>10, <1>11, <1>12, <1>13, <1>14
  DEF CacheNext, ReaderStep, WriterStep

\* A read never returns content older than a write that had returned when the
\* read began, unless it hits an entry whose answer was overtaken by a write.
THEOREM ReadsFollowWritesAlways == CacheSpec => []ReadsFollowWrites
<1>1. Recency => ReadsFollowWrites
  BY DEF Recency
<1> QED
  BY <1>1, CacheTypeCorrect, RecencyInit, RecencyStep, PTL DEF CacheSpec

-----------------------------------------------------------------------------
(* The session: type correctness.                                          *)

LEMMA PostType == ASSUME TypeOK, NEW m, Post(m) PROVE inbox' \in [Msgs -> Nat]
<1>1. inbox \in [Msgs -> Nat]
  BY DEF TypeOK
<1>2. ASSUME NEW x \in Msgs PROVE inbox'[x] \in Nat
  <2>1. inbox[x] \in Nat
    BY <1>1
  <2> QED BY <2>1, <1>1 DEF Post
<1> QED
  BY <1>1, <1>2 DEF Post

LEMMA TakeType == ASSUME TypeOK, NEW m, Take(m) PROVE inbox' \in [Msgs -> Nat]
<1>1. inbox \in [Msgs -> Nat]
  BY DEF TypeOK
<1>2. inbox[m] > 0 /\ inbox' = [inbox EXCEPT ![m] = inbox[m] - 1]
  BY DEF Take
<1>3. ASSUME NEW x \in Msgs PROVE inbox'[x] \in Nat
  <2>1. inbox[x] \in Nat
    BY <1>1
  <2> QED BY <2>1, <1>1, <1>2
<1> QED
  BY <1>1, <1>2, <1>3

LEMMA PhaseType ==
    ASSUME TypeOK, NEW c \in Clients, NEW ph \in Phases, SetPhase(c, ph)
    PROVE  attempt' \in [Clients -> Attempts]
BY DEF TypeOK, SetPhase, Attempts

LEMMA WritePhaseType ==
    ASSUME TypeOK, NEW w \in Writes, NEW ph \in WritePhases, SetWrite(w, ph),
           write[w].phase \in Ahead \/ ph \notin Ahead
    PROVE  write' \in [Writes -> WriteStates]
BY DEF TypeOK, SetWrite, WriteStates

LEMMA AskedType ==
    ASSUME TypeOK, NEW w \in Writes, NEW k \in {"modify", "delete", "form", "import"},
           NEW n \in 1 .. MaxRecords, NEW ph \in WritePhases, Asked(w, k, n, ph)
    PROVE  write' \in [Writes -> WriteStates]
<1>1. [phase |-> ph, kind |-> k, to |-> None, left |-> n, ok |-> FALSE] \in WriteStates
  BY BoundsAssumption DEF WriteStates
<1> QED
  BY <1>1 DEF TypeOK, Asked

LEMMA CoveredType ==
    ASSUME TypeOK, NEW ph \in WritePhases \ Ahead
    PROVE  Covered(ph) \in [Writes -> WriteStates]
BY DEF TypeOK, Covered, WriteStates

LEMMA SentType ==
    ASSUME NEW r \in WriteStates, r.phase = "running"
    PROVE  Sent(r) \in WriteStates
<1>1. r.left \in 1 .. MaxRecords
  BY BoundsAssumption DEF WriteStates, Ahead
<1>2. r.left - 1 \in 0 .. MaxRecords /\ (r.left > 1 => r.left - 1 > 0)
  BY <1>1, BoundsAssumption
<1>3. CASE r.left > 1
  BY <1>1, <1>2, <1>3 DEF Sent, WriteStates, WritePhases, Ahead
<1>4. CASE ~(r.left > 1)
  BY <1>1, <1>2, <1>4 DEF Sent, WriteStates, WritePhases, Ahead
<1> QED
  BY <1>3, <1>4

LEMMA ReplaceType ==
    ASSUME TypeOK, NEW c \in Clients, Replace(c)
    PROVE  /\ attempt' \in [Clients -> Attempts] /\ open' \subseteq Clients
           /\ client' \in Clients \cup {None} /\ conf' \in AllProfiles \cup {None}
           /\ schema' \in Clients \cup {None}
<1>1. \A x \in Clients : attempt[x] \in Attempts
  BY DEF TypeOK
<1>2. ASSUME NEW x \in Clients, NEW ph \in {"current", "closed"}
      PROVE  [attempt[x] EXCEPT !.phase = ph] \in Attempts
  BY <1>1 DEF Attempts, Phases
<1>3. attempt' \in [Clients -> Attempts]
  BY <1>1, <1>2 DEF Replace
<1>4. attempt[c].prof \in AllProfiles \cup {None}
  BY <1>1 DEF Attempts
<1> QED
  BY <1>3, <1>4 DEF Replace, TypeOK

LEMMA CloseClientType ==
    ASSUME TypeOK, CloseClient
    PROVE  /\ attempt' \in [Clients -> Attempts] /\ open' \subseteq Clients
           /\ client' \in Clients \cup {None}
<1>1. \A x \in Clients : attempt[x] \in Attempts /\ [attempt[x] EXCEPT !.phase = "closed"] \in Attempts
  BY DEF TypeOK, Attempts, Phases
<1> QED
  BY <1>1 DEF CloseClient, TypeOK

LEMMA LoadSchemaType ==
    ASSUME TypeOK, LoadSchema
    PROVE  schemaLoading' \in BOOLEAN /\ loads' \in [Clients -> Nat]
<1>1. CASE schemaLoading \/ client = None
  BY <1>1 DEF LoadSchema, TypeOK
<1>2. CASE ~schemaLoading /\ client # None
  <2>1. client \in Clients /\ loads \in [Clients -> Nat]
    BY <1>2 DEF TypeOK
  <2>2. schemaLoading' = TRUE /\ loads' = [loads EXCEPT ![client] = loads[client] + 1]
    BY <1>2 DEF LoadSchema
  <2> QED BY <2>1, <2>2
<1> QED
  BY <1>1, <1>2 DEF TypeOK

LEMMA TypeInit == Init => TypeOK
<1> SUFFICES ASSUME Init PROVE TypeOK
  OBVIOUS
<1>1. write \in [Writes -> WriteStates]
  BY BoundsAssumption DEF Init, WriteStates, WritePhases, Ahead
<1>2. Unused \in [Clients -> Attempts]
  BY DEF Unused, Attempts, Phases, Kinds
<1>3. attempt \in [Clients -> Attempts]
  <2>1. CASE attempt = Unused
    BY <1>2, <2>1
  <2>2. ASSUME NEW c \in Clients, NEW p \in Profiles,
               attempt = [Unused EXCEPT ![c].phase = "requested", ![c].prof = p]
        PROVE  attempt \in [Clients -> Attempts]
    BY <2>2 DEF Unused, Attempts, Phases, Kinds, AllProfiles
  <2> QED
    BY <2>1, <2>2 DEF Init
<1>4. inbox \in [Msgs -> Nat]
  <2>1. NoMessage \in [Msgs -> Nat]
    BY DEF NoMessage
  <2>2. \A m : [NoMessage EXCEPT ![m] = 1] \in [Msgs -> Nat]
    BY <2>1
  <2> QED
    BY <2>1, <2>2 DEF Init
<1> QED
  BY <1>1, <1>3, <1>4 DEF Init, TypeOK, Screens, Overlays

LEMMA TypeStep == TypeOK /\ [Next]_vars => TypeOK'
<1> SUFFICES ASSUME TypeOK, [Next]_vars PROVE TypeOK'
  OBVIOUS
<1> USE DEF session, schemas, ui, net
<1>1. ASSUME NEW sc, NEW m, Press(sc, m) PROVE TypeOK'
  BY <1>1, PostType DEF Press, TypeOK
<1>2. ASSUME NEW m, Command(m) PROVE TypeOK'
  BY <1>2, PostType DEF Command, TypeOK
<1>3. ASSUME NEW p \in AllProfiles, NEW t \in BOOLEAN, AskPassword(p, t) PROVE TypeOK'
  <2>1. [prof |-> p, test |-> t] \in Prompts /\ [prof |-> p, test |-> t] # None
    BY NoneAssumption DEF Prompts, AllProfiles
  <2> QED BY <1>3, <2>1, TakeType DEF AskPassword, TypeOK, Screens
<1>4. ASSUME NEW c \in Clients, SubmitPassword(c) PROVE TypeOK'
  BY <1>4 DEF SubmitPassword, OnScreen, TypeOK, Attempts, Phases, Kinds, Prompts
<1>5. ASSUME CancelPrompt PROVE TypeOK'
  BY <1>5, TakeType DEF CancelPrompt, TypeOK, Screens
<1>6. ASSUME NEW c \in Clients, DoConnect(c) PROVE TypeOK'
  BY <1>6, PhaseType DEF DoConnect, TypeOK, Phases
<1>7. ASSUME NEW c \in Clients, FollowReferral(c) PROVE TypeOK'
  BY <1>7, TakeType DEF FollowReferral, TypeOK, Attempts, Phases, Kinds, AllProfiles
<1>8. ASSUME NEW c \in Clients, Dial(c) PROVE TypeOK'
  BY <1>8, PhaseType DEF Dial, TypeOK, Phases
<1>9. ASSUME NEW c \in Clients, Secure(c) \/ Bind(c) PROVE TypeOK'
  BY <1>9, PhaseType DEF Secure, Bind, TypeOK, Phases
<1>10. ASSUME NEW c \in Clients, ConnectFailed(c) PROVE TypeOK'
  <2>1. attempt' \in [Clients -> Attempts]
    BY <1>10, PhaseType DEF ConnectFailed, Phases
  <2> QED BY <1>10, <2>1, ZenonT(60) DEF ConnectFailed, TypeOK, Screens
<1>11. ASSUME NEW c \in Clients, TestDone(c) PROVE TypeOK'
  <2>1. attempt' \in [Clients -> Attempts]
    BY <1>11, PhaseType DEF TestDone, Phases
  <2>2. inbox' \in [Msgs -> Nat]
    BY <1>11, PostType DEF TestDone
  <2> QED BY <1>11, <2>1, <2>2, ZenonT(60) DEF TestDone, TypeOK, Screens
<1>12. ASSUME NEW c \in Clients, Connected(c) PROVE TypeOK'
  <2>1. inbox' \in [Msgs -> Nat] /\ initial' \in BOOLEAN
    BY <1>12, PostType DEF Connected, TypeOK
  <2>2. Replace(c)
    BY <1>12 DEF Connected
  <2>3. readOnly' \in BOOLEAN /\ screen' = "browser" /\ connecting' = FALSE
    BY <1>12 DEF Connected
  <2> QED BY <1>12, <2>1, <2>2, <2>3, ReplaceType DEF Connected, TypeOK, Screens
<1>13. ASSUME NEW c \in Clients, ReferralConnected(c) PROVE TypeOK'
  BY <1>13, ReplaceType DEF ReferralConnected, TypeOK, Screens
<1>14. ASSUME Disconnect PROVE TypeOK'
  BY <1>14, TakeType, CloseClientType DEF Disconnect, TypeOK, Screens
<1>15. ASSUME Quit \/ EndProgram PROVE TypeOK'
  BY <1>15, CloseClientType DEF Quit, EndProgram, TypeOK
<1>16. ASSUME Back PROVE TypeOK'
  BY <1>16, TakeType DEF Back, TypeOK, Screens
<1>17. ASSUME NEW t, NEW sc \in {"browser", "search"}, OpenGuarded(t, sc) PROVE TypeOK'
  BY <1>17, TakeType DEF OpenGuarded, TypeOK, Screens
<1>18. ASSUME OpenRootDSE PROVE TypeOK'
  BY <1>18, TakeType DEF OpenRootDSE, TypeOK, Screens
<1>19. ASSUME FormCancel PROVE TypeOK'
  BY <1>19, TakeType DEF FormCancel, TypeOK, Screens
<1>20. ASSUME ReadWithoutClient PROVE TypeOK'
  BY <1>20 DEF ReadWithoutClient, TypeOK
<1>21. ASSUME OpenMessage PROVE TypeOK'
  BY <1>21, TakeType, CoveredType DEF OpenMessage, TypeOK, Overlays, WritePhases, Ahead
<1>22. ASSUME CloseMessage PROVE TypeOK'
  BY <1>22 DEF CloseMessage, TypeOK, Overlays
<1>23. ASSUME OpenSchema PROVE TypeOK'
  <2>1. inbox' \in [Msgs -> Nat]
    BY <1>23, TakeType DEF OpenSchema
  <2>2. /\ schemaLoading' \in BOOLEAN /\ loads' \in [Clients -> Nat] /\ wantSchema' \in BOOLEAN
        /\ screen' \in Screens /\ (screen' = "password" => screen = "password")
    BY <1>23, LoadSchemaType DEF OpenSchema, TypeOK, Screens
  <2> QED BY <1>23, <2>1, <2>2 DEF OpenSchema, TypeOK
<1>24. ASSUME NeedSchema PROVE TypeOK'
  BY <1>24, TakeType, LoadSchemaType DEF NeedSchema, TypeOK
<1>25. ASSUME NEW c \in Clients, SchemaLoaded(c) PROVE TypeOK'
  <2>1. loads' \in [Clients -> Nat]
    <3>1. loads \in [Clients -> Nat] /\ loads[c] \in Nat /\ loads[c] > 0
      BY <1>25 DEF SchemaLoaded, TypeOK
    <3>2. loads' = [loads EXCEPT ![c] = loads[c] - 1]
      BY <1>25 DEF SchemaLoaded
    <3> QED BY <3>1, <3>2
  <2>2. /\ schema' \in Clients \cup {None} /\ screen' \in Screens
        /\ schemaLoading' = FALSE /\ wantSchema' = FALSE
        /\ screen' = "password" => screen = "password"
    BY <1>25 DEF SchemaLoaded, TypeOK, Screens
  <2> QED BY <1>25, <2>1, <2>2 DEF SchemaLoaded, TypeOK
<1>26. ASSUME NEW w \in Writes, NEW k \in {"modify", "delete", "import"}, NEW n \in 1 .. MaxRecords, AskWrite(w, k, n) PROVE TypeOK'
  BY <1>26, AskedType DEF AskWrite, TypeOK, WritePhases, Ahead
<1>27. ASSUME NEW w \in Writes, ReviewWrite(w) PROVE TypeOK'
  BY <1>27, WritePhaseType DEF ReviewWrite, TypeOK, WritePhases, Ahead
<1>28. ASSUME NEW t, OpenForm(t) PROVE TypeOK'
  BY <1>28, TakeType, LoadSchemaType DEF OpenForm, TypeOK, Screens
<1>29. ASSUME NEW w \in Writes, SubmitForm(w) PROVE TypeOK'
  BY <1>29, AskedType, BoundsAssumption DEF SubmitForm, TypeOK, WritePhases, Ahead
<1>30. ASSUME NEW w \in Writes, ShowConfirm(w) PROVE TypeOK'
  <2>1. Covered("over") \in [Writes -> WriteStates]
    BY CoveredType DEF WritePhases, Ahead
  <2>2. write' = [Covered("over") EXCEPT ![w].phase = "shown"]
    BY <1>30 DEF ShowConfirm
  <2>3. Covered("over")[w].left = write[w].left /\ write[w].left > 0
    BY <1>30 DEF ShowConfirm, Covered, TypeOK, WriteStates, Ahead
  <2>4. write' \in [Writes -> WriteStates]
    BY <2>1, <2>2, <2>3 DEF WriteStates, WritePhases
  <2> QED BY <1>30, <2>4 DEF ShowConfirm, TypeOK, Overlays
<1>31. ASSUME NEW w \in Writes, Confirm(w) PROVE TypeOK'
  BY <1>31, WritePhaseType DEF Confirm, TypeOK, Overlays, WritePhases, Ahead
<1>32. ASSUME NEW w \in Writes, Refuse(w) PROVE TypeOK'
  BY <1>32, WritePhaseType DEF Refuse, TypeOK, Overlays, WritePhases, Ahead
<1>33. ASSUME NEW w \in Writes, DoWrite(w) PROVE TypeOK'
  <2>1. write[w] \in WriteStates
    BY <1>33 DEF TypeOK
  <2>2. write' \in [Writes -> WriteStates] /\ screen' \in Screens
        /\ (screen' = "password" => screen = "password")
    BY <1>33, <2>1, WritePhaseType DEF DoWrite, TypeOK, WritePhases, Ahead, WriteStates, Screens
  <2> QED BY <1>33, <2>2 DEF DoWrite, TypeOK
<1>34. ASSUME NEW w \in Writes, WriteRequest(w) PROVE TypeOK'
  <2>1. write[w] \in WriteStates /\ write[w].phase = "running"
    BY <1>34 DEF WriteRequest, TypeOK
  <2>2. Sent(write[w]) \in WriteStates
    BY <2>1, SentType
  <2>3. [write[w] EXCEPT !.phase = "replied"] \in WriteStates
    BY <2>1 DEF WriteStates, WritePhases, Ahead
  <2>4. write' \in [Writes -> WriteStates]
    BY <1>34, <2>2, <2>3 DEF WriteRequest, TypeOK
  <2> QED BY <1>34, <2>4 DEF WriteRequest, TypeOK
<1>35. ASSUME NEW w \in Writes, WriteDone(w) PROVE TypeOK'
  <2>1. write' \in [Writes -> WriteStates]
    BY <1>35, WritePhaseType DEF WriteDone, WritePhases, Ahead
  <2> QED BY <1>35, <2>1 DEF WriteDone, TypeOK
<1>36. ASSUME ReadOnlyOn PROVE TypeOK'
  BY <1>36 DEF ReadOnlyOn, TypeOK
<1>37. ASSUME ReadOnlyOff PROVE TypeOK'
  BY <1>37, ZenonT(60) DEF ReadOnlyOff, TypeOK
<1>38. ASSUME UNCHANGED vars PROVE TypeOK'
  BY <1>38 DEF vars, TypeOK
<1> QED
  BY <1>1, <1>2, <1>3, <1>4, <1>5, <1>6, <1>7, <1>8, <1>9, <1>10, <1>11, <1>12, <1>13, <1>14, <1>15, <1>16, <1>17, <1>18, <1>19, <1>20, <1>21, <1>22, <1>23, <1>24, <1>25, <1>26, <1>27, <1>28, <1>29, <1>30, <1>31, <1>32, <1>33, <1>34, <1>35, <1>36, <1>37, <1>38
  DEF Next, ConnStep, WriteStep, Deliver, User, UserPosts, ChooseProfile, Reconnect

THEOREM TypeCorrect == Spec => []TypeOK
BY TypeInit, TypeStep, PTL DEF Spec

-----------------------------------------------------------------------------
(* Connections.  The invariant says of each socket who holds it, and that  *)
(* the session is the one attempt that reached its end.                    *)

\* What the steps of the connection life cycle leave alone.
LEMMA NetSteps ==
    ASSUME [Next]_vars
    PROVE  \/ \E c \in Clients :
                \/ SubmitPassword(c) \/ DoConnect(c) \/ FollowReferral(c) \/ Dial(c) \/ Secure(c) \/ Bind(c)
                \/ ConnectFailed(c) \/ TestDone(c) \/ Connected(c) \/ ReferralConnected(c)
           \/ Disconnect \/ Quit
           \/ /\ UNCHANGED <<client, conf, attempt, open>>
              /\ readOnly' = readOnly \/ ReadOnlyOn \/ ReadOnlyOff
<1> USE DEF session, schemas, ui, net
<1>1. CASE Deliver
  BY <1>1 DEF Deliver, EndProgram, AskPassword, CancelPrompt, Back, OpenRootDSE, FormCancel, OpenMessage,
              OpenGuarded, OpenSchema, NeedSchema, OpenForm
<1>2. CASE \E w \in Writes : WriteStep(w)
  BY <1>2 DEF WriteStep, ReviewWrite, ShowConfirm, DoWrite, WriteRequest, WriteDone
<1>3. CASE \E c \in Clients : ConnStep(c)
  BY <1>3 DEF ConnStep, SchemaLoaded
<1>4. CASE User
  <2>1. UserPosts => UNCHANGED <<client, conf, readOnly, attempt, open>>
    BY DEF UserPosts, ChooseProfile, Reconnect, Press, Command
  <2>2. ReadWithoutClient \/ CloseMessage => UNCHANGED <<client, conf, readOnly, attempt, open>>
    BY DEF ReadWithoutClient, CloseMessage
  <2>3. ReadOnlyOn \/ ReadOnlyOff => UNCHANGED <<client, conf, attempt, open>>
    BY DEF ReadOnlyOn, ReadOnlyOff
  <2>4. ASSUME NEW w \in Writes,
               \/ \E k \in {"modify", "delete", "import"}, n \in 1 .. MaxRecords : AskWrite(w, k, n)
               \/ SubmitForm(w) \/ Confirm(w) \/ Refuse(w)
        PROVE  UNCHANGED <<client, conf, readOnly, attempt, open>>
    BY <2>4 DEF AskWrite, SubmitForm, Confirm, Refuse
  <2> QED
    BY <1>4, <2>1, <2>2, <2>3, <2>4 DEF User
<1>5. CASE UNCHANGED vars
  BY <1>5 DEF vars
<1> QED
  BY <1>1, <1>2, <1>3, <1>4, <1>5 DEF Next

Holders == {"securing", "binding", "bound", "current"}
Sockets ==
    /\ \A c \in Clients : c \in open <=> attempt[c].phase \in Holders
    /\ \A c \in Clients : client = c <=> attempt[c].phase = "current"
Profile ==
    client # None =>
        /\ attempt[client].kind # "test" /\ attempt[client].prof = conf
        /\ conf \in ReadOnlyProfiles => readOnly
ConnInv == Sockets /\ Profile

\* A step of attempt c gives it a phase and leaves the other attempts alone.
LEMMA PhaseFacts ==
    ASSUME TypeOK, NEW c \in Clients, NEW ph, SetPhase(c, ph)
    PROVE  /\ attempt'[c].phase = ph
           /\ attempt'[c].kind = attempt[c].kind /\ attempt'[c].prof = attempt[c].prof
           /\ \A x \in Clients \ {c} : attempt'[x] = attempt[x]
BY DEF SetPhase, TypeOK, Attempts

LEMMA ReplaceFacts ==
    ASSUME TypeOK, Sockets, NEW c \in Clients, attempt[c].phase = "bound", Replace(c)
    PROVE  /\ Sockets'
           /\ \A x \in Clients :
                attempt'[x].kind = attempt[x].kind /\ attempt'[x].prof = attempt[x].prof
           /\ \A x \in Clients : attempt[x].phase # "unused" => attempt'[x].phase # "unused"
           /\ client' = c /\ conf' = attempt'[c].prof
<1>1. client # c
  BY DEF Sockets
<1>2. ASSUME NEW x \in Clients
      PROVE  /\ attempt'[x].kind = attempt[x].kind /\ attempt'[x].prof = attempt[x].prof
             /\ attempt'[x].phase = IF x = c THEN "current" ELSE IF x = client THEN "closed"
                                   ELSE attempt[x].phase
  <2>1. attempt[x] \in Attempts
    BY DEF TypeOK
  <2>2. attempt'[x] = CASE x = c -> [attempt[x] EXCEPT !.phase = "current"]
                        [] x = client /\ x # c -> [attempt[x] EXCEPT !.phase = "closed"]
                        [] OTHER -> attempt[x]
    BY DEF Replace
  <2> QED
    BY <2>1, <2>2 DEF Attempts
<1>3. open' = open \ {client} /\ client' = c
  BY DEF Replace
<1>4. Sockets'
  BY <1>1, <1>2, <1>3 DEF Sockets, Holders
<1>5. conf' = attempt'[c].prof
  <2>1. conf' = attempt[c].prof
    BY DEF Replace
  <2> QED
    BY <1>2, <2>1
<1>6. \A x \in Clients : attempt[x].phase # "unused" => attempt'[x].phase # "unused"
  BY <1>2
<1> QED
  BY <1>2, <1>3, <1>4, <1>5, <1>6

LEMMA CloseClientFacts ==
    ASSUME TypeOK, Sockets, CloseClient
    PROVE  /\ Sockets' /\ client' = None
           /\ \A x \in Clients :
                attempt'[x].kind = attempt[x].kind /\ attempt'[x].prof = attempt[x].prof
           /\ \A x \in Clients : attempt[x].phase # "unused" => attempt'[x].phase # "unused"
<1>1. ASSUME NEW x \in Clients
      PROVE  /\ attempt'[x].kind = attempt[x].kind /\ attempt'[x].prof = attempt[x].prof
             /\ attempt'[x].phase = IF x = client THEN "closed" ELSE attempt[x].phase
  BY DEF CloseClient, TypeOK, Attempts
<1>2. open' = open \ {client} /\ client' = None
  BY DEF CloseClient
<1> QED
  BY <1>1, <1>2, NoneAssumption DEF Sockets, Holders

LEMMA ConnInit == Init => ConnInv
<1> SUFFICES ASSUME Init PROVE ConnInv
  OBVIOUS
<1>1. ASSUME NEW c \in Clients PROVE attempt[c].phase \in {"unused", "requested"}
  <2>1. CASE attempt = Unused
    BY <2>1 DEF Unused
  <2>2. ASSUME NEW d \in Clients, NEW p \in Profiles,
               attempt = [Unused EXCEPT ![d].phase = "requested", ![d].prof = p]
        PROVE  attempt[c].phase \in {"unused", "requested"}
    BY <2>2 DEF Unused
  <2> QED
    BY <2>1, <2>2 DEF Init
<1> QED
  BY <1>1, NoneAssumption DEF Init, ConnInv, Sockets, Profile, Holders

LEMMA ConnStepKept == TypeOK /\ ConnInv /\ [Next]_vars => ConnInv'
<1> SUFFICES ASSUME TypeOK, Sockets, Profile, [Next]_vars PROVE Sockets' /\ Profile'
  BY DEF ConnInv
<1> USE DEF session, schemas, ui, net
<1>a. ASSUME NEW c \in Clients, NEW ph, SetPhase(c, ph), UNCHANGED session, ph # "current",
             attempt[c].phase # "current",
             open' = IF ph \in Holders THEN open \cup {c} ELSE open \ {c}
      PROVE  Sockets' /\ Profile'
  <2>1. client # c
    BY <1>a DEF Sockets
  <2> QED
    BY <1>a, <2>1, PhaseFacts, NoneAssumption DEF Sockets, Profile, Holders, TypeOK
<1>1. ASSUME NEW c \in Clients, SubmitPassword(c) PROVE Sockets' /\ Profile'
  <2>1. /\ attempt'[c].phase = "requested" /\ \A x \in Clients \ {c} : attempt'[x] = attempt[x]
        /\ UNCHANGED <<client, conf, readOnly, open>> /\ client # c /\ c \notin open
    BY <1>1 DEF SubmitPassword, Sockets, Holders, TypeOK
  <2> QED
    BY <2>1 DEF Sockets, Profile, Holders, TypeOK
<1>2. ASSUME NEW c \in Clients, DoConnect(c) PROVE Sockets' /\ Profile'
  <2>1. c \notin open
    BY <1>2 DEF DoConnect, Sockets, Holders
  <2> QED
    BY <1>2, <1>a, <2>1 DEF DoConnect, Holders
<1>3. ASSUME NEW c \in Clients, FollowReferral(c) PROVE Sockets' /\ Profile'
  <2>1. /\ attempt'[c].phase = "dialing" /\ \A x \in Clients \ {c} : attempt'[x] = attempt[x]
        /\ UNCHANGED <<client, conf, readOnly, open>> /\ client # c /\ c \notin open
    BY <1>3 DEF FollowReferral, Sockets, Holders, TypeOK
  <2> QED
    BY <2>1 DEF Sockets, Profile, Holders, TypeOK
<1>4. ASSUME NEW c \in Clients, Dial(c) PROVE Sockets' /\ Profile'
  <2>1. c \notin open
    BY <1>4 DEF Dial, Sockets, Holders
  <2> QED
    BY <1>4, <1>a, <2>1 DEF Dial, Holders
<1>5. ASSUME NEW c \in Clients, Secure(c) \/ Bind(c) PROVE Sockets' /\ Profile'
  <2>1. c \in open
    BY <1>5 DEF Secure, Bind, Sockets, Holders
  <2> QED
    BY <1>5, <1>a, <2>1 DEF Secure, Bind, Holders
<1>6. ASSUME NEW c \in Clients, ConnectFailed(c) PROVE Sockets' /\ Profile'
  <2>1. c \notin open
    BY <1>6 DEF ConnectFailed, Sockets, Holders
  <2> QED
    BY <1>6, <1>a, <2>1 DEF ConnectFailed, Holders
<1>7. ASSUME NEW c \in Clients, TestDone(c) PROVE Sockets' /\ Profile'
  BY <1>7, <1>a DEF TestDone, Holders
<1>8. ASSUME NEW c \in Clients, Connected(c) PROVE Sockets' /\ Profile'
  <2>1. /\ attempt[c].phase = "bound" /\ attempt[c].kind = "connect" /\ Replace(c)
        /\ readOnly' = (attempt[c].prof \in ReadOnlyProfiles)
    BY <1>8 DEF Connected
  <2> QED
    BY <2>1, ReplaceFacts DEF Profile
<1>9. ASSUME NEW c \in Clients, ReferralConnected(c) PROVE Sockets' /\ Profile'
  <2>1. /\ attempt[c].phase = "bound" /\ attempt[c].kind = "referral" /\ Replace(c)
        /\ readOnly' = TRUE
    BY <1>9 DEF ReferralConnected
  <2> QED
    BY <2>1, ReplaceFacts DEF Profile
<1>10. CASE Disconnect
  BY <1>10, CloseClientFacts DEF Disconnect, Profile
<1>11. CASE Quit
  BY <1>11, CloseClientFacts DEF Quit, Profile, Sockets
<1>12. CASE /\ UNCHANGED <<client, conf, attempt, open>>
            /\ readOnly' = readOnly \/ ReadOnlyOn \/ ReadOnlyOff
  BY <1>12 DEF Sockets, Profile, ReadOnlyOn, ReadOnlyOff
<1> QED
  BY <1>1, <1>2, <1>3, <1>4, <1>5, <1>6, <1>7, <1>8, <1>9, <1>10, <1>11, <1>12, NetSteps

\* No socket is forgotten, for any number of overlapping attempts.
THEOREM NoConnectionLeaks == Spec => []NoLeakedConnection
<1>1. TypeOK /\ ConnInv => NoLeakedConnection
  BY DEF TypeOK, ConnInv, Sockets, Holders, NoLeakedConnection
<1> QED
  BY <1>1, TypeInit, TypeStep, ConnInit, ConnStepKept, PTL DEF Spec

\* The session is of one piece, whatever connections come and go.
THEOREM SessionStaysCoherent == Spec => []SessionCoherent
<1>1. TypeOK /\ ConnInv => SessionCoherent
  BY DEF TypeOK, ConnInv, Sockets, Profile, Holders, SessionCoherent
<1> QED
  BY <1>1, TypeInit, TypeStep, ConnInit, ConnStepKept, PTL DEF Spec

-----------------------------------------------------------------------------
(* Modifications.  A goroutine keeps the connection it was started with,   *)
(* and a connection its profile.                                           *)

LEMMA AttemptsKeepTheirProfile ==
    ASSUME TypeOK, Sockets, [Next]_vars, NEW x \in Clients, attempt[x].phase # "unused"
    PROVE  attempt'[x].phase # "unused" /\ attempt'[x].prof = attempt[x].prof
<1> USE DEF session, schemas, ui, net
<1>a. ASSUME NEW c \in Clients, NEW ph, SetPhase(c, ph), ph # "unused"
      PROVE  attempt'[x].phase # "unused" /\ attempt'[x].prof = attempt[x].prof
  BY <1>a, PhaseFacts
<1>1. ASSUME NEW c \in Clients,
             SubmitPassword(c) \/ FollowReferral(c)
      PROVE  attempt'[x] = attempt[x]
  BY <1>1 DEF SubmitPassword, FollowReferral, TypeOK
<1>2. ASSUME NEW c \in Clients,
             DoConnect(c) \/ Dial(c) \/ Secure(c) \/ Bind(c) \/ ConnectFailed(c) \/ TestDone(c)
      PROVE  attempt'[x].phase # "unused" /\ attempt'[x].prof = attempt[x].prof
  BY <1>2, <1>a DEF DoConnect, Dial, Secure, Bind, ConnectFailed, TestDone
<1>3. ASSUME NEW c \in Clients, Connected(c) \/ ReferralConnected(c)
      PROVE  attempt'[x].phase # "unused" /\ attempt'[x].prof = attempt[x].prof
  BY <1>3, ReplaceFacts DEF Connected, ReferralConnected
<1>4. CASE Disconnect \/ Quit
  BY <1>4, CloseClientFacts DEF Disconnect, Quit
<1>5. CASE UNCHANGED attempt
  BY <1>5
<1> QED
  BY <1>1, <1>2, <1>3, <1>4, <1>5, NetSteps

Sending == {"running", "replied"}

LEMMA WritesKeepTheirTarget ==
    ASSUME TypeOK, [Next]_vars, NEW w \in Writes
    PROVE  \/ /\ write'[w].to # None => write'[w].to = write[w].to
              /\ write'[w].phase \in Sending =>
                    write[w].phase \in Sending /\ write'[w].to = write[w].to
              /\ write'[w].phase = "running" => write[w].phase = "running"
           \/ /\ Up /\ write[w].phase = "confirmed" /\ write'[w].to = client
              /\ ~readOnly /\ UNCHANGED attempt
<1> DEFINE Kept == /\ write'[w].to # None => write'[w].to = write[w].to
                   /\ write'[w].phase \in Sending =>
                         write[w].phase \in Sending /\ write'[w].to = write[w].to
                   /\ write'[w].phase = "running" => write[w].phase = "running"
<1> USE DEF session, schemas, ui, net
<1>a. ASSUME NEW v \in Writes, NEW ph, SetWrite(v, ph), ph \notin Sending PROVE Kept
  BY <1>a DEF SetWrite, TypeOK, WriteStates, Sending
<1>b. ASSUME NEW v \in Writes, NEW k, NEW n, NEW ph, Asked(v, k, n, ph), ph \notin Sending
      PROVE  Kept
  BY <1>b DEF Asked, TypeOK, WriteStates, Sending
<1>c. /\ Covered("over")[w].to = write[w].to
      /\ Covered("over")[w].phase \in Sending => Covered("over")[w].phase = write[w].phase
  BY DEF Covered, TypeOK, WriteStates, Sending
<1>1. ASSUME NEW v \in Writes, ReviewWrite(v) \/ Confirm(v) \/ Refuse(v) PROVE Kept
  BY <1>1, <1>a DEF ReviewWrite, Confirm, Refuse, Sending
<1>2. ASSUME NEW v \in Writes, NEW k, NEW n, AskWrite(v, k, n) \/ SubmitForm(v) PROVE Kept
  BY <1>2, <1>b DEF AskWrite, SubmitForm, Sending
<1>3. CASE OpenMessage
  BY <1>3, <1>c DEF OpenMessage, Sending
<1>4. ASSUME NEW v \in Writes, ShowConfirm(v) PROVE Kept
  <2>1. write' = [Covered("over") EXCEPT ![v].phase = "shown"] /\ Covered("over") \in [Writes -> WriteStates]
    BY <1>4, CoveredType DEF ShowConfirm, WritePhases, Ahead
  <2> QED
    BY <2>1, <1>c DEF Sending, WriteStates
<1>5. ASSUME NEW v \in Writes, DoWrite(v)
      PROVE  \/ Kept
             \/ /\ Up /\ write[w].phase = "confirmed" /\ write'[w].to = client
                /\ ~readOnly /\ UNCHANGED attempt
  <2>1. CASE readOnly
    BY <1>5, <2>1, <1>a DEF DoWrite, Sending
  <2>2. CASE ~readOnly
    BY <1>5, <2>2 DEF DoWrite, TypeOK, WriteStates, Sending
  <2> QED
    BY <2>1, <2>2
<1>6. ASSUME NEW v \in Writes, WriteRequest(v) PROVE Kept
  <2>1. write[v].phase = "running"
    BY <1>6 DEF WriteRequest
  <2>2. \/ write' = write
        \/ write' = [write EXCEPT ![v] = Sent(write[v])]
        \/ write' = [write EXCEPT ![v].phase = "replied"]
    BY <1>6 DEF WriteRequest
  <2> QED
    BY <2>1, <2>2 DEF Sent, Sending, TypeOK, WriteStates
<1>7. ASSUME NEW v \in Writes, WriteDone(v) PROVE Kept
  BY <1>7, <1>a DEF WriteDone, Sending
<1>8. CASE UNCHANGED write
  BY <1>8
<1>9. ASSUME NEW c \in Clients, ConnStep(c) PROVE UNCHANGED write
  BY <1>9 DEF ConnStep, DoConnect, Dial, Secure, Bind, ConnectFailed, TestDone, Connected,
              ReferralConnected, SchemaLoaded
<1>10. CASE Deliver
  <2>1. UNCHANGED write \/ OpenMessage
    BY <1>10 DEF Deliver, EndProgram, AskPassword, CancelPrompt, Disconnect, Back, OpenRootDSE, FormCancel,
                 OpenGuarded, OpenSchema, NeedSchema, OpenForm, FollowReferral
  <2> QED
    BY <2>1, <1>3, <1>8
<1>11. CASE User
  <2>1. UserPosts => UNCHANGED write
    BY DEF UserPosts, ChooseProfile, Reconnect, Press, Command
  <2>2. ReadWithoutClient \/ CloseMessage \/ Quit \/ ReadOnlyOn \/ ReadOnlyOff => UNCHANGED write
    BY DEF ReadWithoutClient, CloseMessage, Quit, ReadOnlyOn, ReadOnlyOff
  <2>3. ASSUME NEW c \in Clients, SubmitPassword(c) PROVE UNCHANGED write
    BY <2>3 DEF SubmitPassword
  <2> QED
    BY <1>11, <1>1, <1>2, <1>8, <2>1, <2>2, <2>3 DEF User
<1>12. CASE UNCHANGED vars
  BY <1>12, <1>8 DEF vars
<1> QED
  BY <1>4, <1>1, <1>5, <1>6, <1>7, <1>8, <1>9, <1>10, <1>11, <1>12 DEF Next, WriteStep

Targets ==
    \A w \in Writes : write[w].to # None =>
        /\ attempt[write[w].to].phase # "unused"
        /\ write[w].phase \in Sending => attempt[write[w].to].prof \notin ReadOnlyProfiles

LEMMA TargetsInit == Init => Targets
BY DEF Init, Targets

LEMMA TargetsKept == TypeOK /\ ConnInv /\ Targets /\ [Next]_vars => Targets'
<1> SUFFICES ASSUME TypeOK, Sockets, Profile, Targets, [Next]_vars,
                    NEW w \in Writes, write'[w].to # None
             PROVE  /\ attempt'[write'[w].to].phase # "unused"
                    /\ write'[w].phase \in Sending =>
                          attempt'[write'[w].to].prof \notin ReadOnlyProfiles
  BY DEF ConnInv, Targets
<1>1. CASE /\ write'[w].to = write[w].to
           /\ write'[w].phase \in Sending => write[w].phase \in Sending
  <2>1. write[w].to \in Clients
    BY <1>1 DEF TypeOK, WriteStates
  <2>2. /\ attempt[write[w].to].phase # "unused"
        /\ write[w].phase \in Sending => attempt[write[w].to].prof \notin ReadOnlyProfiles
    BY <1>1 DEF Targets
  <2> QED
    BY <1>1, <2>1, <2>2, AttemptsKeepTheirProfile
<1>2. CASE write'[w].to = client /\ ~readOnly /\ UNCHANGED attempt
  BY <1>2 DEF Sockets, Profile, TypeOK
<1> QED
  BY <1>1, <1>2, WritesKeepTheirTarget

\* The server of a read-only profile is sent no modification.
THEOREM ReadOnlyProfilesAreNeverWritten == Spec => []ReadOnlyProfileNeverWritten
<1>1. Targets => ReadOnlyProfileNeverWritten
  BY DEF Targets, Sending, ReadOnlyProfileNeverWritten
<1> QED
  BY <1>1, TypeInit, TypeStep, ConnInit, ConnStepKept, TargetsInit, TargetsKept, PTL DEF Spec

-----------------------------------------------------------------------------
(* The schema load.                                                        *)

LEMMA LoadSteps ==
    ASSUME [Next]_vars
    PROVE  \/ LoadSchema
           \/ \E c \in Clients : SchemaLoaded(c)
           \/ UNCHANGED <<schemaLoading, loads>>
<1> USE DEF session, schemas, ui, net
<1>1. CASE Deliver
  BY <1>1 DEF Deliver, EndProgram, AskPassword, CancelPrompt, Back, OpenRootDSE, FormCancel, OpenMessage,
              OpenGuarded, OpenSchema, NeedSchema, OpenForm, Disconnect, FollowReferral
<1>2. CASE \E w \in Writes : WriteStep(w)
  BY <1>2 DEF WriteStep, ReviewWrite, ShowConfirm, DoWrite, WriteRequest, WriteDone
<1>3. CASE \E c \in Clients : ConnStep(c)
  BY <1>3 DEF ConnStep, DoConnect, Dial, Secure, Bind, ConnectFailed, TestDone, Connected, ReferralConnected
<1>4. CASE User
  <2>1. UserPosts => UNCHANGED <<schemaLoading, loads>>
    BY DEF UserPosts, ChooseProfile, Reconnect, Press, Command
  <2>2. ReadWithoutClient \/ CloseMessage \/ Quit \/ ReadOnlyOn \/ ReadOnlyOff
          => UNCHANGED <<schemaLoading, loads>>
    BY DEF ReadWithoutClient, CloseMessage, Quit, ReadOnlyOn, ReadOnlyOff
  <2>3. ASSUME NEW c \in Clients, SubmitPassword(c) PROVE UNCHANGED <<schemaLoading, loads>>
    BY <2>3 DEF SubmitPassword
  <2>4. ASSUME NEW w \in Writes,
               \/ \E k \in {"modify", "delete", "import"}, n \in 1 .. MaxRecords : AskWrite(w, k, n)
               \/ SubmitForm(w) \/ Confirm(w) \/ Refuse(w)
        PROVE  UNCHANGED <<schemaLoading, loads>>
    BY <2>4 DEF AskWrite, SubmitForm, Confirm, Refuse
  <2> QED
    BY <1>4, <2>1, <2>2, <2>3, <2>4 DEF User
<1>5. CASE UNCHANGED vars
  BY <1>5 DEF vars
<1> QED
  BY <1>1, <1>2, <1>3, <1>4, <1>5 DEF Next

LEMMA OneLoadKept == TypeOK /\ OneSchemaLoad /\ [Next]_vars => OneSchemaLoad'
<1> SUFFICES ASSUME TypeOK, OneSchemaLoad, [Next]_vars PROVE OneSchemaLoad'
  OBVIOUS
<1>0. loads \in [Clients -> Nat]
  BY DEF TypeOK
<1>1. CASE UNCHANGED <<schemaLoading, loads>>
  BY <1>1 DEF OneSchemaLoad
<1>2. CASE LoadSchema /\ ~schemaLoading /\ client # None
  <2>1. schemaLoading' = TRUE /\ loads' = [loads EXCEPT ![client] = loads[client] + 1]
    BY <1>2 DEF LoadSchema
  <2>2. client \in Clients /\ \A c \in Clients : loads[c] = 0
    BY <1>0, <1>2 DEF OneSchemaLoad, TypeOK
  <2>3. \A c \in Clients : loads'[c] = IF c = client THEN 1 ELSE 0
    BY <1>0, <2>1, <2>2
  <2> QED
    BY <2>1, <2>2, <2>3 DEF OneSchemaLoad
<1>3. ASSUME NEW c \in Clients, SchemaLoaded(c) PROVE OneSchemaLoad'
  <2>1. loads[c] > 0 /\ schemaLoading' = FALSE /\ loads' = [loads EXCEPT ![c] = loads[c] - 1]
    BY <1>3 DEF SchemaLoaded
  <2>2. loads[c] = 1 /\ \A d \in Clients \ {c} : loads[d] = 0
    BY <1>0, <2>1 DEF OneSchemaLoad
  <2>3. \A d \in Clients : loads'[d] = 0
    BY <1>0, <2>1, <2>2
  <2> QED
    BY <2>1, <2>3 DEF OneSchemaLoad
<1> QED
  BY <1>1, <1>2, <1>3, LoadSteps DEF LoadSchema

\* There is never a second schema load, and the flag never lies.
THEOREM OneSchemaLoadAtATime == Spec => []OneSchemaLoad
<1>1. Init => OneSchemaLoad
  BY DEF Init, OneSchemaLoad
<1> QED
  BY <1>1, TypeInit, TypeStep, OneLoadKept, PTL DEF Spec

-----------------------------------------------------------------------------
(* The spinner.  A referral is no reason for it to stop or to go on: the   *)
(* attempt that keeps "connecting" true is a connect or a test.            *)

Awaited(c) ==
    attempt[c].phase \in {"dialing", "securing", "binding", "bound", "failed"} /\ attempt[c].kind # "referral"
ConnectingAwaits ==
    /\ connecting => \E c \in Clients : Awaited(c)
    /\ \A c \in Clients : attempt[c].phase = "requested" => attempt[c].kind # "referral"

LEMMA ConnectingSteps ==
    ASSUME [Next]_vars
    PROVE  \/ \E c \in Clients :
                DoConnect(c) \/ ConnectFailed(c) \/ TestDone(c) \/ Connected(c)
           \/ UNCHANGED connecting
<1> USE DEF session, schemas, ui, net
<1>1. CASE Deliver
  BY <1>1 DEF Deliver, EndProgram, AskPassword, CancelPrompt, Back, OpenRootDSE, FormCancel, OpenMessage,
              OpenGuarded, OpenSchema, NeedSchema, OpenForm, Disconnect, FollowReferral
<1>2. CASE \E w \in Writes : WriteStep(w)
  BY <1>2 DEF WriteStep, ReviewWrite, ShowConfirm, DoWrite, WriteRequest, WriteDone
<1>3. CASE \E c \in Clients : ConnStep(c)
  BY <1>3 DEF ConnStep, Dial, Secure, Bind, ReferralConnected, SchemaLoaded
<1>4. CASE User
  <2>1. UserPosts => UNCHANGED connecting
    BY DEF UserPosts, ChooseProfile, Reconnect, Press, Command
  <2>2. ReadWithoutClient \/ CloseMessage \/ Quit \/ ReadOnlyOn \/ ReadOnlyOff
          => UNCHANGED connecting
    BY DEF ReadWithoutClient, CloseMessage, Quit, ReadOnlyOn, ReadOnlyOff
  <2>3. ASSUME NEW c \in Clients, SubmitPassword(c) PROVE UNCHANGED connecting
    BY <2>3 DEF SubmitPassword
  <2>4. ASSUME NEW w \in Writes,
               \/ \E k \in {"modify", "delete", "import"}, n \in 1 .. MaxRecords : AskWrite(w, k, n)
               \/ SubmitForm(w) \/ Confirm(w) \/ Refuse(w)
        PROVE  UNCHANGED connecting
    BY <2>4 DEF AskWrite, SubmitForm, Confirm, Refuse
  <2> QED
    BY <1>4, <2>1, <2>2, <2>3, <2>4 DEF User
<1>5. CASE UNCHANGED vars
  BY <1>5 DEF vars
<1> QED
  BY <1>1, <1>2, <1>3, <1>4, <1>5 DEF Next

\* An awaited attempt stays awaited until its result is handled.
LEMMA AwaitedStays ==
    ASSUME TypeOK, Sockets, [Next]_vars, NEW x \in Clients, Awaited(x)
    PROVE  Awaited(x)' \/ connecting' = FALSE
<1> USE DEF session, schemas, ui, net
<1>1. ASSUME NEW c \in Clients, SubmitPassword(c) \/ FollowReferral(c) PROVE Awaited(x)'
  <2>1. attempt'[x] = attempt[x]
    BY <1>1 DEF Awaited, SubmitPassword, FollowReferral, TypeOK
  <2> QED
    BY <2>1 DEF Awaited
<1>2. ASSUME NEW c \in Clients, DoConnect(c) \/ Dial(c) \/ Secure(c) \/ Bind(c) PROVE Awaited(x)'
  <2>1. PICK ph \in {"dialing", "securing", "binding", "bound", "failed"} : SetPhase(c, ph)
    BY <1>2 DEF DoConnect, Dial, Secure, Bind
  <2> QED
    BY <2>1, PhaseFacts DEF Awaited
<1>3. ASSUME NEW c \in Clients, ConnectFailed(c) \/ TestDone(c) \/ Connected(c)
      PROVE  connecting' = FALSE
  BY <1>3 DEF ConnectFailed, TestDone, Connected
<1>4. ASSUME NEW c \in Clients, ReferralConnected(c) PROVE Awaited(x)'
  <2>1. /\ attempt' = [y \in Clients |->
                        CASE y = c -> [attempt[y] EXCEPT !.phase = "current"]
                          [] y = client /\ y # c -> [attempt[y] EXCEPT !.phase = "closed"]
                          [] OTHER -> attempt[y]]
        /\ attempt[c].kind = "referral"
    BY <1>4 DEF ReferralConnected, Replace
  <2>2. x # c /\ x # client
    BY <2>1 DEF Awaited, Sockets
  <2>3. attempt'[x] = attempt[x]
    BY <2>1, <2>2
  <2> QED
    BY <2>3 DEF Awaited
<1>5. CASE Disconnect \/ Quit
  <2>1. CASE CloseClient
    <3>1. attempt'[x] = attempt[x]
      BY <2>1 DEF CloseClient, Awaited, Sockets
    <3> QED
      BY <3>1 DEF Awaited
  <2>2. CASE UNCHANGED attempt
    BY <2>2 DEF Awaited
  <2> QED
    BY <1>5, <2>1, <2>2 DEF Disconnect, Quit
<1>6. CASE UNCHANGED attempt
  BY <1>6 DEF Awaited
<1> QED
  BY <1>1, <1>2, <1>3, <1>4, <1>5, <1>6, NetSteps

\* Only a prompt or the command line asks for an attempt, never a referral.
LEMMA RequestsStay ==
    ASSUME TypeOK, Sockets, ConnectingAwaits, [Next]_vars, NEW x \in Clients,
           attempt'[x].phase = "requested"
    PROVE  attempt'[x].kind # "referral"
<1> USE DEF session, schemas, ui, net
<1>1. ASSUME NEW c \in Clients, SubmitPassword(c) PROVE attempt'[x].kind # "referral"
  BY <1>1 DEF SubmitPassword, TypeOK, ConnectingAwaits, Attempts
<1>2. ASSUME NEW c \in Clients, FollowReferral(c) PROVE attempt'[x].kind # "referral"
  BY <1>2 DEF FollowReferral, TypeOK, ConnectingAwaits, Attempts
<1>3. ASSUME NEW c \in Clients,
             DoConnect(c) \/ Dial(c) \/ Secure(c) \/ Bind(c) \/ ConnectFailed(c) \/ TestDone(c)
      PROVE  attempt'[x].kind # "referral"
  <2>1. PICK ph \in Phases \ {"requested"} : SetPhase(c, ph)
    BY <1>3 DEF DoConnect, Dial, Secure, Bind, ConnectFailed, TestDone, Phases
  <2> QED
    BY <2>1, PhaseFacts DEF ConnectingAwaits
<1>4. ASSUME NEW c \in Clients, Connected(c) \/ ReferralConnected(c)
      PROVE  attempt'[x].kind # "referral"
  <2>1. Replace(c)
    BY <1>4 DEF Connected, ReferralConnected
  <2>2. attempt'[x] = attempt[x]
    BY <2>1 DEF Replace, TypeOK, Attempts
  <2> QED
    BY <2>2 DEF ConnectingAwaits
<1>5. CASE Disconnect \/ Quit
  <2>1. CASE CloseClient
    <3>1. attempt'[x] = attempt[x]
      BY <2>1 DEF CloseClient, TypeOK, Attempts
    <3> QED
      BY <3>1 DEF ConnectingAwaits
  <2>2. CASE UNCHANGED attempt
    BY <2>2 DEF ConnectingAwaits
  <2> QED
    BY <1>5, <2>1, <2>2 DEF Disconnect, Quit
<1>6. CASE UNCHANGED attempt
  BY <1>6 DEF ConnectingAwaits
<1> QED
  BY <1>1, <1>2, <1>3, <1>4, <1>5, <1>6, NetSteps

LEMMA ConnectingKept == TypeOK /\ ConnInv /\ ConnectingAwaits /\ [Next]_vars => ConnectingAwaits'
<1> SUFFICES ASSUME TypeOK, Sockets, ConnectingAwaits, [Next]_vars PROVE ConnectingAwaits'
  BY DEF ConnInv
<1>1. ASSUME connecting' PROVE \E c \in Clients : Awaited(c)'
  <2>1. ASSUME NEW c \in Clients, DoConnect(c) PROVE Awaited(c)'
    BY <2>1, PhaseFacts DEF DoConnect, Awaited, ConnectingAwaits
  <2>2. CASE connecting
    BY <1>1, <2>2, AwaitedStays DEF ConnectingAwaits
  <2>3. CASE ~connecting
    <3>1. \E c \in Clients : DoConnect(c)
      BY <1>1, <2>3, ConnectingSteps DEF ConnectFailed, TestDone, Connected
    <3> QED
      BY <3>1, <2>1
  <2> QED
    BY <2>2, <2>3 DEF TypeOK
<1> QED
  BY <1>1, RequestsStay DEF ConnectingAwaits

\* The spinner never runs for an attempt whose result has been handled.
THEOREM ConnectingStaysHonest == Spec => []ConnectingHonest
<1>1. Init => ConnectingAwaits
  <2> SUFFICES ASSUME Init, NEW c \in Clients PROVE attempt[c].kind = "connect"
    BY DEF Init, ConnectingAwaits
  <2>1. CASE attempt = Unused
    BY <2>1 DEF Unused
  <2>2. ASSUME NEW d \in Clients, NEW p \in Profiles,
               attempt = [Unused EXCEPT ![d].phase = "requested", ![d].prof = p]
        PROVE  attempt[c].kind = "connect"
    BY <2>2 DEF Unused
  <2> QED
    BY <2>1, <2>2 DEF Init
<1>2. ConnectingAwaits => ConnectingHonest
  BY DEF ConnectingAwaits, Awaited, ConnectingHonest, InFlight
<1> QED
  BY <1>1, <1>2, TypeInit, TypeStep, ConnInit, ConnStepKept, ConnectingKept, PTL DEF Spec

-----------------------------------------------------------------------------
(* Crashes.  Before the first connection nothing that uses the client is   *)
(* within reach: not on the screen, not in the inbox, not in a goroutine.  *)

Early == Up /\ client = None /\ ~left
Unconnected == {m \in Msgs : m.type \in {"connectRequest", "cancelPrompt", "message"}}
Untouched ==
    /\ screen \in {"connections", "password"} /\ ov \notin Writes
    /\ Pending \subseteq Unconnected
    /\ \A w \in Writes : write[w].phase = "unused"
    /\ \A c \in Clients : loads[c] = 0
NilNeedsClose ==
    /\ running = "crashed" => left
    /\ \A w \in Writes : write[w].phase = "running" /\ write[w].to = None => left
CrashInv == (Early => Untouched) /\ NilNeedsClose

LEMMA CrashInit == Init => CrashInv
<1> SUFFICES ASSUME Init PROVE CrashInv
  OBVIOUS
<1>1. Pending \subseteq Unconnected
  <2>1. CASE inbox = NoMessage
    BY <2>1 DEF Pending, NoMessage
  <2>2. ASSUME NEW p \in Profiles,
               inbox = [NoMessage EXCEPT ![[type |-> "connectRequest", prof |-> p, test |-> FALSE]] = 1]
        PROVE  Pending \subseteq Unconnected
    BY <2>2 DEF Pending, NoMessage, Unconnected
  <2> QED
    BY <2>1, <2>2 DEF Init
<1> QED
  BY <1>1, NoneAssumption DEF Init, CrashInv, Untouched, NilNeedsClose

LEMMA TakeFacts ==
    ASSUME TypeOK, NEW m, Take(m)
    PROVE  Pending' \subseteq Pending /\ (m \in Msgs => m \in Pending)
<1>1. inbox \in [Msgs -> Nat] /\ inbox[m] > 0 /\ inbox' = [inbox EXCEPT ![m] = inbox[m] - 1]
  BY DEF Take, TypeOK
<1>2. ASSUME NEW x \in Msgs, inbox'[x] > 0 PROVE inbox[x] > 0
  BY <1>1, <1>2
<1> QED
  BY <1>1, <1>2 DEF Pending

LEMMA PostFacts == ASSUME TypeOK, NEW m, Post(m) PROVE Pending' \subseteq Pending \cup {m}
BY DEF Post, TypeOK, Pending

\* Every message but connectRequest is its type.
LEMMA MsgFacts ==
    ASSUME NEW t
    PROVE  Msg(t) \in Unconnected => t \in {"connectRequest", "cancelPrompt", "message"}
BY DEF Msg, Unconnected

\* The program runs before every step, and it is not forgotten that the client was closed.
LEMMA LeftSteps ==
    ASSUME [Next]_vars
    PROVE  /\ Up \/ UNCHANGED vars
           /\ left' = left \/ Disconnect \/ Quit
<1> USE DEF session, schemas, ui, net
<1>1. CASE Deliver
  BY <1>1 DEF Deliver, EndProgram, AskPassword, CancelPrompt, Back, OpenRootDSE, FormCancel, OpenMessage,
              OpenGuarded, OpenSchema, NeedSchema, OpenForm, FollowReferral, Take, Disconnect, Up
<1>2. CASE \E w \in Writes : WriteStep(w)
  BY <1>2 DEF WriteStep, ReviewWrite, ShowConfirm, DoWrite, WriteRequest, WriteDone
<1>3. CASE \E c \in Clients : ConnStep(c)
  BY <1>3 DEF ConnStep, DoConnect, Dial, Secure, Bind, ConnectFailed, TestDone, Connected,
              ReferralConnected, SchemaLoaded
<1>4. CASE User
  <2>1. UserPosts => Up /\ left' = left
    BY DEF UserPosts, ChooseProfile, Reconnect, Press, Command, OnScreen, ConnCommand
  <2>2. ReadWithoutClient \/ CloseMessage \/ ReadOnlyOn \/ ReadOnlyOff => Up /\ left' = left
    BY DEF ReadWithoutClient, CloseMessage, ReadOnlyOn, ReadOnlyOff, OnScreen, ConnCommand
  <2>3. ASSUME NEW c \in Clients, SubmitPassword(c) PROVE Up /\ left' = left
    BY <2>3 DEF SubmitPassword, OnScreen
  <2>4. ASSUME NEW w \in Writes,
               \/ \E k \in {"modify", "delete", "import"}, n \in 1 .. MaxRecords : AskWrite(w, k, n)
               \/ SubmitForm(w) \/ Confirm(w) \/ Refuse(w)
        PROVE  Up /\ left' = left
    BY <2>4 DEF AskWrite, SubmitForm, Confirm, Refuse, OnScreen, ConnCommand
  <2>5. Quit => Up
    BY DEF Quit
  <2> QED
    BY <1>4, <2>1, <2>2, <2>3, <2>4, <2>5 DEF User
<1>5. CASE UNCHANGED vars
  BY <1>5 DEF vars
<1> QED
  BY <1>1, <1>2, <1>3, <1>4, <1>5 DEF Next

\* What is early after a step was early before it: only Disconnect and Quit
\* take the client away.
LEMMA EarlyBefore ==
    ASSUME TypeOK, [Next]_vars, Early'
    PROVE  Early
<1>1. ~Disconnect
  BY DEF Disconnect, Early
<1>2. Quit => Up /\ client' = client /\ left' = left
  BY DEF Quit, Early, Up
<1>3. ASSUME NEW c \in Clients PROVE ~Connected(c) /\ ~ReferralConnected(c)
  BY NoneAssumption DEF Connected, ReferralConnected, Replace, Early
<1>4. client' = client
  <2> USE DEF session
  <2>1. ASSUME NEW c \in Clients,
               \/ SubmitPassword(c) \/ DoConnect(c) \/ FollowReferral(c) \/ Dial(c) \/ Secure(c) \/ Bind(c)
               \/ ConnectFailed(c) \/ TestDone(c)
        PROVE  client' = client
    BY <2>1 DEF SubmitPassword, DoConnect, FollowReferral, Dial, Secure, Bind, ConnectFailed, TestDone
  <2> QED
    BY <2>1, <1>1, <1>2, <1>3, NetSteps
<1> QED
  BY <1>1, <1>2, <1>4, LeftSteps DEF Early, Up, vars

\* A message that is in the inbox early is one of those.
LEMMA EarlyMessages ==
    ASSUME TypeOK, Early, Untouched, NEW t, Take(Msg(t)), Msg(t) \in Msgs
    PROVE  t \in {"connectRequest", "cancelPrompt", "message"}
BY TakeFacts, MsgFacts DEF Untouched

LEMMA CoveredUnused == ASSUME TypeOK, ov \notin Writes, NEW ph PROVE Covered(ph) = write
BY DEF Covered, TypeOK

LEMMA UntouchedKept ==
    ASSUME TypeOK, Early, Untouched, [Next]_vars, Early'
    PROVE  Untouched'
<1> USE DEF session, schemas, ui, net
<1>1. \A t \in {"disconnect", "back", "goto", "openSearch", "openRootDSE", "openSchema",
                "needSchema", "follow", "addEntry", "modDN", "formCancel"} : ~Take(Msg(t))
  BY EarlyMessages DEF Msgs, Msg
<1>2. ASSUME NEW c \in Clients, ConnStep(c) PROVE Untouched'
  <2>1. ASSUME DoConnect(c) \/ Dial(c) \/ Secure(c) \/ Bind(c) PROVE Untouched'
    BY <2>1 DEF DoConnect, Dial, Secure, Bind, Untouched, Pending
  <2>2. CASE ConnectFailed(c)
    BY <2>2 DEF ConnectFailed, Untouched, Pending
  <2>3. CASE TestDone(c)
    <3>1. Pending' \subseteq Unconnected
      BY <2>3, PostFacts DEF TestDone, Msg, Untouched, Unconnected, Msgs
    <3> QED
      BY <2>3, <3>1 DEF TestDone, Untouched
  <2>4. ~Connected(c) /\ ~ReferralConnected(c)
    BY NoneAssumption DEF Connected, ReferralConnected, Replace, Early
  <2>5. ~SchemaLoaded(c)
    BY DEF SchemaLoaded, Untouched
  <2> QED
    BY <1>2, <2>1, <2>2, <2>3, <2>4, <2>5 DEF ConnStep
<1>3. ASSUME NEW w \in Writes PROVE ~WriteStep(w)
  BY DEF WriteStep, ReviewWrite, ShowConfirm, DoWrite, WriteRequest, WriteDone, Untouched
<1>4. CASE Deliver
  <2>1. ASSUME NEW p \in AllProfiles, NEW t \in BOOLEAN, AskPassword(p, t) PROVE Untouched'
    BY <2>1, TakeFacts DEF AskPassword, Untouched
  <2>2. CASE CancelPrompt
    BY <2>2, TakeFacts DEF CancelPrompt, Untouched
  <2>3. CASE OpenMessage
    <3>1. write' = write
      BY <2>3, CoveredUnused DEF OpenMessage, Untouched
    <3> QED
      BY <2>3, <3>1, TakeFacts, WritesAssumption DEF OpenMessage, Untouched
  <2>4. ~Disconnect /\ ~Back /\ ~OpenRootDSE /\ ~FormCancel /\ ~OpenSchema /\ ~NeedSchema
    BY <1>1 DEF Disconnect, Back, OpenRootDSE, FormCancel, OpenSchema, NeedSchema
  <2>5. ~OpenGuarded("goto", "browser") /\ ~OpenGuarded("openSearch", "search")
    BY <1>1 DEF OpenGuarded
  <2>6. ~OpenForm("addEntry") /\ ~OpenForm("modDN") /\ \A c \in Clients : ~FollowReferral(c)
    BY <1>1 DEF OpenForm, FollowReferral
  <2>7. CASE EndProgram
    BY <2>7 DEF EndProgram, Untouched, Pending
  <2> QED
    BY <1>4, <2>1, <2>2, <2>3, <2>4, <2>5, <2>6, <2>7 DEF Deliver
<1>5. CASE User
  <2>1. CASE UserPosts
    <3>1. ASSUME NEW m PROVE ~Command(m)
      BY DEF Command, ConnCommand, Early
    <3>2. ASSUME NEW sc, NEW m, Press(sc, m), sc \cap {"connections", "password"} = {} PROVE FALSE
      BY <3>2 DEF Press, OnScreen, Untouched
    <3>3. ASSUME NEW sc, NEW m \in Unconnected, Press(sc, m) PROVE Untouched'
      BY <3>3, PostFacts DEF Press, Untouched
    <3>4. ASSUME NEW p \in Profiles, NEW t \in BOOLEAN, ChooseProfile(p, t) PROVE Untouched'
      BY <3>4, <3>3 DEF ChooseProfile, Unconnected, Msgs, AllProfiles
    <3>5. Press({"password"}, Msg("cancelPrompt")) => Untouched'
      BY <3>3 DEF Unconnected, Msgs, Msg
    <3> QED
      BY <2>1, <3>1, <3>2, <3>4, <3>5 DEF UserPosts, Reconnect
  <2>2. ~ReadWithoutClient /\ ~ReadOnlyOn /\ ~ReadOnlyOff
    BY DEF ReadWithoutClient, ReadOnlyOn, ReadOnlyOff, OnScreen, ConnCommand, Untouched, Early
  <2>3. CASE CloseMessage
    BY <2>3, NoneAssumption DEF CloseMessage, Untouched, Pending
  <2>4. CASE Quit
    BY <2>4 DEF Quit, Untouched, Pending
  <2>5. ASSUME NEW c \in Clients, SubmitPassword(c) PROVE Untouched'
    BY <2>5 DEF SubmitPassword, Untouched, Pending
  <2>6. ASSUME NEW w \in Writes
        PROVE  /\ \A k \in {"modify", "delete", "import"}, n \in 1 .. MaxRecords : ~AskWrite(w, k, n)
               /\ ~SubmitForm(w) /\ ~Confirm(w) /\ ~Refuse(w)
    BY DEF AskWrite, SubmitForm, Confirm, Refuse, OnScreen, ConnCommand, Untouched, Early
  <2> QED
    BY <1>5, <2>1, <2>2, <2>3, <2>4, <2>5, <2>6 DEF User
<1>6. CASE UNCHANGED vars
  BY <1>6 DEF vars, Untouched, Pending
<1> QED
  BY <1>2, <1>3, <1>4, <1>5, <1>6 DEF Next

\* The steps that may end the program on a nil client.
LEMMA CrashSteps ==
    ASSUME [Next]_vars, running' = "crashed", running # "crashed"
    PROVE  \/ client = None /\ Take(Msg("openRootDSE"))
           \/ ReadWithoutClient
           \/ \E w \in Writes : /\ Up
                              /\ \/ write[w].phase = "running" /\ write[w].to = None
                                 \/ write[w].phase = "replied" /\ client = None
<1> USE DEF session, schemas, ui, net
<1>1. CASE Deliver
  BY <1>1 DEF Deliver, EndProgram, AskPassword, CancelPrompt, Back, OpenRootDSE, FormCancel, OpenMessage,
              OpenGuarded, OpenSchema, NeedSchema, OpenForm, FollowReferral, Disconnect
<1>2. CASE \E w \in Writes : WriteStep(w)
  BY <1>2 DEF WriteStep, ReviewWrite, ShowConfirm, DoWrite, WriteRequest, WriteDone
<1>3. ASSUME NEW c \in Clients PROVE ~ConnStep(c)
  BY DEF ConnStep, DoConnect, Dial, Secure, Bind, ConnectFailed, TestDone, Connected,
         ReferralConnected, SchemaLoaded
<1>4. CASE User
  <2>1. ~UserPosts
    BY DEF UserPosts, ChooseProfile, Reconnect, Press, Command
  <2>2. ~CloseMessage /\ ~Quit /\ ~ReadOnlyOn /\ ~ReadOnlyOff
    BY DEF CloseMessage, Quit, ReadOnlyOn, ReadOnlyOff
  <2>3. ASSUME NEW c \in Clients PROVE ~SubmitPassword(c)
    BY DEF SubmitPassword
  <2>4. ASSUME NEW w \in Writes
        PROVE  /\ \A k \in {"modify", "delete", "import"}, n \in 1 .. MaxRecords : ~AskWrite(w, k, n)
               /\ ~SubmitForm(w) /\ ~Confirm(w) /\ ~Refuse(w)
    BY DEF AskWrite, SubmitForm, Confirm, Refuse
  <2> QED
    BY <1>4, <2>1, <2>2, <2>3, <2>4 DEF User
<1>5. ~UNCHANGED vars
  BY DEF vars
<1> QED
  BY <1>1, <1>2, <1>3, <1>4, <1>5 DEF Next

\* A goroutine that modifies the directory without a client, and the program
\* ending on one, come after a disconnect or a quit.
LEMMA NilKept ==
    ASSUME TypeOK, CrashInv, [Next]_vars
    PROVE  NilNeedsClose'
<1>1. ~left' => ~left
  BY LeftSteps DEF TypeOK, Disconnect, Quit
<1>2. ASSUME NEW w \in Writes, write'[w].phase = "running", write'[w].to = None
      PROVE  left
  <2>1. CASE write[w].phase = "running" /\ write[w].to = None
    BY <2>1 DEF CrashInv, NilNeedsClose
  <2>2. CASE Up /\ write[w].phase = "confirmed" /\ client = None
    BY <2>2 DEF CrashInv, Early, Untouched
  <2> QED
    BY <1>2, <2>1, <2>2, WritesKeepTheirTarget DEF Sending
<1>3. ASSUME running' = "crashed" PROVE left
  <2>1. CASE running = "crashed"
    BY <2>1 DEF CrashInv, NilNeedsClose
  <2>2. ASSUME client = None, Take(Msg("openRootDSE")) PROVE left
    <3>1. Msg("openRootDSE") \in Msgs
      BY DEF Msg, Msgs
    <3>2. ~(Early /\ Untouched)
      BY <2>2, <3>1, EarlyMessages
    <3> QED
      BY <2>2, <3>2 DEF CrashInv, Early, Take
  <2>3. CASE ReadWithoutClient
    BY <2>3 DEF ReadWithoutClient, OnScreen, CrashInv, Early, Untouched
  <2>4. ASSUME NEW w \in Writes, Up,
               \/ write[w].phase = "running" /\ write[w].to = None
               \/ write[w].phase = "replied" /\ client = None
        PROVE  left
    BY <2>4 DEF CrashInv, NilNeedsClose, Early, Untouched
  <2> QED
    BY <1>3, <2>1, <2>2, <2>3, <2>4, CrashSteps
<1> QED
  BY <1>1, <1>2, <1>3 DEF NilNeedsClose

\* The program only ends on a nil client after a disconnect or a quit.
THEOREM CrashesNeedClose == Spec => []CrashNeedsClose
<1>1. CrashInv => CrashNeedsClose
  BY DEF CrashInv, NilNeedsClose, CrashNeedsClose
<1>2. TypeOK /\ CrashInv /\ [Next]_vars => CrashInv'
  BY EarlyBefore, UntouchedKept, NilKept DEF CrashInv
<1> QED
  BY <1>1, <1>2, TypeInit, TypeStep, CrashInit, PTL DEF Spec

=============================================================================
