------------------------ MODULE ReserveServiceProofs ------------------------
(***************************************************************************)
(* Proofs about ReserveService, for any number of users, keys, replicas,   *)
(* requests and clearers: type correctness, and that a key is answered     *)
(* with one reservation by whichever path (KeyNamesOneReservation).        *)
(***************************************************************************)
EXTENDS ReserveService, TLAPS

-----------------------------------------------------------------------------
(* The invariant.                                                          *)

\* In table R, row r is the one of user u and key k.
Named(R, u, k, r) == r \in RowId /\ R[r].user = u /\ R[r].key = k

\* The unique index: at most one row per user and key, and none yet for an id
\* that was not generated.
IndexInv ==
    /\ \A r, s \in RowId :
          rows[r].key \in Key /\ rows[r].user = rows[s].user /\ rows[r].key = rows[s].key
          => r = s
    /\ \A r \in RowId : rows[r].status = "absent" => rows[r].key = NoKey

\* A call that is past its start has its arguments; once it has reserved it
\* has a row, and if it has a key, that key's row.
Sound(t, R) ==
    /\ t.pc # "idle" => t.user \in User /\ t.at \in Replica
    /\ t.pc \in {"cache", "db", "setCache"} => t.key \in Key
    /\ t.pc = "setCache" => t.outcome = "reserved"
    /\ t.outcome = "reserved" /\ t.key \in Key => Named(R, t.user, t.key, t.id)

RequestInv == \A c \in Request : Sound(request[c], rows)

\* The cache and the answers given name the rows of the index.
CacheInv == \A u \in User, k \in Key : cache[<<u, k>>] # NoRow => Named(rows, u, k, cache[<<u, k>>])
ToldInv == \A x \in told : Named(rows, x[1], x[2], x[3])

\* A call to UnblockEvent knows its replica.
ClearerInv == \A s \in Clearer : clearer[s].pc # "idle" => clearer[s].at \in Replica

Inv == TypeOK /\ IndexInv /\ RequestInv /\ CacheInv /\ ToldInv /\ ClearerInv

-----------------------------------------------------------------------------
(* Lemmas.                                                                 *)

LEMMA Constants ==
    /\ Capacity \in Nat /\ MaxReservePerUser \in Nat
    /\ LruBlockTTL \in Nat /\ LruBlockTTL > 0
    /\ EventBlockedTTL \in Nat /\ EventBlockedTTL > 0
    /\ NoRow \notin RowId /\ NoKey \notin Key
  BY CapacityAssumption, TTLAssumption, RowAssumption

\* The fields of IdleRequest.
LEMMA IdleIsSound ==
    /\ IdleRequest \in RequestState
    /\ \A R : Sound(IdleRequest, R)
  BY DEF IdleRequest, RequestState, Outcome, Sound

\* A table that keeps user and key of every row with a key keeps what is named.
Keeps(R, S) ==
    \A r \in RowId : R[r].key \in Key => S[r].user = R[r].user /\ S[r].key = R[r].key

LEMMA NamedStays ==
    ASSUME NEW R, NEW S, Keeps(R, S), NEW u, NEW k \in Key, NEW r, Named(R, u, k, r)
    PROVE  Named(S, u, k, r)
  BY DEF Keeps, Named

LEMMA SoundStays ==
    ASSUME NEW R, NEW S, Keeps(R, S), NEW t, Sound(t, R)
    PROVE  Sound(t, S)
  BY NamedStays DEF Sound

\* A step that changes neither rows nor cache, and sets one request.
LEMMA RequestStep ==
    ASSUME Inv, NEW c \in Request, NEW t \in RequestState,
           Goes(c, t), Sound(t, rows),
           UNCHANGED <<rows, cache, clearer, told>>,
           lru' \in [Replica -> 0 .. LruBlockTTL],
           blocked' \in 0 .. EventBlockedTTL
    PROVE  Inv'
<1>1. request' \in [Request -> RequestState]
  BY DEF Inv, TypeOK, Goes
<1>2. TypeOK'
  BY <1>1 DEF Inv, TypeOK
<1>3. RequestInv'
  BY DEF Inv, TypeOK, RequestInv, Goes
<1> QED
  BY <1>2, <1>3 DEF Inv, IndexInv, CacheInv, ToldInv, ClearerInv

\* The same when a reservation is told: it is the one the key names.
LEMMA AnswerStep ==
    ASSUME Inv, NEW c \in Request, NEW u \in User, NEW k \in Key, NEW r \in RowId,
           Goes(c, IdleRequest), Named(rows, u, k, r),
           told' = told \cup {<<u, k, r>>},
           UNCHANGED <<rows, lru, blocked, cache, clearer>>
    PROVE  Inv'
<1>1. request' \in [Request -> RequestState]
  BY IdleIsSound DEF Inv, TypeOK, Goes
<1>2. TypeOK'
  BY <1>1 DEF Inv, TypeOK
<1>3. RequestInv'
  BY IdleIsSound DEF Inv, TypeOK, RequestInv, Goes
<1>4. ToldInv'
  BY DEF Inv, ToldInv
<1> QED
  BY <1>2, <1>3, <1>4 DEF Inv, IndexInv, CacheInv, ClearerInv

\* A step that sets no request, keeps the names and obeys the index.
LEMMA TableStep ==
    ASSUME Inv, TypeOK', Keeps(rows, rows'), IndexInv', ClearerInv',
           UNCHANGED <<request, told>>,
           \A u \in User, k \in Key : cache'[<<u, k>>] # NoRow => cache'[<<u, k>>] = cache[<<u, k>>]
    PROVE  Inv'
<1>1. RequestInv'
  BY SoundStays DEF Inv, RequestInv
<1>2. CacheInv'
  BY NamedStays DEF Inv, CacheInv
<1>3. ToldInv'
  BY NamedStays DEF Inv, TypeOK, ToldInv
<1> QED
  BY <1>1, <1>2, <1>3 DEF Inv

-----------------------------------------------------------------------------
(* The steps of a request.                                                 *)

LEMMA StartKeeps ==
    ASSUME Inv, NEW c \in Request, NEW u \in User, NEW k \in Key \cup {NoKey},
           NEW n \in Replica, Start(c, u, k, n)
    PROVE  Inv'
<1> DEFINE b == \E r \in RowId : <<u, k, r>> \in told
           t == [IdleRequest EXCEPT !.user = u, !.key = k, !.at = n, !.replay = b]
           t1 == [t EXCEPT !.pc = "slot", !.outcome = "insufficient"]
           t2 == [t EXCEPT !.pc = "redis"]
<1>0. b \in BOOLEAN
  OBVIOUS
<1> HIDE DEF b
<1>1. t1 \in RequestState /\ t2 \in RequestState
  BY <1>0 DEF IdleRequest, RequestState, Outcome
<1>2. Sound(t1, rows) /\ Sound(t2, rows)
  BY DEF IdleRequest, Sound
<1>3. Goes(c, t1) \/ Goes(c, t2)
  BY DEF Start, b
<1>4. UNCHANGED <<rows, lru, blocked, cache, clearer, told>>
  BY DEF Start
<1>5. lru' \in [Replica -> 0 .. LruBlockTTL] /\ blocked' \in 0 .. EventBlockedTTL
  BY <1>4 DEF Inv, TypeOK
<1> HIDE DEF t1, t2
<1> QED
  BY <1>1, <1>2, <1>3, <1>4, <1>5, RequestStep

\* A request that only moves on to pc, with its arguments.
LEMMA MovedOn ==
    ASSUME Inv, NEW c \in Request, request[c].pc # "idle",
           NEW pc \in {"redis", "copy", "cache", "db", "check", "tx", "block",
                       "blockRedis", "slot"},
           pc \in {"cache", "db"} => request[c].key \in Key
    PROVE  /\ [request[c] EXCEPT !.pc = pc] \in RequestState
           /\ Sound([request[c] EXCEPT !.pc = pc], rows)
<1>1. request[c] \in RequestState /\ Sound(request[c], rows)
  BY DEF Inv, TypeOK, RequestInv
<1> QED
  BY <1>1 DEF RequestState, Sound

LEMMA CheckRedisKeeps ==
    ASSUME Inv, NEW c \in Request, CheckRedis(c)
    PROVE  Inv'
<1>1. request[c] \in RequestState /\ request[c].pc = "redis"
  BY DEF Inv, TypeOK, CheckRedis, At
<1>2. request[c].key = NoKey \/ request[c].key \in Key
  BY <1>1 DEF RequestState
<1>3. UNCHANGED <<rows, lru, blocked, cache, clearer, told>>
  BY DEF CheckRedis
<1>4. lru' \in [Replica -> 0 .. LruBlockTTL] /\ blocked' \in 0 .. EventBlockedTTL
  BY <1>3 DEF Inv, TypeOK
<1>5. \E pc \in {"copy", "check", "cache"} :
         /\ Goes(c, [request[c] EXCEPT !.pc = pc])
         /\ pc = "cache" => request[c].key \in Key
  BY <1>2 DEF CheckRedis, Unblocked
<1> QED
  BY <1>1, <1>3, <1>4, <1>5, MovedOn, RequestStep

LEMMA CopyToLruKeeps ==
    ASSUME Inv, NEW c \in Request, CopyToLru(c)
    PROVE  Inv'
<1> DEFINE t == [request[c] EXCEPT !.pc = "slot", !.outcome = "insufficient"]
<1>1. /\ request[c] \in RequestState /\ Sound(request[c], rows)
      /\ request[c].pc = "copy"
  BY DEF Inv, TypeOK, RequestInv, CopyToLru, At
<1>2. t \in RequestState /\ Sound(t, rows)
  BY <1>1 DEF RequestState, Sound, Outcome
<1>3. LruBlockTTL \in 0 .. LruBlockTTL
  BY Constants
<1>4. lru' \in [Replica -> 0 .. LruBlockTTL] /\ blocked' \in 0 .. EventBlockedTTL
  BY <1>3 DEF CopyToLru, Inv, TypeOK
<1> HIDE DEF t
<1>5. Goes(c, t) /\ UNCHANGED <<rows, cache, clearer, told>>
  BY DEF CopyToLru, t
<1> QED
  BY <1>2, <1>4, <1>5, RequestStep

LEMMA LookupCacheKeeps ==
    ASSUME Inv, NEW c \in Request, LookupCache(c)
    PROVE  Inv'
<1> DEFINE u == request[c].user
           k == request[c].key
<1>1. request[c].pc = "cache" /\ u \in User /\ k \in Key
  BY DEF LookupCache, At, Inv, RequestInv, Sound
<1>2. UNCHANGED <<rows, lru, blocked, cache, clearer>>
  BY DEF LookupCache
<1>3. CASE cache[<<u, k>>] # NoRow /\ Found(c, cache[<<u, k>>])
  <2>1. Named(rows, u, k, cache[<<u, k>>])
    BY <1>1, <1>3 DEF Inv, CacheInv
  <2>2. cache[<<u, k>>] \in RowId
    BY <2>1 DEF Named
  <2> QED
    BY <1>1, <1>2, <1>3, <2>1, <2>2, AnswerStep DEF Found
<1>4. CASE Goes(c, [request[c] EXCEPT !.pc = "db"]) /\ UNCHANGED told
  <2>1. lru' \in [Replica -> 0 .. LruBlockTTL] /\ blocked' \in 0 .. EventBlockedTTL
    BY <1>2 DEF Inv, TypeOK
  <2> QED
    BY <1>1, <1>2, <1>4, <2>1, MovedOn, RequestStep
<1> QED
  BY <1>3, <1>4 DEF LookupCache, Cached

LEMMA LookupDbKeeps ==
    ASSUME Inv, NEW c \in Request, LookupDb(c)
    PROVE  Inv'
<1> DEFINE u == request[c].user
           k == request[c].key
<1>1. request[c].pc = "db" /\ u \in User /\ k \in Key
  BY DEF LookupDb, At, Inv, RequestInv, Sound
<1>2. UNCHANGED <<rows, lru, blocked, cache, clearer>>
  BY DEF LookupDb
<1>3. ASSUME NEW r \in Keyed(u, k), Found(c, r)
      PROVE  Inv'
  <2>1. Named(rows, u, k, r) /\ r \in RowId
    BY <1>3 DEF Keyed, Named
  <2> QED
    BY <1>1, <1>2, <1>3, <2>1, AnswerStep DEF Found
<1>4. CASE Goes(c, [request[c] EXCEPT !.pc = "check"]) /\ UNCHANGED told
  <2>1. lru' \in [Replica -> 0 .. LruBlockTTL] /\ blocked' \in 0 .. EventBlockedTTL
    BY <1>2 DEF Inv, TypeOK
  <2> QED
    BY <1>1, <1>2, <1>4, <2>1, MovedOn, RequestStep
<1> QED
  BY <1>3, <1>4 DEF LookupDb

\* A request that ends without an answer.
LEMMA EndKeeps ==
    ASSUME Inv, NEW c \in Request, Goes(c, IdleRequest),
           UNCHANGED <<rows, lru, blocked, cache, clearer, told>>
    PROVE  Inv'
<1>1. lru' \in [Replica -> 0 .. LruBlockTTL] /\ blocked' \in 0 .. EventBlockedTTL
  BY DEF Inv, TypeOK
<1> QED
  BY <1>1, IdleIsSound, RequestStep

LEMMA CheckSlotKeeps ==
    ASSUME Inv, NEW c \in Request, CheckSlot(c)
    PROVE  Inv'
<1>1. CASE Goes(c, IdleRequest)
  BY <1>1, EndKeeps DEF CheckSlot
<1>2. CASE Goes(c, [request[c] EXCEPT !.pc = "tx"])
  <2>1. lru' \in [Replica -> 0 .. LruBlockTTL] /\ blocked' \in 0 .. EventBlockedTTL
    BY DEF CheckSlot, Inv, TypeOK
  <2> QED
    BY <1>2, <2>1, MovedOn, RequestStep DEF CheckSlot, At
<1> QED
  BY <1>1, <1>2 DEF CheckSlot

\* Where After leads with the result of the transaction.
LEMMA AfterIsSound ==
    ASSUME NEW t \in RequestState, NEW R, Sound(t, R), t.pc # "idle"
    PROVE  After(t) \in RequestState /\ Sound(After(t), R)
<1>1. CASE t.outcome = "reserved" /\ t.key # NoKey
  BY <1>1 DEF After, RequestState, Sound
<1>2. CASE t.outcome = "internal"
  BY <1>2, IdleIsSound DEF After
<1>3. CASE ~(t.outcome = "reserved" /\ t.key # NoKey) /\ t.outcome # "internal"
  BY <1>3 DEF After, RequestState, Sound
<1> QED
  BY <1>1, <1>2, <1>3

LEMMA DecidedIsSound ==
    ASSUME Inv, NEW c \in Request, request[c].pc = "tx",
           NEW id \in RowId \cup {NoRow}, NEW out \in Outcome, NEW capped, NEW R,
           out = "reserved" /\ request[c].key \in Key
           => Named(R, request[c].user, request[c].key, id),
           Decided(c, id, out, capped)
    PROVE  \E t \in RequestState : Goes(c, t) /\ Sound(t, R)
<1> DEFINE t == [request[c] EXCEPT !.id = id, !.outcome = out]
           b == [t EXCEPT !.pc = "block"]
<1>1. request[c] \in RequestState /\ Sound(request[c], rows)
  BY DEF Inv, TypeOK, RequestInv
<1>2. t \in RequestState /\ Sound(t, R) /\ t.pc # "idle"
  BY <1>1 DEF RequestState, Sound
<1>3. b \in RequestState /\ Sound(b, R)
  BY <1>1 DEF RequestState, Sound
<1>4. Goes(c, b) \/ Goes(c, After(t))
  BY DEF Decided
<1> HIDE DEF t, b
<1> QED
  BY <1>2, <1>3, <1>4, AfterIsSound

\* The INSERT of a fresh row, for a key that has none yet.
LEMMA InsertKeeps ==
    ASSUME Inv, NEW c \in Request, NEW r \in RowId, rows[r].status = "absent",
           NEW u \in User, NEW k \in Key \cup {NoKey}, Keyed(u, k) = {},
           rows' = [rows EXCEPT ![r] = [user |-> u, key |-> k, status |-> "held"]],
           NEW t \in RequestState, Goes(c, t), Sound(t, rows'),
           UNCHANGED <<lru, blocked, cache, clearer, told>>
    PROVE  Inv'
<1>1. [user |-> u, key |-> k, status |-> "held"] \in Row
  BY DEF Row
<1>2. TypeOK'
  BY <1>1 DEF Inv, TypeOK, Goes
<1>3. /\ rows'[r].user = u /\ rows'[r].key = k /\ rows'[r].status = "held"
      /\ \A q \in RowId : q # r => rows'[q] = rows[q]
  BY DEF Inv, TypeOK
<1>4. Keeps(rows, rows')
  BY <1>3, Constants DEF Keeps, Inv, IndexInv
<1>5. \A q \in RowId : k \in Key => ~(rows[q].user = u /\ rows[q].key = k)
  BY Constants DEF Keyed
<1>6. IndexInv'
  BY <1>3, <1>5 DEF Inv, IndexInv
<1>7. RequestInv'
  <2>1. \A d \in Request : request'[d] = IF d = c THEN t ELSE request[d]
    BY DEF Goes, Inv, TypeOK
  <2> QED
    BY <2>1, <1>4, SoundStays DEF Inv, RequestInv
<1>8. CacheInv'
  BY <1>4, NamedStays DEF Inv, CacheInv
<1>9. ToldInv'
  BY <1>4, NamedStays DEF Inv, TypeOK, ToldInv
<1> QED
  BY <1>2, <1>6, <1>7, <1>8, <1>9 DEF Inv, ClearerInv

LEMMA ReserveTxKeeps ==
    ASSUME Inv, NEW c \in Request, ReserveTx(c)
    PROVE  Inv'
<1> DEFINE u == request[c].user
           k == request[c].key
<1>1. request[c].pc = "tx"
  BY DEF ReserveTx, At
<1>2. u \in User /\ k \in Key \cup {NoKey}
  BY <1>1 DEF Inv, TypeOK, RequestState, RequestInv, Sound
<1>3. UNCHANGED <<lru, blocked, cache, clearer, told>>
  BY DEF ReserveTx
<1>4. lru' \in [Replica -> 0 .. LruBlockTTL] /\ blocked' \in 0 .. EventBlockedTTL
  BY <1>3 DEF Inv, TypeOK
<1>5. ASSUME NEW out \in {"exceed", "insufficient"}, NEW capped,
             Decided(c, NoRow, out, capped), UNCHANGED rows
      PROVE  Inv'
  <2>1. out \in Outcome /\ out # "reserved"
    BY DEF Outcome
  <2>2. \E t \in RequestState : Goes(c, t) /\ Sound(t, rows)
    BY <1>1, <1>5, <2>1, DecidedIsSound
  <2> QED
    BY <2>2, <1>3, <1>4, <1>5, RequestStep
<1>6. ASSUME NEW r \in Keyed(u, k), NEW capped,
             Decided(c, r, "reserved", capped), UNCHANGED rows
      PROVE  Inv'
  <2>1. r \in RowId /\ Named(rows, u, k, r)
    BY <1>6 DEF Keyed, Named
  <2>2. "reserved" \in Outcome
    BY DEF Outcome
  <2>3. \E t \in RequestState : Goes(c, t) /\ Sound(t, rows)
    BY <1>1, <1>6, <2>1, <2>2, DecidedIsSound
  <2> QED
    BY <2>3, <1>3, <1>4, <1>6, RequestStep
<1>7. ASSUME NEW r \in RowId, NEW capped, rows[r].status = "absent", Keyed(u, k) = {},
             rows' = [rows EXCEPT ![r] = [user |-> u, key |-> k, status |-> "held"]],
             \/ Decided(c, r, "reserved", capped)
             \/ Decided(c, NoRow, "internal", capped)
      PROVE  Inv'
  <2>1. Named(rows', u, k, r)
    BY <1>7 DEF Named, Inv, TypeOK
  <2>2. "reserved" \in Outcome /\ "internal" \in Outcome
    BY DEF Outcome
  <2>3. \E t \in RequestState : Goes(c, t) /\ Sound(t, rows')
    BY <1>1, <1>7, <2>1, <2>2, DecidedIsSound
  <2> QED
    BY <2>3, <1>2, <1>3, <1>7, InsertKeeps
<1>8. \/ /\ \E capped : \/ Decided(c, NoRow, "exceed", capped)
                        \/ Decided(c, NoRow, "insufficient", capped)
         /\ UNCHANGED rows
      \/ /\ \E r \in Keyed(u, k) : \E capped : Decided(c, r, "reserved", capped)
         /\ UNCHANGED rows
      \/ \E r \in RowId : \E capped :
            /\ rows[r].status = "absent" /\ Keyed(u, k) = {}
            /\ rows' = [rows EXCEPT ![r] = [user |-> u, key |-> k, status |-> "held"]]
            /\ \/ Decided(c, r, "reserved", capped)
               \/ Decided(c, NoRow, "internal", capped)
  BY DEF ReserveTx
<1> QED
  BY <1>5, <1>6, <1>7, <1>8

LEMMA BlockKeeps ==
    ASSUME Inv, NEW c \in Request, BlockLru(c) \/ BlockRedis(c)
    PROVE  Inv'
<1>0. LruBlockTTL \in 0 .. LruBlockTTL /\ EventBlockedTTL \in 0 .. EventBlockedTTL
  BY Constants
<1>1. lru' \in [Replica -> 0 .. LruBlockTTL] /\ blocked' \in 0 .. EventBlockedTTL
  BY <1>0 DEF BlockLru, BlockRedis, Inv, TypeOK
<1>2. request[c].pc \in {"block", "blockRedis"}
  BY DEF BlockLru, BlockRedis, At
<1>3. CASE BlockLru(c)
  BY <1>1, <1>2, <1>3, MovedOn, RequestStep DEF BlockLru
<1>4. CASE BlockRedis(c)
  <2>1. request[c] \in RequestState /\ Sound(request[c], rows)
    BY DEF Inv, TypeOK, RequestInv
  <2>2. After(request[c]) \in RequestState /\ Sound(After(request[c]), rows)
    BY <1>2, <2>1, AfterIsSound
  <2> QED
    BY <1>1, <1>4, <2>2, RequestStep DEF BlockRedis
<1> QED
  BY <1>3, <1>4

LEMMA SetCacheKeeps ==
    ASSUME Inv, NEW c \in Request, SetCache(c)
    PROVE  Inv'
<1> DEFINE u == request[c].user
           k == request[c].key
           id == request[c].id
<1>1. request[c].pc = "setCache" /\ u \in User /\ k \in Key /\ Named(rows, u, k, id)
  BY DEF SetCache, At, Inv, RequestInv, Sound
<1>2. id \in RowId
  BY <1>1 DEF Named
<1>3. /\ [request[c] EXCEPT !.pc = "slot"] \in RequestState
      /\ Sound([request[c] EXCEPT !.pc = "slot"], rows)
  BY <1>1, MovedOn
<1>4. /\ cache' = cache \/ cache' = [cache EXCEPT ![<<u, k>>] = id]
      /\ Goes(c, [request[c] EXCEPT !.pc = "slot"])
      /\ UNCHANGED <<rows, lru, blocked, clearer, told>>
  BY DEF SetCache
<1> HIDE DEF u, k, id
<1>5. cache' \in [User \X Key -> RowId \cup {NoRow}]
  BY <1>1, <1>2, <1>4 DEF Inv, TypeOK
<1>6. \A v \in User, l \in Key :
          \/ cache'[<<v, l>>] = cache[<<v, l>>]
          \/ v = u /\ l = k /\ cache'[<<v, l>>] = id
  BY <1>4 DEF Inv, TypeOK
<1>7. TypeOK'
  BY <1>3, <1>4, <1>5 DEF Inv, TypeOK, Goes
<1>8. CacheInv'
  BY <1>1, <1>4, <1>6 DEF Inv, CacheInv
<1>9. RequestInv'
  BY <1>3, <1>4 DEF Inv, TypeOK, RequestInv, Goes
<1> QED
  BY <1>4, <1>7, <1>8, <1>9 DEF Inv, IndexInv, ToldInv, ClearerInv

LEMMA ReleaseQueueSlotKeeps ==
    ASSUME Inv, NEW c \in Request, ReleaseQueueSlot(c)
    PROVE  Inv'
<1>1. /\ request[c].pc = "slot"
      /\ Goes(c, IdleRequest)
      /\ UNCHANGED <<rows, lru, blocked, cache, clearer>>
  BY DEF ReleaseQueueSlot, At
<1>2. CASE request[c].outcome = "reserved" /\ request[c].key # NoKey
  <2>1. /\ request[c].user \in User
        /\ request[c].key \in Key
        /\ Named(rows, request[c].user, request[c].key, request[c].id)
    BY <1>1, <1>2 DEF Inv, TypeOK, RequestState, RequestInv, Sound
  <2>2. request[c].id \in RowId
    BY <2>1 DEF Named
  <2>3. told' = told \cup {<<request[c].user, request[c].key, request[c].id>>}
    BY <1>2 DEF ReleaseQueueSlot
  <2> QED
    BY <1>1, <2>1, <2>2, <2>3, AnswerStep
<1>3. CASE ~(request[c].outcome = "reserved" /\ request[c].key # NoKey)
  BY <1>1, <1>3, EndKeeps DEF ReleaseQueueSlot
<1> QED
  BY <1>2, <1>3

-----------------------------------------------------------------------------
(* Clearers and the environment.                                           *)

\* A step that leaves rows, requests and answers alone.
LEMMA QuietStep ==
    ASSUME Inv, TypeOK', ClearerInv', UNCHANGED <<rows, request, told>>,
           \A u \in User, k \in Key : cache'[<<u, k>>] # NoRow => cache'[<<u, k>>] = cache[<<u, k>>]
    PROVE  Inv'
<1>1. Keeps(rows, rows')
  BY DEF Keeps
<1>2. IndexInv'
  BY DEF Inv, IndexInv
<1> QED
  BY <1>1, <1>2, TableStep

\* A change of status of rows that exist.
LEMMA StatusStep ==
    ASSUME Inv, ClearerInv', NEW S \in SUBSET RowId, NEW st \in {"lapsed", "ended"},
           rows' = [r \in RowId |-> IF r \in S THEN [rows[r] EXCEPT !.status = st]
                                    ELSE rows[r]],
           clearer' \in [Clearer -> ClearerState],
           UNCHANGED <<lru, blocked, cache, request, told>>
    PROVE  Inv'
<1>1. \A r \in RowId : /\ rows[r] \in Row
                       /\ [rows[r] EXCEPT !.status = st] \in Row
                       /\ [rows[r] EXCEPT !.status = st].user = rows[r].user
                       /\ [rows[r] EXCEPT !.status = st].key = rows[r].key
                       /\ [rows[r] EXCEPT !.status = st].status = st
  BY DEF Inv, TypeOK, Row
<1>2. \A r \in RowId : /\ rows'[r] \in Row
                       /\ rows'[r].user = rows[r].user /\ rows'[r].key = rows[r].key
                       /\ rows'[r].status = "absent" => rows[r].status = "absent"
  BY <1>1
<1>3. rows' \in [RowId -> Row]
  BY <1>1
<1>4. TypeOK'
  BY <1>3 DEF Inv, TypeOK
<1>5. Keeps(rows, rows')
  BY <1>2 DEF Keeps
<1>6. IndexInv'
  BY <1>2 DEF Inv, IndexInv
<1> QED
  BY <1>4, <1>5, <1>6, TableStep

LEMMA ClearedKeeps ==
    ASSUME Inv, NEW s \in Clearer, NEW n \in Replica, NEW R \in SUBSET RowId,
           Cleared(s, n, R)
    PROVE  Inv'
<1>1. [pc |-> "lru", at |-> n] \in ClearerState
  BY DEF ClearerState
<1>2. clearer' \in [Clearer -> ClearerState] /\ ClearerInv'
  BY <1>1 DEF Cleared, Inv, TypeOK, ClearerInv
<1> QED
  BY <1>2, StatusStep DEF Cleared

LEMMA ClearKeeps ==
    ASSUME Inv, NEW s \in Clearer, Clear(s) \/ ClearerDies(s)
    PROVE  Inv'
<1>1. clearer[s] \in ClearerState
  BY DEF Inv, TypeOK
<1>2. [clearer[s] EXCEPT !.pc = "redis"] \in ClearerState
      /\ [clearer[s] EXCEPT !.pc = "redis"].at = clearer[s].at
  BY <1>1 DEF ClearerState
<1>3. IdleClearer \in ClearerState /\ IdleClearer.pc = "idle"
  BY DEF IdleClearer, ClearerState
<1>4. 0 \in 0 .. LruBlockTTL /\ 0 \in 0 .. EventBlockedTTL
  BY Constants
<1>5. UNCHANGED <<rows, cache, request, told>>
  BY DEF Clear, UnblockLru, UnblockRedis, ClearerDies
<1>6. clearer' \in [Clearer -> ClearerState] /\ ClearerInv'
  <2>1. CASE UnblockLru(s)
    BY <2>1, <1>2 DEF UnblockLru, Inv, TypeOK, ClearerInv
  <2>2. CASE UnblockRedis(s) \/ ClearerDies(s)
    BY <2>2, <1>3 DEF UnblockRedis, ClearerDies, Inv, TypeOK, ClearerInv
  <2> QED
    BY <2>1, <2>2 DEF Clear
<1>7. lru' \in [Replica -> 0 .. LruBlockTTL] /\ blocked' \in 0 .. EventBlockedTTL
  BY <1>4 DEF Clear, UnblockLru, UnblockRedis, ClearerDies, Inv, TypeOK
<1>8. TypeOK'
  BY <1>5, <1>6, <1>7 DEF Inv, TypeOK
<1> QED
  BY <1>5, <1>6, <1>8, QuietStep

LEMMA LapseKeeps ==
    ASSUME Inv, NEW r \in RowId, Lapse(r)
    PROVE  Inv'
<1>1. rows' = [q \in RowId |-> IF q \in {r} THEN [rows[q] EXCEPT !.status = "lapsed"]
                               ELSE rows[q]]
  BY DEF Lapse, Inv, TypeOK
<1>2. clearer' \in [Clearer -> ClearerState] /\ ClearerInv'
  BY DEF Lapse, Inv, TypeOK, ClearerInv
<1> QED
  BY <1>1, <1>2, StatusStep DEF Lapse

LEMMA CacheExpiresKeeps ==
    ASSUME Inv, NEW u \in User, NEW k \in Key, CacheExpires(u, k)
    PROVE  Inv'
<1>1. /\ cache' = [cache EXCEPT ![<<u, k>>] = NoRow]
      /\ UNCHANGED <<rows, lru, blocked, request, clearer, told>>
  BY DEF CacheExpires
<1>2. TypeOK' /\ ClearerInv'
  BY <1>1 DEF Inv, TypeOK, ClearerInv
<1>3. \A v \in User, l \in Key : cache'[<<v, l>>] # NoRow => cache'[<<v, l>>] = cache[<<v, l>>]
  BY <1>1 DEF Inv, TypeOK
<1> QED
  BY <1>1, <1>2, <1>3, QuietStep

\* Flags run out, or are cleared.
LEMMA FlagsKeep ==
    ASSUME Inv, Tick \/ \E n \in Replica : ClearBlockedEvents(n)
    PROVE  Inv'
<1>1. UNCHANGED <<rows, cache, request, clearer, told>>
  BY DEF Tick, ClearBlockedEvents
<1>2. /\ \A t \in 0 .. LruBlockTTL : Less(t) \in 0 .. LruBlockTTL
      /\ \A t \in 0 .. EventBlockedTTL : Less(t) \in 0 .. EventBlockedTTL
      /\ 0 \in 0 .. LruBlockTTL
  BY Constants DEF Less
<1>3. lru' \in [Replica -> 0 .. LruBlockTTL] /\ blocked' \in 0 .. EventBlockedTTL
  BY <1>2 DEF Tick, ClearBlockedEvents, Inv, TypeOK
<1>4. TypeOK' /\ ClearerInv'
  BY <1>1, <1>3 DEF Inv, TypeOK, ClearerInv
<1> QED
  BY <1>1, <1>4, QuietStep

-----------------------------------------------------------------------------
(* The theorems.                                                           *)

LEMMA InvInit == Init => Inv
<1> SUFFICES ASSUME Init PROVE Inv
  OBVIOUS
<1>1. 0 \in 0 .. LruBlockTTL /\ 0 \in 0 .. EventBlockedTTL
  BY Constants
<1>2. AbsentRow \in Row /\ AbsentRow.key = NoKey
  BY DEF AbsentRow, Row
<1>3. IdleClearer \in ClearerState /\ IdleClearer.pc = "idle"
  BY DEF IdleClearer, ClearerState
<1>4. TypeOK
  BY <1>1, <1>2, <1>3, IdleIsSound DEF Init, TypeOK
<1>5. IndexInv
  BY <1>2, Constants DEF Init, IndexInv
<1>6. RequestInv /\ CacheInv /\ ToldInv /\ ClearerInv
  BY <1>3, IdleIsSound DEF Init, RequestInv, CacheInv, ToldInv, ClearerInv
<1> QED
  BY <1>4, <1>5, <1>6 DEF Inv

LEMMA InvNext == Inv /\ [Next]_vars => Inv'
<1> SUFFICES ASSUME Inv, [Next]_vars PROVE Inv'
  OBVIOUS
<1>1. ASSUME NEW c \in Request, Steps(c) \/ Abandon(c)
      PROVE  Inv'
  BY <1>1, CheckRedisKeeps, CopyToLruKeeps, LookupCacheKeeps, LookupDbKeeps,
     CheckSlotKeeps, ReserveTxKeeps, BlockKeeps, SetCacheKeeps,
     ReleaseQueueSlotKeeps, EndKeeps DEF Steps, Abandon
<1>2. ASSUME NEW s \in Clearer, NEW n \in Replica,
             Sweep(s, n) \/ \E r \in RowId : ReleaseReservation(s, n, r)
      PROVE  Inv'
  BY <1>2, ClearedKeeps DEF Sweep, ReleaseReservation
<1>3. CASE UNCHANGED vars
  <2>1. TypeOK' /\ ClearerInv'
    BY <1>3 DEF vars, Inv, TypeOK, ClearerInv
  <2> QED
    BY <1>3, <2>1, QuietStep DEF vars
<1> QED
  BY <1>1, <1>2, <1>3, StartKeeps, ClearKeeps, LapseKeeps, CacheExpiresKeeps, FlagsKeep
     DEF Next

LEMMA InvAlways == Spec => []Inv
  BY InvInit, InvNext, PTL DEF Spec

\* Every reachable state is well typed: only reservations of the table are cached
\* and told, on every path, never the answer of a miss.
THEOREM TypeCorrect == Spec => []TypeOK
<1>1. Inv => TypeOK
  BY DEF Inv
<1> QED
  BY <1>1, InvAlways, PTL

\* Cache, lookup and unique index answer a key with one and the same
\* reservation, for any number of users, keys, concurrent requests and
\* replicas, whichever cache writes are lost and whenever rows end.
THEOREM KeysAreIdempotent == Spec => []KeyNamesOneReservation
<1>1. Inv => KeyNamesOneReservation
  <2> SUFFICES ASSUME Inv, NEW x \in told, NEW y \in told
               PROVE  (x[1] = y[1] /\ x[2] = y[2]) <=> x[3] = y[3]
    BY DEF KeyNamesOneReservation
  <2>1. x[2] \in Key /\ x[3] \in RowId /\ y[3] \in RowId
    BY DEF Inv, TypeOK
  <2>2. /\ rows[x[3]].user = x[1] /\ rows[x[3]].key = x[2]
        /\ rows[y[3]].user = y[1] /\ rows[y[3]].key = y[2]
    BY DEF Inv, ToldInv, Named
  <2> QED
    BY <2>1, <2>2 DEF Inv, IndexInv
<1> QED
  BY <1>1, InvAlways, PTL
=============================================================================
