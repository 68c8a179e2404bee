--------------------------- MODULE ReserveService ---------------------------
(***************************************************************************)
(* The reserve endpoint of one event on several replicas: the sold-out     *)
(* flag in each replica's LRU and in Redis, the idempotency cache and the  *)
(* reservation rows, as ReservationService and ReservationRepository use   *)
(* them one command after the other, against the releases and the expiry   *)
(* sweep that clear the flag.                                              *)
(*                                                                         *)
(* The transactions are single steps here, Reservations models how they    *)
(* interleave; admission slots are VirtualQueue's, so the slot check may   *)
(* go either way.  Every request is for one seat.  Times to live count     *)
(* down.                                                                   *)
(***************************************************************************)
EXTENDS Integers, FiniteSets

CONSTANTS
    User, Key, NoKey,
    RowId,          \* ids the reservations table can generate (a bound)
    NoRow,          \* no reservation
    Replica,        \* back-end processes, each with its LRU
    Request,        \* concurrent ReserveEvent calls
    Clearer,        \* concurrent ReleaseReservation and RefreshEventStatus calls
    Capacity, MaxReservePerUser,
    LruBlockTTL,    \* lruBlockTTL
    EventBlockedTTL \* eventBlockedTTL

ASSUME CapacityAssumption == Capacity \in Nat \ {0} /\ MaxReservePerUser \in Nat \ {0}
ASSUME TTLAssumption == LruBlockTTL \in Nat \ {0} /\ EventBlockedTTL \in Nat \ {0}
ASSUME RowAssumption == IsFiniteSet(RowId) /\ NoRow \notin RowId /\ NoKey \notin Key

VARIABLES
    rows,       \* the reservations table
    lru,        \* eventFullyBookedLRU of each replica: remaining time to live
    blocked,    \* the Redis flag :blocked: remaining time to live
    cache,      \* idempotency cache: the row cached for a user and key
    request,    \* the ReserveEvent calls
    clearer,    \* the calls that free seats and then clear the flag
    told        \* history: reservations returned for a user and key

vars == <<rows, lru, blocked, cache, request, clearer, told>>

-----------------------------------------------------------------------------
(* Types.                                                                  *)

\* "lapsed": held, but past expires_at and not swept yet.
Row == [user : User \cup {NoRow}, key : Key \cup {NoKey},
        status : {"absent", "held", "lapsed", "ended"}]
AbsentRow == [user |-> NoRow, key |-> NoKey, status |-> "absent"]

Outcome == {"none", "reserved", "insufficient", "exceed", "internal"}

RequestState ==
    [pc : {"idle", "redis", "copy", "cache", "db", "check", "tx", "block",
           "blockRedis", "setCache", "slot"},
     user : User \cup {NoRow}, key : Key \cup {NoKey}, at : Replica \cup {NoRow},
     id : RowId \cup {NoRow}, outcome : Outcome, replay : BOOLEAN]
IdleRequest == [pc |-> "idle", user |-> NoRow, key |-> NoKey, at |-> NoRow,
                id |-> NoRow, outcome |-> "none", replay |-> FALSE]

ClearerState == [pc : {"idle", "lru", "redis"}, at : Replica \cup {NoRow}]
IdleClearer == [pc |-> "idle", at |-> NoRow]

TypeOK ==
    /\ rows \in [RowId -> Row]
    /\ lru \in [Replica -> 0 .. LruBlockTTL]
    /\ blocked \in 0 .. EventBlockedTTL
    /\ cache \in [User \X Key -> RowId \cup {NoRow}]
    /\ request \in [Request -> RequestState]
    /\ clearer \in [Clearer -> ClearerState]
    /\ told \in SUBSET (User \X Key \X RowId)

-----------------------------------------------------------------------------
(* The reservations table.                                                 *)

Active == {r \in RowId : rows[r].status = "held"}
ActiveOf(u) == {r \in Active : rows[r].user = u}

\* The row of the unique index for user u and key k.
MutantNoUniqueIndex(u, k) == {}
Keyed(u, k) == {r \in RowId : k # NoKey /\ rows[r].user = u /\ rows[r].key = k}

\* isCapped of ReserveEvent when the active rows are A: what the SUM says
\* where the transaction failed, one seat more where it did not.
Capped(A, more) == Cardinality(A) + more >= Capacity

-----------------------------------------------------------------------------
(* ReservationService.ReserveEvent.                                        *)

Goes(c, t) == request' = [request EXCEPT ![c] = t]
At(c, pc) == request[c].pc = pc

\* The local half of IsBlockEvent.  A blocked event goes straight to
\* releaseQueueSlot and ErrInsufficientCapacity.
Start(c, u, k, n) ==
    LET t == [IdleRequest EXCEPT !.user = u, !.key = k, !.at = n,
                 !.replay = \E r \in RowId : <<u, k, r>> \in told]
    IN  /\ At(c, "idle")
        /\ Goes(c, IF lru[n] > 0
                   THEN [t EXCEPT !.pc = "slot", !.outcome = "insufficient"]
                   ELSE [t EXCEPT !.pc = "redis"])
        /\ UNCHANGED <<rows, lru, blocked, cache, clearer, told>>

\* The remote half: EXISTS, where an error counts as not blocked.
Unblocked(t) == IF t.key = NoKey THEN [t EXCEPT !.pc = "check"]
                ELSE [t EXCEPT !.pc = "cache"]
CheckRedis(c) ==
    /\ At(c, "redis")
    /\ \/ blocked > 0 /\ Goes(c, [request[c] EXCEPT !.pc = "copy"])
       \/ Goes(c, Unblocked(request[c]))
    /\ UNCHANGED <<rows, lru, blocked, cache, clearer, told>>

\* LRURepository.BlockEvent with what Redis said before.
CopyToLru(c) ==
    /\ At(c, "copy")
    /\ lru' = [lru EXCEPT ![request[c].at] = LruBlockTTL]
    /\ Goes(c, [request[c] EXCEPT !.pc = "slot", !.outcome = "insufficient"])
    /\ UNCHANGED <<rows, blocked, cache, clearer, told>>

\* The answer of a call that found its reservation by key.
Found(c, r) ==
    /\ Goes(c, IdleRequest)
    /\ told' = told \cup {<<request[c].user, request[c].key, r>>}

Cached(u, k) == cache[<<u, k>>]

\* Mutant: redis.Nil is taken for an answer, and no reservation is told.
MutantMissAnswers(c) ==
    LET t == request[c] IN
    /\ At(c, "cache")
    /\ \/ Found(c, Cached(t.user, t.key))
       \/ Goes(c, [t EXCEPT !.pc = "db"]) /\ UNCHANGED told
    /\ UNCHANGED <<rows, lru, blocked, cache, clearer>>
\* The idempotency cache; a miss or an error goes on to Postgres.  A replay is
\* answered as it is and keeps the slot.
LookupCache(c) ==
    LET t == request[c]
        r == Cached(t.user, t.key)
    IN  /\ At(c, "cache")
        /\ \/ r # NoRow /\ Found(c, r)
           \/ Goes(c, [t EXCEPT !.pc = "db"]) /\ UNCHANGED told
        /\ UNCHANGED <<rows, lru, blocked, cache, clearer>>

LookupDb(c) ==
    LET t == request[c] IN
    /\ At(c, "db")
    /\ \/ \E r \in Keyed(t.user, t.key) : Found(c, r)
       \/ /\ Keyed(t.user, t.key) = {}
          /\ Goes(c, [t EXCEPT !.pc = "check"])
          /\ UNCHANGED told
    /\ UNCHANGED <<rows, lru, blocked, cache, clearer>>

\* GetWhitelistedUserTTL, then GetEvent: without a slot, or the event, the
\* call ends here.
CheckSlot(c) ==
    /\ At(c, "check")
    /\ \/ Goes(c, [request[c] EXCEPT !.pc = "tx"])
       \/ Goes(c, IdleRequest)
    /\ UNCHANGED <<rows, lru, blocked, cache, clearer, told>>

\* Where a call goes with the result of the transaction: BlockEvent if capped,
\* then the cache (a keyed success) or the slot.
After(t) ==
    IF t.outcome = "reserved" /\ t.key # NoKey THEN [t EXCEPT !.pc = "setCache"]
    ELSE IF t.outcome = "internal" THEN IdleRequest
    ELSE [t EXCEPT !.pc = "slot"]
Decided(c, id, outcome, capped) ==
    LET t == [request[c] EXCEPT !.id = id, !.outcome = outcome]
    IN  Goes(c, IF capped THEN [t EXCEPT !.pc = "block"] ELSE After(t))

\* The transaction of PostgresReservationRepository.ReserveEvent: quota before
\* capacity before the unique index.  Its commit may go unacknowledged.
ReserveTx(c) ==
    LET t == request[c]
        quota == Cardinality(ActiveOf(t.user)) + 1 <= MaxReservePerUser
        fits  == Cardinality(Active) + 1 <= Capacity
        Insert(r) == rows' = [rows EXCEPT ![r] =
                        [user |-> t.user, key |-> t.key, status |-> "held"]]
    IN  /\ At(c, "tx")
        /\ \/ ~quota /\ Decided(c, NoRow, "exceed", Capped(Active, 0)) /\ UNCHANGED rows
           \/ /\ quota /\ ~fits
              /\ Decided(c, NoRow, "insufficient", Capped(Active, 0))
              /\ UNCHANGED rows
           \/ /\ quota /\ fits
              /\ \E r \in Keyed(t.user, t.key) :
                    Decided(c, r, "reserved", Capped(Active, 1))
              /\ UNCHANGED rows
           \/ /\ quota /\ fits
              /\ Keyed(t.user, t.key) = {}
              /\ \E r \in RowId :
                    /\ rows[r].status = "absent"
                    /\ Insert(r)
                    /\ \/ Decided(c, r, "reserved", Capped(Active, 1))
                       \/ Decided(c, NoRow, "internal", Capped(Active, 0))
        /\ UNCHANGED <<lru, blocked, cache, clearer, told>>

\* BlockEvent: the LRU, then Redis, whose error is only logged.
BlockLru(c) ==
    /\ At(c, "block")
    /\ lru' = [lru EXCEPT ![request[c].at] = LruBlockTTL]
    /\ Goes(c, [request[c] EXCEPT !.pc = "blockRedis"])
    /\ UNCHANGED <<rows, blocked, cache, clearer, told>>
BlockRedis(c) ==
    /\ At(c, "blockRedis")
    /\ blocked' \in {blocked, EventBlockedTTL}
    /\ Goes(c, After(request[c]))
    /\ UNCHANGED <<rows, lru, cache, clearer, told>>

\* SetReservationByIdempotencyKey, whose error is only logged.
SetCache(c) ==
    LET t == request[c] IN
    /\ At(c, "setCache")
    /\ cache' \in {cache, [cache EXCEPT ![<<t.user, t.key>>] = t.id]}
    /\ Goes(c, [t EXCEPT !.pc = "slot"])
    /\ UNCHANGED <<rows, lru, blocked, clearer, told>>

\* releaseQueueSlot (ReleaseSlot of VirtualQueue), then the call returns.
ReleaseQueueSlot(c) ==
    LET t == request[c] IN
    /\ At(c, "slot")
    /\ Goes(c, IdleRequest)
    /\ told' = IF t.outcome = "reserved" /\ t.key # NoKey
               THEN told \cup {<<t.user, t.key, t.id>>} ELSE told
    /\ UNCHANGED <<rows, lru, blocked, cache, clearer>>

\* An error of a step that returns it, the request timeout or a dead process.
Abandon(c) ==
    /\ ~At(c, "idle")
    /\ Goes(c, IdleRequest)
    /\ UNCHANGED <<rows, lru, blocked, cache, clearer, told>>

-----------------------------------------------------------------------------
(* What frees seats and clears the flag.                                   *)

\* ReleaseReservation, or RefreshEventStatus at this event: the UPDATE has
\* committed and UnblockEvent is to come.
Cleared(s, n, R) ==
    /\ clearer[s].pc = "idle"
    /\ R # {}
    /\ rows' = [r \in RowId |-> IF r \in R THEN [rows[r] EXCEPT !.status = "ended"]
                                ELSE rows[r]]
    /\ clearer' = [clearer EXCEPT ![s] = [pc |-> "lru", at |-> n]]
    /\ UNCHANGED <<lru, blocked, cache, request, told>>
ReleaseReservation(s, n, r) == r \in Active /\ Cleared(s, n, {r})
Sweep(s, n) == Cleared(s, n, {r \in RowId : rows[r].status = "lapsed"})

\* UnblockEvent: the LRU of this replica, then Redis.
UnblockLru(s) ==
    /\ clearer[s].pc = "lru"
    /\ lru' = [lru EXCEPT ![clearer[s].at] = 0]
    /\ clearer' = [clearer EXCEPT ![s] = [@ EXCEPT !.pc = "redis"]]
    /\ UNCHANGED <<rows, blocked, cache, request, told>>
UnblockRedis(s) ==
    /\ clearer[s].pc = "redis"
    /\ blocked' \in {0, blocked}
    /\ clearer' = [clearer EXCEPT ![s] = IdleClearer]
    /\ UNCHANGED <<rows, lru, cache, request, told>>

\* The process dies between the commit and the unblocking.
ClearerDies(s) ==
    /\ clearer[s].pc # "idle"
    /\ clearer' = [clearer EXCEPT ![s] = IdleClearer]
    /\ UNCHANGED <<rows, lru, blocked, cache, request, told>>

-----------------------------------------------------------------------------
(* The environment.                                                        *)

\* A hold passes its expires_at.
Lapse(r) ==
    /\ r \in Active
    /\ rows' = [rows EXCEPT ![r] = [@ EXCEPT !.status = "lapsed"]]
    /\ UNCHANGED <<lru, blocked, cache, request, clearer, told>>

\* A cached reservation runs out.
CacheExpires(u, k) ==
    /\ cache[<<u, k>>] # NoRow
    /\ cache' = [cache EXCEPT ![<<u, k>>] = NoRow]
    /\ UNCHANGED <<rows, lru, blocked, request, clearer, told>>

\* A replica restarts, or an admin handler there calls ClearBlockedEvents.
ClearBlockedEvents(n) ==
    /\ lru[n] > 0
    /\ lru' = [lru EXCEPT ![n] = 0]
    /\ UNCHANGED <<rows, blocked, cache, request, clearer, told>>

MutantFlagNeverExpires(ttl) == ttl
Less(ttl) == IF ttl = 0 THEN 0 ELSE ttl - 1

Tick ==
    /\ blocked > 0 \/ \E n \in Replica : lru[n] > 0
    /\ lru' = [n \in Replica |-> Less(lru[n])]
    /\ blocked' = Less(blocked)
    /\ UNCHANGED <<rows, cache, request, clearer, told>>

Init ==
    /\ rows = [r \in RowId |-> AbsentRow]
    /\ lru = [n \in Replica |-> 0]
    /\ blocked = 0
    /\ cache = [x \in User \X Key |-> NoRow]
    /\ request = [c \in Request |-> IdleRequest]
    /\ clearer = [s \in Clearer |-> IdleClearer]
    /\ told = {}

Steps(c) ==
    \/ CheckRedis(c) \/ CopyToLru(c) \/ LookupCache(c) \/ LookupDb(c)
    \/ CheckSlot(c) \/ ReserveTx(c) \/ BlockLru(c) \/ BlockRedis(c)
    \/ SetCache(c) \/ ReleaseQueueSlot(c)

Clear(s) == UnblockLru(s) \/ UnblockRedis(s)

Next ==
    \/ \E c \in Request, u \in User, k \in Key \cup {NoKey}, n \in Replica :
          Start(c, u, k, n)
    \/ \E c \in Request : Steps(c) \/ Abandon(c)
    \/ \E s \in Clearer, n \in Replica :
          Sweep(s, n) \/ \E r \in RowId : ReleaseReservation(s, n, r)
    \/ \E s \in Clearer : Clear(s) \/ ClearerDies(s)
    \/ \E r \in RowId : Lapse(r)
    \/ \E u \in User, k \in Key : CacheExpires(u, k)
    \/ \E n \in Replica : ClearBlockedEvents(n)
    \/ Tick

Spec == Init /\ [][Next]_vars

-----------------------------------------------------------------------------
(* Properties.                                                             *)

\* Whatever path a keyed request is answered by (Redis cache, lookup, unique
\* index), a user's key is answered with one reservation, and no reservation
\* is shown to two users.
KeyNamesOneReservation ==
    \A x, y \in told : (x[1] = y[1] /\ x[2] = y[2]) <=> x[3] = y[3]

\* docs/api.md: "Sending the same `idempotencyKey` twice returns the original
\* reservation instead of a second one".  A request that repeats one already
\* answered with a reservation is not about to be refused.
ReplayIsAnswered ==
    \A c \in Request :
        request[c].pc = "slot" /\ request[c].replay
        => request[c].outcome = "reserved"

-----------------------------------------------------------------------------
(* Fairness: calls that can go on do, or are cut off by their deadline; the *)
(* times to live run.                                                      *)

Fairness ==
    /\ WF_vars(Tick)
    /\ \A c \in Request : WF_vars(Steps(c) \/ Abandon(c))
    /\ \A s \in Clearer : WF_vars(Clear(s) \/ ClearerDies(s))

FairSpec == Spec /\ Fairness

\* No replica refuses an event with free seats for ever, also when BlockEvent
\* came after the UnblockEvent of a later release, the unblocking was lost, or
\* a replay made the event look full: the times to live clear the flag.
BlockIsTemporary ==
    \A n \in Replica :
        (blocked > 0 \/ lru[n] > 0) /\ Cardinality(Active) < Capacity
        ~> (blocked = 0 /\ lru[n] = 0) \/ Cardinality(Active) >= Capacity
=============================================================================
