---------------------------- MODULE Reservations ----------------------------
(***************************************************************************)
(* The reservation tables of one event, as PostgresReservationRepository   *)
(* drives them: the reserve transaction (event row locked FOR UPDATE, SUM, *)
(* INSERT ... ON CONFLICT, COMMIT), the confirm / release transaction, the *)
(* expiry sweep and the two administrative statements.  Every transaction  *)
(* is split at the points where another session may run.                   *)
(*                                                                         *)
(* Postgres is external: READ COMMITTED, row locks held to the end of the  *)
(* transaction, an UPDATE that waited re-evaluates its WHERE on the        *)
(* committed row, and now() is the time at which the transaction BEGAN.    *)
(* The application's time.Now() and the database's clock are one clock.    *)
(***************************************************************************)
EXTENDS Naturals, FiniteSets

CONSTANTS
    User,               \* users of the event
    Key,                \* client-supplied idempotency keys
    NoKey,              \* a request without idempotencyKey
    RowId,              \* ids the reservations table can generate (a bound)
    Reserver,           \* concurrent ReserveEvent calls
    Updater,            \* concurrent Confirm / ReleaseReservation calls
    Sweeper,            \* concurrent RefreshEventStatus calls
    NoOne,              \* the holder of a free row lock
    Capacities,         \* capacities the event is given
    MaxReservePerUser,  \* events.max_reserve_per_user
    Quantities,         \* quantities clients ask for
    ReservationTTL,     \* reservationTTL, in ticks
    MaxTime             \* bound on the clock

ASSUME CapacitiesAssumption == Capacities \subseteq Nat \ {0}
ASSUME MaxReserveAssumption == MaxReservePerUser \in Nat \ {0}
ASSUME QuantitiesAssumption == Quantities \subseteq Nat \ {0}
ASSUME TTLAssumption == ReservationTTL \in Nat \ {0}
ASSUME MaxTimeAssumption == MaxTime \in Nat
ASSUME RowIdAssumption == IsFiniteSet(RowId)
ASSUME NoKeyAssumption == NoKey \notin Key
ASSUME SessionsAssumption ==
    /\ Reserver \cap Updater = {}
    /\ Reserver \cap Sweeper = {}
    /\ Updater \cap Sweeper = {}
    /\ NoOne \notin Reserver \cup Updater \cup Sweeper

VARIABLES
    now,        \* the clock
    capacity,   \* events.capacity
    ceiling,    \* history: the largest capacity the event was ever given
    rows,       \* the reservations table, committed state
    eventLock,  \* who holds the events row FOR UPDATE
    rowLock,    \* who holds each reservations row
    reserve,    \* the reserve transactions in progress
    update,     \* the confirm / release transactions in progress
    sweep,      \* the sweeps in progress
    late        \* history: rows whose confirmation committed after expiry

vars == <<now, capacity, ceiling, rows, eventLock, rowLock,
          reserve, update, sweep, late>>

-----------------------------------------------------------------------------
(* Types.                                                                  *)

\* "absent": never inserted; "deleted": removed by the simulator's reset.
Status == {"absent", "held", "confirmed", "released", "expired", "deleted"}

Row == [user : User \cup {NoOne}, quantity : 0 .. MaxReservePerUser,
        key : Key \cup {NoKey}, status : Status, expires : Nat]

AbsentRow == [user |-> NoOne, quantity |-> 0, key |-> NoKey,
              status |-> "absent", expires |-> 0]

\* A reserve transaction: its request (user, quantity, key), the time now()
\* stands for, what it read under the lock (cap, active, mine), the row it
\* inserted or found (id, fresh, expires) and what it told its caller.
ReserveTx == [pc : {"idle", "begun", "locked", "summed", "inserted", "returned"},
              user : User \cup {NoOne}, quantity : Nat, key : Key \cup {NoKey},
              start : Nat, cap : Nat, active : Nat, mine : Nat,
              id : RowId \cup {NoOne}, fresh : BOOLEAN, expires : Nat,
              err : {"none", "exceed", "insufficient", "internal"},
              capped : BOOLEAN]

IdleReserve == [pc |-> "idle", user |-> NoOne, quantity |-> 0, key |-> NoKey,
                start |-> 0, cap |-> 0, active |-> 0, mine |-> 0,
                id |-> NoOne, fresh |-> FALSE, expires |-> 0,
                err |-> "none", capped |-> FALSE]

UpdateTx == [pc : {"idle", "begun", "locked"}, user : User \cup {NoOne},
             id : RowId \cup {NoOne}, status : {"confirmed", "released"},
             start : Nat]

IdleUpdate == [pc |-> "idle", user |-> NoOne, id |-> NoOne,
               status |-> "released", start |-> 0]

\* A sweep: the lapsed rows its statement found and the ones it has locked.
SweepTx == [pc : {"idle", "running"}, todo : SUBSET RowId, locked : SUBSET RowId]

IdleSweep == [pc |-> "idle", todo |-> {}, locked |-> {}]

TypeOK ==
    /\ now \in 0 .. MaxTime
    /\ capacity \in Capacities
    /\ ceiling \in Capacities
    /\ rows \in [RowId -> Row]
    /\ eventLock \in Reserver \cup {NoOne}
    /\ rowLock \in [RowId -> Reserver \cup Updater \cup Sweeper \cup {NoOne}]
    /\ reserve \in [Reserver -> ReserveTx]
    /\ update \in [Updater -> UpdateTx]
    /\ sweep \in [Sweeper -> SweepTx]
    /\ late \in SUBSET RowId

-----------------------------------------------------------------------------
(* What the SQL selects.                                                   *)

\* (status = 'held' AND expires_at > now()) OR status = 'confirmed', for a
\* table tbl read by a transaction that began at time at.
ActiveRows(tbl, at) ==
    {r \in RowId : \/ tbl[r].status = "confirmed"
                   \/ tbl[r].status = "held" /\ tbl[r].expires > at}

\* FILTER (WHERE user_id = $4)
OfUser(tbl, S, u) == {r \in S : tbl[r].user = u}

\* SUM(quantity) over the rows S: a row of quantity q is q numbered seats.
Seats(tbl, S) == {s \in S \X (1 .. MaxReservePerUser) : s[2] <= tbl[s[1]].quantity}
SeatCount(tbl, S) == Cardinality(Seats(tbl, S))

\* The two checks of ReserveEvent after the SUMs.
WithinQuota(mine, q) == mine + q <= MaxReservePerUser
WithinCapacity(active, q, cap) == active + q <= cap

\* Mutants of the index: only active reservations are in it; the user is not.
MutantIndexOfActive(u, k) ==
    {r \in ActiveRows(rows, now) :
        k # NoKey /\ rows[r].user = u /\ rows[r].key = k}
MutantIndexWithoutUser(u, k) ==
    {r \in RowId : /\ k # NoKey
                   /\ rows[r].status \notin {"absent", "deleted"}
                   /\ rows[r].key = k}
\* The rows the partial unique index (event_id, user_id, idempotency_key)
\* makes an insert by u with key k collide with.
Conflicting(u, k) ==
    {r \in RowId : /\ k # NoKey
                   /\ rows[r].status \notin {"absent", "deleted"}
                   /\ rows[r].user = u
                   /\ rows[r].key = k}

MutantUpdateIgnoresStatus(r, u, at) ==
    /\ rows[r].status \in {"held", "released"}
    /\ rows[r].user = u
    /\ rows[r].expires > at
\* WHERE id AND user_id AND status = 'held' AND expires_at > now()
Updatable(r, u, at) ==
    /\ rows[r].status = "held"
    /\ rows[r].user = u
    /\ rows[r].expires > at

MutantSweepStrict(r, at) == rows[r].status = "held" /\ rows[r].expires < at
MutantSweepEarly(r, at) == rows[r].status = "held" /\ rows[r].expires <= at + 1
\* WHERE status = 'held' AND expires_at <= now()
Lapsed(r, at) == rows[r].status = "held" /\ rows[r].expires <= at

Free(r) == rowLock[r] = NoOne

\* Whether FOR UPDATE, or an UPDATE of the event, gets the event row.
MutantNoForUpdate == TRUE
EventRowFree == eventLock = NoOne

\* The row locks after session p ended its transaction.
Unlocked(p) == [r \in RowId |-> IF rowLock[r] = p THEN NoOne ELSE rowLock[r]]

-----------------------------------------------------------------------------
(* ReserveEvent.                                                           *)

\* A reserve transaction t as its steps leave it.
Begun(u, q, k) == [IdleReserve EXCEPT !.pc = "begun", !.user = u, !.quantity = q,
                                      !.key = k, !.start = now]
Locked(t) == [t EXCEPT !.pc = "locked", !.cap = capacity]
Summed(t, active, mine) ==
    [t EXCEPT !.pc = "summed", !.active = active, !.mine = mine]
Inserted(t, r) == [t EXCEPT !.pc = "inserted", !.id = r, !.fresh = TRUE,
                            !.expires = now + ReservationTTL]
Replayed(t, r) == [t EXCEPT !.pc = "inserted", !.id = r, !.fresh = FALSE]

\* What its caller is told when it has ended.
Reply(t, id, err, capped) ==
    [pc |-> "returned", user |-> t.user, quantity |-> 0, key |-> t.key,
     start |-> 0, cap |-> 0, active |-> 0, mine |-> 0,
     id |-> id, fresh |-> FALSE, expires |-> 0, err |-> err, capped |-> capped]

\* pool.Begin: now() is fixed here, before the event row is locked.
ReserveBegin(p, u, q, k) ==
    /\ reserve[p].pc = "idle"
    /\ reserve' = [reserve EXCEPT ![p] = Begun(u, q, k)]
    /\ UNCHANGED <<now, capacity, ceiling, rows, eventLock, rowLock,
                   update, sweep, late>>

\* SELECT capacity, max_reserve_per_user ... FOR UPDATE.  A quantity above the
\* per-user maximum returns before anything is summed: rollback, not capped.
ReserveLock(p) ==
    LET t == reserve[p] IN
    /\ t.pc = "begun"
    /\ EventRowFree
    /\ \/ /\ t.quantity > MaxReservePerUser
          /\ reserve' = [reserve EXCEPT ![p] = Reply(t, NoOne, "exceed", FALSE)]
          /\ UNCHANGED eventLock
       \/ /\ t.quantity <= MaxReservePerUser
          /\ reserve' = [reserve EXCEPT ![p] = Locked(t)]
          /\ eventLock' = p
    /\ UNCHANGED <<now, capacity, ceiling, rows, rowLock, update, sweep, late>>

\* The two SUMs under the lock, then the quota check, then the capacity check;
\* a failed check rolls back, which frees the event row.
ReserveSum(p) ==
    LET t      == reserve[p]
        active == SeatCount(rows, ActiveRows(rows, t.start))
        mine   == SeatCount(rows, OfUser(rows, ActiveRows(rows, t.start), t.user))
        Reject(err) ==
            /\ reserve' = [reserve EXCEPT
                              ![p] = Reply(t, NoOne, err, active >= t.cap)]
            /\ eventLock' = NoOne
    IN  /\ t.pc = "locked"
        /\ \/ /\ ~WithinQuota(mine, t.quantity)
              /\ Reject("exceed")
           \/ /\ WithinQuota(mine, t.quantity)
              /\ ~WithinCapacity(active, t.quantity, t.cap)
              /\ Reject("insufficient")
           \/ /\ WithinQuota(mine, t.quantity)
              /\ WithinCapacity(active, t.quantity, t.cap)
              /\ reserve' = [reserve EXCEPT ![p] = Summed(t, active, mine)]
              /\ UNCHANGED eventLock
        /\ UNCHANGED <<now, capacity, ceiling, rows, rowLock, update, sweep, late>>

\* INSERT ... ON CONFLICT DO UPDATE ... RETURNING: without a colliding row a
\* fresh row expiring reservationTTL from time.Now(); with one, that row is
\* locked and returned as it stands, whatever its status and quantity.
ReserveInsert(p) ==
    LET t == reserve[p] IN
    /\ t.pc = "summed"
    /\ \/ /\ Conflicting(t.user, t.key) = {}
          /\ \E r \in RowId :
                /\ rows[r].status = "absent"
                /\ reserve' = [reserve EXCEPT ![p] = Inserted(t, r)]
          /\ UNCHANGED rowLock
       \/ \E r \in Conflicting(t.user, t.key) :
             /\ Free(r)
             /\ rowLock' = [rowLock EXCEPT ![r] = p]
             /\ reserve' = [reserve EXCEPT ![p] = Replayed(t, r)]
    /\ UNCHANGED <<now, capacity, ceiling, rows, eventLock, update, sweep, late>>

\* Mutant: ON CONFLICT adds the quantity to the row it found.
MutantConflictAdds(t) ==
    IF t.fresh
    THEN [rows EXCEPT ![t.id] = [user |-> t.user, quantity |-> t.quantity,
              key |-> t.key, status |-> "held", expires |-> t.expires]]
    ELSE [rows EXCEPT ![t.id].quantity = @ + t.quantity]
\* The table after the commit of transaction t.
Committed(t) ==
    IF t.fresh
    THEN [rows EXCEPT ![t.id] = [user |-> t.user, quantity |-> t.quantity,
              key |-> t.key, status |-> "held", expires |-> t.expires]]
    ELSE rows

\* tx.Commit, then isCapped = active + quantity >= capacity.  The client may
\* lose the acknowledgement of a commit that took place: then it sees an error
\* and the isCapped computed before the insert.
ReserveCommit(p) ==
    LET t == reserve[p] IN
    /\ t.pc = "inserted"
    /\ rows' = Committed(t)
    /\ eventLock' = NoOne
    /\ rowLock' = Unlocked(p)
    /\ \/ reserve' = [reserve EXCEPT
              ![p] = Reply(t, t.id, "none", t.active + t.quantity >= t.cap)]
       \/ reserve' = [reserve EXCEPT
              ![p] = Reply(t, NoOne, "internal", t.active >= t.cap)]
    /\ UNCHANGED <<now, capacity, ceiling, update, sweep, late>>

\* An error, a cancelled context or a dead process before the commit: the
\* deferred Rollback, or the server on seeing the connection close, undoes it.
\* isCapped is FALSE before the SUM and what the SUM said after it.
ReserveAbort(p) ==
    LET t == reserve[p] IN
    /\ t.pc \in {"begun", "locked", "summed", "inserted"}
    /\ reserve' = [reserve EXCEPT ![p] = Reply(t, NoOne, "internal",
                      t.pc \in {"summed", "inserted"} /\ t.active >= t.cap)]
    /\ eventLock' = IF eventLock = p THEN NoOne ELSE eventLock
    /\ rowLock' = Unlocked(p)
    /\ UNCHANGED <<now, capacity, ceiling, rows, update, sweep, late>>

\* The caller takes the reply; the session goes back to the pool.
ReserveReturn(p) ==
    /\ reserve[p].pc = "returned"
    /\ reserve' = [reserve EXCEPT ![p] = IdleReserve]
    /\ UNCHANGED <<now, capacity, ceiling, rows, eventLock, rowLock,
                   update, sweep, late>>

-----------------------------------------------------------------------------
(* UpdateReservation: ConfirmReservation and ReleaseReservation.           *)

UpdateBegin(p, u, r, status) ==
    /\ update[p].pc = "idle"
    /\ update' = [update EXCEPT ![p] = [pc |-> "begun", user |-> u, id |-> r,
                                        status |-> status, start |-> now]]
    /\ UNCHANGED <<now, capacity, ceiling, rows, eventLock, rowLock,
                   reserve, sweep, late>>

\* UPDATE ... RETURNING event_id.  A row that does not qualify is no row:
\* ErrReservationNotFound at once; one that does is waited for and locked.
UpdateRow(p) ==
    LET t == update[p] IN
    /\ t.pc = "begun"
    /\ \/ /\ ~Updatable(t.id, t.user, t.start)
          /\ update' = [update EXCEPT ![p] = IdleUpdate]
          /\ UNCHANGED rowLock
       \/ /\ Updatable(t.id, t.user, t.start)
          /\ Free(t.id)
          /\ update' = [update EXCEPT ![p] = [t EXCEPT !.pc = "locked"]]
          /\ rowLock' = [rowLock EXCEPT ![t.id] = p]
    /\ UNCHANGED <<now, capacity, ceiling, rows, eventLock, reserve, sweep, late>>

\* tx.Commit.  The history variable late remembers a confirmation that became
\* visible only at or after the expiry of the hold.
UpdateCommit(p) ==
    LET t == update[p] IN
    /\ t.pc = "locked"
    /\ rows' = [rows EXCEPT ![t.id] = [@ EXCEPT !.status = t.status]]
    /\ rowLock' = Unlocked(p)
    /\ update' = [update EXCEPT ![p] = IdleUpdate]
    /\ late' = IF t.status = "confirmed" /\ rows[t.id].expires <= now
               THEN late \cup {t.id} ELSE late
    /\ UNCHANGED <<now, capacity, ceiling, eventLock, reserve, sweep>>

\* Error, cancelled context or dead process before the commit.
UpdateAbort(p) ==
    /\ update[p].pc \in {"begun", "locked"}
    /\ update' = [update EXCEPT ![p] = IdleUpdate]
    /\ rowLock' = Unlocked(p)
    /\ UNCHANGED <<now, capacity, ceiling, rows, eventLock, reserve, sweep, late>>

-----------------------------------------------------------------------------
(* RefreshEventStatus: one auto-committed UPDATE, which locks its rows one *)
(* after the other and waits for those another session has locked.         *)

SweepBegin(s) ==
    /\ sweep[s].pc = "idle"
    /\ \E r \in RowId : Lapsed(r, now)
    /\ sweep' = [sweep EXCEPT ![s] = [pc |-> "running",
                     todo |-> {r \in RowId : Lapsed(r, now)}, locked |-> {}]]
    /\ UNCHANGED <<now, capacity, ceiling, rows, eventLock, rowLock,
                   reserve, update, late>>

\* The next row: locked if it is still held once its lock is free (its
\* expiry cannot have changed), skipped if not.
SweepRow(s, r) ==
    LET t == sweep[s] IN
    /\ r \in t.todo
    /\ Free(r)
    /\ \/ /\ rows[r].status = "held"
          /\ sweep' = [sweep EXCEPT ![s] = [t EXCEPT !.todo = t.todo \ {r},
                                                      !.locked = t.locked \cup {r}]]
          /\ rowLock' = [rowLock EXCEPT ![r] = s]
       \/ /\ rows[r].status # "held"
          /\ sweep' = [sweep EXCEPT ![s] = [t EXCEPT !.todo = t.todo \ {r}]]
          /\ UNCHANGED rowLock
    /\ UNCHANGED <<now, capacity, ceiling, rows, eventLock, reserve, update, late>>

SweepCommit(s) ==
    /\ sweep[s].pc = "running"
    /\ sweep[s].todo = {}
    /\ rows' = [r \in RowId |-> IF r \in sweep[s].locked
                                THEN [rows[r] EXCEPT !.status = "expired"]
                                ELSE rows[r]]
    /\ rowLock' = Unlocked(s)
    /\ sweep' = [sweep EXCEPT ![s] = IdleSweep]
    /\ UNCHANGED <<now, capacity, ceiling, eventLock, reserve, update, late>>

\* The 30 s context of the ticker ran out, the process died, or Postgres chose
\* this statement as the victim of a deadlock.
SweepAbort(s) ==
    /\ sweep[s].pc = "running"
    /\ rowLock' = Unlocked(s)
    /\ sweep' = [sweep EXCEPT ![s] = IdleSweep]
    /\ UNCHANGED <<now, capacity, ceiling, rows, eventLock, reserve, update, late>>

-----------------------------------------------------------------------------
(* The statements of the simulate handler, and the clock.                  *)

\* UPDATE events SET capacity: waits for a reserver that holds the row.
SetCapacity(c) ==
    /\ EventRowFree
    /\ capacity' = c
    /\ ceiling' = IF c > ceiling THEN c ELSE ceiling
    /\ UNCHANGED <<now, rows, eventLock, rowLock, reserve, update, sweep, late>>

\* DELETE FROM reservations: the committed rows, once no session has one
\* locked.  A row still being inserted is invisible to it and survives.
DeleteReservations ==
    /\ \E r \in RowId : rows[r].status \notin {"absent", "deleted"}
    /\ \A r \in RowId : Free(r)
    /\ rows' = [r \in RowId |-> IF rows[r].status = "absent" THEN rows[r]
                                ELSE [AbsentRow EXCEPT !.status = "deleted"]]
    /\ late' = {}
    /\ UNCHANGED <<now, capacity, ceiling, eventLock, rowLock, reserve, update, sweep>>

Tick ==
    /\ now < MaxTime
    /\ now' = now + 1
    /\ UNCHANGED <<capacity, ceiling, rows, eventLock, rowLock,
                   reserve, update, sweep, late>>

-----------------------------------------------------------------------------

Init ==
    /\ now = 0
    /\ capacity \in Capacities
    /\ ceiling = capacity
    /\ rows = [r \in RowId |-> AbsentRow]
    /\ eventLock = NoOne
    /\ rowLock = [r \in RowId |-> NoOne]
    /\ reserve = [p \in Reserver |-> IdleReserve]
    /\ update = [p \in Updater |-> IdleUpdate]
    /\ sweep = [s \in Sweeper |-> IdleSweep]
    /\ late = {}

ReserveNext(p) ==
    \/ \E u \in User, q \in Quantities, k \in Key \cup {NoKey} : ReserveBegin(p, u, q, k)
    \/ ReserveLock(p)
    \/ ReserveSum(p)
    \/ ReserveInsert(p)
    \/ ReserveCommit(p)
    \/ ReserveAbort(p)
    \/ ReserveReturn(p)

UpdateNext(p) ==
    \/ \E u \in User, r \in RowId, st \in {"confirmed", "released"} :
          UpdateBegin(p, u, r, st)
    \/ UpdateRow(p)
    \/ UpdateCommit(p)
    \/ UpdateAbort(p)

SweepNext(s) ==
    \/ SweepBegin(s)
    \/ \E r \in RowId : SweepRow(s, r)
    \/ SweepCommit(s)
    \/ SweepAbort(s)

AdminNext ==
    \/ \E c \in Capacities : SetCapacity(c)
    \/ DeleteReservations

Next ==
    \/ \E p \in Reserver : ReserveNext(p)
    \/ \E p \in Updater : UpdateNext(p)
    \/ \E s \in Sweeper : SweepNext(s)
    \/ AdminNext
    \/ Tick

Spec == Init /\ [][Next]_vars

-----------------------------------------------------------------------------
(* Properties.                                                             *)

\* The seats GetTotalReserved reports.
Sold == SeatCount(rows, ActiveRows(rows, now))

\* Active rows except those whose confirmation committed after expiry.
TimelyRows(tbl, lateRows, at) == ActiveRows(tbl, at) \ lateRows
TimelySold == SeatCount(rows, TimelyRows(rows, late, now))
TimelySoldTo(u) == SeatCount(rows, OfUser(rows, TimelyRows(rows, late, now), u))

\* Leaving aside confirmations that committed after their hold lapsed, the
\* active seats never exceed the largest capacity the event was given: the row
\* lock of ReserveEvent serialises SUM, check and INSERT against every other
\* reserver while holds expire, are confirmed, released, swept and deleted.
TimelyNoOversell == TimelySold <= ceiling

\* The same for one user's seats and max_reserve_per_user.
TimelyQuota == \A u \in User : TimelySoldTo(u) <= MaxReservePerUser

\* A step that sells (raises the number of seats) leaves them within the
\* capacity in force at that moment, also when the capacity was lowered below
\* what had been sold, or changed while a reserve transaction was under way.
SalesFitCapacity == [][TimelySold' > TimelySold => TimelySold' <= capacity]_vars

\* An idempotency key names at most one reservation of a user, whichever way
\* concurrent reserves, replays, commits with a lost acknowledgement and
\* retries interleave: it is never charged twice.
OneRowPerKey ==
    \A r1, r2 \in RowId :
        /\ r1 # r2
        /\ rows[r1].status \notin {"absent", "deleted"}
        /\ rows[r2].status \notin {"absent", "deleted"}
        /\ rows[r1].key # NoKey
        /\ rows[r1].key = rows[r2].key
        => rows[r1].user # rows[r2].user

\* A confirmed, released or expired reservation keeps its status until it is
\* deleted: a sweep, a confirm and a release racing for one row settle it once.
SettledOnce ==
    [][\A r \in RowId :
          rows[r].status \in {"confirmed", "released", "expired"}
          => rows'[r].status \in {rows[r].status, "deleted"}]_vars

\* A reservation the caller was told of is in the table (until the simulator
\* deletes it), is the caller's own and carries the key of the request.
RepliesAreDurable ==
    \A p \in Reserver :
        LET t == reserve[p] IN
        t.pc = "returned" /\ t.err = "none"
        => \/ rows[t.id].status = "deleted"
           \/ /\ rows[t.id].status # "absent"
              /\ rows[t.id].user = t.user
              /\ rows[t.id].key = t.key

\* The book of SeatSales as the tables show it: time turns a hold that ran out
\* into a lapsed one, and a late confirmation is an overdue one.
Standing(r) ==
    IF rows[r].status = "held" /\ rows[r].expires <= now THEN "lapsed"
    ELSE IF rows[r].status = "confirmed" /\ r \in late THEN "overdue"
    ELSE rows[r].status
Book == [r \in RowId |-> [user |-> rows[r].user, quantity |-> rows[r].quantity,
                          key |-> rows[r].key, status |-> Standing(r)]]

Sales == INSTANCE SeatSales WITH book <- Book

\* The store implements SeatSales: the reserve transaction, cut into begin,
\* lock, SUM, INSERT and COMMIT and interleaved with confirms, releases, sweeps
\* and resets that take no lock on the event row, sells as if it were one step
\* that looks at the quota, the capacity and the key at the moment it commits;
\* replays, aborted transactions and lost acknowledgements change nothing.
StoreSellsAtomically == Sales!Spec

\* docs/api.md on confirm: it "cannot double-sell or resurrect an expired
\* hold".  Every seat GetTotalReserved counts fits the event's capacity.
NoOversell == Sold <= ceiling

-----------------------------------------------------------------------------
(* Fairness.  A session that can go on does (every call runs under a       *)
(* context deadline); Postgres queues the waiters of a row, so one that    *)
(* waits for a row freed again and again gets it; the ticker starts sweep  *)
(* after sweep, and from some time on they no longer fail.                 *)

Fairness ==
    /\ WF_vars(Tick)
    /\ \A p \in Reserver :
          WF_vars(ReserveLock(p) \/ ReserveSum(p) \/ ReserveInsert(p)
                  \/ ReserveCommit(p) \/ ReserveAbort(p) \/ ReserveReturn(p))
    /\ \A p \in Updater : WF_vars(UpdateRow(p) \/ UpdateCommit(p) \/ UpdateAbort(p))
    /\ \A s \in Sweeper :
          /\ WF_vars(SweepBegin(s))
          /\ \A r \in RowId : SF_vars(SweepRow(s, r))
          /\ WF_vars(SweepCommit(s))
          /\ <>[][~SweepAbort(s)]_vars

FairSpec == Spec /\ Fairness

\* A hold that ran out is settled in the end: marked expired by a sweep unless
\* a confirm or release that began in time got it first, or it was deleted,
\* although sweeps fail and confirms and replayed reserves lock its row.
LapsedHoldsAreSettled ==
    \A r \in RowId : rows[r].status = "held" /\ rows[r].expires <= now
                     ~> rows[r].status # "held"
=============================================================================
