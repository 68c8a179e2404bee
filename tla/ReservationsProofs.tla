------------------------ MODULE ReservationsProofs ------------------------
(***************************************************************************)
(* Proofs, for every value of the constants, of the safety properties of   *)
(* Reservations.  The inductive invariant has three layers, each preserved *)
(* with the help of the ones before it: types and shapes of transactions   *)
(* (TypeInv), who holds which lock and what that keeps fixed (LockInv),    *)
(* and the sums against the capacity and the quota (SaleInv).              *)
(***************************************************************************)
EXTENDS Reservations, FiniteSetTheorems, TLAPS

-----------------------------------------------------------------------------
(* The parts of the inductive invariant.                                   *)

InEventLock == {"locked", "summed", "inserted"}

\* What the program counters say about the fields of a transaction.
TxShape ==
    /\ \A p \in Reserver :
          /\ reserve[p].pc \in InEventLock => reserve[p].quantity <= MaxReservePerUser
          /\ reserve[p].pc = "inserted" => reserve[p].id \in RowId
          /\ reserve[p].start <= now
    /\ \A p \in Updater : update[p].pc # "idle" => update[p].id \in RowId

\* Who holds the event row, and what cannot change while it is held.
EventLockInv ==
    \A p \in Reserver :
        /\ reserve[p].pc \in InEventLock <=> eventLock = p
        /\ reserve[p].pc \in InEventLock => reserve[p].cap = capacity
        /\ reserve[p].pc = "inserted" /\ reserve[p].fresh
           => rows[reserve[p].id].status = "absent"

\* A row locked for a change of status is still a hold.
RowLockInv ==
    /\ \A p \in Updater :
          update[p].pc = "locked"
          => /\ rowLock[update[p].id] = p
             /\ rows[update[p].id].status = "held"
    /\ \A s \in Sweeper : \A r \in sweep[s].locked :
          /\ rowLock[r] = s
          /\ rows[r].status = "held"

LateInv == \A r \in late : rows[r].status = "confirmed"

\* Between SUM and COMMIT the timely seats never exceed what was summed.
SumInv ==
    \A p \in Reserver : reserve[p].pc \in {"summed", "inserted"} =>
        /\ TimelySold <= reserve[p].active
        /\ TimelySoldTo(reserve[p].user) <= reserve[p].mine
        /\ WithinCapacity(reserve[p].active, reserve[p].quantity, reserve[p].cap)
        /\ WithinQuota(reserve[p].mine, reserve[p].quantity)

\* The largest capacity bounds the current one.
CeilingInv == capacity <= ceiling

-----------------------------------------------------------------------------
(* SUM(quantity), as the number of seats.                                  *)

\* The seats of finitely many rows are finitely many, so every SUM of the
\* model is a natural number.
LEMMA SeatsFinite ==
    ASSUME NEW tbl, NEW S \in SUBSET RowId
    PROVE  /\ IsFiniteSet(Seats(tbl, S))
           /\ SeatCount(tbl, S) \in Nat
<1>1. IsFiniteSet(S)
  BY RowIdAssumption, FS_Subset
<1>2. IsFiniteSet(1 .. MaxReservePerUser)
  BY MaxReserveAssumption, FS_Interval
<1>3. IsFiniteSet(S \X (1 .. MaxReservePerUser))
  BY <1>1, <1>2, FS_Product
<1>4. Seats(tbl, S) \in SUBSET (S \X (1 .. MaxReservePerUser))
  BY DEF Seats
<1>5. IsFiniteSet(Seats(tbl, S))
  BY <1>3, <1>4, FS_Subset
<1> QED
  BY <1>5, FS_CardinalityType DEF SeatCount

\* Fewer rows of the same quantities have no more seats.
LEMMA SeatCountMonotone ==
    ASSUME NEW tbl, NEW tbl2, NEW S \in SUBSET RowId, NEW S2 \in SUBSET S,
           \A r \in S2 : tbl2[r].quantity = tbl[r].quantity
    PROVE  SeatCount(tbl2, S2) <= SeatCount(tbl, S)
<1>1. Seats(tbl2, S2) \in SUBSET Seats(tbl, S)
  BY DEF Seats
<1> QED
  BY <1>1, SeatsFinite, FS_Subset DEF SeatCount

\* One more row adds at most its quantity.
LEMMA SeatCountAdd ==
    ASSUME NEW tbl, NEW tbl2, NEW S \in SUBSET RowId, NEW S2 \in SUBSET RowId,
           NEW id \in RowId, S2 \subseteq S \cup {id},
           \A r \in S2 \ {id} : tbl2[r].quantity = tbl[r].quantity,
           tbl2[id].quantity \in 0 .. MaxReservePerUser
    PROVE  SeatCount(tbl2, S2) <= SeatCount(tbl, S) + tbl2[id].quantity
<1> DEFINE n   == tbl2[id].quantity
           New == {id} \X (1 .. n)
<1>0. n \in Nat
  BY MaxReserveAssumption
<1>1. IsFiniteSet(New) /\ Cardinality(New) = n
  <2>1. IsFiniteSet({id}) /\ Cardinality({id}) = 1
    BY FS_Singleton
  <2>2. IsFiniteSet(1 .. n) /\ Cardinality(1 .. n) = n
    <3> HIDE DEF n
    <3>1. 1 \in Int /\ n \in Int
      BY <1>0
    <3>2. /\ IsFiniteSet(1 .. n)
          /\ Cardinality(1 .. n) = IF 1 > n THEN 0 ELSE n - 1 + 1
      BY <3>1, FS_Interval
    <3> QED
      BY <1>0, <3>2
  <2>3. /\ IsFiniteSet({id} \X (1 .. n))
        /\ Cardinality({id} \X (1 .. n)) = Cardinality({id}) * Cardinality(1 .. n)
    <3> HIDE DEF n
    <3> QED  BY <2>1, <2>2, FS_Product
  <2> QED
    BY <1>0, <2>1, <2>2, <2>3
<1>2. Seats(tbl2, S2) \in SUBSET (Seats(tbl, S) \cup New)
  BY MaxReserveAssumption DEF Seats
<1>3. /\ IsFiniteSet(Seats(tbl, S) \cup New)
      /\ Cardinality(Seats(tbl, S) \cup New)
         = Cardinality(Seats(tbl, S)) + n - Cardinality(Seats(tbl, S) \cap New)
  BY <1>1, SeatsFinite, FS_Union
<1>4. Cardinality(Seats(tbl, S) \cap New) \in Nat
  BY <1>1, FS_Intersection, FS_CardinalityType
<1>5. Cardinality(Seats(tbl2, S2)) <= Cardinality(Seats(tbl, S) \cup New)
  BY <1>2, <1>3, FS_Subset
<1>6. Cardinality(Seats(tbl, S)) \in Nat /\ Cardinality(Seats(tbl2, S2)) \in Nat
  BY SeatsFinite, FS_CardinalityType DEF SeatCount
<1> QED
  BY <1>3, <1>4, <1>5, <1>6, MaxReserveAssumption DEF SeatCount

-----------------------------------------------------------------------------
(* Type correctness.                                                       *)

TypeInv == TypeOK /\ TxShape

\* Every SUM of the reserve transaction is a natural number.
LEMMA SumsAreNatural ==
    ASSUME NEW tbl, NEW at, NEW u
    PROVE  /\ SeatCount(tbl, ActiveRows(tbl, at)) \in Nat
           /\ SeatCount(tbl, OfUser(tbl, ActiveRows(tbl, at), u)) \in Nat
<1>1. ActiveRows(tbl, at) \in SUBSET RowId
  BY DEF ActiveRows
<1>2. OfUser(tbl, ActiveRows(tbl, at), u) \in SUBSET RowId
  BY <1>1 DEF OfUser
<1> QED
  BY <1>1, <1>2, SeatsFinite

LEMMA IdleTypes ==
    /\ AbsentRow \in Row
    /\ [AbsentRow EXCEPT !.status = "deleted"] \in Row
    /\ IdleReserve \in ReserveTx
    /\ IdleUpdate \in UpdateTx
    /\ IdleSweep \in SweepTx
BY MaxReserveAssumption
   DEF AbsentRow, Row, Status, IdleReserve, ReserveTx, IdleUpdate, UpdateTx,
       IdleSweep, SweepTx

\* What each step makes of a reserve transaction.
LEMMA ReplyFields ==
    ASSUME NEW t \in ReserveTx, NEW id \in RowId \cup {NoOne},
           NEW err \in {"none", "exceed", "insufficient", "internal"},
           NEW capped \in BOOLEAN
    PROVE  /\ Reply(t, id, err, capped) \in ReserveTx
           /\ Reply(t, id, err, capped).pc = "returned"
           /\ Reply(t, id, err, capped).start = 0
BY DEF Reply, ReserveTx

LEMMA BegunFields ==
    ASSUME now \in Nat, NEW u \in User, NEW q \in Quantities, NEW k \in Key \cup {NoKey}
    PROVE  /\ Begun(u, q, k) \in ReserveTx
           /\ Begun(u, q, k).pc = "begun"
           /\ Begun(u, q, k).start = now
BY QuantitiesAssumption DEF Begun, IdleReserve, ReserveTx

LEMMA LockedFields ==
    ASSUME capacity \in Nat, NEW t \in ReserveTx
    PROVE  /\ Locked(t) \in ReserveTx
           /\ Locked(t).pc = "locked"
           /\ Locked(t).cap = capacity
           /\ Locked(t).quantity = t.quantity
           /\ Locked(t).start = t.start
BY DEF Locked, ReserveTx

LEMMA SummedFields ==
    ASSUME NEW t \in ReserveTx, NEW a \in Nat, NEW m \in Nat
    PROVE  /\ Summed(t, a, m) \in ReserveTx
           /\ Summed(t, a, m).pc = "summed"
           /\ Summed(t, a, m).cap = t.cap
           /\ Summed(t, a, m).user = t.user
           /\ Summed(t, a, m).quantity = t.quantity
           /\ Summed(t, a, m).start = t.start
           /\ Summed(t, a, m).active = a
           /\ Summed(t, a, m).mine = m
BY DEF Summed, ReserveTx

LEMMA InsertedFields ==
    ASSUME now \in Nat, NEW t \in ReserveTx, NEW r \in RowId,
           NEW n \in {Inserted(t, r), Replayed(t, r)}
    PROVE  /\ n \in ReserveTx
           /\ n.pc = "inserted"
           /\ n.id = r
           /\ n.cap = t.cap
           /\ n.user = t.user
           /\ n.quantity = t.quantity
           /\ n.start = t.start
           /\ n.active = t.active
           /\ n.mine = t.mine
<1>1. CASE n = Inserted(t, r)
  <2>1. now + ReservationTTL \in Nat
    BY TTLAssumption
  <2> DEFINE i == Inserted(t, r)
  <2>2. i \in ReserveTx
    BY <2>1 DEF Inserted, ReserveTx
  <2>3. /\ i.pc = "inserted" /\ i.id = r
        /\ i.cap = t.cap /\ i.user = t.user /\ i.quantity = t.quantity
        /\ i.start = t.start /\ i.active = t.active /\ i.mine = t.mine
    BY DEF Inserted, ReserveTx
  <2> HIDE DEF i
  <2> QED BY <1>1, <2>2, <2>3 DEF i
<1>2. CASE n = Replayed(t, r)
  <2> DEFINE i == Replayed(t, r)
  <2>2. i \in ReserveTx
    BY DEF Replayed, ReserveTx
  <2>3. /\ i.pc = "inserted" /\ i.id = r
        /\ i.cap = t.cap /\ i.user = t.user /\ i.quantity = t.quantity
        /\ i.start = t.start /\ i.active = t.active /\ i.mine = t.mine
    BY DEF Replayed, ReserveTx
  <2> HIDE DEF i
  <2> QED BY <1>2, <2>2, <2>3 DEF i
<1> QED
  BY <1>1, <1>2

LEMMA ReplayedNotFresh ==
    ASSUME NEW t \in ReserveTx, NEW r \in RowId
    PROVE  ~Replayed(t, r).fresh
BY DEF Replayed, ReserveTx

LEMMA UnlockedType ==
    ASSUME NEW p, TypeOK
    PROVE  Unlocked(p) \in [RowId -> Reserver \cup Updater \cup Sweeper \cup {NoOne}]
BY DEF Unlocked, TypeOK

\* The transactions that end, with an answer for the caller.
Ends(p) ==
    \E n \in ReserveTx : /\ reserve' = [reserve EXCEPT ![p] = n]
                         /\ n.pc = "returned"
                         /\ n.start = 0

LEMMA CommitEnds ==
    ASSUME TypeInv, NEW p \in Reserver, ReserveCommit(p)
    PROVE  Ends(p)
<1> DEFINE t  == reserve[p]
           c1 == t.active + t.quantity >= t.cap
           c2 == t.active >= t.cap
<1>1. t \in ReserveTx /\ t.id \in RowId \cup {NoOne}
  BY DEF TypeInv, TypeOK, ReserveTx
<1>2. c1 \in BOOLEAN /\ c2 \in BOOLEAN
  OBVIOUS
<1>3. \/ reserve' = [reserve EXCEPT ![p] = Reply(t, t.id, "none", c1)]
      \/ reserve' = [reserve EXCEPT ![p] = Reply(t, NoOne, "internal", c2)]
  BY DEF ReserveCommit
<1> HIDE DEF t, c1, c2
<1>4. /\ Reply(t, t.id, "none", c1) \in ReserveTx
      /\ Reply(t, t.id, "none", c1).pc = "returned"
      /\ Reply(t, t.id, "none", c1).start = 0
  BY <1>1, <1>2, ReplyFields
<1>5. /\ Reply(t, NoOne, "internal", c2) \in ReserveTx
      /\ Reply(t, NoOne, "internal", c2).pc = "returned"
      /\ Reply(t, NoOne, "internal", c2).start = 0
  BY <1>1, <1>2, ReplyFields
<1> QED
  BY <1>3, <1>4, <1>5 DEF Ends

LEMMA AbortEnds ==
    ASSUME TypeInv, NEW p \in Reserver, ReserveAbort(p)
    PROVE  Ends(p)
<1> DEFINE t == reserve[p]
           c == t.pc \in {"summed", "inserted"} /\ t.active >= t.cap
<1>1. t \in ReserveTx
  BY DEF TypeInv, TypeOK
<1>2. c \in BOOLEAN
  OBVIOUS
<1>3. reserve' = [reserve EXCEPT ![p] = Reply(t, NoOne, "internal", c)]
  BY DEF ReserveAbort
<1> HIDE DEF t, c
<1>4. /\ Reply(t, NoOne, "internal", c) \in ReserveTx
      /\ Reply(t, NoOne, "internal", c).pc = "returned"
      /\ Reply(t, NoOne, "internal", c).start = 0
  BY <1>1, <1>2, ReplyFields
<1> QED
  BY <1>3, <1>4 DEF Ends

\* Locking the event row either ends the transaction or takes the lock.
LEMMA LockSteps ==
    ASSUME TypeInv, NEW p \in Reserver, ReserveLock(p)
    PROVE  \/ /\ Ends(p)
              /\ UNCHANGED eventLock
           \/ /\ reserve' = [reserve EXCEPT ![p] = Locked(reserve[p])]
              /\ reserve[p].quantity <= MaxReservePerUser
              /\ eventLock' = p
<1> DEFINE n == Reply(reserve[p], NoOne, "exceed", FALSE)
<1>1. reserve[p] \in ReserveTx
  BY DEF TypeInv, TypeOK
<1>2. n \in ReserveTx /\ n.pc = "returned" /\ n.start = 0
  BY <1>1, ReplyFields
<1>3. \/ /\ reserve' = [reserve EXCEPT ![p] = n]
         /\ UNCHANGED eventLock
      \/ /\ reserve' = [reserve EXCEPT ![p] = Locked(reserve[p])]
         /\ reserve[p].quantity <= MaxReservePerUser
         /\ eventLock' = p
  BY DEF ReserveLock
<1> HIDE DEF n
<1> QED
  BY <1>2, <1>3 DEF Ends

\* Summing either ends the transaction and frees the event row, or keeps the
\* sums, which then fit.
LEMMA SumSteps ==
    ASSUME TypeInv, NEW p \in Reserver, ReserveSum(p)
    PROVE  LET t      == reserve[p]
               active == SeatCount(rows, ActiveRows(rows, t.start))
               mine   == SeatCount(rows, OfUser(rows, ActiveRows(rows, t.start), t.user))
           IN  \/ /\ Ends(p)
                  /\ eventLock' = NoOne
               \/ /\ reserve' = [reserve EXCEPT ![p] = Summed(t, active, mine)]
                  /\ WithinQuota(mine, t.quantity)
                  /\ WithinCapacity(active, t.quantity, t.cap)
                  /\ UNCHANGED eventLock
<1> DEFINE t      == reserve[p]
           active == SeatCount(rows, ActiveRows(rows, t.start))
           mine   == SeatCount(rows, OfUser(rows, ActiveRows(rows, t.start), t.user))
           c      == active >= t.cap
           n(err) == Reply(t, NoOne, err, c)
<1>1. t \in ReserveTx
  BY DEF TypeInv, TypeOK
<1>2. c \in BOOLEAN
  OBVIOUS
<1>3. ASSUME NEW err \in {"exceed", "insufficient"}
      PROVE  n(err) \in ReserveTx /\ n(err).pc = "returned" /\ n(err).start = 0
  <2> HIDE DEF t, c
  <2> QED BY <1>1, <1>2, ReplyFields
<1>4. \/ \E err \in {"exceed", "insufficient"} :
            /\ reserve' = [reserve EXCEPT ![p] = n(err)]
            /\ eventLock' = NoOne
      \/ /\ reserve' = [reserve EXCEPT ![p] = Summed(t, active, mine)]
         /\ WithinQuota(mine, t.quantity)
         /\ WithinCapacity(active, t.quantity, t.cap)
         /\ UNCHANGED eventLock
  BY Zenon DEF ReserveSum
<1> HIDE DEF t, active, mine, c, n
<1>5. \/ /\ Ends(p)
         /\ eventLock' = NoOne
      \/ /\ reserve' = [reserve EXCEPT ![p] = Summed(t, active, mine)]
         /\ WithinQuota(mine, t.quantity)
         /\ WithinCapacity(active, t.quantity, t.cap)
         /\ UNCHANGED eventLock
  BY <1>3, <1>4 DEF Ends
<1> QED
  BY <1>5 DEF t, active, mine

\* A step that replaces one transaction by a well-formed one keeps the shape
\* of all of them.
LEMMA ReserveShape ==
    ASSUME TypeInv, NEW p \in Reserver, NEW n \in ReserveTx,
           reserve' = [reserve EXCEPT ![p] = n],
           n.pc \in InEventLock => n.quantity <= MaxReservePerUser,
           n.pc = "inserted" => n.id \in RowId,
           n.start <= now,
           UNCHANGED <<now, update>>
    PROVE  /\ reserve' \in [Reserver -> ReserveTx]
           /\ TxShape'
BY DEF TypeInv, TypeOK, TxShape

LEMMA EndsShape ==
    ASSUME TypeInv, NEW p \in Reserver, Ends(p), UNCHANGED <<now, update>>
    PROVE  /\ reserve' \in [Reserver -> ReserveTx]
           /\ TxShape'
<1>1. PICK n \in ReserveTx : /\ reserve' = [reserve EXCEPT ![p] = n]
                             /\ n.pc = "returned"
                             /\ n.start = 0
  BY DEF Ends
<1>2. n.start <= now
  BY <1>1 DEF TypeInv, TypeOK
<1>3. n.pc \notin InEventLock
  BY <1>1 DEF InEventLock
<1> QED
  BY <1>1, <1>2, <1>3, ReserveShape

LEMMA UpdateShape ==
    ASSUME TypeInv, NEW p \in Updater, NEW n \in UpdateTx,
           update' = [update EXCEPT ![p] = n],
           n.pc # "idle" => n.id \in RowId,
           UNCHANGED <<now, reserve>>
    PROVE  /\ update' \in [Updater -> UpdateTx]
           /\ TxShape'
BY DEF TypeInv, TypeOK, TxShape

LEMMA ReserveTypes ==
    ASSUME TypeInv, NEW p \in Reserver, ReserveNext(p)
    PROVE  TypeInv'
<1> DEFINE t == reserve[p]
<1>0. t \in ReserveTx /\ now \in Nat /\ t.start <= now /\ capacity \in Nat
  BY MaxTimeAssumption, CapacitiesAssumption DEF TypeInv, TypeOK, TxShape
<1>00. t.pc \in InEventLock => t.quantity <= MaxReservePerUser
  BY DEF TypeInv, TxShape
<1> HIDE DEF t
<1>1. ASSUME NEW u \in User, NEW q \in Quantities, NEW k \in Key \cup {NoKey},
             ReserveBegin(p, u, q, k)
      PROVE  TypeInv'
  <2>1. /\ Begun(u, q, k) \in ReserveTx
        /\ Begun(u, q, k).pc = "begun"
        /\ Begun(u, q, k).start <= now
    BY <1>0, BegunFields
  <2>2. reserve' \in [Reserver -> ReserveTx] /\ TxShape'
    BY <1>1, <2>1, ReserveShape DEF ReserveBegin, InEventLock
  <2> QED
    BY <1>1, <2>2 DEF ReserveBegin, TypeInv, TypeOK
<1>2. ASSUME ReserveLock(p) PROVE TypeInv'
  <2>1. CASE Ends(p) /\ UNCHANGED eventLock
    BY <1>2, <2>1, EndsShape DEF ReserveLock, TypeInv, TypeOK
  <2>2. CASE /\ reserve' = [reserve EXCEPT ![p] = Locked(t)]
             /\ t.quantity <= MaxReservePerUser
             /\ eventLock' = p
    <3>1. /\ Locked(t) \in ReserveTx /\ Locked(t).pc = "locked"
          /\ Locked(t).quantity <= MaxReservePerUser /\ Locked(t).start <= now
      BY <1>0, <2>2, LockedFields
    <3>2. reserve' \in [Reserver -> ReserveTx] /\ TxShape'
      BY <1>2, <2>2, <3>1, ReserveShape DEF ReserveLock, InEventLock
    <3> QED
      BY <1>2, <2>2, <3>2 DEF ReserveLock, TypeInv, TypeOK
  <2> QED
    BY <1>2, <2>1, <2>2, LockSteps DEF t
<1>3. ASSUME ReserveSum(p) PROVE TypeInv'
  <2> DEFINE active == SeatCount(rows, ActiveRows(rows, t.start))
             mine == SeatCount(rows, OfUser(rows, ActiveRows(rows, t.start), t.user))
  <2>1. active \in Nat /\ mine \in Nat
    BY SumsAreNatural
  <2>2. t.pc = "locked"
    BY <1>3 DEF ReserveSum, t
  <2>3. \/ Ends(p) /\ eventLock' = NoOne
        \/ /\ reserve' = [reserve EXCEPT ![p] = Summed(t, active, mine)]
           /\ UNCHANGED eventLock
    BY <1>3, SumSteps DEF t
  <2> HIDE DEF active, mine
  <2>4. CASE Ends(p) /\ eventLock' = NoOne
    BY <1>3, <2>4, EndsShape DEF ReserveSum, TypeInv, TypeOK
  <2>5. CASE /\ reserve' = [reserve EXCEPT ![p] = Summed(t, active, mine)]
             /\ UNCHANGED eventLock
    <3> DEFINE n == Summed(t, active, mine)
    <3>0. /\ n \in ReserveTx /\ n.pc = "summed"
          /\ n.quantity = t.quantity /\ n.start = t.start
      BY <1>0, <2>1, SummedFields
    <3> HIDE DEF n
    <3>1. n.quantity <= MaxReservePerUser /\ n.start <= now
      BY <1>0, <1>00, <2>2, <3>0 DEF InEventLock
    <3>2. reserve' = [reserve EXCEPT ![p] = n] /\ UNCHANGED <<now, update>>
      BY <1>3, <2>5 DEF ReserveSum, n
    <3>3. reserve' \in [Reserver -> ReserveTx] /\ TxShape'
      BY <3>0, <3>1, <3>2, ReserveShape
    <3> QED
      BY <1>3, <2>5, <3>3 DEF ReserveSum, TypeInv, TypeOK
  <2> QED
    BY <2>3, <2>4, <2>5
<1>4. ASSUME ReserveInsert(p) PROVE TypeInv'
  <2>1. t.pc = "summed" /\ UNCHANGED <<now, update>>
    BY <1>4 DEF ReserveInsert, t
  <2>2. PICK r \in RowId : \E n \in {Inserted(t, r), Replayed(t, r)} :
                              reserve' = [reserve EXCEPT ![p] = n]
    BY <1>4 DEF ReserveInsert, Conflicting, t
  <2>3. PICK n \in {Inserted(t, r), Replayed(t, r)} :
                reserve' = [reserve EXCEPT ![p] = n]
    BY <2>2
  <2>4. /\ n \in ReserveTx /\ n.id \in RowId
        /\ n.quantity <= MaxReservePerUser /\ n.start <= now
    BY <1>0, <1>00, <2>1, InsertedFields DEF InEventLock
  <2>5. reserve' \in [Reserver -> ReserveTx] /\ TxShape'
    BY <2>1, <2>3, <2>4, ReserveShape
  <2>6. rowLock' \in [RowId -> Reserver \cup Updater \cup Sweeper \cup {NoOne}]
    BY <1>4 DEF ReserveInsert, TypeInv, TypeOK, Conflicting
  <2> QED
    BY <1>4, <2>5, <2>6 DEF ReserveInsert, TypeInv, TypeOK
<1>5. ASSUME ReserveCommit(p) PROVE TypeInv'
  <2>1. /\ t.pc = "inserted" /\ t.quantity \in 0 .. MaxReservePerUser
        /\ t.id \in RowId /\ t.expires \in Nat
    BY <1>0, <1>00, <1>5, MaxReserveAssumption
       DEF ReserveCommit, TypeInv, TxShape, InEventLock, ReserveTx, t
  <2>2. Committed(t) \in [RowId -> Row]
    BY <1>0, <2>1 DEF Committed, TypeInv, TypeOK, Row, Status, ReserveTx
  <2>3. reserve' \in [Reserver -> ReserveTx] /\ TxShape'
    BY <1>5, CommitEnds, EndsShape DEF ReserveCommit
  <2> QED
    BY <1>5, <2>2, <2>3, UnlockedType DEF ReserveCommit, TypeInv, TypeOK, t
<1>6. ASSUME ReserveAbort(p) PROVE TypeInv'
  <2>1. reserve' \in [Reserver -> ReserveTx] /\ TxShape'
    BY <1>6, AbortEnds, EndsShape DEF ReserveAbort
  <2> QED
    BY <1>6, <2>1, UnlockedType DEF ReserveAbort, TypeInv, TypeOK
<1>7. ASSUME ReserveReturn(p) PROVE TypeInv'
  <2>1. IdleReserve \in ReserveTx /\ IdleReserve.pc = "idle" /\ IdleReserve.start <= now
    BY <1>0, IdleTypes DEF IdleReserve
  <2>2. reserve' \in [Reserver -> ReserveTx] /\ TxShape'
    BY <1>7, <2>1, ReserveShape DEF ReserveReturn, InEventLock
  <2> QED
    BY <1>7, <2>2 DEF ReserveReturn, TypeInv, TypeOK
<1> QED
  BY <1>1, <1>2, <1>3, <1>4, <1>5, <1>6, <1>7 DEF ReserveNext

LEMMA UpdateTypes ==
    ASSUME TypeInv, NEW p \in Updater, UpdateNext(p)
    PROVE  TypeInv'
<1> DEFINE t == update[p]
<1>0. t \in UpdateTx /\ now \in Nat /\ (t.pc # "idle" => t.id \in RowId)
  BY MaxTimeAssumption DEF TypeInv, TypeOK, TxShape
<1>i. IdleUpdate \in UpdateTx /\ IdleUpdate.pc = "idle"
  BY IdleTypes DEF IdleUpdate
<1>1. ASSUME NEW u \in User, NEW r \in RowId, NEW st \in {"confirmed", "released"},
             UpdateBegin(p, u, r, st)
      PROVE  TypeInv'
  <2> DEFINE n == [pc |-> "begun", user |-> u, id |-> r, status |-> st, start |-> now]
  <2>1. n \in UpdateTx /\ n.id \in RowId
    BY <1>0 DEF UpdateTx
  <2>2. update' = [update EXCEPT ![p] = n] /\ UNCHANGED <<now, reserve>>
    BY <1>1 DEF UpdateBegin
  <2> HIDE DEF n
  <2>3. update' \in [Updater -> UpdateTx] /\ TxShape'
    BY <2>1, <2>2, UpdateShape
  <2> QED
    BY <1>1, <2>3 DEF UpdateBegin, TypeInv, TypeOK
<1>2. ASSUME UpdateRow(p) PROVE TypeInv'
  <2> DEFINE n == [t EXCEPT !.pc = "locked"]
  <2>0. t.id \in RowId
    BY <1>0, <1>2 DEF UpdateRow
  <2>1. n \in UpdateTx /\ n.id = t.id
    BY <1>0 DEF UpdateTx
  <2>2. \/ update' = [update EXCEPT ![p] = IdleUpdate]
        \/ update' = [update EXCEPT ![p] = n]
    BY <1>2 DEF UpdateRow
  <2>3. UNCHANGED <<now, reserve>>
    BY <1>2 DEF UpdateRow
  <2> HIDE DEF n
  <2>4. update' \in [Updater -> UpdateTx] /\ TxShape'
    BY <1>i, <2>0, <2>1, <2>2, <2>3, UpdateShape
  <2>5. rowLock' \in [RowId -> Reserver \cup Updater \cup Sweeper \cup {NoOne}]
    BY <1>2, <2>0 DEF UpdateRow, TypeInv, TypeOK
  <2> QED
    BY <1>2, <2>4, <2>5 DEF UpdateRow, TypeInv, TypeOK
<1>3. ASSUME UpdateCommit(p) PROVE TypeInv'
  <2>1. t.id \in RowId /\ t.status \in Status
    BY <1>0, <1>3 DEF UpdateCommit, UpdateTx, Status
  <2>2. rows' \in [RowId -> Row]
    BY <1>3, <2>1 DEF UpdateCommit, TypeInv, TypeOK, Row
  <2>3. update' \in [Updater -> UpdateTx] /\ TxShape'
    BY <1>i, <1>3, UpdateShape DEF UpdateCommit
  <2>4. late' \in SUBSET RowId
    BY <1>3, <2>1 DEF UpdateCommit, TypeInv, TypeOK
  <2> QED
    BY <1>3, <2>2, <2>3, <2>4, UnlockedType DEF UpdateCommit, TypeInv, TypeOK
<1>4. ASSUME UpdateAbort(p) PROVE TypeInv'
  <2>1. update' \in [Updater -> UpdateTx] /\ TxShape'
    BY <1>i, <1>4, UpdateShape DEF UpdateAbort
  <2> QED
    BY <1>4, <2>1, UnlockedType DEF UpdateAbort, TypeInv, TypeOK
<1> QED
  BY <1>1, <1>2, <1>3, <1>4 DEF UpdateNext

LEMMA SweepTypes ==
    ASSUME TypeInv, NEW s \in Sweeper, SweepNext(s)
    PROVE  TypeInv'
<1>0. sweep[s] \in SweepTx /\ IdleSweep \in SweepTx
  BY IdleTypes DEF TypeInv, TypeOK
<1>1. CASE SweepBegin(s)
  <2>1. sweep' \in [Sweeper -> SweepTx]
    BY <1>0, <1>1 DEF SweepBegin, TypeInv, TypeOK, SweepTx
  <2> QED
    BY <1>1, <2>1 DEF SweepBegin, TypeInv, TypeOK, TxShape
<1>2. ASSUME NEW r \in RowId, SweepRow(s, r) PROVE TypeInv'
  <2> DEFINE t  == sweep[s]
             n1 == [t EXCEPT !.todo = t.todo \ {r}, !.locked = t.locked \cup {r}]
             n2 == [t EXCEPT !.todo = t.todo \ {r}]
  <2>0. n1 \in SweepTx /\ n2 \in SweepTx
    BY <1>0 DEF SweepTx
  <2>a. \/ sweep' = [sweep EXCEPT ![s] = n1]
        \/ sweep' = [sweep EXCEPT ![s] = n2]
    BY <1>2 DEF SweepRow
  <2> HIDE DEF n1, n2
  <2>1. sweep' \in [Sweeper -> SweepTx]
    BY <2>0, <2>a DEF TypeInv, TypeOK
  <2>2. rowLock' \in [RowId -> Reserver \cup Updater \cup Sweeper \cup {NoOne}]
    BY <1>2 DEF SweepRow, TypeInv, TypeOK
  <2> QED
    BY <1>2, <2>1, <2>2 DEF SweepRow, TypeInv, TypeOK, TxShape
<1>3. CASE SweepCommit(s)
  <2>1. rows' \in [RowId -> Row]
    BY <1>3 DEF SweepCommit, TypeInv, TypeOK, Row, Status
  <2>2. sweep' \in [Sweeper -> SweepTx]
    BY <1>0, <1>3 DEF SweepCommit, TypeInv, TypeOK
  <2> QED
    BY <1>3, <2>1, <2>2, UnlockedType DEF SweepCommit, TypeInv, TypeOK, TxShape
<1>4. CASE SweepAbort(s)
  <2>1. sweep' \in [Sweeper -> SweepTx]
    BY <1>0, <1>4 DEF SweepAbort, TypeInv, TypeOK
  <2> QED
    BY <1>4, <2>1, UnlockedType DEF SweepAbort, TypeInv, TypeOK, TxShape
<1> QED
  BY <1>1, <1>2, <1>3, <1>4 DEF SweepNext

\* Types and transaction shapes are inductive together: a committed quantity
\* has its type because the lock step rejected larger ones.
LEMMA TypeInvNext == TypeInv /\ [Next]_vars => TypeInv'
<1> SUFFICES ASSUME TypeInv, [Next]_vars PROVE TypeInv'
  OBVIOUS
<1>1. CASE \E p \in Reserver : ReserveNext(p)
  BY <1>1, ReserveTypes
<1>2. CASE \E p \in Updater : UpdateNext(p)
  BY <1>2, UpdateTypes
<1>3. CASE \E s \in Sweeper : SweepNext(s)
  BY <1>3, SweepTypes
<1>4. CASE AdminNext
  <2>1. ASSUME NEW c \in Capacities, SetCapacity(c) PROVE TypeInv'
    BY <2>1 DEF SetCapacity, TypeInv, TypeOK, TxShape
  <2>2. CASE DeleteReservations
    <3>1. rows' \in [RowId -> Row]
      BY <2>2, IdleTypes DEF DeleteReservations, TypeInv, TypeOK
    <3> QED
      BY <2>2, <3>1 DEF DeleteReservations, TypeInv, TypeOK, TxShape
  <2> QED
    BY <1>4, <2>1, <2>2 DEF AdminNext
<1>5. CASE Tick
  <2>1. now' \in 0 .. MaxTime /\ now <= now'
    BY <1>5, MaxTimeAssumption DEF Tick, TypeInv, TypeOK
  <2>2. \A p \in Reserver : reserve[p].start \in Nat
    BY DEF TypeInv, TypeOK, ReserveTx
  <2>3. TxShape'
    BY <1>5, <2>1, <2>2, MaxTimeAssumption DEF Tick, TypeInv, TypeOK, TxShape
  <2> QED
    BY <1>5, <2>1, <2>3 DEF Tick, TypeInv, TypeOK
<1>6. CASE UNCHANGED vars
  BY <1>6 DEF vars, TypeInv, TypeOK, TxShape
<1> QED
  BY <1>1, <1>2, <1>3, <1>4, <1>5, <1>6 DEF Next

LEMMA TypeInvInit == Init => TypeInv
<1> SUFFICES ASSUME Init PROVE TypeInv
  OBVIOUS
<1>1. IdleReserve.pc = "idle" /\ IdleReserve.start = 0 /\ IdleUpdate.pc = "idle"
  BY DEF IdleReserve, IdleUpdate
<1> QED
  BY <1>1, IdleTypes, MaxTimeAssumption DEF Init, TypeInv, TypeOK, TxShape, InEventLock

\* Type correctness: every reachable state of the tables, locks and
\* transactions of ReserveEvent, UpdateReservation and RefreshEventStatus is
\* well typed; in particular no row of more than max_reserve_per_user seats is
\* ever committed.
THEOREM TypeCorrect == Spec => []TypeOK
<1>1. TypeInv => TypeOK
  BY DEF TypeInv
<1> QED
  BY <1>1, TypeInvInit, TypeInvNext, PTL DEF Spec

-----------------------------------------------------------------------------
(* The locks.                                                              *)

LockInv == EventLockInv /\ RowLockInv /\ LateInv

\* Giving up the locks of a session leaves those of the others in place.
LEMMA UnlockedOthers ==
    ASSUME NEW p, NEW p2, NEW r \in RowId, p2 # p, rowLock[r] = p2
    PROVE  Unlocked(p)[r] = p2
BY DEF Unlocked

\* Steps of a reserve transaction that leave the table alone and lock at most
\* one free row.
LEMMA RowLocksKept ==
    ASSUME TypeInv, RowLockInv, LateInv, UNCHANGED <<rows, late, update, sweep>>,
           NEW p \in Reserver,
           \/ UNCHANGED rowLock
           \/ rowLock' = Unlocked(p)
           \/ \E r \in RowId : Free(r) /\ rowLock' = [rowLock EXCEPT ![r] = p]
    PROVE  (RowLockInv /\ LateInv)'
<1>1. ASSUME NEW q \in Updater \cup Sweeper, NEW r \in RowId, rowLock[r] = q
      PROVE  rowLock'[r] = q
  BY <1>1, SessionsAssumption, UnlockedOthers DEF Free, TypeInv, TypeOK
<1>2. \A q \in Updater : update[q].pc = "locked" => update[q].id \in RowId
  BY DEF TypeInv, TxShape
<1>3. \A s \in Sweeper : sweep[s].locked \subseteq RowId
  BY DEF TypeInv, TypeOK, SweepTx
<1> QED
  BY <1>1, <1>2, <1>3 DEF RowLockInv, LateInv

LEMMA ReserveLocks ==
    ASSUME TypeInv, LockInv, NEW p \in Reserver, ReserveNext(p)
    PROVE  LockInv'
<1> USE DEF InEventLock
<1> DEFINE t == reserve[p]
<1>0. /\ t \in ReserveTx /\ now \in Nat /\ capacity \in Nat
      /\ reserve \in [Reserver -> ReserveTx]
      /\ p # NoOne
  BY MaxTimeAssumption, CapacitiesAssumption, SessionsAssumption DEF TypeInv, TypeOK
<1> HIDE DEF t
<1>1. ASSUME NEW u \in User, NEW q \in Quantities, NEW k \in Key \cup {NoKey},
             ReserveBegin(p, u, q, k)
      PROVE  LockInv'
  <2>1. Begun(u, q, k).pc = "begun"
    BY <1>0, BegunFields
  <2>2. EventLockInv'
    BY <1>0, <1>1, <2>1 DEF ReserveBegin, LockInv, EventLockInv
  <2> QED
    BY <1>1, <2>2, RowLocksKept DEF ReserveBegin, LockInv
<1>2. ASSUME ReserveLock(p) PROVE LockInv'
  <2>1. CASE Ends(p) /\ UNCHANGED eventLock
    BY <1>0, <1>2, <2>1 DEF Ends, ReserveLock, LockInv, EventLockInv, RowLockInv, LateInv
  <2>2. CASE /\ reserve' = [reserve EXCEPT ![p] = Locked(t)]
             /\ eventLock' = p
    <3>1. Locked(t).pc = "locked" /\ Locked(t).cap = capacity
      BY <1>0, LockedFields
    <3>2. EventLockInv'
      BY <1>0, <1>2, <2>2, <3>1, SessionsAssumption
         DEF ReserveLock, LockInv, EventLockInv, EventRowFree
    <3> QED
      BY <1>2, <3>2, RowLocksKept DEF ReserveLock, LockInv
  <2> QED
    BY <1>2, <2>1, <2>2, LockSteps DEF t
<1>3. ASSUME ReserveSum(p) PROVE LockInv'
  <2> DEFINE active == SeatCount(rows, ActiveRows(rows, t.start))
             mine == SeatCount(rows, OfUser(rows, ActiveRows(rows, t.start), t.user))
             n == Summed(t, active, mine)
  <2>1. t.pc = "locked"
    BY <1>3 DEF ReserveSum, t
  <2>2. \/ Ends(p) /\ eventLock' = NoOne
        \/ reserve' = [reserve EXCEPT ![p] = n] /\ UNCHANGED eventLock
    BY <1>3, SumSteps DEF t
  <2>a. active \in Nat /\ mine \in Nat
    BY SumsAreNatural
  <2> HIDE DEF active, mine
  <2>3. n.pc = "summed" /\ n.cap = t.cap
    BY <1>0, <2>a, SummedFields
  <2> HIDE DEF n
  <2>4. EventLockInv'
    BY <1>0, <1>3, <2>1, <2>2, <2>3, SessionsAssumption
       DEF Ends, ReserveSum, LockInv, EventLockInv, t
  <2> QED
    BY <1>3, <2>4, RowLocksKept DEF ReserveSum, LockInv
<1>4. ASSUME ReserveInsert(p) PROVE LockInv'
  <2>1. t.pc = "summed"
    BY <1>4 DEF ReserveInsert, t
  <2>2. PICK r \in RowId :
           \/ /\ rows[r].status = "absent"
              /\ reserve' = [reserve EXCEPT ![p] = Inserted(t, r)]
              /\ UNCHANGED rowLock
           \/ /\ Free(r)
              /\ reserve' = [reserve EXCEPT ![p] = Replayed(t, r)]
              /\ rowLock' = [rowLock EXCEPT ![r] = p]
    BY <1>4 DEF ReserveInsert, Conflicting, t
  <2>3. PICK n \in {Inserted(t, r), Replayed(t, r)} :
           /\ reserve' = [reserve EXCEPT ![p] = n]
           /\ n.fresh => rows[r].status = "absent"
    BY <1>0, <2>2, ReplayedNotFresh
  <2>4. n.pc = "inserted" /\ n.id = r /\ n.cap = t.cap
    BY <1>0, InsertedFields
  <2>5. EventLockInv'
    BY <1>0, <1>4, <2>1, <2>3, <2>4 DEF ReserveInsert, LockInv, EventLockInv, t
  <2>6. (RowLockInv /\ LateInv)'
    BY <1>4, <2>2, RowLocksKept DEF ReserveInsert, LockInv
  <2> QED
    BY <2>5, <2>6 DEF LockInv
<1>5. ASSUME ReserveCommit(p) PROVE LockInv'
  <2>1. t.pc = "inserted" /\ eventLock = p /\ t.id \in RowId
    BY <1>5 DEF ReserveCommit, TypeInv, TxShape, LockInv, EventLockInv, t
  <2>2. \A q \in Reserver : q # p => reserve[q].pc \notin InEventLock
    BY <2>1 DEF LockInv, EventLockInv
  <2>3. Ends(p) /\ eventLock' = NoOne /\ UNCHANGED capacity
    BY <1>5, CommitEnds DEF ReserveCommit
  <2>4. EventLockInv'
    BY <1>0, <2>2, <2>3, SessionsAssumption DEF Ends, EventLockInv
  <2>5. t.fresh => rows[t.id].status = "absent"
    BY <2>1 DEF LockInv, EventLockInv, t
  <2>6. \A r \in RowId : rows[r].status # "absent" => rows'[r] = rows[r]
    BY <1>5, <2>1, <2>5 DEF ReserveCommit, Committed, TypeInv, TypeOK, t
  <2>7. ASSUME NEW q \in Updater \cup Sweeper, NEW r \in RowId, rowLock[r] = q
        PROVE  rowLock'[r] = q
    BY <1>5, <2>7, SessionsAssumption, UnlockedOthers DEF ReserveCommit
  <2>8. \A q \in Updater : update[q].pc = "locked" => update[q].id \in RowId
    BY DEF TypeInv, TxShape
  <2>9. \A s \in Sweeper : sweep[s].locked \subseteq RowId
    BY DEF TypeInv, TypeOK, SweepTx
  <2>10. RowLockInv'
    BY <1>5, <2>6, <2>7, <2>8, <2>9 DEF ReserveCommit, LockInv, RowLockInv
  <2>11. LateInv'
    BY <1>5, <2>6 DEF ReserveCommit, LockInv, LateInv, TypeInv, TypeOK
  <2> QED
    BY <2>4, <2>10, <2>11 DEF LockInv
<1>6. ASSUME ReserveAbort(p) PROVE LockInv'
  <2>1. Ends(p)
    BY <1>6, AbortEnds
  <2>2. EventLockInv'
    BY <1>0, <1>6, <2>1, SessionsAssumption DEF Ends, ReserveAbort, LockInv, EventLockInv
  <2>3. (RowLockInv /\ LateInv)'
    BY <1>6, RowLocksKept DEF ReserveAbort, LockInv
  <2> QED
    BY <2>2, <2>3 DEF LockInv
<1>7. ASSUME ReserveReturn(p) PROVE LockInv'
  <2>1. IdleReserve.pc = "idle"
    BY DEF IdleReserve
  <2>2. EventLockInv'
    BY <1>0, <1>7, <2>1 DEF ReserveReturn, LockInv, EventLockInv
  <2> QED
    BY <1>7, <2>2, RowLocksKept DEF ReserveReturn, LockInv
<1> QED
  BY <1>1, <1>2, <1>3, <1>4, <1>5, <1>6, <1>7 DEF ReserveNext

LEMMA UpdateLocks ==
    ASSUME TypeInv, LockInv, NEW p \in Updater, UpdateNext(p)
    PROVE  LockInv'
<1> DEFINE t == update[p]
<1>0. /\ t \in UpdateTx /\ update \in [Updater -> UpdateTx] /\ rows \in [RowId -> Row]
      /\ p # NoOne /\ p \notin Sweeper
      /\ \A q \in Updater : update[q].pc # "idle" => update[q].id \in RowId
      /\ \A s \in Sweeper : sweep[s].locked \subseteq RowId
  BY SessionsAssumption DEF TypeInv, TypeOK, TxShape, SweepTx
<1>i. IdleUpdate.pc = "idle"
  BY DEF IdleUpdate
<1>u. ASSUME rowLock' = Unlocked(p), NEW q \in Updater \cup Sweeper, q # p,
             NEW r \in RowId, rowLock[r] = q
      PROVE  rowLock'[r] = q
  BY <1>u, UnlockedOthers
<1>1. ASSUME NEW u \in User, NEW r \in RowId, NEW st \in {"confirmed", "released"},
             UpdateBegin(p, u, r, st)
      PROVE  LockInv'
  <2>1. RowLockInv'
    BY <1>0, <1>1 DEF UpdateBegin, LockInv, RowLockInv
  <2> QED
    BY <1>1, <2>1 DEF UpdateBegin, LockInv, EventLockInv, LateInv
<1>2. ASSUME UpdateRow(p) PROVE LockInv'
  <2>1. t.pc = "begun" /\ t.id \in RowId
    BY <1>0, <1>2 DEF UpdateRow
  <2>2. EventLockInv' /\ LateInv'
    BY <1>2 DEF UpdateRow, LockInv, EventLockInv, LateInv
  <2>3. CASE update' = [update EXCEPT ![p] = IdleUpdate] /\ UNCHANGED rowLock
    BY <1>0, <1>i, <1>2, <2>2, <2>3 DEF UpdateRow, LockInv, RowLockInv
  <2>4. CASE /\ Updatable(t.id, t.user, t.start)
             /\ Free(t.id)
             /\ update' = [update EXCEPT ![p] = [t EXCEPT !.pc = "locked"]]
             /\ rowLock' = [rowLock EXCEPT ![t.id] = p]
    <3> DEFINE n == [t EXCEPT !.pc = "locked"]
    <3>1. n.id = t.id
      BY <1>0 DEF UpdateTx
    <3>2. rowLock'[t.id] = p /\ rows[t.id].status = "held"
      BY <2>1, <2>4 DEF TypeInv, TypeOK, Updatable
    <3>3. ASSUME NEW q \in Updater \cup Sweeper, NEW r \in RowId, rowLock[r] = q
          PROVE  rowLock'[r] = q
      BY <2>1, <2>4, <3>3, SessionsAssumption DEF Free, TypeInv, TypeOK
    <3>4. update' = [update EXCEPT ![p] = n] /\ UNCHANGED <<rows, sweep>>
      BY <1>2, <2>4 DEF UpdateRow
    <3> HIDE DEF n
    <3>5. RowLockInv'
      BY <1>0, <3>1, <3>2, <3>3, <3>4 DEF LockInv, RowLockInv
    <3> QED
      BY <2>2, <3>5 DEF LockInv
  <2> QED
    BY <1>2, <2>3, <2>4 DEF UpdateRow
<1>3. ASSUME UpdateCommit(p) PROVE LockInv'
  <2>1. t.pc = "locked" /\ t.id \in RowId /\ rows[t.id].status = "held" /\ rowLock[t.id] = p
    BY <1>0, <1>3 DEF UpdateCommit, LockInv, RowLockInv
  <2>2. \A r \in RowId : r # t.id => rows'[r] = rows[r]
    BY <1>0, <1>3, <2>1 DEF UpdateCommit
  <2>3. rows'[t.id].status = t.status
    BY <1>0, <1>3, <2>1 DEF UpdateCommit, Row
  <2>4. EventLockInv'
    <3>1. \A q \in Reserver : reserve[q].pc = "inserted" => reserve[q].id \in RowId
      BY DEF TypeInv, TxShape
    <3> QED
      BY <1>3, <2>1, <2>2, <3>1 DEF UpdateCommit, LockInv, EventLockInv
  <2>5. RowLockInv'
    <3>1. ASSUME NEW q \in Updater, update'[q].pc = "locked"
          PROVE  q # p /\ update'[q] = update[q]
      BY <1>0, <1>i, <1>3, <3>1 DEF UpdateCommit
    <3>2. ASSUME NEW q \in Updater \cup Sweeper, NEW r \in RowId, q # p, rowLock[r] = q
          PROVE  rowLock'[r] = q /\ rows'[r] = rows[r]
      BY <1>u, <1>3, <2>1, <2>2, <3>2 DEF UpdateCommit
    <3> QED
      BY <1>0, <1>3, <3>1, <3>2 DEF UpdateCommit, LockInv, RowLockInv
  <2>6. LateInv'
    BY <1>3, <2>1, <2>2, <2>3 DEF UpdateCommit, LockInv, LateInv, TypeInv, TypeOK
  <2> QED
    BY <2>4, <2>5, <2>6 DEF LockInv
<1>4. ASSUME UpdateAbort(p) PROVE LockInv'
  <2>1. RowLockInv'
    BY <1>0, <1>i, <1>u, <1>4 DEF UpdateAbort, LockInv, RowLockInv
  <2> QED
    BY <1>4, <2>1 DEF UpdateAbort, LockInv, EventLockInv, LateInv
<1> QED
  BY <1>1, <1>2, <1>3, <1>4 DEF UpdateNext

LEMMA SweepLocks ==
    ASSUME TypeInv, LockInv, NEW s \in Sweeper, SweepNext(s)
    PROVE  LockInv'
<1> DEFINE t == sweep[s]
<1>0. /\ t \in SweepTx /\ sweep \in [Sweeper -> SweepTx] /\ rows \in [RowId -> Row]
      /\ s # NoOne /\ s \notin Updater
      /\ \A q \in Updater : update[q].pc # "idle" => update[q].id \in RowId
      /\ \A s2 \in Sweeper : sweep[s2].locked \subseteq RowId
  BY SessionsAssumption DEF TypeInv, TypeOK, TxShape, SweepTx
<1>i. IdleSweep.locked = {}
  BY DEF IdleSweep
<1>u. ASSUME rowLock' = Unlocked(s), NEW q \in Updater \cup Sweeper, q # s,
             NEW r \in RowId, rowLock[r] = q
      PROVE  rowLock'[r] = q
  BY <1>u, UnlockedOthers
<1>1. CASE SweepBegin(s)
  <2>1. RowLockInv'
    BY <1>0, <1>1 DEF SweepBegin, LockInv, RowLockInv
  <2> QED
    BY <1>1, <2>1 DEF SweepBegin, LockInv, EventLockInv, LateInv
<1>2. ASSUME NEW r \in RowId, SweepRow(s, r) PROVE LockInv'
  <2>1. EventLockInv' /\ LateInv'
    BY <1>2 DEF SweepRow, LockInv, EventLockInv, LateInv
  <2>2. PICK n :
           /\ sweep' = [sweep EXCEPT ![s] = n]
           /\ \/ /\ n.locked = t.locked \cup {r}
                 /\ rows[r].status = "held"
                 /\ rowLock' = [rowLock EXCEPT ![r] = s]
              \/ /\ n.locked = t.locked
                 /\ UNCHANGED rowLock
    <3>1. CASE /\ rows[r].status = "held"
               /\ sweep' = [sweep EXCEPT ![s] = [t EXCEPT !.todo = t.todo \ {r},
                                                          !.locked = t.locked \cup {r}]]
               /\ rowLock' = [rowLock EXCEPT ![r] = s]
      <4> DEFINE n == [t EXCEPT !.todo = t.todo \ {r}, !.locked = t.locked \cup {r}]
      <4>1. n.locked = t.locked \cup {r}
        BY <1>0 DEF SweepTx
      <4> HIDE DEF n
      <4>2. sweep' = [sweep EXCEPT ![s] = n]
        BY <3>1 DEF n
      <4> QED BY <3>1, <4>1, <4>2
    <3>2. CASE /\ sweep' = [sweep EXCEPT ![s] = [t EXCEPT !.todo = t.todo \ {r}]]
               /\ UNCHANGED rowLock
      <4> DEFINE n == [t EXCEPT !.todo = t.todo \ {r}]
      <4>1. n.locked = t.locked
        BY <1>0 DEF SweepTx
      <4> HIDE DEF n
      <4>2. sweep' = [sweep EXCEPT ![s] = n]
        BY <3>2 DEF n
      <4> QED BY <3>2, <4>1, <4>2
    <3> QED
      BY <1>2, <3>1, <3>2 DEF SweepRow
  <2>3. ASSUME NEW q \in Updater \cup Sweeper, NEW r2 \in RowId, rowLock[r2] = q
        PROVE  rowLock'[r2] = q
    BY <1>2, <2>2, <2>3, SessionsAssumption DEF SweepRow, Free, TypeInv, TypeOK
  <2>4. UNCHANGED <<rows, update>> /\ rowLock \in [RowId -> Reserver \cup Updater \cup Sweeper \cup {NoOne}]
    BY <1>2 DEF SweepRow, TypeInv, TypeOK
  <2>5. RowLockInv'
    BY <1>0, <2>2, <2>3, <2>4 DEF LockInv, RowLockInv
  <2> QED
    BY <2>1, <2>5 DEF LockInv
<1>3. CASE SweepCommit(s)
  <2>1. \A r \in t.locked : r \in RowId /\ rows[r].status = "held" /\ rowLock[r] = s
    BY <1>0 DEF LockInv, RowLockInv
  <2>2. \A r \in RowId : r \notin t.locked => rows'[r] = rows[r]
    BY <1>3 DEF SweepCommit
  <2>3. EventLockInv'
    <3>1. \A q \in Reserver : reserve[q].pc = "inserted" => reserve[q].id \in RowId
      BY DEF TypeInv, TxShape
    <3> QED
      BY <1>3, <2>1, <2>2, <3>1 DEF SweepCommit, LockInv, EventLockInv
  <2>4. RowLockInv'
    <3>1. ASSUME NEW q \in Updater \cup Sweeper, NEW r \in RowId, q # s, rowLock[r] = q
          PROVE  rowLock'[r] = q /\ rows'[r] = rows[r]
      BY <1>u, <1>3, <2>1, <2>2, <3>1 DEF SweepCommit
    <3> QED
      BY <1>0, <1>i, <1>3, <3>1 DEF SweepCommit, LockInv, RowLockInv
  <2>5. LateInv'
    BY <1>3, <2>1, <2>2 DEF SweepCommit, LockInv, LateInv, TypeInv, TypeOK
  <2> QED
    BY <2>3, <2>4, <2>5 DEF LockInv
<1>4. CASE SweepAbort(s)
  <2>1. RowLockInv'
    BY <1>0, <1>i, <1>u, <1>4 DEF SweepAbort, LockInv, RowLockInv
  <2> QED
    BY <1>4, <2>1 DEF SweepAbort, LockInv, EventLockInv, LateInv
<1> QED
  BY <1>1, <1>2, <1>3, <1>4 DEF SweepNext

LEMMA LockInvNext == TypeInv /\ LockInv /\ [Next]_vars => LockInv'
<1> SUFFICES ASSUME TypeInv, LockInv, [Next]_vars PROVE LockInv'
  OBVIOUS
<1>1. CASE AdminNext
  <2>1. ASSUME NEW c \in Capacities, SetCapacity(c) PROVE LockInv'
    BY <2>1, SessionsAssumption
       DEF SetCapacity, EventRowFree, LockInv, EventLockInv, RowLockInv, LateInv, InEventLock
  <2>2. CASE DeleteReservations
    <3>1. \A r \in RowId : rows[r].status = "absent" => rows'[r] = rows[r]
      BY <2>2 DEF DeleteReservations
    <3>2. EventLockInv'
      BY <2>2, <3>1 DEF DeleteReservations, LockInv, EventLockInv, TypeInv, TxShape
    <3>3. RowLockInv'
      BY <2>2, SessionsAssumption
         DEF DeleteReservations, Free, LockInv, RowLockInv, TypeInv, TypeOK, TxShape, SweepTx
    <3> QED
      BY <2>2, <3>2, <3>3 DEF DeleteReservations, LockInv, LateInv
  <2> QED
    BY <1>1, <2>1, <2>2 DEF AdminNext
<1>2. CASE Tick \/ UNCHANGED vars
  BY <1>2 DEF Tick, vars, LockInv, EventLockInv, RowLockInv, LateInv
<1> QED
  BY <1>1, <1>2, ReserveLocks, UpdateLocks, SweepLocks DEF Next

LEMMA LockInvInit == Init => LockInv
<1>1. IdleReserve.pc = "idle" /\ IdleUpdate.pc = "idle" /\ IdleSweep.locked = {}
  BY DEF IdleReserve, IdleUpdate, IdleSweep
<1> QED
  BY <1>1, SessionsAssumption
     DEF Init, LockInv, EventLockInv, RowLockInv, LateInv, InEventLock

\* A settled reservation stays settled: SettledOnce, for any number of
\* concurrent confirms, releases, sweeps and reserves.  A transaction that
\* changes a status holds the row's lock, and the row it holds is a hold.
THEOREM StatusIsFinal == Spec => SettledOnce
<1> DEFINE Keeps == \A r \in RowId :
                       rows[r].status \in {"confirmed", "released", "expired"}
                       => rows'[r].status \in {rows[r].status, "deleted"}
<1>1. ASSUME TypeInv, LockInv, [Next]_vars PROVE [Keeps]_vars
  <2>1. ASSUME NEW p \in Reserver, ReserveCommit(p) PROVE Keeps
    <3>1. /\ reserve[p].id \in RowId
          /\ reserve[p].fresh => rows[reserve[p].id].status = "absent"
      BY <1>1, <2>1 DEF ReserveCommit, TypeInv, TxShape, LockInv, EventLockInv
    <3> QED
      BY <1>1, <2>1, <3>1 DEF ReserveCommit, Committed, TypeInv, TypeOK
  <2>2. ASSUME NEW p \in Updater, UpdateCommit(p) PROVE Keeps
    <3>1. update[p].id \in RowId /\ rows[update[p].id].status = "held"
      BY <1>1, <2>2 DEF UpdateCommit, TypeInv, TxShape, LockInv, RowLockInv
    <3> QED
      BY <1>1, <2>2, <3>1 DEF UpdateCommit, TypeInv, TypeOK
  <2>3. ASSUME NEW s \in Sweeper, SweepCommit(s) PROVE Keeps
    <3>1. \A r \in sweep[s].locked : rows[r].status = "held"
      BY <1>1 DEF LockInv, RowLockInv
    <3> QED
      BY <2>3, <3>1 DEF SweepCommit
  <2>4. CASE DeleteReservations
    <3>1. [AbsentRow EXCEPT !.status = "deleted"].status = "deleted"
      BY DEF AbsentRow
    <3> QED
      BY <2>4, <3>1 DEF DeleteReservations
  <2>5. CASE UNCHANGED rows
    BY <2>5
  <2>6. \/ UNCHANGED rows
        \/ \E p \in Reserver : ReserveCommit(p)
        \/ \E p \in Updater : UpdateCommit(p)
        \/ \E s \in Sweeper : SweepCommit(s)
        \/ DeleteReservations
    BY <1>1 DEF Next, vars, ReserveNext, UpdateNext, SweepNext, AdminNext,
          ReserveBegin, ReserveLock, ReserveSum, ReserveInsert, ReserveAbort,
          ReserveReturn, UpdateBegin, UpdateRow, UpdateAbort, SweepBegin, SweepRow,
          SweepAbort, SetCapacity, Tick
  <2> QED
    BY <2>1, <2>2, <2>3, <2>4, <2>5, <2>6
<1> QED
  BY <1>1, TypeInvInit, TypeInvNext, LockInvInit, LockInvNext, PTL DEF Spec, SettledOnce

-----------------------------------------------------------------------------
(* No overselling.                                                         *)

\* The steps that change what the SUMs range over.
LEMMA RowSteps ==
    ASSUME [Next]_vars
    PROVE  \/ UNCHANGED <<rows, late>> /\ (now' = now \/ Tick)
           \/ \E p \in Reserver : ReserveCommit(p)
           \/ \E p \in Updater : UpdateCommit(p)
           \/ \E s \in Sweeper : SweepCommit(s)
           \/ DeleteReservations
BY DEF Next, vars, ReserveNext, UpdateNext, SweepNext, AdminNext,
       ReserveBegin, ReserveLock, ReserveSum, ReserveInsert, ReserveAbort,
       ReserveReturn, UpdateBegin, UpdateRow, UpdateAbort, SweepBegin, SweepRow,
       SweepAbort, SetCapacity, Tick

Timely == TimelyRows(rows, late, now)

\* Only the commit of a reserve transaction adds a timely row: every other
\* step can at most take rows away.
LEMMA TimelyShrinks ==
    ASSUME TypeInv, LockInv, [Next]_vars, \A p \in Reserver : ~ReserveCommit(p)
    PROVE  \A r \in Timely' : /\ r \in Timely
                              /\ rows'[r].quantity = rows[r].quantity
                              /\ rows'[r].user = rows[r].user
<1> USE DEF Timely, TimelyRows, ActiveRows
<1>0. rows \in [RowId -> Row] /\ now \in Nat
  BY MaxTimeAssumption DEF TypeInv, TypeOK
<1>1. CASE UNCHANGED <<rows, late>> /\ now' = now
  BY <1>1
<1>2. CASE UNCHANGED <<rows, late>> /\ Tick
  <2>1. \A r \in RowId : rows[r].expires \in Nat
    BY <1>0 DEF Row
  <2>2. now' = now + 1
    BY <1>2 DEF Tick
  <2> QED
    BY <1>0, <1>2, <2>1, <2>2
<1>3. ASSUME NEW p \in Updater, UpdateCommit(p)
      PROVE  \A r \in Timely' : /\ r \in Timely
                                /\ rows'[r].quantity = rows[r].quantity
                                /\ rows'[r].user = rows[r].user
  <2> DEFINE t == update[p]
  <2>1. t.id \in RowId /\ rows[t.id].status = "held" /\ t.id \notin late
    BY <1>3 DEF UpdateCommit, TypeInv, TxShape, LockInv, RowLockInv, LateInv
  <2>2. t.status \in {"confirmed", "released"}
    BY DEF TypeInv, TypeOK, UpdateTx
  <2>3. /\ \A r \in RowId : r # t.id => rows'[r] = rows[r]
        /\ rows'[t.id].status = t.status
        /\ rows'[t.id].quantity = rows[t.id].quantity
        /\ rows'[t.id].user = rows[t.id].user
    BY <1>0, <1>3, <2>1 DEF UpdateCommit, Row
  <2>4. t.id \in Timely' => rows[t.id].expires > now
    <3>1. rows[t.id].expires \in Nat
      BY <1>0, <2>1 DEF Row
    <3>2. t.status = "confirmed" /\ rows[t.id].expires <= now => t.id \in late'
      BY <1>3 DEF UpdateCommit
    <3> QED
      BY <1>0, <2>2, <2>3, <3>1, <3>2
  <2>5. late \subseteq late' /\ now' = now
    BY <1>3 DEF UpdateCommit
  <2> HIDE DEF t
  <2> QED
    BY <2>1, <2>3, <2>4, <2>5
<1>4. ASSUME NEW s \in Sweeper, SweepCommit(s)
      PROVE  \A r \in Timely' : /\ r \in Timely
                                /\ rows'[r].quantity = rows[r].quantity
                                /\ rows'[r].user = rows[r].user
  <2>1. \A r \in sweep[s].locked : r \in RowId => rows'[r].status = "expired"
    BY <1>0, <1>4 DEF SweepCommit, Row
  <2>2. \A r \in RowId : r \notin sweep[s].locked => rows'[r] = rows[r]
    BY <1>4 DEF SweepCommit
  <2> QED
    BY <1>4, <2>1, <2>2 DEF SweepCommit
<1>5. CASE DeleteReservations
  <2>1. [AbsentRow EXCEPT !.status = "deleted"].status = "deleted"
    BY DEF AbsentRow
  <2>2. \A r \in RowId : rows'[r].status \in {"absent", "deleted"}
    BY <1>5, <2>1 DEF DeleteReservations
  <2> QED
    BY <2>2
<1> QED
  BY <1>1, <1>2, <1>3, <1>4, <1>5, RowSteps

\* So the timely seats, and each user's, do not grow in such a step.
LEMMA SeatsShrink ==
    ASSUME TypeInv, LockInv, [Next]_vars, \A p \in Reserver : ~ReserveCommit(p)
    PROVE  /\ TimelySold' <= TimelySold
           /\ \A u : SeatCount(rows', OfUser(rows', Timely', u)) <= TimelySoldTo(u)
<1>1. Timely \in SUBSET RowId
  BY DEF Timely, TimelyRows, ActiveRows
<1>2. TimelySold' <= TimelySold
  <2>1. Timely' \in SUBSET Timely
    BY TimelyShrinks
  <2>2. SeatCount(rows', Timely') <= SeatCount(rows, Timely)
    BY <1>1, <2>1, TimelyShrinks, SeatCountMonotone
  <2> QED
    BY <2>2 DEF TimelySold, Timely
<1>3. ASSUME NEW u
      PROVE  SeatCount(rows', OfUser(rows', Timely', u)) <= TimelySoldTo(u)
  <2> DEFINE S == OfUser(rows, Timely, u)
             S2 == OfUser(rows', Timely', u)
  <2>1. S \in SUBSET RowId
    BY <1>1 DEF OfUser
  <2>2. S2 \in SUBSET S /\ \A r \in S2 : rows'[r].quantity = rows[r].quantity
    BY TimelyShrinks DEF OfUser
  <2>3. SeatCount(rows', S2) <= SeatCount(rows, S)
    <3> HIDE DEF S, S2
    <3> QED BY <2>1, <2>2, SeatCountMonotone
  <2> QED
    BY <2>3 DEF TimelySoldTo, Timely
<1> QED
  BY <1>2, <1>3

\* The commit of a reserve transaction adds at most its quantity, to the
\* event's seats and to its own user's, and nothing to another user's.
LEMMA CommitAdds ==
    ASSUME TypeInv, LockInv, NEW p \in Reserver, ReserveCommit(p)
    PROVE  /\ TimelySold' <= TimelySold + reserve[p].quantity
           /\ SeatCount(rows', OfUser(rows', Timely', reserve[p].user))
              <= TimelySoldTo(reserve[p].user) + reserve[p].quantity
           /\ \A u : u # reserve[p].user =>
                 SeatCount(rows', OfUser(rows', Timely', u)) <= TimelySoldTo(u)
<1> DEFINE t == reserve[p]
<1>1. /\ Timely \in SUBSET RowId /\ Timely' \in SUBSET RowId
      /\ rows \in [RowId -> Row]
      /\ t.id \in RowId /\ t.quantity \in 0 .. MaxReservePerUser /\ t.quantity \in Nat
  BY MaxReserveAssumption
     DEF Timely, TimelyRows, ActiveRows, ReserveCommit, TypeInv, TypeOK, TxShape,
         InEventLock, ReserveTx
<1>2. \A u : /\ OfUser(rows, Timely, u) \in SUBSET RowId
             /\ OfUser(rows', Timely', u) \in SUBSET RowId
  BY <1>1 DEF OfUser
<1>3. /\ TimelySold = SeatCount(rows, Timely)
      /\ TimelySold' = SeatCount(rows', Timely')
      /\ \A u : TimelySoldTo(u) = SeatCount(rows, OfUser(rows, Timely, u))
  BY DEF TimelySold, TimelySoldTo, Timely
<1>4. CASE ~t.fresh
  <2>1. rows' = rows /\ Timely' = Timely
    BY <1>4 DEF ReserveCommit, Committed, Timely
  <2>2. /\ SeatCount(rows, Timely) \in Nat
        /\ \A u : SeatCount(rows, OfUser(rows, Timely, u)) \in Nat
    BY <1>1, <1>2, SeatsFinite
  <2> HIDE DEF t
  <2>3. \A n, q \in Nat : n <= n + q
    OBVIOUS
  <2>4. \A n \in Nat : n <= n
    OBVIOUS
  <2> QED
    BY <1>1, <1>3, <2>1, <2>2, <2>3, <2>4 DEF t
<1>5. CASE t.fresh
  <2>1. /\ \A r \in RowId : r # t.id => rows'[r] = rows[r]
        /\ rows'[t.id].quantity = t.quantity
        /\ rows'[t.id].user = t.user
        /\ late' = late /\ now' = now
    BY <1>1, <1>5 DEF ReserveCommit, Committed
  <2>2. Timely' \subseteq Timely \cup {t.id}
    BY <2>1 DEF Timely, TimelyRows, ActiveRows
  <2>3. TimelySold' <= TimelySold + t.quantity
    <3> HIDE DEF t
    <3>1. SeatCount(rows', Timely') <= SeatCount(rows, Timely) + rows'[t.id].quantity
      BY <1>1, <2>1, <2>2, SeatCountAdd
    <3> QED
      BY <1>3, <2>1, <3>1
  <2>4. SeatCount(rows', OfUser(rows', Timely', t.user)) <= TimelySoldTo(t.user) + t.quantity
    <3> DEFINE S  == OfUser(rows, Timely, t.user)
               S2 == OfUser(rows', Timely', t.user)
    <3>1. S2 \subseteq S \cup {t.id}
      BY <1>1, <2>1, <2>2 DEF OfUser
    <3>2. S \in SUBSET RowId /\ S2 \in SUBSET RowId
      BY <1>2
    <3> HIDE DEF S, S2, t
    <3>3. SeatCount(rows', S2) <= SeatCount(rows, S) + rows'[t.id].quantity
      BY <1>1, <2>1, <3>1, <3>2, SeatCountAdd
    <3> QED
      BY <1>3, <2>1, <3>3 DEF S, S2
  <2>5. ASSUME NEW u, u # t.user
        PROVE  SeatCount(rows', OfUser(rows', Timely', u)) <= TimelySoldTo(u)
    <3> DEFINE S  == OfUser(rows, Timely, u)
               S2 == OfUser(rows', Timely', u)
    <3>1. S2 \in SUBSET S /\ \A r \in S2 : rows'[r].quantity = rows[r].quantity
      BY <1>1, <2>1, <2>2, <2>5 DEF OfUser
    <3>2. S \in SUBSET RowId
      BY <1>2
    <3> HIDE DEF S, S2
    <3>3. SeatCount(rows', S2) <= SeatCount(rows, S)
      BY <3>1, <3>2, SeatCountMonotone
    <3> QED
      BY <1>3, <3>3 DEF S, S2
  <2> QED
    BY <2>3, <2>4, <2>5
<1> QED
  BY <1>4, <1>5

\* What a reserve transaction sums counts every timely seat: it began no later
\* than now, so a hold that is live now was live then.
LEMMA SumCoversTimely ==
    ASSUME TypeInv, NEW at \in Nat, at <= now, NEW u
    PROVE  /\ TimelySold <= SeatCount(rows, ActiveRows(rows, at))
           /\ TimelySoldTo(u) <= SeatCount(rows, OfUser(rows, ActiveRows(rows, at), u))
<1> DEFINE A == ActiveRows(rows, at)
<1>1. \A r \in RowId : rows[r].expires \in Nat
  BY DEF TypeInv, TypeOK, Row
<1>2. now \in Nat
  BY MaxTimeAssumption DEF TypeInv, TypeOK
<1>3. A \in SUBSET RowId /\ Timely \in SUBSET A
  BY <1>1, <1>2 DEF Timely, TimelyRows, ActiveRows
<1>4. /\ OfUser(rows, A, u) \in SUBSET RowId
      /\ OfUser(rows, Timely, u) \in SUBSET OfUser(rows, A, u)
  BY <1>3 DEF OfUser
<1> HIDE DEF A
<1>5. SeatCount(rows, Timely) <= SeatCount(rows, A)
  BY <1>3, SeatCountMonotone
<1>6. SeatCount(rows, OfUser(rows, Timely, u)) <= SeatCount(rows, OfUser(rows, A, u))
  BY <1>4, SeatCountMonotone
<1> QED
  BY <1>5, <1>6 DEF TimelySold, TimelySoldTo, Timely, A

\* A transaction past its SUM either did the SUM in this very step or was past
\* it before, with the same request and the same sums.
LEMMA PastSum ==
    ASSUME TypeInv, [Next]_vars, NEW p \in Reserver,
           reserve'[p].pc \in {"summed", "inserted"}
    PROVE  \/ ReserveSum(p)
           \/ /\ reserve[p].pc \in {"summed", "inserted"}
              /\ reserve'[p].user = reserve[p].user
              /\ reserve'[p].quantity = reserve[p].quantity
              /\ reserve'[p].cap = reserve[p].cap
              /\ reserve'[p].active = reserve[p].active
              /\ reserve'[p].mine = reserve[p].mine
<1> DEFINE t == reserve[p]
<1>0. /\ t \in ReserveTx /\ now \in Nat /\ capacity \in Nat
      /\ reserve \in [Reserver -> ReserveTx]
  BY MaxTimeAssumption, CapacitiesAssumption DEF TypeInv, TypeOK
<1>1. CASE UNCHANGED reserve
  BY <1>1
<1>2. ASSUME NEW q \in Reserver, ReserveNext(q), q # p PROVE reserve'[p] = reserve[p]
  BY <1>0, <1>2 DEF ReserveNext, ReserveBegin, ReserveLock, ReserveSum, ReserveInsert,
                    ReserveCommit, ReserveAbort, ReserveReturn
<1>3. CASE ReserveNext(p) /\ ~ReserveSum(p)
  <2>1. \A n : reserve' = [reserve EXCEPT ![p] = n] => reserve'[p] = n
    BY <1>0
  <2>2. ~Ends(p)
    BY <2>1 DEF Ends
  <2>3. ASSUME NEW u \in User, NEW q \in Quantities, NEW k \in Key \cup {NoKey}
        PROVE  ~ReserveBegin(p, u, q, k)
    BY <1>0, <2>1, BegunFields DEF ReserveBegin
  <2>4. ~ReserveLock(p)
    <3> SUFFICES ASSUME ReserveLock(p) PROVE FALSE
      OBVIOUS
    <3>1. reserve'[p] = Locked(t)
      BY <2>1, <2>2, LockSteps
    <3> HIDE DEF t
    <3> QED BY <1>0, <3>1, LockedFields
  <2>5. ~ReserveCommit(p) /\ ~ReserveAbort(p)
    BY <2>2, CommitEnds, AbortEnds
  <2>6. ~ReserveReturn(p)
    BY <2>1 DEF ReserveReturn, IdleReserve
  <2>7. ReserveInsert(p)
    BY <1>3, <2>3, <2>4, <2>5, <2>6 DEF ReserveNext
  <2>8. t.pc = "summed"
    BY <2>7 DEF ReserveInsert
  <2>9. PICK r \in RowId : reserve'[p] \in {Inserted(t, r), Replayed(t, r)}
    BY <1>0, <2>7 DEF ReserveInsert, Conflicting
  <2> DEFINE n == reserve'[p]
  <2>10. /\ n.cap = t.cap /\ n.user = t.user /\ n.quantity = t.quantity
         /\ n.active = t.active /\ n.mine = t.mine
    <3> HIDE DEF t, n
    <3> QED BY <1>0, <2>9, InsertedFields DEF n
  <2> QED
    BY <2>8, <2>10
<1>4. \/ UNCHANGED reserve
      \/ \E q \in Reserver : ReserveNext(q)
  BY DEF Next, vars, UpdateNext, SweepNext, AdminNext, UpdateBegin, UpdateRow,
         UpdateCommit, UpdateAbort, SweepBegin, SweepRow, SweepCommit, SweepAbort,
         SetCapacity, DeleteReservations, Tick
<1> QED
  BY <1>1, <1>2, <1>3, <1>4

SaleInv == SumInv /\ CeilingInv /\ TimelyNoOversell /\ TimelyQuota

\* Every count of timely seats is a natural number.
LEMMA TimelyNatural ==
    /\ TimelySold \in Nat
    /\ \A u : TimelySoldTo(u) \in Nat
<1>1. Timely \in SUBSET RowId /\ \A u : OfUser(rows, Timely, u) \in SUBSET RowId
  BY DEF Timely, TimelyRows, ActiveRows, OfUser
<1> QED
  BY <1>1, SeatsFinite DEF TimelySold, TimelySoldTo, Timely

LEMMA TimelyNaturalNext ==
    /\ TimelySold' \in Nat
    /\ \A u : SeatCount(rows', OfUser(rows', Timely', u)) \in Nat
<1>1. Timely' \in SUBSET RowId /\ \A u : OfUser(rows', Timely', u) \in SUBSET RowId
  BY DEF Timely, TimelyRows, ActiveRows, OfUser
<1> QED
  BY <1>1, SeatsFinite DEF TimelySold, Timely

LEMMA SumInvNext ==
    ASSUME TypeInv, LockInv, SumInv, [Next]_vars, TypeInv'
    PROVE  SumInv'
<1> SUFFICES ASSUME NEW p \in Reserver, reserve'[p].pc \in {"summed", "inserted"}
             PROVE  /\ TimelySold' <= reserve'[p].active
                    /\ SeatCount(rows', OfUser(rows', Timely', reserve'[p].user))
                       <= reserve'[p].mine
                    /\ WithinCapacity(reserve'[p].active, reserve'[p].quantity,
                                      reserve'[p].cap)
                    /\ WithinQuota(reserve'[p].mine, reserve'[p].quantity)
  BY DEF SumInv, TimelySoldTo, Timely, WithinCapacity, WithinQuota
<1> DEFINE t == reserve[p]
           n == reserve'[p]
<1>0. /\ t \in ReserveTx /\ n \in ReserveTx /\ now \in Nat /\ t.start \in Nat
      /\ reserve \in [Reserver -> ReserveTx]
      /\ n.active \in Nat /\ n.mine \in Nat
      /\ t.start <= now
  BY MaxTimeAssumption DEF TypeInv, TypeOK, ReserveTx, TxShape
<1>1. \A q \in Reserver : ~ReserveCommit(q)
  <2> SUFFICES ASSUME NEW q \in Reserver, ReserveCommit(q) PROVE FALSE
    OBVIOUS
  <2>1. q # p
    BY <1>0, CommitEnds DEF Ends
  <2>2. reserve'[p] = reserve[p]
    BY <1>0, <2>1, CommitEnds DEF Ends
  <2> QED
    BY <2>1, <2>2 DEF ReserveCommit, LockInv, EventLockInv, InEventLock
<1>2. /\ TimelySold' <= TimelySold
      /\ \A u : SeatCount(rows', OfUser(rows', Timely', u)) <= TimelySoldTo(u)
  BY <1>1, SeatsShrink
<1>3. CASE ReserveSum(p)
  <2> DEFINE active == SeatCount(rows, ActiveRows(rows, t.start))
             mine == SeatCount(rows, OfUser(rows, ActiveRows(rows, t.start), t.user))
  <2>1. ~Ends(p)
    BY <1>0 DEF Ends
  <2>2. /\ reserve' = [reserve EXCEPT ![p] = Summed(t, active, mine)]
        /\ WithinQuota(mine, t.quantity)
        /\ WithinCapacity(active, t.quantity, t.cap)
    BY <1>3, <2>1, SumSteps
  <2>3. active \in Nat /\ mine \in Nat
    BY SumsAreNatural
  <2>4. TimelySold <= active /\ TimelySoldTo(t.user) <= mine
    BY <1>0, SumCoversTimely
  <2>5. n = Summed(t, active, mine)
    BY <1>0, <2>2
  <2> HIDE DEF t, n, active, mine
  <2>6. /\ n.user = t.user /\ n.quantity = t.quantity /\ n.cap = t.cap
        /\ n.active = active /\ n.mine = mine
    <3> DEFINE m == Summed(t, active, mine)
    <3>1. t \in ReserveTx
      BY <1>0
    <3>2. /\ m.user = t.user /\ m.quantity = t.quantity /\ m.cap = t.cap
          /\ m.active = active /\ m.mine = mine
      BY <2>3, <3>1, SummedFields
    <3> HIDE DEF m
    <3> QED BY <2>5, <3>2 DEF m
  <2>7. /\ WithinQuota(n.mine, n.quantity)
        /\ WithinCapacity(n.active, n.quantity, n.cap)
    BY <2>2, <2>6
  <2>8. TimelySold' <= n.active
    BY <1>2, <2>3, <2>4, <2>6, TimelyNatural, TimelyNaturalNext
  <2>9. SeatCount(rows', OfUser(rows', Timely', n.user)) <= n.mine
    BY <1>2, <2>3, <2>4, <2>6, TimelyNatural, TimelyNaturalNext
  <2> QED
    BY <2>7, <2>8, <2>9 DEF n
<1>4. CASE ~ReserveSum(p)
  <2>1. /\ t.pc \in {"summed", "inserted"}
        /\ n.user = t.user /\ n.quantity = t.quantity /\ n.cap = t.cap
        /\ n.active = t.active /\ n.mine = t.mine
    BY <1>4, PastSum
  <2>2. /\ TimelySold <= t.active
        /\ TimelySoldTo(t.user) <= t.mine
        /\ WithinCapacity(t.active, t.quantity, t.cap)
        /\ WithinQuota(t.mine, t.quantity)
    BY <2>1 DEF SumInv
  <2> HIDE DEF t, n
  <2>3. TimelySold' <= n.active
    BY <1>0, <1>2, <2>1, <2>2, TimelyNatural, TimelyNaturalNext
  <2>4. SeatCount(rows', OfUser(rows', Timely', n.user)) <= n.mine
    BY <1>0, <1>2, <2>1, <2>2, TimelyNatural, TimelyNaturalNext
  <2> QED
    BY <2>1, <2>2, <2>3, <2>4 DEF n
<1> QED
  BY <1>3, <1>4

LEMMA SaleInvNext ==
    ASSUME TypeInv, LockInv, SaleInv, [Next]_vars, TypeInv'
    PROVE  SaleInv'
<1>1. SumInv'
  BY SumInvNext DEF SaleInv
<1>2. CeilingInv' /\ ceiling <= ceiling'
  <2>1. capacity \in Nat /\ ceiling \in Nat
    BY CapacitiesAssumption DEF TypeInv, TypeOK
  <2>2. ASSUME NEW c \in Capacities, SetCapacity(c) PROVE CeilingInv' /\ ceiling <= ceiling'
    BY <2>1, <2>2, CapacitiesAssumption DEF SetCapacity, SaleInv, CeilingInv
  <2>3. UNCHANGED <<capacity, ceiling>> \/ \E c \in Capacities : SetCapacity(c)
    BY DEF Next, vars, ReserveNext, UpdateNext, SweepNext, AdminNext,
           ReserveBegin, ReserveLock, ReserveSum, ReserveInsert, ReserveCommit,
           ReserveAbort, ReserveReturn, UpdateBegin, UpdateRow, UpdateCommit,
           UpdateAbort, SweepBegin, SweepRow, SweepCommit, SweepAbort,
           DeleteReservations, Tick
  <2> QED
    BY <2>1, <2>2, <2>3 DEF SaleInv, CeilingInv
<1>3. /\ ceiling \in Nat /\ ceiling' \in Nat /\ capacity \in Nat
  BY CapacitiesAssumption DEF TypeInv, TypeOK
<1>4. CASE \A p \in Reserver : ~ReserveCommit(p)
  <2>1. TimelyNoOversell'
    BY <1>2, <1>3, <1>4, SeatsShrink, TimelyNatural, TimelyNaturalNext
       DEF SaleInv, TimelyNoOversell
  <2>2. ASSUME NEW u \in User PROVE TimelySoldTo(u)' <= MaxReservePerUser
    <3>1. SeatCount(rows', OfUser(rows', Timely', u)) <= MaxReservePerUser
      BY <1>4, SeatsShrink, TimelyNatural, TimelyNaturalNext, MaxReserveAssumption
         DEF SaleInv, TimelyQuota
    <3> QED
      BY <3>1 DEF TimelySoldTo, Timely
  <2> QED
    BY <1>1, <1>2, <2>1, <2>2 DEF SaleInv, TimelyQuota
<1>5. ASSUME NEW p \in Reserver, ReserveCommit(p)
      PROVE  SaleInv'
  <2> DEFINE t == reserve[p]
  <2>1. /\ t.pc = "inserted" /\ t.quantity \in Nat /\ t.active \in Nat /\ t.mine \in Nat
        /\ t.cap = capacity
    BY <1>5 DEF ReserveCommit, TypeInv, TypeOK, ReserveTx, LockInv, EventLockInv, InEventLock
  <2>2. /\ TimelySold <= t.active
        /\ TimelySoldTo(t.user) <= t.mine
        /\ t.active + t.quantity <= t.cap
        /\ t.mine + t.quantity <= MaxReservePerUser
    BY <2>1 DEF SaleInv, SumInv, WithinCapacity, WithinQuota
  <2>3. /\ TimelySold' <= TimelySold + t.quantity
        /\ SeatCount(rows', OfUser(rows', Timely', t.user))
           <= TimelySoldTo(t.user) + t.quantity
        /\ \A u : u # t.user =>
              SeatCount(rows', OfUser(rows', Timely', u)) <= TimelySoldTo(u)
    BY <1>5, CommitAdds
  <2> HIDE DEF t
  <2>4. TimelyNoOversell'
    <3>1. TimelySold' <= ceiling'
      BY <1>2, <1>3, <2>1, <2>2, <2>3, TimelyNatural, TimelyNaturalNext
         DEF SaleInv, CeilingInv
    <3> QED BY <3>1 DEF TimelyNoOversell
  <2>5. ASSUME NEW u \in User PROVE TimelySoldTo(u)' <= MaxReservePerUser
    <3>1. CASE u = t.user
      BY <2>1, <2>2, <2>3, <3>1, TimelyNatural, TimelyNaturalNext, MaxReserveAssumption
         DEF TimelySoldTo, Timely
    <3>2. CASE u # t.user
      BY <2>3, <3>2, TimelyNatural, TimelyNaturalNext, MaxReserveAssumption
         DEF TimelySoldTo, Timely, SaleInv, TimelyQuota
    <3> QED
      BY <3>1, <3>2
  <2> QED
    BY <1>1, <1>2, <2>4, <2>5 DEF SaleInv, TimelyQuota
<1> QED
  BY <1>4, <1>5

LEMMA SaleInvInit == Init => SaleInv
<1> SUFFICES ASSUME Init PROVE SaleInv
  OBVIOUS
<1>1. capacity \in Nat
  BY CapacitiesAssumption DEF Init
<1>2. AbsentRow.status = "absent" /\ IdleReserve.pc = "idle"
  BY DEF AbsentRow, IdleReserve
<1>3. Timely = {} /\ \A u : OfUser(rows, Timely, u) = {}
  BY <1>2 DEF Init, Timely, TimelyRows, ActiveRows, OfUser
<1>4. SeatCount(rows, {}) = 0
  <2>1. Seats(rows, {}) = {}
    BY DEF Seats
  <2> QED BY <2>1, FS_EmptySet DEF SeatCount
<1>5. TimelySold = 0 /\ \A u : TimelySoldTo(u) = 0
  BY <1>3, <1>4 DEF TimelySold, TimelySoldTo, Timely
<1> QED
  BY <1>1, <1>2, <1>5, MaxReserveAssumption
     DEF Init, SaleInv, SumInv, CeilingInv, TimelyNoOversell, TimelyQuota

\* The whole invariant of the reservation store.
LEMMA Invariance == Spec => [](TypeInv /\ LockInv /\ SaleInv)
<1>1. Init => TypeInv /\ LockInv /\ SaleInv
  BY TypeInvInit, LockInvInit, SaleInvInit
<1>2. TypeInv /\ LockInv /\ SaleInv /\ [Next]_vars => (TypeInv /\ LockInv /\ SaleInv)'
  BY TypeInvNext, LockInvNext, SaleInvNext
<1> QED
  BY <1>1, <1>2, PTL DEF Spec

\* No overselling by ReserveEvent: for any capacities, quantities, number of
\* concurrent sessions and length of the hold, the active seats other than
\* those of late confirmations never exceed the largest capacity given.
THEOREM NoTimelyOversell == Spec => []TimelyNoOversell
<1>1. SaleInv => TimelyNoOversell
  BY DEF SaleInv
<1> QED
  BY <1>1, Invariance, PTL

\* No user's active seats exceed max_reserve_per_user, likewise.
THEOREM NoTimelyQuotaExcess == Spec => []TimelyQuota
<1>1. SaleInv => TimelyQuota
  BY DEF SaleInv
<1> QED
  BY <1>1, Invariance, PTL

\* Every sale fits the capacity in force when it commits, whatever capacities
\* the event had before: the reserver read it under the row lock an UPDATE of
\* the event would need.
THEOREM EverySaleFits == Spec => SalesFitCapacity
<1> DEFINE Fits == TimelySold' > TimelySold => TimelySold' <= capacity
<1>1. ASSUME TypeInv, LockInv, SaleInv, [Next]_vars PROVE [Fits]_vars
  <2>1. CASE \A p \in Reserver : ~ReserveCommit(p)
    BY <1>1, <2>1, SeatsShrink, TimelyNatural, TimelyNaturalNext
  <2>2. ASSUME NEW p \in Reserver, ReserveCommit(p) PROVE Fits
    <3> DEFINE t == reserve[p]
    <3>1. /\ t.pc = "inserted" /\ t.quantity \in Nat /\ t.active \in Nat
          /\ t.cap = capacity
      BY <1>1, <2>2 DEF ReserveCommit, TypeInv, TypeOK, ReserveTx, LockInv,
                        EventLockInv, InEventLock
    <3>2. TimelySold <= t.active /\ t.active + t.quantity <= t.cap
      BY <1>1, <3>1 DEF SaleInv, SumInv, WithinCapacity
    <3>3. TimelySold' <= TimelySold + t.quantity
      BY <1>1, <2>2, CommitAdds
    <3>4. capacity \in Nat
      BY <1>1, CapacitiesAssumption DEF TypeInv, TypeOK
    <3> HIDE DEF t
    <3> QED
      BY <3>1, <3>2, <3>3, <3>4, TimelyNatural, TimelyNaturalNext
  <2> QED
    BY <2>1, <2>2
<1> QED
  BY <1>1, Invariance, PTL DEF Spec, SalesFitCapacity
=============================================================================
