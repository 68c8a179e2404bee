---------------------- MODULE ReservationsRefinement ----------------------
(***************************************************************************)
(* The keys, the replies and the refinement.  On top of the invariant of   *)
(* ReservationsProofs, which bounds the sums, one more layer (KeyInv) says *)
(* what a transaction between INSERT and COMMIT knows of the table: that   *)
(* no row carries its key, or that the row it found is locked for it; and  *)
(* that a sweep only ever holds rows that ran out.  With it every step of  *)
(* Reservations is a step of SeatSales or changes nothing SeatSales sees.  *)
(***************************************************************************)
EXTENDS ReservationsProofs

-----------------------------------------------------------------------------
(* The layer.                                                              *)

Asking == {"begun", "locked", "summed", "inserted"}

\* Row row is in the unique index under user u and key k.
Carries(row, u, k) ==
    /\ k # NoKey
    /\ row.status \notin {"absent", "deleted"}
    /\ row.user = u
    /\ row.key = k

\* A transaction under way has a real request.
AskInv ==
    \A p \in Reserver : reserve[p].pc \in Asking
                        => reserve[p].user \in User /\ reserve[p].quantity \in Quantities

\* Between INSERT and COMMIT: a fresh row's key is still unclaimed, and a row
\* found by ON CONFLICT is still there, locked.
InsertInv ==
    \A p \in Reserver : reserve[p].pc = "inserted" =>
        /\ reserve[p].fresh
           => \A r \in RowId : ~Carries(rows[r], reserve[p].user, reserve[p].key)
        /\ ~reserve[p].fresh
           => /\ Carries(rows[reserve[p].id], reserve[p].user, reserve[p].key)
              /\ rowLock[reserve[p].id] = p

\* A reservation a caller is told of has an id.
ReplyInv ==
    \A p \in Reserver : reserve[p].pc = "returned" /\ reserve[p].err = "none"
                        => reserve[p].id \in RowId

\* What a sweep found or locked was inserted once and has run out.
SweepInv ==
    \A s \in Sweeper : \A r \in sweep[s].todo \cup sweep[s].locked :
        rows[r].status # "absent" /\ rows[r].expires <= now

KeyInv ==
    AskInv /\ InsertInv /\ ReplyInv /\ SweepInv /\ OneRowPerKey /\ RepliesAreDurable

-----------------------------------------------------------------------------
(* What one step does to a transaction and to a row.                       *)

\* Lock, SUM and INSERT keep the request.
LEMMA RequestKept ==
    ASSUME NEW t \in ReserveTx, NEW a, NEW m, NEW r,
           NEW n \in {Locked(t), Summed(t, a, m), Inserted(t, r), Replayed(t, r)}
    PROVE  n.user = t.user /\ n.quantity = t.quantity /\ n.key = t.key
<1>1. CASE n = Locked(t)
  BY <1>1 DEF Locked, ReserveTx
<1>2. CASE n = Summed(t, a, m)
  BY <1>2 DEF Summed, ReserveTx
<1>3. CASE n = Inserted(t, r)
  BY <1>3 DEF Inserted, ReserveTx
<1>4. CASE n = Replayed(t, r)
  BY <1>4 DEF Replayed, ReserveTx
<1> QED
  BY <1>1, <1>2, <1>3, <1>4

LEMMA InsertedFresh ==
    ASSUME NEW t \in ReserveTx, NEW r
    PROVE  Inserted(t, r).fresh
BY DEF Inserted, ReserveTx

LEMMA ReplyTells ==
    ASSUME NEW t, NEW id, NEW err, NEW c
    PROVE  /\ Reply(t, id, err, c).pc = "returned"
           /\ Reply(t, id, err, c).id = id
           /\ Reply(t, id, err, c).err = err
           /\ Reply(t, id, err, c).user = t.user
           /\ Reply(t, id, err, c).key = t.key
BY DEF Reply

\* Transaction p is refused: it ends without a reservation.
Refused(p) == reserve'[p].pc = "returned" /\ reserve'[p].err # "none"

\* It moves on towards its INSERT with the request it had.
MovesOn(p) ==
    /\ reserve[p].pc \in Asking
    /\ reserve'[p].pc \in {"locked", "summed"}
    /\ reserve'[p].user = reserve[p].user
    /\ reserve'[p].quantity = reserve[p].quantity

\* It begins with a request of a client.
Asks(p) ==
    /\ reserve'[p].pc = "begun"
    /\ reserve'[p].user \in User
    /\ reserve'[p].quantity \in Quantities

LEMMA TxSteps ==
    ASSUME TypeInv, [Next]_vars, NEW p \in Reserver
    PROVE  \/ reserve'[p] = reserve[p]
           \/ Asks(p)
           \/ MovesOn(p)
           \/ ReserveInsert(p)
           \/ ReserveCommit(p)
           \/ Refused(p)
           \/ reserve'[p].pc = "idle"
<1> DEFINE t == reserve[p]
<1>0. t \in ReserveTx /\ reserve \in [Reserver -> ReserveTx]
  BY DEF TypeInv, TypeOK
<1>r. \A n : reserve' = [reserve EXCEPT ![p] = n] => reserve'[p] = n
  BY <1>0
<1>1. ASSUME NEW q \in Reserver, ReserveNext(q), q # p PROVE reserve'[p] = reserve[p]
  BY <1>0, <1>1 DEF ReserveNext, ReserveBegin, ReserveLock, ReserveSum, ReserveInsert,
                    ReserveCommit, ReserveAbort, ReserveReturn
<1>2. ASSUME NEW u \in User, NEW q \in Quantities, NEW k \in Key \cup {NoKey},
             ReserveBegin(p, u, q, k)
      PROVE  Asks(p)
  <2>1. reserve'[p] = Begun(u, q, k)
    BY <1>r, <1>2 DEF ReserveBegin
  <2>2. /\ Begun(u, q, k).pc = "begun" /\ Begun(u, q, k).user = u
        /\ Begun(u, q, k).quantity = q
    BY DEF Begun, IdleReserve
  <2> QED BY <2>1, <2>2 DEF Asks
<1>3. ASSUME ReserveLock(p) PROVE MovesOn(p) \/ Refused(p)
  <2>1. \/ reserve'[p] = Reply(t, NoOne, "exceed", FALSE)
        \/ reserve'[p] = Locked(t)
    BY <1>r, <1>3 DEF ReserveLock
  <2>2. t.pc \in Asking
    BY <1>3 DEF ReserveLock, Asking
  <2>3. Locked(t).pc = "locked"
    BY <1>0 DEF Locked, ReserveTx
  <2> HIDE DEF t
  <2>4. Locked(t).user = t.user /\ Locked(t).quantity = t.quantity
    BY <1>0, RequestKept
  <2>5. /\ Reply(t, NoOne, "exceed", FALSE).pc = "returned"
        /\ Reply(t, NoOne, "exceed", FALSE).err = "exceed"
    BY DEF Reply
  <2> QED
    BY <2>1, <2>2, <2>3, <2>4, <2>5 DEF MovesOn, Refused, t
<1>4. ASSUME ReserveSum(p) PROVE MovesOn(p) \/ Refused(p)
  <2> DEFINE active == SeatCount(rows, ActiveRows(rows, t.start))
             mine == SeatCount(rows, OfUser(rows, ActiveRows(rows, t.start), t.user))
             c == active >= t.cap
             n == Summed(t, active, mine)
  <2>1. \/ \E err \in {"exceed", "insufficient"} :
              reserve' = [reserve EXCEPT ![p] = Reply(t, NoOne, err, c)]
        \/ reserve' = [reserve EXCEPT ![p] = n]
    BY <1>4, Zenon DEF ReserveSum
  <2>2. t.pc \in Asking
    BY <1>4 DEF ReserveSum, Asking
  <2> HIDE DEF t, active, mine, c
  <2>3. n.pc = "summed"
    BY <1>0 DEF Summed, ReserveTx
  <2>4. n.user = t.user /\ n.quantity = t.quantity
    BY <1>0, RequestKept
  <2> HIDE DEF n
  <2>5. (\E err \in {"exceed", "insufficient"} : reserve'[p] = Reply(t, NoOne, err, c))
        \/ reserve'[p] = n
    BY <1>r, <2>1
  <2> QED
    BY <2>2, <2>3, <2>4, <2>5, ReplyTells DEF MovesOn, Refused, t
<1>5. ASSUME ReserveAbort(p) PROVE Refused(p)
  <2> DEFINE c == t.pc \in {"summed", "inserted"} /\ t.active >= t.cap
  <2>1. reserve'[p] = Reply(t, NoOne, "internal", c)
    BY <1>r, <1>5 DEF ReserveAbort
  <2> HIDE DEF t, c
  <2> QED BY <2>1, ReplyTells DEF Refused
<1>6. ASSUME ReserveReturn(p) PROVE reserve'[p].pc = "idle"
  BY <1>r, <1>6 DEF ReserveReturn, IdleReserve
<1>7. \/ UNCHANGED reserve
      \/ \E q \in Reserver : ReserveNext(q)
  BY DEF Next, vars, UpdateNext, SweepNext, AdminNext, UpdateBegin, UpdateRow,
         UpdateCommit, UpdateAbort, SweepBegin, SweepRow, SweepCommit, SweepAbort,
         SetCapacity, DeleteReservations, Tick
<1>8. ReserveNext(p) => \/ Asks(p) \/ MovesOn(p) \/ ReserveInsert(p) \/ ReserveCommit(p)
                        \/ Refused(p) \/ reserve'[p].pc = "idle"
  BY <1>2, <1>3, <1>4, <1>5, <1>6 DEF ReserveNext
<1> QED
  BY <1>1, <1>7, <1>8

\* An INSERT either finds nothing under its key and takes an unused id, or
\* finds a row and locks it.
LEMMA InsertSteps ==
    ASSUME TypeInv, NEW p \in Reserver, ReserveInsert(p)
    PROVE  LET t == reserve[p]
               n == reserve'[p]
           IN  /\ t.pc = "summed" /\ n.pc = "inserted" /\ n.id \in RowId
               /\ n.user = t.user /\ n.quantity = t.quantity /\ n.key = t.key
               /\ n.fresh => \A r \in RowId : ~Carries(rows[r], t.user, t.key)
               /\ ~n.fresh => /\ Carries(rows[n.id], t.user, t.key)
                              /\ rowLock'[n.id] = p
<1> DEFINE t == reserve[p]
<1>0. /\ t \in ReserveTx /\ reserve \in [Reserver -> ReserveTx] /\ now \in Nat
      /\ rowLock \in [RowId -> Reserver \cup Updater \cup Sweeper \cup {NoOne}]
  BY MaxTimeAssumption DEF TypeInv, TypeOK
<1>1. t.pc = "summed"
  BY DEF ReserveInsert
<1>2. PICK r \in RowId :
         \/ /\ \A r2 \in RowId : ~Carries(rows[r2], t.user, t.key)
            /\ reserve'[p] = Inserted(t, r)
         \/ /\ Carries(rows[r], t.user, t.key)
            /\ reserve'[p] = Replayed(t, r)
            /\ rowLock'[r] = p
  BY <1>0 DEF ReserveInsert, Conflicting, Carries
<1> HIDE DEF t
<1>3. /\ Inserted(t, r).pc = "inserted" /\ Inserted(t, r).id = r
      /\ Replayed(t, r).pc = "inserted" /\ Replayed(t, r).id = r
  BY <1>0, InsertedFields
<1>4. Inserted(t, r).fresh /\ ~Replayed(t, r).fresh
  BY <1>0, InsertedFresh, ReplayedNotFresh
<1> DEFINE n == reserve'[p]
<1>5. n \in {Inserted(t, r), Replayed(t, r)}
  BY <1>2
<1> HIDE DEF n
<1>6. n.user = t.user /\ n.quantity = t.quantity /\ n.key = t.key
  BY <1>0, <1>5, RequestKept
<1>7. /\ n.fresh => \A r2 \in RowId : ~Carries(rows[r2], t.user, t.key)
      /\ ~n.fresh => Carries(rows[r], t.user, t.key) /\ rowLock'[r] = p
  BY <1>2, <1>4 DEF n
<1> QED
  BY <1>1, <1>3, <1>5, <1>6, <1>7 DEF t, n

\* What the caller of a committed transaction is told.
LEMMA CommitTells ==
    ASSUME TypeInv, NEW p \in Reserver, ReserveCommit(p)
    PROVE  /\ reserve'[p].pc = "returned"
           /\ reserve'[p].err = "none" => /\ reserve'[p].id = reserve[p].id
                                          /\ reserve'[p].user = reserve[p].user
                                          /\ reserve'[p].key = reserve[p].key
<1> DEFINE t  == reserve[p]
           c1 == t.active + t.quantity >= t.cap
           c2 == t.active >= t.cap
<1>1. \/ reserve' = [reserve EXCEPT ![p] = Reply(t, t.id, "none", c1)]
      \/ reserve' = [reserve EXCEPT ![p] = Reply(t, NoOne, "internal", c2)]
  BY DEF ReserveCommit
<1>2. reserve \in [Reserver -> ReserveTx]
  BY DEF TypeInv, TypeOK
<1> HIDE DEF c1, c2
<1>3. \/ reserve'[p] = Reply(t, t.id, "none", c1)
      \/ reserve'[p] = Reply(t, NoOne, "internal", c2)
  BY <1>1, <1>2
<1> HIDE DEF t
<1> QED
  BY <1>3, ReplyTells DEF t

\* A row keeps its user, key and expiry, stays in the index or out of it and
\* is not inserted.
SameRow(r) ==
    /\ rows'[r].user = rows[r].user
    /\ rows'[r].key = rows[r].key
    /\ rows'[r].quantity = rows[r].quantity
    /\ rows'[r].expires = rows[r].expires
    /\ rows'[r].status = "absent" <=> rows[r].status = "absent"
    /\ rows'[r].status = "deleted" <=> rows[r].status = "deleted"

\* It is deleted by the reset of the simulator.
Erased(r) ==
    /\ DeleteReservations
    /\ rows[r].status # "absent"
    /\ rows'[r].status = "deleted"
    /\ rows'[r].expires = 0

LEMMA OneRowStep ==
    ASSUME TypeInv, LockInv, [Next]_vars, \A p \in Reserver : ~ReserveCommit(p),
           NEW r \in RowId
    PROVE  SameRow(r) \/ Erased(r)
<1>0. rows \in [RowId -> Row]
  BY DEF TypeInv, TypeOK
<1>1. CASE UNCHANGED rows
  BY <1>1 DEF SameRow
<1>2. ASSUME NEW p \in Updater, UpdateCommit(p) PROVE SameRow(r)
  <2> DEFINE t == update[p]
  <2>1. t.id \in RowId /\ rows[t.id].status = "held"
    BY <1>2 DEF UpdateCommit, TypeInv, TxShape, LockInv, RowLockInv
  <2>2. t.status \in {"confirmed", "released"}
    BY DEF TypeInv, TypeOK, UpdateTx
  <2>3. rows' = [rows EXCEPT ![t.id] = [@ EXCEPT !.status = t.status]]
    BY <1>2 DEF UpdateCommit
  <2> HIDE DEF t
  <2>4. CASE r = t.id
    <3>1. rows'[r] = [rows[r] EXCEPT !.status = t.status] /\ rows[r] \in Row
      BY <1>0, <2>3, <2>4
    <3> QED BY <2>1, <2>2, <2>4, <3>1 DEF SameRow, Row
  <2>5. CASE r # t.id
    BY <1>0, <2>3, <2>5 DEF SameRow
  <2> QED BY <2>4, <2>5
<1>3. ASSUME NEW s \in Sweeper, SweepCommit(s) PROVE SameRow(r)
  <2>1. CASE r \in sweep[s].locked
    <3>1. rows'[r] = [rows[r] EXCEPT !.status = "expired"] /\ rows[r] \in Row
      BY <1>0, <1>3, <2>1 DEF SweepCommit
    <3>2. rows[r].status = "held"
      BY <2>1 DEF LockInv, RowLockInv
    <3> QED BY <3>1, <3>2 DEF SameRow, Row
  <2>2. CASE r \notin sweep[s].locked
    BY <1>3, <2>2 DEF SweepCommit, SameRow
  <2> QED BY <2>1, <2>2
<1>4. CASE DeleteReservations
  <2>1. /\ [AbsentRow EXCEPT !.status = "deleted"].status = "deleted"
        /\ [AbsentRow EXCEPT !.status = "deleted"].expires = 0
    BY DEF AbsentRow
  <2>2. CASE rows[r].status = "absent"
    BY <1>4, <2>2 DEF DeleteReservations, SameRow
  <2>3. CASE rows[r].status # "absent"
    BY <1>4, <2>1, <2>3 DEF DeleteReservations, Erased
  <2> QED BY <2>2, <2>3
<1> QED
  BY <1>1, <1>2, <1>3, <1>4, RowSteps

\* What the commit of a reserve transaction does to the table.
LEMMA CommitRows ==
    ASSUME TypeInv, LockInv, NEW p \in Reserver, ReserveCommit(p)
    PROVE  LET t == reserve[p] IN
           /\ t.pc = "inserted" /\ t.id \in RowId
           /\ ~t.fresh => rows' = rows
           /\ t.fresh => /\ rows[t.id].status = "absent"
                         /\ \A r \in RowId : r # t.id => rows'[r] = rows[r]
                         /\ rows'[t.id].user = t.user
                         /\ rows'[t.id].quantity = t.quantity
                         /\ rows'[t.id].key = t.key
                         /\ rows'[t.id].status = "held"
BY DEF ReserveCommit, Committed, TypeInv, TypeOK, TxShape, LockInv, EventLockInv

\* The rows in the index after a step were in it before, unless the step is
\* the commit of a reserve transaction.
LEMMA CarriesBefore ==
    ASSUME TypeInv, LockInv, [Next]_vars, \A p \in Reserver : ~ReserveCommit(p),
           NEW r \in RowId, NEW u, NEW k, Carries(rows'[r], u, k)
    PROVE  Carries(rows[r], u, k)
<1>1. SameRow(r)
  BY OneRowStep DEF Erased, Carries
<1> QED
  BY <1>1 DEF SameRow, Carries

-----------------------------------------------------------------------------
(* The layer is inductive.                                                 *)

LEMMA AskNext ==
    ASSUME TypeInv, AskInv, [Next]_vars
    PROVE  AskInv'
<1> SUFFICES ASSUME NEW p \in Reserver, reserve'[p].pc \in Asking
             PROVE  reserve'[p].user \in User /\ reserve'[p].quantity \in Quantities
  BY DEF AskInv
<1> USE DEF Asking
<1>1. CASE reserve'[p] = reserve[p] \/ Asks(p) \/ MovesOn(p)
  BY <1>1 DEF AskInv, Asks, MovesOn
<1>2. CASE ReserveInsert(p)
  BY <1>2, InsertSteps DEF AskInv
<1>3. ~ReserveCommit(p) /\ ~Refused(p) /\ reserve'[p].pc # "idle"
  BY CommitTells DEF Refused
<1> QED
  BY <1>1, <1>2, <1>3, TxSteps

\* A transaction that stays between INSERT and COMMIT is not touched.
LEMMA InsertStays ==
    ASSUME TypeInv, [Next]_vars, NEW p \in Reserver, reserve'[p].pc = "inserted"
    PROVE  reserve'[p] = reserve[p] \/ ReserveInsert(p)
BY TxSteps, CommitTells DEF Asks, MovesOn, Refused

\* The row a replayed transaction found stays locked for it.
LEMMA ReplayLocked ==
    ASSUME TypeInv, [Next]_vars, NEW p \in Reserver, NEW r \in RowId,
           rowLock[r] = p, reserve[p].pc = "inserted", reserve'[p].pc = "inserted"
    PROVE  rowLock'[r] = p
<1>0. p # NoOne /\ p \notin Updater /\ p \notin Sweeper
  BY SessionsAssumption
<1>1. ASSUME NEW q, q # p, rowLock' = Unlocked(q) PROVE rowLock'[r] = p
  BY <1>1, UnlockedOthers
<1>2. ~ReserveCommit(p) /\ ~ReserveAbort(p)
  BY CommitTells, AbortEnds DEF TypeInv, TypeOK, Ends
<1>3. ASSUME NEW q \in Reserver, ReserveNext(q) PROVE rowLock'[r] = p
  <2>1. CASE UNCHANGED rowLock
    BY <2>1
  <2>2. CASE ReserveCommit(q) \/ ReserveAbort(q)
    BY <1>1, <1>2, <2>2 DEF ReserveCommit, ReserveAbort
  <2>3. CASE ReserveInsert(q)
    BY <1>0, <2>3 DEF ReserveInsert, Free, TypeInv, TypeOK
  <2> QED
    BY <1>3, <2>1, <2>2, <2>3 DEF ReserveNext, ReserveBegin, ReserveLock, ReserveSum,
                                  ReserveReturn
<1>4. ASSUME NEW q \in Updater, UpdateNext(q) PROVE rowLock'[r] = p
  BY <1>0, <1>1, <1>4 DEF UpdateNext, UpdateBegin, UpdateRow, UpdateCommit, UpdateAbort,
                          Free, TypeInv, TypeOK
<1>5. ASSUME NEW s \in Sweeper, SweepNext(s) PROVE rowLock'[r] = p
  BY <1>0, <1>1, <1>5 DEF SweepNext, SweepBegin, SweepRow, SweepCommit, SweepAbort,
                          Free, TypeInv, TypeOK
<1>6. CASE UNCHANGED rowLock
  BY <1>6
<1> QED
  BY <1>3, <1>4, <1>5, <1>6 DEF Next, vars, AdminNext, SetCapacity, DeleteReservations, Tick

LEMMA InsertInvNext ==
    ASSUME TypeInv, LockInv, InsertInv, [Next]_vars
    PROVE  InsertInv'
<1> SUFFICES ASSUME NEW p \in Reserver, reserve'[p].pc = "inserted"
             PROVE  /\ reserve'[p].fresh
                       => \A r \in RowId :
                             ~Carries(rows'[r], reserve'[p].user, reserve'[p].key)
                    /\ ~reserve'[p].fresh
                       => /\ Carries(rows'[reserve'[p].id], reserve'[p].user,
                                     reserve'[p].key)
                          /\ rowLock'[reserve'[p].id] = p
  BY DEF InsertInv, Carries
<1> DEFINE t == reserve[p]
           n == reserve'[p]
<1>1. CASE ReserveInsert(p)
  <2>1. UNCHANGED rows
    BY <1>1 DEF ReserveInsert
  <2> QED
    BY <1>1, <2>1, InsertSteps
<1>2. CASE n = t
  <2>0. t.pc = "inserted" /\ t.id \in RowId
    BY <1>2 DEF TypeInv, TxShape
  <2>1. \A q \in Reserver : ~ReserveCommit(q)
    <3> SUFFICES ASSUME NEW q \in Reserver, ReserveCommit(q) PROVE FALSE
      OBVIOUS
    <3>1. q # p
      BY <1>2, <2>0, CommitTells
    <3> QED
      BY <2>0, <3>1 DEF ReserveCommit, LockInv, EventLockInv, InEventLock
  <2>2. CASE t.fresh
    <3>1. \A r \in RowId : ~Carries(rows[r], t.user, t.key)
      BY <2>0, <2>2 DEF InsertInv
    <3> QED
      BY <1>2, <2>1, <2>2, <3>1, CarriesBefore
  <2>3. CASE ~t.fresh
    <3>1. Carries(rows[t.id], t.user, t.key) /\ rowLock[t.id] = p
      BY <2>0, <2>3 DEF InsertInv
    <3>2. rowLock'[t.id] = p
      BY <1>2, <2>0, <3>1, ReplayLocked
    <3>3. ~Erased(t.id)
      BY <2>0, <3>1, SessionsAssumption DEF Erased, DeleteReservations, Free
    <3>4. SameRow(t.id)
      BY <2>0, <2>1, <3>3, OneRowStep
    <3>5. Carries(rows'[t.id], t.user, t.key)
      BY <3>1, <3>4 DEF SameRow, Carries
    <3> QED
      BY <1>2, <2>3, <3>2, <3>5
  <2> QED
    BY <2>2, <2>3
<1> QED
  BY <1>1, <1>2, InsertStays

LEMMA ReplyNext ==
    ASSUME TypeInv, LockInv, ReplyInv, [Next]_vars
    PROVE  ReplyInv'
<1> SUFFICES ASSUME NEW p \in Reserver, reserve'[p].pc = "returned",
                    reserve'[p].err = "none"
             PROVE  reserve'[p].id \in RowId
  BY DEF ReplyInv
<1>1. CASE reserve'[p] = reserve[p]
  BY <1>1 DEF ReplyInv
<1>2. CASE ReserveCommit(p)
  BY <1>2, CommitTells, CommitRows
<1>3. ~ReserveInsert(p)
  BY InsertSteps
<1> QED
  BY <1>1, <1>2, <1>3, TxSteps DEF Asks, MovesOn, Refused

\* A row inserted once stays so, and if it has run out it stays so.
LEMMA LapsedStays ==
    ASSUME TypeInv, LockInv, [Next]_vars, TypeInv', NEW r \in RowId,
           rows[r].status # "absent", rows[r].expires <= now
    PROVE  rows'[r].status # "absent" /\ rows'[r].expires <= now'
<1>0. now \in Nat /\ now' \in Nat /\ rows[r].expires \in Nat
  BY MaxTimeAssumption DEF TypeInv, TypeOK, Row
<1>1. now <= now'
  <2>1. UNCHANGED now \/ now' = now + 1
    BY DEF Next, vars, ReserveNext, UpdateNext, SweepNext, AdminNext,
           ReserveBegin, ReserveLock, ReserveSum, ReserveInsert, ReserveCommit,
           ReserveAbort, ReserveReturn, UpdateBegin, UpdateRow, UpdateCommit,
           UpdateAbort, SweepBegin, SweepRow, SweepCommit, SweepAbort, SetCapacity,
           DeleteReservations, Tick
  <2> QED BY <1>0, <2>1
<1>2. CASE \A p \in Reserver : ~ReserveCommit(p)
  <2>1. CASE SameRow(r)
    BY <1>0, <1>1, <2>1 DEF SameRow
  <2>2. CASE Erased(r)
    BY <1>0, <1>1, <2>2 DEF Erased
  <2> QED
    BY <1>2, <2>1, <2>2, OneRowStep
<1>3. ASSUME NEW p \in Reserver, ReserveCommit(p)
      PROVE  rows'[r].status # "absent" /\ rows'[r].expires <= now'
  <2>1. rows'[r] = rows[r]
    BY <1>3, CommitRows
  <2> QED BY <1>0, <1>1, <2>1
<1> QED
  BY <1>2, <1>3

LEMMA SweepInvNext ==
    ASSUME TypeInv, LockInv, SweepInv, [Next]_vars, TypeInv'
    PROVE  SweepInv'
<1> SUFFICES ASSUME NEW s \in Sweeper, NEW r \in sweep'[s].todo \cup sweep'[s].locked
             PROVE  rows'[r].status # "absent" /\ rows'[r].expires <= now'
  BY DEF SweepInv
<1>0. /\ r \in RowId /\ sweep \in [Sweeper -> SweepTx]
      /\ \A q \in Sweeper : sweep[q].todo \cup sweep[q].locked \subseteq RowId
  BY DEF TypeInv, TypeOK, SweepTx
<1>1. CASE sweep'[s] = sweep[s]
  BY <1>0, <1>1, LapsedStays DEF SweepInv
<1>2. CASE SweepBegin(s)
  <2> DEFINE n == [pc |-> "running", todo |-> {x \in RowId : Lapsed(x, now)},
                   locked |-> {}]
  <2>1. sweep'[s] = n
    BY <1>0, <1>2 DEF SweepBegin
  <2>2. Lapsed(r, now)
    BY <2>1
  <2> QED
    BY <1>0, <2>2, LapsedStays DEF Lapsed
<1>3. ASSUME NEW x \in RowId, SweepRow(s, x)
      PROVE  rows'[r].status # "absent" /\ rows'[r].expires <= now'
  <2> DEFINE t  == sweep[s]
             n1 == [t EXCEPT !.todo = t.todo \ {x}, !.locked = t.locked \cup {x}]
             n2 == [t EXCEPT !.todo = t.todo \ {x}]
  <2>1. t \in SweepTx /\ x \in t.todo
    BY <1>0, <1>3 DEF SweepRow
  <2>2. sweep'[s] = n1 \/ sweep'[s] = n2
    BY <1>0, <1>3 DEF SweepRow
  <2>3. n1.todo = t.todo \ {x} /\ n1.locked = t.locked \cup {x}
    BY <2>1 DEF SweepTx
  <2>4. n2.todo = t.todo \ {x} /\ n2.locked = t.locked
    BY <2>1 DEF SweepTx
  <2> HIDE DEF n1, n2
  <2>5. r \in t.todo \cup t.locked
    BY <2>1, <2>2, <2>3, <2>4
  <2> QED
    BY <1>0, <2>5, LapsedStays DEF SweepInv
<1>4. CASE SweepCommit(s) \/ SweepAbort(s)
  <2>1. sweep'[s] = IdleSweep
    BY <1>0, <1>4 DEF SweepCommit, SweepAbort
  <2> QED
    BY <2>1 DEF IdleSweep
<1>5. \/ sweep'[s] = sweep[s]
      \/ SweepNext(s)
  <2>1. ASSUME NEW q \in Sweeper, q # s, SweepNext(q) PROVE sweep'[s] = sweep[s]
    BY <1>0, <2>1 DEF SweepNext, SweepBegin, SweepRow, SweepCommit, SweepAbort
  <2>2. UNCHANGED sweep \/ \E q \in Sweeper : SweepNext(q)
    BY DEF Next, vars, ReserveNext, UpdateNext, AdminNext, ReserveBegin, ReserveLock,
           ReserveSum, ReserveInsert, ReserveCommit, ReserveAbort, ReserveReturn,
           UpdateBegin, UpdateRow, UpdateCommit, UpdateAbort, SetCapacity,
           DeleteReservations, Tick
  <2> QED BY <2>1, <2>2
<1> QED
  BY <1>1, <1>2, <1>3, <1>4, <1>5 DEF SweepNext

\* The unique index holds: in a commit because the key was found unclaimed and
\* the event row has been locked since.
LEMMA OneRowPerKeyNext ==
    ASSUME TypeInv, LockInv, InsertInv, OneRowPerKey, [Next]_vars
    PROVE  OneRowPerKey'
<1> SUFFICES ASSUME NEW r1 \in RowId, NEW r2 \in RowId, r1 # r2, NEW u, NEW k,
                    Carries(rows'[r1], u, k), Carries(rows'[r2], u, k)
             PROVE  FALSE
  BY DEF OneRowPerKey, Carries
<1>1. ~(Carries(rows[r1], u, k) /\ Carries(rows[r2], u, k))
  BY DEF OneRowPerKey, Carries
<1>2. CASE \A p \in Reserver : ~ReserveCommit(p)
  BY <1>1, <1>2, CarriesBefore
<1>3. ASSUME NEW p \in Reserver, ReserveCommit(p) PROVE FALSE
  <2> DEFINE t == reserve[p]
  <2>1. t.pc = "inserted" /\ t.fresh
    BY <1>1, <1>3, CommitRows
  <2>2. /\ \A r \in RowId : r # t.id => rows'[r] = rows[r]
        /\ rows'[t.id].user = t.user /\ rows'[t.id].key = t.key
    BY <1>3, <2>1, CommitRows
  <2>3. \A r \in RowId : ~Carries(rows[r], t.user, t.key)
    BY <2>1 DEF InsertInv
  <2>4. r1 = t.id \/ r2 = t.id
    BY <1>1, <2>2
  <2>5. u = t.user /\ k = t.key
    BY <2>2, <2>4 DEF Carries
  <2> QED
    BY <2>2, <2>3, <2>4, <2>5
<1> QED
  BY <1>2, <1>3

LEMMA RepliesNext ==
    ASSUME TypeInv, LockInv, InsertInv, ReplyInv, RepliesAreDurable, [Next]_vars
    PROVE  RepliesAreDurable'
<1> DEFINE Durable(row, t) == \/ row.status = "deleted"
                              \/ /\ row.status # "absent"
                                 /\ row.user = t.user
                                 /\ row.key = t.key
<1> SUFFICES ASSUME NEW p \in Reserver, reserve'[p].pc = "returned",
                    reserve'[p].err = "none"
             PROVE  Durable(rows'[reserve'[p].id], reserve'[p])
  BY DEF RepliesAreDurable
<1> DEFINE t == reserve[p]
           n == reserve'[p]
<1>1. CASE n = t
  <2>0. t.pc = "returned" /\ t.err = "none" /\ t.id \in RowId
    BY <1>1 DEF ReplyInv
  <2>1. Durable(rows[t.id], t)
    BY <2>0 DEF RepliesAreDurable
  <2>2. CASE \A q \in Reserver : ~ReserveCommit(q)
    <3>1. SameRow(t.id) \/ Erased(t.id)
      BY <2>0, <2>2, OneRowStep
    <3> QED
      BY <1>1, <2>1, <3>1 DEF SameRow, Erased
  <2>3. ASSUME NEW q \in Reserver, ReserveCommit(q) PROVE rows'[t.id] = rows[t.id]
    BY <2>0, <2>1, <2>3, CommitRows
  <2> QED
    BY <1>1, <2>1, <2>2, <2>3
<1>2. CASE ReserveCommit(p)
  <2>1. n.id = t.id /\ n.user = t.user /\ n.key = t.key
    BY <1>2, CommitTells
  <2>2. t.pc = "inserted"
    BY <1>2, CommitRows
  <2>3. CASE t.fresh
    BY <1>2, <2>1, <2>3, CommitRows
  <2>4. CASE ~t.fresh
    BY <1>2, <2>1, <2>2, <2>4, CommitRows DEF InsertInv, Carries
  <2> QED BY <2>3, <2>4
<1>3. ~ReserveInsert(p)
  BY InsertSteps
<1> QED
  BY <1>1, <1>2, <1>3, TxSteps DEF Asks, MovesOn, Refused

LEMMA KeyInvNext ==
    ASSUME TypeInv, LockInv, KeyInv, [Next]_vars
    PROVE  KeyInv'
<1>1. TypeInv'
  BY TypeInvNext
<1> QED
  BY <1>1, AskNext, InsertInvNext, ReplyNext, SweepInvNext, OneRowPerKeyNext, RepliesNext
     DEF KeyInv

LEMMA KeyInvInit == Init => KeyInv
<1> SUFFICES ASSUME Init PROVE KeyInv
  OBVIOUS
<1>1. /\ IdleReserve.pc = "idle" /\ AbsentRow.status = "absent"
      /\ IdleSweep.todo = {} /\ IdleSweep.locked = {}
  BY DEF IdleReserve, AbsentRow, IdleSweep
<1>2. AskInv /\ InsertInv /\ ReplyInv /\ RepliesAreDurable
  BY <1>1 DEF Init, AskInv, InsertInv, ReplyInv, RepliesAreDurable, Asking
<1>3. SweepInv /\ OneRowPerKey
  BY <1>1 DEF Init, SweepInv, OneRowPerKey
<1> QED
  BY <1>2, <1>3 DEF KeyInv

LEMMA KeysAlways == Spec => []KeyInv
<1>1. Init => KeyInv
  BY KeyInvInit
<1>2. TypeInv /\ LockInv /\ KeyInv /\ [Next]_vars => KeyInv'
  BY KeyInvNext
<1> QED
  BY <1>1, <1>2, Invariance, PTL DEF Spec

\* An idempotency key is never charged twice, for any number of concurrent
\* reserves, replays and retries of ReserveEvent: the INSERT that found the key
\* unclaimed keeps the event row locked until its COMMIT.
THEOREM KeyIsChargedOnce == Spec => []OneRowPerKey
<1>1. KeyInv => OneRowPerKey
  BY DEF KeyInv
<1> QED
  BY <1>1, KeysAlways, PTL

\* A reservation ReserveEvent returned without error is in the table, owned by
\* the caller and under the key it sent, until the simulator's reset, whether
\* it was inserted by this call or found by ON CONFLICT.
THEOREM RepliesStayTrue == Spec => []RepliesAreDurable
<1>1. KeyInv => RepliesAreDurable
  BY DEF KeyInv
<1> QED
  BY <1>1, KeysAlways, PTL

-----------------------------------------------------------------------------
(* The refinement.  What SeatSales sees of a row: its fields and standing.  *)

LEMMA BookFields ==
    ASSUME NEW r \in RowId
    PROVE  /\ Book[r].user = rows[r].user
           /\ Book[r].quantity = rows[r].quantity
           /\ Book[r].key = rows[r].key
           /\ Book[r].status = Standing(r)
<1> DEFINE e == [user |-> rows[r].user, quantity |-> rows[r].quantity,
                 key |-> rows[r].key, status |-> Standing(r)]
<1>1. Book[r] = e
  BY DEF Book
<1> QED
  BY <1>1

\* A step that changes only the standing of the rows S restates them.
LEMMA RestatesBook ==
    ASSUME NEW S, NEW st,
           \A r \in RowId : /\ rows'[r].user = rows[r].user
                            /\ rows'[r].quantity = rows[r].quantity
                            /\ rows'[r].key = rows[r].key,
           \A r \in S : r \in RowId => Standing(r)' = st,
           \A r \in RowId \ S : Standing(r)' = Standing(r)
    PROVE  Book' = Sales!Restated(S, st)
<1> DEFINE E(r, x) == [user |-> rows[r].user, quantity |-> rows[r].quantity,
                       key |-> rows[r].key, status |-> x]
<1>1. ASSUME NEW r \in RowId PROVE [Book[r] EXCEPT !.status = st] = E(r, st)
  <2>1. Book[r] = E(r, Standing(r))
    BY DEF Book
  <2> HIDE DEF Standing
  <2> QED BY <2>1
<1>2. ASSUME NEW r \in RowId PROVE Book[r] = E(r, Standing(r))
  BY DEF Book
<1>3. Book' = [r \in RowId |-> E(r, Standing(r)')]
  BY DEF Book
<1> HIDE DEF E
<1> QED
  BY <1>1, <1>2, <1>3 DEF Sales!Restated

\* The rows in force are the timely ones, and have the seats SUM counts.
LEMMA InForceIsTimely ==
    ASSUME TypeInv, LockInv
    PROVE  /\ Sales!InForce = Timely
           /\ Sales!SeatsIn(Sales!InForce) = TimelySold
           /\ \A u : Sales!SeatsIn(Sales!InForceOf(u)) = TimelySoldTo(u)
<1>0. now \in Nat /\ \A r \in RowId : rows[r].expires \in Nat
  BY MaxTimeAssumption DEF TypeInv, TypeOK, Row
<1>1. Sales!InForce = Timely
  <2>1. ASSUME NEW r \in RowId
        PROVE  Standing(r) \in {"held", "confirmed"} <=> r \in Timely
    BY <1>0 DEF Standing, Timely, TimelyRows, ActiveRows, LockInv, LateInv
  <2>2. Timely \subseteq RowId
    BY DEF Timely, TimelyRows, ActiveRows
  <2> QED
    BY <2>1, <2>2, BookFields DEF Sales!InForce
<1>2. ASSUME NEW S \in SUBSET RowId PROVE Sales!SeatsIn(S) = SeatCount(rows, S)
  <2>1. {s \in S \X (1 .. MaxReservePerUser) : s[2] <= Book[s[1]].quantity} = Seats(rows, S)
    BY BookFields DEF Seats
  <2>2. Sales!Cardinality(Seats(rows, S)) = Cardinality(Seats(rows, S))
    BY DEF Cardinality, Sales!Cardinality
  <2> QED
    BY <2>1, <2>2 DEF Sales!SeatsIn, SeatCount
<1>3. \A u : Sales!InForceOf(u) = OfUser(rows, Timely, u)
  BY <1>1, BookFields DEF Sales!InForceOf, OfUser, Timely, TimelyRows, ActiveRows
<1>4. Timely \in SUBSET RowId /\ \A u : OfUser(rows, Timely, u) \in SUBSET RowId
  BY DEF Timely, TimelyRows, ActiveRows, OfUser
<1> QED
  BY <1>1, <1>2, <1>3, <1>4 DEF TimelySold, TimelySoldTo, Timely

\* The commit of a fresh reservation is a sale: since the SUM the seats in
\* force can only have become fewer, the capacity cannot have changed and
\* nobody can have claimed the key.
LEMMA CommitSells ==
    ASSUME TypeInv, LockInv, SaleInv, KeyInv, NEW p \in Reserver, ReserveCommit(p),
           reserve[p].fresh
    PROVE  Sales!Next
<1> DEFINE t == reserve[p]
<1>1. /\ t.pc = "inserted" /\ t.id \in RowId /\ rows[t.id].status = "absent"
      /\ \A r \in RowId : r # t.id => rows'[r] = rows[r]
      /\ rows'[t.id].user = t.user /\ rows'[t.id].quantity = t.quantity
      /\ rows'[t.id].key = t.key /\ rows'[t.id].status = "held"
  BY CommitRows
<1>2. /\ t.user \in User /\ t.quantity \in Quantities /\ t.key \in Key \cup {NoKey}
      /\ t.active \in Nat /\ t.mine \in Nat /\ t.quantity \in Nat
      /\ t.cap = capacity
  BY <1>1 DEF KeyInv, AskInv, Asking, TypeInv, TypeOK, ReserveTx, LockInv, EventLockInv,
              InEventLock
<1>3. /\ TimelySold <= t.active
      /\ TimelySoldTo(t.user) <= t.mine
      /\ t.active + t.quantity <= capacity
      /\ t.mine + t.quantity <= MaxReservePerUser
  BY <1>1, <1>2 DEF SaleInv, SumInv, WithinCapacity, WithinQuota
<1>4. /\ Sales!SeatsIn(Sales!InForceOf(t.user)) + t.quantity <= MaxReservePerUser
      /\ Sales!SeatsIn(Sales!InForce) + t.quantity <= capacity
  <2>1. capacity \in Nat /\ MaxReservePerUser \in Nat
    BY CapacitiesAssumption, MaxReserveAssumption DEF TypeInv, TypeOK
  <2> HIDE DEF t
  <2>2. /\ TimelySoldTo(t.user) + t.quantity <= MaxReservePerUser
        /\ TimelySold + t.quantity <= capacity
    BY <1>2, <1>3, <2>1, TimelyNatural
  <2> QED
    BY <2>2, InForceIsTimely
<1>5. Sales!NewKey(t.user, t.key)
  <2>1. \A r \in RowId : ~Carries(rows[r], t.user, t.key)
    BY <1>1 DEF KeyInv, InsertInv
  <2>2. \A r \in RowId : Standing(r) \in {"absent", "deleted"}
                         <=> rows[r].status \in {"absent", "deleted"}
    BY DEF Standing
  <2> HIDE DEF t
  <2>3. \A r \in RowId : rows[r].status \notin {"absent", "deleted"}
                         <=> Book[r].status \notin {"absent", "deleted"}
    BY <2>2, BookFields
  <2> QED
    BY <2>1, <2>3, BookFields DEF Sales!NewKey, Carries
<1>6. Book[t.id].status = "absent"
  BY <1>1, BookFields DEF Standing
<1>x. PICK x \in RowId : x = t.id
  BY <1>1
<1>7. PICK st \in {"held", "lapsed"} : Standing(x)' = st
  BY <1>1, <1>x DEF Standing
<1> DEFINE E == [user |-> t.user, quantity |-> t.quantity, key |-> t.key, status |-> st]
<1>8. Book' = [Book EXCEPT ![t.id] = E]
  <2>1. now' = now /\ late' = late
    BY DEF ReserveCommit
  <2>2. ASSUME NEW r \in RowId, r # t.id PROVE Book'[r] = Book[r]
    <3>1. Standing(r)' = Standing(r)
      BY <1>1, <2>1, <2>2 DEF Standing
    <3> QED
      BY <1>1, <2>2, <3>1 DEF Book
  <2>3. Book'[t.id] = E
    <3>1. /\ rows'[x].user = t.user /\ rows'[x].quantity = t.quantity
          /\ rows'[x].key = t.key /\ Standing(x)' = st
      BY <1>1, <1>x, <1>7
    <3>2. Book'[x] = [user |-> rows'[x].user, quantity |-> rows'[x].quantity,
                      key |-> rows'[x].key, status |-> Standing(x)']
      BY <3>1 DEF Book
    <3> QED BY <1>x, <3>1, <3>2
  <2>4. /\ Book = [r \in RowId |-> Book[r]]
        /\ Book' = [r \in RowId |-> Book'[r]]
    BY DEF Book
  <2> HIDE DEF E, t
  <2>5. t.id \in RowId
    BY <1>1 DEF t
  <2> QED
    BY <2>2, <2>3, <2>4, <2>5
<1>9. UNCHANGED capacity
  BY DEF ReserveCommit
<1>10. Sales!Sell(t.id, t.user, t.quantity, t.key)
  BY <1>4, <1>5, <1>6, <1>8, <1>9 DEF Sales!Sell
<1> QED
  BY <1>1, <1>2, <1>10 DEF Sales!Next

\* Confirm and release: in time, or of a hold that lapsed under the lock.
LEMMA UpdateRestates ==
    ASSUME TypeInv, LockInv, NEW p \in Updater, UpdateCommit(p)
    PROVE  Sales!Next
<1> DEFINE t == update[p]
<1>0. rows \in [RowId -> Row] /\ now \in Nat
  BY MaxTimeAssumption DEF TypeInv, TypeOK
<1>1. PICK x \in RowId : x = t.id /\ rows[x].status = "held" /\ x \notin late
  BY DEF UpdateCommit, TypeInv, TxShape, LockInv, RowLockInv, LateInv
<1>2. t.status \in {"confirmed", "released"}
  BY DEF TypeInv, TypeOK, UpdateTx
<1>3. /\ rows' = [rows EXCEPT ![x] = [@ EXCEPT !.status = t.status]]
      /\ late' = IF t.status = "confirmed" /\ rows[x].expires <= now
                 THEN late \cup {x} ELSE late
      /\ UNCHANGED <<now, capacity>>
  BY <1>1 DEF UpdateCommit
<1> HIDE DEF t
<1>4. /\ \A r \in RowId : r # x => rows'[r] = rows[r]
      /\ rows'[x].status = t.status
      /\ rows'[x].user = rows[x].user /\ rows'[x].quantity = rows[x].quantity
      /\ rows'[x].key = rows[x].key
      /\ rows'[x].expires = rows[x].expires
  <2>1. rows'[x] = [rows[x] EXCEPT !.status = t.status] /\ rows[x] \in Row
    BY <1>0, <1>1, <1>3
  <2>2. \A r \in RowId : r # x => rows'[r] = rows[r]
    BY <1>0, <1>1, <1>3
  <2> QED BY <2>1, <2>2 DEF Row
<1>5. \A r \in RowId : /\ rows'[r].user = rows[r].user
                       /\ rows'[r].quantity = rows[r].quantity
                       /\ rows'[r].key = rows[r].key
  BY <1>4
<1>6. \A r \in RowId \ {x} : Standing(r)' = Standing(r)
  BY <1>3, <1>4 DEF Standing
<1>7. Book[x].status = IF rows[x].expires <= now THEN "lapsed" ELSE "held"
  BY <1>1, BookFields DEF Standing
<1>8. ASSUME NEW st, Standing(x)' = st PROVE Book' = Sales!Restated({x}, st)
  BY <1>5, <1>6, <1>8, RestatesBook
<1>9. CASE t.status = "released"
  <2>1. Standing(x)' = "released"
    BY <1>4, <1>9 DEF Standing
  <2>2. Sales!Release(x)
    BY <1>3, <1>7, <1>8, <2>1 DEF Sales!Release
  <2> QED BY <1>1, <2>2 DEF Sales!Next
<1>10. CASE t.status = "confirmed" /\ rows[x].expires <= now
  <2>1. Standing(x)' = "overdue"
    BY <1>3, <1>4, <1>10 DEF Standing
  <2>2. Sales!Confirm(x)
    BY <1>3, <1>7, <1>8, <1>10, <2>1 DEF Sales!Confirm
  <2> QED BY <1>1, <2>2 DEF Sales!Next
<1>11. CASE t.status = "confirmed" /\ ~(rows[x].expires <= now)
  <2>1. Standing(x)' = "confirmed"
    BY <1>1, <1>3, <1>4, <1>11 DEF Standing
  <2>2. Sales!Confirm(x)
    BY <1>3, <1>7, <1>8, <1>11, <2>1 DEF Sales!Confirm
  <2> QED BY <1>1, <2>2 DEF Sales!Next
<1> QED
  BY <1>2, <1>9, <1>10, <1>11

\* A sweep expires lapsed holds and nothing else.
LEMMA SweepExpires ==
    ASSUME TypeInv, LockInv, KeyInv, NEW s \in Sweeper, SweepCommit(s)
    PROVE  Sales!Next
<1> DEFINE S == sweep[s].locked
<1>0. rows \in [RowId -> Row] /\ S \in SUBSET RowId
  BY DEF TypeInv, TypeOK, SweepTx
<1>1. \A r \in S : rows[r].status = "held" /\ rows[r].expires <= now
  BY DEF LockInv, RowLockInv, KeyInv, SweepInv
<1>2. /\ \A r \in RowId : r \notin S => rows'[r] = rows[r]
      /\ \A r \in S : rows'[r] = [rows[r] EXCEPT !.status = "expired"]
      /\ UNCHANGED <<now, capacity, late>>
  BY <1>0 DEF SweepCommit
<1> HIDE DEF S
<1>3. ASSUME NEW r \in S
      PROVE  /\ rows'[r].status = "expired"
             /\ rows'[r].user = rows[r].user /\ rows'[r].quantity = rows[r].quantity
             /\ rows'[r].key = rows[r].key
  <2>1. rows[r] \in Row
    BY <1>0
  <2> QED BY <1>2, <2>1 DEF Row
<1>4. \A r \in S : r \in RowId => Standing(r)' = "expired"
  BY <1>3 DEF Standing
<1>5. \A r \in RowId \ S : Standing(r)' = Standing(r)
  BY <1>2 DEF Standing
<1>6. \A r \in RowId : /\ rows'[r].user = rows[r].user
                       /\ rows'[r].quantity = rows[r].quantity
                       /\ rows'[r].key = rows[r].key
  BY <1>2, <1>3
<1>7. Book' = Sales!Restated(S, "expired")
  BY <1>4, <1>5, <1>6, RestatesBook
<1>8. \A r \in S : Book[r].status = "lapsed"
  BY <1>0, <1>1, BookFields DEF Standing
<1>9. Sales!Expire(S)
  BY <1>2, <1>7, <1>8 DEF Sales!Expire
<1> QED
  BY <1>0, <1>9 DEF Sales!Next

\* Time lets some holds lapse.
LEMMA TickLapses ==
    ASSUME TypeInv, Tick
    PROVE  Sales!Next
<1> DEFINE S == {r \in RowId : rows[r].status = "held" /\ rows[r].expires = now + 1}
<1>0. now \in Nat /\ \A r \in RowId : rows[r].expires \in Nat
  BY MaxTimeAssumption DEF TypeInv, TypeOK, Row
<1>1. now' = now + 1 /\ UNCHANGED <<rows, late, capacity>>
  BY DEF Tick
<1>2. \A r \in S : r \in RowId => Standing(r)' = "lapsed"
  BY <1>0, <1>1 DEF Standing
<1>3. \A r \in RowId \ S : Standing(r)' = Standing(r)
  <2> SUFFICES ASSUME NEW r \in RowId, r \notin S PROVE Standing(r)' = Standing(r)
    OBVIOUS
  <2>1. rows[r].status = "held" => (rows[r].expires <= now <=> rows[r].expires <= now')
    BY <1>0, <1>1
  <2> QED BY <1>1, <2>1, Zenon DEF Standing
<1>4. \A r \in S : r \in RowId /\ Book[r].status = "held"
  BY <1>0, BookFields DEF Standing
<1>5. \A r \in RowId : /\ rows'[r].user = rows[r].user
                       /\ rows'[r].quantity = rows[r].quantity
                       /\ rows'[r].key = rows[r].key
  BY <1>1
<1> HIDE DEF S
<1>6. Book' = Sales!Restated(S, "lapsed")
  BY <1>2, <1>3, <1>5, RestatesBook
<1>7. Sales!Lapse(S)
  BY <1>1, <1>4, <1>6 DEF Sales!Lapse
<1> QED
  BY <1>4, <1>7 DEF Sales!Next

\* The reset of the simulator empties the book.
LEMMA DeleteEmpties ==
    ASSUME TypeInv, LockInv, DeleteReservations
    PROVE  Sales!Next
<1> DEFINE D == [Sales!AbsentEntry EXCEPT !.status = "deleted"]
           Gone == [AbsentRow EXCEPT !.status = "deleted"]
<1>1. /\ \A r \in RowId : rows'[r] = IF rows[r].status = "absent" THEN rows[r] ELSE Gone
      /\ late' = {} /\ UNCHANGED <<now, capacity>>
  BY DEF DeleteReservations
<1>2. /\ Gone.user = NoOne /\ Gone.quantity = 0 /\ Gone.key = NoKey
      /\ Gone.status = "deleted"
  BY DEF AbsentRow
<1>3. D = [user |-> NoOne, quantity |-> 0, key |-> NoKey, status |-> "deleted"]
  BY DEF Sales!AbsentEntry
<1> HIDE DEF D, Gone
<1>4. ASSUME NEW r \in RowId
      PROVE  Book'[r] = IF Book[r].status = "absent" THEN Book[r] ELSE D
  <2>0. Book'[r] = [user |-> rows'[r].user, quantity |-> rows'[r].quantity,
                    key |-> rows'[r].key, status |-> Standing(r)']
    BY DEF Book
  <2>1. CASE rows[r].status = "absent"
    <3>1. rows'[r] = rows[r] /\ Standing(r) = "absent" /\ Standing(r)' = "absent"
      BY <1>1, <2>1 DEF Standing
    <3>2. Book'[r] = Book[r]
      BY <2>0, <3>1 DEF Book
    <3> QED BY <3>1, <3>2, BookFields
  <2>2. CASE rows[r].status # "absent"
    <3>1. rows'[r] = Gone /\ Standing(r)' = "deleted" /\ Standing(r) # "absent"
      BY <1>1, <1>2, <2>2 DEF Standing
    <3>2. Book'[r] = D
      BY <1>2, <1>3, <2>0, <3>1
    <3> QED BY <3>1, <3>2, BookFields
  <2> QED BY <2>1, <2>2
<1>5. Book' = [r \in RowId |-> Book'[r]]
  BY DEF Book
<1>6. Book' = [r \in RowId |-> IF Book[r].status = "absent" THEN Book[r] ELSE D]
  BY <1>4, <1>5
<1>7. Sales!DeleteAll
  BY <1>1, <1>6 DEF Sales!DeleteAll, D
<1> QED
  BY <1>7 DEF Sales!Next

\* A step that leaves the table and the clock alone leaves the book alone.
LEMMA BookUnchanged ==
    ASSUME UNCHANGED <<rows, late, now>>
    PROVE  UNCHANGED Book
<1>1. \A r \in RowId : Standing(r)' = Standing(r)
  BY DEF Standing
<1> QED
  BY <1>1 DEF Book

\* Every step of the store is a step of SeatSales, or none.
LEMMA StepRefines ==
    ASSUME TypeInv, LockInv, SaleInv, KeyInv, [Next]_vars
    PROVE  [Sales!Next]_(Sales!sales)
<1>1. CASE UNCHANGED <<rows, late, now, capacity>>
  BY <1>1, BookUnchanged DEF Sales!sales
<1>2. ASSUME NEW p \in Reserver, ReserveCommit(p) PROVE [Sales!Next]_(Sales!sales)
  <2>1. CASE reserve[p].fresh
    BY <1>2, <2>1, CommitSells
  <2>2. CASE ~reserve[p].fresh
    <3>1. UNCHANGED <<rows, late, now, capacity>>
      BY <1>2, <2>2, CommitRows DEF ReserveCommit
    <3> QED BY <3>1, BookUnchanged DEF Sales!sales
  <2> QED BY <2>1, <2>2
<1>3. ASSUME NEW c \in Capacities, SetCapacity(c) PROVE Sales!Next
  <2>1. capacity' \in Capacities /\ UNCHANGED <<rows, late, now>>
    BY <1>3 DEF SetCapacity
  <2> QED BY <2>1, BookUnchanged DEF Sales!Next, Sales!SetCapacity
<1>4. \/ UNCHANGED <<rows, late, now, capacity>>
      \/ \E p \in Reserver : ReserveCommit(p)
      \/ \E p \in Updater : UpdateCommit(p)
      \/ \E s \in Sweeper : SweepCommit(s)
      \/ \E c \in Capacities : SetCapacity(c)
      \/ DeleteReservations
      \/ Tick
  BY DEF Next, vars, ReserveNext, UpdateNext, SweepNext, AdminNext,
         ReserveBegin, ReserveLock, ReserveSum, ReserveInsert, ReserveAbort,
         ReserveReturn, UpdateBegin, UpdateRow, UpdateAbort, SweepBegin, SweepRow,
         SweepAbort
<1> QED
  BY <1>1, <1>2, <1>3, <1>4, UpdateRestates, SweepExpires, DeleteEmpties, TickLapses

\* The reservation store implements SeatSales, for any number of sessions,
\* rows, users and keys: ReserveEvent, cut into BEGIN, FOR UPDATE, SUM, INSERT
\* and COMMIT, sells as one step taken at its COMMIT, confirms, releases and
\* sweeps act at their commits, and everything else is invisible.
THEOREM StoreRefinesSales == Spec => StoreSellsAtomically
<1>1. Init => Sales!Init
  <2> SUFFICES ASSUME Init PROVE Sales!Init
    OBVIOUS
  <2>1. ASSUME NEW r \in RowId
        PROVE  [user |-> rows[r].user, quantity |-> rows[r].quantity,
                key |-> rows[r].key, status |-> Standing(r)] = Sales!AbsentEntry
    <3>1. /\ rows[r].user = NoOne /\ rows[r].quantity = 0 /\ rows[r].key = NoKey
          /\ rows[r].status = "absent"
      BY DEF Init, AbsentRow
    <3> QED
      BY <3>1 DEF Standing, Sales!AbsentEntry
  <2> QED
    BY <2>1 DEF Sales!Init, Book, Init
<1>2. TypeInv /\ LockInv /\ SaleInv /\ KeyInv /\ [Next]_vars => [Sales!Next]_(Sales!sales)
  BY StepRefines
<1> QED
  BY <1>1, <1>2, Invariance, KeysAlways, PTL DEF Spec, StoreSellsAtomically, Sales!Spec

=============================================================================
