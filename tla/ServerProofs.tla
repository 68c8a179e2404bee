---------------------------- MODULE ServerProofs ----------------------------
(***************************************************************************)
(* Proofs about Server, for any number of processes, requests, runs and    *)
(* late unlocks and every deadline and margin: type correctness, the       *)
(* exclusion of sweeps (SweepsExclude), and that neither a tick            *)
(* (TicksFindPoolsOpen) nor a request that was given its time              *)
(* (DrainSparesRequests) finds the pools closed.                           *)
(***************************************************************************)
EXTENDS Server, TLAPS

-----------------------------------------------------------------------------
(* The invariant.                                                          *)

\* A sweeper has a token from SET NX to the unlock, one of its own, and no
\* unlock for it is under way yet.
TokenInv ==
    /\ \A p \in Process :
          /\ IF sweeper[p].pc \in {"sweep", "unlock"} THEN sweeper[p].token \in Token
                                                      ELSE sweeper[p].token = NoOne
          /\ sweeper[p].token \notin unlocks
    /\ \A p, q \in Process :
          p # q /\ sweeper[p].token = sweeper[q].token => sweeper[p].token = NoOne

\* The time to live that SET NX is about to ask for outlasts the tick.
TTLInv ==
    \A p \in Process : sweeper[p].pc = "set" => sweeper[p].ttl > sweeper[p].left

\* A sweep whose lock was not flushed owns the key, and the key outlasts it.
OwnInv ==
    \A p \in Process :
        Sweeping(p) /\ p \notin robbed
        => lock.token = sweeper[p].token /\ lock.left > sweeper[p].left

\* What the phase of Close says of the tickers.
PhaseInv ==
    \A p \in Process :
        /\ phase[p] \in {"down", "stopSweeper", "closePool", "closeRedis"}
           => promoter[p] = "off"
        /\ ~PoolOpen(p) => sweeper[p].pc = "off"

\* Where requests are, and that only a forced Close meets them.
DrainInv ==
    \A j \in Request :
        job[j].doing # "nothing"
        => /\ job[j].at \in Process
           /\ phase[job[j].at] # "down"
           /\ phase[job[j].at] \in {"serving", "draining"} \/ forced[job[j].at]
           /\ job[j].doing = "refused" => ~PoolOpen(job[j].at)

SweepInv == TypeOK /\ TokenInv /\ TTLInv /\ OwnInv
LifeInv == TypeOK /\ PhaseInv /\ DrainInv

-----------------------------------------------------------------------------
(* The constants.                                                          *)

LEMMA Times ==
    /\ TickTimeout \in Nat /\ TickTimeout > 0
    /\ Margin \in Nat /\ Margin > 0
    /\ MaxLate \in Nat
    /\ NoOne \notin Token /\ NoOne \notin Process
  BY TimesAssumption, NamesAssumption

\* The fields of the named sweeper states.
LEMMA NamedStates ==
    /\ InSelect \in SweeperState /\ Off \in SweeperState
    /\ InSelect.pc = "select" /\ InSelect.left = 0 /\ InSelect.token = NoOne
    /\ Off.pc = "off" /\ Off.left = 0 /\ Off.token = NoOne
<1>1. 0 \in 0 .. TickTimeout /\ 0 \in 0 .. TickTimeout + Margin
  BY Times
<1> QED
  BY <1>1 DEF InSelect, Off, SweeperState

\* A token that NewToken offers.
LEMMA FreshToken ==
    ASSUME NewToken # {}, NEW t, t = CHOOSE x \in NewToken : TRUE
    PROVE  /\ t \in Token
           /\ t \notin unlocks
           /\ \A p \in Process : sweeper[p].token # t
<1>1. t \in NewToken
  OBVIOUS
<1> QED
  BY <1>1 DEF NewToken

-----------------------------------------------------------------------------
(* Types.                                                                  *)

LEMMA InitType == Init => TypeOK
<1> SUFFICES ASSUME Init PROVE TypeOK
  OBVIOUS
<1>1. 0 \in 0 .. TickTimeout + Margin
  BY Times
<1>2. lock \in [token : Token \cup {NoOne}, left : 0 .. TickTimeout + Margin]
  BY <1>1 DEF Init, FreeLock
<1>3. sweeper \in [Process -> SweeperState]
  BY NamedStates DEF Init
<1>4. job \in [Request \cup Run -> JobState]
  BY DEF Init, NoJob, JobState
<1> QED
  BY <1>2, <1>3, <1>4 DEF Init, TypeOK, Phase

-----------------------------------------------------------------------------
(* The sweeps.                                                             *)

\* A step that leaves sweepers, lock, unlocks and history alone.
LEMMA SweepStutter ==
    ASSUME SweepInv, TypeOK', UNCHANGED <<sweeper, lock, unlocks, robbed>>
    PROVE  SweepInv'
  BY DEF SweepInv, TokenInv, TTLInv, OwnInv, Sweeping

\* Process p's sweeper becomes s, which has no token and does not sweep; the
\* lock stays as it is.
LEMMA SweeperRests ==
    ASSUME SweepInv, TypeOK', NEW p \in Process, NEW s \in SweeperState,
           sweeper' = [sweeper EXCEPT ![p] = s],
           s.token = NoOne, s.pc \notin {"sweep", "unlock"},
           s.pc = "set" => s.ttl > s.left,
           UNCHANGED <<lock, unlocks>>,
           robbed' = robbed \/ robbed' = robbed \ {p}
    PROVE  SweepInv'
<1> USE DEF SweepInv
<1>1. \A q \in Process : sweeper'[q] = IF q = p THEN s ELSE sweeper[q]
  BY DEF TypeOK
<1>2. NoOne \notin unlocks
  BY Times DEF TypeOK
<1>3. TokenInv'
  BY <1>1, <1>2 DEF TokenInv
<1>4. TTLInv'
  BY <1>1 DEF TTLInv
<1>5. OwnInv'
  BY <1>1 DEF OwnInv, Sweeping
<1> QED
  BY <1>3, <1>4, <1>5

\* Process p's sweeper moves on, with its token: the rest of the tick, and the
\* lock, stay as they are.
LEMMA SweeperKeepsToken ==
    ASSUME SweepInv, TypeOK', NEW p \in Process,
           sweeper' = [sweeper EXCEPT ![p] = [sweeper[p] EXCEPT !.pc = "unlock"]],
           Sweeping(p),
           UNCHANGED <<lock, unlocks>>,
           robbed' = robbed \ {p}
    PROVE  SweepInv'
<1> USE DEF SweepInv
<1> DEFINE s == [sweeper[p] EXCEPT !.pc = "unlock"]
<1>1. s.pc = "unlock" /\ s.token = sweeper[p].token /\ s.left = sweeper[p].left
  BY DEF TypeOK, SweeperState
<1>2. \A q \in Process : sweeper'[q] = IF q = p THEN s ELSE sweeper[q]
  BY DEF TypeOK
<1> HIDE DEF s
<1>3. TokenInv'
  BY <1>1, <1>2 DEF TokenInv, Sweeping
<1>4. TTLInv'
  BY <1>1, <1>2 DEF TTLInv
<1>5. OwnInv'
  BY <1>1, <1>2 DEF OwnInv, Sweeping
<1> QED
  BY <1>3, <1>4, <1>5

\* An unlock for a token that no sweep has, sent by p or under way: it leaves
\* the lock of every sweep alone.
LEMMA ReleaseSparesOwner ==
    ASSUME SweepInv, NEW t \in Token,
           NEW p \in Process, Sweeping(p), p \notin robbed, sweeper[p].token # t
    PROVE  Released(t) = lock
  BY DEF SweepInv, OwnInv, Released

-----------------------------------------------------------------------------
(* The actions that touch the lock.                                        *)

\* Process p's sweeper is set to s, and nothing else is typed anew.
LEMMA SweeperType ==
    ASSUME TypeOK, NEW p \in Process, NEW s \in SweeperState, Sweeper(p, s)
    PROVE  sweeper' \in [Process -> SweeperState]
  BY DEF TypeOK, Sweeper

LEMMA SweeperTickKeeps ==
    ASSUME SweepInv, NEW p \in Process, SweeperTick(p)
    PROVE  SweepInv'
<1> DEFINE s == [InSelect EXCEPT !.pc = "begin", !.left = TickTimeout]
<1>1. TickTimeout \in 0 .. TickTimeout
  BY Times
<1>2. s \in SweeperState /\ s.pc = "begin" /\ s.token = NoOne
  BY <1>1, NamedStates DEF InSelect, SweeperState
<1>3. Sweeper(p, s) /\ UNCHANGED <<phase, forced, promoter, job, lock, unlocks, robbed>>
  BY DEF SweeperTick
<1> HIDE DEF s
<1>4. TypeOK'
  BY <1>2, <1>3, SweeperType DEF SweepInv, TypeOK
<1> QED
  BY <1>2, <1>3, <1>4, SweeperRests DEF Sweeper

LEMMA ReadDeadlineKeeps ==
    ASSUME SweepInv, NEW p \in Process, ReadDeadline(p)
    PROVE  SweepInv'
<1>0. sweeper[p] \in SweeperState
  BY DEF SweepInv, TypeOK
<1> DEFINE s == [sweeper[p] EXCEPT !.pc = "set", !.ttl = LockTTL(sweeper[p].left)]
<1>1. sweeper[p].left \in 0 .. TickTimeout /\ sweeper[p].pc = "begin"
  BY <1>0 DEF SweeperState, ReadDeadline
<1>2. LockTTL(sweeper[p].left) \in 0 .. TickTimeout + Margin
      /\ LockTTL(sweeper[p].left) > sweeper[p].left
  BY <1>1, Times DEF LockTTL
<1>3. s \in SweeperState /\ s.pc = "set" /\ s.token = sweeper[p].token
      /\ s.ttl = LockTTL(sweeper[p].left) /\ s.left = sweeper[p].left
  BY <1>0, <1>2 DEF SweeperState
<1>4. UNCHANGED <<phase, forced, promoter, job, lock, unlocks, robbed>>
  BY DEF ReadDeadline
<1>5. Sweeper(p, InSelect) \/ Sweeper(p, s)
  BY DEF ReadDeadline
<1> HIDE DEF s
<1>6. CASE Sweeper(p, InSelect)
  <2>1. TypeOK'
    BY <1>4, <1>6, NamedStates, SweeperType DEF SweepInv, TypeOK
  <2> QED
    BY <2>1, <1>4, <1>6, NamedStates, SweeperRests DEF Sweeper
<1>7. CASE Sweeper(p, s)
  <2>1. TypeOK'
    BY <1>3, <1>4, <1>7, SweeperType DEF SweepInv, TypeOK
  <2>2. sweeper[p].token = NoOne
    BY <1>1 DEF SweepInv, TokenInv
  <2> QED
    BY <2>1, <2>2, <1>2, <1>3, <1>4, <1>7, SweeperRests DEF Sweeper
<1> QED
  BY <1>5, <1>6, <1>7

LEMMA TakeLockKeeps ==
    ASSUME SweepInv, NEW p \in Process, TakeLock(p)
    PROVE  SweepInv'
<1>0. sweeper[p] \in SweeperState
  BY DEF SweepInv, TypeOK
<1> DEFINE t == CHOOSE x \in NewToken : TRUE
           s == [sweeper[p] EXCEPT !.pc = "sweep", !.token = t]
<1>1. t \in Token /\ t \notin unlocks /\ \A q \in Process : sweeper[q].token # t
  BY FreshToken DEF TakeLock
<1>2. /\ sweeper[p].pc = "set"
      /\ lock.token = NoOne
      /\ lock' = [token |-> t, left |-> sweeper[p].ttl]
      /\ Sweeper(p, s) \/ Sweeper(p, InSelect)
      /\ UNCHANGED <<phase, forced, promoter, job, unlocks, robbed>>
  BY DEF TakeLock, TakenLock
<1> HIDE DEF t
<1>3. s \in SweeperState /\ s.pc = "sweep" /\ s.token = t /\ s.left = sweeper[p].left
  BY <1>0, <1>1 DEF SweeperState
<1> HIDE DEF s
<1>4. /\ sweeper[p].ttl \in 0 .. TickTimeout + Margin
      /\ sweeper[p].ttl > sweeper[p].left
  BY <1>0, <1>2 DEF SweeperState, SweepInv, TTLInv
<1>5. lock' \in [token : Token \cup {NoOne}, left : 0 .. TickTimeout + Margin]
      /\ lock'.token = t /\ lock'.left = sweeper[p].ttl
  BY <1>1, <1>2, <1>4
<1>6. TypeOK'
  <2>1. sweeper' \in [Process -> SweeperState]
    BY <1>2, <1>3, NamedStates, SweeperType DEF SweepInv
  <2> QED
    BY <2>1, <1>2, <1>5 DEF SweepInv, TypeOK
<1>7. \A q \in Process : Sweeping(q) => q \in robbed
  BY <1>2, Times DEF SweepInv, OwnInv, TokenInv, Sweeping
<1>8. NoOne \notin unlocks
  BY Times DEF SweepInv, TypeOK
<1>9. PICK r \in {s, InSelect} : \A q \in Process :
          sweeper'[q] = IF q = p THEN r ELSE sweeper[q]
  BY <1>2 DEF SweepInv, TypeOK, Sweeper
<1>10. TokenInv'
  <2>1. CASE r = s
    BY <2>1, <1>1, <1>2, <1>3, <1>9 DEF SweepInv, TokenInv
  <2>2. CASE r = InSelect
    BY <2>2, <1>2, <1>8, <1>9, NamedStates DEF SweepInv, TokenInv
  <2> QED
    BY <2>1, <2>2, <1>9
<1>11. TTLInv'
  BY <1>3, <1>9, NamedStates DEF SweepInv, TTLInv
<1>12. OwnInv'
  <2> SUFFICES ASSUME NEW q \in Process, sweeper'[q].pc = "sweep", q \notin robbed
               PROVE  lock'.token = sweeper'[q].token /\ lock'.left > sweeper'[q].left
    BY <1>2 DEF OwnInv, Sweeping
  <2>1. q = p
    BY <1>7, <1>9 DEF Sweeping
  <2>2. r = s
    BY <2>1, <1>9, NamedStates
  <2> QED
    BY <2>1, <2>2, <1>3, <1>4, <1>5, <1>9
<1> QED
  BY <1>6, <1>10, <1>11, <1>12 DEF SweepInv

LEMMA LockFailsKeeps ==
    ASSUME SweepInv, NEW p \in Process, LockFails(p)
    PROVE  SweepInv'
<1>1. TypeOK'
  BY NamedStates, SweeperType DEF LockFails, SweepInv, TypeOK
<1> QED
  BY <1>1, NamedStates, SweeperRests DEF LockFails, Sweeper

LEMMA SweepEndsKeeps ==
    ASSUME SweepInv, NEW p \in Process, SweepEnds(p)
    PROVE  SweepInv'
<1>0. sweeper[p] \in SweeperState
  BY DEF SweepInv, TypeOK
<1>1. [sweeper[p] EXCEPT !.pc = "unlock"] \in SweeperState
  BY <1>0 DEF SweeperState
<1>2. TypeOK'
  BY <1>1, SweeperType DEF SweepEnds, SweepInv, TypeOK
<1> QED
  BY <1>2, SweeperKeepsToken DEF SweepEnds, Sweeper

\* The script leaves a lock of the right type.
LEMMA ReleasedType ==
    ASSUME TypeOK, NEW t
    PROVE  Released(t) \in [token : Token \cup {NoOne}, left : 0 .. TickTimeout + Margin]
<1>1. FreeLock \in [token : Token \cup {NoOne}, left : 0 .. TickTimeout + Margin]
  <2>1. 0 \in 0 .. TickTimeout + Margin
    BY Times
  <2> QED
    BY <2>1 DEF FreeLock
<1> QED
  BY <1>1 DEF Released, TypeOK

LEMMA UnlockKeeps ==
    ASSUME SweepInv, NEW p \in Process, Unlock(p)
    PROVE  SweepInv'
<1> DEFINE t == sweeper[p].token
<1>1. /\ sweeper[p].pc = "unlock"
      /\ t \in Token
      /\ \A q \in Process : q # p => sweeper[q].token # t
  BY Times DEF Unlock, SweepInv, TokenInv
<1>2. /\ sweeper' = [sweeper EXCEPT ![p] = InSelect]
      /\ lock' = Released(t) \/ lock' = lock
      /\ unlocks' = unlocks \cup {t} \/ unlocks' = unlocks
      /\ UNCHANGED <<phase, forced, promoter, job, robbed>>
  BY DEF Unlock, Sweeper
<1> HIDE DEF t
<1>3. \A q \in Process : sweeper'[q] = IF q = p THEN InSelect ELSE sweeper[q]
  BY <1>2 DEF SweepInv, TypeOK
<1>4. TypeOK'
  BY <1>1, <1>2, NamedStates, ReleasedType DEF SweepInv, TypeOK
<1>5. NoOne \notin unlocks'
  BY <1>4, Times DEF TypeOK
<1>6. TokenInv'
  BY <1>1, <1>2, <1>3, <1>5, NamedStates DEF SweepInv, TokenInv
<1>7. TTLInv'
  BY <1>3, NamedStates DEF SweepInv, TTLInv
<1>8. OwnInv'
  <2> SUFFICES ASSUME NEW q \in Process, sweeper'[q].pc = "sweep", q \notin robbed
               PROVE  lock'.token = sweeper'[q].token /\ lock'.left > sweeper'[q].left
    BY <1>2 DEF OwnInv, Sweeping
  <2>1. q # p /\ sweeper'[q] = sweeper[q]
    BY <1>3, NamedStates
  <2>2. lock' = lock
    BY <2>1, <1>1, <1>2, ReleaseSparesOwner DEF Sweeping
  <2> QED
    BY <2>1, <2>2 DEF SweepInv, OwnInv, Sweeping
<1> QED
  BY <1>4, <1>6, <1>7, <1>8 DEF SweepInv

LEMMA LateUnlockKeeps ==
    ASSUME SweepInv, NEW t \in unlocks, LateUnlock(t)
    PROVE  SweepInv'
<1>1. t \in Token /\ \A q \in Process : sweeper[q].token # t
  BY DEF SweepInv, TypeOK, TokenInv
<1>2. /\ lock' = Released(t) /\ unlocks' = unlocks \ {t}
      /\ UNCHANGED <<phase, forced, promoter, sweeper, job, robbed>>
  BY DEF LateUnlock
<1>3. TypeOK'
  BY <1>2, ReleasedType DEF SweepInv, TypeOK
<1>4. TokenInv' /\ TTLInv'
  BY <1>2 DEF SweepInv, TokenInv, TTLInv
<1>5. OwnInv'
  <2> SUFFICES ASSUME NEW q \in Process, sweeper[q].pc = "sweep", q \notin robbed
               PROVE  lock'.token = sweeper[q].token /\ lock'.left > sweeper[q].left
    BY <1>2 DEF OwnInv, Sweeping
  <2>1. lock' = lock
    BY <1>1, <1>2, ReleaseSparesOwner DEF Sweeping
  <2> QED
    BY <2>1 DEF SweepInv, OwnInv, Sweeping
<1> QED
  BY <1>3, <1>4, <1>5 DEF SweepInv

LEMMA FlushDBKeeps ==
    ASSUME SweepInv, FlushDB
    PROVE  SweepInv'
<1>1. 0 \in 0 .. TickTimeout + Margin
  BY Times
<1>2. /\ lock' = FreeLock
      /\ robbed' = {p \in Process : Sweeping(p)}
      /\ UNCHANGED <<phase, forced, promoter, sweeper, job, unlocks>>
  BY DEF FlushDB
<1>3. TypeOK'
  BY <1>1, <1>2 DEF SweepInv, TypeOK, FreeLock
<1>4. TokenInv' /\ TTLInv'
  BY <1>2 DEF SweepInv, TokenInv, TTLInv
<1>5. OwnInv'
  BY <1>2 DEF OwnInv, Sweeping
<1> QED
  BY <1>3, <1>4, <1>5 DEF SweepInv

\* The clock runs for the key and for the ticks alike.
LEMMA TickKeeps ==
    ASSUME SweepInv, Tick
    PROVE  SweepInv'
<1> DEFINE Less(n) == IF n > 0 THEN n - 1 ELSE 0
           s(p) == [sweeper[p] EXCEPT !.left = Less(sweeper[p].left)]
<1>1. /\ \A p \in Process : ~Overdue(p)
      /\ sweeper' = [p \in Process |-> s(p)]
      /\ lock' = IF lock.left > 1 THEN [lock EXCEPT !.left = @ - 1]
                 ELSE IF lock.left = 1 THEN FreeLock ELSE lock
      /\ UNCHANGED <<phase, forced, promoter, job, unlocks, robbed>>
  BY DEF Tick
<1>2. \A p \in Process :
          /\ s(p) \in SweeperState
          /\ s(p).pc = sweeper[p].pc
          /\ s(p).token = sweeper[p].token
          /\ s(p).ttl = sweeper[p].ttl
          /\ s(p).left = Less(sweeper[p].left)
  <2> TAKE p \in Process
  <2>1. sweeper[p] \in SweeperState
    BY DEF SweepInv, TypeOK
  <2>2. sweeper[p].left \in 0 .. TickTimeout
    BY <2>1 DEF SweeperState
  <2>3. Less(sweeper[p].left) \in 0 .. TickTimeout
    BY <2>2, Times
  <2> HIDE DEF Less
  <2> QED
    BY <2>1, <2>3 DEF SweeperState
<1>3. \A p \in Process : sweeper[p].left \in Nat /\ sweeper[p].ttl \in Nat
  BY Times DEF SweepInv, TypeOK, SweeperState
<1> HIDE DEF s
<1>4. \A p \in Process : sweeper'[p] = s(p)
  BY <1>1
<1>5. /\ lock \in [token : Token \cup {NoOne}, left : 0 .. TickTimeout + Margin]
      /\ lock.left \in Nat
  BY Times DEF SweepInv, TypeOK
<1>6. lock' \in [token : Token \cup {NoOne}, left : 0 .. TickTimeout + Margin]
  <2>1. CASE lock.left > 1
    <3>1. lock.left - 1 \in 0 .. TickTimeout + Margin
      BY <2>1, <1>5, Times
    <3> QED
      BY <3>1, <2>1, <1>1, <1>5
  <2>2. CASE lock.left = 1
    <3>1. 0 \in 0 .. TickTimeout + Margin
      BY Times
    <3> QED
      BY <3>1, <2>2, <1>1 DEF FreeLock
  <2>3. CASE ~(lock.left > 1) /\ lock.left # 1
    BY <2>3, <1>1, <1>5
  <2> QED
    BY <2>1, <2>2, <2>3
<1>7. TypeOK'
  <2>1. sweeper' \in [Process -> SweeperState]
    BY <1>1, <1>2
  <2> QED
    BY <2>1, <1>1, <1>6 DEF SweepInv, TypeOK
<1>8. TokenInv'
  BY <1>1, <1>2, <1>4 DEF SweepInv, TokenInv
<1>9. TTLInv'
  BY <1>2, <1>3, <1>4 DEF SweepInv, TTLInv
<1>10. OwnInv'
  <2> SUFFICES ASSUME NEW p \in Process, sweeper[p].pc = "sweep", p \notin robbed
               PROVE  lock'.token = sweeper[p].token /\ lock'.left > Less(sweeper[p].left)
    BY <1>1, <1>2, <1>4 DEF OwnInv, Sweeping
  <2>1. lock.token = sweeper[p].token /\ lock.left > sweeper[p].left
    BY DEF SweepInv, OwnInv, Sweeping
  <2>2. sweeper[p].left > 0
    BY <1>1, <1>3 DEF Overdue
  <2>3. lock.left > 1
    BY <2>1, <2>2, <1>3, <1>5
  <2>4. lock'.token = lock.token /\ lock'.left = lock.left - 1
    BY <2>3, <1>1, <1>5
  <2> QED
    BY <2>1, <2>2, <2>4, <1>3, <1>5
<1> QED
  BY <1>7, <1>8, <1>9, <1>10 DEF SweepInv

-----------------------------------------------------------------------------
(* The life of a process.                                                  *)

LEMMA StartSweeps ==
    ASSUME SweepInv, NEW p \in Process, Start(p)
    PROVE  SweepInv'
<1>1. TypeOK'
  BY NamedStates DEF Start, SweepInv, TypeOK, Phase
<1> QED
  BY <1>1, NamedStates, SweeperRests DEF Start

LEMMA StopSweeperSweeps ==
    ASSUME SweepInv, NEW p \in Process, StopSweeper(p)
    PROVE  SweepInv'
<1>1. sweeper' = [sweeper EXCEPT ![p] = Off]
  BY DEF StopSweeper, TakesStop, SweepInv, TypeOK
<1>2. TypeOK'
  BY <1>1, NamedStates DEF StopSweeper, SweepInv, TypeOK, Phase
<1> QED
  BY <1>1, <1>2, NamedStates, SweeperRests DEF StopSweeper

LEMMA GoneSweeps ==
    ASSUME SweepInv, NEW p \in Process, Gone(p)
    PROVE  SweepInv'
<1>1. job' \in [Request \cup Run -> JobState]
  BY DEF Gone, SweepInv, TypeOK, NoJob, JobState
<1>2. TypeOK'
  BY <1>1, NamedStates DEF Gone, SweepInv, TypeOK, Phase
<1> QED
  BY <1>2, NamedStates, SweeperRests DEF Gone

\* The other steps of main.run and the promoter.
LEMMA MainSweeps ==
    ASSUME SweepInv, NEW p \in Process,
           \/ Signal(p) \/ Drained(p) \/ DrainTimeout(p) \/ ServeFails(p)
           \/ StopPromoter(p) \/ PoolCloses(p)
           \/ PromoterTick(p) \/ PromoterDone(p)
    PROVE  SweepInv'
<1>1. UNCHANGED <<sweeper, job, lock, unlocks, robbed>>
  BY DEF Signal, Drained, DrainTimeout, ServeFails, BeginClose, StopPromoter,
         PoolCloses, PromoterTick, PromoterDone
<1>2. phase' \in [Process -> Phase]
  BY DEF Signal, Drained, DrainTimeout, ServeFails, BeginClose, StopPromoter,
         PoolCloses, PromoterTick, PromoterDone, SweepInv, TypeOK, Phase
<1>3. forced' \in [Process -> BOOLEAN]
  BY Zenon DEF Signal, Drained, DrainTimeout, ServeFails, BeginClose, StopPromoter,
         PoolCloses, PromoterTick, PromoterDone, SweepInv, TypeOK
<1>4. promoter' \in [Process -> {"off", "select", "tick"}]
  BY DEF Signal, Drained, DrainTimeout, ServeFails, BeginClose, StopPromoter,
         PoolCloses, PromoterTick, PromoterDone, SweepInv, TypeOK
<1>5. TypeOK'
  BY <1>1, <1>2, <1>3, <1>4 DEF SweepInv, TypeOK
<1> QED
  BY <1>1, <1>5, SweepStutter

LEMMA JobSweeps ==
    ASSUME SweepInv, NEW j \in Request \cup Run,
           \/ \E p \in Process : Arrive(j, p)
           \/ Query(j) \/ QueryEnds(j) \/ Finish(j)
    PROVE  SweepInv'
<1>0. job[j] \in JobState
  BY DEF SweepInv, TypeOK
<1>1. UNCHANGED <<phase, forced, promoter, sweeper, lock, unlocks, robbed>>
  BY DEF Arrive, Query, QueryEnds, Finish, Becomes
<1>2. \E s \in JobState : job' = [job EXCEPT ![j] = s]
  <2>1. CASE \E p \in Process : Arrive(j, p)
    BY <2>1 DEF Arrive, JobState
  <2>2. ASSUME NEW d \in {"work", "query", "refused"}, Becomes(j, d)
        PROVE  \E s \in JobState : job' = [job EXCEPT ![j] = s]
    <3>1. [job[j] EXCEPT !.doing = d] \in JobState
      BY <1>0 DEF JobState
    <3> QED
      BY <2>2, <3>1 DEF Becomes
  <2>3. CASE Query(j) \/ QueryEnds(j)
    BY <2>2, <2>3 DEF Query, QueryEnds
  <2>4. CASE Finish(j)
    BY <2>4 DEF Finish, NoJob, JobState
  <2> QED
    BY <2>1, <2>3, <2>4
<1>3. TypeOK'
  BY <1>1, <1>2 DEF SweepInv, TypeOK
<1> QED
  BY <1>1, <1>3, SweepStutter

LEMMA SweepInvInit == Init => SweepInv
<1> SUFFICES ASSUME Init PROVE SweepInv
  OBVIOUS
<1>1. \A p \in Process : sweeper[p] = Off
  BY DEF Init
<1>2. unlocks = {}
  BY DEF Init
<1> QED
  BY <1>1, <1>2, InitType, NamedStates
     DEF SweepInv, TokenInv, TTLInv, OwnInv, Sweeping

LEMMA SweepInvNext == SweepInv /\ [Next]_vars => SweepInv'
<1> SUFFICES ASSUME SweepInv, [Next]_vars PROVE SweepInv'
  OBVIOUS
<1>1. ASSUME NEW p \in Front,
             \/ Signal(p) \/ ServeFails(p)
             \/ Closing(p) \/ StopPromoter(p) \/ StopSweeper(p)
             \/ PromoterTick(p) \/ PromoterDone(p)
      PROVE  SweepInv'
  <2>0. p \in Process
    BY FrontAssumption
  <2>1. CASE Exit(p)
    BY <2>0, <2>1, GoneSweeps DEF Exit
  <2>2. CASE StopSweeper(p)
    BY <2>0, <2>2, StopSweeperSweeps
  <2>3. CASE \/ Signal(p) \/ Drained(p) \/ DrainTimeout(p) \/ ServeFails(p)
             \/ StopPromoter(p) \/ PoolCloses(p)
             \/ PromoterTick(p) \/ PromoterDone(p)
    BY <2>0, <2>3, MainSweeps
  <2> QED
    BY <1>1, <2>1, <2>2, <2>3 DEF Closing
<1>2. ASSUME NEW p \in Process,
             \/ Start(p) \/ Crash(p) \/ SweeperTick(p) \/ SweepSteps(p)
      PROVE  SweepInv'
  BY <1>2, StartSweeps, GoneSweeps, SweeperTickKeeps, ReadDeadlineKeeps, TakeLockKeeps,
     LockFailsKeeps, SweepEndsKeeps, UnlockKeeps DEF Crash, SweepSteps
<1>3. ASSUME NEW j \in Request \cup Run,
             \/ \E p \in Front : Arrive(j, p)
             \/ Query(j) \/ QueryEnds(j) \/ Finish(j)
      PROVE  SweepInv'
  BY <1>3, FrontAssumption, JobSweeps
<1>4. ASSUME NEW t \in unlocks, LateUnlock(t)
      PROVE  SweepInv'
  BY <1>4, LateUnlockKeeps
<1>5. CASE UNCHANGED vars
  BY <1>5, SweepStutter DEF vars, SweepInv, TypeOK
<1> QED
  BY <1>1, <1>2, <1>3, <1>4, <1>5, FlushDBKeeps, TickKeeps DEF Next

LEMMA SweepInvAlways == Spec => []SweepInv
  BY SweepInvInit, SweepInvNext, PTL DEF Spec

\* Every reachable state is well typed: the argument of SET NX is a positive
\* time that the margin bounds, and only tokens are ever sent to the script.
THEOREM TypeCorrect == Spec => []TypeOK
<1>1. SweepInv => TypeOK
  BY DEF SweepInv
<1> QED
  BY <1>1, SweepInvAlways, PTL

\* Sweeps exclude each other, unless FLUSHDB took a lock away: for any number
\* of processes, every deadline and margin, and any number of crashes, lost
\* answers and late unlocks.
THEOREM SweepsAreExclusive == Spec => []SweepsExclude
<1>1. SweepInv => SweepsExclude
  <2> SUFFICES ASSUME SweepInv, NEW p \in Process, NEW q \in Process, p # q,
                      Sweeping(p), Sweeping(q), p \notin robbed, q \notin robbed
               PROVE  FALSE
    BY DEF SweepsExclude
  <2>1. sweeper[p].token = sweeper[q].token
    BY DEF SweepInv, OwnInv
  <2> QED
    BY <2>1, Times DEF SweepInv, TokenInv, Sweeping
<1> QED
  BY <1>1, SweepInvAlways, PTL

-----------------------------------------------------------------------------
(* The order of the shutdown.                                              *)

\* A step that moves no phase and wakes no ticker that is off.
LEMMA TickersMove ==
    ASSUME PhaseInv, UNCHANGED phase,
           \A p \in Process : promoter[p] = "off" => promoter'[p] = "off",
           \A p \in Process : sweeper[p].pc = "off" => sweeper'[p].pc = "off"
    PROVE  PhaseInv'
  BY DEF PhaseInv, PoolOpen

\* A step that moves no phase and no request.
LEMMA RequestsRest ==
    ASSUME DrainInv, UNCHANGED <<phase, forced, job>>
    PROVE  DrainInv'
  BY DEF DrainInv, PoolOpen

\* The sweeper's own steps.
LEMMA SweepStepsLive ==
    ASSUME LifeInv, NEW p \in Process, SweeperTick(p) \/ SweepSteps(p)
    PROVE  PhaseInv' /\ DrainInv'
<1>1. PICK s : sweeper' = [sweeper EXCEPT ![p] = s]
  BY DEF SweeperTick, SweepSteps, ReadDeadline, TakeLock, LockFails, SweepEnds, Unlock,
         Sweeper
<1>2. sweeper[p].pc # "off"
  BY DEF SweeperTick, SweepSteps, ReadDeadline, TakeLock, LockFails, SweepEnds, Unlock,
         Sweeping
<1>3. UNCHANGED <<phase, forced, promoter, job>>
  BY DEF SweeperTick, SweepSteps, ReadDeadline, TakeLock, LockFails, SweepEnds, Unlock
<1>4. \A q \in Process : sweeper[q].pc = "off" => sweeper'[q].pc = "off"
  BY <1>1, <1>2 DEF LifeInv, TypeOK
<1> QED
  BY <1>3, <1>4, TickersMove, RequestsRest DEF LifeInv

LEMMA TickLive ==
    ASSUME LifeInv, Tick
    PROVE  PhaseInv' /\ DrainInv'
<1>1. UNCHANGED <<phase, forced, promoter, job>>
  BY DEF Tick
<1>2. \A p \in Process : sweeper'[p].pc = sweeper[p].pc
  BY DEF Tick, LifeInv, TypeOK, SweeperState
<1> QED
  BY <1>1, <1>2, TickersMove, RequestsRest DEF LifeInv

LEMMA PromoterLive ==
    ASSUME LifeInv, NEW p \in Process, PromoterTick(p) \/ PromoterDone(p)
    PROVE  PhaseInv' /\ DrainInv'
<1>1. UNCHANGED <<phase, forced, sweeper, job>> /\ promoter[p] # "off"
  BY DEF PromoterTick, PromoterDone
<1>2. \A q \in Process : promoter[q] = "off" => promoter'[q] = "off"
  BY DEF PromoterTick, PromoterDone, LifeInv, TypeOK
<1> QED
  BY <1>1, <1>2, TickersMove, RequestsRest DEF LifeInv

\* The phases of main.run, one after the other.
LEMMA PhaseMoves ==
    ASSUME LifeInv, NEW p \in Process,
           \/ Start(p) \/ Signal(p) \/ Drained(p) \/ DrainTimeout(p) \/ ServeFails(p)
           \/ StopPromoter(p) \/ StopSweeper(p) \/ PoolCloses(p)
    PROVE  PhaseInv' /\ DrainInv'
<1>0. /\ phase \in [Process -> Phase]
      /\ forced \in [Process -> BOOLEAN]
      /\ promoter \in [Process -> {"off", "select", "tick"}]
      /\ sweeper \in [Process -> SweeperState]
  BY DEF LifeInv, TypeOK
<1>1. CASE Start(p)
  <2>1. /\ phase[p] = "down" /\ phase' = [phase EXCEPT ![p] = "serving"]
        /\ forced' = [forced EXCEPT ![p] = FALSE]
        /\ \A q \in Process : q # p => promoter'[q] = promoter[q] /\ sweeper'[q] = sweeper[q]
        /\ UNCHANGED job
    BY <1>0, <1>1 DEF Start
  <2>2. PhaseInv'
    BY <2>1, <1>0 DEF LifeInv, PhaseInv, PoolOpen
  <2>3. DrainInv'
    BY <2>1, <1>0 DEF LifeInv, DrainInv, PoolOpen
  <2> QED
    BY <2>2, <2>3
<1>2. CASE Signal(p)
  BY <1>0, <1>2 DEF Signal, LifeInv, PhaseInv, DrainInv, PoolOpen
<1>3. CASE Drained(p)
  <2>1. \A j \in Request : job[j].at # p
    BY <1>3 DEF Drained, At
  <2>2. /\ phase[p] = "draining" /\ phase' = [phase EXCEPT ![p] = "stopPromoter"]
        /\ forced' = [forced EXCEPT ![p] = FALSE]
        /\ UNCHANGED <<promoter, sweeper, job>>
    BY <1>3 DEF Drained, BeginClose
  <2>3. PhaseInv'
    BY <2>2, <1>0 DEF LifeInv, PhaseInv, PoolOpen
  <2>4. DrainInv'
    BY <2>1, <2>2, <1>0 DEF LifeInv, DrainInv, PoolOpen
  <2> QED
    BY <2>3, <2>4
<1>4. CASE DrainTimeout(p) \/ ServeFails(p)
  <2>1. /\ phase[p] \in {"serving", "draining"}
        /\ phase' = [phase EXCEPT ![p] = "stopPromoter"]
        /\ forced' = [forced EXCEPT ![p] = TRUE]
        /\ UNCHANGED <<promoter, sweeper, job>>
    BY <1>4 DEF DrainTimeout, ServeFails, BeginClose
  <2>2. PhaseInv'
    BY <2>1, <1>0 DEF LifeInv, PhaseInv, PoolOpen
  <2>3. DrainInv'
    BY <2>1, <1>0 DEF LifeInv, DrainInv, PoolOpen
  <2> QED
    BY <2>2, <2>3
<1>5. CASE StopPromoter(p)
  BY <1>0, <1>5 DEF StopPromoter, LifeInv, PhaseInv, DrainInv, PoolOpen
<1>6. CASE StopSweeper(p)
  <2>1. /\ phase[p] = "stopSweeper" /\ phase' = [phase EXCEPT ![p] = "closePool"]
        /\ sweeper'[p] = Off
        /\ \A q \in Process : q # p => sweeper'[q] = sweeper[q]
        /\ UNCHANGED <<forced, promoter, job>>
    BY <1>0, <1>6 DEF StopSweeper, TakesStop
  <2>2. PhaseInv'
    BY <2>1, <1>0, NamedStates DEF LifeInv, PhaseInv, PoolOpen
  <2>3. DrainInv'
    BY <2>1, <1>0 DEF LifeInv, DrainInv, PoolOpen
  <2> QED
    BY <2>2, <2>3
<1>7. CASE PoolCloses(p)
  BY <1>0, <1>7 DEF PoolCloses, LifeInv, PhaseInv, DrainInv, PoolOpen
<1> QED
  BY <1>1, <1>2, <1>3, <1>4, <1>5, <1>6, <1>7

LEMMA GoneLive ==
    ASSUME LifeInv, NEW p \in Process, Gone(p)
    PROVE  PhaseInv' /\ DrainInv'
<1>0. /\ phase \in [Process -> Phase]
      /\ forced \in [Process -> BOOLEAN]
      /\ promoter \in [Process -> {"off", "select", "tick"}]
      /\ sweeper \in [Process -> SweeperState]
  BY DEF LifeInv, TypeOK
<1>1. PhaseInv'
  BY <1>0, NamedStates DEF Gone, LifeInv, PhaseInv, PoolOpen
<1>2. \A j \in Request : \/ job'[j].doing = "nothing"
                         \/ job'[j] = job[j] /\ job[j].at # p
  BY DEF Gone, NoJob
<1>3. \A q \in Process : q # p => phase'[q] = phase[q] /\ forced'[q] = forced[q]
  BY <1>0 DEF Gone
<1>4. DrainInv'
  BY <1>2, <1>3 DEF LifeInv, DrainInv, PoolOpen
<1> QED
  BY <1>1, <1>4

LEMMA JobLive ==
    ASSUME LifeInv, NEW i \in Request \cup Run,
           \/ \E p \in Process : Arrive(i, p)
           \/ Query(i) \/ QueryEnds(i) \/ Finish(i)
    PROVE  PhaseInv' /\ DrainInv'
<1>0. job \in [Request \cup Run -> JobState]
  BY DEF LifeInv, TypeOK
<1>1. UNCHANGED <<phase, forced, promoter, sweeper>>
  BY DEF Arrive, Query, QueryEnds, Finish, Becomes
<1>2. PhaseInv'
  BY <1>1, TickersMove DEF LifeInv
<1>3. \A j \in Request : j # i => job'[j] = job[j]
  BY <1>0 DEF Arrive, Query, QueryEnds, Finish, Becomes
<1>4. ASSUME i \in Request, job'[i].doing # "nothing"
      PROVE  /\ job'[i].at \in Process
             /\ phase[job'[i].at] # "down"
             /\ phase[job'[i].at] \in {"serving", "draining"} \/ forced[job'[i].at]
             /\ job'[i].doing = "refused" => ~PoolOpen(job'[i].at)
  <2>1. CASE \E p \in Process : Arrive(i, p)
    <3>1. PICK p \in Process : Arrive(i, p)
      BY <2>1
    <3>2. job'[i] = [at |-> p, doing |-> "work"] /\ phase[p] = "serving"
      BY <3>1, <1>0 DEF Arrive
    <3> QED
      BY <3>2
  <2>2. CASE Query(i)
    <3>1. job[i].doing = "work" /\ job'[i].at = job[i].at
          /\ job'[i].doing = IF PoolOpen(job[i].at) THEN "query" ELSE "refused"
      BY <2>2, <1>0 DEF Query, Becomes, JobState
    <3> QED
      BY <3>1, <1>4 DEF LifeInv, DrainInv
  <2>3. CASE QueryEnds(i)
    <3>1. job[i].doing = "query" /\ job'[i].at = job[i].at /\ job'[i].doing = "work"
      BY <2>3, <1>0 DEF QueryEnds, Becomes, JobState
    <3> QED
      BY <3>1, <1>4 DEF LifeInv, DrainInv
  <2>4. CASE Finish(i)
    BY <2>4, <1>0, <1>4 DEF Finish, NoJob
  <2> QED
    BY <2>1, <2>2, <2>3, <2>4
<1>5. DrainInv'
  BY <1>1, <1>3, <1>4 DEF LifeInv, DrainInv, PoolOpen
<1> QED
  BY <1>2, <1>5

LEMMA LifeInvInit == Init => PhaseInv /\ DrainInv
<1> SUFFICES ASSUME Init PROVE PhaseInv /\ DrainInv
  OBVIOUS
<1>1. \A j \in Request : job[j].doing = "nothing"
  BY DEF Init, NoJob
<1> QED
  BY <1>1, NamedStates DEF Init, PhaseInv, DrainInv

LEMMA LifeInvNext == LifeInv /\ [Next]_vars => PhaseInv' /\ DrainInv'
<1> SUFFICES ASSUME LifeInv, [Next]_vars PROVE PhaseInv' /\ DrainInv'
  OBVIOUS
<1>1. ASSUME NEW p \in Front,
             \/ Signal(p) \/ ServeFails(p)
             \/ Closing(p) \/ StopPromoter(p) \/ StopSweeper(p)
             \/ PromoterTick(p) \/ PromoterDone(p)
      PROVE  PhaseInv' /\ DrainInv'
  <2>0. p \in Process
    BY FrontAssumption
  <2>1. CASE Exit(p)
    BY <2>0, <2>1, GoneLive DEF Exit
  <2>2. CASE PromoterTick(p) \/ PromoterDone(p)
    BY <2>0, <2>2, PromoterLive
  <2>3. CASE \/ Signal(p) \/ Drained(p) \/ DrainTimeout(p) \/ ServeFails(p)
             \/ StopPromoter(p) \/ StopSweeper(p) \/ PoolCloses(p)
    BY <2>0, <2>3, PhaseMoves
  <2> QED
    BY <1>1, <2>1, <2>2, <2>3 DEF Closing
<1>2. ASSUME NEW p \in Process,
             \/ Start(p) \/ Crash(p) \/ SweeperTick(p) \/ SweepSteps(p)
      PROVE  PhaseInv' /\ DrainInv'
  BY <1>2, PhaseMoves, GoneLive, SweepStepsLive DEF Crash
<1>3. ASSUME NEW j \in Request \cup Run,
             \/ \E p \in Front : Arrive(j, p)
             \/ Query(j) \/ QueryEnds(j) \/ Finish(j)
      PROVE  PhaseInv' /\ DrainInv'
  BY <1>3, FrontAssumption, JobLive
<1>4. CASE UNCHANGED <<phase, forced, promoter, sweeper, job>>
  BY <1>4, TickersMove, RequestsRest DEF LifeInv
<1>5. ASSUME NEW t \in unlocks, LateUnlock(t)
      PROVE  PhaseInv' /\ DrainInv'
  BY <1>4, <1>5 DEF LateUnlock
<1>6. CASE FlushDB
  BY <1>4, <1>6 DEF FlushDB
<1> QED
  BY <1>1, <1>2, <1>3, <1>4, <1>5, <1>6, TickLive DEF Next, vars

LEMMA LifeInvAlways == Spec => []LifeInv
<1>1. Init => PhaseInv /\ DrainInv
  BY LifeInvInit
<1>2. TypeOK /\ (PhaseInv /\ DrainInv) /\ [Next]_vars => (PhaseInv /\ DrainInv)'
  BY LifeInvNext DEF LifeInv
<1>3. TypeOK /\ (PhaseInv /\ DrainInv) => LifeInv
  BY DEF LifeInv
<1> QED
  BY <1>1, <1>2, <1>3, TypeCorrect, PTL DEF Spec

\* No tick, of however many processes, runs when its pools are closed: Close
\* stops the tickers first, and between two ticks.
THEOREM PoolsOutliveTicks == Spec => []TicksFindPoolsOpen
<1>1. LifeInv => TicksFindPoolsOpen
  BY DEF LifeInv, PhaseInv, TicksFindPoolsOpen
<1> QED
  BY <1>1, LifeInvAlways, PTL

\* A request meets a closed pool only in a process whose Close was forced, by
\* Shutdown's deadline or a listener that failed.
THEOREM RequestsAreSpared == Spec => []DrainSparesRequests
<1>1. LifeInv => DrainSparesRequests
  BY DEF LifeInv, DrainInv, DrainSparesRequests, PoolOpen
<1> QED
  BY <1>1, LifeInvAlways, PTL
=============================================================================
