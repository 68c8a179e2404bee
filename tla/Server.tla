------------------------------- MODULE Server -------------------------------
(***************************************************************************)
(* The life of the back-end processes that share one Postgres and one      *)
(* Redis: start, serving, the shutdown of main.run with its deferred       *)
(* Repositories.Close, crash and restart, and in each process the two      *)
(* tickers.  The promoter's tick is VirtualQueue's and the sweep statement *)
(* Reservations'; here they are things that take time and need the pools,  *)
(* and what matters is who runs when: the Redis lock that keeps sweeps     *)
(* apart, and the order in which a process takes itself down.              *)
(*                                                                         *)
(* net/http, pgxpool, context and Redis are external.  Shutdown waits for  *)
(* the connections it serves, not for goroutines handlers left behind;     *)
(* Pool.Close refuses new acquisitions at once and waits for the others;   *)
(* code under a context notices its deadline less than a tick late.        *)
(***************************************************************************)
EXTENDS Naturals, FiniteSets

CONSTANTS
    Process,    \* back-end processes
    Front,      \* a bound: those that get requests, promote and are stopped;
                \* the others only sweep and crash
    Request,    \* HTTP requests, streams included
    Run,        \* simulation runs, which outlive the request that started them
    Token,      \* values of uuid.NewString
    NoOne,
    TickTimeout,\* the context of a sweeper tick, in ticks of the clock
    Margin,     \* marginTTL
    MaxLate     \* bound: unlock commands under way at one time

ASSUME TimesAssumption ==
    TickTimeout \in Nat \ {0} /\ Margin \in Nat \ {0} /\ MaxLate \in Nat
ASSUME FrontAssumption == Front \subseteq Process
ASSUME NamesAssumption == NoOne \notin Token \cup Process /\ Request \cap Run = {}
ASSUME FiniteAssumption == IsFiniteSet(Token)

VARIABLES
    phase,      \* how far main.run has come in each process
    forced,     \* history: the process goes down with requests in flight
    promoter,   \* the goroutine of startPromoterTicker
    sweeper,    \* the goroutine of startRefreshEventStatusTicker
    job,        \* requests and runs: where they run, and at what
    lock,       \* the Redis key of the sweep lock
    unlocks,    \* unlock scripts sent and not yet executed
    robbed      \* history: sweeps whose lock FLUSHDB removed

vars == <<phase, forced, promoter, sweeper, job, lock, unlocks, robbed>>

-----------------------------------------------------------------------------
(* Types.                                                                  *)

Phase == {"down", "serving", "draining", "stopPromoter", "stopSweeper",
          "closePool", "closeRedis"}

SweeperState == [pc : {"off", "select", "begin", "set", "sweep", "unlock"},
                 left : 0 .. TickTimeout,           \* until the tick's deadline
                 ttl : 0 .. TickTimeout + Margin,   \* argument of SET NX
                 token : Token \cup {NoOne}]
InSelect == [pc |-> "select", left |-> 0, ttl |-> 0, token |-> NoOne]
Off == [InSelect EXCEPT !.pc = "off"]

\* "refused": the job found the pool closed.
JobState == [at : Process \cup {NoOne},
             doing : {"nothing", "work", "query", "refused"}]
NoJob == [at |-> NoOne, doing |-> "nothing"]

FreeLock == [token |-> NoOne, left |-> 0]

TypeOK ==
    /\ phase \in [Process -> Phase]
    /\ forced \in [Process -> BOOLEAN]
    /\ promoter \in [Process -> {"off", "select", "tick"}]
    /\ sweeper \in [Process -> SweeperState]
    /\ job \in [Request \cup Run -> JobState]
    /\ lock \in [token : Token \cup {NoOne}, left : 0 .. TickTimeout + Margin]
    /\ unlocks \in SUBSET Token
    /\ robbed \in SUBSET Process

PoolOpen(p) ==
    phase[p] \in {"serving", "draining", "stopPromoter", "stopSweeper"}

At(p, J) == {j \in J : job[j].at = p}

-----------------------------------------------------------------------------
(* main.run.                                                               *)

\* NewRepositories reaches both stores and starts both tickers; the listener
\* is up.  A start that fails leaves nothing behind.
Start(p) ==
    /\ phase[p] = "down"
    /\ phase' = [phase EXCEPT ![p] = "serving"]
    /\ forced' = [forced EXCEPT ![p] = FALSE]
    /\ promoter' = [promoter EXCEPT ![p] = "select"]
    /\ sweeper' = [sweeper EXCEPT ![p] = InSelect]
    /\ UNCHANGED <<job, lock, unlocks, robbed>>

\* SIGTERM or an interrupt: srv.Shutdown closes the listener and waits.
Signal(p) ==
    /\ phase[p] = "serving"
    /\ phase' = [phase EXCEPT ![p] = "draining"]
    /\ UNCHANGED <<forced, promoter, sweeper, job, lock, unlocks, robbed>>

\* Close is about to run; byForce if it cannot count on the requests' end.
BeginClose(p, byForce) ==
    /\ phase' = [phase EXCEPT ![p] = "stopPromoter"]
    /\ forced' = [forced EXCEPT ![p] = byForce]
    /\ UNCHANGED <<promoter, sweeper, job, lock, unlocks, robbed>>

MutantNoDrain(p) == phase[p] = "draining" /\ BeginClose(p, FALSE)
\* Shutdown returns once no request is in flight.
Drained(p) ==
    /\ phase[p] = "draining"
    /\ At(p, Request) = {}
    /\ BeginClose(p, FALSE)

MutantShutdownNoDeadline(p) == FALSE /\ BeginClose(p, TRUE)
\* Its 30 seconds ran out, or ListenAndServe failed: run returns the error, and
\* the deferred Close runs all the same.
DrainTimeout(p) ==
    /\ phase[p] = "draining"
    /\ At(p, Request) # {}
    /\ BeginClose(p, TRUE)
ServeFails(p) == phase[p] = "serving" /\ BeginClose(p, TRUE)

MutantBufferedStop(p) == TRUE
\* Close sends on an unbuffered channel: the ticker's goroutine takes it in
\* its select, between two ticks.
TakesStop(p) == sweeper[p].pc = "select"

StopPromoter(p) ==
    /\ phase[p] = "stopPromoter"
    /\ promoter[p] = "select"
    /\ promoter' = [promoter EXCEPT ![p] = "off"]
    /\ phase' = [phase EXCEPT ![p] = "stopSweeper"]
    /\ UNCHANGED <<forced, sweeper, job, lock, unlocks, robbed>>

StopSweeper(p) ==
    /\ phase[p] = "stopSweeper"
    /\ TakesStop(p)
    /\ sweeper' = [sweeper EXCEPT ![p] = IF @.pc = "select" THEN Off ELSE @]
    /\ phase' = [phase EXCEPT ![p] = "closePool"]
    /\ UNCHANGED <<forced, promoter, job, lock, unlocks, robbed>>

\* DbPool.Close, refusing acquisitions since the phase began, has got every
\* connection back.
PoolCloses(p) ==
    /\ phase[p] = "closePool"
    /\ \A j \in At(p, Request \cup Run) : job[j].doing # "query"
    /\ phase' = [phase EXCEPT ![p] = "closeRedis"]
    /\ UNCHANGED <<forced, promoter, sweeper, job, lock, unlocks, robbed>>

\* Nothing of a process is left but what it wrote to the stores.
Gone(p) ==
    /\ phase' = [phase EXCEPT ![p] = "down"]
    /\ forced' = [forced EXCEPT ![p] = FALSE]
    /\ promoter' = [promoter EXCEPT ![p] = "off"]
    /\ sweeper' = [sweeper EXCEPT ![p] = Off]
    /\ job' = [j \in Request \cup Run |-> IF job[j].at = p THEN NoJob ELSE job[j]]
    /\ robbed' = robbed \ {p}
    /\ UNCHANGED <<lock, unlocks>>

\* Rdb.Close, and main returns: goroutines still running end with it.
Exit(p) == phase[p] = "closeRedis" /\ Gone(p)

Crash(p) == phase[p] # "down" /\ Gone(p)

-----------------------------------------------------------------------------
(* Requests and simulation runs.                                           *)

Becomes(j, doing) ==
    /\ job' = [job EXCEPT ![j] = [@ EXCEPT !.doing = doing]]
    /\ UNCHANGED <<phase, forced, promoter, sweeper, lock, unlocks, robbed>>

Arrive(j, p) ==
    /\ job[j] = NoJob
    /\ phase[p] = "serving"
    /\ job' = [job EXCEPT ![j] = [at |-> p, doing |-> "work"]]
    /\ UNCHANGED <<phase, forced, promoter, sweeper, lock, unlocks, robbed>>

\* The job asks the pool for a connection.
Query(j) ==
    /\ job[j].doing = "work"
    /\ Becomes(j, IF PoolOpen(job[j].at) THEN "query" ELSE "refused")

QueryEnds(j) == job[j].doing = "query" /\ Becomes(j, "work")

Finish(j) ==
    /\ job[j].doing \in {"work", "refused"}
    /\ job' = [job EXCEPT ![j] = NoJob]
    /\ UNCHANGED <<phase, forced, promoter, sweeper, lock, unlocks, robbed>>

-----------------------------------------------------------------------------
(* The promoter: a tick takes time, at most promoteTickTimeout.            *)

PromoterTick(p) ==
    /\ promoter[p] = "select"
    /\ promoter' = [promoter EXCEPT ![p] = "tick"]
    /\ UNCHANGED <<phase, forced, sweeper, job, lock, unlocks, robbed>>

PromoterDone(p) ==
    /\ promoter[p] = "tick"
    /\ promoter' = [promoter EXCEPT ![p] = "select"]
    /\ UNCHANGED <<phase, forced, sweeper, job, lock, unlocks, robbed>>

-----------------------------------------------------------------------------
(* The sweeper: RefreshEventStatus under the lock.                         *)

Sweeper(p, s) == sweeper' = [sweeper EXCEPT ![p] = s]
Sweeping(p) == sweeper[p].pc = "sweep"

SweeperTick(p) ==
    /\ sweeper[p].pc = "select"
    /\ Sweeper(p, [InSelect EXCEPT !.pc = "begin", !.left = TickTimeout])
    /\ UNCHANGED <<phase, forced, promoter, job, lock, unlocks, robbed>>

MutantMarginTwice(left) == left + Margin + Margin
LockTTL(left) == left + Margin

\* GetRemainingDeadline: nothing left is DeadlineExceeded, and the tick ends.
ReadDeadline(p) ==
    LET s == sweeper[p] IN
    /\ s.pc = "begin"
    /\ Sweeper(p, IF s.left = 0 THEN InSelect
                  ELSE [s EXCEPT !.pc = "set", !.ttl = LockTTL(s.left)])
    /\ UNCHANGED <<phase, forced, promoter, job, lock, unlocks, robbed>>

\* Tokens nobody has, in a process or on the way to Redis.  Any one will do:
\* tokens are only compared.
NewToken ==
    {t \in Token : t \notin unlocks /\ \A p \in Process : sweeper[p].token # t}

MutantNoExpiry(t, ttl) == [token |-> t, left |-> 0]
TakenLock(t, ttl) == [token |-> t, left |-> ttl]

\* SET NX on a free key.  If the answer is lost (or a retry of the command
\* finds the key of the first attempt) the tick ends and the key stays.
TakeLock(p) ==
    LET s == sweeper[p] IN
    /\ s.pc = "set"
    /\ lock.token = NoOne
    /\ NewToken # {}
    /\ LET t == CHOOSE t \in NewToken : TRUE IN
          /\ lock' = TakenLock(t, s.ttl)
          /\ \/ Sweeper(p, [s EXCEPT !.pc = "sweep", !.token = t])
             \/ Sweeper(p, InSelect)
    /\ UNCHANGED <<phase, forced, promoter, job, unlocks, robbed>>

\* The key exists, ErrRefreshEventStatusInProgress, or the command failed.
LockFails(p) ==
    /\ sweeper[p].pc = "set"
    /\ Sweeper(p, InSelect)
    /\ UNCHANGED <<phase, forced, promoter, job, lock, unlocks, robbed>>

\* The UPDATE and the UnblockEvent calls are over, or failed, or the deadline
\* cut them off.
SweepEnds(p) ==
    /\ Sweeping(p)
    /\ Sweeper(p, [sweeper[p] EXCEPT !.pc = "unlock"])
    /\ robbed' = robbed \ {p}
    /\ UNCHANGED <<phase, forced, promoter, job, lock, unlocks>>

MutantUnlockAny(t) == FreeLock
\* unlockScript for token t: DEL only if the key still holds it.
Released(t) == IF lock.token = t THEN FreeLock ELSE lock

\* The deferred release: executed now, later (after its second ran out), or
\* never.
Unlock(p) ==
    LET t == sweeper[p].token IN
    /\ sweeper[p].pc = "unlock"
    /\ \/ lock' = Released(t) /\ UNCHANGED unlocks
       \/ /\ Cardinality(unlocks) < MaxLate
          /\ unlocks' = unlocks \cup {t}
          /\ UNCHANGED lock
       \/ UNCHANGED <<lock, unlocks>>
    /\ Sweeper(p, InSelect)
    /\ UNCHANGED <<phase, forced, promoter, job, robbed>>

LateUnlock(t) ==
    /\ t \in unlocks
    /\ unlocks' = unlocks \ {t}
    /\ lock' = Released(t)
    /\ UNCHANGED <<phase, forced, promoter, sweeper, job, robbed>>

-----------------------------------------------------------------------------
(* The environment.                                                        *)

\* FLUSHDB by the simulate or the reset handler takes the lock away as well.
FlushDB ==
    /\ lock.token # NoOne
    /\ lock' = FreeLock
    /\ robbed' = {p \in Process : Sweeping(p)}
    /\ UNCHANGED <<phase, forced, promoter, sweeper, job, unlocks>>

\* Code under the context of its tick that has to stop before time goes on.
Overdue(p) == sweeper[p].pc \in {"begin", "set", "sweep"} /\ sweeper[p].left = 0

Tick ==
    /\ \A p \in Process : ~Overdue(p)
    /\ lock.left > 0 \/ \E p \in Process : sweeper[p].left > 0
    /\ lock' = IF lock.left > 1 THEN [lock EXCEPT !.left = @ - 1]
               ELSE IF lock.left = 1 THEN FreeLock ELSE lock
    /\ sweeper' = [p \in Process |-> [sweeper[p] EXCEPT
                      !.left = IF @ > 0 THEN @ - 1 ELSE 0]]
    /\ UNCHANGED <<phase, forced, promoter, job, unlocks, robbed>>

-----------------------------------------------------------------------------

Init ==
    /\ phase = [p \in Process |-> "down"]
    /\ forced = [p \in Process |-> FALSE]
    /\ promoter = [p \in Process |-> "off"]
    /\ sweeper = [p \in Process |-> Off]
    /\ job = [j \in Request \cup Run |-> NoJob]
    /\ lock = FreeLock
    /\ unlocks = {}
    /\ robbed = {}

Closing(p) ==
    \/ Drained(p) \/ DrainTimeout(p) \/ PoolCloses(p) \/ Exit(p)

SweepSteps(p) ==
    \/ ReadDeadline(p) \/ TakeLock(p) \/ LockFails(p) \/ SweepEnds(p) \/ Unlock(p)

Next ==
    \/ \E p \in Front :
          \/ Signal(p) \/ ServeFails(p)
          \/ Closing(p) \/ StopPromoter(p) \/ StopSweeper(p)
          \/ PromoterTick(p) \/ PromoterDone(p)
    \/ \E p \in Process :
          \/ Start(p) \/ Crash(p)
          \/ SweeperTick(p) \/ SweepSteps(p)
    \/ \E j \in Request \cup Run :
          \/ \E p \in Front : Arrive(j, p)
          \/ Query(j) \/ QueryEnds(j) \/ Finish(j)
    \/ \E t \in unlocks : LateUnlock(t)
    \/ FlushDB
    \/ Tick

Spec == Init /\ [][Next]_vars

-----------------------------------------------------------------------------
(* Properties.                                                             *)

\* Two processes never sweep at the same time, whatever answers are lost,
\* however late an unlock arrives and wherever a holder crashes: unless the
\* lock of one of them was flushed, SET NX excludes the other until its time to
\* live, the rest of the tick plus marginTTL, has outlasted the sweep.
SweepsExclude ==
    \A p, q \in Process :
        p # q /\ Sweeping(p) /\ Sweeping(q) => p \in robbed \/ q \in robbed

\* Repositories.Close stops a ticker only between two ticks and closes the
\* pools after both have stopped: no tick finds the pool or Redis closed.
TicksFindPoolsOpen ==
    \A p \in Process :
        /\ promoter[p] = "tick" => phase[p] \notin {"down", "stopSweeper", "closePool",
                                                    "closeRedis"}
        /\ sweeper[p].pc \notin {"off", "select"} => PoolOpen(p)

\* A request accepted before the signal is served to its end: it finds the
\* pool closed only when Shutdown gave up on it or the listener failed.
DrainSparesRequests ==
    \A j \in Request : job[j].doing = "refused" => forced[job[j].at]

-----------------------------------------------------------------------------
(* Fairness.  Every call of a tick and every query runs under a context    *)
(* with a deadline, Shutdown too; select picks at random among the cases   *)
(* that are ready, so a stop that keeps being offered is taken; Redis      *)
(* counts times to live down.  No fairness for requests: a stream ends     *)
(* when its client goes.                                                   *)

Fairness ==
    /\ WF_vars(Tick)
    /\ \A p \in Front :
          /\ WF_vars(Closing(p))
          /\ SF_vars(StopPromoter(p))
          /\ SF_vars(StopSweeper(p))
          /\ WF_vars(PromoterDone(p))
    /\ \A p \in Process : WF_vars(SweepSteps(p))
    /\ \A j \in Request \cup Run : WF_vars(QueryEnds(j))

FairSpec == Spec /\ Fairness

\* A process told to stop does stop, with a stream open, a simulation still
\* running, a tick in progress and ticks coming in as fast as they can.
ShutdownEnds == \A p \in Front : phase[p] = "draining" ~> phase[p] = "down"

\* A lock nobody sweeps under (its holder died, or never heard that it had got
\* the lock, or its unlock was lost) does not keep the sweeps out for ever.
OrphanLockEnds ==
    LET Owned == \E p \in Process : sweeper[p].token = lock.token
    IN  lock.token # NoOne /\ ~Owned ~> lock.token = NoOne \/ Owned
=============================================================================
