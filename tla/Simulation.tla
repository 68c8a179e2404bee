----------------------------- MODULE Simulation -----------------------------
(***************************************************************************)
(* The simulation runs of one event in one process: the registry that      *)
(* starts, cancels and forgets them, the simulate and reset handlers that  *)
(* prepare the database and Redis before, and the runner with its          *)
(* simulated users, its reserve semaphore and its admission gate.          *)
(*                                                                         *)
(* The registry's methods run under its mutex and are single steps.  What  *)
(* the handlers do to the tables, and what a simulated user's calls do in  *)
(* the waiting room and the store, are steps of the other modules: here a  *)
(* call has any of its results, and a context may end at any time.  Runs   *)
(* of other events share nothing with these but Redis, which they flush.   *)
(***************************************************************************)
EXTENDS Naturals, FiniteSets

CONSTANTS
    Handler,    \* concurrent simulate and reset requests
    RunId,      \* ids runs are given (a bound)
    NoRun,      \* no run
    SimUser,    \* cfg.UserIds of every run
    Workers     \* cfg.Workers, the size of the reserve semaphore

ASSUME NoRunAssumption == NoRun \notin RunId
ASSUME UserAssumption == IsFiniteSet(SimUser)
ASSUME WorkersAssumption == Workers \in Nat \ {0}

VARIABLES
    request,    \* the simulate and reset requests in progress
    runs,       \* Registry.runs: the runs it knows
    byEvent,    \* Registry.byEvent: the last run of the event
    run,        \* the Run method of each runner
    cancelled,  \* the runs whose context was cancelled
    user,       \* the runUser goroutines
    started,    \* Runner.started
    counted,    \* the sum of Runner's outcome counters
    override,   \* the gate in Redis, named by the run that set it
    stray,      \* history: a run ended without taking its gate away
    flushed     \* history: Redis was flushed since the last gate was set

registry == <<runs, byEvent>>
redis == <<override, stray, flushed>>
runner == <<run, cancelled, user, started, counted>>
vars == <<request, registry, runner, redis>>

-----------------------------------------------------------------------------
(* Types.                                                                  *)

\* hit: history, the runs that were live when the request changed the tables
\* or Redis.
RequestState == [pc : {"idle", "prepare", "flush", "start"},
                 kind : {"simulate", "reset"}, hit : SUBSET RunId]
IdleRequest == [pc |-> "idle", kind |-> "reset", hit |-> {}]

\* failed: Run returned before it launched anybody.
RunState == [pc : {"absent", "begin", "launch", "wait", "clear", "done"},
             gate : BOOLEAN, failed : BOOLEAN]
AbsentRun == [pc |-> "absent", gate |-> FALSE, failed |-> FALSE]

UserPc == {"unborn", "enqueue", "poll", "admitted", "reserve", "over"}

TypeOK ==
    /\ request \in [Handler -> RequestState]
    /\ runs \in SUBSET RunId
    /\ byEvent \in RunId \cup {NoRun}
    /\ run \in [RunId -> RunState]
    /\ cancelled \in SUBSET RunId
    /\ user \in [RunId -> [SimUser -> UserPc]]
    /\ started \in [RunId -> 0 .. Cardinality(SimUser)]
    /\ counted \in [RunId -> 0 .. Cardinality(SimUser)]
    /\ override \in RunId \cup {NoRun}
    /\ stray \in BOOLEAN
    /\ flushed \in BOOLEAN

-----------------------------------------------------------------------------
(* The registry.                                                           *)

Done(r) == run[r].pc = "done"
Exists(r) == run[r].pc # "absent"
Live(r) == Exists(r) /\ ~Done(r)
LiveRuns == {r \in RunId : Live(r)}

\* HasActiveRun, which is also the guard of Start, and HasAnyActiveRun.
HasActiveRun == byEvent \in runs /\ ~Done(byEvent)
HasAnyActiveRun == \E r \in runs : ~Done(r)

\* Start: a new run, under an id nobody else has, or ErrRunInProgress.
NewRunId == CHOOSE r \in RunId : ~Exists(r)
Start(h, gate) ==
    LET r == NewRunId IN
    /\ request[h].pc = "start"
    /\ ~HasActiveRun
    /\ \E r1 \in RunId : ~Exists(r1)
    /\ run' = [run EXCEPT ![r] = [pc |-> "begin", gate |-> gate, failed |-> FALSE]]
    /\ runs' = runs \cup {r}
    /\ byEvent' = r
    /\ request' = [request EXCEPT ![h] = IdleRequest]
    /\ UNCHANGED <<cancelled, user, started, counted, redis>>

StartRefused(h) ==
    /\ request[h].pc = "start"
    /\ HasActiveRun
    /\ request' = [request EXCEPT ![h] = IdleRequest]
    /\ UNCHANGED <<registry, runner, redis>>

\* The cancel handler.  The context of a run that is done has ended anyway.
Cancel(r) ==
    /\ r \in runs \ cancelled
    /\ ~Done(r)
    /\ cancelled' = cancelled \cup {r}
    /\ UNCHANGED <<request, registry, run, user, started, counted, redis>>

\* Mutant: the event's entry goes whichever run it names.
MutantLast(r) == NoRun
\* The entry of the event after run r was forgotten.
LastWithout(r) == IF byEvent = r THEN NoRun ELSE byEvent

\* forget, runRetention after the end of the run: its runner is garbage.
Forget(r) ==
    /\ r \in runs
    /\ Done(r)
    /\ runs' = runs \ {r}
    /\ byEvent' = LastWithout(r)
    /\ run' = [run EXCEPT ![r] = [AbsentRun EXCEPT !.pc = "done"]]
    /\ cancelled' = cancelled \ {r}
    /\ user' = [user EXCEPT ![r] = [u \in SimUser |-> "unborn"]]
    /\ started' = [started EXCEPT ![r] = 0]
    /\ counted' = [counted EXCEPT ![r] = 0]
    /\ UNCHANGED <<request, redis>>

-----------------------------------------------------------------------------
(* The simulate and reset handlers.                                        *)

RequestAt(h, pc) == request[h].pc = pc
RequestGoes(h, pc) == request' = [request EXCEPT ![h] = [@ EXCEPT !.pc = pc]]
\* It goes on after it changed something under the runs that are live.
RequestHits(h, pc) ==
    request' = [request EXCEPT ![h] = [request[h] EXCEPT !.pc = pc,
                                                         !.hit = request[h].hit \cup LiveRuns]]

\* The check comes before everything else; a request that finds a run is over.
Check(h, kind) ==
    /\ RequestAt(h, "idle")
    /\ kind = "simulate" => ~HasActiveRun
    /\ kind = "reset" => ~HasAnyActiveRun
    /\ request' = [request EXCEPT ![h] = [pc |-> "prepare", kind |-> kind, hit |-> {}]]
    /\ UNCHANGED <<registry, runner, redis>>

\* What the request does to the tables and the local flags: UPDATE of the
\* capacity and DELETE where asked for, or TRUNCATE.  A simulation without
\* reset leaves Redis alone, and the tables too if it gives no capacity.
Prepare(h) ==
    /\ RequestAt(h, "prepare")
    /\ \/ RequestHits(h, "flush")
       \/ /\ request[h].kind = "simulate"
          /\ RequestHits(h, "start") \/ RequestGoes(h, "start")
    /\ UNCHANGED <<registry, runner, redis>>

\* FLUSHDB takes the gate along, whoever set it.  A reset ends here; a
\* simulation mints its users and goes on to Start.
Flush(h) ==
    /\ RequestAt(h, "flush")
    /\ override' = NoRun
    /\ stray' = FALSE
    /\ flushed' = TRUE
    /\ IF request[h].kind = "simulate" THEN RequestHits(h, "start")
       ELSE request' = [request EXCEPT ![h] = IdleRequest]
    /\ UNCHANGED <<registry, runner>>

\* A simulation of another event, whose check does not look at this one,
\* flushes the Redis both share.
FlushElsewhere ==
    /\ override # NoRun
    /\ override' = NoRun
    /\ stray' = FALSE
    /\ flushed' = TRUE
    /\ UNCHANGED <<request, registry, runner>>

\* A statement or command fails, or the request's timeout.
RequestFails(h) ==
    /\ ~RequestAt(h, "idle")
    /\ request' = [request EXCEPT ![h] = IdleRequest]
    /\ UNCHANGED <<registry, runner, redis>>

-----------------------------------------------------------------------------
(* Runner.Run.                                                             *)

RunAt(r, pc) == run[r].pc = pc
RunGoes(r, pc) == run' = [run EXCEPT ![r] = [@ EXCEPT !.pc = pc]]

\* SetEventMaxConcurrent, if the run has a gate.
SetGate(r) ==
    /\ RunAt(r, "begin")
    /\ IF run[r].gate
       THEN override' = r /\ flushed' = FALSE
       ELSE UNCHANGED <<override, flushed>>
    /\ RunGoes(r, "launch")
    /\ UNCHANGED <<request, registry, cancelled, user, started, counted, stray>>

\* An error, before the deferred clearing is in place: Run returns at once,
\* and the SET may have reached Redis all the same.
SetGateFails(r) ==
    /\ RunAt(r, "begin")
    /\ run[r].gate
    /\ override' \in {override, r}
    /\ stray' = (stray \/ override' = r)
    /\ run' = [run EXCEPT ![r] = [@ EXCEPT !.pc = "done", !.failed = TRUE]]
    /\ UNCHANGED <<request, registry, cancelled, user, started, counted, flushed>>

\* The loop over the users, and the first thing a user's goroutine does, which
\* is to count itself.  The loop ends early when the context is cancelled.
Launch(r, u) ==
    /\ RunAt(r, "launch")
    /\ r \notin cancelled
    /\ user[r][u] = "unborn"
    /\ user' = [user EXCEPT ![r] = [@ EXCEPT ![u] = "enqueue"]]
    /\ started' = [started EXCEPT ![r] = @ + 1]
    /\ UNCHANGED <<request, registry, run, cancelled, counted, redis>>

LaunchEnds(r) ==
    /\ RunAt(r, "launch")
    /\ r \in cancelled \/ \A u \in SimUser : user[r][u] # "unborn"
    /\ RunGoes(r, "wait")
    /\ UNCHANGED <<request, registry, cancelled, user, started, counted, redis>>

\* Mutant: the clearing of the gate is not deferred.
MutantKeepsGate(r) == "done"
\* The deferred calls run last in, first out: the gate is cleared, then the
\* run is done.
AfterWait(r) == IF run[r].gate THEN "clear" ELSE "done"

\* wg.Wait
Wait(r) ==
    /\ RunAt(r, "wait")
    /\ \A u \in SimUser : user[r][u] \in {"unborn", "over"}
    /\ RunGoes(r, AfterWait(r))
    /\ UNCHANGED <<request, registry, cancelled, user, started, counted, redis>>

\* ClearEventMaxConcurrent, whose error nobody looks at.
ClearGate(r) ==
    /\ RunAt(r, "clear")
    /\ \/ override' = NoRun /\ stray' = FALSE
       \/ override' = override /\ stray' = (stray \/ override # NoRun)
    /\ RunGoes(r, "done")
    /\ UNCHANGED <<request, registry, cancelled, user, started, counted, flushed>>

-----------------------------------------------------------------------------
(* Runner.runUser.                                                         *)

UserAt(r, u, pc) == user[r][u] = pc
UserGoes(r, u, pc) == user' = [user EXCEPT ![r] = [@ EXCEPT ![u] = pc]]
UserStep(r, u, pc) ==
    /\ UserGoes(r, u, pc)
    /\ UNCHANGED <<request, registry, run, cancelled, started, counted, redis>>

\* Mutants: a user that leaves the polling loop is in no counter; or in two,
\* once for its reason and once for its context.
MutantUncounted(r, u) ==
    /\ UserGoes(r, u, "over")
    /\ counted' = [counted EXCEPT ![r] = IF UserAt(r, u, "poll") THEN @ ELSE @ + 1]
    /\ UNCHANGED <<request, registry, run, cancelled, started, redis>>
MutantCountsTwice(r, u) ==
    /\ UserGoes(r, u, "over")
    /\ counted' = [counted EXCEPT ![r] = IF UserAt(r, u, "poll") THEN @ + 2 ELSE @ + 1]
    /\ UNCHANGED <<request, registry, run, cancelled, started, redis>>
\* The goroutine ends and has added one to one of the outcome counters.
Ends(r, u) ==
    /\ UserGoes(r, u, "over")
    /\ counted' = [counted EXCEPT ![r] = @ + 1]
    /\ UNCHANGED <<request, registry, run, cancelled, started, redis>>

\* Admitted at once, queued, or an error that classify counts.
Enqueue(r, u) ==
    /\ UserAt(r, u, "enqueue")
    /\ UserStep(r, u, "admitted") \/ UserStep(r, u, "poll") \/ Ends(r, u)

\* waitForAdmission: admitted; or reaped, sold out (and the slot released) or
\* an error, each of which is counted.  An answer that is none of these is
\* followed by the next poll.
Poll(r, u) ==
    /\ UserAt(r, u, "poll")
    /\ UserStep(r, u, "admitted") \/ Ends(r, u)

\* reserveSem: at most Workers users are in Reserve.
Reserving(r) == {u \in SimUser : UserAt(r, u, "reserve")}
Acquire(r, u) ==
    /\ UserAt(r, u, "admitted")
    /\ Cardinality(Reserving(r)) < Workers
    /\ UserStep(r, u, "reserve")

\* Reserve: whatever it returns is counted.
Reserve(r, u) == UserAt(r, u, "reserve") /\ Ends(r, u)

\* Mutant: the polling loop does not look at its context.
MutantContextPcs == {"enqueue", "admitted", "reserve"}
\* The places where a user notices the end of its context.
ContextPcs == {"enqueue", "poll", "admitted", "reserve"}

\* UserTimeout is over or the run was cancelled: classify counts it.
ContextEnds(r, u) == user[r][u] \in ContextPcs /\ Ends(r, u)

-----------------------------------------------------------------------------

Init ==
    /\ request = [h \in Handler |-> IdleRequest]
    /\ runs = {}
    /\ byEvent = NoRun
    /\ run = [r \in RunId |-> AbsentRun]
    /\ cancelled = {}
    /\ user = [r \in RunId |-> [u \in SimUser |-> "unborn"]]
    /\ started = [r \in RunId |-> 0]
    /\ counted = [r \in RunId |-> 0]
    /\ override = NoRun
    /\ stray = FALSE
    /\ flushed = FALSE

HandlerNext(h) ==
    \/ \E kind \in {"simulate", "reset"} : Check(h, kind)
    \/ Prepare(h)
    \/ Flush(h)
    \/ \E gate \in BOOLEAN : Start(h, gate)
    \/ StartRefused(h)
    \/ RequestFails(h)

RunSteps(r) ==
    \/ SetGate(r)
    \/ SetGateFails(r)
    \/ \E u \in SimUser : Launch(r, u)
    \/ LaunchEnds(r)
    \/ Wait(r)
    \/ ClearGate(r)

UserNext(r, u) ==
    Enqueue(r, u) \/ Poll(r, u) \/ Acquire(r, u) \/ Reserve(r, u) \/ ContextEnds(r, u)

Next ==
    \/ \E h \in Handler : HandlerNext(h)
    \/ FlushElsewhere
    \/ \E r \in RunId : RunSteps(r) \/ Cancel(r) \/ Forget(r)
    \/ \E r \in RunId, u \in SimUser : UserNext(r, u)

Spec == Init /\ [][Next]_vars

-----------------------------------------------------------------------------
(* Properties.                                                             *)

\* The run that is live is the one the registry names for the event, so there
\* is at most one, however requests, ends, cancellations and the forgetting of
\* earlier runs interleave.
OneLiveRun == \A r \in RunId : Live(r) => r \in runs /\ byEvent = r

\* Every simulated user that was started is in one outcome counter when the run
\* is done, and all were started unless the run was cancelled or could not set
\* its gate.
Accounted ==
    \A r \in runs :
        Done(r) => /\ counted[r] = started[r]
                   /\ \/ started[r] = Cardinality(SimUser)
                      \/ r \in cancelled
                      \/ run[r].failed

\* The gate in Redis is that of the run whose users are under way: the end of a
\* run never takes the gate of the next one away and never leaves its own
\* behind.  Excepted are a gate whose clearing failed and a FLUSHDB.
UsersUnderWay(r) == run[r].pc \in {"launch", "wait", "clear"}
GateFollowsRun ==
    \/ stray
    \/ /\ override # NoRun => UsersUnderWay(override)
       /\ \A r \in RunId : UsersUnderWay(r) /\ run[r].gate /\ ~flushed => override = r

\* A simulate request that Start refuses with 409 has done nothing to the run it
\* is refused for: no table was changed and no Redis flushed while that run was
\* live.  The docs say it of every duplicate; the check and Start are two calls,
\* and a run started by another request in between is hit.
DuplicateIsHarmless ==
    [][\A h \in Handler : StartRefused(h) => byEvent \notin request[h].hit]_vars

-----------------------------------------------------------------------------
(* Fairness.  The goroutine of Run goes on; every context of a user has a  *)
(* deadline, and all that a user waits for ends with it.  Nothing is       *)
(* assumed of admission.                                                   *)

Fairness ==
    \A r \in RunId :
        /\ WF_vars(RunSteps(r))
        /\ \A u \in SimUser : WF_vars(ContextEnds(r, u))

FairSpec == Spec /\ Fairness

\* Every run is done in the end, also when nobody is ever admitted, so its event
\* is free for the next run and the dashboard's stream ends.
RunEnds == \A r \in RunId : Live(r) ~> Done(r)
=============================================================================
