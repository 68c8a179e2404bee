-------------------------- MODULE SimulationProofs --------------------------
(***************************************************************************)
(* Proofs about Simulation, for any number of requests, runs, users and    *)
(* workers: type correctness, at most one live run (OneLiveRun), the       *)
(* ownership of the gate (GateFollowsRun) and the outcome counters         *)
(* (Accounted).                                                            *)
(***************************************************************************)
EXTENDS Simulation, FiniteSetTheorems, TLAPS

-----------------------------------------------------------------------------
(* Counting users.                                                         *)

LEMMA CountOfUsers ==
    ASSUME NEW S \in SUBSET SimUser
    PROVE  /\ IsFiniteSet(S)
           /\ Cardinality(S) \in 0 .. Cardinality(SimUser)
           /\ \A u \in SimUser \ S : Cardinality(S \cup {u}) = Cardinality(S) + 1
<1>1. IsFiniteSet(SimUser)
  BY UserAssumption
<1>2. IsFiniteSet(S) /\ Cardinality(S) <= Cardinality(SimUser)
  BY <1>1, FS_Subset
<1>3. Cardinality(S) \in Nat /\ Cardinality(SimUser) \in Nat
  BY <1>1, <1>2, FS_CardinalityType
<1>4. \A u \in SimUser \ S : Cardinality(S \cup {u}) = Cardinality(S) + 1
  BY <1>2, FS_AddElement
<1> QED
  BY <1>2, <1>3, <1>4

LEMMA NoUsers == Cardinality({}) = 0
  BY FS_EmptySet

-----------------------------------------------------------------------------
(* The invariant.                                                          *)

Born(r) == {u \in SimUser : user[r][u] # "unborn"}
Over(r) == {u \in SimUser : user[r][u] = "over"}

\* Each counter counts the users it is about.
CountInv ==
    \A r \in RunId : started[r] = Cardinality(Born(r)) /\ counted[r] = Cardinality(Over(r))

\* Where a run is says which users it has.
PhaseInv ==
    \A r \in RunId :
        /\ run[r].pc \in {"absent", "begin"} => Born(r) = {}
        /\ run[r].pc \in {"clear", "done"} => Born(r) = Over(r)
        /\ run[r].pc \in {"wait", "clear", "done"} /\ r \in runs
           => Born(r) = SimUser \/ r \in cancelled \/ run[r].failed

\* The gate was set by a run that has one.
GateInv ==
    /\ GateFollowsRun
    /\ ~stray /\ override # NoRun => run[override].gate

Inv == TypeOK /\ OneLiveRun /\ GateInv /\ CountInv /\ PhaseInv

RunPc == {"absent", "begin", "launch", "wait", "clear", "done"}

-----------------------------------------------------------------------------
(* Steps of the handlers.                                                  *)

LEMMA IdleType == IdleRequest \in RequestState
  BY DEF IdleRequest, RequestState

\* A step that leaves the registry, the runners and the gate alone.
LEMMA RequestStep ==
    ASSUME Inv, request' \in [Handler -> RequestState],
           UNCHANGED <<registry, runner>>,
           UNCHANGED redis \/ (override' = NoRun /\ stray' = FALSE /\ flushed' = TRUE)
    PROVE  Inv'
<1>1. UNCHANGED <<runs, byEvent, run, cancelled, user, started, counted>>
  BY DEF registry, runner
<1>2. TypeOK'
  BY <1>1 DEF Inv, TypeOK, redis
<1>3. OneLiveRun'
  BY <1>1 DEF Inv, OneLiveRun, Live, Exists, Done
<1>4. GateInv'
  BY <1>1 DEF Inv, GateInv, GateFollowsRun, UsersUnderWay, redis
<1>5. CountInv' /\ PhaseInv'
  <2>1. \A s \in RunId : Born(s)' = Born(s) /\ Over(s)' = Over(s)
    BY <1>1 DEF Born, Over
  <2> QED
    BY <1>1, <2>1 DEF Inv, CountInv, PhaseInv
<1> QED
  BY <1>2, <1>3, <1>4, <1>5 DEF Inv

\* A request that goes on, with or without a hit, or ends keeps its type.
LEMMA RequestMoves ==
    ASSUME Inv, NEW h \in Handler,
           \/ \E pc \in {"flush", "start"} : RequestGoes(h, pc) \/ RequestHits(h, pc)
           \/ request' = [request EXCEPT ![h] = IdleRequest]
    PROVE  request' \in [Handler -> RequestState]
<1>1. request \in [Handler -> RequestState] /\ request[h] \in RequestState
  BY DEF Inv, TypeOK
<1>2. CASE \E pc \in {"flush", "start"} : RequestGoes(h, pc)
  <2>1. PICK pc \in {"flush", "start"} : RequestGoes(h, pc)
    BY <1>2
  <2>2. [request[h] EXCEPT !.pc = pc] \in RequestState
    BY <1>1, <2>1 DEF RequestState
  <2> QED
    BY <1>1, <2>1, <2>2 DEF RequestGoes
<1>3. CASE \E pc \in {"flush", "start"} : RequestHits(h, pc)
  <2>1. PICK pc \in {"flush", "start"} : RequestHits(h, pc)
    BY <1>3
  <2>2. request[h].hit \cup LiveRuns \in SUBSET RunId
    BY <1>1 DEF RequestState, LiveRuns
  <2> DEFINE hits == request[h].hit \cup LiveRuns
  <2> DEFINE q == [request[h] EXCEPT !.pc = pc, !.hit = hits]
  <2>3. request' = [request EXCEPT ![h] = q]
    BY <2>1 DEF RequestHits
  <2> HIDE DEF hits
  <2>4. q \in RequestState
    BY <1>1, <2>1, <2>2 DEF RequestState, hits
  <2> HIDE DEF q
  <2> QED
    BY <1>1, <2>3, <2>4
<1>4. CASE request' = [request EXCEPT ![h] = IdleRequest]
  BY <1>1, <1>4, IdleType
<1> QED
  BY <1>2, <1>3, <1>4

LEMMA CheckKeeps ==
    ASSUME Inv, NEW h \in Handler, NEW kind \in {"simulate", "reset"}, Check(h, kind)
    PROVE  Inv'
<1>1. [pc |-> "prepare", kind |-> kind, hit |-> {}] \in RequestState
  BY DEF RequestState
<1>2. request' \in [Handler -> RequestState]
  BY <1>1 DEF Inv, TypeOK, Check
<1>3. UNCHANGED <<registry, runner, redis>>
  BY DEF Check
<1> QED
  BY <1>2, <1>3, RequestStep

LEMMA PreparationKeeps ==
    ASSUME Inv, NEW h \in Handler,
           Prepare(h) \/ Flush(h) \/ StartRefused(h) \/ RequestFails(h)
    PROVE  Inv'
<1>1. /\ \/ \E pc \in {"flush", "start"} : RequestGoes(h, pc) \/ RequestHits(h, pc)
         \/ request' = [request EXCEPT ![h] = IdleRequest]
      /\ UNCHANGED <<registry, runner>>
      /\ UNCHANGED redis \/ (override' = NoRun /\ stray' = FALSE /\ flushed' = TRUE)
  BY DEF Prepare, Flush, StartRefused, RequestFails
<1>2. request' \in [Handler -> RequestState]
  BY <1>1, RequestMoves
<1> QED
  BY <1>1, <1>2, RequestStep

LEMMA FlushElsewhereKeeps ==
    ASSUME Inv, FlushElsewhere
    PROVE  Inv'
<1>1. UNCHANGED request /\ UNCHANGED <<registry, runner>>
  BY DEF FlushElsewhere
<1>2. request' \in [Handler -> RequestState]
  BY <1>1 DEF Inv, TypeOK
<1> QED
  BY <1>1, <1>2, RequestStep DEF FlushElsewhere

-----------------------------------------------------------------------------
(* Steps of the registry.                                                  *)

\* Start finds no live run, so the new one is the only one.
LEMMA StartKeeps ==
    ASSUME Inv, NEW h \in Handler, NEW gate \in BOOLEAN, Start(h, gate)
    PROVE  Inv'
<1> DEFINE r == NewRunId
<1> DEFINE n == [pc |-> "begin", gate |-> gate, failed |-> FALSE]
<1>1. r \in RunId /\ ~Exists(r)
  BY DEF Start, NewRunId
<1>2. /\ run \in [RunId -> RunState] /\ run' = [run EXCEPT ![r] = n]
      /\ runs' = runs \cup {r} /\ byEvent' = r
      /\ request' = [request EXCEPT ![h] = IdleRequest]
      /\ UNCHANGED <<cancelled, user, started, counted, override, stray, flushed>>
  BY DEF Start, Inv, TypeOK, redis
<1>3. n \in RunState /\ n.pc = "begin"
  BY DEF RunState
<1> HIDE DEF r, n
<1>4. run'[r] = n /\ \A s \in RunId \ {r} : run'[s] = run[s]
  BY <1>1, <1>2
<1>5. \A s \in RunId : ~Live(s)
  BY DEF Inv, OneLiveRun, Live, HasActiveRun, Start
<1>6. TypeOK'
  <2>1. request' \in [Handler -> RequestState]
    BY <1>2, IdleType DEF Inv, TypeOK
  <2>2. run' \in [RunId -> RunState]
    BY <1>2, <1>3
  <2> QED
    BY <1>1, <1>2, <2>1, <2>2 DEF Inv, TypeOK
<1>7. OneLiveRun'
  BY <1>1, <1>2, <1>4, <1>5 DEF OneLiveRun, Live, Exists, Done
<1>8. GateInv'
  <2>1. \A s \in RunId : ~UsersUnderWay(s) /\ ~UsersUnderWay(s)'
    BY <1>3, <1>4, <1>5 DEF UsersUnderWay, Live, Exists, Done
  <2>2. override' = override /\ stray' = stray /\ flushed' = flushed
    BY <1>2
  <2>3. override \in RunId \cup {NoRun}
    BY DEF Inv, TypeOK
  <2>4. stray \/ override = NoRun
    BY <2>1, <2>3 DEF Inv, GateInv, GateFollowsRun
  <2> QED
    BY <2>1, <2>2, <2>4 DEF GateInv, GateFollowsRun
<1>9. CountInv' /\ PhaseInv'
  <2>1. \A s \in RunId : Born(s)' = Born(s) /\ Over(s)' = Over(s)
    BY <1>2 DEF Born, Over
  <2>2. Born(r) = {}
    BY <1>1 DEF Inv, PhaseInv, Exists
  <2> QED
    BY <1>1, <1>2, <1>3, <1>4, <2>1, <2>2 DEF Inv, CountInv, PhaseInv
<1> QED
  BY <1>6, <1>7, <1>8, <1>9 DEF Inv

LEMMA CancelKeeps ==
    ASSUME Inv, NEW r \in RunId, Cancel(r)
    PROVE  Inv'
<1>1. /\ cancelled' = cancelled \cup {r}
      /\ UNCHANGED <<request, runs, byEvent, run, user, started, counted, override, stray, flushed>>
  BY DEF Cancel, registry, redis
<1>2. TypeOK'
  BY <1>1 DEF Inv, TypeOK
<1>3. OneLiveRun' /\ GateInv'
  BY <1>1 DEF Inv, OneLiveRun, GateInv, GateFollowsRun, UsersUnderWay,
     Live, Exists, Done
<1>4. CountInv' /\ PhaseInv'
  <2>1. \A s \in RunId : Born(s)' = Born(s) /\ Over(s)' = Over(s)
    BY <1>1 DEF Born, Over
  <2> QED
    BY <1>1, <2>1 DEF Inv, CountInv, PhaseInv
<1> QED
  BY <1>2, <1>3, <1>4 DEF Inv

\* The run that is forgotten is done, so neither the entry of the event nor the
\* gate, unless astray, is that of a live run.
LEMMA ForgetKeeps ==
    ASSUME Inv, NEW r \in RunId, Forget(r)
    PROVE  Inv'
<1> DEFINE d == [AbsentRun EXCEPT !.pc = "done"]
<1> DEFINE nobody == [u \in SimUser |-> "unborn"]
<1>1. /\ run \in [RunId -> RunState] /\ run' = [run EXCEPT ![r] = d]
      /\ user \in [RunId -> [SimUser -> UserPc]] /\ user' = [user EXCEPT ![r] = nobody]
      /\ started \in [RunId -> 0 .. Cardinality(SimUser)]
      /\ counted \in [RunId -> 0 .. Cardinality(SimUser)]
      /\ started' = [started EXCEPT ![r] = 0] /\ counted' = [counted EXCEPT ![r] = 0]
      /\ runs' = runs \ {r} /\ byEvent' = LastWithout(r) /\ cancelled' = cancelled \ {r}
      /\ UNCHANGED <<request, override, stray, flushed>>
      /\ run[r].pc = "done"
  BY DEF Forget, Inv, TypeOK, redis, Done
<1>2. d \in RunState /\ d.pc = "done"
  BY DEF AbsentRun, RunState
<1>3. nobody \in [SimUser -> UserPc] /\ \A u \in SimUser : nobody[u] = "unborn"
  BY DEF UserPc
<1> HIDE DEF d, nobody
<1>4. /\ run'[r] = d /\ \A s \in RunId \ {r} : run'[s] = run[s]
      /\ user'[r] = nobody /\ \A s \in RunId \ {r} : user'[s] = user[s]
  BY <1>1
<1>5. 0 \in 0 .. Cardinality(SimUser)
  BY CountOfUsers
<1>6. TypeOK'
  <2>1. run' \in [RunId -> RunState] /\ user' \in [RunId -> [SimUser -> UserPc]]
    BY <1>1, <1>2, <1>3
  <2>2. /\ started' \in [RunId -> 0 .. Cardinality(SimUser)]
        /\ counted' \in [RunId -> 0 .. Cardinality(SimUser)]
    BY <1>1, <1>5
  <2>3. byEvent' \in RunId \cup {NoRun}
    BY <1>1 DEF Inv, TypeOK, LastWithout
  <2> QED
    BY <1>1, <2>1, <2>2, <2>3 DEF Inv, TypeOK
<1>7. \A s \in RunId : run'[s].pc = run[s].pc
  BY <1>1, <1>2, <1>4
<1>8. OneLiveRun'
  BY <1>1, <1>7 DEF Inv, OneLiveRun, Live, Exists, Done, LastWithout
<1>9. GateInv'
  <2>1. ~UsersUnderWay(r) /\ ~UsersUnderWay(r)'
    BY <1>1, <1>7 DEF UsersUnderWay
  <2>2. \A s \in RunId : UsersUnderWay(s)' <=> UsersUnderWay(s)
    BY <1>7 DEF UsersUnderWay
  <2>3. override \in RunId \cup {NoRun} /\ override' = override /\ stray' = stray
        /\ flushed' = flushed
    BY <1>1 DEF Inv, TypeOK
  <2>4. stray \/ override # r
    BY <2>1, NoRunAssumption DEF Inv, GateInv, GateFollowsRun
  <2> QED
    BY <1>4, <2>1, <2>2, <2>3, <2>4 DEF Inv, GateInv, GateFollowsRun
<1>10. CountInv' /\ PhaseInv'
  <2>1. \A s \in RunId \ {r} : Born(s)' = Born(s) /\ Over(s)' = Over(s)
    BY <1>4 DEF Born, Over
  <2>2. Born(r)' = {} /\ Over(r)' = {}
    BY <1>3, <1>4 DEF Born, Over
  <2>3. CountInv'
    BY <1>1, <2>1, <2>2, NoUsers DEF Inv, CountInv
  <2>4. PhaseInv'
    <3> SUFFICES ASSUME NEW s \in RunId
                 PROVE  (/\ run[s].pc \in {"absent", "begin"} => Born(s) = {}
                         /\ run[s].pc \in {"clear", "done"} => Born(s) = Over(s)
                         /\ run[s].pc \in {"wait", "clear", "done"} /\ s \in runs
                            => Born(s) = SimUser \/ s \in cancelled \/ run[s].failed)'
      BY DEF PhaseInv
    <3>1. CASE s = r
      BY <1>1, <2>2, <3>1
    <3>2. CASE s # r
      BY <1>1, <1>4, <2>1, <3>2 DEF Inv, PhaseInv
    <3> QED
      BY <3>1, <3>2
  <2> QED
    BY <2>3, <2>4
<1> QED
  BY <1>6, <1>8, <1>9, <1>10 DEF Inv

-----------------------------------------------------------------------------
(* Steps of a run.                                                         *)

\* A live run that goes on or ends leaves the registry's facts alone.
LEMMA RunMoves ==
    ASSUME Inv, NEW r \in RunId, Live(r), NEW pc \in RunPc \ {"absent"},
           NEW f \in BOOLEAN,
           run' = [run EXCEPT ![r] = [run[r] EXCEPT !.pc = pc, !.failed = f]],
           UNCHANGED <<request, runs, byEvent>>
    PROVE  /\ run' \in [RunId -> RunState]
           /\ run'[r].pc = pc /\ run'[r].gate = run[r].gate /\ run'[r].failed = f
           /\ \A s \in RunId \ {r} : run'[s] = run[s] /\ ~Live(s)
           /\ OneLiveRun'
<1> DEFINE n == [run[r] EXCEPT !.pc = pc, !.failed = f]
<1>1. run \in [RunId -> RunState] /\ run[r] \in RunState
  BY DEF Inv, TypeOK
<1>2. n \in RunState /\ n.pc = pc /\ n.gate = run[r].gate /\ n.failed = f
  BY <1>1 DEF RunState, RunPc
<1> HIDE DEF n
<1>3. run' = [run EXCEPT ![r] = n]
  BY DEF n
<1>4. /\ run' \in [RunId -> RunState]
      /\ run'[r] = n /\ \A s \in RunId \ {r} : run'[s] = run[s]
  BY <1>1, <1>2, <1>3
<1>5. \A s \in RunId \ {r} : ~Live(s)
  BY DEF Inv, OneLiveRun
<1>6. OneLiveRun'
  BY <1>4, <1>5 DEF Inv, OneLiveRun, Live, Exists, Done
<1> QED
  BY <1>2, <1>4, <1>5, <1>6

LEMMA RunGoesOn ==
    ASSUME Inv, NEW r \in RunId, Live(r), NEW pc \in RunPc \ {"absent"}, RunGoes(r, pc),
           UNCHANGED <<request, runs, byEvent>>
    PROVE  /\ run' \in [RunId -> RunState]
           /\ run'[r].pc = pc /\ run'[r].gate = run[r].gate /\ run'[r].failed = run[r].failed
           /\ \A s \in RunId \ {r} : run'[s] = run[s] /\ ~Live(s)
           /\ OneLiveRun'
<1> DEFINE f == run[r].failed
<1>1. run \in [RunId -> RunState] /\ run[r] \in RunState
  BY DEF Inv, TypeOK
<1>2. [run[r] EXCEPT !.pc = pc] = [run[r] EXCEPT !.pc = pc, !.failed = f]
  BY <1>1 DEF RunState
<1>3. f \in BOOLEAN
  BY <1>1 DEF RunState
<1>4. run' = [run EXCEPT ![r] = [run[r] EXCEPT !.pc = pc, !.failed = f]]
  BY <1>2 DEF RunGoes
<1> HIDE DEF f
<1>5. run'[r].failed = f /\ run' \in [RunId -> RunState]
      /\ run'[r].pc = pc /\ run'[r].gate = run[r].gate
      /\ (\A s \in RunId \ {r} : run'[s] = run[s] /\ ~Live(s))
      /\ OneLiveRun'
  BY <1>3, <1>4, RunMoves
<1> QED
  BY <1>5 DEF f

\* Until a live run is under way the gate, unless astray, is nobody's.
LEMMA GateOfLive ==
    ASSUME Inv, NEW r \in RunId, Live(r)
    PROVE  /\ override \in RunId \cup {NoRun}
           /\ stray \/ override = NoRun \/ (override = r /\ UsersUnderWay(r) /\ run[r].gate)
           /\ \A s \in RunId \ {r} : ~UsersUnderWay(s)
<1>1. \A s \in RunId \ {r} : ~UsersUnderWay(s)
  BY DEF Inv, OneLiveRun, Live, Exists, Done, UsersUnderWay
<1>2. override \in RunId \cup {NoRun}
  BY DEF Inv, TypeOK
<1> QED
  BY <1>1, <1>2 DEF Inv, GateInv, GateFollowsRun

LEMMA SetGateKeeps ==
    ASSUME Inv, NEW r \in RunId, SetGate(r)
    PROVE  Inv'
<1>1. /\ Live(r) /\ run[r].pc = "begin" /\ RunGoes(r, "launch")
      /\ UNCHANGED <<request, runs, byEvent, cancelled, user, started, counted, stray>>
      /\ run[r].gate => override' = r /\ flushed' = FALSE
      /\ ~run[r].gate => override' = override /\ flushed' = flushed
  BY DEF SetGate, RunAt, Live, Exists, Done, registry
<1>2. "launch" \in RunPc \ {"absent"} /\ run[r].gate \in BOOLEAN
  BY DEF RunPc, Inv, TypeOK, RunState
<1>3. /\ run' \in [RunId -> RunState]
      /\ run'[r].pc = "launch" /\ run'[r].gate = run[r].gate /\ run'[r].failed = run[r].failed
      /\ \A s \in RunId \ {r} : run'[s] = run[s] /\ ~Live(s)
      /\ OneLiveRun'
  BY <1>1, <1>2, RunGoesOn
<1>4. TypeOK'
  BY <1>1, <1>2, <1>3 DEF Inv, TypeOK
<1>5. GateInv'
  <2>1. /\ stray \/ override = NoRun
        /\ \A s \in RunId \ {r} : ~UsersUnderWay(s)
    BY <1>1, GateOfLive DEF UsersUnderWay
  <2>2. UsersUnderWay(r)' /\ \A s \in RunId \ {r} : ~UsersUnderWay(s)'
    BY <1>3, <2>1 DEF UsersUnderWay
  <2>3. CASE run[r].gate
    BY <1>1, <1>3, <2>2, <2>3 DEF GateInv, GateFollowsRun
  <2>4. CASE ~run[r].gate
    BY <1>1, <1>3, <2>1, <2>2, <2>4 DEF GateInv, GateFollowsRun
  <2> QED
    BY <1>2, <2>3, <2>4
<1>6. CountInv' /\ PhaseInv'
  <2>1. \A s \in RunId : Born(s)' = Born(s) /\ Over(s)' = Over(s)
    BY <1>1 DEF Born, Over
  <2>2. CountInv'
    BY <1>1, <2>1 DEF Inv, CountInv
  <2>3. PhaseInv'
    BY <1>1, <1>3, <2>1 DEF Inv, PhaseInv
  <2> QED
    BY <2>2, <2>3
<1> QED
  BY <1>3, <1>4, <1>5, <1>6 DEF Inv

LEMMA SetGateFailsKeeps ==
    ASSUME Inv, NEW r \in RunId, SetGateFails(r)
    PROVE  Inv'
<1>1. /\ Live(r) /\ run[r].pc = "begin"
      /\ run' = [run EXCEPT ![r] = [run[r] EXCEPT !.pc = "done", !.failed = TRUE]]
      /\ UNCHANGED <<request, runs, byEvent, cancelled, user, started, counted, flushed>>
      /\ override' \in {override, r} /\ stray' = (stray \/ override' = r)
  BY DEF SetGateFails, RunAt, Live, Exists, Done, registry
<1>2. "done" \in RunPc \ {"absent"} /\ TRUE \in BOOLEAN
  BY DEF RunPc
<1>3. /\ run' \in [RunId -> RunState]
      /\ run'[r].pc = "done" /\ run'[r].gate = run[r].gate /\ run'[r].failed = TRUE
      /\ \A s \in RunId \ {r} : run'[s] = run[s] /\ ~Live(s)
      /\ OneLiveRun'
  BY <1>1, <1>2, RunMoves
<1>4. TypeOK'
  <2>1. stray' \in BOOLEAN /\ override' \in RunId \cup {NoRun}
    BY <1>1 DEF Inv, TypeOK
  <2> QED
    BY <1>1, <1>3, <2>1 DEF Inv, TypeOK
<1>5. GateInv'
  <2>1. /\ stray \/ override = NoRun
        /\ \A s \in RunId \ {r} : ~UsersUnderWay(s)
    BY <1>1, GateOfLive DEF UsersUnderWay
  <2>2. \A s \in RunId : ~UsersUnderWay(s)'
    BY <1>3, <2>1 DEF UsersUnderWay
  <2> QED
    BY <1>1, <2>1, <2>2 DEF GateInv, GateFollowsRun
<1>6. CountInv' /\ PhaseInv'
  <2>1. \A s \in RunId : Born(s)' = Born(s) /\ Over(s)' = Over(s)
    BY <1>1 DEF Born, Over
  <2>2. Born(r) = {} /\ Over(r) = {}
    <3>1. Born(r) = {}
      BY <1>1 DEF Inv, PhaseInv
    <3> QED
      BY <3>1 DEF Born, Over
  <2> QED
    <3>1. CountInv'
      BY <1>1, <2>1 DEF Inv, CountInv
    <3>2. PhaseInv'
      BY <1>1, <1>3, <2>1, <2>2 DEF Inv, PhaseInv
    <3> QED
      BY <3>1, <3>2
<1> QED
  BY <1>3, <1>4, <1>5, <1>6 DEF Inv

LEMMA LaunchEndsKeeps ==
    ASSUME Inv, NEW r \in RunId, LaunchEnds(r)
    PROVE  Inv'
<1>1. /\ Live(r) /\ run[r].pc = "launch" /\ RunGoes(r, "wait")
      /\ r \in cancelled \/ \A u \in SimUser : user[r][u] # "unborn"
      /\ UNCHANGED <<request, runs, byEvent, cancelled, user, started, counted,
                     override, stray, flushed>>
  BY DEF LaunchEnds, RunAt, Live, Exists, Done, registry, redis
<1>2. "wait" \in RunPc \ {"absent"}
  BY DEF RunPc
<1>3. /\ run' \in [RunId -> RunState]
      /\ run'[r].pc = "wait" /\ run'[r].gate = run[r].gate /\ run'[r].failed = run[r].failed
      /\ \A s \in RunId \ {r} : run'[s] = run[s] /\ ~Live(s)
      /\ OneLiveRun'
  BY <1>1, <1>2, RunGoesOn
<1>4. TypeOK'
  BY <1>1, <1>3 DEF Inv, TypeOK
<1>5. GateInv'
  <2>1. \A s \in RunId : (UsersUnderWay(s)' <=> UsersUnderWay(s)) /\ run'[s].gate = run[s].gate
    BY <1>1, <1>3 DEF UsersUnderWay
  <2>2. override \in RunId \cup {NoRun}
    BY DEF Inv, TypeOK
  <2> QED
    BY <1>1, <2>1, <2>2 DEF Inv, GateInv, GateFollowsRun
<1>6. CountInv' /\ PhaseInv'
  <2>1. \A s \in RunId : Born(s)' = Born(s) /\ Over(s)' = Over(s)
    BY <1>1 DEF Born, Over
  <2>2. r \in cancelled \/ Born(r) = SimUser
    BY <1>1 DEF Born
  <2> QED
    BY <1>1, <1>3, <2>1, <2>2 DEF Inv, CountInv, PhaseInv
<1> QED
  BY <1>3, <1>4, <1>5, <1>6 DEF Inv

\* Everybody who was started is over; a run without a gate has none to clear.
LEMMA WaitKeeps ==
    ASSUME Inv, NEW r \in RunId, Wait(r)
    PROVE  Inv'
<1> DEFINE pc == AfterWait(r)
<1>1. /\ Live(r) /\ run[r].pc = "wait" /\ RunGoes(r, pc)
      /\ \A u \in SimUser : user[r][u] \in {"unborn", "over"}
      /\ UNCHANGED <<request, runs, byEvent, cancelled, user, started, counted,
                     override, stray, flushed>>
  BY DEF Wait, RunAt, Live, Exists, Done, registry, redis
<1>2. /\ pc \in RunPc \ {"absent"} /\ pc \in {"clear", "done"}
      /\ run[r].gate => pc = "clear"
  BY DEF RunPc, AfterWait
<1> HIDE DEF pc
<1>3. /\ run' \in [RunId -> RunState]
      /\ run'[r].pc = pc /\ run'[r].gate = run[r].gate /\ run'[r].failed = run[r].failed
      /\ \A s \in RunId \ {r} : run'[s] = run[s] /\ ~Live(s)
      /\ OneLiveRun'
  BY <1>1, <1>2, RunGoesOn
<1>4. TypeOK'
  BY <1>1, <1>3 DEF Inv, TypeOK
<1>5. GateInv'
  <2>1. /\ stray \/ override = NoRun \/ (override = r /\ run[r].gate)
        /\ \A s \in RunId \ {r} : ~UsersUnderWay(s)
    BY <1>1, GateOfLive
  <2>2. \A s \in RunId \ {r} : ~UsersUnderWay(s)'
    BY <1>3, <2>1 DEF UsersUnderWay
  <2>3. run[r].gate => UsersUnderWay(r)'
    BY <1>2, <1>3 DEF UsersUnderWay
  <2>4. UsersUnderWay(r)
    BY <1>1 DEF UsersUnderWay
  <2> QED
    BY <1>1, <1>3, <2>1, <2>2, <2>3, <2>4 DEF Inv, GateInv, GateFollowsRun
<1>6. CountInv' /\ PhaseInv'
  <2>1. \A s \in RunId : Born(s)' = Born(s) /\ Over(s)' = Over(s)
    BY <1>1 DEF Born, Over
  <2>2. Born(r) = Over(r)
    BY <1>1 DEF Born, Over
  <2> QED
    BY <1>1, <1>2, <1>3, <2>1, <2>2 DEF Inv, CountInv, PhaseInv
<1> QED
  BY <1>3, <1>4, <1>5, <1>6 DEF Inv

LEMMA ClearGateKeeps ==
    ASSUME Inv, NEW r \in RunId, ClearGate(r)
    PROVE  Inv'
<1>1. /\ Live(r) /\ run[r].pc = "clear" /\ RunGoes(r, "done")
      /\ UNCHANGED <<request, runs, byEvent, cancelled, user, started, counted, flushed>>
      /\ \/ override' = NoRun /\ stray' = FALSE
         \/ override' = override /\ stray' = (stray \/ override # NoRun)
  BY DEF ClearGate, RunAt, Live, Exists, Done, registry
<1>2. "done" \in RunPc \ {"absent"}
  BY DEF RunPc
<1>3. /\ run' \in [RunId -> RunState]
      /\ run'[r].pc = "done" /\ run'[r].gate = run[r].gate /\ run'[r].failed = run[r].failed
      /\ \A s \in RunId \ {r} : run'[s] = run[s] /\ ~Live(s)
      /\ OneLiveRun'
  BY <1>1, <1>2, RunGoesOn
<1>4. TypeOK'
  <2>1. stray' \in BOOLEAN /\ override' \in RunId \cup {NoRun}
    BY <1>1 DEF Inv, TypeOK
  <2> QED
    BY <1>1, <1>3, <2>1 DEF Inv, TypeOK
<1>5. GateInv'
  <2>1. \A s \in RunId \ {r} : ~UsersUnderWay(s)
    BY <1>1, GateOfLive
  <2>2. \A s \in RunId : ~UsersUnderWay(s)'
    BY <1>3, <2>1 DEF UsersUnderWay
  <2>3. stray' \/ override' = NoRun
    BY <1>1 DEF Inv, TypeOK
  <2> QED
    BY <2>2, <2>3 DEF GateInv, GateFollowsRun
<1>6. CountInv' /\ PhaseInv'
  <2>1. \A s \in RunId : Born(s)' = Born(s) /\ Over(s)' = Over(s)
    BY <1>1 DEF Born, Over
  <2> QED
    BY <1>1, <1>3, <2>1 DEF Inv, CountInv, PhaseInv
<1> QED
  BY <1>3, <1>4, <1>5, <1>6 DEF Inv

-----------------------------------------------------------------------------
(* Steps of the users.                                                     *)

\* A step of a user of a run that is launching or waiting.
LEMMA UserMoves ==
    ASSUME Inv, NEW r \in RunId, NEW u \in SimUser, NEW pc \in UserPc \ {"unborn"},
           run[r].pc \in {"launch", "wait"},
           run[r].pc = "wait" => user[r][u] # "unborn",
           user[r][u] # "over",
           user' = [user EXCEPT ![r] = [user[r] EXCEPT ![u] = pc]],
           started' = IF user[r][u] = "unborn"
                      THEN [started EXCEPT ![r] = started[r] + 1] ELSE started,
           counted' = IF pc = "over"
                      THEN [counted EXCEPT ![r] = counted[r] + 1] ELSE counted,
           UNCHANGED <<request, runs, byEvent, run, cancelled, override, stray, flushed>>
    PROVE  Inv'
<1> DEFINE v == [user[r] EXCEPT ![u] = pc]
<1> DEFINE N == Cardinality(SimUser)
<1>1. /\ user \in [RunId -> [SimUser -> UserPc]] /\ user[r] \in [SimUser -> UserPc]
      /\ started \in [RunId -> 0 .. N] /\ counted \in [RunId -> 0 .. N]
  BY DEF Inv, TypeOK
<1>2. v \in [SimUser -> UserPc] /\ v[u] = pc /\ \A w \in SimUser \ {u} : v[w] = user[r][w]
  BY <1>1
<1>3. user' = [user EXCEPT ![r] = v]
  OBVIOUS
<1> HIDE DEF v, N
<1>4. /\ user' \in [RunId -> [SimUser -> UserPc]]
      /\ user'[r] = v /\ \A s \in RunId \ {r} : user'[s] = user[s]
  BY <1>1, <1>2, <1>3
<1>5. \A s \in RunId \ {r} : Born(s)' = Born(s) /\ Over(s)' = Over(s)
  BY <1>4 DEF Born, Over
<1>6. Born(r)' = Born(r) \cup {u}
  BY <1>2, <1>4 DEF Born
<1>7. Over(r)' = IF pc = "over" THEN Over(r) \cup {u} ELSE Over(r)
  BY <1>2, <1>4 DEF Over
<1>8. /\ Born(r) \in SUBSET SimUser /\ Over(r) \in SUBSET SimUser
      /\ (Born(r))' \in SUBSET SimUser /\ (Over(r))' \in SUBSET SimUser
      /\ u \notin Over(r) /\ (u \in Born(r) <=> user[r][u] # "unborn")
  BY DEF Born, Over
<1>9. Cardinality(Born(r)') = IF user[r][u] = "unborn" THEN Cardinality(Born(r)) + 1
                              ELSE Cardinality(Born(r))
  <2>1. CASE user[r][u] = "unborn"
    <3>1. u \in SimUser \ Born(r)
      BY <1>8, <2>1
    <3> QED
      BY <1>6, <1>8, <2>1, <3>1, CountOfUsers
  <2>2. CASE user[r][u] # "unborn"
    <3>1. Born(r)' = Born(r)
      BY <1>6, <1>8, <2>2
    <3> QED
      BY <2>2, <3>1
  <2> QED
    BY <2>1, <2>2
<1>10. Cardinality(Over(r)') = IF pc = "over" THEN Cardinality(Over(r)) + 1
                               ELSE Cardinality(Over(r))
  <2>1. u \in SimUser \ Over(r)
    BY <1>8
  <2> QED
    BY <1>7, <1>8, <2>1, CountOfUsers
<1>11. started[r] = Cardinality(Born(r)) /\ counted[r] = Cardinality(Over(r))
  BY DEF Inv, CountInv
<1>12. started'[r] = Cardinality(Born(r)') /\ \A s \in RunId \ {r} : started'[s] = started[s]
  BY <1>1, <1>9, <1>11
<1>13. counted'[r] = Cardinality(Over(r)') /\ \A s \in RunId \ {r} : counted'[s] = counted[s]
  BY <1>1, <1>10, <1>11
<1>14. CountInv'
  BY <1>5, <1>12, <1>13 DEF Inv, CountInv
<1>15. Cardinality(Born(r)') \in 0 .. N /\ Cardinality(Over(r)') \in 0 .. N
  BY <1>8, CountOfUsers DEF N
<1>16. started' \in [RunId -> 0 .. N] /\ counted' \in [RunId -> 0 .. N]
  <2>1. DOMAIN started' = RunId /\ started' = [s \in RunId |-> started'[s]]
    BY <1>1
  <2>2. DOMAIN counted' = RunId /\ counted' = [s \in RunId |-> counted'[s]]
    BY <1>1
  <2>3. \A s \in RunId : started'[s] \in 0 .. N /\ counted'[s] \in 0 .. N
    BY <1>1, <1>12, <1>13, <1>15
  <2> QED
    BY <2>1, <2>2, <2>3
<1>17. TypeOK'
  BY <1>4, <1>16 DEF Inv, TypeOK, N
<1>18. OneLiveRun' /\ GateInv'
  BY DEF Inv, OneLiveRun, GateInv, GateFollowsRun, UsersUnderWay,
     Live, Exists, Done
<1>19. PhaseInv'
  <2>1. \A s \in RunId \ {r} : run'[s] = run[s]
    OBVIOUS
  <2>2. run[r].pc = "wait" => Born(r)' = Born(r)
    BY <1>6, <1>8
  <2> QED
    BY <1>5, <2>2 DEF Inv, PhaseInv
<1> QED
  BY <1>14, <1>17, <1>18, <1>19 DEF Inv

LEMMA LaunchKeeps ==
    ASSUME Inv, NEW r \in RunId, NEW u \in SimUser, Launch(r, u)
    PROVE  Inv'
<1>1. "enqueue" \in UserPc \ {"unborn"}
  BY DEF UserPc
<1>2. /\ run[r].pc = "launch" /\ user[r][u] = "unborn"
      /\ user' = [user EXCEPT ![r] = [user[r] EXCEPT ![u] = "enqueue"]]
      /\ started' = [started EXCEPT ![r] = started[r] + 1] /\ counted' = counted
      /\ UNCHANGED <<request, runs, byEvent, run, cancelled, override, stray, flushed>>
  BY DEF Launch, RunAt, registry, redis
<1> QED
  BY <1>1, <1>2, UserMoves

\* A user that has started and is not over belongs to a run under way.
LEMMA UserNextKeeps ==
    ASSUME Inv, NEW r \in RunId, NEW u \in SimUser, UserNext(r, u)
    PROVE  Inv'
<1>1. user[r][u] \in {"enqueue", "poll", "admitted", "reserve"}
  BY DEF UserNext, Enqueue, Poll, Acquire, Reserve, ContextEnds, ContextPcs, UserAt
<1>2. run[r].pc \in {"launch", "wait"}
  <2>1. u \in Born(r) /\ u \notin Over(r)
    BY <1>1 DEF Born, Over
  <2>2. run[r].pc \in {"absent", "begin", "launch", "wait", "clear", "done"}
    BY DEF Inv, TypeOK, RunState
  <2> QED
    BY <2>1, <2>2 DEF Inv, PhaseInv
<1>3. CASE Ends(r, u)
  <2>1. "over" \in UserPc \ {"unborn"}
    BY DEF UserPc
  <2>2. /\ user' = [user EXCEPT ![r] = [user[r] EXCEPT ![u] = "over"]]
        /\ counted' = [counted EXCEPT ![r] = counted[r] + 1] /\ started' = started
        /\ UNCHANGED <<request, runs, byEvent, run, cancelled, override, stray, flushed>>
    BY <1>3 DEF Ends, UserGoes, registry, redis
  <2> QED
    BY <1>1, <1>2, <2>1, <2>2, UserMoves
<1>4. CASE \E pc \in {"poll", "admitted", "reserve"} : UserStep(r, u, pc)
  <2>1. PICK pc \in {"poll", "admitted", "reserve"} : UserStep(r, u, pc)
    BY <1>4
  <2>2. pc \in UserPc \ {"unborn"} /\ pc # "over"
    BY <2>1 DEF UserPc
  <2>3. /\ user' = [user EXCEPT ![r] = [user[r] EXCEPT ![u] = pc]]
        /\ counted' = counted /\ started' = started
        /\ UNCHANGED <<request, runs, byEvent, run, cancelled, override, stray, flushed>>
    BY <2>1 DEF UserStep, UserGoes, registry, redis
  <2> QED
    BY <1>1, <1>2, <2>2, <2>3, UserMoves
<1> QED
  BY <1>3, <1>4 DEF UserNext, Enqueue, Poll, Acquire, Reserve, ContextEnds

-----------------------------------------------------------------------------

LEMMA InitInv == Init => Inv
<1> SUFFICES ASSUME Init PROVE Inv
  OBVIOUS
<1>1. 0 \in 0 .. Cardinality(SimUser)
  BY CountOfUsers
<1>2. AbsentRun \in RunState /\ AbsentRun.pc = "absent"
  BY DEF AbsentRun, RunState
<1>3. [u \in SimUser |-> "unborn"] \in [SimUser -> UserPc]
  BY DEF UserPc
<1>4. TypeOK
  BY <1>1, <1>2, <1>3, IdleType DEF Init, TypeOK
<1>5. OneLiveRun /\ GateInv
  BY <1>2 DEF Init, OneLiveRun, GateInv, GateFollowsRun, UsersUnderWay,
     Live, Exists, Done
<1>6. \A r \in RunId : Born(r) = {} /\ Over(r) = {}
  BY DEF Init, Born, Over
<1>7. CountInv
  BY <1>6, NoUsers DEF Init, CountInv
<1>8. PhaseInv
  BY <1>2, <1>6 DEF Init, PhaseInv
<1> QED
  BY <1>4, <1>5, <1>7, <1>8 DEF Inv

LEMMA NextKeeps == Inv /\ [Next]_vars => Inv'
<1> SUFFICES ASSUME Inv, [Next]_vars PROVE Inv'
  OBVIOUS
<1>1. CASE \E h \in Handler : HandlerNext(h)
  BY <1>1, CheckKeeps, PreparationKeeps, StartKeeps DEF HandlerNext
<1>2. CASE FlushElsewhere
  BY <1>2, FlushElsewhereKeeps
<1>3. CASE \E r \in RunId : RunSteps(r)
  BY <1>3, SetGateKeeps, SetGateFailsKeeps, LaunchKeeps, LaunchEndsKeeps, WaitKeeps,
     ClearGateKeeps DEF RunSteps
<1>4. CASE \E r \in RunId : Cancel(r) \/ Forget(r)
  BY <1>4, CancelKeeps, ForgetKeeps
<1>5. CASE \E r \in RunId, u \in SimUser : UserNext(r, u)
  BY <1>5, UserNextKeeps
<1>6. CASE UNCHANGED vars
  <2>1. UNCHANGED request /\ UNCHANGED <<registry, runner>> /\ UNCHANGED redis
    BY <1>6 DEF vars
  <2>2. request' \in [Handler -> RequestState]
    BY <2>1 DEF Inv, TypeOK
  <2> QED
    BY <2>1, <2>2, RequestStep
<1> QED
  BY <1>1, <1>2, <1>3, <1>4, <1>5, <1>6 DEF Next

-----------------------------------------------------------------------------
(* The theorems.                                                           *)

\* Every reachable state is well typed: no outcome is counted twice, so the
\* counters never exceed the number of users.
THEOREM TypeCorrect == Spec => []TypeOK
<1>1. Inv => TypeOK
  BY DEF Inv
<1> QED
  BY <1>1, InitInv, NextKeeps, PTL DEF Spec

\* However Start, Cancel, forget and the ends of runs interleave, the registry
\* names the one live run of an event.
THEOREM RunsExclude == Spec => []OneLiveRun
<1>1. Inv => OneLiveRun
  BY DEF Inv
<1> QED
  BY <1>1, InitInv, NextKeeps, PTL DEF Spec

\* The gate in Redis belongs to the run whose users are under way, unless a
\* command on it failed or Redis was flushed.
THEOREM GateIsOwned == Spec => []GateFollowsRun
<1>1. Inv => GateFollowsRun
  BY DEF Inv, GateInv
<1> QED
  BY <1>1, InitInv, NextKeeps, PTL DEF Spec

\* When a run is done the outcome counters add up to the users it started, all
\* of them unless it was cancelled or could not set its gate.
THEOREM EveryUserIsCounted == Spec => []Accounted
<1>1. Inv => Accounted
  <2> SUFFICES ASSUME Inv, NEW r \in runs, Done(r)
               PROVE  /\ counted[r] = started[r]
                      /\ \/ started[r] = Cardinality(SimUser)
                         \/ r \in cancelled
                         \/ run[r].failed
    BY DEF Accounted
  <2>1. r \in RunId
    BY DEF Inv, TypeOK
  <2>2. Born(r) = Over(r)
    BY <2>1 DEF Inv, PhaseInv, Done
  <2>3. Born(r) = SimUser \/ r \in cancelled \/ run[r].failed
    BY <2>1 DEF Inv, PhaseInv, Done
  <2> QED
    BY <2>1, <2>2, <2>3 DEF Inv, CountInv
<1> QED
  BY <1>1, InitInv, NextKeeps, PTL DEF Spec
=============================================================================
