---------------------------- MODULE VirtualQueue ----------------------------
(***************************************************************************)
(* The waiting room of one event: the Redis keys of                        *)
(* RemoteCacheVirtualQueueRepository and everyone who works on them, the   *)
(* enqueue, dequeue, ping and slot-releasing calls of the services, the    *)
(* promoter ticker of each replica and the simulator's gate override.      *)
(*                                                                         *)
(* A Lua script is one step and so is every single Redis command; between  *)
(* two of them any other caller may run.  Redis is external: a key or a    *)
(* hash field is gone when its time to live has run out.  Times to live    *)
(* count down, so the model needs no bound on the clock: one Tick is one   *)
(* second of currentTime.Unix(), and time.Now() of a call and the script   *)
(* it is passed to fall into the same second.                              *)
(***************************************************************************)
EXTENDS Integers, Sequences, FiniteSets

CONSTANTS
    User,               \* users, as numbers: Redis orders equal scores by member
    Call,               \* concurrent service calls
    Promoter,           \* promoter tickers, one per replica
    MaxConcurrentQueue, \* MAX_CONCURRENT_QUEUE
    Overrides,          \* gates a simulation run sets for the event
    WhitelistTTL, HeartbeatTTL, QueueTTL

ASSUME UserAssumption == User \subseteq Nat /\ IsFiniteSet(User)
ASSUME GateAssumption == MaxConcurrentQueue \in Nat /\ Overrides \subseteq Nat \ {0}
ASSUME TTLAssumption ==
    /\ WhitelistTTL \in Nat \ {0}
    /\ HeartbeatTTL \in Nat \ {0}
    /\ QueueTTL \in Nat \ {0}

VARIABLES
    queue,      \* :event, the ZSET of waiting users in score order
    life,       \* seconds until the score a user was last given has passed
    heartbeat,  \* :user:<id>, remaining time to live; 0: no key
    whitelist,  \* :whitelist, remaining time to live of the field; 0: no field
    active,     \* whether the event is in active_events
    override,   \* :max_concurrent; 0: no key
    call,       \* the service calls in progress
    promoter,   \* the promoters
    lost        \* history: an event became queued for and its SADD was lost

redis == <<queue, life, heartbeat, whitelist, active, override>>
vars == <<redis, call, promoter, lost>>

-----------------------------------------------------------------------------
(* Types.                                                                  *)

\* A call of Enqueue is at its script, its SADD or its promotion; a call of
\* Dequeue or releaseQueueSlot that is not over is at its promotion.
CallState == [pc : {"idle", "enqueue", "track", "promote"},
              user : User \cup {0}, fresh : BOOLEAN]
IdleCall == [pc |-> "idle", user |-> 0, fresh |-> FALSE]

\* PromoteActiveEvents at this event: what it has read so far.
PromoterState == [pc : {"idle", "zcard", "untrack", "hlen", "get", "admit"},
                  queued : Nat, whitelisted : Nat, free : Nat]
IdlePromoter == [pc |-> "idle", queued |-> 0, whitelisted |-> 0, free |-> 0]

TypeOK ==
    /\ queue \in Seq(User)
    /\ life \in [User -> 0 .. QueueTTL]
    /\ heartbeat \in [User -> 0 .. HeartbeatTTL]
    /\ whitelist \in [User -> 0 .. WhitelistTTL]
    /\ active \in BOOLEAN
    /\ override \in Overrides \cup {0}
    /\ call \in [Call -> CallState]
    /\ promoter \in [Promoter -> PromoterState]
    /\ lost \in BOOLEAN

-----------------------------------------------------------------------------
(* The Lua scripts.                                                        *)

Waiting == {queue[i] : i \in DOMAIN queue}

\* HLEN of the whitelist and the gate in force.
Whitelisted == {u \in User : whitelist[u] > 0}
Gate == IF override # 0 THEN override ELSE MaxConcurrentQueue

\* ZREM
Without(q, u) ==
    LET i == CHOOSE i \in DOMAIN q : q[i] = u
    IN  IF \E i1 \in DOMAIN q : q[i1] = u
        THEN SubSeq(q, 1, i - 1) \o SubSeq(q, i + 1, Len(q))
        ELSE q

\* ZREMRANGEBYSCORE -inf now: the lowest scores are at the head.
Purged(q) == SubSeq(q, Cardinality({i \in DOMAIN q : life[q[i]] = 0}) + 1, Len(q))

\* Mutant: one score for everybody.
MutantByMember(q, u) == Cardinality({i \in DOMAIN q : q[i] < u})
\* How many of q are below a score of QueueTTL seconds from now for u: the
\* lower scores, and of the equal ones the lower members.
Rank(q, u) ==
    Cardinality({i \in DOMAIN q : life[q[i]] < QueueTTL \/ q[i] < u})

\* Mutant: a list instead of a sorted set.
MutantPushes(q, u) == Append(q, u)
\* ZADD with a score QueueTTL seconds from now.
Added(q, u) ==
    LET others == Without(q, u)
        k == Rank(others, u)
    IN  SubSeq(others, 1, k) \o <<u>> \o SubSeq(others, k + 1, Len(others))

MutantTrustsCaller(desired) == desired
\* The number of users the script is to admit: desired, but at most the room.
Grant(desired) ==
    LET room == Gate - Cardinality(Whitelisted)
    IN  IF room <= 0 THEN 0 ELSE IF desired > room THEN room ELSE desired

\* The waiting places whose heartbeat EXISTS.
Alive == {i \in DOMAIN queue : heartbeat[queue[i]] > 0}

\* The batches of the script take users off the head until n of them were
\* alive or nobody is left: the places with fewer than n living before them.
Scanned(n) == {i \in DOMAIN queue : Cardinality({j \in Alive : j < i}) < n}

\* The users it admits.
Admitted(n) == {queue[i] : i \in Alive \cap Scanned(n)}

\* Mutant: the heartbeat of an admitted user is not deleted.
MutantKeepsHeartbeat(desired) ==
    LET n == Grant(desired)
    IN  /\ queue' = SubSeq(queue, Cardinality(Scanned(n)) + 1, Len(queue))
        /\ whitelist' = [u \in User |-> IF u \in Admitted(n) THEN WhitelistTTL
                                        ELSE whitelist[u]]
        /\ UNCHANGED heartbeat
\* Mutant: only the dead are removed from the queue.
MutantAdmitsInPlace(desired) ==
    LET n == Grant(desired)
    IN  /\ queue' = SelectSeq(queue, LAMBDA u : heartbeat[u] > 0)
        /\ whitelist' = [u \in User |-> IF u \in Admitted(n) THEN WhitelistTTL
                                        ELSE whitelist[u]]
        /\ heartbeat' = [u \in User |-> IF u \in Admitted(n) THEN 0 ELSE heartbeat[u]]
\* tryWhitelistEventQueueLuaScript
TryWhitelist(desired) ==
    LET n == Grant(desired)
    IN  /\ queue' = SubSeq(queue, Cardinality(Scanned(n)) + 1, Len(queue))
        /\ whitelist' = [u \in User |-> IF u \in Admitted(n) THEN WhitelistTTL
                                        ELSE whitelist[u]]
        /\ heartbeat' = [u \in User |-> IF u \in Admitted(n) THEN 0 ELSE heartbeat[u]]

-----------------------------------------------------------------------------
(* VirtualQueueService.Enqueue.                                            *)

\* GetWhitelistedUserTTL: a holder of a slot is answered at once.
EnqueueCheck(c, u) ==
    /\ call[c].pc = "idle"
    /\ whitelist[u] = 0
    /\ call' = [call EXCEPT ![c] = [pc |-> "enqueue", user |-> u, fresh |-> FALSE]]
    /\ UNCHANGED <<redis, promoter, lost>>

\* enqueueLuaScript: purge, then SET heartbeat NX; a user whose heartbeat is
\* there is not queued again.
EnqueueScript(c) ==
    LET u == call[c].user IN
    /\ call[c].pc = "enqueue"
    /\ \/ /\ heartbeat[u] = 0
          /\ queue' = Added(Purged(queue), u)
          /\ life' = [life EXCEPT ![u] = QueueTTL]
          /\ heartbeat' = [heartbeat EXCEPT ![u] = HeartbeatTTL]
          /\ call' = [call EXCEPT ![c] = [pc |-> "track", user |-> u, fresh |-> TRUE]]
       \/ /\ heartbeat[u] > 0
          /\ queue' = Purged(queue)
          /\ call' = [call EXCEPT ![c] = [pc |-> "track", user |-> u, fresh |-> FALSE]]
          /\ UNCHANGED <<life, heartbeat>>
    /\ UNCHANGED <<whitelist, active, override, promoter, lost>>

\* Where a call goes when TrackActiveEvent has returned: ErrVirtualQueueExist
\* ends it.
Tracked(c) ==
    call' = [call EXCEPT ![c] =
                IF call[c].fresh
                THEN [pc |-> "promote", user |-> call[c].user, fresh |-> FALSE]
                ELSE IdleCall]

\* SADD active_events.
EnqueueTrack(c) ==
    /\ call[c].pc = "track"
    /\ active' = TRUE
    /\ lost' = FALSE
    /\ Tracked(c)
    /\ UNCHANGED <<queue, life, heartbeat, whitelist, override, promoter>>

\* The SADD fails, which is only logged.
EnqueueTrackFails(c) ==
    /\ call[c].pc = "track"
    /\ lost' = (lost \/ ~active)
    /\ Tracked(c)
    /\ UNCHANGED <<redis, promoter>>

\* TryWhitelistEventQueue(1), the last write of Enqueue, of Dequeue and of
\* releaseQueueSlot.  The TTL that Enqueue reads after it only goes into the
\* answer.
Promote(c) ==
    /\ call[c].pc = "promote"
    /\ TryWhitelist(1)
    /\ call' = [call EXCEPT ![c] = IdleCall]
    /\ UNCHANGED <<life, active, override, promoter, lost>>

\* A Redis error, the request timeout or the death of the process between two
\* commands of a call.
CallAbandoned(c) ==
    /\ call[c].pc # "idle"
    /\ call' = [call EXCEPT ![c] = IdleCall]
    /\ lost' = (lost \/ (call[c].pc = "track" /\ ~active))
    /\ UNCHANGED <<redis, promoter>>

-----------------------------------------------------------------------------
(* The other calls.                                                        *)

\* dequeueLuaScript; only a freed slot is followed by a promotion.
Dequeue(c, u) ==
    /\ call[c].pc = "idle"
    /\ queue' = Without(queue, u)
    /\ whitelist' = [whitelist EXCEPT ![u] = 0]
    /\ heartbeat' = [heartbeat EXCEPT ![u] = 0]
    /\ call' = [call EXCEPT ![c] = IF whitelist[u] > 0
                    THEN [pc |-> "promote", user |-> u, fresh |-> FALSE]
                    ELSE IdleCall]
    /\ UNCHANGED <<life, active, override, promoter, lost>>

\* releaseQueueSlot of the reservation service: HDEL, then promote, whether
\* the user held a slot or not (a blocked event never checks).
ReleaseSlot(c, u) ==
    /\ call[c].pc = "idle"
    /\ whitelist' = [whitelist EXCEPT ![u] = 0]
    /\ call' = [call EXCEPT ![c] = [pc |-> "promote", user |-> u, fresh |-> FALSE]]
    /\ UNCHANGED <<queue, life, heartbeat, active, override, promoter, lost>>

\* pingLuaScript, where it writes: the heartbeat of a user without a slot.
Ping(u) ==
    /\ whitelist[u] = 0
    /\ heartbeat[u] > 0
    /\ heartbeat' = [heartbeat EXCEPT ![u] = HeartbeatTTL]
    /\ UNCHANGED <<queue, life, whitelist, active, override, call, promoter, lost>>

-----------------------------------------------------------------------------
(* PromoteActiveEvents, one command after the other.                       *)

At(p, pc) == promoter[p].pc = pc
Goes(p, st) == promoter' = [promoter EXCEPT ![p] = st]

\* SMEMBERS active_events holds the event.
PromoterScan(p) ==
    /\ At(p, "idle")
    /\ active
    /\ Goes(p, [IdlePromoter EXCEPT !.pc = "zcard"])
    /\ UNCHANGED <<redis, call, lost>>

PromoterZCard(p) ==
    /\ At(p, "zcard")
    /\ Goes(p, IF Len(queue) = 0
               THEN [IdlePromoter EXCEPT !.pc = "untrack"]
               ELSE [IdlePromoter EXCEPT !.pc = "hlen", !.queued = Len(queue)])
    /\ UNCHANGED <<redis, call, lost>>

MutantUntrackAlways == TRUE
\* untrackIdleEventLuaScript looks at the queue once more.
StillIdle == Len(queue) = 0

PromoterUntrack(p) ==
    /\ At(p, "untrack")
    /\ active' = IF StillIdle THEN FALSE ELSE active
    /\ Goes(p, IdlePromoter)
    /\ UNCHANGED <<queue, life, heartbeat, whitelist, override, call, lost>>

PromoterHLen(p) ==
    /\ At(p, "hlen")
    /\ Goes(p, [promoter[p] EXCEPT !.pc = "get",
                                   !.whitelisted = Cardinality(Whitelisted)])
    /\ UNCHANGED <<redis, call, lost>>

MutantNoFreeCheck(free) == TRUE
HasFree(free) == free > 0

\* The gate is read; free slots, at most as many as were queued.
PromoterReads(p, gate) ==
    LET t == promoter[p]
        free == gate - t.whitelisted
    IN  /\ At(p, "get")
        /\ Goes(p, IF HasFree(free)
                   THEN [IdlePromoter EXCEPT !.pc = "admit",
                            !.free = IF free > t.queued THEN t.queued ELSE free]
                   ELSE IdlePromoter)
        /\ UNCHANGED <<redis, call, lost>>

\* GetEventMaxConcurrent, which falls back to the default where the override
\* cannot be read.
PromoterGet(p) == PromoterReads(p, Gate)
PromoterMisreads(p) == PromoterReads(p, MaxConcurrentQueue)

PromoterAdmit(p) ==
    /\ At(p, "admit")
    /\ TryWhitelist(promoter[p].free)
    /\ Goes(p, IdlePromoter)
    /\ UNCHANGED <<life, active, override, call, lost>>

\* A command fails or the 10 s of the tick are over: next event, next tick.
PromoterFails(p) ==
    /\ ~At(p, "idle")
    /\ Goes(p, IdlePromoter)
    /\ UNCHANGED <<redis, call, lost>>

-----------------------------------------------------------------------------
(* The simulator, the reset and the clock.                                 *)

\* SetEventMaxConcurrent at the start of a run, ClearEventMaxConcurrent (0) at
\* its end.
SetOverride(g) ==
    /\ override # g
    /\ override' = g
    /\ UNCHANGED <<queue, life, heartbeat, whitelist, active, call, promoter, lost>>

\* FLUSHDB of the admin handlers, at any moment of the calls in progress.
FlushDB ==
    /\ queue' = <<>>
    /\ life' = [u \in User |-> 0]
    /\ heartbeat' = [u \in User |-> 0]
    /\ whitelist' = [u \in User |-> 0]
    /\ active' = FALSE
    /\ override' = 0
    /\ lost' = FALSE
    /\ UNCHANGED <<call, promoter>>

Less(ttl) == [u \in User |-> IF ttl[u] = 0 THEN 0 ELSE ttl[u] - 1]

Tick ==
    /\ life' = Less(life)
    /\ heartbeat' = Less(heartbeat)
    /\ whitelist' = Less(whitelist)
    /\ UNCHANGED <<queue, active, override, call, promoter, lost>>

-----------------------------------------------------------------------------

Init ==
    /\ queue = <<>>
    /\ life = [u \in User |-> 0]
    /\ heartbeat = [u \in User |-> 0]
    /\ whitelist = [u \in User |-> 0]
    /\ active = FALSE
    /\ override = 0
    /\ call = [c \in Call |-> IdleCall]
    /\ promoter = [p \in Promoter |-> IdlePromoter]
    /\ lost = FALSE

CallNext(c) ==
    \/ \E u \in User : EnqueueCheck(c, u) \/ Dequeue(c, u) \/ ReleaseSlot(c, u)
    \/ EnqueueScript(c)
    \/ EnqueueTrack(c)
    \/ EnqueueTrackFails(c)
    \/ Promote(c)
    \/ CallAbandoned(c)

PromoterSteps(p) ==
    \/ PromoterScan(p)
    \/ PromoterZCard(p)
    \/ PromoterUntrack(p)
    \/ PromoterHLen(p)
    \/ PromoterGet(p)
    \/ PromoterAdmit(p)

Next ==
    \/ \E c \in Call : CallNext(c)
    \/ \E u \in User : Ping(u)
    \/ \E p \in Promoter :
          PromoterSteps(p) \/ PromoterMisreads(p) \/ PromoterFails(p)
    \/ \E g \in Overrides \cup {0} : SetOverride(g)
    \/ FlushDB
    \/ Tick

Spec == Init /\ [][Next]_vars

-----------------------------------------------------------------------------
(* Properties.                                                             *)

\* A step that admits somebody leaves no more users admitted than the gate in
\* force at that moment allows, although the promoter asks for a number of
\* slots it computed from four earlier reads, other calls admit in between and
\* the simulator changes the gate.
AdmissionsFitGate ==
    [][Whitelisted' \ Whitelisted # {} => Cardinality(Whitelisted') <= Gate]_vars

\* A user whose heartbeat is alive and whose queue entry is younger than
\* QueueTTL is in the queue: no script loses a waiting user.
LiveWaitersAreQueued ==
    \A u \in User : heartbeat[u] > 0 /\ life[u] > 0 => u \in Waiting

\* Nobody who is alive is passed over: of the users waiting alive, those that
\* stay in the queue were enqueued no earlier, in seconds, than the admitted.
SeniorityRespected ==
    [][\A u, v \in Waiting :
          /\ heartbeat[u] > 0
          /\ u \in Waiting'
          /\ v \notin Waiting'
          /\ v \in Whitelisted' \ Whitelisted
          => life[v] <= life[u]]_vars

\* Whenever somebody is queued the promoters know of the event, or the call
\* that queued the user is about to tell them, unless its SADD was lost:
\* UntrackIdleEvent cannot forget an event that was just enqueued for.
QueuedEventIsTracked ==
    queue # <<>> => \/ active
                    \/ lost
                    \/ \E c \in Call : call[c].pc = "track"

\* A user alone is in the queue once (ZSET), in score order: the script's head
\* of the queue is the longest waiting user.
QueueInOrder ==
    \A i, j \in DOMAIN queue :
        i < j => queue[i] # queue[j] /\ life[queue[i]] <= life[queue[j]]

\* docs/architecture.md on the ping script: "return 0 -- still queued,
\* heartbeat refreshed".  A user that ping answers so is in the queue.
PingMeansQueued ==
    \A u \in User : whitelist[u] = 0 /\ heartbeat[u] > 0 => u \in Waiting

\* docs/api.md on enqueue: "the call is idempotent for a holder of a slot".  The
\* one way to hold a slot and a place in the queue at once is the script of the
\* user's own Enqueue, which looked for the slot before the admission and did not
\* look again; no promotion leaves a user it admits in the queue, however the
\* purges, removals and expiries before it fell.
OnlyEnqueueRequeuesHolder ==
    [][\A u \in (Waiting' \cap Whitelisted') \ (Waiting \cap Whitelisted) :
          \E c \in Call :
             /\ EnqueueScript(c)
             /\ call[c].user = u
             /\ u \in Whitelisted]_vars

-----------------------------------------------------------------------------
(* Fairness.  Calls and tickers go on (their contexts have deadlines), the *)
(* ticker fires for ever, and from some time on its commands succeed and   *)
(* no simulation changes the gate.                                         *)

Fairness ==
    /\ WF_vars(Tick)
    /\ \A c \in Call :
          WF_vars(EnqueueScript(c) \/ EnqueueTrack(c) \/ EnqueueTrackFails(c)
                  \/ Promote(c) \/ CallAbandoned(c))
    /\ \A p \in Promoter :
          /\ WF_vars(PromoterSteps(p))
          /\ <>[][~PromoterFails(p) /\ (PromoterMisreads(p) => PromoterGet(p))]_vars
    /\ <>[][override' = override]_vars

FairSpec == Spec /\ Fairness

\* A user who waits alive next to a free slot does not do so for ever, whatever
\* calls are cut short and whoever else comes and goes: the promoters find the
\* event and admit.  The exception is an event whose SADD was lost, which no
\* promoter looks at.
AliveUsers == {queue[i] : i \in Alive}
FreeSlotIsFilled ==
    \A u \in User :
        u \in AliveUsers /\ Cardinality(Whitelisted) < Gate
        ~> u \notin AliveUsers \/ Cardinality(Whitelisted) >= Gate \/ lost
=============================================================================
