--------------------------- MODULE LoadTestProofs ---------------------------
(***************************************************************************)
(* Proofs, for any number of users and workers, that the counters of a     *)
(* load test tell what happened to its users.  First what a call leads to  *)
(* over either transport (facts about Clients), then the shape of a step   *)
(* of one user, then the invariant: each counter is the number of users    *)
(* that passed it, a snapshot's sum is the number of users counted in the  *)
(* counters it loaded, and an early user holds no seat.                    *)
(***************************************************************************)
EXTENDS LoadTest, FiniteSetTheorems, TLAPS

-----------------------------------------------------------------------------
(* What a call leads to.                                                   *)

LEMMA OutcomeNames ==
    Outcome = {"reserved", "rejectedCapacity", "rejectedQuota", "timedOut",
               "cancelled", "reaped", "errors"}
<1>1. /\ Outcomes[1] = "reserved" /\ Outcomes[2] = "rejectedCapacity"
      /\ Outcomes[3] = "rejectedQuota" /\ Outcomes[4] = "timedOut"
      /\ Outcomes[5] = "cancelled" /\ Outcomes[6] = "reaped" /\ Outcomes[7] = "errors"
  BY DEF Outcomes
<1>2. 1 .. 7 = {1, 2, 3, 4, 5, 6, 7}
  OBVIOUS
<1> QED
  BY <1>1, <1>2 DEF Outcome

LEMMA OutcomesDiffer ==
    ASSUME NEW i \in 1 .. 7, NEW j \in 1 .. 7, i # j
    PROVE  Outcomes[i] # Outcomes[j]
BY DEF Outcomes

\* The counters agree, or HTTP counts an error where the service gave up.
Agrees(c, truth) ==
    c = truth \/ (c = "errors" /\ truth \in {"lost", "timedOut", "cancelled"})

LEMMA ClassifyCounts ==
    ASSUME NEW err
    PROVE  /\ Classify(err) \in {"timedOut", "cancelled", "errors"}
           /\ err \notin ContextError => Classify(err) = "errors"
           /\ Agrees("errors", Classify(err))
BY DEF Classify, ContextError, Agrees

LEMMA RefusedCounts == RefusedLeadsTo = "errors"
BY DEF RefusedLeadsTo, Classify, Translated, Unauthorized, Response, Failed

LEMMA ResponseFields ==
    ASSUME NEW s, NEW b
    PROVE  Response(s, b).status = s /\ Response(s, b).body = b
BY DEF Response

LEMMA EnqueueLeads ==
    ASSUME NEW ttl \in TTL, NEW err \in EnqueueError, NEW tr \in Transport
    PROVE  LET way == EnqueueLeadsTo(tr, ttl, err) IN
           /\ way \in {"admitted", "poll", "timedOut", "cancelled", "errors"}
           /\ way \in {"admitted", "poll"} \/ Agrees(way, EnqueueLeadsTo("inproc", ttl, err))
<1>1. CASE tr = "inproc"
  BY <1>1, ClassifyCounts DEF EnqueueLeadsTo, AfterEnqueue, Agrees
<1>2. CASE tr = "http" /\ err # "none"
  <2>1. EnqueueResponse(ttl, err).status >= 400
    BY <1>2 DEF EnqueueResponse, Response
  <2>2. EnqueueLeadsTo(tr, ttl, err) = "errors"
    BY <1>2, <2>1, ClassifyCounts DEF EnqueueLeadsTo, AfterEnqueue, Failed, ContextError
  <2>3. EnqueueLeadsTo("inproc", ttl, err) = Classify(err)
    BY <1>2 DEF EnqueueLeadsTo, AfterEnqueue
  <2> QED
    BY <2>2, <2>3, ClassifyCounts
<1>3. CASE tr = "http" /\ err = "none"
  <2> DEFINE b == IF ttl > 0 THEN "whitelisted" ELSE "in queue"
  <2>0. EnqueueResponse(ttl, err) = Response(201, b)
    BY <1>3 DEF EnqueueResponse
  <2> HIDE DEF b
  <2>1. ~(EnqueueResponse(ttl, err).status >= 400)
    BY <2>0, ResponseFields
  <2>2. EnqueueLeadsTo(tr, ttl, err) \in {"admitted", "poll"}
    BY <1>3, <2>1 DEF EnqueueLeadsTo, AfterEnqueue, Failed
  <2> QED
    BY <2>2
<1> QED
  BY <1>1, <1>2, <1>3 DEF Transport

LEMMA PollLeads ==
    ASSUME NEW st \in QueueStatus, NEW err \in PingError, NEW tr \in Transport
    PROVE  LET way == PollLeadsTo(tr, st, err) IN
           /\ way \in {"admitted", "poll", "reaped", "rejectedCapacity", "timedOut",
                       "cancelled", "errors"}
           /\ way \in {"admitted", "poll"} \/ Agrees(way, PollLeadsTo("inproc", st, err))
<1>0. /\ st.ttl \in 0 .. 2 /\ st.alive \in BOOLEAN /\ st.soldOut \in BOOLEAN
      /\ st.ttl > 0 => st.alive
  BY DEF QueueStatus, TTL
<1>1. CASE tr = "inproc"
  BY <1>1, ClassifyCounts DEF PollLeadsTo, AfterPoll, Agrees
<1>2. CASE tr = "http" /\ err # "none"
  <2>1. PingResponse(st, err).status = 400
    BY <1>2 DEF PingResponse, Response
  <2>2. PollLeadsTo(tr, st, err) = "errors"
    BY <1>2, <2>1, ClassifyCounts DEF PollLeadsTo, AfterPoll, Failed, ContextError
  <2>3. PollLeadsTo("inproc", st, err) = Classify(err)
    BY <1>2 DEF PollLeadsTo, AfterPoll
  <2> QED
    BY <2>2, <2>3, ClassifyCounts
<1>3. CASE tr = "http" /\ err = "none" /\ ~st.alive
  <2>1. PingResponse(st, err).status = 404
    BY <1>3 DEF PingResponse, Response
  <2>2. PollLeadsTo(tr, st, err) = AfterPoll(NoStatus, "none")
    BY <1>3, <2>1 DEF PollLeadsTo, PollStatus, Failed
  <2>3. AfterPoll(NoStatus, "none") = "reaped"
    BY DEF AfterPoll, NoStatus
  <2>4. PollLeadsTo("inproc", st, err) = "reaped"
    BY <1>0, <1>3 DEF PollLeadsTo, AfterPoll
  <2> QED
    BY <2>2, <2>3, <2>4 DEF Agrees
<1>4. CASE tr = "http" /\ err = "none" /\ st.alive
  <2> DEFINE body == [admitted |-> st.ttl > 0, ttlSeconds |-> st.ttl \div 2,
                      soldOut |-> st.soldOut]
             seconds == IF body.admitted /\ body.ttlSeconds = 0 THEN 1 ELSE body.ttlSeconds
             seen == [ttl |-> 2 * seconds, alive |-> TRUE, soldOut |-> body.soldOut]
  <2>1. PingResponse(st, err).status = 200 /\ PingResponse(st, err).body = body
    BY <1>4 DEF PingResponse, Response
  <2>2. ~(200 >= 400) /\ 200 # 404
    OBVIOUS
  <2> DEFINE resp == PingResponse(st, err)
  <2> HIDE DEF resp, body
  <2>3. PollStatus(resp) = seen
    <3>1. resp.status # 404 /\ resp.body = body
      BY <2>1, <2>2 DEF resp
    <3> QED BY <3>1 DEF PollStatus
  <2>4. PollLeadsTo(tr, st, err) = AfterPoll(seen, "none")
    <3>1. tr # "inproc" /\ ~Failed(resp)
      BY <1>4, <2>1, <2>2 DEF Failed, resp
    <3> HIDE DEF seen
    <3> QED BY <2>3, <3>1, Zenon DEF PollLeadsTo, resp
  <2>5. /\ body.ttlSeconds = st.ttl \div 2
        /\ body.admitted <=> st.ttl > 0
        /\ body.soldOut = st.soldOut
    BY DEF body
  <2>6. seconds > 0 <=> st.ttl > 0
    <3>1. CASE st.ttl = 0
      BY <2>5, <3>1
    <3>2. CASE st.ttl = 1
      BY <2>5, <3>2
    <3>3. CASE st.ttl = 2
      BY <2>5, <3>3
    <3> QED BY <1>0, <3>1, <3>2, <3>3
  <2>7. seconds \in Nat
    BY <1>0, <2>5
  <2> HIDE DEF seconds
  <2>8. seen.ttl = 2 * seconds /\ seen.alive = TRUE /\ seen.soldOut = st.soldOut
    BY <2>5
  <2> HIDE DEF seen
  <2>9. seen.ttl > 0 <=> st.ttl > 0
    BY <2>6, <2>7, <2>8
  <2>10. AfterPoll(seen, "none") = AfterPoll(st, "none")
    BY <1>4, <2>8, <2>9 DEF AfterPoll
  <2>11. PollLeadsTo("inproc", st, err) = AfterPoll(st, "none")
    BY <1>4 DEF PollLeadsTo
  <2> QED
    BY <1>4, <2>4, <2>10, <2>11 DEF Agrees, AfterPoll
<1> QED
  BY <1>0, <1>1, <1>2, <1>3, <1>4 DEF Transport

\* translateReserveError, by status code and body.
LEMMA TranslatedResponse ==
    ASSUME NEW s \in Nat, NEW b
    PROVE  Translated(Response(s, b))
             = IF ~(s >= 400) THEN "none"
               ELSE IF s = 409 /\ b \in {"capacity", "quota"} THEN b ELSE "http"
<1> DEFINE resp == Response(s, b)
<1>1. resp.status = s /\ resp.body = b
  BY ResponseFields
<1> HIDE DEF resp
<1>2. Translated(resp) = IF ~(s >= 400) THEN "none"
                         ELSE IF s = 409 /\ b \in {"capacity", "quota"} THEN b ELSE "http"
  BY <1>1 DEF Translated, Failed
<1> QED
  BY <1>2 DEF resp

LEMMA ReserveLeads ==
    ASSUME NEW err \in ReserveError, NEW tr \in Transport
    PROVE  LET c == ReserveLeadsTo(tr, err) IN
           /\ c \in {"reserved", "rejectedCapacity", "rejectedQuota", "timedOut",
                     "cancelled", "errors"}
           /\ c = "reserved" => err = "none"
           /\ c \in {"rejectedCapacity", "rejectedQuota"} => err \in {"capacity", "quota"}
           /\ Agrees(c, ReserveLeadsTo("inproc", err))
<1>1. CASE tr = "inproc"
  BY <1>1 DEF ReserveLeadsTo, AfterReserve, Agrees, Classify
<1>2. CASE tr = "http"
  <2>1. ReserveLeadsTo(tr, err) = AfterReserve(Translated(ReserveResponse(err)))
    BY <1>2 DEF ReserveLeadsTo
  <2>2. Translated(ReserveResponse(err))
          = IF err \in {"none", "capacity", "quota"} THEN err ELSE "http"
    <3>1. CASE err = "none"
      BY <3>1, TranslatedResponse DEF ReserveResponse
    <3>2. CASE err \in {"capacity", "quota"}
      <4>1. ReserveResponse(err) = Response(409, err)
        BY <3>2 DEF ReserveResponse
      <4> QED BY <3>2, <4>1, TranslatedResponse
    <3>3. CASE err \notin {"none", "capacity", "quota"}
      <4>1. CASE err = "notFound"
        <5> DEFINE b == "event not found"
        <5>1. ReserveResponse(err) = Response(404, b)
          BY <4>1 DEF ReserveResponse
        <5> HIDE DEF b
        <5> QED BY <3>3, <5>1, TranslatedResponse
      <4>2. CASE err = "notAdmitted"
        <5> DEFINE b == "not currently whitelisted"
        <5>1. ReserveResponse(err) = Response(400, b)
          BY <4>2 DEF ReserveResponse
        <5> HIDE DEF b
        <5> QED BY <3>3, <5>1, TranslatedResponse
      <4>3. CASE err = "keyReused"
        <5>1. ReserveResponse(err) = Response(403, err)
          BY <4>3 DEF ReserveResponse
        <5> QED BY <3>3, <5>1, TranslatedResponse
      <4>4. CASE err = "cancelled"
        <5>1. ReserveResponse(err) = Response(400, err)
          BY <4>4 DEF ReserveResponse
        <5> QED BY <3>3, <5>1, TranslatedResponse
      <4>5. CASE err = "deadline"
        <5>1. ReserveResponse(err) = Response(504, err)
          BY <4>5 DEF ReserveResponse
        <5> QED BY <3>3, <5>1, TranslatedResponse
      <4>6. CASE err = "internal"
        <5>1. ReserveResponse(err) = Response(500, err)
          BY <4>6 DEF ReserveResponse
        <5> QED BY <3>3, <5>1, TranslatedResponse
      <4> QED
        BY <3>3, <4>1, <4>2, <4>3, <4>4, <4>5, <4>6 DEF ReserveError, ContextError
    <3> QED BY <3>1, <3>2, <3>3
  <2>3. ReserveLeadsTo("inproc", err) = AfterReserve(err)
    BY DEF ReserveLeadsTo
  <2> QED
    BY <2>1, <2>2, <2>3 DEF AfterReserve, Agrees, Classify, ReserveError, ContextError
<1> QED
  BY <1>1, <1>2 DEF Transport

-----------------------------------------------------------------------------
(* The invariant.                                                          *)

Early == {"unborn", "enqueue", "poll", "admitted", "reserve"}
Active == {"enqueue", "poll", "admitted", "reserve", "reply"}

At(P) == {u \in SimUser : user[u].pc \in P}
CountedAs(C) == {u \in SimUser : user[u].counted \in C}

\* The outcome counters loaded before the k-th.
FirstOf(k) == {Outcomes[i] : i \in 1 .. (k - 1)}

\* A user is counted once it is over.
CountedInv ==
    \A u \in SimUser :
        user[u].counted # "none" <=> user[u].pc \in {"release", "over"}

\* What state s of user u says about the seats sold and the reserves pending:
\* none of its own before it asked, the one it was told of, none if refused.
SeatTold(s, u, seats, waiting) ==
    /\ s.pc \in Early => u \notin seats /\ u \notin waiting
    /\ s.pc = "reply" => u \notin waiting
    /\ s.pc = "reply" /\ s.err = "none" => u \in seats
    /\ s.pc = "reply" /\ s.err \in {"capacity", "quota"} => u \notin seats
    /\ s.counted = "reserved" => u \in seats
    /\ s.counted \in {"rejectedCapacity", "rejectedQuota", "reaped"}
       => u \notin seats /\ u \notin waiting

SeatInv == \A u \in SimUser : SeatTold(user[u], u, sold, pending)

\* When the run is done, its users are.
RunInv ==
    done => /\ \A u \in SimUser : user[u].pc \in {"over", "unborn"}
            /\ \/ \A u \in SimUser : user[u].pc = "over"
               \/ cancelled
               \/ \A u \in SimUser : user[u].pc = "unborn"

\* The counters against the users they are about.
CountInv ==
    /\ counter["started"] + Cardinality(At({"unborn"})) = Total
    /\ counter["enqueued"] + Cardinality(At({"unborn", "enqueue"})) <= Total
    /\ counter["admitted"] + Cardinality(At({"unborn", "enqueue", "poll"})) <= Total
    /\ \A c \in Outcome : counter[c] = Cardinality(CountedAs({c}))

\* A snapshot's sum against the users counted in what it has loaded.
StreamInv ==
    /\ stream.sum <= Cardinality(CountedAs(FirstOf(stream.at)))
    /\ stream.settled
       => done /\ stream.sum = Cardinality(CountedAs(FirstOf(stream.at)))

\* The types, but for the bounds on counters and sum that the rest implies.
ShapeInv ==
    /\ transport \in Transport
    /\ cancelled \in BOOLEAN
    /\ user \in [SimUser -> UserState]
    /\ counter \in [Counter -> Nat]
    /\ done \in BOOLEAN
    /\ sold \in SUBSET SimUser
    /\ pending \in SUBSET SimUser
    /\ stream \in [pc : {"closed", "wait", "load", "sent"}, at : 1 .. 8,
                   sum : Nat, settled : BOOLEAN]

-----------------------------------------------------------------------------
(* The step of one user.                                                   *)

\* Nobody but user u moves.
OnlyUser(u) ==
    /\ user' \in [SimUser -> UserState]
    /\ \A v \in SimUser : v # u => user'[v] = user[v]

\* User u is counted, and its counter tells what the service answered.
Counts(u) ==
    /\ user[u].pc \in Active
    /\ user'[u].pc \in {"release", "over"}
    /\ user'[u].counted \in Outcome
    /\ Agrees(user'[u].counted, user'[u].truth)
    /\ AddAll({user'[u].counted})

\* It is admitted, or waits for admission.
Waits(u) ==
    /\ user[u].pc \in {"enqueue", "poll"}
    /\ user'[u].pc \in {"poll", "admitted"}
    /\ user'[u].counted = user[u].counted
    /\ user'[u].truth = user[u].truth
    /\ AddAll(Passed(u, user'[u].pc))

Starts(u) ==
    /\ ~done
    /\ user[u].pc = "unborn"
    /\ user'[u].pc = "enqueue"
    /\ user'[u].counted = "none"
    /\ AddAll({"started"})

\* It moves on without being counted anywhere.
Quiet(u) ==
    /\ \/ user[u].pc = "release" /\ user'[u].pc = "over"
       \/ user[u].pc = "admitted" /\ user'[u].pc = "reserve"
       \/ user[u].pc = "reserve" /\ user'[u].pc = "reply"
    /\ user'[u].counted = user[u].counted
    /\ user'[u].truth = user[u].truth
    /\ UNCHANGED counter

Moves(u) == OnlyUser(u) /\ (Counts(u) \/ Waits(u) \/ Starts(u) \/ Quiet(u))

LEMMA GoesFields ==
    ASSUME user \in [SimUser -> UserState], NEW u \in SimUser, NEW n \in UserState,
           UserGoes(u, n)
    PROVE  OnlyUser(u) /\ user'[u] = n
BY DEF UserGoes, OnlyUser

\* The state in which a user is counted.
CountedState(t, pc, truth, c) ==
    [t EXCEPT !.pc = pc, !.err = "none", !.truth = truth, !.counted = c]

LEMMA CountedStateType ==
    ASSUME NEW t \in UserState, NEW pc \in {"release", "over"},
           NEW truth \in Outcome \cup {"none", "lost"}, NEW c \in Outcome
    PROVE  CountedState(t, pc, truth, c) \in UserState
<1>1. "none" \in ReserveError
  BY DEF ReserveError
<1> QED
  BY <1>1 DEF CountedState, UserState

LEMMA CountedStateFields ==
    ASSUME NEW t \in UserState, NEW pc, NEW truth, NEW c
    PROVE  /\ CountedState(t, pc, truth, c).pc = pc
           /\ CountedState(t, pc, truth, c).truth = truth
           /\ CountedState(t, pc, truth, c).counted = c
BY DEF CountedState, UserState

LEMMA CountedInCounts ==
    ASSUME user \in [SimUser -> UserState], NEW u \in SimUser, user[u].pc \in Active,
           NEW c \in Outcome, NEW truth, Agrees(c, truth), CountedIn(u, c, truth)
    PROVE  /\ OnlyUser(u) /\ Counts(u)
           /\ user'[u].counted = c
<1> DEFINE t  == user[u]
           pc == IF UserAt(u, "poll") /\ c = "rejectedCapacity" THEN "release" ELSE "over"
           n  == CountedState(t, pc, truth, c)
<1>1. UserGoes(u, n) /\ AddAll({c})
  BY DEF CountedIn, CountedState
<1>2. t \in UserState /\ pc \in {"release", "over"}
  OBVIOUS
<1>3. truth \in Outcome \cup {"none", "lost"}
  BY OutcomeNames DEF Agrees
<1> HIDE DEF t, pc
<1>4. n \in UserState /\ n.pc = pc /\ n.truth = truth /\ n.counted = c
  <2>1. /\ CountedState(t, pc, truth, c) \in UserState
        /\ CountedState(t, pc, truth, c).pc = pc
        /\ CountedState(t, pc, truth, c).truth = truth
        /\ CountedState(t, pc, truth, c).counted = c
    BY <1>2, <1>3, CountedStateType, CountedStateFields
  <2> QED BY <2>1
<1> HIDE DEF n
<1>5. OnlyUser(u) /\ user'[u] = n
  BY <1>1, <1>4, GoesFields
<1> QED
  BY <1>1, <1>2, <1>4, <1>5 DEF Counts

\* A change of pc alone.
LEMMA PcFields ==
    ASSUME NEW t \in UserState, NEW pc \in {"enqueue", "poll", "admitted", "reserve",
                                            "reply", "over"}
    PROVE  /\ [t EXCEPT !.pc = pc] \in UserState
           /\ [t EXCEPT !.pc = pc].pc = pc
           /\ [t EXCEPT !.pc = pc].truth = t.truth
           /\ [t EXCEPT !.pc = pc].counted = t.counted
BY DEF UserState

\* A change of pc alone, of one user.
LEMMA PcGoes ==
    ASSUME user \in [SimUser -> UserState], NEW u \in SimUser,
           NEW pc \in {"enqueue", "poll", "admitted", "reserve", "reply", "over"},
           UserGoes(u, [user[u] EXCEPT !.pc = pc])
    PROVE  /\ OnlyUser(u)
           /\ user'[u].pc = pc /\ user'[u].truth = user[u].truth
           /\ user'[u].counted = user[u].counted
<1> DEFINE t == user[u]
           n == [t EXCEPT !.pc = pc]
<1>1. t \in UserState
  OBVIOUS
<1> HIDE DEF t
<1>2. n \in UserState /\ n.pc = pc /\ n.truth = t.truth /\ n.counted = t.counted
  BY <1>1, PcFields
<1>3. UserGoes(u, n)
  BY DEF t
<1> HIDE DEF n
<1>4. OnlyUser(u) /\ user'[u] = n
  BY <1>2, <1>3, GoesFields
<1> QED
  BY <1>2, <1>4 DEF t

\* A call that was answered leads on, or to a counter.
LEMMA LedMoves ==
    ASSUME user \in [SimUser -> UserState], NEW u \in SimUser,
           user[u].pc \in {"enqueue", "poll"}, NEW way, NEW truth,
           way \in Outcome \cup {"admitted", "poll"},
           way \in {"admitted", "poll"} \/ Agrees(way, truth), Led(u, way, truth)
    PROVE  /\ OnlyUser(u)
           /\ \/ Counts(u) /\ user'[u].counted = way
              \/ Waits(u)
<1>1. CASE way \in Outcome
  <2>1. CountedIn(u, way, truth) /\ Agrees(way, truth)
    BY <1>1, OutcomeNames DEF Led
  <2> QED
    BY <1>1, <2>1, CountedInCounts DEF Active
<1>2. CASE way \notin Outcome
  <2>1. /\ way \in {"admitted", "poll"}
        /\ UserGoes(u, [user[u] EXCEPT !.pc = way]) /\ AddAll(Passed(u, way))
    BY <1>2 DEF Led
  <2>2. /\ OnlyUser(u) /\ user'[u].pc = way /\ user'[u].truth = user[u].truth
        /\ user'[u].counted = user[u].counted
    BY <2>1, PcGoes
  <2> QED
    BY <2>1, <2>2 DEF Waits
<1> QED
  BY <1>1, <1>2

\* Every step of a user but a late commit moves that user alone.
LEMMA UserSteps ==
    ASSUME ShapeInv, NEW u \in SimUser, UserNext(u)
    PROVE  /\ UNCHANGED <<transport, cancelled, done, stream>>
           /\ \/ ServedLate(u) /\ UNCHANGED <<user, counter>>
              \/ Moves(u)
<1>0. /\ user \in [SimUser -> UserState] /\ transport \in Transport
      /\ user[u] \in UserState /\ user[u].err \in ReserveError
  BY DEF ShapeInv, UserState
<1>1. CASE Launch(u)
  <2> DEFINE n == [Unborn EXCEPT !.pc = "enqueue"]
  <2>1. n \in UserState
    BY DEF Unborn, UserState, ReserveError
  <2>2. n.pc = "enqueue" /\ n.counted = "none"
    BY DEF Unborn
  <2> HIDE DEF n
  <2>3. /\ UserGoes(u, n) /\ AddAll({"started"}) /\ user[u].pc = "unborn" /\ ~done
        /\ UNCHANGED <<transport, cancelled, done, stream>>
    BY <1>1 DEF Launch, n, UserAt
  <2>4. OnlyUser(u) /\ user'[u] = n
    BY <1>0, <2>1, <2>3, GoesFields
  <2> QED
    BY <2>2, <2>3, <2>4 DEF Moves, Starts
<1>2. ASSUME NEW ttl \in TTL, NEW err \in EnqueueError, EnqueueAnswered(u, ttl, err)
      PROVE  Moves(u) /\ UNCHANGED <<transport, cancelled, done, stream>>
  <2> DEFINE way == EnqueueLeadsTo(transport, ttl, err)
             truth == EnqueueLeadsTo("inproc", ttl, err)
  <2>1. way \in {"admitted", "poll", "timedOut", "cancelled", "errors"}
        /\ (way \in {"admitted", "poll"} \/ Agrees(way, truth))
    BY <1>0, EnqueueLeads
  <2>2. /\ Led(u, way, truth) /\ user[u].pc = "enqueue"
        /\ UNCHANGED <<transport, cancelled, done, stream>>
    BY <1>2 DEF EnqueueAnswered, UserAt
  <2> HIDE DEF way, truth
  <2>3. way \in Outcome \cup {"admitted", "poll"}
    BY <2>1, OutcomeNames
  <2> QED
    BY <1>0, <2>1, <2>2, <2>3, LedMoves DEF Moves
<1>3. ASSUME NEW st \in QueueStatus, NEW err \in PingError, PollAnswered(u, st, err)
      PROVE  Moves(u) /\ UNCHANGED <<transport, cancelled, done, stream>>
  <2> DEFINE way == PollLeadsTo(transport, st, err)
             truth == PollLeadsTo("inproc", st, err)
  <2>1. way \in {"admitted", "poll", "reaped", "rejectedCapacity", "timedOut",
                 "cancelled", "errors"}
        /\ (way \in {"admitted", "poll"} \/ Agrees(way, truth))
    BY <1>0, PollLeads
  <2>2. /\ Led(u, way, truth) /\ user[u].pc = "poll"
        /\ UNCHANGED <<transport, cancelled, done, stream>>
    BY <1>3 DEF PollAnswered, UserAt
  <2> HIDE DEF way, truth
  <2>3. way \in Outcome \cup {"admitted", "poll"}
    BY <2>1, OutcomeNames
  <2> QED
    BY <1>0, <2>1, <2>2, <2>3, LedMoves DEF Moves
<1>4. CASE SlotReleased(u) \/ Acquire(u)
  <2>1. \E pc \in {"over", "reserve"} :
           /\ user[u].pc = IF pc = "over" THEN "release" ELSE "admitted"
           /\ UserGoes(u, [user[u] EXCEPT !.pc = pc])
           /\ UNCHANGED <<transport, cancelled, done, counter, stream>>
    BY <1>4 DEF SlotReleased, Acquire, UserAt
  <2> QED
    BY <1>0, <2>1, PcGoes DEF Moves, Quiet
<1>5. ASSUME NEW err \in ReserveError, ReserveServed(u, err)
      PROVE  Moves(u) /\ UNCHANGED <<transport, cancelled, done, stream>>
  <2> DEFINE t == user[u]
             n == [t EXCEPT !.pc = "reply", !.err = err]
  <2>1. n \in UserState
    BY <1>0 DEF UserState
  <2>2. n.pc = "reply" /\ n.counted = t.counted /\ n.truth = t.truth
    BY <1>0 DEF UserState
  <2>3. /\ UserGoes(u, n) /\ user[u].pc = "reserve"
        /\ UNCHANGED <<transport, cancelled, done, counter, stream>>
    BY <1>5 DEF ReserveServed, UserAt
  <2> HIDE DEF n
  <2>4. OnlyUser(u) /\ user'[u] = n
    BY <1>0, <2>1, <2>3, GoesFields
  <2> QED
    BY <2>2, <2>3, <2>4 DEF Moves, Quiet
<1>6. CASE ReserveAnswered(u)
  <2> DEFINE c == ReserveLeadsTo(transport, user[u].err)
             truth == ReserveLeadsTo("inproc", user[u].err)
  <2>1. c \in Outcome /\ Agrees(c, truth)
    BY <1>0, ReserveLeads, OutcomeNames
  <2>2. /\ CountedIn(u, c, truth) /\ user[u].pc \in Active
        /\ UNCHANGED <<transport, cancelled, done, stream>>
    BY <1>6 DEF ReserveAnswered, ReserveOutcome, UserAt, Active
  <2> HIDE DEF c, truth
  <2> QED
    BY <1>0, <2>1, <2>2, CountedInCounts DEF Moves
<1>7. CASE CallFails(u)
  <2>1. /\ CountedIn(u, "errors", "lost") /\ user[u].pc \in Active
        /\ UNCHANGED <<transport, cancelled, done, stream>>
    BY <1>7, RefusedCounts DEF CallFails, Active
  <2>2. "errors" \in Outcome /\ Agrees("errors", "lost")
    BY OutcomeNames DEF Agrees
  <2> QED
    BY <1>0, <2>1, <2>2, CountedInCounts DEF Moves
<1>8. CASE ContextEnds(u)
  <2>1. /\ user[u].pc \in Active
        /\ UNCHANGED <<transport, cancelled, done, stream>>
    BY <1>8 DEF ContextEnds, Active
  <2>2. PICK err : CountedIn(u, Classify(err), Classify(err))
    BY <1>8 DEF ContextEnds
  <2>3. Classify(err) \in Outcome /\ Agrees(Classify(err), Classify(err))
    BY ClassifyCounts, OutcomeNames DEF Agrees
  <2> QED
    BY <1>0, <2>1, <2>2, <2>3, CountedInCounts DEF Moves
<1>9. CASE ServedLate(u)
  BY <1>9 DEF ServedLate
<1> QED
  BY <1>1, <1>2, <1>3, <1>4, <1>5, <1>6, <1>7, <1>8, <1>9 DEF UserNext

\* The other steps leave the users and the counters alone.
LEMMA OtherSteps ==
    ASSUME [Next]_vars, \A u \in SimUser : ~UserNext(u)
    PROVE  UNCHANGED <<transport, user, counter, sold, pending>>
BY DEF Next, vars, Cancel, CapFails, RunEnds, BeginSnapshot, Frame, LoadCounter, LoadDone,
       CloseStream, Reads

-----------------------------------------------------------------------------
(* The invariant holds of the users and their seats.                       *)

LEMMA SameBreakdownNext ==
    ASSUME ShapeInv, SameBreakdown, [Next]_vars
    PROVE  SameBreakdown'
<1>1. CASE UNCHANGED user
  BY <1>1 DEF SameBreakdown
<1>2. ASSUME NEW u \in SimUser, Moves(u) PROVE SameBreakdown'
  <2>1. ASSUME NEW v \in SimUser
        PROVE  user'[v].counted = "none" \/ Agrees(user'[v].counted, user'[v].truth)
    <3>1. user[v].counted = "none" \/ Agrees(user[v].counted, user[v].truth)
      BY DEF SameBreakdown, Agrees
    <3> QED
      BY <1>2, <3>1 DEF Moves, OnlyUser, Counts, Waits, Starts, Quiet
  <2> QED
    BY <2>1 DEF SameBreakdown, Agrees
<1> QED
  BY <1>1, <1>2, UserSteps, OtherSteps

LEMMA CountedInvNext ==
    ASSUME ShapeInv, CountedInv, [Next]_vars
    PROVE  CountedInv'
<1>1. CASE UNCHANGED user
  BY <1>1 DEF CountedInv
<1>2. ASSUME NEW u \in SimUser, Moves(u), NEW v \in SimUser
      PROVE  user'[v].counted # "none" <=> user'[v].pc \in {"release", "over"}
  <2>1. user[v].counted # "none" <=> user[v].pc \in {"release", "over"}
    BY DEF CountedInv
  <2>2. CASE v # u
    BY <1>2, <2>1, <2>2 DEF Moves, OnlyUser
  <2>3. CASE v = u
    <3>1. "none" \notin Outcome
      BY OutcomeNames
    <3> QED
      BY <1>2, <2>1, <2>3, <3>1 DEF Moves, Counts, Waits, Starts, Quiet
  <2> QED
    BY <2>2, <2>3
<1> QED
  BY <1>1, <1>2, UserSteps, OtherSteps DEF CountedInv

\* A step of user u concerns no other user's seat.
LEMMA OthersSeats ==
    ASSUME ShapeInv, NEW u \in SimUser, UserNext(u), NEW v \in SimUser, v # u
    PROVE  /\ user'[v] = user[v]
           /\ v \in sold' <=> v \in sold
           /\ v \in pending' <=> v \in pending
<1>1. user'[v] = user[v]
  BY UserSteps DEF Moves, OnlyUser
<1>2. /\ \A w : w # u => (w \in sold' <=> w \in sold)
      /\ \A w : w # u => (w \in pending' <=> w \in pending)
  <2>1. ASSUME NEW err, ReserveServed(u, err)
        PROVE  sold' \in {sold, sold \cup {u}} /\ UNCHANGED pending
    BY <2>1 DEF ReserveServed, SoldBy
  <2>2. CASE ServedLate(u)
    BY <2>2 DEF ServedLate
  <2>3. CASE CallFails(u) \/ ContextEnds(u)
    BY <2>3 DEF CallFails, ContextEnds, LeftBehind
  <2>4. CASE UNCHANGED <<sold, pending>>
    BY <2>4
  <2> QED
    BY <2>1, <2>2, <2>3, <2>4
       DEF UserNext, Launch, EnqueueAnswered, PollAnswered, SlotReleased, Acquire,
           ReserveAnswered
<1> QED
  BY <1>1, <1>2

\* The answer of a reserve is counted by what the store did.
LEMMA OwnSeat ==
    ASSUME ShapeInv, CountedInv, NEW u \in SimUser, UserNext(u),
           SeatTold(user[u], u, sold, pending)
    PROVE  SeatTold(user'[u], u, sold', pending')
<1> USE DEF Early, Active
<1>0. /\ user \in [SimUser -> UserState] /\ transport \in Transport
      /\ user[u] \in UserState /\ user[u].err \in ReserveError
      /\ user[u].counted # "none" <=> user[u].pc \in {"release", "over"}
  BY DEF ShapeInv, UserState, CountedInv
<1>c. ASSUME NEW c \in Outcome, NEW truth, Agrees(c, truth), CountedIn(u, c, truth),
             user[u].pc \in Active, c \in {"timedOut", "cancelled", "errors"}
      PROVE  SeatTold(user'[u], u, sold', pending')
  <2>1. user'[u].counted = c /\ user'[u].pc \in {"release", "over"}
    BY <1>0, <1>c, CountedInCounts DEF Counts
  <2> QED BY <1>c, <2>1 DEF SeatTold
<1>w. ASSUME NEW way, NEW truth, way \in (Outcome \ {"reserved"}) \cup {"admitted", "poll"},
             way \in {"admitted", "poll"} \/ Agrees(way, truth), Led(u, way, truth),
             user[u].pc \in {"enqueue", "poll"}, UNCHANGED <<sold, pending>>
      PROVE  SeatTold(user'[u], u, sold', pending')
  <2>1. \/ Counts(u) /\ user'[u].counted = way
        \/ Waits(u)
    BY <1>0, <1>w, LedMoves
  <2>2. way # "reserved"
    BY <1>w
  <2>3. u \notin sold' /\ u \notin pending'
    BY <1>w DEF SeatTold
  <2> QED
    BY <1>0, <1>w, <2>1, <2>2, <2>3 DEF Counts, Waits, SeatTold
<1>1. CASE Launch(u)
  <2>1. UNCHANGED <<sold, pending>> /\ user[u].pc = "unborn"
    BY <1>1 DEF Launch, UserAt
  <2> DEFINE n == [Unborn EXCEPT !.pc = "enqueue"]
  <2>2. n.pc = "enqueue" /\ n.counted = "none"
    BY DEF Unborn
  <2>3. user'[u] = n
    BY <1>0, <1>1 DEF Launch, UserGoes
  <2> HIDE DEF n
  <2> QED
    BY <2>1, <2>2, <2>3 DEF SeatTold
<1>2. ASSUME NEW ttl \in TTL, NEW err \in EnqueueError, EnqueueAnswered(u, ttl, err)
      PROVE  SeatTold(user'[u], u, sold', pending')
  <2> DEFINE way == EnqueueLeadsTo(transport, ttl, err)
             truth == EnqueueLeadsTo("inproc", ttl, err)
  <2>1. way \in {"admitted", "poll", "timedOut", "cancelled", "errors"}
        /\ (way \in {"admitted", "poll"} \/ Agrees(way, truth))
    BY <1>0, EnqueueLeads
  <2>2. Led(u, way, truth) /\ user[u].pc = "enqueue" /\ UNCHANGED <<sold, pending>>
    BY <1>2 DEF EnqueueAnswered, UserAt
  <2> HIDE DEF way, truth
  <2>3. way \in (Outcome \ {"reserved"}) \cup {"admitted", "poll"}
    BY <2>1, OutcomeNames
  <2> QED
    BY <1>w, <2>1, <2>2, <2>3
<1>3. ASSUME NEW st \in QueueStatus, NEW err \in PingError, PollAnswered(u, st, err)
      PROVE  SeatTold(user'[u], u, sold', pending')
  <2> DEFINE way == PollLeadsTo(transport, st, err)
             truth == PollLeadsTo("inproc", st, err)
  <2>1. way \in {"admitted", "poll", "reaped", "rejectedCapacity", "timedOut",
                 "cancelled", "errors"}
        /\ (way \in {"admitted", "poll"} \/ Agrees(way, truth))
    BY <1>0, PollLeads
  <2>2. Led(u, way, truth) /\ user[u].pc = "poll" /\ UNCHANGED <<sold, pending>>
    BY <1>3 DEF PollAnswered, UserAt
  <2> HIDE DEF way, truth
  <2>3. way \in (Outcome \ {"reserved"}) \cup {"admitted", "poll"}
    BY <2>1, OutcomeNames
  <2> QED
    BY <1>w, <2>1, <2>2, <2>3
<1>4. CASE SlotReleased(u) \/ Acquire(u)
  <2>1. \E pc \in {"over", "reserve"} :
           /\ user[u].pc = IF pc = "over" THEN "release" ELSE "admitted"
           /\ UserGoes(u, [user[u] EXCEPT !.pc = pc])
           /\ UNCHANGED <<sold, pending>>
    BY <1>4 DEF SlotReleased, Acquire, UserAt
  <2> QED
    BY <1>0, <2>1, PcGoes DEF SeatTold
<1>5. ASSUME NEW err \in ReserveError, ReserveServed(u, err)
      PROVE  SeatTold(user'[u], u, sold', pending')
  <2> DEFINE t == user[u]
             n == [t EXCEPT !.pc = "reply", !.err = err]
  <2>1. user'[u] = n /\ t.pc = "reserve" /\ sold' \in SoldBy(u, err) /\ UNCHANGED pending
    BY <1>0, <1>5 DEF ReserveServed, UserAt, UserGoes
  <2>2. n.pc = "reply" /\ n.err = err /\ n.counted = t.counted
    BY <1>0 DEF UserState
  <2>3. /\ err = "none" => u \in sold'
        /\ err \in {"capacity", "quota"} => sold' = sold
    BY <2>1 DEF SoldBy, ContextError
  <2>4. t.counted = "none" /\ u \notin sold /\ u \notin pending
    BY <1>0, <2>1 DEF SeatTold
  <2> HIDE DEF n, t
  <2> QED
    BY <2>1, <2>2, <2>3, <2>4 DEF SeatTold
<1>6. CASE ReserveAnswered(u)
  <2> DEFINE err == user[u].err
             c == ReserveLeadsTo(transport, err)
             truth == ReserveLeadsTo("inproc", err)
  <2>1. /\ c \in {"reserved", "rejectedCapacity", "rejectedQuota", "timedOut",
                  "cancelled", "errors"}
        /\ c = "reserved" => err = "none"
        /\ c \in {"rejectedCapacity", "rejectedQuota"} => err \in {"capacity", "quota"}
        /\ Agrees(c, truth)
    BY <1>0, ReserveLeads
  <2>2. CountedIn(u, c, truth) /\ user[u].pc = "reply" /\ UNCHANGED <<sold, pending>>
    BY <1>6 DEF ReserveAnswered, ReserveOutcome, UserAt
  <2> HIDE DEF c, truth
  <2>3. c \in Outcome
    BY <2>1, OutcomeNames
  <2>4. user'[u].counted = c /\ user'[u].pc \in {"release", "over"}
    BY <1>0, <2>1, <2>2, <2>3, CountedInCounts DEF Counts
  <2> QED
    BY <2>1, <2>2, <2>4 DEF SeatTold
<1>7. CASE CallFails(u)
  <2>1. CountedIn(u, "errors", "lost") /\ user[u].pc \in Active
    BY <1>7, RefusedCounts DEF CallFails
  <2>2. "errors" \in Outcome /\ Agrees("errors", "lost")
    BY OutcomeNames DEF Agrees
  <2> QED
    BY <1>c, <2>1, <2>2
<1>8. CASE ContextEnds(u)
  <2>1. user[u].pc \in Active
    BY <1>8 DEF ContextEnds
  <2>2. PICK err : CountedIn(u, Classify(err), Classify(err))
    BY <1>8 DEF ContextEnds
  <2> DEFINE c == Classify(err)
  <2>3. c \in {"timedOut", "cancelled", "errors"} /\ CountedIn(u, c, c)
    BY <2>2, ClassifyCounts
  <2> HIDE DEF c
  <2>4. c \in Outcome /\ Agrees(c, c)
    BY <2>3, OutcomeNames DEF Agrees
  <2> QED
    BY <1>c, <2>1, <2>3, <2>4
<1>9. CASE ServedLate(u)
  BY <1>9 DEF ServedLate, SeatTold
<1> QED
  BY <1>1, <1>2, <1>3, <1>4, <1>5, <1>6, <1>7, <1>8, <1>9 DEF UserNext

LEMMA SeatInvNext ==
    ASSUME ShapeInv, CountedInv, SeatInv, [Next]_vars
    PROVE  SeatInv'
<1>1. CASE \A u \in SimUser : ~UserNext(u)
  BY <1>1, OtherSteps DEF SeatInv, SeatTold
<1>2. ASSUME NEW u \in SimUser, UserNext(u), NEW v \in SimUser
      PROVE  SeatTold(user'[v], v, sold', pending')
  <2>1. SeatTold(user[v], v, sold, pending)
    BY DEF SeatInv
  <2>2. CASE v = u
    BY <1>2, <2>1, <2>2, OwnSeat
  <2>3. CASE v # u
    BY <1>2, <2>1, <2>3, OthersSeats DEF SeatTold
  <2> QED BY <2>2, <2>3
<1> QED
  BY <1>1, <1>2 DEF SeatInv, SeatTold

-----------------------------------------------------------------------------
(* The invariant holds of the run and its counters.                        *)

LEMMA RunInvNext ==
    ASSUME ShapeInv, RunInv, [Next]_vars
    PROVE  RunInv'
<1>1. ASSUME NEW u \in SimUser, UserNext(u) PROVE RunInv'
  <2>1. UNCHANGED <<cancelled, done>>
    BY <1>1, UserSteps
  <2>2. CASE UNCHANGED user
    BY <2>1, <2>2 DEF RunInv
  <2>3. CASE Moves(u)
    <3>1. ~done
      BY <2>3 DEF RunInv, Moves, Counts, Waits, Starts, Quiet, Active
    <3> QED BY <2>1, <3>1 DEF RunInv
  <2> QED BY <1>1, <2>2, <2>3, UserSteps
<1>2. CASE Cancel \/ CapFails \/ RunEnds
  BY <1>2 DEF Cancel, CapFails, RunEnds, AllOver, UserAt, RunInv
<1>3. CASE BeginSnapshot \/ Frame \/ CloseStream \/ UNCHANGED vars
  <2>1. UNCHANGED <<user, done, cancelled>>
    BY <1>3 DEF BeginSnapshot, Frame, LoadCounter, LoadDone, CloseStream, Reads, vars
  <2> QED BY <2>1 DEF RunInv
<1> QED
  BY <1>1, <1>2, <1>3 DEF Next

\* Sets of users are finite.
LEMMA UsersFinite ==
    ASSUME NEW S \in SUBSET SimUser
    PROVE  IsFiniteSet(S) /\ Cardinality(S) \in Nat /\ Cardinality(S) <= Total
<1>1. IsFiniteSet(S) /\ Cardinality(S) <= Cardinality(SimUser)
  BY SimUserAssumption, FS_Subset
<1> QED
  BY <1>1, FS_CardinalityType DEF Total

LEMMA OneMoreUser ==
    ASSUME NEW S \in SUBSET SimUser, NEW u \in SimUser, u \notin S
    PROVE  Cardinality(S \cup {u}) = Cardinality(S) + 1
BY UsersFinite, FS_AddElement

\* How a step of one user changes where the users are and how they are counted.
LEMMA AtStep ==
    ASSUME NEW u \in SimUser, OnlyUser(u), NEW P
    PROVE  /\ (user[u].pc \in P <=> user'[u].pc \in P) => At(P)' = At(P)
           /\ user[u].pc \in P /\ user'[u].pc \notin P
              => Cardinality(At(P)) = Cardinality(At(P)') + 1
<1>1. CASE user[u].pc \in P <=> user'[u].pc \in P
  BY <1>1 DEF At, OnlyUser
<1>2. CASE user[u].pc \in P /\ user'[u].pc \notin P
  <2>1. At(P)' \in SUBSET SimUser /\ u \notin At(P)' /\ At(P) = At(P)' \cup {u}
    BY <1>2 DEF At, OnlyUser
  <2> QED
    BY <1>2, <2>1, OneMoreUser
<1> QED
  BY <1>1, <1>2

LEMMA CountedStep ==
    ASSUME NEW u \in SimUser, OnlyUser(u), NEW C
    PROVE  /\ (user[u].counted \in C <=> user'[u].counted \in C)
              => CountedAs(C)' = CountedAs(C)
           /\ user[u].counted \notin C /\ user'[u].counted \in C
              => Cardinality(CountedAs(C)') = Cardinality(CountedAs(C)) + 1
<1>1. CASE user[u].counted \in C <=> user'[u].counted \in C
  BY <1>1 DEF CountedAs, OnlyUser
<1>2. CASE user[u].counted \notin C /\ user'[u].counted \in C
  <2>1. /\ CountedAs(C) \in SUBSET SimUser /\ u \notin CountedAs(C)
        /\ CountedAs(C)' = CountedAs(C) \cup {u}
    BY <1>2 DEF CountedAs, OnlyUser
  <2> QED
    BY <1>2, <2>1, OneMoreUser
<1> QED
  BY <1>1, <1>2

\* What a step of one user adds to each counter.
LEMMA CounterMoves ==
    ASSUME ShapeInv, NEW u \in SimUser, Moves(u)
    PROVE  LET pc == user[u].pc
               pc2 == user'[u].pc
           IN  /\ counter' \in [Counter -> Nat]
               /\ counter'["started"]
                  = counter["started"] + IF pc = "unborn" THEN 1 ELSE 0
               /\ counter'["enqueued"]
                  = counter["enqueued"]
                    + IF pc = "enqueue" /\ pc2 \in {"poll", "admitted"} THEN 1 ELSE 0
               /\ counter'["admitted"]
                  = counter["admitted"]
                    + IF pc \in {"enqueue", "poll"} /\ pc2 = "admitted" THEN 1 ELSE 0
               /\ \A c \in Outcome :
                     counter'[c] = counter[c]
                       + IF pc \in Active /\ pc2 \in {"release", "over"}
                            /\ user'[u].counted = c THEN 1 ELSE 0
<1> USE DEF Active
<1>0. counter \in [Counter -> Nat]
  BY DEF ShapeInv
<1>1. /\ "started" \in Counter /\ "enqueued" \in Counter /\ "admitted" \in Counter
      /\ Outcome \subseteq Counter
      /\ "started" \notin Outcome /\ "enqueued" \notin Outcome /\ "admitted" \notin Outcome
  BY OutcomeNames DEF Counter
<1>2. ASSUME NEW C, AddAll(C)
      PROVE  /\ counter' \in [Counter -> Nat]
             /\ \A c \in Counter : counter'[c] = counter[c] + IF c \in C THEN 1 ELSE 0
  <2>1. \A c \in Counter : counter[c] + (IF c \in C THEN 1 ELSE 0) \in Nat
    BY <1>0
  <2> QED BY <1>2, <2>1 DEF AddAll
<1>3. CASE Counts(u)
  <2> DEFINE d == user'[u].counted
  <2>1. d \in Outcome /\ AddAll({d}) /\ user[u].pc \in Active
        /\ user'[u].pc \in {"release", "over"}
    BY <1>3 DEF Counts
  <2>2. /\ counter' \in [Counter -> Nat]
        /\ \A c \in Counter : counter'[c] = counter[c] + IF c \in {d} THEN 1 ELSE 0
    <3> DEFINE D == {d}
    <3>1. AddAll(D)
      BY <2>1
    <3> QED BY <3>1, <1>2
  <2> QED
    BY <1>1, <2>1, <2>2
<1>4. CASE Waits(u)
  <2> DEFINE C == Passed(u, user'[u].pc)
  <2>1. /\ AddAll(C) /\ user[u].pc \in {"enqueue", "poll"}
        /\ user'[u].pc \in {"poll", "admitted"}
    BY <1>4 DEF Waits
  <2>2. /\ "started" \notin C
        /\ "enqueued" \in C <=> user[u].pc = "enqueue"
        /\ "admitted" \in C <=> user'[u].pc = "admitted"
        /\ \A c \in Outcome : c \notin C
    BY <1>1, <2>1 DEF Passed, UserAt
  <2> HIDE DEF C
  <2>3. /\ counter' \in [Counter -> Nat]
        /\ \A c \in Counter : counter'[c] = counter[c] + IF c \in C THEN 1 ELSE 0
    BY <1>2, <2>1
  <2> QED
    BY <1>1, <2>1, <2>2, <2>3
<1>5. CASE Starts(u)
  <2>1. /\ counter' \in [Counter -> Nat]
        /\ \A c \in Counter : counter'[c] = counter[c] + IF c \in {"started"} THEN 1 ELSE 0
    BY <1>2, <1>5 DEF Starts
  <2> QED
    BY <1>1, <1>5, <2>1 DEF Starts
<1>6. CASE Quiet(u)
  <2>1. /\ user[u].pc # "unborn" /\ user[u].pc \notin {"enqueue", "poll"}
        /\ ~(user[u].pc \in Active /\ user'[u].pc \in {"release", "over"})
        /\ UNCHANGED counter
    BY <1>6 DEF Quiet
  <2> QED
    BY <1>0, <1>1, <2>1
<1> QED
  BY <1>3, <1>4, <1>5, <1>6 DEF Moves

LEMMA CountInvMoves ==
    ASSUME ShapeInv, CountedInv, CountInv, NEW u \in SimUser, Moves(u)
    PROVE  CountInv'
<1> USE DEF Active
<1> DEFINE pc == user[u].pc
           pc2 == user'[u].pc
<1>0. /\ counter \in [Counter -> Nat] /\ Total \in Nat /\ OnlyUser(u)
      /\ \A P : Cardinality(At(P)) \in Nat /\ Cardinality(At(P)') \in Nat
      /\ "started" \in Counter /\ "enqueued" \in Counter /\ "admitted" \in Counter
  <2>1. \A P : At(P) \in SUBSET SimUser /\ At(P)' \in SUBSET SimUser
    BY DEF At
  <2>2. Total \in Nat
    BY SimUserAssumption, FS_CardinalityType DEF Total
  <2>3. \A P : Cardinality(At(P)) \in Nat /\ Cardinality(At(P)') \in Nat
    BY <2>1, UsersFinite
  <2> QED BY <2>2, <2>3 DEF ShapeInv, Moves, Counter
<1>1. /\ counter["started"] \in Nat /\ counter["enqueued"] \in Nat
      /\ counter["admitted"] \in Nat
  BY <1>0
\* pc only moves forward.
<1>2. \/ pc \in Active /\ pc2 \in {"release", "over"}
      \/ pc \in {"enqueue", "poll"} /\ pc2 \in {"poll", "admitted"}
      \/ pc = "unborn" /\ pc2 = "enqueue"
      \/ pc = "release" /\ pc2 = "over"
      \/ pc = "admitted" /\ pc2 = "reserve"
      \/ pc = "reserve" /\ pc2 = "reply"
  BY DEF Moves, Counts, Waits, Starts, Quiet
<1>3. counter'["started"] + Cardinality(At({"unborn"})') = Total
  <2> DEFINE P == {"unborn"}
  <2>1. counter'["started"] = counter["started"] + IF pc = "unborn" THEN 1 ELSE 0
    BY CounterMoves
  <2>2. counter["started"] + Cardinality(At(P)) = Total
    BY DEF CountInv
  <2>3. pc2 \notin P /\ (pc \in P <=> pc = "unborn")
    BY <1>2
  <2> HIDE DEF P
  <2>4. /\ pc = "unborn" => Cardinality(At(P)) = Cardinality(At(P)') + 1
        /\ pc # "unborn" => Cardinality(At(P)) = Cardinality(At(P)')
    BY <1>0, <2>3, AtStep
  <2>5. Cardinality(At(P)) \in Nat /\ Cardinality(At(P)') \in Nat
    BY <1>0
  <2> HIDE DEF pc, pc2
  <2>6. counter'["started"] + Cardinality(At(P)') = Total
    BY <1>0, <1>1, <2>1, <2>2, <2>4, <2>5
  <2> QED BY <2>6 DEF P
<1>4. counter'["enqueued"] + Cardinality(At({"unborn", "enqueue"})') <= Total
  <2> DEFINE P == {"unborn", "enqueue"}
             leaves == pc = "enqueue" /\ pc2 \in {"poll", "admitted"}
  <2>1. counter'["enqueued"] = counter["enqueued"] + IF leaves THEN 1 ELSE 0
    BY CounterMoves
  <2>2. counter["enqueued"] + Cardinality(At(P)) <= Total
    BY DEF CountInv
  <2>3. /\ leaves => pc \in P /\ pc2 \notin P
        /\ pc2 \in P => pc \in P
    BY <1>2
  <2> HIDE DEF P, leaves
  <2>4. /\ leaves => Cardinality(At(P)) = Cardinality(At(P)') + 1
        /\ Cardinality(At(P)) = Cardinality(At(P)')
           \/ Cardinality(At(P)) = Cardinality(At(P)') + 1
    BY <1>0, <2>3, AtStep
  <2>5. Cardinality(At(P)) \in Nat /\ Cardinality(At(P)') \in Nat
    BY <1>0
  <2>6. counter'["enqueued"] + Cardinality(At(P)') <= Total
    BY <1>0, <1>1, <2>1, <2>2, <2>4, <2>5
  <2> QED BY <2>6 DEF P
<1>5. counter'["admitted"] + Cardinality(At({"unborn", "enqueue", "poll"})') <= Total
  <2> DEFINE P == {"unborn", "enqueue", "poll"}
             leaves == pc \in {"enqueue", "poll"} /\ pc2 = "admitted"
  <2>1. counter'["admitted"] = counter["admitted"] + IF leaves THEN 1 ELSE 0
    BY CounterMoves
  <2>2. counter["admitted"] + Cardinality(At(P)) <= Total
    BY DEF CountInv
  <2>3. /\ leaves => pc \in P /\ pc2 \notin P
        /\ pc2 \in P => pc \in P
    BY <1>2
  <2> HIDE DEF P, leaves
  <2>4. /\ leaves => Cardinality(At(P)) = Cardinality(At(P)') + 1
        /\ Cardinality(At(P)) = Cardinality(At(P)')
           \/ Cardinality(At(P)) = Cardinality(At(P)') + 1
    BY <1>0, <2>3, AtStep
  <2>5. Cardinality(At(P)) \in Nat /\ Cardinality(At(P)') \in Nat
    BY <1>0
  <2>6. counter'["admitted"] + Cardinality(At(P)') <= Total
    BY <1>0, <1>1, <2>1, <2>2, <2>4, <2>5
  <2> QED BY <2>6 DEF P
<1>6. ASSUME NEW c \in Outcome PROVE counter'[c] = Cardinality(CountedAs({c})')
  <2> DEFINE C == {c}
             ends == pc \in Active /\ pc2 \in {"release", "over"} /\ user'[u].counted = c
  <2>1. counter'[c] = counter[c] + IF ends THEN 1 ELSE 0
    BY CounterMoves
  <2>2. counter[c] = Cardinality(CountedAs(C))
    BY DEF CountInv
  <2>3. /\ ends => user[u].counted \notin C /\ user'[u].counted \in C
        /\ ~ends => (user[u].counted \in C <=> user'[u].counted \in C)
    <3>1. user[u].counted # "none" <=> pc \in {"release", "over"}
      BY DEF CountedInv
    <3>2. c # "none"
      BY OutcomeNames
    <3> QED
      BY <3>1, <3>2 DEF Moves, Counts, Waits, Starts, Quiet
  <2> HIDE DEF C, ends
  <2>4. /\ ends => Cardinality(CountedAs(C)') = Cardinality(CountedAs(C)) + 1
        /\ ~ends => Cardinality(CountedAs(C)') = Cardinality(CountedAs(C))
    BY <1>0, <2>3, CountedStep
  <2>5. Cardinality(CountedAs(C)) \in Nat
    BY UsersFinite DEF CountedAs
  <2>6. counter'[c] = Cardinality(CountedAs(C)')
    BY <2>1, <2>2, <2>4, <2>5
  <2> QED BY <2>6 DEF C
<1> QED
  BY <1>3, <1>4, <1>5, <1>6 DEF CountInv

LEMMA CountInvNext ==
    ASSUME ShapeInv, CountedInv, CountInv, [Next]_vars
    PROVE  CountInv'
<1>1. CASE UNCHANGED <<user, counter>>
  <2>1. \A P : At(P)' = At(P) /\ CountedAs(P)' = CountedAs(P)
    BY <1>1 DEF At, CountedAs
  <2> QED
    BY <1>1, <2>1 DEF CountInv
<1> QED
  BY <1>1, CountInvMoves, UserSteps, OtherSteps

\* The users counted so far only become more.
LEMMA CountedGrow ==
    ASSUME ShapeInv, CountedInv, [Next]_vars, NEW C \in SUBSET Outcome
    PROVE  CountedAs(C) \subseteq CountedAs(C)'
<1>1. CASE UNCHANGED user
  BY <1>1 DEF CountedAs
<1>2. ASSUME NEW u \in SimUser, Moves(u), NEW v \in CountedAs(C)
      PROVE  v \in CountedAs(C)'
  <2>1. v \in SimUser /\ user[v].counted \in C /\ user[v].counted # "none"
    BY OutcomeNames DEF CountedAs
  <2>2. user[v].pc \in {"release", "over"}
    BY <2>1 DEF CountedInv
  <2>3. user'[v].counted = user[v].counted
    BY <1>2, <2>1, <2>2 DEF Moves, OnlyUser, Counts, Waits, Starts, Quiet, Active
  <2> QED BY <2>1, <2>3 DEF CountedAs
<1> QED
  BY <1>1, <1>2, UserSteps, OtherSteps

LEMMA FirstOutcomes ==
    /\ FirstOf(1) = {}
    /\ FirstOf(8) = Outcome
    /\ \A k \in 1 .. 8 : FirstOf(k) \subseteq Outcome
    /\ \A k \in 1 .. 7 : /\ Outcomes[k] \in Outcome
                         /\ Outcomes[k] \notin FirstOf(k)
                         /\ FirstOf(k + 1) = FirstOf(k) \cup {Outcomes[k]}
<1>1. FirstOf(1) = {} /\ FirstOf(8) = Outcome
  BY DEF FirstOf, Outcome
<1>2. \A k \in 1 .. 8 : FirstOf(k) \subseteq Outcome
  BY DEF FirstOf, Outcome
<1>3. ASSUME NEW k \in 1 .. 7
      PROVE  /\ Outcomes[k] \in Outcome
             /\ Outcomes[k] \notin FirstOf(k)
             /\ FirstOf(k + 1) = FirstOf(k) \cup {Outcomes[k]}
  <2>1. Outcomes[k] \in Outcome
    BY DEF Outcome
  <2>2. Outcomes[k] \notin FirstOf(k)
    <3>1. \A i \in 1 .. (k - 1) : i \in 1 .. 7 /\ i # k
      OBVIOUS
    <3> QED BY <3>1, OutcomesDiffer DEF FirstOf
  <2>3. FirstOf(k + 1) = FirstOf(k) \cup {Outcomes[k]}
    <3>1. \A i : i \in 1 .. (k + 1 - 1) <=> i \in 1 .. (k - 1) \/ i = k
      OBVIOUS
    <3> QED BY <3>1 DEF FirstOf
  <2> QED BY <2>1, <2>2, <2>3
<1> QED
  BY <1>1, <1>2, <1>3

\* Loading the k-th counter adds the users counted in it.
LEMMA LoadAdds ==
    ASSUME CountInv, NEW k \in 1 .. 7
    PROVE  Cardinality(CountedAs(FirstOf(k + 1)))
           = Cardinality(CountedAs(FirstOf(k))) + counter[Outcomes[k]]
<1> DEFINE A == CountedAs(FirstOf(k))
           B == CountedAs({Outcomes[k]})
<1>1. A \in SUBSET SimUser /\ B \in SUBSET SimUser
  BY DEF CountedAs
<1>2. CountedAs(FirstOf(k + 1)) = A \cup B /\ A \cap B = {}
  BY FirstOutcomes DEF CountedAs
<1>3. counter[Outcomes[k]] = Cardinality(B)
  BY FirstOutcomes DEF CountInv
<1> HIDE DEF A, B
<1>4. /\ IsFiniteSet(A) /\ IsFiniteSet(B)
      /\ Cardinality(A) \in Nat /\ Cardinality(B) \in Nat
  BY <1>1, UsersFinite
<1>5. Cardinality(A \cup B) = Cardinality(A) + Cardinality(B) - Cardinality(A \cap B)
  BY <1>4, FS_Union
<1>6. Cardinality(A \cap B) = 0
  BY <1>2, FS_EmptySet
<1>7. Cardinality(A \cup B) = Cardinality(A) + Cardinality(B)
  BY <1>4, <1>5, <1>6
<1>8. Cardinality(CountedAs(FirstOf(k + 1))) = Cardinality(A) + counter[Outcomes[k]]
  BY <1>2, <1>3, <1>7, Zenon
<1> QED
  BY <1>8, Zenon DEF A

\* Any set of users counted has a size, before and after a step.
LEMMA CountedSize ==
    ASSUME NEW C
    PROVE  /\ IsFiniteSet(CountedAs(C)) /\ IsFiniteSet(CountedAs(C)')
           /\ Cardinality(CountedAs(C)) \in Nat /\ Cardinality(CountedAs(C)') \in Nat
           /\ Cardinality(CountedAs(C)) <= Total
<1>1. CountedAs(C) \in SUBSET SimUser /\ CountedAs(C)' \in SUBSET SimUser
  BY DEF CountedAs
<1> QED
  BY <1>1, UsersFinite

LEMMA LoadIsNat ==
    ASSUME CountInv, NEW k \in 1 .. 7
    PROVE  counter[Outcomes[k]] \in Nat
<1>1. PICK c \in Outcome : c = Outcomes[k]
  BY FirstOutcomes
<1>2. counter[c] = Cardinality(CountedAs({c}))
  BY DEF CountInv
<1>3. Cardinality(CountedAs({c})) \in Nat
  BY CountedSize
<1> QED
  BY <1>1, <1>2, <1>3

LEMMA StreamFields ==
    ASSUME ShapeInv
    PROVE  /\ stream.pc \in {"closed", "wait", "load", "sent"} /\ stream.at \in 1 .. 8
           /\ stream.sum \in Nat /\ stream.settled \in BOOLEAN
BY DEF ShapeInv

\* The reader stands still: those already loaded can only become more, and not
\* even that once the run is done.
LEMMA StreamRests ==
    ASSUME ShapeInv, CountedInv, RunInv, StreamInv, [Next]_vars, UNCHANGED stream
    PROVE  StreamInv'
<1>1. PICK k \in 1 .. 8 : k = stream.at
  BY StreamFields
<1> DEFINE n == Cardinality(CountedAs(FirstOf(k)))
           m == Cardinality(CountedAs(FirstOf(k))')
<1>2. n \in Nat /\ m \in Nat /\ n <= m
  <2>1. CountedAs(FirstOf(k)) \subseteq CountedAs(FirstOf(k))'
    BY FirstOutcomes, CountedGrow
  <2> QED BY <2>1, CountedSize, FS_Subset
<1>3. stream.sum <= n /\ (stream.settled => done /\ stream.sum = n)
  BY <1>1 DEF StreamInv
<1>4. done => done' /\ n = m
  <2>1. ASSUME done, NEW u \in SimUser PROVE ~Moves(u)
    BY <2>1 DEF RunInv, Moves, Counts, Waits, Starts, Quiet, Active
  <2>2. done => UNCHANGED user
    BY <2>1, UserSteps, OtherSteps
  <2>3. UNCHANGED user => CountedAs(FirstOf(k))' = CountedAs(FirstOf(k))
    BY DEF CountedAs
  <2>4. done => done'
    BY UserSteps DEF Next, Cancel, CapFails, RunEnds, BeginSnapshot, Frame, LoadCounter,
                     LoadDone, CloseStream, Reads, vars
  <2> QED BY <2>2, <2>3, <2>4
<1> HIDE DEF n, m
<1>5. stream.sum <= m /\ (stream.settled => done' /\ stream.sum = m)
  BY <1>2, <1>3, <1>4, StreamFields
<1>6. stream' = stream /\ stream'.at = k
  BY <1>1
<1> QED
  BY <1>5, <1>6 DEF StreamInv, m

LEMMA StreamInvNext ==
    ASSUME ShapeInv, CountedInv, RunInv, CountInv, StreamInv, [Next]_vars
    PROVE  StreamInv'
<1>1. CASE UNCHANGED stream
  BY <1>1, StreamRests
<1>2. ASSUME stream'.at = 1, stream'.sum = 0, stream'.settled => done'
      PROVE  StreamInv'
  <2>1. CountedAs(FirstOf(1))' = {}
    BY FirstOutcomes DEF CountedAs
  <2>2. Cardinality(CountedAs(FirstOf(1))') = 0
    BY <2>1, FS_EmptySet
  <2> QED BY <1>2, <2>2 DEF StreamInv
<1>3. CASE BeginSnapshot
  <2>1. stream' = [Closed EXCEPT !.pc = "load", !.settled = done] /\ UNCHANGED done
    BY <1>3 DEF BeginSnapshot, Reads
  <2> QED BY <1>2, <2>1 DEF Closed
<1>4. CASE CloseStream
  BY <1>2, <1>4 DEF CloseStream, Reads, Closed
<1>5. CASE UNCHANGED <<user, done>> /\ stream'.at = stream.at /\ stream'.sum = stream.sum
           /\ stream'.settled = stream.settled
  <2>1. PICK k \in 1 .. 8 : k = stream.at
    BY StreamFields
  <2>2. CountedAs(FirstOf(k))' = CountedAs(FirstOf(k))
    BY <1>5 DEF CountedAs
  <2> QED BY <1>5, <2>1, <2>2 DEF StreamInv
<1>6. CASE LoadDone
  <2>1. stream' = AfterFrame /\ UNCHANGED <<user, done>>
    BY <1>6 DEF LoadDone, Reads
  <2>2. stream'.at = stream.at /\ stream'.sum = stream.sum /\ stream'.settled = stream.settled
    BY <2>1 DEF AfterFrame, ShapeInv
  <2> QED BY <1>5, <2>1, <2>2
<1>7. CASE LoadCounter
  <2>1. PICK k \in 1 .. 7 : k = stream.at
    BY <1>7, StreamFields DEF LoadCounter
  <2>2. /\ stream' = [stream EXCEPT !.at = k + 1, !.sum = stream.sum + counter[Outcomes[k]]]
        /\ UNCHANGED <<user, done>>
    BY <1>7, <2>1 DEF LoadCounter, Reads
  <2>3. /\ stream'.at = k + 1 /\ stream'.settled = stream.settled
        /\ stream'.sum = stream.sum + counter[Outcomes[k]]
    BY <2>2 DEF ShapeInv
  <2> DEFINE n == Cardinality(CountedAs(FirstOf(k)))
             m == Cardinality(CountedAs(FirstOf(k + 1)))
             load == counter[Outcomes[k]]
  <2>4. stream.sum <= n /\ (stream.settled => done /\ stream.sum = n)
    BY <2>1 DEF StreamInv
  <2>5. m = n + load
    BY LoadAdds
  <2>6. n \in Nat /\ load \in Nat
    BY CountedSize, LoadIsNat
  <2>7. Cardinality(CountedAs(FirstOf(k + 1))') = m
    <3>1. CountedAs(FirstOf(k + 1))' = CountedAs(FirstOf(k + 1))
      BY <2>2 DEF CountedAs
    <3> QED BY <3>1
  <2> HIDE DEF n, m, load
  <2>8. stream.sum + load <= m /\ (stream.settled => done /\ stream.sum + load = m)
    BY <2>4, <2>5, <2>6, StreamFields
  <2>9. stream'.sum = stream.sum + load
    BY <2>3 DEF load
  <2> QED BY <2>2, <2>3, <2>7, <2>8, <2>9 DEF StreamInv
<1> QED
  BY <1>1, <1>3, <1>4, <1>6, <1>7, UserSteps
  DEF Next, Cancel, CapFails, RunEnds, Frame, vars

-----------------------------------------------------------------------------
(* The types, and the invariant.                                           *)

LEMMA ShapeInvNext ==
    ASSUME ShapeInv, CountInv, [Next]_vars
    PROVE  ShapeInv'
<1>1. ASSUME NEW u \in SimUser, UserNext(u) PROVE ShapeInv'
  <2>1. UNCHANGED <<transport, cancelled, done, stream>>
    BY <1>1, UserSteps
  <2>2. user' \in [SimUser -> UserState] /\ counter' \in [Counter -> Nat]
    <3>1. CASE UNCHANGED <<user, counter>>
      BY <3>1 DEF ShapeInv
    <3>2. CASE Moves(u)
      BY <3>2, CounterMoves DEF Moves, OnlyUser
    <3> QED BY <1>1, <3>1, <3>2, UserSteps
  <2>3. sold' \in SUBSET SimUser /\ pending' \in SUBSET SimUser
    <3>1. sold \in SUBSET SimUser /\ pending \in SUBSET SimUser
      BY DEF ShapeInv
    <3>2. CASE \E err \in ReserveError \ {"keyReused"} : ReserveServed(u, err)
      BY <3>1, <3>2 DEF ReserveServed, SoldBy
    <3>3. CASE ServedLate(u)
      BY <3>1, <3>3 DEF ServedLate
    <3>4. CASE CallFails(u) \/ ContextEnds(u)
      BY <3>1, <3>4 DEF CallFails, ContextEnds, LeftBehind
    <3>5. CASE UNCHANGED <<sold, pending>>
      BY <3>1, <3>5
    <3> QED
      BY <1>1, <3>2, <3>3, <3>4, <3>5
      DEF UserNext, Launch, EnqueueAnswered, PollAnswered, SlotReleased, Acquire,
          ReserveAnswered
  <2> QED BY <2>1, <2>2, <2>3 DEF ShapeInv
<1>2. CASE Cancel \/ CapFails \/ RunEnds \/ UNCHANGED vars
  BY <1>2 DEF Cancel, CapFails, RunEnds, vars, ShapeInv
<1>3. ASSUME UNCHANGED <<transport, cancelled, user, counter, done, sold, pending>>,
             stream' \in [pc : {"closed", "wait", "load", "sent"}, at : 1 .. 8,
                          sum : Nat, settled : BOOLEAN]
      PROVE  ShapeInv'
  BY <1>3 DEF ShapeInv
<1>4. CASE BeginSnapshot
  <2>1. stream' = [Closed EXCEPT !.pc = "load", !.settled = done]
    BY <1>4 DEF BeginSnapshot, Reads
  <2>2. stream' = [pc |-> "load", at |-> 1, sum |-> 0, settled |-> done]
    BY <2>1 DEF Closed
  <2>3. done \in BOOLEAN
    BY DEF ShapeInv
  <2> QED BY <1>3, <1>4, <2>2, <2>3 DEF BeginSnapshot, Reads
<1>5. CASE CloseStream
  BY <1>3, <1>5 DEF CloseStream, Reads, Closed
<1>6. CASE LoadDone
  <2>1. stream' = AfterFrame
    BY <1>6 DEF LoadDone, Reads
  <2> QED BY <1>3, <1>6, <2>1 DEF LoadDone, Reads, AfterFrame, ShapeInv
<1>7. CASE LoadCounter
  <2>1. PICK k \in 1 .. 7 : k = stream.at
    BY <1>7, StreamFields DEF LoadCounter
  <2> DEFINE load == counter[Outcomes[k]]
             s == stream.sum + load
  <2>2. stream' = [stream EXCEPT !.at = k + 1, !.sum = s]
    BY <1>7, <2>1 DEF LoadCounter, Reads
  <2>3. load \in Nat
    BY LoadIsNat
  <2> HIDE DEF load
  <2>4. s \in Nat /\ k + 1 \in 1 .. 8
    BY <2>3, StreamFields
  <2> HIDE DEF s
  <2>5. stream' \in [pc : {"closed", "wait", "load", "sent"}, at : 1 .. 8,
                     sum : Nat, settled : BOOLEAN]
    BY <2>2, <2>4 DEF ShapeInv
  <2> QED BY <1>3, <1>7, <2>5 DEF LoadCounter, Reads
<1> QED
  BY <1>1, <1>2, <1>4, <1>5, <1>6, <1>7 DEF Next, Frame

IInv == ShapeInv /\ SameBreakdown /\ CountedInv /\ SeatInv /\ RunInv /\ CountInv /\ StreamInv

LEMMA IInvInit ==
    ASSUME Init
    PROVE  IInv
<1>1. \A u \in SimUser : user[u] = Unborn
  BY DEF Init
<1>2. Unborn.pc = "unborn" /\ Unborn.counted = "none" /\ Unborn.truth = "none"
      /\ Unborn.err = "none"
  BY DEF Unborn
<1>3. Unborn \in UserState
  BY DEF Unborn, UserState, ReserveError
<1>4. stream.at = 1 /\ stream.sum = 0 /\ stream.settled = FALSE /\ stream.pc = "closed"
  BY DEF Init, Closed
<1>5. ShapeInv
  <2>1. user \in [SimUser -> UserState]
    BY <1>3 DEF Init
  <2>2. counter \in [Counter -> Nat]
    BY DEF Init
  <2>3. stream \in [pc : {"closed", "wait", "load", "sent"}, at : 1 .. 8,
                    sum : Nat, settled : BOOLEAN]
    BY DEF Init, Closed
  <2> QED BY <2>1, <2>2, <2>3 DEF Init, ShapeInv
<1>6. SameBreakdown /\ CountedInv
  BY <1>1, <1>2 DEF SameBreakdown, CountedInv
<1>7. SeatInv /\ RunInv
  <2>1. sold = {} /\ pending = {} /\ done = FALSE
    BY DEF Init
  <2> QED BY <1>1, <1>2, <2>1 DEF SeatInv, SeatTold, RunInv
<1>8. \A C \in SUBSET Outcome : CountedAs(C) = {}
  <2>1. "none" \notin Outcome
    BY OutcomeNames
  <2> QED BY <1>1, <1>2, <2>1 DEF CountedAs
<1>9. CountInv
  <2>1. ASSUME NEW P, "unborn" \in P PROVE Cardinality(At(P)) = Total
    <3>1. At(P) = SimUser
      BY <1>1, <1>2, <2>1 DEF At
    <3> QED BY <3>1 DEF Total
  <2>2. Total \in Nat
    BY SimUserAssumption, FS_CardinalityType DEF Total
  <2>3. \A c \in Counter : counter[c] = 0
    BY DEF Init
  <2>4. /\ "started" \in Counter /\ "enqueued" \in Counter /\ "admitted" \in Counter
        /\ Outcome \subseteq Counter
    BY DEF Counter
  <2>5. \A c \in Outcome : counter[c] = Cardinality(CountedAs({c}))
    <3> SUFFICES ASSUME NEW c \in Outcome PROVE counter[c] = Cardinality(CountedAs({c}))
      OBVIOUS
    <3>1. CountedAs({c}) = {}
      BY <1>8
    <3> QED BY <2>3, <2>4, <3>1, FS_EmptySet
  <2>6. /\ Cardinality(At({"unborn"})) = Total
        /\ Cardinality(At({"unborn", "enqueue"})) = Total
        /\ Cardinality(At({"unborn", "enqueue", "poll"})) = Total
    BY <2>1
  <2> QED BY <2>2, <2>3, <2>4, <2>5, <2>6 DEF CountInv
<1>10. StreamInv
  <2>1. Cardinality(CountedAs(FirstOf(1))) = 0
    BY <1>8, FirstOutcomes, FS_EmptySet
  <2> QED BY <1>4, <2>1 DEF StreamInv
<1> QED
  BY <1>5, <1>6, <1>7, <1>9, <1>10 DEF IInv

LEMMA Invariance == Spec => []IInv
<1>1. Init => IInv
  BY IInvInit
<1>2. IInv /\ [Next]_vars => IInv'
  BY ShapeInvNext, SameBreakdownNext, CountedInvNext, SeatInvNext, RunInvNext,
     CountInvNext, StreamInvNext DEF IInv
<1> QED
  BY <1>1, <1>2, PTL DEF Spec

-----------------------------------------------------------------------------
(* The theorems.                                                           *)

\* No counter, and no sum of a snapshot, ever exceeds the users of the run: the
\* atomic adds of runUser count nobody twice, whichever order they come in.
THEOREM TypeCorrect == Spec => []TypeOK
<1>1. IInv => TypeOK
  <2> SUFFICES ASSUME IInv PROVE TypeOK
    OBVIOUS
  <2>0. ShapeInv /\ CountInv /\ StreamInv
    BY DEF IInv
  <2>1. Total \in Nat
    BY SimUserAssumption, FS_CardinalityType DEF Total
  <2>2. \A P : Cardinality(At(P)) \in Nat
    <3>1. \A P : At(P) \in SUBSET SimUser
      BY DEF At
    <3> QED BY <3>1, UsersFinite
  <2>3. counter \in [Counter -> Nat] /\ \A c \in Counter : counter[c] \in Nat
    BY <2>0 DEF ShapeInv
  <2>4. ASSUME NEW c \in Counter PROVE counter[c] <= Total
    <3>1. CASE c \in Outcome
      BY <2>0, <3>1, CountedSize DEF CountInv
    <3>2. CASE c \in {"started", "enqueued", "admitted"}
      <4> DEFINE a == Cardinality(At({"unborn"}))
                 b == Cardinality(At({"unborn", "enqueue"}))
                 d == Cardinality(At({"unborn", "enqueue", "poll"}))
      <4>1. a \in Nat /\ b \in Nat /\ d \in Nat
        BY <2>2
      <4>2. /\ counter["started"] + a = Total /\ counter["enqueued"] + b <= Total
            /\ counter["admitted"] + d <= Total
        BY <2>0 DEF CountInv
      <4>3. counter[c] \in Nat
        BY <2>3
      <4> HIDE DEF a, b, d
      <4> QED BY <2>1, <3>2, <4>1, <4>2, <4>3
    <3> QED BY <3>1, <3>2 DEF Counter
  <2>5. counter \in [Counter -> 0 .. Total]
    BY <2>1, <2>3, <2>4
  <2>6. stream.sum <= Total
    <3>1. PICK n \in Nat : n = Cardinality(CountedAs(FirstOf(stream.at)))
      BY CountedSize
    <3>2. n <= Total
      BY <3>1, CountedSize
    <3>3. stream.sum <= n
      BY <2>0, <3>1 DEF StreamInv
    <3> QED BY <2>0, <2>1, <3>2, <3>3, StreamFields
  <2>7. stream \in StreamState
    <3> DEFINE bound == Total
    <3>1. stream.sum \in 0 .. bound
      BY <2>0, <2>1, <2>6, StreamFields
    <3> HIDE DEF bound
    <3>2. stream \in [pc : {"closed", "wait", "load", "sent"}, at : 1 .. 8,
                      sum : 0 .. bound, settled : BOOLEAN]
      BY <2>0, <3>1 DEF ShapeInv
    <3> QED BY <3>2 DEF StreamState, bound
  <2> QED BY <2>0, <2>5, <2>7 DEF ShapeInv, TypeOK
<1> QED
  BY <1>1, Invariance, PTL

\* Over HTTP as in process a user ends in the counter of what the service
\* answered, but for the calls nobody answered and the context errors of the
\* service, which the HTTP client counts as errors.
THEOREM TransportsCountAlike == Spec => []SameBreakdown
<1>1. IInv => SameBreakdown
  BY DEF IInv
<1> QED
  BY <1>1, Invariance, PTL

\* A user counted as reserved holds a seat, one counted as rejected or reaped
\* holds none and has no reserve at the server that could still get it one.
THEOREM CountersAreHonest == Spec => []CountersTellSales
<1>1. IInv => CountersTellSales
  BY DEF IInv, SeatInv, SeatTold, CountersTellSales
<1> QED
  BY <1>1, Invariance, PTL

\* A snapshot whose first counter was loaded after the run was done adds up,
\* loaded counter by counter as it is, for any number of users.
THEOREM FinalSnapshotAddsUp == Spec => []SettledSnapshotAddsUp
<1>1. IInv => SettledSnapshotAddsUp
  <2> SUFFICES ASSUME IInv, stream.at = 8, stream.settled
               PROVE  /\ stream.sum = counter["started"]
                      /\ stream.sum = Total \/ cancelled \/ stream.sum = 0
    BY DEF SettledSnapshotAddsUp
  <2>0. ShapeInv /\ CountedInv /\ RunInv /\ CountInv /\ StreamInv
    BY DEF IInv
  <2> DEFINE left == At({"unborn"})
             over == CountedAs(Outcome)
  <2>1. done /\ stream.sum = Cardinality(over)
    BY <2>0, FirstOutcomes DEF StreamInv
  <2>2. /\ \A u \in SimUser : user[u].pc \in {"over", "unborn"}
        /\ \/ \A u \in SimUser : user[u].pc = "over"
           \/ cancelled
           \/ \A u \in SimUser : user[u].pc = "unborn"
    BY <2>0, <2>1 DEF RunInv
  <2>3. \A u \in SimUser : user[u].counted \in Outcome <=> user[u].pc = "over"
    <3>1. \A u \in SimUser : user[u].counted \in Outcome \cup {"none"}
      BY <2>0 DEF ShapeInv, UserState
    <3>2. "none" \notin Outcome
      BY OutcomeNames
    <3> QED BY <2>0, <2>2, <3>1, <3>2 DEF CountedInv
  <2>4. left \cup over = SimUser /\ left \cap over = {}
    BY <2>2, <2>3 DEF At, CountedAs
  <2>5. left \in SUBSET SimUser /\ over \in SUBSET SimUser
    BY DEF At, CountedAs
  <2>6. counter["started"] + Cardinality(left) = Total
    BY <2>0 DEF CountInv
  <2>7. /\ (\A u \in SimUser : user[u].pc = "over") => left = {}
        /\ (\A u \in SimUser : user[u].pc = "unborn") => over = {}
    BY <2>3 DEF At, CountedAs
  <2>8. counter["started"] \in Nat
    BY <2>0 DEF ShapeInv, Counter
  <2> HIDE DEF left, over
  <2>9. /\ IsFiniteSet(left) /\ IsFiniteSet(over)
        /\ Cardinality(left) \in Nat /\ Cardinality(over) \in Nat
    BY <2>5, UsersFinite
  <2>10. Cardinality(left \cup over)
           = Cardinality(left) + Cardinality(over) - Cardinality(left \cap over)
    BY <2>9, FS_Union
  <2>11. Cardinality({}) = 0
    BY FS_EmptySet
  <2>12. Total = Cardinality(left) + Cardinality(over)
    <3>1. Total = Cardinality(left \cup over) /\ Cardinality(left \cap over) = 0
      BY <2>4, <2>11 DEF Total
    <3> QED BY <2>9, <2>10, <3>1
  <2>13. Cardinality(over) = counter["started"]
    BY <2>6, <2>8, <2>9, <2>12
  <2>14. left = {} => Cardinality(over) = Total
    BY <2>9, <2>11, <2>12
  <2> QED
    BY <2>1, <2>2, <2>7, <2>11, <2>13, <2>14
<1> QED
  BY <1>1, Invariance, PTL
=============================================================================
