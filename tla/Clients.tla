------------------------------ MODULE Clients -------------------------------
(***************************************************************************)
(* How the answer of a service method becomes the counter of a load test:  *)
(* directly with the in-process client; with the HTTP client through the   *)
(* handler's choice of a status code, the response and the translation     *)
(* back.  Operators only: LoadTest is the run that uses them.              *)
(*                                                                         *)
(* An error is named by the sentinel errors.Is finds in it, "none" is nil  *)
(* and "http" an httpError with none in it.  A response is its status code *)
(* and what its body says.                                                 *)
(***************************************************************************)
EXTENDS Naturals

Transport == {"inproc", "http"}

\* The counters a user ends in, in the order Snapshot loads them.
Outcomes == <<"reserved", "rejectedCapacity", "rejectedQuota", "timedOut",
              "cancelled", "reaped", "errors">>
Outcome == {Outcomes[i] : i \in 1 .. 7}

ContextError == {"deadline", "cancelled"}
EnqueueError == {"none", "exists", "internal"} \cup ContextError
PingError == {"none", "internal"} \cup ContextError
ReserveError == {"none", "capacity", "quota", "notFound", "notAdmitted", "keyReused",
                 "internal"} \cup ContextError

\* Ping's answer: time left of the slot, in half seconds; alive; sold out.  Who
\* has a slot is alive.
TTL == 0 .. 2
QueueStatus == {st \in [ttl : TTL, alive : BOOLEAN, soldOut : BOOLEAN] :
                   st.ttl > 0 => st.alive}
NoStatus == [ttl |-> 0, alive |-> FALSE, soldOut |-> FALSE]

Response(status, body) == [status |-> status, body |-> body]

-----------------------------------------------------------------------------
(* The handlers.                                                           *)

\* RequireAuth refuses: no or a bad token, or GetUser failed for any reason.
Unauthorized == Response(401, "")

EnqueueResponse(ttl, err) ==
    CASE err = "none"   -> Response(201, IF ttl > 0 THEN "whitelisted" ELSE "in queue")
      [] err = "exists" -> Response(409, err)
      [] OTHER          -> Response(400, err)

PingResponse(st, err) ==
    IF err # "none" THEN Response(400, err)
    ELSE IF ~st.alive THEN Response(404, "queue does not exist")
    ELSE Response(200, [admitted |-> st.ttl > 0, ttlSeconds |-> st.ttl \div 2,
                        soldOut |-> st.soldOut])

ReserveResponse(err) ==
    CASE err = "none"                  -> Response(200, "reservation")
      [] err \in {"capacity", "quota"} -> Response(409, err)
      [] err = "notFound"              -> Response(404, "event not found")
      [] err = "notAdmitted"           -> Response(400, "not currently whitelisted")
      [] err = "keyReused"             -> Response(403, err)
      [] err = "cancelled"             -> Response(400, err)
      [] err = "deadline"              -> Response(504, err)
      [] OTHER                         -> Response(500, err)

-----------------------------------------------------------------------------
(* The HTTP client.                                                        *)

\* do: a status of 400 or more is an httpError.
Failed(response) == response.status >= 400

\* Enqueue reports a state, Poll whole seconds, and a slot in its last second
\* as one of a second; of both the engine only looks at the sign.
EnqueueTTL(response) == IF response.body = "whitelisted" THEN 2 ELSE 0

\* 404 is the answer that the client is gone, not an error.
PollStatus(response) ==
    IF response.status = 404 THEN NoStatus
    ELSE LET out == response.body
             seconds == IF out.admitted /\ out.ttlSeconds = 0 THEN 1 ELSE out.ttlSeconds
         IN  [ttl |-> 2 * seconds, alive |-> TRUE, soldOut |-> out.soldOut]

MutantTranslateCapacityOnly(response) ==
    IF ~Failed(response) THEN "none"
    ELSE IF response.status = 409 THEN "capacity" ELSE "http"
\* Reserve and translateReserveError.
Translated(response) ==
    IF ~Failed(response) THEN "none"
    ELSE IF response.status = 409 /\ response.body \in {"capacity", "quota"}
    THEN response.body
    ELSE "http"

-----------------------------------------------------------------------------
(* The engine.                                                             *)

Classify(err) ==
    CASE err = "deadline"  -> "timedOut"
      [] err = "cancelled" -> "cancelled"
      [] OTHER             -> "errors"

\* Where runUser goes from Enqueue, and waitForAdmission from a poll: to the
\* reserve, to the (next) poll, or to a counter.
AfterEnqueue(ttl, err) ==
    IF err # "none" THEN Classify(err) ELSE IF ttl > 0 THEN "admitted" ELSE "poll"

AfterPoll(st, err) ==
    IF err # "none" THEN Classify(err)
    ELSE IF st.ttl > 0 THEN "admitted"
    ELSE IF ~st.alive THEN "reaped"
    ELSE IF st.soldOut THEN "rejectedCapacity"
    ELSE "poll"

AfterReserve(err) ==
    CASE err = "none"     -> "reserved"
      [] err = "capacity" -> "rejectedCapacity"
      [] err = "quota"    -> "rejectedQuota"
      [] OTHER            -> Classify(err)

-----------------------------------------------------------------------------
(* The three calls over a transport, from the service's result on.         *)

EnqueueLeadsTo(transport, ttl, err) ==
    LET response == EnqueueResponse(ttl, err) IN
    IF transport = "inproc" THEN AfterEnqueue(ttl, err)
    ELSE IF Failed(response) THEN AfterEnqueue(0, "http")
    ELSE AfterEnqueue(EnqueueTTL(response), "none")

PollLeadsTo(transport, st, err) ==
    LET response == PingResponse(st, err) IN
    IF transport = "inproc" THEN AfterPoll(st, err)
    ELSE IF Failed(response) /\ response.status # 404 THEN AfterPoll(NoStatus, "http")
    ELSE AfterPoll(PollStatus(response), "none")

ReserveLeadsTo(transport, err) ==
    AfterReserve(IF transport = "inproc" THEN err ELSE Translated(ReserveResponse(err)))

\* Where a call leads that reaches no service: RequireAuth refuses it, or the
\* connection breaks.
RefusedLeadsTo == Classify(Translated(Unauthorized))
=============================================================================
