------------------------------ MODULE LoadTest ------------------------------
(***************************************************************************)
(* One run of the simulator as its counters tell it: the users' calls over *)
(* either transport, what the services answer and sell, the answers that   *)
(* come too late or not at all, and a reader of /admin/simulate/{runId} or *)
(* its stream, who loads the counters one by one while the users go on.    *)
(*                                                                         *)
(* Simulation models how runs start, overlap and end; VirtualQueue and     *)
(* Reservations what the calls do.  Here a call has any result a service   *)
(* may give it.                                                            *)
(***************************************************************************)
EXTENDS Clients, FiniteSets

CONSTANTS
    SimUser,    \* cfg.UserIds
    Workers     \* cfg.Workers, the size of the reserve semaphore

ASSUME SimUserAssumption == IsFiniteSet(SimUser)
ASSUME WorkersAssumption == Workers \in Nat \ {0}

VARIABLES
    transport,  \* cfg.Transport
    cancelled,  \* the context of the run was cancelled
    user,       \* the runUser goroutines
    counter,    \* Runner.started, enqueued, admitted and the seven outcomes
    done,       \* Runner.done
    sold,       \* the users with a reservation in the table
    pending,    \* the users whose reserve is served after they gave up
    stream      \* the reader

vars == <<transport, cancelled, user, counter, done, sold, pending, stream>>

-----------------------------------------------------------------------------
(* Types.                                                                  *)

Counter == {"started", "enqueued", "admitted"} \cup Outcome
Total == Cardinality(SimUser)

\* truth: history, the counter the user would end in if its last call had been
\* an in-process one; "lost" if no service answered it.  counted: history, the
\* counter it did end in.
UserState == [pc : {"unborn", "enqueue", "poll", "admitted", "reserve", "reply",
                    "release", "over"},
              err : ReserveError,
              truth : Outcome \cup {"none", "lost"},
              counted : Outcome \cup {"none"}]
Unborn == [pc |-> "unborn", err |-> "none", truth |-> "none", counted |-> "none"]

\* at: the next counter to load; sum: of the outcome counters loaded so far;
\* settled: history, the run was done when the first one was loaded.
StreamState == [pc : {"closed", "wait", "load", "sent"}, at : 1 .. 8,
                sum : 0 .. Total, settled : BOOLEAN]
Closed == [pc |-> "closed", at |-> 1, sum |-> 0, settled |-> FALSE]

TypeOK ==
    /\ transport \in Transport
    /\ cancelled \in BOOLEAN
    /\ user \in [SimUser -> UserState]
    /\ counter \in [Counter -> 0 .. Total]
    /\ done \in BOOLEAN
    /\ sold \in SUBSET SimUser
    /\ pending \in SUBSET SimUser
    /\ stream \in StreamState

-----------------------------------------------------------------------------
(* The users.                                                              *)

UserAt(u, pc) == user[u].pc = pc
UserGoes(u, s) == user' = [user EXCEPT ![u] = s]

AddAll(C) == counter' = [c \in Counter |-> counter[c] + IF c \in C THEN 1 ELSE 0]

\* User u is counted in c; a user that stops polling because the event is sold
\* out is counted before it gives its place up.
CountedIn(u, c, truth) ==
    /\ UserGoes(u, [user[u] EXCEPT !.pc = IF UserAt(u, "poll") /\ c = "rejectedCapacity"
                                          THEN "release" ELSE "over",
                                   !.err = "none", !.truth = truth, !.counted = c])
    /\ AddAll({c})

MutantCountPolls(u, way) == {"enqueued"} \cup ({"admitted"} \cap {way})
\* The stages user u passes on its way.
Passed(u, way) ==
    (IF UserAt(u, "enqueue") THEN {"enqueued"} ELSE {}) \cup ({"admitted"} \cap {way})

\* User u goes on, or is counted, as the call's way over the transport leads.
Led(u, way, truth) ==
    IF way \in Outcome THEN CountedIn(u, way, truth)
    ELSE UserGoes(u, [user[u] EXCEPT !.pc = way]) /\ AddAll(Passed(u, way))

Launch(u) ==
    /\ UserAt(u, "unborn")
    /\ ~cancelled /\ ~done
    /\ UserGoes(u, [Unborn EXCEPT !.pc = "enqueue"])
    /\ AddAll({"started"})
    /\ UNCHANGED <<transport, cancelled, done, sold, pending, stream>>

EnqueueAnswered(u, ttl, err) ==
    /\ UserAt(u, "enqueue")
    /\ Led(u, EnqueueLeadsTo(transport, ttl, err), EnqueueLeadsTo("inproc", ttl, err))
    /\ UNCHANGED <<transport, cancelled, done, sold, pending, stream>>

PollAnswered(u, st, err) ==
    /\ UserAt(u, "poll")
    /\ Led(u, PollLeadsTo(transport, st, err), PollLeadsTo("inproc", st, err))
    /\ UNCHANGED <<transport, cancelled, done, sold, pending, stream>>

\* The result of ReleaseSlot is only logged.
SlotReleased(u) ==
    /\ UserAt(u, "release")
    /\ UserGoes(u, [user[u] EXCEPT !.pc = "over"])
    /\ UNCHANGED <<transport, cancelled, counter, done, sold, pending, stream>>

Acquire(u) ==
    /\ UserAt(u, "admitted")
    /\ Cardinality({v \in SimUser : UserAt(v, "reserve") \/ UserAt(v, "reply")}) < Workers
    /\ UserGoes(u, [user[u] EXCEPT !.pc = "reserve"])
    /\ UNCHANGED <<transport, cancelled, counter, done, sold, pending, stream>>

\* The reserve of user u as the store leaves it: a commit whose answer is lost
\* sells the seat and returns an error.
SoldBy(u, err) ==
    CASE err = "none"                               -> {sold \cup {u}}
      [] err \in {"internal"} \cup ContextError     -> {sold, sold \cup {u}}
      [] OTHER                                      -> {sold}

ReserveServed(u, err) ==
    /\ UserAt(u, "reserve")
    /\ sold' \in SoldBy(u, err)
    /\ UserGoes(u, [user[u] EXCEPT !.pc = "reply", !.err = err])
    /\ UNCHANGED <<transport, cancelled, counter, done, pending, stream>>

\* A reserve its user no longer waits for: Postgres may commit it all the same.
ServedLate(u) ==
    /\ u \in pending
    /\ pending' = pending \ {u}
    /\ sold' \in {sold, sold \cup {u}}
    /\ UNCHANGED <<transport, cancelled, user, counter, done, stream>>

MutantNoAnswerIsCapacity(u, err) ==
    IF err \in ContextError THEN "rejectedCapacity" ELSE ReserveLeadsTo(transport, err)
\* The counter the answer of a reserve leads to.
ReserveOutcome(u, err) == ReserveLeadsTo(transport, err)

ReserveAnswered(u) ==
    LET err == user[u].err IN
    /\ UserAt(u, "reply")
    /\ CountedIn(u, ReserveOutcome(u, err), ReserveLeadsTo("inproc", err))
    /\ UNCHANGED <<transport, cancelled, done, sold, pending, stream>>

\* What user u leaves behind when it gives up: a reserve at the server.
LeftBehind(u) == IF UserAt(u, "reserve") THEN pending \cup {u} ELSE pending

\* No service answers the call.
CallFails(u) ==
    /\ transport = "http"
    /\ user[u].pc \in {"enqueue", "poll", "reserve", "reply"}
    /\ CountedIn(u, RefusedLeadsTo, "lost")
    /\ pending' = LeftBehind(u)
    /\ UNCHANGED <<transport, cancelled, done, sold, stream>>

\* UserTimeout, or the cancellation of the run, wherever a user waits.
ContextEnds(u) ==
    /\ user[u].pc \in {"enqueue", "poll", "admitted", "reserve", "reply"}
    /\ \E err \in IF cancelled THEN ContextError ELSE {"deadline"} :
          CountedIn(u, Classify(err), Classify(err))
    /\ pending' = LeftBehind(u)
    /\ UNCHANGED <<transport, cancelled, done, sold, stream>>

-----------------------------------------------------------------------------
(* The run.                                                                *)

Cancel ==
    /\ ~cancelled /\ ~done
    /\ cancelled' = TRUE
    /\ UNCHANGED <<transport, user, counter, done, sold, pending, stream>>

\* SetEventMaxConcurrent fails, and Run returns before its first user.
CapFails ==
    /\ ~done
    /\ \A u \in SimUser : UserAt(u, "unborn")
    /\ done' = TRUE
    /\ UNCHANGED <<transport, cancelled, user, counter, sold, pending, stream>>

MutantDoneWithoutWait == \A u \in SimUser : ~UserAt(u, "unborn")
\* The loop over the users is through, or was left, and wg.Wait returns.
AllOver ==
    \A u \in SimUser : UserAt(u, "over") \/ (cancelled /\ UserAt(u, "unborn"))

RunEnds ==
    /\ ~done
    /\ AllOver
    /\ done' = TRUE
    /\ UNCHANGED <<transport, cancelled, user, counter, sold, pending, stream>>

-----------------------------------------------------------------------------
(* The reader: the snapshot handler sends one snapshot, the stream handler *)
(* one every streamInterval until one says done or the client is gone.     *)

Reads(s) ==
    /\ stream' = s
    /\ UNCHANGED <<transport, cancelled, user, counter, done, sold, pending>>

BeginSnapshot ==
    /\ stream.pc \in {"closed", "wait"}
    /\ Reads([Closed EXCEPT !.pc = "load", !.settled = done])

\* One atomic load; done is loaded after all the counters.
LoadCounter ==
    /\ stream.pc = "load"
    /\ stream.at < 8
    /\ Reads([stream EXCEPT !.at = @ + 1, !.sum = @ + counter[Outcomes[stream.at]]])

MutantStreamIgnoresDone == [stream EXCEPT !.pc = "wait"]
\* The handler after a frame that says whether the run is done.
AfterFrame == [stream EXCEPT !.pc = IF done THEN "sent" ELSE "wait"]

LoadDone ==
    /\ stream.pc = "load"
    /\ stream.at = 8
    /\ Reads(AfterFrame)

\* The handler returns, or notices in its select that the client is gone.
CloseStream == stream.pc \in {"sent", "wait"} /\ Reads(Closed)

-----------------------------------------------------------------------------

Init ==
    /\ transport \in Transport
    /\ cancelled = FALSE
    /\ user = [u \in SimUser |-> Unborn]
    /\ counter = [c \in Counter |-> 0]
    /\ done = FALSE
    /\ sold = {}
    /\ pending = {}
    /\ stream = Closed

UserNext(u) ==
    \/ Launch(u)
    \/ \E ttl \in TTL, err \in EnqueueError : EnqueueAnswered(u, ttl, err)
    \/ \E st \in QueueStatus, err \in PingError : PollAnswered(u, st, err)
    \/ SlotReleased(u)
    \/ Acquire(u)
    \/ \E err \in ReserveError \ {"keyReused"} : ReserveServed(u, err)  \* no key is sent
    \/ ReserveAnswered(u)
    \/ ServedLate(u)
    \/ CallFails(u)
    \/ ContextEnds(u)

Frame == LoadCounter \/ LoadDone

Next ==
    \/ \E u \in SimUser : UserNext(u)
    \/ Cancel
    \/ CapFails
    \/ RunEnds
    \/ BeginSnapshot \/ Frame \/ CloseStream

Spec == Init /\ [][Next]_vars

-----------------------------------------------------------------------------
(* Properties.                                                             *)

\* client.go: translateReserveError maps the response back "so both transports
\* produce the same breakdown".  A user is counted as the service's answer
\* would have been in process, unless no service answered, or the service gave
\* up (504, and 400 for its context errors), which HTTP counts as an error.
SameBreakdown ==
    \A u \in SimUser :
        LET s == user[u] IN
        s.counted # "none" /\ s.counted # s.truth
        => s.counted = "errors" /\ s.truth \in {"lost", "timedOut", "cancelled"}

\* The counters never claim a seat that was not sold, and a seat sold to a user
\* whose answer was late or lost is under timedOut, cancelled or errors, never
\* among the rejections: rejected users hold nothing.
CountersTellSales ==
    \A u \in SimUser :
        LET c == user[u].counted IN
        /\ c = "reserved" => u \in sold
        /\ c \in {"rejectedCapacity", "rejectedQuota", "reaped"} => u \notin sold \cup pending

\* In every snapshot begun once the run is done the outcomes add up to the users
\* started, which are all unless the run was cancelled or failed at its gate.
\* One begun earlier may say done, which it loads last, and miss a user who ended
\* after that user's counter was loaded.
SettledSnapshotAddsUp ==
    stream.at = 8 /\ stream.settled
    => /\ stream.sum = counter["started"]
       /\ stream.sum = Total \/ cancelled \/ stream.sum = 0

-----------------------------------------------------------------------------
(* Fairness: the goroutines of Run and of the stream go on, the contexts   *)
(* of the users end.  Nothing is assumed of the client of the stream.      *)

Fairness ==
    /\ \A u \in SimUser :
          /\ WF_vars(Launch(u))
          /\ WF_vars(ContextEnds(u))
          /\ WF_vars(SlotReleased(u))
    /\ WF_vars(RunEnds)
    /\ WF_vars(stream.pc # "closed" /\ (BeginSnapshot \/ Frame))
    /\ WF_vars(stream.pc = "sent" /\ CloseStream)

FairSpec == Spec /\ Fairness

\* The stream of a run ends by itself, with a frame that says done, also when
\* its client never hangs up and nobody is ever admitted.
StreamEnds == stream.pc = "wait" ~> stream.pc \in {"sent", "closed"}
=============================================================================
