----------------------------- MODULE EventCache -----------------------------
(***************************************************************************)
(* The row of one event and its copies: the Redis cache in front of it,    *)
(* the loads that a process shares among its callers (singleflight), the   *)
(* cache writes they leave behind, and the admin operations that change or *)
(* delete the row and then the cache.                                      *)
(*                                                                         *)
(* What is between two awaits takes no time.  A hit changes nothing: what  *)
(* it answers is the entry.                                                *)
(***************************************************************************)
EXTENDS Naturals

CONSTANTS
    Value,      \* contents of the row (its capacity)
    NoRow,      \* no row, no entry
    Process,    \* processes, each with a singleflight group
    Caller,     \* callers of GetEvent
    Admin,      \* simulate and reset requests
    CallTTL,    \* seconds a caller's context has
    WriteTTL,   \* seconds until a cache write has landed or failed: its context's,
                \* or the socket timeouts of the Redis client if those are longer
    CacheTTLs   \* lifetimes of an entry: eventIdCacheTTL and its jitter

ASSUME NoRowAssumption == NoRow \notin Value
ASSUME CallTTLAssumption == CallTTL \in Nat \ {0}
ASSUME WriteTTLAssumption == WriteTTL \in Nat \ {0}
ASSUME CacheTTLsAssumption ==
    /\ CacheTTLs \subseteq Nat \ {0}
    /\ \E t \in CacheTTLs : \A s \in CacheTTLs : s <= t

VARIABLES
    row,        \* the row in Postgres
    age,        \* history: seconds since the row last had a value
    cache,      \* the entry event:id:<id> in Redis
    flight,     \* per process the load in progress
    waiting,    \* per process the callers that wait for it
    failed,     \* history: callers whose last load failed
    writes,     \* SetCache goroutines: what they write, the time they have
    admin,      \* admin requests between two commands
    outage      \* Postgres does not answer

load == <<flight, waiting, failed>>
vars == <<row, age, cache, load, writes, admin, outage>>

-----------------------------------------------------------------------------
(* Types.                                                                  *)

LongestTTL == CHOOSE t \in CacheTTLs : \A s \in CacheTTLs : s <= t

\* The age an answer never has.
TooOld == CallTTL + WriteTTL + LongestTTL

Row == Value \cup {NoRow}
Entry == [row : Row, left : 0 .. LongestTTL]
NoEntry == [row |-> NoRow, left |-> 0]
FlightState == [pc : {"none", "query", "reply"}, row : Row, left : 0 .. CallTTL]
NoFlight == [pc |-> "none", row |-> NoRow, left |-> 0]
\* One element stands for any number of goroutines.
Write == [row : Value, left : 1 .. WriteTTL]

TypeOK ==
    /\ row \in Row
    /\ age \in [Value -> 0 .. TooOld]
    /\ cache \in Entry
    /\ flight \in [Process -> FlightState]
    /\ waiting \in [Process -> SUBSET Caller]
    /\ failed \subseteq Caller
    /\ writes \subseteq Write
    /\ admin \in [Admin -> {"idle", "invalidate", "flush"}]
    /\ outage \in BOOLEAN

-----------------------------------------------------------------------------
(* GetEvent.                                                               *)

\* The load of process n is over, well or not, and those who wait are told.
Deliver(n, ok) ==
    /\ flight' = [flight EXCEPT ![n] = NoFlight]
    /\ waiting' = [waiting EXCEPT ![n] = {}]
    /\ failed' = IF ok THEN failed ELSE failed \cup waiting[n]

\* GET found nothing, or Redis fails: the caller joins the load of its process
\* or starts one, which takes over what is left of the caller's deadline.
Miss(c, n) ==
    /\ \A m \in Process : c \notin waiting[m]
    /\ waiting' = [waiting EXCEPT ![n] = @ \cup {c}]
    /\ failed' = failed \ {c}
    /\ \/ /\ flight[n].pc # "none"
          /\ UNCHANGED flight
       \/ /\ flight[n].pc = "none"
          /\ \E t \in 1 .. CallTTL :
                flight' = [flight EXCEPT ![n] = [NoFlight EXCEPT !.pc = "query", !.left = t]]
    /\ UNCHANGED <<row, age, cache, writes, admin, outage>>

\* Mutant: the load runs under the context of the caller that started it.
MutantLeave(n, c) ==
    /\ flight' = [flight EXCEPT ![n] = NoFlight]
    /\ waiting' = [waiting EXCEPT ![n] = {}]
    /\ failed' = failed \cup (waiting[n] \ {c})
\* Caller c goes; the load is not cancelled.
Leave(n, c) ==
    /\ waiting' = [waiting EXCEPT ![n] = @ \ {c}]
    /\ UNCHANGED <<flight, failed>>

\* The client goes away or the caller's deadline passes.
GiveUp(c, n) ==
    /\ c \in waiting[n]
    /\ Leave(n, c)
    /\ UNCHANGED <<row, age, cache, writes, admin, outage>>

\* The statement sees the row.
Query(n) ==
    /\ flight[n].pc = "query"
    /\ flight[n].left > 0
    /\ ~outage
    /\ flight' = [flight EXCEPT ![n] = [@ EXCEPT !.pc = "reply", !.row = row]]
    /\ UNCHANGED <<row, age, cache, waiting, failed, writes, admin, outage>>

\* Mutant: a missing row is cached like any other.
MutantWriteOf(n) == {[row |-> flight[n].row, left |-> WriteTTL]}
\* The cache write a load leaves behind; ErrEventNotFound leaves none.
WriteOf(n) == {w \in Write : w.row = flight[n].row /\ w.left = WriteTTL}

\* The reply is delivered to everybody who waits for it.
Reply(n) ==
    /\ flight[n].pc = "reply"
    /\ flight[n].left > 0
    /\ writes' = writes \cup WriteOf(n)
    /\ Deliver(n, TRUE)
    /\ UNCHANGED <<row, age, cache, admin, outage>>

\* The load fails: Postgres does not answer or the deadline it took over from
\* its first caller passes.  Everybody who waits for it gets the error.
LoadFails(n) ==
    /\ flight[n].pc # "none"
    /\ outage \/ flight[n].left = 0
    /\ Deliver(n, FALSE)
    /\ UNCHANGED <<row, age, cache, writes, admin, outage>>

\* SetCache arrives.
SetCache(w) ==
    /\ w \in writes
    /\ \E t \in CacheTTLs : cache' = [row |-> w.row, left |-> t]
    /\ writes' \in {writes, writes \ {w}}
    /\ UNCHANGED <<row, age, load, admin, outage>>

SetCacheFails(w) ==
    /\ w \in writes
    /\ writes' = writes \ {w}
    /\ UNCHANGED <<row, age, cache, load, admin, outage>>

-----------------------------------------------------------------------------
(* Admin operations.                                                       *)

AdminGoes(a, from, to) ==
    /\ admin[a] = from
    /\ admin' = [admin EXCEPT ![a] = to]

\* UPDATE events SET capacity, of simulate and of the command line tool.
SetCapacity(a, v) ==
    /\ AdminGoes(a, "idle", "invalidate")
    /\ row # NoRow
    /\ row' = v
    /\ age' = [age EXCEPT ![v] = 0]
    /\ ~outage
    /\ UNCHANGED <<cache, load, writes, outage>>

\* InvalidateCache follows it, FLUSHDB if the request asks for a reset.
Invalidate(a) ==
    /\ \/ AdminGoes(a, "invalidate", "idle")
       \/ AdminGoes(a, "invalidate", "flush")
    /\ cache' = NoEntry
    /\ UNCHANGED <<row, age, load, writes, outage>>

\* The TRUNCATE of a reset with scope all: no later event has this id.
Truncate(a) ==
    /\ AdminGoes(a, "idle", "flush")
    /\ row' = NoRow
    /\ ~outage
    /\ UNCHANGED <<age, cache, load, writes, outage>>

FlushDB(a) ==
    /\ AdminGoes(a, "flush", "idle")
    /\ cache' = NoEntry
    /\ UNCHANGED <<row, age, load, writes, outage>>

\* DEL or FLUSHDB fails, or the request is cut off before it.
AdminFails(a) ==
    /\ admin[a] # "idle"
    /\ admin' = [admin EXCEPT ![a] = "idle"]
    /\ UNCHANGED <<row, age, cache, load, writes, outage>>

\* External: Postgres becomes unavailable and comes back.
Outage ==
    /\ outage' = ~outage
    /\ UNCHANGED <<row, age, cache, load, writes, admin>>

-----------------------------------------------------------------------------
(* External: a second passes.                                              *)

Less(n) == IF n = 0 THEN 0 ELSE n - 1

\* Mutant: the context of a cache write has no deadline.
MutantPendingWrites == writes
\* The cache writes that have time left.
PendingWrites == {w \in Write : [w EXCEPT !.left = @ + 1] \in writes}

Tick ==
    /\ age' = [v \in Value |-> IF v = row THEN 0
                               ELSE IF age[v] = TooOld THEN TooOld ELSE age[v] + 1]
    /\ cache' = IF cache.left <= 1 THEN NoEntry ELSE [cache EXCEPT !.left = Less(@)]
    /\ flight' = [n \in Process |-> [flight[n] EXCEPT !.left = Less(@)]]
    /\ writes' = PendingWrites
    /\ UNCHANGED <<row, waiting, failed, admin, outage>>

-----------------------------------------------------------------------------

Init ==
    /\ row \in Value
    /\ age = [v \in Value |-> 0]
    /\ cache = NoEntry
    /\ flight = [n \in Process |-> NoFlight]
    /\ waiting = [n \in Process |-> {}]
    /\ failed = {}
    /\ writes = {}
    /\ admin = [a \in Admin |-> "idle"]
    /\ outage = FALSE

AdminNext(a) ==
    \/ \E v \in Value : SetCapacity(a, v)
    \/ Invalidate(a)
    \/ Truncate(a)
    \/ FlushDB(a)
    \/ AdminFails(a)

Next ==
    \/ \E c \in Caller, n \in Process : Miss(c, n) \/ GiveUp(c, n)
    \/ \E n \in Process : Query(n) \/ Reply(n) \/ LoadFails(n)
    \/ \E w \in Write : SetCache(w) \/ SetCacheFails(w)
    \/ \E a \in Admin : AdminNext(a)
    \/ Outage
    \/ Tick

Spec == Init /\ [][Next]_vars

-----------------------------------------------------------------------------
(* Properties.                                                             *)

\* A cached copy of the row is never older than the deadlines of the load and
\* of the write that brought it there and the lifetime of the entry together,
\* although the write may overtake the InvalidateCache or FLUSHDB that was to
\* remove it, the removal may fail, and writes of different processes overtake
\* each other.
BoundedStaleness == cache.left > 0 => age[cache.row] + cache.left < TooOld

\* A caller that waits for a load started by somebody else is not failed because
\* that caller has gone away: only an outage or the deadline of the load ends it.
OnlyOwnCancellation ==
    [][\A n \in Process :
          (failed' \ failed) \cap waiting[n] # {} => outage \/ flight[n].left = 0]_vars
=============================================================================
