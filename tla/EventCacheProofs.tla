-------------------------- MODULE EventCacheProofs --------------------------
(***************************************************************************)
(* Proofs about EventCache, for any number of processes, callers and admin *)
(* requests and every deadline and lifetime: type correctness, the bound   *)
(* on stale entries (BoundedStaleness) and the independence of the callers *)
(* that share a load (OnlyOwnCancellation).                                *)
(***************************************************************************)
EXTENDS EventCache, TLAPS

\* The longest lifetime is one of them, and none is longer.
LEMMA LongestIsLongest ==
    /\ CallTTL \in Nat /\ CallTTL > 0
    /\ WriteTTL \in Nat /\ WriteTTL > 0
    /\ LongestTTL \in Nat /\ LongestTTL > 0
    /\ TooOld \in Nat /\ TooOld = CallTTL + WriteTTL + LongestTTL
    /\ \A t \in CacheTTLs : t \in Nat /\ t > 0 /\ t <= LongestTTL
<1>1. LongestTTL \in CacheTTLs /\ \A s \in CacheTTLs : s <= LongestTTL
  BY CacheTTLsAssumption DEF LongestTTL
<1> QED
  BY <1>1, CacheTTLsAssumption, CallTTLAssumption, WriteTTLAssumption DEF TooOld

-----------------------------------------------------------------------------
(* The invariant.  What a copy has aged so far and what it may still age    *)
(* never exceed what its stage allows.                                     *)

\* The value the row has now has not aged.
CurrentInv == row \in Value => age[row] = 0

\* What a load has read is at most as old as the time its deadline has run.
ReplyInv ==
    \A n \in Process :
        flight[n].pc = "reply" /\ flight[n].row \in Value /\ flight[n].left > 0
        => age[flight[n].row] + flight[n].left <= CallTTL

\* What a goroutine is about to write has aged in its load and since.
WriteInv == \A w \in writes : age[w.row] + w.left < CallTTL + WriteTTL

\* A live entry is of a row.
CacheInv == cache.left > 0 => cache.row \in Value

\* A caller waits in one process.
WaitInv ==
    \A n, m \in Process : n # m => waiting[n] \cap waiting[m] = {}

Inv == TypeOK /\ CurrentInv /\ ReplyInv /\ WriteInv /\ CacheInv
       /\ BoundedStaleness /\ WaitInv

-----------------------------------------------------------------------------
(* Loads.                                                                  *)

\* A step that leaves row and history alone, and neither adds a reply, nor a
\* write, nor an entry, keeps the bounds.
LEMMA QuietStep ==
    ASSUME Inv, TypeOK', WaitInv',
           UNCHANGED <<row, age>>,
           cache' = cache \/ cache' = NoEntry,
           writes' \subseteq writes,
           \A n \in Process : flight'[n] = flight[n] \/ flight'[n].pc # "reply"
    PROVE  Inv'
<1>1. CurrentInv'
  BY DEF Inv, CurrentInv
<1>2. ReplyInv'
  BY DEF Inv, ReplyInv
<1>3. WriteInv'
  BY DEF Inv, WriteInv
<1>4. CacheInv' /\ BoundedStaleness'
  BY DEF Inv, CacheInv, BoundedStaleness, NoEntry
<1> QED
  BY <1>1, <1>2, <1>3, <1>4 DEF Inv

LEMMA NoFlightType == NoFlight \in FlightState /\ NoFlight.pc = "none"
<1>1. 0 \in 0 .. CallTTL
  BY LongestIsLongest
<1> QED
  BY <1>1 DEF NoFlight, FlightState, Row

LEMMA NoEntryType == NoEntry \in Entry /\ NoEntry.left = 0
<1>1. 0 \in 0 .. LongestTTL
  BY LongestIsLongest
<1> QED
  BY <1>1 DEF NoEntry, Entry, Row

\* Nobody waits at process n any more.
LEMMA DeliverKeeps ==
    ASSUME Inv, NEW n \in Process, NEW ok \in BOOLEAN, Deliver(n, ok)
    PROVE  /\ flight' \in [Process -> FlightState]
           /\ waiting' \in [Process -> SUBSET Caller]
           /\ failed' \subseteq Caller
           /\ WaitInv'
           /\ \A m \in Process : flight'[m] = flight[m] \/ flight'[m].pc # "reply"
<1>1. /\ flight \in [Process -> FlightState]
      /\ waiting \in [Process -> SUBSET Caller]
      /\ failed \subseteq Caller
  BY DEF Inv, TypeOK
<1>2. flight' \in [Process -> FlightState]
  BY <1>1, NoFlightType DEF Deliver
<1>3. waiting' \in [Process -> SUBSET Caller] /\ failed' \subseteq Caller
  BY <1>1 DEF Deliver
<1>4. WaitInv'
  BY <1>1 DEF Deliver, Inv, WaitInv
<1>5. \A m \in Process : flight'[m] = flight[m] \/ flight'[m].pc # "reply"
  BY <1>1, NoFlightType DEF Deliver
<1> QED
  BY <1>2, <1>3, <1>4, <1>5

LEMMA MissKeeps ==
    ASSUME Inv, NEW c \in Caller, NEW n \in Process, Miss(c, n)
    PROVE  Inv'
<1>1. /\ flight \in [Process -> FlightState]
      /\ waiting \in [Process -> SUBSET Caller]
  BY DEF Inv, TypeOK
<1>2. WaitInv'
  <2>1. waiting' = [waiting EXCEPT ![n] = @ \cup {c}] /\ \A m \in Process : c \notin waiting[m]
    BY DEF Miss
  <2> QED
    BY <1>1, <2>1 DEF Inv, WaitInv
<1>3. /\ flight' \in [Process -> FlightState]
      /\ \A m \in Process : flight'[m] = flight[m] \/ flight'[m].pc # "reply"
  <2>1. CASE UNCHANGED flight
    BY <1>1, <2>1
  <2>2. CASE \E t \in 1 .. CallTTL :
                flight' = [flight EXCEPT ![n] = [NoFlight EXCEPT !.pc = "query", !.left = t]]
    <3>1. PICK t \in 1 .. CallTTL :
                flight' = [flight EXCEPT ![n] = [NoFlight EXCEPT !.pc = "query", !.left = t]]
      BY <2>2
    <3>2. t \in 0 .. CallTTL
      BY <3>1, LongestIsLongest
    <3>3. /\ [NoFlight EXCEPT !.pc = "query", !.left = t] \in FlightState
          /\ [NoFlight EXCEPT !.pc = "query", !.left = t].pc = "query"
      BY <3>2 DEF NoFlight, FlightState, Row
    <3> QED
      BY <1>1, <3>1, <3>3
  <2> QED
    BY <2>1, <2>2 DEF Miss
<1>4. TypeOK'
  BY <1>1, <1>3 DEF Inv, TypeOK, Miss
<1> QED
  BY <1>2, <1>3, <1>4, QuietStep DEF Miss

LEMMA GiveUpKeeps ==
    ASSUME Inv, NEW c \in Caller, NEW n \in Process, GiveUp(c, n)
    PROVE  Inv'
<1>1. waiting \in [Process -> SUBSET Caller]
  BY DEF Inv, TypeOK
<1>2. WaitInv'
  BY <1>1 DEF Inv, WaitInv, GiveUp, Leave
<1>3. TypeOK'
  BY <1>1 DEF Inv, TypeOK, GiveUp, Leave
<1> QED
  BY <1>2, <1>3, QuietStep DEF GiveUp, Leave

\* The statement reads the current value, whose age is zero.
LEMMA QueryKeeps ==
    ASSUME Inv, NEW n \in Process, Query(n)
    PROVE  Inv'
<1> DEFINE f == [flight[n] EXCEPT !.pc = "reply", !.row = row]
<1>1. flight \in [Process -> FlightState] /\ row \in Row /\ flight[n] \in FlightState
  BY DEF Inv, TypeOK
<1>2. /\ f \in FlightState /\ f.row = row /\ f.left = flight[n].left
      /\ f.left \in 0 .. CallTTL
  BY <1>1 DEF FlightState
<1>3. flight' = [flight EXCEPT ![n] = f]
  BY DEF Query
<1> HIDE DEF f
<1>4. flight' \in [Process -> FlightState]
  BY <1>1, <1>2, <1>3
<1>5. TypeOK'
  BY <1>4 DEF Inv, TypeOK, Query
<1>6. ReplyInv'
  <2> SUFFICES ASSUME NEW m \in Process,
                      flight'[m].pc = "reply" /\ flight'[m].row \in Value /\ flight'[m].left > 0
               PROVE  age'[flight'[m].row] + flight'[m].left <= CallTTL
    BY DEF ReplyInv
  <2>1. age' = age /\ row' = row
    BY DEF Query
  <2>2. CASE m = n
    <3>1. flight'[m] = f
      BY <1>1, <1>3, <2>2
    <3>2. age[row] = 0
      BY <1>2, <3>1 DEF Inv, CurrentInv
    <3> QED
      BY <1>2, <2>1, <3>1, <3>2, LongestIsLongest
  <2>3. CASE m # n
    <3>1. flight'[m] = flight[m]
      BY <1>1, <1>3, <2>3
    <3> QED
      BY <2>1, <3>1 DEF Inv, ReplyInv
  <2> QED
    BY <2>2, <2>3
<1>7. CurrentInv' /\ WriteInv' /\ CacheInv' /\ BoundedStaleness' /\ WaitInv'
  BY DEF Inv, Query, CurrentInv, WriteInv, CacheInv, BoundedStaleness, WaitInv
<1> QED
  BY <1>5, <1>6, <1>7 DEF Inv

\* A delivered reply has used up some of its deadline; the write starts anew.
LEMMA ReplyKeeps ==
    ASSUME Inv, NEW n \in Process, Reply(n)
    PROVE  Inv'
<1>1. /\ flight[n] \in FlightState /\ writes \subseteq Write
      /\ age \in [Value -> 0 .. TooOld]
  BY DEF Inv, TypeOK
<1>2. Deliver(n, TRUE) /\ writes' = writes \cup WriteOf(n) /\ age' = age
  BY DEF Reply
<1>3. TypeOK'
  BY <1>1, <1>2, DeliverKeeps DEF Inv, TypeOK, Reply, WriteOf
<1>4. WriteInv'
  <2> SUFFICES ASSUME NEW w \in writes'
               PROVE  age[w.row] + w.left < CallTTL + WriteTTL
    BY <1>2 DEF WriteInv
  <2>1. CASE w \in writes
    BY <2>1 DEF Inv, WriteInv
  <2>2. CASE w \in WriteOf(n)
    <3>1. w.row = flight[n].row /\ w.left = WriteTTL /\ w.row \in Value
      BY <2>2 DEF WriteOf, Write
    <3>2. age[w.row] + flight[n].left <= CallTTL /\ flight[n].left > 0
      BY <3>1 DEF Reply, Inv, ReplyInv
    <3>3. age[w.row] \in Nat /\ flight[n].left \in Nat
      BY <1>1, <3>1, LongestIsLongest DEF FlightState
    <3> QED
      BY <3>1, <3>2, <3>3, LongestIsLongest
  <2> QED
    BY <1>2, <2>1, <2>2
<1>5. ReplyInv'
  BY <1>2, DeliverKeeps DEF Inv, ReplyInv
<1>6. CurrentInv' /\ CacheInv' /\ BoundedStaleness'
  BY DEF Inv, Reply, CurrentInv, CacheInv, BoundedStaleness
<1>7. WaitInv'
  BY <1>2, DeliverKeeps
<1> QED
  BY <1>3, <1>4, <1>5, <1>6, <1>7 DEF Inv

LEMMA LoadFailsKeeps ==
    ASSUME Inv, NEW n \in Process, LoadFails(n)
    PROVE  Inv'
<1>1. Deliver(n, FALSE)
  BY DEF LoadFails
<1>2. TypeOK'
  BY <1>1, DeliverKeeps DEF Inv, TypeOK, LoadFails
<1> QED
  BY <1>1, <1>2, DeliverKeeps, QuietStep DEF LoadFails

\* An entry starts with the age of its write and a lifetime.
LEMMA SetCacheKeeps ==
    ASSUME Inv, NEW w \in Write, SetCache(w)
    PROVE  Inv'
<1>1. PICK t \in CacheTTLs : cache' = [row |-> w.row, left |-> t]
  BY DEF SetCache
<1>2. /\ t \in Nat /\ t > 0 /\ t <= LongestTTL
      /\ w \in writes /\ w.row \in Value /\ w.left \in 1 .. WriteTTL
  BY <1>1, LongestIsLongest DEF SetCache, Write
<1>3. cache' \in Entry /\ cache'.row = w.row /\ cache'.left = t
  BY <1>1, <1>2, LongestIsLongest DEF Entry, Row
<1>4. age[w.row] \in Nat /\ age[w.row] + w.left < CallTTL + WriteTTL /\ age' = age
  BY <1>2, LongestIsLongest DEF Inv, TypeOK, WriteInv, SetCache
<1>5. CacheInv' /\ BoundedStaleness'
  BY <1>2, <1>3, <1>4, LongestIsLongest DEF CacheInv, BoundedStaleness
<1>6. writes' \subseteq writes
  BY DEF SetCache
<1>7. TypeOK'
  BY <1>3, <1>6 DEF Inv, TypeOK, SetCache, load
<1>8. WriteInv'
  BY <1>4, <1>6 DEF Inv, WriteInv
<1>9. CurrentInv' /\ ReplyInv' /\ WaitInv'
  BY DEF Inv, SetCache, load, CurrentInv, ReplyInv, WaitInv
<1> QED
  BY <1>5, <1>7, <1>8, <1>9 DEF Inv

-----------------------------------------------------------------------------
(* Admin operations and time.                                              *)

\* A value that becomes current is as new as can be; no other changes its age.
LEMMA SetCapacityKeeps ==
    ASSUME Inv, NEW a \in Admin, NEW v \in Value, SetCapacity(a, v)
    PROVE  Inv'
<1>1. /\ age \in [Value -> 0 .. TooOld] /\ age' = [age EXCEPT ![v] = 0] /\ row' = v
      /\ cache \in Entry /\ writes \subseteq Write /\ flight \in [Process -> FlightState]
      /\ UNCHANGED <<cache, flight, waiting, failed, writes, outage>>
  BY DEF Inv, TypeOK, SetCapacity, load
<1>2. 0 \in 0 .. TooOld
  BY LongestIsLongest
<1>3. \A u \in Value : age'[u] <= age[u] /\ age'[u] \in Nat /\ age[u] \in Nat
  BY <1>1, LongestIsLongest
<1>4. TypeOK'
  <2>1. age' \in [Value -> 0 .. TooOld]
    BY <1>1, <1>2
  <2>2. admin' \in [Admin -> {"idle", "invalidate", "flush"}]
    BY DEF Inv, TypeOK, SetCapacity, AdminGoes
  <2> QED
    BY <1>1, <2>1, <2>2 DEF Inv, TypeOK, Row
<1>5. CurrentInv'
  BY <1>1 DEF CurrentInv
<1>6. ReplyInv'
  <2> SUFFICES ASSUME NEW n \in Process,
                      flight[n].pc = "reply" /\ flight[n].row \in Value /\ flight[n].left > 0
               PROVE  age'[flight[n].row] + flight[n].left <= CallTTL
    BY <1>1 DEF ReplyInv
  <2>1. flight[n].left \in Nat
    BY <1>1, LongestIsLongest DEF FlightState
  <2>2. age[flight[n].row] + flight[n].left <= CallTTL
    BY DEF Inv, ReplyInv
  <2> QED
    BY <1>3, <2>1, <2>2, LongestIsLongest
<1>7. WriteInv'
  <2> SUFFICES ASSUME NEW w \in writes
               PROVE  age'[w.row] + w.left < CallTTL + WriteTTL
    BY <1>1 DEF WriteInv
  <2>1. w.left \in Nat /\ w.row \in Value
    BY <1>1, LongestIsLongest DEF Write
  <2>2. age[w.row] + w.left < CallTTL + WriteTTL
    BY DEF Inv, WriteInv
  <2> QED
    BY <1>3, <2>1, <2>2, LongestIsLongest
<1>8. CacheInv' /\ BoundedStaleness'
  <2>1. cache.left \in Nat
    BY <1>1, LongestIsLongest DEF Entry
  <2> QED
    BY <1>1, <1>3, <2>1, LongestIsLongest DEF Inv, CacheInv, BoundedStaleness
<1>9. WaitInv'
  BY <1>1 DEF Inv, WaitInv
<1> QED
  BY <1>4, <1>5, <1>6, <1>7, <1>8, <1>9 DEF Inv

LEMMA TruncateKeeps ==
    ASSUME Inv, NEW a \in Admin, Truncate(a)
    PROVE  Inv'
<1>1. row' = NoRow /\ UNCHANGED <<age, cache, flight, waiting, failed, writes, outage>>
  BY DEF Truncate, load
<1>2. admin' \in [Admin -> {"idle", "invalidate", "flush"}]
  BY DEF Inv, TypeOK, Truncate, AdminGoes
<1>3. TypeOK'
  BY <1>1, <1>2 DEF Inv, TypeOK, Row
<1>4. CurrentInv'
  BY <1>1, NoRowAssumption DEF CurrentInv
<1>5. ReplyInv' /\ WriteInv' /\ CacheInv' /\ BoundedStaleness' /\ WaitInv'
  BY <1>1 DEF Inv, ReplyInv, WriteInv, CacheInv, BoundedStaleness, WaitInv
<1> QED
  BY <1>3, <1>4, <1>5 DEF Inv

\* The steps that only touch the cache, the admin request or Postgres.
LEMMA OtherStepsKeep ==
    ASSUME Inv,
           \/ \E w \in Write : SetCacheFails(w)
           \/ \E a \in Admin : Invalidate(a) \/ FlushDB(a) \/ AdminFails(a)
           \/ Outage
    PROVE  Inv'
<1>1. /\ UNCHANGED <<row, age, flight, waiting, failed>>
      /\ cache' = cache \/ cache' = NoEntry
      /\ writes' \subseteq writes
  BY DEF SetCacheFails, Invalidate, FlushDB, AdminFails, Outage, load
<1>2. admin' \in [Admin -> {"idle", "invalidate", "flush"}]
  BY DEF Inv, TypeOK, SetCacheFails, Invalidate, FlushDB, AdminFails, Outage, AdminGoes
<1>3. outage' \in BOOLEAN
  BY DEF Inv, TypeOK, SetCacheFails, Invalidate, FlushDB, AdminFails, Outage
<1>4. TypeOK'
  BY <1>1, <1>2, <1>3, NoEntryType DEF Inv, TypeOK
<1>5. WaitInv'
  BY <1>1 DEF Inv, WaitInv
<1> QED
  BY <1>1, <1>4, <1>5, QuietStep

\* With every second a copy grows older by at most one, and it has one less.
LEMMA TickKeeps ==
    ASSUME Inv, Tick
    PROVE  Inv'
<1>1. /\ age \in [Value -> 0 .. TooOld] /\ cache \in Entry /\ row \in Row
      /\ flight \in [Process -> FlightState] /\ writes \subseteq Write
  BY DEF Inv, TypeOK
<1>2. age' = [v \in Value |-> IF v = row THEN 0
                              ELSE IF age[v] = TooOld THEN TooOld ELSE age[v] + 1]
  BY DEF Tick
<1>3. \A v \in Value : age[v] \in Nat /\ age'[v] \in 0 .. TooOld /\ age'[v] <= age[v] + 1
  BY <1>1, <1>2, LongestIsLongest
<1>4. age' \in [Value -> 0 .. TooOld]
  BY <1>2, <1>3
<1>5. /\ flight' \in [Process -> FlightState]
      /\ \A n \in Process : /\ flight'[n].pc = flight[n].pc /\ flight'[n].row = flight[n].row
                            /\ flight'[n].left = Less(flight[n].left)
                            /\ flight[n].left \in Nat
  <2>1. \A n \in Process : flight[n] \in FlightState /\ flight[n].left \in 0 .. CallTTL
    BY <1>1 DEF FlightState
  <2>2. \A n \in Process : Less(flight[n].left) \in 0 .. CallTTL
    BY <2>1, LongestIsLongest DEF Less
  <2>3. flight' = [n \in Process |-> [flight[n] EXCEPT !.left = Less(@)]]
    BY DEF Tick
  <2> HIDE DEF Less
  <2>4. \A n \in Process : [flight[n] EXCEPT !.left = Less(@)] \in FlightState
    BY <2>1, <2>2 DEF FlightState
  <2> QED
    BY <2>1, <2>3, <2>4 DEF FlightState
<1>6. ReplyInv'
  <2> SUFFICES ASSUME NEW n \in Process,
                      flight'[n].pc = "reply" /\ flight'[n].row \in Value /\ flight'[n].left > 0
               PROVE  age'[flight'[n].row] + flight'[n].left <= CallTTL
    BY DEF ReplyInv
  <2>1. /\ flight'[n].row = flight[n].row /\ flight[n].pc = "reply"
        /\ flight[n].left \in Nat /\ flight[n].left > 0 /\ flight'[n].left = flight[n].left - 1
    BY <1>5 DEF Less
  <2>2. age[flight[n].row] + flight[n].left <= CallTTL
    BY <2>1 DEF Inv, ReplyInv
  <2> QED
    BY <1>3, <2>1, <2>2, LongestIsLongest
<1>7. writes' \subseteq Write /\ WriteInv'
  <2>1. writes' = {w \in Write : [w EXCEPT !.left = @ + 1] \in writes}
    BY DEF Tick, PendingWrites
  <2> SUFFICES ASSUME NEW w \in writes'
               PROVE  age'[w.row] + w.left < CallTTL + WriteTTL
    BY <2>1 DEF WriteInv
  <2> DEFINE o == [w EXCEPT !.left = @ + 1]
  <2>2. o \in writes /\ o.row = w.row /\ o.left = w.left + 1 /\ w.left \in Nat /\ w.row \in Value
    BY <2>1, LongestIsLongest DEF Write
  <2> HIDE DEF o
  <2>3. age[w.row] + (w.left + 1) < CallTTL + WriteTTL
    BY <2>2 DEF Inv, WriteInv
  <2> QED
    BY <1>3, <2>2, <2>3, LongestIsLongest
<1>8. cache' \in Entry /\ CacheInv' /\ BoundedStaleness'
  <2>1. cache.left \in 0 .. LongestTTL /\ cache.left \in Nat
    BY <1>1, LongestIsLongest DEF Entry
  <2>2. CASE cache.left <= 1
    <3>1. cache' = NoEntry
      BY <2>2 DEF Tick
    <3> QED
      BY <3>1, NoEntryType DEF CacheInv, BoundedStaleness
  <2>3. CASE cache.left > 1
    <3>1. cache' = [cache EXCEPT !.left = Less(@)] /\ Less(cache.left) = cache.left - 1
      BY <2>1, <2>3 DEF Tick, Less
    <3>2. cache.left - 1 \in 0 .. LongestTTL
      BY <2>1, <2>3, LongestIsLongest
    <3>3. cache' \in Entry /\ cache'.row = cache.row /\ cache'.left = cache.left - 1
      BY <1>1, <3>1, <3>2 DEF Entry
    <3>4. cache.row \in Value /\ age[cache.row] + cache.left < TooOld
      BY <2>1, <2>3 DEF Inv, CacheInv, BoundedStaleness
    <3> QED
      BY <1>3, <2>1, <3>3, <3>4, LongestIsLongest DEF CacheInv, BoundedStaleness
  <2> QED
    BY <2>1, <2>2, <2>3
<1>9. CurrentInv' /\ WaitInv'
  BY <1>2 DEF Inv, CurrentInv, WaitInv, Tick
<1>10. TypeOK'
  BY <1>4, <1>5, <1>7, <1>8 DEF Inv, TypeOK, Tick
<1> QED
  BY <1>6, <1>7, <1>8, <1>9, <1>10 DEF Inv

-----------------------------------------------------------------------------

LEMMA InitInv == Init => Inv
<1> SUFFICES ASSUME Init PROVE Inv
  OBVIOUS
<1>1. 0 \in 0 .. TooOld
  BY LongestIsLongest
<1>2. TypeOK
  BY <1>1, NoFlightType, NoEntryType DEF Init, TypeOK, Row
<1>3. CurrentInv /\ ReplyInv /\ WriteInv /\ CacheInv /\ BoundedStaleness /\ WaitInv
  BY NoFlightType, NoEntryType DEF Init, CurrentInv, ReplyInv, WriteInv, CacheInv,
     BoundedStaleness, WaitInv
<1> QED
  BY <1>2, <1>3 DEF Inv

LEMMA NextKeeps == Inv /\ [Next]_vars => Inv'
<1> SUFFICES ASSUME Inv, [Next]_vars PROVE Inv'
  OBVIOUS
<1>1. CASE \E c \in Caller, n \in Process : Miss(c, n) \/ GiveUp(c, n)
  BY <1>1, MissKeeps, GiveUpKeeps
<1>2. CASE \E n \in Process : Query(n) \/ Reply(n) \/ LoadFails(n)
  BY <1>2, QueryKeeps, ReplyKeeps, LoadFailsKeeps
<1>3. CASE \E w \in Write : SetCache(w) \/ SetCacheFails(w)
  BY <1>3, SetCacheKeeps, OtherStepsKeep
<1>4. CASE \E a \in Admin : AdminNext(a)
  BY <1>4, SetCapacityKeeps, TruncateKeeps, OtherStepsKeep DEF AdminNext
<1>5. CASE Outage
  BY <1>5, OtherStepsKeep
<1>6. CASE Tick
  BY <1>6, TickKeeps
<1>7. CASE UNCHANGED vars
  BY <1>7 DEF vars, load, Inv, TypeOK, CurrentInv, ReplyInv, WriteInv, CacheInv,
     BoundedStaleness, WaitInv
<1> QED
  BY <1>1, <1>2, <1>3, <1>4, <1>5, <1>6, <1>7 DEF Next

\* What a step may do to the callers that wait.
Independent ==
    \A n \in Process :
        (failed' \ failed) \cap waiting[n] # {} => outage \/ flight[n].left = 0

\* Only a failing load adds to the failed, and those it adds wait for no other.
LEMMA StepIsIndependent == Inv /\ [Next]_vars => Independent
<1> SUFFICES ASSUME Inv, [Next]_vars, NEW n \in Process,
                    NEW c \in (failed' \ failed) \cap waiting[n]
             PROVE  outage \/ flight[n].left = 0
  BY DEF Independent
<1>1. CASE \E m \in Process : LoadFails(m)
  <2>1. PICK m \in Process : LoadFails(m)
    BY <1>1
  <2>2. c \in waiting[m]
    BY <2>1 DEF LoadFails, Deliver
  <2>3. n = m
    BY <2>2 DEF Inv, WaitInv
  <2> QED
    BY <2>1, <2>3 DEF LoadFails
<1>2. CASE ~ \E m \in Process : LoadFails(m)
  <2>1. failed' \subseteq failed
    BY <1>2 DEF Next, AdminNext, vars, load, Miss, GiveUp, Leave, Query, Reply, Deliver, SetCache,
       SetCacheFails, SetCapacity, Invalidate, Truncate, FlushDB, AdminFails, Outage, Tick
  <2> QED
    BY <2>1
<1> QED
  BY <1>1, <1>2

-----------------------------------------------------------------------------
(* The theorems.                                                           *)

\* Every reachable state is well typed: a missing row is never written to the
\* cache by SetCache.
THEOREM TypeCorrect == Spec => []TypeOK
<1>1. Inv => TypeOK
  BY DEF Inv
<1> QED
  BY <1>1, InitInv, NextKeeps, PTL DEF Spec

\* However loads, SetCache goroutines, invalidations and flushes interleave, a
\* cached event is outdated for less than the three deadlines together.
THEOREM StalenessIsBounded == Spec => []BoundedStaleness
<1>1. Inv => BoundedStaleness
  BY DEF Inv
<1> QED
  BY <1>1, InitInv, NextKeeps, PTL DEF Spec

\* No caller of GetEvent is failed by the departure of another one.
THEOREM LoadsOutliveCallers == Spec => OnlyOwnCancellation
<1>1. Inv /\ [Next]_vars => [Independent]_vars
  BY StepIsIndependent
<1>2. OnlyOwnCancellation <=> [][Independent]_vars
  BY DEF OnlyOwnCancellation, Independent
<1> QED
  BY <1>1, <1>2, InitInv, NextKeeps, PTL DEF Spec
=============================================================================
