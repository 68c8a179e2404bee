------------------------ MODULE VirtualQueueProofs ------------------------
(***************************************************************************)
(* Proofs about VirtualQueue, for any number of users, calls and promoters *)
(* and every gate and time to live: type correctness, the gate             *)
(* (AdmissionsFitGate), the tracking of queued events                      *)
(* (QueuedEventIsTracked), and the order of the queue (QueueInOrder,       *)
(* LiveWaitersAreQueued, SeniorityRespected), and who is queued while      *)
(* holding a slot (OnlyEnqueueRequeuesHolder).                             *)
(***************************************************************************)
EXTENDS VirtualQueue, FiniteSetTheorems, SequenceTheorems, WellFoundedInduction, TLAPS

-----------------------------------------------------------------------------
(* What the scripts compute.                                               *)

\* A non-empty set of numbers with a bound has a largest element.
LEMMA LargestElement ==
    ASSUME NEW S \in SUBSET Nat, S # {}, NEW b \in Nat, \A x \in S : x <= b
    PROVE  \E m \in S : \A x \in S : x <= m
<1> DEFINE T == {b - x : x \in S}
<1>1. T \subseteq Nat /\ T # {}
  <2>1. \A x \in S : b - x \in Nat
    OBVIOUS
  <2>2. PICK x \in S : TRUE
    OBVIOUS
  <2>3. b - x \in T
    BY <2>2
  <2> QED
    BY <2>1, <2>3
<1>2. \E t \in T : \A y \in T : ~(<<y, t>> \in OpToRel(<, Nat))
  <2> HIDE DEF T
  <2> QED  BY <1>1, NatLessThanWellFounded, WFMin
<1>3. PICK t \in T : \A y \in T : ~(y < t)
  BY <1>1, <1>2 DEF OpToRel
<1>4. PICK m \in S : t = b - m
  BY <1>3
<1>5. \A x \in S : ~(b - x < t)
  BY <1>3
<1> QED
  BY <1>4, <1>5

\* The places of the queue that have some property are at most its length.
LEMMA PlacesFinite ==
    ASSUME NEW S, NEW q \in Seq(S), NEW I \in SUBSET DOMAIN q
    PROVE  IsFiniteSet(I) /\ Cardinality(I) \in 0 .. Len(q)
<1>1. DOMAIN q = 1 .. Len(q) /\ Len(q) \in Nat
  BY LenProperties
<1>2. 1 \in Int /\ Len(q) \in Int
  BY <1>1
<1>3. /\ IsFiniteSet(1 .. Len(q))
      /\ Cardinality(1 .. Len(q)) = IF 1 > Len(q) THEN 0 ELSE Len(q) - 1 + 1
  BY <1>2, FS_Interval
<1>4. IsFiniteSet(I) /\ Cardinality(I) <= Cardinality(1 .. Len(q))
  BY <1>1, <1>3, FS_Subset
<1>5. Cardinality(I) \in Nat
  BY <1>4, FS_CardinalityType
<1>6. Cardinality(1 .. Len(q)) <= Len(q)
  BY <1>1, <1>3
<1> QED
  BY <1>1, <1>3, <1>4, <1>5, <1>6

\* A tail of the queue is a queue, and the tail of an empty one is empty.
LEMMA TailType ==
    ASSUME NEW S, NEW q \in Seq(S), NEW I \in SUBSET DOMAIN q
    PROVE  /\ SubSeq(q, Cardinality(I) + 1, Len(q)) \in Seq(S)
           /\ q = <<>> => SubSeq(q, Cardinality(I) + 1, Len(q)) = <<>>
<1>1. Cardinality(I) \in 0 .. Len(q) /\ Len(q) \in Nat
  BY PlacesFinite, LenProperties
<1>2. \A i \in (Cardinality(I) + 1) .. Len(q) : q[i] \in S
  BY <1>1, ElementOfSeq
<1>3. SubSeq(q, Cardinality(I) + 1, Len(q)) \in Seq(S)
  BY <1>1, <1>2, SubSeqProperties
<1>4. ASSUME q = <<>> PROVE SubSeq(q, Cardinality(I) + 1, Len(q)) = <<>>
  <2>1. Len(q) = 0
    BY <1>4, EmptySeq
  <2>2. Cardinality(I) = 0
    BY <1>1, <2>1
  <2>3. Len(SubSeq(q, Cardinality(I) + 1, Len(q))) = 0
    BY <1>2, <2>1, <2>2, SubSeqProperties
  <2> QED
    BY <1>3, <2>3, EmptySeq
<1> QED
  BY <1>3, <1>4

\* The purge leaves a queue, and an empty one empty.
LEMMA PurgedType ==
    ASSUME NEW S, NEW q \in Seq(S)
    PROVE  Purged(q) \in Seq(S) /\ (q = <<>> => Purged(q) = <<>>)
BY TailType DEF Purged

\* So does ZREM.
LEMMA WithoutType ==
    ASSUME NEW S, NEW q \in Seq(S), NEW u
    PROVE  Without(q, u) \in Seq(S) /\ (q = <<>> => Without(q, u) = <<>>)
<1>1. CASE ~ \E i \in DOMAIN q : q[i] = u
  BY <1>1 DEF Without
<1>2. CASE \E i \in DOMAIN q : q[i] = u
  <2> DEFINE i == CHOOSE i \in DOMAIN q : q[i] = u
  <2>1. i \in DOMAIN q
    BY <1>2
  <2>2. i \in 1 .. Len(q) /\ Len(q) \in Nat
    BY <2>1, LenProperties
  <2>3. Without(q, u) = SubSeq(q, 1, i - 1) \o SubSeq(q, i + 1, Len(q))
    BY <1>2 DEF Without
  <2> HIDE DEF i
  <2>4. \A j \in 1 .. Len(q) : q[j] \in S
    BY ElementOfSeq
  <2>5. SubSeq(q, 1, i - 1) \in Seq(S)
    BY <2>2, <2>4, SubSeqProperties
  <2>6. SubSeq(q, i + 1, Len(q)) \in Seq(S)
    BY <2>2, <2>4, SubSeqProperties
  <2>7. q # <<>>
    BY <2>2, EmptySeq
  <2> QED
    BY <2>3, <2>5, <2>6, <2>7, ConcatProperties
<1> QED
  BY <1>1, <1>2

\* ZADD leaves a queue with somebody in it.
LEMMA AddedType ==
    ASSUME NEW S, NEW q \in Seq(S), NEW u \in S
    PROVE  Added(q, u) \in Seq(S) /\ Added(q, u) # <<>>
<1> DEFINE others == Without(q, u)
           k == Rank(others, u)
<1>1. others \in Seq(S)
  BY WithoutType
<1>2. Added(q, u) = SubSeq(others, 1, k) \o <<u>> \o SubSeq(others, k + 1, Len(others))
  BY DEF Added
<1> HIDE DEF others
<1>3. k \in 0 .. Len(others) /\ Len(others) \in Nat
  BY <1>1, PlacesFinite, LenProperties DEF Rank
<1> HIDE DEF k
<1>4. \A j \in 1 .. Len(others) : others[j] \in S
  BY <1>1, ElementOfSeq
<1>5. SubSeq(others, 1, k) \in Seq(S)
  BY <1>3, <1>4, SubSeqProperties
<1>6. SubSeq(others, k + 1, Len(others)) \in Seq(S)
  BY <1>3, <1>4, SubSeqProperties
<1>7. <<u>> \in Seq(S) /\ Len(<<u>>) = 1
  OBVIOUS
<1>8. /\ SubSeq(others, 1, k) \o <<u>> \in Seq(S)
      /\ Len(SubSeq(others, 1, k) \o <<u>>) = Len(SubSeq(others, 1, k)) + 1
  BY <1>5, <1>7, ConcatProperties
<1>9. /\ Added(q, u) \in Seq(S)
      /\ Len(Added(q, u)) = Len(SubSeq(others, 1, k) \o <<u>>)
                            + Len(SubSeq(others, k + 1, Len(others)))
  BY <1>2, <1>6, <1>8, ConcatProperties
<1>10. Len(SubSeq(others, 1, k)) \in Nat /\ Len(SubSeq(others, k + 1, Len(others))) \in Nat
  BY <1>5, <1>6, LenProperties
<1> QED
  BY <1>8, <1>9, <1>10, EmptySeq

\* The script takes at most n users that are alive: all of them but the last
\* one stand before that one, where fewer than n are alive.
LEMMA AdmittedBound ==
    ASSUME queue \in Seq(User), NEW n \in Nat
    PROVE  /\ Admitted(n) \subseteq User
           /\ IsFiniteSet(Admitted(n)) /\ Cardinality(Admitted(n)) <= n
           /\ n = 0 => Admitted(n) = {}
<1> DEFINE A == Alive \cap Scanned(n)
<1>1. DOMAIN queue = 1 .. Len(queue) /\ Len(queue) \in Nat
  BY LenProperties
<1>2. A \subseteq DOMAIN queue /\ Alive \subseteq DOMAIN queue
  BY DEF Alive
<1>3. IsFiniteSet(A) /\ Cardinality(A) \in Nat
  BY <1>1, <1>2, PlacesFinite
<1>4. \A i \in A : Cardinality({j \in Alive : j < i}) < n
  BY DEF Scanned
<1>5. Admitted(n) = {queue[i] : i \in A}
  BY DEF Admitted
<1> HIDE DEF A
<1>6. \A i \in A : {j \in Alive : j < i} \subseteq DOMAIN queue
  BY <1>2
<1>7. \A i \in A : /\ IsFiniteSet({j \in Alive : j < i})
                   /\ Cardinality({j \in Alive : j < i}) \in Nat
  BY <1>1, <1>6, PlacesFinite
<1>8. Cardinality(A) <= n
  <2>1. CASE A = {}
    BY <2>1, FS_EmptySet
  <2>2. CASE A # {}
    <3>1. A \in SUBSET Nat /\ \A x \in A : x <= Len(queue)
      BY <1>1, <1>2
    <3>2. PICK m \in A : \A x \in A : x <= m
      BY <1>1, <2>2, <3>1, LargestElement
    <3> DEFINE B == {j \in Alive : j < m}
    <3>3. A \subseteq B \cup {m}
      <4>1. A \subseteq Alive
        BY DEF A
      <4> QED
        BY <3>1, <3>2, <4>1
    <3>4. IsFiniteSet(B) /\ Cardinality(B) \in Nat /\ Cardinality(B) < n
      BY <1>4, <1>7
    <3> HIDE DEF B
    <3>5. /\ IsFiniteSet(B \cup {m})
          /\ Cardinality(B \cup {m}) = IF m \in B THEN Cardinality(B) ELSE Cardinality(B) + 1
      BY <3>4, FS_AddElement
    <3>6. Cardinality(A) <= Cardinality(B \cup {m})
      BY <3>3, <3>5, FS_Subset
    <3> QED
      BY <1>3, <3>4, <3>5, <3>6
  <2> QED
    BY <2>1, <2>2
<1>9. IsFiniteSet(Admitted(n)) /\ Cardinality(Admitted(n)) <= Cardinality(A)
  <2> DEFINE f == [i \in A |-> queue[i]]
  <2>1. f \in Surjection(A, Admitted(n))
    BY <1>5 DEF Surjection
  <2> QED
    BY <1>3, <2>1, FS_Surjection
<1>10. Cardinality(Admitted(n)) \in Nat
  BY <1>9, FS_CardinalityType
<1>11. Admitted(n) \subseteq User
  BY <1>1, <1>2, <1>5, ElementOfSeq
<1>12. ASSUME n = 0 PROVE Admitted(n) = {}
  <2>1. \A i \in A : FALSE
    <3> SUFFICES ASSUME NEW i \in A PROVE FALSE
      OBVIOUS
    <3>1. Cardinality({j \in Alive : j < i}) \in Nat /\ Cardinality({j \in Alive : j < i}) < n
      BY <1>4, <1>7
    <3> QED
      BY <1>12, <3>1
  <2> QED
    BY <1>5, <2>1
<1> QED
  BY <1>3, <1>8, <1>9, <1>10, <1>11, <1>12

\* The users with a slot are finitely many.
LEMMA WhitelistedFinite ==
    /\ IsFiniteSet(Whitelisted) /\ Cardinality(Whitelisted) \in Nat
    /\ IsFiniteSet(Whitelisted') /\ Cardinality(Whitelisted') \in Nat
<1>1. Whitelisted \subseteq User /\ Whitelisted' \subseteq User
  BY DEF Whitelisted
<1> QED
  BY <1>1, UserAssumption, FS_Subset, FS_CardinalityType

\* What the promotion script grants fits the room it computes itself.
LEMMA GrantBound ==
    ASSUME TypeOK, NEW d \in Nat
    PROVE  /\ Grant(d) \in Nat
           /\ Grant(d) # 0 => Cardinality(Whitelisted) + Grant(d) <= Gate
           /\ Gate \in Nat
<1>1. Gate \in Nat
  BY GateAssumption DEF TypeOK, Gate
<1>2. Cardinality(Whitelisted) \in Nat
  BY WhitelistedFinite
<1> QED
  BY <1>1, <1>2 DEF Grant

\* The promotion script keeps the types, never makes an empty queue non-empty,
\* and where it admits somebody the slots in use fit the gate.
LEMMA TryWhitelistEffect ==
    ASSUME TypeOK, NEW d \in Nat, TryWhitelist(d)
    PROVE  /\ queue' \in Seq(User)
           /\ queue' # <<>> => queue # <<>>
           /\ heartbeat' \in [User -> 0 .. HeartbeatTTL]
           /\ whitelist' \in [User -> 0 .. WhitelistTTL]
           /\ Whitelisted' \ Whitelisted # {} => Cardinality(Whitelisted') <= Gate
<1> DEFINE n == Grant(d)
<1>1. n \in Nat /\ Gate \in Nat /\ (n # 0 => Cardinality(Whitelisted) + n <= Gate)
  BY GrantBound
<1>2. queue \in Seq(User)
  BY DEF TypeOK
<1>3. /\ queue' = SubSeq(queue, Cardinality(Scanned(n)) + 1, Len(queue))
      /\ whitelist' = [u \in User |-> IF u \in Admitted(n) THEN WhitelistTTL
                                      ELSE whitelist[u]]
      /\ heartbeat' = [u \in User |-> IF u \in Admitted(n) THEN 0 ELSE heartbeat[u]]
  BY DEF TryWhitelist
<1> HIDE DEF n
<1>4. Scanned(n) \in SUBSET DOMAIN queue
  BY DEF Scanned
<1>5. queue' \in Seq(User)
  BY <1>2, <1>3, <1>4, TailType
<1>6. queue = <<>> => queue' = <<>>
  BY <1>2, <1>3, <1>4, TailType
<1>7. /\ heartbeat' \in [User -> 0 .. HeartbeatTTL]
      /\ whitelist' \in [User -> 0 .. WhitelistTTL]
  <2>1. /\ heartbeat \in [User -> 0 .. HeartbeatTTL]
        /\ whitelist \in [User -> 0 .. WhitelistTTL]
    BY DEF TypeOK
  <2> QED
    BY <1>3, <2>1, TTLAssumption
<1>8. /\ Admitted(n) \subseteq User
      /\ IsFiniteSet(Admitted(n)) /\ Cardinality(Admitted(n)) <= n
      /\ n = 0 => Admitted(n) = {}
  BY <1>1, <1>2, AdmittedBound
<1>9. Whitelisted' = Whitelisted \cup Admitted(n)
  <2>1. WhitelistTTL > 0
    BY TTLAssumption
  <2>2. \A u \in User : whitelist'[u] > 0 <=> whitelist[u] > 0 \/ u \in Admitted(n)
    BY <1>3, <2>1
  <2> QED
    BY <1>8, <2>2 DEF Whitelisted
<1>10. ASSUME Whitelisted' \ Whitelisted # {} PROVE Cardinality(Whitelisted') <= Gate
  <2>1. n # 0
    BY <1>8, <1>9, <1>10
  <2>2. /\ IsFiniteSet(Whitelisted) /\ Cardinality(Whitelisted) \in Nat
        /\ Cardinality(Whitelisted') \in Nat
    BY WhitelistedFinite
  <2>3. Cardinality(Admitted(n)) \in Nat
    BY <1>8, FS_CardinalityType
  <2>4. IsFiniteSet(Whitelisted \cap Admitted(n))
    BY <2>2, FS_Subset
  <2>5. Cardinality(Whitelisted \cap Admitted(n)) \in Nat
    BY <2>4, FS_CardinalityType
  <2>6. Cardinality(Whitelisted') = Cardinality(Whitelisted) + Cardinality(Admitted(n))
                                    - Cardinality(Whitelisted \cap Admitted(n))
    BY <1>8, <1>9, <2>2, FS_Union
  <2> QED
    BY <1>1, <1>8, <2>1, <2>2, <2>3, <2>5, <2>6
<1> QED
  BY <1>5, <1>6, <1>7, <1>10

-----------------------------------------------------------------------------
(* The invariant.                                                          *)

\* The user of a call that is about to run its script is known.
CallInv == \A c \in Call : call[c].pc = "enqueue" => call[c].user \in User

Inv == TypeOK /\ CallInv /\ QueuedEventIsTracked

\* The states a call or a promoter can be put into.
LEMMA StateTypes ==
    /\ IdleCall \in CallState /\ IdleCall.pc = "idle"
    /\ \A u \in User, pc \in {"enqueue", "track", "promote"}, f \in BOOLEAN :
          [pc |-> pc, user |-> u, fresh |-> f] \in CallState
    /\ IdlePromoter \in PromoterState
BY DEF IdleCall, CallState, IdlePromoter, PromoterState

\* One second less is a time to live.
LEMMA LessType ==
    ASSUME NEW n \in Nat, NEW ttl \in [User -> 0 .. n]
    PROVE  /\ Less(ttl) \in [User -> 0 .. n]
           /\ \A u \in User : Less(ttl)[u] > 0 => ttl[u] > 0
<1>1. \A u \in User : ttl[u] \in 0 .. n
  OBVIOUS
<1> QED
  BY <1>1 DEF Less

\* A step in which a call goes to an ordinary state, and the rest of the
\* invariant is known, keeps the invariant.
LEMMA CallStep ==
    ASSUME Inv, NEW c \in Call, NEW st \in CallState,
           call' = [call EXCEPT ![c] = st],
           st.pc = "enqueue" => st.user \in User,
           queue' \in Seq(User),
           life' \in [User -> 0 .. QueueTTL],
           heartbeat' \in [User -> 0 .. HeartbeatTTL],
           whitelist' \in [User -> 0 .. WhitelistTTL],
           active' \in BOOLEAN, override' = override, promoter' = promoter,
           lost' \in BOOLEAN,
           \/ st.pc = "track" 
           \/ active' 
           \/ lost'
           \/ /\ queue' # <<>> => queue # <<>>
              /\ active' = active /\ lost' = lost
              /\ call[c].pc # "track"
    PROVE  Inv'
<1>1. call \in [Call -> CallState]
  BY DEF Inv, TypeOK
<1>2. call'[c] = st /\ \A d \in Call \ {c} : call'[d] = call[d]
  BY <1>1
<1>3. call' \in [Call -> CallState]
  BY <1>1
<1>4. TypeOK'
  BY <1>3 DEF Inv, TypeOK
<1>5. CallInv'
  BY <1>2 DEF Inv, CallInv
<1>6. QueuedEventIsTracked'
  BY <1>2 DEF Inv, QueuedEventIsTracked
<1> QED
  BY <1>4, <1>5, <1>6 DEF Inv

\* A step of a promoter that leaves the calls and the tracking alone.
LEMMA PromoterStep ==
    ASSUME Inv, NEW p \in Promoter, NEW st \in PromoterState, Goes(p, st),
           UNCHANGED <<life, override, call, lost>>,
           queue' \in Seq(User), queue' # <<>> => queue # <<>>,
           heartbeat' \in [User -> 0 .. HeartbeatTTL],
           whitelist' \in [User -> 0 .. WhitelistTTL],
           active' \in BOOLEAN, queue' # <<>> => active' = active
    PROVE  Inv'
<1>1. promoter' \in [Promoter -> PromoterState]
  BY DEF Inv, TypeOK, Goes
<1>2. TypeOK'
  BY <1>1 DEF Inv, TypeOK
<1>3. CallInv' /\ QueuedEventIsTracked'
  BY DEF Inv, CallInv, QueuedEventIsTracked
<1> QED
  BY <1>2, <1>3 DEF Inv

\* What AdmissionsFitGate says of a step.
Fits == Whitelisted' \ Whitelisted # {} => Cardinality(Whitelisted') <= Gate

\* A step after which nobody has a slot who had none.
LEMMA NobodyNew ==
    ASSUME \A u \in User : whitelist'[u] > 0 => whitelist[u] > 0
    PROVE  Fits
BY DEF Fits, Whitelisted

\* The steps of the calls keep the invariant and the gate.
LEMMA CallsKeep ==
    ASSUME Inv, NEW c \in Call, CallNext(c)
    PROVE  Inv' /\ Fits
<1> USE DEF redis
<1>1. /\ TypeOK /\ CallInv /\ QueuedEventIsTracked
      /\ call[c] \in CallState /\ call[c].pc \in {"idle", "enqueue", "track", "promote"}
      /\ queue \in Seq(User)
      /\ life \in [User -> 0 .. QueueTTL]
      /\ heartbeat \in [User -> 0 .. HeartbeatTTL]
      /\ whitelist \in [User -> 0 .. WhitelistTTL]
      /\ active \in BOOLEAN /\ lost \in BOOLEAN
  BY DEF Inv, TypeOK, CallState
<1>2. ASSUME NEW u \in User, EnqueueCheck(c, u) PROVE Inv' /\ Fits
  <2> DEFINE st == [pc |-> "enqueue", user |-> u, fresh |-> FALSE]
  <2>1. st \in CallState /\ st.pc = "enqueue" /\ st.user \in User
    BY StateTypes
  <2>2. call' = [call EXCEPT ![c] = st] /\ call[c].pc = "idle" /\ UNCHANGED <<redis, promoter, lost>>
    BY <1>2 DEF EnqueueCheck
  <2> HIDE DEF st
  <2>3. Inv'
    BY <1>1, <2>1, <2>2, CallStep
  <2> QED
    BY <2>2, <2>3, NobodyNew
<1>3. ASSUME NEW u \in User, Dequeue(c, u) PROVE Inv' /\ Fits
  <2> DEFINE st == IF whitelist[u] > 0 THEN [pc |-> "promote", user |-> u, fresh |-> FALSE]
                   ELSE IdleCall
  <2>1. st \in CallState /\ st.pc # "enqueue"
    BY StateTypes
  <2>2. /\ call' = [call EXCEPT ![c] = st] /\ call[c].pc = "idle"
        /\ queue' = Without(queue, u)
        /\ whitelist' = [whitelist EXCEPT ![u] = 0]
        /\ heartbeat' = [heartbeat EXCEPT ![u] = 0]
        /\ UNCHANGED <<life, active, override, promoter, lost>>
    BY <1>3 DEF Dequeue
  <2> HIDE DEF st
  <2>3. queue' \in Seq(User) /\ (queue' # <<>> => queue # <<>>)
    BY <1>1, <2>2, WithoutType
  <2>4. /\ whitelist' \in [User -> 0 .. WhitelistTTL]
        /\ heartbeat' \in [User -> 0 .. HeartbeatTTL]
        /\ \A v \in User : whitelist'[v] > 0 => whitelist[v] > 0
    BY <1>1, <2>2, TTLAssumption
  <2>5. Inv'
    BY <1>1, <2>1, <2>2, <2>3, <2>4, CallStep
  <2> QED
    BY <2>4, <2>5, NobodyNew
<1>4. ASSUME NEW u \in User, ReleaseSlot(c, u) PROVE Inv' /\ Fits
  <2> DEFINE st == [pc |-> "promote", user |-> u, fresh |-> FALSE]
  <2>1. st \in CallState /\ st.pc # "enqueue"
    BY StateTypes
  <2>2. /\ call' = [call EXCEPT ![c] = st] /\ call[c].pc = "idle"
        /\ whitelist' = [whitelist EXCEPT ![u] = 0]
        /\ UNCHANGED <<queue, life, heartbeat, active, override, promoter, lost>>
    BY <1>4 DEF ReleaseSlot
  <2> HIDE DEF st
  <2>3. /\ whitelist' \in [User -> 0 .. WhitelistTTL]
        /\ \A v \in User : whitelist'[v] > 0 => whitelist[v] > 0
    BY <1>1, <2>2, TTLAssumption
  <2>4. Inv'
    BY <1>1, <2>1, <2>2, <2>3, CallStep
  <2> QED
    BY <2>3, <2>4, NobodyNew
<1>5. CASE EnqueueScript(c)
  <2> DEFINE u == call[c].user
             st(f) == [pc |-> "track", user |-> u, fresh |-> f]
  <2>1. u \in User
    BY <1>1, <1>5 DEF EnqueueScript, CallInv
  <2>2. \A f \in BOOLEAN : st(f) \in CallState /\ st(f).pc = "track"
    BY <2>1, StateTypes
  <2>3. UNCHANGED <<whitelist, active, override, promoter, lost>>
    BY <1>5 DEF EnqueueScript
  <2>4. \/ /\ queue' = Added(Purged(queue), u)
           /\ life' = [life EXCEPT ![u] = QueueTTL]
           /\ heartbeat' = [heartbeat EXCEPT ![u] = HeartbeatTTL]
           /\ call' = [call EXCEPT ![c] = st(TRUE)]
        \/ /\ queue' = Purged(queue)
           /\ call' = [call EXCEPT ![c] = st(FALSE)]
           /\ UNCHANGED <<life, heartbeat>>
    BY <1>5 DEF EnqueueScript
  <2> HIDE DEF u
  <2>5. PICK f \in BOOLEAN : call' = [call EXCEPT ![c] = st(f)]
    BY <2>4
  <2>6. st(f) \in CallState /\ st(f).pc = "track"
    BY <2>2
  <2> HIDE DEF st
  <2>7. Purged(queue) \in Seq(User)
    BY <1>1, PurgedType
  <2>8. Added(Purged(queue), u) \in Seq(User)
    BY <2>1, <2>7, AddedType
  <2>9. /\ queue' \in Seq(User)
        /\ life' \in [User -> 0 .. QueueTTL]
        /\ heartbeat' \in [User -> 0 .. HeartbeatTTL]
    <3>1. QueueTTL \in 0 .. QueueTTL /\ HeartbeatTTL \in 0 .. HeartbeatTTL
      BY TTLAssumption
    <3>2. queue' \in Seq(User)
      BY <2>4, <2>7, <2>8
    <3>3. life' \in [User -> 0 .. QueueTTL]
      BY <1>1, <2>1, <2>4, <3>1
    <3>4. heartbeat' \in [User -> 0 .. HeartbeatTTL]
      BY <1>1, <2>1, <2>4, <3>1
    <3> QED
      BY <3>2, <3>3, <3>4
  <2>10. Inv'
    BY <1>1, <2>3, <2>5, <2>6, <2>9, CallStep
  <2> QED
    BY <2>3, <2>10, NobodyNew
<1>6. ASSUME EnqueueTrack(c) \/ EnqueueTrackFails(c) PROVE Inv' /\ Fits
  <2> DEFINE st == IF call[c].fresh THEN [pc |-> "promote", user |-> call[c].user, fresh |-> FALSE]
                   ELSE IdleCall
  <2>1. call' = [call EXCEPT ![c] = st] /\ UNCHANGED <<queue, life, heartbeat, whitelist, override, promoter>>
    BY <1>6 DEF EnqueueTrack, EnqueueTrackFails, Tracked
  <2>2. st \in CallState /\ st.pc # "enqueue"
    BY <1>1, StateTypes DEF CallState
  <2> HIDE DEF st
  <2>3. active' \in BOOLEAN /\ lost' \in BOOLEAN /\ (active' \/ lost')
    BY <1>1, <1>6 DEF EnqueueTrack, EnqueueTrackFails
  <2>4. Inv'
    BY <1>1, <2>1, <2>2, <2>3, CallStep
  <2> QED
    BY <2>1, <2>4, NobodyNew
<1>7. CASE Promote(c)
  <2>1. /\ TryWhitelist(1) /\ call[c].pc = "promote"
        /\ call' = [call EXCEPT ![c] = IdleCall]
        /\ UNCHANGED <<life, active, override, promoter, lost>>
    BY <1>7 DEF Promote
  <2>2. /\ queue' \in Seq(User)
        /\ queue' # <<>> => queue # <<>>
        /\ heartbeat' \in [User -> 0 .. HeartbeatTTL]
        /\ whitelist' \in [User -> 0 .. WhitelistTTL]
        /\ Whitelisted' \ Whitelisted # {} => Cardinality(Whitelisted') <= Gate
    BY <1>1, <2>1, TryWhitelistEffect
  <2>3. Inv'
    BY <1>1, <2>1, <2>2, StateTypes, CallStep
  <2> QED
    BY <2>2, <2>3 DEF Fits
<1>8. CASE CallAbandoned(c)
  <2>1. /\ call' = [call EXCEPT ![c] = IdleCall] /\ UNCHANGED <<redis, promoter>>
        /\ lost' = (lost \/ (call[c].pc = "track" /\ ~active))
    BY <1>8 DEF CallAbandoned
  <2>2. lost' \in BOOLEAN
    BY <2>1
  <2>3. \/ active' \/ lost' \/ (lost' = lost /\ call[c].pc # "track")
    BY <1>1, <2>1
  <2>4. Inv'
    BY <1>1, <2>1, <2>2, <2>3, StateTypes, CallStep
  <2> QED
    BY <2>1, <2>4, NobodyNew
<1> QED
  BY <1>2, <1>3, <1>4, <1>5, <1>6, <1>7, <1>8 DEF CallNext

\* So do the steps of the promoters: what they read may be stale, but the
\* script they call looks again.
LEMMA PromotersKeep ==
    ASSUME Inv, NEW p \in Promoter, PromoterSteps(p) \/ PromoterMisreads(p) \/ PromoterFails(p)
    PROVE  Inv' /\ Fits
<1> USE DEF redis
<1>1. /\ TypeOK
      /\ promoter[p] \in PromoterState
      /\ promoter[p].queued \in Nat /\ promoter[p].whitelisted \in Nat /\ promoter[p].free \in Nat
      /\ queue \in Seq(User) /\ Len(queue) \in Nat
      /\ heartbeat \in [User -> 0 .. HeartbeatTTL]
      /\ whitelist \in [User -> 0 .. WhitelistTTL]
      /\ active \in BOOLEAN
  BY LenProperties DEF Inv, TypeOK, PromoterState
<1>2. Cardinality(Whitelisted) \in Nat
  BY WhitelistedFinite
<1>3. Gate \in Nat
  BY <1>1, GateAssumption DEF TypeOK, Gate
<1>4. ASSUME NEW st \in PromoterState, Goes(p, st), UNCHANGED <<redis, call, lost>>
      PROVE  Inv' /\ Fits
  <2>1. Inv'
    BY <1>1, <1>4, PromoterStep
  <2> QED
    BY <1>4, <2>1, NobodyNew
<1>5. CASE PromoterScan(p)
  <2> DEFINE st == [IdlePromoter EXCEPT !.pc = "zcard"]
  <2>1. st \in PromoterState
    BY DEF IdlePromoter, PromoterState
  <2>2. Goes(p, st) /\ UNCHANGED <<redis, call, lost>>
    BY <1>5 DEF PromoterScan
  <2> HIDE DEF st
  <2> QED
    BY <1>4, <2>1, <2>2
<1>6. CASE PromoterZCard(p)
  <2> DEFINE st == IF Len(queue) = 0
               THEN [IdlePromoter EXCEPT !.pc = "untrack"]
               ELSE [IdlePromoter EXCEPT !.pc = "hlen", !.queued = Len(queue)]
  <2>1. st \in PromoterState
    BY <1>1 DEF IdlePromoter, PromoterState
  <2>2. Goes(p, st) /\ UNCHANGED <<redis, call, lost>>
    BY <1>6 DEF PromoterZCard
  <2> HIDE DEF st
  <2> QED
    BY <1>4, <2>1, <2>2
<1>7. CASE PromoterUntrack(p)
  <2>1. /\ Goes(p, IdlePromoter)
        /\ active' = IF StillIdle THEN FALSE ELSE active
        /\ UNCHANGED <<queue, life, heartbeat, whitelist, override, call, lost>>
    BY <1>7 DEF PromoterUntrack
  <2>2. active' \in BOOLEAN /\ (queue' # <<>> => active' = active)
    BY <1>1, <2>1, EmptySeq DEF StillIdle
  <2>3. Inv'
    BY <1>1, <2>1, <2>2, StateTypes, PromoterStep
  <2> QED
    BY <2>1, <2>3, NobodyNew
<1>8. CASE PromoterHLen(p)
  <2> DEFINE st == [promoter[p] EXCEPT !.pc = "get", !.whitelisted = Cardinality(Whitelisted)]
  <2>1. st \in PromoterState
    BY <1>1, <1>2 DEF PromoterState
  <2>2. Goes(p, st) /\ UNCHANGED <<redis, call, lost>>
    BY <1>8 DEF PromoterHLen
  <2> HIDE DEF st
  <2> QED
    BY <1>4, <2>1, <2>2
<1>9. ASSUME NEW gate \in Nat, PromoterReads(p, gate) PROVE Inv' /\ Fits
  <2> DEFINE free == gate - promoter[p].whitelisted
             some == IF free > promoter[p].queued THEN promoter[p].queued ELSE free
             st == IF HasFree(free) THEN [IdlePromoter EXCEPT !.pc = "admit", !.free = some]
                   ELSE IdlePromoter
  <2>1. HasFree(free) => some \in Nat
    BY <1>1 DEF HasFree
  <2>2. Goes(p, st) /\ UNCHANGED <<redis, call, lost>>
    BY <1>9 DEF PromoterReads
  <2> HIDE DEF some, free
  <2>3. st \in PromoterState
    BY <2>1 DEF IdlePromoter, PromoterState
  <2> HIDE DEF st
  <2> QED
    BY <1>4, <2>2, <2>3
<1>10. CASE PromoterAdmit(p)
  <2>1. /\ TryWhitelist(promoter[p].free) /\ Goes(p, IdlePromoter)
        /\ UNCHANGED <<life, active, override, call, lost>>
    BY <1>10 DEF PromoterAdmit
  <2>2. /\ queue' \in Seq(User)
        /\ queue' # <<>> => queue # <<>>
        /\ heartbeat' \in [User -> 0 .. HeartbeatTTL]
        /\ whitelist' \in [User -> 0 .. WhitelistTTL]
        /\ Whitelisted' \ Whitelisted # {} => Cardinality(Whitelisted') <= Gate
    BY <1>1, <2>1, TryWhitelistEffect
  <2>3. Inv'
    BY <1>1, <2>1, <2>2, StateTypes, PromoterStep
  <2> QED
    BY <2>2, <2>3 DEF Fits
<1>11. CASE PromoterFails(p)
  <2>1. Goes(p, IdlePromoter) /\ UNCHANGED <<redis, call, lost>>
    BY <1>11 DEF PromoterFails
  <2> QED
    BY <1>4, <2>1, StateTypes
<1> QED
  BY <1>3, <1>5, <1>6, <1>7, <1>8, <1>9, <1>10, <1>11, GateAssumption
     DEF PromoterSteps, PromoterGet, PromoterMisreads

\* Every step keeps the invariant and the gate.
LEMMA NextKeeps ==
    ASSUME Inv, [Next]_vars
    PROVE  Inv' /\ Fits
<1>1. /\ queue \in Seq(User)
      /\ life \in [User -> 0 .. QueueTTL]
      /\ heartbeat \in [User -> 0 .. HeartbeatTTL]
      /\ whitelist \in [User -> 0 .. WhitelistTTL]
  BY DEF Inv, TypeOK
<1>2. ASSUME NEW u \in User, Ping(u) PROVE Inv' /\ Fits
  <2>1. heartbeat' \in [User -> 0 .. HeartbeatTTL]
    BY <1>1, <1>2, TTLAssumption DEF Ping
  <2>2. UNCHANGED <<queue, life, whitelist, active, override, call, promoter, lost>>
    BY <1>2 DEF Ping
  <2>3. Inv'
    BY <2>1, <2>2 DEF Inv, TypeOK, CallInv, QueuedEventIsTracked
  <2> QED
    BY <2>2, <2>3, NobodyNew
<1>3. ASSUME NEW g \in Overrides \cup {0}, SetOverride(g) PROVE Inv' /\ Fits
  <2>1. /\ UNCHANGED <<queue, life, heartbeat, whitelist, active, call, promoter, lost>>
        /\ override' \in Overrides \cup {0}
    BY <1>3 DEF SetOverride
  <2>2. Inv'
    BY <2>1 DEF Inv, TypeOK, CallInv, QueuedEventIsTracked
  <2> QED
    BY <2>1, <2>2, NobodyNew
<1>4. CASE FlushDB
  <2>1. /\ queue' = <<>> /\ active' = FALSE /\ lost' = FALSE /\ override' = 0
        /\ life' = [u \in User |-> 0] /\ heartbeat' = [u \in User |-> 0]
        /\ whitelist' = [u \in User |-> 0] /\ UNCHANGED <<call, promoter>>
    BY <1>4 DEF FlushDB
  <2>2. TypeOK'
    <3>1. <<>> \in Seq(User) /\ 0 \in 0 .. QueueTTL /\ 0 \in 0 .. HeartbeatTTL /\ 0 \in 0 .. WhitelistTTL
      BY TTLAssumption, EmptySeq
    <3> QED
      BY <2>1, <3>1 DEF Inv, TypeOK
  <2>3. CallInv' /\ QueuedEventIsTracked'
    BY <2>1 DEF Inv, CallInv, QueuedEventIsTracked
  <2>4. \A u \in User : whitelist'[u] = 0
    BY <2>1
  <2> QED
    BY <2>2, <2>3, <2>4, NobodyNew DEF Inv
<1>5. CASE Tick
  <2>1. /\ life' = Less(life) /\ heartbeat' = Less(heartbeat) /\ whitelist' = Less(whitelist)
        /\ UNCHANGED <<queue, active, override, call, promoter, lost>>
    BY <1>5 DEF Tick
  <2>2. WhitelistTTL \in Nat /\ HeartbeatTTL \in Nat /\ QueueTTL \in Nat
    BY TTLAssumption
  <2>3. life' \in [User -> 0 .. QueueTTL] /\ heartbeat' \in [User -> 0 .. HeartbeatTTL]
    BY <1>1, <2>1, <2>2, LessType
  <2>4. /\ whitelist' \in [User -> 0 .. WhitelistTTL]
        /\ \A u \in User : whitelist'[u] > 0 => whitelist[u] > 0
    BY <1>1, <2>1, <2>2, LessType
  <2>5. Inv'
    BY <2>1, <2>3, <2>4 DEF Inv, TypeOK, CallInv, QueuedEventIsTracked
  <2> QED
    BY <2>4, <2>5, NobodyNew
<1>6. CASE UNCHANGED vars
  <2>1. UNCHANGED <<queue, life, heartbeat, whitelist, active, override, call, promoter, lost>>
    BY <1>6 DEF vars, redis
  <2>2. Inv'
    BY <2>1 DEF Inv, TypeOK, CallInv, QueuedEventIsTracked
  <2> QED
    BY <2>1, <2>2, NobodyNew
<1> QED
  BY <1>2, <1>3, <1>4, <1>5, <1>6, CallsKeep, PromotersKeep DEF Next

\* The invariant holds in the beginning.
LEMMA InitInv == Init => Inv
<1> SUFFICES ASSUME Init PROVE Inv
  OBVIOUS
<1>1. TypeOK
  <2>1. <<>> \in Seq(User) /\ 0 \in 0 .. QueueTTL /\ 0 \in 0 .. HeartbeatTTL /\ 0 \in 0 .. WhitelistTTL
    BY TTLAssumption, EmptySeq
  <2> QED
    BY <2>1, StateTypes DEF Init, TypeOK
<1>2. CallInv /\ QueuedEventIsTracked
  BY StateTypes DEF Init, CallInv, QueuedEventIsTracked
<1> QED
  BY <1>1, <1>2 DEF Inv

-----------------------------------------------------------------------------
(* The theorems.                                                           *)

\* Every behaviour stays within the types: in particular the promoter never
\* asks TryWhitelistEventQueue for a negative number of slots.
THEOREM TypeCorrect == Spec => []TypeOK
<1>1. Inv /\ [Next]_vars => Inv'
  BY NextKeeps
<1>2. Inv => TypeOK
  BY DEF Inv
<1> QED
  BY <1>1, <1>2, InitInv, PTL DEF Spec

\* Whoever is in the queue, the promoters know of the event or are about to be
\* told, unless a SADD was lost: UntrackIdleEvent is safe against every
\* interleaving with Enqueue.
THEOREM QueuesAreTracked == Spec => []QueuedEventIsTracked
<1>1. Inv /\ [Next]_vars => Inv'
  BY NextKeeps
<1>2. Inv => QueuedEventIsTracked
  BY DEF Inv
<1> QED
  BY <1>1, <1>2, InitInv, PTL DEF Spec

\* No step of tryWhitelistEventQueueLuaScript, whoever calls it with whatever
\* stale count, admits beyond the gate in force.
THEOREM GateHolds == Spec => AdmissionsFitGate
<1>1. Inv /\ [Next]_vars => Inv'
  BY NextKeeps
<1>2. Inv /\ [Next]_vars => [Whitelisted' \ Whitelisted # {} => Cardinality(Whitelisted') <= Gate]_vars
  BY NextKeeps DEF Fits
<1> QED
  BY <1>1, <1>2, InitInv, PTL DEF Spec, AdmissionsFitGate
-----------------------------------------------------------------------------
(* The order of the queue.                                                 *)

\* A set of places that holds with a place all the places before it is an
\* initial segment.
LEMMA InitialSegment ==
    ASSUME NEW n \in Nat, NEW D \in SUBSET (1 .. n),
           \A i \in D, j \in 1 .. n : j < i => j \in D
    PROVE  Cardinality(D) \in 0 .. n /\ D = 1 .. Cardinality(D)
<1>1. \A m \in 0 .. n : Cardinality(1 .. m) = m
  <2> SUFFICES ASSUME NEW m \in 0 .. n PROVE Cardinality(1 .. m) = m
    OBVIOUS
  <2>1. 1 \in Int /\ m \in Int /\ m >= 0
    OBVIOUS
  <2>2. Cardinality(1 .. m) = IF 1 > m THEN 0 ELSE m - 1 + 1
    BY <2>1, FS_Interval
  <2> QED
    BY <2>1, <2>2
<1>2. \E m \in 0 .. n : D = 1 .. m
  <2>1. CASE D = {}
    <3>1. 0 \in 0 .. n /\ 1 .. 0 = {}
      OBVIOUS
    <3> QED
      BY <2>1, <3>1
  <2>2. CASE D # {}
    <3>1. D \in SUBSET Nat /\ \A x \in D : x <= n
      OBVIOUS
    <3>2. PICK m \in D : \A x \in D : x <= m
      BY <2>2, <3>1, LargestElement
    <3>3. m \in 0 .. n /\ m \in 1 .. n
      OBVIOUS
    <3>4. \A j \in 1 .. m : j \in D
      BY <3>2, <3>3
    <3>5. \A j \in D : j \in 1 .. m
      BY <3>2, <3>3
    <3>6. D = 1 .. m
      BY <3>4, <3>5
    <3> QED
      BY <3>3, <3>6
  <2> QED
    BY <2>1, <2>2
<1> QED
  BY <1>1, <1>2

\* The ZSET with the scores l: nobody is in it twice, the scores rise, and of
\* two users with one score the lower member is first.  The scores that have
\* passed are not told apart.
InOrder(q, l) ==
    \A i, j \in DOMAIN q :
        i < j => /\ q[i] # q[j]
                 /\ \/ l[q[i]] < l[q[j]]
                    \/ l[q[i]] = l[q[j]] /\ (l[q[i]] = 0 \/ q[i] < q[j])

\* Leaving users out keeps the order of the others.
LEMMA ThinnedInOrder ==
    ASSUME NEW q, NEW l, NEW t, InOrder(q, l),
           NEW f \in [DOMAIN t -> DOMAIN q],
           \A i \in DOMAIN t : t[i] = q[f[i]],
           \A i, j \in DOMAIN t : i < j => f[i] < f[j]
    PROVE  InOrder(t, l)
<1> SUFFICES ASSUME NEW i \in DOMAIN t, NEW j \in DOMAIN t, i < j
             PROVE  /\ t[i] # t[j]
                    /\ \/ l[t[i]] < l[t[j]]
                       \/ l[t[i]] = l[t[j]] /\ (l[t[i]] = 0 \/ t[i] < t[j])
  BY DEF InOrder
<1>1. f[i] \in DOMAIN q /\ f[j] \in DOMAIN q /\ f[i] < f[j]
  OBVIOUS
<1>2. t[i] = q[f[i]] /\ t[j] = q[f[j]]
  OBVIOUS
<1> QED
  BY <1>1, <1>2 DEF InOrder

\* The places I are at the head of q, and q without them.
AtHead(I, q) == I \in SUBSET DOMAIN q /\ \A i \in I, j \in DOMAIN q : j < i => j \in I
Cut(I, q) == SubSeq(q, Cardinality(I) + 1, Len(q))

\* Cutting the places I off the head of q leaves the users at the others.
LEMMA TailKeeps ==
    ASSUME NEW q \in Seq(User), NEW I, NEW l, NEW t,
           AtHead(I, q), t = Cut(I, q)
    PROVE  /\ \A i \in DOMAIN t : \E j \in DOMAIN q \ I : t[i] = q[j]
           /\ \A j \in DOMAIN q \ I : \E i \in DOMAIN t : t[i] = q[j]
           /\ InOrder(q, l) => InOrder(t, l)
<1> DEFINE k == Cardinality(I)
           n == Len(q)
<1>1. n \in Nat /\ DOMAIN q = 1 .. n
  BY LenProperties
<1>2. k \in 0 .. n /\ I = 1 .. k
  BY <1>1, InitialSegment DEF AtHead
<1>3. t = SubSeq(q, k + 1, n)
  BY DEF Cut
<1>4. \A i \in 1 .. n : q[i] \in User
  BY ElementOfSeq
<1> HIDE DEF k, n
<1>5. /\ t \in Seq(User)
      /\ Len(t) = n - k
      /\ \A i \in 1 .. n - k : t[i] = q[k + i]
  <2>1. k + 1 \in Int /\ n \in Int /\ \A i \in (k + 1) .. n : q[i] \in User
    BY <1>1, <1>2, <1>4
  <2>2. /\ SubSeq(q, k + 1, n) \in Seq(User)
        /\ Len(SubSeq(q, k + 1, n)) = IF k + 1 <= n THEN n - (k + 1) + 1 ELSE 0
        /\ \A i \in 1 .. n - (k + 1) + 1 : SubSeq(q, k + 1, n)[i] = q[k + 1 + i - 1]
    BY <2>1, SubSeqProperties
  <2>3. \A i \in 1 .. n - k : i \in 1 .. n - (k + 1) + 1 /\ k + 1 + i - 1 = k + i
    BY <1>1, <1>2
  <2>4. Len(t) = n - k
    <3>1. (IF k + 1 <= n THEN n - (k + 1) + 1 ELSE 0) = n - k
      BY <1>1, <1>2
    <3> QED
      BY <1>3, <2>2, <3>1, Zenon
  <2>5. \A i \in 1 .. n - k : t[i] = q[k + i]
    <3>1. ASSUME NEW i \in 1 .. n - k PROVE SubSeq(q, k + 1, n)[i] = q[k + i]
      BY <2>2, <2>3, Zenon
    <3> QED
      BY <1>3, <3>1, Zenon
  <2> QED
    BY <1>3, <2>2, <2>4, <2>5, Zenon
<1>6. DOMAIN t = 1 .. n - k
  BY <1>5, LenProperties
<1>7. \A i \in DOMAIN t : k + i \in DOMAIN q \ I /\ t[i] = q[k + i]
  <2>1. \A i \in 1 .. n - k : k + i \in 1 .. n /\ ~(k + i \in 1 .. k)
    BY <1>1, <1>2
  <2> QED
    BY <1>1, <1>2, <1>5, <1>6, <2>1
<1>8. \A j \in DOMAIN q \ I : j - k \in DOMAIN t /\ t[j - k] = q[j]
  <2>1. \A j \in 1 .. n : j \notin 1 .. k => j - k \in 1 .. n - k /\ k + (j - k) = j
    BY <1>1, <1>2
  <2> QED
    BY <1>1, <1>2, <1>5, <1>6, <2>1
<1>9. ASSUME InOrder(q, l) PROVE InOrder(t, l)
  <2> DEFINE f == [i \in DOMAIN t |-> k + i]
  <2>1. f \in [DOMAIN t -> DOMAIN q]
    BY <1>7
  <2>2. \A i \in DOMAIN t : f[i] = k + i /\ t[i] = q[f[i]]
    BY <1>7
  <2>3. \A i, j \in DOMAIN t : i < j => f[i] < f[j]
    BY <1>1, <1>2, <1>6, <2>2
  <2>4. \A i \in DOMAIN t : t[i] = q[f[i]]
    BY <2>2
  <2> HIDE DEF f
  <2> QED
    BY <1>9, <2>1, <2>3, <2>4, ThinnedInOrder, Zenon
<1> QED
  BY <1>7, <1>8, <1>9

\* ZREM takes u out, and nobody else.
LEMMA WithoutKeeps ==
    ASSUME NEW q \in Seq(User), NEW l, NEW u, NEW t, InOrder(q, l), t = Without(q, u)
    PROVE  /\ InOrder(t, l)
           /\ \A i \in DOMAIN t : t[i] # u
           /\ \A j \in DOMAIN q : q[j] # u => \E i \in DOMAIN t : t[i] = q[j]
<1>1. CASE ~ \E i \in DOMAIN q : q[i] = u
  BY <1>1 DEF Without
<1>2. CASE \E i \in DOMAIN q : q[i] = u
  <2> DEFINE p == CHOOSE i \in DOMAIN q : q[i] = u
             n == Len(q)
  <2>1. p \in DOMAIN q /\ q[p] = u
    BY <1>2
  <2>2. n \in Nat /\ DOMAIN q = 1 .. n /\ \A i \in 1 .. n : q[i] \in User
    BY LenProperties, ElementOfSeq
  <2>3. t = SubSeq(q, 1, p - 1) \o SubSeq(q, p + 1, n)
    BY <1>2 DEF Without
  <2> HIDE DEF p, n
  <2>4. p \in 1 .. n
    BY <2>1, <2>2
  <2> DEFINE a == SubSeq(q, 1, p - 1)
             b == SubSeq(q, p + 1, n)
  <2>5. /\ a \in Seq(User) /\ Len(a) = p - 1
        /\ \A i \in 1 .. p - 1 : a[i] = q[i]
    <3>1. 1 \in Int /\ p - 1 \in Int /\ \A i \in 1 .. p - 1 : q[i] \in User
      BY <2>2, <2>4
    <3>2. /\ a \in Seq(User) /\ Len(a) = IF 1 <= p - 1 THEN p - 1 - 1 + 1 ELSE 0
          /\ \A i \in 1 .. p - 1 - 1 + 1 : a[i] = q[1 + i - 1]
      BY <3>1, SubSeqProperties
    <3>3. \A i \in 1 .. p - 1 : i \in 1 .. p - 1 - 1 + 1 /\ 1 + i - 1 = i
      BY <2>2, <2>4
    <3> HIDE DEF a
    <3> QED
      BY <2>2, <2>4, <3>2, <3>3
  <2>6. /\ b \in Seq(User) /\ Len(b) = n - p
        /\ \A i \in 1 .. n - p : b[i] = q[p + i]
    <3>1. p + 1 \in Int /\ n \in Int /\ \A i \in p + 1 .. n : q[i] \in User
      BY <2>2, <2>4
    <3>2. /\ b \in Seq(User) /\ Len(b) = IF p + 1 <= n THEN n - (p + 1) + 1 ELSE 0
          /\ \A i \in 1 .. n - (p + 1) + 1 : b[i] = q[p + 1 + i - 1]
      BY <3>1, SubSeqProperties
    <3>3. \A i \in 1 .. n - p : i \in 1 .. n - (p + 1) + 1 /\ p + 1 + i - 1 = p + i
      BY <2>2, <2>4
    <3> HIDE DEF b
    <3> QED
      BY <2>2, <2>4, <3>2, <3>3
  <2>7. t = a \o b
    BY <2>3
  <2> HIDE DEF a, b
  <2> DEFINE f == [i \in 1 .. n - 1 |-> IF i < p THEN i ELSE i + 1]
  <2>8. /\ t \in Seq(User) /\ Len(t) = n - 1 /\ DOMAIN t = 1 .. n - 1
        /\ \A i \in 1 .. n - 1 : t[i] = IF i <= p - 1 THEN a[i] ELSE b[i - (p - 1)]
    <3>1. /\ a \o b \in Seq(User) /\ Len(a \o b) = Len(a) + Len(b)
          /\ \A i \in 1 .. Len(a) + Len(b) :
                (a \o b)[i] = IF i <= Len(a) THEN a[i] ELSE b[i - Len(a)]
      BY <2>5, <2>6, ConcatProperties
    <3>2. Len(a) + Len(b) = n - 1
      BY <2>2, <2>4, <2>5, <2>6
    <3> QED
      BY <2>5, <2>7, <3>1, <3>2, LenProperties
  <2>9. \A i \in 1 .. n - 1 : t[i] = q[f[i]] /\ f[i] \in 1 .. n /\ f[i] # p
    <3> SUFFICES ASSUME NEW i \in 1 .. n - 1
                 PROVE  t[i] = q[f[i]] /\ f[i] \in 1 .. n /\ f[i] # p
      OBVIOUS
    <3>1. CASE i < p
      <4>1. i \in 1 .. p - 1 /\ f[i] = i
        BY <2>2, <2>4, <3>1
      <4> QED
        BY <2>2, <2>4, <2>5, <2>8, <3>1, <4>1
    <3>2. CASE ~(i < p)
      <4>1. i - (p - 1) \in 1 .. n - p /\ f[i] = i + 1 /\ p + (i - (p - 1)) = i + 1
        BY <2>2, <2>4, <3>2
      <4>2. ~(i <= p - 1)
        BY <2>2, <2>4, <3>2
      <4>3. f[i] \in 1 .. n /\ f[i] # p
        BY <2>2, <2>4, <3>2, <4>1
      <4> QED
        BY <2>6, <2>8, <4>1, <4>2, <4>3
    <3> QED
      BY <3>1, <3>2
  <2>10. f \in [DOMAIN t -> DOMAIN q]
    BY <2>2, <2>8, <2>9
  <2>11. \A i, j \in DOMAIN t : i < j => f[i] < f[j]
    BY <2>2, <2>4, <2>8
  <2>12. \A j \in DOMAIN q : j # p => \E i \in DOMAIN t : f[i] = j
    <3> SUFFICES ASSUME NEW j \in 1 .. n, j # p PROVE \E i \in 1 .. n - 1 : f[i] = j
      BY <2>2, <2>8
    <3>1. CASE j < p
      <4>1. j \in 1 .. n - 1 /\ f[j] = j
        BY <2>2, <2>4, <3>1
      <4> QED
        BY <4>1
    <3>2. CASE j > p
      <4>1. j - 1 \in 1 .. n - 1 /\ f[j - 1] = j
        BY <2>2, <2>4, <3>2
      <4> QED
        BY <4>1
    <3> QED
      BY <2>2, <2>4, <3>1, <3>2
  <2> HIDE DEF f
  <2>13. InOrder(t, l)
    <3>1. \A i \in DOMAIN t : t[i] = q[f[i]]
      BY <2>8, <2>9
    <3> QED
      BY <2>10, <2>11, <3>1, ThinnedInOrder, Zenon
  <2>14. \A i \in DOMAIN q : i # p => q[i] # u
    BY <2>1, <2>2, <2>4 DEF InOrder
  <2>15. \A i \in DOMAIN t : t[i] # u
    BY <2>2, <2>8, <2>9, <2>14
  <2>16. \A j \in DOMAIN q : q[j] # u => \E i \in DOMAIN t : t[i] = q[j]
    BY <2>1, <2>8, <2>9, <2>12
  <2> QED
    BY <2>13, <2>15, <2>16
<1> QED
  BY <1>1, <1>2

\* The places whose score has passed are at the head.
LEMMA PurgedKeeps ==
    ASSUME NEW q \in Seq(User), InOrder(q, life), life \in [User -> 0 .. QueueTTL]
    PROVE  /\ InOrder(Purged(q), life)
           /\ \A i \in DOMAIN Purged(q) : \E j \in DOMAIN q : Purged(q)[i] = q[j]
           /\ \A j \in DOMAIN q : life[q[j]] > 0 => \E i \in DOMAIN Purged(q) : Purged(q)[i] = q[j]
<1> DEFINE I == {i \in DOMAIN q : life[q[i]] = 0}
           t == Purged(q)
<1>1. t = Cut(I, q)
  BY DEF Purged, Cut
<1>2. DOMAIN q = 1 .. Len(q) /\ Len(q) \in Nat /\ QueueTTL \in Nat
  BY LenProperties, TTLAssumption
<1>3. \A i \in DOMAIN q : q[i] \in User /\ life[q[i]] \in 0 .. QueueTTL
  BY <1>2, ElementOfSeq
<1>4. AtHead(I, q)
  <2> SUFFICES ASSUME NEW i \in I, NEW j \in DOMAIN q, j < i PROVE life[q[j]] = 0
    BY DEF AtHead
  <2>1. life[q[i]] = 0 /\ i \in DOMAIN q /\ life[q[j]] \in Nat
    BY <1>2, <1>3
  <2>2. life[q[j]] < life[q[i]] \/ life[q[j]] = life[q[i]]
    BY <2>1 DEF InOrder
  <2> QED
    BY <2>1, <2>2
<1>5. \A j \in DOMAIN q : life[q[j]] > 0 => j \in DOMAIN q \ I
  BY <1>3
<1> HIDE DEF I, t
<1>6. /\ \A i \in DOMAIN t : \E j \in DOMAIN q \ I : t[i] = q[j]
      /\ \A j \in DOMAIN q \ I : \E i \in DOMAIN t : t[i] = q[j]
      /\ InOrder(t, life)
  BY <1>1, <1>4, <1>5, TailKeeps
<1> QED
  BY <1>5, <1>6 DEF t

\* ZADD keeps the order with u at its new score, and loses nobody.
LEMMA AddedKeeps ==
    ASSUME NEW q \in Seq(User), NEW u \in User, InOrder(q, life),
           life \in [User -> 0 .. QueueTTL]
    PROVE  /\ InOrder(Added(q, u), [life EXCEPT ![u] = QueueTTL])
           /\ \E i \in DOMAIN Added(q, u) : Added(q, u)[i] = u
           /\ \A j \in DOMAIN q : \E i \in DOMAIN Added(q, u) : Added(q, u)[i] = q[j]
<1> DEFINE o == Without(q, u)
           D == {i \in DOMAIN o : life[o[i]] < QueueTTL \/ o[i] < u}
           k == Rank(o, u)
           n == Len(o)
           t == Added(q, u)
           m == [life EXCEPT ![u] = QueueTTL]
<1>1. /\ o \in Seq(User) /\ InOrder(o, life) /\ \A i \in DOMAIN o : o[i] # u
      /\ \A j \in DOMAIN q : q[j] # u => \E i \in DOMAIN o : o[i] = q[j]
  <2>1. o \in Seq(User) /\ o = Without(q, u)
    BY WithoutType
  <2> HIDE DEF o
  <2> QED
    BY <2>1, WithoutKeeps
<1>2. t = SubSeq(o, 1, k) \o <<u>> \o SubSeq(o, k + 1, n)
  BY DEF Added
<1>3. k = Cardinality(D)
  BY DEF Rank
<1> HIDE DEF o, t
<1>4. n \in Nat /\ DOMAIN o = 1 .. n /\ \A i \in 1 .. n : o[i] \in User
  BY <1>1, LenProperties, ElementOfSeq
<1>5. QueueTTL \in Nat \ {0} /\ User \subseteq Nat
  BY TTLAssumption, UserAssumption
<1>6. \A i \in 1 .. n : o[i] \in Nat /\ life[o[i]] \in 0 .. QueueTTL /\ m[o[i]] = life[o[i]]
  BY <1>1, <1>4, <1>5
<1>7. m[u] = QueueTTL
  OBVIOUS
<1>8. \A i \in D, j \in 1 .. n : j < i => j \in D
  <2> SUFFICES ASSUME NEW i \in D, NEW j \in 1 .. n, j < i
               PROVE  life[o[j]] < QueueTTL \/ o[j] < u
    BY <1>4
  <2>1. i \in 1 .. n /\ (life[o[i]] < QueueTTL \/ o[i] < u)
    BY <1>4
  <2>2. \/ life[o[j]] < life[o[i]]
        \/ life[o[j]] = life[o[i]] /\ (life[o[j]] = 0 \/ o[j] < o[i])
    BY <1>1, <1>4, <2>1 DEF InOrder
  <2>3. u \in Nat
    BY <1>5
  <2> QED
    BY <1>5, <1>6, <2>1, <2>2, <2>3
<1>9. k \in 0 .. n /\ D = 1 .. k
  BY <1>3, <1>4, <1>8, InitialSegment
<1>10. /\ \A i \in 1 .. k : life[o[i]] < QueueTTL \/ o[i] < u
       /\ \A i \in 1 .. n : ~(i <= k) => ~(life[o[i]] < QueueTTL) /\ ~(o[i] < u)
  <2>1. \A i \in 1 .. n : i \in D <=> life[o[i]] < QueueTTL \/ o[i] < u
    BY <1>4
  <2>2. \A i \in 1 .. n : i \in 1 .. k <=> i <= k
    BY <1>4, <1>9
  <2>3. \A i \in 1 .. k : i \in 1 .. n
    BY <1>4, <1>9
  <2> HIDE DEF D, k, n, m
  <2> QED
    BY <1>9, <2>1, <2>2, <2>3
<1> HIDE DEF D, k, n, m
<1>11. /\ DOMAIN t = 1 .. n + 1
       /\ \A i \in 1 .. n + 1 :
             t[i] = IF i <= k THEN o[i] ELSE IF i = k + 1 THEN u ELSE o[i - 1]
  <2> DEFINE a == SubSeq(o, 1, k)
             b == SubSeq(o, k + 1, n)
             c == a \o <<u>>
  <2>1. /\ a \in Seq(User) /\ Len(a) = k
        /\ \A i \in 1 .. k : a[i] = o[i]
    <3>1. 1 \in Int /\ k \in Int /\ \A i \in 1 .. k : o[i] \in User
      BY <1>4, <1>9
    <3>2. /\ a \in Seq(User) /\ Len(a) = IF 1 <= k THEN k - 1 + 1 ELSE 0
          /\ \A i \in 1 .. k - 1 + 1 : a[i] = o[1 + i - 1]
      BY <3>1, SubSeqProperties
    <3>3. \A i \in 1 .. k : i \in 1 .. k - 1 + 1 /\ 1 + i - 1 = i
      BY <1>4, <1>9
    <3> HIDE DEF a
    <3> QED
      BY <1>4, <1>9, <3>2, <3>3
  <2>2. /\ b \in Seq(User) /\ Len(b) = n - k
        /\ \A i \in 1 .. n - k : b[i] = o[k + i]
    <3>1. k + 1 \in Int /\ n \in Int /\ \A i \in k + 1 .. n : o[i] \in User
      BY <1>4, <1>9
    <3>2. /\ b \in Seq(User) /\ Len(b) = IF k + 1 <= n THEN n - (k + 1) + 1 ELSE 0
          /\ \A i \in 1 .. n - (k + 1) + 1 : b[i] = o[k + 1 + i - 1]
      BY <3>1, SubSeqProperties
    <3>3. \A i \in 1 .. n - k : i \in 1 .. n - (k + 1) + 1 /\ k + 1 + i - 1 = k + i
      BY <1>4, <1>9
    <3>4. (IF k + 1 <= n THEN n - (k + 1) + 1 ELSE 0) = n - k
      BY <1>4, <1>9
    <3> HIDE DEF b
    <3> QED
      BY <3>2, <3>3, <3>4
  <2>3. t = c \o b
    BY <1>2
  <2> HIDE DEF a, b
  <2>4. <<u>> \in Seq(User) /\ Len(<<u>>) = 1 /\ <<u>>[1] = u
    OBVIOUS
  <2>5. /\ c \in Seq(User) /\ Len(c) = k + 1
        /\ \A i \in 1 .. k + 1 : c[i] = IF i <= k THEN a[i] ELSE u
    <3>1. /\ c \in Seq(User) /\ Len(c) = Len(a) + Len(<<u>>)
          /\ \A i \in 1 .. Len(a) + Len(<<u>>) :
                c[i] = IF i <= Len(a) THEN a[i] ELSE <<u>>[i - Len(a)]
      BY <2>1, <2>4, ConcatProperties
    <3>2. \A i \in 1 .. k + 1 : ~(i <= k) => i - k = 1
      BY <1>4, <1>9
    <3> HIDE DEF c
    <3> QED
      BY <2>1, <2>4, <3>1, <3>2
  <2> HIDE DEF c
  <2>6. /\ c \o b \in Seq(User) /\ Len(c \o b) = k + 1 + (n - k)
        /\ \A i \in 1 .. k + 1 + (n - k) :
              (c \o b)[i] = IF i <= k + 1 THEN c[i] ELSE b[i - (k + 1)]
    BY <2>2, <2>5, ConcatProperties
  <2>7. k + 1 + (n - k) = n + 1
    BY <1>4, <1>9
  <2>8. DOMAIN t = 1 .. n + 1
    BY <2>3, <2>6, <2>7, LenProperties
  <2>9. ASSUME NEW i \in 1 .. n + 1
        PROVE  t[i] = IF i <= k THEN o[i] ELSE IF i = k + 1 THEN u ELSE o[i - 1]
    <3>1. t[i] = IF i <= k + 1 THEN c[i] ELSE b[i - (k + 1)]
      BY <2>3, <2>6, <2>7
    <3>2. CASE i <= k
      <4>1. i \in 1 .. k /\ i <= k + 1 /\ i \in 1 .. k + 1
        BY <1>4, <1>9, <3>2
      <4> QED
        BY <2>1, <2>5, <3>1, <3>2, <4>1
    <3>3. CASE i = k + 1
      <4>1. i <= k + 1 /\ i \in 1 .. k + 1 /\ ~(i <= k)
        BY <1>4, <1>9, <3>3
      <4> QED
        BY <2>5, <3>1, <3>3, <4>1
    <3>4. CASE ~(i <= k) /\ i # k + 1
      <4>1. ~(i <= k + 1) /\ i - (k + 1) \in 1 .. n - k /\ k + (i - (k + 1)) = i - 1
        BY <1>4, <1>9, <3>4
      <4> QED
        BY <2>2, <3>1, <3>4, <4>1
    <3> QED
      BY <3>2, <3>3, <3>4
  <2> QED
    BY <2>8, <2>9
<1>12. InOrder(t, m)
  <2> SUFFICES ASSUME NEW i \in 1 .. n + 1, NEW j \in 1 .. n + 1, i < j
               PROVE  /\ t[i] # t[j]
                      /\ \/ m[t[i]] < m[t[j]]
                         \/ m[t[i]] = m[t[j]] /\ (m[t[i]] = 0 \/ t[i] < t[j])
    BY <1>11 DEF InOrder
  <2>1. CASE i <= k /\ j = k + 1
    <3>1. t[i] = o[i] /\ t[j] = u /\ i \in 1 .. k /\ i \in 1 .. n
      BY <1>4, <1>9, <1>11, <2>1
    <3>2. o[i] # u /\ (life[o[i]] < QueueTTL \/ o[i] < u) /\ life[o[i]] \in 0 .. QueueTTL
      BY <1>1, <1>4, <1>6, <1>10, <3>1
    <3> QED
      BY <1>5, <1>6, <1>7, <3>1, <3>2
  <2>2. CASE i = k + 1
    <3>0. ~(i <= k) /\ ~(j <= k) /\ j # k + 1 /\ j - 1 \in 1 .. n /\ ~(j - 1 <= k)
      BY <1>4, <1>9, <2>2
    <3>1. t[i] = u /\ t[j] = o[j - 1] /\ j - 1 \in 1 .. n /\ ~(j - 1 <= k)
      BY <1>11, <2>2, <3>0
    <3>2. /\ o[j - 1] # u /\ o[j - 1] \in Nat /\ u \in Nat
          /\ ~(life[o[j - 1]] < QueueTTL) /\ ~(o[j - 1] < u)
          /\ life[o[j - 1]] \in 0 .. QueueTTL
      BY <1>1, <1>4, <1>5, <1>6, <1>10, <3>1
    <3>3. life[o[j - 1]] = QueueTTL /\ u < o[j - 1]
      BY <1>5, <3>2
    <3> QED
      BY <1>6, <1>7, <3>1, <3>2, <3>3
  <2>3. CASE i # k + 1 /\ j # k + 1
    <3> DEFINE x == IF i <= k THEN i ELSE i - 1
               y == IF j <= k THEN j ELSE j - 1
    <3>1. x \in 1 .. n /\ y \in 1 .. n /\ x < y
      BY <1>4, <1>9, <2>3
    <3>2. t[i] = o[x] /\ t[j] = o[y]
      BY <1>11, <2>3
    <3> HIDE DEF x, y
    <3>3. /\ o[x] # o[y]
          /\ \/ life[o[x]] < life[o[y]]
             \/ life[o[x]] = life[o[y]] /\ (life[o[x]] = 0 \/ o[x] < o[y])
      BY <1>1, <1>4, <3>1 DEF InOrder
    <3>4. m[o[x]] = life[o[x]] /\ m[o[y]] = life[o[y]]
      BY <1>6, <3>1
    <3> QED
      BY <3>2, <3>3, <3>4
  <2>4. (i <= k /\ j = k + 1) \/ i = k + 1 \/ (i # k + 1 /\ j # k + 1)
    BY <1>4, <1>9
  <2> QED
    BY <2>1, <2>2, <2>3, <2>4
<1>13. k + 1 \in DOMAIN t /\ t[k + 1] = u
  BY <1>4, <1>9, <1>11
<1>14. \A j \in 1 .. n : \E i \in DOMAIN t : t[i] = o[j]
  <2> SUFFICES ASSUME NEW j \in 1 .. n PROVE \E i \in DOMAIN t : t[i] = o[j]
    OBVIOUS
  <2>1. CASE j <= k
    <3>1. j \in 1 .. n + 1
      BY <1>4
    <3> QED
      BY <1>11, <2>1, <3>1
  <2>2. CASE ~(j <= k)
    <3>1. j + 1 \in 1 .. n + 1 /\ ~(j + 1 <= k) /\ j + 1 # k + 1 /\ j + 1 - 1 = j
      BY <1>4, <1>9, <2>2
    <3>2. t[j + 1] = o[j]
      BY <1>11, <3>1
    <3> QED
      BY <1>11, <3>1, <3>2
  <2> QED
    BY <2>1, <2>2
<1>15. \A j \in DOMAIN q : \E i \in DOMAIN t : t[i] = q[j]
  BY <1>1, <1>4, <1>13, <1>14
<1> QED
  BY <1>12, <1>13, <1>15 DEF t, m

\* The users that the scripts see are in order and complete.
OrderInv == InOrder(queue, life) /\ LiveWaitersAreQueued

\* What SeniorityRespected says of a step.
Senior ==
    \A u, v \in Waiting :
        /\ heartbeat[u] > 0
        /\ u \in Waiting'
        /\ v \notin Waiting'
        /\ v \in Whitelisted' \ Whitelisted
        => life[v] <= life[u]

\* A step after which nobody has a slot who had none passes nobody over.
LEMMA NobodyPassed ==
    ASSUME \A u \in User : whitelist'[u] > 0 => whitelist[u] > 0
    PROVE  Senior
BY DEF Senior, Whitelisted

\* A step that leaves queue and scores alone, and revives nobody.
LEMMA QueueStays ==
    ASSUME OrderInv, UNCHANGED <<queue, life>>,
           \A u \in User : heartbeat'[u] > 0 => heartbeat[u] > 0
    PROVE  OrderInv'
<1>1. InOrder(queue, life)'
  BY DEF OrderInv, InOrder
<1>2. Waiting' = Waiting
  BY DEF Waiting
<1>3. LiveWaitersAreQueued'
  BY <1>2 DEF OrderInv, LiveWaitersAreQueued
<1> QED
  BY <1>1, <1>3 DEF OrderInv

\* What the scan takes off the head is the head.
LEMMA ScannedAtHead ==
    ASSUME queue \in Seq(User), NEW n \in Nat
    PROVE  AtHead(Scanned(n), queue)
<1>1. DOMAIN queue = 1 .. Len(queue) /\ Len(queue) \in Nat
  BY LenProperties
<1>2. Scanned(n) \in SUBSET DOMAIN queue /\ Alive \in SUBSET DOMAIN queue
  BY DEF Scanned, Alive
<1> DEFINE B(i) == {j \in Alive : j < i}
<1>3. \A i \in DOMAIN queue : B(i) \in SUBSET DOMAIN queue
  BY <1>2
<1>4. \A i \in DOMAIN queue : IsFiniteSet(B(i)) /\ Cardinality(B(i)) \in Nat
  BY <1>1, <1>3, PlacesFinite
<1>5. ASSUME NEW i \in Scanned(n), NEW j \in DOMAIN queue, j < i PROVE j \in Scanned(n)
  <2>1. i \in DOMAIN queue /\ Cardinality(B(i)) < n
    BY <1>5 DEF Scanned
  <2>2. B(j) \subseteq B(i)
    BY <1>1, <1>2, <1>5, <2>1
  <2>3. Cardinality(B(j)) <= Cardinality(B(i))
    <3> HIDE DEF B
    <3> QED
      BY <1>4, <2>1, <2>2, FS_Subset
  <2>4. Cardinality(B(j)) < n
    <3> HIDE DEF B
    <3> QED
      BY <1>4, <2>1, <2>3
  <2> QED
    BY <2>4 DEF Scanned
<1> QED
  BY <1>2, <1>5 DEF AtHead

\* The promotion script takes the longest waiting users, and the users it
\* drops without admitting them were dead.
LEMMA PromotionKeeps ==
    ASSUME TypeOK, OrderInv, NEW d \in Nat, TryWhitelist(d), UNCHANGED life
    PROVE  OrderInv' /\ Senior
<1> DEFINE n == Grant(d)
           I == Scanned(n)
<1>1. n \in Nat /\ queue \in Seq(User) /\ life \in [User -> 0 .. QueueTTL]
  BY GrantBound DEF TypeOK
<1>2. /\ queue' = Cut(I, queue)
      /\ whitelist' = [u \in User |-> IF u \in Admitted(n) THEN WhitelistTTL
                                      ELSE whitelist[u]]
      /\ heartbeat' = [u \in User |-> IF u \in Admitted(n) THEN 0 ELSE heartbeat[u]]
  BY DEF TryWhitelist, Cut
<1>3. AtHead(I, queue)
  BY <1>1, ScannedAtHead
<1>4. Admitted(n) = {queue[i] : i \in Alive \cap I}
  BY DEF Admitted
<1>5. InOrder(queue, life)
  BY DEF OrderInv
<1> HIDE DEF n, I
<1>6. /\ \A i \in DOMAIN queue' : \E j \in DOMAIN queue \ I : queue'[i] = queue[j]
      /\ \A j \in DOMAIN queue \ I : \E i \in DOMAIN queue' : queue'[i] = queue[j]
      /\ InOrder(queue', life)
  BY <1>1, <1>2, <1>3, <1>5, TailKeeps
<1>7. Waiting' = {queue[j] : j \in DOMAIN queue \ I}
  BY <1>6 DEF Waiting
<1>8. DOMAIN queue = 1 .. Len(queue) /\ Len(queue) \in Nat /\ I \in SUBSET DOMAIN queue
  BY <1>1, <1>3, LenProperties DEF AtHead
<1>9. \A i \in DOMAIN queue : queue[i] \in User
  BY <1>1, <1>8, ElementOfSeq
<1>10. LiveWaitersAreQueued'
  <2> SUFFICES ASSUME NEW u \in User, heartbeat'[u] > 0, life'[u] > 0 PROVE u \in Waiting'
    BY DEF LiveWaitersAreQueued
  <2>1. u \notin Admitted(n) /\ heartbeat[u] > 0 /\ life[u] > 0
    BY <1>2
  <2>2. PICK i \in DOMAIN queue : queue[i] = u
    BY <2>1 DEF OrderInv, LiveWaitersAreQueued, Waiting
  <2>3. i \notin I
    BY <1>4, <2>1, <2>2 DEF Alive
  <2> QED
    BY <1>7, <2>2, <2>3
<1>11. Senior
  <2> SUFFICES ASSUME NEW u \in Waiting, NEW v \in Waiting, u \in Waiting',
                      v \notin Waiting'
               PROVE  life[v] <= life[u]
    BY DEF Senior
  <2>1. PICK j \in DOMAIN queue \ I : queue[j] = u
    BY <1>7
  <2>2. PICK i \in DOMAIN queue : queue[i] = v
    BY DEF Waiting
  <2>3. i \in I
    BY <1>7, <2>2
  <2>4. i < j
    <3>1. ~(j < i) /\ i # j
      BY <1>3, <2>1, <2>3 DEF AtHead
    <3> QED
      BY <1>8, <2>1, <2>2, <3>1
  <2>5. life[queue[i]] < life[queue[j]] \/ life[queue[i]] = life[queue[j]]
    BY <1>5, <2>1, <2>2, <2>4 DEF InOrder
  <2>6. life[u] \in 0 .. QueueTTL /\ life[v] \in 0 .. QueueTTL /\ QueueTTL \in Nat
    BY <1>1, <1>9, <2>1, <2>2, TTLAssumption
  <2> QED
    BY <2>1, <2>2, <2>5, <2>6
<1> QED
  BY <1>6, <1>10, <1>11 DEF OrderInv

\* The enqueue script drops only users whose score has passed, and puts the
\* new one where its score belongs.
LEMMA EnqueueKeepsOrder ==
    ASSUME Inv, OrderInv, NEW c \in Call, EnqueueScript(c)
    PROVE  OrderInv'
<1> DEFINE u == call[c].user
           q == Purged(queue)
<1>1. /\ queue \in Seq(User) /\ life \in [User -> 0 .. QueueTTL]
      /\ heartbeat \in [User -> 0 .. HeartbeatTTL] /\ InOrder(queue, life)
      /\ u \in User
  BY DEF Inv, TypeOK, CallInv, OrderInv, EnqueueScript
<1>2. /\ q \in Seq(User) /\ InOrder(q, life)
      /\ \A j \in DOMAIN queue : life[queue[j]] > 0 => \E i \in DOMAIN q : q[i] = queue[j]
  BY <1>1, PurgedType, PurgedKeeps
<1>3. \A v \in User : heartbeat[v] > 0 /\ life[v] > 0 => \E i \in DOMAIN q : q[i] = v
  <2> SUFFICES ASSUME NEW v \in User, heartbeat[v] > 0 /\ life[v] > 0
               PROVE  \E i \in DOMAIN q : q[i] = v
    OBVIOUS
  <2>1. PICK j \in DOMAIN queue : queue[j] = v
    BY DEF OrderInv, LiveWaitersAreQueued, Waiting
  <2> HIDE DEF q
  <2> QED
    BY <1>2, <2>1
<1>4. CASE heartbeat[u] = 0 /\ queue' = Added(q, u) /\ life' = [life EXCEPT ![u] = QueueTTL]
           /\ heartbeat' = [heartbeat EXCEPT ![u] = HeartbeatTTL]
  <2> HIDE DEF u, q
  <2>1. /\ InOrder(queue', life')
        /\ \E i \in DOMAIN queue' : queue'[i] = u
        /\ \A j \in DOMAIN q : \E i \in DOMAIN queue' : queue'[i] = q[j]
    BY <1>1, <1>2, <1>4, AddedKeeps
  <2>2. ASSUME NEW v \in User, heartbeat'[v] > 0, life'[v] > 0
        PROVE  \E i \in DOMAIN queue' : queue'[i] = v
    <3>1. CASE v = u
      BY <2>1, <3>1
    <3>2. CASE v # u
      <4>1. heartbeat[v] > 0 /\ life[v] > 0
        BY <1>1, <1>4, <2>2, <3>2
      <4> QED
        BY <1>3, <2>1, <4>1
    <3> QED
      BY <3>1, <3>2
  <2>3. LiveWaitersAreQueued'
    BY <2>2 DEF LiveWaitersAreQueued, Waiting
  <2> QED
    BY <2>1, <2>3 DEF OrderInv
<1>5. CASE queue' = q /\ UNCHANGED <<life, heartbeat>>
  <2> HIDE DEF u, q
  <2>1. InOrder(queue', life')
    BY <1>2, <1>5
  <2>2. LiveWaitersAreQueued'
    BY <1>3, <1>5 DEF LiveWaitersAreQueued, Waiting
  <2> QED
    BY <2>1, <2>2 DEF OrderInv
<1> QED
  BY <1>4, <1>5 DEF EnqueueScript

\* So does the dequeue script, which loses nobody but its user.
LEMMA DequeueKeepsOrder ==
    ASSUME Inv, OrderInv, NEW c \in Call, NEW u \in User, Dequeue(c, u)
    PROVE  OrderInv'
<1>1. /\ queue \in Seq(User) /\ heartbeat \in [User -> 0 .. HeartbeatTTL]
      /\ InOrder(queue, life)
  BY DEF Inv, TypeOK, OrderInv
<1>2. /\ queue' = Without(queue, u) /\ life' = life
      /\ heartbeat' = [heartbeat EXCEPT ![u] = 0]
  BY DEF Dequeue
<1>3. /\ InOrder(queue', life)
      /\ \A j \in DOMAIN queue : queue[j] # u => \E i \in DOMAIN queue' : queue'[i] = queue[j]
  BY <1>1, <1>2, WithoutKeeps
<1>4. ASSUME NEW v \in User, heartbeat'[v] > 0, life'[v] > 0
      PROVE  \E i \in DOMAIN queue' : queue'[i] = v
  <2>1. v # u /\ heartbeat[v] > 0 /\ life[v] > 0
    BY <1>1, <1>2, <1>4
  <2>2. PICK j \in DOMAIN queue : queue[j] = v
    BY <2>1 DEF OrderInv, LiveWaitersAreQueued, Waiting
  <2> QED
    BY <1>3, <2>1, <2>2
<1>5. LiveWaitersAreQueued'
  BY <1>4 DEF LiveWaitersAreQueued, Waiting
<1> QED
  BY <1>2, <1>3, <1>5 DEF OrderInv

\* Time lowers every score that has not passed by one.
LEMMA TickKeepsOrder ==
    ASSUME Inv, OrderInv, Tick
    PROVE  OrderInv'
<1>1. /\ queue \in Seq(User) /\ life \in [User -> 0 .. QueueTTL]
      /\ heartbeat \in [User -> 0 .. HeartbeatTTL] /\ InOrder(queue, life)
      /\ queue' = queue /\ life' = Less(life) /\ heartbeat' = Less(heartbeat)
  BY DEF Inv, TypeOK, OrderInv, Tick
<1>2. \A i \in DOMAIN queue : queue[i] \in User /\ life[queue[i]] \in Nat
  BY <1>1, LenProperties, ElementOfSeq, TTLAssumption
<1>3. \A v \in User : life'[v] = IF life[v] = 0 THEN 0 ELSE life[v] - 1
  BY <1>1 DEF Less
<1>4. InOrder(queue, life)'
  <2> SUFFICES ASSUME NEW i \in DOMAIN queue, NEW j \in DOMAIN queue, i < j
               PROVE  /\ queue[i] # queue[j]
                      /\ \/ life'[queue[i]] < life'[queue[j]]
                         \/ /\ life'[queue[i]] = life'[queue[j]]
                            /\ life'[queue[i]] = 0 \/ queue[i] < queue[j]
    BY <1>1 DEF InOrder
  <2>1. /\ queue[i] # queue[j]
        /\ \/ life[queue[i]] < life[queue[j]]
           \/ life[queue[i]] = life[queue[j]] /\ (life[queue[i]] = 0 \/ queue[i] < queue[j])
    BY <1>1 DEF InOrder
  <2>2. /\ life[queue[i]] \in Nat /\ life[queue[j]] \in Nat
        /\ life'[queue[i]] = IF life[queue[i]] = 0 THEN 0 ELSE life[queue[i]] - 1
        /\ life'[queue[j]] = IF life[queue[j]] = 0 THEN 0 ELSE life[queue[j]] - 1
    BY <1>2, <1>3
  <2> QED
    BY <2>1, <2>2
<1>5. \A v \in User : /\ heartbeat'[v] > 0 => heartbeat[v] > 0
                      /\ life'[v] > 0 => life[v] > 0
  BY <1>1, LessType, TTLAssumption
<1>6. Waiting' = Waiting
  BY <1>1 DEF Waiting
<1>7. LiveWaitersAreQueued'
  BY <1>5, <1>6 DEF OrderInv, LiveWaitersAreQueued
<1> QED
  BY <1>4, <1>7 DEF OrderInv

\* Every step keeps the order and passes nobody over.
LEMMA NextKeepsOrder ==
    ASSUME Inv, OrderInv, [Next]_vars
    PROVE  OrderInv' /\ Senior
<1>1. /\ TypeOK /\ heartbeat \in [User -> 0 .. HeartbeatTTL]
      /\ whitelist \in [User -> 0 .. WhitelistTTL]
  BY DEF Inv, TypeOK
<1>2. ASSUME UNCHANGED <<queue, life, heartbeat, whitelist>> PROVE OrderInv' /\ Senior
  BY <1>2, QueueStays, NobodyPassed
<1>3. ASSUME NEW c \in Call, CallNext(c) PROVE OrderInv' /\ Senior
  <2>1. ASSUME NEW u \in User, EnqueueCheck(c, u) PROVE OrderInv' /\ Senior
    BY <1>2, <2>1 DEF EnqueueCheck, redis
  <2>2. ASSUME NEW u \in User, Dequeue(c, u) PROVE OrderInv' /\ Senior
    <3>1. \A v \in User : whitelist'[v] > 0 => whitelist[v] > 0
      BY <1>1, <2>2 DEF Dequeue
    <3> QED
      BY <2>2, <3>1, DequeueKeepsOrder, NobodyPassed
  <2>3. ASSUME NEW u \in User, ReleaseSlot(c, u) PROVE OrderInv' /\ Senior
    <3>1. \A v \in User : whitelist'[v] > 0 => whitelist[v] > 0
      BY <1>1, <2>3 DEF ReleaseSlot
    <3>2. UNCHANGED <<queue, life, heartbeat>>
      BY <2>3 DEF ReleaseSlot
    <3> QED
      BY <3>1, <3>2, QueueStays, NobodyPassed
  <2>4. CASE EnqueueScript(c)
    <3>1. whitelist' = whitelist
      BY <2>4 DEF EnqueueScript
    <3> QED
      BY <2>4, <3>1, EnqueueKeepsOrder, NobodyPassed
  <2>5. CASE EnqueueTrack(c) \/ EnqueueTrackFails(c) \/ CallAbandoned(c)
    BY <1>2, <2>5 DEF EnqueueTrack, EnqueueTrackFails, CallAbandoned, redis
  <2>6. CASE Promote(c)
    BY <1>1, <2>6, PromotionKeeps DEF Promote
  <2> QED
    BY <1>3, <2>1, <2>2, <2>3, <2>4, <2>5, <2>6 DEF CallNext
<1>4. ASSUME NEW p \in Promoter, PromoterSteps(p) \/ PromoterMisreads(p) \/ PromoterFails(p)
      PROVE  OrderInv' /\ Senior
  <2>1. CASE PromoterAdmit(p)
    <3>1. promoter[p].free \in Nat
      BY <1>1 DEF TypeOK, PromoterState
    <3> QED
      BY <1>1, <2>1, <3>1, PromotionKeeps DEF PromoterAdmit
  <2>2. CASE ~PromoterAdmit(p)
    BY <1>2, <1>4, <2>2
       DEF PromoterSteps, PromoterScan, PromoterZCard, PromoterUntrack, PromoterHLen,
           PromoterGet, PromoterMisreads, PromoterReads, PromoterFails, redis
  <2> QED
    BY <2>1, <2>2
<1>5. ASSUME NEW u \in User, Ping(u) PROVE OrderInv' /\ Senior
  <2>1. /\ UNCHANGED <<queue, life, whitelist>>
        /\ \A v \in User : heartbeat'[v] > 0 => heartbeat[v] > 0
    BY <1>1, <1>5 DEF Ping
  <2> QED
    BY <2>1, QueueStays, NobodyPassed
<1>6. ASSUME NEW g \in Overrides \cup {0}, SetOverride(g) PROVE OrderInv' /\ Senior
  BY <1>2, <1>6 DEF SetOverride
<1>7. CASE FlushDB
  <2>1. /\ queue' = <<>> /\ life' = [u \in User |-> 0] /\ whitelist' = [u \in User |-> 0]
    BY <1>7 DEF FlushDB
  <2>2. DOMAIN queue' = {}
    BY <2>1
  <2>3. InOrder(queue, life)' /\ LiveWaitersAreQueued'
    BY <2>1, <2>2 DEF InOrder, LiveWaitersAreQueued
  <2> QED
    BY <2>1, <2>3, NobodyPassed DEF OrderInv
<1>8. CASE Tick
  <2>1. \A u \in User : whitelist'[u] > 0 => whitelist[u] > 0
    BY <1>1, <1>8, LessType, TTLAssumption DEF Tick
  <2> QED
    BY <1>8, <2>1, TickKeepsOrder, NobodyPassed
<1>9. CASE UNCHANGED vars
  BY <1>2, <1>9 DEF vars, redis
<1> QED
  BY <1>3, <1>4, <1>5, <1>6, <1>7, <1>8, <1>9 DEF Next

LEMMA InitOrder == Init => OrderInv
<1> SUFFICES ASSUME Init PROVE OrderInv
  OBVIOUS
<1>1. DOMAIN queue = {} /\ \A u \in User : life[u] = 0
  BY DEF Init
<1> QED
  BY <1>1 DEF OrderInv, InOrder, LiveWaitersAreQueued

LEMMA OrderAlways == Spec => [](Inv /\ OrderInv)
<1>1. Init => Inv /\ OrderInv
  BY InitInv, InitOrder
<1>2. Inv /\ OrderInv /\ [Next]_vars => (Inv /\ OrderInv)'
  BY NextKeeps, NextKeepsOrder
<1> QED
  BY <1>1, <1>2, PTL DEF Spec

-----------------------------------------------------------------------------
(* The theorems about the order.                                           *)

\* The queue is a sorted set whatever enqueues, removals, purges, promotions
\* and seconds come in whatever order: its head has waited longest.
THEOREM QueueStaysInOrder == Spec => []QueueInOrder
<1>1. Inv /\ OrderInv => QueueInOrder
  <2> SUFFICES ASSUME Inv, OrderInv, NEW i \in DOMAIN queue, NEW j \in DOMAIN queue, i < j
               PROVE  queue[i] # queue[j] /\ life[queue[i]] <= life[queue[j]]
    BY DEF QueueInOrder
  <2>1. /\ queue \in Seq(User) /\ life \in [User -> 0 .. QueueTTL] /\ QueueTTL \in Nat
    BY TTLAssumption DEF Inv, TypeOK
  <2>2. life[queue[i]] \in Nat /\ life[queue[j]] \in Nat
    BY <2>1, LenProperties, ElementOfSeq
  <2> QED
    BY <2>2 DEF OrderInv, InOrder
<1> QED
  BY <1>1, OrderAlways, PTL

\* No script loses a user who is alive and whose score has not passed.
THEOREM NobodyIsLost == Spec => []LiveWaitersAreQueued
<1>1. Inv /\ OrderInv => LiveWaitersAreQueued
  BY DEF OrderInv
<1> QED
  BY <1>1, OrderAlways, PTL

\* Promotions respect seniority, with whatever stale number they are called
\* and however many of the users at the head have died.
THEOREM NobodyIsPassedOver == Spec => SeniorityRespected
<1>1. (Inv /\ OrderInv) /\ [Next]_vars
      => [\A u, v \in Waiting :
            /\ heartbeat[u] > 0
            /\ u \in Waiting'
            /\ v \notin Waiting'
            /\ v \in Whitelisted' \ Whitelisted
            => life[v] <= life[u]]_vars
  BY NextKeepsOrder DEF Senior
<1> QED
  BY <1>1, OrderAlways, PTL DEF Spec, SeniorityRespected

-----------------------------------------------------------------------------
(* Who holds a slot and a place in the queue at once.                      *)

\* What OnlyEnqueueRequeuesHolder says of a step.
OwnEnqueue ==
    \A u \in (Waiting' \cap Whitelisted') \ (Waiting \cap Whitelisted) :
        \E c \in Call : EnqueueScript(c) /\ call[c].user = u /\ u \in Whitelisted

\* A queue is a queue of those who wait.
LEMMA WaitingType ==
    ASSUME NEW S, NEW q \in Seq(S), NEW W, \A i \in DOMAIN q : q[i] \in W
    PROVE  q \in Seq(W)
<1>1. Len(q) \in Nat /\ DOMAIN q = 1 .. Len(q) /\ q \in [1 .. Len(q) -> S]
  BY LenProperties
<1> DEFINE m == Len(q)
<1>2. m \in Nat /\ DOMAIN q = 1 .. m /\ q \in [1 .. m -> S]
  BY <1>1
<1> HIDE DEF m
<1>3. q \in [1 .. m -> W]
  BY <1>2
<1>4. q \in UNION {[1 .. k -> W] : k \in Nat}
  BY <1>2, <1>3
<1> QED
  BY <1>4, SeqDef

\* A step after which nobody new waits and nobody new holds a slot.
LEMMA NobodyRequeued ==
    ASSUME Waiting' \subseteq Waiting, Whitelisted' \subseteq Whitelisted
    PROVE  OwnEnqueue
BY DEF OwnEnqueue

\* The enqueue script queues nobody but its own user.
LEMMA EnqueueRequeues ==
    ASSUME Inv, NEW c \in Call, EnqueueScript(c)
    PROVE  OwnEnqueue
<1> DEFINE u == call[c].user
           W == Waiting \cup {u}
<1>1. queue \in Seq(User) /\ u \in W
  BY DEF Inv, TypeOK
<1>2. \A i \in DOMAIN queue : queue[i] \in W
  BY DEF Waiting
<1>3. queue' = Added(Purged(queue), u) \/ queue' = Purged(queue)
  BY DEF EnqueueScript
<1>4. Whitelisted' = Whitelisted
  BY DEF EnqueueScript, Whitelisted
<1> HIDE DEF W, u
<1>5. queue \in Seq(W)
  BY <1>1, <1>2, WaitingType
<1>6. Purged(queue) \in Seq(W)
  BY <1>5, PurgedType
<1>7. queue' \in Seq(W)
  BY <1>1, <1>3, <1>6, AddedType
<1>8. Waiting' \subseteq W
  <2>1. \A i \in DOMAIN queue' : queue'[i] \in W
    BY <1>7, LenProperties, ElementOfSeq
  <2> QED
    BY <2>1 DEF Waiting
<1> QED
  BY <1>4, <1>8 DEF OwnEnqueue, W, u

\* A promotion leaves nobody it admits in the queue: the queue has them once.
LEMMA PromotionRequeuesNobody ==
    ASSUME TypeOK, OrderInv, NEW d \in Nat, TryWhitelist(d)
    PROVE  OwnEnqueue
<1> DEFINE n == Grant(d)
           I == Scanned(n)
<1>1. n \in Nat /\ queue \in Seq(User)
  BY GrantBound DEF TypeOK
<1>2. /\ queue' = Cut(I, queue)
      /\ whitelist' = [u \in User |-> IF u \in Admitted(n) THEN WhitelistTTL
                                      ELSE whitelist[u]]
  BY DEF TryWhitelist, Cut
<1>3. AtHead(I, queue)
  BY <1>1, ScannedAtHead
<1>4. Admitted(n) = {queue[i] : i \in Alive \cap I}
  BY DEF Admitted
<1> HIDE DEF n, I
<1>5. /\ \A i \in DOMAIN queue' : \E j \in DOMAIN queue \ I : queue'[i] = queue[j]
      /\ \A j \in DOMAIN queue \ I : \E i \in DOMAIN queue' : queue'[i] = queue[j]
      /\ InOrder(queue', life)
  BY <1>1, <1>2, <1>3, TailKeeps DEF OrderInv
<1>6. Waiting' \subseteq {queue[j] : j \in DOMAIN queue \ I}
  BY <1>5 DEF Waiting
<1>7. DOMAIN queue = 1 .. Len(queue) /\ Len(queue) \in Nat /\ I \in SUBSET DOMAIN queue
  BY <1>1, <1>3, LenProperties DEF AtHead
<1>8. \A u \in Waiting' : u \in Waiting /\ u \notin Admitted(n)
  <2> SUFFICES ASSUME NEW u \in Waiting' PROVE u \in Waiting /\ u \notin Admitted(n)
    OBVIOUS
  <2>1. PICK j \in DOMAIN queue \ I : queue[j] = u
    BY <1>6
  <2>2. ASSUME NEW i \in Alive \cap I, queue[i] = u PROVE FALSE
    <3>1. i \in DOMAIN queue /\ i # j
      BY <1>7, <2>1, <2>2
    <3>2. i < j \/ j < i
      BY <1>7, <2>1, <3>1
    <3> QED
      BY <2>1, <2>2, <3>1, <3>2 DEF OrderInv, InOrder
  <2> QED
    BY <1>4, <2>1, <2>2 DEF Waiting
<1>9. \A u \in Whitelisted' : u \in Whitelisted \/ u \in Admitted(n)
  BY <1>2 DEF Whitelisted
<1> QED
  BY <1>8, <1>9 DEF OwnEnqueue

\* Every other step queues nobody and admits nobody.
LEMMA NextRequeues ==
    ASSUME Inv, OrderInv, [Next]_vars
    PROVE  OwnEnqueue
<1>1. /\ TypeOK /\ queue \in Seq(User) /\ whitelist \in [User -> 0 .. WhitelistTTL]
  BY DEF Inv, TypeOK
<1>2. ASSUME UNCHANGED <<queue, whitelist>> PROVE OwnEnqueue
  BY <1>2, NobodyRequeued DEF Waiting, Whitelisted
<1>3. ASSUME NEW c \in Call, CallNext(c) PROVE OwnEnqueue
  <2>1. ASSUME NEW u \in User, EnqueueCheck(c, u) PROVE OwnEnqueue
    BY <1>2, <2>1 DEF EnqueueCheck, redis
  <2>2. ASSUME NEW u \in User, Dequeue(c, u) PROVE OwnEnqueue
    <3>1. Whitelisted' \subseteq Whitelisted
      BY <1>1, <2>2 DEF Dequeue, Whitelisted
    <3>2. queue \in Seq(Waiting)
      <4>1. \A i \in DOMAIN queue : queue[i] \in Waiting
        BY DEF Waiting
      <4> QED
        BY <1>1, <4>1, WaitingType
    <3>3. queue' \in Seq(Waiting)
      BY <2>2, <3>2, WithoutType DEF Dequeue
    <3>4. \A i \in DOMAIN queue' : queue'[i] \in Waiting
      BY <3>3, LenProperties, ElementOfSeq
    <3>5. Waiting' \subseteq Waiting
      <4> DEFINE W == Waiting
      <4>1. \A i \in DOMAIN queue' : queue'[i] \in W
        BY <3>4
      <4>2. Waiting' = {queue'[i] : i \in DOMAIN queue'}
        BY DEF Waiting
      <4> HIDE DEF W
      <4>3. Waiting' \subseteq W
        BY <4>1, <4>2
      <4> QED
        BY <4>3 DEF W
    <3> QED
      BY <3>1, <3>5, NobodyRequeued
  <2>3. ASSUME NEW u \in User, ReleaseSlot(c, u) PROVE OwnEnqueue
    <3>1. Whitelisted' \subseteq Whitelisted
      BY <1>1, <2>3 DEF ReleaseSlot, Whitelisted
    <3>2. Waiting' = Waiting
      BY <2>3 DEF ReleaseSlot, Waiting
    <3> QED
      BY <3>1, <3>2, NobodyRequeued
  <2>4. CASE EnqueueScript(c)
    BY <2>4, EnqueueRequeues
  <2>5. CASE EnqueueTrack(c) \/ EnqueueTrackFails(c) \/ CallAbandoned(c)
    BY <1>2, <2>5 DEF EnqueueTrack, EnqueueTrackFails, CallAbandoned, redis
  <2>6. CASE Promote(c)
    BY <1>1, <2>6, PromotionRequeuesNobody DEF Promote
  <2> QED
    BY <1>3, <2>1, <2>2, <2>3, <2>4, <2>5, <2>6 DEF CallNext
<1>4. ASSUME NEW p \in Promoter, PromoterSteps(p) \/ PromoterMisreads(p) \/ PromoterFails(p)
      PROVE  OwnEnqueue
  <2>1. CASE PromoterAdmit(p)
    <3>1. promoter[p].free \in Nat
      BY <1>1 DEF TypeOK, PromoterState
    <3> QED
      BY <1>1, <2>1, <3>1, PromotionRequeuesNobody DEF PromoterAdmit
  <2>2. CASE ~PromoterAdmit(p)
    BY <1>2, <1>4, <2>2
       DEF PromoterSteps, PromoterScan, PromoterZCard, PromoterUntrack, PromoterHLen,
           PromoterGet, PromoterMisreads, PromoterReads, PromoterFails, redis
  <2> QED
    BY <2>1, <2>2
<1>5. ASSUME NEW u \in User, Ping(u) PROVE OwnEnqueue
  BY <1>2, <1>5 DEF Ping
<1>6. ASSUME NEW g \in Overrides \cup {0}, SetOverride(g) PROVE OwnEnqueue
  BY <1>2, <1>6 DEF SetOverride
<1>7. CASE FlushDB
  <2>1. queue' = <<>>
    BY <1>7 DEF FlushDB
  <2>2. Waiting' = {}
    BY <2>1 DEF Waiting
  <2> QED
    BY <2>2 DEF OwnEnqueue
<1>8. CASE Tick
  <2>1. Waiting' = Waiting
    BY <1>8 DEF Tick, Waiting
  <2>2. \A u \in User : whitelist'[u] > 0 => whitelist[u] > 0
    BY <1>1, <1>8, LessType, TTLAssumption DEF Tick
  <2> QED
    BY <2>1, <2>2, NobodyRequeued DEF Whitelisted
<1>9. CASE UNCHANGED vars
  BY <1>2, <1>9 DEF vars, redis
<1> QED
  BY <1>3, <1>4, <1>5, <1>6, <1>7, <1>8, <1>9 DEF Next

\* A user comes to hold a slot and a place in the queue at once only by the script
\* of their own Enqueue, whatever promotions, expiries and purges come before it.
THEOREM NobodyElseRequeues == Spec => OnlyEnqueueRequeuesHolder
<1>1. (Inv /\ OrderInv) /\ [Next]_vars
      => [\A u \in (Waiting' \cap Whitelisted') \ (Waiting \cap Whitelisted) :
            \E c \in Call :
               /\ EnqueueScript(c)
               /\ call[c].user = u
               /\ u \in Whitelisted]_vars
  BY NextRequeues DEF OwnEnqueue
<1> QED
  BY <1>1, OrderAlways, PTL DEF Spec, OnlyEnqueueRequeuesHolder
=============================================================================
