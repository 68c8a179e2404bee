------------------------------ MODULE SeatSales ------------------------------
(***************************************************************************)
(* What the reservation store promises, without transactions, locks or     *)
(* clocks: a book of reservations in which every reserve, confirm,         *)
(* release, sweep and administrative statement is one indivisible step.    *)
(*                                                                         *)
(* Time appears only as a change of status: a hold that ran out is         *)
(* "lapsed", and a confirmation that took effect after its hold lapsed is  *)
(* "overdue".  Neither is in force, and a sale counts only what is.        *)
(***************************************************************************)
EXTENDS Naturals, FiniteSets

CONSTANTS User, Key, NoKey, RowId, NoOne, Capacities, MaxReservePerUser, Quantities

VARIABLES
    book,       \* the reservations
    capacity    \* the capacity of the event

sales == <<book, capacity>>

SaleStatus == {"absent", "held", "lapsed", "confirmed", "overdue",
               "released", "expired", "deleted"}

Entry == [user : User \cup {NoOne}, quantity : 0 .. MaxReservePerUser,
          key : Key \cup {NoKey}, status : SaleStatus]

AbsentEntry == [user |-> NoOne, quantity |-> 0, key |-> NoKey, status |-> "absent"]

\* The reservations that count against the capacity, and their seats.
InForce == {r \in RowId : book[r].status \in {"held", "confirmed"}}
InForceOf(u) == {r \in InForce : book[r].user = u}
SeatsIn(S) == Cardinality({s \in S \X (1 .. MaxReservePerUser) :
                              s[2] <= book[s[1]].quantity})

\* The key is new for this user: no reservation of theirs carries it.
NewKey(u, k) ==
    \A r \in RowId : ~(/\ k # NoKey
                       /\ book[r].status \notin {"absent", "deleted"}
                       /\ book[r].user = u
                       /\ book[r].key = k)

\* The reservations S get status st, the others stay as they are.
Restated(S, st) ==
    [r \in RowId |-> IF r \in S THEN [book[r] EXCEPT !.status = st] ELSE book[r]]

-----------------------------------------------------------------------------

\* ReserveEvent: q seats are sold to u if they fit the quota and the capacity.
\* A hold whose transaction outlasted its TTL lapses as it is entered.
Sell(r, u, q, k) ==
    /\ book[r].status = "absent"
    /\ NewKey(u, k)
    /\ SeatsIn(InForceOf(u)) + q <= MaxReservePerUser
    /\ SeatsIn(InForce) + q <= capacity
    /\ \E st \in {"held", "lapsed"} :
          book' = [book EXCEPT ![r] = [user |-> u, quantity |-> q, key |-> k,
                                       status |-> st]]
    /\ UNCHANGED capacity

\* ConfirmReservation in time, and one that straddled the end of its hold.
Confirm(r) ==
    /\ \/ book[r].status = "held" /\ book' = Restated({r}, "confirmed")
       \/ book[r].status = "lapsed" /\ book' = Restated({r}, "overdue")
    /\ UNCHANGED capacity

\* ReleaseReservation: also of a hold that lapsed since the call began.
Release(r) ==
    /\ book[r].status \in {"held", "lapsed"}
    /\ book' = Restated({r}, "released")
    /\ UNCHANGED capacity

\* Time passes: some holds run out.
Lapse(S) ==
    /\ \A r \in S : book[r].status = "held"
    /\ book' = Restated(S, "lapsed")
    /\ UNCHANGED capacity

\* RefreshEventStatus: expires holds that lapsed, and nothing else.
Expire(S) ==
    /\ \A r \in S : book[r].status = "lapsed"
    /\ book' = Restated(S, "expired")
    /\ UNCHANGED capacity

\* The simulator's reset.
DeleteAll ==
    /\ book' = [r \in RowId |-> IF book[r].status = "absent" THEN book[r]
                                ELSE [AbsentEntry EXCEPT !.status = "deleted"]]
    /\ UNCHANGED capacity

SetCapacity == capacity' \in Capacities /\ UNCHANGED book

-----------------------------------------------------------------------------

Init == book = [r \in RowId |-> AbsentEntry] /\ capacity \in Capacities

Next ==
    \/ \E r \in RowId, u \in User, q \in Quantities, k \in Key \cup {NoKey} :
          Sell(r, u, q, k)
    \/ \E r \in RowId : Confirm(r) \/ Release(r)
    \/ \E S \in SUBSET RowId : Lapse(S) \/ Expire(S)
    \/ DeleteAll
    \/ SetCapacity

Spec == Init /\ [][Next]_sales
=============================================================================
