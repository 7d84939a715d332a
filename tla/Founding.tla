------------------------------- MODULE Founding -------------------------------
(***************************************************************************)
(* The founding campaign: customers ask for one of Capacity numbered       *)
(* places (POST /founders/join).  A request is one transaction; it looks   *)
(* for the customer among the members without a lock, then takes the lock  *)
(* of the campaign's row, which holds the count, and inserts the member.   *)
(* The members have unique customers and unique numbers.  The campaign is  *)
(* active: nothing in the program closes it.                               *)
(***************************************************************************)
EXTENDS Naturals

CONSTANTS Customers,
          Requests,      \* calls of POST /founders/join
          Capacity,      \* places, 1000 in the program
          Nobody         \* who holds the row when no request does

\* What the theorems about this module assume; Accounts states it of its instance.
FoundingAssumptions == Capacity \in Nat /\ Nobody \notin Requests

VARIABLES allocated,     \* founding_campaign_state.allocated_count
          members,       \* founding_members
          rowLock,       \* the request that holds the campaign's row
          join           \* per request: how far it is, and what it has read

foundingVars == <<allocated, members, rowLock, join>>

Member == [customer : Customers, number : 1..Capacity]
Answers == {"member", "full", "conflict", "failed"}

Numbers     == {m.number : m \in members}
IsMember(c) == \E m \in members : m.customer = c

FInit ==
    /\ allocated = 0
    /\ members = {}
    /\ rowLock = Nobody
    /\ join = [j \in Requests |-> [pc |-> "idle"]]

-----------------------------------------------------------------------------

Answered(j, c, what, n) ==
    join' = [join EXCEPT ![j] = [pc |-> "answered", customer |-> c,
                                 answer |-> what, number |-> n]]

\* A member is told the number it has; anyone else goes on.
Check(j, c) ==
    /\ join[j].pc = "idle"
    /\ IF IsMember(c)
       THEN \E m \in members : m.customer = c /\ Answered(j, c, "member", m.number)
       ELSE join' = [join EXCEPT ![j] = [pc |-> "waiting", customer |-> c]]
    /\ UNCHANGED <<allocated, members, rowLock>>

\* Definitions named Bug.. vary the one they precede, as a mistake in the code
\* would; each breaks a property below, and nothing else refers to them.

BugUnlockedRead(j) ==
    /\ join[j].pc = "waiting"
    /\ allocated < Capacity
    /\ join' = [join EXCEPT ![j] = [pc |-> "locked", customer |-> @.customer,
                                    number |-> allocated + 1]]
    /\ UNCHANGED <<allocated, members, rowLock>>

\* SELECT .. FOR UPDATE: the count is read when the lock is granted.
Lock(j) ==
    /\ join[j].pc = "waiting"
    /\ rowLock = Nobody
    /\ allocated < Capacity
    /\ rowLock' = j
    /\ join' = [join EXCEPT ![j] = [pc |-> "locked", customer |-> @.customer,
                                    number |-> allocated + 1]]
    /\ UNCHANGED <<allocated, members>>

\* All places are taken: ROLLBACK, which frees the row.
TurnAway(j) ==
    /\ join[j].pc = "waiting"
    /\ rowLock = Nobody
    /\ allocated = Capacity
    /\ Answered(j, join[j].customer, "full", 0)
    /\ UNCHANGED <<allocated, members, rowLock>>

BugNotCounted(j) ==
    /\ join[j].pc = "locked"
    /\ ~IsMember(join[j].customer) /\ join[j].number \notin Numbers
    /\ members' = members \cup {[customer |-> join[j].customer, number |-> join[j].number]}
    /\ rowLock' = Nobody
    /\ Answered(j, join[j].customer, "member", join[j].number)
    /\ UNCHANGED allocated

\* The member is inserted, the count is set, and the transaction commits.
Enter(j) ==
    /\ join[j].pc = "locked"
    /\ ~IsMember(join[j].customer) /\ join[j].number \notin Numbers
    /\ members' = members \cup {[customer |-> join[j].customer, number |-> join[j].number]}
    /\ allocated' = join[j].number
    /\ rowLock' = Nobody
    /\ Answered(j, join[j].customer, "member", join[j].number)

\* The INSERT meets one of the two unique constraints.
Collide(j) ==
    /\ join[j].pc = "locked"
    /\ IsMember(join[j].customer) \/ join[j].number \in Numbers
    /\ rowLock' = Nobody
    /\ Answered(j, join[j].customer, "conflict", 0)
    /\ UNCHANGED <<allocated, members>>

BugBreakHoldsLock(j) ==
    /\ join[j].pc \in {"waiting", "locked"}
    /\ Answered(j, join[j].customer, "failed", 0)
    /\ UNCHANGED <<allocated, members, rowLock>>

\* A statement fails or the connection is lost: everything is rolled back.
Break(j) ==
    /\ join[j].pc \in {"waiting", "locked"}
    /\ rowLock' = IF rowLock = j THEN Nobody ELSE rowLock
    /\ Answered(j, join[j].customer, "failed", 0)
    /\ UNCHANGED <<allocated, members>>

FStep(j) == Lock(j) \/ TurnAway(j) \/ Enter(j) \/ Collide(j) \/ Break(j)

FNext == \E j \in Requests : FStep(j) \/ \E c \in Customers : Check(j, c)

\* The server works on a request that has begun, and PostgreSQL grants a row
\* lock that becomes free again and again to whoever waits for it.
FFairness == \A j \in Requests :
    /\ SF_foundingVars(Lock(j) \/ TurnAway(j))
    /\ WF_foundingVars(Enter(j) \/ Collide(j))

FSpec == FInit /\ [][FNext]_foundingVars /\ FFairness

-----------------------------------------------------------------------------

FTypeOK ==
    /\ allocated \in 0..Capacity
    /\ members \subseteq Member
    /\ rowLock \in Requests \cup {Nobody}
    /\ join \in [Requests ->
           [pc : {"idle"}]
           \cup [pc : {"waiting"}, customer : Customers]
           \cup [pc : {"locked"}, customer : Customers, number : 1..Capacity]
           \cup [pc : {"answered"}, customer : Customers, answer : Answers,
                 number : 0..Capacity]]

\* The places are given out in order, without a gap, each to one customer and
\* at most one to a customer, and whoever is told a number has that place:
\* "founder numbers are allocated under a row lock" (035_founding_1000.sql).
FoundersNumbered ==
    /\ Numbers = 1..allocated
    /\ \A m, n \in members : m.customer = n.customer \/ m.number = n.number => m = n
    /\ \A j \in Requests : join[j].pc = "answered" /\ join[j].answer = "member" =>
           [customer |-> join[j].customer, number |-> join[j].number] \in members

\* Only a customer who has a place already is turned away by a constraint, and
\* only a full campaign turns others away: nobody loses a place to a race.
NoPlaceLost == \A j \in Requests : join[j].pc = "answered" =>
    /\ join[j].answer = "conflict" => IsMember(join[j].customer)
    /\ join[j].answer = "full" => allocated = Capacity

\* Every request that has begun is answered, even while others hold the row.
JoinEnds == \A j \in Requests : join[j].pc = "waiting" ~> join[j].pc = "answered"
=============================================================================
