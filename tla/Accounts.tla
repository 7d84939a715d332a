------------------------------- MODULE Accounts -------------------------------
(***************************************************************************)
(* Signing in (SignIn) together with the founding campaign (Founding):     *)
(* joining asks for a live session of the customer who joins, and nothing  *)
(* else of that customer; the session may end while the request waits.     *)
(***************************************************************************)
EXTENDS SignIn

CONSTANTS Joins, Capacity, Nobody

VARIABLES allocated, members, rowLock, join

F == INSTANCE Founding WITH Customers <- Phones, Requests <- Joins

vars == <<signInVars, allocated, members, rowLock, join>>

ASSUME AccountsAssumptions == F!FoundingAssumptions

\* authenticateCustomer: the caller is the customer of a session that is live.
Authenticated(p) == \E r \in sessions : r.customer = p

BugAnyoneJoins(j, p) == customer[p].status = "ACTIVE" /\ F!Check(j, p) /\ UNCHANGED signInVars

Join(j, p) == Authenticated(p) /\ F!Check(j, p) /\ UNCHANGED signInVars

AInit == Init /\ F!FInit

ANext ==
    \/ SignInNext /\ UNCHANGED <<allocated, members, rowLock, join>>
    \/ \E j \in Joins, p \in Phones : Join(j, p)
    \/ \E j \in Joins : F!FStep(j) /\ UNCHANGED signInVars

Spec == AInit /\ [][ANext]_vars

\* The founding requests are served as Founding says, whatever happens to the
\* sessions meanwhile.
FairSpec == Spec /\ F!FFairness

-----------------------------------------------------------------------------

TypeOK == SignInTypeOK /\ F!FTypeOK

\* "Verified customers only" (035_founding_1000.sql): the route does not look at
\* the customer, so a live session must be enough.
FoundersAreVerified == \A m \in members : customer[m.customer].verified

FoundersNumbered == F!FoundersNumbered
NoPlaceLost      == F!NoPlaceLost
JoinEnds         == F!JoinEnds
=============================================================================
