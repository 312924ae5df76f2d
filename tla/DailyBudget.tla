----------------------------- MODULE DailyBudget -----------------------------
(***************************************************************************)
(* What the relay's quota ledger promises about the provider's money, with *)
(* no disk, no lock, no process and no crash: a request is granted on some *)
(* day only while the costs of that day's grants leave room for its own    *)
(* worst case, and the only later change of a cost is the one report of    *)
(* what the request really cost.  QuotaLedger is proved to implement it.   *)
(***************************************************************************)
EXTENDS Naturals, FiniteSetsExt

CONSTANTS Requests,   \* the requests that may ask for a reservation
          Budget      \* what one day's grants may cost in the worst case

VARIABLES day,        \* the current day
          grants      \* request -> [day, cost, reported]; day NotGranted before

vars == <<day, grants>>

\* Days start at 1; 0 says that a request holds no grant.
NotGranted == 0

NoGrant == [day |-> NotGranted, cost |-> 0, reported |-> FALSE]

CostOfDay(d) ==
  SumFunctionOnSet([r \in Requests |-> grants[r].cost], {r \in Requests : grants[r].day = d})

Init ==
  /\ day = 1
  /\ grants = [r \in Requests |-> NoGrant]

\* A grant counts on the day it was asked for, even if midnight passes before it is given.
Grant(r, asked, worst) ==
  /\ grants[r].day = NotGranted
  /\ CostOfDay(asked) + worst <= Budget
  /\ grants' = [grants EXCEPT ![r] = [day |-> asked, cost |-> worst, reported |-> FALSE]]
  /\ UNCHANGED day

Report(r, actual) ==
  /\ grants[r].day # NotGranted
  /\ ~grants[r].reported
  /\ grants' = [grants EXCEPT ![r].cost = actual, ![r].reported = TRUE]
  /\ UNCHANGED day

NewDay ==
  /\ day' > day
  /\ UNCHANGED grants

Next ==
  \/ \E r \in Requests :
       \/ \E asked \in 1..day : Grant(r, asked, grants'[r].cost)
       \/ Report(r, grants'[r].cost)
  \/ NewDay

Spec == Init /\ [][Next]_vars
=============================================================================
