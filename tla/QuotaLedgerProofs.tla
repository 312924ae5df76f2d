-------------------------- MODULE QuotaLedgerProofs --------------------------
(***************************************************************************)
(* Theorems about QuotaLedger for every value of its constants.            *)
(***************************************************************************)
EXTENDS QuotaLedger, FiniteSetTheorems, WellFoundedInduction, TLAPS

-----------------------------------------------------------------------------
(* Arithmetic and values *)

\* A rounded-up cost is a natural number of micro-dollars.
LEMMA CeilCostNat ==
  ASSUME NEW tokens \in Nat, NEW price \in Nat, price # 0
  PROVE  ceilCost(tokens, price) \in Nat
<1>1. tokens * price \in Nat
  OBVIOUS
<1>2. QED
  BY <1>1, ConfigAssumption DEF ceilCost

LEMMA EstimateNat ==
  ASSUME NEW input \in Nat, NEW output \in Nat
  PROVE  estimateSpendMicroUsd(input, output) \in Nat
BY CeilCostNat, ConfigAssumption DEF estimateSpendMicroUsd

LEMMA CountersType == counters \in Counters
BY DEF counters, Counters

LEMMA EmptyStateType ==
  ASSUME NEW day \in Nat
  PROVE  emptyState(day) \in LedgerStates
BY CountersType DEF emptyState, LedgerStates

LEMMA IdleType == Idle \in Ops
BY EmptyStateType DEF Idle, Ops, OpKinds, NoState

LEMMA WriteType ==
  ASSUME NEW kind \in OpKinds, NEW next \in LedgerStates
  PROVE  Write(kind, next) \in Ops
BY DEF Write, Ops

LEMMA DropType ==
  ASSUME NEW state \in LedgerStates, NEW gone
  PROVE  Drop(state, gone) \in LedgerStates
BY CountersType DEF Drop, LedgerStates

LEMMA ChargeType ==
  ASSUME NEW entry \in Counters, NEW tokens \in Nat, NEW spend \in Nat
  PROVE  Charge(entry, tokens, spend) \in Counters
BY DEF Charge, Counters

LEMMA ChargedType ==
  ASSUME NEW state \in LedgerStates, NEW k \in Identities, NEW res \in Reservations
  PROVE  Charged(state, k, res) \in LedgerStates
<1>1. Charge(state.provider, res.tokens, res.spend) \in Counters
  BY ChargeType DEF LedgerStates, Reservations
<1>2. Charge(state.use[k], res.tokens, res.idSpend) \in Counters
  BY ChargeType DEF LedgerStates, Reservations
<1>3. QED
  BY <1>1, <1>2 DEF Charged, LedgerStates

\* What is given back was charged: an adjusted entry still counts in natural numbers.
LEMMA AdjustType ==
  ASSUME NEW entry \in Counters, NEW res \in Reservations, NEW reservedSpend \in Nat,
         ~Underflows(entry, res, reservedSpend)
  PROVE  Adjust(entry, res, reservedSpend) \in Counters
<1>1. /\ entry.tokens \in Nat /\ entry.spend \in Nat /\ entry.requests \in Nat
      /\ res.tokens \in Nat /\ res.actualTokens \in Nat /\ res.actualSpend \in Nat
  BY DEF Counters, Reservations
<1>2. /\ entry.tokens + res.actualTokens - res.tokens \in Nat
      /\ entry.spend + res.actualSpend - reservedSpend \in Nat
  BY <1>1 DEF Underflows
<1>3. QED
  BY <1>1, <1>2 DEF Adjust, Counters

LEMMA SettledStateType ==
  ASSUME TypeOK, NEW res \in Reservations, ~SettleUnderflows(res)
  PROVE  SettledState(res) \in LedgerStates
<1>1. mem \in LedgerStates
  BY DEF TypeOK
<1>2. Adjust(mem.provider, res, res.spend) \in Counters
  BY <1>1, AdjustType DEF SettleUnderflows, LedgerStates, Reservations
<1>3. CASE AdjustsIdentity(res)
  <2>1. Adjust(mem.use[res.key], res, res.idSpend) \in Counters
    BY <1>1, <1>3, AdjustType DEF SettleUnderflows, LedgerStates, Reservations
  <2>2. QED
    BY <1>1, <1>2, <1>3, <2>1 DEF SettledState, LedgerStates, Reservations
<1>4. CASE ~AdjustsIdentity(res)
  BY <1>1, <1>2, <1>4 DEF SettledState, LedgerStates
<1>5. QED
  BY <1>3, <1>4

LEMMA SourceStateType == TypeOK => SourceState \in LedgerStates
BY EmptyStateType DEF TypeOK, SourceState

LEMMA NewReservationType == NewReservation \in Reservations
<1>1. (CHOOSE k \in Identities : TRUE) \in Identities
  BY BoundsAssumption
<1>2. QED
  BY <1>1 DEF NewReservation, Reservations, Statuses, NoAdmission

LEMMA ReservingType ==
  ASSUME TypeOK, NEW k \in Identities, NEW s \in Shapes, NEW symbol \in Nat
  PROVE  Reserving(k, s, symbol) \in Reservations
<1>1. s.input \in Nat /\ s.output \in Nat /\ s.worst \in Nat
  BY ShapesAssumption
<1>2. /\ estimateSpendMicroUsd(s.input, s.output) \in Nat
      /\ estimateSpendMicroUsd(s.worst, s.output) \in Nat
  BY <1>1, EstimateNat
<1>3. QED
  BY <1>1, <1>2 DEF TypeOK, Reserving, Reservations, Statuses

LEMMA ReportedType ==
  ASSUME NEW res \in Reservations, NEW u \in Usages
  PROVE  Reported(res, u) \in Reservations
<1>1. u.input + u.output \in Nat
  BY UsagesAssumption
<1>2. ReportedSpend(u) \in Nat
  BY UsagesAssumption, EstimateNat DEF ReportedSpend
<1>3. ASSUME NEW tokens \in Nat, NEW spend \in Nat
      PROVE  [res EXCEPT !.actualTokens = tokens, !.actualSpend = spend] \in Reservations
  BY DEF Reservations
<1>4. QED
  BY <1>1, <1>2, <1>3 DEF Reported

LEMMA AfterCrashType ==
  ASSUME NEW res \in Reservations
  PROVE  AfterCrash(res) \in Reservations
BY DEF AfterCrash, Reservations, Statuses

LEMMA HeldInType ==
  ASSUME NEW next, NEW reservations \in [Requests -> Reservations]
  PROVE  HeldIn(next, reservations) \in [Requests -> Reservations]
BY DEF HeldIn, Reservations

-----------------------------------------------------------------------------
(* Types *)

LEMMA InitType == Init => TypeOK
<1> SUFFICES ASSUME Init PROVE TypeOK
  OBVIOUS
<1>1. mem \in LedgerStates /\ disk \in LedgerStates
  BY EmptyStateType DEF Init, NoState
<1>2. op \in Ops
  BY IdleType DEF Init
<1>3. resv \in [Requests -> Reservations]
  BY NewReservationType DEF Init
<1>4. QED
  BY <1>1, <1>2, <1>3 DEF Init, TypeOK, NoAdmission

LEMMA ReserveBeginType ==
  ASSUME TypeOK, NEW r \in Requests, NEW k \in Identities, NEW s \in Shapes, ReserveBegin(r, k, s)
  PROVE  TypeOK'
<1> DEFINE symbol == IF k \in SourceState.tracked THEN admissions[k] ELSE fresh
           res == Reserving(k, s, symbol)
<1>3. res \in Reservations
  BY ReservingType DEF TypeOK
<1>4. PICK victims \in Victims(SourceState, k) :
        op' = Write("reserve", Charged(Drop(SourceState, victims), k, res))
  BY DEF ReserveBegin
<1>5. op' \in Ops
  <2>1. Charged(Drop(SourceState, victims), k, res) \in LedgerStates
    BY <1>3, SourceStateType, DropType, ChargedType
  <2>2. QED
    BY <1>4, <2>1, WriteType DEF OpKinds
<1>6. resv' \in [Requests -> Reservations]
  <2>1. resv' = [resv EXCEPT ![r] = res]
    BY DEF ReserveBegin
  <2>2. QED
    BY <1>3, <2>1 DEF TypeOK
<1>7. fresh' \in Nat \ {0}
  BY DEF ReserveBegin, TypeOK
<1>8. QED
  BY <1>5, <1>6, <1>7 DEF ReserveBegin, TypeOK, process, faults

LEMMA SettleBeginType ==
  ASSUME TypeOK, NEW r \in Requests, NEW u \in Usages, SettleBegin(r, u)
  PROVE  TypeOK'
<1> DEFINE res == Reported(resv[r], u)
<1>3. res \in Reservations
  BY ReportedType DEF TypeOK
<1>4. op' \in Ops
  <2>1. CASE SettleUnderflows(res)
    BY <2>1 DEF SettleBegin, TypeOK
  <2>2. CASE ~SettleUnderflows(res)
    BY <1>3, <2>2, SettledStateType, WriteType DEF SettleBegin, OpKinds
  <2>3. QED
    BY <2>1, <2>2
<1>5. resv' \in [Requests -> Reservations]
  <2>1. /\ [res EXCEPT !.status = "uncertain"] \in Reservations
        /\ [res EXCEPT !.status = "settling"] \in Reservations
    BY <1>3 DEF Reservations, Statuses
  <2>2. \E st \in {"uncertain", "settling"} : resv' = [resv EXCEPT ![r] = [res EXCEPT !.status = st]]
    BY DEF SettleBegin
  <2>3. QED
    BY <2>1, <2>2 DEF TypeOK
<1>6. QED
  BY <1>4, <1>5 DEF SettleBegin, TypeOK, process, symbols, faults

LEMMA PublishType ==
  ASSUME TypeOK, op.renamed, mem' = op.next, op' = Idle, UNCHANGED <<clock, disk, faults>>
  PROVE  /\ mem' \in LedgerStates /\ op' \in Ops /\ disk' \in LedgerStates
         /\ clock' \in Nat \ {0} /\ crashes' \in Nat /\ writeFailures' \in Nat
BY IdleType DEF TypeOK, Ops, faults

LEMMA PublishReserveType ==
  ASSUME TypeOK, NEW r \in Requests, PublishReserve(r)
  PROVE  TypeOK'
<1>1. /\ mem' \in LedgerStates /\ op' \in Ops /\ disk' \in LedgerStates
      /\ clock' \in Nat \ {0} /\ crashes' \in Nat /\ writeFailures' \in Nat
  BY PublishType DEF PublishReserve, Published
<1>2. admissions' \in [Identities -> Nat]
  BY DEF PublishReserve, TypeOK, Reservations, NoAdmission
<1>3. resv' \in [Requests -> Reservations]
  <2> DEFINE after == HeldIn(op.next, resv)
  <2>1. after \in [Requests -> Reservations]
    BY HeldInType DEF TypeOK
  <2>2. [after[r] EXCEPT !.status = "live", !.held = TRUE] \in Reservations
    BY <2>1 DEF Reservations, Statuses
  <2>3. resv' = [after EXCEPT ![r] = [after[r] EXCEPT !.status = "live", !.held = TRUE]]
    <3>1. resv' = [after EXCEPT ![r].status = "live", ![r].held = TRUE]
      BY DEF PublishReserve
    <3> HIDE DEF after
    <3>2. QED
      BY <2>1, <3>1
  <2>4. QED
    BY <2>1, <2>2, <2>3
<1>4. QED
  BY <1>1, <1>2, <1>3 DEF PublishReserve, TypeOK, process

LEMMA NextType == TypeOK /\ [Next]_vars => TypeOK'
<1> SUFFICES ASSUME TypeOK, [Next]_vars PROVE TypeOK'
  OBVIOUS
<1>1. ASSUME NEW r \in Requests, NEW k \in Identities, NEW s \in Shapes, ReserveBegin(r, k, s)
      PROVE  TypeOK'
  BY <1>1, ReserveBeginType
<1>2. ASSUME NEW r \in Requests, NEW k \in Identities, NEW s \in Shapes, ReserveRefused(r, k, s)
      PROVE  TypeOK'
  BY <1>2 DEF ReserveRefused, TypeOK, Reservations, Statuses, process, symbols, faults
<1>3. ASSUME NEW r \in Requests, NEW u \in Usages, SettleBegin(r, u)
      PROVE  TypeOK'
  BY <1>3, SettleBeginType
<1>4. ASSUME NEW r \in Requests, NEW u \in Usages, SettleLate(r, u)
      PROVE  TypeOK'
  BY <1>4 DEF SettleLate, TypeOK, Reservations, Statuses, process, symbols, faults
<1>5. ASSUME NEW r \in Requests, EndsWithoutUsage(r)
      PROVE  TypeOK'
  BY <1>5 DEF EndsWithoutUsage, TypeOK, Reservations, Statuses, process, symbols, faults
<1>6. ASSUME NEW r \in Requests, PublishReserve(r)
      PROVE  TypeOK'
  BY <1>6, PublishReserveType
<1>7. ASSUME NEW r \in Requests, PublishSettle(r)
      PROVE  TypeOK'
  <2>1. /\ mem' \in LedgerStates /\ op' \in Ops /\ disk' \in LedgerStates
        /\ clock' \in Nat \ {0} /\ crashes' \in Nat /\ writeFailures' \in Nat
    BY <1>7, PublishType DEF PublishSettle, Published
  <2>2. resv' \in [Requests -> Reservations]
    BY <1>7 DEF PublishSettle, TypeOK, Reservations, Statuses
  <2>3. QED
    BY <1>7, <2>1, <2>2 DEF PublishSettle, TypeOK, process, symbols
<1>8. CASE RotateBegin
  <2>1. op' \in Ops
    BY <1>8, EmptyStateType, WriteType DEF RotateBegin, TypeOK, OpKinds
  <2>2. QED
    BY <1>8, <2>1 DEF RotateBegin, TypeOK, process, symbols, faults
<1>9. CASE PublishRotate
  <2>1. /\ mem' \in LedgerStates /\ op' \in Ops /\ disk' \in LedgerStates
        /\ clock' \in Nat \ {0} /\ crashes' \in Nat /\ writeFailures' \in Nat
    BY <1>9, PublishType DEF PublishRotate, Published
  <2>2. resv' \in [Requests -> Reservations]
    BY <1>9, HeldInType DEF PublishRotate, TypeOK
  <2>3. QED
    BY <1>9, <2>1, <2>2 DEF PublishRotate, TypeOK, process, NoAdmission
<1>10. CASE Rename
  <2>1. disk' \in LedgerStates /\ op' \in Ops
    BY <1>10 DEF Rename, TypeOK, Ops
  <2>2. QED
    BY <1>10, <2>1 DEF Rename, TypeOK, process, symbols, faults
<1>11. CASE WriteFails
  <2>1. resv' \in [Requests -> Reservations]
    BY <1>11 DEF WriteFails, TypeOK, Reservations, Statuses
  <2>2. QED
    BY <1>11, <2>1, IdleType DEF WriteFails, TypeOK, process, symbols
<1>12. ASSUME NEW c \in Capacities, Start(c)
       PROVE  TypeOK'
  <2>1. op' \in Ops
    BY <1>12, EmptyStateType, IdleType, WriteType DEF Start, TypeOK, OpKinds
  <2>2. QED
    BY <1>12, <2>1 DEF Start, TypeOK, symbols, faults
<1>13. CASE PublishCreate
  <2>1. /\ mem' \in LedgerStates /\ op' \in Ops /\ disk' \in LedgerStates
        /\ clock' \in Nat \ {0} /\ crashes' \in Nat /\ writeFailures' \in Nat
    BY <1>13, PublishType DEF PublishCreate, Published
  <2>2. QED
    BY <1>13, <2>1 DEF PublishCreate, TypeOK, process, symbols
<1>14. CASE NormalizeBegin
  <2>1. ASSUME NEW next \in Trimmed(mem) PROVE next \in LedgerStates
    BY <2>1, DropType DEF Trimmed, TypeOK
  <2>2. op' \in Ops
    BY <1>14, <2>1, EmptyStateType, WriteType DEF NormalizeBegin, TypeOK, OpKinds
  <2>3. QED
    BY <1>14, <2>2 DEF NormalizeBegin, TypeOK, process, symbols, faults
<1>15. CASE PublishNormalize
  <2>1. /\ mem' \in LedgerStates /\ op' \in Ops /\ disk' \in LedgerStates
        /\ clock' \in Nat \ {0} /\ crashes' \in Nat /\ writeFailures' \in Nat
    BY <1>15, PublishType DEF PublishNormalize, Published
  <2>2. QED
    BY <1>15, <2>1 DEF PublishNormalize, StartServing, Admitted, TypeOK, NoAdmission
<1>16. CASE NothingToNormalize
  BY <1>16 DEF NothingToNormalize, StartServing, Admitted, TypeOK, NoAdmission, faults
<1>17. ASSUME Stopped
       PROVE  /\ mem' \in LedgerStates /\ op' \in Ops /\ resv' \in [Requests -> Reservations]
              /\ admissions' \in [Identities -> Nat]
  <2>1. mem' \in LedgerStates /\ op' \in Ops
    BY <1>17, EmptyStateType, IdleType DEF Stopped, NoState
  <2>2. resv' \in [Requests -> Reservations]
    BY <1>17, AfterCrashType DEF Stopped, TypeOK
  <2>3. QED
    BY <1>17, <2>1, <2>2 DEF Stopped, NoAdmission
<1>18. CASE Crash
  BY <1>17, <1>18 DEF Crash, Stopped, TypeOK
<1>19. CASE StartFails
  BY <1>17, <1>19 DEF StartFails, Stopped, TypeOK
<1>20. CASE Midnight
  BY <1>20 DEF Midnight, TypeOK, process, symbols, faults
<1>21. CASE UNCHANGED vars
  BY <1>21 DEF vars, TypeOK, process, symbols, faults
<1>22. QED
  BY <1>1, <1>2, <1>3, <1>4, <1>5, <1>6, <1>7, <1>8, <1>9, <1>10, <1>11, <1>12, <1>13, <1>14,
     <1>15, <1>16, <1>18, <1>19, <1>20, <1>21 DEF Next

\* Every reachable state of the ledger is well typed: no counter of it ever goes below zero,
\* whatever is settled, evicted, reset or reloaded (safeSubtract guards every subtraction).
THEOREM LedgerTypes == Spec => []TypeOK
<1>1. QED
  BY InitType, NextType, PTL DEF Spec

-----------------------------------------------------------------------------
(* The hard budget *)

\* The state that waits for its write keeps to the budget as well: the write may reach the disk
\* and the memory in either order, or only the disk.
BudgetInv ==
  (\A r \in Requests : ~Overran(resv[r])) =>
    /\ mem.provider.spend <= ProviderDailyBudget
    /\ disk.provider.spend <= ProviderDailyBudget
    /\ op.next.provider.spend <= ProviderDailyBudget

LEMMA EmptyWithinBudget ==
  ASSUME NEW day \in Nat
  PROVE  emptyState(day).provider.spend <= ProviderDailyBudget
BY ConfigAssumption DEF emptyState, counters

LEMMA IdleWithinBudget == Idle.next.provider.spend <= ProviderDailyBudget
BY EmptyWithinBudget DEF Idle, NoState

\* A report above its reservation is never forgotten.
LEMMA OverranStays ==
  ASSUME TypeOK, Next, NEW q \in Requests, Overran(resv[q])
  PROVE  Overran(resv'[q])
<1>1. ASSUME NEW r \in Requests, NEW k \in Identities, NEW s \in Shapes,
             ReserveBegin(r, k, s) \/ ReserveRefused(r, k, s)
      PROVE  Overran(resv'[q])
  BY <1>1 DEF ReserveBegin, ReserveRefused, Overran, TypeOK
<1>2. ASSUME NEW r \in Requests, NEW u \in Usages, SettleBegin(r, u) \/ SettleLate(r, u)
      PROVE  Overran(resv'[q])
  BY <1>2 DEF SettleBegin, SettleLate, Overran, TypeOK
<1>3. ASSUME NEW r \in Requests, EndsWithoutUsage(r) \/ PublishSettle(r)
      PROVE  Overran(resv'[q])
  BY <1>3 DEF EndsWithoutUsage, PublishSettle, Overran, TypeOK, Reservations
<1>4. ASSUME NEW r \in Requests, PublishReserve(r)
      PROVE  Overran(resv'[q])
  <2>1. r # q
    BY <1>4 DEF PublishReserve, Overran
  <2>2. resv'[q] = HeldIn(op.next, resv)[q]
    BY <1>4, <2>1 DEF PublishReserve, HeldIn
  <2>3. QED
    BY <2>2 DEF HeldIn, Overran, TypeOK, Reservations
<1>5. CASE PublishRotate
  BY <1>5 DEF PublishRotate, HeldIn, Overran, TypeOK, Reservations
<1>6. CASE WriteFails
  BY <1>6 DEF WriteFails, Overran, TypeOK, Reservations
<1>7. CASE Crash \/ StartFails
  <2>1. resv'[q] = AfterCrash(resv[q])
    BY <1>7 DEF Crash, StartFails, Stopped
  <2>2. resv[q] \in Reservations
    BY DEF TypeOK
  <2>3. /\ AfterCrash(resv[q]).spend = resv[q].spend
        /\ AfterCrash(resv[q]).actualSpend = resv[q].actualSpend
    BY <2>2 DEF AfterCrash, Reservations
  <2>4. AfterCrash(resv[q]).status \in {"settling", "settled", "uncertain"}
    BY <2>2 DEF AfterCrash, Reservations, Overran
  <2>5. QED
    BY <2>1, <2>3, <2>4 DEF Overran
<1>8. CASE UNCHANGED resv
  BY <1>8
<1>9. QED
  BY <1>1, <1>2, <1>3, <1>4, <1>5, <1>6, <1>7, <1>8
  DEF Next, RotateBegin, Rename, Start, PublishCreate, NormalizeBegin, PublishNormalize,
      NothingToNormalize, StartServing, Midnight

LEMMA ReserveBeginBudget ==
  ASSUME TypeOK, NEW r \in Requests, NEW k \in Identities, NEW s \in Shapes, ReserveBegin(r, k, s)
  PROVE  op'.next.provider.spend <= ProviderDailyBudget
<1> DEFINE symbol == IF k \in SourceState.tracked THEN admissions[k] ELSE fresh
           res == Reserving(k, s, symbol)
<1>1. SourceState.provider.spend + res.spend <= ProviderDailyBudget
  <2>1. res \in Reservations
    BY ReservingType DEF TypeOK
  <2>2. SourceState.provider.spend \in Nat /\ res.spend \in Nat
    BY <2>1, SourceStateType DEF LedgerStates, Counters, Reservations
  <2>3. QED
    BY <2>2, ConfigAssumption DEF ReserveBegin, QuotaExceeded
<1>2. PICK victims \in Victims(SourceState, k) :
        op' = Write("reserve", Charged(Drop(SourceState, victims), k, res))
  BY DEF ReserveBegin
<1>3. op'.next.provider.spend = SourceState.provider.spend + res.spend
  BY <1>2 DEF Write, Charged, Charge, Drop
<1>4. QED
  BY <1>1, <1>3

LEMMA SettleBeginBudget ==
  ASSUME TypeOK, BudgetInv, NEW r \in Requests, NEW u \in Usages, SettleBegin(r, u),
         \A q \in Requests : ~Overran(resv[q]), ~Overran(resv'[r])
  PROVE  op'.next.provider.spend <= ProviderDailyBudget
<1> DEFINE res == Reported(resv[r], u)
<1>1. CASE SettleUnderflows(res)
  BY <1>1 DEF SettleBegin, BudgetInv
<1>2. CASE ~SettleUnderflows(res)
  <2>1. res \in Reservations
    BY ReportedType DEF TypeOK
  <2>2. /\ mem.provider.spend \in Nat /\ res.spend \in Nat /\ res.actualSpend \in Nat
        /\ mem.provider.spend <= ProviderDailyBudget
    BY <2>1 DEF TypeOK, LedgerStates, Counters, Reservations, BudgetInv
  <2>3. res.actualSpend <= res.spend
    <3>1. resv'[r] = [res EXCEPT !.status = "settling"]
      BY <1>2 DEF SettleBegin, TypeOK
    <3>2. /\ resv'[r].status = "settling"
          /\ resv'[r].actualSpend = res.actualSpend /\ resv'[r].spend = res.spend
      BY <2>1, <3>1 DEF Reservations
    <3>3. QED
      BY <2>2, <3>2 DEF Overran
  <2>4. op'.next.provider.spend = mem.provider.spend + res.actualSpend - res.spend
    BY <1>2 DEF SettleBegin, Write, SettledState, Adjust
  <2>5. QED
    BY <2>2, <2>3, <2>4, ConfigAssumption
<1>3. QED
  BY <1>1, <1>2

LEMMA NextBudget == TypeOK /\ BudgetInv /\ [Next]_vars => BudgetInv'
<1> SUFFICES ASSUME TypeOK, BudgetInv, [Next]_vars, \A r \in Requests : ~Overran(resv'[r])
             PROVE  /\ mem'.provider.spend <= ProviderDailyBudget
                    /\ disk'.provider.spend <= ProviderDailyBudget
                    /\ op'.next.provider.spend <= ProviderDailyBudget
  BY DEF BudgetInv, Overran
<1>1. CASE UNCHANGED vars
  BY <1>1 DEF vars, BudgetInv
<1>2. CASE Next
  <2>1. \A r \in Requests : ~Overran(resv[r])
    BY <1>2, OverranStays
  <2>2. /\ mem.provider.spend <= ProviderDailyBudget
        /\ disk.provider.spend <= ProviderDailyBudget
        /\ op.next.provider.spend <= ProviderDailyBudget
    BY <2>1 DEF BudgetInv
  <2>3. clock \in Nat
    BY DEF TypeOK
  <2>4. ASSUME NEW r \in Requests, NEW k \in Identities, NEW s \in Shapes, ReserveBegin(r, k, s)
        PROVE  op'.next.provider.spend <= ProviderDailyBudget /\ UNCHANGED <<mem, disk>>
    BY <2>4, ReserveBeginBudget DEF ReserveBegin
  <2>5. ASSUME NEW r \in Requests, NEW u \in Usages, SettleBegin(r, u)
        PROVE  op'.next.provider.spend <= ProviderDailyBudget /\ UNCHANGED <<mem, disk>>
    BY <2>1, <2>5, SettleBeginBudget DEF SettleBegin
  <2>6. CASE NormalizeBegin
    <3>1. ASSUME NEW next \in Trimmed(mem)
          PROVE  next.provider.spend <= ProviderDailyBudget
      <4>1. PICK gone \in SUBSET mem.tracked : next = Drop(mem, gone)
        BY <3>1 DEF Trimmed
      <4>2. QED
        BY <2>2, <4>1 DEF Drop
    <3>2. PICK next \in IF mem.window # clock THEN {emptyState(clock)} ELSE Trimmed(mem) :
            op' = Write("normalize", next)
      BY <2>6 DEF NormalizeBegin
    <3>3. op'.next.provider.spend <= ProviderDailyBudget
      BY <2>3, <3>1, <3>2, EmptyWithinBudget DEF Write
    <3>4. QED
      BY <2>2, <2>6, <3>3 DEF NormalizeBegin
  <2>7. CASE RotateBegin
    BY <2>2, <2>3, <2>7, EmptyWithinBudget DEF RotateBegin, Write
  <2>8. ASSUME NEW c \in Capacities, Start(c)
        PROVE  op'.next.provider.spend <= ProviderDailyBudget /\ mem' = disk /\ disk' = disk
    BY <2>3, <2>8, EmptyWithinBudget, IdleWithinBudget DEF Start, Write
  <2>9. CASE Rename
    <3>1. op'.next = op.next
      BY <2>9 DEF Rename, TypeOK, Ops
    <3>2. QED
      BY <2>2, <2>9, <3>1 DEF Rename
  <2>10. CASE WriteFails \/ NothingToNormalize \/ Midnight
    BY <2>2, <2>10, IdleWithinBudget DEF WriteFails, NothingToNormalize, Midnight
  <2>11. CASE Crash \/ StartFails
    BY <2>2, <2>11, IdleWithinBudget, EmptyWithinBudget DEF Crash, StartFails, Stopped, NoState
  <2>12. CASE PublishRotate \/ PublishCreate \/ PublishNormalize
    BY <2>2, <2>12, IdleWithinBudget
    DEF PublishRotate, PublishCreate, PublishNormalize, Published
  <2>13. ASSUME NEW r \in Requests, PublishReserve(r) \/ PublishSettle(r)
         PROVE  mem' = op.next /\ op' = Idle /\ disk' = disk
    BY <2>13 DEF PublishReserve, PublishSettle, Published
  <2>14. ASSUME NEW r \in Requests, NEW k \in Identities, NEW s \in Shapes, ReserveRefused(r, k, s)
         PROVE  UNCHANGED <<mem, op, disk>>
    BY <2>14 DEF ReserveRefused
  <2>15. ASSUME NEW r \in Requests, NEW u \in Usages, SettleLate(r, u) \/ EndsWithoutUsage(r)
         PROVE  UNCHANGED <<mem, op, disk>>
    BY <2>15 DEF SettleLate, EndsWithoutUsage
  <2>16. ASSUME NEW r \in Requests, EndsWithoutUsage(r)
         PROVE  UNCHANGED <<mem, op, disk>>
    BY <2>16 DEF EndsWithoutUsage
  <2>17. QED
    BY <1>2, <2>2, <2>4, <2>5, <2>6, <2>7, <2>8, <2>9, <2>10, <2>11, <2>12, <2>13, <2>14, <2>15,
       <2>16, IdleWithinBudget DEF Next
<1>3. QED
  BY <1>1, <1>2

\* The provider's hard budget: for every budget, price, quota, report of the upstream and number
\* of crashes and failed writes, no ledger of the relay exceeds the day's budget unless the
\* upstream itself reported more than the worst case that was reserved.
THEOREM HardBudget == Spec => []BudgetHolds
<1>1. Init => BudgetInv
  BY EmptyWithinBudget, IdleWithinBudget DEF Init, BudgetInv, NoState
<1>2. BudgetInv => BudgetHolds
  BY DEF BudgetInv, BudgetHolds
<1>3. QED
  BY <1>1, <1>2, LedgerTypes, NextBudget, PTL DEF Spec

-----------------------------------------------------------------------------
(* Late settlements *)

\* The lock admits one write: its kind goes with the phase of the process, and at most one
\* request waits for it.
OneWriter ==
  /\ op # Idle => op.kind # "idle"
  /\ phase = "down" => op = Idle
  /\ op.kind \in {"reserve", "settle", "rotate"} => phase = "serving"
  /\ op.kind \in {"create", "normalize"} => phase = "loading"
  /\ \A r \in Requests : resv[r].status = "reserving" => op.kind = "reserve"
  /\ \A r, q \in Requests : resv[r].status = "reserving" /\ resv[q].status = "reserving" => r = q
  /\ phase # "serving" => \A r \in Requests : resv[r].status \notin {"reserving", "live"}

\* The ledger follows the clock, and what waits to be written follows the ledger.
WindowsGrow ==
  /\ mem.window <= clock /\ disk.window <= clock /\ op.next.window <= clock
  /\ op.kind = "reserve" => op.next.window >= mem.window
  /\ op.kind = "rotate" => op.next.window > mem.window /\ op.next.tracked = {}
  /\ op.kind = "settle" => op.next.window = mem.window /\ op.next.tracked = mem.tracked

\* Symbols are fresh: none in use equals the next one.
SymbolsUsed ==
  /\ \A k \in Identities : admissions[k] < fresh
  /\ \A r \in Requests : /\ resv[r].admission < fresh
                         /\ resv[r].status \in {"reserving", "live"} => resv[r].admission # NoAdmission
  /\ phase = "serving" => \A k \in mem.tracked : admissions[k] # NoAdmission

\* A reservation that is being written charges an entry of the next state, under the symbol of
\* the entry it found or under one that no other reservation carries.
ReservingInv ==
  \A r \in Requests :
    resv[r].status = "reserving" =>
      /\ resv[r].window = op.next.window
      /\ resv[r].key \in op.next.tracked
      /\ op.next.window = mem.window => op.next.tracked \subseteq mem.tracked \union {resv[r].key}
      /\ op.next.window # mem.window => op.next.tracked = {resv[r].key}
      /\ IF op.next.window = mem.window /\ resv[r].key \in mem.tracked
         THEN resv[r].admission = admissions[resv[r].key]
         ELSE \A q \in Requests : resv[q].status = "live" => resv[q].admission # resv[r].admission

LiveInv == \A r \in Requests : resv[r].status = "live" => resv[r].window <= mem.window

EntryInv ==
  OneWriter /\ WindowsGrow /\ SymbolsUsed /\ ReservingInv /\ LiveInv /\ SettlesOwnEntryOnly

LEMMA InitEntry == Init => EntryInv
<1> SUFFICES ASSUME Init PROVE EntryInv
  OBVIOUS
<1>1. \A r \in Requests : resv[r].status = "new" /\ resv[r].admission = 0
  BY DEF Init, NewReservation, NoAdmission
<1>2. mem.window = 0 /\ disk.window = 0 /\ op = Idle /\ op.next.window = 0 /\ op.kind = "idle"
  BY DEF Init, NoState, emptyState, Idle
<1>3. QED
  BY <1>1, <1>2 DEF Init, EntryInv, OneWriter, WindowsGrow, SymbolsUsed, ReservingInv, LiveInv,
                    SettlesOwnEntryOnly, NoAdmission

\* A step that touches neither the ledger in memory nor the symbols, and at most ends reservations.
LEMMA QuietEntry ==
  ASSUME EntryInv, TypeOK, TypeOK', UNCHANGED <<process, mem, admissions>>, clock' >= clock,
         fresh' = fresh, disk'.window <= clock',
         \/ op' = op
         \/ op' = Idle
         \/ op # Idle /\ op' = [op EXCEPT !.renamed = TRUE],
         \A r \in Requests :
           \/ resv'[r] = resv[r] /\ (op' = Idle => resv[r].status # "reserving")
           \/ /\ resv'[r].status \notin {"reserving", "live"}
              /\ resv'[r].admission < fresh
  PROVE  EntryInv'
<1>1. OneWriter'
  BY DEF EntryInv, OneWriter, TypeOK, process, Ops, Idle
<1>2. WindowsGrow'
  <2>1. mem.window \in Nat /\ op.next.window \in Nat /\ clock \in Nat /\ clock' \in Nat
    BY DEF TypeOK, LedgerStates, Ops
  <2>2. CASE op' = Idle
    BY <2>1, <2>2 DEF EntryInv, WindowsGrow, Idle, NoState, emptyState
  <2>3. CASE op' # Idle
    <3>1. op'.kind = op.kind /\ op'.next = op.next
      BY <2>3 DEF TypeOK, Ops
    <3>2. QED
      BY <2>1, <3>1 DEF EntryInv, WindowsGrow
  <2>4. QED
    BY <2>2, <2>3
<1>3. SymbolsUsed'
  BY DEF EntryInv, SymbolsUsed, process
<1>4. ReservingInv'
  <2>1. SUFFICES ASSUME NEW r \in Requests, resv'[r].status = "reserving"
                 PROVE  /\ resv'[r].window = op'.next.window
                        /\ resv'[r].key \in op'.next.tracked
                        /\ op'.next.window = mem'.window =>
                             op'.next.tracked \subseteq mem'.tracked \union {resv'[r].key}
                        /\ op'.next.window # mem'.window => op'.next.tracked = {resv'[r].key}
                        /\ IF op'.next.window = mem'.window /\ resv'[r].key \in mem'.tracked
                           THEN resv'[r].admission = admissions'[resv'[r].key]
                           ELSE \A q \in Requests : resv'[q].status = "live" =>
                                  resv'[q].admission # resv'[r].admission
    BY DEF ReservingInv
  <2>2. resv'[r] = resv[r] /\ op' # Idle
    BY <2>1
  <2>3. op'.next = op.next
    BY <2>2 DEF TypeOK, Ops
  <2>4. \A q \in Requests : resv'[q].status = "live" => resv'[q] = resv[q]
    OBVIOUS
  <2>5. QED
    BY <2>1, <2>2, <2>3, <2>4 DEF EntryInv, ReservingInv
<1>5. LiveInv'
  BY DEF EntryInv, LiveInv
<1>6. SettlesOwnEntryOnly'
  BY DEF EntryInv, SettlesOwnEntryOnly, AdjustsIdentity
<1>7. QED
  BY <1>1, <1>2, <1>3, <1>4, <1>5, <1>6 DEF EntryInv

\* A step that leaves no reservation live or being written, and no write of one.
LEMMA NoLiveEntry ==
  ASSUME EntryInv, TypeOK, TypeOK', OneWriter', WindowsGrow',
         \A k \in Identities : admissions'[k] < fresh',
         phase' = "serving" => \A k \in mem'.tracked : admissions'[k] # NoAdmission,
         \A r \in Requests : /\ resv'[r].status \notin {"reserving", "live"}
                             /\ resv'[r].admission < fresh'
  PROVE  EntryInv'
BY DEF EntryInv, SymbolsUsed, ReservingInv, LiveInv, SettlesOwnEntryOnly

LEMMA ReserveBeginEntry ==
  ASSUME EntryInv, TypeOK, TypeOK', NEW r \in Requests, NEW k \in Identities, NEW s \in Shapes,
         ReserveBegin(r, k, s)
  PROVE  EntryInv'
<1> DEFINE state == SourceState
           symbol == IF k \in state.tracked THEN admissions[k] ELSE fresh
           res == Reserving(k, s, symbol)
<1>1. PICK victims \in Victims(state, k) :
        op' = Write("reserve", Charged(Drop(state, victims), k, res))
  BY DEF ReserveBegin
<1>2. /\ op'.kind = "reserve" /\ op' # Idle
      /\ op'.next.window = clock
      /\ op'.next.tracked = (state.tracked \ victims) \union {k}
  BY <1>1 DEF Write, Charged, Drop, Idle, SourceState, emptyState
<1>3. /\ resv' = [resv EXCEPT ![r] = res]
      /\ UNCHANGED <<clock, phase, capacity, mem, admissions, disk>>
      /\ phase = "serving" /\ op = Idle /\ resv[r].status = "new"
  BY DEF ReserveBegin, Serving, process
<1>4. /\ res.status = "reserving" /\ res.key = k /\ res.window = clock
      /\ res.admission = symbol /\ res.held = FALSE
  BY DEF Reserving
<1>5. /\ resv'[r] = res
      /\ \A q \in Requests : q # r => resv'[q] = resv[q]
  BY <1>3 DEF TypeOK
<1>6. clock \in Nat /\ mem.window \in Nat /\ fresh \in Nat /\ fresh' \in Nat /\ fresh' >= fresh
  BY DEF TypeOK, LedgerStates, ReserveBegin
<1>7. \A q \in Requests : resv[q].status # "reserving"
  BY <1>3 DEF EntryInv, OneWriter, Idle
<1>8. state = IF mem.window # clock THEN emptyState(clock) ELSE mem
  BY DEF SourceState
<1>9. symbol < fresh' /\ symbol # NoAdmission
  <2>1. CASE k \in state.tracked
    <3>1. state = mem
      BY <1>8, <2>1 DEF emptyState
    <3>2. admissions[k] < fresh /\ admissions[k] # NoAdmission /\ admissions[k] \in Nat
      BY <1>3, <2>1, <3>1 DEF EntryInv, SymbolsUsed, TypeOK
    <3>3. QED
      BY <1>6, <2>1, <3>2
  <2>2. CASE k \notin state.tracked
    BY <2>2 DEF ReserveBegin, TypeOK, NoAdmission
  <2>3. QED
    BY <2>1, <2>2
<1>10. OneWriter'
  BY <1>2, <1>3, <1>4, <1>5, <1>7 DEF EntryInv, OneWriter
<1>11. WindowsGrow'
  BY <1>2, <1>3, <1>6 DEF EntryInv, WindowsGrow
<1>12. SymbolsUsed'
  <2>1. \A j \in Identities : admissions'[j] < fresh'
    BY <1>3, <1>6 DEF EntryInv, SymbolsUsed, TypeOK
  <2>2. \A q \in Requests : resv'[q].admission < fresh'
    BY <1>4, <1>5, <1>6, <1>9 DEF EntryInv, SymbolsUsed, TypeOK, Reservations
  <2>3. QED
    BY <1>3, <1>4, <1>5, <1>9, <2>1, <2>2 DEF EntryInv, SymbolsUsed
<1>13. ReservingInv'
  <2>1. \A q \in Requests : resv'[q].status = "reserving" => q = r
    BY <1>5, <1>7
  <2>2. clock = mem.window => op'.next.tracked \subseteq mem.tracked \union {k}
    BY <1>2, <1>8
  <2>3. clock # mem.window => op'.next.tracked = {k}
    BY <1>2, <1>8 DEF emptyState
  <2>4. clock = mem.window /\ k \in mem.tracked => symbol = admissions[k]
    BY <1>8
  <2>5. ASSUME ~(clock = mem.window /\ k \in mem.tracked)
        PROVE  \A q \in Requests : resv'[q].status = "live" => resv'[q].admission # symbol
    <3>1. symbol = fresh
      BY <1>8, <2>5 DEF emptyState
    <3>2. QED
      BY <1>4, <1>5, <1>6, <3>1 DEF EntryInv, SymbolsUsed, TypeOK, Reservations
  <2> HIDE DEF symbol, res
  <2>6. QED
    BY <1>2, <1>3, <1>4, <1>5, <2>1, <2>2, <2>3, <2>4, <2>5 DEF ReservingInv
<1>14. LiveInv'
  BY <1>3, <1>4, <1>5 DEF EntryInv, LiveInv
<1>15. SettlesOwnEntryOnly'
  BY <1>3, <1>4, <1>5 DEF EntryInv, SettlesOwnEntryOnly, AdjustsIdentity
<1>16. QED
  BY <1>10, <1>11, <1>12, <1>13, <1>14, <1>15 DEF EntryInv

LEMMA PublishReserveEntry ==
  ASSUME EntryInv, TypeOK, TypeOK', NEW r \in Requests, PublishReserve(r)
  PROVE  EntryInv'
<1> DEFINE next == op.next
           k == resv[r].key
<1>1. /\ mem' = next /\ op' = Idle /\ op.kind = "reserve" /\ resv[r].status = "reserving"
      /\ UNCHANGED <<clock, disk, phase, capacity, fresh>> /\ phase = "serving"
  BY DEF PublishReserve, Published, process, EntryInv, OneWriter
<1>2. /\ resv[r].window = next.window /\ k \in next.tracked
      /\ next.window = mem.window => next.tracked \subseteq mem.tracked \union {k}
      /\ next.window # mem.window => next.tracked = {k}
      /\ next.window = mem.window /\ k \in mem.tracked => resv[r].admission = admissions[k]
      /\ ~(next.window = mem.window /\ k \in mem.tracked) =>
           \A q \in Requests : resv[q].status = "live" => resv[q].admission # resv[r].admission
  BY <1>1 DEF EntryInv, ReservingInv
<1>3. /\ next.window >= mem.window /\ next.window <= clock
      /\ next.window \in Nat /\ mem.window \in Nat /\ clock \in Nat
  BY <1>1 DEF EntryInv, WindowsGrow, TypeOK, Ops, LedgerStates
<1>4. k \in Identities /\ resv[r].admission # NoAdmission /\ resv[r].admission < fresh
  BY <1>1 DEF EntryInv, SymbolsUsed, TypeOK, Reservations
<1>5. /\ admissions'[k] = resv[r].admission
      /\ \A j \in Identities : j # k /\ next.window = mem.window /\ j \in next.tracked
                                 => admissions'[j] = admissions[j]
      /\ \A j \in Identities : admissions'[j] \in {resv[r].admission, NoAdmission, admissions[j]}
  BY <1>2, <1>4 DEF PublishReserve, TypeOK
<1>6. /\ resv'[r].status = "live" /\ resv'[r].held = TRUE
      /\ resv'[r].key = k /\ resv'[r].window = resv[r].window
      /\ resv'[r].admission = resv[r].admission
  BY DEF PublishReserve, HeldIn, TypeOK, Reservations
<1>7. ASSUME NEW q \in Requests, q # r
      PROVE  /\ resv'[q].status = resv[q].status /\ resv'[q].key = resv[q].key
             /\ resv'[q].window = resv[q].window /\ resv'[q].admission = resv[q].admission
             /\ resv'[q].held = (resv[q].held /\ next.window = mem.window
                                             /\ resv[q].key \in next.tracked)
  <2>1. resv'[q] = HeldIn(next, resv)[q]
    BY <1>7 DEF PublishReserve, HeldIn
  <2>2. QED
    BY <2>1 DEF HeldIn, TypeOK, Reservations
<1>8. \A q \in Requests : q # r => resv[q].status # "reserving"
  BY <1>1 DEF EntryInv, OneWriter
<1>9. OneWriter'
  BY <1>1, <1>6, <1>7, <1>8 DEF OneWriter, Idle
<1>10. WindowsGrow'
  BY <1>1, <1>3 DEF EntryInv, WindowsGrow, Idle, NoState, emptyState
<1>11. SymbolsUsed'
  <2>1. \A j \in Identities : admissions'[j] < fresh'
    BY <1>1, <1>4, <1>5 DEF EntryInv, SymbolsUsed, TypeOK, NoAdmission
  <2>2. \A q \in Requests :
          /\ resv'[q].admission < fresh'
          /\ resv'[q].status \in {"reserving", "live"} => resv'[q].admission # NoAdmission
    BY <1>1, <1>4, <1>6, <1>7 DEF EntryInv, SymbolsUsed
  <2>3. \A j \in mem'.tracked : admissions'[j] # NoAdmission
    <3>1. SUFFICES ASSUME NEW j \in next.tracked, j # k PROVE admissions'[j] # NoAdmission
      BY <1>1, <1>4, <1>5
    <3>2. next.window = mem.window /\ j \in mem.tracked
      BY <1>2, <3>1
    <3>3. j \in Identities
      BY <3>2 DEF TypeOK, LedgerStates
    <3>4. QED
      BY <1>1, <1>5, <3>1, <3>2, <3>3 DEF EntryInv, SymbolsUsed
  <2>4. QED
    BY <2>1, <2>2, <2>3 DEF SymbolsUsed
<1>12. ReservingInv'
  BY <1>6, <1>7, <1>8 DEF ReservingInv
<1>13. LiveInv'
  BY <1>1, <1>2, <1>3, <1>6, <1>7 DEF EntryInv, LiveInv, TypeOK, Reservations
<1>14. SettlesOwnEntryOnly'
  <2>1. SUFFICES ASSUME NEW q \in Requests, resv'[q].status = "live"
                 PROVE  resv'[q].held <=> /\ next.window = resv'[q].window
                                          /\ resv'[q].key \in next.tracked
                                          /\ admissions'[resv'[q].key] = resv'[q].admission
    BY <1>1 DEF SettlesOwnEntryOnly, AdjustsIdentity
  <2>2. CASE q = r
    BY <1>2, <1>5, <1>6, <2>2
  <2>3. CASE q # r
    <3>1. /\ resv[q].status = "live" /\ resv[q].window <= mem.window
          /\ resv[q].window \in Nat /\ resv[q].key \in Identities
      BY <1>7, <2>1, <2>3 DEF EntryInv, LiveInv, TypeOK, Reservations
    <3>2. resv[q].held <=> /\ mem.window = resv[q].window /\ resv[q].key \in mem.tracked
                           /\ admissions[resv[q].key] = resv[q].admission
      BY <3>1 DEF EntryInv, SettlesOwnEntryOnly, AdjustsIdentity
    <3>3. resv[q].held \in BOOLEAN
      BY DEF TypeOK, Reservations
    <3>4. CASE next.window # mem.window
      <4>1. ~resv'[q].held
        BY <1>7, <2>3, <3>4
      <4>2. next.window # resv'[q].window
        BY <1>3, <1>7, <2>3, <3>1, <3>4
      <4>3. QED
        BY <4>1, <4>2
    <3>5. CASE next.window = mem.window /\ resv[q].key = k
      <4>1. CASE k \in mem.tracked
        BY <1>2, <1>5, <1>7, <2>3, <3>2, <3>3, <3>5, <4>1
      <4>2. CASE k \notin mem.tracked
        BY <1>2, <1>5, <1>7, <2>3, <3>1, <3>2, <3>3, <3>5, <4>2
      <4>3. QED
        BY <4>1, <4>2
    <3>6. CASE next.window = mem.window /\ resv[q].key # k
      BY ZenonT(40), <1>2, <1>5, <1>7, <2>3, <3>1, <3>2, <3>3, <3>6
    <3>7. QED
      BY <3>4, <3>5, <3>6
  <2>4. QED
    BY <2>2, <2>3
<1>15. QED
  BY <1>9, <1>10, <1>11, <1>12, <1>13, <1>14 DEF EntryInv

LEMMA PublishSettleEntry ==
  ASSUME EntryInv, TypeOK, TypeOK', NEW r \in Requests, PublishSettle(r)
  PROVE  EntryInv'
<1>1. /\ mem' = op.next /\ op' = Idle /\ op.kind = "settle"
      /\ UNCHANGED <<clock, disk, phase, capacity, admissions, fresh>>
      /\ phase = "serving" /\ mem'.window = mem.window /\ mem'.tracked = mem.tracked
  BY DEF PublishSettle, Published, process, symbols, EntryInv, OneWriter, WindowsGrow
<1>2. /\ resv'[r].status = "settled" /\ resv'[r].admission = resv[r].admission
      /\ \A q \in Requests : q # r => resv'[q] = resv[q]
  BY DEF PublishSettle, TypeOK, Reservations
<1>3. \A q \in Requests : resv[q].status # "reserving"
  BY <1>1 DEF EntryInv, OneWriter
<1>4. OneWriter'
  BY <1>1, <1>2, <1>3 DEF OneWriter, Idle
<1>5. WindowsGrow'
  BY <1>1 DEF EntryInv, WindowsGrow, Idle, NoState, emptyState, TypeOK
<1>6. SymbolsUsed'
  BY <1>1, <1>2 DEF EntryInv, SymbolsUsed
<1>7. ReservingInv' /\ LiveInv'
  BY <1>1, <1>2, <1>3 DEF EntryInv, ReservingInv, LiveInv
<1>8. SettlesOwnEntryOnly'
  BY <1>1, <1>2 DEF EntryInv, SettlesOwnEntryOnly, AdjustsIdentity
<1>9. QED
  BY <1>4, <1>5, <1>6, <1>7, <1>8 DEF EntryInv

LEMMA PublishRotateEntry ==
  ASSUME EntryInv, TypeOK, TypeOK', PublishRotate
  PROVE  EntryInv'
<1>1. /\ mem' = op.next /\ op' = Idle /\ op.kind = "rotate"
      /\ UNCHANGED <<clock, disk, phase, capacity, fresh>> /\ phase = "serving"
      /\ mem'.window > mem.window /\ admissions' = [k \in Identities |-> NoAdmission]
  BY DEF PublishRotate, Published, process, EntryInv, OneWriter, WindowsGrow
<1>2. \A q \in Requests : /\ resv'[q].status = resv[q].status /\ resv'[q].key = resv[q].key
                          /\ resv'[q].window = resv[q].window
                          /\ resv'[q].admission = resv[q].admission
  BY DEF PublishRotate, HeldIn, TypeOK, Reservations
<1>3. \A q \in Requests : resv[q].status # "reserving"
  BY <1>1 DEF EntryInv, OneWriter
<1>4. OneWriter'
  BY <1>1, <1>2, <1>3 DEF OneWriter, Idle
<1>5. WindowsGrow'
  BY <1>1 DEF EntryInv, WindowsGrow, Idle, NoState, emptyState, TypeOK
<1>6. LiveInv'
  BY <1>1, <1>2 DEF EntryInv, LiveInv, TypeOK, Reservations, Ops, LedgerStates
<1>7. SymbolsUsed'
  <2>1. fresh > 0 /\ \A q \in Requests : resv'[q].admission < fresh'
    BY <1>1, <1>2 DEF EntryInv, SymbolsUsed, TypeOK
  <2>2. mem'.tracked = {}
    BY <1>1 DEF EntryInv, WindowsGrow
  <2>3. QED
    BY <1>1, <1>2, <2>1, <2>2 DEF EntryInv, SymbolsUsed, NoAdmission
<1>8. ReservingInv'
  BY <1>2, <1>3 DEF ReservingInv
<1>9. SettlesOwnEntryOnly'
  <2>1. SUFFICES ASSUME NEW q \in Requests, resv'[q].status = "live"
                 PROVE  ~resv'[q].held /\ mem'.window # resv'[q].window
    BY DEF SettlesOwnEntryOnly
  <2>2. op.next.window # mem.window
    BY <1>1 DEF TypeOK, Ops, LedgerStates
  <2>3. ~resv'[q].held
    BY <2>2 DEF PublishRotate, HeldIn, TypeOK, Reservations
  <2>4. mem'.window # resv'[q].window
    BY <1>1, <1>2, <2>1 DEF EntryInv, LiveInv, TypeOK, Reservations, Ops, LedgerStates
  <2>5. QED
    BY <2>3, <2>4
<1>10. QED
  BY <1>4, <1>5, <1>6, <1>7, <1>8, <1>9 DEF EntryInv

\* init's steps: nothing is live while the process loads.
LEMMA LoadingEntry ==
  ASSUME EntryInv, TypeOK, TypeOK', phase # "serving",
         UNCHANGED <<clock, disk, resv>>, fresh' >= fresh,
         \A k \in Identities : admissions'[k] < fresh',
         phase' = "serving" => op' = Idle /\ \A k \in mem'.tracked : admissions'[k] # NoAdmission,
         phase' # "down",
         op' = Idle \/ op'.kind \in {"create", "normalize"},
         mem'.window <= clock, op'.next.window <= clock
  PROVE  EntryInv'
<1>1. \A r \in Requests : resv'[r].status \notin {"reserving", "live"}
  BY DEF EntryInv, OneWriter
<1>2. OneWriter'
  BY <1>1 DEF OneWriter, Idle, TypeOK
<1>3. WindowsGrow'
  BY DEF EntryInv, WindowsGrow, Idle
<1>4. \A r \in Requests : resv'[r].admission < fresh'
  BY DEF EntryInv, SymbolsUsed, TypeOK, Reservations
<1>5. QED
  BY <1>1, <1>2, <1>3, <1>4, NoLiveEntry

LEMMA StoppedEntry ==
  ASSUME EntryInv, TypeOK, TypeOK', Stopped
  PROVE  EntryInv'
<1>1. \A r \in Requests : /\ resv'[r].status \notin {"reserving", "live"}
                          /\ resv'[r].admission = resv[r].admission
  <2>1. SUFFICES ASSUME NEW res \in Reservations
                 PROVE  /\ AfterCrash(res).status \notin {"reserving", "live"}
                        /\ AfterCrash(res).admission = res.admission
    BY DEF Stopped, TypeOK
  <2>2. QED
    BY DEF AfterCrash, Reservations
<1>2. OneWriter'
  BY <1>1 DEF OneWriter, Stopped, Idle
<1>3. WindowsGrow'
  BY DEF EntryInv, WindowsGrow, Stopped, Idle, NoState, emptyState, TypeOK
<1>4. QED
  <2>1. \A k \in Identities : admissions'[k] < fresh'
    BY DEF Stopped, TypeOK, NoAdmission
  <2>2. \A r \in Requests : resv'[r].admission < fresh'
    BY <1>1 DEF EntryInv, SymbolsUsed, Stopped
  <2>3. QED
    BY <1>1, <1>2, <1>3, <2>1, <2>2, NoLiveEntry DEF Stopped

LEMMA SettleBeginEntry ==
  ASSUME EntryInv, TypeOK, TypeOK', NEW r \in Requests, NEW u \in Usages, SettleBegin(r, u)
  PROVE  EntryInv'
<1> DEFINE res == Reported(resv[r], u)
<1>1. /\ UNCHANGED <<clock, process, mem, admissions, fresh, disk>>
      /\ phase = "serving" /\ op = Idle /\ resv[r].status = "live"
  BY DEF SettleBegin, Serving, symbols
<1>2. /\ resv'[r].status \in {"uncertain", "settling"} /\ resv'[r].admission = resv[r].admission
      /\ \A q \in Requests : q # r => resv'[q] = resv[q]
  <2>1. res \in Reservations /\ res.admission = resv[r].admission
    BY ReportedType DEF Reported, TypeOK, Reservations
  <2>2. \E st \in {"uncertain", "settling"} : resv' = [resv EXCEPT ![r] = [res EXCEPT !.status = st]]
    BY DEF SettleBegin
  <2>3. QED
    BY <2>1, <2>2 DEF TypeOK, Reservations
<1>3. resv[r].admission < fresh /\ clock \in Nat
  BY DEF EntryInv, SymbolsUsed, TypeOK
<1>4. CASE SettleUnderflows(res)
  <2>1. op' = op
    BY <1>4 DEF SettleBegin
  <2>2. \A q \in Requests :
          \/ resv'[q] = resv[q] /\ (op' = Idle => resv[q].status # "reserving")
          \/ resv'[q].status \notin {"reserving", "live"} /\ resv'[q].admission < fresh
    BY <1>1, <1>2, <1>3 DEF EntryInv, OneWriter, Idle
  <2>3. disk'.window <= clock' /\ clock' >= clock
    BY <1>1, <1>3 DEF EntryInv, WindowsGrow
  <2>4. QED
    BY <1>1, <2>1, <2>2, <2>3, QuietEntry
<1>5. CASE ~SettleUnderflows(res)
  <2>1. /\ op'.kind = "settle" /\ op' # Idle
        /\ op'.next.window = mem.window /\ op'.next.tracked = mem.tracked
    BY <1>5 DEF SettleBegin, Write, SettledState, Idle
  <2>2. \A q \in Requests : resv'[q].status # "reserving"
    BY <1>1, <1>2 DEF EntryInv, OneWriter, Idle
  <2>3. OneWriter'
    BY <1>1, <2>1, <2>2 DEF OneWriter, process
  <2>4. WindowsGrow'
    BY <1>1, <2>1 DEF EntryInv, WindowsGrow
  <2>5. SymbolsUsed'
    BY <1>1, <1>2 DEF EntryInv, SymbolsUsed, process
  <2>6. ReservingInv' /\ LiveInv'
    BY <1>1, <1>2, <2>2 DEF EntryInv, ReservingInv, LiveInv
  <2>7. SettlesOwnEntryOnly'
    BY <1>1, <1>2 DEF EntryInv, SettlesOwnEntryOnly, AdjustsIdentity
  <2>8. QED
    BY <2>3, <2>4, <2>5, <2>6, <2>7 DEF EntryInv
<1>6. QED
  BY <1>4, <1>5

LEMMA RotateBeginEntry ==
  ASSUME EntryInv, TypeOK, TypeOK', RotateBegin
  PROVE  EntryInv'
<1>1. /\ UNCHANGED <<clock, process, mem, admissions, fresh, disk, resv>>
      /\ phase = "serving" /\ op = Idle /\ mem.window # clock
      /\ op'.kind = "rotate" /\ op' # Idle /\ op'.next.window = clock /\ op'.next.tracked = {}
  BY DEF RotateBegin, Serving, Write, Idle, emptyState, symbols
<1>2. \A q \in Requests : resv[q].status # "reserving"
  BY <1>1 DEF EntryInv, OneWriter, Idle
<1>3. OneWriter'
  BY <1>1, <1>2 DEF OneWriter, process
<1>4. WindowsGrow'
  BY <1>1 DEF EntryInv, WindowsGrow, TypeOK, LedgerStates
<1>5. SymbolsUsed' /\ ReservingInv' /\ LiveInv' /\ SettlesOwnEntryOnly'
  BY <1>1, <1>2
  DEF EntryInv, SymbolsUsed, ReservingInv, LiveInv, SettlesOwnEntryOnly, AdjustsIdentity, process
<1>6. QED
  BY <1>3, <1>4, <1>5 DEF EntryInv

LEMMA NextEntry == TypeOK /\ EntryInv /\ [Next]_vars => EntryInv'
<1> SUFFICES ASSUME TypeOK, EntryInv, [Next]_vars PROVE EntryInv'
  OBVIOUS
<1>1. TypeOK'
  BY NextType
<1>2. /\ disk.window <= clock /\ op.next.window <= clock /\ clock \in Nat /\ clock >= clock
      /\ fresh \in Nat /\ fresh >= fresh
      /\ \A q \in Requests : resv[q].admission < fresh
      /\ \A q \in Requests : op = Idle => resv[q].status # "reserving"
      /\ \A k \in Identities : admissions[k] < fresh
  BY DEF EntryInv, WindowsGrow, SymbolsUsed, OneWriter, Idle, TypeOK
<1>3. ASSUME NEW r \in Requests, NEW k \in Identities, NEW s \in Shapes, ReserveBegin(r, k, s)
      PROVE  EntryInv'
  BY <1>1, <1>3, ReserveBeginEntry
<1>4. ASSUME NEW r \in Requests, NEW u \in Usages, SettleBegin(r, u)
      PROVE  EntryInv'
  BY <1>1, <1>4, SettleBeginEntry
<1>5. ASSUME NEW r \in Requests, PublishReserve(r) \/ PublishSettle(r)
      PROVE  EntryInv'
  BY <1>1, <1>5, PublishReserveEntry, PublishSettleEntry
<1>6. CASE RotateBegin \/ PublishRotate
  BY <1>1, <1>6, RotateBeginEntry, PublishRotateEntry
<1>7. ASSUME NEW r \in Requests, NEW k \in Identities, NEW s \in Shapes, ReserveRefused(r, k, s)
      PROVE  EntryInv'
  <2>1. /\ UNCHANGED <<process, mem, admissions, clock, fresh, disk, op>>
        /\ resv' = [resv EXCEPT ![r].status = "refused"] /\ op = Idle
    BY <1>7 DEF ReserveRefused, Serving, symbols
  <2>2. \A q \in Requests :
          \/ resv'[q] = resv[q] /\ (op' = Idle => resv[q].status # "reserving")
          \/ resv'[q].status \notin {"reserving", "live"} /\ resv'[q].admission < fresh
    BY <1>2, <2>1 DEF TypeOK, Reservations
  <2>3. QED
    BY <1>1, <1>2, <2>1, <2>2, QuietEntry
<1>8. ASSUME NEW r \in Requests, NEW u \in Usages, SettleLate(r, u) \/ EndsWithoutUsage(r)
      PROVE  EntryInv'
  <2>1. /\ UNCHANGED <<process, mem, admissions, clock, fresh, disk, op>>
        /\ resv' = [resv EXCEPT ![r].status = "kept"]
    BY <1>8 DEF SettleLate, EndsWithoutUsage, symbols
  <2>2. \A q \in Requests :
          \/ resv'[q] = resv[q] /\ (op' = Idle => resv[q].status # "reserving")
          \/ resv'[q].status \notin {"reserving", "live"} /\ resv'[q].admission < fresh
    BY <1>2, <2>1 DEF TypeOK, Reservations
  <2>3. QED
    BY <1>1, <1>2, <2>1, <2>2, QuietEntry
<1>9. ASSUME NEW r \in Requests, EndsWithoutUsage(r)
      PROVE  EntryInv'
  <2>1. /\ UNCHANGED <<process, mem, admissions, clock, fresh, disk, op>>
        /\ resv' = [resv EXCEPT ![r].status = "kept"]
    BY <1>9 DEF EndsWithoutUsage, symbols
  <2>2. \A q \in Requests :
          \/ resv'[q] = resv[q] /\ (op' = Idle => resv[q].status # "reserving")
          \/ resv'[q].status \notin {"reserving", "live"} /\ resv'[q].admission < fresh
    BY <1>2, <2>1 DEF TypeOK, Reservations
  <2>3. QED
    BY <1>1, <1>2, <2>1, <2>2, QuietEntry
<1>10. CASE Rename
  <2>1. /\ UNCHANGED <<process, mem, admissions, clock, fresh, resv>>
        /\ op # Idle /\ op' = [op EXCEPT !.renamed = TRUE] /\ disk' = op.next
    BY <1>10 DEF Rename, symbols
  <2>2. op' # Idle
    BY <2>1 DEF Idle
  <2>3. QED
    BY <1>1, <1>2, <2>1, <2>2, QuietEntry
<1>11. CASE WriteFails
  <2>1. /\ UNCHANGED <<process, mem, admissions, clock, fresh, disk>> /\ op' = Idle
    BY <1>11 DEF WriteFails, symbols
  <2>2. \A q \in Requests :
          \/ resv'[q] = resv[q] /\ (op' = Idle => resv[q].status # "reserving")
          \/ resv'[q].status \notin {"reserving", "live"} /\ resv'[q].admission < fresh
    BY <1>2, <1>11 DEF WriteFails, TypeOK, Reservations
  <2>3. QED
    BY <1>1, <1>2, <2>1, <2>2, QuietEntry
<1>12. CASE Midnight
  <2>1. /\ UNCHANGED <<process, mem, admissions, fresh, disk, op, resv>> /\ clock' = clock + 1
    BY <1>12 DEF Midnight, symbols
  <2>2. clock' >= clock /\ disk'.window <= clock'
    BY <1>2, <2>1 DEF TypeOK, LedgerStates
  <2>3. QED
    BY <1>1, <1>2, <2>1, <2>2, QuietEntry
<1>13. ASSUME NEW c \in Capacities, Start(c)
       PROVE  EntryInv'
  <2>1. /\ phase = "down" /\ phase' = "loading" /\ mem' = disk
        /\ UNCHANGED <<clock, disk, resv, admissions, fresh>>
        /\ op' = Idle \/ op' = Write("create", emptyState(clock))
    BY <1>13 DEF Start, symbols
  <2>2. op'.next.window <= clock /\ (op' = Idle \/ op'.kind \in {"create", "normalize"})
    BY <1>2, <2>1 DEF Write, Idle, NoState, emptyState
  <2>3. QED
    BY <1>1, <1>2, <2>1, <2>2, LoadingEntry
<1>14. CASE PublishCreate
  <2>1. /\ phase = "loading" /\ phase' = phase /\ mem' = op.next /\ op' = Idle
        /\ UNCHANGED <<clock, disk, resv, admissions, fresh>>
    BY <1>14 DEF PublishCreate, Published, process, symbols, EntryInv, OneWriter, TypeOK
  <2>2. op'.next.window <= clock
    BY <1>2, <2>1 DEF Idle, NoState, emptyState
  <2>3. QED
    BY <1>1, <1>2, <2>1, <2>2, LoadingEntry
<1>15. CASE NormalizeBegin
  <2>1. /\ phase = "loading" /\ phase' = phase
        /\ UNCHANGED <<clock, disk, resv, admissions, fresh, mem>>
    BY <1>15 DEF NormalizeBegin, process, symbols
  <2>2. PICK next \in IF mem.window # clock THEN {emptyState(clock)} ELSE Trimmed(mem) :
          op' = Write("normalize", next)
    BY <1>15 DEF NormalizeBegin
  <2>3. next.window <= clock
    <3>1. ASSUME next \in Trimmed(mem) PROVE next.window = mem.window
      <4>1. PICK gone \in SUBSET mem.tracked : next = Drop(mem, gone)
        BY <3>1 DEF Trimmed
      <4>2. QED
        BY <4>1 DEF Drop
    <3>2. QED
      BY <1>2, <2>2, <3>1 DEF emptyState, EntryInv, WindowsGrow
  <2>4. op'.next.window <= clock /\ op'.kind = "normalize" /\ mem'.window <= clock
    BY <2>1, <2>2, <2>3 DEF Write, EntryInv, WindowsGrow
  <2>5. QED
    BY <1>1, <1>2, <2>1, <2>4, LoadingEntry
<1>16. CASE PublishNormalize \/ NothingToNormalize
  <2>1. /\ phase # "serving" /\ phase' = "serving" /\ op' = Idle
        /\ mem' = op.next \/ mem' = mem
        /\ UNCHANGED <<clock, disk, resv>> /\ fresh' = fresh + 1
        /\ admissions' = [k \in Identities |-> IF k \in mem'.tracked THEN fresh ELSE NoAdmission]
    <3>1. CASE PublishNormalize
      <4>1. phase # "serving"
        BY <3>1 DEF PublishNormalize, Published, EntryInv, OneWriter
      <4>2. QED
        BY <3>1, <4>1 DEF PublishNormalize, Published, StartServing, Admitted
    <3>2. CASE NothingToNormalize
      BY <3>2 DEF NothingToNormalize, StartServing, Admitted
    <3>3. QED
      BY <1>16, <3>1, <3>2
  <2>2. mem'.window <= clock /\ op'.next.window <= clock
    BY <1>2, <2>1 DEF EntryInv, WindowsGrow, Idle, NoState, emptyState
  <2>3. fresh > 0 /\ \A k \in Identities : admissions'[k] < fresh'
    BY <2>1 DEF TypeOK, NoAdmission
  <2>4. \A k \in mem'.tracked : admissions'[k] # NoAdmission
    BY <1>1, <2>1, <2>3 DEF TypeOK, LedgerStates, NoAdmission
  <2>5. QED
    <3>1. fresh' >= fresh /\ op' = Idle /\ phase' # "down"
      BY <1>2, <2>1
    <3>2. QED
      BY <1>1, <2>1, <2>2, <2>3, <2>4, <3>1, LoadingEntry
<1>17. CASE Crash \/ StartFails
  BY <1>1, <1>17, StoppedEntry DEF Crash, StartFails
<1>18. CASE UNCHANGED vars
  BY <1>1, <1>2, <1>18, QuietEntry DEF vars, symbols
<1>19. QED
  BY <1>3, <1>4, <1>5, <1>6, <1>7, <1>8, <1>9, <1>10, <1>11, <1>12, <1>13, <1>14, <1>15, <1>16,
     <1>17, <1>18 DEF Next

\* A late settlement adjusts exactly the entry it was charged to: for every number of wallets and
\* requests, every capacity and every order of evictions, re-admissions, day changes and restarts,
\* the symbol a live reservation carries is its wallet's current one iff the entry never left.
THEOREM LateSettlement == Spec => []SettlesOwnEntryOnly
<1>1. EntryInv => SettlesOwnEntryOnly
  BY DEF EntryInv
<1>2. QED
  BY <1>1, InitEntry, LedgerTypes, NextEntry, PTL DEF Spec

-----------------------------------------------------------------------------
(* Sums over finite sets *)

Choice(s) == CHOOSE x \in s : TRUE
SumStep(f, g, s) == IF s = {} THEN 0 ELSE f[Choice(s)] + g[s \ {Choice(s)}]
AreSums(f, S, g) == g = [s \in SUBSET S |-> SumStep(f, g, s)]
Sums(f, S) == CHOOSE g : AreSums(f, S, g)

\* The library's fold computes the value at S of the recursive function that Sums describes.
LEMMA SumUnfolds ==
  ASSUME NEW f, NEW S
  PROVE  SumFunctionOnSet(f, S) = Sums(f, S)[S]
BY DEF SumFunctionOnSet, FoldFunctionOnSet, MapThenFoldSet, Sums, AreSums, SumStep, Choice

\* A non-empty set of subsets of a finite set has one with no smaller one in it: induction over
\* finite sets, without an induction hypothesis to instantiate.
LEMMA LeastSubset ==
  ASSUME NEW S, IsFiniteSet(S), NEW bad \in SUBSET (SUBSET S), bad # {}
  PROVE  \E s \in bad : \A t \in bad : t \subseteq s => t = s
<1> DEFINE R == StrictSubsetOrdering(S)
<1>1. IsWellFoundedOn(R, FiniteSubsetsOf(S))
  BY FS_StrictSubsetOrderingWellFounded
<1>2. bad \subseteq FiniteSubsetsOf(S)
  BY FS_Subset DEF FiniteSubsetsOf
<1>3. \A s, t \in SUBSET S : t \subseteq s /\ t # s => <<t, s>> \in R
  BY DEF StrictSubsetOrdering
<1> HIDE DEF R
<1>4. PICK s \in bad : \A t \in bad : <<t, s>> \notin R
  BY <1>1, <1>2, WFMin
<1>5. QED
  BY <1>3, <1>4

LEMMA ChoiceIsIn == \A s : s # {} => Choice(s) \in s
BY DEF Choice

LEMMA SumsUnfold ==
  ASSUME NEW f, NEW S, NEW g, AreSums(f, S, g), NEW s \in SUBSET S
  PROVE  /\ s = {} => g[s] = 0
         /\ s # {} => /\ Choice(s) \in s /\ s \ {Choice(s)} \in SUBSET S
                      /\ g[s] = f[Choice(s)] + g[s \ {Choice(s)}]
<1>1. g[s] = SumStep(f, g, s)
  BY DEF AreSums
<1>2. QED
  BY <1>1, ChoiceIsIn DEF SumStep

\* What the recursion says of a subset.
UnfoldsAt(f, g, s) ==
  /\ s = {} => g[s] = 0
  /\ s # {} => g[s] = f[Choice(s)] + g[s \ {Choice(s)}]

\* SumsUnfold in a form that is easy to instantiate.
LEMMA SumsUnfoldAt ==
  \A f, S, g, s : AreSums(f, S, g) /\ s \in SUBSET S => UnfoldsAt(f, g, s)
BY SumsUnfold DEF UnfoldsAt

\* The sum over a subset does not depend on the set it is taken a subset of.
LEMMA SumsAgree ==
  ASSUME NEW f, NEW S, IsFiniteSet(S), NEW T \in SUBSET S, NEW g, NEW h, AreSums(f, S, g), AreSums(f, T, h)
  PROVE  \A s \in SUBSET T : g[s] = h[s]
<1> SUFFICES ASSUME {s \in SUBSET T : g[s] # h[s]} # {} PROVE FALSE
  OBVIOUS
<1> DEFINE bad == {s \in SUBSET T : g[s] # h[s]}
<1>1. IsFiniteSet(T)
  BY FS_Subset
<1>2. PICK s \in bad : \A t \in bad : t \subseteq s => t = s
  <2>1. bad \in SUBSET (SUBSET T) /\ bad # {}
    OBVIOUS
  <2> HIDE DEF bad
  <2>2. QED
    BY <1>1, <2>1, LeastSubset
<1>3. s \in SUBSET T /\ s \in SUBSET S /\ g[s] # h[s]
  BY <1>2
<1>4. UnfoldsAt(f, g, s) /\ UnfoldsAt(f, h, s)
  <2> HIDE DEF bad
  <2>1. QED
    BY <1>3, SumsUnfoldAt
<1>5. /\ Choice(s) \in s
      /\ g[s] = f[Choice(s)] + g[s \ {Choice(s)}]
      /\ h[s] = f[Choice(s)] + h[s \ {Choice(s)}]
  <2>1. s # {}
    BY <1>3, <1>4 DEF UnfoldsAt
  <2>2. QED
    BY <1>4, <2>1, ChoiceIsIn DEF UnfoldsAt
<1>6. s \ {Choice(s)} \notin bad
  BY <1>2, <1>5
<1>7. g[s \ {Choice(s)}] = h[s \ {Choice(s)}]
  BY <1>3, <1>6
<1>8. QED
  BY <1>3, <1>5, <1>7

\* The recursion has a solution on every finite set.
LEMMA SumsExist ==
  ASSUME NEW f, NEW S, IsFiniteSet(S)
  PROVE  AreSums(f, S, Sums(f, S))
<1> DEFINE bad == {s \in SUBSET S : ~\E g : AreSums(f, s, g)}
<1>1. ASSUME bad # {} PROVE FALSE
  <2>1. PICK s \in bad : \A t \in bad : t \subseteq s => t = s
    <3>1. bad \in SUBSET (SUBSET S) /\ bad # {}
      BY <1>1
    <3> HIDE DEF bad
    <3>2. QED
      BY <3>1, LeastSubset
  <2>2. \A t \in SUBSET s : t # s => AreSums(f, t, Sums(f, t))
    <3>1. \A t \in SUBSET s : t # s => \E g : AreSums(f, t, g)
      BY <2>1
    <3>2. QED
      BY <3>1 DEF Sums
  <2> DEFINE x == Choice(s)
             G == [t \in SUBSET s |-> IF t # s THEN Sums(f, t)[t]
                                     ELSE IF s = {} THEN 0 ELSE f[x] + Sums(f, s \ {x})[s \ {x}]]
  <2>3. ASSUME NEW t \in SUBSET s, t # {} PROVE G[t \ {Choice(t)}] = Sums(f, t \ {Choice(t)})[t \ {Choice(t)}]
    <3>1. Choice(t) \in t
      BY <2>3, ChoiceIsIn
    <3>2. t \ {Choice(t)} \in SUBSET s /\ t \ {Choice(t)} # s
      BY <3>1
    <3>3. QED
      BY <3>2
  <2>4. ASSUME NEW t \in SUBSET s PROVE G[t] = SumStep(f, G, t)
    <3>1. CASE t = {}
      <4>1. t # s => Sums(f, t)[t] = 0
        BY <2>2, <3>1, SumsUnfold
      <4>2. QED
        BY <3>1, <4>1 DEF SumStep
    <3>2. CASE t # {} /\ t = s
      <4>1. G[t] = f[x] + Sums(f, s \ {x})[s \ {x}]
        BY <3>2
      <4>2. QED
        BY <2>3, <3>2, <4>1 DEF SumStep
    <3>3. CASE t # {} /\ t # s
      <4> DEFINE u == t \ {Choice(t)}
      <4>1. Choice(t) \in t /\ u \in SUBSET t /\ u \in SUBSET s /\ u # s
        BY <3>3, ChoiceIsIn
      <4>2. Sums(f, t)[t] = f[Choice(t)] + Sums(f, t)[u]
        BY <2>2, <3>3, SumsUnfold
      <4>3. IsFiniteSet(t)
        BY <2>1, FS_Subset
      <4>4. Sums(f, t)[u] = Sums(f, u)[u]
        BY <2>2, <3>3, <4>1, <4>3, SumsAgree
      <4>5. G[t] = Sums(f, t)[t]
        BY <3>3
      <4>6. QED
        BY <2>3, <3>3, <4>2, <4>4, <4>5 DEF SumStep
    <3>4. QED
      BY <3>1, <3>2, <3>3
  <2> HIDE DEF G
  <2>5. G = [t \in SUBSET s |-> SumStep(f, G, t)]
    <3>1. DOMAIN G = SUBSET s /\ G = [t \in SUBSET s |-> G[t]]
      BY DEF G
    <3>2. QED
      BY <2>4, <3>1
  <2>6. QED
    BY <2>1, <2>5 DEF AreSums
<1>2. \E g : AreSums(f, S, g)
  BY <1>1
<1>3. QED
  BY <1>2 DEF Sums

LEMMA SumOfNone == \A f : SumFunctionOnSet(f, {}) = 0
<1> TAKE f
<1>1. IsFiniteSet({})
  BY FS_EmptySet
<1>2. AreSums(f, {}, Sums(f, {}))
  BY <1>1, SumsExist
<1>3. {} \in SUBSET {}
  OBVIOUS
<1>4. Sums(f, {})[{}] = 0
  BY <1>2, <1>3, SumsUnfold
<1>5. QED
  BY <1>4, SumUnfolds

LEMMA SumOfChoice ==
  ASSUME NEW f, NEW S, IsFiniteSet(S), S # {}
  PROVE  SumFunctionOnSet(f, S) = f[Choice(S)] + SumFunctionOnSet(f, S \ {Choice(S)})
<1> DEFINE x == Choice(S)
<1>1. x \in S /\ Sums(f, S)[S] = f[x] + Sums(f, S)[S \ {x}]
  <2>1. AreSums(f, S, Sums(f, S))
    BY SumsExist
  <2>2. QED
    BY <2>1, SumsUnfold
<1>2. S \ {x} \in SUBSET S /\ IsFiniteSet(S \ {x})
  BY FS_RemoveElement
<1>3. Sums(f, S)[S \ {x}] = Sums(f, S \ {x})[S \ {x}]
  BY <1>2, SumsExist, SumsAgree
<1>4. QED
  BY <1>1, <1>3, SumUnfolds

\* Natural numbers add up to a natural number.
LEMMA SumIsNat ==
  ASSUME NEW f, NEW S, IsFiniteSet(S), \A x \in S : f[x] \in Nat
  PROVE  SumFunctionOnSet(f, S) \in Nat
<1> DEFINE bad == {s \in SUBSET S : SumFunctionOnSet(f, s) \notin Nat}
<1>1. ASSUME bad # {} PROVE FALSE
  <2>1. PICK s \in bad : \A t \in bad : t \subseteq s => t = s
    <3>1. bad \in SUBSET (SUBSET S) /\ bad # {}
      BY <1>1
    <3> HIDE DEF bad
    <3>2. QED
      BY <3>1, LeastSubset
  <2>2. s \in SUBSET S /\ IsFiniteSet(s) /\ SumFunctionOnSet(f, s) \notin Nat
    BY <2>1, FS_Subset
  <2>3. s # {}
    BY <2>2, SumOfNone
  <2>4. Choice(s) \in s /\ SumFunctionOnSet(f, s) = f[Choice(s)] + SumFunctionOnSet(f, s \ {Choice(s)})
    BY <2>2, <2>3, SumOfChoice, ChoiceIsIn
  <2>5. SumFunctionOnSet(f, s \ {Choice(s)}) \in Nat
    BY <2>1, <2>2, <2>4
  <2>6. f[Choice(s)] \in Nat
    BY <2>2, <2>4
  <2>7. QED
    BY <2>2, <2>4, <2>5, <2>6
<1>2. QED
  BY <1>1

\* Any element may be taken out of a sum.
LEMMA SumWithout ==
  ASSUME NEW f, NEW S, IsFiniteSet(S), \A x \in S : f[x] \in Nat, NEW y \in S
  PROVE  SumFunctionOnSet(f, S) = f[y] + SumFunctionOnSet(f, S \ {y})
<1> DEFINE bad == {s \in SUBSET S : \E z \in s :
                     SumFunctionOnSet(f, s) # f[z] + SumFunctionOnSet(f, s \ {z})}
<1>1. ASSUME bad # {} PROVE FALSE
  <2>1. PICK s \in bad : \A t \in bad : t \subseteq s => t = s
    <3>1. bad \in SUBSET (SUBSET S) /\ bad # {}
      BY <1>1
    <3> HIDE DEF bad
    <3>2. QED
      BY <3>1, LeastSubset
  <2>2. PICK z \in s : SumFunctionOnSet(f, s) # f[z] + SumFunctionOnSet(f, s \ {z})
    BY <2>1
  <2>3. s \in SUBSET S /\ IsFiniteSet(s)
    BY <2>1, FS_Subset
  <2> DEFINE x == Choice(s)
  <2>4. x \in s /\ SumFunctionOnSet(f, s) = f[x] + SumFunctionOnSet(f, s \ {x})
    BY <2>2, <2>3, SumOfChoice, ChoiceIsIn
  <2> HIDE DEF x
  <2>5. x # z
    BY <2>2, <2>4
  <2>6. s \ {x} \notin bad /\ s \ {z} \notin bad /\ s \ {x} \in SUBSET S /\ s \ {z} \in SUBSET S
    BY <2>1, <2>2, <2>3, <2>4
  <2>7. /\ SumFunctionOnSet(f, s \ {x}) = f[z] + SumFunctionOnSet(f, (s \ {x}) \ {z})
        /\ SumFunctionOnSet(f, s \ {z}) = f[x] + SumFunctionOnSet(f, (s \ {z}) \ {x})
    BY <2>2, <2>4, <2>5, <2>6
  <2>8. (s \ {x}) \ {z} = (s \ {z}) \ {x}
    OBVIOUS
  <2>9. f[x] \in Nat /\ f[z] \in Nat /\ SumFunctionOnSet(f, (s \ {x}) \ {z}) \in Nat
    <3>1. IsFiniteSet((s \ {x}) \ {z}) /\ (s \ {x}) \ {z} \subseteq S
      BY <2>3, FS_Subset
    <3>2. QED
      BY <2>2, <2>3, <2>4, <3>1, SumIsNat
  <2>10. QED
    BY <2>2, <2>4, <2>7, <2>8, <2>9
<1>2. QED
  BY <1>1

LEMMA TwoAddMonotone ==
  \A a, b, c, d \in Nat : a <= b /\ c <= d => a + c <= b + d
OBVIOUS

LEMMA OneAddMonotone ==
  \A b, c, d \in Nat : c <= d => c <= b + d
OBVIOUS

\* A sum of more and larger numbers is not smaller.
LEMMA SumGrows ==
  ASSUME NEW f, NEW g, NEW S, NEW T, IsFiniteSet(T), S \subseteq T,
         \A x \in S : f[x] \in Nat /\ f[x] <= g[x],
         \A x \in T : g[x] \in Nat
  PROVE  SumFunctionOnSet(f, S) <= SumFunctionOnSet(g, T)
<1> DEFINE bad == {t \in SUBSET T :
                     ~(SumFunctionOnSet(f, S \intersect t) <= SumFunctionOnSet(g, t))}
<1>1. ASSUME bad # {} PROVE FALSE
  <2>1. PICK t \in bad : \A u \in bad : u \subseteq t => u = t
    <3>1. bad \in SUBSET (SUBSET T) /\ bad # {}
      BY <1>1
    <3> HIDE DEF bad
    <3>2. QED
      BY <3>1, LeastSubset
  <2>2. /\ t \in SUBSET T /\ IsFiniteSet(t) /\ IsFiniteSet(S \intersect t)
        /\ ~(SumFunctionOnSet(f, S \intersect t) <= SumFunctionOnSet(g, t))
    BY <2>1, FS_Subset
  <2>3. t # {}
    <3>1. t = {} => S \intersect t = {}
      OBVIOUS
    <3>2. QED
      BY <2>2, <3>1, SumOfNone
  <2>4. PICK y \in t : TRUE
    BY <2>3
  <2>5. SumFunctionOnSet(g, t) = g[y] + SumFunctionOnSet(g, t \ {y})
    BY <2>2, SumWithout
  <2>6. SumFunctionOnSet(f, S \intersect (t \ {y})) <= SumFunctionOnSet(g, t \ {y})
    BY <2>1, <2>2, <2>4
  <2>7. /\ g[y] \in Nat /\ SumFunctionOnSet(g, t \ {y}) \in Nat
        /\ SumFunctionOnSet(f, S \intersect (t \ {y})) \in Nat
    <3>1. IsFiniteSet(t \ {y}) /\ IsFiniteSet(S \intersect (t \ {y}))
      BY <2>2, FS_Subset
    <3>2. QED
      BY <2>2, <3>1, SumIsNat
  <2>8. CASE y \in S
    <3>1. SumFunctionOnSet(f, S \intersect t) = f[y] + SumFunctionOnSet(f, (S \intersect t) \ {y})
      BY <2>2, <2>8, SumWithout
    <3>2. (S \intersect t) \ {y} = S \intersect (t \ {y})
      OBVIOUS
    <3>3. f[y] \in Nat /\ f[y] <= g[y]
      BY <2>8
    <3>4. SumFunctionOnSet(f, S \intersect t) = f[y] + SumFunctionOnSet(f, S \intersect (t \ {y}))
      BY <3>1, <3>2
    <3>5. QED
      BY <2>2, <2>5, <2>6, <2>7, <3>3, <3>4, TwoAddMonotone
  <2>9. CASE y \notin S
    <3>1. S \intersect t = S \intersect (t \ {y})
      BY <2>9
    <3>2. SumFunctionOnSet(f, S \intersect t) = SumFunctionOnSet(f, S \intersect (t \ {y}))
      BY <3>1
    <3>3. QED
      BY <2>2, <2>5, <2>6, <2>7, <3>2, OneAddMonotone
  <2>10. QED
    BY <2>8, <2>9
<1>2. S \intersect T = S
  OBVIOUS
<1>3. QED
  BY <1>1, <1>2

\* Functions that agree on a set have the same sum over it.
LEMMA SumSame ==
  ASSUME NEW f, NEW g, NEW S, IsFiniteSet(S), \A x \in S : f[x] \in Nat /\ g[x] = f[x]
  PROVE  SumFunctionOnSet(f, S) = SumFunctionOnSet(g, S)
<1>1. /\ SumFunctionOnSet(f, S) <= SumFunctionOnSet(g, S)
      /\ SumFunctionOnSet(g, S) <= SumFunctionOnSet(f, S)
  <2>1. /\ \A x \in S : f[x] \in Nat /\ f[x] <= g[x]
        /\ \A x \in S : g[x] \in Nat /\ g[x] <= f[x]
    OBVIOUS
  <2>2. QED
    BY <2>1, SumGrows
<1>2. SumFunctionOnSet(f, S) \in Nat /\ SumFunctionOnSet(g, S) \in Nat
  BY SumIsNat
<1>3. QED
  BY <1>1, <1>2

Part(f, S, r) == IF r \in S THEN f[r] ELSE 0

One(S, r) == IF r \in S THEN 1 ELSE 0

\* Two sums that differ in one element differ by what that element contributes.
LEMMA SumMoved ==
  ASSUME NEW f, NEW g, NEW S, NEW T, NEW r, IsFiniteSet(S), S \ {r} = T \ {r},
         \A x \in S : f[x] \in Nat, \A x \in T : g[x] \in Nat, \A x \in S \ {r} : g[x] = f[x]
  PROVE  /\ IsFiniteSet(T)
         /\ SumFunctionOnSet(f, S) \in Nat /\ SumFunctionOnSet(g, T) \in Nat
         /\ SumFunctionOnSet(g, T) + Part(f, S, r) = SumFunctionOnSet(f, S) + Part(g, T, r)
<1>1. IsFiniteSet(S \ {r}) /\ IsFiniteSet(T)
  <2>1. IsFiniteSet(S \ {r})
    BY FS_RemoveElement
  <2>2. IsFiniteSet((T \ {r}) \union {r})
    BY <2>1, FS_AddElement
  <2>3. T \subseteq (T \ {r}) \union {r}
    OBVIOUS
  <2>4. QED
    BY <2>1, <2>2, <2>3, FS_Subset
<1>2. SumFunctionOnSet(g, S \ {r}) = SumFunctionOnSet(f, S \ {r})
  BY <1>1, SumSame
<1>3. /\ SumFunctionOnSet(f, S) \in Nat /\ SumFunctionOnSet(g, T) \in Nat
      /\ SumFunctionOnSet(f, S \ {r}) \in Nat
  BY <1>1, SumIsNat
<1>4. SumFunctionOnSet(f, S) = SumFunctionOnSet(f, S \ {r}) + Part(f, S, r)
  <2>1. CASE r \in S
    BY <1>3, <2>1, SumWithout DEF Part
  <2>2. CASE r \notin S
    <3>1. S \ {r} = S
      BY <2>2
    <3>2. QED
      BY <1>3, <2>2, <3>1 DEF Part
  <2>3. QED
    BY <2>1, <2>2
<1>5. SumFunctionOnSet(g, T) = SumFunctionOnSet(f, S \ {r}) + Part(g, T, r)
  <2>1. CASE r \in T
    <3>1. SumFunctionOnSet(g, T) = g[r] + SumFunctionOnSet(g, T \ {r})
      BY <1>1, <2>1, SumWithout
    <3>2. g[r] \in Nat
      BY <2>1
    <3>3. SumFunctionOnSet(g, T \ {r}) = SumFunctionOnSet(f, S \ {r})
      BY <1>2
    <3>4. QED
      BY <1>3, <2>1, <3>1, <3>2, <3>3 DEF Part
  <2>2. CASE r \notin T
    <3>1. T = S \ {r}
      BY <2>2
    <3>2. QED
      BY <1>2, <1>3, <2>2, <3>1 DEF Part
  <2>3. QED
    BY <2>1, <2>2
<1>6. Part(f, S, r) \in Nat /\ Part(g, T, r) \in Nat
  BY DEF Part
<1>7. QED
  BY <1>1, <1>3, <1>4, <1>5, <1>6

\* f over S and g over T differ at most in r.
DifferInOne(f, g, S, T, r) ==
  /\ IsFiniteSet(S) /\ S \ {r} = T \ {r}
  /\ \A x \in S : f[x] \in Nat
  /\ \A x \in T : g[x] \in Nat
  /\ \A x \in S \ {r} : g[x] = f[x]

LEMMA OneMoved ==
  \A f, g, S, T, r : DifferInOne(f, g, S, T, r) =>
    /\ SumFunctionOnSet(f, S) \in Nat /\ SumFunctionOnSet(g, T) \in Nat
    /\ SumFunctionOnSet(g, T) + Part(f, S, r) = SumFunctionOnSet(f, S) + Part(g, T, r)
BY SumMoved DEF DifferInOne

\* The same for the number of elements.
LEMMA CountMoved ==
  ASSUME NEW S, NEW T, NEW r, IsFiniteSet(S), S \ {r} = T \ {r}
  PROVE  /\ IsFiniteSet(T)
         /\ Cardinality(S) \in Nat /\ Cardinality(T) \in Nat
         /\ Cardinality(T) + One(S, r) = Cardinality(S) + One(T, r)
<1>1. IsFiniteSet(S \ {r}) /\ Cardinality(S \ {r}) \in Nat
  BY FS_RemoveElement, FS_CardinalityType
<1>2. ASSUME NEW A, A \ {r} = S \ {r}
      PROVE  IsFiniteSet(A) /\ Cardinality(A) = Cardinality(S \ {r}) + One(A, r)
  <2>1. CASE r \in A
    <3>1. A = (S \ {r}) \union {r}
      BY <1>2, <2>1
    <3>2. QED
      BY <1>1, <2>1, <3>1, FS_AddElement DEF One
  <2>2. CASE r \notin A
    <3>1. A = S \ {r}
      BY <1>2, <2>2
    <3>2. QED
      BY <1>1, <2>2, <3>1 DEF One
  <2>3. QED
    BY <2>1, <2>2
<1>3. One(S, r) \in Nat /\ One(T, r) \in Nat
  BY DEF One
<1>4. /\ Cardinality(S) = Cardinality(S \ {r}) + One(S, r)
      /\ IsFiniteSet(T) /\ Cardinality(T) = Cardinality(S \ {r}) + One(T, r)
  BY <1>2
<1>5. QED
  BY <1>1, <1>3, <1>4

SameButOne(S, T, r) == IsFiniteSet(S) /\ S \ {r} = T \ {r}

\* CountMoved in a form that is easy to instantiate.
LEMMA OneCounted ==
  \A S, T, r : SameButOne(S, T, r) =>
    /\ Cardinality(S) \in Nat /\ Cardinality(T) \in Nat
    /\ Cardinality(T) + One(S, r) = Cardinality(S) + One(T, r)
BY CountMoved DEF SameButOne

-----------------------------------------------------------------------------
(* What a reservation counts *)

LEMMA CostIs ==
  ASSUME NEW res \in Reservations
  PROVE  /\ res.status \in {"live", "kept"} => CostOf(res) = res.spend
         /\ res.status = "settled" => CostOf(res) = res.actualSpend
         /\ res.status \in {"settling", "uncertain"} =>
              CostOf(res) = IF res.actualSpend < res.spend THEN res.actualSpend ELSE res.spend
<1>1. res.status \in {"live", "kept"} => CostOf(res) = res.spend
  BY DEF CostOf
<1>2. res.status = "settled" => CostOf(res) = res.actualSpend
  BY DEF CostOf
<1>3. res.status \notin {"live", "kept", "settled"} =>
        CostOf(res) = IF res.actualSpend < res.spend THEN res.actualSpend ELSE res.spend
  BY DEF CostOf
<1>4. QED
  BY <1>1, <1>2, <1>3

LEMMA EntryCostIs ==
  ASSUME NEW res \in Reservations
  PROVE  /\ res.status \in {"live", "kept"} => EntryCostOf(res) = res.idSpend
         /\ res.status = "settled" => EntryCostOf(res) = res.actualSpend
         /\ res.status \notin {"live", "kept", "settled"} => EntryCostOf(res) = 0
BY DEF EntryCostOf

\* Whatever a reservation counts is a natural number.
LEMMA CountsAreNat ==
  ASSUME NEW res \in Reservations
  PROVE  /\ CostOf(res) \in Nat /\ EntryCostOf(res) \in Nat
         /\ TokensOf(res) \in Nat /\ SpendOf(res) \in Nat
<1>1. EntryCostOf(res) \in Nat
  BY EntryCostIs DEF Reservations
<1>2. res.status \in {"live", "kept", "settled"} => CostOf(res) \in Nat
  BY CostIs DEF Reservations
<1>3. res.status \notin {"live", "kept", "settled"} => CostOf(res) \in {res.actualSpend, res.spend}
  BY DEF CostOf
<1>4. QED
  BY <1>1, <1>2, <1>3 DEF Reservations, TokensOf, SpendOf

-----------------------------------------------------------------------------
(* Ledgers and what they hold *)

Maps == [Requests -> Reservations]

\* Reservation r counts on a day.
CountsOn(reservations, r, day) ==
  reservations[r].status \in GrantedStatuses /\ reservations[r].window = day

\* A ledger keeps covering grants that become no dearer.
LEMMA CoversKept ==
  ASSUME NEW ledger \in LedgerStates, NEW before \in Maps, NEW after \in Maps,
         IsFiniteSet(GrantedOn(before, ledger.window)),
         \A q \in Requests : CountsOn(after, q, ledger.window) =>
           CountsOn(before, q, ledger.window) /\ CostOf(after[q]) <= CostOf(before[q]),
         Covers(ledger, before)
  PROVE  Covers(ledger, after)
<1> DEFINE S == GrantedOn(after, ledger.window)
           T == GrantedOn(before, ledger.window)
           f == [r \in Requests |-> CostOf(after[r])]
           g == [r \in Requests |-> CostOf(before[r])]
<1>1. S \subseteq T /\ IsFiniteSet(S) /\ S \subseteq Requests /\ T \subseteq Requests
  <2>1. S \subseteq T
    BY DEF GrantedOn, CountsOn
  <2>2. QED
    BY <2>1, FS_Subset DEF GrantedOn
<1>2. \A x \in S : f[x] <= g[x]
  BY DEF GrantedOn, CountsOn
<1>3. \A x \in Requests : f[x] \in Nat /\ g[x] \in Nat
  BY CountsAreNat DEF Maps
<1>4. /\ ledger.provider.spend >= SumFunctionOnSet(g, T) /\ ledger.provider.requests >= Cardinality(T)
      /\ ledger.provider.spend \in Nat /\ ledger.provider.requests \in Nat
  BY DEF Covers, LedgerStates, Counters
<1>5. Covers(ledger, after) <=> /\ ledger.provider.spend >= SumFunctionOnSet(f, S)
                                /\ ledger.provider.requests >= Cardinality(S)
  BY DEF Covers
<1>6. IsFiniteSet(T)
  OBVIOUS
<1> HIDE DEF S, T, f, g
<1>7. SumFunctionOnSet(f, S) <= SumFunctionOnSet(g, T)
  BY <1>1, <1>2, <1>3, <1>6, SumGrows
<1>8. SumFunctionOnSet(f, S) \in Nat /\ SumFunctionOnSet(g, T) \in Nat
  BY <1>1, <1>3, <1>6, SumIsNat
<1>9. Cardinality(S) <= Cardinality(T) /\ Cardinality(S) \in Nat /\ Cardinality(T) \in Nat
  BY <1>1, <1>6, FS_Subset, FS_CardinalityType
<1>10. QED
  BY <1>4, <1>5, <1>7, <1>8, <1>9

\* A ledger keeps matching grants whose tallies stay.
LEMMA MatchesKept ==
  ASSUME NEW ledger \in LedgerStates, NEW before \in Maps, NEW after \in Maps,
         IsFiniteSet(GrantedOn(before, ledger.window)),
         \A q \in Requests :
           /\ CountsOn(after, q, ledger.window) <=> CountsOn(before, q, ledger.window)
           /\ CountsOn(after, q, ledger.window) => /\ TokensOf(after[q]) = TokensOf(before[q])
                                                   /\ SpendOf(after[q]) = SpendOf(before[q]),
         Matches(ledger, before)
  PROVE  Matches(ledger, after)
<1> DEFINE S == GrantedOn(before, ledger.window)
<1>1. GrantedOn(after, ledger.window) = S /\ S \subseteq Requests
  BY DEF GrantedOn, CountsOn
<1>2. \A x \in S : /\ TokensOf(after[x]) = TokensOf(before[x]) /\ SpendOf(after[x]) = SpendOf(before[x])
                   /\ TokensOf(before[x]) \in Nat /\ SpendOf(before[x]) \in Nat
  BY CountsAreNat DEF GrantedOn, CountsOn, Maps
<1>3. IsFiniteSet(S)
  OBVIOUS
<1> DEFINE ft == [r \in Requests |-> TokensOf(before[r])]
           gt == [r \in Requests |-> TokensOf(after[r])]
           fs == [r \in Requests |-> SpendOf(before[r])]
           gs == [r \in Requests |-> SpendOf(after[r])]
<1>4. \A x \in S : ft[x] \in Nat /\ gt[x] = ft[x] /\ fs[x] \in Nat /\ gs[x] = fs[x]
  BY <1>1, <1>2
<1>5. /\ Matches(ledger, before) <=> /\ ledger.provider.requests = Cardinality(S)
                                     /\ ledger.provider.tokens = SumFunctionOnSet(ft, S)
                                     /\ ledger.provider.spend = SumFunctionOnSet(fs, S)
      /\ Matches(ledger, after) <=> /\ ledger.provider.requests = Cardinality(S)
                                    /\ ledger.provider.tokens = SumFunctionOnSet(gt, S)
                                    /\ ledger.provider.spend = SumFunctionOnSet(gs, S)
  BY <1>1 DEF Matches
<1> HIDE DEF S, ft, gt, fs, gs
<1>6. SumFunctionOnSet(ft, S) = SumFunctionOnSet(gt, S) /\ SumFunctionOnSet(fs, S) = SumFunctionOnSet(gs, S)
  BY <1>3, <1>4, SumSame
<1>7. QED
  BY <1>5, <1>6

\* An entry keeps covering reservations of which no more is charged to it.
LEMMA EntryKept ==
  ASSUME NEW ledger \in LedgerStates, NEW k \in Identities, NEW before \in Maps, NEW after \in Maps,
         IsFiniteSet(ChargedTo(before, k)),
         \A q \in ChargedTo(after, k) :
           q \in ChargedTo(before, k) /\ EntryCostOf(after[q]) <= EntryCostOf(before[q]),
         EntryCovers(ledger, before, k)
  PROVE  EntryCovers(ledger, after, k)
<1> DEFINE S == ChargedTo(after, k)
           T == ChargedTo(before, k)
           f == [r \in Requests |-> EntryCostOf(after[r])]
           g == [r \in Requests |-> EntryCostOf(before[r])]
<1>1. S \subseteq T /\ IsFiniteSet(S) /\ S \subseteq Requests /\ T \subseteq Requests
  <2>1. S \subseteq T
    OBVIOUS
  <2>2. QED
    BY <2>1, FS_Subset DEF ChargedTo
<1>2. \A x \in S : f[x] <= g[x]
  BY <1>1
<1>3. \A x \in Requests : f[x] \in Nat /\ g[x] \in Nat
  BY CountsAreNat DEF Maps
<1>4. /\ ledger.use[k].spend >= SumFunctionOnSet(g, T) /\ ledger.use[k].requests >= Cardinality(T)
      /\ ledger.use[k].spend \in Nat /\ ledger.use[k].requests \in Nat
  BY DEF EntryCovers, LedgerStates, Counters
<1>5. EntryCovers(ledger, after, k) <=> /\ ledger.use[k].spend >= SumFunctionOnSet(f, S)
                                        /\ ledger.use[k].requests >= Cardinality(S)
  BY DEF EntryCovers
<1>6. IsFiniteSet(T)
  OBVIOUS
<1> HIDE DEF S, T, f, g
<1>7. SumFunctionOnSet(f, S) <= SumFunctionOnSet(g, T)
  BY <1>1, <1>2, <1>3, <1>6, SumGrows
<1>8. SumFunctionOnSet(f, S) \in Nat /\ SumFunctionOnSet(g, T) \in Nat
  BY <1>1, <1>3, <1>6, SumIsNat
<1>9. Cardinality(S) <= Cardinality(T) /\ Cardinality(S) \in Nat /\ Cardinality(T) \in Nat
  BY <1>1, <1>6, FS_Subset, FS_CardinalityType
<1>10. QED
  BY <1>4, <1>5, <1>7, <1>8, <1>9

\* What reservation r contributes on a day.
Share(reservations, r, day, amount) == IF CountsOn(reservations, r, day) THEN amount ELSE 0

\* The ledgers before and after a step that is about reservation r.
LEMMA CoversMoved ==
  ASSUME NEW ledger \in LedgerStates, NEW next \in LedgerStates, next.window = ledger.window,
         NEW before \in Maps, NEW after \in Maps, NEW r \in Requests,
         IsFiniteSet(GrantedOn(before, ledger.window)),
         \A q \in Requests \ {r} :
           /\ CountsOn(after, q, ledger.window) <=> CountsOn(before, q, ledger.window)
           /\ CountsOn(after, q, ledger.window) => CostOf(after[q]) = CostOf(before[q]),
         next.provider.spend + Share(before, r, ledger.window, CostOf(before[r]))
           = ledger.provider.spend + Share(after, r, ledger.window, CostOf(after[r])),
         next.provider.requests + Share(before, r, ledger.window, 1)
           = ledger.provider.requests + Share(after, r, ledger.window, 1),
         Covers(ledger, before)
  PROVE  Covers(next, after)
<1> DEFINE S == GrantedOn(before, ledger.window)
           T == GrantedOn(after, ledger.window)
           f == [q \in Requests |-> CostOf(before[q])]
           g == [q \in Requests |-> CostOf(after[q])]
<1>1. S \ {r} = T \ {r} /\ S \subseteq Requests /\ T \subseteq Requests
  BY DEF GrantedOn, CountsOn
<1>2. \A x \in S \ {r} : g[x] = f[x]
  BY DEF GrantedOn, CountsOn
<1>3. \A x \in Requests : f[x] \in Nat /\ g[x] \in Nat
  BY CountsAreNat DEF Maps
<1>4. /\ ledger.provider.spend >= SumFunctionOnSet(f, S) /\ ledger.provider.requests >= Cardinality(S)
      /\ ledger.provider.spend \in Nat /\ ledger.provider.requests \in Nat
      /\ next.provider.spend \in Nat /\ next.provider.requests \in Nat
  BY DEF Covers, LedgerStates, Counters
<1>5. Covers(next, after) <=> /\ next.provider.spend >= SumFunctionOnSet(g, T)
                              /\ next.provider.requests >= Cardinality(T)
  BY DEF Covers
<1>6. IsFiniteSet(S)
  OBVIOUS
<1>7. /\ Share(before, r, ledger.window, CostOf(before[r])) = Part(f, S, r)
      /\ Share(after, r, ledger.window, CostOf(after[r])) = Part(g, T, r)
      /\ Share(before, r, ledger.window, 1) = One(S, r)
      /\ Share(after, r, ledger.window, 1) = One(T, r)
  BY DEF Share, Part, One, GrantedOn, CountsOn
<1>8. /\ Part(f, S, r) \in Nat /\ Part(g, T, r) \in Nat /\ One(S, r) \in Nat /\ One(T, r) \in Nat
  BY <1>3 DEF Part, One
<1> HIDE DEF S, T, f, g
<1>9. /\ SumFunctionOnSet(f, S) \in Nat /\ SumFunctionOnSet(g, T) \in Nat
      /\ SumFunctionOnSet(g, T) + Part(f, S, r) = SumFunctionOnSet(f, S) + Part(g, T, r)
  <2>1. DifferInOne(f, g, S, T, r)
    BY <1>1, <1>2, <1>3, <1>6 DEF DifferInOne
  <2>2. QED
    BY <2>1, OneMoved
<1>10. /\ Cardinality(S) \in Nat /\ Cardinality(T) \in Nat
       /\ Cardinality(T) + One(S, r) = Cardinality(S) + One(T, r)
  <2>1. SameButOne(S, T, r)
    BY <1>1, <1>6 DEF SameButOne
  <2>2. QED
    BY <2>1, OneCounted
<1>11. next.provider.spend >= SumFunctionOnSet(g, T)
  BY <1>4, <1>7, <1>8, <1>9
<1>12. next.provider.requests >= Cardinality(T)
  BY <1>4, <1>7, <1>8, <1>10
<1>13. QED
  BY <1>5, <1>11, <1>12

LEMMA MatchesMoved ==
  ASSUME NEW ledger \in LedgerStates, NEW next \in LedgerStates, next.window = ledger.window,
         NEW before \in Maps, NEW after \in Maps, NEW r \in Requests,
         IsFiniteSet(GrantedOn(before, ledger.window)),
         \A q \in Requests \ {r} :
           /\ CountsOn(after, q, ledger.window) <=> CountsOn(before, q, ledger.window)
           /\ CountsOn(after, q, ledger.window) => /\ TokensOf(after[q]) = TokensOf(before[q])
                                                   /\ SpendOf(after[q]) = SpendOf(before[q]),
         next.provider.spend + Share(before, r, ledger.window, SpendOf(before[r]))
           = ledger.provider.spend + Share(after, r, ledger.window, SpendOf(after[r])),
         next.provider.tokens + Share(before, r, ledger.window, TokensOf(before[r]))
           = ledger.provider.tokens + Share(after, r, ledger.window, TokensOf(after[r])),
         next.provider.requests + Share(before, r, ledger.window, 1)
           = ledger.provider.requests + Share(after, r, ledger.window, 1),
         Matches(ledger, before)
  PROVE  Matches(next, after)
<1> DEFINE S == GrantedOn(before, ledger.window)
           T == GrantedOn(after, ledger.window)
           fs == [q \in Requests |-> SpendOf(before[q])]
           gs == [q \in Requests |-> SpendOf(after[q])]
           ft == [q \in Requests |-> TokensOf(before[q])]
           gt == [q \in Requests |-> TokensOf(after[q])]
<1>1. S \ {r} = T \ {r} /\ S \subseteq Requests /\ T \subseteq Requests
  BY DEF GrantedOn, CountsOn
<1>2. \A x \in S \ {r} : gs[x] = fs[x] /\ gt[x] = ft[x]
  BY DEF GrantedOn, CountsOn
<1>3. /\ \A x \in Requests : fs[x] \in Nat /\ gs[x] \in Nat
      /\ \A x \in Requests : ft[x] \in Nat /\ gt[x] \in Nat
  BY CountsAreNat DEF Maps
<1>4. /\ ledger.provider.spend = SumFunctionOnSet(fs, S) /\ ledger.provider.requests = Cardinality(S)
      /\ ledger.provider.tokens = SumFunctionOnSet(ft, S)
      /\ next.provider.spend \in Nat /\ next.provider.requests \in Nat /\ next.provider.tokens \in Nat
  BY DEF Matches, LedgerStates, Counters
<1>5. Matches(next, after) <=> /\ next.provider.spend = SumFunctionOnSet(gs, T)
                               /\ next.provider.tokens = SumFunctionOnSet(gt, T)
                               /\ next.provider.requests = Cardinality(T)
  BY DEF Matches
<1>6. IsFiniteSet(S)
  OBVIOUS
<1>7. /\ Share(before, r, ledger.window, SpendOf(before[r])) = Part(fs, S, r)
      /\ Share(after, r, ledger.window, SpendOf(after[r])) = Part(gs, T, r)
      /\ Share(before, r, ledger.window, TokensOf(before[r])) = Part(ft, S, r)
      /\ Share(after, r, ledger.window, TokensOf(after[r])) = Part(gt, T, r)
      /\ Share(before, r, ledger.window, 1) = One(S, r)
      /\ Share(after, r, ledger.window, 1) = One(T, r)
  BY DEF Share, Part, One, GrantedOn, CountsOn
<1>8. /\ Part(fs, S, r) \in Nat /\ Part(gs, T, r) \in Nat /\ One(S, r) \in Nat /\ One(T, r) \in Nat
      /\ Part(ft, S, r) \in Nat /\ Part(gt, T, r) \in Nat
  BY <1>3 DEF Part, One
<1> HIDE DEF S, T, fs, gs, ft, gt
<1>9. /\ SumFunctionOnSet(fs, S) \in Nat /\ SumFunctionOnSet(gs, T) \in Nat
      /\ SumFunctionOnSet(gs, T) + Part(fs, S, r) = SumFunctionOnSet(fs, S) + Part(gs, T, r)
  <2>1. DifferInOne(fs, gs, S, T, r)
    BY <1>1, <1>2, <1>3, <1>6 DEF DifferInOne
  <2>2. QED
    BY <2>1, OneMoved
<1>10. /\ SumFunctionOnSet(ft, S) \in Nat /\ SumFunctionOnSet(gt, T) \in Nat
       /\ SumFunctionOnSet(gt, T) + Part(ft, S, r) = SumFunctionOnSet(ft, S) + Part(gt, T, r)
  <2>1. DifferInOne(ft, gt, S, T, r)
    BY <1>1, <1>2, <1>3, <1>6 DEF DifferInOne
  <2>2. QED
    BY <2>1, OneMoved
<1>11. /\ Cardinality(S) \in Nat /\ Cardinality(T) \in Nat
       /\ Cardinality(T) + One(S, r) = Cardinality(S) + One(T, r)
  <2>1. SameButOne(S, T, r)
    BY <1>1, <1>6 DEF SameButOne
  <2>2. QED
    BY <2>1, OneCounted
<1>12. next.provider.spend = SumFunctionOnSet(gs, T)
  BY <1>4, <1>7, <1>8, <1>9
<1>13. next.provider.tokens = SumFunctionOnSet(gt, T)
  BY <1>4, <1>7, <1>8, <1>10
<1>14. next.provider.requests = Cardinality(T)
  BY <1>4, <1>7, <1>8, <1>11
<1>15. QED
  BY <1>5, <1>12, <1>13, <1>14

\* What reservation r contributes to an entry.
EntryShare(reservations, r, k, amount) == IF r \in ChargedTo(reservations, k) THEN amount ELSE 0

\* The entry of a wallet before and after a step that is about reservation r.
LEMMA EntryMoved ==
  ASSUME NEW ledger \in LedgerStates, NEW next \in LedgerStates, NEW k \in Identities,
         NEW before \in Maps, NEW after \in Maps, NEW r \in Requests,
         IsFiniteSet(ChargedTo(before, k)),
         ChargedTo(after, k) \ {r} = ChargedTo(before, k) \ {r},
         \A q \in ChargedTo(after, k) \ {r} : EntryCostOf(after[q]) = EntryCostOf(before[q]),
         next.use[k].spend + EntryShare(before, r, k, EntryCostOf(before[r]))
           >= ledger.use[k].spend + EntryShare(after, r, k, EntryCostOf(after[r])),
         next.use[k].requests + EntryShare(before, r, k, 1)
           >= ledger.use[k].requests + EntryShare(after, r, k, 1),
         EntryCovers(ledger, before, k)
  PROVE  EntryCovers(next, after, k)
<1> DEFINE S == ChargedTo(before, k)
           T == ChargedTo(after, k)
           f == [q \in Requests |-> EntryCostOf(before[q])]
           g == [q \in Requests |-> EntryCostOf(after[q])]
<1>1. S \ {r} = T \ {r} /\ S \subseteq Requests /\ T \subseteq Requests
  BY DEF ChargedTo
<1>2. \A x \in S \ {r} : g[x] = f[x]
  BY <1>1
<1>3. \A x \in Requests : f[x] \in Nat /\ g[x] \in Nat
  BY CountsAreNat DEF Maps
<1>4. /\ ledger.use[k].spend >= SumFunctionOnSet(f, S) /\ ledger.use[k].requests >= Cardinality(S)
      /\ ledger.use[k].spend \in Nat /\ ledger.use[k].requests \in Nat
      /\ next.use[k].spend \in Nat /\ next.use[k].requests \in Nat
  BY DEF EntryCovers, LedgerStates, Counters
<1>5. EntryCovers(next, after, k) <=> /\ next.use[k].spend >= SumFunctionOnSet(g, T)
                                      /\ next.use[k].requests >= Cardinality(T)
  BY DEF EntryCovers
<1>6. IsFiniteSet(S)
  OBVIOUS
<1>7. /\ EntryShare(before, r, k, EntryCostOf(before[r])) = Part(f, S, r)
      /\ EntryShare(after, r, k, EntryCostOf(after[r])) = Part(g, T, r)
      /\ EntryShare(before, r, k, 1) = One(S, r)
      /\ EntryShare(after, r, k, 1) = One(T, r)
  BY DEF EntryShare, Part, One
<1>8. /\ Part(f, S, r) \in Nat /\ Part(g, T, r) \in Nat /\ One(S, r) \in Nat /\ One(T, r) \in Nat
  BY <1>3 DEF Part, One
<1> HIDE DEF S, T, f, g
<1>9. /\ SumFunctionOnSet(f, S) \in Nat /\ SumFunctionOnSet(g, T) \in Nat
      /\ SumFunctionOnSet(g, T) + Part(f, S, r) = SumFunctionOnSet(f, S) + Part(g, T, r)
  <2>1. DifferInOne(f, g, S, T, r)
    BY <1>1, <1>2, <1>3, <1>6 DEF DifferInOne
  <2>2. QED
    BY <2>1, OneMoved
<1>10. /\ Cardinality(S) \in Nat /\ Cardinality(T) \in Nat
       /\ Cardinality(T) + One(S, r) = Cardinality(S) + One(T, r)
  BY <1>1, <1>6, CountMoved
<1>11. next.use[k].spend >= SumFunctionOnSet(g, T)
  BY <1>4, <1>7, <1>8, <1>9
<1>12. next.use[k].requests >= Cardinality(T)
  BY <1>4, <1>7, <1>8, <1>10
<1>13. QED
  BY <1>5, <1>11, <1>12

\* The ledger of a new day is right while nothing is granted on it.
LEMMA EmptyCovers ==
  ASSUME NEW day \in Nat, NEW reservations, GrantedOn(reservations, day) = {}
  PROVE  /\ Covers(emptyState(day), reservations)
         /\ Matches(emptyState(day), reservations)
<1>1. Cardinality({}) = 0
  BY FS_EmptySet
<1>2. /\ SumFunctionOnSet([r \in Requests |-> CostOf(reservations[r])], {}) = 0
      /\ SumFunctionOnSet([r \in Requests |-> TokensOf(reservations[r])], {}) = 0
      /\ SumFunctionOnSet([r \in Requests |-> SpendOf(reservations[r])], {}) = 0
  BY SumOfNone
<1>3. /\ emptyState(day).window = day /\ emptyState(day).provider.spend = 0
      /\ emptyState(day).provider.tokens = 0 /\ emptyState(day).provider.requests = 0
  BY DEF emptyState, counters
<1>4. Covers(emptyState(day), reservations)
  BY <1>1, <1>2, <1>3 DEF Covers
<1>5. Matches(emptyState(day), reservations)
  BY <1>1, <1>2, <1>3 DEF Matches
<1>6. QED
  BY <1>4, <1>5

\* Any entry covers no reservation at all.
LEMMA EntryEmpty ==
  ASSUME NEW ledger \in LedgerStates, NEW k \in Identities, NEW reservations,
         ChargedTo(reservations, k) = {}
  PROVE  EntryCovers(ledger, reservations, k)
<1>1. Cardinality({}) = 0
  BY FS_EmptySet
<1>2. SumFunctionOnSet([r \in Requests |-> EntryCostOf(reservations[r])], {}) = 0
  BY SumOfNone
<1>3. ledger.use[k].spend \in Nat /\ ledger.use[k].requests \in Nat
  BY DEF LedgerStates, Counters
<1>4. QED
  BY <1>1, <1>2, <1>3 DEF EntryCovers

\* Two ledgers that agree on a wallet cover the same reservations of it.
LEMMA EntrySame ==
  ASSUME NEW ledger, NEW next, NEW k, NEW reservations,
         next.use[k] = ledger.use[k], EntryCovers(ledger, reservations, k)
  PROVE  EntryCovers(next, reservations, k)
BY DEF EntryCovers

\* Two ledgers that agree on the provider cover, and match, the same grants.
LEMMA ProviderSame ==
  ASSUME NEW ledger, NEW next, NEW reservations,
         next.provider = ledger.provider, next.window = ledger.window
  PROVE  /\ Covers(ledger, reservations) => Covers(next, reservations)
         /\ Matches(ledger, reservations) => Matches(next, reservations)
BY DEF Covers, Matches

-----------------------------------------------------------------------------
(* Grants and the writes they wait for *)

Open == {r \in Requests : resv[r].status \in GrantedStatuses \union {"reserving"}}

\* At most one report waits for a write, and then a settlement is what is written.
OneSettlement ==
  /\ \A r \in Requests : resv[r].status = "settling" => op.kind = "settle"
  /\ \A r, q \in Requests : resv[r].status = "settling" /\ resv[q].status = "settling" => r = q

\* A renamed write is on the disk; no write takes the ledger back to an earlier day; and what a
\* reservation is about to write keeps to the budget.
WritesMoveOn ==
  /\ op.renamed => disk = op.next
  /\ op # Idle => op.next.window >= mem.window /\ op.next.window >= 1
  /\ \A r \in Requests :
       resv[r].status = "reserving" => op.next.provider.spend <= ProviderDailyBudget

\* No grant is for a day that the ledgers have not reached.
GrantsAreReached ==
  \A r \in Granted : /\ resv[r].window >= 1 /\ resv[r].window <= disk.window
                     /\ phase # "down" => resv[r].window <= mem.window

OpenInv == IsFiniteSet(Open) /\ OneSettlement /\ WritesMoveOn /\ GrantsAreReached

LEMMA InitOpen == Init => OpenInv
<1> SUFFICES ASSUME Init PROVE OpenInv
  OBVIOUS
<1>1. \A r \in Requests : resv[r].status = "new"
  BY DEF Init, NewReservation
<1>2. op = Idle /\ ~op.renamed
  BY DEF Init, Idle
<1>3. Open = {} /\ Granted = {}
  BY <1>1 DEF Open, Granted, GrantedStatuses
<1>4. IsFiniteSet(Open)
  BY <1>3, FS_EmptySet
<1>5. QED
  BY <1>1, <1>2, <1>3, <1>4 DEF OpenInv, OneSettlement, WritesMoveOn, GrantsAreReached

\* Every step opens at most one reservation.
LEMMA OpenStaysFinite ==
  ASSUME IsFiniteSet(Open), NEW r,
         \A q \in Requests \ {r} : q \in Open' => q \in Open
  PROVE  IsFiniteSet(Open')
<1>1. Open' \subseteq Open \union {r}
  BY DEF Open
<1>2. IsFiniteSet(Open \union {r})
  BY FS_AddElement
<1>3. QED
  BY <1>1, <1>2, FS_Subset

\* A step that ends reservations, and writes nothing.
LEMMA QuietOpen ==
  ASSUME OpenInv, UNCHANGED <<mem, disk, op>>, phase' # "down" => phase # "down",
         \A q \in Requests :
           \/ resv'[q] = resv[q]
           \/ /\ resv'[q].window = resv[q].window
              /\ resv'[q].status \notin {"reserving", "settling"}
              /\ resv'[q].status \in GrantedStatuses => resv[q].status \in GrantedStatuses
  PROVE  OpenInv'
<1>1. \A q \in Requests : (q \in Open' => q \in Open) /\ (q \in Granted' => q \in Granted)
  BY DEF Open, Granted, GrantedStatuses
<1>2. IsFiniteSet(Open')
  BY <1>1, OpenStaysFinite DEF OpenInv
<1>3. OneSettlement' /\ WritesMoveOn'
  BY DEF OpenInv, OneSettlement, WritesMoveOn
<1>4. GrantsAreReached'
  <2> SUFFICES ASSUME NEW r \in Granted'
               PROVE  /\ resv'[r].window >= 1 /\ resv'[r].window <= disk'.window
                      /\ phase' # "down" => resv'[r].window <= mem'.window
    BY DEF GrantsAreReached
  <2>1. r \in Granted /\ resv'[r].window = resv[r].window
    BY <1>1 DEF Granted
  <2>2. QED
    BY <2>1 DEF OpenInv, GrantsAreReached
<1>5. QED
  BY <1>2, <1>3, <1>4 DEF OpenInv

\* A write begins for a ledger of a day that is not past; it opens at most r.
LEMMA BeginOpen ==
  ASSUME OpenInv, TypeOK, NEW r, UNCHANGED <<mem, phase, disk>>, op' # Idle, ~op'.renamed, op = Idle,
         op'.next.window >= mem.window, op'.next.window >= 1,
         \A q \in Requests \ {r} : resv'[q] = resv[q] /\ resv[q].status \notin {"reserving", "settling"},
         r \in Requests =>
           /\ resv'[r].status \in GrantedStatuses =>
                resv[r].status \in GrantedStatuses /\ resv'[r].window = resv[r].window
           /\ resv'[r].status = "settling" => op'.kind = "settle"
           /\ resv'[r].status = "reserving" => op'.next.provider.spend <= ProviderDailyBudget
  PROVE  OpenInv'
<1>1. \A q \in Requests \ {r} : q \in Open' => q \in Open
  BY DEF Open
<1>2. IsFiniteSet(Open')
  BY <1>1, OpenStaysFinite DEF OpenInv
<1>3. OneSettlement'
  BY DEF OneSettlement
<1>4. WritesMoveOn'
  BY DEF WritesMoveOn
<1>5. GrantsAreReached'
  <2> SUFFICES ASSUME NEW q \in Granted'
               PROVE  /\ resv'[q].window >= 1 /\ resv'[q].window <= disk'.window
                      /\ phase' # "down" => resv'[q].window <= mem'.window
    BY DEF GrantsAreReached
  <2>1. q \in Granted /\ resv'[q].window = resv[q].window
    BY DEF Granted
  <2>2. QED
    BY <2>1 DEF OpenInv, GrantsAreReached
<1>6. QED
  BY <1>2, <1>3, <1>4, <1>5 DEF OpenInv

\* A write is published.  What waited for it is granted for the day of the ledger.
LEMMA PublishOpen ==
  ASSUME OpenInv, TypeOK, op.renamed, op # Idle, mem' = op.next, op' = Idle, UNCHANGED disk, phase # "down",
         \A q \in Requests :
           /\ resv'[q].window = resv[q].window
           /\ resv'[q].status \notin {"reserving", "settling"}
           /\ resv'[q].status \in GrantedStatuses =>
                \/ resv[q].status \in GrantedStatuses
                \/ resv[q].status = "reserving" /\ resv[q].window = op.next.window
  PROVE  OpenInv'
<1>1. IsFiniteSet(Open')
  <2>1. \A q \in Requests : q \in Open' => q \in Open
    BY DEF Open, GrantedStatuses
  <2>2. QED
    BY <2>1, OpenStaysFinite DEF OpenInv
<1>2. OneSettlement'
  BY DEF OneSettlement
<1>3. WritesMoveOn'
  BY DEF WritesMoveOn, Idle
<1>4. GrantsAreReached'
  <2> SUFFICES ASSUME NEW q \in Granted'
               PROVE  /\ resv'[q].window >= 1 /\ resv'[q].window <= disk'.window
                      /\ phase' # "down" => resv'[q].window <= mem'.window
    BY DEF GrantsAreReached
  <2>1. /\ q \in Requests /\ resv'[q].window = resv[q].window
        /\ q \in Granted \/ resv[q].window = op.next.window
    BY DEF Granted
  <2>2. /\ disk' = op.next /\ mem' = op.next /\ op.next.window >= mem.window /\ op.next.window >= 1
        /\ op.next.window \in Nat /\ mem.window \in Nat /\ resv[q].window \in Nat
    BY <2>1 DEF OpenInv, WritesMoveOn, TypeOK, Ops, LedgerStates, Reservations
  <2>3. q \in Granted => resv[q].window >= 1 /\ resv[q].window <= mem.window
    BY DEF OpenInv, GrantsAreReached
  <2>4. QED
    BY <2>1, <2>2, <2>3
<1>5. QED
  BY <1>1, <1>2, <1>3, <1>4 DEF OpenInv

\* The write under way is given up: it failed, or the process is gone.
LEMMA GivenUpOpen ==
  ASSUME OpenInv, TypeOK, op' = Idle, UNCHANGED disk,
         phase' # "down" => mem' = mem /\ phase' = phase,
         \A q \in Requests :
           /\ resv'[q].window = resv[q].window
           /\ resv'[q].status \notin {"reserving", "settling"}
           /\ resv'[q].status \in GrantedStatuses => resv[q].status \in GrantedStatuses
  PROVE  OpenInv'
<1>1. IsFiniteSet(Open')
  <2>1. \A q \in Requests : q \in Open' => q \in Open
    BY DEF Open, GrantedStatuses
  <2>2. QED
    BY <2>1, OpenStaysFinite DEF OpenInv
<1>2. OneSettlement'
  BY DEF OneSettlement
<1>3. WritesMoveOn'
  BY DEF WritesMoveOn, Idle
<1>4. GrantsAreReached'
  <2> SUFFICES ASSUME NEW q \in Granted'
               PROVE  /\ resv'[q].window >= 1 /\ resv'[q].window <= disk'.window
                      /\ phase' # "down" => resv'[q].window <= mem'.window
    BY DEF GrantsAreReached
  <2>1. q \in Granted /\ resv'[q].window = resv[q].window
    BY DEF Granted
  <2>2. QED
    BY <2>1 DEF OpenInv, GrantsAreReached
<1>5. QED
  BY <1>1, <1>2, <1>3, <1>4 DEF OpenInv

-----------------------------------------------------------------------------
(* The kinds of step *)

\* What the reservations will be once the write of the next ledger is published.
OnceDone(now, next, reservations) ==
  [r \in Requests |->
     IF reservations[r].status = "reserving"
     THEN [reservations[r] EXCEPT !.status = "live", !.held = TRUE]
     ELSE IF reservations[r].status = "settling"
     THEN [reservations[r] EXCEPT !.status = "settled"]
     ELSE [reservations[r] EXCEPT !.held = @ /\ next.window = now.window
                                            /\ reservations[r].key \in next.tracked]]

Expected == OnceDone(mem, op.next, resv)

\* A charge stands in the entry of its wallet, in the ledger of its day.
HeldInv ==
  \A r \in Requests :
    resv[r].held =>
      /\ phase = "serving" /\ r \in Granted
      /\ resv[r].window = mem.window /\ resv[r].key \in mem.tracked

\* Requests end, or nothing happens that the ledgers show.
QuietStep ==
  /\ UNCHANGED <<mem, disk, op, crashes, writeFailures>>
  /\ phase' # phase => phase = "loading" /\ phase' = "serving" /\ resv' = resv
  /\ \A r \in Requests :
       \/ resv'[r] = resv[r]
       \/ resv[r].status = "new" /\ resv'[r] = [resv[r] EXCEPT !.status = "refused"]
       \/ resv[r].status = "live" /\ resv'[r] = [resv[r] EXCEPT !.status = "kept"]

\* A write begins that no request waits for: an empty day, or the ledger with fewer entries.
RenewStep ==
  /\ UNCHANGED <<mem, phase, disk, resv, crashes, writeFailures>>
  /\ op = Idle /\ op' # Idle /\ ~op'.renamed /\ phase # "down"
  /\ \/ mem.window # clock /\ op'.next = emptyState(clock)
     \/ \E gone : mem.window = clock /\ op'.next = Drop(mem, gone)

\* A process starts with the ledger it finds.
LoadStep ==
  /\ UNCHANGED <<disk, resv, crashes, writeFailures>>
  /\ phase = "down" /\ phase' = "loading" /\ mem' = disk
  /\ \/ op' = Idle
     \/ disk = NoState /\ op' = Write("create", emptyState(clock))

PublishStep ==
  /\ UNCHANGED <<disk, crashes, writeFailures>>
  /\ op # Idle /\ op.renamed /\ mem' = op.next /\ op' = Idle
  /\ phase # "down" /\ phase' # "down" /\ (phase = "serving" => phase' = "serving")
  /\ \A r \in Requests : resv[r].status = "reserving" => resv[r].window = op.next.window
  /\ resv' = Expected

\* The write under way is given up: it failed, or the process is gone.
GiveUpStep ==
  /\ op' = Idle /\ UNCHANGED disk /\ crashes' + writeFailures' > 0
  /\ \/ phase' = phase /\ mem' = mem
     \/ phase' = "down" /\ mem' = NoState /\ \A r \in Requests : ~resv'[r].held
  /\ \A r \in Requests :
       \E status \in Statuses, held \in BOOLEAN :
         /\ resv'[r] = [resv[r] EXCEPT !.status = status, !.held = held]
         /\ held => resv[r].held
         /\ status = CASE resv[r].status = "reserving" -> "refused"
                       [] resv[r].status = "settling" -> "uncertain"
                       [] resv[r].status = "live" /\ phase' = "down" -> "kept"
                       [] OTHER -> resv[r].status

LEMMA QuietSteps ==
  ASSUME TypeOK,
         \/ \E r \in Requests, k \in Identities, s \in Shapes : ReserveRefused(r, k, s)
         \/ \E r \in Requests, u \in Usages : SettleLate(r, u)
         \/ \E r \in Requests : EndsWithoutUsage(r)
         \/ Midnight
         \/ NothingToNormalize
         \/ UNCHANGED vars
  PROVE  QuietStep
<1>1. ASSUME NEW r \in Requests, NEW k \in Identities, NEW s \in Shapes, ReserveRefused(r, k, s)
      PROVE  QuietStep
  <2>1. /\ UNCHANGED <<mem, disk, op, crashes, writeFailures, phase>>
        /\ resv[r].status = "new" /\ resv' = [resv EXCEPT ![r].status = "refused"]
    BY <1>1 DEF ReserveRefused, process, faults
  <2>2. QED
    BY <2>1 DEF QuietStep, TypeOK
<1>2. ASSUME NEW r \in Requests, NEW u \in Usages, SettleLate(r, u)
      PROVE  QuietStep
  <2>1. /\ UNCHANGED <<mem, disk, op, crashes, writeFailures, phase>>
        /\ resv[r].status = "live" /\ resv' = [resv EXCEPT ![r].status = "kept"]
    BY <1>2 DEF SettleLate, process, faults
  <2>2. QED
    BY <2>1 DEF QuietStep, TypeOK
<1>3. ASSUME NEW r \in Requests, EndsWithoutUsage(r)
      PROVE  QuietStep
  <2>1. /\ UNCHANGED <<mem, disk, op, crashes, writeFailures, phase>>
        /\ resv[r].status = "live" /\ resv' = [resv EXCEPT ![r].status = "kept"]
    BY <1>3 DEF EndsWithoutUsage, process, faults
  <2>2. QED
    BY <2>1 DEF QuietStep, TypeOK
<1>4. CASE Midnight \/ UNCHANGED vars
  BY <1>4 DEF Midnight, vars, process, faults, QuietStep
<1>5. CASE NothingToNormalize
  BY <1>5 DEF NothingToNormalize, StartServing, faults, QuietStep
<1>6. QED
  BY <1>1, <1>2, <1>3, <1>4, <1>5

LEMMA RenewSteps ==
  ASSUME TypeOK, EntryInv, RotateBegin \/ NormalizeBegin
  PROVE  RenewStep
<1>1. CASE RotateBegin
  BY <1>1 DEF RotateBegin, Serving, RenewStep, Write, Idle, process, faults
<1>2. CASE NormalizeBegin
  <2>1. PICK next \in IF mem.window # clock THEN {emptyState(clock)} ELSE Trimmed(mem) :
          op' = Write("normalize", next)
    BY <1>2 DEF NormalizeBegin
  <2>2. /\ UNCHANGED <<mem, phase, disk, resv, crashes, writeFailures>>
        /\ op = Idle /\ phase # "down"
    BY <1>2 DEF NormalizeBegin, process, faults
  <2>3. op' # Idle /\ ~op'.renamed /\ op'.next = next
    BY <2>1 DEF Write, Idle
  <2>4. CASE mem.window # clock
    BY <2>1, <2>2, <2>3, <2>4 DEF RenewStep
  <2>5. CASE mem.window = clock
    <3>1. \E gone : next = Drop(mem, gone)
      BY <2>1, <2>5 DEF Trimmed
    <3>2. QED
      BY <2>2, <2>3, <2>5, <3>1 DEF RenewStep
  <2>6. QED
    BY <2>4, <2>5
<1>3. QED
  BY <1>1, <1>2

LEMMA LoadSteps ==
  ASSUME NEW c \in Capacities, Start(c)
  PROVE  LoadStep
BY DEF Start, LoadStep, faults

LEMMA GiveUpSteps ==
  ASSUME TypeOK, WriteFails \/ Crash \/ StartFails
  PROVE  GiveUpStep
<1>1. crashes \in Nat /\ writeFailures \in Nat
  BY DEF TypeOK
<1>2. CASE WriteFails
  <2>1. /\ op' = Idle /\ UNCHANGED <<disk, mem, phase>> /\ phase = "serving"
        /\ crashes' + writeFailures' > 0
    BY <1>1, <1>2 DEF WriteFails, process
  <2>2. ASSUME NEW r \in Requests
        PROVE  \E status \in Statuses, held \in BOOLEAN :
                 /\ resv'[r] = [resv[r] EXCEPT !.status = status, !.held = held]
                 /\ held => resv[r].held
                 /\ status = CASE resv[r].status = "reserving" -> "refused"
                               [] resv[r].status = "settling" -> "uncertain"
                               [] resv[r].status = "live" /\ phase' = "down" -> "kept"
                               [] OTHER -> resv[r].status
    <3>1. resv[r] \in Reservations
      BY DEF TypeOK
    <3>2. CASE resv[r].status = "reserving"
      <4>1. resv'[r] = [resv[r] EXCEPT !.status = "refused"]
        BY <1>2, <3>2 DEF WriteFails
      <4>2. resv'[r] = [resv[r] EXCEPT !.status = "refused", !.held = resv[r].held]
        BY <3>1, <4>1 DEF Reservations
      <4>3. QED
        BY <3>1, <3>2, <4>2 DEF Reservations, Statuses
    <3>3. CASE resv[r].status = "settling"
      <4>1. resv'[r] = [resv[r] EXCEPT !.status = "uncertain"]
        BY <1>2, <3>3 DEF WriteFails
      <4>2. resv'[r] = [resv[r] EXCEPT !.status = "uncertain", !.held = resv[r].held]
        BY <3>1, <4>1 DEF Reservations
      <4>3. QED
        BY <3>1, <3>3, <4>2 DEF Reservations, Statuses
    <3>4. CASE resv[r].status \notin {"reserving", "settling"}
      <4>1. resv'[r] = resv[r]
        BY <1>2, <3>4 DEF WriteFails
      <4>2. resv'[r] = [resv[r] EXCEPT !.status = resv[r].status, !.held = resv[r].held]
        BY <3>1, <4>1 DEF Reservations
      <4>3. resv[r].status \in Statuses /\ resv[r].held \in BOOLEAN
        BY <3>1 DEF Reservations
      <4>4. QED
        BY <2>1, <3>4, <4>2, <4>3
    <3>5. QED
      BY <3>2, <3>3, <3>4
  <2>3. QED
    BY <2>1, <2>2 DEF GiveUpStep
<1>3. CASE Crash \/ StartFails
  <2>1. /\ op' = Idle /\ UNCHANGED disk /\ phase' = "down" /\ mem' = NoState
        /\ crashes' + writeFailures' > 0
        /\ resv' = [r \in Requests |-> AfterCrash(resv[r])]
    BY <1>1, <1>3 DEF Crash, StartFails, Stopped
  <2>2. ASSUME NEW r \in Requests
        PROVE  \E status \in Statuses, held \in BOOLEAN :
                 /\ resv'[r] = [resv[r] EXCEPT !.status = status, !.held = held]
                 /\ held => resv[r].held
                 /\ status = CASE resv[r].status = "reserving" -> "refused"
                               [] resv[r].status = "settling" -> "uncertain"
                               [] resv[r].status = "live" /\ phase' = "down" -> "kept"
                               [] OTHER -> resv[r].status
    <3>1. resv[r] \in Reservations /\ resv'[r] = AfterCrash(resv[r])
      BY <2>1 DEF TypeOK
    <3>2. CASE resv[r].status = "reserving"
      <4>1. resv'[r] = [resv[r] EXCEPT !.status = "refused", !.held = FALSE]
        BY <3>1, <3>2 DEF AfterCrash
      <4>2. QED
        BY <3>1, <3>2, <4>1 DEF Reservations, Statuses
    <3>3. CASE resv[r].status = "settling"
      <4>1. resv'[r] = [resv[r] EXCEPT !.status = "uncertain", !.held = FALSE]
        BY <3>1, <3>3 DEF AfterCrash
      <4>2. QED
        BY <3>1, <3>3, <4>1 DEF Reservations, Statuses
    <3>4. CASE resv[r].status = "live"
      <4>1. resv'[r] = [resv[r] EXCEPT !.status = "kept", !.held = FALSE]
        BY <3>1, <3>4 DEF AfterCrash
      <4>2. QED
        BY <2>1, <3>1, <3>4, <4>1 DEF Reservations, Statuses
    <3>5. CASE resv[r].status \notin {"reserving", "settling", "live"}
      <4>1. resv'[r] = [resv[r] EXCEPT !.status = resv[r].status, !.held = FALSE]
        BY <3>1, <3>5 DEF AfterCrash
      <4>2. resv[r].status \in Statuses
        BY <3>1 DEF Reservations
      <4>3. QED
        BY <3>5, <4>1, <4>2
    <3>6. QED
      BY <3>2, <3>3, <3>4, <3>5
  <2>3. \A r \in Requests : ~resv'[r].held
    <3>1. ASSUME NEW r \in Requests PROVE ~resv'[r].held
      <4>1. resv[r] \in Reservations /\ resv'[r] = AfterCrash(resv[r])
        BY <2>1 DEF TypeOK
      <4>2. QED
        BY <4>1 DEF AfterCrash, Reservations
    <3>2. QED
      BY <3>1
  <2>4. QED
    BY <2>1, <2>2, <2>3 DEF GiveUpStep
<1>4. QED
  BY <1>2, <1>3

\* A write that is published gives the reservations the states that were expected of it.
LEMMA PublishSteps ==
  ASSUME TypeOK, EntryInv, OpenInv, HeldInv,
         \/ \E r \in Requests : PublishReserve(r) \/ PublishSettle(r)
         \/ PublishRotate \/ PublishCreate \/ PublishNormalize
  PROVE  PublishStep
<1>1. \A q \in Requests : resv[q] \in Reservations
  BY DEF TypeOK
<1>2. \A q \in Requests : resv[q].status = "reserving" => resv[q].window = op.next.window
  BY DEF EntryInv, ReservingInv
<1>3. ASSUME NEW kind, Published(kind), kind \in {"create", "normalize", "rotate", "reserve", "settle"}
      PROVE  /\ UNCHANGED <<disk, crashes, writeFailures>>
             /\ op # Idle /\ op.renamed /\ mem' = op.next /\ op' = Idle /\ phase # "down"
  BY <1>3 DEF Published, faults, Idle, EntryInv, OneWriter
<1>4. ASSUME NEW r \in Requests, PublishReserve(r)
      PROVE  PublishStep
  <2>1. \A q \in Requests : resv[q].status # "settling" /\ (resv[q].status = "reserving" => q = r)
    BY <1>4 DEF PublishReserve, Published, EntryInv, OneWriter, OpenInv, OneSettlement
  <2>2. HeldIn(op.next, resv)[r] = [resv[r] EXCEPT !.held = @ /\ op.next.window = mem.window
                                                              /\ resv[r].key \in op.next.tracked]
    BY DEF HeldIn
  <2>3. ASSUME NEW q \in Requests PROVE resv'[q] = Expected[q]
    <3>1. CASE q = r
      <4> DEFINE h == HeldIn(op.next, resv)
      <4>1. DOMAIN h = Requests
        BY DEF HeldIn
      <4>2. resv' = [h EXCEPT ![r].status = "live", ![r].held = TRUE]
        BY <1>4 DEF PublishReserve
      <4>3. h[r] \in Reservations
        BY HeldInType DEF TypeOK
      <4> HIDE DEF h
      <4>4. resv'[r] = [h[r] EXCEPT !.status = "live", !.held = TRUE]
        BY <4>1, <4>2
      <4>5. [h[r] EXCEPT !.status = "live", !.held = TRUE] = [resv[r] EXCEPT !.status = "live", !.held = TRUE]
        BY <1>1, <2>2, <4>3 DEF h, Reservations
      <4>6. resv[r].status = "reserving"
        BY <1>4 DEF PublishReserve
      <4>7. QED
        BY <3>1, <4>4, <4>5, <4>6 DEF Expected, OnceDone
    <3>2. CASE q # r
      <4>1. resv'[q] = HeldIn(op.next, resv)[q]
        BY <1>4, <3>2 DEF PublishReserve, HeldIn
      <4>2. QED
        BY <2>1, <3>2, <4>1 DEF HeldIn, Expected, OnceDone
    <3>3. QED
      BY <3>1, <3>2
  <2>4. resv' = Expected
    <3>1. resv' = [q \in Requests |-> resv'[q]]
      <4>1. resv' = [HeldIn(op.next, resv) EXCEPT ![r].status = "live", ![r].held = TRUE]
        BY <1>4 DEF PublishReserve
      <4>2. QED
        BY <4>1 DEF HeldIn
    <3>2. Expected = [q \in Requests |-> Expected[q]]
      BY DEF Expected, OnceDone
    <3>3. QED
      BY <2>3, <3>1, <3>2
  <2>5. phase' = phase
    BY <1>4 DEF PublishReserve, process
  <2>6. QED
    BY <1>2, <1>3, <1>4, <2>4, <2>5 DEF PublishReserve, PublishStep
<1>5. ASSUME NEW r \in Requests, PublishSettle(r)
      PROVE  PublishStep
  <2>1. \A q \in Requests : resv[q].status # "reserving" /\ (resv[q].status = "settling" => q = r)
    BY <1>5 DEF PublishSettle, Published, EntryInv, OneWriter, OpenInv, OneSettlement
  <2>2. op.next.window = mem.window /\ op.next.tracked = mem.tracked
    BY <1>5 DEF PublishSettle, Published, EntryInv, WindowsGrow
  <2>3. /\ resv' = [resv EXCEPT ![r].status = "settled"] /\ resv[r].status = "settling" /\ phase' = phase
    BY <1>5 DEF PublishSettle, process
  <2>4. ASSUME NEW q \in Requests PROVE resv'[q] = Expected[q]
    <3>1. CASE q = r
      BY <2>3, <3>1 DEF Expected, OnceDone, TypeOK
    <3>2. CASE q # r
      <4>1. Expected[q] = [resv[q] EXCEPT !.held = @ /\ op.next.window = mem.window
                                                     /\ resv[q].key \in op.next.tracked]
        BY <2>1, <3>2 DEF Expected, OnceDone
      <4>2. (resv[q].held /\ op.next.window = mem.window /\ resv[q].key \in op.next.tracked) = resv[q].held
        BY <1>1, <2>2 DEF HeldInv, Reservations
      <4>3. Expected[q] = [resv[q] EXCEPT !.held = resv[q].held]
        BY <4>1, <4>2
      <4>4. QED
        BY <1>1, <2>3, <3>2, <4>3 DEF Reservations
    <3>3. QED
      BY <3>1, <3>2
  <2>5. resv' = Expected
    <3>1. resv' = [q \in Requests |-> resv'[q]]
      BY <2>3 DEF TypeOK
    <3>2. Expected = [q \in Requests |-> Expected[q]]
      BY DEF Expected, OnceDone
    <3>3. QED
      BY <2>4, <3>1, <3>2
  <2>6. QED
    BY <1>2, <1>3, <1>5, <2>3, <2>5 DEF PublishSettle, PublishStep
<1>6. CASE PublishRotate
  <2>1. \A q \in Requests : resv[q].status \notin {"reserving", "settling"}
    BY <1>6 DEF PublishRotate, Published, EntryInv, OneWriter, OpenInv, OneSettlement
  <2>2. resv' = Expected
    BY <1>6, <2>1 DEF PublishRotate, HeldIn, Expected, OnceDone
  <2>3. phase' = phase
    BY <1>6 DEF PublishRotate, process
  <2>4. QED
    BY <1>2, <1>3, <1>6, <2>2, <2>3 DEF PublishRotate, PublishStep
<1>7. CASE PublishCreate \/ PublishNormalize
  <2>1. /\ Published("create") \/ Published("normalize")
        /\ phase' = phase \/ phase' = "serving"
    BY <1>7 DEF PublishCreate, PublishNormalize, StartServing, process
  <2>2. resv' = resv
    BY <1>7 DEF PublishCreate, PublishNormalize, StartServing
  <2>3. phase = "loading" /\ \A q \in Requests : resv[q].status \notin {"reserving", "settling"}
    BY <2>1 DEF Published, EntryInv, OneWriter, OpenInv, OneSettlement
  <2>4. \A q \in Requests : Expected[q] = resv[q]
    <3> SUFFICES ASSUME NEW q \in Requests PROVE Expected[q] = resv[q]
      OBVIOUS
    <3>1. Expected[q] = [resv[q] EXCEPT !.held = @ /\ op.next.window = mem.window
                                                   /\ resv[q].key \in op.next.tracked]
      BY <2>3 DEF Expected, OnceDone
    <3>2. (resv[q].held /\ op.next.window = mem.window /\ resv[q].key \in op.next.tracked) = resv[q].held
      BY <1>1, <2>3 DEF HeldInv, Reservations
    <3>3. Expected[q] = [resv[q] EXCEPT !.held = resv[q].held]
      BY <3>1, <3>2
    <3>4. QED
      BY <1>1, <3>3 DEF Reservations
  <2>5. resv' = Expected
    <3>1. Expected = [q \in Requests |-> Expected[q]]
      BY DEF Expected, OnceDone
    <3>2. resv = [q \in Requests |-> resv[q]]
      BY DEF TypeOK
    <3>3. QED
      BY <2>2, <2>4, <3>1, <3>2
  <2>6. /\ UNCHANGED <<disk, crashes, writeFailures>>
        /\ op # Idle /\ op.renamed /\ mem' = op.next /\ op' = Idle /\ phase # "down"
    BY <1>3, <2>1
  <2>7. QED
    <3>1. phase' # "down" /\ phase # "serving"
      BY <1>7, <2>3, <2>6 DEF PublishCreate, PublishNormalize, StartServing, process
    <3>2. QED
      BY <1>2, <2>5, <2>6, <3>1 DEF PublishStep
<1>8. QED
  BY <1>4, <1>5, <1>6, <1>7

\* What a reservation is about to write.
ReserveStep(r, k, res, victims) ==
  /\ UNCHANGED <<mem, phase, disk, crashes, writeFailures>>
  /\ phase = "serving" /\ op = Idle
  /\ res \in Reservations /\ res.status = "reserving" /\ res.key = k /\ res.window = clock /\ ~res.held
  /\ resv[r].status = "new" /\ resv' = [resv EXCEPT ![r] = res]
  /\ victims \subseteq SourceState.tracked /\ k \notin victims
  /\ op'.kind = "reserve" /\ op' # Idle /\ ~op'.renamed /\ op'.next \in LedgerStates
  /\ op'.next = Charged(Drop(SourceState, victims), k, res)
  /\ op'.next.provider.spend <= ProviderDailyBudget

LEMMA ReserveSteps ==
  ASSUME TypeOK, NEW r \in Requests, NEW k \in Identities, NEW s \in Shapes, ReserveBegin(r, k, s)
  PROVE  \E res, victims : ReserveStep(r, k, res, victims)
<1> DEFINE symbol == IF k \in SourceState.tracked THEN admissions[k] ELSE fresh
           res == Reserving(k, s, symbol)
<1>1. PICK victims \in Victims(SourceState, k) :
        op' = Write("reserve", Charged(Drop(SourceState, victims), k, res))
  BY DEF ReserveBegin
<1>2. res \in Reservations
  BY ReservingType DEF TypeOK
<1>3. res.status = "reserving" /\ res.key = k /\ res.window = clock /\ ~res.held
  BY DEF Reserving
<1>4. victims \subseteq SourceState.tracked /\ k \notin victims
  BY DEF Victims, LeastUsed
<1>5. Charged(Drop(SourceState, victims), k, res) \in LedgerStates
  BY <1>2, SourceStateType, DropType, ChargedType
<1>6. /\ op'.kind = "reserve" /\ op' # Idle /\ ~op'.renamed
      /\ op'.next = Charged(Drop(SourceState, victims), k, res)
  BY <1>1 DEF Write, Idle
<1>7. op'.next.provider.spend <= ProviderDailyBudget
  BY ReserveBeginBudget
<1>8. /\ UNCHANGED <<mem, phase, disk, crashes, writeFailures>>
      /\ phase = "serving" /\ op = Idle
      /\ resv[r].status = "new" /\ resv' = [resv EXCEPT ![r] = res]
  BY DEF ReserveBegin, Serving, process, faults
<1>9. ReserveStep(r, k, res, victims)
  BY <1>2, <1>3, <1>4, <1>5, <1>6, <1>7, <1>8 DEF ReserveStep
<1>10. QED
  BY <1>9

\* What a report is about to write, and what it leaves when it cannot be taken off.
SettleStep(r, res) ==
  /\ UNCHANGED <<mem, phase, disk, crashes, writeFailures>>
  /\ phase = "serving" /\ op = Idle
  /\ resv[r].status = "live" /\ mem.window = resv[r].window
  /\ res \in Reservations
  /\ \E actualTokens, actualSpend \in Nat :
       res = [resv[r] EXCEPT !.actualTokens = actualTokens, !.actualSpend = actualSpend]
  /\ \/ op' = op /\ resv' = [resv EXCEPT ![r] = [res EXCEPT !.status = "uncertain"]]
     \/ /\ ~SettleUnderflows(res)
        /\ op'.kind = "settle" /\ op' # Idle /\ ~op'.renamed
        /\ op'.next = SettledState(res) /\ op'.next \in LedgerStates
        /\ resv' = [resv EXCEPT ![r] = [res EXCEPT !.status = "settling"]]

LEMMA SettleSteps ==
  ASSUME TypeOK, NEW r \in Requests, NEW u \in Usages, SettleBegin(r, u)
  PROVE  SettleStep(r, Reported(resv[r], u))
<1> DEFINE res == Reported(resv[r], u)
<1>1. res \in Reservations
  BY ReportedType DEF TypeOK
<1>2. /\ UNCHANGED <<mem, phase, disk, crashes, writeFailures>>
      /\ phase = "serving" /\ op = Idle
      /\ resv[r].status = "live" /\ mem.window = resv[r].window
  BY DEF SettleBegin, Serving, process, faults
<1>3. \E actualTokens, actualSpend \in Nat :
        res = [resv[r] EXCEPT !.actualTokens = actualTokens, !.actualSpend = actualSpend]
  <2>1. u.input + u.output \in Nat
    BY UsagesAssumption
  <2>2. ReportedSpend(u) \in Nat
    BY UsagesAssumption, EstimateNat DEF ReportedSpend
  <2>3. QED
    BY <2>1, <2>2 DEF Reported
<1>4. CASE SettleUnderflows(res)
  <2>1. op' = op /\ resv' = [resv EXCEPT ![r] = [res EXCEPT !.status = "uncertain"]]
    BY <1>4 DEF SettleBegin
  <2>2. QED
    BY <1>1, <1>2, <1>3, <2>1 DEF SettleStep
<1>5. CASE ~SettleUnderflows(res)
  <2>1. /\ op'.kind = "settle" /\ op' # Idle /\ ~op'.renamed /\ op'.next = SettledState(res)
        /\ resv' = [resv EXCEPT ![r] = [res EXCEPT !.status = "settling"]]
    BY <1>5 DEF SettleBegin, Write, Idle
  <2>2. op'.next \in LedgerStates
    BY <1>1, <1>5, <2>1, SettledStateType
  <2>3. QED
    BY <1>1, <1>2, <1>3, <1>5, <2>1, <2>2 DEF SettleStep
<1>6. QED
  BY <1>4, <1>5

\* Every step is one of these.
SomeStep ==
  \/ QuietStep \/ RenewStep \/ LoadStep \/ PublishStep \/ GiveUpStep \/ Rename
  \/ \E r \in Requests, k \in Identities : \E res, victims : ReserveStep(r, k, res, victims)
  \/ \E r \in Requests : \E res : SettleStep(r, res)

\* The actions of Next fall into these eight kinds.
LEMMA EveryStep ==
  ASSUME TypeOK, EntryInv, OpenInv, HeldInv, [Next]_vars
  PROVE  SomeStep
<1>1. ASSUME NEW r \in Requests, NEW k \in Identities, NEW s \in Shapes, ReserveBegin(r, k, s)
      PROVE  SomeStep
  BY <1>1, ReserveSteps DEF SomeStep
<1>2. ASSUME NEW r \in Requests, NEW u \in Usages, SettleBegin(r, u)
      PROVE  SomeStep
  BY <1>2, SettleSteps DEF SomeStep
<1>3. ASSUME \/ \E r \in Requests, k \in Identities, s \in Shapes : ReserveRefused(r, k, s)
             \/ \E r \in Requests, u \in Usages : SettleLate(r, u)
             \/ \E r \in Requests : EndsWithoutUsage(r)
             \/ Midnight
             \/ NothingToNormalize
             \/ UNCHANGED vars
      PROVE  SomeStep
  BY <1>3, QuietSteps DEF SomeStep
<1>4. ASSUME \/ \E r \in Requests : PublishReserve(r) \/ PublishSettle(r)
             \/ PublishRotate \/ PublishCreate \/ PublishNormalize
      PROVE  SomeStep
  BY <1>4, PublishSteps DEF SomeStep
<1>5. CASE RotateBegin \/ NormalizeBegin
  BY <1>5, RenewSteps DEF SomeStep
<1>6. ASSUME NEW c \in Capacities, Start(c)
      PROVE  SomeStep
  BY <1>6, LoadSteps DEF SomeStep
<1>7. CASE WriteFails \/ Crash \/ StartFails
  BY <1>7, GiveUpSteps DEF SomeStep
<1>8. CASE Rename
  BY <1>8 DEF SomeStep
<1>9. QED
  BY <1>1, <1>2, <1>3, <1>4, <1>5, <1>6, <1>7, <1>8 DEF Next

\* Nothing waits for a write when the lock is free, or while the process is down.
LEMMA NoneWaits ==
  ASSUME EntryInv, OpenInv, op = Idle \/ phase = "down"
  PROVE  \A q \in Requests : resv[q].status \notin {"reserving", "settling"}
<1>1. op = Idle
  BY DEF EntryInv, OneWriter
<1>2. QED
  BY <1>1 DEF EntryInv, OneWriter, OpenInv, OneSettlement, Idle

LEMMA NextOpen ==
  ASSUME TypeOK, EntryInv, OpenInv, HeldInv, SomeStep
  PROVE  OpenInv'
<1>1. \A q \in Requests : resv[q] \in Reservations
  BY DEF TypeOK
<1>2. clock \in Nat /\ clock >= 1 /\ mem.window \in Nat /\ mem.window <= clock /\ disk.window \in Nat
  BY DEF TypeOK, LedgerStates, EntryInv, WindowsGrow
<1>3. CASE QuietStep
  <2>1. \A q \in Requests :
          \/ resv'[q] = resv[q]
          \/ /\ resv'[q].window = resv[q].window
             /\ resv'[q].status \notin {"reserving", "settling"}
             /\ resv'[q].status \in GrantedStatuses => resv[q].status \in GrantedStatuses
    <3> TAKE q \in Requests
    <3>1. resv'[q] = resv[q] \/ \E status \in {"refused", "kept"} :
            /\ resv'[q] = [resv[q] EXCEPT !.status = status]
            /\ status = "kept" => resv[q].status = "live"
      BY <1>3 DEF QuietStep
    <3>2. ASSUME NEW status, resv'[q] = [resv[q] EXCEPT !.status = status]
          PROVE  resv'[q].status = status /\ resv'[q].window = resv[q].window
      BY <1>1, <3>2 DEF Reservations
    <3>3. QED
      BY <3>1, <3>2 DEF GrantedStatuses
  <2>2. UNCHANGED <<mem, disk, op>> /\ (phase' # "down" => phase # "down")
    BY <1>3 DEF QuietStep
  <2>3. QED
    BY <2>1, <2>2, QuietOpen
<1>4. CASE RenewStep
  <2>1. op'.next.window >= mem.window /\ op'.next.window >= 1
    <3>1. op'.next.window = clock
      <4>1. CASE op'.next = emptyState(clock)
        BY <4>1 DEF emptyState
      <4>2. ASSUME NEW gone, mem.window = clock, op'.next = Drop(mem, gone)
            PROVE  op'.next.window = clock
        BY <4>2 DEF Drop
      <4>3. QED
        BY <1>4, <4>1, <4>2 DEF RenewStep
    <3>2. QED
      BY <1>2, <3>1
  <2>2. /\ UNCHANGED <<mem, phase, disk, resv>> /\ op = Idle /\ op' # Idle /\ ~op'.renamed
    BY <1>4 DEF RenewStep
  <2>3. \A q \in Requests : resv[q].status \notin {"reserving", "settling"}
    BY <2>2, NoneWaits
  <2>4. \A r : r \in Requests =>
          /\ resv'[r].status \in GrantedStatuses =>
               resv[r].status \in GrantedStatuses /\ resv'[r].window = resv[r].window
          /\ resv'[r].status = "settling" => op'.kind = "settle"
          /\ resv'[r].status = "reserving" => op'.next.provider.spend <= ProviderDailyBudget
    BY <2>2, <2>3
  <2>5. QED
    BY <2>1, <2>2, <2>3, <2>4, BeginOpen
<1>5. CASE LoadStep
  <2>1. /\ resv' = resv /\ disk' = disk /\ mem' = disk /\ phase = "down"
        /\ \/ op' = Idle
           \/ disk = NoState /\ op' = Write("create", emptyState(clock))
    BY <1>5 DEF LoadStep
  <2>2. \A q \in Requests : resv[q].status \notin {"reserving", "settling"}
    BY <2>1, NoneWaits
  <2>3. /\ ~op'.renamed
        /\ op' # Idle => op'.next.window >= mem'.window /\ op'.next.window >= 1
    BY <1>2, <2>1 DEF Idle, Write, emptyState, NoState
  <2>4. OneSettlement' /\ WritesMoveOn'
    BY <2>1, <2>2, <2>3 DEF OneSettlement, WritesMoveOn
  <2>5. GrantsAreReached'
    BY <2>1 DEF OpenInv, GrantsAreReached, Granted
  <2>6. IsFiniteSet(Open')
    BY <2>1 DEF OpenInv, Open
  <2>7. QED
    BY <2>4, <2>5, <2>6 DEF OpenInv
<1>6. CASE PublishStep
  <2>1. \A q \in Requests :
          /\ resv'[q].window = resv[q].window
          /\ resv'[q].status = IF resv[q].status = "reserving" THEN "live"
                               ELSE IF resv[q].status = "settling" THEN "settled"
                               ELSE resv[q].status
    BY <1>1, <1>6 DEF PublishStep, Expected, OnceDone, Reservations
  <2>2. \A q \in Requests :
          /\ resv'[q].window = resv[q].window
          /\ resv'[q].status \notin {"reserving", "settling"}
          /\ resv'[q].status \in GrantedStatuses =>
               \/ resv[q].status \in GrantedStatuses
               \/ resv[q].status = "reserving" /\ resv[q].window = op.next.window
    BY <1>6, <2>1 DEF PublishStep, GrantedStatuses
  <2>3. op.renamed /\ op # Idle /\ mem' = op.next /\ op' = Idle /\ UNCHANGED disk /\ phase # "down"
    BY <1>6 DEF PublishStep
  <2>4. QED
    BY <2>2, <2>3, PublishOpen
<1>7. CASE GiveUpStep
  <2>1. ASSUME NEW q \in Requests
        PROVE  /\ resv'[q].window = resv[q].window
               /\ resv'[q].status \notin {"reserving", "settling"}
               /\ resv'[q].status \in GrantedStatuses => resv[q].status \in GrantedStatuses
    <3>1. PICK status \in Statuses, held \in BOOLEAN :
            /\ resv'[q] = [resv[q] EXCEPT !.status = status, !.held = held]
            /\ status = CASE resv[q].status = "reserving" -> "refused"
                          [] resv[q].status = "settling" -> "uncertain"
                          [] resv[q].status = "live" /\ phase' = "down" -> "kept"
                          [] OTHER -> resv[q].status
      BY <1>7 DEF GiveUpStep
    <3>2. resv'[q].window = resv[q].window /\ resv'[q].status = status
      BY <1>1, <3>1 DEF Reservations
    <3>3. /\ resv[q].status = "reserving" => status = "refused"
          /\ resv[q].status = "settling" => status = "uncertain"
          /\ resv[q].status \notin {"reserving", "settling", "live"} => status = resv[q].status
          /\ resv[q].status = "live" => status \in {"live", "kept"}
      BY <3>1
    <3>4. QED
      BY <3>2, <3>3 DEF GrantedStatuses
  <2>2. /\ op' = Idle /\ UNCHANGED disk
        /\ phase' # "down" => mem' = mem /\ phase' = phase
    BY <1>7 DEF GiveUpStep
  <2>3. QED
    BY <2>1, <2>2, GivenUpOpen
<1>8. CASE Rename
  <2>1. /\ op # Idle /\ ~op.renamed /\ disk' = op.next /\ op' = [op EXCEPT !.renamed = TRUE]
        /\ UNCHANGED <<mem, resv, phase>>
    BY <1>8 DEF Rename, process
  <2>2. op'.renamed /\ op'.next = op.next /\ op'.kind = op.kind
    BY <2>1 DEF TypeOK, Ops
  <2>3. OneSettlement' /\ WritesMoveOn'
    BY <2>1, <2>2 DEF OpenInv, OneSettlement, WritesMoveOn
  <2>4. GrantsAreReached'
    <3> SUFFICES ASSUME NEW q \in Granted'
                 PROVE  /\ resv'[q].window >= 1 /\ resv'[q].window <= disk'.window
                        /\ phase' # "down" => resv'[q].window <= mem'.window
      BY DEF GrantsAreReached
    <3>1. q \in Granted /\ resv'[q] = resv[q] /\ resv[q] \in Reservations
      BY <1>1, <2>1 DEF Granted
    <3>2. phase # "down" /\ op.next.window >= mem.window /\ op.next.window \in Nat
      BY <2>1 DEF EntryInv, OneWriter, OpenInv, WritesMoveOn, TypeOK, Ops, LedgerStates
    <3>3. resv[q].window >= 1 /\ resv[q].window <= mem.window /\ resv[q].window \in Nat
      BY <3>1, <3>2 DEF OpenInv, GrantsAreReached, Reservations
    <3>4. QED
      BY <1>2, <2>1, <3>1, <3>2, <3>3
  <2>5. IsFiniteSet(Open')
    BY <2>1 DEF OpenInv, Open
  <2>6. QED
    BY <2>3, <2>4, <2>5 DEF OpenInv
<1>9. ASSUME NEW r \in Requests, NEW k \in Identities, NEW res, NEW victims,
             ReserveStep(r, k, res, victims)
      PROVE  OpenInv'
  <2>1. /\ UNCHANGED <<mem, phase, disk>> /\ op = Idle /\ op' # Idle /\ ~op'.renamed
        /\ res.status = "reserving" /\ op'.next.provider.spend <= ProviderDailyBudget
        /\ resv' = [resv EXCEPT ![r] = res]
    BY <1>9 DEF ReserveStep
  <2>2. op'.next.window = clock
    BY <1>9 DEF ReserveStep, Charged, Drop, SourceState, emptyState
  <2>3. \A q \in Requests : resv[q].status \notin {"reserving", "settling"}
    BY <2>1, NoneWaits
  <2>4. op'.next.window >= mem.window /\ op'.next.window >= 1
    BY <1>2, <2>2
  <2>5. /\ \A q \in Requests \ {r} : resv'[q] = resv[q]
        /\ resv'[r].status = "reserving"
    BY <2>1 DEF TypeOK
  <2>6. QED
    BY <2>1, <2>3, <2>4, <2>5, BeginOpen DEF GrantedStatuses
<1>10. ASSUME NEW r \in Requests, NEW res, SettleStep(r, res)
       PROVE  OpenInv'
  <2>1. /\ UNCHANGED <<mem, phase, disk>> /\ op = Idle
        /\ resv[r].status = "live" /\ mem.window = resv[r].window
    BY <1>10 DEF SettleStep
  <2>2. res \in Reservations /\ res.window = resv[r].window
    BY <1>1, <1>10 DEF SettleStep, Reservations
  <2>3. CASE op' = op /\ resv' = [resv EXCEPT ![r] = [res EXCEPT !.status = "uncertain"]]
    <3>1. \A q \in Requests :
            \/ resv'[q] = resv[q]
            \/ /\ resv'[q].window = resv[q].window
               /\ resv'[q].status \notin {"reserving", "settling"}
               /\ resv'[q].status \in GrantedStatuses => resv[q].status \in GrantedStatuses
      BY <1>1, <2>1, <2>2, <2>3 DEF Reservations, GrantedStatuses, TypeOK
    <3>2. QED
      BY <2>1, <2>3, <3>1, QuietOpen
  <2>4. CASE /\ op'.kind = "settle" /\ op' # Idle /\ ~op'.renamed /\ op'.next = SettledState(res)
             /\ resv' = [resv EXCEPT ![r] = [res EXCEPT !.status = "settling"]]
    <3>1. \A q \in Requests : resv[q].status \notin {"reserving", "settling"}
      BY <2>1, NoneWaits
    <3>2. op'.next.window >= mem.window /\ op'.next.window >= 1
      <4>1. op'.next.window = mem.window
        BY <2>4 DEF SettledState
      <4>2. resv[r].window >= 1
        BY <2>1 DEF OpenInv, GrantsAreReached, Granted, GrantedStatuses
      <4>3. QED
        BY <1>2, <2>1, <4>1, <4>2
    <3>3. /\ \A q \in Requests \ {r} : resv'[q] = resv[q]
          /\ resv'[r].status = "settling" /\ resv'[r].window = resv[r].window
      BY <2>2, <2>4 DEF TypeOK, Reservations
    <3>4. QED
      BY <2>1, <2>4, <3>1, <3>2, <3>3, BeginOpen DEF GrantedStatuses
  <2>5. QED
    BY <1>10, <2>3, <2>4 DEF SettleStep
<1>11. QED
  BY <1>3, <1>4, <1>5, <1>6, <1>7, <1>8, <1>9, <1>10 DEF SomeStep

LEMMA InitHeld == Init => HeldInv
BY DEF Init, NewReservation, HeldInv

LEMMA NextHeld ==
  ASSUME TypeOK, EntryInv, OpenInv, HeldInv, SomeStep
  PROVE  HeldInv'
<1> SUFFICES ASSUME NEW q \in Requests, resv'[q].held
             PROVE  /\ phase' = "serving" /\ q \in Granted'
                    /\ resv'[q].window = mem'.window /\ resv'[q].key \in mem'.tracked
  BY DEF HeldInv
<1>1. resv[q] \in Reservations
  BY DEF TypeOK
<1>2. resv[q].held => /\ phase = "serving" /\ resv[q].status \in GrantedStatuses
                      /\ resv[q].window = mem.window /\ resv[q].key \in mem.tracked
  BY DEF HeldInv, Granted
<1>3. CASE QuietStep
  <2>1. /\ resv[q].held /\ resv'[q].window = resv[q].window /\ resv'[q].key = resv[q].key
        /\ resv[q].status \in GrantedStatuses => resv'[q].status \in GrantedStatuses
    <3>1. ASSUME NEW st, resv'[q] = [resv[q] EXCEPT !.status = st]
          PROVE  /\ resv'[q].held = resv[q].held /\ resv'[q].window = resv[q].window
                 /\ resv'[q].key = resv[q].key /\ resv'[q].status = st
      BY <1>1, <3>1 DEF Reservations
    <3>2. \/ resv'[q] = resv[q]
          \/ resv[q].status = "new" /\ resv'[q] = [resv[q] EXCEPT !.status = "refused"]
          \/ resv[q].status = "live" /\ resv'[q] = [resv[q] EXCEPT !.status = "kept"]
      BY <1>3 DEF QuietStep
    <3>3. QED
      BY <3>1, <3>2 DEF GrantedStatuses
  <2>2. mem' = mem /\ (phase = "serving" => phase' = "serving")
    BY <1>3 DEF QuietStep
  <2>3. QED
    BY <1>2, <2>1, <2>2 DEF Granted
<1>4. CASE RenewStep \/ Rename
  <2>1. UNCHANGED <<resv, mem, phase>>
    BY <1>4 DEF RenewStep, Rename, process
  <2>2. QED
    BY <1>2, <2>1 DEF Granted
<1>5. CASE LoadStep
  BY <1>2, <1>5 DEF LoadStep
<1>6. CASE PublishStep
  <2>1. mem' = op.next /\ resv'[q] = Expected[q]
    BY <1>6 DEF PublishStep
  <2>2. CASE resv[q].status = "reserving"
    <3>1. resv'[q] = [resv[q] EXCEPT !.status = "live", !.held = TRUE]
      BY <2>1, <2>2 DEF Expected, OnceDone
    <3>2. resv'[q].status = "live" /\ resv'[q].window = resv[q].window /\ resv'[q].key = resv[q].key
      BY <1>1, <3>1 DEF Reservations
    <3>3. resv[q].window = op.next.window /\ resv[q].key \in op.next.tracked
      BY <2>2 DEF EntryInv, ReservingInv
    <3>4. op.kind = "reserve" /\ phase = "serving"
      BY <2>2 DEF EntryInv, OneWriter
    <3>5. QED
      BY <1>6, <2>1, <3>2, <3>3, <3>4 DEF Granted, GrantedStatuses, PublishStep
  <2>3. CASE resv[q].status = "settling"
    <3>1. resv'[q] = [resv[q] EXCEPT !.status = "settled"]
      BY <2>1, <2>3 DEF Expected, OnceDone
    <3>2. /\ resv'[q].status = "settled" /\ resv'[q].window = resv[q].window
          /\ resv'[q].key = resv[q].key /\ resv[q].held
      BY <1>1, <3>1 DEF Reservations
    <3>3. op.next.window = mem.window /\ op.next.tracked = mem.tracked
      BY <2>3 DEF OpenInv, OneSettlement, EntryInv, WindowsGrow
    <3>4. QED
      BY <1>2, <1>6, <2>1, <3>2, <3>3 DEF Granted, GrantedStatuses, PublishStep
  <2>4. CASE resv[q].status \notin {"reserving", "settling"}
    <3>1. resv'[q] = [resv[q] EXCEPT !.held = @ /\ op.next.window = mem.window
                                                /\ resv[q].key \in op.next.tracked]
      BY <2>1, <2>4 DEF Expected, OnceDone
    <3>2. /\ resv'[q].status = resv[q].status /\ resv'[q].window = resv[q].window
          /\ resv'[q].key = resv[q].key
          /\ resv[q].held /\ op.next.window = mem.window /\ resv[q].key \in op.next.tracked
      <4>1. resv[q] \in Reservations
        BY <1>1
      <4>2. /\ resv'[q].status = resv[q].status /\ resv'[q].window = resv[q].window
            /\ resv'[q].key = resv[q].key
        BY <3>1, <4>1 DEF Reservations
      <4>3. resv'[q].held <=> /\ resv[q].held /\ op.next.window = mem.window
                              /\ resv[q].key \in op.next.tracked
        BY <3>1, <4>1 DEF Reservations
      <4>4. QED
        BY <2>1, <4>2, <4>3
    <3>3. QED
      BY <1>2, <1>6, <2>1, <3>2 DEF Granted, PublishStep
  <2>5. QED
    BY <2>2, <2>3, <2>4
<1>7. CASE GiveUpStep
  <2>1. phase' = phase /\ mem' = mem
    BY <1>7 DEF GiveUpStep
  <2>2. PICK status \in Statuses, held \in BOOLEAN :
          /\ resv'[q] = [resv[q] EXCEPT !.status = status, !.held = held]
          /\ held => resv[q].held
          /\ status = CASE resv[q].status = "reserving" -> "refused"
                        [] resv[q].status = "settling" -> "uncertain"
                        [] resv[q].status = "live" /\ phase' = "down" -> "kept"
                        [] OTHER -> resv[q].status
    BY <1>7 DEF GiveUpStep
  <2>3. /\ resv'[q].window = resv[q].window /\ resv'[q].key = resv[q].key /\ resv'[q].status = status
        /\ resv[q].held
    BY <1>1, <2>2 DEF Reservations
  <2>4. resv[q].status \in GrantedStatuses => status \in GrantedStatuses
    <3>1. /\ resv[q].status = "settling" => status = "uncertain"
          /\ resv[q].status \notin {"reserving", "settling", "live"} => status = resv[q].status
          /\ resv[q].status = "live" => status \in {"live", "kept"}
      BY <2>2
    <3>2. QED
      BY <3>1 DEF GrantedStatuses
  <2>5. QED
    BY <1>2, <2>1, <2>3, <2>4 DEF Granted
<1>8. ASSUME NEW r \in Requests, NEW k \in Identities, NEW res, NEW victims,
             ReserveStep(r, k, res, victims)
      PROVE  /\ phase' = "serving" /\ q \in Granted'
             /\ resv'[q].window = mem'.window /\ resv'[q].key \in mem'.tracked
  <2>1. resv' = [resv EXCEPT ![r] = res] /\ ~res.held /\ UNCHANGED <<mem, phase>>
    BY <1>8 DEF ReserveStep
  <2>2. resv'[q] = resv[q]
    BY <2>1 DEF TypeOK
  <2>3. QED
    BY <1>2, <2>1, <2>2 DEF Granted
<1>9. ASSUME NEW r \in Requests, NEW res, SettleStep(r, res)
      PROVE  /\ phase' = "serving" /\ q \in Granted'
             /\ resv'[q].window = mem'.window /\ resv'[q].key \in mem'.tracked
  <2>1. UNCHANGED <<mem, phase>>
    BY <1>9 DEF SettleStep
  <2>2. PICK status \in {"uncertain", "settling"} : resv' = [resv EXCEPT ![r] = [res EXCEPT !.status = status]]
    BY <1>9 DEF SettleStep
  <2>3. /\ resv[q].held /\ resv'[q].window = resv[q].window /\ resv'[q].key = resv[q].key
        /\ resv'[q].status = IF q = r THEN status ELSE resv[q].status
    <3>1. CASE q = r
      <4>1. res \in Reservations /\ res.window = resv[q].window /\ res.key = resv[q].key /\ res.held = resv[q].held
        BY <1>1, <1>9, <3>1 DEF SettleStep, Reservations
      <4>2. resv'[q] = [res EXCEPT !.status = status]
        BY <2>2, <3>1 DEF TypeOK
      <4>3. QED
        BY <3>1, <4>1, <4>2 DEF Reservations
    <3>2. CASE q # r
      BY <2>2, <3>2 DEF TypeOK
    <3>3. QED
      BY <3>1, <3>2
  <2>4. QED
    BY <1>2, <2>1, <2>3 DEF Granted, GrantedStatuses
<1>10. QED
  BY <1>3, <1>4, <1>5, <1>6, <1>7, <1>8, <1>9 DEF SomeStep

-----------------------------------------------------------------------------
(* The counters of the provider *)

SameData(a, b) ==
  /\ b.key = a.key /\ b.window = a.window /\ b.tokens = a.tokens
  /\ b.idSpend = a.idSpend /\ b.spend = a.spend
  /\ b.actualTokens = a.actualTokens /\ b.actualSpend = a.actualSpend

\* Of the reservations in after, those granted were granted before and cost no more.
NoDearer(before, after) ==
  \A q \in Requests :
    after[q].status \in GrantedStatuses =>
      /\ before[q].status \in GrantedStatuses /\ after[q].window = before[q].window
      /\ CostOf(after[q]) <= CostOf(before[q])

SameTallies(before, after) ==
  \A q \in Requests :
    /\ after[q].status \in GrantedStatuses <=> before[q].status \in GrantedStatuses
    /\ after[q].status \in GrantedStatuses =>
         /\ after[q].window = before[q].window
         /\ TokensOf(after[q]) = TokensOf(before[q]) /\ SpendOf(after[q]) = SpendOf(before[q])

\* A ledger stays right when the grants get no dearer, and exact when no tally of them changes.
LEMMA CountsKept ==
  ASSUME NEW ledger \in LedgerStates, NEW before \in Maps, NEW after \in Maps,
         IsFiniteSet(GrantedOn(before, ledger.window))
  PROVE  /\ NoDearer(before, after) /\ Covers(ledger, before) => Covers(ledger, after)
         /\ SameTallies(before, after) /\ Matches(ledger, before) => Matches(ledger, after)
<1>1. ASSUME NoDearer(before, after), Covers(ledger, before) PROVE Covers(ledger, after)
  <2>1. \A q \in Requests : CountsOn(after, q, ledger.window) =>
          CountsOn(before, q, ledger.window) /\ CostOf(after[q]) <= CostOf(before[q])
    BY <1>1 DEF NoDearer, CountsOn
  <2>2. QED
    BY <1>1, <2>1, CoversKept
<1>2. ASSUME SameTallies(before, after), Matches(ledger, before) PROVE Matches(ledger, after)
  <2>1. \A q \in Requests :
          /\ CountsOn(after, q, ledger.window) <=> CountsOn(before, q, ledger.window)
          /\ CountsOn(after, q, ledger.window) => /\ TokensOf(after[q]) = TokensOf(before[q])
                                                  /\ SpendOf(after[q]) = SpendOf(before[q])
    BY <1>2 DEF SameTallies, CountsOn
  <2>2. QED
    BY <1>2, <2>1, MatchesKept
<1>3. QED
  BY <1>1, <1>2

\* Ending a reservation without a report changes no count; nor does losing sight of its write.
LEMMA SameCounts ==
  ASSUME NEW a \in Reservations, NEW b \in Reservations, SameData(a, b),
         a.status \in GrantedStatuses,
         \/ b.status = a.status
         \/ a.status = "live" /\ b.status = "kept"
         \/ a.status = "settling" /\ b.status = "uncertain"
  PROVE  /\ b.status \in GrantedStatuses
         /\ CostOf(b) = CostOf(a) /\ CostOf(b) <= CostOf(a)
         /\ TokensOf(b) = TokensOf(a) /\ SpendOf(b) = SpendOf(a)
<1>1. CostOf(a) \in Nat /\ a.spend \in Nat /\ a.actualSpend \in Nat
  BY CountsAreNat DEF Reservations
<1>2. CASE a.status \in {"live", "kept"}
  <2>1. b.status \in {"live", "kept"}
    BY <1>2
  <2>2. CostOf(a) = a.spend /\ CostOf(b) = b.spend
    BY <1>2, <2>1, CostIs
  <2>3. QED
    BY <1>1, <1>2, <2>1, <2>2 DEF SameData, TokensOf, SpendOf, GrantedStatuses
<1>3. CASE a.status = "settled"
  <2>1. CostOf(a) = a.actualSpend /\ CostOf(b) = b.actualSpend
    BY <1>3, CostIs
  <2>2. QED
    BY <1>1, <1>3, <2>1 DEF SameData, TokensOf, SpendOf, GrantedStatuses
<1>4. CASE a.status \in {"settling", "uncertain"}
  <2>1. b.status \in {"settling", "uncertain"}
    BY <1>4
  <2>2. /\ CostOf(a) = IF a.actualSpend < a.spend THEN a.actualSpend ELSE a.spend
        /\ CostOf(b) = IF b.actualSpend < b.spend THEN b.actualSpend ELSE b.spend
    BY <1>4, <2>1, CostIs
  <2>3. CostOf(b) = CostOf(a)
    BY <2>2 DEF SameData
  <2>4. QED
    BY <1>1, <1>4, <2>1, <2>3 DEF SameData, TokensOf, SpendOf, GrantedStatuses
<1>5. QED
  BY <1>2, <1>3, <1>4 DEF GrantedStatuses

\* A report whose write is open costs the smaller of both amounts, and tallies as before.
LEMMA ReportCounts ==
  ASSUME NEW a \in Reservations, NEW b \in Reservations,
         b.window = a.window, b.tokens = a.tokens, b.spend = a.spend,
         a.status = "live", b.status \in {"settling", "uncertain"}
  PROVE  /\ CostOf(b) <= CostOf(a) /\ TokensOf(b) = TokensOf(a) /\ SpendOf(b) = SpendOf(a)
<1>1. CostOf(a) = a.spend
  BY CostIs
<1>2. CostOf(b) = IF b.actualSpend < b.spend THEN b.actualSpend ELSE b.spend
  BY CostIs
<1>3. b.actualSpend \in Nat /\ b.spend \in Nat
  BY DEF Reservations
<1>4. QED
  BY <1>1, <1>2, <1>3 DEF TokensOf, SpendOf

LEMMA OnceDoneType ==
  ASSUME NEW now, NEW next, NEW before \in Maps
  PROVE  OnceDone(now, next, before) \in Maps
<1> SUFFICES ASSUME NEW q \in Requests
             PROVE  OnceDone(now, next, before)[q] \in Reservations
  BY DEF OnceDone, Maps
<1>1. before[q] \in Reservations
  BY DEF Maps
<1>2. /\ [before[q] EXCEPT !.status = "live", !.held = TRUE] \in Reservations
      /\ [before[q] EXCEPT !.status = "settled"] \in Reservations
      /\ [before[q] EXCEPT !.held = @ /\ next.window = now.window
                                      /\ before[q].key \in next.tracked] \in Reservations
  BY <1>1 DEF Reservations, Statuses
<1>3. QED
  BY <1>2 DEF OnceDone

\* What publishing does to one reservation.
LEMMA OnceDoneIs ==
  ASSUME NEW now, NEW next, NEW before \in Maps, NEW q \in Requests
  PROVE  LET after == OnceDone(now, next, before)
         IN /\ after[q] \in Reservations /\ SameData(before[q], after[q])
            /\ before[q].status = "reserving" => after[q].status = "live" /\ after[q].held
            /\ before[q].status = "settling" =>
                 after[q].status = "settled" /\ after[q].held = before[q].held
            /\ before[q].status \notin {"reserving", "settling"} =>
                 /\ after[q].status = before[q].status
                 /\ after[q].held <=> /\ before[q].held /\ next.window = now.window
                                      /\ before[q].key \in next.tracked
<1> DEFINE e == OnceDone(now, next, before)[q]
<1>1. before[q] \in Reservations /\ e \in Reservations
  BY OnceDoneType DEF Maps
<1>2. CASE before[q].status = "reserving"
  <2>1. e = [before[q] EXCEPT !.status = "live", !.held = TRUE]
    BY <1>2 DEF OnceDone
  <2> HIDE DEF e
  <2>2. QED
    BY <1>1, <1>2, <2>1 DEF Reservations, SameData, e
<1>3. CASE before[q].status = "settling"
  <2>1. e = [before[q] EXCEPT !.status = "settled"]
    BY <1>3 DEF OnceDone
  <2>2. QED
    BY <1>1, <1>3, <2>1 DEF Reservations, SameData
<1>4. CASE before[q].status \notin {"reserving", "settling"}
  <2>1. e = [before[q] EXCEPT !.held = @ /\ next.window = now.window
                                         /\ before[q].key \in next.tracked]
    BY <1>4 DEF OnceDone
  <2>2. QED
    BY <1>1, <1>4, <2>1 DEF Reservations, SameData
<1>5. QED
  BY <1>2, <1>3, <1>4

\* With nothing waiting, the write under way changes no count.
LEMMA DoneWithoutWaiting ==
  ASSUME NEW now, NEW next, NEW before \in Maps,
         \A q \in Requests : before[q].status \notin {"reserving", "settling"}
  PROVE  /\ NoDearer(before, OnceDone(now, next, before))
         /\ SameTallies(before, OnceDone(now, next, before))
<1> DEFINE after == OnceDone(now, next, before)
<1>1. ASSUME NEW q \in Requests
      PROVE  /\ before[q] \in Reservations /\ after[q] \in Reservations
             /\ SameData(before[q], after[q]) /\ after[q].status = before[q].status
  <2>1. before[q] \in Reservations
    BY DEF Maps
  <2>2. QED
    BY <2>1, OnceDoneIs
<1> HIDE DEF after
<1>2. ASSUME NEW q \in Requests, before[q].status \in GrantedStatuses
      PROVE  /\ after[q].window = before[q].window
             /\ CostOf(after[q]) <= CostOf(before[q])
             /\ TokensOf(after[q]) = TokensOf(before[q]) /\ SpendOf(after[q]) = SpendOf(before[q])
  BY <1>1, <1>2, SameCounts DEF SameData
<1>3. NoDearer(before, after) /\ SameTallies(before, after)
  BY <1>1, <1>2 DEF NoDearer, SameTallies
<1>4. QED
  BY <1>3 DEF after

LEMMA NoneOnDay ==
  ASSUME NEW reservations, NEW day,
         \A q \in Requests : reservations[q].status \in GrantedStatuses => reservations[q].window # day
  PROVE  GrantedOn(reservations, day) = {}
BY DEF GrantedOn

\* The ledger of no day is never wrong.
LEMMA NoStateCounts ==
  ASSUME NEW reservations,
         \A q \in Requests :
           reservations[q].status \in GrantedStatuses => reservations[q].window # 0
  PROVE  Covers(NoState, reservations) /\ Matches(NoState, reservations)
<1>1. GrantedOn(reservations, 0) = {}
  BY NoneOnDay
<1>2. QED
  BY <1>1, EmptyCovers DEF NoState

LEMMA IdleCounts ==
  ASSUME NEW now, NEW before \in Maps,
         \A q \in Requests : before[q].status \notin {"reserving", "settling"},
         \A q \in Requests : before[q].status \in GrantedStatuses => before[q].window # 0
  PROVE  /\ Covers(NoState, OnceDone(now, NoState, before))
         /\ Matches(NoState, OnceDone(now, NoState, before))
<1> DEFINE after == OnceDone(now, NoState, before)
<1>1. \A q \in Requests : after[q].status \in GrantedStatuses => after[q].window # 0
  BY OnceDoneIs DEF SameData
<1>2. QED
  BY <1>1, NoStateCounts

\* Only finitely many requests are granted on a day.
LEMMA FiniteDays ==
  ASSUME TypeOK, OpenInv, NEW day
  PROVE  IsFiniteSet(GrantedOn(resv, day)) /\ IsFiniteSet(GrantedOn(Expected, day))
<1>1. GrantedOn(resv, day) \subseteq Open
  BY DEF GrantedOn, Open
<1>2. GrantedOn(Expected, day) \subseteq Open
  <2> SUFFICES ASSUME NEW q \in Requests, Expected[q].status \in GrantedStatuses
               PROVE  q \in Open
    BY DEF GrantedOn
  <2>1. resv \in Maps
    BY DEF TypeOK, Maps
  <2>2. resv[q].status \in {"reserving", "settling"} \/ Expected[q].status = resv[q].status
    BY <2>1, OnceDoneIs DEF Expected
  <2>3. QED
    BY <2>2 DEF Open, GrantedStatuses
<1>3. QED
  BY <1>1, <1>2, FS_Subset DEF OpenInv

\* Both ledgers cover the grants, and the ledger to be written covers what will be granted then.
\* Without a fault they match exactly, and no ledger is on the disk before the first process.
CountInv ==
  /\ Covers(mem, resv) /\ Covers(disk, resv) /\ Covers(op.next, Expected)
  /\ crashes + writeFailures = 0 =>
       /\ Matches(mem, resv) /\ Matches(op.next, Expected)
       /\ phase = "down" => disk = NoState

LEMMA InitCount == Init => CountInv
<1> SUFFICES ASSUME Init PROVE CountInv
  OBVIOUS
<1>1. resv \in Maps
  BY InitType DEF TypeOK, Maps
<1>2. \A q \in Requests : resv[q].status = "new"
  BY DEF Init, NewReservation
<1>3. mem = NoState /\ disk = NoState /\ op.next = NoState
  BY DEF Init, Idle
<1>4. Covers(NoState, resv) /\ Matches(NoState, resv)
  BY <1>2, NoStateCounts DEF GrantedStatuses
<1>5. Covers(NoState, OnceDone(mem, NoState, resv)) /\ Matches(NoState, OnceDone(mem, NoState, resv))
  BY <1>1, <1>2, IdleCounts DEF GrantedStatuses
<1>6. QED
  BY <1>3, <1>4, <1>5 DEF CountInv, Expected

\* What the counts of a step rest on.
LEMMA CountFacts ==
  ASSUME TypeOK, EntryInv, OpenInv
  PROVE  /\ resv \in Maps /\ Expected \in Maps
         /\ mem \in LedgerStates /\ disk \in LedgerStates /\ op.next \in LedgerStates
         /\ op = Idle => op.next = NoState
         /\ \A q \in Requests : resv[q].status \in GrantedStatuses =>
              resv[q].window \in Nat /\ resv[q].window >= 1 /\ resv[q].window # 0
<1>1. resv \in Maps
  BY DEF TypeOK, Maps
<1>2. Expected \in Maps
  BY <1>1, OnceDoneType DEF Expected
<1>3. mem \in LedgerStates /\ disk \in LedgerStates /\ op.next \in LedgerStates
  BY DEF TypeOK, Ops
<1>4. op = Idle => op.next = NoState
  BY DEF Idle
<1>5. ASSUME NEW q \in Requests, resv[q].status \in GrantedStatuses
      PROVE  resv[q].window \in Nat /\ resv[q].window >= 1 /\ resv[q].window # 0
  BY <1>1, <1>5 DEF OpenInv, GrantsAreReached, Granted, Maps, Reservations
<1>6. QED
  BY <1>1, <1>2, <1>3, <1>4, <1>5

\* A reservation that ends without a report, or whose write is given up.
Ended(a, b) ==
  /\ SameData(a, b)
  /\ \/ b.status = a.status
     \/ a.status \in {"new", "reserving"} /\ b.status = "refused"
     \/ a.status = "live" /\ b.status = "kept"
     \/ a.status = "settling" /\ b.status = "uncertain"

\* Requests that end without a report change no count.
LEMMA EndedCounts ==
  ASSUME NEW before \in Maps, NEW after \in Maps,
         \A q \in Requests : Ended(before[q], after[q])
  PROVE  NoDearer(before, after) /\ SameTallies(before, after)
<1>1. ASSUME NEW q \in Requests, before[q].status \in GrantedStatuses
      PROVE  /\ after[q].status \in GrantedStatuses /\ after[q].window = before[q].window
             /\ CostOf(after[q]) <= CostOf(before[q])
             /\ TokensOf(after[q]) = TokensOf(before[q]) /\ SpendOf(after[q]) = SpendOf(before[q])
  <2>1. before[q] \in Reservations /\ after[q] \in Reservations
    BY DEF Maps
  <2>2. /\ SameData(before[q], after[q])
        /\ \/ after[q].status = before[q].status
           \/ before[q].status = "live" /\ after[q].status = "kept"
           \/ before[q].status = "settling" /\ after[q].status = "uncertain"
    BY <1>1 DEF Ended, GrantedStatuses
  <2>3. QED
    BY <1>1, <2>1, <2>2, SameCounts DEF SameData
<1>2. ASSUME NEW q \in Requests, after[q].status \in GrantedStatuses
      PROVE  before[q].status \in GrantedStatuses
  BY <1>2 DEF Ended, GrantedStatuses
<1>3. QED
  BY <1>1, <1>2 DEF NoDearer, SameTallies

\* Each kind of step keeps the counts; first the one in which requests end.
LEMMA QuietCount ==
  ASSUME TypeOK, TypeOK', EntryInv, EntryInv', OpenInv, OpenInv', CountInv, QuietStep
  PROVE  CountInv'
<1>1. /\ resv \in Maps /\ resv' \in Maps /\ Expected \in Maps /\ Expected' \in Maps
      /\ mem \in LedgerStates /\ disk \in LedgerStates /\ op.next \in LedgerStates
  BY CountFacts, OnceDoneType DEF TypeOK, Maps, Expected
<1>2. mem' = mem /\ disk' = disk /\ op' = op /\ crashes' = crashes /\ writeFailures' = writeFailures
  BY DEF QuietStep
<1>3. ASSUME NEW q \in Requests
      PROVE  /\ Ended(resv[q], resv'[q])
             /\ \/ resv'[q] = resv[q]
                \/ resv[q].status = "new" /\ resv'[q].status = "refused"
                \/ resv[q].status = "live" /\ resv'[q].status = "kept"
  <2>1. resv[q] \in Reservations
    BY <1>1 DEF Maps
  <2>2. ASSUME NEW st, resv'[q] = [resv[q] EXCEPT !.status = st]
        PROVE  SameData(resv[q], resv'[q]) /\ resv'[q].status = st
    BY <2>1, <2>2 DEF Reservations, SameData
  <2>3. \/ resv'[q] = resv[q]
        \/ resv[q].status = "new" /\ resv'[q] = [resv[q] EXCEPT !.status = "refused"]
        \/ resv[q].status = "live" /\ resv'[q] = [resv[q] EXCEPT !.status = "kept"]
    BY DEF QuietStep
  <2>4. QED
    BY <2>2, <2>3 DEF Ended, SameData
<1>4. ASSUME NEW q \in Requests
      PROVE  Ended(Expected[q], Expected'[q])
  <2>1. CASE resv'[q] = resv[q]
    <3>1. Expected'[q] = Expected[q]
      BY <1>2, <2>1 DEF Expected, OnceDone
    <3>2. QED
      BY <3>1 DEF Ended, SameData
  <2>2. CASE \/ resv[q].status = "new" /\ resv'[q].status = "refused"
             \/ resv[q].status = "live" /\ resv'[q].status = "kept"
    <3>1. SameData(resv[q], Expected[q]) /\ Expected[q].status = resv[q].status
      BY <1>1, <2>2, OnceDoneIs DEF Expected
    <3>2. SameData(resv'[q], Expected'[q]) /\ Expected'[q].status = resv'[q].status
      BY <1>1, <2>2, OnceDoneIs DEF Expected
    <3>3. SameData(resv[q], resv'[q])
      BY <1>3 DEF Ended
    <3>4. QED
      BY <2>2, <3>1, <3>2, <3>3 DEF Ended, SameData
  <2>3. QED
    BY <1>3, <2>1, <2>2
<1>5. NoDearer(resv, resv') /\ SameTallies(resv, resv')
  BY <1>1, <1>3, EndedCounts
<1>6. NoDearer(Expected, Expected') /\ SameTallies(Expected, Expected')
  BY <1>1, <1>4, EndedCounts
<1>7. \A day : IsFiniteSet(GrantedOn(resv, day)) /\ IsFiniteSet(GrantedOn(Expected, day))
  BY FiniteDays
<1>8. Covers(mem', resv') /\ Covers(disk', resv')
  BY <1>1, <1>2, <1>5, <1>7, CountsKept DEF CountInv
<1>9. Covers(op'.next, Expected')
  BY <1>1, <1>2, <1>6, <1>7, CountsKept DEF CountInv
<1>10. ASSUME crashes' + writeFailures' = 0
       PROVE  Matches(mem', resv') /\ Matches(op'.next, Expected') /\ (phase' = "down" => disk' = NoState)
  <2>1. Matches(mem, resv) /\ Matches(op.next, Expected) /\ (phase = "down" => disk = NoState)
    BY <1>2, <1>10 DEF CountInv
  <2>2. Matches(mem', resv')
    BY <1>1, <1>2, <1>5, <1>7, <2>1, CountsKept
  <2>3. Matches(op'.next, Expected')
    BY <1>1, <1>2, <1>6, <1>7, <2>1, CountsKept
  <2>4. phase' = "down" => phase = "down"
    BY DEF QuietStep
  <2>5. QED
    BY <1>2, <2>1, <2>2, <2>3, <2>4
<1>11. QED
  BY <1>8, <1>9, <1>10 DEF CountInv

LEMMA PublishCount ==
  ASSUME TypeOK, TypeOK', EntryInv', OpenInv, OpenInv', EntryInv, CountInv, PublishStep
  PROVE  CountInv'
<1>1. /\ resv' = Expected /\ mem' = op.next /\ disk' = op.next /\ op'.next = NoState
      /\ crashes' = crashes /\ writeFailures' = writeFailures /\ phase' # "down" /\ op' = Idle
  BY DEF PublishStep, OpenInv, WritesMoveOn, Idle
<1>2. Covers(mem', resv') /\ Covers(disk', resv')
  BY <1>1 DEF CountInv
<1>3. resv' \in Maps
  BY DEF TypeOK, Maps
<1>4. /\ \A q \in Requests : resv'[q].status \notin {"reserving", "settling"}
      /\ \A q \in Requests : resv'[q].status \in GrantedStatuses => resv'[q].window # 0
  <2>1. resv \in Maps
    BY DEF TypeOK, Maps
  <2>2. ASSUME NEW q \in Requests
        PROVE  resv'[q].status \notin {"reserving", "settling"} /\ resv'[q].window = resv[q].window
    BY <1>1, <2>1, OnceDoneIs DEF Expected, SameData
  <2>3. ASSUME NEW q \in Requests, resv'[q].status \in GrantedStatuses PROVE resv'[q].window # 0
    BY <1>3, <2>3 DEF OpenInv, GrantsAreReached, Granted, Maps, Reservations
  <2>4. QED
    BY <2>2, <2>3
<1>5. Covers(NoState, OnceDone(mem', NoState, resv')) /\ Matches(NoState, OnceDone(mem', NoState, resv'))
  BY <1>3, <1>4, IdleCounts
<1>6. Expected' = OnceDone(mem', NoState, resv')
  BY <1>1 DEF Expected
<1>7. crashes' + writeFailures' = 0 => Matches(mem', resv')
  BY <1>1 DEF CountInv
<1>8. QED
  BY <1>1, <1>2, <1>5, <1>6, <1>7 DEF CountInv

LEMMA GiveUpCount ==
  ASSUME TypeOK, TypeOK', EntryInv, OpenInv, OpenInv', CountInv, GiveUpStep
  PROVE  CountInv'
<1>1. /\ resv \in Maps /\ resv' \in Maps /\ mem \in LedgerStates /\ disk \in LedgerStates
      /\ \A day : IsFiniteSet(GrantedOn(resv, day))
  BY CountFacts, FiniteDays DEF TypeOK, Maps
<1>2. ASSUME NEW q \in Requests
      PROVE  /\ Ended(resv[q], resv'[q]) /\ resv'[q].status \notin {"reserving", "settling"}
             /\ resv'[q].status \in GrantedStatuses => resv'[q].window # 0
  <2>1. PICK status \in Statuses, held \in BOOLEAN :
          /\ resv'[q] = [resv[q] EXCEPT !.status = status, !.held = held]
          /\ status = CASE resv[q].status = "reserving" -> "refused"
                        [] resv[q].status = "settling" -> "uncertain"
                        [] resv[q].status = "live" /\ phase' = "down" -> "kept"
                        [] OTHER -> resv[q].status
    BY DEF GiveUpStep
  <2>2. resv[q] \in Reservations /\ resv'[q] \in Reservations
    BY <1>1 DEF Maps
  <2>3. SameData(resv[q], resv'[q]) /\ resv'[q].status = status
    BY <2>1, <2>2 DEF Reservations, SameData
  <2>4. /\ resv[q].status = "reserving" => status = "refused"
        /\ resv[q].status = "settling" => status = "uncertain"
        /\ resv[q].status \notin {"reserving", "settling", "live"} => status = resv[q].status
        /\ resv[q].status = "live" => status \in {"live", "kept"}
    BY <2>1
  <2>5. Ended(resv[q], resv'[q]) /\ resv'[q].status \notin {"reserving", "settling"}
    BY <2>3, <2>4 DEF Ended
  <2>6. resv'[q].status \in GrantedStatuses => resv'[q].window # 0
    BY <2>2 DEF OpenInv, GrantsAreReached, Granted, Reservations
  <2>7. QED
    BY <2>5, <2>6
<1>3. NoDearer(resv, resv')
  BY <1>1, <1>2, EndedCounts
<1>4. Covers(disk', resv')
  <2>1. disk' = disk
    BY DEF GiveUpStep
  <2>2. QED
    BY <1>1, <1>3, <2>1, CountsKept DEF CountInv
<1>5. Covers(mem', resv')
  <2>1. CASE mem' = mem
    BY <1>1, <1>3, <2>1, CountsKept DEF CountInv
  <2>2. CASE mem' = NoState
    BY <1>2, <2>2, NoStateCounts
  <2>3. QED
    BY <2>1, <2>2 DEF GiveUpStep
<1>6. Covers(op'.next, Expected')
  <2>1. op'.next = NoState /\ Expected' = OnceDone(mem', NoState, resv')
    BY DEF GiveUpStep, Idle, Expected
  <2>2. Covers(NoState, OnceDone(mem', NoState, resv'))
    BY <1>1, <1>2, IdleCounts
  <2>3. QED
    BY <2>1, <2>2
<1>7. crashes' + writeFailures' # 0
  <2>1. crashes' \in Nat /\ writeFailures' \in Nat
    BY DEF TypeOK
  <2>2. crashes' + writeFailures' > 0
    BY DEF GiveUpStep
  <2>3. \A m, n \in Nat : m + n > 0 => m + n # 0
    OBVIOUS
  <2>4. QED
    BY <2>1, <2>2, <2>3
<1>8. QED
  BY <1>4, <1>5, <1>6, <1>7 DEF CountInv

\* A new day begins with no grants on it; dropping entries leaves the provider's counters.
LEMMA RenewCount ==
  ASSUME TypeOK, TypeOK', EntryInv, OpenInv, CountInv, RenewStep
  PROVE  CountInv'
<1>1. /\ resv \in Maps /\ mem \in LedgerStates /\ op'.next \in LedgerStates /\ clock \in Nat
      /\ \A day : IsFiniteSet(GrantedOn(resv, day))
  BY CountFacts, FiniteDays DEF TypeOK, Ops
<1>2. /\ mem' = mem /\ disk' = disk /\ resv' = resv /\ phase' = phase /\ phase # "down" /\ op = Idle
      /\ crashes' = crashes /\ writeFailures' = writeFailures
  BY DEF RenewStep
<1>3. \A q \in Requests : resv[q].status \notin {"reserving", "settling"}
  BY <1>2, NoneWaits
<1>4. Covers(op'.next, resv) /\ (crashes + writeFailures = 0 => Matches(op'.next, resv))
  <2>1. CASE mem.window # clock /\ op'.next = emptyState(clock)
    <3>1. mem.window \in Nat /\ mem.window <= clock
      BY <1>1 DEF LedgerStates, EntryInv, WindowsGrow
    <3>2. ASSUME NEW q \in Requests, resv[q].status \in GrantedStatuses PROVE resv[q].window # clock
      <4>1. resv[q].window <= mem.window /\ resv[q].window \in Nat
        BY <1>1, <1>2, <3>2 DEF OpenInv, GrantsAreReached, Granted, Maps, Reservations
      <4>2. QED
        BY <1>1, <2>1, <3>1, <4>1
    <3>3. GrantedOn(resv, clock) = {}
      BY <3>2, NoneOnDay
    <3>4. QED
      BY <1>1, <2>1, <3>3, EmptyCovers
  <2>2. ASSUME NEW gone, op'.next = Drop(mem, gone)
        PROVE  Covers(op'.next, resv) /\ (crashes + writeFailures = 0 => Matches(op'.next, resv))
    <3>1. op'.next.provider = mem.provider /\ op'.next.window = mem.window
      BY <2>2 DEF Drop
    <3>2. QED
      BY <3>1, ProviderSame DEF CountInv
  <2>3. QED
    BY <2>1, <2>2 DEF RenewStep
<1>5. /\ NoDearer(resv, Expected') /\ SameTallies(resv, Expected') /\ Expected' \in Maps
  <2>1. Expected' = OnceDone(mem', op'.next, resv)
    BY <1>2 DEF Expected
  <2>2. QED
    BY <1>1, <1>3, <2>1, DoneWithoutWaiting, OnceDoneType
<1>6. Covers(op'.next, Expected') /\ (crashes + writeFailures = 0 => Matches(op'.next, Expected'))
  BY <1>1, <1>4, <1>5, CountsKept
<1>7. QED
  BY <1>2, <1>6 DEF CountInv

LEMMA LoadCount ==
  ASSUME TypeOK, TypeOK', EntryInv, OpenInv, CountInv, LoadStep
  PROVE  CountInv'
<1>1. /\ resv \in Maps /\ disk \in LedgerStates /\ op'.next \in LedgerStates /\ clock \in Nat /\ clock # 0
      /\ \A day : IsFiniteSet(GrantedOn(resv, day))
      /\ \A q \in Requests : resv[q].status \in GrantedStatuses =>
           resv[q].window \in Nat /\ resv[q].window >= 1 /\ resv[q].window # 0
  BY CountFacts, FiniteDays DEF TypeOK, Ops
<1>2. /\ mem' = disk /\ disk' = disk /\ resv' = resv /\ phase' = "loading" /\ phase = "down"
      /\ crashes' = crashes /\ writeFailures' = writeFailures
  BY DEF LoadStep
<1>3. \A q \in Requests : resv[q].status \notin {"reserving", "settling"}
  BY <1>2, NoneWaits
<1>4. Covers(mem', resv') /\ Covers(disk', resv')
  BY <1>2 DEF CountInv
<1>5. crashes' + writeFailures' = 0 => Matches(mem', resv')
  <2>1. Matches(NoState, resv)
    BY <1>1, NoStateCounts
  <2>2. QED
    BY <1>2, <2>1 DEF CountInv
<1>6. Covers(op'.next, Expected') /\ Matches(op'.next, Expected')
  <2>1. CASE op' = Idle
    <3>1. op'.next = NoState /\ Expected' = OnceDone(mem', NoState, resv)
      BY <1>2, <2>1 DEF Idle, Expected
    <3>2. QED
      BY <1>1, <1>3, <3>1, IdleCounts
  <2>2. CASE disk = NoState /\ op' = Write("create", emptyState(clock))
    <3>1. op'.next = emptyState(clock) /\ disk.window = 0
      BY <2>2 DEF Write, NoState, emptyState
    <3>2. ASSUME NEW q \in Requests, resv[q].status \in GrantedStatuses PROVE FALSE
      <4>1. resv[q].window <= disk.window
        BY <3>2 DEF OpenInv, GrantsAreReached, Granted
      <4>2. resv[q].window \in Nat /\ resv[q].window >= 1
        BY <1>1, <3>2
      <4>3. QED
        BY <3>1, <4>1, <4>2
    <3>3. GrantedOn(resv, clock) = {}
      BY <3>2, NoneOnDay
    <3>4. Covers(op'.next, resv) /\ Matches(op'.next, resv)
      BY <1>1, <3>1, <3>3, EmptyCovers
    <3>5. Expected' = OnceDone(mem', op'.next, resv)
      BY <1>2 DEF Expected
    <3>6. NoDearer(resv, Expected') /\ SameTallies(resv, Expected') /\ Expected' \in Maps
      BY <1>1, <1>3, <3>5, DoneWithoutWaiting, OnceDoneType
    <3>7. QED
      BY <1>1, <3>4, <3>6, CountsKept
  <2>3. QED
    BY <2>1, <2>2 DEF LoadStep
<1>7. QED
  BY <1>2, <1>4, <1>5, <1>6 DEF CountInv

\* A write that reaches the disk before the memory covers what is granted before it is published.
LEMMA RenameCount ==
  ASSUME TypeOK, TypeOK', EntryInv, OpenInv, CountInv, Rename
  PROVE  CountInv'
<1>1. /\ resv \in Maps /\ Expected \in Maps /\ op.next \in LedgerStates
      /\ \A day : IsFiniteSet(GrantedOn(Expected, day))
  BY CountFacts, FiniteDays
<1>2. /\ mem' = mem /\ disk' = op.next /\ resv' = resv /\ phase' = phase /\ op'.next = op.next
      /\ crashes' = crashes /\ writeFailures' = writeFailures /\ op # Idle
  BY DEF Rename, process, faults, TypeOK, Ops
<1>3. Expected' = Expected
  BY <1>2 DEF Expected
<1>4. phase # "down"
  BY <1>2 DEF EntryInv, OneWriter
<1>5. NoDearer(Expected, resv)
  <2> SUFFICES ASSUME NEW q \in Requests, resv[q].status \in GrantedStatuses
               PROVE  /\ Expected[q].status \in GrantedStatuses /\ resv[q].window = Expected[q].window
                      /\ CostOf(resv[q]) <= CostOf(Expected[q])
    BY DEF NoDearer
  <2>1. /\ resv[q] \in Reservations /\ Expected[q] \in Reservations /\ SameData(resv[q], Expected[q])
    BY <1>1, OnceDoneIs DEF Maps, Expected
  <2>2. CASE resv[q].status = "settling"
    <3>1. Expected[q].status = "settled"
      BY <1>1, <2>2, OnceDoneIs DEF Expected
    <3>2. CostOf(Expected[q]) = Expected[q].actualSpend
      BY <2>1, <3>1, CostIs
    <3>3. CostOf(resv[q]) = IF resv[q].actualSpend < resv[q].spend THEN resv[q].actualSpend ELSE resv[q].spend
      BY <2>1, <2>2, CostIs
    <3>4. resv[q].actualSpend \in Nat /\ resv[q].spend \in Nat
      BY <2>1 DEF Reservations
    <3>5. QED
      BY <2>1, <3>1, <3>2, <3>3, <3>4 DEF SameData, GrantedStatuses
  <2>3. CASE resv[q].status # "settling"
    <3>1. Expected[q].status = resv[q].status
      BY <1>1, <2>3, OnceDoneIs DEF Expected, GrantedStatuses
    <3>2. CostOf(Expected[q]) = CostOf(resv[q])
      BY <2>1, <3>1, SameCounts
    <3>3. CostOf(resv[q]) \in Nat
      BY <2>1, CountsAreNat
    <3>4. QED
      BY <2>1, <3>1, <3>2, <3>3 DEF SameData
  <2>4. QED
    BY <2>2, <2>3
<1>6. Covers(disk', resv')
  BY <1>1, <1>2, <1>5, CountsKept DEF CountInv
<1>7. QED
  BY <1>2, <1>3, <1>4, <1>6 DEF CountInv

\* The state that reserve starts from counts the grants of its day.
LEMMA SourceCounts ==
  ASSUME TypeOK, EntryInv, OpenInv, CountInv, phase # "down"
  PROVE  /\ Covers(SourceState, resv)
         /\ crashes + writeFailures = 0 => Matches(SourceState, resv)
<1>1. resv \in Maps /\ mem \in LedgerStates /\ clock \in Nat
  BY CountFacts DEF TypeOK
<1>2. CASE mem.window = clock
  BY <1>2 DEF SourceState, CountInv
<1>3. CASE mem.window # clock
  <2>1. mem.window \in Nat /\ mem.window <= clock
    BY <1>1 DEF LedgerStates, EntryInv, WindowsGrow
  <2>2. ASSUME NEW q \in Requests, resv[q].status \in GrantedStatuses PROVE resv[q].window # clock
    <3>1. resv[q].window <= mem.window /\ resv[q].window \in Nat
      BY <1>1, <2>2 DEF OpenInv, GrantsAreReached, Granted, Maps, Reservations
    <3>2. QED
      BY <1>1, <1>3, <2>1, <3>1
  <2>3. GrantedOn(resv, clock) = {}
    BY <2>2, NoneOnDay
  <2>4. SourceState = emptyState(clock)
    BY <1>3 DEF SourceState
  <2>5. QED
    BY <1>1, <2>3, <2>4, EmptyCovers
<1>4. QED
  BY <1>2, <1>3

\* Only r begins to wait for a write.
OnlyBegins(r, before, during) ==
  \A q \in Requests \ {r} :
    during[q] = before[q] /\ before[q].status \notin {"reserving", "settling"}

\* But for r, the same reservations count on a day, and as much.
OthersAgree(r, before, after, day) ==
  \A q \in Requests \ {r} :
    /\ CountsOn(after, q, day) <=> CountsOn(before, q, day)
    /\ CountsOn(after, q, day) =>
         /\ CostOf(after[q]) = CostOf(before[q])
         /\ TokensOf(after[q]) = TokensOf(before[q])
         /\ SpendOf(after[q]) = SpendOf(before[q])

\* A write for one reservation leaves what the others count.
LEMMA OthersKeep ==
  ASSUME NEW now, NEW next, NEW before \in Maps, NEW during \in Maps, NEW r, NEW day
  PROVE  OnlyBegins(r, before, during)
         => OthersAgree(r, before, OnceDone(now, next, during), day)
<1> DEFINE after == OnceDone(now, next, during)
<1> SUFFICES ASSUME OnlyBegins(r, before, during), NEW q \in Requests \ {r}
             PROVE  /\ CountsOn(after, q, day) <=> CountsOn(before, q, day)
                    /\ CountsOn(after, q, day) => /\ CostOf(after[q]) = CostOf(before[q])
                                                  /\ TokensOf(after[q]) = TokensOf(before[q])
                                                  /\ SpendOf(after[q]) = SpendOf(before[q])
  BY DEF OthersAgree
<1>1. before[q] \in Reservations /\ after[q] \in Reservations
  BY OnceDoneType DEF Maps
<1>2. SameData(before[q], after[q]) /\ after[q].status = before[q].status
  BY OnceDoneIs DEF OnlyBegins
<1> HIDE DEF after
<1>3. before[q].status \in GrantedStatuses =>
        /\ CostOf(after[q]) = CostOf(before[q])
        /\ TokensOf(after[q]) = TokensOf(before[q]) /\ SpendOf(after[q]) = SpendOf(before[q])
  BY <1>1, <1>2, SameCounts
<1>4. after[q].window = before[q].window
  BY <1>2 DEF SameData
<1>5. QED
  BY <1>2, <1>3, <1>4 DEF CountsOn

\* reserve adds what will be granted to the ledger before it is granted.
LEMMA ReserveCount ==
  ASSUME TypeOK, TypeOK', EntryInv, OpenInv, CountInv,
         NEW r \in Requests, NEW k \in Identities, NEW res, NEW victims,
         ReserveStep(r, k, res, victims)
  PROVE  CountInv'
<1>1. /\ resv \in Maps /\ resv' \in Maps /\ mem \in LedgerStates /\ disk \in LedgerStates
      /\ op'.next \in LedgerStates /\ SourceState \in LedgerStates
      /\ \A day : IsFiniteSet(GrantedOn(resv, day))
  BY CountFacts, FiniteDays, SourceStateType DEF TypeOK, Maps, Ops
<1>2. /\ mem' = mem /\ disk' = disk /\ phase' = phase /\ phase # "down" /\ op = Idle
      /\ crashes' = crashes /\ writeFailures' = writeFailures
      /\ resv[r].status = "new" /\ resv' = [resv EXCEPT ![r] = res]
      /\ res \in Reservations /\ res.status = "reserving" /\ res.window = clock
      /\ op'.next = Charged(Drop(SourceState, victims), k, res)
  BY DEF ReserveStep
<1>3. /\ resv'[r] = res
      /\ \A q \in Requests \ {r} : resv'[q] = resv[q] /\ resv[q].status \notin {"reserving", "settling"}
  BY <1>1, <1>2, NoneWaits DEF Maps
<1>4. NoDearer(resv, resv') /\ SameTallies(resv, resv')
  <2>1. ASSUME NEW q \in Requests
        PROVE  CostOf(resv[q]) \in Nat
    BY <1>1, CountsAreNat DEF Maps
  <2>2. ASSUME NEW q \in Requests, resv'[q].status \in GrantedStatuses \/ resv[q].status \in GrantedStatuses
        PROVE  resv'[q] = resv[q] /\ CostOf(resv'[q]) <= CostOf(resv[q])
    BY <1>2, <1>3, <2>1, <2>2 DEF GrantedStatuses
  <2>3. QED
    BY <2>2 DEF NoDearer, SameTallies
<1>5. Covers(mem', resv') /\ Covers(disk', resv')
  BY <1>1, <1>2, <1>4, CountsKept DEF CountInv
<1>6. crashes + writeFailures = 0 => Matches(mem', resv')
  BY <1>1, <1>2, <1>4, CountsKept DEF CountInv
<1> DEFINE day == SourceState.window
           after == OnceDone(mem', op'.next, resv')
<1>7. /\ op'.next.window = day /\ day = clock
      /\ op'.next.provider = Charge(SourceState.provider, res.tokens, res.spend)
  BY <1>2 DEF Charged, Drop, SourceState, emptyState
<1>8. /\ op'.next.provider.requests = SourceState.provider.requests + 1
      /\ op'.next.provider.tokens = SourceState.provider.tokens + res.tokens
      /\ op'.next.provider.spend = SourceState.provider.spend + res.spend
  BY <1>7 DEF Charge
<1>9. /\ after \in Maps /\ after[r] \in Reservations /\ SameData(res, after[r]) /\ after[r].status = "live"
  <2>1. after \in Maps
    BY <1>1, OnceDoneType
  <2>2. after[r] \in Reservations /\ SameData(resv'[r], after[r])
    BY <1>1, OnceDoneIs
  <2>3. resv'[r].status = "reserving"
    BY <1>2, <1>3
  <2>4. after[r].status = "live"
    BY <1>1, <2>3, OnceDoneIs
  <2>5. QED
    BY <1>3, <2>1, <2>2, <2>4
<1>10. after = Expected'
  BY DEF Expected
<1>11. OthersAgree(r, resv, after, day)
  <2>1. OnlyBegins(r, resv, resv')
    BY <1>3 DEF OnlyBegins
  <2>2. QED
    BY <1>1, <2>1, OthersKeep
<1> HIDE DEF after
<1>12. /\ CountsOn(after, r, day) /\ ~CountsOn(resv, r, day)
       /\ CostOf(after[r]) = res.spend /\ SpendOf(after[r]) = res.spend /\ TokensOf(after[r]) = res.tokens
  <2>1. CostOf(after[r]) = after[r].spend
    BY <1>9, CostIs
  <2>2. QED
    BY <1>2, <1>7, <1>9, <2>1 DEF CountsOn, GrantedStatuses, SameData, SpendOf, TokensOf
<1>13. /\ SourceState.provider.requests \in Nat /\ SourceState.provider.tokens \in Nat
       /\ SourceState.provider.spend \in Nat /\ res.tokens \in Nat /\ res.spend \in Nat
  BY <1>1, <1>2 DEF LedgerStates, Counters, Reservations
<1>14. /\ op'.next.provider.spend + Share(resv, r, day, CostOf(resv[r]))
            = SourceState.provider.spend + Share(after, r, day, CostOf(after[r]))
       /\ op'.next.provider.spend + Share(resv, r, day, SpendOf(resv[r]))
            = SourceState.provider.spend + Share(after, r, day, SpendOf(after[r]))
       /\ op'.next.provider.tokens + Share(resv, r, day, TokensOf(resv[r]))
            = SourceState.provider.tokens + Share(after, r, day, TokensOf(after[r]))
       /\ op'.next.provider.requests + Share(resv, r, day, 1)
            = SourceState.provider.requests + Share(after, r, day, 1)
  BY <1>8, <1>12, <1>13 DEF Share
<1> HIDE DEF day
<1>15. Covers(op'.next, after)
  <2>1. Covers(SourceState, resv)
    BY <1>2, SourceCounts
  <2>2. QED
    BY <1>1, <1>7, <1>9, <1>11, <1>14, <2>1, CoversMoved DEF day, OthersAgree
<1>16. crashes + writeFailures = 0 => Matches(op'.next, after)
  <2> SUFFICES ASSUME crashes + writeFailures = 0 PROVE Matches(op'.next, after)
    OBVIOUS
  <2>1. Matches(SourceState, resv)
    BY <1>2, SourceCounts
  <2>2. QED
    BY <1>1, <1>7, <1>9, <1>11, <1>14, <2>1, MatchesMoved DEF day, OthersAgree
<1>17. QED
  BY <1>2, <1>5, <1>6, <1>10, <1>15, <1>16 DEF CountInv

\* settle takes off the reservation and adds the report; until that is on the disk the
\* reservation counts the smaller of both.
LEMMA SettleCount ==
  ASSUME TypeOK, TypeOK', EntryInv, OpenInv, OpenInv', CountInv,
         NEW r \in Requests, NEW res, SettleStep(r, res)
  PROVE  CountInv'
<1>1. /\ resv \in Maps /\ resv' \in Maps /\ mem \in LedgerStates /\ disk \in LedgerStates
      /\ \A day : IsFiniteSet(GrantedOn(resv, day))
  BY CountFacts, FiniteDays DEF TypeOK, Maps
<1>2. /\ mem' = mem /\ disk' = disk /\ phase' = phase /\ phase = "serving" /\ op = Idle
      /\ crashes' = crashes /\ writeFailures' = writeFailures
      /\ resv[r].status = "live" /\ resv[r].window = mem.window /\ res \in Reservations
  BY DEF SettleStep
<1>3. /\ res.window = resv[r].window /\ res.tokens = resv[r].tokens /\ res.spend = resv[r].spend
  <2>1. resv[r] \in Reservations
    BY <1>1 DEF Maps
  <2>2. QED
    BY <2>1 DEF SettleStep, Reservations
<1>4. PICK status \in {"uncertain", "settling"} : resv' = [resv EXCEPT ![r] = [res EXCEPT !.status = status]]
  BY DEF SettleStep
<1>5. /\ resv'[r].status = status /\ resv'[r] \in Reservations /\ SameData(res, resv'[r])
      /\ \A q \in Requests \ {r} : resv'[q] = resv[q] /\ resv[q].status \notin {"reserving", "settling"}
  <2>1. resv'[r] = [res EXCEPT !.status = status] /\ resv'[r] \in Reservations
    BY <1>1, <1>4 DEF Maps
  <2>2. \A q \in Requests \ {r} : resv'[q] = resv[q]
    BY <1>1, <1>4 DEF Maps
  <2>3. \A q \in Requests : resv[q].status \notin {"reserving", "settling"}
    BY <1>2, NoneWaits
  <2>4. QED
    BY <1>2, <2>1, <2>2, <2>3 DEF Reservations, SameData
<1>6. NoDearer(resv, resv') /\ SameTallies(resv, resv')
  <2>1. /\ CostOf(resv'[r]) <= CostOf(resv[r]) /\ TokensOf(resv'[r]) = TokensOf(resv[r])
        /\ SpendOf(resv'[r]) = SpendOf(resv[r]) /\ resv'[r].window = resv[r].window
    <3>1. resv[r] \in Reservations
      BY <1>1 DEF Maps
    <3>2. /\ resv'[r].window = resv[r].window /\ resv'[r].tokens = resv[r].tokens
          /\ resv'[r].spend = resv[r].spend
      BY <1>3, <1>5 DEF SameData
    <3>3. QED
      BY <1>2, <1>5, <3>1, <3>2, ReportCounts
  <2>2. ASSUME NEW q \in Requests \ {r}
        PROVE  resv'[q] = resv[q] /\ CostOf(resv'[q]) <= CostOf(resv[q])
    <3>1. CostOf(resv[q]) \in Nat /\ resv'[q] = resv[q]
      BY <1>1, <1>5, CountsAreNat DEF Maps
    <3>2. QED
      BY <3>1
  <2>3. resv[r].status \in GrantedStatuses /\ resv'[r].status \in GrantedStatuses
    BY <1>2, <1>5 DEF GrantedStatuses
  <2>4. QED
    BY <2>1, <2>2, <2>3 DEF NoDearer, SameTallies
<1>7. Covers(mem', resv') /\ Covers(disk', resv')
  BY <1>1, <1>2, <1>6, CountsKept DEF CountInv
<1>8. crashes + writeFailures = 0 => Matches(mem', resv')
  BY <1>1, <1>2, <1>6, CountsKept DEF CountInv
<1>9. CASE op' = op /\ resv' = [resv EXCEPT ![r] = [res EXCEPT !.status = "uncertain"]]
  <2>1. op'.next = NoState /\ Expected' = OnceDone(mem', NoState, resv')
    BY <1>2, <1>9 DEF Idle, Expected
  <2>2. \A q \in Requests : resv'[q].status \notin {"reserving", "settling"}
    <3>1. resv'[r] = [res EXCEPT !.status = "uncertain"]
      BY <1>1, <1>9 DEF Maps
    <3>2. resv'[r].status = "uncertain"
      BY <1>2, <3>1 DEF Reservations
    <3>3. QED
      BY <1>5, <3>2
  <2>3. ASSUME NEW q \in Requests, resv'[q].status \in GrantedStatuses PROVE resv'[q].window # 0
    BY <1>1, <2>3 DEF OpenInv, GrantsAreReached, Granted, Maps, Reservations
  <2>4. Covers(op'.next, Expected') /\ Matches(op'.next, Expected')
    BY <1>1, <2>1, <2>2, <2>3, IdleCounts
  <2>5. QED
    BY <1>2, <1>7, <1>8, <2>4 DEF CountInv
<1>10. CASE /\ ~SettleUnderflows(res) /\ op'.next = SettledState(res) /\ op'.next \in LedgerStates
            /\ resv' = [resv EXCEPT ![r] = [res EXCEPT !.status = "settling"]]
  <2> DEFINE day == mem.window
             after == OnceDone(mem', op'.next, resv')
  <2>1. /\ op'.next.window = day
        /\ op'.next.provider = Adjust(mem.provider, res, res.spend)
    BY <1>10 DEF SettledState
  <2>2. /\ op'.next.provider.requests = mem.provider.requests
        /\ op'.next.provider.tokens = mem.provider.tokens + res.actualTokens - res.tokens
        /\ op'.next.provider.spend = mem.provider.spend + res.actualSpend - res.spend
    BY <2>1 DEF Adjust
  <2>3. resv'[r].status = "settling"
    <3>1. resv'[r] = [res EXCEPT !.status = "settling"]
      BY <1>1, <1>10 DEF Maps
    <3>2. QED
      BY <1>2, <3>1 DEF Reservations
  <2>4. /\ after \in Maps /\ after[r] \in Reservations /\ SameData(res, after[r])
        /\ after[r].status = "settled"
    <3>1. after \in Maps
      BY <1>1, OnceDoneType
    <3>2. after[r] \in Reservations /\ SameData(resv'[r], after[r])
      BY <1>1, OnceDoneIs
    <3>3. after[r].status = "settled"
      BY <1>1, <2>3, OnceDoneIs
    <3>4. QED
      BY <1>5, <3>1, <3>2, <3>3 DEF SameData
  <2>5. after = Expected'
    BY DEF Expected
  <2>6. OthersAgree(r, resv, after, day)
    <3>1. OnlyBegins(r, resv, resv')
      BY <1>5 DEF OnlyBegins
    <3>2. QED
      BY <1>1, <3>1, OthersKeep
  <2> HIDE DEF after
  <2>7. /\ CountsOn(after, r, day) /\ CountsOn(resv, r, day)
        /\ CostOf(after[r]) = res.actualSpend /\ CostOf(resv[r]) = res.spend
        /\ SpendOf(after[r]) = res.actualSpend /\ SpendOf(resv[r]) = res.spend
        /\ TokensOf(after[r]) = res.actualTokens /\ TokensOf(resv[r]) = res.tokens
    <3>1. CostOf(after[r]) = after[r].actualSpend
      BY <2>4, CostIs
    <3>2. resv[r] \in Reservations
      BY <1>1 DEF Maps
    <3>3. CostOf(resv[r]) = resv[r].spend
      BY <1>2, <3>2, CostIs
    <3>4. CountsOn(after, r, day) /\ CountsOn(resv, r, day)
      BY <1>2, <1>3, <2>4 DEF CountsOn, GrantedStatuses, SameData
    <3>5. QED
      BY <1>2, <1>3, <2>4, <3>1, <3>3, <3>4 DEF SameData, SpendOf, TokensOf
  <2>8. /\ mem.provider.requests \in Nat /\ mem.provider.tokens \in Nat /\ mem.provider.spend \in Nat
        /\ res.tokens \in Nat /\ res.spend \in Nat /\ res.actualTokens \in Nat /\ res.actualSpend \in Nat
    BY <1>1, <1>2 DEF LedgerStates, Counters, Reservations
  <2>9. /\ op'.next.provider.spend + Share(resv, r, day, CostOf(resv[r]))
             = mem.provider.spend + Share(after, r, day, CostOf(after[r]))
        /\ op'.next.provider.spend + Share(resv, r, day, SpendOf(resv[r]))
             = mem.provider.spend + Share(after, r, day, SpendOf(after[r]))
        /\ op'.next.provider.tokens + Share(resv, r, day, TokensOf(resv[r]))
             = mem.provider.tokens + Share(after, r, day, TokensOf(after[r]))
        /\ op'.next.provider.requests + Share(resv, r, day, 1)
             = mem.provider.requests + Share(after, r, day, 1)
    BY <2>2, <2>7, <2>8 DEF Share
  <2>10. Covers(op'.next, after)
    <3>1. Covers(mem, resv)
      BY DEF CountInv
    <3>2. QED
      BY <1>1, <1>10, <2>1, <2>4, <2>6, <2>9, <3>1, CoversMoved DEF OthersAgree
  <2>11. crashes + writeFailures = 0 => Matches(op'.next, after)
    <3> SUFFICES ASSUME crashes + writeFailures = 0 PROVE Matches(op'.next, after)
      OBVIOUS
    <3>1. Matches(mem, resv)
      BY DEF CountInv
    <3>2. QED
      BY <1>1, <1>10, <2>1, <2>4, <2>6, <2>9, <3>1, MatchesMoved DEF OthersAgree
  <2>12. QED
    BY <1>2, <1>7, <1>8, <2>5, <2>10, <2>11 DEF CountInv
<1>11. QED
  BY <1>9, <1>10 DEF SettleStep

LEMMA NextCount ==
  ASSUME TypeOK, TypeOK', EntryInv, EntryInv', OpenInv, OpenInv', HeldInv, CountInv, SomeStep
  PROVE  CountInv'
<1>1. ASSUME NEW r \in Requests, NEW k \in Identities, NEW res, NEW victims,
             ReserveStep(r, k, res, victims)
      PROVE  CountInv'
  BY <1>1, ReserveCount
<1>2. ASSUME NEW r \in Requests, NEW res, SettleStep(r, res)
      PROVE  CountInv'
  BY <1>2, SettleCount
<1>3. QED
  BY <1>1, <1>2, QuietCount, RenewCount, LoadCount, PublishCount, GiveUpCount, RenameCount DEF SomeStep

\* What every step keeps, but for the entries.
LedgerInv == TypeOK /\ EntryInv /\ OpenInv /\ HeldInv /\ CountInv

\* The inductive invariant of the ledger, in its parts.
LEMMA LedgerInvariant == Spec => []LedgerInv
<1>1. Init => LedgerInv
  BY InitType, InitEntry, InitOpen, InitHeld, InitCount DEF LedgerInv
<1>2. LedgerInv /\ [Next]_vars => LedgerInv'
  <2> SUFFICES ASSUME TypeOK, EntryInv, OpenInv, HeldInv, CountInv, [Next]_vars
               PROVE  LedgerInv'
    BY DEF LedgerInv
  <2>1. TypeOK' /\ EntryInv' /\ SomeStep
    BY NextType, NextEntry, EveryStep
  <2>2. OpenInv' /\ HeldInv'
    BY <2>1, NextOpen, NextHeld
  <2>3. CountInv'
    BY <2>1, <2>2, NextCount
  <2>4. QED
    BY <2>1, <2>2, <2>3 DEF LedgerInv
<1>3. QED
  BY <1>1, <1>2, PTL DEF Spec

\* Durable before granted, for every configuration and any number of requests, crashes and failed
\* writes: the ledger in memory and the one on the disk each cover the cost of every request that
\* was granted on their day, so that a restart forgets no grant (reserve and settle await
\* writeState before they publish); and while nothing failed, the provider's counters are exactly
\* the requests granted today.
THEOREM GrantsStayCounted == Spec => []GrantsAreCounted
<1>1. LedgerInv => GrantsAreCounted
  BY DEF LedgerInv, CountInv, GrantsAreCounted, LedgersCoverGrants, ProviderExactWithoutFaults
<1>2. QED
  BY <1>1, LedgerInvariant, PTL

-----------------------------------------------------------------------------
(* The entries of the wallets *)

\* The entries cover what is charged to them, and will once the write under way is done.
EntriesInv ==
  \A k \in Identities : EntryCovers(mem, resv, k) /\ EntryCovers(op.next, Expected, k)

\* What is charged to k afterwards was charged before, and for no less.
ChargesKept(before, after, k) ==
  \A q \in ChargedTo(after, k) :
    q \in ChargedTo(before, k) /\ EntryCostOf(after[q]) <= EntryCostOf(before[q])

\* An entry that does not change covers what stays charged to it.
LEMMA ChargesAreKept ==
  ASSUME NEW ledger \in LedgerStates, NEW next \in LedgerStates, NEW k \in Identities,
         NEW before \in Maps, NEW after \in Maps, next.use[k] = ledger.use[k],
         IsFiniteSet(ChargedTo(before, k))
  PROVE  ChargesKept(before, after, k) /\ EntryCovers(ledger, before, k) => EntryCovers(next, after, k)
<1> SUFFICES ASSUME ChargesKept(before, after, k), EntryCovers(ledger, before, k)
             PROVE  EntryCovers(next, after, k)
  OBVIOUS
<1>1. EntryCovers(ledger, after, k)
  BY EntryKept DEF ChargesKept
<1>2. QED
  BY <1>1, EntrySame

\* A reservation of which no more is charged.
LEMMA ChargeFalls ==
  ASSUME NEW a \in Reservations, NEW b \in Reservations, SameData(a, b),
         \/ b.status = a.status
         \/ a.status = "live" /\ b.status = "kept"
         \/ b.status \notin {"live", "kept", "settled"}
  PROVE  EntryCostOf(b) <= EntryCostOf(a)
<1>1. EntryCostOf(a) \in Nat /\ EntryCostOf(b) \in Nat
  BY CountsAreNat
<1>2. CASE b.status \notin {"live", "kept", "settled"}
  <2>1. EntryCostOf(b) = 0
    BY <1>2, EntryCostIs
  <2>2. QED
    BY <1>1, <2>1
<1>3. CASE b.status \in {"live", "kept"}
  <2>1. a.status \in {"live", "kept"}
    BY <1>3
  <2>2. EntryCostOf(a) = a.idSpend /\ EntryCostOf(b) = b.idSpend
    BY <1>3, <2>1, EntryCostIs
  <2>3. QED
    BY <1>1, <2>2 DEF SameData
<1>4. CASE b.status = "settled"
  <2>1. a.status = "settled"
    BY <1>4
  <2>2. EntryCostOf(a) = a.actualSpend /\ EntryCostOf(b) = b.actualSpend
    BY <1>4, <2>1, EntryCostIs
  <2>3. QED
    BY <1>1, <2>2 DEF SameData
<1>5. QED
  BY <1>2, <1>3, <1>4

LEMMA ChargedFacts ==
  ASSUME TypeOK, EntryInv, OpenInv, HeldInv
  PROVE  /\ \A k : IsFiniteSet(ChargedTo(resv, k)) /\ IsFiniteSet(ChargedTo(Expected, k))
         /\ \A q \in Requests : resv[q].held => resv[q].status \in GrantedStatuses
<1>1. \A q \in Requests : resv[q].held => resv[q].status \in GrantedStatuses
  BY DEF HeldInv, Granted
<1>2. ASSUME NEW k PROVE IsFiniteSet(ChargedTo(resv, k)) /\ IsFiniteSet(ChargedTo(Expected, k))
  <2>1. ChargedTo(resv, k) \subseteq Open
    BY <1>1 DEF ChargedTo, Open
  <2>2. ASSUME NEW q \in Requests, Expected[q].held PROVE q \in Open
    <3>1. resv \in Maps
      BY DEF TypeOK, Maps
    <3>2. resv[q].status \in {"reserving", "settling"} \/ resv[q].held
      BY <2>2, <3>1, OnceDoneIs DEF Expected
    <3>3. QED
      BY <1>1, <3>2 DEF Open, GrantedStatuses
  <2>3. ChargedTo(Expected, k) \subseteq Open
    BY <2>2 DEF ChargedTo
  <2>4. QED
    BY <2>1, <2>3, FS_Subset DEF OpenInv
<1>3. QED
  BY <1>1, <1>2

LEMMA NoneCharged ==
  ASSUME NEW reservations, NEW k,
         \A q \in Requests : reservations[q].held => reservations[q].key # k
  PROVE  ChargedTo(reservations, k) = {}
BY DEF ChargedTo

\* Without a write under way nothing is expected of the ledger of no day.
LEMMA IdleEntries ==
  ASSUME NEW now, NEW before \in Maps, NEW k \in Identities,
         \A q \in Requests : before[q].status \notin {"reserving", "settling"}
  PROVE  EntryCovers(NoState, OnceDone(now, NoState, before), k)
<1> DEFINE after == OnceDone(now, NoState, before)
<1>1. \A q \in Requests : ~after[q].held
  <2>1. NoState.tracked = {}
    BY DEF NoState, emptyState
  <2>2. QED
    BY <2>1, OnceDoneIs
<1>2. ChargedTo(after, k) = {}
  BY <1>1 DEF ChargedTo
<1>3. NoState \in LedgerStates
  BY EmptyStateType DEF NoState
<1>4. QED
  BY <1>2, <1>3, EntryEmpty

LEMMA InitEntries == Init => EntriesInv
<1> SUFFICES ASSUME Init, NEW k \in Identities
             PROVE  EntryCovers(mem, resv, k) /\ EntryCovers(op.next, Expected, k)
  BY DEF EntriesInv
<1>1. resv \in Maps /\ mem \in LedgerStates
  BY InitType DEF TypeOK, Maps
<1>2. \A q \in Requests : resv[q].status = "new" /\ ~resv[q].held
  BY DEF Init, NewReservation
<1>3. EntryCovers(mem, resv, k)
  BY <1>1, <1>2, NoneCharged, EntryEmpty
<1>4. op.next = NoState
  BY DEF Init, Idle
<1>5. EntryCovers(NoState, OnceDone(mem, NoState, resv), k)
  BY <1>1, <1>2, IdleEntries
<1>6. QED
  BY <1>3, <1>4, <1>5 DEF Expected

LEMMA QuietEntries ==
  ASSUME TypeOK, TypeOK', EntryInv, OpenInv, HeldInv, EntriesInv, QuietStep,
         NEW k \in Identities
  PROVE  EntryCovers(mem', resv', k) /\ EntryCovers(op'.next, Expected', k)
<1>1. /\ resv \in Maps /\ resv' \in Maps /\ Expected \in Maps /\ Expected' \in Maps
      /\ mem \in LedgerStates /\ op.next \in LedgerStates
      /\ IsFiniteSet(ChargedTo(resv, k)) /\ IsFiniteSet(ChargedTo(Expected, k))
  BY CountFacts, ChargedFacts, OnceDoneType DEF TypeOK, Maps, Expected
<1>2. mem' = mem /\ op' = op
  BY DEF QuietStep
<1>3. ASSUME NEW q \in Requests
      PROVE  /\ SameData(resv[q], resv'[q]) /\ resv'[q].held = resv[q].held
             /\ \/ resv'[q] = resv[q]
                \/ resv[q].status = "new" /\ resv'[q].status = "refused"
                \/ resv[q].status = "live" /\ resv'[q].status = "kept"
  <2>1. resv[q] \in Reservations
    BY <1>1 DEF Maps
  <2>2. ASSUME NEW st, resv'[q] = [resv[q] EXCEPT !.status = st]
        PROVE  SameData(resv[q], resv'[q]) /\ resv'[q].status = st /\ resv'[q].held = resv[q].held
    BY <2>1, <2>2 DEF Reservations, SameData
  <2>3. \/ resv'[q] = resv[q]
        \/ resv[q].status = "new" /\ resv'[q] = [resv[q] EXCEPT !.status = "refused"]
        \/ resv[q].status = "live" /\ resv'[q] = [resv[q] EXCEPT !.status = "kept"]
    BY DEF QuietStep
  <2>4. QED
    BY <2>2, <2>3 DEF SameData
<1>4. ChargesKept(resv, resv', k)
  <2> SUFFICES ASSUME NEW q \in ChargedTo(resv', k)
               PROVE  q \in ChargedTo(resv, k) /\ EntryCostOf(resv'[q]) <= EntryCostOf(resv[q])
    BY DEF ChargesKept
  <2>1. q \in Requests /\ resv[q] \in Reservations /\ resv'[q] \in Reservations
    BY <1>1 DEF Maps, ChargedTo
  <2>2. q \in ChargedTo(resv, k)
    BY <1>3, <2>1 DEF ChargedTo, SameData
  <2>3. EntryCostOf(resv'[q]) <= EntryCostOf(resv[q])
    BY <1>3, <2>1, ChargeFalls
  <2>4. QED
    BY <2>2, <2>3
<1>5. ChargesKept(Expected, Expected', k)
  <2> SUFFICES ASSUME NEW q \in ChargedTo(Expected', k)
               PROVE  q \in ChargedTo(Expected, k) /\ EntryCostOf(Expected'[q]) <= EntryCostOf(Expected[q])
    BY DEF ChargesKept
  <2>1. /\ q \in Requests /\ Expected[q] \in Reservations /\ Expected'[q] \in Reservations
        /\ Expected'[q].held /\ Expected'[q].key = k
    BY <1>1 DEF Maps, ChargedTo
  <2>2. CASE resv'[q] = resv[q]
    <3>1. Expected'[q] = Expected[q]
      BY <1>2, <2>1, <2>2 DEF Expected, OnceDone
    <3>2. SameData(Expected[q], Expected'[q]) /\ Expected'[q].status = Expected[q].status
      BY <3>1 DEF SameData
    <3>3. EntryCostOf(Expected'[q]) <= EntryCostOf(Expected[q])
      BY <2>1, <3>2, ChargeFalls
    <3>4. QED
      BY <2>1, <3>1, <3>3 DEF ChargedTo
  <2>3. CASE \/ resv[q].status = "new" /\ resv'[q].status = "refused"
             \/ resv[q].status = "live" /\ resv'[q].status = "kept"
    <3>1. /\ SameData(resv[q], Expected[q]) /\ Expected[q].status = resv[q].status
          /\ Expected[q].held <=> /\ resv[q].held /\ op.next.window = mem.window
                                  /\ resv[q].key \in op.next.tracked
      BY <1>1, <2>1, <2>3, OnceDoneIs DEF Expected
    <3>2. /\ SameData(resv'[q], Expected'[q]) /\ Expected'[q].status = resv'[q].status
          /\ Expected'[q].held <=> /\ resv'[q].held /\ op'.next.window = mem'.window
                                   /\ resv'[q].key \in op'.next.tracked
      BY <1>1, <2>1, <2>3, OnceDoneIs DEF Expected
    <3>3. SameData(resv[q], resv'[q]) /\ resv'[q].held = resv[q].held
      BY <1>3, <2>1
    <3>4. SameData(Expected[q], Expected'[q])
      BY <3>1, <3>2, <3>3 DEF SameData
    <3>5. EntryCostOf(Expected'[q]) <= EntryCostOf(Expected[q])
      BY <2>1, <2>3, <3>1, <3>2, <3>4, ChargeFalls
    <3>6. Expected[q].held /\ Expected[q].key = k
      <4>1. Expected[q].key = Expected'[q].key /\ resv'[q].key = resv[q].key
        BY <3>3, <3>4 DEF SameData
      <4>2. QED
        BY <1>2, <2>1, <3>1, <3>2, <3>3, <4>1
    <3>7. QED
      BY <2>1, <3>5, <3>6 DEF ChargedTo
  <2>4. QED
    BY <1>3, <2>1, <2>2, <2>3
<1>6. EntryCovers(mem, resv, k) /\ EntryCovers(op.next, Expected, k)
  BY DEF EntriesInv
<1>7. EntryCovers(mem', resv', k)
  BY <1>1, <1>2, <1>4, <1>6, ChargesAreKept
<1>8. EntryCovers(op'.next, Expected', k)
  BY <1>1, <1>2, <1>5, <1>6, ChargesAreKept
<1>9. QED
  BY <1>7, <1>8

\* With nothing waiting, what stays charged once the write is done was charged before; and it is
\* charged to a tracked entry of the same day.
LEMMA DoneCharges ==
  ASSUME NEW now, NEW next, NEW before \in Maps, NEW k,
         \A q \in Requests : before[q].status \notin {"reserving", "settling"}
  PROVE  /\ ChargesKept(before, OnceDone(now, next, before), k)
         /\ k \notin next.tracked \/ next.window # now.window =>
              ChargedTo(OnceDone(now, next, before), k) = {}
<1> DEFINE after == OnceDone(now, next, before)
<1>1. ASSUME NEW q \in Requests
      PROVE  /\ before[q] \in Reservations /\ after[q] \in Reservations
             /\ SameData(before[q], after[q]) /\ after[q].status = before[q].status
             /\ after[q].held => /\ before[q].held /\ next.window = now.window
                                 /\ before[q].key \in next.tracked
  <2>1. before[q] \in Reservations
    BY DEF Maps
  <2>2. QED
    BY <2>1, OnceDoneIs
<1> HIDE DEF after
<1>2. ASSUME NEW q \in ChargedTo(after, k)
      PROVE  q \in ChargedTo(before, k) /\ EntryCostOf(after[q]) <= EntryCostOf(before[q])
  <2>1. q \in Requests
    BY DEF ChargedTo
  <2>2. EntryCostOf(after[q]) <= EntryCostOf(before[q])
    BY <1>1, <2>1, ChargeFalls
  <2>3. QED
    BY <1>1, <2>1, <2>2 DEF ChargedTo, SameData
<1>3. k \notin next.tracked \/ next.window # now.window => ChargedTo(after, k) = {}
  BY <1>1 DEF ChargedTo, SameData
<1>4. QED
  BY <1>2, <1>3 DEF ChargesKept, after

LEMMA RenewEntries ==
  ASSUME TypeOK, TypeOK', EntryInv, OpenInv, HeldInv, EntriesInv, RenewStep, NEW k \in Identities
  PROVE  EntryCovers(mem', resv', k) /\ EntryCovers(op'.next, Expected', k)
<1>1. /\ resv \in Maps /\ Expected' \in Maps /\ mem \in LedgerStates /\ op'.next \in LedgerStates
      /\ IsFiniteSet(ChargedTo(resv, k))
  <2>1. resv' \in Maps /\ op'.next \in LedgerStates
    BY DEF TypeOK, Maps, Ops
  <2>2. QED
    BY <2>1, CountFacts, ChargedFacts, OnceDoneType DEF Expected
<1>2. mem' = mem /\ resv' = resv /\ op = Idle /\ EntryCovers(mem, resv, k)
  BY DEF RenewStep, EntriesInv
<1>3. \A q \in Requests : resv[q].status \notin {"reserving", "settling"}
  BY <1>2, NoneWaits
<1>4. Expected' = OnceDone(mem, op'.next, resv)
  BY <1>2 DEF Expected
<1>5. /\ ChargesKept(resv, Expected', k)
      /\ k \notin op'.next.tracked \/ op'.next.window # mem.window => ChargedTo(Expected', k) = {}
  BY <1>1, <1>3, <1>4, DoneCharges
<1>6. CASE ChargedTo(Expected', k) = {}
  BY <1>1, <1>2, <1>6, EntryEmpty
<1>7. CASE k \in op'.next.tracked /\ op'.next.window = mem.window
  <2>1. PICK gone : op'.next = Drop(mem, gone)
    <3>1. emptyState(clock).window = clock
      BY DEF emptyState
    <3>2. QED
      BY <1>7, <3>1 DEF RenewStep
  <2>2. k \notin gone
    BY <1>7, <2>1 DEF Drop
  <2>3. op'.next.use[k] = mem.use[k]
    BY <2>1, <2>2 DEF Drop
  <2>4. QED
    BY <1>1, <1>2, <1>5, <2>3, ChargesAreKept
<1>8. QED
  BY <1>5, <1>6, <1>7

LEMMA LoadEntries ==
  ASSUME TypeOK, TypeOK', EntryInv, OpenInv, HeldInv, LoadStep, NEW k \in Identities
  PROVE  EntryCovers(mem', resv', k) /\ EntryCovers(op'.next, Expected', k)
<1>1. resv \in Maps /\ mem' \in LedgerStates /\ op'.next \in LedgerStates
  BY DEF TypeOK, Maps, Ops
<1>2. resv' = resv /\ phase = "down"
  BY DEF LoadStep
<1>3. \A q \in Requests : ~resv[q].held /\ resv[q].status \notin {"reserving", "settling"}
  BY <1>2, NoneWaits DEF HeldInv
<1>4. ChargedTo(resv', k) = {}
  BY <1>2, <1>3, NoneCharged
<1>5. Expected' = OnceDone(mem', op'.next, resv)
  BY <1>2 DEF Expected
<1>6. \A q \in Requests : ~Expected'[q].held
  BY <1>1, <1>3, <1>5, OnceDoneIs
<1>7. ChargedTo(Expected', k) = {}
  BY <1>6 DEF ChargedTo
<1>8. QED
  BY <1>1, <1>4, <1>7, EntryEmpty

LEMMA PublishEntries ==
  ASSUME TypeOK, TypeOK', EntryInv', OpenInv', EntriesInv, PublishStep, NEW k \in Identities
  PROVE  EntryCovers(mem', resv', k) /\ EntryCovers(op'.next, Expected', k)
<1>1. resv' = Expected /\ mem' = op.next /\ op' = Idle
  BY DEF PublishStep
<1>2. resv' \in Maps /\ resv \in Maps
  BY DEF TypeOK, Maps
<1>3. \A q \in Requests : resv'[q].status \notin {"reserving", "settling"}
  BY <1>1, <1>2, OnceDoneIs DEF Expected
<1>4. EntryCovers(NoState, OnceDone(mem', NoState, resv'), k)
  BY <1>2, <1>3, IdleEntries
<1>5. Expected' = OnceDone(mem', NoState, resv') /\ op'.next = NoState
  BY <1>1 DEF Expected, Idle
<1>6. EntryCovers(mem', resv', k)
  BY <1>1 DEF EntriesInv
<1>7. QED
  BY <1>4, <1>5, <1>6

LEMMA GiveUpEntries ==
  ASSUME TypeOK, TypeOK', EntryInv, OpenInv, HeldInv, EntriesInv, GiveUpStep, NEW k \in Identities
  PROVE  EntryCovers(mem', resv', k) /\ EntryCovers(op'.next, Expected', k)
<1>1. /\ resv \in Maps /\ resv' \in Maps /\ mem \in LedgerStates /\ mem' \in LedgerStates
      /\ IsFiniteSet(ChargedTo(resv, k))
  BY ChargedFacts DEF TypeOK, Maps
<1>2. ASSUME NEW q \in Requests
      PROVE  /\ SameData(resv[q], resv'[q]) /\ (resv'[q].held => resv[q].held)
             /\ resv'[q].status \notin {"reserving", "settling"}
             /\ EntryCostOf(resv'[q]) <= EntryCostOf(resv[q])
  <2>1. PICK status \in Statuses, held \in BOOLEAN :
          /\ resv'[q] = [resv[q] EXCEPT !.status = status, !.held = held]
          /\ held => resv[q].held
          /\ status = CASE resv[q].status = "reserving" -> "refused"
                        [] resv[q].status = "settling" -> "uncertain"
                        [] resv[q].status = "live" /\ phase' = "down" -> "kept"
                        [] OTHER -> resv[q].status
    BY DEF GiveUpStep
  <2>2. resv[q] \in Reservations /\ resv'[q] \in Reservations
    BY <1>1 DEF Maps
  <2>3. SameData(resv[q], resv'[q]) /\ resv'[q].status = status /\ resv'[q].held = held
    BY <2>1, <2>2 DEF Reservations, SameData
  <2>4. /\ resv[q].status = "reserving" => status = "refused"
        /\ resv[q].status = "settling" => status = "uncertain"
        /\ resv[q].status \notin {"reserving", "settling", "live"} => status = resv[q].status
        /\ resv[q].status = "live" => status \in {"live", "kept"}
    BY <2>1
  <2>5. EntryCostOf(resv'[q]) <= EntryCostOf(resv[q])
    BY <2>2, <2>3, <2>4, ChargeFalls
  <2>6. QED
    BY <2>1, <2>3, <2>4, <2>5
<1>3. ChargesKept(resv, resv', k)
  BY <1>2 DEF ChargesKept, ChargedTo, SameData
<1>4. EntryCovers(mem', resv', k)
  <2>1. CASE mem' = mem
    BY <1>1, <1>3, <2>1, ChargesAreKept DEF EntriesInv
  <2>2. CASE \A r \in Requests : ~resv'[r].held
    BY <1>1, <2>2, NoneCharged, EntryEmpty
  <2>3. QED
    BY <2>1, <2>2 DEF GiveUpStep
<1>5. op'.next = NoState /\ Expected' = OnceDone(mem', NoState, resv')
  BY DEF GiveUpStep, Idle, Expected
<1>6. EntryCovers(NoState, OnceDone(mem', NoState, resv'), k)
  BY <1>1, <1>2, IdleEntries
<1>7. QED
  BY <1>4, <1>5, <1>6

LEMMA RenameEntries ==
  ASSUME TypeOK, EntriesInv, Rename, NEW k \in Identities
  PROVE  EntryCovers(mem', resv', k) /\ EntryCovers(op'.next, Expected', k)
<1>1. mem' = mem /\ resv' = resv /\ op'.next = op.next
  BY DEF Rename, TypeOK, Ops
<1>2. Expected' = Expected
  BY <1>1 DEF Expected
<1>3. QED
  BY <1>1, <1>2 DEF EntriesInv

\* A reservation that keeps its state and its data is charged the same.
LEMMA SameCharge ==
  ASSUME NEW a \in Reservations, NEW b \in Reservations, SameData(a, b), b.status = a.status
  PROVE  EntryCostOf(b) = EntryCostOf(a)
<1>1. SameData(b, a)
  BY DEF SameData
<1>2. EntryCostOf(b) <= EntryCostOf(a) /\ EntryCostOf(a) <= EntryCostOf(b)
  BY <1>1, ChargeFalls
<1>3. EntryCostOf(a) \in Nat /\ EntryCostOf(b) \in Nat
  BY CountsAreNat
<1>4. QED
  BY <1>2, <1>3

\* But for r, what was charged stays charged exactly while its entry is in the ledger to be
\* written, and for as much.
OthersStayCharged(r, now, next, before, after) ==
  \A q \in Requests \ {r} :
    /\ after[q].held <=> /\ before[q].held /\ next.window = now.window
                         /\ before[q].key \in next.tracked
    /\ after[q].key = before[q].key
    /\ EntryCostOf(after[q]) = EntryCostOf(before[q])

\* A write for one reservation leaves what the others are charged.
LEMMA OthersCharged ==
  ASSUME NEW now, NEW next, NEW before \in Maps, NEW during \in Maps, NEW r
  PROVE  OnlyBegins(r, before, during)
         => OthersStayCharged(r, now, next, before, OnceDone(now, next, during))
<1> DEFINE after == OnceDone(now, next, during)
<1> SUFFICES ASSUME OnlyBegins(r, before, during), NEW q \in Requests \ {r}
             PROVE  /\ after[q].held <=> /\ before[q].held /\ next.window = now.window
                                         /\ before[q].key \in next.tracked
                    /\ after[q].key = before[q].key
                    /\ EntryCostOf(after[q]) = EntryCostOf(before[q])
  BY DEF OthersStayCharged
<1>1. before[q] \in Reservations /\ after[q] \in Reservations
  BY OnceDoneType DEF Maps
<1>2. during[q] = before[q] /\ before[q].status \notin {"reserving", "settling"}
  BY DEF OnlyBegins
<1>3. /\ SameData(before[q], after[q]) /\ after[q].status = before[q].status
      /\ after[q].held <=> /\ before[q].held /\ next.window = now.window
                           /\ before[q].key \in next.tracked
  BY <1>2, OnceDoneIs
<1> HIDE DEF after
<1>4. EntryCostOf(after[q]) = EntryCostOf(before[q])
  BY <1>1, <1>3, SameCharge
<1>5. QED
  BY <1>3, <1>4 DEF SameData

\* reserve charges the entry it found, or one that starts empty and holds nothing else; a victim
\* takes what was charged to it along.
LEMMA ReserveEntries ==
  ASSUME TypeOK, TypeOK', EntryInv, OpenInv, HeldInv, EntriesInv,
         NEW r \in Requests, NEW owner \in Identities, NEW res, NEW victims,
         ReserveStep(r, owner, res, victims), NEW k \in Identities
  PROVE  EntryCovers(mem', resv', k) /\ EntryCovers(op'.next, Expected', k)
<1>1. /\ resv \in Maps /\ resv' \in Maps /\ mem \in LedgerStates /\ op'.next \in LedgerStates
      /\ IsFiniteSet(ChargedTo(resv, k)) /\ clock \in Nat
  BY ChargedFacts DEF TypeOK, Maps, Ops
<1>2. /\ mem' = mem /\ op = Idle /\ resv[r].status = "new" /\ resv' = [resv EXCEPT ![r] = res]
      /\ res \in Reservations /\ res.status = "reserving" /\ ~res.held /\ res.key = owner
      /\ op'.next = Charged(Drop(SourceState, victims), owner, res) /\ owner \notin victims
      /\ EntryCovers(mem, resv, k)
  BY DEF ReserveStep, EntriesInv
<1>3. /\ resv'[r] = res /\ ~resv[r].held
      /\ \A q \in Requests \ {r} : resv'[q] = resv[q] /\ resv[q].status \notin {"reserving", "settling"}
  <2>1. ~resv[r].held
    BY <1>2 DEF HeldInv, Granted, GrantedStatuses
  <2>2. QED
    BY <1>1, <1>2, <2>1, NoneWaits DEF Maps
<1>4. EntryCovers(mem', resv', k)
  <2>1. ASSUME NEW q \in ChargedTo(resv', k)
        PROVE  q \in ChargedTo(resv, k) /\ EntryCostOf(resv'[q]) <= EntryCostOf(resv[q])
    <3>1. q \in Requests /\ q # r
      BY <1>2, <1>3 DEF ChargedTo
    <3>2. resv'[q] = resv[q] /\ EntryCostOf(resv[q]) \in Nat
      BY <1>1, <1>3, <3>1, CountsAreNat DEF Maps
    <3>3. QED
      BY <3>1, <3>2 DEF ChargedTo
  <2>2. ChargesKept(resv, resv', k)
    BY <2>1 DEF ChargesKept
  <2>3. QED
    BY <1>1, <1>2, <2>2, ChargesAreKept
<1> DEFINE after == OnceDone(mem', op'.next, resv')
<1>5. /\ after \in Maps /\ after[r] \in Reservations /\ after[r].held
      /\ after[r].key = owner /\ EntryCostOf(after[r]) = res.idSpend
  <2>1. after \in Maps
    BY <1>1, OnceDoneType
  <2>2. after[r] \in Reservations /\ SameData(resv'[r], after[r])
    BY <1>1, OnceDoneIs
  <2>3. resv'[r].status = "reserving"
    BY <1>2, <1>3
  <2>4. after[r].held /\ after[r].status = "live"
    BY <1>1, <2>3, OnceDoneIs
  <2>5. QED
    BY <1>2, <1>3, <2>1, <2>2, <2>4, EntryCostIs DEF SameData
<1>6. OthersStayCharged(r, mem, op'.next, resv, after)
  <2>1. OnlyBegins(r, resv, resv')
    BY <1>3 DEF OnlyBegins
  <2>2. QED
    BY <1>1, <1>2, <2>1, OthersCharged
<1>7. after = Expected'
  BY DEF Expected
<1> HIDE DEF after
<1>8. /\ op'.next.window = SourceState.window
      /\ op'.next.tracked = (SourceState.tracked \ victims) \union {owner}
      /\ k # owner /\ k \notin victims => op'.next.use[k] = SourceState.use[k]
      /\ op'.next.use[owner].spend = SourceState.use[owner].spend + res.idSpend
      /\ op'.next.use[owner].requests = SourceState.use[owner].requests + 1
  <2>1. SourceState \in LedgerStates
    BY SourceStateType
  <2>2. /\ op'.next.window = SourceState.window
        /\ op'.next.tracked = (SourceState.tracked \ victims) \union {owner}
    BY <1>2 DEF Charged, Drop
  <2>3. op'.next.use = [Drop(SourceState, victims).use EXCEPT
                          ![owner] = Charge(Drop(SourceState, victims).use[owner], res.tokens, res.idSpend)]
    BY <1>2 DEF Charged
  <2>4. Drop(SourceState, victims).use = [j \in Identities |-> IF j \in victims THEN counters
                                                              ELSE SourceState.use[j]]
    BY DEF Drop
  <2>5. op'.next.use[owner] = Charge(SourceState.use[owner], res.tokens, res.idSpend)
    BY <1>2, <2>3, <2>4
  <2>6. k # owner /\ k \notin victims => op'.next.use[k] = SourceState.use[k]
    BY <2>3, <2>4
  <2>7. QED
    BY <2>2, <2>5, <2>6 DEF Charge
<1>9. EntryCovers(op'.next, after, k)
  <2>1. CASE mem.window = clock /\ k # owner /\ k \in op'.next.tracked
    <3>1. SourceState = mem
      BY <2>1 DEF SourceState
    <3>2. op'.next.use[k] = mem.use[k]
      BY <1>8, <2>1, <3>1
    <3>3. ASSUME NEW q \in ChargedTo(after, k)
          PROVE  q \in ChargedTo(resv, k) /\ EntryCostOf(after[q]) <= EntryCostOf(resv[q])
      <4>1. q \in Requests /\ q # r
        BY <1>5, <2>1 DEF ChargedTo
      <4>2. EntryCostOf(resv[q]) \in Nat
        BY <1>1, <4>1, CountsAreNat DEF Maps
      <4>3. QED
        BY <1>6, <4>1, <4>2 DEF OthersStayCharged, ChargedTo
    <3>4. ChargesKept(resv, after, k)
      BY <3>3 DEF ChargesKept
    <3>5. QED
      BY <1>1, <1>2, <1>5, <3>2, <3>4, ChargesAreKept
  <2>2. CASE k # owner /\ (mem.window # clock \/ k \notin op'.next.tracked)
    <3>1. SourceState.window = clock
      BY DEF SourceState, emptyState
    <3>2. ASSUME NEW q \in Requests, after[q].held PROVE after[q].key # k
      <4>1. CASE q = r
        BY <1>5, <2>2, <4>1
      <4>2. CASE q # r
        BY <1>6, <1>8, <2>2, <3>1, <3>2, <4>2 DEF OthersStayCharged
      <4>3. QED
        BY <4>1, <4>2
    <3>3. QED
      BY <1>1, <3>2, NoneCharged, EntryEmpty
  <2>3. CASE mem.window = clock /\ k = owner
    <3>1. SourceState = mem /\ op'.next.window = mem.window /\ k \in op'.next.tracked
      BY <1>8, <2>3 DEF SourceState
    <3>2. ChargedTo(after, k) \ {r} = ChargedTo(resv, k) \ {r}
      BY <1>6, <3>1 DEF OthersStayCharged, ChargedTo
    <3>3. \A q \in ChargedTo(after, k) \ {r} : EntryCostOf(after[q]) = EntryCostOf(resv[q])
      BY <1>6 DEF OthersStayCharged, ChargedTo
    <3>4. r \in ChargedTo(after, k) /\ r \notin ChargedTo(resv, k)
      BY <1>3, <1>5, <2>3 DEF ChargedTo
    <3>5. mem.use[k].spend \in Nat /\ mem.use[k].requests \in Nat /\ res.idSpend \in Nat
      BY <1>1, <1>2 DEF LedgerStates, Counters, Reservations
    <3>6. /\ op'.next.use[k].spend + EntryShare(resv, r, k, EntryCostOf(resv[r]))
               >= mem.use[k].spend + EntryShare(after, r, k, EntryCostOf(after[r]))
          /\ op'.next.use[k].requests + EntryShare(resv, r, k, 1)
               >= mem.use[k].requests + EntryShare(after, r, k, 1)
      BY <1>5, <1>8, <2>3, <3>1, <3>4, <3>5 DEF EntryShare
    <3>7. QED
      BY <1>1, <1>2, <1>5, <3>2, <3>3, <3>6, EntryMoved
  <2>4. CASE mem.window # clock /\ k = owner
    <3> DEFINE none == [q \in Requests |-> [resv[q] EXCEPT !.held = FALSE]]
               empty == emptyState(clock)
    <3>1. none \in Maps /\ empty \in LedgerStates
      BY <1>1, EmptyStateType DEF Maps, Reservations
    <3>2. ~none[r].held /\ \A q \in Requests : ~none[q].held
      BY <1>1 DEF Maps, Reservations
    <3>3. ChargedTo(none, k) = {}
      BY <3>2, NoneCharged
    <3>4. IsFiniteSet(ChargedTo(none, k)) /\ EntryCovers(empty, none, k)
      BY <3>1, <3>3, FS_EmptySet, EntryEmpty
    <3>5. SourceState = empty /\ empty.use[k].spend = 0 /\ empty.use[k].requests = 0 /\ empty.window = clock
      BY <2>4 DEF SourceState, emptyState, counters
    <3> HIDE DEF none, empty
    <3>6. \A q \in Requests \ {r} : ~after[q].held
      BY <1>6, <1>8, <2>4, <3>5 DEF OthersStayCharged
    <3>7. /\ ChargedTo(after, k) \ {r} = ChargedTo(none, k) \ {r}
          /\ \A q \in ChargedTo(after, k) \ {r} : EntryCostOf(after[q]) = EntryCostOf(none[q])
      BY <3>3, <3>6 DEF ChargedTo
    <3>8. r \in ChargedTo(after, k) /\ r \notin ChargedTo(none, k)
      BY <1>5, <2>4, <3>3 DEF ChargedTo
    <3>9. res.idSpend \in Nat
      BY <1>2 DEF Reservations
    <3>10. /\ op'.next.use[k].spend + EntryShare(none, r, k, EntryCostOf(none[r]))
                >= empty.use[k].spend + EntryShare(after, r, k, EntryCostOf(after[r]))
           /\ op'.next.use[k].requests + EntryShare(none, r, k, 1)
                >= empty.use[k].requests + EntryShare(after, r, k, 1)
      BY <1>5, <1>8, <2>4, <3>5, <3>8, <3>9 DEF EntryShare
    <3>11. QED
      BY <1>1, <1>5, <3>1, <3>4, <3>7, <3>10, EntryMoved, SMTT(20)
  <2>5. QED
    BY <2>1, <2>2, <2>3, <2>4
<1>10. QED
  BY <1>4, <1>7, <1>9

\* settle adjusts an entry exactly when the reservation is still charged to it, so that the
\* entry covers the others as before.
LEMMA SettleEntries ==
  ASSUME TypeOK, TypeOK', EntryInv, OpenInv, HeldInv, EntriesInv,
         NEW r \in Requests, NEW res, SettleStep(r, res), NEW k \in Identities
  PROVE  EntryCovers(mem', resv', k) /\ EntryCovers(op'.next, Expected', k)
<1>1. /\ resv \in Maps /\ resv' \in Maps /\ mem \in LedgerStates /\ op'.next \in LedgerStates
      /\ IsFiniteSet(ChargedTo(resv, k))
  BY ChargedFacts DEF TypeOK, Maps, Ops
<1>2. /\ mem' = mem /\ op = Idle /\ resv[r].status = "live" /\ resv[r].window = mem.window
      /\ res \in Reservations /\ EntryCovers(mem, resv, k)
  BY DEF SettleStep, EntriesInv
<1>3. /\ res.key = resv[r].key /\ res.idSpend = resv[r].idSpend /\ res.held = resv[r].held
      /\ res.admission = resv[r].admission /\ res.key \in Identities
  <2>1. resv[r] \in Reservations
    BY <1>1 DEF Maps
  <2>2. QED
    BY <1>2, <2>1 DEF SettleStep, Reservations
<1>4. PICK status \in {"uncertain", "settling"} : resv' = [resv EXCEPT ![r] = [res EXCEPT !.status = status]]
  BY DEF SettleStep
<1>5. /\ resv'[r].status = status /\ resv'[r] \in Reservations /\ SameData(res, resv'[r])
      /\ resv'[r].held = res.held
      /\ \A q \in Requests \ {r} : resv'[q] = resv[q] /\ resv[q].status \notin {"reserving", "settling"}
  <2>1. resv'[r] = [res EXCEPT !.status = status] /\ resv'[r] \in Reservations
    BY <1>1, <1>4 DEF Maps
  <2>2. \A q \in Requests \ {r} : resv'[q] = resv[q]
    BY <1>1, <1>4 DEF Maps
  <2>3. \A q \in Requests : resv[q].status \notin {"reserving", "settling"}
    BY <1>2, NoneWaits
  <2>4. QED
    BY <1>2, <2>1, <2>2, <2>3 DEF Reservations, SameData
<1>6. EntryCovers(mem', resv', k)
  <2>1. ASSUME NEW q \in ChargedTo(resv', k)
        PROVE  q \in ChargedTo(resv, k) /\ EntryCostOf(resv'[q]) <= EntryCostOf(resv[q])
    <3>1. q \in Requests /\ EntryCostOf(resv[q]) \in Nat
      BY <1>1, CountsAreNat DEF Maps, ChargedTo
    <3>2. CASE q = r
      <4>1. EntryCostOf(resv'[r]) = 0
        BY <1>5, EntryCostIs
      <4>2. QED
        BY <1>3, <1>5, <3>1, <3>2, <4>1 DEF ChargedTo, SameData
    <3>3. CASE q # r
      BY <1>5, <3>1, <3>3 DEF ChargedTo
    <3>4. QED
      BY <3>2, <3>3
  <2>2. ChargesKept(resv, resv', k)
    BY <2>1 DEF ChargesKept
  <2>3. QED
    BY <1>1, <1>2, <2>2, ChargesAreKept
<1>7. CASE op' = op /\ resv' = [resv EXCEPT ![r] = [res EXCEPT !.status = "uncertain"]]
  <2>1. op'.next = NoState /\ Expected' = OnceDone(mem', NoState, resv')
    BY <1>2, <1>7 DEF Idle, Expected
  <2>2. \A q \in Requests : resv'[q].status \notin {"reserving", "settling"}
    <3>1. resv'[r] = [res EXCEPT !.status = "uncertain"]
      BY <1>1, <1>7 DEF Maps
    <3>2. resv'[r].status = "uncertain"
      BY <1>2, <3>1 DEF Reservations
    <3>3. QED
      BY <1>5, <3>2
  <2>3. EntryCovers(op'.next, Expected', k)
    BY <1>1, <2>1, <2>2, IdleEntries
  <2>4. QED
    BY <1>6, <2>3
<1>8. CASE /\ ~SettleUnderflows(res) /\ op'.next = SettledState(res)
           /\ resv' = [resv EXCEPT ![r] = [res EXCEPT !.status = "settling"]]
  <2> DEFINE after == OnceDone(mem', op'.next, resv')
  <2>1. /\ op'.next.window = mem.window /\ op'.next.tracked = mem.tracked
        /\ op'.next.use[k] = IF k = res.key /\ AdjustsIdentity(res)
                             THEN Adjust(mem.use[k], res, res.idSpend) ELSE mem.use[k]
    BY <1>8 DEF SettledState
  <2>2. resv'[r].status = "settling"
    <3>1. resv'[r] = [res EXCEPT !.status = "settling"]
      BY <1>1, <1>8 DEF Maps
    <3>2. QED
      BY <1>2, <3>1 DEF Reservations
  <2>3. /\ after \in Maps /\ after[r] \in Reservations /\ SameData(resv'[r], after[r])
        /\ after[r].status = "settled" /\ after[r].held = resv'[r].held
    <3>1. after \in Maps
      BY <1>1, OnceDoneType
    <3>2. after[r] \in Reservations /\ SameData(resv'[r], after[r])
      BY <1>1, OnceDoneIs
    <3>3. after[r].status = "settled" /\ after[r].held = resv'[r].held
      BY <1>1, <2>2, OnceDoneIs
    <3>4. QED
      BY <3>1, <3>2, <3>3
  <2>4. OthersStayCharged(r, mem, op'.next, resv, after)
    <3>1. OnlyBegins(r, resv, resv')
      BY <1>5 DEF OnlyBegins
    <3>2. QED
      BY <1>1, <1>2, <3>1, OthersCharged
  <2>5. after = Expected'
    BY DEF Expected
  <2> HIDE DEF after
  <2>6. /\ ChargedTo(after, k) \ {r} = ChargedTo(resv, k) \ {r}
        /\ \A q \in ChargedTo(after, k) \ {r} : EntryCostOf(after[q]) = EntryCostOf(resv[q])
    <3>1. \A q \in Requests : resv[q].held => resv[q].key \in mem.tracked
      BY DEF HeldInv
    <3>2. ChargedTo(after, k) \ {r} = ChargedTo(resv, k) \ {r}
      BY <2>1, <2>4, <3>1 DEF OthersStayCharged, ChargedTo
    <3>3. QED
      BY <2>4, <3>2 DEF OthersStayCharged, ChargedTo
  <2>7. /\ after[r].held = resv[r].held /\ after[r].key = resv[r].key
        /\ EntryCostOf(after[r]) = res.actualSpend /\ EntryCostOf(resv[r]) = res.idSpend
    <3>1. EntryCostOf(after[r]) = after[r].actualSpend
      BY <2>3, EntryCostIs
    <3>2. resv[r] \in Reservations
      BY <1>1 DEF Maps
    <3>3. EntryCostOf(resv[r]) = resv[r].idSpend
      BY <1>2, <3>2, EntryCostIs
    <3>4. QED
      BY <1>3, <1>5, <2>3, <3>1, <3>3 DEF SameData
  <2>8. resv[r].held <=> AdjustsIdentity(res)
    BY <1>2, <1>3 DEF EntryInv, SettlesOwnEntryOnly, AdjustsIdentity
  <2>9. /\ mem.use[k].spend \in Nat /\ mem.use[k].requests \in Nat
        /\ res.idSpend \in Nat /\ res.actualSpend \in Nat
    BY <1>1, <1>2 DEF LedgerStates, Counters, Reservations
  <2>10. /\ op'.next.use[k].spend + EntryShare(resv, r, k, EntryCostOf(resv[r]))
              >= mem.use[k].spend + EntryShare(after, r, k, EntryCostOf(after[r]))
         /\ op'.next.use[k].requests + EntryShare(resv, r, k, 1)
              >= mem.use[k].requests + EntryShare(after, r, k, 1)
    <3>1. CASE resv[r].held /\ resv[r].key = k
      <4>1. r \in ChargedTo(after, k) /\ r \in ChargedTo(resv, k)
        BY <2>7, <3>1 DEF ChargedTo
      <4>2. /\ op'.next.use[k].spend = mem.use[k].spend + res.actualSpend - res.idSpend
            /\ op'.next.use[k].requests = mem.use[k].requests
        BY <1>3, <2>1, <2>8, <3>1 DEF Adjust
      <4>3. QED
        BY <2>7, <2>9, <4>1, <4>2 DEF EntryShare
    <3>2. CASE ~(resv[r].held /\ resv[r].key = k)
      <4>1. r \notin ChargedTo(after, k) /\ r \notin ChargedTo(resv, k)
        BY <2>7, <3>2 DEF ChargedTo
      <4>2. op'.next.use[k] = mem.use[k]
        BY <1>3, <2>1, <2>8, <3>2
      <4>3. QED
        BY <2>9, <4>1, <4>2 DEF EntryShare
    <3>3. QED
      BY <3>1, <3>2
  <2>11. EntryCovers(op'.next, after, k)
    BY <1>1, <1>2, <2>3, <2>6, <2>10, EntryMoved
  <2>12. QED
    BY <1>6, <2>5, <2>11
<1>9. QED
  BY <1>7, <1>8 DEF SettleStep

\* Every step keeps the entries covering what is charged to them.
LEMMA NextEntries ==
  ASSUME TypeOK, TypeOK', EntryInv, EntryInv', OpenInv, OpenInv', HeldInv, EntriesInv, SomeStep
  PROVE  EntriesInv'
<1> SUFFICES ASSUME NEW k \in Identities
             PROVE  EntryCovers(mem', resv', k) /\ EntryCovers(op'.next, Expected', k)
  BY DEF EntriesInv
<1>1. ASSUME NEW r \in Requests, NEW owner \in Identities, NEW res, NEW victims,
             ReserveStep(r, owner, res, victims)
      PROVE  EntryCovers(mem', resv', k) /\ EntryCovers(op'.next, Expected', k)
  BY <1>1, ReserveEntries
<1>2. ASSUME NEW r \in Requests, NEW res, SettleStep(r, res)
      PROVE  EntryCovers(mem', resv', k) /\ EntryCovers(op'.next, Expected', k)
  BY <1>2, SettleEntries
<1>3. QED
  BY <1>1, <1>2, QuietEntries, RenewEntries, LoadEntries, PublishEntries, GiveUpEntries, RenameEntries
  DEF SomeStep

\* A wallet's entry covers every reservation that is charged to it, through evictions, resets,
\* reloads and late settlements: the admission symbols keep settle from giving a reservation back
\* to an entry that was never charged for it, so that no wallet is charged less than it was granted.
THEOREM EntriesStayCovered == Spec => []EntriesCoverReservations
<1>1. Init => LedgerInv /\ EntriesInv
  BY InitType, InitEntry, InitOpen, InitHeld, InitCount, InitEntries DEF LedgerInv
<1>2. ASSUME LedgerInv, EntriesInv, [Next]_vars PROVE LedgerInv' /\ EntriesInv'
  <2>1. TypeOK /\ EntryInv /\ OpenInv /\ HeldInv /\ CountInv
    BY <1>2 DEF LedgerInv
  <2>2. TypeOK' /\ EntryInv' /\ SomeStep
    BY <1>2, <2>1, NextType, NextEntry, EveryStep
  <2>3. OpenInv' /\ HeldInv'
    BY <2>1, <2>2, NextOpen, NextHeld
  <2>4. CountInv' /\ EntriesInv'
    BY <1>2, <2>1, <2>2, <2>3, NextCount, NextEntries
  <2>5. QED
    BY <2>2, <2>3, <2>4 DEF LedgerInv
<1>3. LedgerInv /\ EntriesInv => EntriesCoverReservations
  BY DEF LedgerInv, HeldInv, EntriesInv, EntriesCoverReservations, ChargedTo
<1>4. QED
  BY <1>1, <1>2, <1>3, PTL DEF Spec

-----------------------------------------------------------------------------
(* The promise of DailyBudget *)

\* The sums of the promise are the sums of the ledger.
LEMMA PromiseSums ==
  ASSUME NEW f, NEW S
  PROVE  Promise!SumFunctionOnSet(f, S) = SumFunctionOnSet(f, S)
<1>1. Promise!SumFunctionOnSet(f, S) = Sums(f, S)[S]
  BY DEF Promise!SumFunctionOnSet, Promise!FoldFunctionOnSet, Promise!MapThenFoldSet, Sums, AreSums,
         SumStep, Choice
<1>2. QED
  BY <1>1, SumUnfolds

Smaller(a) == IF a.actualSpend < a.spend THEN a.actualSpend ELSE a.spend

\* What the promise sees of a reservation.
Grants(a, cost, reported) ==
  GrantOf(a).day = a.window /\ GrantOf(a).cost = cost /\ GrantOf(a).reported = reported

\* The grant of a reservation in each of its states.
LEMMA GrantIs ==
  ASSUME NEW a \in Reservations
  PROVE  /\ a.status \notin GrantedStatuses =>
              GrantOf(a).day = 0 /\ GrantOf(a).cost = 0 /\ GrantOf(a).reported = FALSE
         /\ a.status \in {"live", "kept"} => Grants(a, a.spend, FALSE)
         /\ a.status = "settled" => Grants(a, a.actualSpend, TRUE)
         /\ a.status = "uncertain" => Grants(a, Smaller(a), TRUE)
         /\ a.status = "settling" /\ a.actualSpend <= a.spend => Grants(a, Smaller(a), TRUE)
         /\ a.status = "settling" /\ ~(a.actualSpend <= a.spend) => Grants(a, Smaller(a), FALSE)
<1>1. /\ GrantOf(a).day = IF a.status \in GrantedStatuses THEN a.window ELSE 0
      /\ GrantOf(a).cost = IF a.status \in GrantedStatuses THEN CostOf(a) ELSE 0
      /\ GrantOf(a).reported = \/ a.status \in {"settled", "uncertain"}
                               \/ a.status = "settling" /\ ~Overran(a)
  BY DEF GrantOf
<1>2. a.status = "settling" => (~Overran(a) <=> a.actualSpend <= a.spend)
  <2>1. a.actualSpend \in Nat /\ a.spend \in Nat
    BY DEF Reservations
  <2>2. QED
    BY <2>1 DEF Overran
<1>3. CASE a.status \notin GrantedStatuses
  BY <1>1, <1>3 DEF GrantedStatuses
<1>4. CASE a.status \in {"live", "kept"}
  BY <1>1, <1>4, CostIs DEF GrantedStatuses, Grants
<1>5. CASE a.status = "settled"
  BY <1>1, <1>5, CostIs DEF GrantedStatuses, Grants
<1>6. CASE a.status = "uncertain"
  BY <1>1, <1>6, CostIs DEF GrantedStatuses, Grants, Smaller
<1>7. CASE a.status = "settling"
  <2>1. GrantOf(a).day = a.window /\ GrantOf(a).cost = Smaller(a)
    BY <1>1, <1>7, CostIs DEF GrantedStatuses, Smaller
  <2>2. GrantOf(a).reported = (~Overran(a))
    BY <1>1, <1>7
  <2>3. CASE a.actualSpend <= a.spend
    <3>1. GrantOf(a).reported = TRUE
      BY <1>2, <1>7, <2>2, <2>3
    <3>2. QED
      BY <1>7, <2>1, <2>3, <3>1 DEF Grants, GrantedStatuses
  <2>4. CASE ~(a.actualSpend <= a.spend)
    <3>1. GrantOf(a).reported = FALSE
      BY <1>2, <1>7, <2>2, <2>4
    <3>2. QED
      BY <1>7, <2>1, <2>4, <3>1 DEF Grants, GrantedStatuses
  <2>5. QED
    BY <2>3, <2>4
<1>8. QED
  BY <1>3, <1>4, <1>5, <1>6, <1>7 DEF GrantedStatuses

LEMMA GrantRecord ==
  ASSUME NEW a, NEW b, GrantOf(a).day = GrantOf(b).day, GrantOf(a).cost = GrantOf(b).cost,
         GrantOf(a).reported = GrantOf(b).reported
  PROVE  GrantOf(a) = GrantOf(b)
BY DEF GrantOf

\* A reservation whose grant does not change.
Similar(a, b) ==
  /\ SameData(a, b)
  /\ \/ b.status = a.status
     \/ a.status = "live" /\ b.status = "kept"
     \/ a.status \notin GrantedStatuses /\ b.status \notin GrantedStatuses

LEMMA SimilarGrants ==
  ASSUME NEW a \in Reservations, NEW b \in Reservations, Similar(a, b)
  PROVE  GrantOf(b) = GrantOf(a)
<1>1. CASE a.status \notin GrantedStatuses
  <2>1. b.status \notin GrantedStatuses
    BY <1>1 DEF Similar, GrantedStatuses
  <2>2. QED
    BY <1>1, <2>1, GrantIs, GrantRecord
<1>2. CASE a.status \in {"live", "kept"}
  <2>1. b.status \in {"live", "kept"}
    BY <1>2 DEF Similar, GrantedStatuses
  <2>2. QED
    BY <1>2, <2>1, GrantIs, GrantRecord DEF Grants, Similar, SameData
<1>3. CASE a.status \in {"settled", "uncertain", "settling"}
  <2>1. b.status = a.status
    BY <1>3 DEF Similar, GrantedStatuses
  <2>2. Smaller(a) = Smaller(b)
    BY DEF Smaller, Similar, SameData
  <2>3. a.window = b.window /\ a.spend = b.spend /\ a.actualSpend = b.actualSpend
    BY DEF Similar, SameData
  <2>4. GrantOf(a).day = a.window /\ GrantOf(b).day = b.window
    BY <1>3, <2>1, GrantIs DEF Grants
  <2>5. GrantOf(a).cost = GrantOf(b).cost /\ GrantOf(a).reported = GrantOf(b).reported
    <3>1. CASE a.status = "settled"
      BY <2>1, <2>3, <3>1, GrantIs DEF Grants
    <3>2. CASE a.status = "uncertain"
      BY <2>1, <2>2, <2>3, <3>2, GrantIs DEF Grants
    <3>3. CASE a.status = "settling" /\ a.actualSpend <= a.spend
      BY <2>1, <2>2, <2>3, <3>3, GrantIs DEF Grants
    <3>4. CASE a.status = "settling" /\ ~(a.actualSpend <= a.spend)
      BY <2>1, <2>2, <2>3, <3>4, GrantIs DEF Grants
    <3>5. QED
      BY <1>3, <3>1, <3>2, <3>3, <3>4
  <2>6. QED
    BY <2>3, <2>4, <2>5, GrantRecord
<1>4. QED
  BY <1>1, <1>2, <1>3 DEF GrantedStatuses

\* A reservation that was granted is reported, or its grant stays as it is.
Reports(a, b) ==
  /\ GrantOf(a).day # 0 /\ GrantOf(a).reported = FALSE
  /\ GrantOf(b).day = GrantOf(a).day /\ GrantOf(b).reported = TRUE

\* The step in which the promise sees the report: when the amount is sure to stay, at once, or
\* when the write of one above the reservation ends.
LEMMA ReportGrants ==
  ASSUME NEW a \in Reservations, NEW b \in Reservations, a.window # 0,
         b.window = a.window, b.spend = a.spend,
         \/ a.status = "live" /\ b.status \in {"settling", "uncertain"}
         \/ a.status = "settling" /\ b.status \in {"settled", "uncertain"} /\ b.actualSpend = a.actualSpend
  PROVE  GrantOf(b) = GrantOf(a) \/ Reports(a, b)
<1>1. a.actualSpend \in Nat /\ a.spend \in Nat /\ b.actualSpend \in Nat /\ b.spend \in Nat
  BY DEF Reservations
<1>2. CASE a.status = "live" /\ b.status = "uncertain"
  BY <1>2, GrantIs DEF Grants, Reports
<1>3. CASE a.status = "live" /\ b.status = "settling"
  <2>1. CASE b.actualSpend <= b.spend
    <3>1. Grants(a, a.spend, FALSE) /\ Grants(b, Smaller(b), TRUE)
      BY <1>3, <2>1, GrantIs
    <3>2. QED
      BY <3>1 DEF Grants, Reports
  <2>2. CASE ~(b.actualSpend <= b.spend)
    <3>1. Grants(a, a.spend, FALSE) /\ Grants(b, Smaller(b), FALSE)
      BY <1>3, <2>2, GrantIs
    <3>2. Smaller(b) = a.spend
      BY <1>1, <2>2 DEF Smaller
    <3>3. QED
      BY <3>1, <3>2, GrantRecord DEF Grants
  <2>3. QED
    BY <2>1, <2>2
<1>4. CASE a.status = "settling" /\ b.status \in {"settled", "uncertain"}
  <2>1. \E cost : Grants(b, cost, TRUE)
    BY <1>4, GrantIs
  <2>2. CASE a.actualSpend <= a.spend
    <3>1. Smaller(a) = a.actualSpend /\ Smaller(b) = a.actualSpend
      BY <1>1, <1>4, <2>2 DEF Smaller
    <3>2. Grants(a, a.actualSpend, TRUE)
      BY <1>4, <2>2, <3>1, GrantIs
    <3>3. Grants(b, a.actualSpend, TRUE)
      BY <1>4, <3>1, GrantIs
    <3>4. QED
      BY <3>2, <3>3, GrantRecord DEF Grants
  <2>3. CASE ~(a.actualSpend <= a.spend)
    <3>1. Grants(a, Smaller(a), FALSE)
      BY <1>4, <2>3, GrantIs
    <3>2. QED
      BY <2>1, <3>1 DEF Grants, Reports
  <2>4. QED
    BY <2>2, <2>3
<1>5. QED
  BY <1>2, <1>3, <1>4

grantMap == [r \in Requests |-> GrantOf(resv[r])]

\* The initial states and the state function of the promise.
LEMMA PromiseIs ==
  /\ Promise!Init <=> clock = 1 /\ grantMap = [r \in Requests |-> Promise!NoGrant]
  /\ Promise!vars' = Promise!vars <=> clock' = clock /\ grantMap' = grantMap
BY DEF Promise!Init, Promise!vars, grantMap

\* A step that reports r at most.
LEMMA ReportSteps ==
  ASSUME NEW r \in Requests, clock' = clock,
         \A q \in Requests \ {r} : GrantOf(resv'[q]) = GrantOf(resv[q]),
         GrantOf(resv'[r]) = GrantOf(resv[r]) \/ Reports(resv[r], resv'[r])
  PROVE  [Promise!Next]_(Promise!vars)
<1>1. CASE GrantOf(resv'[r]) = GrantOf(resv[r])
  <2>1. grantMap' = grantMap
    BY <1>1 DEF grantMap
  <2>2. QED
    BY <2>1, PromiseIs
<1>2. CASE Reports(resv[r], resv'[r])
  <2>1. GrantOf(resv'[r]) = [GrantOf(resv[r]) EXCEPT !.cost = GrantOf(resv'[r]).cost, !.reported = TRUE]
    BY <1>2 DEF Reports, GrantOf
  <2>2. grantMap' = [grantMap EXCEPT ![r].cost = grantMap'[r].cost, ![r].reported = TRUE]
    BY <2>1 DEF grantMap
  <2>3. grantMap[r].day # 0 /\ ~grantMap[r].reported
    BY <1>2 DEF Reports, grantMap
  <2>4. Promise!Report(r, grantMap'[r].cost)
    BY <2>2, <2>3 DEF Promise!Report, Promise!NotGranted, grantMap
  <2>5. QED
    BY <2>4 DEF Promise!Next, grantMap
<1>3. QED
  BY <1>1, <1>2

\* A reservation that is published is a grant within the budget of its day.
LEMMA GrantStep ==
  ASSUME TypeOK, TypeOK', EntryInv, OpenInv, CountInv, PublishStep, clock' = clock,
         NEW r \in Requests, resv[r].status = "reserving"
  PROVE  Promise!Next
<1> DEFINE w == op.next.window
<1>1. /\ resv \in Maps /\ Expected \in Maps /\ op.next \in LedgerStates /\ clock \in Nat
      /\ \A day : IsFiniteSet(GrantedOn(Expected, day))
  BY CountFacts, FiniteDays DEF TypeOK
<1>2. /\ resv' = Expected /\ resv[r].window = w /\ w \in Nat /\ w >= 1 /\ w <= clock
      /\ op.next.provider.spend <= ProviderDailyBudget
  BY <1>1 DEF PublishStep, OpenInv, WritesMoveOn, EntryInv, WindowsGrow, LedgerStates
<1>3. \A q \in Requests \ {r} : resv[q].status \notin {"reserving", "settling"}
  <2>1. op.kind = "reserve" /\ \A q \in Requests \ {r} : resv[q].status # "reserving"
    BY DEF EntryInv, OneWriter
  <2>2. QED
    BY <2>1 DEF OpenInv, OneSettlement
<1>4. ASSUME NEW q \in Requests \ {r}
      PROVE  /\ resv[q] \in Reservations /\ Expected[q] \in Reservations
             /\ SameData(resv[q], Expected[q]) /\ Expected[q].status = resv[q].status
             /\ GrantOf(Expected[q]) = GrantOf(resv[q])
  <2>1. resv[q] \in Reservations /\ Expected[q] \in Reservations
    BY <1>1 DEF Maps
  <2>2. SameData(resv[q], Expected[q]) /\ Expected[q].status = resv[q].status
    BY <1>1, <1>3, OnceDoneIs DEF Expected
  <2>3. QED
    BY <2>1, <2>2, SimilarGrants DEF Similar
<1>5. /\ resv[r] \in Reservations /\ Expected[r] \in Reservations
      /\ SameData(resv[r], Expected[r]) /\ Expected[r].status = "live"
  BY <1>1, OnceDoneIs DEF Expected, Maps
<1>6. /\ GrantOf(resv[r]).day = 0 /\ Grants(Expected[r], resv[r].spend, FALSE)
      /\ CostOf(Expected[r]) = resv[r].spend
  <2>1. resv[r].status \notin GrantedStatuses
    BY DEF GrantedStatuses
  <2>2. QED
    BY <1>5, <2>1, GrantIs, CostIs DEF SameData
<1>7. GrantOf(Expected[r]) = [day |-> w, cost |-> resv[r].spend, reported |-> FALSE]
  <2>1. Expected[r].window = w
    BY <1>2, <1>5 DEF SameData
  <2>2. QED
    BY <1>6, <2>1 DEF Grants, GrantOf
<1> DEFINE f == [q \in Requests |-> grantMap[q].cost]
           S == {q \in Requests : grantMap[q].day = w}
           g == [q \in Requests |-> CostOf(Expected[q])]
           T == GrantedOn(Expected, w)
<1>8. /\ S \subseteq T \ {r} /\ r \in T
      /\ \A x \in S : f[x] = g[x]
      /\ \A x \in T : g[x] \in Nat
  <2>1. ASSUME NEW x \in S PROVE x \in T \ {r} /\ f[x] = g[x]
    <3>1. x \in Requests /\ x # r
      BY <1>2, <1>6 DEF grantMap
    <3>2. resv[x].status \in GrantedStatuses
      <4>1. GrantOf(resv[x]).day = w /\ w # 0
        BY <1>2, <3>1 DEF grantMap
      <4>2. QED
        BY <4>1 DEF GrantOf
    <3>3. GrantOf(resv[x]).day = resv[x].window /\ GrantOf(resv[x]).cost = CostOf(resv[x])
      BY <3>2 DEF GrantOf
    <3>4. CostOf(Expected[x]) = CostOf(resv[x])
      BY <1>4, <3>1, <3>2, SameCounts
    <3>5. Expected[x].window = resv[x].window
      BY <1>4, <3>1 DEF SameData
    <3>6. QED
      BY <1>4, <3>1, <3>2, <3>3, <3>4, <3>5 DEF GrantedOn, grantMap
  <2>2. r \in T
    BY <1>2, <1>5 DEF GrantedOn, GrantedStatuses, SameData
  <2>3. \A x \in T : g[x] \in Nat
    BY <1>1, CountsAreNat DEF Maps, GrantedOn
  <2>4. QED
    BY <2>1, <2>2, <2>3
<1>9. op.next.provider.spend >= SumFunctionOnSet(g, T)
  BY DEF CountInv, Covers
<1>10. Promise!CostOfDay(w) = SumFunctionOnSet(f, S)
  BY PromiseSums DEF Promise!CostOfDay, grantMap
<1>11. IsFiniteSet(T) /\ g[r] = resv[r].spend /\ op.next.provider.spend \in Nat
  BY <1>1, <1>6 DEF LedgerStates, Counters
<1> HIDE DEF f, S, g, T
<1>12. SumFunctionOnSet(g, T) = g[r] + SumFunctionOnSet(g, T \ {r})
  BY <1>8, <1>11, SumWithout
<1>13. /\ SumFunctionOnSet(f, S) <= SumFunctionOnSet(g, T \ {r})
       /\ SumFunctionOnSet(f, S) \in Nat /\ SumFunctionOnSet(g, T \ {r}) \in Nat
  <2>1. IsFiniteSet(T \ {r}) /\ IsFiniteSet(S)
    BY <1>8, <1>11, FS_RemoveElement, FS_Subset
  <2>2. \A x \in S : f[x] \in Nat /\ f[x] <= g[x]
    BY <1>8
  <2>3. QED
    BY <1>8, <2>1, <2>2, SumGrows, SumIsNat
<1>14. Promise!CostOfDay(w) + resv[r].spend <= ProviderDailyBudget
  <2>1. resv[r].spend \in Nat /\ ProviderDailyBudget \in Nat
    BY <1>5, ConfigAssumption DEF Reservations
  <2>2. QED
    BY <1>2, <1>9, <1>10, <1>11, <1>12, <1>13, <2>1
<1>15. grantMap' = [grantMap EXCEPT ![r] = [day |-> w, cost |-> resv[r].spend, reported |-> FALSE]]
  BY <1>2, <1>4, <1>7 DEF grantMap
<1>16. Promise!Grant(r, w, resv[r].spend)
  BY <1>6, <1>14, <1>15 DEF Promise!Grant, Promise!NotGranted, grantMap
<1>17. grantMap'[r].cost = resv[r].spend
  BY <1>2, <1>7 DEF grantMap
<1>18. w \in 1..clock
  BY <1>1, <1>2
<1>19. QED
  BY <1>16, <1>17, <1>18 DEF Promise!Next, grantMap

\* The day passes only at midnight, and nothing else happens then.
LEMMA ClockMoves ==
  ASSUME TypeOK, [Next]_vars
  PROVE  clock' = clock \/ (clock' > clock /\ resv' = resv)
<1>1. ASSUME \/ \E r \in Requests, k \in Identities, s \in Shapes :
                  ReserveBegin(r, k, s) \/ ReserveRefused(r, k, s)
             \/ \E r \in Requests, u \in Usages : SettleBegin(r, u) \/ SettleLate(r, u)
             \/ \E r \in Requests : EndsWithoutUsage(r)
             \/ RotateBegin \/ Rename \/ WriteFails \/ NormalizeBegin \/ NothingToNormalize
             \/ \E c \in Capacities : Start(c)
      PROVE  clock' = clock
  BY <1>1 DEF ReserveBegin, ReserveRefused, SettleBegin, SettleLate, EndsWithoutUsage, RotateBegin,
              Rename, WriteFails, NormalizeBegin, NothingToNormalize, Start
<1>2. ASSUME \/ \E r \in Requests : PublishReserve(r) \/ PublishSettle(r)
             \/ PublishRotate \/ PublishCreate \/ PublishNormalize
      PROVE  clock' = clock
  BY <1>2 DEF PublishReserve, PublishSettle, PublishRotate, PublishCreate, PublishNormalize, Published
<1>3. CASE Crash \/ StartFails \/ UNCHANGED vars
  BY <1>3 DEF Crash, StartFails, Stopped, vars
<1>4. CASE Midnight
  BY <1>4 DEF Midnight, TypeOK
<1>5. QED
  BY <1>1, <1>2, <1>3, <1>4 DEF Next

\* All grants stay as they are.
LEMMA SimilarSteps ==
  ASSUME resv \in Maps, resv' \in Maps, clock' = clock,
         \A q \in Requests : Similar(resv[q], resv'[q])
  PROVE  [Promise!Next]_(Promise!vars)
<1>1. ASSUME NEW q \in Requests PROVE GrantOf(resv'[q]) = GrantOf(resv[q])
  BY SimilarGrants DEF Maps
<1>2. grantMap' = grantMap
  BY <1>1 DEF grantMap
<1>3. QED
  BY <1>2, PromiseIs

\* At most the reservation that settles changes its grant.
LEMMA SettlingSteps ==
  ASSUME TypeOK, TypeOK', OpenInv, clock' = clock,
         \A q \in Requests :
           /\ SameData(resv[q], resv'[q])
           /\ \/ Similar(resv[q], resv'[q])
              \/ resv[q].status = "settling" /\ resv'[q].status \in {"settled", "uncertain"}
  PROVE  [Promise!Next]_(Promise!vars)
<1>1. resv \in Maps /\ resv' \in Maps
  BY DEF TypeOK, Maps
<1>2. CASE \A q \in Requests : Similar(resv[q], resv'[q])
  BY <1>1, <1>2, SimilarSteps
<1>3. ASSUME NEW r \in Requests, ~Similar(resv[r], resv'[r])
      PROVE  [Promise!Next]_(Promise!vars)
  <2>1. /\ resv[r].status = "settling" /\ resv'[r].status \in {"settled", "uncertain"}
        /\ SameData(resv[r], resv'[r])
    BY <1>3
  <2>2. ASSUME NEW q \in Requests \ {r} PROVE GrantOf(resv'[q]) = GrantOf(resv[q])
    <3>1. resv[q].status # "settling"
      BY <2>1 DEF OpenInv, OneSettlement
    <3>2. resv[q] \in Reservations /\ resv'[q] \in Reservations /\ Similar(resv[q], resv'[q])
      BY <1>1, <3>1 DEF Maps
    <3>3. QED
      BY <3>2, SimilarGrants
  <2>3. GrantOf(resv'[r]) = GrantOf(resv[r]) \/ Reports(resv[r], resv'[r])
    <3>1. resv[r] \in Reservations /\ resv'[r] \in Reservations
      BY <1>1 DEF Maps
    <3>2. resv[r].window # 0
      BY <2>1 DEF OpenInv, GrantsAreReached, Granted, GrantedStatuses
    <3>3. /\ resv'[r].window = resv[r].window /\ resv'[r].spend = resv[r].spend
          /\ resv'[r].actualSpend = resv[r].actualSpend
      BY <2>1 DEF SameData
    <3>4. QED
      BY <2>1, <3>1, <3>2, <3>3, ReportGrants
  <2>4. QED
    BY <2>2, <2>3, ReportSteps
<1>4. QED
  BY <1>2, <1>3

\* Every step of the ledger is a step of the promise, or changes no grant.
LEMMA NextPromise ==
  ASSUME LedgerInv, LedgerInv', [Next]_vars
  PROVE  [Promise!Next]_(Promise!vars)
<1>1. /\ TypeOK /\ TypeOK' /\ EntryInv /\ OpenInv /\ HeldInv /\ CountInv
      /\ resv \in Maps /\ resv' \in Maps
  BY DEF LedgerInv, TypeOK, Maps
<1>2. \A q \in Requests : resv[q] \in Reservations /\ resv'[q] \in Reservations
  BY <1>1 DEF Maps
<1>3. CASE clock' # clock
  <2>1. clock' > clock /\ resv' = resv
    BY <1>1, <1>3, ClockMoves
  <2>2. grantMap' = grantMap
    BY <2>1 DEF grantMap
  <2>3. Promise!NewDay
    BY <2>1, <2>2 DEF Promise!NewDay, grantMap
  <2>4. QED
    BY <2>3 DEF Promise!Next
<1>4. CASE clock' = clock /\ resv' = resv
  <2>1. grantMap' = grantMap
    BY <1>4 DEF grantMap
  <2>2. QED
    BY <1>4, <2>1, PromiseIs
<1>5. CASE clock' = clock /\ QuietStep
  <2>1. ASSUME NEW q \in Requests PROVE Similar(resv[q], resv'[q])
    <3>1. ASSUME NEW st, resv'[q] = [resv[q] EXCEPT !.status = st]
          PROVE  SameData(resv[q], resv'[q]) /\ resv'[q].status = st
      BY <1>2, <3>1 DEF Reservations, SameData
    <3>2. \/ resv'[q] = resv[q]
          \/ resv[q].status = "new" /\ resv'[q] = [resv[q] EXCEPT !.status = "refused"]
          \/ resv[q].status = "live" /\ resv'[q] = [resv[q] EXCEPT !.status = "kept"]
      BY <1>5 DEF QuietStep
    <3>3. QED
      BY <3>1, <3>2 DEF Similar, SameData, GrantedStatuses
  <2>2. QED
    BY <1>1, <1>5, <2>1, SimilarSteps
<1>6. CASE clock' = clock /\ PublishStep
  <2>1. CASE \E r \in Requests : resv[r].status = "reserving"
    BY <1>1, <1>6, <2>1, GrantStep
  <2>2. CASE \A r \in Requests : resv[r].status # "reserving"
    <3>1. ASSUME NEW q \in Requests
          PROVE  /\ SameData(resv[q], resv'[q])
                 /\ \/ Similar(resv[q], resv'[q])
                    \/ resv[q].status = "settling" /\ resv'[q].status \in {"settled", "uncertain"}
      <4>1. resv' = OnceDone(mem, op.next, resv)
        BY <1>6 DEF PublishStep, Expected
      <4>2. SameData(resv[q], resv'[q])
        BY <1>1, <4>1, OnceDoneIs
      <4>3. resv[q].status = "settling" => resv'[q].status = "settled"
        BY <1>1, <4>1, OnceDoneIs
      <4>4. resv[q].status # "settling" => resv'[q].status = resv[q].status
        BY <1>1, <2>2, <4>1, OnceDoneIs
      <4>5. QED
        BY <4>2, <4>3, <4>4 DEF Similar
    <3>2. QED
      BY <1>1, <1>6, <3>1, SettlingSteps
  <2>3. QED
    BY <2>1, <2>2
<1>7. CASE clock' = clock /\ GiveUpStep
  <2>1. ASSUME NEW q \in Requests
        PROVE  /\ SameData(resv[q], resv'[q])
               /\ \/ Similar(resv[q], resv'[q])
                  \/ resv[q].status = "settling" /\ resv'[q].status \in {"settled", "uncertain"}
    <3>1. PICK status \in Statuses, held \in BOOLEAN :
            /\ resv'[q] = [resv[q] EXCEPT !.status = status, !.held = held]
            /\ status = CASE resv[q].status = "reserving" -> "refused"
                          [] resv[q].status = "settling" -> "uncertain"
                          [] resv[q].status = "live" /\ phase' = "down" -> "kept"
                          [] OTHER -> resv[q].status
      BY <1>7 DEF GiveUpStep
    <3>2. SameData(resv[q], resv'[q]) /\ resv'[q].status = status
      BY <1>2, <3>1 DEF Reservations, SameData
    <3>3. /\ resv[q].status = "reserving" => status = "refused"
          /\ resv[q].status = "settling" => status = "uncertain"
          /\ resv[q].status \notin {"reserving", "settling", "live"} => status = resv[q].status
          /\ resv[q].status = "live" => status \in {"live", "kept"}
      BY <3>1
    <3>4. QED
      BY <3>2, <3>3 DEF Similar, GrantedStatuses
  <2>2. QED
    BY <1>1, <1>7, <2>1, SettlingSteps
<1>8. ASSUME clock' = clock, NEW r \in Requests, NEW k \in Identities, NEW res, NEW victims,
             ReserveStep(r, k, res, victims)
      PROVE  [Promise!Next]_(Promise!vars)
  <2>1. ASSUME NEW q \in Requests PROVE GrantOf(resv'[q]) = GrantOf(resv[q])
    <3>1. CASE q = r
      <4>1. resv[q].status \notin GrantedStatuses /\ resv'[q].status \notin GrantedStatuses
        BY <1>1, <1>8, <3>1 DEF ReserveStep, Maps, GrantedStatuses
      <4>2. QED
        BY <1>2, <4>1, GrantIs, GrantRecord
    <3>2. CASE q # r
      BY <1>1, <1>8, <3>2 DEF ReserveStep, Maps
    <3>3. QED
      BY <3>1, <3>2
  <2>2. grantMap' = grantMap
    BY <2>1 DEF grantMap
  <2>3. QED
    BY <1>8, <2>2, PromiseIs
<1>9. ASSUME clock' = clock, NEW r \in Requests, NEW res, SettleStep(r, res)
      PROVE  [Promise!Next]_(Promise!vars)
  <2>1. resv[r].status = "live" /\ res \in Reservations
    BY <1>9 DEF SettleStep
  <2>2. res.window = resv[r].window /\ res.spend = resv[r].spend
    BY <1>2, <1>9 DEF SettleStep, Reservations
  <2>3. PICK status \in {"uncertain", "settling"} : resv' = [resv EXCEPT ![r] = [res EXCEPT !.status = status]]
    BY <1>9 DEF SettleStep
  <2>4. /\ resv'[r] = [res EXCEPT !.status = status]
        /\ \A q \in Requests \ {r} : resv'[q] = resv[q]
    BY <1>1, <2>3 DEF Maps
  <2>5. /\ resv'[r].status = status /\ resv'[r].window = resv[r].window /\ resv'[r].spend = resv[r].spend
    BY <2>1, <2>2, <2>4 DEF Reservations
  <2>6. resv[r].window # 0
    BY <1>1, <2>1 DEF OpenInv, GrantsAreReached, Granted, GrantedStatuses
  <2>7. GrantOf(resv'[r]) = GrantOf(resv[r]) \/ Reports(resv[r], resv'[r])
    BY <1>2, <2>1, <2>5, <2>6, ReportGrants
  <2>8. QED
    BY <1>9, <2>4, <2>7, ReportSteps
<1>10. SomeStep
  BY <1>1, EveryStep
<1>11. RenewStep \/ LoadStep \/ Rename => resv' = resv
  BY DEF RenewStep, LoadStep, Rename
<1>12. QED
  BY <1>3, <1>4, <1>5, <1>6, <1>7, <1>8, <1>9, <1>10, <1>11 DEF SomeStep

\* The ledger starts with no grants.
LEMMA InitPromise == Init => Promise!Init
<1> SUFFICES ASSUME Init PROVE Promise!Init
  OBVIOUS
<1>1. ASSUME NEW q \in Requests PROVE GrantOf(resv[q]) = Promise!NoGrant
  <2>1. resv[q].status = "new"
    BY DEF Init, NewReservation
  <2>2. QED
    BY <2>1 DEF GrantOf, GrantedStatuses, Promise!NoGrant, Promise!NotGranted
<1>2. grantMap = [r \in Requests |-> Promise!NoGrant]
  BY <1>1 DEF grantMap
<1>3. QED
  BY <1>2, PromiseIs DEF Init

\* The ledger implements the promise of DailyBudget: the writes, crashes, restarts and failures of
\* the detailed ledger show only as grants within the day's budget, one report for each, new days,
\* or nothing.  The counts that GrantsStayCounted keeps are what a grant needs: the budget that
\* reserve checks against its own counters bounds the true cost of the day's grants.
THEOREM LedgerKeepsDailyBudget == Spec => KeepsDailyBudget
<1>1. LedgerInv /\ LedgerInv' /\ [Next]_vars => [Promise!Next]_(Promise!vars)
  BY NextPromise
<1>2. QED
  BY <1>1, InitPromise, LedgerInvariant, PTL DEF Spec, KeepsDailyBudget, Promise!Spec
=============================================================================
