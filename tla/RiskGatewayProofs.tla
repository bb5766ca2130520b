-------------------------- MODULE RiskGatewayProofs --------------------------
(***************************************************************************)
(* The budget of the risk gateway, for every policy and every set of       *)
(* orders.  RiskTypeOK /\ ExposureBacked is inductive by itself; the limit *)
(* is inductive because every check compares before it charges.  The last  *)
(* theorem is about the calendar of RiskGatewayDay.                        *)
(***************************************************************************)
EXTENDS RiskGatewayDay, TLAPS

RiskInv == RiskTypeOK /\ BudgetRespected /\ ExposureBacked

\* Both checks accept only what still fits under the daily limit.
LEMMA AcceptedFits ==
    ASSUME NEW o \in Orders, NEW mode \in Modes, RiskTypeOK, SharedReasons(o, mode) = {}
    PROVE  dailyUsed + o.notional <= Policy.daily_notional_limit_usd
<1>1. When(dailyUsed + o.notional > Policy.daily_notional_limit_usd,
           "daily_notional_limit_exceeded") = {}
  BY DEF SharedReasons, OverDailyLimit
<1>2. ~(dailyUsed + o.notional > Policy.daily_notional_limit_usd)
  BY <1>1 DEF When
<1>3. o.notional \in Nat /\ Policy.daily_notional_limit_usd \in Nat
  BY PolicyAssumption, OrdersAssumption DEF OrderPayload, RiskPolicy
<1> QED BY <1>2, <1>3 DEF RiskTypeOK

\* Charging an order that fits keeps the three invariants, buy or sell.
LEMMA ChargeKeepsInv ==
    ASSUME NEW o \in Orders, RiskInv,
           dailyUsed + o.notional <= Policy.daily_notional_limit_usd,
           Charge(o)
    PROVE  RiskInv'
<1>1. o \in OrderPayload
  BY OrdersAssumption
<1>2. /\ o.notional \in Nat
      /\ o.instrument \in Instruments
      /\ SignedNotional(o) \in {o.notional, -o.notional}
  BY <1>1 DEF OrderPayload, SignedNotional
<1>3. RiskTypeOK'
  BY <1>2 DEF RiskInv, RiskTypeOK, Charge
<1>4. BudgetRespected'
  BY DEF BudgetRespected, Charge
<1>5. ExposureBacked'
  BY <1>2 DEF RiskInv, RiskTypeOK, ExposureBacked, Charge
<1> QED BY <1>3, <1>4, <1>5 DEF RiskInv

\* A new process has charged nothing and booked nothing.
LEMMA ZeroCountersInv ==
    ASSUME dailyUsed = 0, exposure = [i \in Instruments |-> 0]
    PROVE  RiskInv
BY PolicyAssumption DEF RiskInv, RiskTypeOK, BudgetRespected, ExposureBacked, RiskPolicy

\* Every check and every restart keeps the invariants.
LEMMA RiskStep == RiskInv /\ [RiskNext]_riskVars => RiskInv'
<1> SUFFICES ASSUME RiskInv, [RiskNext]_riskVars PROVE RiskInv'
  OBVIOUS
<1>1. ASSUME NEW o \in Orders, NEW mode \in Modes, PreTradeCheck(o, mode) PROVE RiskInv'
  <2>1. CASE PreTradeReasons(o, mode) = {}
    <3>1. SharedReasons(o, mode) = {} /\ Charge(o)
      BY <1>1, <2>1 DEF PreTradeReasons, PreTradeCheck
    <3> QED BY <3>1, AcceptedFits, ChargeKeepsInv DEF RiskInv
  <2>2. CASE PreTradeReasons(o, mode) # {}
    BY <1>1, <2>2 DEF PreTradeCheck, riskVars, RiskInv, RiskTypeOK, BudgetRespected,
                      ExposureBacked
  <2> QED BY <2>1, <2>2
<1>2. ASSUME NEW o \in Orders, NEW mode \in Modes, Mt5OrderCheck(o, mode) PROVE RiskInv'
  <2>1. CASE Mt5Reasons(o, mode) = {}
    <3>1. SharedReasons(o, mode) = {} /\ Charge(o)
      BY <1>2, <2>1 DEF Mt5Reasons, Mt5OrderCheck
    <3> QED BY <3>1, AcceptedFits, ChargeKeepsInv DEF RiskInv
  <2>2. CASE Mt5Reasons(o, mode) # {}
    BY <1>2, <2>2 DEF Mt5OrderCheck, riskVars, RiskInv, RiskTypeOK, BudgetRespected,
                      ExposureBacked
  <2> QED BY <2>1, <2>2
<1>3. CASE RiskRestart
  BY <1>3, PolicyAssumption DEF RiskRestart, RiskInv, RiskTypeOK, BudgetRespected,
                                ExposureBacked, RiskPolicy
<1>4. CASE UNCHANGED riskVars
  BY <1>4 DEF riskVars, RiskInv, RiskTypeOK, BudgetRespected, ExposureBacked
<1> QED BY <1>1, <1>2, <1>3, <1>4 DEF RiskNext

\* The invariants hold initially and every check and restart keeps them.
THEOREM RiskInvariant == RiskSpec => []RiskInv
<1>1. RiskInit => RiskInv
  BY ZeroCountersInv DEF RiskInit
<1> QED BY <1>1, RiskStep, PTL DEF RiskSpec

\* The counters stay counters: a natural number and one integer per instrument.
THEOREM RiskTypeCorrect == RiskSpec => []RiskTypeOK
BY RiskInvariant, PTL DEF RiskInv

\* One gateway process never charges more than the policy's daily limit, for
\* every policy and every interleaving of the two endpoints.
THEOREM RiskBudgetRespected == RiskSpec => []BudgetRespected
BY RiskInvariant, PTL DEF RiskInv

\* No instrument carries more exposure than the budget that was charged.
THEOREM RiskExposureBacked == RiskSpec => []ExposureBacked
BY RiskInvariant, PTL DEF RiskInv

-----------------------------------------------------------------------------
\* The counter of a process without restart covers what the day accepted.
DayInv ==
    /\ RiskInv
    /\ acceptedToday \in Nat /\ restarts \in Nat
    /\ restarts = 0 => acceptedToday <= dailyUsed

\* Whatever a check charges, the counter and the day's sum grow alike.
LEMMA DayCheckKeeps ==
    ASSUME DayInv, DayCheck
    PROVE  DayInv'
<1>1. RiskNext
  BY DEF DayCheck, RiskNext
<1>2. RiskInv'
  BY <1>1, RiskStep DEF DayInv
<1>3. dailyUsed \in Nat /\ dailyUsed' \in Nat
  BY <1>2 DEF DayInv, RiskInv, RiskTypeOK
<1>4. PICK n \in Nat : dailyUsed' = dailyUsed + n
  <2>1. PICK o \in Orders : UNCHANGED riskVars \/ Charge(o)
    BY DEF DayCheck, PreTradeCheck, Mt5OrderCheck
  <2>2. o.notional \in Nat
    BY OrdersAssumption DEF OrderPayload
  <2>3. CASE UNCHANGED riskVars
    BY <1>3, <2>3 DEF riskVars
  <2>4. CASE Charge(o)
    BY <2>2, <2>4 DEF Charge
  <2> QED BY <2>1, <2>3, <2>4
<1>5. dailyUsed' - dailyUsed = n
  BY <1>3, <1>4
<1>6. acceptedToday' = acceptedToday + n /\ restarts' = restarts
  BY <1>5 DEF DayCheck
<1>7. acceptedToday \in Nat /\ (restarts = 0 => acceptedToday <= dailyUsed)
  BY DEF DayInv
<1>8. acceptedToday' \in Nat /\ (restarts' = 0 => acceptedToday' <= dailyUsed')
  BY <1>3, <1>4, <1>6, <1>7
<1> QED BY <1>2, <1>6, <1>8 DEF DayInv

\* On a day without a restart the limit per process is a limit per day, for
\* every policy and every mix of the two checks.
THEOREM DayLimitWithoutRestart == DaySpec => []DayWithoutRestartWithinLimit
<1>1. DayInit => DayInv
  BY ZeroCountersInv DEF DayInit, RiskInit, DayInv
<1>2. DayInv /\ [DayNext]_dayVars => DayInv'
  <2> SUFFICES ASSUME DayInv, [DayNext]_dayVars PROVE DayInv'
    OBVIOUS
  <2>1. CASE DayCheck
    BY <2>1, DayCheckKeeps
  <2>2. CASE DayRestart
    <3>1. RiskInv'
      BY <2>2, RiskStep DEF DayRestart, RiskNext, DayInv
    <3> QED BY <2>2, <3>1 DEF DayInv, DayRestart
  <2>3. CASE Midnight \/ UNCHANGED dayVars
    <3>1. UNCHANGED riskVars
      BY <2>3 DEF Midnight, dayVars, riskVars
    <3>2. RiskInv'
      BY <3>1, RiskStep DEF DayInv
    <3>3. UNCHANGED dailyUsed /\ dailyUsed \in Nat
      BY <3>1 DEF riskVars, DayInv, RiskInv, RiskTypeOK
    <3> QED BY <2>3, <3>2, <3>3 DEF DayInv, Midnight, dayVars
  <2> QED BY <2>1, <2>2, <2>3 DEF DayNext
<1>3. DayInv => DayWithoutRestartWithinLimit
  BY PolicyAssumption DEF DayInv, RiskInv, RiskTypeOK, BudgetRespected,
                          DayWithoutRestartWithinLimit, RiskPolicy
<1> QED BY <1>1, <1>2, <1>3, PTL DEF DaySpec
=============================================================================
