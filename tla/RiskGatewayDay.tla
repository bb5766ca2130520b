--------------------------- MODULE RiskGatewayDay ---------------------------
(***************************************************************************)
(* The gateway against the calendar.  Nothing in the service reads a       *)
(* clock: midnight leaves its counters alone and a restart clears them, so *)
(* the "daily" counter is a counter per process lifetime.  This module     *)
(* adds what a day's worth of accepted orders really adds up to.           *)
(***************************************************************************)
EXTENDS RiskGateway

CONSTANT MaxRestarts   \* bound on the restarts of one day

ASSUME RestartsAssumption == MaxRestarts \in Nat

VARIABLES
    acceptedToday,  \* notional accepted since midnight, by any process
    restarts        \* restarts since midnight

dayVars == <<dailyUsed, exposure, acceptedToday, restarts>>

DayInit == RiskInit /\ acceptedToday = 0 /\ restarts = 0

DayCheck ==
    /\ \E o \in Orders, mode \in Modes : PreTradeCheck(o, mode) \/ Mt5OrderCheck(o, mode)
    /\ acceptedToday' = acceptedToday + (dailyUsed' - dailyUsed)
    /\ UNCHANGED restarts

DayRestart ==
    /\ restarts < MaxRestarts
    /\ RiskRestart
    /\ restarts' = restarts + 1
    /\ UNCHANGED acceptedToday

Midnight ==
    /\ acceptedToday' = 0
    /\ restarts' = 0
    /\ UNCHANGED riskVars

DayNext == DayCheck \/ DayRestart \/ Midnight

DaySpec == DayInit /\ [][DayNext]_dayVars

\* On a day without a restart the gateway errs on the safe side: what it
\* counts as used covers everything it accepted that day, so the limit holds
\* for the day although the counter also carries the days before.
DayWithoutRestartWithinLimit ==
    restarts = 0 => acceptedToday <= dailyUsed /\ acceptedToday <= Policy.daily_notional_limit_usd

\* The policy names a limit per day ("daily_notional_limit_usd": 30,
\* config/risk_policy.json, l.9): what the gateway accepts between two
\* midnights stays within it.
AcceptedTodayWithinLimit == acceptedToday <= Policy.daily_notional_limit_usd
=============================================================================
