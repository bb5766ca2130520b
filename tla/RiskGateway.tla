----------------------------- MODULE RiskGateway -----------------------------
(***************************************************************************)
(* The risk gateway service (apps/risk_gateway/main.py): one uvicorn       *)
(* worker that answers the control plane's pre-trade checks from a policy  *)
(* file and from two counters it keeps in memory.  A check contains no     *)
(* await, so each is one atomic step; accepting an order charges the       *)
(* counters, nothing ever releases a charge, and a restart forgets them.   *)
(* Notionals are whole units of USD, confidences whole percents.           *)
(***************************************************************************)
EXTENDS Integers

CONSTANTS
    Instruments,   \* normalised instrument names
    Modes,         \* shared/models.py SystemMode
    Regimes,       \* market regimes an order's explainability may name
    Venues,        \* execution venues
    Policy,        \* config/risk_policy.json, field by field
    Orders         \* the order payloads callers may submit

NoRule == [max_trade_notional_usd |-> 0, min_confidence |-> 0, allowed_regimes |-> {}]

ConditionalRule == [max_trade_notional_usd : Nat, min_confidence : Nat,
                    allowed_regimes : SUBSET Regimes]

OrderPayload == [instrument : Instruments, venue : Venues, side : {"buy", "sell"},
                 notional : Nat \ {0}, leverage : Nat, slippage : Nat,
                 confidence : Nat, regime : Regimes, live : BOOLEAN]

RiskPolicy == [allowed_system_modes : SUBSET Modes,
               max_trade_notional_usd : Nat, daily_notional_limit_usd : Nat,
               max_leverage : Nat, max_slippage_bps : Nat, min_confidence : Nat,
               blocked_venues : SUBSET Venues, blocked_instruments : SUBSET Instruments,
               conditional_instrument_rules : [Instruments -> ConditionalRule]]

ASSUME PolicyAssumption == Policy \in RiskPolicy
ASSUME OrdersAssumption == Orders \subseteq OrderPayload
ASSUME RegimesAssumption == "UNKNOWN" \in Regimes

VARIABLES
    dailyUsed,     \* STATE["daily_notional_used_usd"]
    exposure       \* STATE["exposure_by_instrument"], 0 for a missing key

riskVars == <<dailyUsed, exposure>>

RiskTypeOK ==
    /\ dailyUsed \in Nat
    /\ exposure \in [Instruments -> Int]

RiskInit ==
    /\ dailyUsed = 0
    /\ exposure = [i \in Instruments |-> 0]

-----------------------------------------------------------------------------
(* The checks: the set of reasons against an order, empty when accepted.   *)

When(condition, reason) == IF condition THEN {reason} ELSE {}

\* A zero limit and an empty regime list switch a conditional rule off.
ConditionalReasons(o, confidence, regime) ==
    LET rule == Policy.conditional_instrument_rules[o.instrument]
    IN  When(rule.max_trade_notional_usd > 0 /\ o.notional > rule.max_trade_notional_usd,
             "conditional_trade_notional_exceeds_limit")
        \cup When(confidence < rule.min_confidence, "conditional_confidence_below_threshold")
        \cup When(rule.allowed_regimes # {} /\ regime \notin rule.allowed_regimes,
                  "conditional_regime_not_allowed")

\* Faulty variant: looks at the counter before the order is added to it.
LimitAlreadyReached(o) == dailyUsed > Policy.daily_notional_limit_usd

OverDailyLimit(o) == dailyUsed + o.notional > Policy.daily_notional_limit_usd

SharedReasons(o, mode) ==
    When(mode \notin Policy.allowed_system_modes, "system_mode_not_allowed")
    \cup When(o.notional > Policy.max_trade_notional_usd, "trade_notional_exceeds_limit")
    \cup When(OverDailyLimit(o), "daily_notional_limit_exceeded")
    \cup When(o.slippage > Policy.max_slippage_bps, "slippage_limit_exceeded")
    \cup When(o.instrument \in Policy.blocked_instruments, "instrument_blocked")

PreTradeReasons(o, mode) ==
    SharedReasons(o, mode)
    \cup When(o.leverage > Policy.max_leverage, "leverage_exceeds_limit")
    \cup When(o.confidence < Policy.min_confidence, "confidence_below_threshold")
    \cup When(o.venue \in Policy.blocked_venues, "venue_blocked")
    \cup ConditionalReasons(o, o.confidence, o.regime)

\* The MT5 check knows neither confidence nor regime: it passes 1.0 and UNKNOWN.
Mt5Reasons(o, mode) ==
    SharedReasons(o, mode) \cup ConditionalReasons(o, 100, "UNKNOWN")

SignedNotional(o) == IF o.side = "buy" THEN o.notional ELSE -o.notional

Charge(o) ==
    /\ dailyUsed' = dailyUsed + o.notional
    /\ exposure' = [exposure EXCEPT ![o.instrument] = @ + SignedNotional(o)]

PreTradeCheck(o, mode) ==
    IF PreTradeReasons(o, mode) = {} THEN Charge(o) ELSE UNCHANGED riskVars

Mt5OrderCheck(o, mode) ==
    IF Mt5Reasons(o, mode) = {} THEN Charge(o) ELSE UNCHANGED riskVars

\* Faulty variant: only the budget is forgotten.
RestartKeepingExposure == dailyUsed' = 0 /\ UNCHANGED exposure

\* Both counters are module globals: a new process starts from zero.
RiskRestart ==
    /\ dailyUsed' = 0
    /\ exposure' = [i \in Instruments |-> 0]

RiskNext ==
    \/ \E o \in Orders, mode \in Modes : PreTradeCheck(o, mode)
    \/ \E o \in Orders, mode \in Modes : Mt5OrderCheck(o, mode)
    \/ RiskRestart

RiskSpec == RiskInit /\ [][RiskNext]_riskVars

-----------------------------------------------------------------------------
(* What one process lifetime promises, whatever the order of the checks.   *)

\* The notional charged by one gateway process never exceeds the policy's
\* daily limit, whichever mix of pre-trade and MT5 checks charged it: both
\* endpoints share the one counter (apps/risk_gateway/main.py, l.129 and 200).
BudgetRespected == dailyUsed <= Policy.daily_notional_limit_usd

\* The two counters agree: the net exposure recorded for an instrument is
\* backed by budget that was charged, so no sequence of buys and sells on
\* either endpoint books exposure that the daily counter did not see.
ExposureBacked == \A i \in Instruments : exposure[i] \in -dailyUsed .. dailyUsed
=============================================================================
