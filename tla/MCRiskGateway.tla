---------------------------- MODULE MCRiskGateway ----------------------------
(***************************************************************************)
(* A policy with the shape of the checked-in config/risk_policy.json and a *)
(* handful of orders that between them meet every reason: over the trade   *)
(* limit, over the leverage, slippage and confidence limits, on a blocked  *)
(* venue, on a blocked instrument, and on an instrument under a rule.      *)
(***************************************************************************)
EXTENDS RiskGatewayDay

MCInstruments == {"BTCUSDT", "SOLUSDT", "BADUSDT"}
MCModes == {"observe", "suggest", "guarded_auto", "managed_live"}
MCRegimes == {"UNKNOWN", "TREND"}
MCVenues == {"bingx", "closed"}

SolRule == [max_trade_notional_usd |-> 2, min_confidence |-> 78, allowed_regimes |-> {"TREND"}]

MCPolicy == [allowed_system_modes |-> MCModes \ {"observe"},
             max_trade_notional_usd |-> 3, daily_notional_limit_usd |-> 9,
             max_leverage |-> 2, max_slippage_bps |-> 10, min_confidence |-> 70,
             blocked_venues |-> {"closed"}, blocked_instruments |-> {"BADUSDT"},
             conditional_instrument_rules |->
                 [i \in MCInstruments |-> IF i = "SOLUSDT" THEN SolRule ELSE NoRule]]

Base == [instrument |-> "BTCUSDT", venue |-> "bingx", side |-> "buy", notional |-> 2,
         leverage |-> 1, slippage |-> 5, confidence |-> 80, regime |-> "TREND",
         live |-> FALSE]

MCOrders == {Base,
             [Base EXCEPT !.side = "sell", !.notional = 3],
             [Base EXCEPT !.notional = 4],
             [Base EXCEPT !.leverage = 3],
             [Base EXCEPT !.slippage = 11],
             [Base EXCEPT !.confidence = 60],
             [Base EXCEPT !.venue = "closed"],
             [Base EXCEPT !.instrument = "BADUSDT"],
             [Base EXCEPT !.instrument = "SOLUSDT", !.notional = 1],
             [Base EXCEPT !.instrument = "SOLUSDT", !.notional = 3],
             [Base EXCEPT !.instrument = "SOLUSDT", !.confidence = 75],
             [Base EXCEPT !.instrument = "SOLUSDT", !.regime = "UNKNOWN"]}
=============================================================================
