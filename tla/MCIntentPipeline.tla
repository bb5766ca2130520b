--------------------------- MODULE MCIntentPipeline ---------------------------
(***************************************************************************)
(* One intent id that callers reuse with a paper and a live payload of     *)
(* different sizes, two concurrent handlers, and one router error to trip  *)
(* the kill switch.                                                        *)
(***************************************************************************)
EXTENDS IntentPipeline, TLC

MCInstruments == {"BTCUSDT"}
MCModes == {"suggest", "managed_live"}
MCRegimes == {"UNKNOWN"}
MCVenues == {"bingx"}
MCLiveModes == {"managed_live"}
MCHoldModes == {"suggest"}

MCPolicy == [allowed_system_modes |-> MCModes,
             max_trade_notional_usd |-> 2, daily_notional_limit_usd |-> 2,
             max_leverage |-> 2, max_slippage_bps |-> 10, min_confidence |-> 70,
             blocked_venues |-> {}, blocked_instruments |-> {},
             conditional_instrument_rules |-> [i \in MCInstruments |-> NoRule]]

Paper == [instrument |-> "BTCUSDT", venue |-> "bingx", side |-> "buy", notional |-> 1,
          leverage |-> 1, slippage |-> 5, confidence |-> 80, regime |-> "UNKNOWN",
          live |-> FALSE]
Live == [Paper EXCEPT !.live = TRUE, !.notional = 2]

MCOrders == {Paper, Live}
MCPaperOrders == {Paper}
MCNoLosses == {}
MCReasons == {"manual_activation"}

HandlerSymmetry == Permutations(Handlers) \cup Permutations(Posts)
=============================================================================
