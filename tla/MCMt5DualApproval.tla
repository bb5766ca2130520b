-------------------------- MODULE MCMt5DualApproval --------------------------
(***************************************************************************)
(* One account, two operators, two overlapping requests, one approval more *)
(* than the backlog holds, and an anti-loop that bites at once.  The order *)
(* with the wide spread is the one the gateway must keep from the bridge.  *)
(***************************************************************************)
EXTENDS Mt5DualApproval, TLC

MCInstruments == {"EURUSD"}
MCModes == {"managed_live"}
MCRegimes == {"UNKNOWN"}
MCVenues == {"mt5"}

MCPolicy == [allowed_system_modes |-> {"managed_live"},
             max_trade_notional_usd |-> 1, daily_notional_limit_usd |-> 2,
             max_leverage |-> 2, max_slippage_bps |-> 10, min_confidence |-> 70,
             blocked_venues |-> {}, blocked_instruments |-> {},
             conditional_instrument_rules |-> [i \in MCInstruments |-> NoRule]]

Narrow == [instrument |-> "EURUSD", venue |-> "mt5", side |-> "buy", notional |-> 1,
           leverage |-> 1, slippage |-> 5, confidence |-> 90, regime |-> "UNKNOWN",
           live |-> TRUE]
Wide == [Narrow EXCEPT !.slippage = 30]

MCOrders == {Narrow, Wide}
MCSlippages == {5, 30}
MCNone == {}
MCReasons == {"manual_activation"}

OperatorSymmetry == Permutations(Handlers) \cup Permutations(Users)
                        \cup Permutations(Approvals) \cup Permutations(Tickets)
=============================================================================
