------------------------------ MODULE KillSwitch ------------------------------
(***************************************************************************)
(* The control plane's kill switch (apps/control_plane/main.py): one JSON  *)
(* document in system_config, read, changed and saved by every path that   *)
(* sees an error, a bad fill or a loss.  None of these paths awaits        *)
(* between its read and its last save, so each is one step.  The document  *)
(* survives a restart of the control plane, which saves it back unchanged. *)
(***************************************************************************)
EXTENDS Integers

CONSTANTS
    MaxApiErrors,      \* KILL_MAX_API_ERRORS
    MaxSlippageBps,    \* KILL_MAX_SLIPPAGE_BPS
    MaxDrawdown,       \* KILL_MAX_DRAWDOWN_INTRADAY_USD
    Slippages,         \* realised slippages the bridge may report
    Drawdowns,         \* 24 h losses the outcomes may add up to
    ActivationReasons, \* causes a direct activation may give
    ErrorBound         \* bound on the error counter, for model checking

ASSUME ThresholdAssumption ==
    /\ MaxApiErrors \in Nat \ {0}
    /\ MaxSlippageBps \in Nat \ {0}
    /\ MaxDrawdown \in Nat \ {0}
    /\ Slippages \subseteq Nat
    /\ Drawdowns \subseteq Nat
    /\ ErrorBound \in Nat

VARIABLE ks            \* config_value of 'kill_switch_state'

KillReasons == {"none", "api_errors_threshold", "slippage_threshold",
                "drawdown_intraday_threshold", "manual_reset"} \cup ActivationReasons

KillState == [active : BOOLEAN, reason : KillReasons, api_errors : Nat,
              high_slippage_events : Nat, drawdown_intraday_usd : Nat]

KillTypeOK == ks \in KillState

\* No error, no bad fill, no loss: what a fresh database and a reset say.
Quiet(reason) == [active |-> FALSE, reason |-> reason, api_errors |-> 0,
                  high_slippage_events |-> 0, drawdown_intraday_usd |-> 0]

KillInit == ks = Quiet("none")

-----------------------------------------------------------------------------
(* The documents the control plane saves.                                  *)

\* Faulty variant: every call writes its own cause.
ActivatedAgain(s, reason) == [s EXCEPT !.active = TRUE, !.reason = reason]

\* _activate_kill_switch: the first cause wins, a second call changes nothing.
Activated(s, reason) ==
    IF s.active THEN s ELSE [s EXCEPT !.active = TRUE, !.reason = reason]

WithApiError(s) ==
    LET counted == [s EXCEPT !.api_errors = @ + 1]
    IN  IF counted.api_errors >= MaxApiErrors
        THEN Activated(counted, "api_errors_threshold")
        ELSE counted

WithSlippage(s, bps) ==
    IF bps >= MaxSlippageBps
    THEN Activated([s EXCEPT !.high_slippage_events = @ + 1], "slippage_threshold")
    ELSE s

WithDrawdown(s, drawdown) ==
    LET measured == [s EXCEPT !.drawdown_intraday_usd = drawdown]
    IN  IF drawdown >= MaxDrawdown
        THEN Activated(measured, "drawdown_intraday_threshold")
        ELSE measured

\* Faulty variant: the flag goes off and the statistics stay.
ClearedFlagOnly == [ks EXCEPT !.active = FALSE, !.reason = "manual_reset"]

Cleared == Quiet("manual_reset")

-----------------------------------------------------------------------------
RecordApiError ==
    /\ ks.api_errors < ErrorBound
    /\ ks' = WithApiError(ks)

RecordSlippageEvent(bps) ==
    /\ ks.high_slippage_events < ErrorBound
    /\ ks' = WithSlippage(ks, bps)

RecomputeDrawdownGuard(drawdown) == ks' = WithDrawdown(ks, drawdown)

\* An administrator or the watchdog calls the endpoint; the AI vote proxy
\* activates the switch itself when the agents disagree too much.
ActivateKillSwitch(reason) == ks' = Activated(ks, reason)

ResetKillSwitch == ks' = Cleared

KillNext ==
    \/ RecordApiError
    \/ \E bps \in Slippages : RecordSlippageEvent(bps)
    \/ \E drawdown \in Drawdowns : RecomputeDrawdownGuard(drawdown)
    \/ \E reason \in ActivationReasons : ActivateKillSwitch(reason)
    \/ ResetKillSwitch

KillSpec == KillInit /\ [][KillNext]_ks

-----------------------------------------------------------------------------
\* While the switch is off every statistic is below the threshold that turns
\* it on: no order of errors, bad fills, losses, activations and resets
\* leaves trading enabled with a tripped counter (l.7748-7782, l.10784-10791).
OffMeansBelowThresholds ==
    ~ks.active =>
        /\ ks.api_errors < MaxApiErrors
        /\ ks.high_slippage_events = 0
        /\ ks.drawdown_intraday_usd < MaxDrawdown

\* Only an administrator's reset turns the switch off, and until then the
\* first cause stays on record whatever else goes wrong (l.7733-7735).
FirstCauseStays ==
    [][ks.active => (ks'.active /\ ks'.reason = ks.reason) \/ ks' = Cleared]_ks
=============================================================================
