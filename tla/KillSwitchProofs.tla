--------------------------- MODULE KillSwitchProofs ---------------------------
(***************************************************************************)
(* The kill switch for every setting of its thresholds: a statistic can    *)
(* reach its threshold only in the step that turns the switch on.          *)
(***************************************************************************)
EXTENDS KillSwitch, TLAPS

KillInv == KillTypeOK /\ OffMeansBelowThresholds

\* What every save of the kill-switch document writes is one of five documents.
LEMMA KillStepForms ==
    ASSUME KillNext
    PROVE  \/ ks' = WithApiError(ks)
           \/ \E bps \in Slippages : ks' = WithSlippage(ks, bps)
           \/ \E drawdown \in Drawdowns : ks' = WithDrawdown(ks, drawdown)
           \/ \E reason \in ActivationReasons : ks' = Activated(ks, reason)
           \/ ks' = Cleared
BY DEF KillNext, RecordApiError, RecordSlippageEvent, RecomputeDrawdownGuard,
       ActivateKillSwitch, ResetKillSwitch

\* Turning the switch on keeps the shape of the document.
LEMMA ActivatedType ==
    ASSUME NEW s \in KillState, NEW reason \in KillReasons
    PROVE  Activated(s, reason) \in KillState
BY DEF Activated, KillState

\* Activated really leaves the switch on.
LEMMA ActivatedActive ==
    ASSUME NEW s \in KillState, NEW reason
    PROVE  Activated(s, reason).active
BY DEF Activated, KillState

\* A document without errors, bad fills or losses satisfies the invariant.
LEMMA QuietInv ==
    ASSUME NEW reason \in KillReasons
    PROVE  /\ Quiet(reason) \in KillState
           /\ Quiet(reason).api_errors < MaxApiErrors
           /\ Quiet(reason).high_slippage_events = 0
           /\ Quiet(reason).drawdown_intraday_usd < MaxDrawdown
BY ThresholdAssumption DEF Quiet, KillState

\* Every save writes a well-formed document.
LEMMA KillTypeStep ==
    ASSUME KillTypeOK, KillNext
    PROVE  KillTypeOK'
<1>1. {"api_errors_threshold", "slippage_threshold", "drawdown_intraday_threshold",
       "manual_reset"} \cup ActivationReasons \subseteq KillReasons
  BY DEF KillReasons
<1>2. [ks EXCEPT !.api_errors = @ + 1] \in KillState
  BY DEF KillTypeOK, KillState
<1>3. [ks EXCEPT !.high_slippage_events = @ + 1] \in KillState
  BY DEF KillTypeOK, KillState
<1>4. \A drawdown \in Drawdowns : [ks EXCEPT !.drawdown_intraday_usd = drawdown] \in KillState
  BY ThresholdAssumption DEF KillTypeOK, KillState
<1>5. CASE ks' = WithApiError(ks)
  BY <1>1, <1>2, <1>5, ActivatedType DEF WithApiError, KillTypeOK
<1>6. ASSUME NEW bps \in Slippages, ks' = WithSlippage(ks, bps) PROVE KillTypeOK'
  BY <1>1, <1>3, <1>6, ActivatedType DEF WithSlippage, KillTypeOK
<1>7. ASSUME NEW drawdown \in Drawdowns, ks' = WithDrawdown(ks, drawdown) PROVE KillTypeOK'
  BY <1>1, <1>4, <1>7, ActivatedType DEF WithDrawdown, KillTypeOK
<1>8. ASSUME NEW reason \in ActivationReasons, ks' = Activated(ks, reason) PROVE KillTypeOK'
  BY <1>1, <1>8, ActivatedType DEF KillTypeOK
<1>9. CASE ks' = Cleared
  BY <1>1, <1>9, QuietInv DEF Cleared, KillTypeOK
<1> QED BY <1>5, <1>6, <1>7, <1>8, <1>9, KillStepForms

\* The document keeps its shape, and an inactive one has no tripped counter.
THEOREM KillInvariant == KillSpec => []KillInv
<1>1. KillInit => KillInv
  <2>1. "none" \in KillReasons
    BY DEF KillReasons
  <2> QED BY <2>1, QuietInv DEF KillInit, KillInv, KillTypeOK, OffMeansBelowThresholds
<1>2. KillInv /\ [KillNext]_ks => KillInv'
  <2> SUFFICES ASSUME KillInv, [KillNext]_ks PROVE KillInv'
    OBVIOUS
  <2> USE DEF KillInv, KillTypeOK, OffMeansBelowThresholds
  <2>r. /\ {"api_errors_threshold", "slippage_threshold", "drawdown_intraday_threshold",
             "manual_reset"} \subseteq KillReasons
        /\ ActivationReasons \subseteq KillReasons
    BY DEF KillReasons
  <2>1. CASE ks' = WithApiError(ks)
    <3> DEFINE counted == [ks EXCEPT !.api_errors = @ + 1]
    <3>1. /\ counted \in KillState
          /\ counted.active = ks.active
          /\ counted.high_slippage_events = ks.high_slippage_events
          /\ counted.drawdown_intraday_usd = ks.drawdown_intraday_usd
      BY DEF KillState
    <3> HIDE DEF counted
    <3>2. ks' = IF counted.api_errors >= MaxApiErrors
                THEN Activated(counted, "api_errors_threshold") ELSE counted
      BY <2>1 DEF WithApiError, counted
    <3>3. CASE counted.api_errors >= MaxApiErrors
      BY <3>1, <3>2, <3>3, <2>r, ActivatedType, ActivatedActive
    <3>4. CASE ~(counted.api_errors >= MaxApiErrors)
      BY <3>1, <3>2, <3>4, ThresholdAssumption DEF KillState
    <3> QED BY <3>3, <3>4
  <2>2. ASSUME NEW bps \in Slippages, ks' = WithSlippage(ks, bps) PROVE KillInv'
    <3> DEFINE counted == [ks EXCEPT !.high_slippage_events = @ + 1]
    <3>1. counted \in KillState
      BY DEF KillState
    <3> HIDE DEF counted
    <3>2. ks' = IF bps >= MaxSlippageBps
                THEN Activated(counted, "slippage_threshold") ELSE ks
      BY <2>2 DEF WithSlippage, counted
    <3> QED BY <3>1, <3>2, <2>r, ActivatedType, ActivatedActive
  <2>3. ASSUME NEW drawdown \in Drawdowns, ks' = WithDrawdown(ks, drawdown) PROVE KillInv'
    <3> DEFINE measured == [ks EXCEPT !.drawdown_intraday_usd = drawdown]
    <3>1. /\ measured \in KillState
          /\ measured.active = ks.active
          /\ measured.api_errors = ks.api_errors
          /\ measured.high_slippage_events = ks.high_slippage_events
          /\ measured.drawdown_intraday_usd = drawdown
      BY ThresholdAssumption DEF KillState
    <3> HIDE DEF measured
    <3>2. ks' = IF drawdown >= MaxDrawdown
                THEN Activated(measured, "drawdown_intraday_threshold") ELSE measured
      BY <2>3 DEF WithDrawdown, measured
    <3>3. CASE drawdown >= MaxDrawdown
      BY <3>1, <3>2, <3>3, <2>r, ActivatedType, ActivatedActive
    <3>4. CASE ~(drawdown >= MaxDrawdown)
      BY <3>1, <3>2, <3>4, ThresholdAssumption
    <3> QED BY <3>3, <3>4
  <2>4. ASSUME NEW reason \in ActivationReasons, ks' = Activated(ks, reason) PROVE KillInv'
    BY <2>4, <2>r, ActivatedType, ActivatedActive
  <2>5. CASE ks' = Cleared
    BY <2>5, <2>r, QuietInv DEF Cleared
  <2>6. CASE UNCHANGED ks
    BY <2>6
  <2> QED BY <2>1, <2>2, <2>3, <2>4, <2>5, <2>6, KillStepForms
<1> QED BY <1>1, <1>2, PTL DEF KillSpec

\* While the switch is off no statistic has reached its threshold.
THEOREM KillOffMeansBelow == KillSpec => []OffMeansBelowThresholds
BY KillInvariant, PTL DEF KillInv

\* Until an administrator resets it, an active switch stays active and keeps
\* the reason it was first given.
THEOREM KillFirstCauseStays == KillSpec => FirstCauseStays
<1>1. KillTypeOK /\ [KillNext]_ks =>
          [ks.active => (ks'.active /\ ks'.reason = ks.reason) \/ ks' = Cleared]_ks
  BY KillStepForms
     DEF KillTypeOK, KillState, WithApiError, WithSlippage, WithDrawdown, Activated, Cleared
<1>2. KillSpec => []KillTypeOK
  BY KillInvariant, PTL DEF KillInv
<1> QED BY <1>1, <1>2, PTL DEF KillSpec, FirstCauseStays
=============================================================================
