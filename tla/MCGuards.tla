------------------------------ MODULE MCGuards ------------------------------
(***************************************************************************)
(* The guards every order passes, the risk gateway, with the policy and    *)
(* the orders of MCRiskGateway, and the kill switch; and the guards of     *)
(* what mission control sends to the other services: the calls to the      *)
(* control plane, the idempotent write-back of strategy weights, the       *)
(* training samples, and the promotion of a strategy, which must have been *)
(* observed long enough.  Five errors trip the switch as in production;        *)
(* slippages and drawdowns lie on both sides of their thresholds (30 bps,  *)
(* 1500 USD in hundreds).                                                  *)
(*                                                                         *)
(* The parts are explored one at a time: each moves only while the others  *)
(* are in their initial states.  They share no variable; the first two     *)
(* meet in one handler in IntentPipeline.  The write-backs make calls; the *)
(* calls are explored by themselves as well, with reads among them.        *)
(***************************************************************************)
EXTENDS MCRiskGateway, KillSwitch, AutoTuning, PredictorTraining, ShadowPromotion, TLC

MCSlippages == {29, 30, 31}
MCDrawdowns == {0, 14, 15, 16}

(* The endpoint's default reason, and the AI vote proxy's when the agents  *)
(* disagree.                                                               *)
MCReasons == {"manual_activation", "agent_disagreement_threshold"}

(* Two calls at a time and two idempotency keys.  A DNS failure, a timeout *)
(* and a refused connection differ in the retry, in what they count and in *)
(* whether the request may have arrived.                                   *)
CONSTANTS c1, c2, k1, k2
MCCalls == {c1, c2}
MCKeys == {k1, k2}
MCFailures == {"dns_transient", "timeout", "connection_refused"}

(* One scope and two strategies, of which a cycle finds one.               *)
CONSTANTS btc, s1, s2
MCScopes == {btc}
MCStrategies == {s1, s2}
MCSymmetry == Permutations(MCStrategies)

orderVars == <<dayVars, ks>>
writeVars == <<writeback, records, sender, applied, doubtful, serial>>
allVars == <<orderVars, tuningVars, trainingVars, promotionVars>>

Init == DayInit /\ KillInit /\ TuningInit /\ TrainingInit /\ PromotionInit

(* The write-backs begin in several states, the others in one of these.    *)
FirstTuningInit == TuningInit /\ records = NoRecords /\ sender.key = k1

NextOfOrders ==
    \/ KillInit /\ DayNext /\ UNCHANGED ks
    \/ DayInit /\ KillNext /\ UNCHANGED dayVars

(* The calls by themselves leave the write-backs alone for good.           *)
NextOfTuning ==
    \/ (FetchInit \/ sender.submits > 0) /\ TuningNext
    \/ /\ sender.submits = 0 /\ records = NoRecords /\ sender.key = k1
       /\ FetchNext /\ UNCHANGED writeVars

Next ==
    \/ /\ FirstTuningInit /\ TrainingInit /\ PromotionInit
       /\ NextOfOrders /\ UNCHANGED <<tuningVars, trainingVars, promotionVars>>
    \/ /\ DayInit /\ KillInit /\ TrainingInit /\ PromotionInit
       /\ NextOfTuning /\ UNCHANGED <<orderVars, trainingVars, promotionVars>>
    \/ /\ DayInit /\ KillInit /\ FirstTuningInit /\ PromotionInit
       /\ TrainingNext /\ UNCHANGED <<orderVars, tuningVars, promotionVars>>
    \/ /\ DayInit /\ KillInit /\ FirstTuningInit /\ TrainingInit
       /\ PromotionNext /\ UNCHANGED <<orderVars, tuningVars, trainingVars>>

Spec == Init /\ [][Next]_allVars
=============================================================================
