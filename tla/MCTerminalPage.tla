--------------------------- MODULE MCTerminalPage ---------------------------
(***************************************************************************)
(* Four parts of the terminal page: the frame scheduler of its chart, its  *)
(* indicator computations, its shadow scheduler and its strategy           *)
(* promotions.  They are explored one at a time: each moves only while the *)
(* others are in their initial states.  They share no variable, so         *)
(* interleaving them would multiply the states and show nothing more.      *)
(***************************************************************************)
EXTENDS RenderScheduler, IndicatorCompute, ShadowScheduler, ShadowPromotion, TLC

(* Three layers, stage budgets scaled down to a frame of three ticks.      *)
MCTypes == {"candle", "indicator", "overlay"}
MCRank == [t \in MCTypes |-> CASE t = "candle" -> 3 [] t = "indicator" -> 2 [] OTHER -> 1]
MCStageEnd == [t \in MCTypes |-> CASE t = "candle" -> 1 [] t = "indicator" -> 2 [] OTHER -> 3]

(* Up to four awaits of the shadow scheduler open at a time.               *)
MCSlots == 1 .. 4

(* Two scopes, and two ids for rankings of two entries, which may tie.     *)
CONSTANTS btc, eth, s1, s2
MCScopes == {btc, eth}
MCStrategies == {s1, s2}
MCSymmetry == Permutations(MCScopes) \union Permutations(MCStrategies)

allVars == <<renderVars, indicatorVars, shadowVars, promotionVars>>

Init == SchedulerInit /\ IndicatorInit /\ ShadowInit /\ PromotionInit

Next ==
    \/ /\ IndicatorInit /\ ShadowInit /\ PromotionInit
       /\ SchedulerNext /\ UNCHANGED <<indicatorVars, shadowVars, promotionVars>>
    \/ /\ SchedulerInit /\ ShadowInit /\ PromotionInit
       /\ IndicatorNext /\ UNCHANGED <<renderVars, shadowVars, promotionVars>>
    \/ /\ SchedulerInit /\ IndicatorInit /\ PromotionInit
       /\ ShadowNext /\ UNCHANGED <<renderVars, indicatorVars, promotionVars>>
    \/ /\ SchedulerInit /\ IndicatorInit /\ ShadowInit
       /\ PromotionNext /\ UNCHANGED <<renderVars, indicatorVars, shadowVars>>

Spec == Init /\ [][Next]_allVars
=============================================================================
