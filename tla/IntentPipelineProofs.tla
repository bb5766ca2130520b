------------------------- MODULE IntentPipelineProofs -------------------------
(***************************************************************************)
(* The intent pipeline for any number of intents, handlers and posts.      *)
(* What a post carries was accepted because the request it came from was,  *)
(* and the request was because the submission or the waiting intent it was *)
(* made of was: PipelineInv follows a payload along that way.              *)
(***************************************************************************)
EXTENDS IntentPipeline, RiskGatewayProofs, KillSwitchProofs

\* A request under way is well formed; until the gateway answers it carries the
\* caller's order, and once it is granted the gateway accepted that size.
RequestBacked ==
    \A h \in Handlers : pc[h] # "idle" =>
        /\ req[h] \in Request
        /\ pc[h] = "risk" => req[h].order \in Orders
        /\ pc[h] \in {"memory", "routing"} \/ (pc[h] = "decided" /\ req[h].granted) =>
               req[h].order.notional <= accepted[req[h].intent]
        /\ pc[h] = "routing" => req[h].post \in Posts

PipelineInv ==
    /\ TypeOK
    /\ RequestBacked
    /\ ApprovalIsBacked
    /\ DispatchWithinAcceptance

\* An order that waits is not the empty slot.
LEMMA PayloadIsOrder ==
    ASSUME NEW o \in OrderPayload
    PROVE  o # NoOrder
BY DEF OrderPayload, NoOrder

\* A post that was sent is not the empty slot.
LEMMA CallIsSent ==
    ASSUME NEW c \in Call
    PROVE  c # Unsent
BY DEF Call, Unsent

\* Nothing waits, runs or was sent at the start.
LEMMA PipelineInit ==
    ASSUME Init
    PROVE  PipelineInv
<1>1. RiskTypeOK
  BY DEF Init, RiskInit, RiskTypeOK
<1>2. KillTypeOK
  <2>1. "none" \in KillReasons
    BY DEF KillReasons
  <2> QED BY <2>1, QuietInv DEF Init, KillInit, KillTypeOK
<1>3. TypeOK
  BY <1>1, <1>2 DEF Init, TypeOK, IntentStatus, PCs
<1>4. ApprovalIsBacked /\ RequestBacked /\ DispatchWithinAcceptance
  BY DEF Init, RequestBacked, ApprovalIsBacked, DispatchWithinAcceptance
<1> QED BY <1>3, <1>4 DEF PipelineInv

\* A fresh request carries the payload it was given and no verdict yet.
LEMMA SubmitKeeps ==
    ASSUME PipelineInv, NEW h \in Handlers, NEW i \in Intents, NEW o \in Orders,
           NEW auto \in BOOLEAN, Submit(h, i, o, auto)
    PROVE  PipelineInv'
<1> USE DEF PipelineInv, Submit, storeVars, handlerVars, historyVars, riskVars
<1>1. TypeOK'
  BY OrdersAssumption DEF TypeOK, RiskTypeOK, KillTypeOK, Request, NoRequest, PCs
<1>2. RequestBacked'
  BY OrdersAssumption DEF TypeOK, RequestBacked, Request, NoRequest
<1>3. ApprovalIsBacked'
  BY DEF TypeOK, ApprovalIsBacked
<1>4. DispatchWithinAcceptance'
  BY DEF DispatchWithinAcceptance
<1> QED BY <1>1, <1>2, <1>3, <1>4

\* The verdict comes with the acceptance it stands for.
LEMMA GatewayCheckKeeps ==
    ASSUME PipelineInv, NEW h \in Handlers, GatewayCheck(h)
    PROVE  PipelineInv'
<1> USE DEF PipelineInv, storeVars, handlerVars, historyVars, riskVars
<1> DEFINE o == req[h].order
           i == req[h].intent
           granted == PreTradeReasons(o, req[h].mode) = {}
<1>1. /\ req[h] \in Request
      /\ o \in Orders /\ o \in OrderPayload /\ i \in Intents
      /\ o.notional \in Nat
  BY OrdersAssumption DEF GatewayCheck, RequestBacked, Request, OrderPayload
<1>2. /\ pc[h] = "risk"
      /\ PreTradeCheck(o, req[h].mode)
      /\ req' = [req EXCEPT ![h].granted = granted]
      /\ accepted' = IF granted /\ o.notional > accepted[i]
                     THEN [accepted EXCEPT ![i] = o.notional] ELSE accepted
      /\ pc' = [pc EXCEPT ![h] = "decided"]
      /\ UNCHANGED <<ks, mode, pending, intents, ordersTable, calls, submits>>
  BY DEF GatewayCheck
<1>3. RiskTypeOK'
  <2>1. CASE granted
    BY <1>1, <1>2, <2>1 DEF PreTradeCheck, Charge, SignedNotional, TypeOK, RiskTypeOK, OrderPayload
  <2>2. CASE ~granted
    BY <1>2, <2>2 DEF PreTradeCheck, TypeOK, RiskTypeOK
  <2> QED BY <2>1, <2>2
<1>4. /\ accepted' \in [Intents -> Nat]
      /\ \A j \in Intents : accepted[j] <= accepted'[j]
      /\ granted => o.notional <= accepted'[i]
  BY <1>1, <1>2 DEF TypeOK
<1> HIDE DEF o, i, granted
<1>5. /\ req'[h] \in Request
      /\ req'[h].op = req[h].op /\ req'[h].intent = i /\ req'[h].order = o
      /\ req'[h].granted = granted
  BY <1>1, <1>2 DEF Request, TypeOK, granted, i, o
<1>6. TypeOK'
  BY <1>2, <1>3, <1>4, <1>5 DEF TypeOK, KillTypeOK, PCs
<1>7. RequestBacked'
  BY <1>2, <1>4, <1>5 DEF TypeOK, RequestBacked, Request, OrderPayload
<1>8. ApprovalIsBacked'
  BY <1>2, <1>4, <1>5, PayloadIsOrder DEF TypeOK, ApprovalIsBacked, i, OrderPayload, NoOrder
<1>9. DispatchWithinAcceptance'
  BY <1>2, <1>4 DEF TypeOK, DispatchWithinAcceptance, Call, OrderPayload
<1> QED BY <1>6, <1>7, <1>8, <1>9

\* A handler that ends, having saved at most a new status of its intent.
LEMMA FinishKeeps ==
    ASSUME PipelineInv, NEW h \in Handlers, Finish(h), KillTypeOK',
           UNCHANGED <<riskVars, mode, pending, ordersTable, calls, historyVars>>,
           \/ UNCHANGED intents
           \/ \E i \in Intents, status \in IntentStatus \ {"absent"} : Persist(i, status)
    PROVE  PipelineInv'
<1> USE DEF PipelineInv, Finish, Persist, historyVars, riskVars
<1>1. TypeOK'
  BY DEF TypeOK, RiskTypeOK, PCs
<1>2. RequestBacked'
  BY DEF TypeOK, RequestBacked
<1>3. \A i \in Intents : intents[i] # "absent" => intents'[i] # "absent"
  <2>1. CASE UNCHANGED intents
    BY <2>1
  <2>2. ASSUME NEW i \in Intents, NEW status \in IntentStatus \ {"absent"},
               Persist(i, status)
        PROVE  \A j \in Intents : intents[j] # "absent" => intents'[j] # "absent"
    BY <2>2 DEF TypeOK
  <2> QED BY <2>1, <2>2
<1>5. ApprovalIsBacked'
  <2>1. \A i \in Intents : pending[i] # NoOrder => intents'[i] # "absent"
    BY <1>3 DEF ApprovalIsBacked
  <2>2. \A g \in Handlers : pc'[g] # "idle" =>
            pc[g] # "idle" /\ req'[g] = req[g] /\ req[g].intent \in Intents
    BY DEF TypeOK, RequestBacked, Request
  <2> QED BY <1>3, <2>1, <2>2 DEF ApprovalIsBacked
<1>4. DispatchWithinAcceptance'
  BY DEF DispatchWithinAcceptance
<1> QED BY <1>1, <1>2, <1>4, <1>5

\* What starts to wait was granted, and its row is written in the same step.
LEMMA QueueForApprovalKeeps ==
    ASSUME PipelineInv, NEW h \in Handlers, QueueForApproval(h)
    PROVE  PipelineInv'
<1> USE DEF PipelineInv, QueueForApproval, Finish, Persist, historyVars, riskVars
<1>1. /\ req[h].intent \in Intents /\ req[h].order \in OrderPayload
      /\ req[h].order.notional <= accepted[req[h].intent]
  BY DEF RequestBacked, Request
<1>2. TypeOK'
  BY <1>1 DEF TypeOK, RiskTypeOK, KillTypeOK, PCs, IntentStatus
<1>3. RequestBacked'
  BY DEF TypeOK, RequestBacked
<1>4. ApprovalIsBacked'
  BY <1>1 DEF TypeOK, ApprovalIsBacked
<1>5. DispatchWithinAcceptance'
  BY DEF DispatchWithinAcceptance
<1> QED BY <1>2, <1>3, <1>4, <1>5

\* Going on to the memory lookup or stopping at the switch changes no payload.
LEMMA ExecuteSubmittedKeeps ==
    ASSUME PipelineInv, NEW h \in Handlers, ExecuteSubmitted(h)
    PROVE  PipelineInv'
<1>1. CASE ks.active
  BY <1>1, FinishKeeps DEF ExecuteSubmitted, PipelineInv, TypeOK, KillTypeOK, storeVars
<1>2. CASE ~ks.active
  <2> USE <1>2 DEF PipelineInv, ExecuteSubmitted, storeVars, historyVars, riskVars
  <2>1. TypeOK'
    BY DEF TypeOK, RiskTypeOK, KillTypeOK, PCs
  <2>2. RequestBacked'
    BY DEF TypeOK, RequestBacked
  <2>3. ApprovalIsBacked'
    BY DEF TypeOK, ApprovalIsBacked
  <2>4. DispatchWithinAcceptance'
    BY DEF DispatchWithinAcceptance
  <2> QED BY <2>1, <2>2, <2>3, <2>4
<1> QED BY <1>1, <1>2

\* An approval takes over a waiting payload, which is backed.
LEMMA ApproveKeeps ==
    ASSUME PipelineInv, NEW h \in Handlers, NEW i \in Intents, Approve(h, i)
    PROVE  PipelineInv'
<1> USE DEF PipelineInv, Approve, storeVars, historyVars, riskVars
<1>1. pending[i] \in OrderPayload
  BY DEF TypeOK
<1>2. TypeOK'
  BY <1>1 DEF TypeOK, RiskTypeOK, KillTypeOK, PCs, Request, NoRequest
<1>3. RequestBacked'
  BY <1>1 DEF TypeOK, RequestBacked, ApprovalIsBacked, Request, NoRequest
<1>4. ApprovalIsBacked'
  BY DEF TypeOK, ApprovalIsBacked
<1>5. DispatchWithinAcceptance'
  BY DEF DispatchWithinAcceptance
<1> QED BY <1>2, <1>3, <1>4, <1>5

\* The memory only shrinks: the post carries at most what the request did.
LEMMA PostOrderKeeps ==
    ASSUME PipelineInv, NEW h \in Handlers, NEW p \in Posts, PostOrder(h, p)
    PROVE  PipelineInv'
<1> USE DEF PipelineInv, storeVars, historyVars, riskVars
<1>1. PICK notional \in DispatchSizes(req[h].order) :
          calls' = [calls EXCEPT ![p] = [intent |-> req[h].intent,
                                         order |-> [req[h].order EXCEPT !.notional = notional],
                                         state |-> "sent"]]
  BY DEF PostOrder
<1> DEFINE posted == [req[h].order EXCEPT !.notional = notional]
<1>2. /\ req[h] \in Request /\ req[h].order \in OrderPayload /\ req[h].intent \in Intents
      /\ req[h].order.notional <= accepted[req[h].intent]
  BY DEF RequestBacked, PostOrder, Request
<1>3. posted \in OrderPayload /\ posted.notional = notional
  BY <1>2 DEF DispatchSizes, OrderPayload
<1>4. notional \in Nat /\ notional <= accepted[req[h].intent]
  <2>1. req[h].order.notional \in Nat /\ accepted[req[h].intent] \in Nat
    BY <1>2 DEF OrderPayload, TypeOK
  <2>2. notional \in Nat /\ notional <= req[h].order.notional
    BY <2>1 DEF DispatchSizes
  <2> QED BY <1>2, <2>1, <2>2
<1> HIDE DEF posted
<1>5. calls' = [calls EXCEPT ![p] = [intent |-> req[h].intent, order |-> posted,
                                     state |-> "sent"]]
  BY <1>1 DEF posted
<1>6. [intent |-> req[h].intent, order |-> posted, state |-> "sent"] \in Call
  BY <1>2, <1>3 DEF Call
<1>7. req' = [req EXCEPT ![h].post = p] /\ req'[h] \in Request
      /\ req'[h].order = req[h].order /\ req'[h].intent = req[h].intent
      /\ req'[h].op = req[h].op /\ req'[h].post = p
  BY <1>2 DEF PostOrder, Request, TypeOK
<1>8. /\ pc[h] = "memory" /\ pc' = [pc EXCEPT ![h] = "routing"]
      /\ UNCHANGED <<dailyUsed, exposure, ks, mode, pending, intents, ordersTable,
                     accepted, submits>>
  BY DEF PostOrder
<1>9. TypeOK'
  BY <1>5, <1>6, <1>7, <1>8 DEF TypeOK, RiskTypeOK, KillTypeOK, PCs
<1>10. RequestBacked'
  BY <1>2, <1>7, <1>8 DEF TypeOK, RequestBacked
<1>11. ApprovalIsBacked'
  BY <1>7, <1>8 DEF TypeOK, ApprovalIsBacked
<1>12. DispatchWithinAcceptance'
  BY <1>3, <1>4, <1>5, <1>8 DEF TypeOK, DispatchWithinAcceptance
<1> QED BY <1>9, <1>10, <1>11, <1>12

\* Recording an order adds a row of a post that was sent and empties a waiting slot.
LEMMA RecordOrderKeeps ==
    ASSUME PipelineInv, NEW h \in Handlers, RecordOrder(h)
    PROVE  PipelineInv'
<1> USE DEF PipelineInv, Finish, Persist, historyVars, riskVars
<1> DEFINE i == req[h].intent
           p == req[h].post
<1>1. i \in Intents /\ p \in Posts
  BY DEF RequestBacked, RecordOrder, Request
<1>2. /\ ordersTable' \in {ordersTable, ordersTable \cup {[post |-> p, linked |-> TRUE]}}
      /\ intents' = [intents EXCEPT ![i] = "executed"]
      /\ pending' \in {pending, [pending EXCEPT ![i] = NoOrder]}
      /\ pc' = [pc EXCEPT ![h] = "idle"] /\ req' = [req EXCEPT ![h] = NoRequest]
      /\ UNCHANGED <<dailyUsed, exposure, ks, mode, calls, accepted, submits>>
  BY DEF RecordOrder
<1> HIDE DEF i, p
<1>3. [post |-> p, linked |-> TRUE] \in [post : Posts, linked : BOOLEAN]
  BY <1>1
<1>4. TypeOK'
  BY <1>1, <1>2, <1>3 DEF TypeOK, RiskTypeOK, KillTypeOK, PCs, IntentStatus
<1>5. RequestBacked'
  BY <1>2 DEF TypeOK, RequestBacked
<1>6. ApprovalIsBacked'
  BY <1>1, <1>2 DEF TypeOK, ApprovalIsBacked
<1>7. DispatchWithinAcceptance'
  BY <1>2 DEF DispatchWithinAcceptance
<1> QED BY <1>4, <1>5, <1>6, <1>7

\* The router moves a post to another state and leaves its payload alone.
LEMMA RouterStepKeeps ==
    ASSUME PipelineInv,
           calls' \in [Posts -> Call \cup {Unsent}],
           \A p \in Posts : calls'[p] # Unsent =>
               /\ calls[p] # Unsent
               /\ calls'[p].order = calls[p].order /\ calls'[p].intent = calls[p].intent,
           ordersTable' \subseteq [post : Posts, linked : BOOLEAN],
           UNCHANGED <<riskVars, ks, mode, pending, intents, handlerVars, historyVars>>
    PROVE  PipelineInv'
<1> USE DEF PipelineInv, handlerVars, historyVars, riskVars
<1>1. TypeOK'
  BY DEF TypeOK, RiskTypeOK, KillTypeOK
<1>2. RequestBacked'
  BY DEF RequestBacked
<1>3. ApprovalIsBacked'
  BY DEF ApprovalIsBacked
<1>4. DispatchWithinAcceptance'
  BY DEF DispatchWithinAcceptance
<1> QED BY <1>1, <1>2, <1>3, <1>4

\* The state of a post enters no other part of the invariant.
LEMMA CallStateKeeps ==
    ASSUME PipelineInv, NEW p \in Posts, calls[p] # Unsent,
           NEW state \in {"filled", "refused"}, calls' = [calls EXCEPT ![p].state = state],
           ordersTable' \subseteq [post : Posts, linked : BOOLEAN],
           UNCHANGED <<riskVars, ks, mode, pending, intents, handlerVars, historyVars>>
    PROVE  PipelineInv'
<1>1. calls[p] \in Call
  BY DEF PipelineInv, TypeOK
<1>2. /\ calls'[p] \in Call
      /\ calls'[p].order = calls[p].order /\ calls'[p].intent = calls[p].intent
  BY <1>1 DEF Call, PipelineInv, TypeOK
<1>3. calls' \in [Posts -> Call \cup {Unsent}]
  BY <1>2 DEF PipelineInv, TypeOK
<1> QED BY <1>2, <1>3, RouterStepKeeps DEF PipelineInv, TypeOK

\* Each of the router's three answers is such a change of state.
LEMMA RouterKeeps ==
    ASSUME PipelineInv, NEW p \in Posts, FillPaper(p) \/ FillLive(p) \/ RefuseLive(p)
    PROVE  PipelineInv'
<1>1. CASE FillPaper(p)
  BY <1>1, CallStateKeeps DEF FillPaper, PipelineInv, TypeOK, storeVars
<1>2. CASE RefuseLive(p)
  BY <1>2, CallStateKeeps DEF RefuseLive, PipelineInv, TypeOK, storeVars
<1>3. CASE FillLive(p)
  <2>1. [post |-> p, linked |-> intents[calls[p].intent] # "absent"]
            \in [post : Posts, linked : BOOLEAN]
    OBVIOUS
  <2>2. ordersTable' \subseteq [post : Posts, linked : BOOLEAN]
    BY <1>3, <2>1 DEF FillLive, PipelineInv, TypeOK
  <2> QED BY <1>3, <2>2, CallStateKeeps DEF FillLive
<1> QED BY <1>1, <1>2, <1>3

\* A restart of the router loses posts but rewrites none.
LEMMA RouterRestartKeeps ==
    ASSUME PipelineInv, RouterRestart
    PROVE  PipelineInv'
<1>1. \A p \in Posts : calls[p] # Unsent =>
          /\ [calls[p] EXCEPT !.state = "lost"] \in Call
          /\ [calls[p] EXCEPT !.state = "lost"].order = calls[p].order
          /\ [calls[p] EXCEPT !.state = "lost"].intent = calls[p].intent
  BY DEF PipelineInv, TypeOK, Call
<1>2. calls' \in [Posts -> Call \cup {Unsent}]
  BY <1>1 DEF RouterRestart, PipelineInv, TypeOK
<1>3. \A p \in Posts : calls'[p] # Unsent =>
          /\ calls[p] # Unsent
          /\ calls'[p].order = calls[p].order /\ calls'[p].intent = calls[p].intent
  BY <1>1 DEF RouterRestart
<1> QED BY <1>2, <1>3, RouterStepKeeps DEF RouterRestart, PipelineInv, TypeOK, storeVars

\* A restart of the control plane empties what the invariant speaks about.
LEMMA ControlPlaneRestartKeeps ==
    ASSUME PipelineInv, ControlPlaneRestart
    PROVE  PipelineInv'
<1> USE DEF PipelineInv, ControlPlaneRestart, storeVars, historyVars, riskVars
<1>1. TypeOK'
  BY DEF TypeOK, RiskTypeOK, KillTypeOK, PCs
<1>2. RequestBacked' /\ ApprovalIsBacked'
  BY DEF RequestBacked, ApprovalIsBacked
<1>3. DispatchWithinAcceptance'
  BY DEF DispatchWithinAcceptance
<1> QED BY <1>1, <1>2, <1>3

\* Mode, kill switch and gateway counters do not enter the other conjuncts.
LEMMA EnvironmentKeeps ==
    ASSUME PipelineInv, RiskTypeOK', KillTypeOK', mode' \in Modes,
           UNCHANGED <<pending, storeVars, handlerVars, calls, historyVars>>
    PROVE  PipelineInv'
<1> USE DEF PipelineInv, storeVars, handlerVars, historyVars
<1>1. TypeOK'
  BY DEF TypeOK
<1>2. RequestBacked' /\ ApprovalIsBacked' /\ DispatchWithinAcceptance'
  BY DEF RequestBacked, ApprovalIsBacked, DispatchWithinAcceptance
<1> QED BY <1>1, <1>2

\* Every step of a request under way keeps the invariant.
LEMMA HandlerStepKeeps ==
    ASSUME PipelineInv, NEW h \in Handlers, HandlerStep(h)
    PROVE  PipelineInv'
<1> USE DEF storeVars, handlerVars, historyVars
<1>t. KillTypeOK /\ (UNCHANGED ks => KillTypeOK')
  BY DEF PipelineInv, TypeOK, KillTypeOK
<1>i. pc[h] # "idle" => req[h].intent \in Intents
  BY DEF PipelineInv, RequestBacked, Request
<1>1. CASE GatewayUnavailable(h)
  BY <1>1, <1>t, FinishKeeps DEF GatewayUnavailable
<1>2. CASE RejectByRisk(h)
  BY <1>2, <1>t, <1>i, FinishKeeps DEF RejectByRisk, IntentStatus
<1>3. CASE MemoryStops(h)
  BY <1>3, <1>t, <1>i, FinishKeeps DEF MemoryStops, IntentStatus
<1>4. CASE BlockLive(h)
  BY <1>4, <1>t, FinishKeeps DEF BlockLive
<1>5. CASE RouterError(h)
  <2>1. KillTypeOK'
    BY <1>5, <1>t, KillTypeStep DEF RouterError, KillNext
  <2> QED BY <1>5, <2>1, FinishKeeps DEF RouterError
<1>6. CASE RouterTimeout(h)
  BY <1>6, <1>t, FinishKeeps DEF RouterTimeout
<1>7. CASE OrderInsertRaises(h)
  BY <1>7, <1>t, FinishKeeps DEF OrderInsertRaises
<1> QED BY <1>1, <1>2, <1>3, <1>4, <1>5, <1>6, <1>7, GatewayCheckKeeps, QueueForApprovalKeeps,
           ExecuteSubmittedKeeps, PostOrderKeeps, RecordOrderKeeps DEF HandlerStep

\* Every step of the system keeps the invariant.
LEMMA StepKeeps ==
    ASSUME PipelineInv, Next
    PROVE  PipelineInv'
<1> USE DEF handlerVars
<1>t. /\ RiskTypeOK /\ KillTypeOK
      /\ UNCHANGED riskVars => RiskTypeOK'
      /\ UNCHANGED ks => KillTypeOK'
  BY DEF PipelineInv, TypeOK, RiskTypeOK, KillTypeOK, riskVars
<1>m. mode \in Modes
  BY DEF PipelineInv, TypeOK
<1>1. ASSUME NEW m \in Modes, SetSystemMode(m) PROVE PipelineInv'
  BY <1>1, <1>t, EnvironmentKeeps DEF SetSystemMode
<1>2. CASE Activate
  <2>1. KillTypeOK' /\ mode' \in Modes
    BY <1>2, <1>t, KillTypeStep DEF Activate, KillNext
  <2> QED BY <1>2, <1>t, <2>1, EnvironmentKeeps DEF Activate
<1>3. CASE Reset
  <2>1. KillTypeOK'
    BY <1>3, <1>t, KillTypeStep DEF Reset, KillNext
  <2> QED BY <1>3, <1>t, <1>m, <2>1, EnvironmentKeeps DEF Reset
<1>4. CASE GatewayRestart
  <2>1. RiskTypeOK'
    BY <1>4 DEF GatewayRestart, RiskRestart, RiskTypeOK
  <2> QED BY <1>4, <1>t, <1>m, <2>1, EnvironmentKeeps DEF GatewayRestart
<1> QED BY <1>1, <1>2, <1>3, <1>4, SubmitKeeps, ApproveKeeps, HandlerStepKeeps, RouterKeeps,
           ControlPlaneRestartKeeps, RouterRestartKeeps DEF Next

\* So does no step at all.
LEMMA StutterKeeps ==
    ASSUME PipelineInv, UNCHANGED vars
    PROVE  PipelineInv'
BY EnvironmentKeeps DEF PipelineInv, TypeOK, RiskTypeOK, KillTypeOK, vars, riskVars

\* The invariant that follows a payload from the gateway to the router.
THEOREM PipelineInvariant == Spec => []PipelineInv
<1>1. Init => PipelineInv
  BY PipelineInit
<1>2. PipelineInv /\ [Next]_vars => PipelineInv'
  BY StepKeeps, StutterKeeps
<1> QED BY <1>1, <1>2, PTL DEF Spec

\* Every variable of the pipeline keeps its type.
THEOREM PipelineTypeCorrect == Spec => []TypeOK
BY PipelineInvariant, PTL DEF PipelineInv

\* No interleaving of submissions, approvals, timeouts and restarts makes the
\* router execute more of an intent than the gateway accepted for it.
THEOREM PipelineDispatchWithinAcceptance == Spec => []DispatchWithinAcceptance
BY PipelineInvariant, PTL DEF PipelineInv

\* Whatever waits for approval was accepted at its size and is persisted.
THEOREM PipelineApprovalIsBacked == Spec => []ApprovalIsBacked
BY PipelineInvariant, PTL DEF PipelineInv

-----------------------------------------------------------------------------
(* The pipeline implements its two components: what it does to the gateway *)
(* and to the kill switch is what their own specifications allow.          *)

\* Each step of the pipeline is a check or a restart of the gateway, or none.
LEMMA RiskStepSimulation ==
    ASSUME PipelineInv, [Next]_vars
    PROVE  [RiskNext]_riskVars
<1>1. ASSUME NEW h \in Handlers, GatewayCheck(h) PROVE RiskNext
  <2>1. PreTradeCheck(req[h].order, req[h].mode)
    BY <1>1 DEF GatewayCheck
  <2>2. req[h].order \in Orders /\ req[h].mode \in Modes
    BY <1>1 DEF GatewayCheck, PipelineInv, RequestBacked, Request
  <2> QED BY <2>1, <2>2 DEF RiskNext
<1>2. CASE GatewayRestart
  BY <1>2 DEF GatewayRestart, RiskNext
<1>3. ASSUME NEW h \in Handlers, HandlerStep(h), ~GatewayCheck(h) PROVE UNCHANGED riskVars
  BY <1>3 DEF HandlerStep, GatewayUnavailable, RejectByRisk, QueueForApproval,
              ExecuteSubmitted, MemoryStops, BlockLive, PostOrder, RouterError, RouterTimeout,
              OrderInsertRaises, RecordOrder
<1> QED BY <1>1, <1>2, <1>3
        DEF Next, vars, Submit, Approve, FillPaper, FillLive, RefuseLive, SetSystemMode,
            Activate, Reset, ControlPlaneRestart, RouterRestart

\* Each step is a save of the kill-switch document its module allows, or none.
LEMMA KillStepSimulation ==
    ASSUME [Next]_vars
    PROVE  [KillNext]_ks
<1>1. ASSUME NEW h \in Handlers, HandlerStep(h) PROVE [KillNext]_ks
  BY <1>1 DEF HandlerStep, GatewayCheck, GatewayUnavailable, RejectByRisk, QueueForApproval,
              ExecuteSubmitted, MemoryStops, BlockLive, PostOrder, RouterError, RouterTimeout,
              OrderInsertRaises, RecordOrder, KillNext
<1>2. CASE Activate
  BY <1>2 DEF Activate, KillNext
<1>3. CASE Reset
  BY <1>3 DEF Reset, KillNext
<1> QED BY <1>1, <1>2, <1>3
        DEF Next, vars, Submit, Approve, FillPaper, FillLive, RefuseLive, SetSystemMode,
            ControlPlaneRestart, GatewayRestart, RouterRestart

\* The gateway inside the pipeline behaves as the gateway's specification says.
THEOREM PipelineImplementsRisk == Spec => RiskSpec
<1>1. Init => RiskInit
  BY DEF Init
<1>2. PipelineInv /\ [Next]_vars => [RiskNext]_riskVars
  BY RiskStepSimulation
<1> QED BY <1>1, <1>2, PipelineInvariant, PTL DEF Spec, RiskSpec

\* The kill switch inside the pipeline behaves as its specification says.
THEOREM PipelineImplementsKill == Spec => KillSpec
<1>1. Init => KillInit
  BY DEF Init
<1>2. [Next]_vars => [KillNext]_ks
  BY KillStepSimulation
<1> QED BY <1>1, <1>2, PTL DEF Spec, KillSpec

\* Hence the budget and the switch keep their promises inside the pipeline.
THEOREM PipelineKeepsComponentPromises ==
    Spec => [](BudgetRespected /\ ExposureBacked /\ OffMeansBelowThresholds)
BY PipelineImplementsRisk, PipelineImplementsKill, RiskBudgetRespected, RiskExposureBacked,
   KillOffMeansBelow, PTL

\* A live order leaves only with the switch off and in a live mode: PostOrder is
\* the one action that fills a slot of calls, and it looks at both.
THEOREM PipelineLiveDispatchGuarded == Spec => LiveDispatchGuarded
<1> DEFINE LiveStep == \A p \in Posts :
        calls[p] = Unsent /\ calls'[p] # Unsent /\ calls'[p].order.live =>
            ~ks.active /\ mode \in LiveModes
<1>1. PipelineInv /\ [Next]_vars => [LiveStep]_vars
  <2> SUFFICES ASSUME PipelineInv, Next, NEW p \in Posts,
                      calls[p] = Unsent, calls'[p] # Unsent, calls'[p].order.live
               PROVE  ~ks.active /\ mode \in LiveModes
    OBVIOUS
  <2>1. ASSUME UNCHANGED calls PROVE FALSE
    BY <2>1
  <2>2. ASSUME NEW q \in Posts, FillPaper(q) \/ FillLive(q) \/ RefuseLive(q) PROVE FALSE
    BY <2>2 DEF FillPaper, FillLive, RefuseLive, PipelineInv, TypeOK
  <2>3. ASSUME RouterRestart PROVE FALSE
    BY <2>3 DEF RouterRestart
  <2>4. ASSUME NEW h \in Handlers, NEW q \in Posts, PostOrder(h, q)
        PROVE  ~ks.active /\ mode \in LiveModes
    <3>1. PICK notional \in DispatchSizes(req[h].order) :
              calls' = [calls EXCEPT ![q] = [intent |-> req[h].intent,
                                             order |-> [req[h].order EXCEPT !.notional = notional],
                                             state |-> "sent"]]
      BY <2>4 DEF PostOrder
    <3>2. p = q
      BY <3>1 DEF PipelineInv, TypeOK
    <3>3. req[h].order \in OrderPayload
      BY <2>4 DEF PostOrder, PipelineInv, RequestBacked, Request
    <3>4. calls'[p].order.live = req[h].order.live
      BY <3>1, <3>2, <3>3 DEF PipelineInv, TypeOK, OrderPayload
    <3> QED BY <2>4, <3>4 DEF PostOrder, LiveAllowed
  <2>5. ASSUME NEW h \in Handlers, HandlerStep(h), ~\E q \in Posts : PostOrder(h, q)
        PROVE  UNCHANGED calls
    BY <2>5 DEF HandlerStep, GatewayCheck, GatewayUnavailable, RejectByRisk, QueueForApproval,
                ExecuteSubmitted, MemoryStops, BlockLive, RouterError, RouterTimeout,
                OrderInsertRaises, RecordOrder
  <2> QED BY <2>1, <2>2, <2>3, <2>4, <2>5
          DEF Next, Submit, Approve, SetSystemMode, Activate, Reset, ControlPlaneRestart,
              GatewayRestart
<1> QED BY <1>1, PipelineInvariant, PTL DEF Spec, LiveDispatchGuarded

-----------------------------------------------------------------------------
(* The tables.  A row belongs to a post that was filled, and a post keeps  *)
(* its intent and its payload for good: what a row proved when it was      *)
(* written stays proved.                                                   *)
RowInv ==
    /\ \A p \in Posts : calls[p] # Unsent /\ calls[p].state = "filled" /\ calls[p].order.live =>
           \E r \in ordersTable : r.post = p
    /\ \A h \in Handlers : pc[h] = "routing" =>
           calls[req[h].post] # Unsent /\ calls[req[h].post].intent = req[h].intent
    /\ ExecutedHasOrderRow
    /\ OneRowPerPaperIntent

\* A row's post was sent.
LEMMA RowsWereSent ==
    ASSUME PipelineInv, RowInv, NEW r \in ordersTable
    PROVE  r.post \in Posts /\ calls[r.post] # Unsent /\ calls[r.post].state = "filled"
BY DEF PipelineInv, TypeOK, RowInv, ExecutedHasOrderRow, Unsent

\* A step that writes no row, marks no intent executed and un-fills nothing.
LEMMA NoRowKeeps ==
    ASSUME PipelineInv, RowInv, UNCHANGED ordersTable,
           \A p \in Posts : calls[p] # Unsent =>
               /\ calls'[p] # Unsent
               /\ calls'[p].intent = calls[p].intent /\ calls'[p].order = calls[p].order
               /\ calls[p].state = "filled" => calls'[p].state = "filled",
           \A p \in Posts : calls'[p] # Unsent /\ calls'[p].state = "filled"
                              /\ calls'[p].order.live =>
               calls[p] # Unsent /\ calls[p].state = "filled" /\ calls[p].order.live,
           \A i \in Intents : intents'[i] = intents[i] \/ intents'[i] \notin {"executed", "absent"},
           \A h \in Handlers : pc'[h] = "routing" =>
               \/ pc[h] = "routing" /\ req'[h].post = req[h].post /\ req'[h].intent = req[h].intent
               \/ /\ calls'[req'[h].post] # Unsent
                  /\ calls'[req'[h].post].intent = req'[h].intent
    PROVE  RowInv'
<1>1. \A r \in ordersTable : /\ r.post \in Posts /\ calls[r.post] # Unsent
                            /\ calls[r.post].state = "filled"
  BY RowsWereSent
<1>2. \A r \in ordersTable : /\ calls'[r.post].state = "filled"
                            /\ calls'[r.post].intent = calls[r.post].intent
                            /\ calls'[r.post].order = calls[r.post].order
  BY <1>1
<1>3. \A h \in Handlers : pc[h] = "routing" => req[h].post \in Posts
  BY DEF PipelineInv, RequestBacked
<1>4. \A r \in ordersTable : calls[r.post].intent \in Intents
  BY <1>1 DEF PipelineInv, TypeOK, Call
<1>5. ExecutedHasOrderRow'
  BY <1>2, <1>4 DEF RowInv, ExecutedHasOrderRow
<1>6. OneRowPerPaperIntent'
  BY <1>2 DEF RowInv, OneRowPerPaperIntent, PaperRowOf
<1> QED BY <1>3, <1>5, <1>6 DEF RowInv

\* A live fill and its row are one step of the router.
LEMMA FillLiveRows ==
    ASSUME PipelineInv, RowInv, NEW p \in Posts, FillLive(p)
    PROVE  RowInv'
<1> DEFINE row == [post |-> p, linked |-> intents[calls[p].intent] # "absent"]
<1>1. /\ calls[p] # Unsent /\ calls[p].state = "sent" /\ calls[p].order.live /\ calls[p] \in Call
      /\ calls' = [calls EXCEPT ![p].state = "filled"]
      /\ ordersTable' = ordersTable \cup {row}
      /\ UNCHANGED <<intents, pc, req>>
  BY DEF FillLive, handlerVars, PipelineInv, TypeOK
<1>2. row.post = p /\ (row.linked => intents[calls[p].intent] # "absent")
  OBVIOUS
<1>3. /\ calls'[p].state = "filled" /\ calls'[p].intent = calls[p].intent
      /\ calls'[p].order = calls[p].order /\ calls'[p] # Unsent
  BY <1>1 DEF Call, Unsent, PipelineInv, TypeOK
<1>4. \A q \in Posts : q # p => calls'[q] = calls[q]
  BY <1>1 DEF PipelineInv, TypeOK
<1> HIDE DEF row
<1>5. \A r \in ordersTable : r.post \in Posts /\ r.post # p /\ calls'[r.post] = calls[r.post]
  BY <1>1, <1>4, RowsWereSent
<1>6. \A h \in Handlers : pc[h] = "routing" => req[h].post \in Posts
  BY DEF PipelineInv, RequestBacked
<1>7. ExecutedHasOrderRow'
  BY <1>1, <1>2, <1>3, <1>5 DEF RowInv, ExecutedHasOrderRow
<1>8. OneRowPerPaperIntent'
  BY <1>1, <1>2, <1>3, <1>5 DEF RowInv, OneRowPerPaperIntent, PaperRowOf
<1> QED BY <1>1, <1>2, <1>3, <1>4, <1>6, <1>7, <1>8 DEF RowInv

\* The caller marks an intent executed with a row of that intent in the table.
LEMMA RecordOrderRows ==
    ASSUME PipelineInv, RowInv, NEW h \in Handlers, RecordOrder(h)
    PROVE  RowInv'
<1> DEFINE i == req[h].intent
           p == req[h].post
           row == [post |-> p, linked |-> TRUE]
<1>1. i \in Intents /\ p \in Posts /\ calls[p].intent = i /\ calls[p] # Unsent
  BY DEF PipelineInv, RequestBacked, RecordOrder, Request, RowInv
<1>2. /\ calls[p].state = "filled"
      /\ ordersTable' = IF calls[p].order.live \/ PaperRowOf(i) # {} THEN ordersTable
                        ELSE ordersTable \cup {row}
      /\ intents' = [intents EXCEPT ![i] = "executed"]
      /\ pc' = [pc EXCEPT ![h] = "idle"] /\ req' = [req EXCEPT ![h] = NoRequest]
      /\ UNCHANGED calls
  BY DEF RecordOrder, Finish, Persist, AlreadyRecorded
<1>3. row.post = p /\ row.linked
  OBVIOUS
<1> HIDE DEF i, p, row
<1>4. \A j \in Intents : j # i => intents'[j] = intents[j]
  BY <1>2 DEF PipelineInv, TypeOK
<1>5. intents'[i] = "executed"
  BY <1>1, <1>2 DEF PipelineInv, TypeOK
<1>6. \E r \in ordersTable' : calls[r.post].intent = i
  <2>1. CASE calls[p].order.live
    BY <1>1, <1>2, <2>1 DEF RowInv
  <2>2. CASE PaperRowOf(i) # {}
    BY <1>2, <2>2 DEF PaperRowOf
  <2>3. CASE ~(calls[p].order.live \/ PaperRowOf(i) # {})
    BY <1>1, <1>2, <1>3, <2>3
  <2> QED BY <2>1, <2>2, <2>3
<1>7. \A r \in ordersTable : calls[r.post].intent \in Intents
  BY RowsWereSent DEF PipelineInv, TypeOK, Call
<1>8. ExecutedHasOrderRow'
  BY <1>1, <1>2, <1>3, <1>4, <1>5, <1>6, <1>7 DEF RowInv, ExecutedHasOrderRow
<1>9. OneRowPerPaperIntent'
  <2>1. CASE UNCHANGED ordersTable
    BY <1>2, <2>1 DEF RowInv, OneRowPerPaperIntent, PaperRowOf
  <2>2. CASE ordersTable' = ordersTable \cup {row} /\ PaperRowOf(i) = {}
    BY <1>1, <1>2, <1>3, <2>2 DEF RowInv, OneRowPerPaperIntent, PaperRowOf
  <2> QED BY <1>2, <2>1, <2>2
<1>10. \A g \in Handlers : pc'[g] = "routing" => pc[g] = "routing" /\ req'[g] = req[g]
  BY <1>2 DEF PipelineInv, TypeOK
<1> QED BY <1>2, <1>8, <1>9, <1>10 DEF RowInv

\* The post a handler makes carries the intent of its request.
LEMMA PostOrderRows ==
    ASSUME PipelineInv, RowInv, NEW h \in Handlers, NEW p \in Posts, PostOrder(h, p)
    PROVE  RowInv'
<1>1. PICK order : calls' = [calls EXCEPT ![p] = [intent |-> req[h].intent, order |-> order,
                                                   state |-> "sent"]]
  BY DEF PostOrder
<1>2. calls[p] = Unsent /\ UNCHANGED <<ordersTable, intents>>
  BY DEF PostOrder, storeVars
<1>3. calls'[p].intent = req[h].intent /\ calls'[p].state = "sent" /\ calls'[p] # Unsent
  BY <1>1 DEF PipelineInv, TypeOK, Unsent
<1>4. \A q \in Posts : q # p => calls'[q] = calls[q]
  BY <1>1 DEF PipelineInv, TypeOK
<1>5. req[h] \in Request
  BY DEF PostOrder, PipelineInv, RequestBacked
<1>6. /\ req'[h].post = p /\ req'[h].intent = req[h].intent
      /\ \A g \in Handlers : g # h => pc'[g] = pc[g] /\ req'[g] = req[g]
  BY <1>5 DEF PostOrder, PipelineInv, TypeOK, Request
<1> QED BY <1>2, <1>3, <1>4, <1>6, NoRowKeeps

\* No other step writes a row, marks an intent executed or rewrites a post.
LEMMA OtherStepRows ==
    ASSUME PipelineInv, RowInv, NEW h \in Handlers,
           \/ GatewayCheck(h) \/ GatewayUnavailable(h) \/ RejectByRisk(h) \/ QueueForApproval(h)
           \/ ExecuteSubmitted(h) \/ MemoryStops(h) \/ BlockLive(h) \/ RouterError(h)
           \/ RouterTimeout(h) \/ OrderInsertRaises(h)
           \/ \E i \in Intents, o \in Orders, auto \in BOOLEAN : Submit(h, i, o, auto)
           \/ \E i \in Intents : Approve(h, i)
    PROVE  RowInv'
<1>1. UNCHANGED <<ordersTable, calls>>
  BY DEF GatewayCheck, GatewayUnavailable, RejectByRisk, QueueForApproval, ExecuteSubmitted,
         MemoryStops, BlockLive, RouterError, RouterTimeout, OrderInsertRaises, Submit, Approve,
         storeVars
<1>2. \A i \in Intents : intents'[i] = intents[i] \/ intents'[i] \notin {"executed", "absent"}
  BY DEF GatewayCheck, GatewayUnavailable, RejectByRisk, QueueForApproval, ExecuteSubmitted,
         MemoryStops, BlockLive, RouterError, RouterTimeout, OrderInsertRaises, Submit, Approve,
         storeVars, Persist, PipelineInv, TypeOK
<1>3. \A g \in Handlers : pc'[g] = "routing" => pc[g] = "routing" /\ req'[g] = req[g]
  BY DEF GatewayCheck, GatewayUnavailable, RejectByRisk, QueueForApproval, ExecuteSubmitted,
         MemoryStops, BlockLive, RouterError, RouterTimeout, OrderInsertRaises, Submit, Approve,
         Finish, PipelineInv, TypeOK
<1> QED BY <1>1, <1>2, <1>3, NoRowKeeps

\* The router's paper fills and refusals, restarts, operators and the gateway.
LEMMA SurroundingsRows ==
    ASSUME PipelineInv, RowInv,
           \/ \E p \in Posts : FillPaper(p) \/ RefuseLive(p)
           \/ \E m \in Modes : SetSystemMode(m)
           \/ Activate \/ Reset \/ ControlPlaneRestart \/ GatewayRestart \/ RouterRestart
           \/ UNCHANGED vars
    PROVE  RowInv'
<1>1. UNCHANGED <<ordersTable, intents>>
  BY DEF FillPaper, RefuseLive, SetSystemMode, Activate, Reset, ControlPlaneRestart,
         GatewayRestart, RouterRestart, vars, storeVars
<1>2. \A g \in Handlers : pc'[g] = "routing" => pc[g] = "routing" /\ req'[g] = req[g]
  BY DEF FillPaper, RefuseLive, SetSystemMode, Activate, Reset, ControlPlaneRestart,
         GatewayRestart, RouterRestart, vars, handlerVars
<1>3. \A q \in Posts : \/ calls'[q] = calls[q]
                       \/ /\ calls[q] # Unsent /\ calls[q].state # "filled"
                          /\ calls'[q] \in Call
                          /\ calls'[q].intent = calls[q].intent
                          /\ calls'[q].order = calls[q].order
                          /\ calls'[q].state # "filled" \/ ~calls[q].order.live
  <2> SUFFICES ASSUME NEW q \in Posts, calls'[q] # calls[q]
               PROVE  /\ calls[q] # Unsent /\ calls[q].state # "filled"
                      /\ calls'[q] \in Call
                      /\ calls'[q].intent = calls[q].intent
                      /\ calls'[q].order = calls[q].order
                      /\ calls'[q].state # "filled" \/ ~calls[q].order.live
    OBVIOUS
  <2>1. ASSUME NEW p \in Posts, FillPaper(p) \/ RefuseLive(p)
        PROVE  /\ calls[p] # Unsent /\ calls[p].state = "sent" /\ q = p
               /\ \/ ~calls[p].order.live /\ calls'[p] = [calls[p] EXCEPT !.state = "filled"]
                  \/ calls'[p] = [calls[p] EXCEPT !.state = "refused"]
    BY <2>1 DEF FillPaper, RefuseLive, PipelineInv, TypeOK
  <2>2. CASE RouterRestart
    BY <2>2 DEF RouterRestart, PipelineInv, TypeOK, Call
  <2>3. calls[q] \in Call \cup {Unsent}
    BY DEF PipelineInv, TypeOK
  <2>4. ASSUME NEW p \in Posts, FillPaper(p) \/ RefuseLive(p)
        PROVE  /\ calls[q] # Unsent /\ calls[q].state # "filled"
               /\ calls'[q] \in Call
               /\ calls'[q].intent = calls[q].intent
               /\ calls'[q].order = calls[q].order
               /\ calls'[q].state # "filled" \/ ~calls[q].order.live
    BY <2>1, <2>3, <2>4, ZenonT(30) DEF Call
  <2> QED BY <2>2, <2>4
          DEF SetSystemMode, Activate, Reset, ControlPlaneRestart, GatewayRestart, vars
<1>4. \A q \in Posts : calls'[q] \in Call => calls'[q] # Unsent
  BY CallIsSent
<1> QED BY <1>1, <1>2, <1>3, <1>4, NoRowKeeps

LEMMA RowStep == PipelineInv /\ RowInv /\ [Next]_vars => RowInv'
<1> SUFFICES ASSUME PipelineInv, RowInv, [Next]_vars PROVE RowInv'
  OBVIOUS
<1>1. ASSUME NEW h \in Handlers, HandlerStep(h) PROVE RowInv'
  BY <1>1, OtherStepRows, PostOrderRows, RecordOrderRows DEF HandlerStep
<1>2. ASSUME NEW p \in Posts, FillPaper(p) \/ FillLive(p) \/ RefuseLive(p) PROVE RowInv'
  BY <1>2, FillLiveRows, SurroundingsRows
<1>3. ASSUME NEW h \in Handlers, NEW i \in Intents, NEW o \in Orders, NEW auto \in BOOLEAN,
             Submit(h, i, o, auto)
      PROVE  RowInv'
  BY <1>3, OtherStepRows
<1>4. ASSUME NEW h \in Handlers, NEW i \in Intents, Approve(h, i) PROVE RowInv'
  BY <1>4, OtherStepRows
<1> QED BY <1>1, <1>2, <1>3, <1>4, SurroundingsRows DEF Next

\* Rows, posts and statuses fit together through every step.
THEOREM TablesAgree == Spec => []RowInv
<1>1. Init => RowInv
  BY DEF Init, RowInv, ExecutedHasOrderRow, OneRowPerPaperIntent, PaperRowOf
<1> QED BY <1>1, RowStep, PipelineInvariant, PTL DEF Spec

\* An intent shown as executed has an order in the orders table, filled by a
\* post of that intent, whatever timed out or restarted in between.
THEOREM ExecutedIntentsHaveOrders == Spec => []ExecutedHasOrderRow
BY TablesAgree, PTL DEF RowInv

\* One paper intent has one row, however many approvals and retries overlap.
THEOREM PaperIntentsHaveOneRow == Spec => []OneRowPerPaperIntent
BY TablesAgree, PTL DEF RowInv

-----------------------------------------------------------------------------
(* The kill switch drains.                                                 *)

\* Requests that are past the kill-switch check and have yet to route their
\* order.
InMemory == {h \in Handlers : pc[h] = "memory"}
\* Requests past the check of _assert_kill_switch_allows_execution.
Executing == {h \in Handlers : pc[h] \in {"memory", "routing"}}

\* While the switch is on, no request newly passes
\* _assert_kill_switch_allows_execution, and the only orders that still go out
\* are paper orders of requests that had passed it before, at most one per
\* request.
SwitchHolds ==
    ks.active =>
        /\ Executing' \subseteq Executing
        /\ InMemory' \subseteq InMemory
        /\ \A p \in Posts : calls[p] = Unsent /\ calls'[p] # Unsent =>
               \E h \in InMemory \ InMemory' :
                   req[h].intent = calls'[p].intent /\ ~req[h].order.live

\* Action by action: what may happen while the switch is on.
LEMMA SwitchStep ==
    ASSUME PipelineInv, [Next]_vars
    PROVE  SwitchHolds
<1> SUFFICES ASSUME ks.active PROVE SwitchHolds
  BY DEF SwitchHolds
<1>1. ASSUME NEW h \in Handlers, NEW p \in Posts, PostOrder(h, p) PROVE SwitchHolds
  <2>1. PICK notional \in DispatchSizes(req[h].order) :
            calls' = [calls EXCEPT ![p] = [intent |-> req[h].intent,
                                           order |-> [req[h].order EXCEPT !.notional = notional],
                                           state |-> "sent"]]
    BY <1>1 DEF PostOrder
  <2>2. calls'[p].intent = req[h].intent /\ \A q \in Posts : q # p => calls'[q] = calls[q]
    BY <2>1 DEF PipelineInv, TypeOK
  <2>3. /\ h \in InMemory \ InMemory' /\ ~req[h].order.live
        /\ InMemory' \subseteq InMemory /\ Executing' \subseteq Executing
    BY <1>1 DEF PostOrder, LiveAllowed, InMemory, Executing, PipelineInv, TypeOK
  <2> QED BY <2>2, <2>3 DEF SwitchHolds
<1>2. ASSUME NEW h \in Handlers, HandlerStep(h), ~\E p \in Posts : PostOrder(h, p)
      PROVE  SwitchHolds
  <2>1. UNCHANGED calls
    BY <1>2 DEF HandlerStep, GatewayCheck, GatewayUnavailable, RejectByRisk, QueueForApproval,
                ExecuteSubmitted, MemoryStops, BlockLive, RouterError, RouterTimeout,
                OrderInsertRaises, RecordOrder
  <2>2. InMemory' \subseteq InMemory /\ Executing' \subseteq Executing
    BY <1>2 DEF HandlerStep, GatewayCheck, GatewayUnavailable, RejectByRisk, QueueForApproval,
                ExecuteSubmitted, MemoryStops, BlockLive, RouterError, RouterTimeout,
                OrderInsertRaises, RecordOrder, Finish, InMemory, Executing, PipelineInv, TypeOK
  <2> QED BY <2>1, <2>2 DEF SwitchHolds
<1>3. ASSUME NEW h \in Handlers, NEW i \in Intents, NEW o \in Orders, NEW auto \in BOOLEAN,
             Submit(h, i, o, auto)
      PROVE  SwitchHolds
  BY <1>3 DEF Submit, SwitchHolds, InMemory, Executing, PipelineInv, TypeOK
<1>4. ASSUME NEW h \in Handlers, NEW i \in Intents, Approve(h, i) PROVE SwitchHolds
  BY <1>4 DEF Approve
<1>5. ASSUME NEW p \in Posts, FillPaper(p) \/ FillLive(p) \/ RefuseLive(p) PROVE SwitchHolds
  <2>1. calls[p] # Unsent /\ \A q \in Posts : q # p => calls'[q] = calls[q]
    BY <1>5 DEF FillPaper, FillLive, RefuseLive, PipelineInv, TypeOK
  <2>2. UNCHANGED handlerVars
    BY <1>5 DEF FillPaper, FillLive, RefuseLive
  <2> QED BY <2>1, <2>2 DEF SwitchHolds, InMemory, Executing, handlerVars
<1>6. CASE \/ \E m \in Modes : SetSystemMode(m)
           \/ Activate \/ Reset \/ ControlPlaneRestart \/ GatewayRestart \/ RouterRestart
           \/ UNCHANGED vars
  <2>1. \A q \in Posts : calls[q] = Unsent => calls'[q] = Unsent
    BY <1>6 DEF SetSystemMode, Activate, Reset, ControlPlaneRestart, GatewayRestart,
                RouterRestart, vars
  <2>2. InMemory' \subseteq InMemory /\ Executing' \subseteq Executing
    BY <1>6 DEF SetSystemMode, Activate, Reset, ControlPlaneRestart, GatewayRestart,
                RouterRestart, vars, handlerVars, InMemory, Executing
  <2> QED BY <2>1, <2>2 DEF SwitchHolds
<1> QED BY <1>1, <1>2, <1>3, <1>4, <1>5, <1>6 DEF Next

\* The kill switch only drains the pipeline, for any number of intents,
\* handlers and posts: what KillSwitchDrains asks for, but for the fairness
\* that lets the requests under way end.
THEOREM SwitchOnlyDrains == Spec => [][SwitchHolds]_vars
<1>1. PipelineInv /\ [Next]_vars => [SwitchHolds]_vars
  BY SwitchStep
<1> QED BY <1>1, PipelineInvariant, PTL DEF Spec
=============================================================================
