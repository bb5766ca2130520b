---------------------------- MODULE IntentPipeline ----------------------------
(***************************************************************************)
(* The life of a trade intent: an operator submits it to the control       *)
(* plane, the risk gateway charges it, it waits in PENDING_INTENTS or goes *)
(* straight on, the memory service may shrink or stop it, and the          *)
(* execution router fills it.                                              *)
(*                                                                         *)
(* Every service is one asyncio process whose database calls block, so the *)
(* code between two awaits is one step.  A request of the control plane is *)
(* a handler h, cut where it awaits:                                       *)
(*   risk      pre-trade check sent, not yet served by the gateway         *)
(*   decided   served, the answer is on its way back                       *)
(*   memory    past the kill-switch check, awaiting the memory lookup      *)
(*   routing   order posted to the execution router                        *)
(* A post lives on its own: the router goes on with it when the control    *)
(* plane has timed out or restarted.                                       *)
(***************************************************************************)
EXTENDS RiskGateway, KillSwitch

CONSTANTS
    Intents,       \* intent ids, chosen by the caller
    Handlers,      \* requests the control plane serves concurrently
    Posts,         \* posts to the execution router (bounds their number)
    MaxSubmits,    \* bound: submissions
    LiveModes,     \* providers.*.allowed_system_modes of live_execution_policy.json
    HoldModes      \* modes in which even an auto-executing intent waits

ASSUME PipelineAssumption ==
    /\ MaxSubmits \in Nat
    /\ LiveModes \subseteq Modes
    /\ HoldModes \subseteq Modes

VARIABLES
    mode,          \* CURRENT_SYSTEM_MODE, written through to system_config
    pending,       \* PENDING_INTENTS, in memory only
    intents,       \* status column of the intents table
    ordersTable,   \* the orders table
    pc, req,       \* where each request is, and what it carries
    calls,         \* the posts, as the router sees them
    accepted,      \* history: largest notional the gateway accepted for an id
    submits        \* history: submissions so far

storeVars == <<intents, ordersTable>>
handlerVars == <<pc, req>>
historyVars == <<accepted, submits>>
vars == <<riskVars, ks, mode, pending, storeVars, handlerVars, calls, historyVars>>

NoOrder == [notional |-> 0]
NoRequest == [op |-> "none"]
Unsent == [state |-> "unsent"]

IntentStatus == {"absent", "rejected_by_risk", "pending_approval",
                 "blocked_memory_unavailable", "rejected_by_memory", "executed"}

PCs == {"idle", "risk", "decided", "memory", "routing"}

Request == [op : {"submit", "approve"}, intent : Intents, order : OrderPayload,
            mode : Modes, auto : BOOLEAN, granted : BOOLEAN,
            post : Posts \cup {NoRequest}]

\* refused: the router answered an error, whether or not the broker took the
\* order; lost: the router died with it and answers nothing.
Call == [intent : Intents, order : OrderPayload,
         state : {"sent", "filled", "refused", "lost"}]

TypeOK ==
    /\ RiskTypeOK
    /\ KillTypeOK
    /\ mode \in Modes
    /\ pending \in [Intents -> OrderPayload \cup {NoOrder}]
    /\ intents \in [Intents -> IntentStatus]
    /\ ordersTable \subseteq [post : Posts, linked : BOOLEAN]
    /\ pc \in [Handlers -> PCs]
    /\ req \in [Handlers -> Request \cup {NoRequest}]
    /\ calls \in [Posts -> Call \cup {Unsent}]
    /\ accepted \in [Intents -> Nat]
    /\ submits \in Nat

Init ==
    /\ RiskInit
    /\ KillInit
    /\ mode \in Modes
    /\ pending = [i \in Intents |-> NoOrder]
    /\ intents = [i \in Intents |-> "absent"]
    /\ ordersTable = {}
    /\ pc = [h \in Handlers |-> "idle"]
    /\ req = [h \in Handlers |-> NoRequest]
    /\ calls = [p \in Posts |-> Unsent]
    /\ accepted = [i \in Intents |-> 0]
    /\ submits = 0

-----------------------------------------------------------------------------
(* Pieces several handlers share.                                          *)

Finish(h) ==
    /\ pc' = [pc EXCEPT ![h] = "idle"]
    /\ req' = [req EXCEPT ![h] = NoRequest]

\* Faulty variant: a waiting intent lives in memory only.
PersistResolved(i, status) ==
    intents' = IF status = "pending_approval" THEN intents ELSE [intents EXCEPT ![i] = status]

\* persist_intent is an upsert: whatever the row said before, it says this now.
Persist(i, status) == intents' = [intents EXCEPT ![i] = status]

PaperRowOf(i) == {r \in ordersTable : /\ calls[r.post].intent = i
                                      /\ ~calls[r.post].order.live}

-----------------------------------------------------------------------------
(* submit_intent: the pre-trade check, with the mode of this moment.       *)

Submit(h, i, o, auto) ==
    /\ pc[h] = "idle"
    /\ submits < MaxSubmits
    /\ submits' = submits + 1
    /\ pc' = [pc EXCEPT ![h] = "risk"]
    /\ req' = [req EXCEPT ![h] = [op |-> "submit", intent |-> i, order |-> o, mode |-> mode,
                                  auto |-> auto, granted |-> FALSE, post |-> NoRequest]]
    /\ UNCHANGED <<riskVars, ks, mode, pending, storeVars, calls, accepted>>

GatewayCheck(h) ==
    /\ pc[h] = "risk"
    /\ LET o == req[h].order
           i == req[h].intent
           granted == PreTradeReasons(o, req[h].mode) = {}
       IN  /\ PreTradeCheck(o, req[h].mode)
           /\ req' = [req EXCEPT ![h].granted = granted]
           /\ accepted' = IF granted /\ o.notional > accepted[i]
                          THEN [accepted EXCEPT ![i] = o.notional] ELSE accepted
    /\ pc' = [pc EXCEPT ![h] = "decided"]
    /\ UNCHANGED <<ks, mode, pending, storeVars, calls, submits>>

\* The gateway is down, or its answer comes too late: 502 or an exception, and
\* a charge already booked stays booked.
GatewayUnavailable(h) ==
    /\ pc[h] \in {"risk", "decided"}
    /\ Finish(h)
    /\ UNCHANGED <<riskVars, ks, mode, pending, storeVars, calls, historyVars>>

RejectByRisk(h) ==
    /\ pc[h] = "decided"
    /\ ~req[h].granted
    /\ Persist(req[h].intent, "rejected_by_risk")
    /\ Finish(h)
    /\ UNCHANGED <<riskVars, ks, mode, pending, ordersTable, calls, historyVars>>

\* A resubmission of the same id replaces the intent that was waiting.
QueueForApproval(h) ==
    /\ pc[h] = "decided"
    /\ req[h].granted
    /\ ~req[h].auto \/ mode \in HoldModes
    /\ pending' = [pending EXCEPT ![req[h].intent] = req[h].order]
    /\ Persist(req[h].intent, "pending_approval")
    /\ Finish(h)
    /\ UNCHANGED <<riskVars, ks, mode, ordersTable, calls, historyVars>>

\* _assert_kill_switch_allows_execution answers 423 and leaves no trace of the
\* intent; past it the handler awaits the memory lookup.
ExecuteSubmitted(h) ==
    /\ pc[h] = "decided"
    /\ req[h].granted
    /\ req[h].auto /\ mode \notin HoldModes
    /\ IF ks.active
       THEN Finish(h)
       ELSE pc' = [pc EXCEPT ![h] = "memory"] /\ UNCHANGED req
    /\ UNCHANGED <<riskVars, ks, mode, pending, storeVars, calls, historyVars>>

\* approve_pending_intent: 404 when nothing waits and 423 when the switch is on
\* change nothing.  The intent stays in PENDING_INTENTS while it executes.
Approve(h, i) ==
    /\ pc[h] = "idle"
    /\ pending[i] # NoOrder
    /\ ~ks.active
    /\ pc' = [pc EXCEPT ![h] = "memory"]
    /\ req' = [req EXCEPT ![h] = [op |-> "approve", intent |-> i, order |-> pending[i],
                                  mode |-> mode, auto |-> FALSE, granted |-> TRUE,
                                  post |-> NoRequest]]
    /\ UNCHANGED <<riskVars, ks, mode, pending, storeVars, calls, historyVars>>

-----------------------------------------------------------------------------
(* execute_approved_intent after the memory lookup.                        *)

\* The lookup itself may raise before anything is persisted.
MemoryStops(h) ==
    /\ pc[h] = "memory"
    /\ \/ \E status \in {"blocked_memory_unavailable", "rejected_by_memory"} :
              Persist(req[h].intent, status)
       \/ UNCHANGED intents
    /\ Finish(h)
    /\ UNCHANGED <<riskVars, ks, mode, pending, ordersTable, calls, historyVars>>

\* _resolve_live_execution_request and _evaluate_go_live_hardening look at the
\* mode and the switch again; their other reasons may stop the order anyway.
LiveAllowedByMode == mode \in LiveModes   \* faulty variant: trusts the first check

LiveAllowed == ~ks.active /\ mode \in LiveModes

BlockLive(h) ==
    /\ pc[h] = "memory"
    /\ req[h].order.live
    /\ Finish(h)
    /\ UNCHANGED <<riskVars, ks, mode, pending, storeVars, calls, historyVars>>

\* Faulty variant: a multiplier may enlarge the order.
EnlargedSizes(o) == 1 .. 2 * o.notional

\* size_multiplier_cap of the memory and size_multiplier of the connector's
\* health are both at most one.
DispatchSizes(o) == 1 .. o.notional

PostOrder(h, p) ==
    /\ pc[h] = "memory"
    /\ req[h].order.live => LiveAllowed
    /\ calls[p] = Unsent
    /\ \E notional \in DispatchSizes(req[h].order) :
           calls' = [calls EXCEPT ![p] = [intent |-> req[h].intent,
                                          order |-> [req[h].order EXCEPT !.notional = notional],
                                          state |-> "sent"]]
    /\ pc' = [pc EXCEPT ![h] = "routing"]
    /\ req' = [req EXCEPT ![h].post = p]
    /\ UNCHANGED <<riskVars, ks, mode, pending, storeVars, historyVars>>

-----------------------------------------------------------------------------
(* The router.                                                             *)

\* place_order: a paper order is filled in full and recorded by the caller.
FillPaper(p) ==
    /\ calls[p] # Unsent
    /\ calls[p].state = "sent"
    /\ ~calls[p].order.live
    /\ calls' = [calls EXCEPT ![p].state = "filled"]
    /\ UNCHANGED <<riskVars, ks, mode, pending, storeVars, handlerVars, historyVars>>

\* place_routed_order: the router records a live order itself, without its
\* intent when the control plane has not persisted that yet.
FillLive(p) ==
    /\ calls[p] # Unsent
    /\ calls[p].state = "sent"
    /\ calls[p].order.live
    /\ calls' = [calls EXCEPT ![p].state = "filled"]
    /\ ordersTable' = ordersTable \cup
           {[post |-> p, linked |-> intents[calls[p].intent] # "absent"]}
    /\ UNCHANGED <<riskVars, ks, mode, pending, intents, handlerVars, historyVars>>

\* No route, the optimizer's block, a broker error: only a routed order can
\* fail once its request is well formed.
RefuseLive(p) ==
    /\ calls[p] # Unsent
    /\ calls[p].state = "sent"
    /\ calls[p].order.live
    /\ calls' = [calls EXCEPT ![p].state = "refused"]
    /\ UNCHANGED <<riskVars, ks, mode, pending, storeVars, handlerVars, historyVars>>

-----------------------------------------------------------------------------
(* The answer of the router.                                               *)

RouterError(h) ==
    /\ pc[h] = "routing"
    /\ calls[req[h].post].state = "refused"
    /\ RecordApiError
    /\ Finish(h)
    /\ UNCHANGED <<riskVars, mode, pending, storeVars, calls, historyVars>>

NeverTimesOut(h) == FALSE   \* faulty variant: a client without a timeout

\* The client gives up after ten seconds, or the connection breaks: an
\* exception that counts no error, while the post goes on.
RouterTimeout(h) ==
    /\ pc[h] = "routing"
    /\ Finish(h)
    /\ UNCHANGED <<riskVars, ks, mode, pending, storeVars, calls, historyVars>>

\* The row of a paper order names its intent, so an intent nobody persisted
\* yet fails the foreign key and the handler stops there.
InsertFails(h) ==
    ~calls[req[h].post].order.live /\ intents[req[h].intent] = "absent"

OrderInsertRaises(h) ==
    /\ pc[h] = "routing"
    /\ calls[req[h].post].state = "filled"
    /\ InsertFails(h)
    /\ Finish(h)
    /\ UNCHANGED <<riskVars, ks, mode, pending, storeVars, calls, historyVars>>

\* Faulty variants: an order id per post; an insert skipped for a known intent.
NeverRecorded(i) == FALSE
RecordedWithIntent(i) == intents[i] # "absent"

AlreadyRecorded(i) == PaperRowOf(i) # {}

\* ON CONFLICT (order_id) DO NOTHING: one row per paper intent, and the live
\* row is the router's.  An approval then removes the waiting intent, the one
\* a resubmission put there included; a submission leaves PENDING_INTENTS.
RecordOrder(h) ==
    LET i == req[h].intent
        p == req[h].post
    IN  /\ pc[h] = "routing"
        /\ calls[p].state = "filled"
        /\ ~InsertFails(h)
        /\ ordersTable' = IF calls[p].order.live \/ AlreadyRecorded(i) THEN ordersTable
                          ELSE ordersTable \cup {[post |-> p, linked |-> TRUE]}
        /\ Persist(i, "executed")
        /\ pending' = IF req[h].op = "approve" THEN [pending EXCEPT ![i] = NoOrder] ELSE pending
        /\ Finish(h)
        /\ UNCHANGED <<riskVars, ks, mode, calls, historyVars>>

-----------------------------------------------------------------------------
(* Operators, the watchdog, and restarts.                                  *)

SetSystemMode(m) ==
    /\ mode' = m
    /\ UNCHANGED <<riskVars, ks, pending, storeVars, handlerVars, calls, historyVars>>

\* The watchdog asks for a mode with its activation.
Activate ==
    /\ \E reason \in ActivationReasons : ActivateKillSwitch(reason)
    /\ \E m \in Modes : mode' = m
    /\ UNCHANGED <<riskVars, pending, storeVars, handlerVars, calls, historyVars>>

\* Faulty variant: a reset that keeps the statistics.
ResetFlagOnly ==
    /\ ks' = [ks EXCEPT !.active = FALSE]
    /\ UNCHANGED <<riskVars, mode, pending, storeVars, handlerVars, calls, historyVars>>

Reset ==
    /\ ResetKillSwitch
    /\ UNCHANGED <<riskVars, mode, pending, storeVars, handlerVars, calls, historyVars>>

\* Mode, switch and tables are in the database; PENDING_INTENTS is not, and
\* startup does not read the pending_approval rows back.
ControlPlaneRestart ==
    /\ pending' = [i \in Intents |-> NoOrder]
    /\ pc' = [h \in Handlers |-> "idle"]
    /\ req' = [h \in Handlers |-> NoRequest]
    /\ UNCHANGED <<riskVars, ks, mode, storeVars, calls, historyVars>>

\* Faulty variant: the exposure survives the restart, the budget does not.
GatewayRestartKeepingExposure ==
    /\ dailyUsed' = 0
    /\ UNCHANGED <<exposure, ks, mode, pending, storeVars, handlerVars, calls, historyVars>>

GatewayRestart ==
    /\ RiskRestart
    /\ UNCHANGED <<ks, mode, pending, storeVars, handlerVars, calls, historyVars>>

RouterRestart ==
    /\ calls' = [p \in Posts |-> IF calls[p] # Unsent /\ calls[p].state = "sent"
                                 THEN [calls[p] EXCEPT !.state = "lost"] ELSE calls[p]]
    /\ UNCHANGED <<riskVars, ks, mode, pending, storeVars, handlerVars, historyVars>>

-----------------------------------------------------------------------------
\* What handler h does once its request is under way.
HandlerStep(h) ==
    \/ GatewayCheck(h) \/ GatewayUnavailable(h)
    \/ RejectByRisk(h) \/ QueueForApproval(h) \/ ExecuteSubmitted(h)
    \/ MemoryStops(h) \/ BlockLive(h)
    \/ \E p \in Posts : PostOrder(h, p)
    \/ RouterError(h) \/ RouterTimeout(h) \/ OrderInsertRaises(h) \/ RecordOrder(h)

Next ==
    \/ \E h \in Handlers, i \in Intents, o \in Orders, auto \in BOOLEAN : Submit(h, i, o, auto)
    \/ \E h \in Handlers, i \in Intents : Approve(h, i)
    \/ \E h \in Handlers : HandlerStep(h)
    \/ \E p \in Posts : FillPaper(p) \/ FillLive(p) \/ RefuseLive(p)
    \/ \E m \in Modes : SetSystemMode(m)
    \/ Activate \/ Reset
    \/ ControlPlaneRestart \/ GatewayRestart \/ RouterRestart

Spec == Init /\ [][Next]_vars

\* Every await of a handler has a client timeout, so a request under way is
\* never left standing; nothing is assumed of operators, router or restarts.
FairSpec == Spec /\ \A h \in Handlers : WF_vars(HandlerStep(h))

-----------------------------------------------------------------------------
(* Properties.                                                             *)

\* The router is never asked for more than the gateway accepted for that
\* intent: not after the memory's shrinking, a resubmission with another size,
\* a concurrent approval of the older payload, nor a restart in between.
DispatchWithinAcceptance ==
    \A p \in Posts : calls[p] # Unsent =>
        calls[p].order.notional <= accepted[calls[p].intent]

\* What an operator can approve, and what an approval is executing, the gateway
\* accepted at that size and the intents table knows: an approval can therefore
\* never meet the foreign key that stops a fresh submission (l.16815, l.16940).
ApprovalIsBacked ==
    /\ \A i \in Intents : pending[i] # NoOrder =>
           intents[i] # "absent" /\ pending[i].notional <= accepted[i]
    /\ \A h \in Handlers : pc[h] # "idle" /\ req[h].op = "approve" =>
           intents[req[h].intent] # "absent"

\* An intent shown as executed has its order in the orders table, filled by a
\* post of that very intent, and a row names an intent only if that exists.
ExecutedHasOrderRow ==
    /\ \A i \in Intents : intents[i] = "executed" =>
           \E r \in ordersTable : calls[r.post].intent = i
    /\ \A r \in ordersTable :
           /\ calls[r.post].state = "filled"
           /\ r.linked => intents[calls[r.post].intent] # "absent"

\* However many approvals and retries of one paper intent overlap, the orders
\* table keeps one row for it (l.16817: ON CONFLICT (order_id) DO NOTHING).
OneRowPerPaperIntent == \A i \in Intents : \A r, s \in PaperRowOf(i) : r = s

\* A live order leaves the control plane only while the switch is off and the
\* mode is one the live policy allows, however long its request has waited since
\* the first kill-switch check ("Agent live routing must not be enabled while
\* `system_mode != managed_live`", BINGX_LIVE_SMOKE_RUNBOOK.md, l.231).
LiveDispatchGuarded ==
    [][\A p \in Posts : calls[p] = Unsent /\ calls'[p] # Unsent /\ calls'[p].order.live =>
           ~ks.active /\ mode \in LiveModes]_vars

\* The switch drains the pipeline: once it is on and stays on, every execution
\* that had passed its check ends and none follows.
KillSwitchDrains ==
    ks.active ~> (~ks.active \/ \A h \in Handlers : pc[h] \notin {"memory", "routing"})

\* The row of an order names an intent of the intents table
\* ("intent_id TEXT REFERENCES intents(intent_id)", shared/db.py, l.140): when
\* the router has filled an order, the row the control plane inserts is valid.
OrderInsertHasIntent ==
    \A h \in Handlers : pc[h] = "routing" =>
        (calls[req[h].post].state = "filled" => ~InsertFails(h))
=============================================================================
