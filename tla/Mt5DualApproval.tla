--------------------------- MODULE Mt5DualApproval ---------------------------
(***************************************************************************)
(* MT5 orders: an order for a paper account executes at once, an order for *)
(* a live account is stored until another operator approves it.  A request *)
(* is a handler h of the control plane, cut where it awaits:               *)
(*   account   asking the bridge which mode the account is in              *)
(*   risk      past the kill switch (and the go-live hardening, if live),  *)
(*             asking the risk gateway                                     *)
(*   route     asking the predictor, the engine and the router             *)
(*   bridge    order posted to the bridge                                  *)
(*   accepted  event written by the bridge, answer on its way back         *)
(*   sync      answer recorded, refreshing the account's state             *)
(* The account's mode belongs to the bridge, which can change it any time  *)
(* and stamps it on the event it writes.                                   *)
(***************************************************************************)
EXTENDS RiskGateway, KillSwitch, FiniteSets

CONSTANTS
    Accounts, Users,
    Approvals,            \* approval ids (bounds how many are ever created)
    Handlers,             \* requests the control plane serves concurrently
    Tickets,              \* broker tickets (bounds the bridge's events)
    MinLiveConfidence,    \* go_live_hardening.min_live_confidence, in percent
    DegradedMultiplier,   \* anti_loop.degraded_confidence_multiplier, in percent
    SameSignalLimit,      \* anti_loop.same_signal_limit
    BlockAfterRepeats,    \* anti_loop.block_after_repeats
    MaxPendingApprovals   \* max_pending_live_approvals

ASSUME HardeningAssumption ==
    /\ MinLiveConfidence \in Nat /\ DegradedMultiplier \in Nat
    /\ SameSignalLimit \in Nat \ {0} /\ BlockAfterRepeats \in Nat
    /\ SameSignalLimit <= BlockAfterRepeats
    /\ MaxPendingApprovals \in Nat \ {0}
ASSUME ApprovalsAssumption == IsFiniteSet(Approvals) /\ "single" \notin Approvals

VARIABLES
    mode,          \* CURRENT_SYSTEM_MODE
    accountMode,   \* mt5_accounts.mode, kept by the bridge
    approvals,     \* mt5_live_approvals
    repeats,       \* go_live_hardening_decision audits in the lookback window, one
                   \* signal (symbol and side) per account
    pc, req,       \* where each request is, and what it carries
    events         \* mt5_order_events, the orders the bridge accepted

handlerVars == <<pc, req>>
vars == <<riskVars, ks, mode, accountMode, approvals, repeats, handlerVars, events>>

NoApproval == [status |-> "none"]
NoRequest == [op |-> "none"]
Single == "single"

AccountModes == {"paper", "live"}

Approval == [status : {"pending", "executed"}, account : Accounts, order : OrderPayload,
             first : Users, second : Users \cup {"nobody"}]

\* via is the approval being executed; target is metadata.go_live_target.
Request == [op : {"order"}, user : Users, account : Accounts, order : OrderPayload,
            via : Approvals \cup {Single}, target : AccountModes, mode : Modes]

Event == [ticket : Tickets, account : Accounts, user : Users,
          via : Approvals \cup {Single}, target : AccountModes, mode : AccountModes]

PCs == {"idle", "account", "risk", "route", "bridge", "accepted", "sync"}

TypeOK ==
    /\ RiskTypeOK
    /\ KillTypeOK
    /\ mode \in Modes
    /\ accountMode \in [Accounts -> AccountModes]
    /\ approvals \in [Approvals -> Approval \cup {NoApproval}]
    /\ repeats \in [Accounts -> 0 .. BlockAfterRepeats]
    /\ pc \in [Handlers -> PCs]
    /\ req \in [Handlers -> Request \cup {NoRequest}]
    /\ events \subseteq Event

Init ==
    /\ RiskInit
    /\ KillInit
    /\ mode \in Modes
    /\ accountMode \in [Accounts -> AccountModes]
    /\ approvals = [i \in Approvals |-> NoApproval]
    /\ repeats = [a \in Accounts |-> 0]
    /\ pc = [h \in Handlers |-> "idle"]
    /\ req = [h \in Handlers |-> NoRequest]
    /\ events = {}

-----------------------------------------------------------------------------
PendingOf(a) == {i \in Approvals : approvals[i].status = "pending" /\ approvals[i].account = a}

Finish(h) ==
    /\ pc' = [pc EXCEPT ![h] = "idle"]
    /\ req' = [req EXCEPT ![h] = NoRequest]

\* _evaluate_go_live_hardening.  Exposure and the memory gate are read from
\* tables this module leaves out: they may block anything else would let pass.
EffectiveConfidence(a, o) ==
    IF repeats[a] >= SameSignalLimit THEN (o.confidence * DegradedMultiplier) \div 100
    ELSE o.confidence

BacklogOverfull(a) == Cardinality(PendingOf(a)) > MaxPendingApprovals   \* faulty variant

BacklogFull(a) == Cardinality(PendingOf(a)) >= MaxPendingApprovals

HardeningBlocks(a, o) ==
    \/ ks.active
    \/ repeats[a] >= BlockAfterRepeats
    \/ EffectiveConfidence(a, o) < MinLiveConfidence
    \/ BacklogFull(a)

\* Every evaluation is audited, whatever it says, and counted by the next one
\* (the count stops mattering at BlockAfterRepeats).
AuditDecision(a) ==
    repeats' = [repeats EXCEPT ![a] = IF @ < BlockAfterRepeats THEN @ + 1 ELSE @]

-----------------------------------------------------------------------------
(* proxy_mt5_filtered_order.                                               *)

SubmitMt5Order(h, u, a, o) ==
    /\ pc[h] = "idle"
    /\ ~ks.active
    /\ pc' = [pc EXCEPT ![h] = "account"]
    /\ req' = [req EXCEPT ![h] = [op |-> "order", user |-> u, account |-> a, order |-> o,
                                  via |-> Single, target |-> "paper", mode |-> mode]]
    /\ UNCHANGED <<riskVars, ks, mode, accountMode, approvals, repeats, events>>

\* _execute_mt5_filtered_order up to its first await: the kill switch is looked
\* at again, then the risk check leaves with the mode of this moment.
StartExecution(h, request) ==
    IF ks.active THEN Finish(h)
    ELSE /\ pc' = [pc EXCEPT ![h] = "risk"]
         /\ req' = [req EXCEPT ![h] = [request EXCEPT !.mode = mode]]

AccountIsPaper(h) ==
    /\ pc[h] = "account"
    /\ accountMode[req[h].account] = "paper"
    /\ StartExecution(h, req[h])
    /\ UNCHANGED <<riskVars, ks, mode, accountMode, approvals, repeats, events>>

\* require_human is as good as approved here: it only means a second approval.
StoreForSecondApproval(h, i) ==
    LET a == req[h].account
    IN  /\ pc[h] = "account"
        /\ accountMode[a] = "live"
        /\ ~HardeningBlocks(a, req[h].order)
        /\ approvals[i] = NoApproval
        /\ approvals' = [approvals EXCEPT ![i] =
               [status |-> "pending", account |-> a, order |-> req[h].order,
                first |-> req[h].user, second |-> "nobody"]]
        /\ AuditDecision(a)
        /\ Finish(h)
        /\ UNCHANGED <<riskVars, ks, mode, accountMode, events>>

\* The hardening or, after it, the chart's risk rules stop a live order.
BlockLiveOrder(h) ==
    /\ pc[h] = "account"
    /\ accountMode[req[h].account] = "live"
    /\ AuditDecision(req[h].account)
    /\ Finish(h)
    /\ UNCHANGED <<riskVars, ks, mode, accountMode, approvals, events>>

-----------------------------------------------------------------------------
AnyOperator(u, i) == TRUE   \* faulty variant

OtherOperator(u, i) == approvals[i].first # u

\* mt5_live_second_approve: the row is read and checked, then executed with the
\* governance of the second operator; 404, 403, 409 and 423 change nothing but
\* the audit of the hardening's answer.
SecondApprove(h, u, i) ==
    LET a == approvals[i].account
    IN  /\ pc[h] = "idle"
        /\ approvals[i] # NoApproval
        /\ approvals[i].status = "pending"
        /\ OtherOperator(u, i)
        /\ ~ks.active
        /\ AuditDecision(a)
        /\ \/ /\ ~HardeningBlocks(a, approvals[i].order)
              /\ pc' = [pc EXCEPT ![h] = "risk"]
              /\ req' = [req EXCEPT ![h] =
                     [op |-> "order", user |-> u, account |-> a, order |-> approvals[i].order,
                      via |-> i, target |-> "live", mode |-> mode]]
           \/ UNCHANGED handlerVars
        /\ UNCHANGED <<riskVars, ks, mode, accountMode, approvals, events>>

-----------------------------------------------------------------------------
(* _execute_mt5_filtered_order from its first await.                       *)

RiskCheck(h) ==
    /\ pc[h] = "risk"
    /\ Mt5OrderCheck(req[h].order, req[h].mode)
    /\ IF Mt5Reasons(req[h].order, req[h].mode) = {}
       THEN pc' = [pc EXCEPT ![h] = "route"] /\ UNCHANGED req
       ELSE Finish(h)
    /\ UNCHANGED <<ks, mode, accountMode, approvals, repeats, events>>

\* A route was found and simulated by the engine or the router.
RouteOrder(h) ==
    /\ pc[h] = "route"
    /\ pc' = [pc EXCEPT ![h] = "bridge"]
    /\ UNCHANGED <<riskVars, ks, mode, accountMode, approvals, repeats, req, events>>

\* The bridge stamps the mode the account has now.
BridgeAccepts(h, t) ==
    /\ pc[h] = "bridge"
    /\ t \notin {e.ticket : e \in events}
    /\ events' = events \cup
           {[ticket |-> t, account |-> req[h].account, user |-> req[h].user, via |-> req[h].via,
             target |-> req[h].target, mode |-> accountMode[req[h].account]]}
    /\ pc' = [pc EXCEPT ![h] = "accepted"]
    /\ UNCHANGED <<riskVars, ks, mode, accountMode, approvals, repeats, req>>

\* An error answer of the router or of the bridge.
UpstreamError(h) ==
    /\ pc[h] \in {"route", "bridge"}
    /\ RecordApiError
    /\ Finish(h)
    /\ UNCHANGED <<riskVars, mode, accountMode, approvals, repeats, events>>

Resolve(i, u) ==
    IF i = Single THEN UNCHANGED approvals
    ELSE approvals' = [approvals EXCEPT ![i].status = "executed", ![i].second = u]

\* Faulty variant: the approval is resolved even if its order came to nothing.
GiveUpResolved(h) ==
    /\ pc[h] # "idle"
    /\ Resolve(req[h].via, req[h].user)
    /\ Finish(h)
    /\ UNCHANGED <<riskVars, ks, mode, accountMode, repeats, events>>

\* A timeout, a bridge that does not know the account, the predictor's veto, the
\* chart's risk rules, an exception in one of the last refreshes: the request ends
\* where it stands, and an approval it was executing stays pending.
GiveUp(h) ==
    /\ pc[h] # "idle"
    /\ Finish(h)
    /\ UNCHANGED <<riskVars, ks, mode, accountMode, approvals, repeats, events>>

ReportAnySlippage(o) == Slippages   \* faulty variant

\* The bridge never reports more slippage than the spread the order tolerates,
\* and the predictor only ever tightens that.
ReportedSlippages(o) == {bps \in Slippages : bps <= o.slippage}

BridgeAnswers(h) ==
    /\ pc[h] = "accepted"
    /\ \E bps \in ReportedSlippages(req[h].order) : RecordSlippageEvent(bps)
    /\ pc' = [pc EXCEPT ![h] = "sync"]
    /\ UNCHANGED <<riskVars, mode, accountMode, approvals, repeats, req, events>>

\* Back in the caller: an approval is marked executed, whatever it says by now.
Complete(h) ==
    /\ pc[h] = "sync"
    /\ Resolve(req[h].via, req[h].user)
    /\ Finish(h)
    /\ UNCHANGED <<riskVars, ks, mode, accountMode, repeats, events>>

-----------------------------------------------------------------------------
(* The bridge's accounts, time, operators and restarts.                    *)

UpsertAccount(a, m) ==
    /\ accountMode' = [accountMode EXCEPT ![a] = m]
    /\ UNCHANGED <<riskVars, ks, mode, approvals, repeats, handlerVars, events>>

\* The lookback window moves past the decisions counted so far.
WindowPasses(a) ==
    /\ repeats' = [repeats EXCEPT ![a] = 0]
    /\ UNCHANGED <<riskVars, ks, mode, accountMode, approvals, handlerVars, events>>

Activate ==
    /\ \E reason \in ActivationReasons : ActivateKillSwitch(reason)
    /\ \E m \in Modes : mode' = m
    /\ UNCHANGED <<riskVars, accountMode, approvals, repeats, handlerVars, events>>

Reset ==
    /\ ResetKillSwitch
    /\ UNCHANGED <<riskVars, mode, accountMode, approvals, repeats, handlerVars, events>>

SetSystemMode(m) ==
    /\ mode' = m
    /\ UNCHANGED <<riskVars, ks, accountMode, approvals, repeats, handlerVars, events>>

ControlPlaneRestart ==
    /\ pc' = [h \in Handlers |-> "idle"]
    /\ req' = [h \in Handlers |-> NoRequest]
    /\ UNCHANGED <<riskVars, ks, mode, accountMode, approvals, repeats, events>>

GatewayRestart ==
    /\ RiskRestart
    /\ UNCHANGED <<ks, mode, accountMode, approvals, repeats, handlerVars, events>>

HandlerStep(h) ==
    \/ AccountIsPaper(h) \/ BlockLiveOrder(h)
    \/ \E i \in Approvals : StoreForSecondApproval(h, i)
    \/ RiskCheck(h) \/ RouteOrder(h) \/ UpstreamError(h) \/ GiveUp(h)
    \/ \E t \in Tickets : BridgeAccepts(h, t)
    \/ BridgeAnswers(h) \/ Complete(h)

Next ==
    \/ \E h \in Handlers, u \in Users, a \in Accounts, o \in Orders : SubmitMt5Order(h, u, a, o)
    \/ \E h \in Handlers, u \in Users, i \in Approvals : SecondApprove(h, u, i)
    \/ \E h \in Handlers : HandlerStep(h)
    \/ \E a \in Accounts, m \in AccountModes : UpsertAccount(a, m)
    \/ \E a \in Accounts : WindowPasses(a)
    \/ \E m \in Modes : SetSystemMode(m)
    \/ Activate \/ Reset
    \/ ControlPlaneRestart \/ GatewayRestart

Spec == Init /\ [][Next]_vars

-----------------------------------------------------------------------------
(* Properties.                                                             *)

\* Two people stand behind every order that the control plane itself classed
\* as live, however requests, restarts and mode changes interleave: the one who
\* stored it and another one (l.13820).
LiveTargetHasTwoApprovers ==
    \A e \in events : e.target = "live" =>
        /\ e.via \in Approvals
        /\ approvals[e.via] # NoApproval
        /\ approvals[e.via].first # e.user

\* An approval says executed only if the bridge really took an order for it,
\* from the operator it names as its second approver.
ExecutedApprovalHasEvent ==
    \A i \in Approvals : approvals[i].status = "executed" =>
        \E e \in events : e.via = i /\ e.user = approvals[i].second

\* No account ever has more live orders waiting than the policy allows: no
\* await separates counting them from storing the next one (l.6812, l.12834).
BacklogBounded == \A a \in Accounts : Cardinality(PendingOf(a)) <= MaxPendingApprovals

\* At its limit the backlog blocks the approvals it consists of, which nothing
\* else resolves: with no approval of the account in flight it is full for good.
Wedged(a) ==
    /\ Cardinality(PendingOf(a)) >= MaxPendingApprovals
    /\ \A h \in Handlers : pc[h] = "idle" \/ req[h].account # a \/ req[h].via = Single

FullBacklogStays == [][\A a \in Accounts : Wedged(a) => Wedged(a)']_vars

\* A bad fill of the bridge counts only if the gateway's policy tolerates it: a
\* limit below the switch's threshold (10 and 30 bps as shipped) makes the
\* slippage trip dead code for MT5 (risk_gateway l.204, mt5_bridge l.338).
BadFillsWithinPolicy ==
    ks.high_slippage_events > 0 => Policy.max_slippage_bps >= MaxSlippageBps

\* "Live order requires a second approval by another operator/admin"
\* (apps/control_plane/main.py, l.12856): the bridge books no live order
\* on the word of a single operator.
LiveEventDoubleApproved == \A e \in events : e.mode = "live" => e.via # Single

\* "Approval already resolved" (apps/control_plane/main.py, l.13819): one
\* approval is good for one order.
ApprovalExecutedOnce ==
    \A d, e \in events : d.via = e.via /\ d.via # Single => d = e
=============================================================================
