------------------------ MODULE Mt5DualApprovalProofs ------------------------
(***************************************************************************)
(* The dual approval of MT5 orders for any number of operators, accounts,  *)
(* approvals, tickets and overlapping requests.  An approval is never      *)
(* forgotten and never changes hands, so whatever a request read of it     *)
(* when it was checked is still true when its order is booked: Mt5Inv      *)
(* follows a request from that check to the bridge's event.                *)
(***************************************************************************)
EXTENDS Mt5DualApproval, KillSwitchProofs, RiskGatewayProofs, FiniteSetTheorems

\* A request under way is well formed; the approval it executes is stored, of
\* the same account and of another operator; past the gateway its order is
\* within the slippage policy; past the bridge its event is there.
RequestOK(h) ==
    pc[h] # "idle" =>
        /\ req[h] \in Request
        /\ req[h].target = "live" => req[h].via \in Approvals
        /\ req[h].via \in Approvals =>
               /\ approvals[req[h].via] # NoApproval
               /\ approvals[req[h].via].first # req[h].user
               /\ approvals[req[h].via].account = req[h].account
        /\ pc[h] \in {"route", "bridge", "accepted", "sync"} =>
               req[h].order.slippage <= Policy.max_slippage_bps
        /\ pc[h] \in {"accepted", "sync"} =>
               \E e \in events : e.via = req[h].via /\ e.user = req[h].user

Mt5Inv ==
    /\ TypeOK
    /\ \A h \in Handlers : RequestOK(h)
    /\ LiveTargetHasTwoApprovers
    /\ ExecutedApprovalHasEvent
    /\ BacklogBounded
    /\ BadFillsWithinPolicy

\* A stored approval is not the empty slot.
LEMMA StoredIsApproval ==
    ASSUME TypeOK, NEW i \in Approvals
    PROVE  /\ approvals[i] # NoApproval <=> approvals[i] \in Approval
           /\ approvals[i] \notin Approval => approvals[i].status = "none"
BY DEF TypeOK, Approval, NoApproval

\* The backlog of an account is a finite set of approvals.
LEMMA BacklogIsFinite ==
    ASSUME NEW a
    PROVE  IsFiniteSet(PendingOf(a)) /\ Cardinality(PendingOf(a)) \in Nat
BY ApprovalsAssumption, FS_Subset, FS_CardinalityType DEF PendingOf

\* Nothing is stored, runs or was booked at the start.
LEMMA Mt5Init ==
    ASSUME Init
    PROVE  Mt5Inv
<1>1. RiskTypeOK
    BY DEF Init, RiskInit, RiskTypeOK
<1>2. KillTypeOK /\ ks.high_slippage_events = 0
    <2>1. "none" \in KillReasons
        BY DEF KillReasons
    <2> QED
        BY <2>1, QuietInv DEF Init, KillInit, KillTypeOK
<1>3. TypeOK
    BY <1>1, <1>2, HardeningAssumption DEF Init, TypeOK, PCs
<1>4. BacklogBounded
    <2>1. \A a \in Accounts : PendingOf(a) = {}
        BY DEF Init, PendingOf, NoApproval
    <2> QED
        BY <2>1, FS_EmptySet, HardeningAssumption DEF BacklogBounded
<1>5. /\ \A h \in Handlers : RequestOK(h)
      /\ LiveTargetHasTwoApprovers
      /\ ExecutedApprovalHasEvent
    BY DEF Init, RequestOK, LiveTargetHasTwoApprovers, ExecutedApprovalHasEvent, NoApproval
<1> QED
    BY <1>2, <1>3, <1>4, <1>5 DEF Mt5Inv, BadFillsWithinPolicy

\* A step that neither stores, resolves nor books anything keeps the invariant
\* if the requests it touches stay good and it counts no bad fill.
LEMMA RequestStepKeeps ==
    ASSUME Mt5Inv, TypeOK', UNCHANGED <<approvals, events>>,
           \A h \in Handlers : pc'[h] # "idle" =>
               (pc'[h] = pc[h] /\ req'[h] = req[h]) \/ RequestOK(h)',
           ks'.high_slippage_events = ks.high_slippage_events
               \/ ks'.high_slippage_events = 0 \/ BadFillsWithinPolicy'
    PROVE  Mt5Inv'
<1>1. \A h \in Handlers : RequestOK(h)'
    BY DEF Mt5Inv, RequestOK
<1>2. /\ LiveTargetHasTwoApprovers' /\ ExecutedApprovalHasEvent' /\ BacklogBounded'
    BY DEF Mt5Inv, LiveTargetHasTwoApprovers, ExecutedApprovalHasEvent, BacklogBounded, PendingOf
<1>3. BadFillsWithinPolicy'
    BY DEF Mt5Inv, BadFillsWithinPolicy
<1> QED
    BY <1>1, <1>2, <1>3 DEF Mt5Inv

\* A request that ends leaves the others as they were.
LEMMA FinishKeeps ==
    ASSUME Mt5Inv, NEW h \in Handlers, Finish(h), KillTypeOK', RiskTypeOK',
           repeats' \in [Accounts -> 0 .. BlockAfterRepeats],
           UNCHANGED <<mode, accountMode, approvals, events>>,
           ks'.high_slippage_events = ks.high_slippage_events
    PROVE  Mt5Inv'
<1>1. TypeOK'
    BY DEF Mt5Inv, TypeOK, Finish, PCs
<1>2. \A g \in Handlers : pc'[g] # "idle" => pc'[g] = pc[g] /\ req'[g] = req[g]
    BY DEF Mt5Inv, TypeOK, Finish
<1> QED
    BY <1>1, <1>2, RequestStepKeeps

\* An audited decision counts up to the bound that already blocks everything.
LEMMA AuditType ==
    ASSUME TypeOK, NEW a \in Accounts, AuditDecision(a)
    PROVE  repeats' \in [Accounts -> 0 .. BlockAfterRepeats]
<1>1. repeats \in [Accounts -> 0 .. BlockAfterRepeats] /\ BlockAfterRepeats \in Nat
    BY HardeningAssumption DEF TypeOK
<1>2. repeats[a] \in 0 .. BlockAfterRepeats
    BY <1>1
<1>3. (IF repeats[a] < BlockAfterRepeats THEN repeats[a] + 1 ELSE repeats[a])
          \in 0 .. BlockAfterRepeats
    BY <1>1, <1>2
<1> QED
    BY <1>1, <1>3 DEF AuditDecision

LEMMA SubmitKeeps ==
    ASSUME Mt5Inv, NEW h \in Handlers, NEW u \in Users, NEW a \in Accounts, NEW o \in Orders,
           SubmitMt5Order(h, u, a, o)
    PROVE  Mt5Inv'
<1> DEFINE fresh == [op |-> "order", user |-> u, account |-> a, order |-> o,
                     via |-> Single, target |-> "paper", mode |-> mode]
<1>1. fresh \in Request /\ fresh.via = Single /\ fresh.target = "paper"
    BY OrdersAssumption DEF Mt5Inv, TypeOK, Request, AccountModes, Single
<1>2. /\ pc' = [pc EXCEPT ![h] = "account"] /\ req' = [req EXCEPT ![h] = fresh]
      /\ UNCHANGED <<riskVars, ks, mode, accountMode, approvals, repeats, events>>
    BY DEF SubmitMt5Order
<1> HIDE DEF fresh
<1>3. TypeOK'
    BY <1>1, <1>2 DEF Mt5Inv, TypeOK, RiskTypeOK, KillTypeOK, riskVars, PCs
<1>4. RequestOK(h)'
    BY <1>1, <1>2, ApprovalsAssumption DEF Mt5Inv, TypeOK, RequestOK, Single
<1> QED
    BY <1>2, <1>3, <1>4, RequestStepKeeps DEF Mt5Inv, TypeOK

\* Past the account's answer the request carries the mode of this moment.
LEMMA AccountIsPaperKeeps ==
    ASSUME Mt5Inv, NEW h \in Handlers, AccountIsPaper(h)
    PROVE  Mt5Inv'
<1>1. /\ pc[h] = "account"
      /\ UNCHANGED <<riskVars, ks, mode, accountMode, approvals, repeats, events>>
    BY DEF AccountIsPaper
<1>2. KillTypeOK' /\ RiskTypeOK' /\ repeats' \in [Accounts -> 0 .. BlockAfterRepeats]
    BY <1>1 DEF Mt5Inv, TypeOK, RiskTypeOK, KillTypeOK, riskVars
<1>3. CASE ks.active
    BY <1>1, <1>2, <1>3, FinishKeeps DEF AccountIsPaper, StartExecution
<1>4. CASE ~ks.active
    <2>1. pc' = [pc EXCEPT ![h] = "risk"] /\ req' = [req EXCEPT ![h] = [req[h] EXCEPT !.mode = mode]]
        BY <1>4 DEF AccountIsPaper, StartExecution
    <2>2. RequestOK(h) /\ req[h] \in Request /\ mode \in Modes
        BY <1>1 DEF Mt5Inv, RequestOK, TypeOK
    <2>3. /\ req'[h] \in Request /\ req'[h].user = req[h].user /\ req'[h].via = req[h].via
          /\ req'[h].target = req[h].target /\ req'[h].account = req[h].account
        BY <2>1, <2>2 DEF Mt5Inv, TypeOK, Request
    <2>4. TypeOK'
        BY <1>1, <1>2, <2>1, <2>3 DEF Mt5Inv, TypeOK, PCs
    <2>5. RequestOK(h)'
        BY <1>1, <2>1, <2>2, <2>3 DEF Mt5Inv, TypeOK, RequestOK
    <2> QED
        BY <1>1, <2>1, <2>4, <2>5, RequestStepKeeps DEF Mt5Inv, TypeOK
<1> QED
    BY <1>3, <1>4

LEMMA BlockLiveOrderKeeps ==
    ASSUME Mt5Inv, NEW h \in Handlers, BlockLiveOrder(h)
    PROVE  Mt5Inv'
<1>1. req[h].account \in Accounts
    BY DEF BlockLiveOrder, Mt5Inv, RequestOK, Request
<1>2. repeats' \in [Accounts -> 0 .. BlockAfterRepeats]
    BY <1>1, AuditType DEF BlockLiveOrder, Mt5Inv
<1>3. KillTypeOK' /\ RiskTypeOK'
    BY DEF BlockLiveOrder, Mt5Inv, TypeOK, RiskTypeOK, KillTypeOK, riskVars
<1> QED
    BY <1>2, <1>3, FinishKeeps DEF BlockLiveOrder

\* An approval is stored only below the limit, for the operator who asked.
LEMMA StoreKeeps ==
    ASSUME Mt5Inv, NEW h \in Handlers, NEW i \in Approvals, StoreForSecondApproval(h, i)
    PROVE  Mt5Inv'
<1> DEFINE a == req[h].account
           stored == [status |-> "pending", account |-> a, order |-> req[h].order,
                      first |-> req[h].user, second |-> "nobody"]
<1>1. a \in Accounts /\ req[h] \in Request
    BY DEF StoreForSecondApproval, Mt5Inv, RequestOK, Request
<1>2. stored \in Approval /\ stored.account = a /\ stored.status = "pending"
    BY <1>1 DEF Approval, Request
<1>3. /\ approvals[i] = NoApproval /\ approvals' = [approvals EXCEPT ![i] = stored]
      /\ ~BacklogFull(a) /\ AuditDecision(a) /\ Finish(h)
      /\ UNCHANGED <<riskVars, ks, mode, accountMode, events>>
    BY DEF StoreForSecondApproval, HardeningBlocks
<1> HIDE DEF stored, a
<1>4. TypeOK'
    <2>1. repeats' \in [Accounts -> 0 .. BlockAfterRepeats]
        BY <1>1, <1>3, AuditType DEF Mt5Inv
    <2>2. approvals' \in [Approvals -> Approval \cup {NoApproval}]
        BY <1>2, <1>3 DEF Mt5Inv, TypeOK
    <2> QED
        BY <1>3, <2>1, <2>2 DEF Mt5Inv, TypeOK, RiskTypeOK, KillTypeOK, riskVars, Finish, PCs
<1>5. \A g \in Handlers : RequestOK(g)'
    BY <1>3 DEF Mt5Inv, TypeOK, RequestOK, Finish
<1>6. LiveTargetHasTwoApprovers' /\ ExecutedApprovalHasEvent'
    BY <1>2, <1>3 DEF Mt5Inv, TypeOK, LiveTargetHasTwoApprovers, ExecutedApprovalHasEvent
<1>7. BacklogBounded'
    <2>1. ASSUME NEW b \in Accounts PROVE Cardinality(PendingOf(b)') <= MaxPendingApprovals
        <3>1. CASE b = a
            <4>1. PendingOf(b)' \subseteq PendingOf(b) \cup {i}
                BY <1>2, <1>3 DEF Mt5Inv, TypeOK, PendingOf
            <4>2. /\ IsFiniteSet(PendingOf(b) \cup {i})
                  /\ Cardinality(PendingOf(b) \cup {i}) <= Cardinality(PendingOf(b)) + 1
                BY BacklogIsFinite, FS_AddElement
            <4>3. Cardinality(PendingOf(b)) < MaxPendingApprovals
                BY <1>3, <3>1, BacklogIsFinite, HardeningAssumption DEF BacklogFull
            <4>4. /\ Cardinality(PendingOf(b)') <= Cardinality(PendingOf(b) \cup {i})
                  /\ Cardinality(PendingOf(b)') \in Nat
                  /\ Cardinality(PendingOf(b) \cup {i}) \in Nat
                BY <4>1, <4>2, FS_Subset, FS_CardinalityType
            <4> QED
                BY <4>2, <4>3, <4>4, BacklogIsFinite, HardeningAssumption
        <3>2. CASE b # a
            <4>1. PendingOf(b)' = PendingOf(b)
                BY <1>2, <1>3, <3>2 DEF Mt5Inv, TypeOK, PendingOf, NoApproval
            <4> QED
                BY <4>1 DEF Mt5Inv, BacklogBounded
        <3> QED
            BY <3>1, <3>2
    <2> QED
        BY <2>1 DEF BacklogBounded
<1>8. BadFillsWithinPolicy'
    BY <1>3 DEF Mt5Inv, BadFillsWithinPolicy
<1> QED
    BY <1>4, <1>5, <1>6, <1>7, <1>8 DEF Mt5Inv

\* The second operator is another one, and the approval is the account's.
LEMMA SecondApproveKeeps ==
    ASSUME Mt5Inv, NEW h \in Handlers, NEW u \in Users, NEW i \in Approvals,
           SecondApprove(h, u, i)
    PROVE  Mt5Inv'
<1> DEFINE a == approvals[i].account
           fresh == [op |-> "order", user |-> u, account |-> a, order |-> approvals[i].order,
                     via |-> i, target |-> "live", mode |-> mode]
<1>1. approvals[i] # NoApproval /\ approvals[i] \in Approval /\ approvals[i].first # u
    BY StoredIsApproval DEF SecondApprove, OtherOperator, Mt5Inv
<1>2. fresh \in Request /\ a \in Accounts
    BY <1>1 DEF Mt5Inv, TypeOK, Approval, Request, AccountModes
<1>3. fresh.via = i /\ fresh.user = u /\ fresh.account = a /\ fresh.target = "live"
    OBVIOUS
<1>4. \/ pc' = [pc EXCEPT ![h] = "risk"] /\ req' = [req EXCEPT ![h] = fresh]
      \/ UNCHANGED <<pc, req>>
    BY DEF SecondApprove, handlerVars
<1>5. AuditDecision(a) /\ UNCHANGED <<riskVars, ks, mode, accountMode, approvals, events>>
    BY DEF SecondApprove
<1>6. repeats' \in [Accounts -> 0 .. BlockAfterRepeats]
    BY <1>2, <1>5, AuditType DEF Mt5Inv
<1>7. RequestOK(h)' \/ UNCHANGED <<pc, req>>
    <2> HIDE DEF fresh
    <2>1. CASE pc' = [pc EXCEPT ![h] = "risk"] /\ req' = [req EXCEPT ![h] = fresh]
        BY <1>1, <1>2, <1>3, <1>5, <2>1 DEF Mt5Inv, TypeOK, RequestOK
    <2> QED
        BY <1>4, <2>1
<1> HIDE DEF a, fresh
<1>8. TypeOK'
    BY <1>2, <1>4, <1>5, <1>6 DEF Mt5Inv, TypeOK, RiskTypeOK, KillTypeOK, riskVars, PCs
<1>9. \A g \in Handlers : pc'[g] # "idle" =>
          (pc'[g] = pc[g] /\ req'[g] = req[g]) \/ RequestOK(g)'
    BY <1>4, <1>7 DEF Mt5Inv, TypeOK
<1> QED
    BY <1>5, <1>8, <1>9, RequestStepKeeps

\* The gateway lets no order pass that tolerates more slippage than the policy.
LEMMA RiskCheckKeeps ==
    ASSUME Mt5Inv, NEW h \in Handlers, RiskCheck(h)
    PROVE  Mt5Inv'
<1> DEFINE o == req[h].order
           passes == Mt5Reasons(o, req[h].mode) = {}
<1>1. /\ pc[h] = "risk" /\ RequestOK(h) /\ req[h] \in Request
      /\ Mt5OrderCheck(o, req[h].mode)
      /\ UNCHANGED <<ks, mode, accountMode, approvals, repeats, events>>
    BY DEF RiskCheck, Mt5Inv, RequestOK
<1>2. o \in OrderPayload /\ o.notional \in Nat /\ o.instrument \in Instruments
    BY <1>1 DEF Request, OrderPayload
<1>3. RiskTypeOK'
    <2>1. CASE passes
        BY <1>1, <1>2, <2>1
           DEF Mt5OrderCheck, Charge, SignedNotional, Mt5Inv, TypeOK, RiskTypeOK
    <2>2. CASE ~passes
        BY <1>1, <2>2 DEF Mt5OrderCheck, Mt5Inv, TypeOK, RiskTypeOK, riskVars
    <2> QED
        BY <2>1, <2>2
<1>4. KillTypeOK' /\ repeats' \in [Accounts -> 0 .. BlockAfterRepeats]
    BY <1>1 DEF Mt5Inv, TypeOK, KillTypeOK
<1>5. CASE passes
    <2>1. pc' = [pc EXCEPT ![h] = "route"] /\ UNCHANGED req
        BY <1>5 DEF RiskCheck
    <2>2. o.slippage <= Policy.max_slippage_bps
        <3>1. When(o.slippage > Policy.max_slippage_bps, "slippage_limit_exceeded") = {}
            BY <1>5 DEF Mt5Reasons, SharedReasons
        <3>2. ~(o.slippage > Policy.max_slippage_bps)
            BY <3>1 DEF When
        <3> QED
            BY <1>2, <3>2, PolicyAssumption DEF OrderPayload, RiskPolicy
    <2>3. TypeOK'
        BY <1>1, <1>3, <1>4, <2>1 DEF Mt5Inv, TypeOK, PCs
    <2>4. RequestOK(h)'
        BY <1>1, <2>1, <2>2 DEF Mt5Inv, TypeOK, RequestOK
    <2> QED
        BY <1>1, <2>1, <2>3, <2>4, RequestStepKeeps DEF Mt5Inv, TypeOK
<1>6. CASE ~passes
    BY <1>1, <1>3, <1>4, <1>6, FinishKeeps DEF RiskCheck
<1> QED
    BY <1>5, <1>6

LEMMA RouteOrderKeeps ==
    ASSUME Mt5Inv, NEW h \in Handlers, RouteOrder(h)
    PROVE  Mt5Inv'
<1>1. /\ pc[h] = "route" /\ pc' = [pc EXCEPT ![h] = "bridge"] /\ UNCHANGED req
      /\ UNCHANGED <<riskVars, ks, mode, accountMode, approvals, repeats, events>>
    BY DEF RouteOrder
<1>2. TypeOK'
    BY <1>1 DEF Mt5Inv, TypeOK, RiskTypeOK, KillTypeOK, riskVars, PCs
<1>3. RequestOK(h)'
    BY <1>1 DEF Mt5Inv, TypeOK, RequestOK
<1> QED
    BY <1>1, <1>2, <1>3, RequestStepKeeps DEF Mt5Inv, TypeOK

\* What the bridge books names the approval and the operator of the request.
LEMMA BridgeAcceptsKeeps ==
    ASSUME Mt5Inv, NEW h \in Handlers, NEW t \in Tickets, BridgeAccepts(h, t)
    PROVE  Mt5Inv'
<1> DEFINE booked == [ticket |-> t, account |-> req[h].account, user |-> req[h].user,
                      via |-> req[h].via, target |-> req[h].target,
                      mode |-> accountMode[req[h].account]]
<1>1. /\ pc[h] = "bridge" /\ RequestOK(h) /\ req[h] \in Request
      /\ events' = events \cup {booked}
      /\ pc' = [pc EXCEPT ![h] = "accepted"]
      /\ UNCHANGED <<riskVars, ks, mode, accountMode, approvals, repeats, req>>
    BY DEF BridgeAccepts, Mt5Inv, RequestOK
<1>2. /\ booked \in Event /\ booked.via = req[h].via /\ booked.user = req[h].user
      /\ booked.target = req[h].target
    BY <1>1 DEF Mt5Inv, TypeOK, Event, Request
<1> HIDE DEF booked
<1>3. TypeOK'
    BY <1>1, <1>2 DEF Mt5Inv, TypeOK, RiskTypeOK, KillTypeOK, riskVars, PCs
<1>4. \A g \in Handlers : RequestOK(g)'
    BY <1>1, <1>2 DEF Mt5Inv, TypeOK, RequestOK
<1>5. LiveTargetHasTwoApprovers'
    BY <1>1, <1>2 DEF Mt5Inv, LiveTargetHasTwoApprovers, RequestOK
<1>6. ExecutedApprovalHasEvent' /\ BacklogBounded' /\ BadFillsWithinPolicy'
    BY <1>1 DEF Mt5Inv, ExecutedApprovalHasEvent, BacklogBounded, PendingOf, BadFillsWithinPolicy
<1> QED
    BY <1>3, <1>4, <1>5, <1>6 DEF Mt5Inv

LEMMA UpstreamErrorKeeps ==
    ASSUME Mt5Inv, NEW h \in Handlers, UpstreamError(h)
    PROVE  Mt5Inv'
<1>1. KillTypeOK'
    BY KillTypeStep DEF UpstreamError, Mt5Inv, TypeOK, KillNext
<1>2. ks'.high_slippage_events = ks.high_slippage_events
    BY DEF UpstreamError, RecordApiError, WithApiError, Activated, Mt5Inv, TypeOK, KillTypeOK,
           KillState
<1>3. RiskTypeOK' /\ repeats' \in [Accounts -> 0 .. BlockAfterRepeats]
    BY DEF UpstreamError, Mt5Inv, TypeOK, RiskTypeOK, riskVars
<1> QED
    BY <1>1, <1>2, <1>3, FinishKeeps DEF UpstreamError

LEMMA GiveUpKeeps ==
    ASSUME Mt5Inv, NEW h \in Handlers, GiveUp(h)
    PROVE  Mt5Inv'
<1>1. KillTypeOK' /\ RiskTypeOK' /\ repeats' \in [Accounts -> 0 .. BlockAfterRepeats]
    BY DEF GiveUp, Mt5Inv, TypeOK, RiskTypeOK, KillTypeOK, riskVars
<1> QED
    BY <1>1, FinishKeeps DEF GiveUp

\* A fill is bad only beyond what the gateway let the order tolerate.
LEMMA BridgeAnswersKeeps ==
    ASSUME Mt5Inv, NEW h \in Handlers, BridgeAnswers(h)
    PROVE  Mt5Inv'
<1>1. PICK bps \in ReportedSlippages(req[h].order) : RecordSlippageEvent(bps)
    BY DEF BridgeAnswers
<1>2. /\ pc[h] = "accepted" /\ RequestOK(h) /\ req[h] \in Request
      /\ pc' = [pc EXCEPT ![h] = "sync"]
      /\ UNCHANGED <<riskVars, mode, accountMode, approvals, repeats, req, events>>
    BY DEF BridgeAnswers, Mt5Inv, RequestOK
<1>3. KillTypeOK'
    BY <1>1, KillTypeStep DEF ReportedSlippages, Mt5Inv, TypeOK, KillNext
<1>4. TypeOK'
    BY <1>2, <1>3 DEF Mt5Inv, TypeOK, RiskTypeOK, riskVars, PCs
<1>5. RequestOK(h)'
    BY <1>2 DEF Mt5Inv, TypeOK, RequestOK
<1>6. CASE bps >= MaxSlippageBps
    <2>1. bps <= Policy.max_slippage_bps
        <3>1. /\ bps \in Nat /\ req[h].order.slippage \in Nat /\ Policy.max_slippage_bps \in Nat
            BY <1>1, <1>2, ThresholdAssumption, PolicyAssumption
               DEF ReportedSlippages, Request, OrderPayload, RiskPolicy
        <3> QED
            BY <1>1, <1>2, <3>1 DEF ReportedSlippages, RequestOK
    <2>2. BadFillsWithinPolicy'
        BY <1>1, <1>6, <2>1, ThresholdAssumption, PolicyAssumption
           DEF BadFillsWithinPolicy, ReportedSlippages, RiskPolicy
    <2> QED
        BY <1>2, <1>4, <1>5, <2>2, RequestStepKeeps DEF Mt5Inv, TypeOK
<1>7. CASE ~(bps >= MaxSlippageBps)
    <2>1. ks' = ks
        BY <1>1, <1>7 DEF RecordSlippageEvent, WithSlippage
    <2> QED
        BY <1>2, <1>4, <1>5, <2>1, RequestStepKeeps DEF Mt5Inv, TypeOK
<1> QED
    BY <1>6, <1>7

\* Resolving an approval forgets neither it nor its first operator, and names
\* the operator whose order the bridge booked.
LEMMA CompleteKeeps ==
    ASSUME Mt5Inv, NEW h \in Handlers, Complete(h)
    PROVE  Mt5Inv'
<1> DEFINE i == req[h].via
           u == req[h].user
<1>1. /\ pc[h] = "sync" /\ RequestOK(h) /\ req[h] \in Request
      /\ Resolve(i, u) /\ Finish(h)
      /\ UNCHANGED <<riskVars, ks, mode, accountMode, repeats, events>>
    BY DEF Complete, Mt5Inv, RequestOK
<1>2. KillTypeOK' /\ RiskTypeOK' /\ repeats' \in [Accounts -> 0 .. BlockAfterRepeats]
    BY <1>1 DEF Mt5Inv, TypeOK, KillTypeOK, RiskTypeOK, riskVars
<1>3. CASE i = Single
    BY <1>1, <1>2, <1>3, FinishKeeps DEF Resolve
<1>4. CASE i # Single
    <2>1. /\ i \in Approvals /\ approvals[i] \in Approval /\ u \in Users
          /\ approvals' = [approvals EXCEPT ![i] = [approvals[i] EXCEPT !.status = "executed",
                                                                       !.second = u]]
        BY <1>1, <1>4, StoredIsApproval DEF Resolve, Mt5Inv, TypeOK, RequestOK, Request
    <2> HIDE DEF i, u
    <2>2. /\ approvals'[i] \in Approval /\ approvals'[i].status = "executed"
          /\ approvals'[i].second = u
          /\ approvals'[i].first = approvals[i].first
          /\ approvals'[i].account = approvals[i].account
        BY <2>1 DEF Mt5Inv, TypeOK, Approval
    <2>3. \A j \in Approvals : j # i => approvals'[j] = approvals[j]
        BY <2>1 DEF Mt5Inv, TypeOK
    <2>4. approvals' \in [Approvals -> Approval \cup {NoApproval}]
        BY <2>1, <2>2 DEF Mt5Inv, TypeOK
    <2>5. TypeOK'
        BY <1>1, <1>2, <2>4 DEF Mt5Inv, TypeOK, Finish, PCs
    <2>6. \A j \in Approvals : approvals[j] # NoApproval =>
              /\ approvals'[j] # NoApproval
              /\ approvals'[j].first = approvals[j].first
              /\ approvals'[j].account = approvals[j].account
        BY <2>2, <2>3 DEF NoApproval, Approval
    <2>7. \A g \in Handlers : RequestOK(g)'
        BY <1>1, <2>6 DEF Mt5Inv, TypeOK, RequestOK, Finish
    <2>8. LiveTargetHasTwoApprovers'
        BY <1>1, <2>6 DEF Mt5Inv, LiveTargetHasTwoApprovers
    <2>9. ExecutedApprovalHasEvent'
        <3>1. \E e \in events : e.via = i /\ e.user = u
            BY <1>1 DEF RequestOK, i, u
        <3> QED
            BY <1>1, <2>2, <2>3, <3>1 DEF Mt5Inv, ExecutedApprovalHasEvent
    <2>10. BacklogBounded'
        <3>1. \A a \in Accounts : PendingOf(a)' \subseteq PendingOf(a)
            BY <2>2, <2>3 DEF PendingOf
        <3>2. ASSUME NEW a \in Accounts
              PROVE  Cardinality(PendingOf(a)') <= MaxPendingApprovals
            <4>1. /\ Cardinality(PendingOf(a)') <= Cardinality(PendingOf(a))
                  /\ Cardinality(PendingOf(a)') \in Nat
                BY <3>1, BacklogIsFinite, FS_Subset, FS_CardinalityType
            <4> QED
                BY <4>1, BacklogIsFinite, HardeningAssumption DEF Mt5Inv, BacklogBounded
        <3> QED
            BY <3>2 DEF BacklogBounded
    <2>11. BadFillsWithinPolicy'
        BY <1>1 DEF Mt5Inv, BadFillsWithinPolicy
    <2> QED
        BY <2>5, <2>7, <2>8, <2>9, <2>10, <2>11 DEF Mt5Inv
<1> QED
    BY <1>3, <1>4

\* The bridge's accounts, the operators' mode and switch, time and restarts
\* touch neither a live request nor an approval nor an event.
LEMMA SurroundingsKeep ==
    ASSUME Mt5Inv,
           \/ \E a \in Accounts, m \in AccountModes : UpsertAccount(a, m)
           \/ \E a \in Accounts : WindowPasses(a)
           \/ \E m \in Modes : SetSystemMode(m)
           \/ Activate \/ Reset
           \/ ControlPlaneRestart \/ GatewayRestart
           \/ UNCHANGED vars
    PROVE  Mt5Inv'
<1>1. UNCHANGED <<approvals, events>>
    BY DEF UpsertAccount, WindowPasses, SetSystemMode, Activate, Reset, ControlPlaneRestart,
           GatewayRestart, vars
<1>2. \A h \in Handlers : pc'[h] # "idle" => pc'[h] = pc[h] /\ req'[h] = req[h]
    BY DEF UpsertAccount, WindowPasses, SetSystemMode, Activate, Reset, ControlPlaneRestart,
           GatewayRestart, vars, handlerVars
<1>3. /\ KillTypeOK'
      /\ ks'.high_slippage_events = ks.high_slippage_events \/ ks'.high_slippage_events = 0
    <2>1. CASE Activate
        <3>1. KillTypeOK'
            BY <2>1, KillTypeStep DEF Activate, KillNext, Mt5Inv, TypeOK
        <3> QED
            BY <2>1, <3>1 DEF Activate, ActivateKillSwitch, Activated, Mt5Inv, TypeOK, KillTypeOK,
                              KillState
    <2>2. CASE Reset
        <3>1. KillTypeOK'
            BY <2>2, KillTypeStep DEF Reset, KillNext, Mt5Inv, TypeOK
        <3> QED
            BY <2>2, <3>1 DEF Reset, ResetKillSwitch, Cleared, Quiet
    <2>3. CASE ks' = ks
        BY <2>3 DEF Mt5Inv, TypeOK, KillTypeOK
    <2> QED
        BY <2>1, <2>2, <2>3
           DEF UpsertAccount, WindowPasses, SetSystemMode, ControlPlaneRestart, GatewayRestart, vars
<1>4. RiskTypeOK'
    BY DEF UpsertAccount, WindowPasses, SetSystemMode, Activate, Reset, ControlPlaneRestart,
           GatewayRestart, RiskRestart, vars, riskVars, RiskTypeOK, Mt5Inv, TypeOK
<1>5. /\ mode' \in Modes /\ accountMode' \in [Accounts -> AccountModes]
      /\ repeats' \in [Accounts -> 0 .. BlockAfterRepeats]
      /\ pc' \in [Handlers -> PCs] /\ req' \in [Handlers -> Request \cup {NoRequest}]
    BY HardeningAssumption
       DEF UpsertAccount, WindowPasses, SetSystemMode, Activate, Reset, ControlPlaneRestart,
           GatewayRestart, vars, handlerVars, Mt5Inv, TypeOK, PCs
<1>6. TypeOK'
    BY <1>1, <1>3, <1>4, <1>5 DEF Mt5Inv, TypeOK
<1> QED
    BY <1>1, <1>2, <1>3, <1>6, RequestStepKeeps

LEMMA Mt5Step == Mt5Inv /\ [Next]_vars => Mt5Inv'
<1> SUFFICES ASSUME Mt5Inv, [Next]_vars PROVE Mt5Inv'
    OBVIOUS
<1>1. ASSUME NEW h \in Handlers, NEW u \in Users, NEW a \in Accounts, NEW o \in Orders,
             SubmitMt5Order(h, u, a, o)
      PROVE  Mt5Inv'
    BY <1>1, SubmitKeeps
<1>2. ASSUME NEW h \in Handlers, NEW u \in Users, NEW i \in Approvals, SecondApprove(h, u, i)
      PROVE  Mt5Inv'
    BY <1>2, SecondApproveKeeps
<1>3. ASSUME NEW h \in Handlers, HandlerStep(h) PROVE Mt5Inv'
    BY <1>3, AccountIsPaperKeeps, BlockLiveOrderKeeps, StoreKeeps, RiskCheckKeeps,
       RouteOrderKeeps, UpstreamErrorKeeps, GiveUpKeeps, BridgeAcceptsKeeps, BridgeAnswersKeeps,
       CompleteKeeps DEF HandlerStep
<1> QED
    BY <1>1, <1>2, <1>3, SurroundingsKeep DEF Next

\* Requests, approvals, events and the backlog fit together at every moment.
THEOREM Mt5Invariant == Spec => []Mt5Inv
<1> QED
    BY Mt5Init, Mt5Step, PTL DEF Spec

\* Every variable keeps its type through every step of every request.
THEOREM Mt5TypeCorrect == Spec => []TypeOK
<1>1. Mt5Inv => TypeOK
    BY DEF Mt5Inv
<1> QED
    BY <1>1, Mt5Invariant, PTL

\* Two people stand behind every order the control plane classed as live, for
\* any number of operators and overlapping requests (l.13820).
THEOREM LiveOrdersHaveTwoApprovers == Spec => []LiveTargetHasTwoApprovers
<1>1. Mt5Inv => LiveTargetHasTwoApprovers
    BY DEF Mt5Inv
<1> QED
    BY <1>1, Mt5Invariant, PTL

\* An approval says executed only if the bridge booked an order for it, by the
\* operator it names as its second.
THEOREM ExecutedApprovalsAreBooked == Spec => []ExecutedApprovalHasEvent
<1>1. Mt5Inv => ExecutedApprovalHasEvent
    BY DEF Mt5Inv
<1> QED
    BY <1>1, Mt5Invariant, PTL

\* The backlog of no account exceeds max_pending_live_approvals (l.6812).
THEOREM BacklogStaysBounded == Spec => []BacklogBounded
<1>1. Mt5Inv => BacklogBounded
    BY DEF Mt5Inv
<1> QED
    BY <1>1, Mt5Invariant, PTL

\* A bad fill is counted only under a policy that tolerates bad fills: with a
\* slippage limit below the threshold MT5 never trips the switch.
THEOREM BadFillsOnlyWithinPolicy == Spec => []BadFillsWithinPolicy
<1>1. Mt5Inv => BadFillsWithinPolicy
    BY DEF Mt5Inv
<1> QED
    BY <1>1, Mt5Invariant, PTL

-----------------------------------------------------------------------------
\* No step takes an approval out of a wedged backlog or starts one of them.
LEMMA WedgedStep ==
    ASSUME Mt5Inv, [Next]_vars, NEW a \in Accounts, Wedged(a)
    PROVE  Wedged(a)'
<1> DEFINE stays == /\ PendingOf(a) \subseteq PendingOf(a)'
                    /\ \A h \in Handlers :
                          pc'[h] = "idle" \/ req'[h].account # a \/ req'[h].via = Single
<1>1. ASSUME NEW h \in Handlers, NEW u \in Users, NEW b \in Accounts, NEW o \in Orders,
             SubmitMt5Order(h, u, b, o)
      PROVE  stays
    BY <1>1 DEF SubmitMt5Order, Wedged, PendingOf, Mt5Inv, TypeOK
<1>2. ASSUME NEW h \in Handlers, NEW u \in Users, NEW i \in Approvals, SecondApprove(h, u, i)
      PROVE  stays
    <2>1. approvals' = approvals
        BY <1>2 DEF SecondApprove
    <2>2. CASE UNCHANGED handlerVars
        BY <2>1, <2>2 DEF Wedged, PendingOf, handlerVars
    <2>3. CASE ~UNCHANGED handlerVars
        <3>1. /\ ~HardeningBlocks(approvals[i].account, approvals[i].order)
              /\ pc' = [pc EXCEPT ![h] = "risk"]
              /\ req' = [req EXCEPT ![h] =
                     [op |-> "order", user |-> u, account |-> approvals[i].account,
                      order |-> approvals[i].order, via |-> i, target |-> "live", mode |-> mode]]
            BY <1>2, <2>3 DEF SecondApprove
        <3>2. approvals[i].account # a
            BY <3>1 DEF HardeningBlocks, BacklogFull, Wedged
        <3> QED
            BY <2>1, <3>1, <3>2 DEF Wedged, PendingOf, Mt5Inv, TypeOK
    <2> QED
        BY <2>2, <2>3
<1>3. ASSUME NEW h \in Handlers, NEW i \in Approvals, StoreForSecondApproval(h, i)
      PROVE  stays
    BY <1>3 DEF StoreForSecondApproval, Finish, Wedged, PendingOf, NoApproval, Mt5Inv, TypeOK
<1>4. ASSUME NEW h \in Handlers, Complete(h)
      PROVE  stays
    <2>1. pc[h] = "sync" /\ RequestOK(h) /\ req[h] \in Request
        BY <1>4 DEF Complete, Mt5Inv, RequestOK
    <2>2. \A g \in Handlers : pc'[g] = "idle" \/ (pc'[g] = pc[g] /\ req'[g] = req[g])
        BY <1>4 DEF Complete, Finish, Mt5Inv, TypeOK
    <2>3. PendingOf(a) \subseteq PendingOf(a)'
        <3>1. CASE req[h].via = Single
            BY <1>4, <3>1 DEF Complete, Resolve, PendingOf
        <3>2. CASE req[h].via # Single
            <4>1. req[h].account # a /\ req[h].via \in Approvals
                BY <2>1, <3>2 DEF Wedged, Request
            <4>2. approvals[req[h].via].account # a
                BY <2>1, <4>1 DEF RequestOK
            <4>3. \A j \in Approvals : j # req[h].via => approvals'[j] = approvals[j]
                BY <1>4, <3>2 DEF Complete, Resolve, Mt5Inv, TypeOK
            <4> QED
                BY <4>2, <4>3 DEF PendingOf
        <3> QED
            BY <3>1, <3>2
    <2> QED
        BY <2>2, <2>3 DEF Wedged
<1>5. ASSUME NEW h \in Handlers,
             \/ AccountIsPaper(h) \/ BlockLiveOrder(h) \/ RiskCheck(h) \/ RouteOrder(h)
             \/ UpstreamError(h) \/ GiveUp(h) \/ BridgeAnswers(h)
             \/ \E t \in Tickets : BridgeAccepts(h, t)
      PROVE  stays
    <2>1. approvals' = approvals
        BY <1>5 DEF AccountIsPaper, BlockLiveOrder, RiskCheck, RouteOrder, UpstreamError, GiveUp,
                    BridgeAnswers, BridgeAccepts
    <2>2. pc[h] # "idle" /\ req[h] \in Request
        BY <1>5 DEF AccountIsPaper, BlockLiveOrder, RiskCheck, RouteOrder, UpstreamError, GiveUp,
                    BridgeAnswers, BridgeAccepts, Mt5Inv, RequestOK
    <2>3. \A g \in Handlers : \/ pc'[g] = "idle"
                              \/ g # h /\ pc'[g] = pc[g] /\ req'[g] = req[g]
                              \/ /\ g = h
                                 /\ req'[g].account = req[g].account /\ req'[g].via = req[g].via
        BY <1>5, <2>2 DEF AccountIsPaper, StartExecution, BlockLiveOrder, RiskCheck, RouteOrder,
                    UpstreamError, GiveUp, BridgeAnswers, BridgeAccepts, Finish, Mt5Inv, TypeOK,
                    Request
    <2> QED
        BY <2>1, <2>2, <2>3 DEF Wedged, PendingOf
<1>6. ASSUME \/ \E b \in Accounts, m \in AccountModes : UpsertAccount(b, m)
             \/ \E b \in Accounts : WindowPasses(b)
             \/ \E m \in Modes : SetSystemMode(m)
             \/ Activate \/ Reset
             \/ ControlPlaneRestart \/ GatewayRestart
             \/ UNCHANGED vars
      PROVE  stays
    <2>1. /\ approvals' = approvals
          /\ UNCHANGED handlerVars \/ \A h \in Handlers : pc'[h] = "idle"
        BY <1>6 DEF UpsertAccount, WindowPasses, SetSystemMode, Activate, Reset,
                    ControlPlaneRestart, GatewayRestart, vars
    <2> QED
        BY <2>1 DEF Wedged, PendingOf, handlerVars
<1>7. stays
    <2>1. ASSUME NEW h \in Handlers, HandlerStep(h) PROVE stays
        BY <1>3, <1>4, <1>5, <2>1 DEF HandlerStep
    <2> HIDE DEF stays
    <2> QED
        BY <1>1, <1>2, <1>6, <2>1 DEF Next
<1>8. /\ IsFiniteSet(PendingOf(a)')
      /\ Cardinality(PendingOf(a)) <= Cardinality(PendingOf(a)')
      /\ Cardinality(PendingOf(a)') \in Nat
    <2>1. IsFiniteSet(PendingOf(a)')
        BY ApprovalsAssumption, FS_Subset DEF PendingOf
    <2> QED
        BY <1>7, <2>1, FS_Subset, FS_CardinalityType
<1> QED
    BY <1>7, <1>8, BacklogIsFinite, HardeningAssumption DEF Wedged

\* A full backlog none of whose approvals is being executed is full for good:
\* the hardening that counts it also stops the approvals that would drain it.
THEOREM FullBacklogNeverDrains == Spec => FullBacklogStays
<1>1. Mt5Inv /\ [Next]_vars => [\A a \in Accounts : Wedged(a) => Wedged(a)']_vars
    BY WedgedStep
<1> QED
    BY <1>1, Mt5Invariant, PTL DEF Spec, FullBacklogStays

-----------------------------------------------------------------------------
(* The desk implements the gateway and the switch it is composed of.        *)

\* Every order on its way or stored was submitted to proxy_mt5_filtered_order:
\* no handler makes one up, and the one an approval stores is the one that is
\* executed.
OrdersAreSubmitted ==
    /\ \A i \in Approvals : approvals[i] # NoApproval => approvals[i].order \in Orders
    /\ \A h \in Handlers : pc[h] # "idle" => req[h].order \in Orders

\* Case by case: where each order comes from.
LEMMA SubmittedStep ==
    ASSUME Mt5Inv, OrdersAreSubmitted, [Next]_vars
    PROVE  OrdersAreSubmitted'
<1> DEFINE kept(h) == pc'[h] # "idle" => pc[h] # "idle" /\ req'[h].order = req[h].order
<1>1. ASSUME NEW h \in Handlers, NEW u \in Users, NEW a \in Accounts, NEW o \in Orders,
             SubmitMt5Order(h, u, a, o)
      PROVE  OrdersAreSubmitted'
    BY <1>1 DEF SubmitMt5Order, OrdersAreSubmitted, Mt5Inv, TypeOK
<1>2. ASSUME NEW h \in Handlers, NEW u \in Users, NEW i \in Approvals, SecondApprove(h, u, i)
      PROVE  OrdersAreSubmitted'
    <2>1. UNCHANGED approvals /\ approvals[i] # NoApproval
        BY <1>2 DEF SecondApprove
    <2>2. CASE UNCHANGED handlerVars
        BY <2>1, <2>2 DEF OrdersAreSubmitted, handlerVars
    <2>3. CASE /\ pc' = [pc EXCEPT ![h] = "risk"]
               /\ req' = [req EXCEPT ![h] =
                      [op |-> "order", user |-> u, account |-> approvals[i].account,
                       order |-> approvals[i].order, via |-> i, target |-> "live", mode |-> mode]]
        <3>1. req'[h].order = approvals[i].order
            BY <2>3 DEF Mt5Inv, TypeOK
        <3>2. \A g \in Handlers : g # h => pc'[g] = pc[g] /\ req'[g] = req[g]
            BY <2>3 DEF Mt5Inv, TypeOK
        <3> QED
            BY <2>1, <3>1, <3>2 DEF OrdersAreSubmitted
    <2> QED
        BY <1>2, <2>2, <2>3 DEF SecondApprove
<1>3. ASSUME NEW h \in Handlers, HandlerStep(h) PROVE OrdersAreSubmitted'
    <2>1. \A g \in Handlers : kept(g)
        <3>1. CASE AccountIsPaper(h)
            <4>1. pc[h] # "idle" /\ req[h] \in Request
                BY <3>1 DEF AccountIsPaper, Mt5Inv, RequestOK
            <4>2. [req[h] EXCEPT !.mode = mode].order = req[h].order
                BY <4>1 DEF Request
            <4> QED
                BY <3>1, <4>1, <4>2 DEF AccountIsPaper, StartExecution, Finish, Mt5Inv, TypeOK
        <3>2. CASE ~AccountIsPaper(h)
            BY <1>3, <3>2 DEF HandlerStep, BlockLiveOrder, StoreForSecondApproval, RiskCheck,
                              RouteOrder, UpstreamError, GiveUp, BridgeAccepts, BridgeAnswers,
                              Complete, Finish, Mt5Inv, TypeOK
        <3> QED
            BY <3>1, <3>2
    <2>2. \A i \in Approvals : approvals'[i] # NoApproval => approvals'[i].order \in Orders
        <3>1. ASSUME NEW i \in Approvals, StoreForSecondApproval(h, i)
              PROVE  \A j \in Approvals : approvals'[j] # NoApproval => approvals'[j].order \in Orders
            BY <3>1 DEF StoreForSecondApproval, OrdersAreSubmitted, Mt5Inv, TypeOK
        <3>2. CASE Complete(h)
            <4>1. \A j \in Approvals : approvals[j] = NoApproval \/ approvals[j] \in Approval
                BY DEF Mt5Inv, TypeOK
            <4>2. CASE UNCHANGED approvals
                BY <4>2 DEF OrdersAreSubmitted
            <4>3. CASE req[h].via # Single
                <5>1. req[h].via \in Approvals /\ approvals[req[h].via] \in Approval
                    BY <3>2, <4>1, <4>3 DEF Complete, Mt5Inv, RequestOK, Request
                <5>2. approvals' = [approvals EXCEPT ![req[h].via] =
                          [approvals[req[h].via] EXCEPT !.status = "executed", !.second = req[h].user]]
                    BY <3>2, <4>3 DEF Complete, Resolve
                <5>3. [approvals[req[h].via] EXCEPT !.status = "executed",
                                                    !.second = req[h].user].order
                          = approvals[req[h].via].order
                    BY <5>1 DEF Approval
                <5>4. approvals[req[h].via] # NoApproval
                    BY <5>1, StoredIsApproval DEF Mt5Inv
                <5> QED
                    BY <5>1, <5>2, <5>3, <5>4 DEF OrdersAreSubmitted, Mt5Inv, TypeOK
            <4> QED
                BY <3>2, <4>2, <4>3 DEF Complete, Resolve
        <3>3. CASE UNCHANGED approvals
            BY <3>3 DEF OrdersAreSubmitted
        <3> QED
            BY <1>3, <3>1, <3>2, <3>3
               DEF HandlerStep, AccountIsPaper, BlockLiveOrder, RiskCheck,
                   RouteOrder, UpstreamError, GiveUp, BridgeAccepts, BridgeAnswers
    <2> QED
        BY <2>1, <2>2 DEF OrdersAreSubmitted
<1>4. CASE \/ \E a \in Accounts, m \in AccountModes : UpsertAccount(a, m)
           \/ \E a \in Accounts : WindowPasses(a)
           \/ \E m \in Modes : SetSystemMode(m)
           \/ Activate \/ Reset \/ ControlPlaneRestart \/ GatewayRestart
           \/ UNCHANGED vars
    BY <1>4 DEF UpsertAccount, WindowPasses, SetSystemMode, Activate, Reset, ControlPlaneRestart,
                GatewayRestart, vars, handlerVars, OrdersAreSubmitted
<1> QED
    BY <1>1, <1>2, <1>3, <1>4 DEF Next

\* Whatever mt5_live_second_approve reads back from the approvals table is an
\* order some operator submitted.
THEOREM Mt5OrdersAreSubmitted == Spec => []OrdersAreSubmitted
<1>1. Init => OrdersAreSubmitted
    BY DEF Init, OrdersAreSubmitted
<1>2. Mt5Inv /\ OrdersAreSubmitted /\ [Next]_vars => OrdersAreSubmitted'
    BY SubmittedStep
<1> QED
    BY <1>1, <1>2, Mt5Invariant, PTL DEF Spec

\* A risk check of an MT5 order is a check of the gateway, by one of its modes
\* and of an order it may be sent.
LEMMA Mt5RiskStep ==
    ASSUME Mt5Inv, OrdersAreSubmitted, [Next]_vars
    PROVE  [RiskNext]_riskVars
<1>1. ASSUME NEW h \in Handlers, RiskCheck(h) PROVE RiskNext
    <2>1. req[h].order \in Orders /\ req[h].mode \in Modes
        BY <1>1 DEF RiskCheck, OrdersAreSubmitted, Mt5Inv, RequestOK, Request
    <2> QED
        BY <1>1, <2>1 DEF RiskCheck, RiskNext
<1>2. CASE GatewayRestart
    BY <1>2 DEF GatewayRestart, RiskNext
<1>3. ASSUME NEW h \in Handlers, HandlerStep(h), ~RiskCheck(h) PROVE UNCHANGED riskVars
    BY <1>3 DEF HandlerStep, AccountIsPaper, BlockLiveOrder, StoreForSecondApproval, RouteOrder,
                UpstreamError, GiveUp, BridgeAccepts, BridgeAnswers, Complete
<1> QED
    BY <1>1, <1>2, <1>3
       DEF Next, vars, SubmitMt5Order, SecondApprove, UpsertAccount, WindowPasses, SetSystemMode,
           Activate, Reset, ControlPlaneRestart

\* Every action of the approval desk moves the kill switch as the switch moves
\* by itself: UpstreamError and an excessive slippage count, the operators set
\* and reset it.
LEMMA Mt5KillStep ==
    ASSUME Mt5Inv, [Next]_vars
    PROVE  [KillNext]_ks
<1>1. ASSUME NEW h \in Handlers, HandlerStep(h) PROVE [KillNext]_ks
    <2>1. CASE UpstreamError(h)
        BY <2>1 DEF UpstreamError, KillNext
    <2>2. CASE BridgeAnswers(h)
        BY <2>2 DEF BridgeAnswers, ReportedSlippages, KillNext
    <2> QED
        BY <1>1, <2>1, <2>2
           DEF HandlerStep, AccountIsPaper, BlockLiveOrder, StoreForSecondApproval, RiskCheck,
               RouteOrder, GiveUp, BridgeAccepts, Complete
<1>2. CASE Activate
    BY <1>2 DEF Activate, KillNext
<1>3. CASE Reset
    BY <1>3 DEF Reset, KillNext
<1> QED
    BY <1>1, <1>2, <1>3
       DEF Next, vars, SubmitMt5Order, SecondApprove, UpsertAccount, WindowPasses, SetSystemMode,
           ControlPlaneRestart, GatewayRestart

\* The desk uses the risk gateway as RiskGateway allows it to: each of its
\* steps is a step of the gateway's specification or leaves the gateway alone.
THEOREM Mt5ImplementsRisk == Spec => RiskSpec
<1>1. Init => RiskInit
    BY DEF Init
<1>2. Mt5Inv /\ OrdersAreSubmitted /\ [Next]_vars => [RiskNext]_riskVars
    BY Mt5RiskStep
<1> QED
    BY <1>1, <1>2, Mt5Invariant, Mt5OrdersAreSubmitted, PTL DEF Spec, RiskSpec

\* The desk uses the kill switch as KillSwitch allows it to: each of its steps
\* is a step of the switch's specification or leaves it alone.
THEOREM Mt5ImplementsKill == Spec => KillSpec
<1>1. Init => KillInit
    BY DEF Init
<1>2. Mt5Inv /\ [Next]_vars => [KillNext]_ks
    BY Mt5KillStep
<1> QED
    BY <1>1, <1>2, Mt5Invariant, PTL DEF Spec, KillSpec

\* What the gateway and the switch promise holds when the MT5 desk drives them:
\* the daily budget, the exposure behind it, and a switch that is off being
\* below its thresholds.
THEOREM Mt5KeepsComponentPromises ==
    Spec => [](BudgetRespected /\ ExposureBacked /\ OffMeansBelowThresholds)
BY Mt5ImplementsRisk, Mt5ImplementsKill, RiskBudgetRespected, RiskExposureBacked,
   KillOffMeansBelow, PTL

-----------------------------------------------------------------------------
(* What the switch stops, and what stays of an approval.                    *)

\* Requests past the check of _assert_kill_switch_allows_execution.
Executing == {h \in Handlers : pc[h] \in {"risk", "route", "bridge", "accepted", "sync"}}
\* The approvals proxy_mt5_filtered_order has stored.
Stored == {i \in Approvals : approvals[i] # NoApproval}

\* While the kill switch is on no request newly passes its check and no
\* approval is stored.
SwitchHolds == ks.active => Executing' \subseteq Executing /\ Stored' = Stored

\* An approval, once stored, stays, with its account, its order and its first
\* approver; once executed it stays executed.
ApprovalsAreKept ==
    \A i \in Stored :
        /\ i \in Stored'
        /\ approvals'[i].account = approvals[i].account
        /\ approvals'[i].order = approvals[i].order
        /\ approvals'[i].first = approvals[i].first
        /\ approvals[i].status = "executed" => approvals'[i].status = "executed"

\* Marking an approval executed leaves the rest of it, and the others, alone.
LEMMA ResolveKeeps ==
    ASSUME Mt5Inv, NEW h \in Handlers, Complete(h)
    PROVE  ApprovalsAreKept /\ Stored' = Stored
<1>1. \A i \in Approvals : approvals[i] = NoApproval \/ approvals[i] \in Approval
    BY DEF Mt5Inv, TypeOK
<1>2. CASE UNCHANGED approvals
    BY <1>2 DEF ApprovalsAreKept, Stored
<1>3. CASE req[h].via # Single
    <2> DEFINE i == req[h].via
               resolved == [approvals[i] EXCEPT !.status = "executed", !.second = req[h].user]
    <2>1. i \in Approvals /\ approvals[i] \in Approval /\ approvals[i] # NoApproval
        BY <1>1, <1>3, StoredIsApproval DEF Complete, Mt5Inv, RequestOK, Request
    <2>2. approvals' = [approvals EXCEPT ![i] = resolved]
        BY <1>3 DEF Complete, Resolve
    <2>3. /\ resolved.account = approvals[i].account /\ resolved.order = approvals[i].order
          /\ resolved.first = approvals[i].first /\ resolved.status = "executed"
        BY <2>1 DEF Approval
    <2>4. resolved # NoApproval
        BY <2>3 DEF NoApproval
    <2> HIDE DEF i, resolved
    <2>5. approvals'[i] = resolved /\ \A j \in Approvals : j # i => approvals'[j] = approvals[j]
        BY <2>1, <2>2 DEF Mt5Inv, TypeOK
    <2>6. ApprovalsAreKept
        BY <2>1, <2>3, <2>4, <2>5 DEF ApprovalsAreKept, Stored
    <2>7. Stored' = Stored
        BY <2>1, <2>4, <2>5 DEF Stored
    <2> QED
        BY <2>6, <2>7
<1> QED
    BY <1>2, <1>3 DEF Complete, Resolve

\* Action by action: who writes the approvals, and what the switch stops.
LEMMA GateStep ==
    ASSUME Mt5Inv, [Next]_vars
    PROVE  ApprovalsAreKept /\ SwitchHolds
<1>1. ASSUME NEW h \in Handlers, NEW u \in Users, NEW a \in Accounts, NEW o \in Orders,
             SubmitMt5Order(h, u, a, o)
      PROVE  ApprovalsAreKept /\ SwitchHolds
    BY <1>1 DEF SubmitMt5Order, ApprovalsAreKept, SwitchHolds, Stored
<1>2. ASSUME NEW h \in Handlers, NEW u \in Users, NEW i \in Approvals, SecondApprove(h, u, i)
      PROVE  ApprovalsAreKept /\ SwitchHolds
    BY <1>2 DEF SecondApprove, ApprovalsAreKept, SwitchHolds, Stored
<1>3. ASSUME NEW h \in Handlers, NEW i \in Approvals, StoreForSecondApproval(h, i)
      PROVE  ApprovalsAreKept /\ SwitchHolds
    <2>1. ~ks.active /\ \A j \in Stored : approvals'[j] = approvals[j]
        BY <1>3 DEF StoreForSecondApproval, HardeningBlocks, Stored, Mt5Inv, TypeOK
    <2> QED
        BY <2>1 DEF ApprovalsAreKept, SwitchHolds, Stored
<1>4. ASSUME NEW h \in Handlers, HandlerStep(h),
             ~\E i \in Approvals : StoreForSecondApproval(h, i)
      PROVE  ApprovalsAreKept /\ SwitchHolds
    <2>1. ks.active => Executing' \subseteq Executing
        BY <1>4 DEF HandlerStep, AccountIsPaper, StartExecution, BlockLiveOrder, RiskCheck,
                    RouteOrder, UpstreamError, GiveUp, BridgeAccepts, BridgeAnswers, Complete,
                    Finish, Executing, Mt5Inv, TypeOK
    <2>2. CASE Complete(h)
        BY <2>1, <2>2, ResolveKeeps DEF SwitchHolds
    <2>3. CASE UNCHANGED approvals
        BY <2>1, <2>3 DEF ApprovalsAreKept, SwitchHolds, Stored
    <2> QED
        BY <1>4, <2>2, <2>3
           DEF HandlerStep, AccountIsPaper, BlockLiveOrder, RiskCheck, RouteOrder, UpstreamError,
               GiveUp, BridgeAccepts, BridgeAnswers
<1>5. CASE \/ \E a \in Accounts, m \in AccountModes : UpsertAccount(a, m)
           \/ \E a \in Accounts : WindowPasses(a)
           \/ \E m \in Modes : SetSystemMode(m)
           \/ Activate \/ Reset \/ ControlPlaneRestart \/ GatewayRestart
           \/ UNCHANGED vars
    BY <1>5 DEF UpsertAccount, WindowPasses, SetSystemMode, Activate, Reset, ControlPlaneRestart,
                GatewayRestart, vars, handlerVars, ApprovalsAreKept, SwitchHolds, Stored, Executing
<1> QED
    BY <1>1, <1>2, <1>3, <1>4, <1>5 DEF Next

\* The kill switch stops the desk: proxy_mt5_filtered_order and
\* mt5_live_second_approve start no execution while it is on, and what was
\* under way ends.
THEOREM Mt5SwitchHolds == Spec => [][SwitchHolds]_vars
<1>1. Mt5Inv /\ [Next]_vars => [SwitchHolds]_vars
    BY GateStep
<1> QED
    BY <1>1, Mt5Invariant, PTL DEF Spec

\* What the second operator signs in mt5_live_second_approve is what the first
\* one submitted, however many requests overlap and whatever restarts: the
\* approval a request read is never changed under it.
THEOREM Mt5ApprovalsAreKept == Spec => [][ApprovalsAreKept]_vars
<1>1. Mt5Inv /\ [Next]_vars => [ApprovalsAreKept]_vars
    BY GateStep
<1> QED
    BY <1>1, Mt5Invariant, PTL DEF Spec
=============================================================================
